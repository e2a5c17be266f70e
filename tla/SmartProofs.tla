----------------------------- MODULE SmartProofs -----------------------------
(***************************************************************************)
(* What SmartAlerts and KeywordMatches say, for any runs, views, channels, *)
(* requests, writers, keywords and tenders, and what it is worth for the   *)
(* two side by side (MCSmart).                                             *)
(***************************************************************************)
EXTENDS MCSmart, TLAPS

-----------------------------------------------------------------------------
(* KeywordMatches *)

\* What an operation holds says what the rows say.
Agrees(p) ==
  /\ p \in Request /\ stage[p] \in {"delete", "list", "write"} => words[p] = Active
  /\ p \in Writer /\ stage[p] = "index" =>
       /\ copy[p].tender \in archived <=> p \in kept
       /\ texts[copy[p].tender] = copy[p].text
  /\ p \in Writer /\ stage[p] = "words" =>
       copy[p].tender \notin archived /\ texts[copy[p].tender] = copy[p].text
  /\ p \in Writer /\ stage[p] = "write" => \A m \in todo[p] : m.tender = copy[p].tender
  /\ stage[p] = "write" => \A m \in todo[p] : m.found = Exact(m.tender)

\* So it is for those that have read nothing outdated.
ReadersAgree == \A p \in Op \ stale : Agrees(p)

\* While a clean refresh is at work every row is exact, or deleted and, once the
\* tenders are listed, to be written.
CleanIsComplete ==
  \A p \in clean :
    /\ p \in Request /\ stale = {} /\ stage[p] \in {"list", "write"}
    /\ \A t \in Tender :
         \/ matches[t] = Exact(t)
         \/ /\ matches[t] = {}
            /\ stage[p] = "write" => \E m \in todo[p] : m.tender = t

\* The match rows are exact, wherever the index stands; and it leaves out an open
\* tender only if that is in doubt.
RowsAreExact == \A t \in Tender \ doubt : matches[t] = Exact(t)

UnlistedAreInDoubt == Unlisted \subseteq doubt

Claims == ReadersAgree /\ CleanIsComplete /\ RowsAreExact /\ UnlistedAreInDoubt

KeywordsInv == KeywordsTypeOK /\ Claims

USE DEF Goes, Op, Unlisted

LEMMA TypesInit == KeywordsInit => KeywordsTypeOK
BY KeywordsAssumption DEF KeywordsInit, KeywordsTypeOK, NoCopy

LEMMA InvInit == KeywordsInit => KeywordsInv
<1> SUFFICES ASSUME KeywordsInit PROVE KeywordsInv
  OBVIOUS
<1>1. \A t \in Tender : Exact(t) = {}
  BY DEF KeywordsInit, Exact, Active
<1> QED
  BY <1>1, TypesInit
     DEF KeywordsInit, KeywordsInv, Claims, ReadersAgree, Agrees, CleanIsComplete,
         RowsAreExact, UnlistedAreInDoubt

\* The types, action by action.
LEMMA TypesNext == KeywordsTypeOK /\ [KeywordsNext]_keywordVars => KeywordsTypeOK'
<1> SUFFICES ASSUME KeywordsTypeOK, [KeywordsNext]_keywordVars PROVE KeywordsTypeOK'
  OBVIOUS
<1> USE DEF KeywordsTypeOK, keywordRows, result, copies, keywordNotes
<1>1. CASE UNCHANGED keywordVars
  BY <1>1 DEF keywordVars
<1>2. ASSUME NEW p \in Request, NEW i \in Row, NEW word \in Word \cup {Off},
             SetKeyword(p, i, word)
      PROVE  KeywordsTypeOK'
  BY <1>2 DEF SetKeyword, Outdates, ReadWords
<1>3. ASSUME NEW p \in Request,
             AskRefresh(p) \/ SetRunning(p) \/ ReadKeywords(p) \/ DeleteMatches(p)
      PROVE  KeywordsTypeOK'
  BY <1>3 DEF AskRefresh, SetRunning, ReadKeywords, DeleteMatches, Active
<1>4. ASSUME NEW p \in Request, ListTenders(p) PROVE KeywordsTypeOK'
  BY <1>4 DEF ListTenders
<1>5. ASSUME NEW p \in Op,
             FinishRefresh(p) \/ Fail(p) \/ WriteStats(p) \/ CutOp(p)
      PROVE  KeywordsTypeOK'
  <2>1. OpEnds(p) /\ UNCHANGED keywordRows /\ UNCHANGED matches
    BY <1>5 DEF FinishRefresh, Fail, WriteStats, CutOp
  <2>2. NoCopy \in [tender : Tender, text : SUBSET Word]
    BY KeywordsAssumption DEF NoCopy
  <2>3. status' \in {"pending", "running", "success", "failed"} /\ abandoned' \subseteq Request
        /\ doubt' \subseteq Tender
    BY <1>5 DEF FinishRefresh, Fail, WriteStats, CutOp, SetStatus
  <2> HIDE DEF NoCopy
  <2> QED
    BY <2>1, <2>2, <2>3 DEF OpEnds
<1>6. ASSUME NEW w \in Writer, NEW t \in Tender, NEW text \in Texts, UpsertTender(w, t, text)
      PROVE  KeywordsTypeOK'
  BY <1>6, KeywordsAssumption DEF UpsertTender
<1>7. ASSUME NEW w \in Writer, WriteTender(w) PROVE KeywordsTypeOK'
  BY <1>7, KeywordsAssumption DEF WriteTender, Outdates, ReadTender, Match
<1>8. ASSUME NEW w \in Writer, MatchTender(w) \/ WriteIndex(w) PROVE KeywordsTypeOK'
  BY <1>8 DEF MatchTender, WriteIndex, Match
<1>9. ASSUME NEW p \in Op, WriteMatch(p) PROVE KeywordsTypeOK'
  BY <1>9 DEF WriteMatch, Match
<1>10. ASSUME NEW t \in Tender, Archive(t) PROVE KeywordsTypeOK'
  BY <1>10 DEF Archive, Outdates, ReadTender
<1> QED
  BY <1>1, <1>2, <1>3, <1>4, <1>5, <1>6, <1>7, <1>8, <1>9, <1>10 DEF KeywordsNext

-----------------------------------------------------------------------------
(* The invariant, for the rows to be told from their copies *)

\* A step of one operation that changes no row leaves the others in agreement.
LEMMA OthersAgree ==
  ASSUME KeywordsInv, NEW p \in Op, UNCHANGED keywordRows,
         stale \subseteq stale' \cup {p},
         \A q \in Op \ {p} : /\ stage'[q] = stage[q] /\ words'[q] = words[q]
                             /\ q \in Writer => copy'[q] = copy[q]
                             /\ todo'[q] = todo[q] /\ (q \in kept' <=> q \in kept)
  PROVE  /\ Active' = Active /\ \A t \in Tender : Exact(t)' = Exact(t)
         /\ \A q \in Op \ {p} : q \notin stale' => Agrees(q)'
<1>1. Active' = Active /\ \A t : Exact(t)' = Exact(t)
  BY DEF keywordRows, Exact, Active
<1>2. ASSUME NEW q \in Op \ {p}, q \notin stale' PROVE Agrees(q)'
  <2>1. Agrees(q)
    BY <1>2 DEF KeywordsInv, Claims, ReadersAgree
  <2> QED
    BY <1>1, <1>2, <2>1 DEF Agrees, keywordRows
<1> QED
  BY <1>1, <1>2

\* A keyword changes: all rows are in doubt, and who has read keywords is stale.
LEMMA SetKeywordKeeps ==
  ASSUME KeywordsInv, NEW p \in Request, NEW i \in Row, NEW word \in Word \cup {Off},
         SetKeyword(p, i, word)
  PROVE  Claims'
<1> USE DEF KeywordsInv, Claims, KeywordsTypeOK, UnlistedAreInDoubt
<1>1. /\ stage[p] = "idle" /\ stage' = [stage EXCEPT ![p] = "running"]
      /\ stale' = stale \cup ReadWords /\ doubt' = Tender
      /\ UNCHANGED <<texts, archived, hidden, matches, words, copy, kept, todo>>
  BY DEF SetKeyword, Outdates, result
<1>2. RowsAreExact'
  BY <1>1 DEF RowsAreExact
<1>3. ReadersAgree'
  BY <1>1, KeywordsAssumption DEF ReadersAgree, Agrees, ReadWords, Exact
<1>4. CleanIsComplete'
  <2>1. clean' \subseteq clean /\ \A q \in clean' : q \notin ReadWords
    BY <1>1 DEF SetKeyword, Outdates
  <2>2. clean' = {}
    BY <2>1 DEF CleanIsComplete, ReadWords
  <2> QED
    BY <2>2 DEF CleanIsComplete
<1>5. UnlistedAreInDoubt'
  BY <1>1
<1> QED
  BY <1>2, <1>3, <1>4, <1>5 DEF Claims

\* Steps that read, and change neither rows nor matches.
LEMMA ReadKeeps ==
  ASSUME KeywordsInv, NEW p \in Request,
         AskRefresh(p) \/ SetRunning(p) \/ ReadKeywords(p)
  PROVE  Claims'
<1> USE DEF KeywordsInv, Claims, KeywordsTypeOK, UnlistedAreInDoubt
<1>1. UNCHANGED <<keywordRows, matches, copy, kept, todo, stale, clean, doubt>>
  BY DEF AskRefresh, SetRunning, ReadKeywords, keywordRows, result, keywordNotes
<1>2. /\ stage[p] \in {"idle", "running", "words"}
      /\ \E to \in {"running", "words", "delete"} :
           stage' = [stage EXCEPT ![p] = to] /\ (to = "delete" => words'[p] = Active)
      /\ \A q \in Op \ {p} : words'[q] = words[q]
  BY DEF AskRefresh, SetRunning, ReadKeywords
<1>7. /\ Active' = Active /\ \A t \in Tender : Exact(t)' = Exact(t)
      /\ \A q \in Op \ {p} : q \notin stale' => Agrees(q)'
  BY <1>1, <1>2, OthersAgree
<1>3. ReadersAgree'
  <2>1. Agrees(p)'
    BY <1>1, <1>2, <1>7, KeywordsAssumption DEF Agrees
  <2> QED
    BY <1>7, <2>1 DEF ReadersAgree
<1>4. CleanIsComplete'
  BY <1>1, <1>2, <1>7 DEF CleanIsComplete
<1>5. RowsAreExact'
  BY <1>1, <1>7 DEF RowsAreExact
<1>6. UnlistedAreInDoubt'
  BY <1>1 DEF keywordRows
<1> QED
  BY <1>3, <1>4, <1>5, <1>6 DEF Claims

\* All rows are deleted: from here on a refresh without a stale companion is clean.
LEMMA DeleteKeeps ==
  ASSUME KeywordsInv, NEW p \in Request, DeleteMatches(p)
  PROVE  Claims'
<1> USE DEF KeywordsInv, Claims, KeywordsTypeOK, UnlistedAreInDoubt
<1>1. UNCHANGED <<keywordRows, words, copy, kept, todo, stale>>
  BY DEF DeleteMatches, keywordRows
<1>2. /\ stage[p] = "delete" /\ stage' = [stage EXCEPT ![p] = "list"]
      /\ clean' = (IF stale = {} THEN {p} ELSE {}) /\ doubt' = Tender
      /\ matches' = [t \in Tender |-> {}]
  BY DEF DeleteMatches
<1>7. /\ Active' = Active /\ \A t \in Tender : Exact(t)' = Exact(t)
      /\ \A q \in Op \ {p} : q \notin stale' => Agrees(q)'
  BY <1>1, <1>2, OthersAgree
<1>3. ReadersAgree'
  <2>1. p \notin stale => Agrees(p)'
    BY <1>1, <1>2, <1>7, KeywordsAssumption DEF ReadersAgree, Agrees
  <2> QED
    BY <1>1, <1>7, <2>1 DEF ReadersAgree
<1>4. CleanIsComplete'
  BY <1>1, <1>2 DEF CleanIsComplete
<1>5. RowsAreExact'
  BY <1>2 DEF RowsAreExact
<1>6. UnlistedAreInDoubt'
  BY <1>1, <1>2 DEF keywordRows
<1> QED
  BY <1>3, <1>4, <1>5, <1>6 DEF Claims

LEMMA ListKeeps ==
  ASSUME KeywordsInv, NEW p \in Request, ListTenders(p)
  PROVE  Claims'
<1> USE DEF KeywordsInv, Claims, KeywordsTypeOK, UnlistedAreInDoubt
<1>1. UNCHANGED <<keywordRows, matches, words, copy, kept, stale, clean, doubt>>
  BY DEF ListTenders, keywordRows, result, keywordNotes
<1>2. /\ stage[p] = "list" /\ stage' = [stage EXCEPT ![p] = "write"]
      /\ \A q \in Op \ {p} : todo'[q] = todo[q]
  BY DEF ListTenders
<1>3. ASSUME words[p] = Active
      PROVE  /\ \A m \in todo'[p] : m.found = Exact(m.tender)
             /\ \A t \in Tender : Exact(t) # {} => \E m \in todo'[p] : m.tender = t
  <2> DEFINE found == [t \in Tender \ archived |-> texts[t] \cap words[p]]
             new == {m \in Match : /\ m.tender \in DOMAIN found
                                   /\ m.found = found[m.tender] /\ m.found # {}}
  <2>1. todo'[p] = new
    BY DEF ListTenders
  <2>2. \A m \in new : m.found = Exact(m.tender)
    BY <1>3 DEF Exact
  <2>3. ASSUME NEW t \in Tender, Exact(t) # {} PROVE \E m \in new : m.tender = t
    <3> DEFINE m == [tender |-> t, found |-> Exact(t)]
    <3>1. t \notin archived /\ Exact(t) = texts[t] \cap Active /\ Exact(t) \subseteq Word
      BY <2>3 DEF Exact
    <3>2. m \in Match /\ m.tender = t /\ m.found = Exact(t)
      BY <3>1 DEF Match
    <3>3. m \in new
      BY <1>3, <2>3, <3>1, <3>2
    <3> QED
      BY <3>2, <3>3
  <2> QED
    BY <2>1, <2>2, <2>3
<1>7. /\ Active' = Active /\ \A t \in Tender : Exact(t)' = Exact(t)
      /\ \A q \in Op \ {p} : q \notin stale' => Agrees(q)'
  BY <1>1, <1>2, OthersAgree
<1>8. \A m \in todo'[p] : m.tender \in Tender
  BY DEF ListTenders, Match
<1>4. ReadersAgree'
  <2>1. p \notin stale => words[p] = Active
    BY <1>2 DEF ReadersAgree, Agrees
  <2>2. p \notin stale => Agrees(p)'
    BY <1>1, <1>2, <1>3, <1>7, <1>8, <2>1, KeywordsAssumption DEF Agrees
  <2> QED
    BY <1>1, <1>7, <2>2 DEF ReadersAgree
<1>5. CleanIsComplete'
  <2>1. p \in clean => words[p] = Active
    BY <1>2 DEF CleanIsComplete, ReadersAgree, Agrees
  <2>2. stale' = stale /\ clean' = clean /\ matches' = matches
    BY <1>1
  <2>3. ASSUME NEW q \in clean, NEW t \in Tender
        PROVE  \/ matches'[t] = Exact(t)'
               \/ matches'[t] = {} /\ (stage'[q] = "write" => \E m \in todo'[q] : m.tender = t)
    <3>1. /\ q \in Request /\ Exact(t)' = Exact(t)
          /\ \/ matches[t] = Exact(t)
             \/ matches[t] = {} /\ (stage[q] = "write" => \E m \in todo[q] : m.tender = t)
      BY <1>7 DEF CleanIsComplete
    <3>2. CASE q = p
      BY <1>3, <2>1, <2>2, <3>1, <3>2
    <3>3. CASE q # p
      BY <1>2, <2>2, <3>1, <3>3
    <3> QED
      BY <3>2, <3>3
  <2> QED
    BY <1>2, <2>2, <2>3 DEF CleanIsComplete
<1>6. RowsAreExact'
  BY <1>1, <1>7 DEF RowsAreExact
<1>9. UnlistedAreInDoubt'
  BY <1>1 DEF keywordRows
<1> QED
  BY <1>4, <1>5, <1>6, <1>9 DEF Claims

\* The end of an operation.  A clean refresh has written all that was to be written.
LEMMA EndKeeps ==
  ASSUME KeywordsInv, NEW p \in Op,
         FinishRefresh(p) \/ Fail(p) \/ WriteStats(p) \/ CutOp(p)
  PROVE  Claims'
<1> USE DEF KeywordsInv, Claims, KeywordsTypeOK, UnlistedAreInDoubt
<1>1. OpEnds(p) /\ UNCHANGED keywordRows /\ UNCHANGED matches
  BY DEF FinishRefresh, Fail, WriteStats, CutOp, result
<1>2. /\ stage'[p] = "idle" /\ stale' = stale \ {p} /\ clean' = clean \ {p}
      /\ \A q \in Op \ {p} : /\ stage'[q] = stage[q] /\ words'[q] = words[q]
                             /\ q \in Writer => copy'[q] = copy[q]
                             /\ todo'[q] = todo[q] /\ (q \in kept' <=> q \in kept)
  BY <1>1 DEF OpEnds
<1>3. /\ Active' = Active /\ \A t \in Tender : Exact(t)' = Exact(t)
      /\ \A q \in Op \ {p} : q \notin stale' => Agrees(q)'
  BY <1>1, <1>2, OthersAgree
<1>4. ReadersAgree'
  <2>1. Agrees(p)'
    BY <1>2 DEF Agrees
  <2> QED
    BY <1>3, <2>1 DEF ReadersAgree
<1>5. CleanIsComplete'
  BY <1>1, <1>2, <1>3 DEF CleanIsComplete
<1>6. RowsAreExact'
  <2>1. CASE FinishRefresh(p) /\ p \in clean
    <3>1. \A t \in Tender : matches[t] = Exact(t) \/ matches[t] = {}
      BY <2>1 DEF CleanIsComplete
    <3>2. \A t \in Tender : matches[t] = Exact(t)
      BY <2>1 DEF CleanIsComplete, FinishRefresh
    <3> QED
      BY <1>1, <1>3, <3>2 DEF RowsAreExact
  <2>2. CASE doubt' = doubt
    BY <1>1, <1>3, <2>2 DEF RowsAreExact
  <2> QED
    BY <2>1, <2>2 DEF FinishRefresh, Fail, WriteStats, CutOp
<1>7. UnlistedAreInDoubt'
  <2>1. doubt' = doubt \/ doubt' = Unlisted
    BY DEF FinishRefresh, Fail, WriteStats, CutOp
  <2> QED
    BY <1>1, <2>1 DEF keywordRows
<1> QED
  BY <1>4, <1>5, <1>6, <1>7 DEF Claims

LEMMA TakeKeeps ==
  ASSUME KeywordsInv, NEW w \in Writer,
         \/ \E t \in Tender, text \in Texts : UpsertTender(w, t, text)
         \/ MatchTender(w)
  PROVE  Claims'
<1> USE DEF KeywordsInv, Claims, KeywordsTypeOK, UnlistedAreInDoubt
<1>1. /\ UNCHANGED <<keywordRows, matches, words, stale, clean, doubt>>
      /\ \E to \in {"row", "write"} : stage' = [stage EXCEPT ![w] = to]
      /\ \A q \in Writer \ {w} : copy'[q] = copy[q]
      /\ \A q \in Op \ {w} : todo'[q] = todo[q] /\ (q \in kept' <=> q \in kept)
  BY DEF UpsertTender, MatchTender, result, keywordNotes
<1>2. /\ Active' = Active /\ \A t \in Tender : Exact(t)' = Exact(t)
      /\ \A q \in Op \ {w} : q \notin stale' => Agrees(q)'
  BY <1>1, OthersAgree
<1>3. ReadersAgree'
  <2>1. CASE \E t \in Tender, text \in Texts : UpsertTender(w, t, text)
    <3>1. stage'[w] = "row"
      BY <2>1 DEF UpsertTender
    <3> QED
      BY <1>2, <3>1, KeywordsAssumption DEF ReadersAgree, Agrees
  <2>2. CASE MatchTender(w)
    <3>1. /\ stage[w] = "words" /\ stage'[w] = "write" /\ copy' = copy
          /\ todo'[w] = {[tender |-> copy[w].tender, found |-> copy[w].text \cap Active]}
      BY <2>2 DEF MatchTender
    <3>2. w \notin stale => copy[w].text \cap Active = Exact(copy[w].tender)
      BY <3>1 DEF ReadersAgree, Agrees, Exact
    <3>3. w \notin stale => Agrees(w)'
      BY <1>2, <3>1, <3>2, KeywordsAssumption DEF Agrees
    <3> QED
      BY <1>1, <1>2, <3>3 DEF ReadersAgree
  <2> QED
    BY <2>1, <2>2
<1>4. CleanIsComplete'
  BY <1>1, <1>2, KeywordsAssumption DEF CleanIsComplete
<1>5. RowsAreExact'
  BY <1>1, <1>2 DEF RowsAreExact
<1>6. UnlistedAreInDoubt'
  BY <1>1 DEF keywordRows
<1> QED
  BY <1>3, <1>4, <1>5, <1>6 DEF Claims

\* A row of a tender changes, when it is written or archived: who has read it is
\* stale, and so no refresh is clean any more that has begun with its rows.
LEMMA TenderKeeps ==
  ASSUME KeywordsInv, NEW t \in Tender, Outdates(ReadTender(t)),
         UNCHANGED <<keywords, words>>,
         \A s \in Tender \ {t} : texts'[s] = texts[s] /\ (s \in archived' <=> s \in archived),
         NEW W \in SUBSET Writer,
         \A q \in Op \ W : stage'[q] = stage[q] /\ todo'[q] = todo[q],
         \A q \in Writer \ W : copy'[q] = copy[q] /\ (q \in kept' <=> q \in kept)
  PROVE  /\ CleanIsComplete'
         /\ \A q \in Op \ W : q \notin stale' => Agrees(q)'
<1> USE DEF KeywordsInv, Claims, KeywordsTypeOK, UnlistedAreInDoubt
<1>1. Active' = Active /\ \A s \in Tender \ {t} : Exact(s)' = Exact(s)
  <2>1. Active' = Active
    BY DEF Active
  <2>2. ASSUME NEW s \in Tender \ {t} PROVE Exact(s)' = Exact(s)
    <3>1. texts'[s] = texts[s] /\ (s \in archived' <=> s \in archived)
      OBVIOUS
    <3> QED
      BY <2>1, <3>1 DEF Exact
  <2> QED
    BY <2>1, <2>2
<1>2. CleanIsComplete'
  <2>1. clean' \subseteq clean /\ \A q \in clean' : q \notin ReadTender(t)
    BY DEF Outdates
  <2>2. clean' = {}
    BY <2>1 DEF CleanIsComplete, ReadTender
  <2> QED
    BY <2>2 DEF CleanIsComplete
<1>3. ASSUME NEW q \in Op \ W, q \notin stale' PROVE Agrees(q)'
  <2>1. Agrees(q) /\ q \notin ReadTender(t)
    BY <1>3 DEF ReadersAgree, Outdates
  <2>2. CASE q \in Request
    BY <1>1, <2>1, <2>2, KeywordsAssumption DEF Agrees, ReadTender
  <2>3. CASE q \in Writer
    BY <1>1, <2>1, <2>3, KeywordsAssumption DEF Agrees, ReadTender, Match
  <2> QED
    BY <2>2, <2>3
<1> QED
  BY <1>2, <1>3

LEMMA WriteTenderKeeps ==
  ASSUME KeywordsInv, NEW w \in Writer, WriteTender(w)
  PROVE  Claims'
<1> USE DEF KeywordsInv, Claims, KeywordsTypeOK, UnlistedAreInDoubt
<1> DEFINE t == copy[w].tender
<1>1. /\ t \in Tender /\ UNCHANGED <<keywords, words, copy, kept, matches, hidden, todo>>
      /\ \A s \in Tender \ {t} : texts'[s] = texts[s] /\ (s \in archived' <=> s \in archived)
      /\ texts'[t] = copy[w].text /\ (t \in archived' <=> w \in kept)
      /\ stage'[w] = "index" /\ \A q \in Op \ {w} : stage'[q] = stage[q]
      /\ doubt' = doubt \cup {t} /\ Outdates(ReadTender(t))
  BY DEF WriteTender, result
<1>2. /\ CleanIsComplete'
      /\ \A q \in Op \ {w} : q \notin stale' => Agrees(q)'
  <2> HIDE DEF t
  <2> QED
    BY <1>1, TenderKeeps
<1>3. Agrees(w)'
  BY <1>1, KeywordsAssumption DEF Agrees
<1>4. ReadersAgree'
  BY <1>2, <1>3 DEF ReadersAgree
<1>5. RowsAreExact'
  BY <1>1 DEF RowsAreExact, Exact, Active
<1>6. UnlistedAreInDoubt'
  BY <1>1
<1> QED
  BY <1>2, <1>4, <1>5, <1>6 DEF Claims

\* The index is written: what it says, unless its writer is stale, the row says.
LEMMA WriteIndexKeeps ==
  ASSUME KeywordsInv, NEW w \in Writer, WriteIndex(w)
  PROVE  Claims'
<1> USE DEF KeywordsInv, Claims, KeywordsTypeOK, UnlistedAreInDoubt
<1> DEFINE t == copy[w].tender
<1>1. /\ t \in Tender /\ stage[w] = "index"
      /\ UNCHANGED <<keywords, texts, archived, matches, words, copy, kept, stale, clean>>
      /\ \A s \in Tender \ {t} : s \in hidden' <=> s \in hidden
      /\ t \in hidden' <=> w \in kept
      /\ \A q \in Op \ {w} : stage'[q] = stage[q] /\ todo'[q] = todo[q]
      /\ doubt' = IF w \in stale THEN doubt \cup {t} ELSE doubt
  BY DEF WriteIndex, result
<1>2. \/ stage'[w] = "words" /\ w \notin kept
      \/ stage'[w] = "write" /\ w \in kept /\ todo'[w] = {[tender |-> t, found |-> {}]}
  BY DEF WriteIndex
<1>3. w \notin stale => (t \in archived <=> w \in kept) /\ texts[t] = copy[w].text
  BY <1>1 DEF ReadersAgree, Agrees
<1>4. Active' = Active /\ \A s \in Tender : Exact(s)' = Exact(s)
  BY <1>1 DEF Active, Exact
<1>5. ASSUME w \notin stale PROVE Agrees(w)'
  <2>1. w \notin Request
    BY KeywordsAssumption
  <2>2. CASE stage'[w] = "words" /\ w \notin kept
    BY <1>1, <1>3, <1>5, <2>1, <2>2 DEF Agrees
  <2>3. CASE /\ stage'[w] = "write" /\ w \in kept
             /\ todo'[w] = {[tender |-> t, found |-> {}]}
    <3>1. Exact(t)' = {}
      BY <1>1, <1>3, <1>5, <2>3 DEF Exact
    <3> QED
      BY <1>1, <2>1, <2>3, <3>1 DEF Agrees
  <2> QED
    BY <1>2, <2>2, <2>3
<1>6. ASSUME NEW q \in Op \ {w}, q \notin stale PROVE Agrees(q)'
  <2>1. Agrees(q)
    BY <1>6 DEF ReadersAgree
  <2> QED
    BY <1>1, <1>4, <2>1 DEF Agrees, Match
<1>7. ReadersAgree'
  BY <1>1, <1>5, <1>6 DEF ReadersAgree
<1>8. CleanIsComplete'
  BY <1>1, <1>4, KeywordsAssumption DEF CleanIsComplete
<1>9. RowsAreExact'
  BY <1>1, <1>4 DEF RowsAreExact
<1>10. UnlistedAreInDoubt'
  <2>1. ASSUME NEW s \in Tender, s \in hidden', s \notin archived' PROVE s \in doubt'
    <3>1. CASE s = t
      BY <1>1, <1>3, <2>1, <3>1
    <3>2. CASE s # t
      BY <1>1, <2>1, <3>2
    <3> QED
      BY <3>1, <3>2
  <2>2. hidden' \subseteq Tender
    BY DEF WriteIndex
  <2> QED
    BY <2>1, <2>2
<1> QED
  BY <1>7, <1>8, <1>9, <1>10 DEF Claims

LEMMA ArchiveKeeps ==
  ASSUME KeywordsInv, NEW t \in Tender, Archive(t)
  PROVE  Claims'
<1> USE DEF KeywordsInv, Claims, KeywordsTypeOK, UnlistedAreInDoubt
<1>1. /\ UNCHANGED <<keywords, texts, words, stage, todo, copy, kept>>
      /\ archived' = archived \cup {t} /\ hidden' = hidden \cup {t}
      /\ doubt' = doubt \ (archived' \cap hidden')
      /\ matches' = [s \in Tender |-> IF s \in hidden' THEN {} ELSE matches[s]]
      /\ Outdates(ReadTender(t))
  BY DEF Archive, copies
<1>2. /\ CleanIsComplete'
      /\ \A q \in Op \ {} : q \notin stale' => Agrees(q)'
  BY <1>1, TenderKeeps
<1>3. ReadersAgree'
  BY <1>2 DEF ReadersAgree
<1>4. RowsAreExact'
  <2>1. Active' = Active
    BY <1>1 DEF Active
  <2>2. ASSUME NEW s \in Tender, s \in archived' \cap hidden' PROVE matches'[s] = Exact(s)'
    BY <1>1, <2>2 DEF Exact
  <2>3. ASSUME NEW s \in Tender \ doubt', s \notin archived' \cap hidden'
        PROVE  matches'[s] = Exact(s)'
    <3>1. s \notin doubt /\ s \notin hidden' /\ s # t
      BY <1>1, <2>3
    <3> QED
      BY <1>1, <2>1, <3>1 DEF Exact, RowsAreExact
  <2> QED
    BY <2>2, <2>3 DEF RowsAreExact
<1>5. UnlistedAreInDoubt'
  BY <1>1
<1> QED
  BY <1>2, <1>3, <1>4, <1>5 DEF Claims

\* A match is written.  It is exact, or its writer is stale and there is no clean
\* refresh.
LEMMA WriteMatchKeeps ==
  ASSUME KeywordsInv, NEW p \in Op, WriteMatch(p)
  PROVE  Claims'
<1> USE DEF KeywordsInv, Claims, KeywordsTypeOK, UnlistedAreInDoubt
<1>1. PICK m \in todo[p] :
        /\ matches' = [matches EXCEPT ![m.tender] = m.found]
        /\ todo' = [todo EXCEPT ![p] = @ \ {m}]
        /\ doubt' = IF p \in stale THEN doubt \cup {m.tender}
                    ELSE IF p \in Writer THEN doubt \ ({m.tender} \ Unlisted) ELSE doubt
  BY DEF WriteMatch
<1>2. /\ stage[p] = "write" /\ UNCHANGED <<keywordRows, stage, words, copy, kept, stale, clean>>
      /\ m \in Match /\ m.tender \in Tender
  BY <1>1 DEF WriteMatch, Match
<1>3. /\ Active' = Active /\ \A t \in Tender : Exact(t)' = Exact(t)
      /\ \A q \in Op \ {p} : q \notin stale' => Agrees(q)'
  BY <1>1, <1>2, OthersAgree
<1>4. p \notin stale => m.found = Exact(m.tender)
  BY <1>1, <1>2 DEF ReadersAgree, Agrees
<1>5. ReadersAgree'
  <2>1. p \notin stale => Agrees(p)
    BY DEF ReadersAgree
  <2>2. p \notin stale => Agrees(p)'
    BY <1>1, <1>2, <1>3, <2>1, KeywordsAssumption DEF Agrees, Match, keywordRows
  <2> QED
    BY <1>2, <1>3, <2>2 DEF ReadersAgree
<1>6. RowsAreExact'
  BY <1>1, <1>2, <1>3, <1>4 DEF RowsAreExact
<1>7. CleanIsComplete'
  <2> SUFFICES ASSUME NEW q \in clean, NEW t \in Tender
               PROVE  \/ matches'[t] = Exact(t)
                      \/ /\ matches'[t] = {}
                         /\ stage[q] = "write" => \E n \in todo'[q] : n.tender = t
    BY <1>2, <1>3 DEF CleanIsComplete
  <2>1. /\ stale = {} /\ q \in Op
        /\ \/ matches[t] = Exact(t)
           \/ matches[t] = {} /\ (stage[q] = "write" => \E n \in todo[q] : n.tender = t)
    BY DEF CleanIsComplete
  <2>2. CASE t = m.tender
    BY <1>1, <1>4, <2>1, <2>2
  <2>3. CASE t # m.tender
    BY <1>1, <2>1, <2>3
  <2> QED
    BY <2>2, <2>3
<1>8. UnlistedAreInDoubt'
  BY <1>1, <1>2 DEF keywordRows
<1> QED
  BY <1>5, <1>6, <1>7, <1>8 DEF Claims

-----------------------------------------------------------------------------

LEMMA InvNext == KeywordsInv /\ [KeywordsNext]_keywordVars => KeywordsInv'
<1> SUFFICES ASSUME KeywordsInv, [KeywordsNext]_keywordVars PROVE KeywordsInv'
  OBVIOUS
<1>1. KeywordsTypeOK'
  BY TypesNext DEF KeywordsInv
<1>2. ASSUME UNCHANGED keywordVars PROVE Claims'
  <2>1. UNCHANGED <<keywords, texts, archived, hidden, matches, stage, words, copy, kept, todo,
                 stale, clean, doubt>>
    BY <1>2 DEF keywordVars, keywordRows, result, copies, keywordNotes
  <2>2. Active' = Active /\ \A t : Exact(t)' = Exact(t)
    BY <2>1 DEF Active, Exact
  <2>3. ReadersAgree'
    BY <2>1, <2>2 DEF KeywordsInv, Claims, ReadersAgree, Agrees
  <2>4. CleanIsComplete' /\ RowsAreExact' /\ UnlistedAreInDoubt'
    BY <2>1, <2>2 DEF KeywordsInv, Claims, CleanIsComplete, RowsAreExact, UnlistedAreInDoubt
  <2> QED
    BY <2>3, <2>4 DEF Claims
<1>3. ASSUME NEW p \in Request, NEW i \in Row, NEW word \in Word \cup {Off},
             SetKeyword(p, i, word)
      PROVE  Claims'
  BY <1>3, SetKeywordKeeps
<1>4. ASSUME NEW p \in Request,
             \/ AskRefresh(p) \/ SetRunning(p) \/ ReadKeywords(p) \/ DeleteMatches(p)
             \/ ListTenders(p) \/ FinishRefresh(p) \/ Fail(p)
      PROVE  Claims'
  BY <1>4, ReadKeeps, DeleteKeeps, ListKeeps, EndKeeps
<1>5. ASSUME NEW w \in Writer,
             \/ \E t \in Tender, text \in Texts : UpsertTender(w, t, text)
             \/ WriteTender(w) \/ WriteIndex(w) \/ MatchTender(w) \/ WriteStats(w)
      PROVE  Claims'
  BY <1>5, TakeKeeps, WriteTenderKeeps, WriteIndexKeeps, EndKeeps
<1>6. ASSUME NEW p \in Op, WriteMatch(p) \/ CutOp(p) PROVE Claims'
  BY <1>6, WriteMatchKeeps, EndKeeps
<1>7. ASSUME NEW t \in Tender, Archive(t) PROVE Claims'
  BY <1>7, ArchiveKeeps
<1> QED
  BY <1>1, <1>2, <1>3, <1>4, <1>5, <1>6, <1>7 DEF KeywordsNext, KeywordsInv

\* KeywordsTypeOK: the rows and copies of the keyword search have their types.
THEOREM KeywordsTypes == KeywordsSpec => []KeywordsTypeOK
BY InvInit, InvNext, PTL DEF KeywordsSpec, KeywordsInv

\* MatchesAreExact: what the keyword page joins from the match rows, which
\* RefreshKeywordMatches and refreshKeywordProfileForTender write, and from the
\* index is what the keywords say, for any number of overlapping requests, writers
\* and cleanups; only copies that were read before a change, a write that stopped
\* between its statements, and what is still to be refreshed leave a tender in doubt.
THEOREM MatchesStayExact == KeywordsSpec => []MatchesAreExact
<1>1. KeywordsInv => MatchesAreExact
  BY DEF KeywordsInv, Claims, MatchesAreExact, RowsAreExact, UnlistedAreInDoubt, Listed, Exact
<1> QED
  BY <1>1, InvInit, InvNext, PTL DEF KeywordsSpec

\* RunningIsTrue: the status of a profile is "running" only while a refresh runs or
\* after one was cut off.
THEOREM StatusIsTrue == KeywordsSpec => []RunningIsTrue
<1>1. KeywordsInit => RunningIsTrue
  BY DEF KeywordsInit, RunningIsTrue
<1>2. KeywordsTypeOK /\ RunningIsTrue /\ [KeywordsNext]_keywordVars => RunningIsTrue'
  <2> DEFINE Busy(p) == stage[p] \in {"words", "delete", "list", "write"}
  <2> SUFFICES ASSUME KeywordsTypeOK, RunningIsTrue, [KeywordsNext]_keywordVars,
                      status' = "running", abandoned' = {}
               PROVE  \E p \in Request : Busy(p)'
    BY DEF RunningIsTrue
  <2> USE KeywordsAssumption DEF KeywordsTypeOK
  <2>1. ASSUME status' = status, abandoned' = abandoned,
               \A p \in Request : Busy(p) => Busy(p)'
        PROVE  \E p \in Request : Busy(p)'
    BY <2>1 DEF RunningIsTrue
  <2> HIDE DEF KeywordsTypeOK
  <2>2. CASE UNCHANGED keywordVars
    BY <2>1, <2>2 DEF keywordVars, result, copies, keywordNotes
  <2> USE DEF KeywordsTypeOK
  <2>3. ASSUME NEW q \in Request,
               \/ \E i \in Row, word \in Word \cup {Off} : SetKeyword(q, i, word)
               \/ AskRefresh(q) \/ ReadKeywords(q) \/ DeleteMatches(q) \/ ListTenders(q)
        PROVE  \E p \in Request : Busy(p)'
    <3>1. /\ status' = status /\ abandoned' = abandoned
          /\ \E to \in {"delete", "list", "write", "running"} :
               stage' = [stage EXCEPT ![q] = to] /\ (to = "running" => stage[q] = "idle")
      BY <2>3 DEF SetKeyword, AskRefresh, ReadKeywords, DeleteMatches, ListTenders, result,
                  keywordNotes
    <3> QED
      BY <2>1, <3>1
  <2>4. ASSUME NEW q \in Request, SetRunning(q) PROVE \E p \in Request : Busy(p)'
    BY <2>4 DEF SetRunning
  <2>5. ASSUME NEW p \in Op, FinishRefresh(p) \/ Fail(p) \/ WriteStats(p) PROVE FALSE
    BY <2>5 DEF FinishRefresh, Fail, WriteStats, SetStatus
  <2>6. ASSUME NEW w \in Writer,
               \/ \E t \in Tender, text \in Texts : UpsertTender(w, t, text)
               \/ WriteTender(w) \/ WriteIndex(w) \/ MatchTender(w)
        PROVE  \E p \in Request : Busy(p)'
    <3>1. /\ status' = status /\ abandoned' = abandoned
          /\ \A p \in Request : stage'[p] = stage[p]
      BY <2>6 DEF UpsertTender, WriteTender, WriteIndex, MatchTender, result, keywordNotes
    <3> QED
      BY <2>1, <3>1
  <2>7. ASSUME NEW p \in Op, WriteMatch(p) PROVE \E q \in Request : Busy(q)'
    BY <2>1, <2>7 DEF WriteMatch
  <2>8. ASSUME NEW p \in Op, CutOp(p) PROVE \E q \in Request : Busy(q)'
    <3>1. status' = status /\ abandoned' = abandoned /\ p \notin Request
      BY <2>8 DEF CutOp, result
    <3> QED
      BY <2>1, <2>8, <3>1 DEF CutOp, OpEnds
  <2>9. ASSUME NEW t \in Tender, Archive(t) PROVE \E q \in Request : Busy(q)'
    BY <2>1, <2>9 DEF Archive, copies
  <2> QED
    BY <2>2, <2>3, <2>4, <2>5, <2>6, <2>7, <2>8, <2>9 DEF KeywordsNext
<1> QED
  BY <1>1, <1>2, KeywordsTypes, PTL DEF KeywordsSpec

HIDE DEF Goes, Op, Unlisted

-----------------------------------------------------------------------------
(* SmartAlerts *)

\* What a run holds before each statement: the delivery under way is one of those
\* it promised and not due any more.
Hands ==
  \A r \in Run :
    /\ due[r] \subseteq promised[r]
    /\ doing[r] \in {"idle", "views"} => promised[r] = {}
    /\ doing[r] \in {"send", "insert"} => key[r] \in Key /\ outcome[r] \in Status

\* A mail that a run will record as sent was sent.
OutcomeIsTrue ==
  \A r \in Run :
    doing[r] = "insert" /\ outcome[r] = "sent" /\ key[r].channel \in Emailing
      => mailed[key[r]] # {}

AlertsInv ==
  /\ AlertsTypeOK /\ Hands /\ OutcomeIsTrue
  /\ MailIsRemembered /\ NoRunRepeatsItself /\ SentWasMailed /\ NothingIsSkipped

USE DEF Recorded, Holding

LEMMA InitKeepsInv == AlertsInit => AlertsInv
<1> SUFFICES ASSUME AlertsInit PROVE AlertsInv
  OBVIOUS
<1>1. AlertsTypeOK
  BY AlertsAssumption DEF AlertsInit, AlertsTypeOK
<1>2. Hands /\ OutcomeIsTrue /\ NoRunRepeatsItself /\ NothingIsSkipped
  BY DEF AlertsInit, Hands, OutcomeIsTrue, NoRunRepeatsItself, NothingIsSkipped
<1>3. MailIsRemembered
  BY DEF AlertsInit, MailIsRemembered
<1>4. SentWasMailed
  BY AlertsAssumption DEF AlertsInit, SentWasMailed, Status
<1> QED
  BY <1>1, <1>2, <1>3, <1>4 DEF AlertsInv

\* What users and administrators change, the runs' copies and history do not see.
LEMMA UsersKeepInv ==
  ASSUME AlertsInv,
         \/ \E on \in Settings : SetSwitches(on)
         \/ \E v \in View : DeleteView(v) \/ \E form \in Forms : SaveView(v, form)
  PROVE  AlertsInv'
<1>1. AlertsTypeOK'
  BY AlertsAssumption
     DEF AlertsInv, AlertsTypeOK, SetSwitches, SaveView, DeleteView, alertRun, alertNotes
<1>2. deliveries' = deliveries /\ UNCHANGED alertRun /\ UNCHANGED alertNotes
  BY DEF SetSwitches, SaveView, DeleteView
<1> QED
  BY <1>1, <1>2
     DEF AlertsInv, Hands, OutcomeIsTrue, MailIsRemembered, NoRunRepeatsItself,
         SentWasMailed, NothingIsSkipped, alertRun, alertNotes

\* A step of a run that neither records nor mails and was not inserting keeps what
\* was remembered: the rows and what other runs do are the same.
LEMMA RememberedByOthers ==
  ASSUME AlertsInv, NEW r \in Run, doing[r] # "insert",
         UNCHANGED <<deliveries, mailed>>,
         unsure \subseteq unsure',
         \A q \in Run \ {r} : doing'[q] = doing[q] /\ key'[q] = key[q]
  PROVE  MailIsRemembered'
<1> SUFFICES ASSUME NEW k \in Key \ unsure', NEW q \in mailed[k]
             PROVE  deliveries[k] # None \/ (doing'[q] = "insert" /\ key'[q] = k)
  BY DEF MailIsRemembered
<1>1. q \in Run /\ k \in Key \ unsure
  BY DEF AlertsInv, AlertsTypeOK
<1>2. deliveries[k] # None \/ (doing[q] = "insert" /\ key[q] = k)
  BY <1>1 DEF AlertsInv, MailIsRemembered
<1> QED
  BY <1>1, <1>2

\* The start of a run, up to its first look.
LEMMA StartKeepsInv ==
  ASSUME AlertsInv, NEW r \in Run,
         \/ \E s \in Subject : Trigger(r, s)
         \/ \E v \in View : TestAlert(r, v)
         \/ ReadViews(r) \/ ReadSwitches(r)
  PROVE  AlertsInv'
<1> USE DEF AlertsInv, AlertsTypeOK
<1>1. ASSUME NEW s \in Subject, Trigger(r, s) PROVE AlertsInv'
  BY <1>1 DEF Trigger, alertRows, alertNotes, Hands, OutcomeIsTrue, MailIsRemembered,
              NoRunRepeatsItself, SentWasMailed, NothingIsSkipped
<1>2. CASE ReadViews(r)
  <2>1. PICK all \in SUBSET Key, dig \in SUBSET View :
          /\ due' = [due EXCEPT ![r] = all]
          /\ digest' = [digest EXCEPT ![r] = dig]
          /\ promised' = [promised EXCEPT ![r] = all]
    <3> DEFINE on == {v \in View : Alerting(v) /\ subject[r] \in views[v].wants}
               all == {k \in Key : /\ k.view \in on /\ k.channel \in views[k.view].channels
                                   /\ k.subject = subject[r]}
               dig == {v \in on : views[v].frequency # "immediate"}
    <3>1. /\ due' = [due EXCEPT ![r] = all] /\ promised' = [promised EXCEPT ![r] = all]
          /\ digest' = [digest EXCEPT ![r] = dig]
      BY <1>2 DEF ReadViews
    <3>2. all \in SUBSET Key /\ dig \in SUBSET View
      OBVIOUS
    <3> HIDE DEF all, dig
    <3> QED
      BY <3>1, <3>2
  <2>2. /\ doing[r] = "views"
        /\ doing' = [doing EXCEPT ![r] = "look"]
        /\ subject' = [subject EXCEPT ![r] = TestSubject]
        /\ UNCHANGED <<alertRows, seen, key, outcome, mailed, unsure>>
    BY <1>2 DEF ReadViews
  <2>3. AlertsTypeOK'
    BY <2>1, <2>2, AlertsAssumption DEF alertRows
  <2>4. Hands' /\ OutcomeIsTrue' /\ NothingIsSkipped'
    BY <2>1, <2>2 DEF alertRows, Hands, OutcomeIsTrue, NothingIsSkipped
  <2>5. MailIsRemembered' /\ NoRunRepeatsItself' /\ SentWasMailed'
    BY <2>1, <2>2 DEF alertRows, MailIsRemembered, NoRunRepeatsItself, SentWasMailed
  <2> QED
    BY <2>3, <2>4, <2>5
<1>3. ASSUME NEW v \in View, TestAlert(r, v) PROVE AlertsInv'
  <2> DEFINE k == [view |-> v, subject |-> TestSubject, channel |-> views[v].first]
  <2>1. k \in Key
    BY <1>3, AlertsAssumption DEF TestAlert, Saved, Key, SavedView
  <2> HIDE DEF k
  <2> QED
    BY <1>3, <2>1
       DEF TestAlert, k, alertRows, Hands, OutcomeIsTrue, MailIsRemembered,
           NoRunRepeatsItself, SentWasMailed, NothingIsSkipped
<1>4. CASE ReadSwitches(r)
  BY <1>4 DEF ReadSwitches, alertRows, alertNotes, Hands, OutcomeIsTrue, MailIsRemembered,
              NoRunRepeatsItself, SentWasMailed, NothingIsSkipped
<1> QED
  BY <1>1, <1>2, <1>3, <1>4

\* Taking up a delivery.  Only here does it matter that what this run has mailed
\* is recorded: the run is looking, so it has no insertion to come.
LEMMA LookKeepsInv ==
  ASSUME AlertsInv, NEW r \in Run, Look(r) \/ LookFails(r)
  PROVE  AlertsInv'
<1> USE DEF AlertsInv, AlertsTypeOK, Deliver
<1>1. CASE Look(r)
  <2>1. PICK k \in due[r] :
          /\ due' = [due EXCEPT ![r] = @ \ {k}]
          /\ IF Recorded(k) THEN UNCHANGED <<doing, key, outcome>> ELSE Deliver(r, k)
    BY <1>1 DEF Look
  <2>2. CASE Recorded(k)
    BY <1>1, <2>1, <2>2
       DEF Look, alertRows, alertNotes, Hands, OutcomeIsTrue, MailIsRemembered,
           NoRunRepeatsItself, SentWasMailed, NothingIsSkipped
  <2>3. CASE ~Recorded(k)
    <3>1. k \in Key /\ (k \notin unsure => r \notin mailed[k])
      BY <1>1, <2>3 DEF Look, MailIsRemembered
    <3>2. /\ Unmailed(r, k) \in Status
          /\ Unmailed(r, k) = "sent" => k.channel \notin Emailing
      BY DEF Unmailed, Status
    <3>3. /\ doing[r] = "look"
          /\ due' = [due EXCEPT ![r] = @ \ {k}]
          /\ Deliver(r, k)
          /\ UNCHANGED <<alertRows, seen, subject, digest, alertNotes>>
      BY <1>1, <2>1, <2>3 DEF Look
    <3> HIDE DEF Recorded
    <3>4. AlertsTypeOK'
      BY <3>1, <3>2, <3>3 DEF alertRows, alertNotes
    <3>5. Hands' /\ OutcomeIsTrue'
      BY <3>1, <3>2, <3>3 DEF alertRows, alertNotes, Hands, OutcomeIsTrue
    <3>6. NothingIsSkipped' /\ SentWasMailed'
      BY <3>1, <3>3 DEF alertRows, alertNotes, Hands, NothingIsSkipped, SentWasMailed, Recorded
    <3>7. MailIsRemembered'
      BY <3>3, RememberedByOthers DEF alertRows, alertNotes
    <3>8. NoRunRepeatsItself'
      BY <3>1, <3>3 DEF alertRows, alertNotes, NoRunRepeatsItself
    <3> QED
      BY <3>4, <3>5, <3>6, <3>7, <3>8
  <2> QED
    BY <2>2, <2>3
<1>2. CASE LookFails(r)
  <2>1. PICK k \in due[r] :
          /\ due' = [due EXCEPT ![r] = @ \ {k}]
          /\ Deliver(r, k)
          /\ unsure' = IF k.channel \in Emailing THEN unsure \cup {k} ELSE unsure
    BY <1>2 DEF LookFails
  <2>2. /\ k \in Key
        /\ Unmailed(r, k) \in Status
        /\ Unmailed(r, k) = "sent" => k.channel \notin Emailing
        /\ NeedsMail(r, k) => k.channel \in Emailing
    BY DEF Unmailed, Status, NeedsMail
  <2>3. /\ doing[r] = "look"
        /\ UNCHANGED <<alertRows, seen, subject, digest, promised, mailed>>
    BY <1>2 DEF LookFails
  <2>4. AlertsTypeOK'
    BY <2>1, <2>2, <2>3 DEF alertRows
  <2>5. Hands' /\ OutcomeIsTrue'
    BY <2>1, <2>2, <2>3 DEF alertRows, Hands, OutcomeIsTrue
  <2>6. NothingIsSkipped' /\ SentWasMailed'
    BY <2>1, <2>2, <2>3 DEF alertRows, Hands, NothingIsSkipped, SentWasMailed
  <2>7. MailIsRemembered'
    BY <2>1, <2>3, RememberedByOthers DEF alertRows
  <2>8. NoRunRepeatsItself'
    BY <2>1, <2>2, <2>3 DEF alertRows, NoRunRepeatsItself
  <2> QED
    BY <2>4, <2>5, <2>6, <2>7, <2>8
<1> QED
  BY <1>1, <1>2

LEMMA SendKeepsInv ==
  ASSUME AlertsInv, NEW r \in Run, Send(r) \/ SendFails(r)
  PROVE  AlertsInv'
<1> USE DEF AlertsInv, AlertsTypeOK
<1>1. CASE Send(r)
  BY <1>1 DEF Send, alertRows, Status, Hands, OutcomeIsTrue, MailIsRemembered,
              NoRunRepeatsItself, SentWasMailed, NothingIsSkipped
<1>2. CASE SendFails(r)
  <2>1. CASE mailed' = mailed
    BY <1>2, <2>1
       DEF SendFails, alertRows, Status, Hands, OutcomeIsTrue, MailIsRemembered,
           NoRunRepeatsItself, SentWasMailed, NothingIsSkipped
  <2>2. CASE mailed' = [mailed EXCEPT ![key[r]] = @ \cup {r}]
    BY <1>2, <2>2
       DEF SendFails, alertRows, Status, Hands, OutcomeIsTrue, MailIsRemembered,
           NoRunRepeatsItself, SentWasMailed, NothingIsSkipped
  <2> QED
    BY <1>2, <2>1, <2>2 DEF SendFails
<1> QED
  BY <1>1, <1>2

\* After the insertion there is a row, this run's or that of another.
LEMMA InsertKeepsInv ==
  ASSUME AlertsInv, NEW r \in Run, Insert(r)
  PROVE  AlertsInv'
<1>1. key[r] \in Key /\ outcome[r] \in Status /\ None \notin Status
  BY AlertsAssumption DEF AlertsInv, Hands, Insert
<1>2. /\ doing[r] = "insert"
      /\ doing' = [doing EXCEPT ![r] = "look"]
      /\ key' = [key EXCEPT ![r] = None] /\ outcome' = [outcome EXCEPT ![r] = None]
      /\ UNCHANGED <<switches, views, seen, subject, due, digest, alertNotes>>
  BY DEF Insert
<1>3. \A k \in Key \ {key[r]} : deliveries'[k] = deliveries[k]
  BY DEF Insert, AlertsInv, AlertsTypeOK
<1>4. deliveries'[key[r]] =
        IF deliveries[key[r]] = None THEN outcome[r] ELSE deliveries[key[r]]
  BY <1>1 DEF Insert, AlertsInv, AlertsTypeOK
<1>5. AlertsTypeOK'
  BY <1>1, <1>2 DEF Insert, AlertsInv, AlertsTypeOK, alertNotes
<1>6. Hands' /\ OutcomeIsTrue' /\ NoRunRepeatsItself'
  BY <1>2 DEF AlertsInv, AlertsTypeOK, alertNotes, Hands, OutcomeIsTrue, NoRunRepeatsItself
<1>7. MailIsRemembered'
  <2> SUFFICES ASSUME NEW k \in Key \ unsure, NEW q \in mailed[k]
               PROVE  deliveries'[k] # None \/ (doing'[q] = "insert" /\ key'[q] = k)
    BY <1>2 DEF MailIsRemembered, alertNotes
  <2>1. q \in Run
    BY DEF AlertsInv, AlertsTypeOK
  <2>2. Recorded(k) \/ (doing[q] = "insert" /\ key[q] = k)
    BY DEF AlertsInv, MailIsRemembered
  <2>3. CASE k = key[r]
    BY <1>1, <1>4, <2>3
  <2>4. CASE k # key[r]
    BY <1>2, <1>3, <2>1, <2>2, <2>4 DEF AlertsInv, AlertsTypeOK
  <2> QED
    BY <2>3, <2>4
<1>8. SentWasMailed'
  BY <1>2, <1>3, <1>4 DEF AlertsInv, AlertsTypeOK, alertNotes, SentWasMailed, OutcomeIsTrue
<1>9. NothingIsSkipped'
  <2> SUFFICES ASSUME NEW q \in Run, NEW k \in promised[q] \ (due[q] \cup Holding(q)')
               PROVE  deliveries'[k] # None
    BY <1>2 DEF NothingIsSkipped, alertNotes
  <2>1. k \in Key
    BY DEF AlertsInv, AlertsTypeOK
  <2>2. CASE k = key[r]
    BY <1>1, <1>4, <2>2
  <2>3. CASE k # key[r]
    BY <1>2, <1>3, <2>1, <2>3 DEF AlertsInv, AlertsTypeOK, NothingIsSkipped
  <2> QED
    BY <2>2, <2>3
<1> QED
  BY <1>5, <1>6, <1>7, <1>8, <1>9 DEF AlertsInv

LEMMA EndKeepsInv ==
  ASSUME AlertsInv, NEW r \in Run, FinishRun(r) \/ CutRun(r)
  PROVE  AlertsInv'
<1>1. /\ unsure \subseteq unsure' /\ unsure' \subseteq Key
      /\ doing[r] = "insert" /\ mailed[key[r]] # {} => key[r] \in unsure'
  BY DEF AlertsInv, AlertsTypeOK, Hands, MailIsRemembered, FinishRun, CutRun
<1>2. RunEnds(r)
  BY DEF FinishRun, CutRun
<1>3. AlertsTypeOK'
  BY <1>1, <1>2, AlertsAssumption DEF AlertsInv, AlertsTypeOK, RunEnds, alertRows
<1>4. Hands' /\ OutcomeIsTrue' /\ NothingIsSkipped'
  BY <1>2 DEF AlertsInv, AlertsTypeOK, RunEnds, alertRows, Hands, OutcomeIsTrue,
              NothingIsSkipped
<1>5. MailIsRemembered'
  <2> SUFFICES ASSUME NEW k \in Key \ unsure', NEW q \in mailed[k]
               PROVE  deliveries[k] # None \/ (doing'[q] = "insert" /\ key'[q] = k)
    BY <1>2 DEF MailIsRemembered, RunEnds, alertRows
  <2>1. q \in Run /\ (deliveries[k] # None \/ (doing[q] = "insert" /\ key[q] = k))
    BY <1>1 DEF AlertsInv, AlertsTypeOK, MailIsRemembered
  <2>2. CASE q = r
    BY <1>1, <2>1, <2>2
  <2>3. CASE q # r
    BY <1>2, <2>1, <2>3 DEF RunEnds, AlertsInv, AlertsTypeOK
  <2> QED
    BY <2>2, <2>3
<1>6. NoRunRepeatsItself' /\ SentWasMailed'
  BY <1>1, <1>2 DEF AlertsInv, AlertsTypeOK, RunEnds, alertRows, NoRunRepeatsItself,
                    SentWasMailed
<1> QED
  BY <1>3, <1>4, <1>5, <1>6 DEF AlertsInv

LEMMA StutterKeepsInv == AlertsInv /\ UNCHANGED alertVars => AlertsInv'
BY DEF AlertsInv, AlertsTypeOK, alertVars, alertRows, alertRun, alertNotes, Hands, OutcomeIsTrue,
       MailIsRemembered, NoRunRepeatsItself, SentWasMailed, NothingIsSkipped

LEMMA NextKeepsInv == AlertsInv /\ [AlertsNext]_alertVars => AlertsInv'
<1> SUFFICES ASSUME AlertsInv, [AlertsNext]_alertVars PROVE AlertsInv'
  OBVIOUS
<1>1. CASE UNCHANGED alertVars
  BY <1>1, StutterKeepsInv
<1>2. CASE \/ \E on \in Settings : SetSwitches(on)
           \/ \E v \in View : DeleteView(v) \/ \E form \in Forms : SaveView(v, form)
  BY <1>2, UsersKeepInv
<1>3. ASSUME NEW r \in Run, RunStep(r) PROVE AlertsInv'
  BY <1>3, StartKeepsInv, LookKeepsInv, SendKeepsInv, InsertKeepsInv, EndKeepsInv DEF RunStep
<1> QED
  BY <1>1, <1>2, <1>3 DEF AlertsNext

THEOREM AlertsInvHolds == AlertsSpec => []AlertsInv
BY InitKeepsInv, NextKeepsInv, PTL DEF AlertsSpec

\* AlertsTypeOK: the rows and copies of alert runs have their types.
THEOREM AlertsTypes == AlertsSpec => []AlertsTypeOK
BY AlertsInvHolds, PTL DEF AlertsInv

\* MailIsRemembered: a mail that recordSmartAlertDelivery sent is recorded under its
\* key, or its run is about to do that, was cut off or could not look.
THEOREM MailIsAlwaysRemembered == AlertsSpec => []MailIsRemembered
BY AlertsInvHolds, PTL DEF AlertsInv

\* NoRunRepeatsItself: a run never sends a mail it has already sent, so that only
\* runs that overlap can send one twice.
THEOREM RunsDoNotRepeatThemselves == AlertsSpec => []NoRunRepeatsItself
BY AlertsInvHolds, PTL DEF AlertsInv

\* SentWasMailed: the deliveries do not claim a mail nobody sent, although of two
\* overlapping runs one may send and the other record.
THEOREM SentIsTrue == AlertsSpec => []SentWasMailed
BY AlertsInvHolds, PTL DEF AlertsInv

\* NothingIsSkipped: errors of the mail server, duplicates and overlapping runs do
\* not keep a run from any channel it owes an alert.
THEOREM NothingIsEverSkipped == AlertsSpec => []NothingIsSkipped
BY AlertsInvHolds, PTL DEF AlertsInv

-----------------------------------------------------------------------------
(* Side by side *)

\* What is proved of each component holds of the two side by side: whichever of
\* them the first state lets move, the other one stays where it is.
THEOREM PartsAreComponents == MCSpec => AlertsSpec /\ KeywordsSpec
<1>1. MCInit => AlertsInit /\ KeywordsInit
  BY DEF MCInit
<1>2. [MCNext]_<<alertVars, keywordVars, part>>
        => [AlertsNext]_alertVars /\ [KeywordsNext]_keywordVars
  BY DEF MCNext
<1>3. QED
  BY <1>1, <1>2, PTL DEF MCSpec, AlertsSpec, KeywordsSpec

\* Rows, copies and what runs, requests and writers hold keep their types.
THEOREM ViewsTypes == MCSpec => []ViewsTypeOK
<1>1. AlertsTypeOK /\ KeywordsTypeOK => ViewsTypeOK
  BY DEF ViewsTypeOK
<1>2. QED
  BY <1>1, PartsAreComponents, AlertsTypes, KeywordsTypes, PTL

=============================================================================
