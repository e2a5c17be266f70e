---------------------------- MODULE KeywordMatches ----------------------------
(***************************************************************************)
(* The keyword search of one user: keyword_match_records as a cache of     *)
(* which open tenders contain which active keywords.  Requests save and    *)
(* delete keywords and recompute all matches, writers store tenders and    *)
(* recompute theirs, the cleanup archives.  One step is one statement; the *)
(* refreshes of a user may overlap, also with any writer.                  *)
(***************************************************************************)
EXTENDS FiniteSets

CONSTANTS
  Request,  \* handlers of keyword pages
  Writer,   \* processes that store tenders
  Row,      \* identifiers of keyword rows
  Word,
  Tender,
  Texts,    \* texts of tenders: the words they contain
  Off       \* a keyword row that is disabled or not there

ASSUME KeywordsAssumption ==
  /\ Request \cap Writer = {}
  /\ Tender # {}
  /\ Texts \subseteq SUBSET Word
  /\ Off \notin Word

VARIABLES
  keywords,  \* keyword_records: the word of a row, or Off
  texts,     \* tenders: their texts
  archived,  \* and the archived ones
  hidden,    \* tender_filter_index: the ones it calls archived, which the page leaves out
  matches,   \* keyword_match_records: the words of the row of a tender, none is no row
  status,    \* keyword_profiles: refresh_status
  stage,     \* the next statement of an operation
  words,     \* the active keywords it has read
  copy,      \* the tender a writer stores, as it was handed to it
  kept,      \* and whether the row it found was archived
  todo,      \* the match rows it has still to write
  stale,     \* history: operations that read what has changed since
  clean,     \* history: refreshes without a stale companion since they deleted
  doubt,     \* history: tenders whose row is not known to be exact
  abandoned  \* history: refreshes given up since the status was last written

Op == Request \cup Writer
keywordRows == <<keywords, texts, archived, hidden>>
result == <<matches, status>>
copies == <<stage, words, copy, kept, todo>>
keywordNotes == <<stale, clean, doubt, abandoned>>
keywordVars == <<keywordRows, result, copies, keywordNotes>>

Active == {keywords[i] : i \in Row} \ {Off}
Match == [tender : Tender, found : SUBSET Word]
NoCopy == [tender |-> CHOOSE t \in Tender : TRUE, text |-> {}]

\* What the row of a tender should be.
Exact(t) == IF t \in archived THEN {} ELSE texts[t] \cap Active

\* What the keyword page lists of a tender: the row, joined with the index.
Listed(t) == IF t \in hidden THEN {} ELSE matches[t]

\* Open tenders that the page leaves out, their index being behind their row.
Unlisted == hidden \ archived

\* The profile exists: a user without one has neither keywords nor matches.
KeywordsInit ==
  /\ keywords = [i \in Row |-> Off]
  /\ texts \in [Tender -> Texts] /\ archived = {} /\ hidden = {}
  /\ matches = [t \in Tender |-> {}] /\ status = "pending"
  /\ stage = [p \in Op |-> "idle"]
  /\ words = [p \in Op |-> {}] /\ todo = [p \in Op |-> {}]
  /\ copy = [w \in Writer |-> NoCopy] /\ kept = {}
  /\ stale = {} /\ clean = {} /\ doubt = {} /\ abandoned = {}

Goes(p, from, to) == stage[p] = from /\ stage' = [stage EXCEPT ![p] = to]

-----------------------------------------------------------------------------
(* What has been read before a change *)

\* Operations that have read the keywords, and those for which a change of tender
\* t comes too late: they have read it, or deleted its row.
ReadWords == {p \in Op : stage[p] \in {"delete", "list", "write"}}
ReadTender(t) ==
  {p \in Request : stage[p] \in {"list", "write"}}
    \cup {w \in Writer : stage[w] \in {"index", "words", "write"} /\ copy[w].tender = t}

Outdates(ops) ==
  /\ stale' = stale \cup ops
  /\ clean' = IF stale' = {} THEN clean ELSE {}

\* An operation is over, and its copies are gone.
OpEnds(p) ==
  /\ stage' = [stage EXCEPT ![p] = "idle"]
  /\ words' = [words EXCEPT ![p] = {}] /\ todo' = [todo EXCEPT ![p] = {}]
  /\ copy' = [w \in Writer |-> IF w = p THEN NoCopy ELSE copy[w]]
  /\ kept' = kept \ {p} /\ stale' = stale \ {p} /\ clean' = clean \ {p}

-----------------------------------------------------------------------------
(* Requests *)

\* UpsertKeyword and DeleteKeyword: the row changes, ...
SetKeyword(p, i, word) ==
  /\ Goes(p, "idle", "running")
  /\ keywords' = [keywords EXCEPT ![i] = word]
  /\ Outdates(ReadWords)
  /\ doubt' = Tender
  /\ UNCHANGED <<texts, archived, hidden, result, words, copy, kept, todo, abandoned>>

\* ... and as when a user asks for it all matches are refreshed.
AskRefresh(p) ==
  /\ Goes(p, "idle", "running")
  /\ UNCHANGED <<keywordRows, result, words, copy, kept, todo, keywordNotes>>

\* RefreshKeywordMatches shows that it runs; an error of this is ignored.
SetRunning(p) ==
  /\ Goes(p, "running", "words")
  /\ \/ status' = "running" /\ abandoned' = {}
     \/ UNCHANGED <<status, abandoned>>
  /\ UNCHANGED <<keywordRows, matches, words, copy, kept, todo, stale, clean, doubt>>

ReadKeywords(p) ==
  /\ Goes(p, "words", "delete")
  /\ words' = [words EXCEPT ![p] = Active]
  /\ UNCHANGED <<keywordRows, result, copy, kept, todo, keywordNotes>>

\* Mutant: only the rows that will be written again are replaced.
DeleteNothing(p) ==
  /\ Goes(p, "delete", "list")
  /\ clean' = IF stale = {} THEN {p} ELSE {}
  /\ doubt' = Tender
  /\ UNCHANGED <<keywordRows, result, words, copy, kept, todo, stale, abandoned>>

DeleteMatches(p) ==
  /\ Goes(p, "delete", "list")
  /\ matches' = [t \in Tender |-> {}]
  /\ clean' = IF stale = {} THEN {p} ELSE {}
  /\ doubt' = Tender
  /\ UNCHANGED <<keywordRows, status, words, copy, kept, todo, stale, abandoned>>

ListTenders(p) ==
  LET found == [t \in Tender \ archived |-> texts[t] \cap words[p]] IN
  /\ Goes(p, "list", "write")
  /\ todo' = [todo EXCEPT ![p] =
       {m \in Match : m.tender \in DOMAIN found /\ m.found = found[m.tender] /\ m.found # {}}]
  /\ UNCHANGED <<keywordRows, result, words, copy, kept, keywordNotes>>

\* The status of a profile is written, by whichever operation.
SetStatus(s) == status' = s /\ abandoned' = {}

FinishRefresh(p) ==
  /\ p \in Request /\ stage[p] = "write" /\ todo[p] = {}
  /\ SetStatus("success")
  /\ OpEnds(p)
  /\ doubt' = IF p \in clean THEN Unlisted ELSE doubt
  /\ UNCHANGED <<keywordRows, matches>>

\* Mutant: a statement fails, and only the caller is told.
FailUnseen(p) ==
  /\ p \in Request /\ stage[p] \in {"words", "delete", "list", "write"}
  /\ OpEnds(p)
  /\ UNCHANGED <<keywordRows, result, doubt, abandoned>>

\* A statement fails, and the status says so.
Fail(p) ==
  /\ p \in Request /\ stage[p] \in {"words", "delete", "list", "write"}
  /\ SetStatus("failed")
  /\ OpEnds(p)
  /\ UNCHANGED <<keywordRows, matches, doubt>>

-----------------------------------------------------------------------------
(* Writers *)

\* UpsertTender looks whether the row is archived, ...
UpsertTender(w, t, text) ==
  /\ Goes(w, "idle", "row")
  /\ copy' = [copy EXCEPT ![w] = [tender |-> t, text |-> text]]
  /\ kept' = IF t \in archived THEN kept \cup {w} ELSE kept
  /\ UNCHANGED <<keywordRows, result, words, todo, keywordNotes>>

\* ... which it stays when the row is written, ...
WriteTender(w) ==
  LET t == copy[w].tender IN
  /\ Goes(w, "row", "index")
  /\ texts' = [texts EXCEPT ![t] = copy[w].text]
  /\ archived' = IF w \in kept THEN archived \cup {t} ELSE archived \ {t}
  /\ Outdates(ReadTender(t))
  /\ doubt' = doubt \cup {t}
  /\ UNCHANGED <<keywords, hidden, result, words, copy, kept, todo, abandoned>>

\* ... and then its index.  The matches of an archived tender are deleted without
\* a look at the keywords.
WriteIndex(w) ==
  LET t == copy[w].tender
      gone == w \in kept
  IN /\ Goes(w, "index", IF gone THEN "write" ELSE "words")
     /\ hidden' = IF gone THEN hidden \cup {t} ELSE hidden \ {t}
     /\ todo' = [todo EXCEPT ![w] = IF gone THEN {[tender |-> t, found |-> {}]} ELSE {}]
     /\ doubt' = IF w \in stale THEN doubt \cup {t} ELSE doubt
     /\ UNCHANGED <<keywords, texts, archived, result, words, copy, kept, stale, clean, abandoned>>

\* refreshKeywordProfileForTender.
MatchTender(w) ==
  /\ Goes(w, "words", "write")
  /\ todo' = [todo EXCEPT ![w] =
       {[tender |-> copy[w].tender, found |-> copy[w].text \cap Active]}]
  /\ UNCHANGED <<keywordRows, result, words, copy, kept, keywordNotes>>

\* upsertKeywordMatch, or the deletion of the row when nothing was found.
WriteMatch(p) ==
  /\ stage[p] = "write"
  /\ \E m \in todo[p] :
       /\ matches' = [matches EXCEPT ![m.tender] = m.found]
       /\ todo' = [todo EXCEPT ![p] = @ \ {m}]
       /\ doubt' = IF p \in stale THEN doubt \cup {m.tender}
                   ELSE IF p \in Writer THEN doubt \ ({m.tender} \ Unlisted) ELSE doubt
  /\ UNCHANGED <<keywordRows, status, stage, words, copy, kept, stale, clean, abandoned>>

\* The profile is up to date "after tender change", also while it is refreshed.
WriteStats(w) ==
  /\ w \in Writer /\ stage[w] = "write" /\ todo[w] = {}
  /\ SetStatus("success")
  /\ OpEnds(w)
  /\ UNCHANGED <<keywordRows, matches, doubt>>

-----------------------------------------------------------------------------

\* CleanupExpiredTenders is one transaction, which deletes the matches of all the
\* tenders that the index calls archived.
Archive(t) ==
  /\ t \notin archived
  /\ archived' = archived \cup {t} /\ hidden' = hidden \cup {t}
  /\ matches' = [s \in Tender |-> IF s \in hidden' THEN {} ELSE matches[s]]
  /\ Outdates(ReadTender(t))
  /\ doubt' = doubt \ (archived' \cap hidden')
  /\ UNCHANGED <<keywords, texts, status, copies, abandoned>>

\* A client goes away or a process stops: the statements to come are not made,
\* the one that would say so included.
CutOp(p) ==
  /\ stage[p] # "idle"
  /\ OpEnds(p)
  /\ abandoned' = IF p \in Request THEN abandoned \cup {p} ELSE abandoned
  /\ UNCHANGED <<keywordRows, result, doubt>>

KeywordsNext ==
  \/ \E p \in Request :
       \/ \E i \in Row, word \in Word \cup {Off} : SetKeyword(p, i, word)
       \/ AskRefresh(p) \/ SetRunning(p) \/ ReadKeywords(p) \/ DeleteMatches(p)
       \/ ListTenders(p) \/ FinishRefresh(p) \/ Fail(p)
  \/ \E w \in Writer :
       \/ \E t \in Tender, text \in Texts : UpsertTender(w, t, text)
       \/ WriteTender(w) \/ WriteIndex(w) \/ MatchTender(w) \/ WriteStats(w)
  \/ \E p \in Op : WriteMatch(p) \/ CutOp(p)
  \/ \E t \in Tender : Archive(t)

KeywordsSpec == KeywordsInit /\ [][KeywordsNext]_keywordVars

-----------------------------------------------------------------------------
(* Properties *)

KeywordsTypeOK ==
  /\ keywords \in [Row -> Word \cup {Off}]
  /\ texts \in [Tender -> SUBSET Word] /\ archived \subseteq Tender
  /\ hidden \subseteq Tender
  /\ matches \in [Tender -> SUBSET Word]
  /\ status \in {"pending", "running", "success", "failed"}
  /\ stage \in [Op -> {"idle", "running", "words", "delete", "list", "write", "row", "index"}]
  /\ words \in [Op -> SUBSET Word] /\ todo \in [Op -> SUBSET Match]
  /\ copy \in [Writer -> [tender : Tender, text : SUBSET Word]]
  /\ kept \subseteq Writer /\ stale \subseteq Op /\ clean \subseteq Request
  /\ doubt \subseteq Tender /\ abandoned \subseteq Request

\* What the keyword page lists is what the keywords and the row of the tender say:
\* for every tender that was not left behind by an error, between two statements,
\* or by an operation that wrote from an old copy, and again after a refresh that
\* no such operation accompanied, if the index of the tender is not behind its row.
MatchesAreExact == \A t \in Tender \ doubt : Listed(t) = Exact(t)

\* The page does not say "running" for ever: somebody is at it, or was cut off.
RunningIsTrue ==
  status = "running" =>
    abandoned # {} \/ \E p \in Request : stage[p] \in {"words", "delete", "list", "write"}

=============================================================================
