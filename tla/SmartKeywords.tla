---------------------------- MODULE SmartKeywords ----------------------------
(***************************************************************************)
(* Smart Keyword Extraction of a tenant: the pages that edit its keywords  *)
(* and its mode, the reprocessing of all tenders, the writers that store   *)
(* tenders and match them, the cleanup that archives them, and the list of *)
(* tenders that the tenant sees.  The list joins the index of tenders with *)
(* the stored matches, and nothing computes either when it is read.  One   *)
(* step is one statement or one transaction; smartConfig, which takes      *)
(* three, is one step, for whoever reads between two changes is as stale   *)
(* afterwards as one who has read before them.                             *)
(***************************************************************************)
EXTENDS SmartEvaluation

CONSTANTS
  Page,        \* handlers of pages
  Writer,      \* processes that store tenders
  Cleanup,     \* the cleanup of expired tenders
  Row,         \* ids of keyword rows
  Tender,
  Texts,       \* texts of tenders
  GroupForms,  \* bound: the groups and keywords that forms save
  KeywordForms,
  Seed         \* the rows of the file of seeds: a group and a word

TenderRow == [text : SUBSET Word, tags : SUBSET Group, archived : {"yes", "no"}]

ASSUME SmartAssumption ==
  /\ Texts \subseteq SUBSET Word
  /\ GroupForms \subseteq GroupRow /\ KeywordForms \subseteq KeywordRow
  /\ Seed \subseteq [group : Group, word : Word]
  /\ Page \cap Writer = {} /\ Cleanup \notin Page \cup Writer
  /\ None \notin Group \cup GroupRow \cup KeywordRow \cup TenderRow \cup Evaluation

VARIABLES
  gate,      \* smart_extraction_settings: "smart" or "off", "none" without a row
  groups,    \* smart_keyword_groups
  keywords,  \* smart_keyword_records
  rows,      \* tenders: text and tags, and whether it is archived
  index,     \* tender_filter_index: "active" or "archived", "none" without a row
  found,     \* smart_tender_matches
  step,      \* the next statement of an operation
  wants,     \* the mode that a request is about to save
  listed,    \* the rows an operation has read, and what they are evaluated to
  outdated,  \* history: operations that have read what has changed since
  gone,      \* history: tenders that have been archived, and whose mark no
             \* outdated operation has written over
  doubtful   \* history: the parts of the list that may be wrong

tenantRows == <<gate, groups, keywords>>
tenderRows == <<rows, index, found>>
operations == <<step, wants, listed>>
smartNotes == <<outdated, gone, doubtful>>
smartVars == <<tenantRows, tenderRows, operations, smartNotes>>

Operation == Page \cup Writer \cup {Cleanup}
Listing == [tender : Tender, row : TenderRow, match : Evaluation]
NotYet == [accepted |-> "no", tags |-> {}]

Groups == [g \in {h \in Group : groups[h] # None} |-> groups[g]]
Keywords == {keywords[i] : i \in Row} \ {None}

\* refreshSmartMatchForTenant, with the configuration there is.
Match(text) == Evaluate(text, gate, Groups, Keywords)

SmartInit ==
  /\ gate \in {"none", "off"}
  /\ groups = [g \in Group |-> None] /\ keywords = [i \in Row |-> None]
  /\ rows = [t \in Tender |-> None]
  /\ index = [t \in Tender |-> "none"] /\ found = [t \in Tender |-> None]
  /\ step = [p \in Operation |-> "idle"]
  /\ wants = [r \in Page |-> "none"]
  /\ listed = [p \in Operation |-> {}]
  /\ outdated = {} /\ gone = {} /\ doubtful = {}

Advance(p, from, to) == step[p] = from /\ step' = [step EXCEPT ![p] = to]

\* An operation is over, or cut off, and its copies are gone.
Ends(p) ==
  /\ step' = [step EXCEPT ![p] = "idle"]
  /\ wants' = [r \in Page |-> IF r = p THEN "none" ELSE wants[r]]
  /\ listed' = [listed EXCEPT ![p] = {}]
Done(p) == Ends(p) /\ outdated' = outdated \ {p}

CutOff(p) ==
  /\ step[p] # "idle"
  /\ Done(p)
  /\ UNCHANGED <<tenantRows, tenderRows, gone, doubtful>>

-----------------------------------------------------------------------------
(* What has been read before a change *)

\* Operations that have evaluated a text, and those that hold a tender.
Evaluated == {p \in Operation : step[p] \in {"list", "replace", "match"}}
Holding(t) == {p \in Operation : \E l \in listed[p] : l.tender = t}

\* The configuration changes, and no match is known to be right any more.
Reconfigured ==
  /\ outdated' = outdated \cup Evaluated
  /\ doubtful' = doubtful \cup (Tender \X {"match"})
  /\ UNCHANGED <<tenderRows, operations, gone>>

-----------------------------------------------------------------------------
(* Pages; a look for the row before it is saved is part of its step *)

SaveGroup(g, form) ==
  /\ groups' = [groups EXCEPT ![g] = form]
  /\ Reconfigured /\ UNCHANGED <<gate, keywords>>

\* One transaction, with the keywords of the group.
DeleteGroup(g) ==
  /\ groups[g] # None
  /\ groups' = [groups EXCEPT ![g] = None]
  /\ keywords' = [i \in Row |-> IF keywords[i] # None /\ keywords[i].group = g
                                THEN None ELSE keywords[i]]
  /\ Reconfigured /\ UNCHANGED gate

\* A keyword is stored once for its group.
SaveKeyword(i, form) ==
  /\ form.group # None => groups[form.group] # None
  /\ \A j \in Row \ {i} :
       keywords[j] # None => keywords[j].word # form.word \/ keywords[j].group # form.group
  /\ keywords' = [keywords EXCEPT ![i] = form]
  /\ Reconfigured /\ UNCHANGED <<gate, groups>>

DeleteKeyword(i) ==
  /\ keywords[i] # None
  /\ keywords' = [keywords EXCEPT ![i] = None]
  /\ Reconfigured /\ UNCHANGED <<gate, groups>>

\* The pages of sources and of alerts read the settings; the first sets another
\* mode, the second keeps it.  ("none" is read as "off".)
ReadSettings(r, to) ==
  /\ to \in {"off", "smart", IF gate = "none" THEN "off" ELSE gate}
  /\ Advance(r, "idle", IF to = "smart" THEN "count" ELSE "save")
  /\ wants' = [wants EXCEPT ![r] = to]
  /\ UNCHANGED <<tenantRows, tenderRows, listed, smartNotes>>

\* UpsertSmartExtractionSettings: no smart mode without an active keyword, ...
CountKeywords(r) ==
  /\ AnyActive(Groups, Keywords)
  /\ Advance(r, "count", "save")
  /\ UNCHANGED <<tenantRows, tenderRows, wants, listed, smartNotes>>

\* ... and the row.
SaveSettings(r) ==
  /\ step[r] = "save"
  /\ gate' = wants[r]
  /\ Ends(r)
  /\ outdated' = (outdated \cup Evaluated) \ {r}
  /\ doubtful' = doubtful \cup (Tender \X {"match"})
  /\ UNCHANGED <<groups, keywords, tenderRows, gone>>

-----------------------------------------------------------------------------
(* SeedSmartKeywordsFromCSV: the app starts, and no page is under way.  Each *)
(* row is one step, for the app goes on when an error ends the seeding.      *)

\* A group that is missing is stored, disabled, ...
SeedGroup(row) ==
  /\ \A r \in Page : step[r] = "idle"
  /\ groups[row.group] = None
  /\ groups' = [groups EXCEPT ![row.group] = [flags |-> {}, exclude |-> {}, min |-> 1]]
  /\ Reconfigured /\ UNCHANGED <<gate, keywords>>

\* ... and a keyword that is missing, enabled: one that was deleted comes back.
SeedKeyword(i, row) ==
  /\ \A r \in Page : step[r] = "idle"
  /\ groups[row.group] # None
  /\ keywords[i] = None
  /\ \A k \in Keywords : k.group # row.group \/ k.word # row.word
  /\ keywords' = [keywords EXCEPT
       ![i] = [word |-> row.word, group |-> row.group, flags |-> {"enabled"}]]
  /\ Reconfigured /\ UNCHANGED <<gate, groups>>

-----------------------------------------------------------------------------
(* ReprocessSmartKeywords *)

\* smartConfig, and all tenders that are not archived.
ListTenders(r) ==
  /\ Advance(r, "idle", "replace")
  /\ listed' = [listed EXCEPT ![r] =
       {[tender |-> t, row |-> rows[t], match |-> Match(rows[t].text)] :
          t \in {u \in Tender : rows[u] # None /\ rows[u].archived = "no"}}]
  /\ UNCHANGED <<tenantRows, tenderRows, wants, smartNotes>>

\* One transaction: the matches of the tenders that were listed, and those rows,
\* as they were read, that get other tags.
Retagged(r) == {l \in listed[r] : l.row.tags # l.match.tags}
ListedBy(ls) == {l.tender : l \in ls}

Replace(r) ==
  LET match == [t \in ListedBy(listed[r]) |-> (CHOOSE l \in listed[r] : l.tender = t).match]
      row == [t \in ListedBy(Retagged(r)) |->
                [(CHOOSE l \in listed[r] : l.tender = t).row EXCEPT !.tags = match[t].tags]]
  IN /\ step[r] = "replace"
     /\ found' = [t \in Tender |-> IF t \in DOMAIN match THEN match[t] ELSE found[t]]
     /\ rows' = [t \in Tender |-> IF t \in DOMAIN row THEN row[t] ELSE rows[t]]
     /\ index' = [t \in Tender |-> IF t \in DOMAIN row THEN "active" ELSE index[t]]
     /\ step' = [step EXCEPT ![r] = "idle"]
     /\ listed' = [listed EXCEPT ![r] = {}]
     /\ IF r \in outdated
        THEN /\ outdated' = (outdated \cup UNION {Holding(t) : t \in DOMAIN row}) \ {r}
             /\ doubtful' = doubtful \cup ((DOMAIN match) \X {"match", "index"})
             /\ gone' = gone \ DOMAIN row
        ELSE /\ UNCHANGED outdated
             /\ doubtful' = doubtful \ (((DOMAIN match) \X {"match"}) \cup ((DOMAIN row) \X {"index"}))
             /\ UNCHANGED gone
     /\ UNCHANGED <<tenantRows, wants>>

-----------------------------------------------------------------------------
(* Writers *)

\* persistSourceTender: a tender that a source has listed is stored if it is
\* accepted, and tagged.
SourceTender(w, t, text) ==
  LET match == Match(text) IN
  /\ match.accepted = "yes"
  /\ Advance(w, "idle", "row")
  /\ listed' = [listed EXCEPT ![w] =
       {[tender |-> t, match |-> NotYet,
         row |-> [text |-> text, tags |-> match.tags, archived |-> "no"]]}]
  /\ UNCHANGED <<tenantRows, tenderRows, wants, smartNotes>>

\* processClaimedJob: the text of a document is added to the tender as it is
\* stored.  GetTender does not find an archived one (sqlitestore.go:1105), and
\* then nothing is written.  The tender keeps its tags in off mode, when it is not
\* accepted, and when it cannot be evaluated.
ExtractedTender(w, t, text) ==
  LET match == Match(text)
      new == IF gate = "smart" /\ match.accepted = "yes" THEN {match.tags} ELSE {}
  IN /\ rows[t] # None /\ rows[t].archived = "no"
     /\ Advance(w, "idle", "row")
     /\ \E tags \in {rows[t].tags} \cup new :
          listed' = [listed EXCEPT ![w] =
            {[tender |-> t, match |-> NotYet, row |-> [rows[t] EXCEPT !.text = text, !.tags = tags]]}]
     /\ UNCHANGED <<tenantRows, tenderRows, wants, smartNotes>>

Held(w) == CHOOSE l \in listed[w] : TRUE

\* Mutant: what is archived is forgotten.
ReadNothing(w) ==
  /\ Advance(w, "row", "write")
  /\ outdated' = outdated \ {w}
  /\ UNCHANGED <<tenantRows, tenderRows, wants, listed, gone, doubtful>>

\* UpsertTender: an archived tender stays archived, ...
ReadRow(w) ==
  LET t == Held(w).tender IN
  /\ Advance(w, "row", "write")
  /\ listed' = [listed EXCEPT ![w] =
       {IF rows[t] # None /\ rows[t].archived = "yes"
        THEN [Held(w) EXCEPT !.row.archived = "yes"] ELSE Held(w)}]
  /\ outdated' = outdated \ {w}
  /\ UNCHANGED <<tenantRows, tenderRows, wants, gone, doubtful>>

\* ... the row is written, ...
WriteRow(w) ==
  LET t == Held(w).tender IN
  /\ Advance(w, "write", "index")
  /\ rows' = [rows EXCEPT ![t] = Held(w).row]
  /\ outdated' = outdated \cup (Holding(t) \ {w})
  /\ doubtful' = doubtful \cup ({t} \X {"match", "index"})
  /\ gone' = IF Held(w).row.archived = "yes" THEN gone \cup {t}
             ELSE IF w \in outdated THEN gone \ {t} ELSE gone
  /\ UNCHANGED <<tenantRows, index, found, wants, listed>>

\* ... and its indexes, ...
WriteIndex(w) ==
  LET t == Held(w).tender IN
  /\ Advance(w, "index", "evaluate")
  /\ index' = [index EXCEPT ![t] = IF Held(w).row.archived = "yes" THEN "archived" ELSE "active"]
  /\ doubtful' = IF w \in outdated THEN doubtful \cup {<<t, "index">>} ELSE doubtful \ {<<t, "index">>}
  /\ UNCHANGED <<tenantRows, rows, found, wants, listed, outdated, gone>>

\* ... and it is matched for every tenant that has settings.
EvaluateTender(w) ==
  /\ gate # "none"
  /\ Advance(w, "evaluate", "match")
  /\ listed' = [listed EXCEPT ![w] = {[Held(w) EXCEPT !.match = Match(Held(w).row.text)]}]
  /\ UNCHANGED <<tenantRows, tenderRows, wants, smartNotes>>

NoSettings(w) ==
  /\ gate = "none" /\ step[w] = "evaluate"
  /\ Done(w)
  /\ UNCHANGED <<tenantRows, tenderRows, gone, doubtful>>

WriteMatch(w) ==
  LET t == Held(w).tender IN
  /\ step[w] = "match"
  /\ found' = [found EXCEPT ![t] = Held(w).match]
  /\ doubtful' = IF w \in outdated THEN doubtful \cup {<<t, "match">>} ELSE doubtful \ {<<t, "match">>}
  /\ Done(w)
  /\ UNCHANGED <<tenantRows, rows, index, gone>>

-----------------------------------------------------------------------------
(* CleanupExpiredTenders *)

ListExpired(expired) ==
  /\ expired # {} /\ \A t \in expired : rows[t] # None /\ rows[t].archived = "no"
  /\ Advance(Cleanup, "idle", "archive")
  /\ listed' = [listed EXCEPT ![Cleanup] =
       {[tender |-> t, row |-> rows[t], match |-> NotYet] : t \in expired}]
  /\ UNCHANGED <<tenantRows, tenderRows, wants, smartNotes>>

\* One transaction: the rows, as they were read, are archived.
Archive ==
  LET expired == ListedBy(listed[Cleanup])
      row(t) == (CHOOSE l \in listed[Cleanup] : l.tender = t).row
  IN /\ step[Cleanup] = "archive"
     /\ rows' = [t \in Tender |-> IF t \in expired
                                  THEN [row(t) EXCEPT !.archived = "yes"] ELSE rows[t]]
     /\ index' = [t \in Tender |-> IF t \in expired THEN "archived" ELSE index[t]]
     /\ Ends(Cleanup)
     /\ outdated' = (outdated \cup UNION {Holding(t) : t \in expired}) \ {Cleanup}
     /\ gone' = gone \cup expired
     /\ doubtful' = doubtful \ (expired \X {"index"})
     /\ UNCHANGED <<tenantRows, found>>

SmartNext ==
  \/ \E g \in Group : DeleteGroup(g) \/ \E form \in GroupForms : SaveGroup(g, form)
  \/ \E i \in Row : DeleteKeyword(i) \/ \E form \in KeywordForms : SaveKeyword(i, form)
  \/ \E row \in Seed : SeedGroup(row) \/ \E i \in Row : SeedKeyword(i, row)
  \/ \E r \in Page :
       \/ \E to \in {"off", "smart"} : ReadSettings(r, to)
       \/ CountKeywords(r) \/ SaveSettings(r) \/ ListTenders(r) \/ Replace(r)
  \/ \E w \in Writer :
       \/ \E t \in Tender, text \in Texts : SourceTender(w, t, text) \/ ExtractedTender(w, t, text)
       \/ ReadRow(w) \/ WriteRow(w) \/ WriteIndex(w) \/ EvaluateTender(w) \/ NoSettings(w)
       \/ WriteMatch(w)
  \/ \E expired \in SUBSET Tender : ListExpired(expired)
  \/ Archive
  \/ \E p \in Operation : CutOff(p)

SmartSpec == SmartInit /\ [][SmartNext]_smartVars

-----------------------------------------------------------------------------

SmartTypeOK ==
  /\ gate \in {"none", "off", "smart"}
  /\ groups \in [Group -> GroupRow \cup {None}]
  /\ keywords \in [Row -> KeywordRow \cup {None}]
  /\ rows \in [Tender -> TenderRow \cup {None}]
  /\ index \in [Tender -> {"none", "active", "archived"}]
  /\ found \in [Tender -> Evaluation \cup {None}]
  /\ step \in [Operation -> {"idle", "count", "save", "replace", "row", "write", "index",
                             "evaluate", "match", "archive"}]
  /\ wants \in [Page -> {"none", "off", "smart"}]
  /\ listed \in [Operation -> SUBSET Listing]
  /\ outdated \subseteq Operation /\ gone \subseteq Tender
  /\ doubtful \subseteq Tender \X {"match", "index"}

\* listTendersSQL: what the pages of the tenant list.
Listed(t) ==
  /\ rows[t] # None /\ index[t] = "active"
  /\ gate = "smart" => found[t] # None /\ found[t].accepted = "yes"

\* The list of a tenant shows a tender exactly if it has not been archived and,
\* in smart mode, the keywords accept it: except for tenders that have not been
\* matched since the keywords or the tender changed, or that an operation which
\* had read them before a change has written since.
PagesFollowKeywords ==
  \A t \in Tender :
    /\ <<t, "index">> \notin doubtful => (index[t] = "active" <=> rows[t] # None /\ t \notin gone)
    /\ doubtful \cap ({t} \X {"match", "index"}) = {} =>
         (Listed(t) <=> rows[t] # None /\ t \notin gone /\ Match(rows[t].text).accepted = "yes")

=============================================================================
