------------------------------ MODULE MCSettings ------------------------------
(***************************************************************************)
(* What administrators configure, the schedule of a source and the smart   *)
(* keywords of a tenant, and what people keep about tenders.  The three    *)
(* share no state and are checked side by side: the first state says which *)
(* of them moves.                                                          *)
(* Bounds: people either keep bookmarks and searches or edit workflows,    *)
(* which touch different rows; a person is the same value as a request.    *)
(***************************************************************************)
EXTENDS SourceSchedule, SmartKeywords, Workspace, TLC

CONSTANTS
  word1, word2, group1,
  MaxOperations  \* bound: operations on smart keywords under way at once

VARIABLE part

MCGroupForms == {[flags |-> {"enabled"}, exclude |-> {word2}, min |-> 1]}
MCKeywordForms ==
  {[word |-> word1, group |-> group1, flags |-> {"enabled"}],
   [word |-> word2, group |-> None, flags |-> {"enabled"}]}
MCTexts == {{word1}, {word1, word2}}

MCSeed == {[group |-> group1, word |-> word1]}

MCSymmetry == Permutations(Person) \cup Permutations(Notice)

MCInit ==
  /\ part \in {"schedule", "keywords", "bookmarks", "workflows"}
  /\ Init /\ SmartInit /\ WorkspaceInit
  /\ part # "schedule" => default = 60
  /\ part # "keywords" => gate = "off"

MCNext ==
  \/ part = "schedule" /\ Next /\ UNCHANGED <<smartVars, people, part>>
  \/ /\ part = "keywords"
     /\ SmartNext /\ UNCHANGED <<vars, people, part>>
     /\ Cardinality({p \in Operation : step'[p] # "idle"}) <= MaxOperations
  \/ /\ part \in {"bookmarks", "workflows"}
     /\ WorkspaceNext /\ UNCHANGED <<vars, smartVars, part>>
     /\ \A r \in Post :
          call'[r] # None => (call'[r].act \in Status \cup {"reset"} <=> part = "workflows")

MCSpec == MCInit /\ [][MCNext]_<<vars, smartVars, people, part>>

-----------------------------------------------------------------------------

SettingsTypeOK == TypeOK /\ SmartTypeOK /\ WorkspaceTypeOK

=============================================================================
