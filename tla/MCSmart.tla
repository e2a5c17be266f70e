------------------------------- MODULE MCSmart -------------------------------
(***************************************************************************)
(* Two components that share no state, checked side by side: the first     *)
(* state says which of them moves, and the other stays where it is.        *)
(***************************************************************************)
EXTENDS SmartAlerts, KeywordMatches, TLC

VARIABLE part

MCView(frequency, channels) ==
  [flags |-> {"alerts"}, frequency |-> frequency, wants |-> {"tender"},
   channels |-> channels, first |-> "hook"]
MCForms == {MCView("immediate", {"mail", "hook"}), MCView("digest", {"mail"})}
MCSettings == {{}, {"alerts"}, {"alerts", "email"}}
MCTexts == {{}, {"pipe"}}
MCSymmetry == Permutations(Run) \cup Permutations(Request)

MCInit ==
  /\ AlertsInit /\ KeywordsInit
  /\ part \in {"alerts", "keywords"}
  /\ part = "alerts" => texts = [t \in Tender |-> {"pipe"}]

MCNext ==
  \/ part = "alerts" /\ AlertsNext /\ UNCHANGED <<keywordVars, part>>
  \/ part = "keywords" /\ KeywordsNext /\ UNCHANGED <<alertVars, part>>

ViewsTypeOK == AlertsTypeOK /\ KeywordsTypeOK

MCSpec == MCInit /\ [][MCNext]_<<alertVars, keywordVars, part>>

=============================================================================
