---------------------------- MODULE SmartEvaluation ----------------------------
(***************************************************************************)
(* The rules of Smart Keyword Extraction: whether a text is accepted by    *)
(* the keywords and groups of a tenant, and which groups tag it.  A text   *)
(* is the set of words that it contains.  No state.                        *)
(***************************************************************************)
EXTENDS Absent, Integers, FiniteSets

CONSTANTS
  Word,
  Group  \* ids of groups, each of which has a tag of its own; None stands for no
         \* group, as standalone keywords have

\* smart_keyword_groups and smart_keyword_records.  A group without a mode
\* matches any of its words.
GroupRow == [flags : SUBSET {"enabled", "all"}, exclude : SUBSET Word, min : Nat \ {0}]
KeywordRow == [word : Word, group : Group \cup {None}, flags : SUBSET {"enabled"}]

Evaluation == [accepted : {"yes", "no"}, tags : SUBSET Group]

\* The enabled keywords of a group, or those of none.
ActiveWords(keywords, g) ==
  {k.word : k \in {row \in keywords : row.group = g /\ "enabled" \in row.flags}}

\* evaluateGroup
GroupAccepts(text, group, words) ==
  LET matched == words \cap text IN
  /\ group.exclude \cap text = {}
  /\ matched # {}
  /\ "all" \in group.flags => words \subseteq text
  /\ group.min > 1 => Cardinality(matched) >= group.min

\* Evaluate: groups is a function from the ids that are used to their rows.
TagsOf(text, groups, keywords) ==
  {g \in DOMAIN groups : /\ "enabled" \in groups[g].flags
                         /\ GroupAccepts(text, groups[g], ActiveWords(keywords, g))}

Evaluate(text, mode, groups, keywords) ==
  LET tags == TagsOf(text, groups, keywords)
      standalone == ActiveWords(keywords, None) \cap text
  IN IF mode # "smart" THEN [accepted |-> "yes", tags |-> {}]
     ELSE [accepted |-> IF standalone # {} \/ tags # {} THEN "yes" ELSE "no", tags |-> tags]

\* activeSmartKeywordCount is not 0.
AnyActive(groups, keywords) ==
  \/ ActiveWords(keywords, None) # {}
  \/ \E g \in DOMAIN groups : "enabled" \in groups[g].flags /\ ActiveWords(keywords, g) # {}

=============================================================================
