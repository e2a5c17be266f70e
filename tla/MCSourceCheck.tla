---------------------------- MODULE MCSourceCheck ----------------------------
(* SourceCheck with model values for TLC. *)
EXTENDS SourceCheck, TLC

Symmetry == Permutations(Goroutine) \cup Permutations(Handler) \cup Permutations(ConfigId)

=============================================================================
