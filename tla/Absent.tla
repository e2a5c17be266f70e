------------------------------- MODULE Absent -------------------------------
(***************************************************************************)
(* A value for what is not there, that the modules checked side by side in *)
(* MCRecords share.                                                        *)
(***************************************************************************)
CONSTANT None

=============================================================================
