--------------------------- MODULE MCRecordReplay ---------------------------
(***************************************************************************)
(* Instances of RecordReplay for TLC.                                      *)
(***************************************************************************)
EXTENDS RecordReplay, TLC

FileSymmetry == Permutations(Files)
=============================================================================
