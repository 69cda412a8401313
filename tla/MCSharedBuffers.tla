--------------------------- MODULE MCSharedBuffers ---------------------------
(***************************************************************************)
(* The instance of SharedBuffers for TLC: the cfg gives every constant.    *)
(***************************************************************************)
EXTENDS SharedBuffers
=============================================================================
