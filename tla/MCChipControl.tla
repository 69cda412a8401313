--------------------------- MODULE MCChipControl ----------------------------
(***************************************************************************)
(* ChipControl by itself, for the question what becomes of the pulse of a  *)
(* hardware reset when two threads ask for one and nothing fails.          *)
(***************************************************************************)
EXTENDS ChipControl

MCLines == {<<"hardware_reset">>}
=============================================================================
