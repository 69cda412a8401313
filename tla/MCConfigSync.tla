---------------------------- MODULE MCConfigSync ----------------------------
(***************************************************************************)
(* Instances of ConfigSync for TLC.                                        *)
(***************************************************************************)
EXTENDS ConfigSync

\* An INI file that names every key, and one that names the datum's with another value.
TwoFiles == {[k \in Keys |-> 1], [k \in DatumKeys |-> 0]}

=============================================================================
