----------------------------- MODULE MCUbxTables -----------------------------
(***************************************************************************)
(* Tables of two entries, so that a third and a fourth are too many, and   *)
(* three stored messages: a long table, a shorter one and a commit.        *)
(***************************************************************************)
EXTENDS UbxTables

MCStoreCap == [k \in Tables \cup {"MON_RF", "ESF_MEAS", "NAV_SIG", "MON_SPAN"} |-> 2]
MCDecoderCap == [k \in {"ESF_STATUS", "ESF_MEAS", "RXM_MEASX", "MON_IO", "MON_SPAN"} |-> 2]
MCBufferCap == [k \in Tables |-> 2]
=============================================================================
