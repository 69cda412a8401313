----------------------------- MODULE MCParsers ------------------------------
(***************************************************************************)
(* Framing and NmeaPath for TLC.  A behaviour runs one of them, chosen at  *)
(* its start.                                                              *)
(*                                                                         *)
(* Streams for Framing: two of the pieces below, whole and cut frames and  *)
(* sentences and what disturbs them, and then one that is whole.  For      *)
(* NmeaPath, two satellites in a sentence and room for three, so that a    *)
(* set has one or two parts and four satellites are too many.              *)
(***************************************************************************)
EXTENDS Framing, NmeaPath

VARIABLE part   \* the module that runs

Ack == BuildFrame(5, 1, <<6, 36>>)                \* its payload contains a '$'
Line(c) == Assemble(<<71, 78, 90, 68, 65, Comma, c>>)   \* "GNZDA,c"

Pieces ==
  { Ack,
    BuildFrame(1, 7, <<>>),
    BuildFrame(2, 42, <<Sync1, Sync2, Dollar, 10>>), \* contains a header, a line end, a '*'
    SubSeq(Ack, 1, 7),                             \* cut short
    [Ack EXCEPT ![10] = (@ + 1) % 256],            \* a wrong checksum
    <<Sync1, Sync2, 1, 7, 5, 0>>,                  \* too long
    <<Sync1>>,
    Line(49),
    SubSeq(Line(50), 1, 9),                    \* up to its '*'
    SubSeq(Line(50), 1, 12),                   \* without its line feed
    [Line(50) EXCEPT ![7] = 51],               \* a wrong checksum
    <<Dollar, 80, 51, Cr, Lf>>,                    \* no checksum
    <<Dollar, 65, 65, 65, 65, 65, 65, 65, 65, 65>> \* too long
  }

MCStreams == {a \o b \o c : a, b \in Pieces, c \in {Ack, Line(49)}}

-----------------------------------------------------------------------------

MCEnabled == {"GGA", "RMC", "GSA", "GSV", "VTG", "GLL", "ZDA", "GP", "GL"}

Fix(fix, ok, carrier, lat, lon, speed, decl, dop) ==
    [valid |-> TRUE, time |-> 0, fix |-> fix, ok |-> ok, carrier |-> carrier, lat |-> lat, lon |-> lon,
     sats |-> 7, alt |-> 3, speed |-> speed, course |-> 90, decl |-> decl, hdop |-> dop,
     pdop |-> 2 * dop, vdop |-> dop]
RtkFix == Fix(3, TRUE, 2, -2833, 6001, 12, -4, 1)
PlainFix == Fix(2, TRUE, 0, 59, -10799, 0, 0, 0)
DeadReckoning == Fix(4, FALSE, 1, 0, -1, 3, 2, 0)
NoFixAtAll == [PlainFix EXCEPT !.valid = FALSE, !.fix = 0, !.ok = FALSE]
MCFixes == {RtkFix, PlainFix, DeadReckoning, NoFixAtAll}

Satellite(gnss, sv, elev, cno, used) ==
    [gnss |-> gnss, sv |-> sv, elev |-> elev, azim |-> 0, cno |-> cno, used |-> used]
Two == <<Satellite(0, 5, 30, 40, TRUE), Satellite(0, 7, -1, 0, FALSE)>>
Mixed == <<Satellite(6, 66, 12, 33, TRUE), Satellite(1, 120, 9, 30, FALSE)>>
MCSkies == {Two \o Mixed, Two \o <<Satellite(0, 9, 80, 20, TRUE)>>,
            <<Satellite(0, 2, 1, 11, TRUE)>> \o Two \o <<Satellite(0, 11, 5, 9, FALSE)>>}

-----------------------------------------------------------------------------

MCInit ==
  /\ part \in {"bytes", "database"}
  /\ Init /\ PathInit
  /\ part = "database" => stream = CHOOSE s \in Streams : TRUE

MCNext ==
  \/ part = "bytes" /\ Next /\ UNCHANGED <<part, pathVars>>
  \/ part = "database" /\ PathNext /\ UNCHANGED <<part, vars>>

MCSpec == MCInit /\ [][MCNext]_<<part, vars, pathVars>>
=============================================================================
