-------------------------------- MODULE Datum --------------------------------
(***************************************************************************)
(* The geodetic datum: gnss_controller's set_datum(), reset_datum() and    *)
(* query_datum() over ubx_datum_service, which sends two frames to the     *)
(* chip and makes a datum of the values in CFG-VALGET answers, those of    *)
(* other commands among them.  The chip keeps a flag, the ellipsoid's axis *)
(* and its inverse flattening.  As in ConfigFile every frame arrives.      *)
(*                                                                         *)
(* A double is its eight bytes.                                            *)
(***************************************************************************)
EXTENDS ConfigFile

Usrdat == <<\h110061, 1>>
UsrdatMaja == <<\h110062, 5>>
UsrdatFlat == <<\h110063, 5>>
DatumKeys == <<Usrdat, UsrdatMaja, UsrdatFlat>>

\* datum_id
Unknown == 0
Wgs84 == 1
Pz90 == 2
UserDefined == 255

-----------------------------------------------------------------------------
(* The doubles that occur (bound), with the numbers they stand for: axes   *)
(* in tenths of a millimetre above 6378136 m, inverse flattenings in units *)
(* of 10^-9 above 298.257.                                                 *)

WgsAxis == <<0, 0, 0, 64, 166, 84, 88, 65>>
PzAxis == <<0, 0, 0, 0, 166, 84, 88, 65>>
HalfMillimetreMore == <<39, 49, 8, 64, 166, 84, 88, 65>>
HalfWay == <<0, 0, 0, 32, 166, 84, 88, 65>>
International == <<0, 0, 0, 0, 229, 84, 88, 65>>
WgsFlat == <<136, 109, 116, 150, 29, 164, 114, 64>>
PzFlat == <<35, 224, 26, 28, 32, 164, 114, 64>>

Metres == (WgsAxis :> 10000) @@ (PzAxis :> 0) @@ (HalfMillimetreMore :> 10005) @@ (HalfWay :> 5000)
          @@ (International :> 2520000)
Flattening == (WgsFlat :> 223563) @@ (PzFlat :> 839303)

Close(a, b, tolerance) == a - b \in -tolerance..tolerance

KnownDatums == << [id |-> Wgs84, maja |-> WgsAxis, flat |-> WgsFlat],
                  [id |-> Pz90, maja |-> PzAxis, flat |-> PzFlat] >>

\* A millimetre, and a ten-millionth.
Matches(maja, flat, sig) ==
    /\ Close(Metres[maja], Metres[sig.maja], 10)
    /\ Close(Flattening[flat], Flattening[sig.flat], 100)

\* resolve_datum_id(): the first that fits.
ResolveDatumId(maja, flat) ==
    LET i == SelectInSeq(KnownDatums, LAMBDA sig: Matches(maja, flat, sig))
    IN  IF i = 0 THEN UserDefined ELSE KnownDatums[i].id

-----------------------------------------------------------------------------
(* The service: datum_data_, the received flags and the callback, with     *)
(* what the callback was last given.                                       *)

NewService == [enabled |-> FALSE, id |-> Wgs84, maja |-> Times(8, 0), flat |-> Times(8, 0),
               valid |-> FALSE, received |-> {}, callback |-> FALSE, told |-> Unknown]

OnDatumEntry(s, e) ==
    CASE e.key = Usrdat -> [s EXCEPT !.enabled = (e.value # Times(8, 0)), !.received = @ \cup {Usrdat}]
      [] e.key = UsrdatMaja -> [s EXCEPT !.maja = e.value, !.received = @ \cup {UsrdatMaja}]
      [] e.key = UsrdatFlat -> [s EXCEPT !.flat = e.value, !.received = @ \cup {UsrdatFlat}]
      [] OTHER -> s

\* Bug: the parameters count although the user datum is switched off.
BugResolve(s) ==
    IF {UsrdatMaja, UsrdatFlat} \subseteq s.received THEN ResolveDatumId(s.maja, s.flat) ELSE s.id

\* Until both parameters have come the datum is the one of before.
Resolve(s) ==
    IF ~s.enabled THEN Wgs84
    ELSE IF {UsrdatMaja, UsrdatFlat} \subseteq s.received THEN ResolveDatumId(s.maja, s.flat)
    ELSE s.id

\* on_valget_response(), for the answers to any command.
OnValgetResponse(s, entries) ==
    LET t == FoldLeft(OnDatumEntry, s, entries)
        id == Resolve(t)
    IN  IF \A i \in DOMAIN entries : entries[i].key \notin {Usrdat, UsrdatMaja, UsrdatFlat} THEN s
        ELSE [t EXCEPT !.id = id, !.valid = TRUE, !.told = IF t.callback THEN id ELSE @]

\* start_valget_poll(), with query_datum()'s callback.
StartDatumPoll(s) == [s EXCEPT !.received = {}, !.callback = TRUE]

Setting8(key, value) == [key |-> key, value |-> value]
On == <<1>> \o Times(7, 0)

\* reset_to_default() and start_valset_by_id(); <<>> is no frame, and false.
ResetToDefault == BuildValset(<<Setting8(Usrdat, Times(8, 0))>>, Layer)
StartValsetById(id) ==
    LET i == SelectInSeq(KnownDatums, LAMBDA sig: sig.id = id)
    IN  IF i = 0 THEN <<>>
        ELSE BuildValset(<<Setting8(Usrdat, On), Setting8(UsrdatMaja, KnownDatums[i].maja),
                           Setting8(UsrdatFlat, KnownDatums[i].flat)>>, Layer)

\* set_datum()
SetDatum(id) == IF id \in {Unknown, UserDefined} THEN ResetToDefault ELSE StartValsetById(id)

-----------------------------------------------------------------------------
(* A script of commands, and the chip at the other end.                    *)

DefaultChip == (Usrdat :> Times(8, 0)) @@ (UsrdatMaja :> WgsAxis) @@ (UsrdatFlat :> WgsFlat)

Received(st, keys) ==
    [st EXCEPT !.service = OnValgetResponse(@, DecodeValget(Answer(st.chip, BuildValget(keys, 0))))]

\* A frame that is none is not sent: the command is refused.
Sent(st, frame) ==
    [st EXCEPT !.chip = IF frame = <<>> THEN @ ELSE Taken(@, frame), !.sent = frame # <<>>]

\* <<"set", id>>, <<"reset">>, <<"query">>, <<"poll", keys>>: the configuration of some of
\* these keys is polled, and <<"user", maja, flat>>: another master enables a datum.
Command(st, c) ==
    CASE c[1] = "set" -> Sent(st, SetDatum(c[2]))
      [] c[1] = "reset" -> Sent(st, ResetToDefault)
      [] c[1] = "query" -> Received([st EXCEPT !.service = StartDatumPoll(@)], DatumKeys)
      [] c[1] = "poll" -> Received(st, c[2])
      [] OTHER -> [st EXCEPT !.chip = (Usrdat :> On) @@ (UsrdatMaja :> c[2]) @@ (UsrdatFlat :> c[3])]

Commanded(script) ==
    [of |-> "datum", from |-> script,
     end |-> FoldLeft(Command, [chip |-> DefaultChip, service |-> NewService, sent |-> FALSE], script)]
=============================================================================
