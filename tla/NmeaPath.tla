------------------------------ MODULE NmeaPath ------------------------------
(***************************************************************************)
(* NMEA sentences, from the generator that writes them out of the shared   *)
(* buffers to the nmea_data buffer that the parsers, the handlers and the  *)
(* commit make of them.  The sentences of an epoch come from the           *)
(* generator, or from a chip that has a fix or none; sentences are lost    *)
(* on the way, since one with a wrong checksum is dropped (Framing).       *)
(*                                                                         *)
(* A sentence is its type and its fields; a field is <<>> when it is       *)
(* empty, else what it means and its value, so that a field read from the  *)
(* wrong place shows.  Angles are in whole minutes; decimals are left out. *)
(***************************************************************************)
EXTENDS Integers, Sequences, SequencesExt

CONSTANTS
    PerMessage,     \* satellites in a GSV sentence (SATS_PER_GSV_MSG, 4), at least one
    SlotCap,        \* satellites the store and the buffer have room for (64)
    Enabled,        \* what nmea_generator_config enables
    Fixes, Skies,   \* what the location and satellite buffers may hold
    MaxEpochs,      \* bound: epochs
    MaxLost,        \* bound: sentences lost
    None

\* The buffers of the shared memory, as far as the sentences are made of them; when they are
\* handed over they get the time of the epoch, and a satellite its azimuth.
Locations ==
    [valid : BOOLEAN, time : Nat, fix : Int, ok : BOOLEAN, carrier : Int, lat : Int, lon : Int,
     sats : Int, alt : Int, speed : Int, course : Int, decl : Int, hdop : Int, pdop : Int, vdop : Int]
Satellites == [gnss : Int, sv : Int, elev : Int, azim : Nat, cno : Int, used : BOOLEAN]

\* What a member of nmea_data, or of a parsed sentence, may be.
Names == {"num", "time", "day", "month", "year", "date", "lat", "lon", "alt", "sep", "knots", "kmh",
          "course", "magnetic", "decl", "id", "elev", "azim", "snr", "hdop", "pdop", "vdop", "signal"}
Letters == {"N", "S", "E", "W", "A", "V", "M", "T", "K"}
Readings == {<<>>} \cup (Names \X Int) \cup ({"text"} \X Letters)

ASSUME PathAssumption ==
    /\ PerMessage \in Nat \ {0} /\ SlotCap \in Nat
    /\ \A fix \in Fixes : fix \in Locations
    /\ \A sky \in Skies : sky \in Seq(Satellites)

\* None is no buffer, no parsed sentence and no satellite.
ASSUME NoneAssumption ==
    /\ None \notin Locations
    /\ None \notin [active : BOOLEAN, speed : Readings, course : Readings]
    /\ None \notin [nav : Readings, pdop : Readings, hdop : Readings, vdop : Readings]
    /\ None \notin [magnetic : Readings, kmh : Readings]
    /\ None \notin [id : Readings, elev : Readings, azim : Readings, snr : Readings]

-----------------------------------------------------------------------------
(* Sequences, as the loops of the code make them.                          *)

\* The elements that are in S, in their order.
Picked(seq, S) == FoldLeft(LAMBDA chosen, e: IF e \in S THEN Append(chosen, e) ELSE chosen, <<>>, seq)
\* One sequence after the other.
Joined(seqs) == FoldLeft(LAMBDA before, next: before \o next, <<>>, seqs)

-----------------------------------------------------------------------------
(* Fields.                                                                 *)

Empty == <<>>
Text(c) == <<"text", c>>
Num(n) == <<"num", n>>
Zero == Num(0)
IfPositive(what, n) == IF n > 0 THEN <<what, n>> ELSE Empty

Magnitude(n) == IF n < 0 THEN -n ELSE n
\* format_latitude(), format_longitude(): degrees and minutes, without the sign.
FormatAngle(what, minutes) ==
    <<what, (Magnitude(minutes) \div 60) * 100 + (Magnitude(minutes) % 60)>>
Indicator(minutes, positive, negative) == Text(IF minutes >= 0 THEN positive ELSE negative)

Field(s, i) == IF i < Len(s.fields) THEN s.fields[i + 1] ELSE Empty

\* parse_double(), parse_int(): what the member keeps when there is nothing to parse.
ParseOr(field, otherwise) == IF field = Empty THEN otherwise ELSE field
ParseLatLon(value, direction) ==
    LET minutes == (value[2] \div 100) * 60 + (value[2] % 100)
    IN  <<value[1], IF direction \in {Text("S"), Text("W")} THEN -minutes ELSE minutes>>

-----------------------------------------------------------------------------
(* The generator.  shared_buffer_mapper makes the input of a sentence of   *)
(* the buffers, a builder makes the sentence of its input.  Both remember  *)
(* what they were made of, which no part of the code looks at.             *)

Quality(loc) == CASE loc.fix \in {1, 4} -> 6
                  [] loc.fix \in {2, 3} -> (CASE loc.carrier = 2 -> 4 [] loc.carrier = 1 -> 5
                                              [] OTHER -> 1)
                  [] OTHER -> 0
Mode(loc) == CASE loc.ok /\ loc.fix \in {1, 4} -> "E" [] loc.ok /\ loc.fix \in {2, 3} -> "A"
               [] OTHER -> "N"
Active(loc) == loc.ok /\ loc.fix >= 2
NavMode(loc) == CASE loc.fix = 2 -> 2 [] loc.fix >= 3 -> 3 [] OTHER -> 1

\* An input is not valid if the buffer it is made of is not.
to_gga(loc) ==
    [valid |-> loc.valid, from |-> loc, time |-> loc.time, lat |-> loc.lat, lon |-> loc.lon,
     quality |-> Quality(loc), sats |-> loc.sats, hdop |-> loc.hdop, msl |-> loc.alt, sep |-> loc.alt]

to_rmc(loc) ==
    [valid |-> loc.valid, from |-> loc, time |-> loc.time, active |-> Active(loc), lat |-> loc.lat,
     lon |-> loc.lon, knots |-> loc.speed, course |-> loc.course, date |-> loc.time,
     variation |-> loc.decl, varies |-> loc.decl # 0, mode |-> Mode(loc)]

\* The satellites in use, at most twelve.
to_gsa(loc, sky) ==
    LET used == Picked(sky, {sv \in Range(sky) : sv.used})
    IN  [valid |-> loc.valid, from |-> loc, nav |-> NavMode(loc),
         sats |-> IF Len(used) > 12 THEN SubSeq(used, 1, 12) ELSE used,
         pdop |-> loc.pdop, hdop |-> loc.hdop, vdop |-> loc.vdop]

to_vtg(loc) ==
    [valid |-> loc.valid, from |-> loc, course |-> loc.course, magnetic |-> loc.course + loc.decl,
     varies |-> loc.decl # 0, speed |-> loc.speed, mode |-> Mode(loc)]

to_gll(loc) ==
    [valid |-> loc.valid, from |-> loc, lat |-> loc.lat, lon |-> loc.lon, time |-> loc.time,
     active |-> Active(loc), mode |-> Mode(loc)]

\* Of the location, or of the time buffer; the time zone is none.
to_zda(loc) == [valid |-> loc.valid, from |-> loc, time |-> loc.time]
to_zda_timing(tim) == [valid |-> tim.valid, from |-> tim, time |-> tim.time]

MakeSentence(type, fields, origin) == [type |-> type, fields |-> fields, from |-> origin]
Status(in) == Text(IF in.active THEN "A" ELSE "V")

Gga(in) ==
    MakeSentence("GGA",
        << <<"time", in.time>>, FormatAngle("lat", in.lat), Indicator(in.lat, "N", "S"),
           FormatAngle("lon", in.lon), Indicator(in.lon, "E", "W"), Num(in.quality), Num(in.sats),
           IfPositive("hdop", in.hdop), <<"alt", in.msl>>, Text("M"), <<"sep", in.sep>>, Text("M"),
           Empty, Empty >>, in.from)

Rmc(in) ==
    MakeSentence("RMC",
        << <<"time", in.time>>, Status(in), FormatAngle("lat", in.lat), Indicator(in.lat, "N", "S"),
           FormatAngle("lon", in.lon), Indicator(in.lon, "E", "W"), <<"knots", in.knots>>,
           <<"course", in.course>>, <<"date", in.date>>,
           IF in.varies THEN <<"decl", Magnitude(in.variation)>> ELSE Empty,
           IF in.varies THEN Indicator(in.variation, "E", "W") ELSE Empty, Text(in.mode) >>, in.from)

\* Twelve places for satellites, and the three DOPs behind them.
GsaFields(nav, sats, pdop, hdop, vdop) ==
    <<Text("A"), Num(nav)>>
    \o [i \in 1..12 |-> IF i <= Len(sats) THEN <<"id", sats[i].sv>> ELSE Empty]
    \o <<pdop, hdop, vdop>>
Gsa(in) ==
    MakeSentence("GSA", GsaFields(in.nav, in.sats, IfPositive("pdop", in.pdop),
                                  IfPositive("hdop", in.hdop), IfPositive("vdop", in.vdop)), in.from)

Vtg(in) ==
    MakeSentence("VTG",
        << <<"course", in.course>>, Text("T"), IF in.varies THEN <<"magnetic", in.magnetic>> ELSE Empty,
           Text("M"), <<"knots", in.speed>>, Text("N"), <<"kmh", in.speed>>, Text("K"),
           Text(in.mode) >>, in.from)

Gll(in) ==
    MakeSentence("GLL",
        << FormatAngle("lat", in.lat), Indicator(in.lat, "N", "S"), FormatAngle("lon", in.lon),
           Indicator(in.lon, "E", "W"), <<"time", in.time>>, Status(in), Text(in.mode) >>, in.from)
Zda(in) ==
    MakeSentence("ZDA", << <<"time", in.time>>, <<"day", in.time>>, <<"month", in.time>>,
                           <<"year", in.time>>, Zero, Zero >>, in.from)

\* gsv_builder: a set is as many sentences as its satellites need, one if there are none.
Messages(set) == IF set = <<>> THEN 1 ELSE (Len(set) + PerMessage - 1) \div PerMessage
Block(sv) == << <<"id", sv.sv>>, IF sv.elev >= 0 THEN <<"elev", sv.elev>> ELSE Empty,
                <<"azim", sv.azim>>, IfPositive("snr", sv.cno) >>
GsvPart(set, msg) ==
    LET first == (msg - 1) * PerMessage + 1
        last == IF msg * PerMessage <= Len(set) THEN msg * PerMessage ELSE Len(set)
    IN  MakeSentence("GSV", <<Num(Messages(set)), Num(msg), Num(Len(set))>>
                     \o Joined([i \in 1..last - first + 1 |-> Block(set[first + i - 1])]), set)
GsvSet(set) == [msg \in 1..Messages(set) |-> GsvPart(set, msg)]

\* to_gsv_all(): a set for each constellation that is in view, in this order.
Constellations == <<"GP", "GL", "GA", "GB", "GQ">>
\* gnss_id_to_talker(): None for SBAS, NavIC and what is not known.
Talker(gnss) == CASE gnss = 0 -> "GP" [] gnss = 2 -> "GA" [] gnss = 3 -> "GB"
                  [] gnss = 5 -> "GQ" [] gnss = 6 -> "GL" [] OTHER -> None
Group(sky, talker) == Picked(sky, {sv \in Range(sky) : Talker(sv.gnss) = talker})
GsvAll(sky) ==
    LET present == Picked(Constellations, {t \in Enabled : Group(sky, t) # <<>>})
    IN  Joined([j \in DOMAIN present |-> GsvSet(Group(sky, present[j]))])

\* The sentence of the input, if it is enabled and there is something to say.
Push(type, in, sentence) == IF type \in Enabled /\ in.valid THEN <<sentence>> ELSE <<>>

\* All but the ZDA, which comes last.
Timeless(loc, sky) ==
    LET gga == to_gga(loc)
        rmc == to_rmc(loc)
        gsa == to_gsa(loc, sky)
        vtg == to_vtg(loc)
        gll == to_gll(loc)
    IN  Push("GGA", gga, Gga(gga)) \o Push("RMC", rmc, Rmc(rmc)) \o Push("GSA", gsa, Gsa(gsa))
        \o (IF "GSV" \in Enabled THEN GsvAll(sky) ELSE <<>>)
        \o Push("VTG", vtg, Vtg(vtg)) \o Push("GLL", gll, Gll(gll))

Generate(loc, sky) == Timeless(loc, sky) \o Push("ZDA", to_zda(loc), Zda(to_zda(loc)))

\* With a time buffer: its ZDA takes the place of the location's, or comes last.
GenerateTimed(loc, sky, tim) ==
    IF tim.valid THEN Timeless(loc, sky) \o Push("ZDA", to_zda_timing(tim), Zda(to_zda_timing(tim)))
    ELSE Generate(loc, sky)

-----------------------------------------------------------------------------
(* A chip.  It sends the same sentences in another order, with the signal  *)
(* at the end of a GSV; without a fix it leaves position and speed empty.  *)

NoFix(loc) == [loc EXCEPT !.fix = 0, !.ok = FALSE]
VoidGga(loc) ==
    MakeSentence("GGA",
        << <<"time", loc.time>>, Empty, Empty, Empty, Empty, Zero, Zero, <<"hdop", 99>>, Empty,
           Text("M"), Empty, Text("M"), Empty, Empty >>, NoFix(loc))
VoidRmc(loc) ==
    MakeSentence("RMC",
        << <<"time", loc.time>>, Text("V"), Empty, Empty, Empty, Empty, Empty, Empty,
           <<"date", loc.time>>, Empty, Empty, Text("N") >>, NoFix(loc))
VoidVtg(loc) ==
    MakeSentence("VTG",
        << Empty, Text("T"), Empty, Text("M"), Empty, Text("N"), Empty, Text("K"), Text("N") >>,
        NoFix(loc))
VoidGsa(loc) ==
    MakeSentence("GSA", GsaFields(1, <<>>, <<"pdop", 99>>, <<"hdop", 99>>, <<"vdop", 99>>),
                 [NoFix(loc) EXCEPT !.pdop = 99, !.hdop = 99, !.vdop = 99])

WithSignal(s) == [s EXCEPT !.fields = Append(@, <<"signal", 1>>)]
Chip(loc, sky) ==
    LET all == GsvAll(sky)
        gsv == [j \in DOMAIN all |-> WithSignal(all[j])]
    IN  IF loc.valid
        THEN <<Rmc(to_rmc(loc)), Vtg(to_vtg(loc)), Gga(to_gga(loc)), Gsa(to_gsa(loc, sky))>> \o gsv
        ELSE <<VoidRmc(loc), VoidVtg(loc), VoidGga(loc), VoidGsa(loc)>> \o gsv

-----------------------------------------------------------------------------
(* The parsers.                                                            *)

Accepts(s) ==
    LET n == Len(s.fields)
        given(i) == Field(s, i) # Empty
    IN  CASE s.type = "GGA" -> n >= 14 /\ \A i \in {0, 1, 3, 5, 6} : given(i)
          [] s.type = "RMC" -> n >= 9 /\ \A i \in {0, 1, 2, 4} : given(i)
          [] s.type = "GSA" -> n >= 17
          [] s.type = "VTG" -> n >= 7
          [] s.type = "GSV" -> n >= 3 /\ \A i \in 0..2 : given(i)

GgaParser(s) ==
    [lat |-> ParseLatLon(Field(s, 1), Field(s, 2)), lon |-> ParseLatLon(Field(s, 3), Field(s, 4)),
     quality |-> Field(s, 5), sats |-> Field(s, 6), hdop |-> ParseOr(Field(s, 7), Zero),
     alt |-> ParseOr(Field(s, 8), Zero), sep |-> ParseOr(Field(s, 10), Zero)]

RmcParser(s) ==
    [active |-> Field(s, 1) = Text("A"), speed |-> ParseOr(Field(s, 6), Zero),
     course |-> ParseOr(Field(s, 7), Zero)]

\* Counted as the comment in the parser counts them, with the last field at 16.
BugGsaParser(s) ==
    [nav |-> ParseOr(Field(s, 1), Zero), pdop |-> ParseOr(Field(s, 13), Zero),
     hdop |-> ParseOr(Field(s, 14), Zero), vdop |-> ParseOr(Field(s, 15), Zero)]
GsaParser(s) ==
    [nav |-> ParseOr(Field(s, 1), Zero), pdop |-> ParseOr(Field(s, 14), Zero),
     hdop |-> ParseOr(Field(s, 15), Zero), vdop |-> ParseOr(Field(s, 16), Zero)]

VtgParser(s) == [magnetic |-> Field(s, 2), kmh |-> ParseOr(Field(s, 6), Zero)]

\* As many blocks of four fields as there are; what is left over is the signal.
GsvParser(s) ==
    LET given == (Len(s.fields) - 3) \div 4
        blocks == IF given > PerMessage THEN PerMessage ELSE given
    IN  [msgs |-> Field(s, 0)[2], msg |-> Field(s, 1)[2], inView |-> Field(s, 2)[2],
         sats |-> [b \in 1..blocks |->
                      [id |-> ParseOr(Field(s, 4 * b - 1), Zero),
                       elev |-> ParseOr(Field(s, 4 * b), Num(-1)),
                       azim |-> ParseOr(Field(s, 4 * b + 1), Zero),
                       snr |-> ParseOr(Field(s, 4 * b + 2), Num(-1))]]]

-----------------------------------------------------------------------------
(* The handlers, the store and the commit.                                 *)

\* db_gsv_handler::update()
BugGsvUpdate(g, part) ==
    LET h == IF part.msg = 1 THEN [g EXCEPT !.expected = part.msgs, !.complete = FALSE] ELSE g
    IN  [h EXCEPT !.parts = Append(@, part), !.complete = @ \/ part.msg = h.expected]
GsvUpdate(g, part) ==
    LET h == IF part.msg = 1 THEN [parts |-> <<>>, expected |-> part.msgs, complete |-> FALSE]
             ELSE g
    IN  [h EXCEPT !.parts = Append(@, part), !.complete = @ \/ part.msg = h.expected]

\* db_gsv_handler::handle(): the satellites of the parts, one after the other.
GsvHandler(g, st) ==
    LET sats == Joined([j \in DOMAIN g.parts |-> g.parts[j].sats])
    IN  [st EXCEPT !.inView = g.parts[1].inView,
                   !.slots = [i \in 1..SlotCap |-> IF i <= Len(sats) THEN sats[i] ELSE @[i]]]
GsvCleared(g) == [g EXCEPT !.parts = <<>>, !.complete = FALSE]

GgaHandler(m, st) == [st EXCEPT !.gga = m]
RmcHandler(m, st) == [st EXCEPT !.rmc = m]
GsaHandler(m, st) == [st EXCEPT !.gsa = m]
\* The magnetic course stays what it was if the sentence has none.
VtgHandler(m, st) ==
    [st EXCEPT !.vtg = IF m.magnetic # Empty \/ @ = None THEN m
                       ELSE [m EXCEPT !.magnetic = st.vtg.magnetic]]

\* -1 as an unsigned byte: the conversion of the double is undefined; it saturates or wraps.
Unsigned(field, u) == IF field = Num(-1) THEN Num(u) ELSE field

\* on_hp_commit(): a new nmea_data, zero where the store has nothing.
Commit(st, u) ==
    LET shown(i) == IF st.slots[i] = None THEN [id |-> Zero, elev |-> Zero, azim |-> Zero, snr |-> Zero]
                    ELSE [st.slots[i] EXCEPT !.snr = Unsigned(@, u)]
    IN  [lat |-> st.gga.lat, lon |-> st.gga.lon, alt |-> st.gga.alt, sep |-> st.gga.sep,
         quality |-> st.gga.quality, sats |-> st.gga.sats,
         hdop |-> IF st.gsa # None THEN st.gsa.hdop ELSE st.gga.hdop,
         active |-> st.rmc # None /\ st.rmc.active,
         speed |-> IF st.rmc # None THEN st.rmc.speed ELSE Zero,
         course |-> IF st.rmc # None THEN st.rmc.course ELSE Zero,
         nav |-> IF st.gsa # None THEN st.gsa.nav ELSE Zero,
         pdop |-> IF st.gsa # None THEN st.gsa.pdop ELSE Zero,
         vdop |-> IF st.gsa # None THEN st.gsa.vdop ELSE Zero,
         kmh |-> IF st.vtg # None THEN st.vtg.kmh ELSE Zero,
         magnetic |-> IF st.vtg # None THEN ParseOr(st.vtg.magnetic, Zero) ELSE Zero,
         inView |-> st.inView,
         sky |-> [i \in 1..(IF st.inView > SlotCap THEN SlotCap ELSE st.inView) |-> shown(i)]]

-----------------------------------------------------------------------------
VARIABLES
    line,       \* the sentences of the epoch that have not arrived yet
    gsv,        \* db_gsv_handler: the parts of the set, how many, whether it is complete
    store,      \* nmea_field_store, by sentence
    data,       \* nmea_data, what get_nmea_data() returns
    epochs, lost,
    whole,      \* history: the GSV set that arrives, and its parts that came one after the other
    said,       \* history: what the last sentence of each type was made of
    shown       \* history: the same at the last commit

pathVars == <<line, gsv, store, data, epochs, lost, whole, said, shown>>

PathInit ==
    /\ line = <<>>
    /\ gsv = [parts |-> <<>>, expected |-> 0, complete |-> FALSE]
    /\ store = [gga |-> None, rmc |-> None, gsa |-> None, vtg |-> None, inView |-> 0,
                slots |-> [i \in 1..SlotCap |-> None]]
    /\ data = None
    /\ epochs = 0 /\ lost = 0
    /\ whole = [set |-> <<>>, upto |-> 0]
    /\ said = [GGA |-> None, RMC |-> None, GSA |-> None, VTG |-> None, GSV |-> <<>>]
    /\ shown = None

At(epoch, fix) == [fix EXCEPT !.time = epoch]
Turned(epoch, sky) == [i \in DOMAIN sky |-> [sky[i] EXCEPT !.azim = epoch]]

Speak ==
    /\ line = <<>>
    /\ epochs < MaxEpochs
    /\ epochs' = epochs + 1
    /\ \E fix \in Fixes, sky \in Skies :
          LET loc == At(epochs', fix)
              sats == Turned(epochs', sky)
              tim == [valid |-> TRUE, time |-> epochs']
          IN  line' \in {Generate(loc, sats), GenerateTimed(loc, sats, tim), Chip(loc, sats)}
    /\ UNCHANGED <<gsv, store, data, lost, whole, said, shown>>

\* The checksum is wrong, or the sentence never ends.
Lose ==
    /\ line # <<>>
    /\ lost < MaxLost
    /\ lost' = lost + 1
    /\ line' = Tail(line)
    /\ UNCHANGED <<gsv, store, data, epochs, whole, said, shown>>

Arrives(type) ==
    /\ line # <<>>
    /\ Head(line).type = type
    /\ line' = Tail(line)
    /\ UNCHANGED <<epochs, lost>>

Told(s) == [said EXCEPT ![s.type] = s.from]

\* The only sentence that commits: its position, with what the others left in the store.
PositionArrives ==
    /\ Arrives("GGA")
    /\ LET s == Head(line)
       IN  IF Accepts(s)
           THEN /\ store' = GgaHandler(GgaParser(s), store)
                /\ \E u \in {0, 255} : data' = Commit(store', u)
                /\ said' = Told(s)
                /\ shown' = said'
           ELSE UNCHANGED <<store, data, said, shown>>
    /\ UNCHANGED <<gsv, whole>>

StoredOnly ==
    /\ \/ Arrives("RMC") \/ Arrives("GSA") \/ Arrives("VTG")
    /\ LET s == Head(line)
       IN  IF Accepts(s)
           THEN /\ store' = CASE s.type = "RMC" -> RmcHandler(RmcParser(s), store)
                              [] s.type = "GSA" -> GsaHandler(GsaParser(s), store)
                              [] s.type = "VTG" -> VtgHandler(VtgParser(s), store)
                /\ said' = Told(s)
           ELSE UNCHANGED <<store, said>>
    /\ UNCHANGED <<gsv, data, whole, shown>>

\* A part that follows the one before it, or else a set that is not whole any more.
Follows(set, part) ==
    part.msg = 1 \/ (whole = [set |-> set, upto |-> part.msg - 1] /\ whole.upto > 0)

SatellitesArrive ==
    /\ Arrives("GSV")
    /\ LET s == Head(line)
           part == GsvParser(s)
           g == GsvUpdate(gsv, part)
       IN  /\ Accepts(s)
           /\ IF g.complete THEN store' = GsvHandler(g, store) /\ gsv' = GsvCleared(g)
              ELSE gsv' = g /\ UNCHANGED store
           /\ whole' = [set |-> s.from, upto |-> IF Follows(s.from, part) THEN part.msg ELSE 0]
           /\ said' = IF whole'.upto = 0 THEN [said EXCEPT !.GSV = None]
                      ELSE IF whole'.upto = part.msgs THEN Told(s) ELSE said
    /\ UNCHANGED <<data, shown>>

\* No parser is registered for these.
Unknown ==
    /\ Arrives("GLL") \/ Arrives("ZDA")
    /\ UNCHANGED <<gsv, store, data, whole, said, shown>>

PathNext == Speak \/ Lose \/ PositionArrives \/ StoredOnly \/ SatellitesArrive \/ Unknown

PathSpec == PathInit /\ [][PathNext]_pathVars

-----------------------------------------------------------------------------
(* Properties.                                                             *)

\* The buffer of a commit holds, member by member, what the last sentence of each type that
\* arrived was made of: signs and minutes survive, no field is taken for its neighbour
\* although fields are left empty, the HDOP is GSA's, and a sentence that was lost or that
\* has no position leaves the older values.
BufferIsWhatWasSent ==
    shown # None =>
        LET g == shown.GGA
            r == shown.RMC
            a == shown.GSA
            v == shown.VTG
            or(what, n) == IF n > 0 THEN <<what, n>> ELSE Zero
        IN  /\ data.lat = <<"lat", g.lat>> /\ data.lon = <<"lon", g.lon>>
            /\ data.alt = <<"alt", g.alt>> /\ data.sep = <<"sep", g.alt>>
            /\ data.quality = Num(Quality(g)) /\ data.sats = Num(g.sats)
            /\ data.hdop = or("hdop", IF a # None THEN a.hdop ELSE g.hdop)
            /\ r # None => /\ data.speed = <<"knots", r.speed>>
                           /\ data.course = <<"course", r.course>>
            /\ data.active <=> r # None /\ r.ok /\ r.fix >= 2
            /\ a # None => /\ data.nav = Num(NavMode(a))
                           /\ data.pdop = or("pdop", a.pdop) /\ data.vdop = or("vdop", a.vdop)
            /\ v # None => /\ data.kmh = IF v.valid THEN <<"kmh", v.speed>> ELSE Zero
                           /\ (v.valid /\ v.decl # 0) =>
                                 data.magnetic = <<"magnetic", v.course + v.decl>>

\* A set of GSV sentences that came whole is among what the next commit shows: each of its
\* satellites that there is room for, in its order and with its own values, so that nothing of
\* a set that broke off before it takes a place of it; and no fewer are said to be in view.
WholeSetIsShown ==
    (shown # None /\ shown.GSV # None) =>
        LET set == shown.GSV
        IN  /\ data.inView >= Len(set)
            /\ \A i \in DOMAIN set : i <= SlotCap =>
                  LET sv == data.sky[i]
                  IN  /\ i <= Len(data.sky)
                      /\ sv.id = <<"id", set[i].sv>> /\ sv.azim = <<"azim", set[i].azim>>
                      /\ sv.elev = (IF set[i].elev >= 0 THEN <<"elev", set[i].elev>> ELSE Num(-1))
                      /\ set[i].cno > 0 => sv.snr = <<"snr", set[i].cno>>
=============================================================================
