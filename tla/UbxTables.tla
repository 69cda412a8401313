------------------------------ MODULE UbxTables ------------------------------
(***************************************************************************)
(* From the bytes of a frame to the members of the shared buffers: the     *)
(* decoder, the handler that writes the decoded message into the flat      *)
(* ubx_field_store, and the commit that copies the store's fields into the *)
(* buffers' structures.  Tables (satellites, sensors, ports) are arrays of *)
(* columns in that store, addressed by offset, and three parts of the code *)
(* each have a capacity of their own for them.  The threads that run these *)
(* steps are SharedBuffers; here one step follows the other.               *)
(*                                                                         *)
(* A value is where it comes from: message, field and entry.  What goes    *)
(* the other way, to the chip, has no state here: each frame that is       *)
(* built, and each INI file with the commands that send it, is looked at   *)
(* on its own.                                                             *)
(***************************************************************************)
EXTENDS Datum

CONSTANTS
    StoreCap,       \* entries the store has for a table
    BufferCap,      \* entries a shared buffer has for it
    MaxStamp,       \* bound: messages that reach the store
    Nothing

Tables == {"NAV_SAT", "ESF_STATUS", "RXM_MEASX", "MON_IO"}

\* What keeps the three apart is that they are the same numbers: the handlers of MON-IO and
\* RXM-MEASX count on the decoder's.
ASSUME CapsAgree ==
    /\ StoreCap \in [Tables \cup {"MON_RF", "ESF_MEAS", "NAV_SIG", "MON_SPAN"} -> 1..255]
    /\ BufferCap = [k \in Tables |-> StoreCap[k]]
    /\ \A k \in DOMAIN DecoderCap : DecoderCap[k] = StoreCap[k]
ASSUME StampsAssumption == MaxStamp \in Nat

-----------------------------------------------------------------------------
(* The store.                                                              *)

\* enum data_field: the messages in order, with their single fields and their columns.
SolutionFields == << <<"NAV_PVT", 33, 0>>, <<"NAV_DOP", 5, 0>>, <<"NAV_EELL", 3, 0>>,
                     <<"NAV_TIMEGPS", 3, 0>>, <<"NAV_STATUS", 1, 0>>, <<"TIM_TP", 9, 0>> >>
SatelliteFields == << <<"MON_RF", 1, 4>>, <<"NAV_SAT", 1, 16>> >>
SecondSolutionFields == << <<"NAV2_PVT", 28, 0>>, <<"NAV2_DOP", 5, 0>>, <<"NAV2_EELL", 3, 0>>,
                           <<"NAV2_TIMEGPS", 3, 0>>, <<"NAV_ODO", 4, 0>> >>
SensorFields == << <<"ESF_INS", 8, 0>>, <<"ESF_STATUS", 3, 7>>, <<"ESF_MEAS", 3, 2>> >>
SignalFields == << <<"NAV_SIG", 1, 13>> >>
ClockFields == << <<"NAV_TIMEUTC", 10, 0>>, <<"NAV_CLOCK", 5, 0>>, <<"NAV_ATT", 8, 0>> >>
MeasurementFields == << <<"RXM_MEASX", 10, 10>> >>
PortFields == << <<"MON_IO", 1, 8>>, <<"MON_TXBUF", 28, 0>>, <<"MON_SPAN", 1, 1>> >>
SecurityFields == << <<"SEC_SIG", 7, 0>> >>

Layout == SolutionFields \o SatelliteFields \o SecondSolutionFields \o SensorFields
          \o SignalFields \o ClockFields \o MeasurementFields \o PortFields \o SecurityFields

\* A column ends with its name in _X, one slot after its entries.
ColumnWidth(k) == StoreCap[k] + 1
Width(group) == group[2] + (IF group[3] = 0 THEN 0 ELSE group[3] * ColumnWidth(group[1]))
WidthOf(groups) == FoldLeft(LAMBDA n, g: n + Width(g), 0, groups)
Place == [k \in {Layout[j][1] : j \in DOMAIN Layout} |->
             CHOOSE j \in DOMAIN Layout : Layout[j][1] = k]
Base == [k \in DOMAIN Place |-> WidthOf(SubSeq(Layout, 1, Place[k] - 1))]
DATA_PARSE == WidthOf(Layout)

FieldAt(k, h) == Base[k] + h - 1

\* db_index_with_offset()
EntryAt(k, c, i) ==
    LET at == Base[k] + Layout[Place[k]][2] + (c - 1) * ColumnWidth(k) + i - 1
    IN  IF at < DATA_PARSE THEN at ELSE DATA_PARSE

\* The fields set so far, valid_[], are the domain of the store; a value for DATA_PARSE is
\* dropped.
Set(fields, values) == [at \in DOMAIN values \ {DATA_PARSE} |-> values[at]] @@ fields
IsValid(fields, at) == at \in DOMAIN fields
Get(fields, at) == IF IsValid(fields, at) THEN fields[at] ELSE Nothing

-----------------------------------------------------------------------------
(* The handlers: the single fields and the columns each of them sets.  A   *)
(* message is its kind, its number of entries and its arrival number.      *)

All(n) == [fields |-> 1..n, columns |-> {}]

\* Gear and time status are not in the message.
NavPvtHandler == [fields |-> (1..33) \ {14, 15}, columns |-> {}]
NavDopHandler == All(5)
NavTimegpsHandler == All(3)
NavStatusHandler == All(1)
TimTpHandler == All(9)
NavTimeutcHandler == All(10)
NavClockHandler == All(5)
NavAttHandler == All(8)
SecSigHandler == All(7)
EsfInsHandler == All(8)
\* What is pending goes to the fields of what is available.
MonTxbufHandler == [fields |-> (1..28) \ (9..14), columns |-> {}]
\* The last four columns, of single frequencies, are never set.
NavSatHandler == [fields |-> {1}, columns |-> 1..12]
EsfStatusHandler == [fields |-> 1..3, columns |-> 1..7]
RxmMeasxHandler == [fields |-> 1..10, columns |-> 1..10]
MonIoHandler == [fields |-> {1}, columns |-> 1..8]

\* register_with_parser(): each kind with the handler that its stub calls, in two parts.
PositionHandlers ==
    [NAV_PVT |-> NavPvtHandler, NAV_SAT |-> NavSatHandler, NAV_DOP |-> NavDopHandler,
     NAV_TIMEGPS |-> NavTimegpsHandler, NAV_STATUS |-> NavStatusHandler,
     TIM_TP |-> TimTpHandler]
SystemHandlers ==
    [ESF_INS |-> EsfInsHandler, ESF_STATUS |-> EsfStatusHandler,
     NAV_TIMEUTC |-> NavTimeutcHandler, NAV_CLOCK |-> NavClockHandler, NAV_ATT |-> NavAttHandler,
     RXM_MEASX |-> RxmMeasxHandler, MON_IO |-> MonIoHandler, MON_TXBUF |-> MonTxbufHandler,
     SEC_SIG |-> SecSigHandler]
Handlers == PositionHandlers @@ SystemHandlers

Stored == DOMAIN Handlers

\* The entries a handler writes: two of them have the store's limit, two have none.
BugEntries(m) == m.n
Entries(m) == IF m.kind \in {"NAV_SAT", "ESF_STATUS"} THEN Min({m.n, StoreCap[m.kind]}) ELSE m.n

\* Which of the message's values goes into the field.
Source(k, h) == IF k = "MON_TXBUF" /\ h \in 2..8 THEN (IF h = 2 THEN 9 ELSE h + 6) ELSE h

\* The count stored with the values: of the satellites what was written, of the others the
\* message's own.
Value(m, c, i) == [kind |-> m.kind, stamp |-> m.stamp, field |-> c, entry |-> i,
                   n |-> IF m.kind = "NAV_SAT" THEN Entries(m) ELSE m.n]

Handle(fields, m) ==
    LET k == m.kind
        single == [at \in {FieldAt(k, h) : h \in Handlers[k].fields} |->
                      Value(m, Source(k, at - Base[k] + 1), 0)]
        entry(i) == [at \in {EntryAt(k, c, i) : c \in Handlers[k].columns} |->
                        Value(m, CHOOSE c \in Handlers[k].columns : EntryAt(k, c, i) = at, i)]
    IN  FoldLeft(LAMBDA fs, i: Set(fs, entry(i)), Set(fields, single), [i \in 1..Entries(m) |-> i])

-----------------------------------------------------------------------------
(* The commits: what the buffers take from the store.                      *)

\* Which field tells that the message has ever arrived, and the one with its count.
Probe(k) == CASE k = "NAV_DOP" -> 5 [] k = "RXM_MEASX" -> 9 [] OTHER -> 1
CountField(k) == CASE k = "ESF_STATUS" -> 3 [] k = "RXM_MEASX" -> 9 [] OTHER -> 1

LocationMembers == (1..33) \ {14, 15, 19}
TimePulseMembers == {1, 2, 3, 4, 6, 8, 9}
SecurityMembers == 2..7
TxBufMembers == {1} \cup 9..28
Members(k) == CASE k = "NAV_PVT" -> LocationMembers
                [] k = "TIM_TP" -> TimePulseMembers
                [] k = "SEC_SIG" -> SecurityMembers
                [] k = "MON_TXBUF" -> TxBufMembers
                [] OTHER -> Handlers[k].fields

\* The field a member is copied from: usage, pending and peak usage are next to each other.
Copied(k, h) == CASE k = "MON_TXBUF" /\ h \in 15..20 -> h - 12
                  [] k = "MON_TXBUF" /\ h \in 21..26 -> h - 6
                  [] OTHER -> h

\* A new structure is filled and then assigned.
Rows(fields, k, n) ==
    [i \in 1..n |-> [c \in Handlers[k].columns |-> Get(fields, EntryAt(k, c, i))]]
BugPart(fields, k) ==
    IF ~IsValid(fields, FieldAt(k, Probe(k))) THEN Nothing
    ELSE [members |-> [h \in Members(k) |-> Get(fields, FieldAt(k, Copied(k, h)))],
          rows |-> IF k \in Tables THEN Rows(fields, k, BufferCap[k]) ELSE <<>>]
Part(fields, k) ==
    IF ~IsValid(fields, FieldAt(k, Probe(k))) THEN Nothing
    ELSE [members |-> [h \in Members(k) |-> Get(fields, FieldAt(k, Copied(k, h)))],
          rows |-> IF k \in Tables
                   THEN Rows(fields, k, Min({fields[FieldAt(k, CountField(k))].n, BufferCap[k]}))
                   ELSE <<>>]

OfLowPriority == {"NAV_SAT", "RXM_MEASX", "MON_IO", "MON_TXBUF"}
CommitOf(k) == CASE k = "NAV_PVT" -> Stored \ OfLowPriority
                 [] k = "NAV_SAT" -> OfLowPriority
                 [] OTHER -> {}

-----------------------------------------------------------------------------
VARIABLES
    store,      \* ubx_field_store: the values of the fields that are set
    view,       \* what the shared buffers hold of each message
    last,       \* history: the last message of each kind that was decoded
    shown,      \* history: the same, at the last commit that copies it
    stamp,      \* history: messages stored so far
    result      \* the frame decoded or built last, or the file loaded

vars == <<store, view, last, shown, stamp, result>>

Init ==
    /\ store = <<>>
    /\ view = [k \in Stored |-> Nothing]
    /\ last = [k \in Stored |-> Nothing]
    /\ shown = [k \in Stored |-> Nothing]
    /\ stamp = 0
    /\ result = Nothing

\* A frame of a kind the wrapper has a handler for, accepted: update(), apply_update() and,
\* for an epoch, the commit.
Store(f) ==
    LET d == Decode(f)
        m == [kind |-> f.kind, n |-> d.entries, stamp |-> stamp + 1]
    IN  /\ f.kind \in Stored
        /\ d.ok
        /\ stamp < MaxStamp
        /\ stamp > 0 \/ result = Nothing
        /\ stamp' = m.stamp
        /\ result' = [of |-> "frame", frame |-> f, decoded |-> d]
        /\ store' = Handle(store, m)
        /\ last' = [last EXCEPT ![f.kind] = m]
        /\ view' = [k \in Stored |-> IF k \in CommitOf(f.kind) THEN Part(store', k) ELSE view[k]]
        /\ shown' = [k \in Stored |-> IF k \in CommitOf(f.kind) THEN last'[k] ELSE shown[k]]

\* Every other frame changes no buffer, and building a frame neither: it is enough to look
\* at each of them on its own (bound).
Ignore(f) ==
    LET d == Decode(f)
    IN  /\ ~(f.kind \in Stored /\ d.ok)
        /\ result = Nothing
        /\ result' = [of |-> "frame", frame |-> f, decoded |-> d]
        /\ UNCHANGED <<store, view, last, shown, stamp>>

Build(what, from, payload) ==
    /\ result = Nothing
    /\ result' = [of |-> what, from |-> from, payload |-> payload]
    /\ UNCHANGED <<store, view, last, shown, stamp>>

\* poll_config() and force_sync_config() with an INI file.
Configure(file) ==
    /\ result = Nothing
    /\ result' = Configured(file)
    /\ UNCHANGED <<store, view, last, shown, stamp>>

\* set_datum(), reset_datum(), query_datum() and what else happens to the datum, in a row.
SetAndQuery(script) ==
    /\ result = Nothing
    /\ result' = Commanded(script)
    /\ UNCHANGED <<store, view, last, shown, stamp>>

-----------------------------------------------------------------------------
(* What the chip sends and what the library is asked to send.              *)

HasEntries(k) == Declared[k].each > 0
AtLeastOne == {"MON_IO", "MON_SPAN"}
CapOf(k) == IF k \in DOMAIN DecoderCap THEN DecoderCap[k] ELSE 2
Counts(k) == IF ~HasEntries(k) THEN {0}
             ELSE {0, 1, CapOf(k), CapOf(k) + 2} \ (IF k \in AtLeastOne THEN {0} ELSE {})

WholeLength(k, n, tagged) == Declared[k].len + n * Declared[k].each + (IF tagged THEN 4 ELSE 0)

\* A whole frame, one that lost its last byte and one with a byte too many.
FramesOf(k) ==
    { [kind |-> k, len |-> WholeLength(k, n, tagged) + over, count |-> n, tagged |-> tagged,
       known |-> known] :
        n \in Counts(k), over \in {-1, 0, 1}, known \in {TRUE} \cup {k # "UPD_SOS"},
        tagged \in IF k = "ESF_MEAS" THEN BOOLEAN ELSE {FALSE} }

\* Keys of each size, of an unknown one too, with values that fill it.
Entry == [key : {<<7, c>> : c \in {1, 3, 4, 5, 6}},
          value : {<<1, 2, 3, 4, 5, 6, 7, 8>>, <<255, 128, 0, 0, 0, 0, 0, 0>>}]
Settings == {<<>>} \cup {<<e>> : e \in Entry} \cup {<<e, g>> : e \in Entry, g \in Entry}

Sensor == [type : {6, 10, 11, 12, 16, 18}, value : {0, 5, 2047}]
SensorInputs ==
    [sensors : {<<q>> : q \in Sensor} \cup {<<q, r>> : q \in Sensor, r \in Sensor}
                 \cup {<<q, q, q>> : q \in Sensor},
     backward : BOOLEAN]

\* Files: the settings of two neighbouring keys; three lines of every sort; and a setting of
\* each size with every sort of text.
Setting(name, text) == <<"setting", name, text>>
Lines ==
    {<<"blank">>, <<"invalid">>, <<"section", 1>>, <<"section", 3>>,
     Setting(UnknownName, <<"integer", 5>>), Setting(1, <<"integer", 5>>),
     Setting(1, <<"null", 0>>), Setting(2, <<"integer", 6>>), Setting(2, <<"word", 0>>)}
Texts ==
    {<<"integer", n>> : n \in {0, 1, 200, 300, 70000, -1, -200, -40000}}
    \cup {<<"fraction", 2>>, <<"fraction", -2>>, <<"begins", 0>>, <<"begins", 300>>,
          <<"huge", 0>>, <<"word", 0>>, <<"true", 0>>, <<"false", 0>>, <<"null", 0>>}
NameOfSize == [c \in 1..5 |-> SelectInSeq(Registry, LAMBDA key: key[2] = c)]
Files ==
    {<<Setting(i, <<"integer", 1>>), Setting(i + 1, <<"integer", 0>>)>> :
        i \in 1..(Len(Registry) - 1)}
    \cup UNION {[1..n -> Lines] : n \in 0..3}
    \cup {<<Setting(NameOfSize[c], text)>> : c \in 1..5, text \in Texts}

\* Scripts of three commands.  The user's parameters: those of a datum, its axis half a
\* millimetre off, half a metre off, and 251 m off, and the parameters of two datums mixed.
Ellipsoids == {<<WgsAxis, WgsFlat>>, <<HalfMillimetreMore, WgsFlat>>, <<HalfWay, WgsFlat>>,
               <<International, WgsFlat>>, <<WgsAxis, PzFlat>>}
Commands ==
    {<<"set", id>> : id \in {Unknown, Wgs84, Pz90, 3, UserDefined}}
    \cup {<<"reset">>, <<"query">>}
    \cup {<<"poll", keys>> : keys \in {<<Usrdat>>, <<UsrdatMaja>>, <<UsrdatFlat, UsrdatMaja>>}}
    \cup {<<"user", e[1], e[2]>> : e \in Ellipsoids}
Scripts == UNION {[1..n -> Commands] : n \in 1..3}

Next ==
    \/ \E k \in DOMAIN Declared : \E f \in FramesOf(k) : Store(f) \/ Ignore(f)
    \/ \E entries \in Settings, layer \in {1, 7} :
           Build("valset", entries, BuildValset(entries, layer))
    \/ \E dr \in SensorInputs :
           Build("meas", dr, BuildEsfMeas(1000, MeasurementsOf(dr)))
    \/ \E file \in Files : Configure(file)
    \/ \E script \in Scripts : SetAndQuery(script)

Spec == Init /\ [][Next]_vars

-----------------------------------------------------------------------------
(* Properties.                                                             *)

Entered(k, n) == IF k \in DOMAIN DecoderCap THEN Min({n, DecoderCap[k]}) ELSE n

\* Every decoder reads the payload that its message declares: it takes a frame of the length
\* that goes with its entries and none that is a byte short, a longer one only where the chip
\* may append fields; it keeps the entries it has room for and, when they all fit, reads to
\* the end of the payload; and each member gets the bytes at its place, of its width.
DecodersKeepTheFormat ==
    (result # Nothing /\ result.of = "frame") =>
        LET f == result.frame
            d == result.decoded
            over == f.len - WholeLength(f.kind, f.count, f.tagged)
            open == f.kind \in {"SEC_CRC", "SEC_SIG", "UPD_SOS", "ESF_STATUS"}
        IN  /\ d.ok <=> f.known /\ (over = 0 \/ (over > 0 /\ open))
            /\ d.ok => /\ d.entries = Entered(f.kind, f.count)
                       /\ d.entries = f.count => d.left = over
            /\ Places(Decoders[f.kind].head) = Places(Declared[f.kind].head)
            /\ Places(Decoders[f.kind].block) = Places(Declared[f.kind].block)
            /\ Length(Declared[f.kind].head) = Declared[f.kind].len
            /\ Length(Declared[f.kind].block) = Declared[f.kind].each

\* What the builders write can be read back.  The settings of a VALSET are those given, of
\* the size their key tells, without the ones of unknown size; no frame is built when none
\* is left.  The words of an ESF-MEAS hold the measurements that fit, each with its type:
\* signed values to scale, wheel ticks with their direction in the top bit.
BuiltFramesReadBack ==
    /\ (result # Nothing /\ result.of = "valset") =>
           LET sized == SelectSeq(result.from, LAMBDA e: e.key[2] \in 1..5)
               cut(e) == [key |-> e.key,
                          value |-> [j \in 1..8 |-> IF j <= ValueByteSize(e.key[2])
                                                    THEN e.value[j] ELSE 0]]
           IN  IF sized = <<>> THEN result.payload = <<>>
               ELSE DecodeValget(result.payload) = [i \in DOMAIN sized |-> cut(sized[i])]
    /\ (result # Nothing /\ result.of = "meas") =>
           LET words == DecodeEsfMeas(result.payload)
               sensors == result.from.sensors
               back == result.from.backward
           IN  /\ Len(words) = Min({Len(sensors), DecoderCap["ESF_MEAS"]})
               /\ \A i \in DOMAIN words :
                     LET q == sensors[i]
                         w == words[i]
                     IN  /\ w.type = q.type
                         /\ IF q.type \in 6..9
                            THEN w.value = q.value - (IF back THEN 2^23 ELSE 0)
                            ELSE w.value = (CASE q.type = 10 -> 1000 [] q.type = 11 -> 100
                                              [] q.type = 12 -> 4096 [] q.type = 16 -> 1024
                                              [] OTHER -> 1)
                                           * q.value * (IF q.type = 10 /\ back THEN -1 ELSE 1)

\* A file as its author reads it.  Of two settings of a name in a section the later counts;
\* of those in two sections neither is said to (the code takes the section that comes later
\* in the alphabet).
SectionAt(file, j) ==
    LET above == {k \in 1..j : file[k][1] = "section"}
    IN  IF above = {} THEN NoSection ELSE file[Max(above)][2]
KnownSettings(file) == {j \in DOMAIN file : file[j][1] = "setting" /\ file[j][2] # UnknownName}
Counting(file) ==
    {j \in KnownSettings(file) : \A k \in KnownSettings(file) :
        k > j => file[k][2] # file[j][2] \/ SectionAt(file, k) # SectionAt(file, j)}
Saying(file) == {j \in Counting(file) : file[j][3][1] # "null"}
Alone(file) == {j \in Saying(file) : \A k \in Saying(file) : file[k][2] = file[j][2] => k = j}
Unreadable(file) == {j \in Counting(file) : file[j][3][1] \in {"huge", "word"}}
Number32(text) == CASE text[1] = "true" -> 1 [] text[1] = "false" -> 0 [] OTHER -> text[2]
SizeOf(key) == <<1, 1, 2, 4, 8>>[key[2]]

Loaded == result # Nothing /\ result.of = "file"

Readable(file) == Saying(file) \ Unreadable(file)
Broken(file) == \E j \in DOMAIN file : file[j][1] = "invalid"

\* A file is taken for the settings it can be read as, or leaves the chip alone: if a line has
\* no sense it is turned down, wherever the line is, and when force_sync_config() reports
\* success the chip has every setting that can be read, and nothing else.  poll_config()
\* reports success with the same files.  Each name stands for a key of its own; the number is
\* that of the text, in two's complement of the key's size.  (Negative numbers of eight bytes
\* apart: the code loses their sign.)
ChipHasTheFile ==
    Loaded =>
        LET file == result.from
            key(j) == Registry[file[j][2]]
        IN  /\ Broken(file) \/ Readable(file) = {} => result.forced # "true"
            /\ Unreadable(file) = {} =>
                  (result.forced = "true" <=> ~Broken(file) /\ Readable(file) # {})
            /\ result.polled = "true" <=> result.forced = "true"
            /\ \A j \in KnownSettings(file) : LookupById(key(j)) = file[j][2]
            /\ DOMAIN result.chip = IF result.forced = "true" THEN {key(j) : j \in Readable(file)}
                                    ELSE {}
            /\ result.forced = "true" =>
                  \A j \in Alone(file) \ Unreadable(file) :
                        LET n == Number32(file[j][3])
                            w == Min({SizeOf(key(j)), 4})
                        IN  ~(SizeOf(key(j)) = 8 /\ n < 0) =>
                                result.chip[key(j)] = Bytes(n, w) \o Times(8 - w, 0)

\* Once they are set, sync_config() has nothing more to send, of what fits its key at least: a
\* number too large for a key of one or two bytes, or negative there, the chip cannot report
\* as the pattern of 32 bits that the library compares.
NothingIsLeftToSend ==
    Loaded /\ result.forced = "true" =>
        \A j \in Alone(result.from) \ Unreadable(result.from) :
            LET key == Registry[result.from[j][2]]
                n == Number32(result.from[j][3])
                fits == SizeOf(key) >= 4 \/ n \in 0..(256^SizeOf(key) - 1)
            IN  fits => \A i \in DOMAIN result.left : result.left[i].key # key

\* What an INI file says is what the chip gets, and what a synchronisation takes it to have.
SettingsReachTheChip == ChipHasTheFile /\ NothingIsLeftToSend

\* What the datum that the chip was given last may be called: its identity, the default's, or
\* for parameters that are a datum's or within a millimetre that datum's; parameters far from
\* any are of none that is known.  Between the two the tolerances decide.
Meant(c) ==
    CASE c[1] = "set" /\ c[2] \in {Wgs84, Pz90} -> {c[2]}
      [] c[1] = "user" -> CASE c[2] = International -> {Unknown, UserDefined}
                            [] c[2] = HalfWay \/ c[3] = PzFlat -> {Wgs84, Pz90, Unknown, UserDefined}
                            [] OTHER -> {Wgs84}
      [] OTHER -> {Wgs84}
Writes(c) == c[1] \in {"reset", "user"} \/ (c[1] = "set" /\ c[2] # 3)
Written(script) == Max({0} \cup {i \in DOMAIN script : Writes(script[i])})
QueriedSince(script, i) == \E q \in DOMAIN script : q > i /\ script[q] = <<"query">>

\* Once query_datum() has had its answer, the service knows the datum that the chip was given
\* last and has announced it; answers to polls of some of the keys, before and after, do not
\* lead it astray, nor does what it had learned of an earlier datum, nor parameters that the
\* chip still has of a user datum that is switched off.
DatumIsTheChips ==
    (result # Nothing /\ result.of = "datum") =>
        LET script == result.from
            written == Written(script)
            service == result.end.service
        IN  QueriedSince(script, written) =>
                /\ service.valid /\ service.told = service.id
                /\ service.id \in IF written = 0 THEN {Wgs84} ELSE Meant(script[written])

Is(v, m, c, i) == v # Nothing /\ v.kind = m.kind /\ v.stamp = m.stamp /\ v.field = c /\ v.entry = i
Kept(m) == Min({m.n, StoreCap[m.kind]})

\* Messages do not write into each other: whatever is in a field of the store is a value of
\* the message the field belongs to, of its column and entry, and of the last message every
\* entry the table has room for is there.
ColumnsStayApart ==
    /\ \A at \in DOMAIN store :
          LET v == store[at]
          IN  IF v.entry > 0 THEN v.entry <= StoreCap[v.kind] /\ at = EntryAt(v.kind, v.field, v.entry)
              ELSE \E h \in Handlers[v.kind].fields :
                      at = FieldAt(v.kind, h) /\ v.field = Source(v.kind, h)
    /\ \A k \in Stored : last[k] # Nothing =>
          \A c \in Handlers[k].columns : \A i \in 1..Kept(last[k]) :
              Is(Get(store, EntryAt(k, c, i)), last[k], c, i)

Shows(k) ==
    IF shown[k] = Nothing THEN view[k] = Nothing
    ELSE /\ view[k] # Nothing
         /\ \A h \in Members(k) : Is(view[k].members[h], shown[k], h, 0)
         /\ k \in Tables =>
               /\ Len(view[k].rows) = Kept(shown[k])
               /\ \A i \in DOMAIN view[k].rows : \A c \in Handlers[k].columns :
                     Is(view[k].rows[i][c], shown[k], c, i)

\* A commit copies into a buffer exactly its last messages, member by member and entry by
\* entry: nothing of an earlier, longer table shows behind a shorter one, and no entry
\* beyond the table's limit shows what is stored next to it.  (The state of the
\* transmit buffers apart: the code mixes its three members up.)
BuffersShowTheirMessages == \A k \in Stored \ {"MON_TXBUF"} : Shows(k)
=============================================================================
