------------------------------ MODULE UbxCodec ------------------------------
(***************************************************************************)
(* The decoders and builders of ubx_parser.  A decoder is the order in     *)
(* which it reads its payload, first the head, then a block per entry: the *)
(* width of each member in bytes, negative where it skips them.  Decode    *)
(* runs one over the bounds-checked byte_reader.  What the bytes mean is   *)
(* left out, except where the library writes a frame itself: there they    *)
(* are real.                                                               *)
(***************************************************************************)
EXTENDS UbxMessages, FiniteSetsExt, Functions

CONSTANT DecoderCap     \* entries that fit the array of a decoded message

Unbounded == 65535      \* more than a payload can hold: the entries go into a vector

ASSUME DecoderCapAssumption ==
    DecoderCap \in [{"ESF_STATUS", "ESF_MEAS", "RXM_MEASX", "MON_IO", "MON_SPAN"} -> 1..255]

-----------------------------------------------------------------------------
(* The decoders.                                                           *)

\* What the five sorts have in common; size and step are the lengths the decoder checks
\* against, head and block what it reads.
Plain == [size |-> 0, exact |-> TRUE, head |-> <<>>, by |-> "none", step |-> 0,
          block |-> <<>>, least |-> 0, cap |-> 0, tail |-> FALSE]
Exactly(n, widths) == [Plain EXCEPT !.size = n, !.least = n, !.head = widths]
AtLeast(n, widths) == [Exactly(n, widths) EXCEPT !.exact = FALSE]
Counted(d, n, widths, cap) ==
    [d EXCEPT !.by = "byte", !.step = n, !.block = widths, !.cap = cap]
ByLength(d, least, n, widths, cap) ==
    [d EXCEPT !.by = "length", !.least = least, !.step = n, !.block = widths, !.cap = cap]

AckAck == Exactly(2, <<1, 1>>)
AckNak == Exactly(2, <<1, 1>>)
NavDop == Exactly(18, <<4>> \o Times(7, 2))
Nav2Dop == Exactly(18, <<4>> \o Times(7, 2))
NavEell == Exactly(16, <<4, 1, -3, 2, 2, 2, -2>>)
Nav2Eell == Exactly(16, <<4, 1, -3, 2, 2, 2, -2>>)
NavTimegps == Exactly(16, <<4, 4, 2, 1, 1, 4>>)
Nav2Timegps == Exactly(16, <<4, 4, 2, 1, 1, 4>>)
NavAtt == Exactly(32, <<4, 1, -3>> \o Times(6, 4))
NavClock == Exactly(20, Times(5, 4))
NavOdo == Exactly(20, <<1, -3>> \o Times(4, 4))
NavStatus == Exactly(16, <<4, 1, 1, 1, 1, 4, 4>>)
NavTimeutc == Exactly(20, <<4, 4, 4, 2>> \o Times(6, 1))
NavPvt == Exactly(92, <<4, 2>> \o Times(6, 1) \o <<4, 4>> \o Times(4, 1) \o Times(13, 4)
                      \o <<2, 1, -5, 4, 2, 2>>)
Nav2Pvt == Exactly(92, <<4, 2>> \o Times(6, 1) \o <<4, 4>> \o Times(4, 1) \o Times(13, 4)
                       \o <<2, 1, -5, 4, 2, 2>>)
TimTp == Exactly(16, <<4, 4, 4, 2, 1, 1>>)
EsfIns == Exactly(36, <<4, -4, 4>> \o Times(6, 4))
MonTxbuf == Exactly(28, Times(6, 2) \o Times(6, 1) \o Times(6, 1) \o <<1, 1, 1, -1>>)
SecCrc == AtLeast(8, <<1, 1, 2, 4>>)
SecSig == AtLeast(12, <<1, -3, 1, -3, 1, -3>>)
UpdSos == AtLeast(8, <<1, -3, 1, -3>>)

\* Tables.  The number of entries is a byte of the head or follows from the length.
NavSat == Counted(Exactly(8, <<4, 1, 1, -2>>), 12, <<1, 1, 1, 1, 2, 2, 4>>, Unbounded)
NavSig == Counted(Exactly(8, <<4, 1, 1, -2>>), 16, <<1, 1, 1, 1, 2, 1, 1, 1, 1, 2, -4>>, Unbounded)
\* The four reserved bytes after the BeiDou time are not skipped.
BugRxmMeasx == Counted(Exactly(44, <<1, -3, 4, 4, 4, 4, 2, 2, 2, -2, 2, 1, 1, -8>>), 24,
                       <<1, 1, 1, 1, 4, 4, 2, 2, 4, 1, 1, -2>>, DecoderCap["RXM_MEASX"])
RxmMeasx == Counted(Exactly(44, <<1, -3, 4, 4, 4, -4, 4, 2, 2, 2, -2, 2, 1, 1, -8>>), 24,
                    <<1, 1, 1, 1, 4, 4, 2, 2, 4, 1, 1, -2>>, DecoderCap["RXM_MEASX"])
EsfStatus == Counted(AtLeast(16, <<4, 1, -7, 1, -2, 1>>), 4, <<1, 1, 1, 1>>,
                     DecoderCap["ESF_STATUS"])
MonIo == ByLength(Exactly(0, <<>>), 20, 20, <<4, 4, 2, 2, 2, 2, 1, 1, -2>>,
                  DecoderCap["MON_IO"])
MonSpan == ByLength(Exactly(4, <<1, 1, -2>>), 276, 272, <<256, 4, 4, 4, 1, -3>>,
                    DecoderCap["MON_SPAN"])
MonVer == ByLength(Exactly(40, <<30, 10>>), 40, 30, <<30>>, Unbounded)
\* A time tag of calibration ends the message if two bits of the flags say so.
EsfMeas == [ByLength(Exactly(8, <<4, 2, 2>>), 8, 4, <<4>>, DecoderCap["ESF_MEAS"])
            EXCEPT !.tail = TRUE]

Decoders ==
    [ACK_ACK |-> AckAck, ACK_NAK |-> AckNak, NAV_PVT |-> NavPvt, NAV_SAT |-> NavSat,
     NAV_DOP |-> NavDop, NAV_EELL |-> NavEell, NAV_TIMEGPS |-> NavTimegps,
     NAV_STATUS |-> NavStatus, NAV_TIMEUTC |-> NavTimeutc, NAV_CLOCK |-> NavClock,
     NAV_ATT |-> NavAtt, NAV_ODO |-> NavOdo, NAV_SIG |-> NavSig, NAV2_PVT |-> Nav2Pvt,
     NAV2_DOP |-> Nav2Dop, NAV2_EELL |-> Nav2Eell, NAV2_TIMEGPS |-> Nav2Timegps,
     TIM_TP |-> TimTp, ESF_INS |-> EsfIns, ESF_STATUS |-> EsfStatus, ESF_MEAS |-> EsfMeas,
     RXM_MEASX |-> RxmMeasx, MON_IO |-> MonIo, MON_TXBUF |-> MonTxbuf, MON_SPAN |-> MonSpan,
     MON_VER |-> MonVer, SEC_CRC |-> SecCrc, SEC_SIG |-> SecSig, UPD_SOS |-> UpdSos]

-----------------------------------------------------------------------------
(* Running a decoder.  A frame has the length of its payload, the byte     *)
(* that counts the entries, whether it ends with a time tag, and whether   *)
(* the decoder knows its command (UPD-SOS).                                *)

Reader(length) == [left |-> length, ok |-> TRUE]
Read(r, width) == IF r.ok /\ r.left >= Span(width) THEN [r EXCEPT !.left = @ - Span(width)]
                                                   ELSE [r EXCEPT !.ok = FALSE]
ReadAll(r, widths) == FoldLeft(Read, r, widths)

Rejected == [ok |-> FALSE, entries |-> 0, left |-> 0]

Decode(f) ==
    LET d == Decoders[f.kind]
        tail == IF d.tail /\ f.tagged THEN 4 ELSE 0
        room == f.len - d.size - tail
        told == CASE d.by = "none" -> 0
                  [] d.by = "byte" -> f.count
                  [] d.by = "length" -> room \div d.step
        n == Min({told, d.cap})
        head == ReadAll(Reader(f.len), d.head)
        rows == ReadAll(head, FlattenSeq(Times(n, d.block)))
        rest == IF d.by = "length" THEN Read(rows, (told - n) * d.step) ELSE rows
        end == Read(rest, tail)
        fits == IF d.exact THEN room = told * d.step ELSE room >= told * d.step
    IN  IF f.len >= d.least /\ room >= 0 /\ fits /\ f.known /\ end.ok
        THEN [ok |-> TRUE, entries |-> n, left |-> end.left]
        ELSE Rejected

-----------------------------------------------------------------------------
(* The builders.  A key is <<group and identifier, size code>>, a value    *)
(* a 64-bit number as its eight bytes, the lowest first.                   *)

\* The low w bytes of n in two's complement, the lowest first.
Bytes(n, w) == [i \in 1..w |-> (n \div 256^(i - 1)) % 256]
Number(bytes) == FoldLeftDomain(LAMBDA n, i: n + bytes[i] * 256^(i - 1), 0, bytes)
From(bytes, first, w) == SubSeq(bytes, first, first + w - 1)

ValueByteSize(code) == CASE code \in {1, 2} -> 1 [] code = 3 -> 2 [] code = 4 -> 4
                         [] code = 5 -> 8 [] OTHER -> 0

KeyBytes(key) == Bytes(key[1], 3) \o <<key[2] * 16>>
\* The size taken from the wrong half of the byte, as if bits 27-24 held it.
BugPair(e) == KeyBytes(e.key) \o SubSeq(e.value, 1, ValueByteSize(1))
Pair(e) == IF ValueByteSize(e.key[2]) = 0 THEN <<>>
           ELSE KeyBytes(e.key) \o SubSeq(e.value, 1, ValueByteSize(e.key[2]))

\* ubx_cfg_valset_builder::build(): the payload, or nothing.
BuildValset(entries, layer) ==
    LET pairs == FlattenSeq([i \in DOMAIN entries |-> Pair(entries[i])])
    IN  IF pairs = <<>> THEN <<>> ELSE <<0, layer, 0, 0>> \o pairs

\* ubx_cfg_valget_builder::build()
BuildValget(keys, layer) ==
    IF keys = <<>> THEN <<>>
    ELSE <<0, layer, 0, 0>> \o FlattenSeq([i \in DOMAIN keys |-> KeyBytes(keys[i])])

\* cfg_valget_decoder::decode(): the entries up to the first key of unknown size; no message
\* if a value is cut off.
Truncated == <<[key |-> <<>>, value |-> <<>>]>>
RECURSIVE Pairs(_)
Pairs(rest) ==
    IF Len(rest) < 4 THEN <<>>
    ELSE LET key == <<Number(SubSeq(rest, 1, 3)), rest[4] \div 16>>
             size == ValueByteSize(key[2])
             value == From(rest, 5, size) \o Times(8 - size, 0)
             more == Pairs(SubSeq(rest, 5 + size, Len(rest)))
         IN  CASE size = 0 -> <<>>
               [] size > 0 /\ Len(rest) < 4 + size -> Truncated
               [] OTHER -> <<[key |-> key, value |-> value]>> \o more

DecodeValget(payload) ==
    IF Len(payload) < 4 THEN Truncated
    ELSE Pairs(SubSeq(payload, 5, Len(payload)))

-----------------------------------------------------------------------------
(* UBX-ESF-MEAS: what the library sends to the chip.  A measured value is  *)
(* an integer of its unit.                                                 *)

WheelTicks == {6, 7, 8, 9}
Scale(type) == CASE type = 11 -> 100 [] type \in {5, 12, 13} -> 4096
                 [] type \in {14, 16, 17} -> 1024 [] type = 10 -> 1000 [] OTHER -> 1

EncodeSensorValue(type, value, backward) ==
    CASE type \in WheelTicks -> (value % 2^23) + (IF backward THEN 2^23 ELSE 0)
      [] type = 10 -> value * Scale(type) * (IF backward THEN -1 ELSE 1)
      [] OTHER -> value * Scale(type)

\* ubx_esf_meas_builder::build(): at most as many measurements as a message may have.  The
\* five bits of the flags that count them are 0 for 32.
BuildEsfMeas(timeTag, data) ==
    IF Len(data) = 0 \/ Len(data) > DecoderCap["ESF_MEAS"] THEN <<>>
    ELSE Bytes(timeTag, 4) \o Bytes(Len(data) * 2^11, 2) \o <<0, 0>>
         \o FlattenSeq([i \in DOMAIN data |-> Bytes(data[i].value, 3) \o <<data[i].type>>])

\* slot_external_data_update(): the message made of the sensors' buffer.
MeasurementsOf(dr) ==
    [i \in 1..Min({Len(dr.sensors), DecoderCap["ESF_MEAS"]}) |->
        [type |-> dr.sensors[i].type,
         value |-> EncodeSensorValue(dr.sensors[i].type, dr.sensors[i].value, dr.backward)]]

\* esf_meas_decoder::decode(), the words: six bits of type, 24 bits of value with its sign.
MeasWord(word) ==
    LET raw == Number(SubSeq(word, 1, 3))
    IN  [type |-> word[4] % 64, value |-> IF raw >= 2^23 THEN raw - 2^24 ELSE raw]
DecodeEsfMeas(payload) ==
    [i \in 1..((Len(payload) - 8) \div 4) |-> MeasWord(From(payload, 5 + 4 * i, 4))]
=============================================================================
