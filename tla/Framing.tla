------------------------------ MODULE Framing ------------------------------
(***************************************************************************)
(* How frames and sentences are cut out of the bytes a receiver reads: the *)
(* worker hands every chunk to ubx_parser and then to nmea_parser, two     *)
(* byte-level state machines that know nothing of each other.  A parser is *)
(* made when the receiver is started and destroyed when it is stopped, in  *)
(* the middle of whatever it was reading.                                  *)
(***************************************************************************)
EXTENDS Integers, Sequences, SequencesExt

CONSTANTS
  Streams,     \* what may come out of the port
  MaxPayload,  \* max_payload_len_ of ubx_parser
  BufferLen,   \* NMEA_BUFFER_LEN
  Chunk        \* the most bytes one read may return

ASSUME FramingAssumption ==
  MaxPayload \in 1 .. 2^16 - 1 /\ BufferLen \in Nat \ {0} /\ Chunk \in Nat \ {0}
ASSUME StreamsAssumption == \A s \in Streams : s \in Seq(0 .. 255)

VARIABLES
  stream,  \* the bytes of this behaviour
  pos,     \* how many of them have been read
  from,    \* how many had been read when the parsers were made
  ubx,     \* ubx_parser: its context, the frames dispatched, frames_discarded_
  nmea     \* nmea_parser: its context, the sentences dispatched, and discarded

vars == <<stream, pos, from, ubx, nmea>>

Sync1 == 181
Sync2 == 98
Dollar == 36
Star == 42
Comma == 44
Cr == 13
Lf == 10

-----------------------------------------------------------------------------
(* ubx_parser                                                              *)

\* The two running sums over class, id, length and payload.
Fletcher(ck, b) == <<(ck[1] + b) % 256, (ck[2] + ck[1] + b) % 256>>
UbxChecksum(bytes) == FoldLeft(Fletcher, <<0, 0>>, bytes)

\* build_ubx_frame(): how the library's own frames are made.
BuildFrame(class, id, payload) ==
  LET body == <<class, id, Len(payload) % 256, (Len(payload) \div 256) % 256>> \o payload
  IN  <<Sync1, Sync2>> \o body \o UbxChecksum(body)

UbxIdle == [state |-> "wait_sync_1", class |-> 0, id |-> 0, lo |-> 0, len |-> 0, payload |-> <<>>, a |-> 0]
NewUbx == [ctx |-> UbxIdle, frames |-> <<>>, discarded |-> 0]

UbxGoes(p, s) == [p EXCEPT !.ctx.state = s]

\* discard_frame(): nothing of what was read is looked at again.
DiscardFrame(p) == [p EXCEPT !.ctx = UbxIdle, !.discarded = @ + 1]

\* on_frame_complete(), up to the dispatch.
FrameComplete(p) ==
  [p EXCEPT !.ctx = UbxIdle,
            !.frames = Append(@, [class |-> p.ctx.class, id |-> p.ctx.id, payload |-> p.ctx.payload])]

\* Bug: a second sync byte that turns out to be a first one is not looked at again.
BugSecondSync(p, b) == UbxGoes(p, IF b = Sync2 THEN "wait_class" ELSE "wait_sync_1")

SecondSync(p, b) ==
  UbxGoes(p, CASE b = Sync2 -> "wait_class" [] b = Sync1 -> "wait_sync_2" [] OTHER -> "wait_sync_1")

LengthKnown(p, b) ==
  LET n == p.ctx.lo + 256 * b IN
  IF n > MaxPayload THEN DiscardFrame(p)
  ELSE [p EXCEPT !.ctx.len = n, !.ctx.payload = <<>>,
                 !.ctx.state = IF n = 0 THEN "wait_ck_a" ELSE "accumulate_payload"]

PayloadByte(p, b) ==
  [p EXCEPT !.ctx.payload = Append(@, b),
            !.ctx.state = IF Len(p.ctx.payload) + 1 = p.ctx.len THEN "wait_ck_a" ELSE @]

ChecksumByte(p, b) ==
  LET c == p.ctx
      body == <<c.class, c.id, c.lo, c.len \div 256>> \o c.payload
  IN  IF UbxChecksum(body) = <<c.a, b>> THEN FrameComplete(p) ELSE DiscardFrame(p)

\* ubx_parser::process_byte()
UbxByte(p, b) ==
  CASE p.ctx.state = "wait_sync_1" -> UbxGoes(p, IF b = Sync1 THEN "wait_sync_2" ELSE "wait_sync_1")
    [] p.ctx.state = "wait_sync_2" -> SecondSync(p, b)
    [] p.ctx.state = "wait_class"  -> [p EXCEPT !.ctx.class = b, !.ctx.state = "wait_id"]
    [] p.ctx.state = "wait_id"     -> [p EXCEPT !.ctx.id = b, !.ctx.state = "wait_len_lo"]
    [] p.ctx.state = "wait_len_lo" -> [p EXCEPT !.ctx.lo = b, !.ctx.state = "wait_len_hi"]
    [] p.ctx.state = "wait_len_hi" -> LengthKnown(p, b)
    [] p.ctx.state = "accumulate_payload" -> PayloadByte(p, b)
    [] p.ctx.state = "wait_ck_a"   -> [p EXCEPT !.ctx.a = b, !.ctx.state = "wait_ck_b"]
    [] p.ctx.state = "wait_ck_b"   -> ChecksumByte(p, b)

FeedUbx(p, bytes) == FoldLeft(UbxByte, p, bytes)

-----------------------------------------------------------------------------
(* nmea_parser                                                             *)

\* The exclusive or of two bytes: the bit of weight w is set in one of them.
Xor(x, b) ==
  LET bit(w) == w * ((x \div w + b \div w) % 2)
  IN  bit(1) + bit(2) + bit(4) + bit(8) + bit(16) + bit(32) + bit(64) + bit(128)

NmeaChecksum(bytes) == FoldLeft(Xor, 0, bytes)

\* parse_hex_byte(): the value of a hexadecimal digit; 16 for none.
Hex(b) == CASE b \in 48 .. 57  -> b - 48
            [] b \in 65 .. 70  -> b - 55
            [] b \in 97 .. 102 -> b - 87
            [] OTHER -> 16

HexDigit(n) == IF n < 10 THEN n + 48 ELSE n + 55

\* sentence_builder_base::assemble(): how the library's own sentences are made,
\* from all that stands between '$' and '*'.
Assemble(content) ==
  LET ck == NmeaChecksum(content)
  IN  <<Dollar>> \o content \o <<Star, HexDigit(ck \div 16), HexDigit(ck % 16), Cr, Lf>>

NmeaIdle == [state |-> "wait_dollar", buf |-> <<>>, xor |-> 0, hi |-> 0, received |-> 0, present |-> FALSE]
NewNmea == [ctx |-> NmeaIdle, sentences |-> <<>>, discarded |-> 0]

NmeaGoes(p, s) == [p EXCEPT !.ctx.state = s]
Begin(p) == [p EXCEPT !.ctx = [NmeaIdle EXCEPT !.state = "accumulate_sentence"]]

\* discard_with_error()
DiscardSentence(p) == [p EXCEPT !.ctx = NmeaIdle, !.discarded = @ + 1]

\* on_sentence_complete(): a sentence without a checksum is taken as it is.
SentenceComplete(p) ==
  IF p.ctx.present /\ p.ctx.xor # p.ctx.received THEN DiscardSentence(p)
  ELSE [p EXCEPT !.ctx = NmeaIdle,
                 !.sentences = Append(@, [content |-> p.ctx.buf, checked |-> p.ctx.present])]

AccumulateByte(p, b) ==
  CASE b = Dollar -> Begin(DiscardSentence(p))
    [] b = Star   -> [p EXCEPT !.ctx.present = TRUE, !.ctx.state = "wait_checksum_hi"]
    [] b = Cr     -> NmeaGoes(p, "wait_lf")
    [] b = Lf     -> SentenceComplete(p)
    [] OTHER -> IF Len(p.ctx.buf) >= BufferLen THEN DiscardSentence(p)
                ELSE [p EXCEPT !.ctx.buf = Append(@, b), !.ctx.xor = Xor(@, b)]

\* Neither digit is looked at as the beginning of a sentence.
SecondDigit(p, b) ==
  IF Hex(p.ctx.hi) = 16 \/ Hex(b) = 16 THEN DiscardSentence(p)
  ELSE [p EXCEPT !.ctx.received = 16 * Hex(p.ctx.hi) + Hex(b), !.ctx.state = "wait_lf"]

\* Bug: everything up to the end of the line is swallowed.
BugEndOfLine(p, b) == IF b = Lf THEN SentenceComplete(p) ELSE p

EndOfLine(p, b) ==
  CASE b = Lf     -> SentenceComplete(p)
    [] b = Dollar -> Begin(DiscardSentence(p))
    [] OTHER      -> p

\* nmea_parser::process_byte()
NmeaByte(p, b) ==
  CASE p.ctx.state = "wait_dollar" -> IF b = Dollar THEN Begin(p) ELSE p
    [] p.ctx.state = "accumulate_sentence" -> AccumulateByte(p, b)
    [] p.ctx.state = "wait_checksum_hi" -> [p EXCEPT !.ctx.hi = b, !.ctx.state = "wait_checksum_lo"]
    [] p.ctx.state = "wait_checksum_lo" -> SecondDigit(p, b)
    [] p.ctx.state = "wait_lf" -> EndOfLine(p, b)

FeedNmea(p, bytes) == FoldLeft(NmeaByte, p, bytes)

-----------------------------------------------------------------------------
Init ==
  /\ stream \in Streams /\ pos = 0 /\ from = 0
  /\ ubx = NewUbx /\ nmea = NewNmea

\* The worker reads a chunk and feeds it to one parser and then to the other.
Read(n) ==
  LET chunk == SubSeq(stream, pos + 1, pos + n) IN
  /\ pos + n <= Len(stream)
  /\ pos' = pos + n
  /\ ubx' = FeedUbx(ubx, chunk) /\ nmea' = FeedNmea(nmea, chunk)
  /\ UNCHANGED <<stream, from>>

\* stop() and start(): new parsers, whatever the old ones were in the middle of.
Restart ==
  /\ pos \in 1 .. Len(stream) - 1 /\ from = 0
  /\ from' = pos /\ ubx' = NewUbx /\ nmea' = NewNmea
  /\ UNCHANGED <<stream, pos>>

Next == Restart \/ \E n \in 1 .. Chunk : Read(n)

Spec == Init /\ [][Next]_vars

-----------------------------------------------------------------------------
Heard == SubSeq(stream, from + 1, pos)

\* Does s stand in the bytes t from place k on?
StandsAt(s, t, k) == k + Len(s) - 1 <= Len(t) /\ SubSeq(t, k, k + Len(s) - 1) = s

\* The frames in t from each place on: find the two sync characters, believe the length
\* that follows if it is not too large, and go on behind the frame it announces.
FramesFrom(t) ==
  LET last(k) == k + 7 + t[k + 4] + 256 * t[k + 5]
      body(k) == SubSeq(t, k + 6, last(k) - 2)
      behind[k \in 1 .. Len(t) + 1] ==
        IF k + 5 > Len(t) THEN <<>>
        ELSE IF ~StandsAt(<<Sync1, Sync2>>, t, k) THEN behind[k + 1]
        ELSE IF last(k) - k - 7 > MaxPayload THEN behind[k + 6]
        ELSE IF last(k) > Len(t) THEN <<>>
        ELSE IF StandsAt(BuildFrame(t[k + 2], t[k + 3], body(k)), t, k)
          THEN <<[class |-> t[k + 2], id |-> t[k + 3], payload |-> body(k)]>> \o behind[last(k) + 1]
        ELSE behind[last(k) + 1]
  IN  behind

FramesIn(t) == FramesFrom(t)[1]

\* However the bytes are cut into chunks and whatever stands between the
\* frames, ubx_parser has dispatched the frames that its input contains, none
\* lost and none invented, each as build_ubx_frame() would make it.
FramesAreThoseOfTheStream == ubx.frames = FramesIn(Heard)

\* What was dispatched as a sentence stands in the stream after a '$': before
\* '*' and its own checksum, or, if the line has none, before its end.
NoSentenceIsInvented ==
  \A i \in 1 .. Len(nmea.sentences) :
    LET s == nmea.sentences[i]
        ck == NmeaChecksum(s.content)
    IN  \E k \in 1 .. Len(Heard) :
          /\ StandsAt(<<Dollar>> \o s.content, Heard, k)
          /\ LET end == k + 1 + Len(s.content) IN
             IF s.checked
               THEN /\ end + 2 <= Len(Heard) /\ Heard[end] = Star
                    /\ Hex(Heard[end + 1]) = ck \div 16 /\ Hex(Heard[end + 2]) = ck % 16
               ELSE end <= Len(Heard) /\ Heard[end] \in {Cr, Lf}

\* After any noise the parser is in step again: a sentence as assemble() makes
\* it, of a length that fits, is dispatched, unless its '$' stands where the
\* two digits of another checksum are expected.
IntactSentencesAreDispatched ==
  LET t == Heard IN
  \A k \in {i \in 1 .. Len(t) : t[i] = Dollar /\ \A j \in {i - 1, i - 2} : j >= 1 => t[j] # Star} :
    \A n \in 1 .. BufferLen :
      LET content == SubSeq(t, k + 1, k + n) IN
        /\ k + n + 5 <= Len(t) /\ t[k + n + 1] = Star /\ StandsAt(Assemble(content), t, k)
        /\ \A i \in 1 .. n : content[i] \notin {Dollar, Star, Cr, Lf}
      => \E i \in 1 .. Len(nmea.sentences) : nmea.sentences[i] = [content |-> content, checked |-> TRUE]

\* nmea_parser has dispatched the sentences of the stream, none invented and no intact one lost.
SentencesAreThoseOfTheStream == NoSentenceIsInvented /\ IntactSentencesAreDispatched
=============================================================================
