-------------------------- MODULE AckTransportProofs --------------------------
(***************************************************************************)
(* The safety properties of AckTransport hold for every set of requests,   *)
(* every way the chip may answer them and every length of the line.        *)
(***************************************************************************)
EXTENDS AckTransport, TLAPS

\* An answer on the line or in the worker's hands.
UnderWay(f) == f = frame \/ \E i \in DOMAIN line : line[i] = f

\* An answer to the current request is under way only once it was written.
OwnInv ==
  \A f \in Frames :
    UnderWay(f) /\ f.own => phase \in {"wait", "idle"} /\ f.kind = kind

FrameInv ==
  /\ (worker = "idle" <=> frame = None)
  /\ worker = "set" => frame.content \in Positive

\* last_sent_* name the current request from before it is written.
IdsInv == phase \in {"write", "wait"} => lastSent = kind

\* After a clean beginning there is nothing to decode before the request is
\* written, and nothing but its own answers afterwards.
CleanInv ==
  clean =>
    /\ phase \in {"ids", "write"} => line = <<>> /\ worker = "idle" /\ ~toggle
    /\ phase = "wait" => \A f \in Frames : UnderWay(f) => f.own
    /\ CreditIsOwn

\* A positive answer that was handled has triggered the toggle.
HandledInv ==
  /\ phase # "wait" => ~handled
  /\ phase = "wait" /\ handled => toggle

IInv == TypeOK /\ OwnInv /\ FrameInv /\ IdsInv /\ CleanInv /\ HandledInv

-----------------------------------------------------------------------------
(* The sequences the actions build.                                        *)

LEMMA AgedType ==
  ASSUME NEW f \in Frames \cup {None}
  PROVE  /\ Aged(f) \in Frames \cup {None}
         /\ (Aged(f) \in Frames <=> f \in Frames)
         /\ (f # None <=> Aged(f) # None)
         /\ Aged(f) \in Frames => ~Aged(f).own /\ Aged(f).content = f.content
  BY TransportAssumption DEF Aged, Frames

LEMMA AgedLine ==
  ASSUME NEW l \in Seq(Frames)
  PROVE  /\ AllAged(l) \in Seq(Frames) /\ Len(AllAged(l)) = Len(l)
         /\ \A i \in DOMAIN AllAged(l) : ~AllAged(l)[i].own
         /\ l = <<>> => AllAged(l) = <<>>
<1> DEFINE m == AllAged(l)
<1>1. \A i \in DOMAIN l : l[i] \in Frames
  OBVIOUS
<1>2. \A i \in DOMAIN l : Aged(l[i]) \in Frames /\ ~Aged(l[i]).own
  BY <1>1, AgedType
<1>3. DOMAIN l = 1..Len(l) /\ Len(l) \in Nat
  OBVIOUS
<1>4. m \in [1..Len(l) -> Frames] /\ \A i \in DOMAIN m : ~m[i].own
  BY <1>2, <1>3 DEF AllAged
<1>5. m \in Seq(Frames) /\ Len(m) = Len(l)
  BY <1>3, <1>4
<1> HIDE DEF m
<1>6. l = <<>> => m = <<>>
  BY <1>5
<1> QED BY <1>4, <1>5, <1>6 DEF m

LEMMA FramesOfType ==
  ASSUME NEW k \in Kinds, NEW a \in Seq(Contents)
  PROVE  /\ FramesOf(k, a) \in Seq(Frames) /\ Len(FramesOf(k, a)) = Len(a)
         /\ \A i \in DOMAIN FramesOf(k, a) :
              FramesOf(k, a)[i].kind = k /\ FramesOf(k, a)[i].own
<1> DEFINE fs == FramesOf(k, a)
<1>1. DOMAIN a = 1..Len(a) /\ Len(a) \in Nat /\ \A i \in DOMAIN a : a[i] \in Contents
  OBVIOUS
<1>2. fs \in [1..Len(a) -> Frames]
  BY <1>1 DEF FramesOf, Frames
<1>3. \A i \in 1..Len(a) : fs[i].kind = k /\ fs[i].own
  BY <1>1 DEF FramesOf
<1> HIDE DEF fs
<1>4. fs \in Seq(Frames) /\ Len(fs) = Len(a) /\ DOMAIN fs = 1..Len(a)
  BY <1>1, <1>2
<1> QED BY <1>3, <1>4 DEF fs

LEMMA AppendedLine ==
  ASSUME NEW l \in Seq(Frames), NEW m \in Seq(Frames)
  PROVE  /\ l \o m \in Seq(Frames) /\ Len(l \o m) = Len(l) + Len(m)
         /\ \A i \in DOMAIN (l \o m) :
              \/ i \in DOMAIN l /\ (l \o m)[i] = l[i]
              \/ i - Len(l) \in DOMAIN m /\ (l \o m)[i] = m[i - Len(l)]
  OBVIOUS

LEMMA DecodedLine ==
  ASSUME NEW l \in Seq(Frames), l # <<>>
  PROVE  /\ Head(l) \in Frames /\ Tail(l) \in Seq(Frames) /\ Len(Tail(l)) = Len(l) - 1
         /\ 1 \in DOMAIN l /\ Head(l) = l[1]
         /\ \A i \in DOMAIN Tail(l) : i + 1 \in DOMAIN l /\ Tail(l)[i] = l[i + 1]
  OBVIOUS

-----------------------------------------------------------------------------
(* The invariant is inductive.                                             *)

LEMMA InitIInv == Init => IInv
<1> SUFFICES ASSUME Init PROVE IInv
  OBVIOUS
<1>1. toggle \in BOOLEAN /\ clean \in BOOLEAN /\ handled \in BOOLEAN
  BY Zenon DEF Init
<1>2. line \in Seq(Frames) /\ Len(line) = 0 /\ DOMAIN line = {}
  BY DEF Init
<1>3. TypeOK
  BY <1>1, <1>2, TransportAssumption DEF Init, TypeOK
<1>4. OwnInv /\ FrameInv /\ IdsInv /\ CleanInv /\ HandledInv
  BY <1>2, TransportAssumption
  DEF Init, OwnInv, FrameInv, IdsInv, CleanInv, CreditIsOwn, HandledInv, UnderWay
<1> QED BY <1>3, <1>4 DEF IInv

LEMMA BeginIInv ==
  ASSUME IInv, NEW k \in Kinds, Begin(k)
  PROVE  IInv'
<1> USE DEF Begin, history
<1>1. TypeOK /\ OwnInv /\ FrameInv /\ IdsInv /\ CleanInv /\ HandledInv
  BY DEF IInv
<1>2. /\ line' \in Seq(Frames) /\ Len(line') = Len(line)
      /\ \A i \in DOMAIN line' : ~line'[i].own
      /\ line = <<>> => line' = <<>>
  BY <1>1, AgedLine DEF TypeOK
<1>3. /\ frame' \in Frames \cup {None} /\ (frame' # None <=> frame # None)
      /\ frame' # None => ~frame'.own /\ frame'.content = frame.content
  <2>1. frame \in Frames \cup {None} /\ frame' = Aged(frame)
    BY <1>1 DEF TypeOK
  <2> QED BY <2>1, AgedType
<1>4. clean' \in BOOLEAN /\ toggle' \in BOOLEAN
  BY Zenon
<1>5. TypeOK'
  BY <1>1, <1>2, <1>3, <1>4 DEF TypeOK
<1>6. \A f \in Frames : UnderWay(f)' => ~f.own
  BY <1>2, <1>3, TransportAssumption DEF UnderWay
<1>7. OwnInv' /\ IdsInv' /\ HandledInv'
  BY <1>1, <1>6 DEF OwnInv, IdsInv, HandledInv
<1>8. FrameInv'
  BY <1>1, <1>3 DEF FrameInv
<1>9. CleanInv'
  BY <1>2 DEF CleanInv, CreditIsOwn
<1> QED BY <1>5, <1>7, <1>8, <1>9 DEF IInv

LEMMA WriteIInv ==
  ASSUME IInv, NEW a \in Answers[kind], WriteWith(a)
  PROVE  IInv'
<1> USE DEF WriteWith, workVars, history
<1>1. TypeOK /\ OwnInv /\ FrameInv /\ IdsInv /\ CleanInv /\ HandledInv
  BY DEF IInv
<1>2. a \in Seq(Contents)
  BY <1>1, TransportAssumption DEF TypeOK
<1> DEFINE fs == FramesOf(kind, a)
<1>3. /\ fs \in Seq(Frames) /\ Len(fs) = Len(a)
      /\ \A i \in DOMAIN fs : fs[i].kind = kind /\ fs[i].own
  <2>1. kind \in Kinds
    BY <1>1 DEF TypeOK
  <2> QED BY <1>2, <2>1, FramesOfType, Zenon
<1>4. line' = line \o fs
  OBVIOUS
<1> HIDE DEF fs
<1>5. /\ line' \in Seq(Frames) /\ Len(line') = Len(line) + Len(a)
      /\ \A i \in DOMAIN line' :
           (\E j \in DOMAIN line : line'[i] = line[j])
             \/ (line'[i].kind = kind /\ line'[i].own)
  <2>1. line \in Seq(Frames)
    BY <1>1 DEF TypeOK
  <2>2. /\ line \o fs \in Seq(Frames) /\ Len(line \o fs) = Len(line) + Len(fs)
        /\ \A i \in DOMAIN (line \o fs) :
             \/ i \in DOMAIN line /\ (line \o fs)[i] = line[i]
             \/ i - Len(line) \in DOMAIN fs /\ (line \o fs)[i] = fs[i - Len(line)]
    BY <1>3, <2>1, AppendedLine, Zenon
  <2>3. ASSUME NEW i \in DOMAIN (line \o fs)
        PROVE  (\E j \in DOMAIN line : (line \o fs)[i] = line[j])
                 \/ ((line \o fs)[i].kind = kind /\ (line \o fs)[i].own)
    <3>1. CASE i \in DOMAIN line /\ (line \o fs)[i] = line[i]
      BY <3>1
    <3>2. CASE i - Len(line) \in DOMAIN fs /\ (line \o fs)[i] = fs[i - Len(line)]
      BY <3>2, <1>3, Zenon
    <3> QED BY <2>2, <3>1, <3>2
  <2> QED BY <1>3, <1>4, <2>2, <2>3, Zenon
<1>6. TypeOK'
  BY <1>1, <1>5 DEF TypeOK
<1>7. \A f \in Frames : UnderWay(f)' => UnderWay(f) \/ (f.kind = kind /\ f.own)
  <2> SUFFICES ASSUME NEW f \in Frames, NEW i \in DOMAIN line', line'[i] = f
               PROVE  UnderWay(f) \/ (f.kind = kind /\ f.own)
    BY DEF UnderWay
  <2> QED BY <1>5, Zenon DEF UnderWay
<1>8. OwnInv' /\ FrameInv' /\ IdsInv'
  BY <1>1, <1>7 DEF OwnInv, FrameInv, IdsInv
<1>9. CleanInv'
  <2>1. clean /\ phase = "write" => \A f \in Frames : ~UnderWay(f)
    BY <1>1, TransportAssumption DEF CleanInv, FrameInv, UnderWay
  <2> QED BY <1>1, <1>7, <2>1 DEF CleanInv, CreditIsOwn
<1>10. HandledInv'
  BY <1>1 DEF HandledInv
<1> QED BY <1>6, <1>8, <1>9, <1>10 DEF IInv

LEMMA SendAsyncIInv ==
  ASSUME IInv, NEW k \in AsyncKinds, SendAsync(k)
  PROVE  IInv'
<1> USE DEF SendAsync, workVars, sendVars, history
<1>1. TypeOK /\ OwnInv /\ FrameInv /\ IdsInv /\ CleanInv /\ HandledInv
  BY DEF IInv
<1>2. PICK a \in Answers[k] : /\ Len(line) + Len(a) <= MaxLine
                              /\ line' = line \o AllAged(FramesOf(k, a))
  OBVIOUS
<1>3. k \in Kinds /\ a \in Seq(Contents)
  BY TransportAssumption
<1> DEFINE fs == AllAged(FramesOf(k, a))
<1>4. /\ fs \in Seq(Frames) /\ Len(fs) = Len(a)
      /\ \A i \in DOMAIN fs : ~fs[i].own
  BY <1>3, FramesOfType, AgedLine
<1>5. line' = line \o fs
  BY <1>2
<1> HIDE DEF fs
<1>6. /\ line' \in Seq(Frames) /\ Len(line') = Len(line) + Len(a)
      /\ \A i \in DOMAIN line' : (\E j \in DOMAIN line : line'[i] = line[j])
                                   \/ ~line'[i].own
  BY <1>1, <1>4, <1>5, AppendedLine DEF TypeOK
<1>7. TypeOK'
  BY <1>1, <1>2, <1>6 DEF TypeOK
<1>8. \A f \in Frames : UnderWay(f)' /\ f.own => UnderWay(f)
  BY <1>6 DEF UnderWay
<1>9. OwnInv' /\ FrameInv' /\ IdsInv' /\ CleanInv' /\ HandledInv'
  BY <1>1, <1>8 DEF OwnInv, FrameInv, IdsInv, CleanInv, CreditIsOwn, HandledInv
<1> QED BY <1>7, <1>9 DEF IInv

LEMMA DecodeIInv ==
  ASSUME IInv, Decode
  PROVE  IInv'
<1> USE DEF Decode, sendVars, history
<1>1. TypeOK /\ OwnInv /\ FrameInv /\ IdsInv /\ CleanInv /\ HandledInv
  BY DEF IInv
<1>2. /\ frame' \in Frames /\ line' \in Seq(Frames) /\ Len(line') = Len(line) - 1
      /\ \E j \in DOMAIN line : frame' = line[j]
      /\ \A i \in DOMAIN line' : \E j \in DOMAIN line : line'[i] = line[j]
  BY <1>1, DecodedLine DEF TypeOK
<1>3. TypeOK'
  BY <1>1, <1>2, TransportAssumption DEF TypeOK
<1>4. \A f \in Frames : UnderWay(f)' => UnderWay(f)
  BY <1>2 DEF UnderWay
<1>5. frame' # None
  BY <1>2, TransportAssumption
<1>6. OwnInv' /\ FrameInv' /\ IdsInv' /\ HandledInv'
  BY <1>1, <1>4, <1>5 DEF OwnInv, FrameInv, IdsInv, HandledInv
<1>7. CleanInv'
  BY <1>1, <1>4 DEF CleanInv, CreditIsOwn
<1> QED BY <1>3, <1>6, <1>7 DEF IInv

\* The worker never drops a positive answer to the request that is waiting.
LEMMA MatchIInv ==
  ASSUME IInv, Match
  PROVE  IInv'
<1> USE DEF Match, sendVars
<1>1. TypeOK /\ OwnInv /\ FrameInv /\ IdsInv /\ CleanInv /\ HandledInv
  BY DEF IInv
<1>2. frame \in Frames /\ frame # None
  BY <1>1 DEF TypeOK, FrameInv
<1>3. handled' \in BOOLEAN
  BY <1>1, Zenon DEF TypeOK, Handled
<1>4. TypeOK'
  BY <1>1, <1>3 DEF TypeOK
<1>5. OwnInv' /\ IdsInv' /\ CleanInv'
  BY <1>1 DEF OwnInv, IdsInv, CleanInv, CreditIsOwn, UnderWay
<1>6. FrameInv'
  BY <1>1, <1>2 DEF FrameInv
<1>7. frame.own => phase \in {"wait", "idle"} /\ frame.kind = kind
  BY <1>1, <1>2 DEF OwnInv, UnderWay
<1>8. phase = "wait" /\ handled' => handled
  BY <1>1, <1>7 DEF IdsInv, Handled
<1>9. HandledInv'
  BY <1>1, <1>7, <1>8 DEF HandledInv, Handled
<1> QED BY <1>4, <1>5, <1>6, <1>9 DEF IInv

LEMMA SetIInv ==
  ASSUME IInv, Set
  PROVE  IInv'
<1> USE DEF Set
<1>1. TypeOK /\ OwnInv /\ FrameInv /\ IdsInv /\ CleanInv /\ HandledInv
  BY DEF IInv
<1>2. frame \in Frames /\ frame # None /\ frame.content \in Positive
  BY <1>1 DEF TypeOK, FrameInv
<1>3. handled' \in BOOLEAN
  BY <1>1, Zenon DEF TypeOK, Handled
<1>4. TypeOK'
  <2>1. toggle' \in BOOLEAN
    BY Zenon
  <2>2. frame.kind \in Kinds /\ frame.own \in BOOLEAN
    BY <1>2 DEF Frames
  <2>3. [kind |-> frame.kind, own |-> frame.own] \in [kind : Kinds, own : BOOLEAN]
    BY <2>2, Zenon
  <2>4. setBy' \in [kind : Kinds, own : BOOLEAN] \cup {None}
    BY <2>3, Zenon
  <2> QED BY <1>1, <1>2, <1>3, <2>1, <2>4 DEF TypeOK
<1>5. OwnInv' /\ IdsInv' /\ FrameInv'
  BY <1>1, <1>2 DEF OwnInv, IdsInv, FrameInv, UnderWay
<1>6. frame.own => phase \in {"wait", "idle"} /\ frame.kind = kind
  BY <1>1, <1>2 DEF OwnInv, UnderWay
<1>7. HandledInv'
  BY <1>1, <1>6 DEF HandledInv, Handled
<1>8. clean /\ phase = "wait" => frame.own
  BY <1>1, <1>2 DEF CleanInv, UnderWay
<1>9. clean /\ phase = "wait" => setBy' = [kind |-> kind, own |-> TRUE]
  <2>1. frame.own \in BOOLEAN
    BY <1>2 DEF Frames
  <2> QED BY <1>6, <1>8, <2>1
<1>10. CleanInv'
  BY <1>1, <1>2, <1>9 DEF CleanInv, CreditIsOwn, UnderWay
<1> QED BY <1>4, <1>5, <1>7, <1>10 DEF IInv

LEMMA NextIInv == IInv /\ [Next]_vars => IInv'
<1> SUFFICES ASSUME IInv, [Next]_vars PROVE IInv'
  OBVIOUS
<1>r. TypeOK /\ OwnInv /\ FrameInv /\ IdsInv /\ CleanInv /\ HandledInv
  BY DEF IInv
<1>1. ASSUME SetIds PROVE IInv'
  BY <1>1, <1>r
  DEF SetIds, workVars, history, IInv, TypeOK, OwnInv, FrameInv, IdsInv,
      CleanInv, HandledInv, CreditIsOwn, UnderWay
<1>0. ASSUME WriteFails \/ Succeed \/ Timeout PROVE IInv'
  <2>1. clean' \in BOOLEAN /\ handled' \in BOOLEAN
    BY <1>0, <1>r, Zenon DEF WriteFails, Succeed, Timeout, Return, TypeOK
  <2>2. /\ phase' = "idle" /\ setBy' = None /\ ~handled'
        /\ UNCHANGED <<kind, toggle, line, worker, frame>>
        /\ lastSent' \in {lastSent, None} /\ phase \in {"write", "wait"}
    BY <1>0 DEF WriteFails, Succeed, Timeout, Return, workVars
  <2>3. TypeOK' /\ FrameInv' /\ HandledInv' /\ CleanInv' /\ IdsInv'
    BY <1>r, <2>1, <2>2
    DEF TypeOK, FrameInv, HandledInv, CleanInv, CreditIsOwn, IdsInv
  <2>4. OwnInv'
    BY <1>r, <2>2 DEF OwnInv, UnderWay
  <2> QED BY <2>3, <2>4 DEF IInv
<1>2. ASSUME Deliver PROVE IInv'
  BY <1>2, <1>r, TransportAssumption
  DEF Deliver, sendVars, history, IInv, TypeOK, OwnInv, FrameInv, IdsInv, CleanInv,
      HandledInv, CreditIsOwn, UnderWay
<1>3. ASSUME UNCHANGED vars PROVE IInv'
  BY <1>3, <1>r
  DEF vars, sendVars, workVars, history, IInv, TypeOK, OwnInv, FrameInv, IdsInv,
      CleanInv, HandledInv, CreditIsOwn, UnderWay
<1> QED
  BY <1>0, <1>1, <1>2, <1>3, BeginIInv, WriteIInv, SendAsyncIInv, DecodeIInv,
     MatchIInv, SetIInv
  DEF Next, Sender, Worker

\* The strengthened invariant holds throughout every behaviour.
THEOREM Inductive == Spec => []IInv
  BY InitIInv, NextIInv, PTL DEF Spec

\* TypeOK: in particular an answer is never decoded off an empty line.
THEOREM TypeCorrect == Spec => []TypeOK
  BY Inductive, PTL DEF IInv

\* CreditIsOwn: a command that began with nothing under way succeeds only by
\* a positive answer to its own request.
THEOREM CreditSafe == Spec => []CreditIsOwn
<1>1. IInv => CreditIsOwn
  BY DEF IInv, CleanInv, CreditIsOwn
<1> QED BY <1>1, Inductive, PTL

\* NoAnswerIsMissed: no command times out on an answer that was handled.
THEOREM NoAnswerMissed == Spec => NoAnswerIsMissed
<1>1. IInv /\ [Next]_vars => [Timeout => ~handled]_vars
  BY DEF IInv, HandledInv, Timeout
<1> QED BY <1>1, Inductive, PTL DEF Spec, NoAnswerIsMissed

=============================================================================
