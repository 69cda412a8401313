---------------------------- MODULE ParserProofs ----------------------------
(***************************************************************************)
(* Both framing parsers against the stream they are fed, for all chunks,   *)
(* of every number and length, and every maximal payload: whatever read()  *)
(* returns, ubx_parser dispatches the frames of the stream and nothing     *)
(* else, and nmea_parser the intact sentences of the stream and nothing    *)
(* that does not stand in it.                                              *)
(*                                                                         *)
(* Then the sentences themselves, for all locations and skies: what the    *)
(* generator or a chip writes, the parsers read, the handlers store and a  *)
(* commit shows, is what was meant, whatever is lost on the way.           *)
(*                                                                         *)
(* feed(), the checksums and what is appended in a loop are folds and the  *)
(* frames of a stream a recursive function, so the first part shows what   *)
(* these come to: a run that takes one step for each element.              *)
(***************************************************************************)
EXTENDS Framing, NmeaPath, WellFoundedInduction, SequenceTheorems, TLAPS

-----------------------------------------------------------------------------
(* Recursion over data.  A property is the set of the numbers that have    *)
(* it, so that induction needs no operator as a parameter.                 *)

\* Every set of naturals that is not empty has a least member.
LEMMA Least ==
  ASSUME NEW T, T \subseteq Nat, T # {}
  PROVE  \E x \in T : \A y \in T : x <= y
<1> DEFINE R == OpToRel(<, Nat)
<1>1. IsWellFoundedOn(R, Nat)
  BY NatLessThanWellFounded
<1>2. \A x \in Nat, y \in Nat : x < y => <<x, y>> \in R
  BY DEF OpToRel
<1> HIDE DEF R
<1>3. PICK x \in T : \A y \in T : ~ (<<y, x>> \in R)
  BY <1>1, WFMin
<1>4. ASSUME NEW y \in T PROVE x <= y
  <2>1. x \in Nat /\ y \in Nat
    OBVIOUS
  <2>2. ~ (<<y, x>> \in R)
    BY <1>3
  <2>3. ~ (y < x)
    BY <1>2, <2>1, <2>2
  <2> QED
    BY <2>1, <2>3
<1> QED
  BY <1>4

\* A set with 0 and, with every number, the next one has all of them.
LEMMA NatSet ==
  ASSUME NEW S, 0 \in S, \A n \in Nat : n \in S => n + 1 \in S
  PROVE  Nat \subseteq S
<1> SUFFICES ASSUME Nat \ S # {} PROVE FALSE
  OBVIOUS
<1>1. PICK x \in Nat \ S : \A y \in Nat \ S : x <= y
  BY Least
<1>2. x # 0 /\ x - 1 \in Nat
  BY <1>1
<1>3. x - 1 \in S
  BY <1>1, <1>2
<1> QED
  BY <1>1, <1>2, <1>3

\* The largest of some of the first n + 1 numbers.
LEMMA MaxOf ==
  ASSUME NEW n \in Nat, NEW s \in SUBSET (1 .. n + 1)
  PROVE  /\ n + 1 \in s => Max(s) = n + 1
         /\ n + 1 \notin s => s \in SUBSET (1 .. n)
<1>1. ASSUME n + 1 \in s PROVE Max(s) = n + 1
  <2>1. \A y \in s : n + 1 >= y
    OBVIOUS
  <2>2. \A x \in s : (\A y \in s : x >= y) => x = n + 1
    BY <1>1
  <2> QED
    BY <1>1, <2>1, <2>2 DEF Max
<1> QED
  BY <1>1

\* Max of some of the first n numbers is one of them.
LEMMA MaxIn ==
  ASSUME NEW n \in Nat
  PROVE  \A s \in SUBSET (1 .. n) : s # {} => Max(s) \in s
<1> DEFINE S == {m \in Nat : \A s \in SUBSET (1 .. m) : s # {} => Max(s) \in s}
<1>1. 0 \in S
  <2>1. \A s \in SUBSET (1 .. 0) : s = {}
    OBVIOUS
  <2> QED
    BY <2>1
<1>2. ASSUME NEW m \in Nat, m \in S PROVE m + 1 \in S
  <2> SUFFICES ASSUME NEW s \in SUBSET (1 .. m + 1), s # {} PROVE Max(s) \in s
    OBVIOUS
  <2> QED
    BY <1>2, MaxOf
<1> HIDE DEF S
<1>3. Nat \subseteq S
  BY <1>1, <1>2, NatSet
<1> QED
  BY <1>3 DEF S

\* f gives every set of places the result of stepping through them in their order.
Folds(f, S, step, base, seq) ==
  /\ f \in [SUBSET (1 .. Len(seq)) -> S]
  /\ f[{}] = base
  /\ \A s \in SUBSET (1 .. Len(seq)) :
       s # {} => f[s] = step[<<f[s \ {Max(s)}], seq[Max(s)]>>]

\* A fold over a sequence is defined: some function on the sets of its places is it.
LEMMA FoldDefined ==
  ASSUME NEW S, NEW D, NEW step \in [S \X D -> S], NEW base \in S, NEW seq \in Seq(D)
  PROVE  \E f : Folds(f, S, step, base, seq)
<1> DEFINE n == Len(seq)
           To(m, f) == /\ f \in [SUBSET (1 .. m) -> S]
                       /\ f[{}] = base
                       /\ \A s \in SUBSET (1 .. m) :
                            s # {} => f[s] = step[<<f[s \ {Max(s)}], seq[Max(s)]>>]
           T == {m \in Nat : m <= n => \E f : To(m, f)}
<1>0. n \in Nat /\ \A i \in 1 .. n : seq[i] \in D
  OBVIOUS
<1> HIDE DEF n, To
<1>1. 0 \in T
  <2> DEFINE f == [s \in SUBSET (1 .. 0) |-> base]
  <2>1. \A s \in SUBSET (1 .. 0) : s = {}
    OBVIOUS
  <2>2. To(0, f)
    BY <2>1 DEF To
  <2> HIDE DEF f
  <2> QED
    BY <2>2
<1>2. ASSUME NEW m \in Nat, m \in T PROVE m + 1 \in T
  <2> SUFFICES ASSUME m + 1 <= n PROVE \E f : To(m + 1, f)
    OBVIOUS
  <2>0. m <= n /\ seq[m + 1] \in D
    BY <1>0
  <2>1. PICK f : To(m, f)
    BY <1>2, <2>0
  <2> DEFINE g == [s \in SUBSET (1 .. m + 1) |->
                     IF m + 1 \in s THEN step[<<f[s \ {m + 1}], seq[m + 1]>>] ELSE f[s]]
  <2>2. \A s \in SUBSET (1 .. m + 1) : m + 1 \notin s => s \in SUBSET (1 .. m)
    BY MaxOf
  <2>3. \A s \in SUBSET (1 .. m + 1) :
          s \ {m + 1} \in SUBSET (1 .. m) /\ s \ {m + 1} \in SUBSET (1 .. m + 1)
    BY <2>2
  <2>4. ASSUME NEW s \in SUBSET (1 .. m + 1) PROVE g[s] \in S
    <3>1. f[s \ {m + 1}] \in S
      BY <2>1, <2>3 DEF To
    <3>2. <<f[s \ {m + 1}], seq[m + 1]>> \in S \X D
      BY <2>0, <3>1
    <3> QED
      BY <2>1, <2>2, <3>2 DEF To
  <2>5. g[{}] = base
    BY <2>1 DEF To
  <2>6. ASSUME NEW s \in SUBSET (1 .. m + 1), s # {}
        PROVE  g[s] = step[<<g[s \ {Max(s)}], seq[Max(s)]>>]
    <3>1. CASE m + 1 \in s
      <4>1. Max(s) = m + 1
        BY <3>1, MaxOf
      <4>2. g[s \ {m + 1}] = f[s \ {m + 1}]
        BY <2>3
      <4> QED
        BY <3>1, <4>1, <4>2
    <3>2. CASE m + 1 \notin s
      <4>1. s \in SUBSET (1 .. m) /\ g[s] = f[s]
        BY <2>2, <3>2
      <4>2. s \ {Max(s)} \in SUBSET (1 .. m + 1) /\ m + 1 \notin s \ {Max(s)}
        BY <3>2
      <4>3. g[s \ {Max(s)}] = f[s \ {Max(s)}]
        BY <4>2
      <4>4. f[s] = step[<<f[s \ {Max(s)}], seq[Max(s)]>>]
        BY <2>1, <2>6, <4>1 DEF To
      <4> QED
        BY <4>1, <4>3, <4>4
    <3> QED
      BY <3>1, <3>2
  <2> HIDE DEF g
  <2>7. g \in [SUBSET (1 .. m + 1) -> S]
    BY <2>4 DEF g
  <2>8. To(m + 1, g)
    BY <2>5, <2>6, <2>7 DEF To
  <2> QED
    BY <2>8
<1> HIDE DEF T
<1>3. Nat \subseteq T
  BY <1>1, <1>2, NatSet
<1>4. PICK f : To(n, f)
  BY <1>0, <1>3 DEF T
<1>5. Folds(f, S, step, base, seq)
  BY <1>4 DEF To, n, Folds
<1> QED
  BY <1>5

\* The same for a fold over the first places only.
Run(S, step, base, seq) == (CHOOSE f : Folds(f, S, step, base, seq))[1 .. Len(seq)]

\* f takes the first n steps one by one.
StepsBy(f, S, step, seq, n) ==
  /\ \A m \in 0 .. n : f[1 .. m] \in S
  /\ \A m \in 0 .. n - 1 : f[1 .. m + 1] = step[<<f[1 .. m], seq[m + 1]>>]

\* Along the first places, a fold takes the steps one by one.
LEMMA FoldSteps ==
  ASSUME NEW S, NEW step, NEW base, NEW seq, Len(seq) \in Nat, NEW f, Folds(f, S, step, base, seq)
  PROVE  StepsBy(f, S, step, seq, Len(seq))
<1> DEFINE n == Len(seq)
<1>0. n \in Nat
  OBVIOUS
<1> HIDE DEF n
<1>2. ASSUME NEW m \in 0 .. n PROVE f[1 .. m] \in S
  <2>1. 1 .. m \in SUBSET (1 .. n)
    BY <1>0
  <2> QED
    BY <2>1 DEF Folds, n
<1>3. ASSUME NEW m \in 0 .. n - 1 PROVE f[1 .. m + 1] = step[<<f[1 .. m], seq[m + 1]>>]
  <2> DEFINE s == 1 .. m + 1
  <2>0. m \in Nat /\ m + 1 <= n
    BY <1>0
  <2>1. s \in SUBSET (1 .. n) /\ m + 1 \in s /\ s \in SUBSET (1 .. m + 1)
    BY <1>0, <2>0
  <2>2. Max(s) = m + 1 /\ s \ {m + 1} = 1 .. m
    BY <2>0, <2>1, MaxOf
  <2> HIDE DEF s
  <2>3. f[s] = step[<<f[s \ {Max(s)}], seq[Max(s)]>>]
    BY <2>1 DEF Folds, n
  <2> QED
    BY <2>2, <2>3 DEF s
<1> QED
  BY <1>2, <1>3 DEF n, StepsBy

\* g takes them as long as that leads to a member of S.
FollowsSteps(g, S, step, seq, n) ==
  \A m \in 0 .. n - 1 : g[1 .. m] \in S => g[1 .. m + 1] = step[<<g[1 .. m], seq[m + 1]>>]

\* Whatever takes the same steps over the same elements comes to the same result.
LEMMA FoldsAgree ==
  ASSUME NEW S, NEW step, NEW base, NEW seq, Len(seq) \in Nat, NEW f, Folds(f, S, step, base, seq),
         NEW g, NEW n \in 0 .. Len(seq), g[{}] = base, FollowsSteps(g, S, step, seq, n)
  PROVE  g[1 .. n] = f[1 .. n]
<1> DEFINE T == {m \in Nat : m <= n => g[1 .. m] = f[1 .. m]}
<1>1. 0 \in T
  <2>1. f[{}] = base /\ 1 .. 0 = {}
    BY DEF Folds
  <2> QED
    BY <2>1
<1>2. ASSUME NEW m \in Nat, m \in T PROVE m + 1 \in T
  <2> SUFFICES ASSUME m + 1 <= n PROVE g[1 .. m + 1] = f[1 .. m + 1]
    OBVIOUS
  <2>1. m \in 0 .. n - 1 /\ m \in 0 .. Len(seq) - 1 /\ m \in 0 .. Len(seq)
    OBVIOUS
  <2>2. g[1 .. m] = f[1 .. m]
    BY <1>2, <2>1
  <2>3. StepsBy(f, S, step, seq, Len(seq))
    BY FoldSteps
  <2>4. f[1 .. m] \in S /\ f[1 .. m + 1] = step[<<f[1 .. m], seq[m + 1]>>]
    BY <2>1, <2>3 DEF StepsBy
  <2>5. g[1 .. m + 1] = step[<<g[1 .. m], seq[m + 1]>>]
    BY <2>1, <2>2, <2>4 DEF FollowsSteps
  <2> QED
    BY <2>2, <2>4, <2>5
<1> HIDE DEF T
<1>3. Nat \subseteq T
  BY <1>1, <1>2, NatSet
<1> QED
  BY <1>3 DEF T

\* The fold that a run chooses is one.
LEMMA RunDefined ==
  ASSUME NEW S, NEW D, NEW step \in [S \X D -> S], NEW base \in S, NEW seq \in Seq(D)
  PROVE  Folds(CHOOSE f : Folds(f, S, step, base, seq), S, step, base, seq)
BY FoldDefined

\* A run over nothing, over one element more, and what it can come to.
LEMMA RunEmpty ==
  ASSUME NEW S, NEW D, NEW step \in [S \X D -> S], NEW base \in S
  PROVE  Run(S, step, base, <<>>) = base
<1> DEFINE f == CHOOSE h : Folds(h, S, step, base, <<>>)
<1>1. <<>> \in Seq(D) /\ Len(<<>>) = 0 /\ 0 \in Nat
  OBVIOUS
<1>2. Folds(f, S, step, base, <<>>)
  BY <1>1, RunDefined
<1> HIDE DEF f
<1>3. f[1 .. 0] = base
  <2>1. 1 .. 0 = {}
    OBVIOUS
  <2> QED
    BY <1>2, <2>1 DEF Folds
<1> QED
  BY <1>1, <1>3 DEF Run, f

\* A run of steps that stay in S ends in S.
LEMMA RunIn ==
  ASSUME NEW S, NEW D, NEW step \in [S \X D -> S], NEW base \in S, NEW seq \in Seq(D)
  PROVE  Run(S, step, base, seq) \in S
<1> DEFINE f == CHOOSE h : Folds(h, S, step, base, seq)
<1>1. Len(seq) \in 0 .. Len(seq) /\ Len(seq) \in Nat
  OBVIOUS
<1>2. Folds(f, S, step, base, seq)
  BY RunDefined
<1>3. StepsBy(f, S, step, seq, Len(seq))
  BY <1>1, <1>2, FoldSteps
<1> QED
  BY <1>1, <1>3 DEF Run, StepsBy

\* A run over one element more takes one step more.
OneMore(seq, e, more) == more = Append(seq, e)
StepTo(S, step, base, seq, e, more) == Run(S, step, base, more) = step[<<Run(S, step, base, seq), e>>]

\* With one element more, a run takes the step of that element behind all the others.
LEMMA RunAppend ==
  ASSUME NEW S, NEW D, NEW step \in [S \X D -> S], NEW base \in S, NEW seq \in Seq(D), NEW e \in D,
         NEW more, OneMore(seq, e, more)
  PROVE  StepTo(S, step, base, seq, e, more)
<1> DEFINE n == Len(seq)
           f == CHOOSE h : Folds(h, S, step, base, seq)
           g == CHOOSE h : Folds(h, S, step, base, more)
<1>1. /\ n \in Nat /\ more \in Seq(D) /\ Len(more) = n + 1 /\ more[n + 1] = e
      /\ \A m \in 1 .. n : more[m] = seq[m]
  BY DEF OneMore
<1>2. Folds(f, S, step, base, seq) /\ Folds(g, S, step, base, more)
  BY <1>1, RunDefined
<1>3. Run(S, step, base, seq) = f[1 .. n] /\ Run(S, step, base, more) = g[1 .. n + 1]
  BY <1>1 DEF Run
<1> HIDE DEF f, g
<1>4. /\ g[{}] = base
      /\ \A m \in 0 .. n : g[1 .. m + 1] = step[<<g[1 .. m], more[m + 1]>>]
  <2>0. Len(more) \in Nat
    BY <1>1
  <2>1. StepsBy(g, S, step, more, Len(more))
    BY <1>2, <2>0, FoldSteps
  <2>2. g[{}] = base
    BY <1>2 DEF Folds
  <2> HIDE DEF n
  <2> QED
    BY <1>1, <2>1, <2>2 DEF StepsBy
<1>5. FollowsSteps(g, S, step, seq, n)
  BY <1>1, <1>4 DEF FollowsSteps
<1>6. g[1 .. n] = f[1 .. n]
  <2>1. n \in 0 .. Len(seq)
    BY <1>1
  <2> QED
    BY <1>1, <1>2, <1>4, <1>5, <2>1, FoldsAgree
<1>7. g[1 .. n + 1] = step[<<g[1 .. n], e>>]
  BY <1>1, <1>4
<1> QED
  BY <1>3, <1>6, <1>7 DEF StepTo

\* A function on the sets of places that takes the steps from every set is such a run.
StepsDown(g, S, step, base, seq) ==
  /\ g[{}] = base
  /\ \A s \in SUBSET (1 .. Len(seq)) :
       s # {} /\ g[s \ {Max(s)}] \in S => g[s] = step[<<g[s \ {Max(s)}], seq[Max(s)]>>]

\* Its result, when it has gone through all places.
Result(g, seq) == g[1 .. Len(seq)]

\* Whatever takes the steps from every set of places comes to what the run comes to:
\* what a definition by folding is unfolded with.
LEMMA StepsDownRun ==
  ASSUME NEW S, NEW D, NEW step \in [S \X D -> S], NEW base \in S, NEW seq \in Seq(D),
         NEW g, StepsDown(g, S, step, base, seq)
  PROVE  Result(g, seq) = Run(S, step, base, seq)
<1> DEFINE n == Len(seq)
           f == CHOOSE h : Folds(h, S, step, base, seq)
<1>1. n \in Nat /\ n \in 0 .. Len(seq) /\ Len(seq) \in Nat
  OBVIOUS
<1>2. Folds(f, S, step, base, seq)
  BY RunDefined
<1> HIDE DEF n, f
<1>3. FollowsSteps(g, S, step, seq, n)
  <2> SUFFICES ASSUME NEW m \in 0 .. n - 1, g[1 .. m] \in S
               PROVE  g[1 .. m + 1] = step[<<g[1 .. m], seq[m + 1]>>]
    BY DEF FollowsSteps
  <2> DEFINE s == 1 .. m + 1
  <2>1. m \in Nat /\ m + 1 <= n
    BY <1>1
  <2>2. s \in SUBSET (1 .. n) /\ m + 1 \in s /\ s \in SUBSET (1 .. m + 1)
    BY <1>1, <2>1
  <2>3. Max(s) = m + 1 /\ s \ {m + 1} = 1 .. m
    BY <2>1, <2>2, MaxOf
  <2> HIDE DEF s
  <2>4. g[s] = step[<<g[s \ {Max(s)}], seq[Max(s)]>>]
    BY <2>2, <2>3 DEF StepsDown, n
  <2> QED
    BY <2>3, <2>4 DEF s
<1>4. g[{}] = base
  BY DEF StepsDown
<1>5. g[1 .. n] = f[1 .. n]
  BY <1>1, <1>2, <1>3, <1>4, FoldsAgree
<1> QED
  BY <1>5 DEF Run, Result, f, n

-----------------------------------------------------------------------------
(* ubx_parser: types, and feed() as a run over its bytes.                  *)

\* The bounds are numbers.
LEMMA Bounds == MaxPayload \in Nat /\ BufferLen \in Nat /\ Chunk \in Nat
BY FramingAssumption

Byte == 0 .. 255
UbxContexts ==
  [state : {"wait_sync_1", "wait_sync_2", "wait_class", "wait_id", "wait_len_lo", "wait_len_hi",
            "accumulate_payload", "wait_ck_a", "wait_ck_b"},
   class : Byte, id : Byte, lo : Byte, len : Nat, payload : Seq(Byte), a : Byte]
Frames == [class : Byte, id : Byte, payload : Seq(Byte)]
Ubxs == [ctx : UbxContexts, frames : Seq(Frames), discarded : Nat]

\* The context after reset() is one.
LEMMA UbxIdleIn == UbxIdle \in UbxContexts
<1>1. <<>> \in Seq(Byte)
  OBVIOUS
<1> QED
  BY <1>1 DEF UbxIdle, UbxContexts, Byte

\* process_byte() of ubx_parser keeps the types of its context and of the frames it dispatches.
LEMMA UbxByteIn ==
  ASSUME NEW p \in Ubxs, NEW b \in Byte
  PROVE  UbxByte(p, b) \in Ubxs
<1>0. DiscardFrame(p) \in Ubxs
  <2>1. p.discarded + 1 \in Nat
    BY DEF Ubxs
  <2> QED
    BY <2>1, UbxIdleIn DEF DiscardFrame, Ubxs
<1> USE DEF UbxByte, Ubxs
<1>1. CASE p.ctx.state = "wait_sync_1"
  BY <1>1 DEF UbxGoes, UbxContexts
<1>2. CASE p.ctx.state = "wait_sync_2"
  BY <1>2 DEF UbxGoes, SecondSync, UbxContexts
<1>3. CASE p.ctx.state \in {"wait_class", "wait_id", "wait_len_lo", "wait_ck_a"}
  BY <1>3 DEF UbxContexts
<1>4. CASE p.ctx.state = "wait_len_hi"
  <2> DEFINE n == p.ctx.lo + 256 * b
  <2>1. p.ctx.lo \in 0 .. 255 /\ b \in 0 .. 255
    BY DEF UbxContexts, Byte
  <2>2. n \in Nat
    <3>1. \A x, y \in 0 .. 255 : x + 256 * y \in Nat
      OBVIOUS
    <3> QED
      BY <2>1, <3>1
  <2>3. <<>> \in Seq(Byte)
    OBVIOUS
  <2> HIDE DEF n
  <2>4. [p EXCEPT !.ctx.len = n, !.ctx.payload = <<>>,
                  !.ctx.state = IF n = 0 THEN "wait_ck_a" ELSE "accumulate_payload"] \in Ubxs
    BY <2>2, <2>3 DEF UbxContexts
  <2> QED
    BY <1>0, <1>4, <2>4 DEF LengthKnown, n
<1>5. CASE p.ctx.state = "accumulate_payload"
  <2>1. Append(p.ctx.payload, b) \in Seq(Byte)
    BY DEF UbxContexts
  <2> QED
    BY <1>5, <2>1 DEF PayloadByte, UbxContexts
<1>6. CASE p.ctx.state = "wait_ck_b"
  <2>2. [class |-> p.ctx.class, id |-> p.ctx.id, payload |-> p.ctx.payload] \in Frames
    BY DEF UbxContexts, Frames
  <2>3. FrameComplete(p) \in Ubxs
    <3> DEFINE f == [class |-> p.ctx.class, id |-> p.ctx.id, payload |-> p.ctx.payload]
    <3>1. Append(p.frames, f) \in Seq(Frames)
      BY <2>2
    <3> HIDE DEF f
    <3> QED
      BY <3>1, UbxIdleIn DEF FrameComplete, f
  <2>4. UbxByte(p, b) = ChecksumByte(p, b)
    BY <1>6
  <2> QED
    BY <1>0, <2>3, <2>4 DEF ChecksumByte
<1> QED
  BY <1>1, <1>2, <1>3, <1>4, <1>5, <1>6 DEF UbxContexts

\* feed() takes the bytes one by one.
UbxSteps == [q \in Ubxs \X Byte |-> UbxByte(q[1], q[2])]

\* feed() of ubx_parser is process_byte() on each byte, in the order of the chunk.
LEMMA FeedUbxRuns ==
  ASSUME NEW p \in Ubxs, NEW t \in Seq(Byte)
  PROVE  FeedUbx(p, t) = Run(Ubxs, UbxSteps, p, t)
<1> DEFINE n == Len(t)
           Chosen(f) == f = [s \in SUBSET (1 .. n) |->
                               IF s = {} THEN p ELSE UbxByte(f[s \ {Max(s)}], t[Max(s)])]
           g == CHOOSE f : Chosen(f)
           h == CHOOSE f : Folds(f, Ubxs, UbxSteps, p, t)
<1>1. n \in Nat /\ DOMAIN t = 1 .. n /\ \A i \in 1 .. n : t[i] \in Byte
  OBVIOUS
<1>2. UbxSteps \in [Ubxs \X Byte -> Ubxs]
  BY UbxByteIn DEF UbxSteps
<1>3. \A q \in Ubxs, b \in Byte : UbxSteps[<<q, b>>] = UbxByte(q, b)
  BY DEF UbxSteps
<1>4. Folds(h, Ubxs, UbxSteps, p, t)
  BY <1>2, RunDefined
<1>5. FeedUbx(p, t) = g[1 .. n]
  BY <1>1 DEF FeedUbx, FoldLeft, MapThenFoldSet
<1>6. \A s \in SUBSET (1 .. n) : s # {} => Max(s) \in 1 .. n /\ t[Max(s)] \in Byte
  BY <1>1, MaxIn
<1> HIDE DEF n, g, h
<1>7. Chosen(h)
  <2>1. ASSUME NEW s \in SUBSET (1 .. n), s # {}
        PROVE  h[s] = UbxByte(h[s \ {Max(s)}], t[Max(s)])
    <3>1. h[s \ {Max(s)}] \in Ubxs
      BY <1>4 DEF Folds, n
    <3> QED
      BY <1>3, <1>4, <1>6, <2>1, <3>1 DEF Folds, n
  <2>2. h = [s \in SUBSET (1 .. n) |-> h[s]] /\ h[{}] = p
    BY <1>4 DEF Folds, n
  <2> QED
    BY <2>1, <2>2
<1>8. Chosen(g)
  BY <1>7 DEF g
<1>9. StepsDown(g, Ubxs, UbxSteps, p, t)
  BY <1>3, <1>6, <1>8 DEF StepsDown, n
<1>10. Result(g, t) = Run(Ubxs, UbxSteps, p, t)
  BY <1>2, <1>9, StepsDownRun
<1> QED
  BY <1>5, <1>10 DEF Result, n

-----------------------------------------------------------------------------
(* The frames of a stream, defined from its end backwards.                 *)

\* What FramesFrom takes a frame from place k on to end with and to contain.
LastOf(t, k) == k + 7 + t[k + 4] + 256 * t[k + 5]
BodyOf(t, k) == SubSeq(t, k + 6, LastOf(t, k) - 2)
FrameAt(t, k) == [class |-> t[k + 2], id |-> t[k + 3], payload |-> BodyOf(t, k)]
Synced(t, k) == StandsAt(<<Sync1, Sync2>>, t, k)
Intact(t, k) == StandsAt(BuildFrame(t[k + 2], t[k + 3], BodyOf(t, k)), t, k)

\* One place of FramesFrom, g standing for the places behind it.
From(t, g, k) ==
  IF k + 5 > Len(t) THEN <<>>
  ELSE IF ~Synced(t, k) THEN g[k + 1]
  ELSE IF LastOf(t, k) - k - 7 > MaxPayload THEN g[k + 6]
  ELSE IF LastOf(t, k) > Len(t) THEN <<>>
  ELSE IF Intact(t, k) THEN <<FrameAt(t, k)>> \o g[LastOf(t, k) + 1]
  ELSE g[LastOf(t, k) + 1]

\* A frame ends at least seven bytes behind its first.
LEMMA LastBehind ==
  ASSUME NEW t \in Seq(Byte), NEW k \in 1 .. Len(t) + 1, k + 5 <= Len(t)
  PROVE  LastOf(t, k) \in Nat /\ k + 7 <= LastOf(t, k)
<1>1. k + 4 \in 1 .. Len(t) /\ k + 5 \in 1 .. Len(t)
  OBVIOUS
<1>2. t[k + 4] \in 0 .. 255 /\ t[k + 5] \in 0 .. 255
  <2>1. \A i \in 1 .. Len(t) : t[i] \in Byte
    OBVIOUS
  <2> QED
    BY <1>1, <2>1 DEF Byte
<1>3. \A x, y \in 0 .. 255 : k + 7 + x + 256 * y \in Nat /\ k + 7 <= k + 7 + x + 256 * y
  OBVIOUS
<1> QED
  BY <1>2, <1>3 DEF LastOf

\* A place depends on those behind it only.
LEMMA FromLocal ==
  ASSUME NEW t \in Seq(Byte), NEW k \in 1 .. Len(t) + 1, NEW g, NEW h,
         \A i \in k + 1 .. Len(t) + 1 : g[i] = h[i]
  PROVE  From(t, g, k) = From(t, h, k)
<1>1. CASE k + 5 > Len(t)
  BY <1>1 DEF From
<1>2. CASE k + 5 <= Len(t)
  <2>1. k + 1 \in k + 1 .. Len(t) + 1 /\ k + 6 \in k + 1 .. Len(t) + 1
    BY <1>2
  <2>2. LastOf(t, k) <= Len(t) => LastOf(t, k) + 1 \in k + 1 .. Len(t) + 1
    BY <1>2, LastBehind
  <2>3. LastOf(t, k) <= Len(t) \/ LastOf(t, k) > Len(t)
    BY <1>2, LastBehind
  <2> QED
    BY <2>1, <2>2, <2>3 DEF From
<1> QED
  BY <1>1, <1>2

\* FramesFrom is defined: the recursion from the last place to the first has a solution.
LEMMA FromDefined ==
  ASSUME NEW t \in Seq(Byte)
  PROVE  \E g : g = [k \in 1 .. Len(t) + 1 |-> From(t, g, k)]
<1> DEFINE n == Len(t)
           To(d, g) == /\ DOMAIN g = 1 .. n + 1 /\ g = [k \in 1 .. n + 1 |-> g[k]]
                       /\ \A k \in n + 1 - d .. n + 1 : k >= 1 => g[k] = From(t, g, k)
           T == {d \in Nat : d <= n => \E g : To(d, g)}
<1>1. n \in Nat
  OBVIOUS
<1> HIDE DEF n, To
<1>2. 0 \in T
  <2> DEFINE g == [k \in 1 .. n + 1 |-> <<>>]
  <2>1. From(t, g, n + 1) = <<>>
    BY <1>1 DEF From, n
  <2>2. To(0, g)
    BY <1>1, <2>1 DEF To
  <2> HIDE DEF g
  <2> QED
    BY <2>2
<1>3. ASSUME NEW d \in Nat, d \in T PROVE d + 1 \in T
  <2> SUFFICES ASSUME d + 1 <= n PROVE \E g : To(d + 1, g)
    OBVIOUS
  <2>1. PICK g : To(d, g)
    BY <1>1, <1>3
  <2> DEFINE m == n - d
             h == [k \in 1 .. n + 1 |-> IF k = m THEN From(t, g, m) ELSE g[k]]
  <2>2. m \in 1 .. n
    BY <1>1
  <2>3. ASSUME NEW k \in m .. n + 1 PROVE h[k] = From(t, h, k)
    <3>1. k \in 1 .. Len(t) + 1
      BY <1>1, <2>2 DEF n
    <3>2. \A i \in k + 1 .. Len(t) + 1 : g[i] = h[i]
      BY <1>1, <2>2 DEF n
    <3>3. From(t, g, k) = From(t, h, k)
      BY <3>1, <3>2, FromLocal
    <3>4. k # m => g[k] = From(t, g, k)
      <4>1. k # m => k \in n + 1 - d .. n + 1 /\ k >= 1
        BY <1>1, <2>2
      <4> QED
        BY <2>1, <4>1 DEF To
    <3> QED
      BY <1>1, <2>2, <3>3, <3>4
  <2> HIDE DEF h
  <2>4. DOMAIN h = 1 .. n + 1 /\ h = [k \in 1 .. n + 1 |-> h[k]]
    BY DEF h
  <2>5. n + 1 - (d + 1) = m
    BY <1>1
  <2>6. To(d + 1, h)
    BY <2>3, <2>4, <2>5 DEF To
  <2> QED
    BY <2>6
<1> HIDE DEF T
<1>4. Nat \subseteq T
  BY <1>2, <1>3, NatSet
<1>5. PICK g : To(n, g)
  BY <1>1, <1>4 DEF T
<1>6. \A k \in 1 .. n + 1 : g[k] = From(t, g, k)
  BY <1>1, <1>5 DEF To
<1>7. g = [k \in 1 .. n + 1 |-> From(t, g, k)]
  BY <1>5, <1>6 DEF To
<1> QED
  BY <1>7 DEF n

\* FramesFrom satisfies its own equation.
LEMMA FramesFromIs ==
  ASSUME NEW t \in Seq(Byte)
  PROVE  \A k \in 1 .. Len(t) + 1 : FramesFrom(t)[k] = From(t, FramesFrom(t), k)
<1>1. FramesFrom(t) = CHOOSE g : g = [k \in 1 .. Len(t) + 1 |-> From(t, g, k)]
  BY DEF FramesFrom, From, LastOf, BodyOf, FrameAt, Synced, Intact
<1>2. FramesFrom(t) = [k \in 1 .. Len(t) + 1 |-> From(t, FramesFrom(t), k)]
  BY <1>1, FromDefined
<1> QED
  BY <1>2

\* SubSeq of what is there.
LEMMA Part ==
  ASSUME NEW t \in Seq(Byte), NEW i \in Nat \ {0}, NEW j \in Int, j <= Len(t)
  PROVE  /\ SubSeq(t, i, j) \in Seq(Byte)
         /\ Len(SubSeq(t, i, j)) = IF i <= j THEN j - i + 1 ELSE 0
         /\ \A m \in 1 .. j - i + 1 : SubSeq(t, i, j)[m] = t[i + m - 1]
<1>1. \A m \in i .. j : t[m] \in Byte
  <2>1. \A m \in 1 .. Len(t) : t[m] \in Byte
    OBVIOUS
  <2>2. \A m \in i .. j : m \in 1 .. Len(t)
    OBVIOUS
  <2> QED
    BY <2>1, <2>2
<1> QED
  BY <1>1, SubSeqProperties

\* What stands between a header and a checksum is a frame.
LEMMA FrameAtIn ==
  ASSUME NEW t \in Seq(Byte), NEW k \in 1 .. Len(t) + 1, k + 5 <= Len(t), LastOf(t, k) <= Len(t)
  PROVE  FrameAt(t, k) \in Frames
<1>1. \A i \in 1 .. Len(t) : t[i] \in Byte
  OBVIOUS
<1>2. k + 2 \in 1 .. Len(t) /\ k + 3 \in 1 .. Len(t) /\ k + 6 \in Nat \ {0}
  OBVIOUS
<1>3. LastOf(t, k) - 2 \in Int /\ LastOf(t, k) - 2 <= Len(t)
  BY LastBehind
<1>4. BodyOf(t, k) \in Seq(Byte)
  BY <1>2, <1>3, Part DEF BodyOf
<1> QED
  BY <1>1, <1>2, <1>4 DEF FrameAt, Frames

\* The frames of a stream are frames, from every place on.
LEMMA FramesFromIn ==
  ASSUME NEW t \in Seq(Byte)
  PROVE  \A k \in 1 .. Len(t) + 1 : FramesFrom(t)[k] \in Seq(Frames)
<1> DEFINE n == Len(t)
           F == FramesFrom(t)
           T == {d \in Nat : \A k \in n + 1 - d .. n + 1 : k >= 1 => F[k] \in Seq(Frames)}
<1>1. n \in Nat
  OBVIOUS
<1>2. \A k \in 1 .. n + 1 : F[k] = From(t, F, k)
  BY FramesFromIs
<1>0. <<>> \in Seq(Frames)
  OBVIOUS
<1> HIDE DEF F
<1>3. ASSUME NEW k \in 1 .. n + 1, \A i \in k + 1 .. n + 1 : F[i] \in Seq(Frames)
      PROVE  F[k] \in Seq(Frames)
  <2>1. CASE k + 5 > n
    BY <1>0, <1>2, <2>1 DEF From
  <2>2. CASE k + 5 <= n
    <3>1. k + 1 \in k + 1 .. n + 1 /\ k + 6 \in k + 1 .. n + 1
      BY <2>2
    <3>2. LastOf(t, k) \in Nat /\ k + 7 <= LastOf(t, k)
      BY <2>2, LastBehind
    <3>3. CASE LastOf(t, k) <= n
      <4>1. F[LastOf(t, k) + 1] \in Seq(Frames)
        BY <1>3, <3>2, <3>3
      <4>2. <<FrameAt(t, k)>> \in Seq(Frames)
        BY <2>2, <3>3, FrameAtIn
      <4>3. <<FrameAt(t, k)>> \o F[LastOf(t, k) + 1] \in Seq(Frames)
        BY <4>1, <4>2
      <4> QED
        BY <1>0, <1>2, <1>3, <3>1, <3>2, <4>1, <4>3 DEF From
    <3>4. CASE LastOf(t, k) > n
      BY <1>0, <1>2, <1>3, <3>1, <3>2, <3>4 DEF From
    <3> QED
      BY <3>2, <3>3, <3>4
  <2> QED
    BY <1>1, <2>1, <2>2
<1> HIDE DEF n
<1>4. 0 \in T
  BY <1>1, <1>3
<1>5. ASSUME NEW d \in Nat, d \in T PROVE d + 1 \in T
  <2> SUFFICES ASSUME NEW k \in n + 1 - (d + 1) .. n + 1, k >= 1 PROVE F[k] \in Seq(Frames)
    OBVIOUS
  <2>1. k \in 1 .. n + 1 /\ \A i \in k + 1 .. n + 1 : i \in n + 1 - d .. n + 1 /\ i >= 1
    BY <1>1
  <2>2. \A i \in k + 1 .. n + 1 : F[i] \in Seq(Frames)
    BY <1>5, <2>1
  <2> QED
    BY <1>3, <2>1, <2>2
<1> HIDE DEF T
<1>6. Nat \subseteq T
  BY <1>4, <1>5, NatSet
<1>7. n \in T
  BY <1>1, <1>6
<1> QED
  BY <1>1, <1>7 DEF T, F, n

\* Two bytes stand where they stand.
LEMMA SyncedAt ==
  ASSUME NEW t \in Seq(Byte), NEW k \in 1 .. Len(t) + 1
  PROVE  Synced(t, k) <=> k + 1 <= Len(t) /\ t[k] = Sync1 /\ t[k + 1] = Sync2
<1> DEFINE s == <<Sync1, Sync2>>
           r == SubSeq(t, k, k + 1)
<1>1. Len(s) = 2 /\ s[1] = Sync1 /\ s[2] = Sync2 /\ s \in Seq(Byte)
  BY DEF Sync1, Sync2, Byte
<1>2. k + Len(s) - 1 = k + 1
  BY <1>1
<1>3. k + 1 <= Len(t) => r \in Seq(Byte) /\ Len(r) = 2 /\ r[1] = t[k] /\ r[2] = t[k + 1]
  <2> SUFFICES ASSUME k + 1 <= Len(t)
               PROVE  r \in Seq(Byte) /\ Len(r) = 2 /\ r[1] = t[k] /\ r[2] = t[k + 1]
    OBVIOUS
  <2>1. k \in Nat \ {0} /\ k + 1 \in Int
    OBVIOUS
  <2>2. /\ r \in Seq(Byte)
        /\ Len(r) = IF k <= k + 1 THEN k + 1 - k + 1 ELSE 0
        /\ \A m \in 1 .. k + 1 - k + 1 : r[m] = t[k + m - 1]
    BY <2>1, Part
  <2> QED
    BY <2>2
<1>4. k + 1 <= Len(t) => (r = s <=> t[k] = Sync1 /\ t[k + 1] = Sync2)
  <2> HIDE DEF r, s
  <2> SUFFICES ASSUME k + 1 <= Len(t) PROVE r = s <=> t[k] = Sync1 /\ t[k + 1] = Sync2
    OBVIOUS
  <2>1. ASSUME t[k] = Sync1 /\ t[k + 1] = Sync2 PROVE r = s
    <3>1. \A i \in 1 .. Len(r) : r[i] = s[i]
      BY <1>1, <1>3, <2>1
    <3> QED
      BY <1>1, <1>3, <3>1, SeqEqual
  <2> QED
    BY <1>1, <1>3, <2>1
<1> QED
  BY <1>2, <1>4 DEF Synced, StandsAt

-----------------------------------------------------------------------------
(* The checksum of a frame.                                                *)

\* The checksum is a pair of bytes.
Pairs == Byte \X Byte
FletcherSteps == [q \in Pairs \X Byte |-> Fletcher(q[1], q[2])]

\* Sums of bytes, modulo 256, are bytes.
LEMMA SumsOfBytes ==
  \A x, y, z \in Byte : (x + z) % 256 \in Byte /\ (y + x + z) % 256 \in Byte
BY DEF Byte

\* One step of verify_checksum() leaves a pair of bytes.
LEMMA FletcherIn ==
  ASSUME NEW c \in Pairs, NEW b \in Byte
  PROVE  Fletcher(c, b) \in Pairs
<1> DEFINE x == c[1]
           y == c[2]
<1>1. x \in Byte /\ y \in Byte
  BY DEF Pairs
<1> HIDE DEF x, y
<1>2. (x + b) % 256 \in Byte /\ (y + x + b) % 256 \in Byte
  BY <1>1, SumsOfBytes
<1> QED
  BY <1>2 DEF Fletcher, Pairs, x, y

\* verify_checksum() takes that step on each byte.
LEMMA UbxChecksumRuns ==
  ASSUME NEW t \in Seq(Byte)
  PROVE  UbxChecksum(t) = Run(Pairs, FletcherSteps, <<0, 0>>, t)
<1> DEFINE n == Len(t)
           p == <<0, 0>>
           Chosen(f) == f = [s \in SUBSET (1 .. n) |->
                               IF s = {} THEN p ELSE Fletcher(f[s \ {Max(s)}], t[Max(s)])]
           g == CHOOSE f : Chosen(f)
           h == CHOOSE f : Folds(f, Pairs, FletcherSteps, p, t)
<1>0. p \in Pairs
  BY DEF Pairs, Byte
<1>1. n \in Nat /\ DOMAIN t = 1 .. n /\ \A i \in 1 .. n : t[i] \in Byte
  OBVIOUS
<1>2. FletcherSteps \in [Pairs \X Byte -> Pairs]
  BY FletcherIn DEF FletcherSteps
<1>3. \A q \in Pairs, b \in Byte : FletcherSteps[<<q, b>>] = Fletcher(q, b)
  BY DEF FletcherSteps
<1>4. Folds(h, Pairs, FletcherSteps, p, t)
  BY <1>0, <1>2, RunDefined
<1>5. UbxChecksum(t) = g[1 .. n]
  BY <1>1 DEF UbxChecksum, FoldLeft, MapThenFoldSet
<1>6. \A s \in SUBSET (1 .. n) : s # {} => Max(s) \in 1 .. n /\ t[Max(s)] \in Byte
  BY <1>1, MaxIn
<1> HIDE DEF n, p, g, h
<1>7. Chosen(h)
  <2>1. ASSUME NEW s \in SUBSET (1 .. n), s # {}
        PROVE  h[s] = Fletcher(h[s \ {Max(s)}], t[Max(s)])
    <3>1. h[s \ {Max(s)}] \in Pairs
      BY <1>4 DEF Folds, n
    <3> QED
      BY <1>3, <1>4, <1>6, <2>1, <3>1 DEF Folds, n
  <2>2. h = [s \in SUBSET (1 .. n) |-> h[s]] /\ h[{}] = p
    BY <1>4 DEF Folds, n
  <2> QED
    BY <2>1, <2>2
<1>8. Chosen(g)
  BY <1>7 DEF g
<1>9. StepsDown(g, Pairs, FletcherSteps, p, t)
  BY <1>3, <1>6, <1>8 DEF StepsDown, n
<1>10. Result(g, t) = Run(Pairs, FletcherSteps, p, t)
  BY <1>0, <1>2, <1>9, StepsDownRun
<1> QED
  BY <1>5, <1>10 DEF Result, n, p

\* The checksum is a pair of bytes.
LEMMA UbxChecksumIn ==
  ASSUME NEW t \in Seq(Byte)
  PROVE  UbxChecksum(t) \in Pairs
<1>1. <<0, 0>> \in Pairs
  BY DEF Pairs, Byte
<1>2. FletcherSteps \in [Pairs \X Byte -> Pairs]
  BY FletcherIn DEF FletcherSteps
<1>3. Run(Pairs, FletcherSteps, <<0, 0>>, t) \in Pairs
  BY <1>1, <1>2, RunIn
<1> QED
  BY <1>3, UbxChecksumRuns

\* A frame stands where its header does, and its checksum is the one of what it encloses.
Enclosed(t, k) == <<t[k + 2], t[k + 3], t[k + 4], t[k + 5]>> \o BodyOf(t, k)

\* A frame that is as build_frame() makes it is one whose last two bytes are the checksum of
\* what it encloses, which is what the parser compares.
LEMMA IntactAt ==
  ASSUME NEW t \in Seq(Byte), NEW k \in 1 .. Len(t) + 1, k + 5 <= Len(t), Synced(t, k),
         LastOf(t, k) <= Len(t)
  PROVE  Intact(t, k) <=> UbxChecksum(Enclosed(t, k)) = <<t[LastOf(t, k) - 1], t[LastOf(t, k)]>>
<1> DEFINE last == LastOf(t, k)
           n == last - k - 7
           body == BodyOf(t, k)
           head == <<t[k + 2], t[k + 3], t[k + 4], t[k + 5]>>
           ck == UbxChecksum(Enclosed(t, k))
           s == <<Sync1, Sync2>>
           f == BuildFrame(t[k + 2], t[k + 3], body)
           r == SubSeq(t, k, last)
<1>1. \A i \in 1 .. Len(t) : t[i] \in Byte
  OBVIOUS
<1>2. last \in Nat /\ k + 7 <= last /\ last <= Len(t)
  BY LastBehind
<1>3. /\ t[k] = Sync1 /\ t[k + 1] = Sync2
      /\ \A i \in 2 .. 5 : t[k + i] \in Byte
      /\ n = t[k + 4] + 256 * t[k + 5]
  <2>1. \A i \in 2 .. 5 : k + i \in 1 .. Len(t)
    OBVIOUS
  <2>2. t[k] = Sync1 /\ t[k + 1] = Sync2
    BY SyncedAt
  <2>3. \A i \in 2 .. 5 : t[k + i] \in Byte
    BY <1>1, <2>1
  <2>4. t[k + 4] \in 0 .. 255 /\ t[k + 5] \in 0 .. 255
    BY <2>3 DEF Byte
  <2> DEFINE x == t[k + 4]
             y == t[k + 5]
  <2>5. x \in 0 .. 255 /\ y \in 0 .. 255 /\ last = k + 7 + x + 256 * y
    BY <2>4 DEF LastOf
  <2> HIDE DEF x, y, last
  <2>7. n = x + 256 * y
    BY <2>5
  <2>6. n = t[k + 4] + 256 * t[k + 5]
    BY <2>7 DEF x, y
  <2> QED
    BY <2>2, <2>3, <2>6
<1>4. body \in Seq(Byte) /\ Len(body) = n /\ \A i \in 1 .. n : body[i] = t[k + 5 + i]
  <2>1. k + 6 \in Nat \ {0} /\ last - 2 \in Int /\ last - 2 <= Len(t)
    BY <1>2
  <2>2. /\ body \in Seq(Byte)
        /\ Len(body) = IF k + 6 <= last - 2 THEN last - 2 - (k + 6) + 1 ELSE 0
        /\ \A i \in 1 .. last - 2 - (k + 6) + 1 : body[i] = t[k + 6 + i - 1]
    BY <2>1, Part DEF BodyOf
  <2> HIDE DEF last, body
  <2> QED
    BY <1>2, <2>2
<1>5. head \in Seq(Byte) /\ Len(head) = 4
  BY <1>3
<1>6. Enclosed(t, k) \in Seq(Byte) /\ Enclosed(t, k) = head \o body
  BY <1>4, <1>5, ConcatProperties DEF Enclosed
<1>7. ck \in Pairs
  BY <1>6, UbxChecksumIn
<1>8. n % 256 = t[k + 4] /\ (n \div 256) % 256 = t[k + 5]
  <2>1. t[k + 4] \in 0 .. 255 /\ t[k + 5] \in 0 .. 255
    BY <1>3 DEF Byte
  <2>2. \A x, y \in 0 .. 255 : (x + 256 * y) % 256 = x /\ ((x + 256 * y) \div 256) % 256 = y
    OBVIOUS
  <2> DEFINE x == t[k + 4]
             y == t[k + 5]
  <2>3. x \in 0 .. 255 /\ y \in 0 .. 255 /\ n = x + 256 * y
    BY <1>3, <2>1
  <2> HIDE DEF x, y, n
  <2>4. n % 256 = x /\ (n \div 256) % 256 = y
    BY <2>2, <2>3
  <2> QED
    BY <2>4 DEF x, y
<1>9. f = s \o (head \o body) \o ck
  <2>1. head = <<t[k + 2], t[k + 3], Len(body) % 256, (Len(body) \div 256) % 256>>
    BY <1>4, <1>8
  <2>2. ck = UbxChecksum(head \o body)
    BY <1>6
  <2> HIDE DEF head, body, s, ck
  <2> QED
    BY <2>1, <2>2 DEF BuildFrame, s
<1>10. s \in Seq(Byte) /\ Len(s) = 2
  BY DEF Sync1, Sync2, Byte
<1>11. ck \in Seq(Byte) /\ Len(ck) = 2
  <2>1. PICK x \in Byte, y \in Byte : ck = <<x, y>>
    BY <1>7 DEF Pairs
  <2>2. <<x, y>> \in Seq(Byte) /\ Len(<<x, y>>) = 2
    OBVIOUS
  <2> QED
    BY <2>1, <2>2
<1>12. r \in Seq(Byte) /\ Len(r) = n + 8 /\ \A i \in 1 .. n + 8 : r[i] = t[k + i - 1]
  <2>1. k \in Nat \ {0} /\ last \in Int /\ last <= Len(t)
    BY <1>2
  <2>2. /\ r \in Seq(Byte)
        /\ Len(r) = IF k <= last THEN last - k + 1 ELSE 0
        /\ \A i \in 1 .. last - k + 1 : r[i] = t[k + i - 1]
    BY <2>1, Part
  <2> HIDE DEF last, r
  <2> QED
    BY <1>2, <2>2
<1>13. n \in Nat /\ last = k + n + 7
  BY <1>2
<1>14. /\ head[1] = t[k + 2] /\ head[2] = t[k + 3] /\ head[3] = t[k + 4] /\ head[4] = t[k + 5]
       /\ s[1] = Sync1 /\ s[2] = Sync2
  OBVIOUS
<1> HIDE DEF last, n, body, head, ck, s, f, r
<1>15. /\ f \in Seq(Byte) /\ Len(f) = n + 8
       /\ \A i \in 1 .. n + 6 : f[i] = t[k + i - 1]
       /\ f[n + 7] = ck[1] /\ f[n + 8] = ck[2]
  <2> DEFINE e == head \o body
             g == s \o e
  <2>1. /\ e \in Seq(Byte) /\ Len(e) = n + 4
        /\ \A i \in 1 .. n + 4 : e[i] = IF i <= 4 THEN head[i] ELSE body[i - 4]
    <3>1. /\ head \o body \in Seq(Byte)
          /\ Len(head \o body) = Len(head) + Len(body)
          /\ \A i \in 1 .. Len(head) + Len(body) :
               (head \o body)[i] = IF i <= Len(head) THEN head[i] ELSE body[i - Len(head)]
      BY <1>4, <1>5, ConcatProperties
    <3> HIDE DEF e
    <3>2. 4 + n = n + 4
      BY <1>13
    <3> QED
      BY <1>4, <1>5, <3>1, <3>2 DEF e
  <2> HIDE DEF e
  <2>2. /\ g \in Seq(Byte) /\ Len(g) = n + 6
        /\ \A i \in 1 .. n + 6 : g[i] = IF i <= 2 THEN s[i] ELSE e[i - 2]
    <3>1. /\ s \o e \in Seq(Byte)
          /\ Len(s \o e) = Len(s) + Len(e)
          /\ \A i \in 1 .. Len(s) + Len(e) :
               (s \o e)[i] = IF i <= Len(s) THEN s[i] ELSE e[i - Len(s)]
      BY <1>10, <2>1, ConcatProperties
    <3> HIDE DEF g
    <3>2. 2 + (n + 4) = n + 6
      BY <1>13
    <3> QED
      BY <1>10, <2>1, <3>1, <3>2 DEF g
  <2> HIDE DEF g
  <2>3. f = g \o ck
    BY <1>9 DEF g, e
  <2>4. /\ f \in Seq(Byte) /\ Len(f) = n + 8
        /\ \A i \in 1 .. n + 8 : f[i] = IF i <= n + 6 THEN g[i] ELSE ck[i - (n + 6)]
    <3>1. /\ g \o ck \in Seq(Byte)
          /\ Len(g \o ck) = Len(g) + Len(ck)
          /\ \A i \in 1 .. Len(g) + Len(ck) :
               (g \o ck)[i] = IF i <= Len(g) THEN g[i] ELSE ck[i - Len(g)]
      BY <1>11, <2>2, ConcatProperties
    <3>2. n + 6 + 2 = n + 8
      BY <1>13
    <3> QED
      BY <1>11, <2>2, <2>3, <3>1, <3>2
  <2>5. ASSUME NEW i \in 1 .. n + 6 PROVE f[i] = t[k + i - 1]
    <3>1. f[i] = g[i]
      BY <1>13, <2>4
    <3>2. CASE i <= 2
      <4>1. i = 1 \/ i = 2
        BY <1>13, <3>2
      <4> QED
        BY <1>3, <1>14, <2>2, <3>1, <3>2, <4>1, SMTT(60)
    <3>3. CASE i > 2 /\ i <= 6
      <4>1. i = 3 \/ i = 4 \/ i = 5 \/ i = 6
        BY <1>13, <3>3
      <4>2. f[i] = head[i - 2]
        <5>1. i \in 1 .. n + 6 /\ ~ (i <= 2) /\ i - 2 \in 1 .. n + 4 /\ i - 2 <= 4
          BY <1>13, <3>3
        <5>2. g[i] = e[i - 2]
          BY <2>2, <5>1
        <5>3. e[i - 2] = head[i - 2]
          BY <2>1, <5>1
        <5> QED
          BY <3>1, <5>2, <5>3
      <4> QED
        BY <1>14, <4>1, <4>2, SMTT(30)
    <3>4. CASE i > 6
      <4>1. f[i] = e[i - 2] /\ e[i - 2] = body[i - 6]
        BY <1>13, <2>1, <2>2, <3>1, <3>4, SMTT(30)
      <4>2. i - 6 \in 1 .. n /\ k + 5 + (i - 6) = k + i - 1
        BY <1>13, <3>4
      <4> QED
        BY <1>4, <4>1, <4>2
    <3> QED
      BY <1>13, <3>2, <3>3, <3>4
  <2>6. f[n + 7] = ck[1] /\ f[n + 8] = ck[2]
    BY <1>13, <2>4
  <2> QED
    BY <2>4, <2>5, <2>6
<1>16. r = f <=> ck[1] = t[last - 1] /\ ck[2] = t[last]
  <2>1. r[n + 7] = t[last - 1] /\ r[n + 8] = t[last]
    <3>1. n + 7 \in 1 .. n + 8 /\ n + 8 \in 1 .. n + 8
      BY <1>13
    <3>2. k + (n + 7) - 1 = last - 1 /\ k + (n + 8) - 1 = last
      BY <1>2, <1>13
    <3> QED
      BY <1>12, <3>1, <3>2
  <2>2. ASSUME ck[1] = t[last - 1], ck[2] = t[last] PROVE r = f
    <3>1. ASSUME NEW i \in 1 .. n + 8 PROVE r[i] = f[i]
      <4>1. i \in 1 .. n + 6 \/ i = n + 7 \/ i = n + 8
        BY <1>13
      <4> QED
        BY <1>12, <1>15, <2>1, <2>2, <4>1
    <3> QED
      BY <1>12, <1>15, <3>1, SeqEqual
  <2> QED
    BY <1>15, <2>1, <2>2
<1>17. ck = <<t[last - 1], t[last]>> <=> ck[1] = t[last - 1] /\ ck[2] = t[last]
  BY <1>7 DEF Pairs
<1>18. k + Len(f) - 1 = last /\ last <= Len(t)
  BY <1>2, <1>13, <1>15
<1>19. Intact(t, k) <=> r = f
  BY <1>18 DEF Intact, StandsAt, f, r, body
<1> QED
  BY <1>16, <1>17, <1>19 DEF ck, last

-----------------------------------------------------------------------------
(* The frames from one place on.                                           *)

\* The length the header at k announces.
LengthAt(t, k) == t[k + 4] + 256 * t[k + 5]

\* The length a header announces says where its frame ends.
LEMMA LengthIn ==
  ASSUME NEW t \in Seq(Byte), NEW k \in 1 .. Len(t) + 1, k + 5 <= Len(t)
  PROVE  LengthAt(t, k) \in Nat /\ LastOf(t, k) = k + 7 + LengthAt(t, k)
<1> DEFINE x == t[k + 4]
           y == t[k + 5]
<1>1. x \in Byte /\ y \in Byte
  <2>1. \A i \in 1 .. Len(t) : t[i] \in Byte
    OBVIOUS
  <2>2. k + 4 \in 1 .. Len(t) /\ k + 5 \in 1 .. Len(t)
    OBVIOUS
  <2> QED
    BY <2>1, <2>2
<1>2. LengthAt(t, k) = x + 256 * y /\ LastOf(t, k) = k + 7 + x + 256 * y /\ k \in Nat
  BY DEF LengthAt, LastOf
<1> HIDE DEF x, y
<1> QED
  BY <1>1, <1>2 DEF Byte

\* FramesFrom, place by place.
LEMMA AheadNothing ==
  ASSUME NEW w \in Seq(Byte), NEW k \in 1 .. Len(w) + 1, k + 5 > Len(w)
  PROVE  FramesFrom(w)[k] = <<>>
BY FramesFromIs DEF From

\* Where no sync characters stand the stream is read from the next byte on.
LEMMA AheadNoise ==
  ASSUME NEW w \in Seq(Byte), NEW k \in 1 .. Len(w),
         ~ Synced(w, k)
  PROVE  FramesFrom(w)[k] = FramesFrom(w)[k + 1]
<1>1. k \in 1 .. Len(w) + 1 /\ k + 1 \in 1 .. Len(w) + 1
  OBVIOUS
<1>2. CASE k + 5 > Len(w)
  <2>1. k + 1 + 5 > Len(w)
    BY <1>2
  <2> QED
    BY <1>1, <1>2, <2>1, AheadNothing
<1>3. CASE k + 5 <= Len(w)
  <2>1. ~ (k + 5 > Len(w))
    BY <1>3
  <2> QED
    BY <1>1, <2>1, FramesFromIs DEF From
<1> QED
  BY <1>2, <1>3

\* A frame longer than max_ubx_payload_length is given up right behind its header.
LEMMA AheadTooLong ==
  ASSUME NEW w \in Seq(Byte), NEW k \in 1 .. Len(w), k + 5 <= Len(w), Synced(w, k),
         LengthAt(w, k) > MaxPayload
  PROVE  FramesFrom(w)[k] = FramesFrom(w)[k + 6]
<1>1. k \in 1 .. Len(w) + 1 /\ ~ (k + 5 > Len(w))
  OBVIOUS
<1>2. LastOf(w, k) - k - 7 = LengthAt(w, k)
  BY <1>1, LengthIn
<1> QED
  BY <1>1, <1>2, FramesFromIs DEF From

\* A frame that the stream ends in is none.
LEMMA AheadUnfinished ==
  ASSUME NEW w \in Seq(Byte), NEW k \in 1 .. Len(w), k + 5 <= Len(w), Synced(w, k),
         LengthAt(w, k) <= MaxPayload, k + 7 + LengthAt(w, k) > Len(w)
  PROVE  FramesFrom(w)[k] = <<>>
<1>1. k \in 1 .. Len(w) + 1 /\ ~ (k + 5 > Len(w))
  OBVIOUS
<1>2. LastOf(w, k) - k - 7 = LengthAt(w, k) /\ LengthAt(w, k) \in Nat
  BY <1>1, LengthIn
<1>3. ~ (LengthAt(w, k) > MaxPayload)
  BY <1>2, Bounds
<1>4. LastOf(w, k) > Len(w)
  BY <1>1, LengthIn
<1> QED
  BY <1>1, <1>2, <1>3, <1>4, FramesFromIs DEF From

Before(f, frames) == <<f>> \o frames

\* A complete frame is one of the stream if its checksum is right; either way the stream is
\* read on from behind it.
LEMMA AheadFrame ==
  ASSUME NEW w \in Seq(Byte), NEW k \in 1 .. Len(w), k + 5 <= Len(w), Synced(w, k),
         LengthAt(w, k) <= MaxPayload, NEW last, last = k + 7 + LengthAt(w, k), last <= Len(w)
  PROVE  /\ UbxChecksum(Enclosed(w, k)) = <<w[last - 1], w[last]>>
             => FramesFrom(w)[k] = Before(FrameAt(w, k), FramesFrom(w)[last + 1])
         /\ UbxChecksum(Enclosed(w, k)) # <<w[last - 1], w[last]>>
             => FramesFrom(w)[k] = FramesFrom(w)[last + 1]
<1>1. k \in 1 .. Len(w) + 1 /\ ~ (k + 5 > Len(w))
  OBVIOUS
<1>2. LastOf(w, k) - k - 7 = LengthAt(w, k) /\ LengthAt(w, k) \in Nat
  BY <1>1, LengthIn
<1>3. ~ (LengthAt(w, k) > MaxPayload)
  BY <1>2, Bounds
<1>4. LastOf(w, k) <= Len(w) /\ LastOf(w, k) = last
  BY <1>1, LengthIn
<1>5. ~ (LastOf(w, k) > Len(w))
  BY <1>1, <1>2, <1>4
<1>6. Intact(w, k) <=> UbxChecksum(Enclosed(w, k)) = <<w[LastOf(w, k) - 1], w[LastOf(w, k)]>>
  BY <1>1, <1>4, IntactAt
<1>7. FramesFrom(w)[k] = IF Intact(w, k) THEN <<FrameAt(w, k)>> \o FramesFrom(w)[LastOf(w, k) + 1]
                         ELSE FramesFrom(w)[LastOf(w, k) + 1]
  BY <1>1, <1>2, <1>3, <1>5, FramesFromIs DEF From
<1> QED
  BY <1>4, <1>6, <1>7 DEF Before

-----------------------------------------------------------------------------
(* ubx_parser keeps step with the stream, byte by byte.                    *)

\* w goes on where t ends.
Extends(w, t) == Len(t) <= Len(w) /\ \A i \in 1 .. Len(t) : w[i] = t[i]

Opened(t, k) == t[k] = Sync1 /\ t[k + 1] = Sync2
Announced(c, t, k) ==
  /\ Opened(t, k)
  /\ c.class = t[k + 2] /\ c.id = t[k + 3] /\ c.lo = t[k + 4]
  /\ c.len = LengthAt(t, k) /\ c.len <= MaxPayload
  /\ \A i \in 1 .. Len(c.payload) : c.payload[i] = t[k + 5 + i]

\* What the context of ubx_parser keeps of t, of which it has not yet dealt with what
\* stands from k on.
UbxAt(c, t, k) ==
  \/ c.state = "wait_sync_1" /\ k = Len(t) + 1
  \/ c.state = "wait_sync_2" /\ k = Len(t) /\ t[k] = Sync1
  \/ c.state = "wait_class" /\ k + 1 = Len(t) /\ Opened(t, k)
  \/ c.state = "wait_id" /\ k + 2 = Len(t) /\ Opened(t, k) /\ c.class = t[k + 2]
  \/ /\ c.state = "wait_len_lo" /\ k + 3 = Len(t) /\ Opened(t, k)
     /\ c.class = t[k + 2] /\ c.id = t[k + 3]
  \/ /\ c.state = "wait_len_hi" /\ k + 4 = Len(t) /\ Opened(t, k)
     /\ c.class = t[k + 2] /\ c.id = t[k + 3] /\ c.lo = t[k + 4]
  \/ /\ c.state = "accumulate_payload" /\ Announced(c, t, k)
     /\ Len(c.payload) < c.len /\ Len(t) = k + 5 + Len(c.payload)
  \/ /\ c.state = "wait_ck_a" /\ Announced(c, t, k)
     /\ Len(c.payload) = c.len /\ Len(t) = k + 5 + c.len
  \/ /\ c.state = "wait_ck_b" /\ Announced(c, t, k)
     /\ Len(c.payload) = c.len /\ Len(t) = k + 6 + c.len /\ c.a = t[k + 6 + c.len]

\* Whatever follows t, the frames are those dispatched and those that begin at k or later.
Splits(frames, t, k) ==
  \A w \in Seq(Byte) : Extends(w, t) => FramesFrom(w)[1] = frames \o FramesFrom(w)[k]

UbxHas(p, t) ==
  /\ p \in Ubxs
  /\ \E k \in 1 .. Len(t) + 1 : UbxAt(p.ctx, t, k) /\ Splits(p.frames, t, k)

\* A stream that is one byte longer is the same before that byte, and so is all that extends it.
LEMMA Grows ==
  ASSUME NEW t \in Seq(Byte), NEW b \in Byte
  PROVE  LET u == Append(t, b) IN
         /\ u \in Seq(Byte) /\ Len(u) = Len(t) + 1 /\ u[Len(t) + 1] = b /\ Len(t) \in Nat
         /\ \A i \in 1 .. Len(t) : u[i] = t[i]
         /\ \A w \in Seq(Byte) :
              Extends(w, u) => Extends(w, t) /\ Len(t) + 1 <= Len(w) /\ w[Len(t) + 1] = b
BY DEF Extends

\* A byte that is no first sync character where one is looked for.
LEMMA NoFirstSync ==
  ASSUME NEW w \in Seq(Byte), NEW k \in 1 .. Len(w), w[k] # Sync1
  PROVE  FramesFrom(w)[k] = FramesFrom(w)[k + 1]
<1>1. k \in 1 .. Len(w) + 1
  OBVIOUS
<1>2. ~ Synced(w, k)
  BY <1>1, SyncedAt
<1> QED
  BY <1>2, AheadNoise

\* A first sync character without the second is noise.
LEMMA NoSecondSync ==
  ASSUME NEW w \in Seq(Byte), NEW k \in 1 .. Len(w), k + 1 <= Len(w), w[k + 1] # Sync2
  PROVE  FramesFrom(w)[k] = FramesFrom(w)[k + 1]
<1>1. k \in 1 .. Len(w) + 1
  OBVIOUS
<1>2. ~ Synced(w, k)
  BY <1>1, SyncedAt
<1> QED
  BY <1>2, AheadNoise

\* The states in which no length is known yet.
LEMMA EarlyByte ==
  ASSUME NEW p \in Ubxs, NEW t \in Seq(Byte), NEW b \in Byte, UbxHas(p, t),
         p.ctx.state \in {"wait_sync_1", "wait_sync_2", "wait_class", "wait_id", "wait_len_lo"}
  PROVE  UbxHas(UbxByte(p, b), Append(t, b))
<1> DEFINE u == Append(t, b)
           q == UbxByte(p, b)
           n == Len(t)
<1>1. PICK k \in 1 .. n + 1 : UbxAt(p.ctx, t, k) /\ Splits(p.frames, t, k)
  BY DEF UbxHas
<1>2. /\ u \in Seq(Byte) /\ Len(u) = n + 1 /\ u[n + 1] = b /\ n \in Nat
      /\ \A i \in 1 .. n : u[i] = t[i]
      /\ \A w \in Seq(Byte) :
           Extends(w, u) => Extends(w, t) /\ n + 1 <= Len(w) /\ w[n + 1] = b
  BY Grows
<1>3. q \in Ubxs
  BY UbxByteIn
<1>4. Splits(p.frames, u, k)
  BY <1>1, <1>2 DEF Splits
<1>5. p.ctx \in UbxContexts
  BY DEF Ubxs
<1>6. SUFFICES \E j \in 1 .. Len(u) + 1 : UbxAt(q.ctx, u, j) /\ Splits(q.frames, u, j)
  BY <1>3 DEF UbxHas
<1> HIDE DEF u, n
<1>7. CASE p.ctx.state = "wait_sync_1"
  <2>1. k = n + 1
    BY <1>1, <1>7 DEF UbxAt, n
  <2>2. q = UbxGoes(p, IF b = Sync1 THEN "wait_sync_2" ELSE "wait_sync_1")
    BY <1>7 DEF UbxByte
  <2> HIDE DEF q
  <2>3. q.frames = p.frames /\ q.ctx.state = IF b = Sync1 THEN "wait_sync_2" ELSE "wait_sync_1"
    BY <2>2, <1>5 DEF UbxGoes, Ubxs, UbxContexts
  <2>4. CASE b = Sync1
    <3>1. UbxAt(q.ctx, u, k)
      BY <1>2, <2>1, <2>3, <2>4 DEF UbxAt
    <3> QED
      BY <1>2, <1>4, <2>1, <2>3, <3>1
  <2>5. CASE b # Sync1
    <3>1. UbxAt(q.ctx, u, k + 1)
      BY <1>2, <2>1, <2>3, <2>5 DEF UbxAt
    <3>2. ASSUME NEW w \in Seq(Byte), Extends(w, u)
          PROVE  FramesFrom(w)[k] = FramesFrom(w)[k + 1]
      <4>1. k \in 1 .. Len(w) /\ w[k] # Sync1
        BY <1>2, <2>1, <2>5, <3>2
      <4> QED
        BY <4>1, NoFirstSync
    <3>3. Splits(q.frames, u, k + 1)
      BY <1>4, <2>3, <3>2 DEF Splits
    <3>4. k + 1 \in 1 .. Len(u) + 1
      BY <1>2, <2>1
    <3> QED
      BY <3>1, <3>3, <3>4
  <2> QED
    BY <2>4, <2>5
<1>8. CASE p.ctx.state = "wait_sync_2"
  <2>1. k = n /\ t[k] = Sync1
    BY <1>1, <1>8 DEF UbxAt, n
  <2>2. q = SecondSync(p, b)
    BY <1>8 DEF UbxByte
  <2> HIDE DEF q
  <2>3. /\ q.frames = p.frames
        /\ q.ctx.state = IF b = Sync2 THEN "wait_class" ELSE IF b = Sync1 THEN "wait_sync_2" ELSE "wait_sync_1"
    BY <2>2, <1>5 DEF SecondSync, UbxGoes, Ubxs, UbxContexts, Sync1, Sync2
  <2>4. CASE b = Sync2
    <3>1. UbxAt(q.ctx, u, k)
      BY <1>2, <2>1, <2>3, <2>4 DEF UbxAt, Opened
    <3> QED
      BY <1>2, <1>4, <2>1, <2>3, <3>1
  <2>5. ASSUME b # Sync2, NEW w \in Seq(Byte), Extends(w, u)
        PROVE  FramesFrom(w)[k] = FramesFrom(w)[k + 1]
    <3>1. k \in 1 .. Len(w) /\ k + 1 <= Len(w) /\ w[k + 1] # Sync2
      BY <1>2, <2>1, <2>5
    <3> QED
      BY <3>1, NoSecondSync
  <2>6. CASE b # Sync2 /\ b = Sync1
    <3>1. UbxAt(q.ctx, u, k + 1)
      BY <1>2, <2>1, <2>3, <2>6 DEF UbxAt
    <3>2. Splits(q.frames, u, k + 1)
      BY <1>4, <2>3, <2>5, <2>6 DEF Splits
    <3>3. k + 1 \in 1 .. Len(u) + 1
      BY <1>2, <2>1
    <3> QED
      BY <3>1, <3>2, <3>3
  <2>7. CASE b # Sync2 /\ b # Sync1
    <3>1. UbxAt(q.ctx, u, k + 2)
      BY <1>2, <2>1, <2>3, <2>7 DEF UbxAt
    <3>2. ASSUME NEW w \in Seq(Byte), Extends(w, u)
          PROVE  FramesFrom(w)[k + 1] = FramesFrom(w)[k + 2]
      <4>1. k + 1 \in 1 .. Len(w) /\ w[k + 1] # Sync1 /\ (k + 1) + 1 = k + 2
        BY <1>2, <2>1, <2>7, <3>2
      <4> QED
        BY <4>1, NoFirstSync
    <3>3. Splits(q.frames, u, k + 2)
      BY <1>4, <2>3, <2>5, <2>7, <3>2 DEF Splits
    <3>4. k + 2 \in 1 .. Len(u) + 1
      BY <1>2, <2>1
    <3> QED
      BY <3>1, <3>3, <3>4
  <2> QED
    BY <2>4, <2>6, <2>7
<1>9. CASE p.ctx.state \in {"wait_class", "wait_id", "wait_len_lo"}
  <2>1. q.frames = p.frames
    BY <1>9 DEF UbxByte, Ubxs
  <2>2. CASE p.ctx.state = "wait_class"
    <3>1. q.ctx.state = "wait_id" /\ q.ctx.class = b
      BY <1>5, <2>2 DEF UbxByte, Ubxs, UbxContexts
    <3> HIDE DEF q
    <3>2. UbxAt(q.ctx, u, k)
      BY <1>1, <1>2, <2>2, <3>1 DEF UbxAt, Opened, n
    <3> QED
      BY <1>2, <1>4, <2>1, <3>2
  <2>3. CASE p.ctx.state = "wait_id"
    <3>1. q.ctx.state = "wait_len_lo" /\ q.ctx.class = p.ctx.class /\ q.ctx.id = b
      BY <1>5, <2>3 DEF UbxByte, Ubxs, UbxContexts
    <3> HIDE DEF q
    <3>2. UbxAt(q.ctx, u, k)
      BY <1>1, <1>2, <2>3, <3>1 DEF UbxAt, Opened, n
    <3> QED
      BY <1>2, <1>4, <2>1, <3>2
  <2>4. CASE p.ctx.state = "wait_len_lo"
    <3>1. /\ q.ctx.state = "wait_len_hi" /\ q.ctx.class = p.ctx.class /\ q.ctx.id = p.ctx.id
          /\ q.ctx.lo = b
      BY <1>5, <2>4 DEF UbxByte, Ubxs, UbxContexts
    <3> HIDE DEF q
    <3>2. UbxAt(q.ctx, u, k)
      BY <1>1, <1>2, <2>4, <3>1 DEF UbxAt, Opened, n
    <3> QED
      BY <1>2, <1>4, <2>1, <3>2
  <2> QED
    BY <1>9, <2>2, <2>3, <2>4
<1> QED
  BY <1>7, <1>8, <1>9

\* The header at k reads the same in whatever goes on where t ends.
LEMMA HeaderStays ==
  ASSUME NEW t \in Seq(Byte), NEW w \in Seq(Byte), Extends(w, t), NEW k \in 1 .. Len(t), k + 5 <= Len(t),
         Opened(t, k)
  PROVE  /\ k \in 1 .. Len(w) /\ k + 5 <= Len(w) /\ Opened(w, k) /\ Synced(w, k)
         /\ LengthAt(w, k) = LengthAt(t, k)
         /\ w[k + 2] = t[k + 2] /\ w[k + 3] = t[k + 3] /\ w[k + 4] = t[k + 4] /\ w[k + 5] = t[k + 5]
<1>1. k \in 1 .. Len(w) /\ k + 5 <= Len(w) /\ k \in 1 .. Len(w) + 1
  BY DEF Extends
<1>2. \A i \in 0 .. 5 : w[k + i] = t[k + i]
  BY DEF Extends
<1>3. /\ w[k] = t[k] /\ w[k + 1] = t[k + 1]
      /\ w[k + 2] = t[k + 2] /\ w[k + 3] = t[k + 3] /\ w[k + 4] = t[k + 4] /\ w[k + 5] = t[k + 5]
  <2>1. w[k] = t[k]
    BY DEF Extends
  <2> QED
    BY <1>2, <2>1
<1>4. Opened(w, k) /\ LengthAt(w, k) = LengthAt(t, k)
  BY <1>3 DEF Opened, LengthAt
<1>5. Synced(w, k)
  BY <1>1, <1>4, SyncedAt DEF Opened
<1> QED
  BY <1>1, <1>3, <1>4, <1>5

\* The second byte of the length: the frame is opened, announced as empty, or given up.
LEMMA LengthByte ==
  ASSUME NEW p \in Ubxs, NEW t \in Seq(Byte), NEW b \in Byte, UbxHas(p, t),
         p.ctx.state = "wait_len_hi"
  PROVE  UbxHas(UbxByte(p, b), Append(t, b))
<1> DEFINE u == Append(t, b)
           q == UbxByte(p, b)
           n == Len(t)
           len == p.ctx.lo + 256 * b
<1>1. PICK k \in 1 .. n + 1 : UbxAt(p.ctx, t, k) /\ Splits(p.frames, t, k)
  BY DEF UbxHas
<1>2. /\ u \in Seq(Byte) /\ Len(u) = n + 1 /\ u[n + 1] = b /\ n \in Nat
      /\ \A i \in 1 .. n : u[i] = t[i]
      /\ \A w \in Seq(Byte) :
           Extends(w, u) => Extends(w, t) /\ n + 1 <= Len(w) /\ w[n + 1] = b
  BY Grows
<1>3. q \in Ubxs
  BY UbxByteIn
<1>4. Splits(p.frames, u, k)
  BY <1>1, <1>2 DEF Splits
<1>5. p.ctx \in UbxContexts
  BY DEF Ubxs
<1>6. SUFFICES \E j \in 1 .. Len(u) + 1 : UbxAt(q.ctx, u, j) /\ Splits(q.frames, u, j)
  BY <1>3 DEF UbxHas
<1>7. q = LengthKnown(p, b)
  BY DEF UbxByte
<1> HIDE DEF u, n, q
<1>8. /\ k + 4 = n /\ Opened(t, k)
      /\ p.ctx.class = t[k + 2] /\ p.ctx.id = t[k + 3] /\ p.ctx.lo = t[k + 4]
  BY <1>1 DEF UbxAt, n
<1>9. /\ Opened(u, k) /\ k + 5 = Len(u) /\ k \in 1 .. Len(u)
      /\ p.ctx.class = u[k + 2] /\ p.ctx.id = u[k + 3] /\ p.ctx.lo = u[k + 4] /\ b = u[k + 5]
  <2>1. /\ k \in 1 .. n /\ k + 1 \in 1 .. n /\ k + 2 \in 1 .. n /\ k + 3 \in 1 .. n
        /\ k + 4 \in 1 .. n /\ k + 5 = n + 1 /\ k \in 1 .. n + 1
    BY <1>2, <1>8
  <2> QED
    BY <1>2, <1>8, <2>1 DEF Opened
<1>10. len = LengthAt(u, k)
  BY <1>9 DEF LengthAt
<1>11. len \in Nat
  <2>1. p.ctx.lo \in 0 .. 255 /\ b \in 0 .. 255
    BY <1>5 DEF UbxContexts, Byte
  <2>2. \A x, y \in 0 .. 255 : x + 256 * y \in Nat
    OBVIOUS
  <2> QED
    BY <2>1, <2>2
<1>12. MaxPayload \in Nat
  BY Bounds
<1> HIDE DEF len
<1>13. CASE len > MaxPayload
  <2>1. q = DiscardFrame(p)
    BY <1>7, <1>13 DEF LengthKnown, len
  <2>2. q.frames = p.frames /\ q.ctx.state = "wait_sync_1"
    BY <2>1 DEF DiscardFrame, UbxIdle, Ubxs
  <2>3. k + 6 = Len(u) + 1 /\ k + 6 \in 1 .. Len(u) + 1
    BY <1>2, <1>9
  <2>4. UbxAt(q.ctx, u, k + 6)
    BY <2>2, <2>3 DEF UbxAt
  <2>5. ASSUME NEW w \in Seq(Byte), Extends(w, u)
        PROVE  FramesFrom(w)[k] = FramesFrom(w)[k + 6]
    <3>1. k \in 1 .. Len(w) /\ k + 5 <= Len(w) /\ Synced(w, k) /\ LengthAt(w, k) = LengthAt(u, k)
      BY <1>2, <1>9, <2>5, HeaderStays
    <3> QED
      BY <1>10, <1>13, <3>1, AheadTooLong
  <2>6. Splits(q.frames, u, k + 6)
    BY <1>4, <2>2, <2>5 DEF Splits
  <2> QED
    BY <2>3, <2>4, <2>6
<1>14. CASE ~ (len > MaxPayload)
  <2>1. q = [p EXCEPT !.ctx.len = len, !.ctx.payload = <<>>,
                      !.ctx.state = IF len = 0 THEN "wait_ck_a" ELSE "accumulate_payload"]
    BY <1>7, <1>14 DEF LengthKnown, len
  <2>2. /\ q.frames = p.frames /\ q.ctx.len = len /\ q.ctx.payload = <<>>
        /\ q.ctx.state = IF len = 0 THEN "wait_ck_a" ELSE "accumulate_payload"
        /\ q.ctx.class = p.ctx.class /\ q.ctx.id = p.ctx.id /\ q.ctx.lo = p.ctx.lo
    BY <2>1, <1>5 DEF Ubxs, UbxContexts
  <2>3. len <= MaxPayload /\ Len(<<>>) = 0 /\ 1 .. 0 = {}
    BY <1>11, <1>12, <1>14
  <2>4. Announced(q.ctx, u, k)
    BY <1>9, <1>10, <2>2, <2>3 DEF Announced
  <2>5. UbxAt(q.ctx, u, k)
    <3>1. CASE len = 0
      <4>1. Len(u) = k + 5 + len
        BY <1>2, <1>9, <3>1
      <4> QED
        BY <2>2, <2>3, <2>4, <3>1, <4>1 DEF UbxAt
    <3>2. CASE len # 0
      <4>1. Len(u) = k + 5 + 0 /\ 0 < len
        BY <1>2, <1>9, <1>11, <3>2
      <4> QED
        BY <2>2, <2>3, <2>4, <3>2, <4>1 DEF UbxAt
    <3> QED
      BY <3>1, <3>2
  <2>6. k \in 1 .. Len(u) + 1
    BY <1>2
  <2> QED
    BY <1>4, <2>2, <2>5, <2>6
<1> QED
  BY <1>13, <1>14

\* A byte of the payload, and the first one of the checksum.
LEMMA DataByte ==
  ASSUME NEW p \in Ubxs, NEW t \in Seq(Byte), NEW b \in Byte, UbxHas(p, t),
         p.ctx.state \in {"accumulate_payload", "wait_ck_a"}
  PROVE  UbxHas(UbxByte(p, b), Append(t, b))
<1> DEFINE u == Append(t, b)
           q == UbxByte(p, b)
           n == Len(t)
           m == Len(p.ctx.payload)
<1>1. PICK k \in 1 .. n + 1 : UbxAt(p.ctx, t, k) /\ Splits(p.frames, t, k)
  BY DEF UbxHas
<1>2. /\ u \in Seq(Byte) /\ Len(u) = n + 1 /\ u[n + 1] = b /\ n \in Nat
      /\ \A i \in 1 .. n : u[i] = t[i]
      /\ \A w \in Seq(Byte) :
           Extends(w, u) => Extends(w, t) /\ n + 1 <= Len(w) /\ w[n + 1] = b
  BY Grows
<1>3. q \in Ubxs
  BY UbxByteIn
<1>4. Splits(p.frames, u, k)
  BY <1>1, <1>2 DEF Splits
<1>5. p.ctx \in UbxContexts /\ p.ctx.payload \in Seq(Byte) /\ m \in Nat /\ p.ctx.len \in Nat
  BY DEF Ubxs, UbxContexts
<1>6. SUFFICES \E j \in 1 .. Len(u) + 1 : UbxAt(q.ctx, u, j) /\ Splits(q.frames, u, j)
  BY <1>3 DEF UbxHas
<1>7. k \in 1 .. Len(u) + 1
  BY <1>2
<1> HIDE DEF u, n
<1>8. Announced(p.ctx, t, k) /\ m <= p.ctx.len /\ n = k + 5 + m
  <2>1. CASE p.ctx.state = "accumulate_payload"
    <3>1. Announced(p.ctx, t, k) /\ m < p.ctx.len /\ n = k + 5 + m
      BY <1>1, <2>1 DEF UbxAt, n
    <3> HIDE DEF m
    <3> QED
      BY <1>5, <3>1
  <2>2. CASE p.ctx.state = "wait_ck_a"
    <3>1. Announced(p.ctx, t, k) /\ m = p.ctx.len /\ n = k + 5 + p.ctx.len
      BY <1>1, <2>2 DEF UbxAt, n
    <3> HIDE DEF m
    <3> QED
      BY <1>5, <3>1
  <2> QED
    BY <2>1, <2>2
<1>9. Announced(p.ctx, u, k)
  <2>1. \A i \in 1 .. m : k + 5 + i \in 1 .. n
    BY <1>2, <1>5, <1>8
  <2> HIDE DEF m
  <2>2. /\ k \in 1 .. n /\ k + 1 \in 1 .. n /\ k + 2 \in 1 .. n /\ k + 3 \in 1 .. n
        /\ k + 4 \in 1 .. n /\ k + 5 \in 1 .. n
    BY <1>2, <1>5, <1>8
  <2>3. Opened(u, k) /\ LengthAt(u, k) = LengthAt(t, k) /\ u[k + 2] = t[k + 2]
        /\ u[k + 3] = t[k + 3] /\ u[k + 4] = t[k + 4]
    BY <1>2, <1>8, <2>2 DEF Announced, Opened, LengthAt
  <2>4. \A i \in 1 .. m : p.ctx.payload[i] = u[k + 5 + i]
    BY <1>2, <1>8, <2>1 DEF Announced, m
  <2> QED
    BY <1>8, <2>3, <2>4 DEF Announced, m
<1>10. CASE p.ctx.state = "accumulate_payload"
  <2>1. q = PayloadByte(p, b)
    BY <1>10 DEF UbxByte
  <2> HIDE DEF q
  <2>2. /\ q.frames = p.frames /\ q.ctx.payload = Append(p.ctx.payload, b)
        /\ q.ctx.state = IF m + 1 = p.ctx.len THEN "wait_ck_a" ELSE "accumulate_payload"
        /\ q.ctx.class = p.ctx.class /\ q.ctx.id = p.ctx.id /\ q.ctx.lo = p.ctx.lo
        /\ q.ctx.len = p.ctx.len
    BY <1>5, <1>10, <2>1 DEF PayloadByte, Ubxs, UbxContexts
  <2>3. /\ Len(q.ctx.payload) = m + 1 /\ q.ctx.payload[m + 1] = b
        /\ \A i \in 1 .. m : q.ctx.payload[i] = p.ctx.payload[i]
    BY <1>5, <2>2
  <2>4. m < p.ctx.len /\ u[k + 5 + (m + 1)] = b
    <3>1. m < p.ctx.len
      BY <1>1, <1>10 DEF UbxAt
    <3>2. k + 5 + (m + 1) = n + 1
      <4> HIDE DEF m
      <4>1. n \in Nat
        BY <1>2
      <4>2. m \in Nat
        BY <1>5
      <4>3. n = k + 5 + m
        BY <1>8
      <4>4. k \in Nat
        BY <4>1
      <4> QED
        BY <4>1, <4>2, <4>3, <4>4
    <3> QED
      BY <1>2, <3>1, <3>2
  <2> HIDE DEF m
  <2>5. Announced(q.ctx, u, k)
    <3>1. ASSUME NEW i \in 1 .. m + 1 PROVE q.ctx.payload[i] = u[k + 5 + i]
      <4>1. i \in 1 .. m \/ i = m + 1
        BY <1>5
      <4> QED
        BY <1>9, <2>3, <2>4, <4>1 DEF Announced, m
    <3> QED
      BY <1>9, <2>2, <2>3, <3>1 DEF Announced
  <2>6. Len(u) = k + 5 + (m + 1)
    BY <1>2, <1>5, <1>8
  <2>7. UbxAt(q.ctx, u, k)
    <3>1. CASE m + 1 = p.ctx.len
      BY <2>2, <2>3, <2>5, <2>6, <3>1 DEF UbxAt
    <3>2. CASE m + 1 # p.ctx.len
      <4>1. m + 1 < p.ctx.len
        BY <1>5, <2>4, <3>2
      <4> QED
        BY <2>2, <2>3, <2>5, <2>6, <3>2, <4>1 DEF UbxAt
    <3> QED
      BY <3>1, <3>2
  <2> QED
    BY <1>4, <1>7, <2>2, <2>7
<1>11. CASE p.ctx.state = "wait_ck_a"
  <2>1. q = [p EXCEPT !.ctx.a = b, !.ctx.state = "wait_ck_b"]
    BY <1>11 DEF UbxByte
  <2> HIDE DEF q
  <2>2. /\ q.frames = p.frames /\ q.ctx.payload = p.ctx.payload
        /\ q.ctx.state = "wait_ck_b" /\ q.ctx.a = b
        /\ q.ctx.class = p.ctx.class /\ q.ctx.id = p.ctx.id /\ q.ctx.lo = p.ctx.lo
        /\ q.ctx.len = p.ctx.len
    BY <1>5, <2>1 DEF Ubxs, UbxContexts
  <2>3. m = p.ctx.len
    BY <1>1, <1>11 DEF UbxAt
  <2>4. Announced(q.ctx, u, k)
    BY <1>9, <2>2 DEF Announced
  <2>5. k + 6 + p.ctx.len = n + 1
    <3> HIDE DEF m
    <3>1. k + 6 + m = n + 1
      BY <1>2, <1>5, <1>8
    <3> QED
      BY <2>3, <3>1
  <2>6. UbxAt(q.ctx, u, k)
    BY <1>2, <2>2, <2>3, <2>4, <2>5 DEF UbxAt
  <2> QED
    BY <1>4, <1>7, <2>2, <2>6
<1> QED
  BY <1>10, <1>11

\* One more in front of what follows is one more behind what went before.
LEMMA FrameBetween ==
  ASSUME NEW x \in Seq(Frames), NEW f \in Frames, NEW y \in Seq(Frames)
  PROVE  x \o Before(f, y) = Append(x, f) \o y
<1>1. <<f>> \in Seq(Frames)
  OBVIOUS
<1>2. (x \o <<f>>) \o y = x \o (<<f>> \o y)
  BY <1>1, ConcatAssociative
<1>3. x \o <<f>> = Append(x, f)
  BY AppendIsConcat
<1> QED
  BY <1>2, <1>3 DEF Before

\* The second byte of the checksum: the frame is dispatched or discarded, and what follows is
\* read from behind it.
LEMMA LastByte ==
  ASSUME NEW p \in Ubxs, NEW t \in Seq(Byte), NEW b \in Byte, UbxHas(p, t),
         p.ctx.state = "wait_ck_b"
  PROVE  UbxHas(UbxByte(p, b), Append(t, b))
<1> DEFINE u == Append(t, b)
           q == UbxByte(p, b)
           n == Len(t)
           c == p.ctx
           len == c.len
           body == <<c.class, c.id, c.lo, c.len \div 256>> \o c.payload
           f == [class |-> c.class, id |-> c.id, payload |-> c.payload]
           good == UbxChecksum(body) = <<c.a, b>>
<1>1. PICK k \in 1 .. n + 1 : UbxAt(c, t, k) /\ Splits(p.frames, t, k)
  BY DEF UbxHas
<1>2. /\ u \in Seq(Byte) /\ Len(u) = n + 1 /\ u[n + 1] = b /\ n \in Nat
      /\ \A i \in 1 .. n : u[i] = t[i]
      /\ \A w \in Seq(Byte) :
           Extends(w, u) => Extends(w, t) /\ n + 1 <= Len(w) /\ w[n + 1] = b
  BY Grows
<1>3. q \in Ubxs
  BY UbxByteIn
<1>4. Splits(p.frames, u, k)
  BY <1>1, <1>2 DEF Splits
<1>5. c \in UbxContexts /\ c.payload \in Seq(Byte) /\ len \in Nat /\ p.frames \in Seq(Frames)
  BY DEF Ubxs, UbxContexts
<1>6. SUFFICES \E j \in 1 .. Len(u) + 1 : UbxAt(q.ctx, u, j) /\ Splits(q.frames, u, j)
  BY <1>3 DEF UbxHas
<1>7. q = IF good THEN FrameComplete(p) ELSE DiscardFrame(p)
  BY DEF UbxByte, ChecksumByte
<1>8. /\ Announced(c, t, k) /\ Len(c.payload) = len /\ n = k + 6 + len /\ c.a = t[k + 6 + len]
  BY <1>1 DEF UbxAt, n
<1>9. f \in Frames
  BY <1>5 DEF UbxContexts, Frames
<1> HIDE DEF u, n, q, good
<1>10. /\ Opened(t, k) /\ k + 5 <= n /\ k \in 1 .. n
       /\ c.class = t[k + 2] /\ c.id = t[k + 3] /\ c.lo = t[k + 4]
       /\ len = LengthAt(t, k) /\ len <= MaxPayload /\ c.payload \in Seq(Byte) /\ Len(c.payload) = len
       /\ \A i \in 1 .. len : c.payload[i] = t[k + 5 + i]
  <2>1. /\ Opened(t, k)
        /\ c.class = t[k + 2] /\ c.id = t[k + 3] /\ c.lo = t[k + 4]
        /\ len = LengthAt(t, k) /\ len <= MaxPayload
        /\ \A i \in 1 .. len : c.payload[i] = t[k + 5 + i]
    BY <1>8 DEF Announced
  <2> HIDE DEF len
  <2>2. k + 5 <= n /\ k \in 1 .. n
    BY <1>2, <1>5, <1>8
  <2> QED
    BY <1>5, <1>8, <2>1, <2>2
<1>11. c.len \div 256 = t[k + 5]
  <2> DEFINE x == t[k + 4]
             y == t[k + 5]
  <2>1. x \in 0 .. 255 /\ y \in 0 .. 255
    <3>1. \A i \in 1 .. n : t[i] \in Byte
      BY DEF n
    <3>2. k + 4 \in 1 .. n /\ k + 5 \in 1 .. n
      BY <1>2, <1>10
    <3> QED
      BY <3>1, <3>2 DEF Byte
  <2>2. c.len = x + 256 * y
    BY <1>10 DEF LengthAt
  <2> HIDE DEF x, y
  <2>3. (x + 256 * y) \div 256 = y
    BY <2>1
  <2> QED
    BY <2>2, <2>3 DEF y
<1> HIDE DEF c, len, body, f
<1>12. ASSUME NEW w \in Seq(Byte), Extends(w, u)
       PROVE  /\ good => FramesFrom(w)[k] = Before(f, FramesFrom(w)[n + 2])
              /\ ~ good => FramesFrom(w)[k] = FramesFrom(w)[n + 2]
  <2>1. Extends(w, t) /\ n + 1 <= Len(w) /\ w[n + 1] = b /\ \A i \in 1 .. n : w[i] = t[i]
    BY <1>2, <1>12 DEF Extends, n
  <2>2. /\ k \in 1 .. Len(w) /\ k + 5 <= Len(w) /\ Synced(w, k)
        /\ LengthAt(w, k) = len
        /\ w[k + 2] = c.class /\ w[k + 3] = c.id /\ w[k + 4] = c.lo /\ w[k + 5] = t[k + 5]
    <3>1. k \in 1 .. Len(t) /\ k + 5 <= Len(t)
      BY <1>10 DEF n
    <3> QED
      BY <1>10, <2>1, <3>1, HeaderStays
  <2>3. k + 7 + LengthAt(w, k) = n + 1 /\ n + 1 + 1 = n + 2 /\ n + 1 - 1 = n
    <3>1. n \in Nat /\ k \in Nat /\ len \in Nat /\ n = k + 6 + len
      BY <1>2, <1>5, <1>8, <2>2
    <3>2. LengthAt(w, k) = len
      BY <2>2
    <3>3. k + 7 + len = n + 1 /\ n + 1 + 1 = n + 2 /\ n + 1 - 1 = n
      BY <3>1
    <3> QED
      BY <3>2, <3>3
  <2>4. BodyOf(w, k) = c.payload
    <3> DEFINE s == BodyOf(w, k)
               e == LastOf(w, k) - 2
    <3>1. LastOf(w, k) = n + 1
      <4>1. k \in 1 .. Len(w) + 1
        BY <2>2
      <4> QED
        BY <2>2, <2>3, <4>1, LengthIn
    <3>2. e = n - 1 /\ e \in Int /\ e <= Len(w) /\ k + 6 \in Nat \ {0}
      BY <1>2, <2>1, <3>1
    <3> HIDE DEF e
    <3>3. /\ s \in Seq(Byte)
          /\ Len(s) = IF k + 6 <= e THEN e - (k + 6) + 1 ELSE 0
          /\ \A i \in 1 .. e - (k + 6) + 1 : s[i] = w[k + 6 + i - 1]
      BY <3>2, Part DEF BodyOf, e
    <3> HIDE DEF s
    <3>4. e - (k + 6) + 1 = len /\ Len(s) = len /\ len \in Nat
      <4>1. len \in Nat /\ n = k + 6 + len
        BY <1>5, <1>8 DEF len
      <4>2. e - (k + 6) + 1 = len
        <5>1. e = n - 1 /\ k \in Nat /\ n \in Nat
          BY <1>2, <3>2
        <5> QED
          BY <4>1, <5>1
      <4>3. ~ (k + 6 <= e) => len = 0
        BY <1>2, <3>2, <4>1
      <4> QED
        BY <3>3, <4>1, <4>2, <4>3
    <3>5. \A i \in 1 .. len : s[i] = c.payload[i]
      <4> SUFFICES ASSUME NEW i \in 1 .. len PROVE s[i] = c.payload[i]
        OBVIOUS
      <4>1. s[i] = w[k + 6 + i - 1] /\ k + 6 + i - 1 = k + 5 + i
        <5>1. s[i] = w[k + 6 + i - 1]
          BY <3>3, <3>4
        <5>2. k + 6 + i - 1 = k + 5 + i
          BY <3>4
        <5> QED
          BY <5>1, <5>2
      <4>2. k + 5 + i \in 1 .. n
        BY <1>2, <1>8, <3>4
      <4> QED
        BY <1>10, <2>1, <4>1, <4>2
    <3>6. s = c.payload
      BY <1>10, <3>3, <3>4, <3>5, SeqEqual, SMTT(30)
    <3> QED
      BY <3>6 DEF s
  <2>5. Enclosed(w, k) = body
    BY <1>11, <2>2, <2>4 DEF Enclosed, body
  <2>6. FrameAt(w, k) = f
    BY <2>2, <2>4 DEF FrameAt, f
  <2>7. w[n] = c.a
    BY <1>2, <1>8, <1>10, <2>1, SMTT(60) DEF len, c
  <2> DEFINE last == n + 1
  <2>8. last = k + 7 + LengthAt(w, k) /\ last <= Len(w) /\ LengthAt(w, k) <= MaxPayload
    BY <1>10, <2>1, <2>2, <2>3
  <2>9. last - 1 = n /\ last = n + 1 /\ last + 1 = n + 2
    BY <1>2
  <2> HIDE DEF last
  <2>10. /\ UbxChecksum(Enclosed(w, k)) = <<w[last - 1], w[last]>>
             => FramesFrom(w)[k] = Before(FrameAt(w, k), FramesFrom(w)[last + 1])
         /\ UbxChecksum(Enclosed(w, k)) # <<w[last - 1], w[last]>>
             => FramesFrom(w)[k] = FramesFrom(w)[last + 1]
    BY <2>2, <2>8, AheadFrame
  <2>11. good <=> UbxChecksum(Enclosed(w, k)) = <<w[last - 1], w[last]>>
    BY <2>1, <2>5, <2>7, <2>9 DEF good
  <2> QED
    BY <2>6, <2>9, <2>10, <2>11
<1>13. n + 2 = Len(u) + 1 /\ n + 2 \in 1 .. Len(u) + 1
  BY <1>2
<1>14. CASE good
  <2>1. q.frames = Append(p.frames, f) /\ q.ctx.state = "wait_sync_1"
    BY <1>7, <1>14 DEF FrameComplete, UbxIdle, Ubxs, f, c
  <2>2. UbxAt(q.ctx, u, n + 2)
    BY <1>13, <2>1 DEF UbxAt
  <2>3. ASSUME NEW w \in Seq(Byte), Extends(w, u)
        PROVE  FramesFrom(w)[1] = q.frames \o FramesFrom(w)[n + 2]
    <3>1. FramesFrom(w)[1] = p.frames \o Before(f, FramesFrom(w)[n + 2])
      BY <1>4, <1>12, <1>14, <2>3 DEF Splits
    <3>2. FramesFrom(w)[n + 2] \in Seq(Frames)
      <4>1. n + 2 \in 1 .. Len(w) + 1
        BY <1>2, <2>3
      <4> QED
        BY <4>1, FramesFromIn
    <3> QED
      BY <1>5, <1>9, <2>1, <3>1, <3>2, FrameBetween DEF f
  <2> QED
    BY <1>13, <2>2, <2>3 DEF Splits
<1>15. CASE ~ good
  <2>1. q.frames = p.frames /\ q.ctx.state = "wait_sync_1"
    BY <1>7, <1>15 DEF DiscardFrame, UbxIdle, Ubxs
  <2>2. UbxAt(q.ctx, u, n + 2)
    BY <1>13, <2>1 DEF UbxAt
  <2>3. Splits(q.frames, u, n + 2)
    BY <1>4, <1>12, <1>15, <2>1 DEF Splits
  <2> QED
    BY <1>13, <2>2, <2>3
<1> QED
  BY <1>14, <1>15

\* process_byte() keeps step with the stream, whatever the byte.
LEMMA UbxByteHas ==
  ASSUME NEW p \in Ubxs, NEW t \in Seq(Byte), NEW b \in Byte, UbxHas(p, t)
  PROVE  UbxHas(UbxByte(p, b), Append(t, b))
<1>1. p.ctx.state \in {"wait_sync_1", "wait_sync_2", "wait_class", "wait_id", "wait_len_lo", "wait_len_hi",
                       "accumulate_payload", "wait_ck_a", "wait_ck_b"}
  BY DEF Ubxs, UbxContexts
<1> QED
  BY <1>1, EarlyByte, LengthByte, DataByte, LastByte

\* A parser just made is in step with the empty stream.
LEMMA NewUbxHas == UbxHas(NewUbx, <<>>)
<1>1. NewUbx \in Ubxs
  <2>1. <<>> \in Seq(Frames)
    OBVIOUS
  <2> QED
    BY <2>1, UbxIdleIn DEF NewUbx, Ubxs
<1>2. UbxAt(NewUbx.ctx, <<>>, 1)
  BY DEF UbxAt, NewUbx, UbxIdle
<1>3. ASSUME NEW w \in Seq(Byte)
      PROVE  FramesFrom(w)[1] = NewUbx.frames \o FramesFrom(w)[1]
  <2>1. 1 \in 1 .. Len(w) + 1
    OBVIOUS
  <2>2. FramesFrom(w)[1] \in Seq(Frames)
    BY <2>1, FramesFromIn
  <2>3. NewUbx.frames = <<>>
    BY DEF NewUbx
  <2> QED
    BY <2>2, <2>3, ConcatEmptySeq
<1>4. Splits(NewUbx.frames, <<>>, 1)
  BY <1>3 DEF Splits
<1>5. 1 \in 1 .. Len(<<>>) + 1
  OBVIOUS
<1> QED
  BY <1>1, <1>2, <1>4, <1>5 DEF UbxHas

\* A chunk, however long, fed to a parser that is in step with what came before.
LEMMA FeedUbxHas ==
  ASSUME NEW p \in Ubxs, NEW t \in Seq(Byte), NEW chunk \in Seq(Byte), UbxHas(p, t)
  PROVE  UbxHas(FeedUbx(p, chunk), t \o chunk)
<1> DEFINE n == Len(chunk)
           upTo(i) == SubSeq(chunk, 1, i)
           T == {i \in Nat : i <= n => UbxHas(FeedUbx(p, upTo(i)), t \o upTo(i))}
<1>1. n \in Nat
  OBVIOUS
<1>2. UbxSteps \in [Ubxs \X Byte -> Ubxs]
  BY UbxByteIn DEF UbxSteps
<1>3. \A i \in 0 .. n : upTo(i) \in Seq(Byte)
  BY <1>1, Part
<1>4. 0 \in T
  <2>1. upTo(0) = <<>>
    OBVIOUS
  <2>2. FeedUbx(p, <<>>) = p
    <3>1. <<>> \in Seq(Byte)
      OBVIOUS
    <3>2. Run(Ubxs, UbxSteps, p, <<>>) = p
      BY <1>2, RunEmpty
    <3>3. FeedUbx(p, <<>>) = Run(Ubxs, UbxSteps, p, <<>>)
      BY <3>1, FeedUbxRuns
    <3> QED
      BY <3>2, <3>3
  <2>3. t \o <<>> = t
    BY ConcatEmptySeq
  <2> QED
    BY <2>1, <2>2, <2>3
<1>5. ASSUME NEW i \in Nat, i \in T PROVE i + 1 \in T
  <2> SUFFICES ASSUME i + 1 <= n PROVE UbxHas(FeedUbx(p, upTo(i + 1)), t \o upTo(i + 1))
    OBVIOUS
  <2> DEFINE part == upTo(i)
             b == chunk[i + 1]
  <2>1. i \in 0 .. n /\ i <= n /\ i + 1 \in 1 .. n
    BY <1>1
  <2>2. part \in Seq(Byte) /\ b \in Byte
    <3>1. \A j \in 1 .. n : chunk[j] \in Byte
      OBVIOUS
    <3> QED
      BY <1>3, <2>1, <3>1
  <2>3. upTo(i + 1) = Append(part, b)
    BY <2>1
  <2>4. UbxHas(FeedUbx(p, part), t \o part)
    BY <1>5, <2>1
  <2> HIDE DEF part, b
  <2>5. FeedUbx(p, Append(part, b)) = UbxByte(FeedUbx(p, part), b)
    <3>1. Append(part, b) \in Seq(Byte)
      BY <2>2
    <3> DEFINE more == Append(part, b)
    <3>2. StepTo(Ubxs, UbxSteps, p, part, b, more)
      <4>1. OneMore(part, b, more)
        BY DEF OneMore
      <4> HIDE DEF more
      <4> QED
        BY <1>2, <2>2, <4>1, RunAppend
    <3>3. Run(Ubxs, UbxSteps, p, part) \in Ubxs
      BY <1>2, <2>2, RunIn
    <3> QED
      BY <2>2, <3>1, <3>2, <3>3, FeedUbxRuns DEF UbxSteps, StepTo
  <2>6. t \o Append(part, b) = Append(t \o part, b) /\ t \o part \in Seq(Byte)
    BY <2>2
  <2>7. FeedUbx(p, part) \in Ubxs
    BY <2>4 DEF UbxHas
  <2>8. UbxHas(UbxByte(FeedUbx(p, part), b), Append(t \o part, b))
    BY <2>2, <2>4, <2>6, <2>7, UbxByteHas
  <2> QED
    BY <2>3, <2>5, <2>6, <2>8
<1> HIDE DEF T
<1>6. Nat \subseteq T
  BY <1>4, <1>5, NatSet
<1>7. UbxHas(FeedUbx(p, upTo(n)), t \o upTo(n))
  BY <1>1, <1>6 DEF T
<1>8. upTo(n) = chunk
  BY SubSeqFull
<1> QED
  BY <1>7, <1>8

\* A parser that is in step has dispatched the frames of what it was fed.
LEMMA UbxHasFrames ==
  ASSUME NEW p, NEW t \in Seq(Byte), UbxHas(p, t)
  PROVE  p.frames = FramesIn(t)
<1>1. PICK k \in 1 .. Len(t) + 1 : UbxAt(p.ctx, t, k) /\ Splits(p.frames, t, k)
  BY DEF UbxHas
<1>2. p.frames \in Seq(Frames) /\ p.ctx.len \in Nat /\ p.ctx.payload \in Seq(Byte)
  BY DEF UbxHas, Ubxs, UbxContexts
<1>3. FramesIn(t) = p.frames \o FramesFrom(t)[k]
  <2>1. Extends(t, t)
    BY DEF Extends
  <2> QED
    BY <1>1, <2>1 DEF Splits, FramesIn
<1>4. FramesFrom(t)[k] = <<>>
  <2>1. CASE k + 5 > Len(t)
    BY <2>1, AheadNothing
  <2>2. CASE k + 5 <= Len(t)
    <3>1. /\ Announced(p.ctx, t, k)
          /\ \/ Len(p.ctx.payload) < p.ctx.len /\ Len(t) = k + 5 + Len(p.ctx.payload)
             \/ Len(t) = k + 5 + p.ctx.len
             \/ Len(t) = k + 6 + p.ctx.len
      <4>1. /\ ~ (k = Len(t) + 1) /\ ~ (k = Len(t)) /\ ~ (k + 1 = Len(t)) /\ ~ (k + 2 = Len(t))
            /\ ~ (k + 3 = Len(t)) /\ ~ (k + 4 = Len(t))
        BY <2>2
      <4> QED
        BY <1>1, <4>1 DEF UbxAt
    <3>2. p.ctx.len = LengthAt(t, k) /\ p.ctx.len <= MaxPayload /\ Opened(t, k)
      BY <3>1 DEF Announced
    <3>3. k \in 1 .. Len(t) /\ Synced(t, k)
      <4>1. k \in 1 .. Len(t) /\ k + 1 <= Len(t)
        BY <2>2
      <4> QED
        BY <3>2, <4>1, SyncedAt DEF Opened
    <3>4. k + 7 + p.ctx.len > Len(t)
      <4> DEFINE m == Len(p.ctx.payload)
                 len == p.ctx.len
      <4>1. m \in Nat /\ len \in Nat /\ k \in Nat /\ Len(t) \in Nat
        BY <1>2
      <4>2. (m < len /\ Len(t) = k + 5 + m) \/ Len(t) = k + 5 + len \/ Len(t) = k + 6 + len
        BY <3>1
      <4> HIDE DEF m, len
      <4>3. k + 7 + len > Len(t)
        BY <4>1, <4>2
      <4> QED
        BY <4>3 DEF len
    <3>5. LengthAt(t, k) <= MaxPayload /\ k + 7 + LengthAt(t, k) > Len(t)
      BY <3>2, <3>4
    <3> QED
      BY <2>2, <3>3, <3>5, AheadUnfinished
  <2> QED
    BY <2>1, <2>2
<1> QED
  BY <1>2, <1>3, <1>4, ConcatEmptySeq

-----------------------------------------------------------------------------
(* The frames dispatched are those of the stream.                          *)

\* The stream and the two places in it: where the parsers were made, and how far read() is.
StreamTypeOK ==
  /\ stream \in Seq(Byte) /\ pos \in 0 .. Len(stream) /\ from \in 0 .. pos

\* The stream is one of bytes, and no read() goes beyond its end.
LEMMA StreamTypeInvariant == Spec => []StreamTypeOK
<1>1. ASSUME Init PROVE StreamTypeOK
  <2>1. stream \in Streams
    BY <1>1 DEF Init
  <2>2. stream \in Seq(Byte)
    BY <2>1, StreamsAssumption DEF Byte
  <2> QED
    BY <1>1, <2>2 DEF Init, StreamTypeOK
<1>2. ASSUME StreamTypeOK, [Next]_vars PROVE StreamTypeOK'
  <2>1. CASE Restart
    BY <1>2, <2>1 DEF StreamTypeOK, Restart
  <2>2. ASSUME NEW n \in 1 .. Chunk, Read(n) PROVE StreamTypeOK'
    BY <1>2, <2>2, Bounds, SMTT(60) DEF StreamTypeOK, Read
  <2>3. CASE UNCHANGED vars
    BY <1>2, <2>3 DEF StreamTypeOK, vars
  <2> QED
    BY <1>2, <2>1, <2>2, <2>3 DEF Next
<1> QED
  BY <1>1, <1>2, PTL DEF Spec

\* What is heard grows by the chunk that is read, and is nothing after a restart.
LEMMA ReadHears ==
  ASSUME StreamTypeOK, NEW n \in 1 .. Chunk, Read(n)
  PROVE  LET chunk == SubSeq(stream, pos + 1, pos + n) IN
         chunk \in Seq(Byte) /\ Heard \in Seq(Byte) /\ Heard' = Heard \o chunk
<1> DEFINE chunk == SubSeq(stream, pos + 1, pos + n)
<1>1. /\ stream \in Seq(Byte) /\ pos \in Nat /\ from \in Nat /\ from <= pos /\ n \in Nat
      /\ pos + n <= Len(stream) /\ pos <= Len(stream)
  BY Bounds, SMTT(60) DEF StreamTypeOK, Read
<1>2. pos' = pos + n /\ stream' = stream /\ from' = from
  BY DEF Read
<1>3. chunk \in Seq(Byte) /\ Heard \in Seq(Byte)
  <2>1. /\ pos + 1 \in Nat \ {0} /\ pos + n \in Int /\ from + 1 \in Nat \ {0} /\ pos \in Int
    BY <1>1
  <2> QED
    BY <1>1, <2>1, Part DEF Heard
<1>4. SubSeq(stream, from + 1, pos) \o SubSeq(stream, pos + 1, pos + n) = SubSeq(stream, from + 1, pos + n)
  BY <1>1, ConcatAdjacentSubSeq
<1> QED
  BY <1>2, <1>3, <1>4 DEF Heard

\* After a restart nothing was heard.
LEMMA RestartHears ==
  ASSUME StreamTypeOK, Restart
  PROVE  Heard' = <<>>
<1>1. stream' \in Seq(Byte) /\ from' = pos /\ pos' = pos /\ pos \in Nat
  BY DEF StreamTypeOK, Restart
<1> QED
  BY <1>1 DEF Heard

UbxInStep == UbxHas(ubx, Heard)

\* At every moment ubx_parser has dispatched exactly the frames of the stream that it was fed, in
\* their order, however read() cut the stream into chunks: none is lost, none is invented, none
\* is torn by a chunk's end, whatever bytes stand between them.
THEOREM FramesTheorem == Spec => []FramesAreThoseOfTheStream
<1>1. ASSUME Init PROVE UbxInStep
  <2>1. Heard = <<>> /\ ubx = NewUbx
    BY <1>1 DEF Init, Heard
  <2> QED
    BY <2>1, NewUbxHas DEF UbxInStep
<1>2. ASSUME StreamTypeOK, UbxInStep, [Next]_vars PROVE UbxInStep'
  <2>1. CASE Restart
    <3>1. Heard' = <<>> /\ ubx' = NewUbx
      BY <1>2, <2>1, RestartHears DEF Restart
    <3> QED
      BY <3>1, NewUbxHas DEF UbxInStep
  <2>2. ASSUME NEW n \in 1 .. Chunk, Read(n) PROVE UbxInStep'
    <3> DEFINE chunk == SubSeq(stream, pos + 1, pos + n)
    <3>1. chunk \in Seq(Byte) /\ Heard \in Seq(Byte) /\ Heard' = Heard \o chunk
      BY <1>2, <2>2, ReadHears
    <3>2. ubx' = FeedUbx(ubx, chunk)
      BY <2>2 DEF Read
    <3>3. ubx \in Ubxs
      BY <1>2 DEF UbxInStep, UbxHas
    <3> QED
      BY <1>2, <3>1, <3>2, <3>3, FeedUbxHas DEF UbxInStep
  <2>3. CASE UNCHANGED vars
    BY <1>2, <2>3 DEF UbxInStep, UbxHas, Heard, vars
  <2> QED
    BY <1>2, <2>1, <2>2, <2>3 DEF Next
<1>3. ASSUME StreamTypeOK, UbxInStep PROVE FramesAreThoseOfTheStream
  <2>1. Heard \in Seq(Byte)
    <3>1. from + 1 \in Nat \ {0} /\ pos \in Int /\ pos <= Len(stream) /\ stream \in Seq(Byte)
      BY <1>3 DEF StreamTypeOK
    <3> QED
      BY <3>1, Part DEF Heard
  <2> QED
    BY <1>3, <2>1, UbxHasFrames DEF UbxInStep, FramesAreThoseOfTheStream
<1> QED
  BY <1>1, <1>2, <1>3, StreamTypeInvariant, PTL DEF Spec

-----------------------------------------------------------------------------
(* nmea_parser: types, its checksum, and feed() as a run over its bytes.   *)

NmeaContexts ==
  [state : {"wait_dollar", "accumulate_sentence", "wait_checksum_hi", "wait_checksum_lo", "wait_lf"},
   buf : Seq(Byte), xor : Byte, hi : Byte, received : Nat, present : BOOLEAN]
Sentences == [content : Seq(Byte), checked : BOOLEAN]
Nmeas == [ctx : NmeaContexts, sentences : Seq(Sentences), discarded : Nat]

\* One step of compute_checksum() leaves a byte.
LEMMA XorIn ==
  ASSUME NEW x \in Byte, NEW b \in Byte
  PROVE  Xor(x, b) \in Byte
<1> DEFINE bit(w) == (x \div w + b \div w) % 2
           c == bit(1)
           d == bit(2)
           e == bit(4)
           f == bit(8)
           g == bit(16)
           h == bit(32)
           i == bit(64)
           j == bit(128)
<1>1. \A w \in {1, 2, 4, 8, 16, 32, 64, 128} : bit(w) \in {0, 1}
  BY DEF Byte
<1>2. Xor(x, b) = 1 * c + 2 * d + 4 * e + 8 * f + 16 * g + 32 * h + 64 * i + 128 * j
  BY DEF Xor
<1> HIDE DEF bit
<1>3. /\ c \in {0, 1} /\ d \in {0, 1} /\ e \in {0, 1} /\ f \in {0, 1}
      /\ g \in {0, 1} /\ h \in {0, 1} /\ i \in {0, 1} /\ j \in {0, 1}
  BY <1>1
<1> HIDE DEF c, d, e, f, g, h, i, j
<1>4. 1 * c + 2 * d + 4 * e + 8 * f + 16 * g + 32 * h + 64 * i + 128 * j \in 0 .. 255
  BY <1>3
<1> QED
  BY <1>2, <1>4 DEF Byte

XorSteps == [q \in Byte \X Byte |-> Xor(q[1], q[2])]

\* compute_checksum() takes that step on each byte.
LEMMA NmeaChecksumRuns ==
  ASSUME NEW t \in Seq(Byte)
  PROVE  NmeaChecksum(t) = Run(Byte, XorSteps, 0, t)
<1> DEFINE n == Len(t)
           Chosen(f) == f = [s \in SUBSET (1 .. n) |->
                               IF s = {} THEN 0 ELSE Xor(f[s \ {Max(s)}], t[Max(s)])]
           g == CHOOSE f : Chosen(f)
           h == CHOOSE f : Folds(f, Byte, XorSteps, 0, t)
<1>0. 0 \in Byte
  BY DEF Byte
<1>1. n \in Nat /\ DOMAIN t = 1 .. n /\ \A i \in 1 .. n : t[i] \in Byte
  OBVIOUS
<1>2. XorSteps \in [Byte \X Byte -> Byte]
  BY XorIn DEF XorSteps
<1>3. \A q \in Byte, b \in Byte : XorSteps[<<q, b>>] = Xor(q, b)
  BY DEF XorSteps
<1>4. Folds(h, Byte, XorSteps, 0, t)
  BY <1>0, <1>2, RunDefined
<1>5. NmeaChecksum(t) = g[1 .. n]
  BY <1>1 DEF NmeaChecksum, FoldLeft, MapThenFoldSet
<1>6. \A s \in SUBSET (1 .. n) : s # {} => Max(s) \in 1 .. n /\ t[Max(s)] \in Byte
  BY <1>1, MaxIn
<1> HIDE DEF n, g, h
<1>7. Chosen(h)
  <2>1. ASSUME NEW s \in SUBSET (1 .. n), s # {}
        PROVE  h[s] = Xor(h[s \ {Max(s)}], t[Max(s)])
    <3>1. h[s \ {Max(s)}] \in Byte
      BY <1>4 DEF Folds, n
    <3> QED
      BY <1>3, <1>4, <1>6, <2>1, <3>1 DEF Folds, n
  <2>2. h = [s \in SUBSET (1 .. n) |-> h[s]] /\ h[{}] = 0
    BY <1>4 DEF Folds, n
  <2> QED
    BY <2>1, <2>2
<1>8. Chosen(g)
  BY <1>7 DEF g
<1>9. StepsDown(g, Byte, XorSteps, 0, t)
  BY <1>3, <1>6, <1>8 DEF StepsDown, n
<1>10. Result(g, t) = Run(Byte, XorSteps, 0, t)
  BY <1>0, <1>2, <1>9, StepsDownRun
<1> QED
  BY <1>5, <1>10 DEF Result, n

\* The checksum of a sentence is a byte.
LEMMA NmeaChecksumIn ==
  ASSUME NEW t \in Seq(Byte)
  PROVE  NmeaChecksum(t) \in Byte
<1>0. 0 \in Byte
  BY DEF Byte
<1>1. 0 \in Byte /\ XorSteps \in [Byte \X Byte -> Byte]
  BY <1>0, XorIn DEF XorSteps
<1>2. Run(Byte, XorSteps, 0, t) \in Byte
  BY <1>1, RunIn
<1> QED
  BY <1>2, NmeaChecksumRuns

\* One byte more in the sentence is one step more in its checksum.
LEMMA NmeaChecksumGrows ==
  /\ NmeaChecksum(<<>>) = 0
  /\ \A t \in Seq(Byte), b \in Byte : NmeaChecksum(Append(t, b)) = Xor(NmeaChecksum(t), b)
<1>1. 0 \in Byte
  BY DEF Byte
<1>2. XorSteps \in [Byte \X Byte -> Byte]
  BY XorIn DEF XorSteps
<1>3. NmeaChecksum(<<>>) = 0
  <2>1. <<>> \in Seq(Byte)
    OBVIOUS
  <2>2. Run(Byte, XorSteps, 0, <<>>) = 0
    BY <1>1, <1>2, RunEmpty
  <2>3. NmeaChecksum(<<>>) = Run(Byte, XorSteps, 0, <<>>)
    BY <2>1, NmeaChecksumRuns
  <2> QED
    BY <2>2, <2>3
<1>4. ASSUME NEW t \in Seq(Byte), NEW b \in Byte
      PROVE  NmeaChecksum(Append(t, b)) = Xor(NmeaChecksum(t), b)
  <2> DEFINE more == Append(t, b)
  <2>1. OneMore(t, b, more) /\ more \in Seq(Byte)
    BY DEF OneMore
  <2> HIDE DEF more
  <2>2. StepTo(Byte, XorSteps, 0, t, b, more)
    BY <1>1, <1>2, <2>1, RunAppend
  <2>3. NmeaChecksum(t) \in Byte
    BY NmeaChecksumIn
  <2>4. NmeaChecksum(more) = XorSteps[<<NmeaChecksum(t), b>>]
    BY <2>1, <2>2, NmeaChecksumRuns DEF StepTo
  <2> QED
    BY <2>3, <2>4 DEF XorSteps, more
<1> QED
  BY <1>3, <1>4

\* The context after reset() is one.
LEMMA NmeaIdleIn == NmeaIdle \in NmeaContexts
<1>1. <<>> \in Seq(Byte)
  OBVIOUS
<1> QED
  BY <1>1 DEF NmeaIdle, NmeaContexts, Byte

\* process_byte() of nmea_parser keeps the types of its context and of the sentences it
\* dispatches.
LEMMA NmeaByteIn ==
  ASSUME NEW p \in Nmeas, NEW b \in Byte
  PROVE  NmeaByte(p, b) \in Nmeas
<1>1. DiscardSentence(p) \in Nmeas
  <2>1. p.discarded + 1 \in Nat
    BY DEF Nmeas
  <2> QED
    BY <2>1, NmeaIdleIn DEF DiscardSentence, Nmeas
<1>2. [NmeaIdle EXCEPT !.state = "accumulate_sentence"] \in NmeaContexts
  BY NmeaIdleIn DEF NmeaContexts
<1>3. \A r \in Nmeas : Begin(r) \in Nmeas
  BY <1>2 DEF Begin, Nmeas
<1>4. SentenceComplete(p) \in Nmeas
  <2> DEFINE s == [content |-> p.ctx.buf, checked |-> p.ctx.present]
  <2>1. s \in Sentences
    BY DEF Nmeas, NmeaContexts, Sentences
  <2>2. Append(p.sentences, s) \in Seq(Sentences)
    BY <2>1 DEF Nmeas
  <2> HIDE DEF s
  <2> QED
    BY <1>1, <2>2, NmeaIdleIn DEF SentenceComplete, Nmeas, s
<1>5. p.ctx \in NmeaContexts
  BY DEF Nmeas
<1> USE DEF NmeaByte
<1>6. CASE p.ctx.state = "wait_dollar"
  BY <1>3, <1>6
<1>7. CASE p.ctx.state = "accumulate_sentence"
  <2>1. Append(p.ctx.buf, b) \in Seq(Byte) /\ Xor(p.ctx.xor, b) \in Byte
    BY <1>5, XorIn DEF NmeaContexts
  <2>2. /\ [p EXCEPT !.ctx.buf = Append(@, b), !.ctx.xor = Xor(@, b)] \in Nmeas
        /\ [p EXCEPT !.ctx.present = TRUE, !.ctx.state = "wait_checksum_hi"] \in Nmeas
        /\ NmeaGoes(p, "wait_lf") \in Nmeas
    BY <2>1 DEF Nmeas, NmeaContexts, NmeaGoes
  <2> QED
    BY <1>1, <1>3, <1>4, <1>7, <2>2 DEF AccumulateByte
<1>8. CASE p.ctx.state = "wait_checksum_hi"
  BY <1>8 DEF Nmeas, NmeaContexts
<1>9. CASE p.ctx.state = "wait_checksum_lo"
  <2> DEFINE v == 16 * Hex(p.ctx.hi) + Hex(b)
  <2>1. p.ctx.hi \in 0 .. 255 /\ b \in 0 .. 255
    BY <1>5 DEF NmeaContexts, Byte
  <2>2. \A x \in 0 .. 255 : Hex(x) \in Nat
    BY DEF Hex
  <2>3. v \in Nat
    <3>1. Hex(p.ctx.hi) \in Nat /\ Hex(b) \in Nat
      BY <2>1, <2>2
    <3> QED
      BY <3>1
  <2> HIDE DEF v
  <2>4. [p EXCEPT !.ctx.received = v, !.ctx.state = "wait_lf"] \in Nmeas
    BY <2>3 DEF Nmeas, NmeaContexts
  <2> QED
    BY <1>1, <1>9, <2>4 DEF SecondDigit, v
<1>10. CASE p.ctx.state = "wait_lf"
  BY <1>1, <1>3, <1>4, <1>10 DEF EndOfLine
<1> QED
  BY <1>5, <1>6, <1>7, <1>8, <1>9, <1>10 DEF NmeaContexts

NmeaSteps == [q \in Nmeas \X Byte |-> NmeaByte(q[1], q[2])]

\* feed() of nmea_parser is process_byte() on each byte, in the order of the chunk.
LEMMA FeedNmeaRuns ==
  ASSUME NEW p \in Nmeas, NEW t \in Seq(Byte)
  PROVE  FeedNmea(p, t) = Run(Nmeas, NmeaSteps, p, t)
<1> DEFINE n == Len(t)
           Chosen(f) == f = [s \in SUBSET (1 .. n) |->
                               IF s = {} THEN p ELSE NmeaByte(f[s \ {Max(s)}], t[Max(s)])]
           g == CHOOSE f : Chosen(f)
           h == CHOOSE f : Folds(f, Nmeas, NmeaSteps, p, t)
<1>1. n \in Nat /\ DOMAIN t = 1 .. n /\ \A i \in 1 .. n : t[i] \in Byte
  OBVIOUS
<1>2. NmeaSteps \in [Nmeas \X Byte -> Nmeas]
  BY NmeaByteIn DEF NmeaSteps
<1>3. \A q \in Nmeas, b \in Byte : NmeaSteps[<<q, b>>] = NmeaByte(q, b)
  BY DEF NmeaSteps
<1>4. Folds(h, Nmeas, NmeaSteps, p, t)
  BY <1>2, RunDefined
<1>5. FeedNmea(p, t) = g[1 .. n]
  BY <1>1 DEF FeedNmea, FoldLeft, MapThenFoldSet
<1>6. \A s \in SUBSET (1 .. n) : s # {} => Max(s) \in 1 .. n /\ t[Max(s)] \in Byte
  BY <1>1, MaxIn
<1> HIDE DEF n, g, h
<1>7. Chosen(h)
  <2>1. ASSUME NEW s \in SUBSET (1 .. n), s # {}
        PROVE  h[s] = NmeaByte(h[s \ {Max(s)}], t[Max(s)])
    <3>1. h[s \ {Max(s)}] \in Nmeas
      BY <1>4 DEF Folds, n
    <3> QED
      BY <1>3, <1>4, <1>6, <2>1, <3>1 DEF Folds, n
  <2>2. h = [s \in SUBSET (1 .. n) |-> h[s]] /\ h[{}] = p
    BY <1>4 DEF Folds, n
  <2> QED
    BY <2>1, <2>2
<1>8. Chosen(g)
  BY <1>7 DEF g
<1>9. StepsDown(g, Nmeas, NmeaSteps, p, t)
  BY <1>3, <1>6, <1>8 DEF StepsDown, n
<1>10. Result(g, t) = Run(Nmeas, NmeaSteps, p, t)
  BY <1>2, <1>9, StepsDownRun
<1> QED
  BY <1>5, <1>10 DEF Result, n

-----------------------------------------------------------------------------
(* What nmea_parser keeps of the stream: nothing is invented.              *)

\* The context has read what stands behind the '$' at k, and summed it up.
Reading(c, t, k) ==
  /\ t[k] = Dollar /\ k + Len(c.buf) <= Len(t)
  /\ \A i \in 1 .. Len(c.buf) : t[k + i] = c.buf[i]
  /\ c.xor = NmeaChecksum(c.buf)

\* What the state says of the bytes behind that.
Ended(c, t, end) ==
  \/ c.state = "accumulate_sentence" /\ c.present = FALSE /\ end = Len(t) + 1
  \/ c.state = "wait_checksum_hi" /\ c.present = TRUE /\ end = Len(t) /\ t[end] = Star
  \/ /\ c.state = "wait_checksum_lo" /\ c.present = TRUE
     /\ end + 1 = Len(t) /\ t[end] = Star /\ c.hi = t[end + 1]
  \/ /\ c.state = "wait_lf" /\ c.present = TRUE
     /\ end + 2 <= Len(t) /\ t[end] = Star
     /\ Hex(t[end + 1]) # 16 /\ Hex(t[end + 2]) # 16
     /\ c.received = 16 * Hex(t[end + 1]) + Hex(t[end + 2])
  \/ c.state = "wait_lf" /\ c.present = FALSE /\ end <= Len(t) /\ t[end] = Cr

NmeaAt(c, t) ==
  \/ c.state = "wait_dollar"
  \/ \E k \in 1 .. Len(t) : Reading(c, t, k) /\ Ended(c, t, k + 1 + Len(c.buf))

\* The sentence s stands at k, before its own checksum or before the end of the line.
SentenceAt(s, t, k) ==
  /\ t[k] = Dollar
  /\ \A i \in 1 .. Len(s.content) : t[k + i] = s.content[i]
  /\ LET end == k + 1 + Len(s.content)
         ck == NmeaChecksum(s.content)
     IN  IF s.checked
           THEN /\ end + 2 <= Len(t) /\ t[end] = Star
                /\ Hex(t[end + 1]) = ck \div 16 /\ Hex(t[end + 2]) = ck % 16
           ELSE end <= Len(t) /\ t[end] \in {Cr, Lf}

\* parse_hex_nibble() reads back the digit of every number below 16, and knows no other result.
LEMMA HexIs ==
  /\ \A x \in 0 .. 255 : Hex(x) \in 0 .. 16
  /\ \A n \in 0 .. 15 : HexDigit(n) \in 0 .. 255 /\ Hex(HexDigit(n)) = n
BY DEF Hex, HexDigit

\* A '$' begins a sentence with no content yet, at its own place.
LEMMA BegunAt ==
  ASSUME NEW u \in Seq(Byte), Len(u) \in 1 .. Len(u), u[Len(u)] = Dollar
  PROVE  NmeaAt([NmeaIdle EXCEPT !.state = "accumulate_sentence"], u)
<1> DEFINE c == [NmeaIdle EXCEPT !.state = "accumulate_sentence"]
           k == Len(u)
<1>1. c.state = "accumulate_sentence" /\ c.present = FALSE /\ c.buf = <<>> /\ c.xor = 0
  BY DEF NmeaIdle
<1> HIDE DEF c
<1>2. Len(c.buf) = 0 /\ 1 .. 0 = {}
  BY <1>1
<1>3. k \in 1 .. Len(u) /\ k + 0 <= Len(u) /\ k + 1 + 0 = Len(u) + 1
  OBVIOUS
<1>4. Reading(c, u, k)
  BY <1>1, <1>2, <1>3, NmeaChecksumGrows DEF Reading
<1>5. Ended(c, u, k + 1 + Len(c.buf))
  BY <1>1, <1>2, <1>3 DEF Ended
<1> QED
  BY <1>3, <1>4, <1>5 DEF NmeaAt, c

\* The sentence a context stands for when the line ends, if the checksum agrees.
Sentence(c) == [content |-> c.buf, checked |-> c.present]

\* The end of a line leaves the parser waiting for a '$', and dispatches the sentence of its
\* context or nothing: nothing, too, if a checksum was read and is not the sum.
LEMMA CompleteAt ==
  ASSUME NEW p \in Nmeas
  PROVE  LET q == SentenceComplete(p) IN
         /\ q.ctx.state = "wait_dollar"
         /\ \/ q.sentences = p.sentences
            \/ /\ q.sentences = Append(p.sentences, Sentence(p.ctx))
               /\ p.ctx.present => p.ctx.xor = p.ctx.received
BY DEF SentenceComplete, DiscardSentence, NmeaIdle, Sentence, Nmeas

\* A complete line is a sentence of the stream.
LEMMA SentenceThere ==
  ASSUME NEW c \in NmeaContexts, NEW t \in Seq(Byte), NEW u \in Seq(Byte), Extends(u, t), Len(u) = Len(t) + 1,
         u[Len(u)] = Lf, c.state \in {"accumulate_sentence", "wait_lf"}, NmeaAt(c, t),
         c.present => c.xor = c.received
  PROVE  \E k \in 1 .. Len(u) : SentenceAt(Sentence(c), u, k)
<1> DEFINE s == Sentence(c)
           len == Len(c.buf)
<1>1. PICK k \in 1 .. Len(t) : Reading(c, t, k) /\ Ended(c, t, k + 1 + len)
  BY DEF NmeaAt
<1>2. s.content = c.buf /\ s.checked = c.present /\ c.buf \in Seq(Byte) /\ len \in Nat
  BY DEF Sentence, NmeaContexts
<1>3. Len(t) \in Nat /\ k \in 1 .. Len(u) /\ \A i \in 1 .. Len(t) : u[i] = t[i]
  BY DEF Extends
<1> HIDE DEF len
<1>4. u[k] = Dollar /\ \A i \in 1 .. len : u[k + i] = c.buf[i]
  <2>1. k + len <= Len(t) /\ t[k] = Dollar /\ \A i \in 1 .. len : t[k + i] = c.buf[i]
    BY <1>1 DEF Reading, len
  <2>2. \A i \in 1 .. len : k + i \in 1 .. Len(t)
    BY <1>2, <1>3, <2>1
  <2> QED
    BY <1>3, <2>1, <2>2
<1> DEFINE end == k + 1 + len
<1>5. CASE c.present = FALSE
  <2>1. end <= Len(u) /\ u[end] \in {Cr, Lf}
    <3>1. CASE c.state = "accumulate_sentence"
      <4>1. end = Len(t) + 1
        BY <1>1, <1>5, <3>1 DEF Ended
      <4> QED
        BY <1>3, <4>1
    <3>2. CASE c.state = "wait_lf"
      <4>1. end <= Len(t) /\ t[end] = Cr
        BY <1>1, <1>5, <3>2 DEF Ended
      <4>2. end \in 1 .. Len(t) /\ end <= Len(u)
        BY <1>2, <1>3, <4>1
      <4> QED
        BY <1>3, <4>1, <4>2
    <3> QED
      BY <3>1, <3>2
  <2> QED
    BY <1>2, <1>3, <1>4, <1>5, <2>1 DEF SentenceAt, len
<1>6. CASE c.present = TRUE
  <2>1. /\ end + 2 <= Len(t) /\ t[end] = Star
        /\ Hex(t[end + 1]) # 16 /\ Hex(t[end + 2]) # 16
        /\ c.received = 16 * Hex(t[end + 1]) + Hex(t[end + 2])
    BY <1>1, <1>6 DEF Ended
  <2>2. end \in 1 .. Len(t) /\ end + 1 \in 1 .. Len(t) /\ end + 2 \in 1 .. Len(t) /\ end + 2 <= Len(u)
    BY <1>2, <1>3, <2>1, SMTT(60)
  <2> DEFINE h == Hex(t[end + 1])
             l == Hex(t[end + 2])
             ck == NmeaChecksum(c.buf)
  <2>3. h \in 0 .. 15 /\ l \in 0 .. 15
    <3>1. \A i \in 1 .. Len(t) : t[i] \in Byte
      OBVIOUS
    <3>2. t[end + 1] \in 0 .. 255 /\ t[end + 2] \in 0 .. 255
      BY <2>2, <3>1 DEF Byte
    <3>3. h \in 0 .. 16 /\ l \in 0 .. 16
      BY <3>2, HexIs
    <3>4. h # 16 /\ l # 16
      BY <2>1
    <3> HIDE DEF h, l
    <3> QED
      BY <3>3, <3>4
  <2>4. ck = 16 * h + l
    BY <1>1, <1>6, <2>1 DEF Reading
  <2>5. u[end] = Star /\ Hex(u[end + 1]) = h /\ Hex(u[end + 2]) = l
    BY <1>3, <2>1, <2>2
  <2> HIDE DEF h, l, ck
  <2>6. ck \div 16 = h /\ ck % 16 = l
    BY <2>3, <2>4
  <2>7. Hex(u[end + 1]) = ck \div 16 /\ Hex(u[end + 2]) = ck % 16
    BY <2>5, <2>6
  <2>8. s.content = c.buf /\ s.checked = TRUE
    BY <1>2, <1>6
  <2> HIDE DEF s
  <2>9. /\ u[end] = Star /\ end + 2 <= Len(u)
        /\ Hex(u[end + 1]) = NmeaChecksum(c.buf) \div 16 /\ Hex(u[end + 2]) = NmeaChecksum(c.buf) % 16
    BY <2>2, <2>5, <2>7 DEF ck
  <2>10. Len(s.content) = len
    BY <2>8 DEF len
  <2>11. \A i \in 1 .. Len(s.content) : u[k + i] = s.content[i]
    BY <1>4, <2>8, <2>10
  <2>12. end = k + 1 + Len(s.content)
    BY <2>10
  <2> HIDE DEF end
  <2>13. LET e == k + 1 + Len(s.content)
             sum == NmeaChecksum(s.content)
         IN  /\ e + 2 <= Len(u) /\ u[e] = Star
             /\ Hex(u[e + 1]) = sum \div 16 /\ Hex(u[e + 2]) = sum % 16
    BY <2>8, <2>9, <2>12
  <2>14. SentenceAt(s, u, k)
    BY <1>4, <2>8, <2>11, <2>13 DEF SentenceAt
  <2> QED
    BY <1>3, <2>14 DEF s
<1>7. c.present \in BOOLEAN
  BY DEF NmeaContexts
<1> QED
  BY <1>5, <1>6, <1>7

\* What a byte leaves: a context that is in step again, and at most one sentence more,
\* which stands in what was read.
NmeaStep(p, q, u) ==
  /\ NmeaAt(q.ctx, u)
  /\ \/ q.sentences = p.sentences
     \/ /\ q.sentences = Append(p.sentences, Sentence(p.ctx))
        /\ \E k \in 1 .. Len(u) : SentenceAt(Sentence(p.ctx), u, k)

\* A byte of content keeps the context in step with the stream.
LEMMA ContentByte ==
  ASSUME NEW p \in Nmeas, NEW t \in Seq(Byte), NEW b \in Byte, NmeaAt(p.ctx, t),
         p.ctx.state = "accumulate_sentence", b \notin {Dollar, Star, Cr, Lf}
  PROVE  NmeaStep(p, NmeaByte(p, b), Append(t, b))
<1> DEFINE u == Append(t, b)
           q == NmeaByte(p, b)
           n == Len(t)
           c == p.ctx
           len == Len(c.buf)
<1>1. PICK k \in 1 .. n : Reading(c, t, k) /\ Ended(c, t, k + 1 + len)
  BY DEF NmeaAt
<1>2. /\ u \in Seq(Byte) /\ Len(u) = n + 1 /\ u[n + 1] = b /\ n \in Nat
      /\ \A i \in 1 .. n : u[i] = t[i]
  BY Grows
<1>3. c \in NmeaContexts /\ c.buf \in Seq(Byte) /\ len \in Nat
  BY DEF Nmeas, NmeaContexts
<1>4. q = IF len >= BufferLen THEN DiscardSentence(p)
          ELSE [p EXCEPT !.ctx.buf = Append(@, b), !.ctx.xor = Xor(@, b)]
  BY DEF NmeaByte, AccumulateByte
<1>5. /\ t[k] = Dollar /\ k + len <= n /\ \A i \in 1 .. len : t[k + i] = c.buf[i]
      /\ c.xor = NmeaChecksum(c.buf)
  BY <1>1 DEF Reading
<1>6. c.present = FALSE /\ k + 1 + len = n + 1
  BY <1>1 DEF Ended
<1> HIDE DEF u, n, q, len
<1>9. n \in Nat /\ len \in Nat /\ k \in 1 .. n /\ k + 1 + len = n + 1 /\ Len(u) = n + 1
  BY <1>2, <1>3, <1>6
<1>7. CASE len >= BufferLen
  <2>1. q.ctx.state = "wait_dollar" /\ q.sentences = p.sentences
    BY <1>4, <1>7 DEF DiscardSentence, NmeaIdle, Nmeas
  <2> QED
    BY <2>1 DEF NmeaStep, NmeaAt, q, u
<1>8. CASE ~ (len >= BufferLen)
  <2>1. q = [p EXCEPT !.ctx.buf = Append(@, b), !.ctx.xor = Xor(@, b)]
    BY <1>4, <1>8
  <2>2. /\ q.ctx.state = "accumulate_sentence" /\ q.sentences = p.sentences
        /\ q.ctx.buf = Append(c.buf, b) /\ q.ctx.xor = Xor(c.xor, b) /\ q.ctx.present = FALSE
    BY <1>3, <1>6, <2>1 DEF Nmeas, NmeaContexts, c
  <2>3. /\ Len(q.ctx.buf) = len + 1 /\ q.ctx.buf[len + 1] = b
        /\ \A i \in 1 .. len : q.ctx.buf[i] = c.buf[i]
    BY <1>3, <2>2 DEF len
  <2>4. q.ctx.xor = NmeaChecksum(q.ctx.buf)
    BY <1>3, <1>5, <2>2, NmeaChecksumGrows
  <2>5. u[k] = Dollar /\ k + (len + 1) <= Len(u) /\ k \in 1 .. Len(u)
    BY <1>2, <1>3, <1>5, <1>6
  <2>6. ASSUME NEW i \in 1 .. len + 1 PROVE u[k + i] = q.ctx.buf[i]
    <3>1. CASE i = len + 1
      <4>1. k + i = n + 1
        BY <1>9, <3>1
      <4> QED
        BY <1>2, <2>3, <3>1, <4>1
    <3>2. CASE i # len + 1
      <4>1. i \in 1 .. len /\ k + i \in 1 .. n
        BY <1>9, <3>2
      <4> QED
        BY <1>2, <1>5, <2>3, <4>1
    <3> QED
      BY <3>1, <3>2
  <2>7. Reading(q.ctx, u, k)
    BY <2>3, <2>4, <2>5, <2>6 DEF Reading
  <2>8. k + 1 + Len(q.ctx.buf) = Len(u) + 1
    <3>1. k + 1 + (len + 1) = Len(u) + 1
      BY <1>9
    <3> QED
      BY <2>3, <3>1
  <2>9. Ended(q.ctx, u, k + 1 + Len(q.ctx.buf))
    BY <2>2, <2>8 DEF Ended
  <2>10. NmeaAt(q.ctx, u)
    BY <2>5, <2>7, <2>9 DEF NmeaAt
  <2> QED
    BY <2>2, <2>10 DEF NmeaStep, q, u
<1> QED
  BY <1>7, <1>8

\* The bytes that leave the content as it is and the sentence unfinished.
LEMMA EndByte ==
  ASSUME NEW c \in NmeaContexts, NEW d \in NmeaContexts, NEW t \in Seq(Byte), NEW b \in Byte,
         NmeaAt(c, t), c.state # "wait_dollar", d.buf = c.buf, d.xor = c.xor,
         LET u == Append(t, b) IN
         \A end \in 1 .. Len(t) + 1 : Ended(c, t, end) => Ended(d, u, end)
  PROVE  NmeaAt(d, Append(t, b))
<1> DEFINE u == Append(t, b)
           n == Len(t)
           len == Len(c.buf)
<1>1. PICK k \in 1 .. n : Reading(c, t, k) /\ Ended(c, t, k + 1 + len)
  BY DEF NmeaAt
<1>2. /\ u \in Seq(Byte) /\ Len(u) = n + 1 /\ n \in Nat
      /\ \A i \in 1 .. n : u[i] = t[i]
  BY Grows
<1>3. len \in Nat
  BY DEF NmeaContexts
<1>4. /\ t[k] = Dollar /\ k + len <= n /\ \A i \in 1 .. len : t[k + i] = c.buf[i]
      /\ c.xor = NmeaChecksum(c.buf)
  BY <1>1 DEF Reading
<1> HIDE DEF n, len, u
<1>5. u[k] = Dollar /\ k + len <= Len(u) /\ k \in 1 .. Len(u) /\ \A i \in 1 .. len : u[k + i] = c.buf[i]
  <2>1. \A i \in 1 .. len : k + i \in 1 .. n
    BY <1>2, <1>3, <1>4
  <2> QED
    BY <1>2, <1>3, <1>4, <2>1
<1>6. Reading(d, u, k)
  BY <1>4, <1>5 DEF Reading, len
<1>7. k + 1 + len \in 1 .. n + 1
  BY <1>2, <1>3, <1>4
<1>8. Ended(d, u, k + 1 + len)
  BY <1>1, <1>7 DEF u, n
<1> QED
  BY <1>5, <1>6, <1>8 DEF NmeaAt, u, len

\* A line that ends.
LEMMA LineEnds ==
  ASSUME NEW p \in Nmeas, NEW t \in Seq(Byte), NmeaAt(p.ctx, t),
         p.ctx.state \in {"accumulate_sentence", "wait_lf"}, NEW q, q = SentenceComplete(p)
  PROVE  NmeaStep(p, q, Append(t, Lf))
<1> DEFINE u == Append(t, Lf)
<1>0. Lf \in Byte
  BY DEF Lf, Byte
<1>1. /\ u \in Seq(Byte) /\ Len(u) = Len(t) + 1 /\ u[Len(t) + 1] = Lf /\ Len(t) \in Nat
      /\ \A i \in 1 .. Len(t) : u[i] = t[i]
  BY <1>0, Grows
<1> HIDE DEF u
<1>2. Extends(u, t) /\ u[Len(u)] = Lf
  BY <1>1 DEF Extends
<1>3. /\ q.ctx.state = "wait_dollar"
      /\ \/ q.sentences = p.sentences
         \/ /\ q.sentences = Append(p.sentences, Sentence(p.ctx))
            /\ p.ctx.present => p.ctx.xor = p.ctx.received
  BY CompleteAt
<1>4. p.ctx \in NmeaContexts
  BY DEF Nmeas
<1>5. CASE q.sentences = p.sentences
  BY <1>3, <1>5 DEF NmeaStep, NmeaAt, u
<1>6. CASE /\ q.sentences = Append(p.sentences, Sentence(p.ctx))
           /\ p.ctx.present => p.ctx.xor = p.ctx.received
  <2>1. \E k \in 1 .. Len(u) : SentenceAt(Sentence(p.ctx), u, k)
    BY <1>1, <1>2, <1>4, <1>6, SentenceThere
  <2> QED
    BY <1>3, <1>6, <2>1 DEF NmeaStep, NmeaAt, u
<1> QED
  BY <1>3, <1>5, <1>6

\* process_byte() dispatches nothing that was not read.
LEMMA NmeaByteStep ==
  ASSUME NEW p \in Nmeas, NEW t \in Seq(Byte), NEW b \in Byte, NmeaAt(p.ctx, t)
  PROVE  NmeaStep(p, NmeaByte(p, b), Append(t, b))
<1> DEFINE u == Append(t, b)
           q == NmeaByte(p, b)
           c == p.ctx
           n == Len(t)
<1>1. /\ u \in Seq(Byte) /\ Len(u) = n + 1 /\ u[n + 1] = b /\ n \in Nat
      /\ \A i \in 1 .. n : u[i] = t[i]
  BY Grows
<1>2. c \in NmeaContexts /\ q \in Nmeas /\ q.ctx \in NmeaContexts
  BY NmeaByteIn DEF Nmeas
<1>3. u[Len(u)] = b /\ Len(u) \in 1 .. Len(u)
  BY <1>1
<1>4. ASSUME b = Dollar, NEW r \in Nmeas, r.sentences = p.sentences, q = Begin(r)
      PROVE  NmeaStep(p, q, u)
  <2>1. q.ctx = [NmeaIdle EXCEPT !.state = "accumulate_sentence"] /\ q.sentences = p.sentences
    BY <1>4 DEF Begin, Nmeas
  <2> HIDE DEF u, q
  <2>2. NmeaAt(q.ctx, u)
    BY <1>1, <1>3, <1>4, <2>1, BegunAt
  <2> QED
    BY <2>1, <2>2 DEF NmeaStep
<1>5. DiscardSentence(p) \in Nmeas /\ DiscardSentence(p).sentences = p.sentences
  <2>1. p.discarded + 1 \in Nat
    BY DEF Nmeas
  <2> QED
    BY <2>1, NmeaIdleIn DEF DiscardSentence, Nmeas
<1>6. ASSUME q = DiscardSentence(p)
      PROVE  NmeaStep(p, q, u)
  <2>1. q.ctx.state = "wait_dollar" /\ q.sentences = p.sentences
    BY <1>6 DEF DiscardSentence, NmeaIdle, Nmeas
  <2> QED
    BY <2>1 DEF NmeaStep, NmeaAt
<1>7. ASSUME c.state # "wait_dollar", q.sentences = p.sentences, q.ctx.buf = c.buf, q.ctx.xor = c.xor,
             \A end \in 1 .. n + 1 : Ended(c, t, end) => Ended(q.ctx, u, end)
      PROVE  NmeaStep(p, q, u)
  <2> HIDE DEF q
  <2>1. NmeaAt(q.ctx, u)
    BY <1>2, <1>7, EndByte
  <2> QED
    BY <1>7, <2>1 DEF NmeaStep
<1> SUFFICES NmeaStep(p, q, u)
  OBVIOUS
<1> HIDE DEF u, n, q, c
<1>8. CASE c.state = "wait_dollar"
  <2>1. CASE b = Dollar
    <3>1. q = Begin(p)
      BY <1>8, <2>1 DEF NmeaByte, q, c
    <3> QED
      BY <1>4, <2>1, <3>1
  <2>2. CASE b # Dollar
    <3>1. q = p
      BY <1>8, <2>2 DEF NmeaByte, q, c
    <3> QED
      BY <1>8, <3>1 DEF NmeaStep, NmeaAt, u, c
  <2> QED
    BY <2>1, <2>2
<1>9. CASE c.state = "accumulate_sentence"
  <2>0. q = AccumulateByte(p, b)
    BY <1>9 DEF NmeaByte, q, c
  <2>1. CASE b = Dollar
    <3>1. q = Begin(DiscardSentence(p))
      BY <2>0, <2>1 DEF AccumulateByte, Dollar, Star, Cr, Lf
    <3> QED
      BY <1>4, <1>5, <2>1, <3>1
  <2>2. CASE b = Star
    <3>1. q = [p EXCEPT !.ctx.present = TRUE, !.ctx.state = "wait_checksum_hi"]
      BY <2>0, <2>2 DEF AccumulateByte, Dollar, Star, Cr, Lf
    <3>2. /\ q.sentences = p.sentences /\ q.ctx.buf = c.buf /\ q.ctx.xor = c.xor
          /\ q.ctx.state = "wait_checksum_hi" /\ q.ctx.present = TRUE
      BY <1>2, <3>1 DEF Nmeas, NmeaContexts, c
    <3>3. ASSUME NEW end \in 1 .. n + 1, Ended(c, t, end) PROVE Ended(q.ctx, u, end)
      <4>1. end = n + 1
        BY <1>9, <3>3 DEF Ended, n
      <4> QED
        BY <1>1, <2>2, <3>2, <4>1 DEF Ended
    <3> QED
      BY <1>7, <1>9, <3>2, <3>3
  <2>3. CASE b = Cr
    <3>1. q = NmeaGoes(p, "wait_lf")
      BY <2>0, <2>3 DEF AccumulateByte, Dollar, Star, Cr, Lf
    <3>2. /\ q.sentences = p.sentences /\ q.ctx.buf = c.buf /\ q.ctx.xor = c.xor
          /\ q.ctx.state = "wait_lf" /\ q.ctx.present = c.present
      BY <1>2, <3>1 DEF NmeaGoes, Nmeas, NmeaContexts, c
    <3>3. ASSUME NEW end \in 1 .. n + 1, Ended(c, t, end) PROVE Ended(q.ctx, u, end)
      <4>1. end = n + 1 /\ c.present = FALSE
        BY <1>9, <3>3 DEF Ended, n
      <4>2. end <= Len(u) /\ u[end] = Cr
        BY <1>1, <2>3, <4>1
      <4> QED
        BY <3>2, <4>1, <4>2 DEF Ended
    <3> QED
      BY <1>7, <1>9, <3>2, <3>3
  <2>4. CASE b = Lf
    <3>1. q = SentenceComplete(p)
      BY <2>0, <2>4 DEF AccumulateByte, Dollar, Star, Cr, Lf
    <3> QED
      BY <1>9, <2>4, <3>1, LineEnds DEF u, c
  <2>5. CASE b \notin {Dollar, Star, Cr, Lf}
    BY <1>9, <2>5, ContentByte DEF u, q, c
  <2> QED
    BY <2>1, <2>2, <2>3, <2>4, <2>5
<1>10. CASE c.state = "wait_checksum_hi"
  <2>1. q = [p EXCEPT !.ctx.hi = b, !.ctx.state = "wait_checksum_lo"]
    BY <1>10 DEF NmeaByte, q, c
  <2>2. /\ q.sentences = p.sentences /\ q.ctx.buf = c.buf /\ q.ctx.xor = c.xor
        /\ q.ctx.state = "wait_checksum_lo" /\ q.ctx.present = c.present /\ q.ctx.hi = b
    BY <1>2, <2>1 DEF Nmeas, NmeaContexts, c
  <2>3. ASSUME NEW end \in 1 .. n + 1, Ended(c, t, end) PROVE Ended(q.ctx, u, end)
    <3>1. end = n /\ t[end] = Star /\ c.present = TRUE
      BY <1>10, <2>3 DEF Ended, n
    <3>2. end \in 1 .. n /\ end + 1 = n + 1
      BY <1>1, <3>1
    <3>3. u[end] = Star /\ end + 1 = Len(u) /\ b = u[end + 1]
      BY <1>1, <3>1, <3>2
    <3> QED
      BY <2>2, <3>1, <3>3 DEF Ended
  <2> QED
    BY <1>7, <1>10, <2>2, <2>3
<1>11. CASE c.state = "wait_checksum_lo"
  <2>0. q = SecondDigit(p, b)
    BY <1>11 DEF NmeaByte, q, c
  <2>1. CASE Hex(c.hi) = 16 \/ Hex(b) = 16
    BY <1>6, <2>0, <2>1 DEF SecondDigit, c
  <2>2. CASE ~ (Hex(c.hi) = 16 \/ Hex(b) = 16)
    <3>1. q = [p EXCEPT !.ctx.received = 16 * Hex(p.ctx.hi) + Hex(b), !.ctx.state = "wait_lf"]
      BY <2>0, <2>2 DEF SecondDigit, c
    <3>2. /\ q.sentences = p.sentences /\ q.ctx.buf = c.buf /\ q.ctx.xor = c.xor
          /\ q.ctx.state = "wait_lf" /\ q.ctx.present = c.present
          /\ q.ctx.received = 16 * Hex(c.hi) + Hex(b)
      BY <1>2, <3>1 DEF Nmeas, NmeaContexts, c
    <3>3. ASSUME NEW end \in 1 .. n + 1, Ended(c, t, end) PROVE Ended(q.ctx, u, end)
      <4>1. end + 1 = n /\ t[end] = Star /\ c.present = TRUE /\ c.hi = t[end + 1]
        BY <1>11, <3>3 DEF Ended, n
      <4>2. end \in 1 .. n /\ end + 1 \in 1 .. n /\ end + 2 = n + 1
        BY <1>1, <4>1
      <4>3. u[end] = Star /\ u[end + 1] = c.hi /\ u[end + 2] = b /\ end + 2 <= Len(u)
        BY <1>1, <4>1, <4>2
      <4> QED
        BY <2>2, <3>2, <4>1, <4>3 DEF Ended
    <3> QED
      BY <1>7, <1>11, <3>2, <3>3
  <2> QED
    BY <2>1, <2>2
<1>12. CASE c.state = "wait_lf"
  <2>0. q = EndOfLine(p, b)
    BY <1>12 DEF NmeaByte, q, c
  <2>1. CASE b = Lf
    <3>1. q = SentenceComplete(p)
      BY <2>0, <2>1 DEF EndOfLine, Lf, Dollar
    <3> QED
      BY <1>12, <2>1, <3>1, LineEnds DEF u, c
  <2>2. CASE b = Dollar
    <3>1. q = Begin(DiscardSentence(p))
      BY <2>0, <2>2 DEF EndOfLine, Lf, Dollar
    <3> QED
      BY <1>4, <1>5, <2>2, <3>1
  <2>3. CASE b # Lf /\ b # Dollar
    <3>1. q = p
      BY <2>0, <2>3 DEF EndOfLine
    <3>2. ASSUME NEW end \in 1 .. n + 1, Ended(c, t, end) PROVE Ended(q.ctx, u, end)
      <4>1. CASE c.present = TRUE
        <5>1. /\ end + 2 <= n /\ t[end] = Star
              /\ Hex(t[end + 1]) # 16 /\ Hex(t[end + 2]) # 16
              /\ c.received = 16 * Hex(t[end + 1]) + Hex(t[end + 2])
          BY <1>12, <3>2, <4>1 DEF Ended, n
        <5>2. end \in 1 .. n /\ end + 1 \in 1 .. n /\ end + 2 \in 1 .. n /\ end + 2 <= Len(u)
          BY <1>1, <5>1
        <5>3. u[end] = t[end] /\ u[end + 1] = t[end + 1] /\ u[end + 2] = t[end + 2]
          BY <1>1, <5>2
        <5> QED
          BY <1>12, <3>1, <4>1, <5>1, <5>2, <5>3 DEF Ended, c
      <4>2. CASE c.present = FALSE
        <5>1. end <= n /\ t[end] = Cr
          BY <1>12, <3>2, <4>2 DEF Ended, n
        <5>2. end <= Len(u) /\ u[end] = Cr
          BY <1>1, <5>1
        <5> QED
          BY <1>12, <3>1, <4>2, <5>2 DEF Ended, c
      <4>3. c.present \in BOOLEAN
        BY <1>2 DEF NmeaContexts
      <4> QED
        BY <4>1, <4>2, <4>3
    <3> QED
      BY <1>7, <1>12, <3>1, <3>2 DEF c
  <2> QED
    BY <2>1, <2>2, <2>3
<1> QED
  BY <1>2, <1>8, <1>9, <1>10, <1>11, <1>12 DEF NmeaContexts, u, q, c

-----------------------------------------------------------------------------
(* How far it is with each intact sentence: none is missed.                *)

Content(t, k, n) == SubSeq(t, k + 1, k + n)
Plain(t, k, n) == \A i \in 1 .. n : t[k + i] \notin {Dollar, Star, Cr, Lf}

\* A '$' that no checksum digit is expected in the place of.
Begins(t, k) == t[k] = Dollar /\ \A j \in {k - 1, k - 2} : j >= 1 => t[j] # Star

\* Behind the content at k stand the two digits of its checksum.
Digits(t, k, n) ==
  LET ck == NmeaChecksum(Content(t, k, n)) IN
  t[k + n + 2] = HexDigit(ck \div 16) /\ t[k + n + 3] = HexDigit(ck % 16)

\* How far the parser is with a sentence that is intact so far.
Stage(c, t, k, n) ==
  /\ Len(t) = k + n => c.state = "accumulate_sentence" /\ c.buf = Content(t, k, n)
  /\ Len(t) > k + n /\ t[k + n + 1] = Star =>
       /\ Len(t) = k + n + 1 =>
            c.state = "wait_checksum_hi" /\ c.present = TRUE /\ c.buf = Content(t, k, n)
       /\ Len(t) = k + n + 2 =>
            /\ c.state = "wait_checksum_lo" /\ c.present = TRUE /\ c.buf = Content(t, k, n)
            /\ c.hi = t[k + n + 2]
       /\ Len(t) = k + n + 3 /\ Digits(t, k, n) =>
            /\ c.state = "wait_lf" /\ c.present = TRUE /\ c.buf = Content(t, k, n)
            /\ c.received = NmeaChecksum(c.buf)
       /\ Len(t) = k + n + 4 /\ Digits(t, k, n) /\ t[k + n + 4] = Cr =>
            /\ c.state = "wait_lf" /\ c.present = TRUE /\ c.buf = Content(t, k, n)
            /\ c.received = NmeaChecksum(c.buf)

Staged(c, t) ==
  \A k \in 1 .. Len(t) : \A n \in 0 .. BufferLen :
    Begins(t, k) /\ k + n <= Len(t) /\ Plain(t, k, n) => Stage(c, t, k, n)

\* The content of a sentence: its bytes are those behind the '$'.
LEMMA ContentIn ==
  ASSUME NEW t \in Seq(Byte), NEW k \in 1 .. Len(t), NEW n \in Nat, k + n <= Len(t)
  PROVE  /\ Content(t, k, n) \in Seq(Byte) /\ Len(Content(t, k, n)) = n
         /\ \A i \in 1 .. n : Content(t, k, n)[i] = t[k + i]
<1> DEFINE s == Content(t, k, n)
<1>1. k + 1 \in Nat \ {0} /\ k + n \in Int /\ k + n <= Len(t)
  OBVIOUS
<1>2. /\ s \in Seq(Byte)
      /\ Len(s) = IF k + 1 <= k + n THEN k + n - (k + 1) + 1 ELSE 0
      /\ \A m \in 1 .. k + n - (k + 1) + 1 : s[m] = t[k + 1 + m - 1]
  BY <1>1, Part DEF Content
<1>3. k + n - (k + 1) + 1 = n /\ (~ (k + 1 <= k + n) => n = 0)
  OBVIOUS
<1>4. \A m \in 1 .. n : k + 1 + m - 1 = k + m
  OBVIOUS
<1> HIDE DEF s
<1> QED
  BY <1>2, <1>3, <1>4 DEF s

\* One byte more in the stream leaves a content that was all there as it is, and makes the last
\* one longer by that byte.
LEMMA ContentGrows ==
  ASSUME NEW t \in Seq(Byte), NEW u \in Seq(Byte), NEW b \in Byte, Extends(u, t), Len(u) = Len(t) + 1,
         u[Len(u)] = b, NEW k \in 1 .. Len(u), NEW n \in Nat
  PROVE  /\ k + n <= Len(t) => Content(u, k, n) = Content(t, k, n)
         /\ n = 0 => Content(u, k, n) = <<>>
         /\ n # 0 /\ k + n = Len(u) => OneMore(Content(t, k, n - 1), b, Content(u, k, n))
<1>0. Len(t) \in Nat /\ \A i \in 1 .. Len(t) : u[i] = t[i]
  BY DEF Extends
<1>1. ASSUME k + n <= Len(t) PROVE Content(u, k, n) = Content(t, k, n)
  <2> DEFINE r == Content(u, k, n)
             s == Content(t, k, n)
  <2>1. k \in 1 .. Len(t) /\ k + n <= Len(u)
    BY <1>0, <1>1
  <2>2. r \in Seq(Byte) /\ Len(r) = n /\ \A i \in 1 .. n : r[i] = u[k + i]
    BY <2>1, ContentIn
  <2>3. s \in Seq(Byte) /\ Len(s) = n /\ \A i \in 1 .. n : s[i] = t[k + i]
    BY <1>1, <2>1, ContentIn
  <2>4. \A i \in 1 .. n : u[k + i] = t[k + i]
    <3>1. \A i \in 1 .. n : k + i \in 1 .. Len(t)
      BY <1>0, <1>1
    <3> QED
      BY <1>0, <3>1
  <2> HIDE DEF r, s
  <2>5. \A i \in 1 .. Len(r) : r[i] = s[i]
    BY <2>2, <2>3, <2>4
  <2>6. r = s
    BY <2>2, <2>3, <2>5, SeqEqual
  <2> QED
    BY <2>6 DEF r, s
<1>2. ASSUME n = 0 PROVE Content(u, k, n) = <<>>
  <2>1. k + n <= Len(u)
    BY <1>2
  <2>2. Content(u, k, n) \in Seq(Byte) /\ Len(Content(u, k, n)) = 0
    BY <1>2, <2>1, ContentIn
  <2> QED
    BY <2>2, EmptySeq
<1>3. ASSUME n # 0, k + n = Len(u) PROVE OneMore(Content(t, k, n - 1), b, Content(u, k, n))
  <2> DEFINE r == Content(u, k, n)
             s == Content(t, k, n - 1)
             a == Append(s, b)
  <2>1. n - 1 \in Nat /\ k \in 1 .. Len(t) /\ k + (n - 1) <= Len(t) /\ k + n <= Len(u)
    BY <1>0, <1>3
  <2>2. r \in Seq(Byte) /\ Len(r) = n /\ \A i \in 1 .. n : r[i] = u[k + i]
    BY <2>1, ContentIn
  <2>3. s \in Seq(Byte) /\ Len(s) = n - 1 /\ \A i \in 1 .. n - 1 : s[i] = t[k + i]
    BY <2>1, ContentIn
  <2>4. \A i \in 1 .. n - 1 : u[k + i] = t[k + i]
    <3>1. \A i \in 1 .. n - 1 : k + i \in 1 .. Len(t)
      BY <1>0, <1>3
    <3> QED
      BY <1>0, <3>1
  <2> HIDE DEF r, s
  <2>5. a \in Seq(Byte) /\ Len(a) = n /\ a[n] = b /\ \A i \in 1 .. n - 1 : a[i] = s[i]
    BY <2>3
  <2> HIDE DEF a
  <2>6. ASSUME NEW i \in 1 .. n PROVE r[i] = a[i]
    <3>1. CASE i = n
      BY <1>3, <2>2, <2>5, <3>1
    <3>2. CASE i # n
      <4>1. i \in 1 .. n - 1
        BY <3>2
      <4> QED
        BY <2>2, <2>3, <2>4, <2>5, <4>1
    <3> QED
      BY <3>1, <3>2
  <2>7. r = a
    BY <2>2, <2>5, <2>6, SeqEqual
  <2> QED
    BY <2>7 DEF r, s, a, OneMore
<1> QED
  BY <1>1, <1>2, <1>3

\* After a '$' the parser reads a sentence, unless the '$' took the place of a digit.
LEMMA StageBegins ==
  ASSUME NEW p \in Nmeas, NEW t \in Seq(Byte), NmeaAt(p.ctx, t), NEW u \in Seq(Byte),
         Extends(u, t), Len(u) = Len(t) + 1, Begins(u, Len(u))
  PROVE  NmeaByte(p, Dollar).ctx.state = "accumulate_sentence" /\ NmeaByte(p, Dollar).ctx.buf = <<>>
<1> DEFINE c == p.ctx
           n == Len(t)
           q == NmeaByte(p, Dollar)
<1>1. n \in Nat /\ \A i \in 1 .. n : u[i] = t[i]
  BY DEF Extends
<1>2. c \in NmeaContexts
  BY DEF Nmeas
<1>3. \A r \in Nmeas : Begin(r).ctx.state = "accumulate_sentence" /\ Begin(r).ctx.buf = <<>>
  BY DEF Begin, NmeaIdle, Nmeas
<1>4. DiscardSentence(p) \in Nmeas
  <2>1. p.discarded + 1 \in Nat
    BY DEF Nmeas
  <2> QED
    BY <2>1, NmeaIdleIn DEF DiscardSentence, Nmeas
<1>5. c.state # "wait_checksum_hi"
  <2> SUFFICES ASSUME c.state = "wait_checksum_hi" PROVE FALSE
    OBVIOUS
  <2>1. n \in 1 .. n /\ t[n] = Star
    <3>1. PICK k \in 1 .. n : Ended(c, t, k + 1 + Len(c.buf))
      BY DEF NmeaAt
    <3>2. k + 1 + Len(c.buf) = n /\ t[n] = Star
      BY <3>1 DEF Ended
    <3> QED
      BY <1>1, <3>2
  <2>2. n = Len(u) - 1 /\ n >= 1
    BY <1>1, <2>1
  <2> HIDE DEF n
  <2> QED
    BY <1>1, <2>1, <2>2 DEF Begins
<1>6. c.state # "wait_checksum_lo"
  <2> SUFFICES ASSUME c.state = "wait_checksum_lo" PROVE FALSE
    OBVIOUS
  <2>1. n - 1 \in 1 .. n /\ t[n - 1] = Star
    <3>1. PICK k \in 1 .. n : Ended(c, t, k + 1 + Len(c.buf))
      BY DEF NmeaAt
    <3> DEFINE end == k + 1 + Len(c.buf)
    <3>2. end + 1 = n /\ t[end] = Star
      BY <3>1 DEF Ended
    <3>3. end \in Nat \ {0}
      <4>1. c.buf \in Seq(Byte)
        BY <1>2 DEF NmeaContexts
      <4>2. Len(c.buf) \in Nat
        BY <4>1
      <4>3. \A x \in Nat : k + 1 + x \in Nat \ {0}
        BY <1>1
      <4> QED
        BY <4>2, <4>3
    <3> HIDE DEF end, n
    <3>4. end = n - 1 /\ n - 1 \in 1 .. n
      BY <1>1, <3>2, <3>3
    <3> QED
      BY <3>2, <3>4
  <2>2. n - 1 = Len(u) - 2 /\ n - 1 >= 1
    BY <1>1, <2>1
  <2>3. u[Len(u) - 2] # Star
    <3>1. Len(u) - 2 >= 1
      BY <2>2
    <3> QED
      BY <3>1 DEF Begins
  <2> HIDE DEF n
  <2> QED
    BY <1>1, <2>1, <2>2, <2>3
<1>7. CASE c.state = "wait_dollar"
  <2>1. q = Begin(p)
    BY <1>7 DEF NmeaByte
  <2> QED
    BY <1>3, <2>1
<1>8. CASE c.state = "accumulate_sentence"
  <2>1. q = AccumulateByte(p, Dollar)
    BY <1>8 DEF NmeaByte
  <2>2. q = Begin(DiscardSentence(p))
    BY <2>1 DEF AccumulateByte, Dollar, Star, Cr, Lf
  <2> QED
    BY <1>3, <1>4, <2>2
<1>9. CASE c.state = "wait_lf"
  <2>1. q = EndOfLine(p, Dollar)
    BY <1>9 DEF NmeaByte
  <2>2. q = Begin(DiscardSentence(p))
    BY <2>1 DEF EndOfLine, Dollar, Lf
  <2> QED
    BY <1>3, <1>4, <2>2
<1> QED
  BY <1>2, <1>5, <1>6, <1>7, <1>8, <1>9 DEF NmeaContexts

\* One byte of content more.
LEMMA StageContent ==
  ASSUME NEW p \in Nmeas, NEW b \in Byte, p.ctx.state = "accumulate_sentence",
         Len(p.ctx.buf) < BufferLen, b \notin {Dollar, Star, Cr, Lf}
  PROVE  /\ NmeaByte(p, b).ctx.state = "accumulate_sentence"
         /\ NmeaByte(p, b).ctx.buf = Append(p.ctx.buf, b)
<1>1. ~ (Len(p.ctx.buf) >= BufferLen)
  <2>1. Len(p.ctx.buf) \in Nat /\ BufferLen \in Nat
    BY Bounds, SMTT(60) DEF Nmeas, NmeaContexts
  <2> QED
    BY <2>1
<1>2. NmeaByte(p, b) = [p EXCEPT !.ctx.buf = Append(@, b), !.ctx.xor = Xor(@, b)]
  BY <1>1 DEF NmeaByte, AccumulateByte
<1> QED
  BY <1>2 DEF Nmeas, NmeaContexts

\* The star, the two digits and the end of the line.
LEMMA StageStar ==
  ASSUME NEW p \in Nmeas, p.ctx.state = "accumulate_sentence",
         NEW q, q = [p EXCEPT !.ctx.present = TRUE, !.ctx.state = "wait_checksum_hi"]
  PROVE  q.ctx.state = "wait_checksum_hi" /\ q.ctx.present = TRUE /\ q.ctx.buf = p.ctx.buf
BY DEF Nmeas, NmeaContexts

\* What the parser does with the star, the two digits and the carriage return of a sentence.
LEMMA StageEnds ==
  ASSUME NEW p \in Nmeas, NEW b \in Byte
  PROVE  LET q == NmeaByte(p, b) IN
         /\ p.ctx.state = "accumulate_sentence" /\ b = Star =>
              q.ctx.state = "wait_checksum_hi" /\ q.ctx.present = TRUE /\ q.ctx.buf = p.ctx.buf
         /\ p.ctx.state = "wait_checksum_hi" =>
              /\ q.ctx.state = "wait_checksum_lo" /\ q.ctx.present = p.ctx.present
              /\ q.ctx.buf = p.ctx.buf /\ q.ctx.hi = b
         /\ p.ctx.state = "wait_checksum_lo" /\ Hex(p.ctx.hi) # 16 /\ Hex(b) # 16 =>
              /\ q.ctx.state = "wait_lf" /\ q.ctx.present = p.ctx.present
              /\ q.ctx.buf = p.ctx.buf /\ q.ctx.received = 16 * Hex(p.ctx.hi) + Hex(b)
         /\ p.ctx.state = "wait_lf" /\ b = Cr => q = p
<1> DEFINE q == NmeaByte(p, b)
<1>1. p.ctx.state = "accumulate_sentence" /\ b = Star =>
        q = [p EXCEPT !.ctx.present = TRUE, !.ctx.state = "wait_checksum_hi"]
  BY DEF NmeaByte, AccumulateByte, Dollar, Star, Cr, Lf
<1>2. p.ctx.state = "wait_checksum_hi" => q = [p EXCEPT !.ctx.hi = b, !.ctx.state = "wait_checksum_lo"]
  BY DEF NmeaByte
<1> DEFINE v == 16 * Hex(p.ctx.hi) + Hex(b)
<1>3. p.ctx.state = "wait_checksum_lo" /\ Hex(p.ctx.hi) # 16 /\ Hex(b) # 16 =>
        q = [p EXCEPT !.ctx.received = v, !.ctx.state = "wait_lf"]
  BY DEF NmeaByte, SecondDigit
<1>4. p.ctx.state = "wait_lf" /\ b = Cr => q = p
  BY DEF NmeaByte, EndOfLine, Dollar, Cr, Lf
<1> HIDE DEF q, v
<1>5. p.ctx.state = "accumulate_sentence" /\ b = Star =>
        q.ctx.state = "wait_checksum_hi" /\ q.ctx.present = TRUE /\ q.ctx.buf = p.ctx.buf
  BY <1>1, StageStar
<1>6. p.ctx.state = "wait_checksum_hi" =>
        /\ q.ctx.state = "wait_checksum_lo" /\ q.ctx.present = p.ctx.present
        /\ q.ctx.buf = p.ctx.buf /\ q.ctx.hi = b
  <2> SUFFICES ASSUME p.ctx.state = "wait_checksum_hi"
               PROVE  /\ q.ctx.state = "wait_checksum_lo" /\ q.ctx.present = p.ctx.present
                      /\ q.ctx.buf = p.ctx.buf /\ q.ctx.hi = b
    OBVIOUS
  <2>1. q = [p EXCEPT !.ctx.hi = b, !.ctx.state = "wait_checksum_lo"]
    BY <1>2
  <2> QED
    BY <2>1 DEF Nmeas, NmeaContexts
<1>7. p.ctx.state = "wait_checksum_lo" /\ Hex(p.ctx.hi) # 16 /\ Hex(b) # 16 =>
        /\ q.ctx.state = "wait_lf" /\ q.ctx.present = p.ctx.present
        /\ q.ctx.buf = p.ctx.buf /\ q.ctx.received = v
  <2> SUFFICES ASSUME p.ctx.state = "wait_checksum_lo", Hex(p.ctx.hi) # 16, Hex(b) # 16
               PROVE  /\ q.ctx.state = "wait_lf" /\ q.ctx.present = p.ctx.present
                      /\ q.ctx.buf = p.ctx.buf /\ q.ctx.received = v
    OBVIOUS
  <2>1. q = [p EXCEPT !.ctx.received = v, !.ctx.state = "wait_lf"]
    BY <1>3
  <2> QED
    BY <2>1 DEF Nmeas, NmeaContexts
<1> QED
  BY <1>4, <1>5, <1>6, <1>7 DEF q, v

\* A number is made of its two hexadecimal digits.
LEMMA HexSum == ASSUME NEW x \in Nat PROVE x = 16 * (x \div 16) + (x % 16)
OBVIOUS

\* A sum of two hexadecimal digits is read back.
LEMMA DigitsRead ==
  ASSUME NEW ck \in Byte
  PROVE  /\ Hex(HexDigit(ck \div 16)) = ck \div 16 /\ Hex(HexDigit(ck \div 16)) # 16
         /\ Hex(HexDigit(ck % 16)) = ck % 16 /\ Hex(HexDigit(ck % 16)) # 16
         /\ ck = 16 * (ck \div 16) + (ck % 16)
<1>1. ck \in 0 .. 255 /\ ck \in Nat
  BY DEF Byte
<1>2. ck \div 16 \in 0 .. 15 /\ ck % 16 \in 0 .. 15
  BY <1>1
<1>3. ck = 16 * (ck \div 16) + (ck % 16)
  BY <1>1, HexSum
<1> DEFINE h == ck \div 16
           l == ck % 16
<1> HIDE DEF h, l
<1>4. h \in 0 .. 15 => Hex(HexDigit(h)) = h /\ h # 16
  BY HexIs
<1>5. l \in 0 .. 15 => Hex(HexDigit(l)) = l /\ l # 16
  BY HexIs
<1> QED
  BY <1>2, <1>3, <1>4, <1>5 DEF h, l

\* Every intact sentence that the stream has begun is read on by every byte.
LEMMA StagedStep ==
  ASSUME NEW p \in Nmeas, NEW t \in Seq(Byte), NEW b \in Byte, NmeaAt(p.ctx, t), Staged(p.ctx, t)
  PROVE  Staged(NmeaByte(p, b).ctx, Append(t, b))
<1> DEFINE u == Append(t, b)
           q == NmeaByte(p, b)
           c == p.ctx
           m == Len(t)
<1>1. /\ u \in Seq(Byte) /\ Len(u) = m + 1 /\ u[m + 1] = b /\ m \in Nat
      /\ \A i \in 1 .. m : u[i] = t[i]
  BY Grows
<1>2. c \in NmeaContexts
  BY DEF Nmeas
<1>3. Extends(u, t) /\ Len(u) = Len(t) + 1 /\ u[Len(u)] = b /\ Extends(u, t)
  BY <1>1 DEF Extends
<1> HIDE DEF u, q
<1> SUFFICES ASSUME NEW k \in 1 .. Len(u), NEW n \in 0 .. BufferLen, Begins(u, k), k + n <= Len(u),
                    Plain(u, k, n)
             PROVE  Stage(q.ctx, u, k, n)
  BY DEF Staged, u, q
<1>4. n \in Nat /\ BufferLen \in Nat /\ n <= BufferLen
  BY Bounds
<1> HIDE DEF m
<1>8. m \in Nat /\ k \in 1 .. m + 1 /\ n \in Nat /\ Len(u) = m + 1
  BY <1>1, <1>4
<1>5. CASE k + n = m + 1
  <2>1. ~ (Len(u) > k + n)
    BY <1>1, <1>5
  <2>2. q.ctx.state = "accumulate_sentence" /\ q.ctx.buf = Content(u, k, n)
    <3>1. CASE n = 0
      <4>1. k = Len(u) /\ b = Dollar
        BY <1>1, <1>4, <1>5, <3>1 DEF Begins
      <4>2. q = NmeaByte(p, Dollar)
        BY <4>1 DEF q
      <4>3. Content(u, k, n) = <<>>
        BY <1>1, <1>3, <1>4, <3>1, ContentGrows
      <4> QED
        BY <1>1, <1>3, <4>1, <4>2, <4>3, StageBegins
    <3>2. CASE n # 0
      <4>1. n - 1 \in 0 .. BufferLen /\ n - 1 \in Nat /\ k \in 1 .. m /\ k + (n - 1) = m
        BY <1>1, <1>4, <1>5, <3>2
      <4>2. Begins(t, k)
        <5>1. \A j \in {k - 1, k - 2} : j >= 1 => j \in 1 .. m
          BY <1>1, <4>1
        <5> QED
          BY <1>1, <4>1, <5>1 DEF Begins
      <4>3. Plain(t, k, n - 1)
        <5>1. \A i \in 1 .. n - 1 : i \in 1 .. n /\ k + i \in 1 .. m
          BY <1>1, <4>1
        <5> QED
          BY <1>1, <5>1 DEF Plain
      <4>4. Stage(c, t, k, n - 1)
        BY <1>1, <4>1, <4>2, <4>3 DEF Staged, m
      <4>5. c.state = "accumulate_sentence" /\ c.buf = Content(t, k, n - 1)
        BY <4>1, <4>4 DEF Stage, m
      <4>6. Len(c.buf) = n - 1 /\ Len(c.buf) < BufferLen
        <5>1. Len(Content(t, k, n - 1)) = n - 1
          <6>1. k + (n - 1) <= Len(t) /\ k \in 1 .. Len(t)
            BY <1>1, <4>1 DEF m
          <6> QED
            BY <4>1, <6>1, ContentIn
        <5> QED
          BY <1>4, <4>5, <5>1
      <4>7. b \notin {Dollar, Star, Cr, Lf}
        <5>1. n \in 1 .. n /\ k + n = m + 1
          BY <1>4, <1>5, <3>2
        <5> QED
          BY <1>1, <5>1 DEF Plain
      <4>8. q.ctx.state = "accumulate_sentence" /\ q.ctx.buf = Append(c.buf, b)
        BY <4>5, <4>6, <4>7, StageContent DEF q
      <4>9. Content(u, k, n) = Append(Content(t, k, n - 1), b)
        <5>1. OneMore(Content(t, k, n - 1), b, Content(u, k, n))
          BY <1>1, <1>3, <1>4, <1>5, <3>2, ContentGrows
        <5> QED
          BY <5>1 DEF OneMore
      <4> QED
        BY <4>5, <4>8, <4>9
    <3> QED
      BY <3>1, <3>2
  <2> QED
    BY <2>1, <2>2 DEF Stage
<1>6. CASE k + n <= m
  <2>1. k \in 1 .. m /\ Len(u) # k + n
    BY <1>1, <1>4, <1>6
  <2>2. Begins(t, k)
    <3>1. \A j \in {k - 1, k - 2} : j >= 1 => j \in 1 .. m
      BY <1>1, <2>1
    <3> QED
      BY <1>1, <2>1, <3>1 DEF Begins
  <2>3. Plain(t, k, n)
    <3>1. \A i \in 1 .. n : k + i \in 1 .. m
      BY <1>1, <1>4, <1>6, <2>1
    <3> QED
      BY <1>1, <3>1 DEF Plain
  <2>4. Stage(c, t, k, n)
    BY <1>6, <2>1, <2>2, <2>3 DEF Staged, m
  <2>5. Content(u, k, n) = Content(t, k, n)
    BY <1>1, <1>3, <1>4, <1>6, ContentGrows DEF m
  <2> DEFINE s == Content(t, k, n)
             ck == NmeaChecksum(s)
  <2>6. s \in Seq(Byte) /\ ck \in Byte
    <3>1. k \in 1 .. Len(t) /\ k + n <= Len(t)
      BY <1>6, <2>1 DEF m
    <3>2. s \in Seq(Byte)
      BY <1>4, <3>1, ContentIn
    <3> QED
      BY <3>2, NmeaChecksumIn
  <2> HIDE DEF s
  <2>7. CASE m + 1 = k + n + 1
    <3>1. m = k + n
      BY <1>8, <2>7
    <3>2. c.state = "accumulate_sentence" /\ c.buf = s
      BY <2>4, <3>1 DEF Stage, m, s
    <3>5. u[k + n + 1] = b
      BY <1>1, <2>7
    <3>3. u[k + n + 1] = Star =>
            q.ctx.state = "wait_checksum_hi" /\ q.ctx.present = TRUE /\ q.ctx.buf = s
      BY <3>2, <3>5, StageEnds DEF q
    <3>4. /\ ~ (Len(u) = k + n + 2) /\ ~ (Len(u) = k + n + 3) /\ ~ (Len(u) = k + n + 4)
      BY <1>1, <1>4, <3>1
    <3> QED
      BY <2>1, <2>5, <3>3, <3>4 DEF Stage, s
  <2>8. CASE m + 1 = k + n + 2
    <3>1. m = k + n + 1 /\ m > k + n /\ k + n + 1 \in 1 .. m
      BY <1>1, <1>4, <2>8
    <3>2. u[k + n + 1] = t[k + n + 1]
      BY <1>1, <3>1
    <3>3. t[k + n + 1] = Star => c.state = "wait_checksum_hi" /\ c.present = TRUE /\ c.buf = s
      BY <2>4, <3>1 DEF Stage, m, s
    <3>4. u[k + n + 1] = Star =>
            /\ q.ctx.state = "wait_checksum_lo" /\ q.ctx.present = TRUE /\ q.ctx.buf = s
            /\ q.ctx.hi = u[k + n + 2]
      <4>1. u[k + n + 2] = b
        BY <1>1, <2>8
      <4> QED
        BY <3>2, <3>3, <4>1, StageEnds DEF q
    <3>5. /\ ~ (Len(u) = k + n + 1) /\ ~ (Len(u) = k + n + 3) /\ ~ (Len(u) = k + n + 4)
      BY <1>1, <1>4, <3>1
    <3> QED
      BY <2>1, <2>5, <3>4, <3>5 DEF Stage, s
  <2>9. CASE m + 1 = k + n + 3
    <3>1. /\ m = k + n + 2 /\ m > k + n /\ ~ (m = k + n + 1) /\ k + n + 1 \in 1 .. m /\ k + n + 2 \in 1 .. m
      BY <1>8, <2>9
    <3>2. u[k + n + 1] = t[k + n + 1] /\ u[k + n + 2] = t[k + n + 2]
      BY <1>1, <3>1
    <3>3. t[k + n + 1] = Star =>
            c.state = "wait_checksum_lo" /\ c.present = TRUE /\ c.buf = s /\ c.hi = t[k + n + 2]
      BY <2>4, <3>1 DEF Stage, m, s
    <3>4. ASSUME u[k + n + 1] = Star, Digits(u, k, n)
          PROVE  /\ q.ctx.state = "wait_lf" /\ q.ctx.present = TRUE /\ q.ctx.buf = s
                 /\ q.ctx.received = ck
      <4>1. c.hi = HexDigit(ck \div 16) /\ b = HexDigit(ck % 16)
        BY <1>1, <2>5, <2>9, <3>2, <3>3, <3>4 DEF Digits, s
      <4>2. /\ Hex(c.hi) # 16 /\ Hex(b) # 16 /\ Hex(c.hi) = ck \div 16 /\ Hex(b) = ck % 16
            /\ ck = 16 * (ck \div 16) + (ck % 16)
        BY <2>6, <4>1, DigitsRead
      <4>3. /\ q.ctx.state = "wait_lf" /\ q.ctx.present = c.present
            /\ q.ctx.buf = c.buf /\ q.ctx.received = 16 * Hex(c.hi) + Hex(b)
        BY <3>2, <3>3, <3>4, <4>2, StageEnds DEF q
      <4>4. q.ctx.received = ck
        <5>1. q.ctx.received = 16 * (ck \div 16) + (ck % 16)
          BY <4>2, <4>3
        <5> QED
          BY <4>2, <5>1
      <4> QED
        BY <3>2, <3>3, <3>4, <4>3, <4>4
    <3>5. /\ ~ (Len(u) = k + n + 1) /\ ~ (Len(u) = k + n + 2) /\ ~ (Len(u) = k + n + 4)
      BY <1>1, <1>4, <3>1
    <3> QED
      BY <2>1, <2>5, <3>4, <3>5 DEF Stage, s
  <2>10. CASE m + 1 = k + n + 4
    <3>1. /\ m = k + n + 3 /\ m > k + n /\ ~ (m = k + n + 1) /\ ~ (m = k + n + 2)
          /\ k + n + 1 \in 1 .. m /\ k + n + 2 \in 1 .. m /\ k + n + 3 \in 1 .. m
      <4>1. m \in Nat /\ n \in Nat /\ k \in Nat /\ k >= 1
        BY <1>1, <1>4
      <4>2. m = k + n + 3 /\ k + n \in Nat
        BY <2>10, <4>1
      <4> QED
        BY <4>1, <4>2
    <3>2. u[k + n + 1] = t[k + n + 1] /\ u[k + n + 2] = t[k + n + 2] /\ u[k + n + 3] = t[k + n + 3]
      BY <1>1, <3>1
    <3>3. Digits(u, k, n) => Digits(t, k, n)
      BY <2>5, <3>2 DEF Digits
    <3>4. t[k + n + 1] = Star /\ Digits(t, k, n) =>
            c.state = "wait_lf" /\ c.present = TRUE /\ c.buf = s /\ c.received = NmeaChecksum(c.buf)
      BY <2>4, <3>1 DEF Stage, m, s
    <3>5. ASSUME u[k + n + 1] = Star, Digits(u, k, n), u[k + n + 4] = Cr
          PROVE  /\ q.ctx.state = "wait_lf" /\ q.ctx.present = TRUE /\ q.ctx.buf = s
                 /\ q.ctx.received = NmeaChecksum(q.ctx.buf)
      <4>1. b = Cr
        BY <1>1, <2>10, <3>5
      <4>2. q = p
        BY <3>2, <3>3, <3>4, <3>5, <4>1, StageEnds DEF q
      <4> QED
        BY <3>2, <3>3, <3>4, <3>5, <4>2
    <3>6. /\ ~ (Len(u) = k + n + 1) /\ ~ (Len(u) = k + n + 2) /\ ~ (Len(u) = k + n + 3)
      BY <1>1, <1>4, <3>1, SMTT(30)
    <3> QED
      BY <2>1, <2>5, <3>5, <3>6 DEF Stage, s
  <2>11. CASE ~ (m + 1 = k + n + 1) /\ ~ (m + 1 = k + n + 2) /\ ~ (m + 1 = k + n + 3) /\ ~ (m + 1 = k + n + 4)
    BY <1>1, <2>1, <2>11 DEF Stage
  <2> QED
    BY <2>7, <2>8, <2>9, <2>10, <2>11
<1> QED
  BY <1>1, <1>4, <1>5, <1>6

-----------------------------------------------------------------------------
(* nmea_parser keeps step with the stream, byte by byte.                   *)

\* A whole sentence as assemble() makes it, from the '$' at k on.
Whole(t, k, n) ==
  /\ Begins(t, k) /\ Plain(t, k, n) /\ k + n + 5 <= Len(t)
  /\ t[k + n + 1] = Star /\ Digits(t, k, n) /\ t[k + n + 4] = Cr /\ t[k + n + 5] = Lf

Checked(content) == [content |-> content, checked |-> TRUE]

WholesFound(sentences, t) ==
  \A k \in 1 .. Len(t) : \A n \in 1 .. BufferLen :
    Whole(t, k, n) => Contains(sentences, Checked(Content(t, k, n)))
AllThere(sentences, t) ==
  \A i \in 1 .. Len(sentences) : \E k \in 1 .. Len(t) : SentenceAt(sentences[i], t, k)

NmeaHas(p, t) ==
  /\ p \in Nmeas /\ NmeaAt(p.ctx, t) /\ Staged(p.ctx, t)
  /\ WholesFound(p.sentences, t) /\ AllThere(p.sentences, t)

\* A sequence of sentences that grows keeps those it had, and has the new one.
LEMMA ContainsGrows ==
  ASSUME NEW x \in Seq(Sentences), NEW s, NEW e \in Sentences
  PROVE  /\ Contains(x, s) => Contains(Append(x, e), s)
         /\ Contains(Append(x, e), e)
<1>1. /\ Append(x, e) \in Seq(Sentences) /\ Len(Append(x, e)) = Len(x) + 1 /\ Len(x) \in Nat
      /\ Append(x, e)[Len(x) + 1] = e /\ \A i \in 1 .. Len(x) : Append(x, e)[i] = x[i]
  OBVIOUS
<1> DEFINE y == Append(x, e)
<1> HIDE DEF y
<1>2. /\ Len(y) = Len(x) + 1 /\ Len(x) \in Nat
      /\ y[Len(x) + 1] = e /\ \A i \in 1 .. Len(x) : y[i] = x[i]
  BY <1>1 DEF y
<1>3. Contains(x, s) => Contains(y, s)
  BY <1>2 DEF Contains
<1>4. Contains(y, e)
  BY <1>2 DEF Contains
<1> QED
  BY <1>3, <1>4 DEF y

\* A sentence that stood in what was read before still does.
LEMMA SentenceStays ==
  ASSUME NEW t \in Seq(Byte), NEW u \in Seq(Byte), Extends(u, t), NEW s \in Sentences,
         NEW k \in 1 .. Len(t), SentenceAt(s, t, k)
  PROVE  k \in 1 .. Len(u) /\ SentenceAt(s, u, k)
<1> DEFINE len == Len(s.content)
           end == k + 1 + len
           ck == NmeaChecksum(s.content)
<1>1. len \in Nat /\ s.checked \in BOOLEAN
  <2>1. s.content \in Seq(Byte) /\ s.checked \in BOOLEAN
    BY DEF Sentences
  <2> QED
    BY <2>1
<1>2. Len(t) \in Nat /\ Len(u) \in Nat /\ Len(t) <= Len(u) /\ \A i \in 1 .. Len(t) : u[i] = t[i]
  BY DEF Extends
<1>3. /\ t[k] = Dollar /\ \A i \in 1 .. len : t[k + i] = s.content[i]
      /\ IF s.checked
           THEN /\ end + 2 <= Len(t) /\ t[end] = Star
                /\ Hex(t[end + 1]) = ck \div 16 /\ Hex(t[end + 2]) = ck % 16
           ELSE end <= Len(t) /\ t[end] \in {Cr, Lf}
  BY DEF SentenceAt
<1>4. end <= Len(t) /\ (s.checked => end + 2 <= Len(t))
  <2>1. IF s.checked THEN end + 2 <= Len(t) ELSE end <= Len(t)
    BY <1>3
  <2>2. end \in Nat /\ Len(t) \in Nat
    <3>1. Len(t) \in Nat
      OBVIOUS
    <3>2. k \in Nat
      BY <3>1
    <3>3. len \in Nat
      BY <1>1
    <3> HIDE DEF len
    <3> QED
      BY <3>1, <3>2, <3>3
  <2> HIDE DEF end
  <2> QED
    BY <2>1, <2>2
<1> HIDE DEF len, ck
<1>5. u[k] = Dollar /\ \A i \in 1 .. len : u[k + i] = s.content[i]
  <2>1. \A i \in 1 .. len : k + i \in 1 .. Len(t)
    BY <1>1, <1>2, <1>4
  <2> QED
    BY <1>2, <1>3, <2>1
<1>6. CASE s.checked
  <2>1. end \in 1 .. Len(t) /\ end + 1 \in 1 .. Len(t) /\ end + 2 \in 1 .. Len(t) /\ end + 2 <= Len(u)
    BY <1>1, <1>2, <1>4, <1>6
  <2> HIDE DEF end
  <2>2. u[end] = Star /\ Hex(u[end + 1]) = ck \div 16 /\ Hex(u[end + 2]) = ck % 16
    BY <1>2, <1>3, <1>6, <2>1
  <2>3. k \in 1 .. Len(u)
    BY <1>2
  <2> QED
    BY <1>5, <1>6, <2>1, <2>2, <2>3 DEF SentenceAt, len, end, ck
<1>7. CASE ~ s.checked
  <2>1. end \in 1 .. Len(t) /\ end <= Len(u)
    BY <1>1, <1>2, <1>4
  <2> HIDE DEF end
  <2>2. u[end] \in {Cr, Lf}
    BY <1>2, <1>3, <1>7, <2>1
  <2>3. k \in 1 .. Len(u)
    BY <1>2
  <2> QED
    BY <1>5, <1>7, <2>1, <2>2, <2>3 DEF SentenceAt, len, end
<1> QED
  BY <1>6, <1>7

\* Every sentence dispatched stands in the stream, also after a byte more.
LEMMA AllThereStep ==
  ASSUME NEW p \in Nmeas, NEW q \in Nmeas, NEW t \in Seq(Byte), NEW u \in Seq(Byte), Extends(u, t),
         AllThere(p.sentences, t), NmeaStep(p, q, u)
  PROVE  AllThere(q.sentences, u)
<1>0. p.sentences \in Seq(Sentences)
  BY DEF Nmeas
<1>1. \A i \in 1 .. Len(p.sentences) : \E k \in 1 .. Len(u) : SentenceAt(p.sentences[i], u, k)
  <2> SUFFICES ASSUME NEW i \in 1 .. Len(p.sentences)
               PROVE  \E k \in 1 .. Len(u) : SentenceAt(p.sentences[i], u, k)
    OBVIOUS
  <2>1. PICK k \in 1 .. Len(t) : SentenceAt(p.sentences[i], t, k)
    BY DEF AllThere
  <2>2. p.sentences[i] \in Sentences
    BY <1>0
  <2> QED
    BY <2>1, <2>2, SentenceStays
<1>2. CASE q.sentences = p.sentences
  BY <1>1, <1>2 DEF AllThere
<1>3. CASE /\ q.sentences = Append(p.sentences, Sentence(p.ctx))
           /\ \E k \in 1 .. Len(u) : SentenceAt(Sentence(p.ctx), u, k)
  <2> DEFINE x == p.sentences
             y == q.sentences
  <2>1. /\ Len(y) = Len(x) + 1 /\ y[Len(x) + 1] = Sentence(p.ctx)
        /\ \A i \in 1 .. Len(x) : y[i] = x[i]
    BY <1>0, <1>3
  <2>2. Len(x) \in Nat
    BY <1>0
  <2>3. ASSUME NEW i \in 1 .. Len(x) + 1 PROVE \E k \in 1 .. Len(u) : SentenceAt(y[i], u, k)
    <3>1. CASE i = Len(x) + 1
      BY <1>3, <2>1, <3>1
    <3>2. CASE i # Len(x) + 1
      <4>1. i \in 1 .. Len(x)
        BY <2>2, <3>2
      <4> QED
        BY <1>1, <2>1, <4>1
    <3> QED
      BY <3>1, <3>2
  <2> QED
    BY <2>1, <2>3 DEF AllThere
<1> QED
  BY <1>2, <1>3 DEF NmeaStep

\* The end of a line dispatches the sentence whose checksum is the one that was read.
LEMMA WholeDispatched ==
  ASSUME NEW p \in Nmeas, NEW t \in Seq(Byte), NmeaAt(p.ctx, t), p.ctx.state = "wait_lf",
         p.ctx.present = TRUE, p.ctx.received = NmeaChecksum(p.ctx.buf)
  PROVE  NmeaByte(p, Lf).sentences = Append(p.sentences, Checked(p.ctx.buf))
<1>1. p.ctx.xor = NmeaChecksum(p.ctx.buf)
  BY DEF NmeaAt, Reading
<1>2. NmeaByte(p, Lf) = SentenceComplete(p)
  BY DEF NmeaByte, EndOfLine, Lf, Dollar
<1> QED
  BY <1>1, <1>2 DEF SentenceComplete, Checked, Nmeas

\* Every intact sentence that has ended has been dispatched, also after a byte more.
LEMMA WholesFoundStep ==
  ASSUME NEW p \in Nmeas, NEW t \in Seq(Byte), NEW b \in Byte, NmeaAt(p.ctx, t), Staged(p.ctx, t),
         WholesFound(p.sentences, t)
  PROVE  WholesFound(NmeaByte(p, b).sentences, Append(t, b))
<1> DEFINE u == Append(t, b)
           q == NmeaByte(p, b)
           c == p.ctx
           m == Len(t)
<1>1. /\ u \in Seq(Byte) /\ Len(u) = m + 1 /\ u[m + 1] = b /\ m \in Nat
      /\ \A i \in 1 .. m : u[i] = t[i]
  BY Grows
<1>2. Extends(u, t) /\ Len(u) = Len(t) + 1 /\ u[Len(u)] = b
  BY <1>1 DEF Extends
<1>3. NmeaStep(p, q, u)
  BY NmeaByteStep
<1>4. p.sentences \in Seq(Sentences) /\ Sentence(p.ctx) \in Sentences
  BY DEF Nmeas, NmeaContexts, Sentence, Sentences
<1> HIDE DEF u, q
<1>5. \A s : Contains(p.sentences, s) => Contains(q.sentences, s)
  BY <1>3, <1>4, ContainsGrows DEF NmeaStep
<1> SUFFICES ASSUME NEW k \in 1 .. Len(u), NEW n \in 1 .. BufferLen, Whole(u, k, n)
             PROVE  Contains(q.sentences, Checked(Content(u, k, n)))
  BY DEF WholesFound, u, q
<1>6. n \in Nat /\ BufferLen \in Nat /\ n \in 0 .. BufferLen
  BY Bounds
<1>7. k + n + 5 <= m + 1
  BY <1>1 DEF Whole
<1> HIDE DEF m
<1>8. k \in 1 .. m /\ k + n <= m /\ \A i \in 0 .. n + 4 : k + i \in 1 .. m
  BY <1>1, <1>6, <1>7
<1>9. Content(u, k, n) = Content(t, k, n)
  BY <1>1, <1>2, <1>6, <1>8, ContentGrows DEF m
<1>10. Begins(t, k) /\ Plain(t, k, n)
  <2>1. \A j \in {k - 1, k - 2} : j >= 1 => j \in 1 .. m
    BY <1>1, <1>8
  <2>2. Begins(t, k)
    BY <1>1, <1>8, <2>1 DEF Begins, Whole
  <2>3. \A i \in 1 .. n : k + i \in 1 .. m
    BY <1>6, <1>8
  <2> QED
    BY <1>1, <2>2, <2>3 DEF Plain, Whole
<1>11. t[k + n + 1] = Star /\ Digits(t, k, n) /\ t[k + n + 4] = Cr
  <2>1. /\ k + n + 1 \in 1 .. m /\ k + n + 2 \in 1 .. m /\ k + n + 3 \in 1 .. m /\ k + n + 4 \in 1 .. m
    BY <1>1, <1>6, <1>7, SMTT(30)
  <2> QED
    BY <1>1, <1>9, <2>1 DEF Whole, Digits
<1>12. CASE k + n + 5 <= m
  <2>1. Whole(t, k, n)
    <3>1. k + n + 5 \in 1 .. m
      BY <1>1, <1>6, <1>12
    <3> QED
      BY <1>1, <1>10, <1>11, <1>12, <3>1 DEF Whole, m
  <2>2. Contains(p.sentences, Checked(Content(t, k, n)))
    BY <1>6, <1>8, <2>1 DEF WholesFound, m
  <2> QED
    BY <1>5, <1>9, <2>2
<1>13. CASE k + n + 5 = m + 1
  <2>1. b = Lf
    BY <1>1, <1>13 DEF Whole
  <2>2. Stage(c, t, k, n)
    BY <1>6, <1>8, <1>10 DEF Staged, m
  <2>3. m = k + n + 4 /\ m > k + n /\ ~ (m = k + n + 1) /\ ~ (m = k + n + 2) /\ ~ (m = k + n + 3)
    BY <1>1, <1>6, <1>13
  <2>4. c.state = "wait_lf" /\ c.present = TRUE /\ c.buf = Content(t, k, n) /\ c.received = NmeaChecksum(c.buf)
    BY <1>11, <2>2, <2>3 DEF Stage, m
  <2>5. q.sentences = Append(p.sentences, Checked(c.buf))
    BY <2>1, <2>4, WholeDispatched DEF q
  <2>6. Checked(c.buf) \in Sentences
    BY DEF Checked, Sentences, Nmeas, NmeaContexts
  <2> QED
    BY <1>4, <1>9, <2>4, <2>5, <2>6, ContainsGrows
<1> QED
  BY <1>1, <1>6, <1>7, <1>12, <1>13

\* process_byte() keeps step with the stream, whatever the byte.
LEMMA NmeaByteHas ==
  ASSUME NEW p \in Nmeas, NEW t \in Seq(Byte), NEW b \in Byte, NmeaHas(p, t)
  PROVE  NmeaHas(NmeaByte(p, b), Append(t, b))
<1> DEFINE u == Append(t, b)
           q == NmeaByte(p, b)
<1>1. u \in Seq(Byte) /\ Extends(u, t)
  BY Grows DEF Extends
<1>2. q \in Nmeas
  BY NmeaByteIn
<1>3. NmeaStep(p, q, u)
  BY NmeaByteStep DEF NmeaHas
<1>4. Staged(q.ctx, u)
  BY StagedStep DEF NmeaHas
<1>5. WholesFound(q.sentences, u)
  BY WholesFoundStep DEF NmeaHas
<1> HIDE DEF u, q
<1>6. AllThere(q.sentences, u)
  BY <1>1, <1>2, <1>3, AllThereStep DEF NmeaHas
<1>7. NmeaHas(q, u)
  BY <1>2, <1>3, <1>4, <1>5, <1>6 DEF NmeaHas, NmeaStep
<1> QED
  BY <1>7 DEF u, q

\* A parser just made is in step with the empty stream.
LEMMA NewNmeaHas == NmeaHas(NewNmea, <<>>)
<1>1. NewNmea \in Nmeas
  <2>1. <<>> \in Seq(Sentences)
    OBVIOUS
  <2> QED
    BY <2>1, NmeaIdleIn DEF NewNmea, Nmeas
<1>2. NmeaAt(NewNmea.ctx, <<>>)
  BY DEF NmeaAt, NewNmea, NmeaIdle
<1>3. 1 .. Len(<<>>) = {} /\ NewNmea.sentences = <<>>
  BY DEF NewNmea
<1> QED
  BY <1>1, <1>2, <1>3 DEF NmeaHas, Staged, WholesFound, AllThere

\* A chunk, however long, fed to a parser that is in step with what came before.
LEMMA FeedNmeaHas ==
  ASSUME NEW p \in Nmeas, NEW t \in Seq(Byte), NEW chunk \in Seq(Byte), NmeaHas(p, t)
  PROVE  NmeaHas(FeedNmea(p, chunk), t \o chunk)
<1> DEFINE n == Len(chunk)
           upTo(i) == SubSeq(chunk, 1, i)
           T == {i \in Nat : i <= n => NmeaHas(FeedNmea(p, upTo(i)), t \o upTo(i))}
<1>1. n \in Nat
  OBVIOUS
<1>2. NmeaSteps \in [Nmeas \X Byte -> Nmeas]
  BY NmeaByteIn DEF NmeaSteps
<1>3. \A i \in 0 .. n : upTo(i) \in Seq(Byte)
  BY <1>1, Part
<1>4. 0 \in T
  <2>1. upTo(0) = <<>>
    OBVIOUS
  <2>2. FeedNmea(p, <<>>) = p
    <3>1. <<>> \in Seq(Byte)
      OBVIOUS
    <3>2. Run(Nmeas, NmeaSteps, p, <<>>) = p
      BY <1>2, RunEmpty
    <3>3. FeedNmea(p, <<>>) = Run(Nmeas, NmeaSteps, p, <<>>)
      BY <3>1, FeedNmeaRuns
    <3> QED
      BY <3>2, <3>3
  <2>3. t \o <<>> = t
    BY ConcatEmptySeq
  <2> QED
    BY <2>1, <2>2, <2>3
<1>5. ASSUME NEW i \in Nat, i \in T PROVE i + 1 \in T
  <2> SUFFICES ASSUME i + 1 <= n PROVE NmeaHas(FeedNmea(p, upTo(i + 1)), t \o upTo(i + 1))
    OBVIOUS
  <2> DEFINE part == upTo(i)
             b == chunk[i + 1]
  <2>1. i \in 0 .. n /\ i <= n /\ i + 1 \in 1 .. n
    BY <1>1
  <2>2. part \in Seq(Byte) /\ b \in Byte
    <3>1. \A j \in 1 .. n : chunk[j] \in Byte
      OBVIOUS
    <3> QED
      BY <1>3, <2>1, <3>1
  <2>3. upTo(i + 1) = Append(part, b)
    BY <2>1
  <2>4. NmeaHas(FeedNmea(p, part), t \o part)
    BY <1>5, <2>1
  <2> HIDE DEF part, b
  <2>5. FeedNmea(p, Append(part, b)) = NmeaByte(FeedNmea(p, part), b)
    <3>1. Append(part, b) \in Seq(Byte)
      BY <2>2
    <3> DEFINE more == Append(part, b)
    <3>2. StepTo(Nmeas, NmeaSteps, p, part, b, more)
      <4>1. OneMore(part, b, more)
        BY DEF OneMore
      <4> HIDE DEF more
      <4> QED
        BY <1>2, <2>2, <4>1, RunAppend
    <3>3. Run(Nmeas, NmeaSteps, p, part) \in Nmeas
      BY <1>2, <2>2, RunIn
    <3> QED
      BY <2>2, <3>1, <3>2, <3>3, FeedNmeaRuns DEF NmeaSteps, StepTo
  <2>6. t \o Append(part, b) = Append(t \o part, b) /\ t \o part \in Seq(Byte)
    BY <2>2
  <2>7. FeedNmea(p, part) \in Nmeas
    BY <2>4 DEF NmeaHas
  <2>8. NmeaHas(NmeaByte(FeedNmea(p, part), b), Append(t \o part, b))
    BY <2>2, <2>4, <2>6, <2>7, NmeaByteHas
  <2> QED
    BY <2>3, <2>5, <2>6, <2>8
<1> HIDE DEF T
<1>6. Nat \subseteq T
  BY <1>4, <1>5, NatSet
<1>7. NmeaHas(FeedNmea(p, upTo(n)), t \o upTo(n))
  BY <1>1, <1>6 DEF T
<1>8. upTo(n) = chunk
  BY SubSeqFull
<1> QED
  BY <1>7, <1>8

\* A sequence of bytes that stands at k has its bytes there.
LEMMA StandsIs ==
  ASSUME NEW s \in Seq(Byte), NEW t \in Seq(Byte), NEW k \in 1 .. Len(t), Len(s) # 0
  PROVE  StandsAt(s, t, k) <=> /\ k + Len(s) - 1 <= Len(t)
                               /\ \A i \in 1 .. Len(s) : t[k + i - 1] = s[i]
<1> DEFINE n == Len(s)
           e == k + n - 1
           r == SubSeq(t, k, e)
<1>1. n \in Nat /\ e \in Int /\ k \in Nat \ {0} /\ k <= e /\ e - k + 1 = n
  OBVIOUS
<1>2. StandsAt(s, t, k) <=> e <= Len(t) /\ r = s
  BY DEF StandsAt
<1>3. ASSUME e <= Len(t) PROVE r = s <=> \A i \in 1 .. n : t[k + i - 1] = s[i]
  <2>1. /\ r \in Seq(Byte)
        /\ Len(r) = IF k <= e THEN e - k + 1 ELSE 0
        /\ \A m \in 1 .. e - k + 1 : r[m] = t[k + m - 1]
    BY <1>1, <1>3, Part
  <2> HIDE DEF r, e
  <2>2. Len(r) = n /\ \A m \in 1 .. n : r[m] = t[k + m - 1]
    BY <1>1, <2>1
  <2>3. ASSUME \A i \in 1 .. n : t[k + i - 1] = s[i] PROVE r = s
    <3>1. \A i \in 1 .. Len(r) : r[i] = s[i]
      BY <2>2, <2>3
    <3> QED
      BY <2>1, <2>2, <3>1, SeqEqual DEF n
  <2>4. ASSUME r = s PROVE \A i \in 1 .. n : t[k + i - 1] = s[i]
    BY <2>2, <2>4
  <2> QED
    BY <2>3, <2>4
<1> QED
  BY <1>2, <1>3

\* What NoSentenceIsInvented asks of a sentence.
LEMMA InventedNot ==
  ASSUME NEW t \in Seq(Byte), NEW s \in Sentences, NEW k \in 1 .. Len(t), SentenceAt(s, t, k)
  PROVE  StandsAt(<<Dollar>> \o s.content, t, k)
<1> DEFINE len == Len(s.content)
           d == <<Dollar>>
           x == d \o s.content
           end == k + 1 + len
<1>1. s.content \in Seq(Byte) /\ s.checked \in BOOLEAN /\ len \in Nat /\ Len(t) \in Nat
  <2>1. s.content \in Seq(Byte) /\ s.checked \in BOOLEAN
    BY DEF Sentences
  <2> QED
    BY <2>1
<1>2. d \in Seq(Byte) /\ Len(d) = 1 /\ d[1] = Dollar
  BY DEF Dollar, Byte
<1>3. /\ x \in Seq(Byte) /\ Len(x) = Len(d) + len
      /\ \A i \in 1 .. Len(d) + len : x[i] = IF i <= Len(d) THEN d[i] ELSE s.content[i - Len(d)]
  BY <1>1, <1>2, ConcatProperties
<1>4. t[k] = Dollar /\ \A i \in 1 .. len : t[k + i] = s.content[i]
  BY DEF SentenceAt
<1>5. end <= Len(t)
  <2>1. CASE s.checked
    <3>1. end + 2 <= Len(t)
      BY <2>1 DEF SentenceAt
    <3> HIDE DEF len
    <3> QED
      BY <1>1, <3>1
  <2>2. CASE ~ s.checked
    BY <2>2 DEF SentenceAt
  <2> QED
    BY <2>1, <2>2
<1> HIDE DEF len, d, x
<1>6. Len(x) = len + 1 /\ Len(x) # 0 /\ k + Len(x) - 1 <= Len(t)
  BY <1>1, <1>2, <1>3, <1>5
<1>7. ASSUME NEW i \in 1 .. Len(x) PROVE t[k + i - 1] = x[i]
  <2>1. CASE i = 1
    BY <1>1, <1>2, <1>3, <1>4, <1>6, <2>1
  <2>2. CASE i # 1
    <3>1. i - 1 \in 1 .. len /\ i \in 1 .. 1 + len /\ ~ (i <= 1) /\ k + i - 1 = k + (i - 1)
      BY <1>1, <1>6, <2>2
    <3>2. x[i] = s.content[i - 1]
      BY <1>2, <1>3, <3>1
    <3> QED
      BY <1>4, <3>1, <3>2
  <2> QED
    BY <2>1, <2>2
<1> QED
  BY <1>3, <1>6, <1>7, StandsIs DEF x, d

-----------------------------------------------------------------------------
(* The sentences dispatched are those of the stream.                       *)

\* What IntactSentencesAreDispatched takes for a sentence is one.
LEMMA AssembledIsWhole ==
  ASSUME NEW t \in Seq(Byte), NEW k \in 1 .. Len(t), NEW n \in 1 .. BufferLen, Begins(t, k),
         k + n + 5 <= Len(t), t[k + n + 1] = Star,
         StandsAt(Assemble(Content(t, k, n)), t, k), Plain(t, k, n)
  PROVE  Whole(t, k, n)
<1> DEFINE c == Content(t, k, n)
           ck == NmeaChecksum(c)
           d == <<Dollar>>
           e == <<Star, HexDigit(ck \div 16), HexDigit(ck % 16), Cr, Lf>>
           x == d \o c
           y == x \o e
<1>1. n \in Nat /\ Len(t) \in Nat /\ k + n <= Len(t)
  BY Bounds
<1>2. c \in Seq(Byte) /\ Len(c) = n
  BY <1>1, ContentIn
<1>3. ck \in Byte
  BY <1>2, NmeaChecksumIn
<1>4. d \in Seq(Byte) /\ Len(d) = 1
  BY DEF Dollar, Byte
<1>5. HexDigit(ck \div 16) \in Byte /\ HexDigit(ck % 16) \in Byte
  <2>1. \A m \in 0 .. 255 : m \div 16 \in 0 .. 15 /\ m % 16 \in 0 .. 15
    OBVIOUS
  <2>2. ck \div 16 \in 0 .. 15 /\ ck % 16 \in 0 .. 15
    BY <1>3, <2>1 DEF Byte
  <2> QED
    BY <2>2, HexIs DEF Byte
<1>6. e \in Seq(Byte) /\ Len(e) = 5
  BY <1>5 DEF Star, Cr, Lf, Byte
<1>7. e[2] = HexDigit(ck \div 16) /\ e[3] = HexDigit(ck % 16) /\ e[4] = Cr /\ e[5] = Lf
  OBVIOUS
<1>8. Assemble(c) = y
  BY DEF Assemble
<1> HIDE DEF c, d, e
<1>9. x \in Seq(Byte) /\ Len(x) = Len(d) + Len(c)
  BY <1>2, <1>4, ConcatProperties
<1> HIDE DEF x
<1>10. /\ y \in Seq(Byte) /\ Len(y) = Len(x) + Len(e)
       /\ \A i \in 1 .. Len(x) + Len(e) : y[i] = IF i <= Len(x) THEN x[i] ELSE e[i - Len(x)]
  <2>1. /\ x \o e \in Seq(Byte) /\ Len(x \o e) = Len(x) + Len(e)
        /\ \A i \in 1 .. Len(x) + Len(e) : (x \o e)[i] = IF i <= Len(x) THEN x[i] ELSE e[i - Len(x)]
    <3>1. x \in Seq(Byte) /\ e \in Seq(Byte)
      BY <1>6, <1>9
    <3> QED
      BY <3>1, ConcatProperties
  <2> HIDE DEF y
  <2> QED
    BY <2>1 DEF y
<1> HIDE DEF y
<1>11. Len(x) = n + 1 /\ Len(y) = n + 6 /\ Len(y) # 0
  BY <1>1, <1>2, <1>4, <1>6, <1>9, <1>10
<1>12. \A i \in 1 .. Len(y) : t[k + i - 1] = y[i]
  <2>1. StandsAt(y, t, k)
    BY <1>8 DEF c
  <2> QED
    BY <1>10, <1>11, <2>1, StandsIs
<1>13. y[n + 3] = e[2] /\ y[n + 4] = e[3] /\ y[n + 5] = e[4] /\ y[n + 6] = e[5]
  <2>1. \A i \in 2 .. 5 : n + 1 + i \in 1 .. Len(x) + Len(e) /\ ~ (n + 1 + i <= Len(x)) /\ n + 1 + i - Len(x) = i
    BY <1>1, <1>6, <1>11
  <2>2. ASSUME NEW i \in 2 .. 5 PROVE y[n + 1 + i] = e[i]
    <3>1. y[n + 1 + i] = e[n + 1 + i - Len(x)]
      BY <1>10, <2>1, SMTT(60)
    <3> QED
      BY <2>1, <3>1
  <2>3. n + 1 + 2 = n + 3 /\ n + 1 + 3 = n + 4 /\ n + 1 + 4 = n + 5 /\ n + 1 + 5 = n + 6
    BY <1>1
  <2> QED
    BY <2>2, <2>3
<1>14. /\ t[k + n + 2] = y[n + 3] /\ t[k + n + 3] = y[n + 4] /\ t[k + n + 4] = y[n + 5] /\ t[k + n + 5] = y[n + 6]
  <2>1. \A i \in 3 .. 6 : n + i \in 1 .. Len(y) /\ k + (n + i) - 1 = k + n + (i - 1)
    BY <1>1, <1>11
  <2>2. \A i \in 3 .. 6 : t[k + n + (i - 1)] = y[n + i]
    BY <1>12, <2>1
  <2> QED
    BY <2>2
<1> QED
  BY <1>7, <1>13, <1>14 DEF Whole, Digits, c, ck

\* A parser that is in step has dispatched every intact sentence of what it was fed, and none
\* that does not stand there.
LEMMA NmeaHasSentences ==
  ASSUME StreamTypeOK, NmeaHas(nmea, Heard)
  PROVE  SentencesAreThoseOfTheStream
<1>1. Heard \in Seq(Byte)
  <2>1. from + 1 \in Nat \ {0} /\ pos \in Int /\ pos <= Len(stream) /\ stream \in Seq(Byte)
    BY DEF StreamTypeOK
  <2> QED
    BY <2>1, Part DEF Heard
<1>2. nmea.sentences \in Seq(Sentences)
  BY DEF NmeaHas, Nmeas
<1>3. NoSentenceIsInvented
  <2> SUFFICES ASSUME NEW i \in 1 .. Len(nmea.sentences)
               PROVE  LET s == nmea.sentences[i]
                          ck == NmeaChecksum(s.content)
                      IN  \E k \in 1 .. Len(Heard) :
                            /\ StandsAt(<<Dollar>> \o s.content, Heard, k)
                            /\ LET end == k + 1 + Len(s.content) IN
                               IF s.checked
                                 THEN /\ end + 2 <= Len(Heard) /\ Heard[end] = Star
                                      /\ Hex(Heard[end + 1]) = ck \div 16 /\ Hex(Heard[end + 2]) = ck % 16
                                 ELSE end <= Len(Heard) /\ Heard[end] \in {Cr, Lf}
    BY DEF NoSentenceIsInvented
  <2> DEFINE s == nmea.sentences[i]
  <2>1. s \in Sentences
    BY <1>2
  <2>2. PICK k \in 1 .. Len(Heard) : SentenceAt(s, Heard, k)
    BY DEF NmeaHas, AllThere
  <2> HIDE DEF s
  <2>3. StandsAt(<<Dollar>> \o s.content, Heard, k)
    BY <1>1, <2>1, <2>2, InventedNot
  <2> QED
    BY <2>2, <2>3 DEF SentenceAt, s
<1>4. IntactSentencesAreDispatched
  <2> DEFINE t == Heard
  <2>1. t \in Seq(Byte)
    BY <1>1
  <2> HIDE DEF t
  <2> SUFFICES ASSUME NEW k \in {i \in 1 .. Len(t) : t[i] = Dollar
                                   /\ \A j \in {i - 1, i - 2} : j >= 1 => t[j] # Star},
                      NEW n \in 1 .. BufferLen,
                      k + n + 5 <= Len(t), t[k + n + 1] = Star, StandsAt(Assemble(Content(t, k, n)), t, k),
                      \A i \in 1 .. n : Content(t, k, n)[i] \notin {Dollar, Star, Cr, Lf}
               PROVE  \E i \in 1 .. Len(nmea.sentences) :
                        nmea.sentences[i] = [content |-> Content(t, k, n), checked |-> TRUE]
    BY DEF IntactSentencesAreDispatched, Content, t
  <2>2. k \in 1 .. Len(t) /\ Begins(t, k)
    BY DEF Begins
  <2>3. n \in Nat /\ k + n <= Len(t)
    BY <2>1, <2>2, Bounds
  <2>4. Plain(t, k, n)
    BY <2>1, <2>2, <2>3, ContentIn DEF Plain
  <2>5. Whole(t, k, n)
    BY <2>1, <2>2, <2>4, AssembledIsWhole
  <2>6. Contains(nmea.sentences, Checked(Content(t, k, n)))
    BY <2>2, <2>5 DEF NmeaHas, WholesFound, t
  <2> QED
    BY <2>6 DEF Contains, Checked
<1> QED
  BY <1>3, <1>4 DEF SentencesAreThoseOfTheStream

NmeaInStep == NmeaHas(nmea, Heard)

\* At every moment nmea_parser has dispatched every intact sentence of the stream that it was
\* fed, and only such as stand in it, however read() cut the stream into chunks and whatever
\* bytes stand between the sentences.
THEOREM SentencesTheorem == Spec => []SentencesAreThoseOfTheStream
<1>1. ASSUME Init PROVE NmeaInStep
  <2>1. Heard = <<>> /\ nmea = NewNmea
    BY <1>1 DEF Init, Heard
  <2> QED
    BY <2>1, NewNmeaHas DEF NmeaInStep
<1>2. ASSUME StreamTypeOK, NmeaInStep, [Next]_vars PROVE NmeaInStep'
  <2>1. CASE Restart
    <3>1. Heard' = <<>> /\ nmea' = NewNmea
      BY <1>2, <2>1, RestartHears DEF Restart
    <3> QED
      BY <3>1, NewNmeaHas DEF NmeaInStep
  <2>2. ASSUME NEW n \in 1 .. Chunk, Read(n) PROVE NmeaInStep'
    <3> DEFINE chunk == SubSeq(stream, pos + 1, pos + n)
    <3>1. chunk \in Seq(Byte) /\ Heard \in Seq(Byte) /\ Heard' = Heard \o chunk
      BY <1>2, <2>2, ReadHears
    <3>2. nmea' = FeedNmea(nmea, chunk)
      BY <2>2 DEF Read
    <3>3. nmea \in Nmeas
      BY <1>2 DEF NmeaInStep, NmeaHas
    <3> HIDE DEF chunk
    <3>4. NmeaHas(FeedNmea(nmea, chunk), Heard \o chunk)
      BY <1>2, <3>1, <3>3, FeedNmeaHas DEF NmeaInStep
    <3> QED
      BY <3>1, <3>2, <3>4 DEF NmeaInStep
  <2>3. CASE UNCHANGED vars
    BY <1>2, <2>3 DEF NmeaInStep, NmeaHas, Heard, vars
  <2> QED
    BY <1>2, <2>1, <2>2, <2>3 DEF Next
<1>3. ASSUME StreamTypeOK, NmeaInStep PROVE SentencesAreThoseOfTheStream
  BY <1>3, NmeaHasSentences DEF NmeaInStep
<1> QED
  BY <1>1, <1>2, <1>3, StreamTypeInvariant, PTL DEF Spec

-----------------------------------------------------------------------------
(* Sequences put together.                                                 *)

JoinSteps(D) == [x \in Seq(D) \X Seq(D) |-> x[1] \o x[2]]

\* Joined is a run over the sequences.
LEMMA JoinedRuns ==
  ASSUME NEW D, NEW t \in Seq(Seq(D))
  PROVE  Joined(t) = Run(Seq(D), JoinSteps(D), <<>>, t)
<1> DEFINE n == Len(t)
           S == Seq(D)
           Chosen(f) == f = [s \in SUBSET (1 .. n) |->
                               IF s = {} THEN <<>> ELSE f[s \ {Max(s)}] \o t[Max(s)]]
           g == CHOOSE f : Chosen(f)
           h == CHOOSE f : Folds(f, S, JoinSteps(D), <<>>, t)
<1>1. n \in Nat /\ DOMAIN t = 1 .. n /\ (\A i \in 1 .. n : t[i] \in S) /\ t \in Seq(S)
  OBVIOUS
<1>2. JoinSteps(D) \in [S \X S -> S]
  BY DEF JoinSteps
<1>3. \A q \in S, b \in S : JoinSteps(D)[<<q, b>>] = q \o b
  BY DEF JoinSteps
<1>0. <<>> \in S
  OBVIOUS
<1>4. Folds(h, S, JoinSteps(D), <<>>, t)
  BY <1>0, <1>2, RunDefined
<1>5. Joined(t) = g[1 .. n]
  BY <1>1 DEF Joined, FoldLeft, MapThenFoldSet
<1>6. \A s \in SUBSET (1 .. n) : s # {} => Max(s) \in 1 .. n /\ t[Max(s)] \in S
  BY <1>1, MaxIn
<1> HIDE DEF n, g, h, S
<1>7. Chosen(h)
  <2>1. ASSUME NEW s \in SUBSET (1 .. n), s # {}
        PROVE  h[s] = h[s \ {Max(s)}] \o t[Max(s)]
    <3>1. h[s \ {Max(s)}] \in S
      BY <1>4 DEF Folds, n
    <3> QED
      BY <1>3, <1>4, <1>6, <2>1, <3>1 DEF Folds, n
  <2>2. h = [s \in SUBSET (1 .. n) |-> h[s]] /\ h[{}] = <<>>
    BY <1>4 DEF Folds, n
  <2> QED
    BY <2>1, <2>2
<1>8. Chosen(g)
  BY <1>7 DEF g
<1>9. StepsDown(g, S, JoinSteps(D), <<>>, t)
  BY <1>3, <1>6, <1>8 DEF StepsDown, n
<1>10. Result(g, t) = Run(S, JoinSteps(D), <<>>, t)
  BY <1>0, <1>1, <1>2, <1>9, StepsDownRun
<1> QED
  BY <1>5, <1>10 DEF Result, n, S

\* Joined stays among the elements of the sequences.
LEMMA JoinedIn ==
  ASSUME NEW D, NEW t \in Seq(Seq(D))
  PROVE  Joined(t) \in Seq(D)
<1> DEFINE S == Seq(D)
<1>1. <<>> \in S /\ JoinSteps(D) \in [S \X S -> S] /\ t \in Seq(S)
  BY DEF JoinSteps
<1>2. Joined(t) = Run(S, JoinSteps(D), <<>>, t)
  BY JoinedRuns
<1> HIDE DEF S
<1>3. Run(S, JoinSteps(D), <<>>, t) \in S
  BY <1>1, RunIn
<1> QED
  BY <1>2, <1>3 DEF S

PickSteps(D, S) == [x \in Seq(D) \X D |-> IF x[2] \in S THEN Append(x[1], x[2]) ELSE x[1]]

\* What is picked of a sequence is a sequence of the same elements.
LEMMA PickedIn ==
  ASSUME NEW D, NEW t \in Seq(D), NEW S
  PROVE  Picked(t, S) \in Seq(D)
<1> DEFINE n == Len(t)
           R == Seq(D)
           step == PickSteps(D, S)
           Chosen(f) == f = [s \in SUBSET (1 .. n) |->
                               IF s = {} THEN <<>>
                               ELSE IF t[Max(s)] \in S THEN Append(f[s \ {Max(s)}], t[Max(s)])
                               ELSE f[s \ {Max(s)}]]
           g == CHOOSE f : Chosen(f)
           h == CHOOSE f : Folds(f, R, step, <<>>, t)
<1>1. n \in Nat /\ DOMAIN t = 1 .. n /\ \A i \in 1 .. n : t[i] \in D
  OBVIOUS
<1>2. step \in [R \X D -> R]
  BY DEF PickSteps
<1>3. \A q \in R, b \in D : step[<<q, b>>] = IF b \in S THEN Append(q, b) ELSE q
  BY DEF PickSteps
<1>0. <<>> \in R
  OBVIOUS
<1> HIDE DEF step
<1>4. Folds(h, R, step, <<>>, t)
  BY <1>0, <1>2, RunDefined
<1>5. Picked(t, S) = g[1 .. n]
  BY <1>1 DEF Picked, FoldLeft, MapThenFoldSet
<1>6. \A s \in SUBSET (1 .. n) : s # {} => Max(s) \in 1 .. n /\ t[Max(s)] \in D
  BY <1>1, MaxIn
<1> HIDE DEF n, g, h, R
<1>7. Chosen(h)
  <2>1. ASSUME NEW s \in SUBSET (1 .. n), s # {}
        PROVE  h[s] = IF t[Max(s)] \in S THEN Append(h[s \ {Max(s)}], t[Max(s)])
                      ELSE h[s \ {Max(s)}]
    <3>1. h[s \ {Max(s)}] \in R
      BY <1>4 DEF Folds, n
    <3> QED
      BY <1>3, <1>4, <1>6, <2>1, <3>1 DEF Folds, n
  <2>2. h = [s \in SUBSET (1 .. n) |-> h[s]] /\ h[{}] = <<>>
    BY <1>4 DEF Folds, n
  <2> QED
    BY <2>1, <2>2
<1>8. Chosen(g)
  BY <1>7 DEF g
<1>9. StepsDown(g, R, step, <<>>, t)
  BY <1>3, <1>6, <1>8 DEF StepsDown, n
<1>10. Result(g, t) = Run(R, step, <<>>, t)
  BY <1>0, <1>2, <1>9, StepsDownRun
<1>11. Run(R, step, <<>>, t) \in R
  BY <1>0, <1>2, RunIn
<1> QED
  BY <1>5, <1>10, <1>11 DEF Result, n, R

\* c is b behind a.
Behind(a, b, c, m, n) ==
  /\ Len(c) = m + n
  /\ \A i \in 1 .. m : c[i] = a[i]
  /\ \A i \in 1 .. n : c[m + i] = b[i]

\* Where the elements of two sequences are in both together.
LEMMA Together ==
  ASSUME NEW D, NEW a \in Seq(D), NEW b \in Seq(D)
  PROVE  a \o b \in Seq(D) /\ Behind(a, b, a \o b, Len(a), Len(b))
<1> DEFINE c == a \o b
           m == Len(a)
           n == Len(b)
<1>1. /\ c \in Seq(D) /\ Len(c) = m + n
      /\ \A i \in 1 .. m + n : c[i] = IF i <= m THEN a[i] ELSE b[i - m]
  BY ConcatProperties
<1>2. m \in Nat /\ n \in Nat
  OBVIOUS
<1> HIDE DEF c, m, n
<1>3. ASSUME NEW i \in 1 .. m PROVE c[i] = a[i]
  <2>1. i \in 1 .. m + n /\ i <= m
    BY <1>2
  <2> QED
    BY <1>1, <2>1
<1>4. ASSUME NEW i \in 1 .. n PROVE c[m + i] = b[i]
  <2>1. m + i \in 1 .. m + n /\ ~ (m + i <= m) /\ (m + i) - m = i
    BY <1>2
  <2> QED
    BY <1>1, <2>1
<1> QED
  BY <1>1, <1>3, <1>4 DEF Behind, c, m, n

\* The sequences f are what the places cut divide t into.
Cuts(f, t, cut, n) ==
  /\ cut \in [0 .. n -> Nat]
  /\ cut[0] = 0
  /\ \A j \in 1 .. n : cut[j - 1] <= cut[j] /\ cut[j] <= Len(t)
  /\ \A j \in 1 .. n : f[j] = SubSeq(t, cut[j - 1] + 1, cut[j])

\* What was cut is joined again.
LEMMA JoinedCuts ==
  ASSUME NEW D, NEW t \in Seq(D), NEW n \in Nat, NEW f \in [1 .. n -> Seq(D)], NEW cut,
         Cuts(f, t, cut, n)
  PROVE  Joined(f) = SubSeq(t, 1, cut[n])
<1> DEFINE upTo(m) == [j \in 1 .. m |-> f[j]]
           T == {m \in Nat : m <= n => Joined(upTo(m)) = SubSeq(t, 1, cut[m])}
<1>0. <<>> \in Seq(D) /\ JoinSteps(D) \in [Seq(D) \X Seq(D) -> Seq(D)]
  BY DEF JoinSteps
<1>1. ASSUME NEW m \in 0 .. n
      PROVE  /\ upTo(m) \in Seq(Seq(D)) /\ Len(upTo(m)) = m /\ cut[m] \in Nat /\ cut[m] <= Len(t)
  <2>1. m \in Nat /\ \A j \in 1 .. m : f[j] \in Seq(D)
    OBVIOUS
  <2>2. cut[m] <= Len(t)
    <3>1. CASE m = 0
      BY <3>1 DEF Cuts
    <3>2. CASE m # 0
      <4>1. m \in 1 .. n
        BY <3>2
      <4> QED
        BY <4>1 DEF Cuts
    <3> QED
      BY <3>1, <3>2
  <2> QED
    BY <2>1, <2>2 DEF Cuts
<1>2. 0 \in T
  <2>1. upTo(0) = <<>> /\ SubSeq(t, 1, 0) = <<>> /\ cut[0] = 0 /\ <<>> \in Seq(Seq(D))
    BY DEF Cuts
  <2>2. Joined(<<>>) = <<>>
    <3> DEFINE S == Seq(D)
    <3>1. JoinSteps(D) \in [S \X S -> S] /\ <<>> \in S
      BY <1>0
    <3>2. Joined(<<>>) = Run(S, JoinSteps(D), <<>>, <<>>)
      BY <2>1, JoinedRuns
    <3> HIDE DEF S
    <3> QED
      BY <3>1, <3>2, RunEmpty, ZenonT(60)
  <2> QED
    BY <2>1, <2>2
<1>3. ASSUME NEW m \in Nat, m \in T PROVE m + 1 \in T
  <2> HIDE DEF upTo
  <2> SUFFICES ASSUME m + 1 <= n PROVE Joined(upTo(m + 1)) = SubSeq(t, 1, cut[m + 1])
    OBVIOUS
  <2> USE DEF upTo
  <2> DEFINE part == upTo(m)
             more == upTo(m + 1)
             b == f[m + 1]
  <2>0. m \in 0 .. n /\ m + 1 \in 0 .. n /\ m + 1 \in 1 .. n
    OBVIOUS
  <2>1. part \in Seq(Seq(D)) /\ more \in Seq(Seq(D)) /\ b \in Seq(D)
    BY <1>1, <2>0
  <2>2. OneMore(part, b, more)
    BY <2>0, <2>1 DEF OneMore
  <2>3. Joined(part) = SubSeq(t, 1, cut[m])
    BY <1>3, <2>0
  <2>4. Joined(part) \in Seq(D)
    BY <2>1, JoinedIn
  <2>5. cut[m] \in Nat /\ cut[m + 1] \in Nat /\ cut[m] <= cut[m + 1] /\ cut[m + 1] <= Len(t)
    BY <1>1, <2>0 DEF Cuts
  <2>6. b = SubSeq(t, cut[m] + 1, cut[m + 1])
    <3>1. f[m + 1] = SubSeq(t, cut[(m + 1) - 1] + 1, cut[m + 1]) /\ (m + 1) - 1 = m
      <4>1. \A j \in 1 .. n : f[j] = SubSeq(t, cut[j - 1] + 1, cut[j])
        BY DEF Cuts
      <4>2. (m + 1) - 1 = m
        OBVIOUS
      <4> QED
        BY <2>0, <4>1, <4>2
    <3> QED
      BY <3>1
  <2> HIDE DEF part, more, b
  <2>7. StepTo(Seq(D), JoinSteps(D), <<>>, part, b, more)
    BY <1>0, <2>1, <2>2, RunAppend
  <2>8. Joined(more) = Joined(part) \o b
    BY <2>1, <2>4, <2>7, JoinedRuns DEF StepTo, JoinSteps
  <2>9. SubSeq(t, 1, cut[m]) \o SubSeq(t, cut[m] + 1, cut[m + 1]) = SubSeq(t, 1, cut[m + 1])
    <3>1. /\ 1 \in 1 .. Len(t) + 1 /\ cut[m] \in 1 - 1 .. Len(t) /\ cut[m + 1] \in cut[m] .. Len(t)
          /\ t \in Seq(D)
      BY <2>5
    <3> QED
      BY <3>1, ConcatAdjacentSubSeq
  <2> QED
    BY <2>3, <2>6, <2>8, <2>9 DEF more
<1> HIDE DEF T
<1>4. Nat \subseteq T
  BY <1>2, <1>3, NatSet
<1>5. upTo(n) = f
  OBVIOUS
<1>6. Joined(upTo(n)) = SubSeq(t, 1, cut[n])
  BY <1>4 DEF T
<1> QED
  BY <1>5, <1>6
-----------------------------------------------------------------------------
(* What the parsers read in the sentences of the generator and of a chip.  *)

OrZero(what, n) == IF n > 0 THEN <<what, n>> ELSE Zero

\* The fields are readings.
LEMMA FieldReadings ==
  /\ Empty \in Readings /\ Zero \in Readings
  /\ \A what \in Names, n \in Int : <<what, n>> \in Readings
  /\ \A c \in Letters : Text(c) \in Readings
  /\ \A n \in Int : Num(n) \in Readings
  /\ \A what \in Names, n \in Int : IfPositive(what, n) \in Readings
<1>1. \A what \in Names, n \in Int : <<what, n>> \in Readings
  BY DEF Readings
<1>2. \A c \in Letters : Text(c) \in Readings
  BY DEF Readings, Text
<1>3. Empty \in Readings
  BY DEF Empty, Readings
<1>4. "num" \in Names /\ 0 \in Int
  BY DEF Names
<1>5. \A n \in Int : Num(n) \in Readings
  BY <1>1, <1>4 DEF Num
<1> QED
  BY <1>1, <1>2, <1>3, <1>4, <1>5 DEF IfPositive, Zero

\* What a location says by each sentence.
GgaSays(loc) ==
  [lat |-> <<"lat", loc.lat>>, lon |-> <<"lon", loc.lon>>, quality |-> Num(Quality(loc)),
   sats |-> Num(loc.sats), hdop |-> OrZero("hdop", loc.hdop), alt |-> <<"alt", loc.alt>>,
   sep |-> <<"sep", loc.alt>>]
RmcSays(loc) ==
  [active |-> Active(loc), speed |-> <<"knots", loc.speed>>, course |-> <<"course", loc.course>>]
GsaSays(loc) ==
  [nav |-> Num(NavMode(loc)), pdop |-> OrZero("pdop", loc.pdop),
   hdop |-> OrZero("hdop", loc.hdop), vdop |-> OrZero("vdop", loc.vdop)]
VtgSays(loc) ==
  [magnetic |-> IF loc.valid /\ loc.decl # 0 THEN <<"magnetic", loc.course + loc.decl>> ELSE Empty,
   kmh |-> IF loc.valid THEN <<"kmh", loc.speed>> ELSE Zero]

\* Degrees and minutes side by side, taken apart again.
LEMMA MinutesRead ==
  ASSUME NEW a \in Nat, NEW d, d = (a \div 60) * 100 + (a % 60)
  PROVE  (d \div 100) * 60 + (d % 100) = a
<1>1. PICK q \in Nat, r \in 0 .. 59 : q = a \div 60 /\ r = a % 60 /\ a = 60 * q + r
  OBVIOUS
<1>2. d = q * 100 + r
  BY <1>1
<1>3. d \div 100 = q /\ d % 100 = r
  BY <1>1, <1>2
<1> QED
  BY <1>1, <1>3

\* An angle is read as it was written, in each hemisphere.
LEMMA AngleRead ==
  ASSUME NEW m \in Int, NEW what
  PROVE  /\ ParseLatLon(FormatAngle(what, m), Indicator(m, "N", "S")) = <<what, m>>
         /\ ParseLatLon(FormatAngle(what, m), Indicator(m, "E", "W")) = <<what, m>>
<1> DEFINE a == Magnitude(m)
           d == (a \div 60) * 100 + (a % 60)
           back == (d \div 100) * 60 + (d % 100)
<1>1. a \in Nat /\ (m >= 0 => a = m) /\ (~ (m >= 0) => -a = m)
  BY DEF Magnitude
<1>2. FormatAngle(what, m) = <<what, d>>
  BY DEF FormatAngle
<1> HIDE DEF a
<1>3. back = a
  BY <1>1, MinutesRead
<1>4. <<what, d>>[1] = what /\ <<what, d>>[2] = d
  OBVIOUS
<1>5. \A dir : ParseLatLon(<<what, d>>, dir) =
                  <<what, IF dir \in {Text("S"), Text("W")} THEN -back ELSE back>>
  BY <1>4 DEF ParseLatLon
<1> HIDE DEF back, d
<1>6. /\ Indicator(m, "N", "S") \in {Text("S"), Text("W")} <=> ~ (m >= 0)
      /\ Indicator(m, "E", "W") \in {Text("S"), Text("W")} <=> ~ (m >= 0)
  <2>1. /\ Text("S") \in {Text("S"), Text("W")} /\ Text("W") \in {Text("S"), Text("W")}
        /\ Text("N") \notin {Text("S"), Text("W")} /\ Text("E") \notin {Text("S"), Text("W")}
    BY DEF Text
  <2> QED
    BY <2>1 DEF Indicator
<1> QED
  BY <1>1, <1>2, <1>3, <1>5, <1>6

\* A field that was written is not empty.
LEMMA Written == \A a, b : <<a, b>> # Empty
BY DEF Empty

\* A GGA sentence is read as its location meant it.
LEMMA GgaRead ==
  ASSUME NEW loc \in Locations
  PROVE  /\ Gga(to_gga(loc)).from = loc /\ Gga(to_gga(loc)).type = "GGA"
         /\ GgaParser(Gga(to_gga(loc))) = GgaSays(loc)
<1> DEFINE in == to_gga(loc)
           f == Gga(in).fields
<1>1. Len(f) = 14
  BY DEF Gga, MakeSentence
<1>2. /\ f[2] = FormatAngle("lat", loc.lat) /\ f[3] = Indicator(loc.lat, "N", "S")
      /\ f[4] = FormatAngle("lon", loc.lon) /\ f[5] = Indicator(loc.lon, "E", "W")
      /\ f[6] = Num(Quality(loc)) /\ f[7] = Num(loc.sats) /\ f[8] = IfPositive("hdop", loc.hdop)
      /\ f[9] = <<"alt", loc.alt>> /\ f[11] = <<"sep", loc.alt>>
  BY DEF Gga, MakeSentence, to_gga
<1> HIDE DEF f
<1>3. \A i \in 0 .. 13 : Field(Gga(in), i) = f[i + 1]
  BY <1>1 DEF Field, f
<1> DEFINE F(i) == Field(Gga(in), i)
<1>4. /\ F(1) = f[2] /\ F(2) = f[3] /\ F(3) = f[4] /\ F(4) = f[5] /\ F(5) = f[6] /\ F(6) = f[7]
      /\ F(7) = f[8] /\ F(8) = f[9] /\ F(10) = f[11]
  BY <1>3
<1> HIDE DEF F
<1>5. loc.lat \in Int /\ loc.lon \in Int /\ loc.hdop \in Int
  BY DEF Locations
<1>6. ParseOr(f[8], Zero) = OrZero("hdop", loc.hdop)
  BY <1>2, Written DEF ParseOr, IfPositive, OrZero
<1>7. ParseOr(f[9], Zero) = f[9] /\ ParseOr(f[11], Zero) = f[11]
  BY <1>2, Written DEF ParseOr
<1>8. GgaParser(Gga(in)) =
        [lat |-> ParseLatLon(F(1), F(2)), lon |-> ParseLatLon(F(3), F(4)), quality |-> F(5),
         sats |-> F(6), hdop |-> ParseOr(F(7), Zero), alt |-> ParseOr(F(8), Zero),
         sep |-> ParseOr(F(10), Zero)]
  BY DEF GgaParser, F
<1>9. /\ ParseLatLon(F(1), F(2)) = <<"lat", loc.lat>>
      /\ ParseLatLon(F(3), F(4)) = <<"lon", loc.lon>>
  BY <1>2, <1>4, <1>5, AngleRead
<1>10. GgaParser(Gga(in)) = GgaSays(loc)
  BY <1>2, <1>4, <1>6, <1>7, <1>8, <1>9 DEF GgaSays
<1>11. Gga(in).from = loc /\ Gga(in).type = "GGA"
  BY DEF Gga, MakeSentence, to_gga
<1> QED
  BY <1>10, <1>11

\* An RMC sentence is read as its location meant it.
LEMMA RmcRead ==
  ASSUME NEW loc \in Locations
  PROVE  /\ Rmc(to_rmc(loc)).from = loc /\ Rmc(to_rmc(loc)).type = "RMC"
         /\ RmcParser(Rmc(to_rmc(loc))) = RmcSays(loc)
<1> DEFINE s == Rmc(to_rmc(loc))
           f == s.fields
<1>1. Len(f) = 12
  BY DEF Rmc, MakeSentence
<1>2. /\ f[2] = Text(IF Active(loc) THEN "A" ELSE "V")
      /\ f[7] = <<"knots", loc.speed>> /\ f[8] = <<"course", loc.course>>
  BY DEF Rmc, MakeSentence, to_rmc, Status
<1>3. s.from = loc /\ s.type = "RMC"
  BY DEF Rmc, MakeSentence, to_rmc
<1> HIDE DEF s
<1>4. Field(s, 1) = f[2] /\ Field(s, 6) = f[7] /\ Field(s, 7) = f[8]
  BY <1>1 DEF Field
<1> HIDE DEF f
<1>5. f[2] = Text("A") <=> Active(loc)
  <2>1. Text("A") # Text("V")
    BY DEF Text
  <2> QED
    BY <1>2, <2>1
<1>6. Active(loc) \in BOOLEAN /\ (f[2] = Text("A")) \in BOOLEAN
  BY DEF Active, Locations
<1>7. (f[2] = Text("A")) = Active(loc)
  BY <1>5, <1>6
<1>8. ParseOr(f[7], Zero) = f[7] /\ ParseOr(f[8], Zero) = f[8]
  BY <1>2, Written DEF ParseOr
<1>9. RmcParser(s) = [active |-> f[2] = Text("A"), speed |-> ParseOr(f[7], Zero),
                      course |-> ParseOr(f[8], Zero)]
  BY <1>4 DEF RmcParser
<1>10. RmcParser(s) = RmcSays(loc)
  BY <1>2, <1>7, <1>8, <1>9 DEF RmcSays
<1> QED
  BY <1>3, <1>10 DEF s

\* Where the fields of a GSA sentence stand.
LEMMA GsaPlaces ==
  ASSUME NEW nav \in Int, NEW sats \in Seq(Satellites),
         NEW p \in Readings, NEW h \in Readings, NEW v \in Readings,
         NEW s, s.fields = GsaFields(nav, sats, p, h, v)
  PROVE  /\ GsaFields(nav, sats, p, h, v) \in Seq(Readings)
         /\ Field(s, 1) = Num(nav) /\ Field(s, 14) = p /\ Field(s, 15) = h /\ Field(s, 16) = v
<1> DEFINE a == <<Text("A"), Num(nav)>>
           b == [i \in 1 .. 12 |-> IF i <= Len(sats) THEN <<"id", sats[i].sv>> ELSE Empty]
           c == <<p, h, v>>
           f == GsaFields(nav, sats, p, h, v)
<1>1. Text("A") \in Readings /\ Num(nav) \in Readings /\ Empty \in Readings
  <2>1. "A" \in Letters
    BY DEF Letters
  <2> QED
    BY <2>1, FieldReadings
<1>2. \A i \in 1 .. Len(sats) : sats[i].sv \in Int
  <2>1. \A sv \in Satellites : sv.sv \in Int
    BY DEF Satellites
  <2>2. \A i \in 1 .. Len(sats) : sats[i] \in Satellites
    OBVIOUS
  <2> QED
    BY <2>1, <2>2
<1>3. a \in Seq(Readings) /\ Len(a) = 2 /\ a[2] = Num(nav)
  BY <1>1
<1>4. b \in Seq(Readings) /\ Len(b) = 12
  <2>1. ASSUME NEW i \in 1 .. 12 PROVE b[i] \in Readings
    <3>1. i <= Len(sats) => <<"id", sats[i].sv>> \in Readings
      <4>1. i \in 1 .. 12 /\ Len(sats) \in Nat /\ "id" \in Names
        BY DEF Names
      <4> QED
        BY <1>2, <4>1, FieldReadings
    <3> QED
      BY <1>1, <3>1
  <2>2. b \in [1 .. 12 -> Readings] /\ 12 \in Nat
    BY <2>1
  <2> QED
    BY <2>2
<1>5. c \in Seq(Readings) /\ Len(c) = 3 /\ c[1] = p /\ c[2] = h /\ c[3] = v
  OBVIOUS
<1>6. f = (a \o b) \o c
  BY DEF GsaFields
<1> HIDE DEF a, b, c, f
<1>7. /\ f \in Seq(Readings) /\ Len(f) = 17 /\ f[2] = a[2]
      /\ f[15] = c[1] /\ f[16] = c[2] /\ f[17] = c[3]
  <2> DEFINE d == a \o b
  <2>1. d \in Seq(Readings) /\ Behind(a, b, d, 2, 12)
    BY <1>3, <1>4, Together
  <2> HIDE DEF d
  <2>2. Len(d) = 14
    BY <2>1 DEF Behind
  <2>3. d \o c \in Seq(Readings) /\ Behind(d, c, d \o c, 14, 3)
    BY <1>5, <2>1, <2>2, Together
  <2> DEFINE e == d \o c
  <2>4. e = f /\ e \in Seq(Readings) /\ Behind(d, c, e, 14, 3)
    BY <1>6, <2>3 DEF d
  <2> HIDE DEF e
  <2>5. Len(e) = 17 /\ e[2] = d[2] /\ e[14 + 1] = c[1] /\ e[14 + 2] = c[2] /\ e[14 + 3] = c[3]
    BY <2>4 DEF Behind
  <2>6. d[2] = a[2]
    BY <2>1 DEF Behind
  <2> QED
    BY <2>4, <2>5, <2>6
<1>8. Field(s, 1) = f[2] /\ Field(s, 14) = f[15] /\ Field(s, 15) = f[16] /\ Field(s, 16) = f[17]
  BY <1>7 DEF Field, f
<1> QED
  BY <1>3, <1>5, <1>7, <1>8 DEF f

\* What a GSA sentence with these fields says, whatever satellites it names.
LEMMA GsaReads ==
  ASSUME NEW loc \in Locations, NEW sats \in Seq(Satellites), NEW s,
         s.fields = GsaFields(NavMode(loc), sats, IfPositive("pdop", loc.pdop),
                              IfPositive("hdop", loc.hdop), IfPositive("vdop", loc.vdop))
  PROVE  s.fields \in Seq(Readings) /\ GsaParser(s) = GsaSays(loc)
<1>1. NavMode(loc) \in Int /\ loc.pdop \in Int /\ loc.hdop \in Int /\ loc.vdop \in Int
  BY DEF NavMode, Locations
<1>3. \A what, n : ParseOr(IfPositive(what, n), Zero) = OrZero(what, n)
  BY Written DEF ParseOr, IfPositive, OrZero
<1> DEFINE p == IfPositive("pdop", loc.pdop)
           h == IfPositive("hdop", loc.hdop)
           v == IfPositive("vdop", loc.vdop)
<1>4. p \in Readings /\ h \in Readings /\ v \in Readings
  <2>1. "pdop" \in Names /\ "hdop" \in Names /\ "vdop" \in Names
    BY DEF Names
  <2> QED
    BY <1>1, <2>1, FieldReadings
<1>5. /\ ParseOr(p, Zero) = OrZero("pdop", loc.pdop) /\ ParseOr(h, Zero) = OrZero("hdop", loc.hdop)
      /\ ParseOr(v, Zero) = OrZero("vdop", loc.vdop)
  BY <1>3
<1>6. s.fields = GsaFields(NavMode(loc), sats, p, h, v)
  OBVIOUS
<1> HIDE DEF p, h, v
<1>7. /\ s.fields \in Seq(Readings)
      /\ Field(s, 1) = Num(NavMode(loc)) /\ Field(s, 14) = p /\ Field(s, 15) = h /\ Field(s, 16) = v
  BY <1>1, <1>4, <1>6, GsaPlaces
<1>8. ParseOr(Num(NavMode(loc)), Zero) = Num(NavMode(loc))
  BY Written DEF ParseOr, Num
<1> QED
  BY <1>5, <1>7, <1>8 DEF GsaParser, GsaSays

\* A VTG sentence is read as its location meant it.
LEMMA VtgRead ==
  ASSUME NEW loc \in Locations, loc.valid
  PROVE  /\ Vtg(to_vtg(loc)).from = loc /\ Vtg(to_vtg(loc)).type = "VTG"
         /\ VtgParser(Vtg(to_vtg(loc))) = VtgSays(loc)
<1> DEFINE s == Vtg(to_vtg(loc))
           f == s.fields
<1>1. Len(f) = 9
  BY DEF Vtg, MakeSentence
<1>2. /\ f[3] = IF loc.decl # 0 THEN <<"magnetic", loc.course + loc.decl>> ELSE Empty
      /\ f[7] = <<"kmh", loc.speed>>
  BY DEF Vtg, MakeSentence, to_vtg
<1>3. s.from = loc /\ s.type = "VTG"
  BY DEF Vtg, MakeSentence, to_vtg
<1> HIDE DEF s
<1>4. Field(s, 2) = f[3] /\ Field(s, 6) = f[7]
  BY <1>1 DEF Field
<1> HIDE DEF f
<1>5. ParseOr(f[7], Zero) = f[7]
  BY <1>2, Written DEF ParseOr
<1>6. VtgParser(s) = VtgSays(loc)
  BY <1>2, <1>4, <1>5 DEF VtgParser, VtgSays
<1> QED
  BY <1>3, <1>6 DEF s

-----------------------------------------------------------------------------
(* All sentences that may come.                                            *)

Valid == {loc \in Locations : loc.valid}
Invalid == {loc \in Locations : ~loc.valid}

GgaSentences == {Gga(to_gga(loc)) : loc \in Valid} \cup {VoidGga(loc) : loc \in Invalid}
RmcSentences == {Rmc(to_rmc(loc)) : loc \in Valid} \cup {VoidRmc(loc) : loc \in Invalid}
GsaSentences == {Gsa(to_gsa(loc, sky)) : loc \in Valid, sky \in Seq(Satellites)}
                \cup {VoidGsa(loc) : loc \in Invalid}
VtgSentences == {Vtg(to_vtg(loc)) : loc \in Valid} \cup {VoidVtg(loc) : loc \in Invalid}
GsvParts(set) == {GsvPart(set, msg) : msg \in 1 .. Messages(set)}
GsvSentences == UNION {GsvParts(set) \cup {WithSignal(s) : s \in GsvParts(set)} : set \in Seq(Satellites)}
Times == [valid : {TRUE}, time : Nat]
OtherSentences == {Gll(to_gll(loc)) : loc \in Valid} \cup {Zda(to_zda(loc)) : loc \in Valid}
                  \cup {Zda(to_zda_timing(tim)) : tim \in Times}
AllSentences == GgaSentences \cup RmcSentences \cup GsaSentences \cup VtgSentences \cup GsvSentences
             \cup OtherSentences

\* A location without a fix.
LEMMA NoFixIs ==
  ASSUME NEW loc \in Invalid
  PROVE  /\ NoFix(loc) \in Locations /\ ~NoFix(loc).valid /\ NoFix(loc).fix = 0 /\ ~NoFix(loc).ok
<1> DEFINE n == [loc EXCEPT !.fix = 0, !.ok = FALSE]
<1>1. loc \in Locations /\ ~loc.valid
  BY DEF Invalid
<1>2. 0 \in Int /\ FALSE \in BOOLEAN
  OBVIOUS
<1>3. n \in Locations
  BY <1>1, <1>2 DEF Locations
<1>4. n.valid = loc.valid /\ n.fix = 0 /\ n.ok = FALSE
  BY <1>1 DEF Locations
<1> HIDE DEF n
<1> QED
  BY <1>1, <1>3, <1>4 DEF NoFix, n

\* A GGA sentence that the parser accepts says what its location says; one without a fix is not accepted.
LEMMA GgaArrived ==
  ASSUME NEW s \in GgaSentences
  PROVE  /\ s.type = "GGA"
         /\ Accepts(s) => s.from \in Locations /\ GgaParser(s) = GgaSays(s.from)
<1>1. CASE \E loc \in Valid : s = Gga(to_gga(loc))
  BY <1>1, GgaRead DEF Valid
<1>2. ASSUME NEW loc \in Invalid, s = VoidGga(loc) PROVE s.type = "GGA" /\ ~Accepts(s)
  <2>1. s.type = "GGA" /\ Len(s.fields) = 14 /\ s.fields[2] = Empty
    BY <1>2 DEF VoidGga, MakeSentence
  <2>2. Field(s, 1) = Empty
    BY <2>1 DEF Field
  <2> QED
    BY <2>1, <2>2 DEF Accepts
<1> QED
  BY <1>1, <1>2 DEF GgaSentences

\* An RMC sentence that the parser accepts says what its location says; one without a fix is not accepted.
LEMMA RmcArrived ==
  ASSUME NEW s \in RmcSentences
  PROVE  /\ s.type = "RMC"
         /\ Accepts(s) => s.from \in Locations /\ RmcParser(s) = RmcSays(s.from)
<1>1. CASE \E loc \in Valid : s = Rmc(to_rmc(loc))
  BY <1>1, RmcRead DEF Valid
<1>2. ASSUME NEW loc \in Invalid, s = VoidRmc(loc) PROVE s.type = "RMC" /\ ~Accepts(s)
  <2>1. s.type = "RMC" /\ Len(s.fields) = 12 /\ s.fields[3] = Empty
    BY <1>2 DEF VoidRmc, MakeSentence
  <2>2. Field(s, 2) = Empty
    BY <2>1 DEF Field
  <2> QED
    BY <2>1, <2>2 DEF Accepts
<1> QED
  BY <1>1, <1>2 DEF RmcSentences

\* A GSA sentence says what its location says, with a fix or without.
LEMMA GsaArrived ==
  ASSUME NEW s \in GsaSentences
  PROVE  s.type = "GSA" /\ s.from \in Locations /\ GsaParser(s) = GsaSays(s.from)
<1>1. ASSUME NEW loc \in Valid, NEW sky \in Seq(Satellites), s = Gsa(to_gsa(loc, sky))
      PROVE  s.type = "GSA" /\ s.from = loc /\ GsaParser(s) = GsaSays(loc)
  <2> DEFINE in == to_gsa(loc, sky)
             used == Picked(sky, {sv \in Range(sky) : sv.used})
  <2>1. used \in Seq(Satellites)
    BY PickedIn
  <2> HIDE DEF used
  <2>2. SubSeq(used, 1, 12) \in Seq(Satellites) \/ ~ (Len(used) > 12)
    BY <2>1
  <2>3. /\ in.sats = IF Len(used) > 12 THEN SubSeq(used, 1, 12) ELSE used
        /\ in.nav = NavMode(loc) /\ in.pdop = loc.pdop /\ in.hdop = loc.hdop /\ in.vdop = loc.vdop
        /\ in.from = loc
    BY DEF to_gsa, used
  <2>4. in.sats \in Seq(Satellites)
    BY <2>1, <2>2, <2>3
  <2>5. s.type = "GSA" /\ s.from = in.from
        /\ s.fields = GsaFields(in.nav, in.sats, IfPositive("pdop", in.pdop),
                                IfPositive("hdop", in.hdop), IfPositive("vdop", in.vdop))
    BY <1>1 DEF Gsa, MakeSentence
  <2> HIDE DEF in
  <2>6. loc \in Locations
    BY DEF Valid
  <2> QED
    BY <2>3, <2>4, <2>5, <2>6, GsaReads, ZenonT(60)
<1>2. ASSUME NEW loc \in Invalid, s = VoidGsa(loc)
      PROVE  s.type = "GSA" /\ s.from \in Locations /\ GsaParser(s) = GsaSays(s.from)
  <2> DEFINE at == [NoFix(loc) EXCEPT !.pdop = 99, !.hdop = 99, !.vdop = 99]
  <2>1. at \in Locations /\ at.fix = 0 /\ at.pdop = 99 /\ at.hdop = 99 /\ at.vdop = 99
    <3> DEFINE n == NoFix(loc)
    <3>1. n \in Locations /\ n.fix = 0 /\ 99 \in Int
      BY NoFixIs
    <3> HIDE DEF n
    <3> DEFINE m == [n EXCEPT !.pdop = 99, !.hdop = 99, !.vdop = 99]
    <3>2. m \in Locations
      <4> DEFINE p == [n EXCEPT !.pdop = 99]
                 q == [p EXCEPT !.hdop = 99]
                 r == [q EXCEPT !.vdop = 99]
      <4>1. m = r
        OBVIOUS
      <4> HIDE DEF m
      <4>2. p \in Locations
        BY <3>1 DEF Locations
      <4> HIDE DEF p
      <4>3. q \in Locations
        BY <3>1, <4>2 DEF Locations
      <4> HIDE DEF q
      <4>4. r \in Locations
        BY <3>1, <4>3 DEF Locations
      <4> QED
        BY <4>1, <4>4
    <3>3. m.fix = 0 /\ m.pdop = 99 /\ m.hdop = 99 /\ m.vdop = 99
      BY <3>1 DEF Locations
    <3> QED
      BY <3>2, <3>3 DEF n
  <2>2. /\ s.type = "GSA" /\ s.from = at
        /\ s.fields = GsaFields(1, <<>>, <<"pdop", 99>>, <<"hdop", 99>>, <<"vdop", 99>>)
    BY <1>2 DEF VoidGsa, MakeSentence
  <2> HIDE DEF at
  <2>3. /\ NavMode(at) = 1 /\ IfPositive("pdop", at.pdop) = <<"pdop", 99>>
        /\ IfPositive("hdop", at.hdop) = <<"hdop", 99>> /\ IfPositive("vdop", at.vdop) = <<"vdop", 99>>
    BY <2>1 DEF NavMode, IfPositive
  <2>4. <<>> \in Seq(Satellites)
    OBVIOUS
  <2> QED
    <3>1. s.fields = GsaFields(NavMode(at), <<>>, IfPositive("pdop", at.pdop),
                               IfPositive("hdop", at.hdop), IfPositive("vdop", at.vdop))
      BY <2>2, <2>3
    <3>2. GsaParser(s) = GsaSays(at)
      BY <2>1, <2>4, <3>1, GsaReads
    <3> QED
      BY <2>1, <2>2, <3>2
<1>3. \A loc \in Valid : loc \in Locations
  BY DEF Valid
<1> QED
  BY <1>1, <1>2, <1>3 DEF GsaSentences

\* A VTG sentence says what its location says; without a fix its empty fields are read as zero.
LEMMA VtgArrived ==
  ASSUME NEW s \in VtgSentences
  PROVE  s.type = "VTG" /\ s.from \in Locations /\ VtgParser(s) = VtgSays(s.from)
<1>1. CASE \E loc \in Valid : s = Vtg(to_vtg(loc))
  BY <1>1, VtgRead DEF Valid
<1>2. ASSUME NEW loc \in Invalid, s = VoidVtg(loc)
      PROVE  s.type = "VTG" /\ s.from \in Locations /\ VtgParser(s) = VtgSays(s.from)
  <2>1. /\ s.type = "VTG" /\ s.from = NoFix(loc) /\ Len(s.fields) = 9
        /\ s.fields[3] = Empty /\ s.fields[7] = Empty
    BY <1>2 DEF VoidVtg, MakeSentence
  <2>2. Field(s, 2) = Empty /\ Field(s, 6) = Empty
    BY <2>1 DEF Field
  <2>3. NoFix(loc) \in Locations /\ ~NoFix(loc).valid
    BY NoFixIs
  <2> QED
    BY <2>1, <2>2, <2>3 DEF VtgParser, VtgSays, ParseOr
<1> QED
  BY <1>1, <1>2 DEF VtgSentences

-----------------------------------------------------------------------------
(* A set of GSV sentences and what is read in it.                          *)

\* What a satellite is in the store.
Seen(sv) ==
  [id |-> <<"id", sv.sv>>, elev |-> IF sv.elev >= 0 THEN <<"elev", sv.elev>> ELSE Num(-1),
   azim |-> <<"azim", sv.azim>>, snr |-> IF sv.cno > 0 THEN <<"snr", sv.cno>> ELSE Num(-1)]
SeenSats == [id : Readings, elev : Readings, azim : Readings, snr : Readings]
SeenOf(set) == [i \in 1 .. Len(set) |-> Seen(set[i])]

\* The satellites of the set in its first m sentences.
UpTo(set, m) == IF m * PerMessage <= Len(set) THEN m * PerMessage ELSE Len(set)

\* What the sentence msg of the set says.
PartSays(set, msg) ==
  [msgs |-> Messages(set), msg |-> msg, inView |-> Len(set),
   sats |-> SubSeq(SeenOf(set), UpTo(set, msg - 1) + 1, UpTo(set, msg))]

\* As many parts of p as n takes: all but the last are full, the last is not empty.
LEMMA PartCount ==
  ASSUME NEW p \in Nat \ {0}, NEW n \in Nat \ {0}, NEW k, k = (n + p - 1) \div p
  PROVE  k \in Nat \ {0} /\ k * p >= n /\ (k - 1) * p <= n - 1
<1>1. k \in Int /\ k * p <= n + p - 1 /\ n + p - 1 < k * p + p
  OBVIOUS
<1>2. k > 0
  <2>1. CASE k <= 0
    <3>1. k * p <= 0
      BY <1>1, <2>1
    <3> QED
      BY <1>1, <3>1
  <2> QED
    BY <1>1, <2>1
<1>3. (k - 1) * p = k * p - p
  BY <1>1
<1> QED
  BY <1>1, <1>2, <1>3

\* Fewer parts have no more.
LEMMA PartsGrow ==
  ASSUME NEW p \in Nat, NEW i \in Nat, NEW k \in Nat, i <= k
  PROVE  i * p <= k * p /\ i * p \in Nat
<1>1. PICK d \in Nat : k = i + d
  <2>1. k - i \in Nat /\ k = i + (k - i)
    OBVIOUS
  <2> QED
    BY <2>1
<1>2. k * p = i * p + d * p /\ d * p \in Nat /\ i * p \in Nat
  BY <1>1
<1> QED
  BY <1>2

\* How a set is divided into sentences.
LEMMA SetDivided ==
  ASSUME NEW set \in Seq(Satellites)
  PROVE  /\ Messages(set) \in Nat \ {0}
         /\ UpTo(set, 0) = 0 /\ UpTo(set, Messages(set)) = Len(set)
         /\ \A m \in 0 .. Messages(set) : UpTo(set, m) \in Nat /\ UpTo(set, m) <= Len(set)
         /\ \A m \in 1 .. Messages(set) :
              /\ UpTo(set, m - 1) = (m - 1) * PerMessage /\ UpTo(set, m - 1) <= UpTo(set, m)
              /\ UpTo(set, m) - UpTo(set, m - 1) <= PerMessage
<1> DEFINE n == Len(set)
           p == PerMessage
           k == Messages(set)
<1>1. n \in Nat /\ p \in Nat \ {0} /\ (set = <<>> <=> n = 0)
  BY PathAssumption
<1>2. k \in Nat \ {0} /\ k * p >= n /\ (k - 1) * p <= n
  <2>1. CASE set = <<>>
    <3>1. k = 1 /\ n = 0
      BY <2>1, <1>1 DEF Messages
    <3> HIDE DEF k, n, p
    <3> QED
      BY <3>1, <1>1
  <2>2. CASE set # <<>>
    <3>1. k = (n + p - 1) \div p
      BY <2>2 DEF Messages
    <3> HIDE DEF k, n, p
    <3> QED
      <4>1. n \in Nat \ {0} /\ p \in Nat \ {0}
        BY <1>1, <2>2
      <4>2. k \in Nat \ {0} /\ k * p >= n /\ (k - 1) * p <= n - 1
        BY <3>1, <4>1, PartCount
      <4>3. (k - 1) * p \in Int
        BY <4>1, <4>2
      <4> QED
        BY <4>1, <4>2, <4>3
  <2> QED
    BY <2>1, <2>2
<1>3. \A m : UpTo(set, m) = IF m * p <= n THEN m * p ELSE n
  BY DEF UpTo
<1> HIDE DEF n, p, k
<1>4. UpTo(set, 0) = 0 /\ UpTo(set, k) = n
  BY <1>1, <1>2, <1>3
<1>5. ASSUME NEW m \in 0 .. k PROVE UpTo(set, m) \in Nat /\ UpTo(set, m) <= n
  <2>1. m * p \in Nat
    BY <1>1
  <2> QED
    BY <1>1, <1>3, <2>1
<1>6. ASSUME NEW m \in 1 .. k
      PROVE  /\ UpTo(set, m - 1) = (m - 1) * p /\ UpTo(set, m - 1) <= UpTo(set, m)
             /\ UpTo(set, m) - UpTo(set, m - 1) <= p
  <2>1. m - 1 \in Nat /\ k - 1 \in Nat /\ m - 1 <= k - 1 /\ p \in Nat
    BY <1>1, <1>2
  <2>2. (m - 1) * p <= (k - 1) * p /\ (m - 1) * p \in Nat /\ (k - 1) * p \in Nat
    BY <2>1, PartsGrow
  <2>3. m * p = (m - 1) * p + p /\ m * p \in Nat
    BY <1>1, <1>2
  <2>4. (m - 1) * p <= n
    BY <1>1, <1>2, <2>2
  <2> QED
    BY <1>1, <1>3, <2>2, <2>3, <2>4
<1> QED
  BY <1>2, <1>4, <1>5, <1>6 DEF n, k, p

\* Four fields for a satellite.
LEMMA BlockIn ==
  ASSUME NEW sv \in Satellites
  PROVE  Block(sv) \in Seq(Readings) /\ Len(Block(sv)) = 4
<1>1. sv.sv \in Int /\ sv.elev \in Int /\ sv.azim \in Int /\ sv.cno \in Int
  BY DEF Satellites
<1>2. "id" \in Names /\ "elev" \in Names /\ "azim" \in Names /\ "snr" \in Names
  BY DEF Names
<1> DEFINE a == <<"id", sv.sv>>
           b == IF sv.elev >= 0 THEN <<"elev", sv.elev>> ELSE Empty
           c == <<"azim", sv.azim>>
           d == IfPositive("snr", sv.cno)
<1>3. a \in Readings /\ b \in Readings /\ c \in Readings /\ d \in Readings
  BY <1>1, <1>2, FieldReadings
<1>4. Block(sv) = <<a, b, c, d>>
  BY DEF Block
<1> HIDE DEF a, b, c, d
<1> QED
  BY <1>3, <1>4

\* The store has nothing else of a satellite than its block says.
LEMMA BlockSays ==
  ASSUME NEW sv \in Satellites
  PROVE  /\ ParseOr(Block(sv)[1], Zero) = Seen(sv).id
         /\ ParseOr(Block(sv)[2], Num(-1)) = Seen(sv).elev
         /\ ParseOr(Block(sv)[3], Zero) = Seen(sv).azim
         /\ ParseOr(Block(sv)[4], Num(-1)) = Seen(sv).snr
<1>1. /\ Block(sv)[1] = <<"id", sv.sv>>
      /\ Block(sv)[2] = IF sv.elev >= 0 THEN <<"elev", sv.elev>> ELSE Empty
      /\ Block(sv)[3] = <<"azim", sv.azim>>
      /\ Block(sv)[4] = IF sv.cno > 0 THEN <<"snr", sv.cno>> ELSE Empty
  BY DEF Block, IfPositive
<1> QED
  BY <1>1, Written DEF ParseOr, Seen

\* What the store has of a satellite is readings.
LEMMA SeenIn ==
  ASSUME NEW sv \in Satellites
  PROVE  Seen(sv) \in SeenSats
<1>1. sv.sv \in Int /\ sv.elev \in Int /\ sv.azim \in Int /\ sv.cno \in Int
  BY DEF Satellites
<1>2. "id" \in Names /\ "elev" \in Names /\ "azim" \in Names /\ "snr" \in Names /\ -1 \in Int
  BY DEF Names
<1> DEFINE a == <<"id", sv.sv>>
           b == IF sv.elev >= 0 THEN <<"elev", sv.elev>> ELSE Num(-1)
           c == <<"azim", sv.azim>>
           d == IF sv.cno > 0 THEN <<"snr", sv.cno>> ELSE Num(-1)
<1>3. a \in Readings /\ b \in Readings /\ c \in Readings /\ d \in Readings
  BY <1>1, <1>2, FieldReadings
<1>4. Seen(sv) = [id |-> a, elev |-> b, azim |-> c, snr |-> d]
  BY DEF Seen
<1> HIDE DEF a, b, c, d
<1> QED
  BY <1>3, <1>4 DEF SeenSats

\* The fields of c satellites, four for each, are where the parser looks for them.
Blocks(f, set, at, c) ==
  \A b \in 1 .. c : \A i \in 1 .. 4 : f[4 * (b - 1) + i] = Block(set[at + b])[i]

\* The blocks of satellites side by side: each field is where the parser looks for it.
LEMMA BlocksJoined ==
  ASSUME NEW set \in Seq(Satellites), NEW at \in Nat, NEW c \in Nat, at + c <= Len(set),
         NEW blocks, blocks = [b \in 1 .. c |-> Block(set[at + b])]
  PROVE  /\ Joined(blocks) \in Seq(Readings) /\ Len(Joined(blocks)) = 4 * c
         /\ Blocks(Joined(blocks), set, at, c)
<1> DEFINE t == [x \in 1 .. 4 * c |-> Block(set[(at + 1) + ((x - 1) \div 4)])[((x - 1) % 4) + 1]]
           cut == [j \in 0 .. c |-> 4 * j]
<1>1. \A b \in 1 .. c : set[at + b] \in Satellites
  <2>1. \A i \in 1 .. Len(set) : set[i] \in Satellites
    OBVIOUS
  <2>2. \A b \in 1 .. c : at + b \in 1 .. Len(set)
    OBVIOUS
  <2> QED
    BY <2>1, <2>2
<1>2. \A b \in 1 .. c : blocks[b] \in Seq(Readings) /\ Len(blocks[b]) = 4
  BY <1>1, BlockIn
<1>3. ASSUME NEW b \in 1 .. c, NEW i \in 1 .. 4
      PROVE  4 * (b - 1) + i \in 1 .. 4 * c /\ t[4 * (b - 1) + i] = blocks[b][i]
  <2> DEFINE x == 4 * (b - 1) + i
  <2>1. x \in 1 .. 4 * c /\ (x - 1) \div 4 = b - 1 /\ (x - 1) % 4 = i - 1
    <3> DEFINE q == b - 1
               r == i - 1
               y == x - 1
    <3>1. q \in 0 .. c - 1 /\ r \in 0 .. 3 /\ y = 4 * q + r /\ x = y + 1
      OBVIOUS
    <3> HIDE DEF q, r, x, y
    <3>2. y \div 4 = q /\ y % 4 = r /\ y \in 0 .. 4 * c - 1
      BY <3>1
    <3>3. x - 1 = y /\ x \in 1 .. 4 * c
      BY <3>1, <3>2
    <3> QED
      BY <3>2, <3>3 DEF q, r
  <2>2. (at + 1) + (b - 1) = at + b /\ (i - 1) + 1 = i
    OBVIOUS
  <2> HIDE DEF x
  <2>3. t[x] = Block(set[(at + 1) + ((x - 1) \div 4)])[((x - 1) % 4) + 1]
    BY <2>1
  <2>4. t[x] = Block(set[at + b])[i]
    BY <2>1, <2>2, <2>3
  <2> QED
    BY <2>1, <2>4 DEF x
<1>4. ASSUME NEW x \in 1 .. 4 * c PROVE t[x] \in Readings
  <2> DEFINE b == ((x - 1) \div 4) + 1
             i == ((x - 1) % 4) + 1
  <2>1. b \in 1 .. c /\ i \in 1 .. 4 /\ x = 4 * (b - 1) + i
    <3> DEFINE y == x - 1
    <3>1. y \in 0 .. 4 * c - 1 /\ x = y + 1
      OBVIOUS
    <3> HIDE DEF y
    <3>2. PICK q \in Int, r \in 0 .. 3 : q = y \div 4 /\ r = y % 4 /\ y = 4 * q + r
      BY <3>1
    <3>3. b = q + 1 /\ i = r + 1 /\ q \in 0 .. c - 1
      BY <3>1, <3>2 DEF y
    <3> HIDE DEF b, i
    <3> QED
      BY <3>1, <3>2, <3>3
  <2> HIDE DEF b, i
  <2>2. t[x] = blocks[b][i]
    BY <1>3, <2>1
  <2>3. blocks[b] \in Seq(Readings) /\ i \in 1 .. Len(blocks[b])
    BY <1>2, <2>1
  <2> QED
    BY <2>2, <2>3
<1>5. t \in Seq(Readings) /\ Len(t) = 4 * c
  <2>1. t \in [1 .. 4 * c -> Readings] /\ 4 * c \in Nat
    BY <1>4
  <2> QED
    BY <2>1
<1> HIDE DEF t
<1>6. ASSUME NEW j \in 1 .. c PROVE blocks[j] = SubSeq(t, cut[j - 1] + 1, cut[j])
  <2>1. cut[j - 1] + 1 = 4 * (j - 1) + 1 /\ cut[j] = 4 * (j - 1) + 4
    OBVIOUS
  <2> DEFINE part == SubSeq(t, 4 * (j - 1) + 1, 4 * (j - 1) + 4)
  <2>2. 4 * (j - 1) + 1 \in 1 .. Len(t) + 1 /\ 4 * (j - 1) + 4 \in 0 .. Len(t)
    BY <1>5
  <2>3. part \in Seq(Readings) /\ Len(part) = 4 /\ \A i \in 1 .. 4 : part[i] = t[4 * (j - 1) + i]
    <3> DEFINE o == 4 * (j - 1)
    <3>1. o \in Nat /\ o + 4 <= Len(t) /\ Len(t) \in Nat
      BY <2>2
    <3> HIDE DEF o
    <3> DEFINE sub == SubSeq(t, o + 1, o + 4)
    <3>2. sub \in Seq(Readings) /\ Len(sub) = 4 /\ \A i \in 1 .. 4 : sub[i] = t[o + i]
      BY <1>5, <3>1
    <3> QED
      BY <3>2 DEF o
  <2> HIDE DEF part
  <2>4. \A i \in 1 .. 4 : part[i] = blocks[j][i]
    BY <1>3, <2>3
  <2>5. part = blocks[j]
    BY <1>2, <2>3, <2>4, SeqEqual, ZenonT(60)
  <2> QED
    BY <2>1, <2>5 DEF part
<1>7. Cuts(blocks, t, cut, c)
  <2>1. cut \in [0 .. c -> Nat] /\ cut[0] = 0
    OBVIOUS
  <2>2. \A j \in 1 .. c : cut[j - 1] <= cut[j] /\ cut[j] <= Len(t)
    BY <1>5
  <2> QED
    BY <1>6, <2>1, <2>2 DEF Cuts
<1>8. cut[c] = 4 * c
  OBVIOUS
<1> HIDE DEF cut
<1>9. blocks \in [1 .. c -> Seq(Readings)]
  BY <1>2
<1>10. Joined(blocks) = SubSeq(t, 1, cut[c])
  BY <1>5, <1>7, <1>9, JoinedCuts
<1>11. Joined(blocks) = t
  BY <1>5, <1>8, <1>10, SubSeqFull
<1> QED
  BY <1>1, <1>3, <1>5, <1>11 DEF Blocks

\* Fields like those of the sentence msg of the set, with or without the signal.
PartFields(f, set, msg) ==
  LET at == UpTo(set, msg - 1)
      c == UpTo(set, msg) - at
  IN  /\ Len(f) = 3 + 4 * c \/ Len(f) = 3 + 4 * c + 1
      /\ f[1] = Num(Messages(set)) /\ f[2] = Num(msg) /\ f[3] = Num(Len(set))
      /\ \A b \in 1 .. c : \A i \in 1 .. 4 : f[3 + (4 * (b - 1) + i)] = Block(set[at + b])[i]

\* What the parser makes of them.
LEMMA PartParsed ==
  ASSUME NEW set \in Seq(Satellites), NEW msg \in 1 .. Messages(set), NEW s,
         PartFields(s.fields, set, msg)
  PROVE  GsvParser(s) = PartSays(set, msg)
<1> DEFINE f == s.fields
           at == UpTo(set, msg - 1)
           to == UpTo(set, msg)
           c == to - at
           p == PerMessage
           all == SeenOf(set)
<1>1. /\ at \in Nat /\ to \in Nat /\ at <= to /\ to <= Len(set) /\ c <= p /\ p \in Nat
  <2>1. msg - 1 \in 0 .. Messages(set) /\ msg \in 0 .. Messages(set)
    BY SetDivided
  <2> QED
    BY <2>1, SetDivided, PathAssumption
<1>2. /\ Len(f) = 3 + 4 * c \/ Len(f) = 3 + 4 * c + 1
      /\ f[1] = Num(Messages(set)) /\ f[2] = Num(msg) /\ f[3] = Num(Len(set))
      /\ \A b \in 1 .. c : \A i \in 1 .. 4 : f[3 + (4 * (b - 1) + i)] = Block(set[at + b])[i]
  BY DEF PartFields
<1> HIDE DEF at, to, p
<1>3. c \in Nat /\ at + c <= Len(set) /\ c <= p /\ p \in Nat
  BY <1>1
<1>4. \A b \in 1 .. c : set[at + b] \in Satellites
  <2>1. \A i \in 1 .. Len(set) : set[i] \in Satellites
    OBVIOUS
  <2>2. \A b \in 1 .. c : at + b \in 1 .. Len(set)
    BY <1>1, <1>3
  <2> QED
    BY <2>1, <2>2
<1> HIDE DEF c
<1>5. (Len(f) - 3) \div 4 = c
  <2>1. Len(f) - 3 = 4 * c \/ Len(f) - 3 = 4 * c + 1
    BY <1>2, <1>3
  <2>2. (4 * c) \div 4 = c /\ (4 * c + 1) \div 4 = c
    BY <1>3
  <2> QED
    BY <2>1, <2>2
<1>6. Field(s, 0)[2] = Messages(set) /\ Field(s, 1)[2] = msg /\ Field(s, 2)[2] = Len(set)
  <2>1. Field(s, 0) = f[1] /\ Field(s, 1) = f[2] /\ Field(s, 2) = f[3]
    BY <1>2, <1>3 DEF Field
  <2> QED
    BY <1>2, <2>1 DEF Num
<1>7. ASSUME NEW b \in 1 .. c
      PROVE  /\ ParseOr(Field(s, 4 * b - 1), Zero) = Seen(set[at + b]).id
             /\ ParseOr(Field(s, 4 * b), Num(-1)) = Seen(set[at + b]).elev
             /\ ParseOr(Field(s, 4 * b + 1), Zero) = Seen(set[at + b]).azim
             /\ ParseOr(Field(s, 4 * b + 2), Num(-1)) = Seen(set[at + b]).snr
  <2>1. \A i \in 1 .. 4 : Field(s, 4 * b - 2 + i) = Block(set[at + b])[i]
    <3> TAKE i \in 1 .. 4
    <3> DEFINE x == 4 * b - 2 + i
    <3>1. x < Len(f) /\ x + 1 = 3 + (4 * (b - 1) + i)
      BY <1>2, <1>3, SMTT(30)
    <3> HIDE DEF x
    <3>2. Field(s, x) = f[x + 1]
      BY <3>1 DEF Field
    <3> QED
      BY <1>2, <3>1, <3>2 DEF x
  <2>2. /\ Field(s, 4 * b - 2 + 1) = Block(set[at + b])[1]
        /\ Field(s, 4 * b - 2 + 2) = Block(set[at + b])[2]
        /\ Field(s, 4 * b - 2 + 3) = Block(set[at + b])[3]
        /\ Field(s, 4 * b - 2 + 4) = Block(set[at + b])[4]
    BY <2>1
  <2>3. /\ 4 * b - 2 + 1 = 4 * b - 1 /\ 4 * b - 2 + 2 = 4 * b
        /\ 4 * b - 2 + 3 = 4 * b + 1 /\ 4 * b - 2 + 4 = 4 * b + 2
    BY <1>3
  <2> QED
    BY <1>4, <2>2, <2>3, BlockSays
<1> DEFINE heard == [b \in 1 .. c |-> Seen(set[at + b])]
           read == [b \in 1 .. c |-> [id |-> ParseOr(Field(s, 4 * b - 1), Zero),
                                      elev |-> ParseOr(Field(s, 4 * b), Num(-1)),
                                      azim |-> ParseOr(Field(s, 4 * b + 1), Zero),
                                      snr |-> ParseOr(Field(s, 4 * b + 2), Num(-1))]]
<1>8. GsvParser(s) = [msgs |-> Messages(set), msg |-> msg, inView |-> Len(set), sats |-> read]
  <2> DEFINE given == (Len(f) - 3) \div 4
  <2>0. given = c
    BY <1>5
  <2> HIDE DEF given
  <2>1. (IF given > p THEN p ELSE given) = c
    BY <1>3, <2>0
  <2> USE DEF given
  <2> QED
    BY <1>6, <2>1 DEF GsvParser, p
<1>9. read = heard
  <2>1. \A b \in 1 .. c : Seen(set[at + b]) =
          [id |-> Seen(set[at + b]).id, elev |-> Seen(set[at + b]).elev,
           azim |-> Seen(set[at + b]).azim, snr |-> Seen(set[at + b]).snr]
    BY DEF Seen
  <2> QED
    BY <1>7, <2>1
<1>10. all \in Seq(SeenSats) /\ Len(all) = Len(set) /\ \A i \in 1 .. Len(set) : all[i] = Seen(set[i])
  <2>1. \A i \in 1 .. Len(set) : set[i] \in Satellites
    OBVIOUS
  <2>2. all \in [1 .. Len(set) -> SeenSats] /\ Len(set) \in Nat
    BY <2>1, SeenIn DEF SeenOf
  <2> QED
    BY <2>2 DEF SeenOf
<1>11. heard \in Seq(SeenSats) /\ Len(heard) = c
  BY <1>3, <1>4, SeenIn
<1> HIDE DEF all, heard, read
<1> DEFINE sub == SubSeq(all, at + 1, at + c)
<1>12. /\ sub \in Seq(SeenSats) /\ Len(sub) = c
       /\ \A i \in 1 .. c : sub[i] = all[at + i]
  BY <1>1, <1>3, <1>10
<1> HIDE DEF sub
<1>13. \A i \in 1 .. c : sub[i] = heard[i]
  BY <1>1, <1>3, <1>10, <1>12 DEF heard
<1>14. sub = heard
  BY <1>11, <1>12, <1>13, SeqEqual
<1>15. at + c = to
  BY <1>1 DEF c
<1> QED
  BY <1>8, <1>9, <1>14, <1>15 DEF PartSays, sub, all, at, to

\* The builder writes those fields, and a chip the signal behind them.
LEMMA PartBuilt ==
  ASSUME NEW set \in Seq(Satellites), NEW msg \in 1 .. Messages(set)
  PROVE  /\ PartFields(GsvPart(set, msg).fields, set, msg)
         /\ PartFields(WithSignal(GsvPart(set, msg)).fields, set, msg)
<1> DEFINE at == UpTo(set, msg - 1)
           to == UpTo(set, msg)
           c == to - at
           blocks == [b \in 1 .. c |-> Block(set[at + b])]
           s == GsvPart(set, msg)
           head == <<Num(Messages(set)), Num(msg), Num(Len(set))>>
           first == (msg - 1) * PerMessage + 1
           last == IF msg * PerMessage <= Len(set) THEN msg * PerMessage ELSE Len(set)
<1>1. /\ at \in Nat /\ to \in Nat /\ at <= to /\ to <= Len(set) /\ at + 1 = first /\ to = last
  <2>1. msg - 1 \in 0 .. Messages(set) /\ msg \in 0 .. Messages(set)
    BY SetDivided
  <2>2. to = last
    BY DEF UpTo
  <2>3. at \in Nat /\ to \in Nat /\ at <= to /\ to <= Len(set) /\ at = (msg - 1) * PerMessage
    BY <2>1, SetDivided
  <2> HIDE DEF at, to, last
  <2> QED
    BY <2>2, <2>3
<1>2. s = MakeSentence("GSV", head \o Joined([i \in 1 .. last - first + 1 |->
                                               Block(set[first + i - 1])]), set)
  BY DEF GsvPart
<1> HIDE DEF at, to, first, last
<1>3. [i \in 1 .. last - first + 1 |-> Block(set[first + i - 1])] = blocks
  <2>1. last - first + 1 = c /\ \A i \in 1 .. c : first + i - 1 = at + i
    BY <1>1
  <2> QED
    BY <2>1
<1>4. c \in Nat /\ at + c <= Len(set)
  BY <1>1
<1> DEFINE joined == Joined(blocks)
<1> HIDE DEF c
<1>5. joined \in Seq(Readings) /\ Len(joined) = 4 * c /\ Blocks(joined, set, at, c)
  BY <1>1, <1>4, BlocksJoined
<1> DEFINE f == head \o joined
<1>6. s.fields = f /\ WithSignal(s).fields = Append(f, <<"signal", 1>>)
  <2> HIDE DEF blocks, s, head
  <2>1. s = MakeSentence("GSV", f, set)
    BY <1>2, <1>3
  <2> HIDE DEF f
  <2>2. s = [type |-> "GSV", fields |-> f, from |-> set]
    BY <2>1 DEF MakeSentence
  <2> QED
    BY <2>2 DEF WithSignal
<1>7. head \in Seq(Readings) /\ Len(head) = 3
  <2>1. Messages(set) \in Int /\ msg \in Int /\ Len(set) \in Int
    BY SetDivided
  <2>2. Num(Messages(set)) \in Readings /\ Num(msg) \in Readings /\ Num(Len(set)) \in Readings
    BY <2>1, FieldReadings
  <2> QED
    BY <2>2
<1> HIDE DEF joined, s
<1>8. f \in Seq(Readings) /\ Behind(head, joined, f, 3, 4 * c)
  BY <1>5, <1>7, Together
<1>9. /\ head[1] = Num(Messages(set)) /\ head[2] = Num(msg) /\ head[3] = Num(Len(set))
  OBVIOUS
<1> HIDE DEF head, f
<1> DEFINE Holds(g) == /\ g[1] = Num(Messages(set)) /\ g[2] = Num(msg) /\ g[3] = Num(Len(set))
                       /\ \A b \in 1 .. c : \A i \in 1 .. 4 :
                            g[3 + (4 * (b - 1) + i)] = Block(set[at + b])[i]
<1>10. \A b \in 1 .. c : \A i \in 1 .. 4 : 4 * (b - 1) + i \in 1 .. 4 * c
  BY <1>4
<1>11. Len(f) = 3 + 4 * c /\ Holds(f)
  <2>1. \A b \in 1 .. c : \A i \in 1 .. 4 : f[3 + (4 * (b - 1) + i)] = joined[4 * (b - 1) + i]
    BY <1>8, <1>10 DEF Behind
  <2>2. \A b \in 1 .. c : \A i \in 1 .. 4 : joined[4 * (b - 1) + i] = Block(set[at + b])[i]
    BY <1>5 DEF Blocks
  <2>3. f[1] = head[1] /\ f[2] = head[2] /\ f[3] = head[3] /\ Len(f) = 3 + 4 * c
    BY <1>8 DEF Behind
  <2> QED
    BY <1>9, <2>1, <2>2, <2>3
<1> DEFINE g == Append(f, <<"signal", 1>>)
<1>12. Len(g) = 3 + 4 * c + 1 /\ Holds(g)
  <2>1. "signal" \in Names /\ 1 \in Int
    BY DEF Names
  <2>2. <<"signal", 1>> \in Readings
    BY <2>1, FieldReadings
  <2>3. Len(g) = Len(f) + 1 /\ \A i \in 1 .. Len(f) : g[i] = f[i]
    BY <1>8, <2>2
  <2> HIDE DEF g
  <2>4. \A i \in 1 .. 3 + 4 * c : g[i] = f[i]
    BY <1>11, <2>3
  <2>5. \A b \in 1 .. c : \A i \in 1 .. 4 : 3 + (4 * (b - 1) + i) \in 1 .. 3 + 4 * c
    BY <1>4, <1>10
  <2>6. g[1] = f[1] /\ g[2] = f[2] /\ g[3] = f[3]
    BY <1>4, <2>4
  <2>7. \A b \in 1 .. c : \A i \in 1 .. 4 : g[3 + (4 * (b - 1) + i)] = f[3 + (4 * (b - 1) + i)]
    BY <2>4, <2>5
  <2> QED
    BY <1>11, <2>3, <2>6, <2>7
<1> HIDE DEF g
<1>13. ASSUME NEW h, Len(h) = 3 + 4 * c \/ Len(h) = 3 + 4 * c + 1, Holds(h)
       PROVE  PartFields(h, set, msg)
  BY <1>13 DEF PartFields, at, to, c
<1> HIDE DEF Holds
<1> QED
  BY <1>6, <1>11, <1>12, <1>13 DEF s, g

\* What is read in a GSV sentence that arrives.
LEMMA GsvArrived ==
  ASSUME NEW s \in GsvSentences
  PROVE  /\ s.type = "GSV" /\ s.from \in Seq(Satellites)
         /\ \E msg \in 1 .. Messages(s.from) : GsvParser(s) = PartSays(s.from, msg)
<1>1. PICK set \in Seq(Satellites) :
        s \in GsvParts(set) \cup {WithSignal(r) : r \in GsvParts(set)}
  BY DEF GsvSentences
<1>2. PICK msg \in 1 .. Messages(set) :
        s = GsvPart(set, msg) \/ s = WithSignal(GsvPart(set, msg))
  BY <1>1 DEF GsvParts
<1>3. PartFields(s.fields, set, msg)
  BY <1>2, PartBuilt
<1>4. GsvPart(set, msg).type = "GSV" /\ GsvPart(set, msg).from = set
  BY DEF GsvPart, MakeSentence
<1>5. WithSignal(GsvPart(set, msg)).type = "GSV" /\ WithSignal(GsvPart(set, msg)).from = set
  BY <1>4 DEF GsvPart, MakeSentence, WithSignal
<1>6. s.type = "GSV" /\ s.from = set
  BY <1>2, <1>4, <1>5
<1> QED
  BY <1>3, <1>6, PartParsed

-----------------------------------------------------------------------------
(* What an epoch is made of.                                               *)

PlainParts == UNION {GsvParts(set) : set \in Seq(Satellites)}

\* All sets of GSV sentences of a sky.
LEMMA GsvAllIn ==
  ASSUME NEW sky \in Seq(Satellites)
  PROVE  GsvAll(sky) \in Seq(PlainParts)
<1> DEFINE present == Picked(Constellations, {t \in Enabled : Group(sky, t) # <<>>})
           T == {"GP", "GL", "GA", "GB", "GQ"}
           sets == [j \in DOMAIN present |-> GsvSet(Group(sky, present[j]))]
<1>1. present \in Seq(T)
  <2>1. Constellations \in Seq(T)
    BY DEF Constellations
  <2> QED
    BY <2>1, PickedIn
<1>2. \A t : Group(sky, t) \in Seq(Satellites)
  BY PickedIn DEF Group
<1>3. \A set \in Seq(Satellites) : GsvSet(set) \in Seq(PlainParts)
  <2> TAKE set \in Seq(Satellites)
  <2>1. \A msg \in 1 .. Messages(set) : GsvPart(set, msg) \in PlainParts
    BY DEF PlainParts, GsvParts
  <2>2. Messages(set) \in Nat
    BY SetDivided
  <2>3. GsvSet(set) \in [1 .. Messages(set) -> PlainParts]
    BY <2>1 DEF GsvSet
  <2> QED
    BY <2>2, <2>3
<1> HIDE DEF present
<1>4. DOMAIN present = 1 .. Len(present) /\ Len(present) \in Nat
  BY <1>1
<1>5. sets \in [1 .. Len(present) -> Seq(PlainParts)]
  BY <1>2, <1>3, <1>4
<1> HIDE DEF sets
<1>6. sets \in Seq(Seq(PlainParts))
  BY <1>4, <1>5
<1>7. Joined(sets) \in Seq(PlainParts)
  BY <1>6, JoinedIn
<1> QED
  BY <1>7 DEF GsvAll, sets, present

\* With or without the signal they are sentences.
LEMMA PartsIn ==
  ASSUME NEW s \in PlainParts
  PROVE  s \in AllSentences /\ WithSignal(s) \in AllSentences
<1>1. s \in GsvSentences /\ WithSignal(s) \in GsvSentences
  BY DEF PlainParts, GsvSentences
<1> QED
  BY <1>1 DEF AllSentences

\* One sentence or none.
LEMMA PushIn ==
  ASSUME NEW type, NEW in, NEW s, in.valid => s \in AllSentences
  PROVE  Push(type, in, s) \in Seq(AllSentences)
<1>1. CASE type \in Enabled /\ in.valid
  BY <1>1 DEF Push
<1>2. CASE ~ (type \in Enabled /\ in.valid)
  BY <1>2 DEF Push
<1> QED
  BY <1>1, <1>2

\* All that the generator says of a location and a sky.
LEMMA TimelessIn ==
  ASSUME NEW loc \in Locations, NEW sky \in Seq(Satellites)
  PROVE  Timeless(loc, sky) \in Seq(AllSentences)
<1>1. /\ to_gga(loc).valid = loc.valid /\ to_rmc(loc).valid = loc.valid
      /\ to_gsa(loc, sky).valid = loc.valid /\ to_vtg(loc).valid = loc.valid
      /\ to_gll(loc).valid = loc.valid
  BY DEF to_gga, to_rmc, to_gsa, to_vtg, to_gll
<1>2. loc.valid => /\ Gga(to_gga(loc)) \in AllSentences /\ Rmc(to_rmc(loc)) \in AllSentences
                   /\ Gsa(to_gsa(loc, sky)) \in AllSentences /\ Vtg(to_vtg(loc)) \in AllSentences
                   /\ Gll(to_gll(loc)) \in AllSentences
  <2> SUFFICES ASSUME loc \in Valid
               PROVE  /\ Gga(to_gga(loc)) \in AllSentences /\ Rmc(to_rmc(loc)) \in AllSentences
                      /\ Gsa(to_gsa(loc, sky)) \in AllSentences /\ Vtg(to_vtg(loc)) \in AllSentences
                      /\ Gll(to_gll(loc)) \in AllSentences
    BY DEF Valid
  <2>1. /\ Gga(to_gga(loc)) \in GgaSentences /\ Rmc(to_rmc(loc)) \in RmcSentences
        /\ Vtg(to_vtg(loc)) \in VtgSentences /\ Gll(to_gll(loc)) \in OtherSentences
    BY DEF GgaSentences, RmcSentences, VtgSentences, OtherSentences
  <2>2. Gsa(to_gsa(loc, sky)) \in GsaSentences
    BY DEF GsaSentences
  <2> QED
    BY <2>1, <2>2 DEF AllSentences
<1> DEFINE a == Push("GGA", to_gga(loc), Gga(to_gga(loc)))
           b == Push("RMC", to_rmc(loc), Rmc(to_rmc(loc)))
           c == Push("GSA", to_gsa(loc, sky), Gsa(to_gsa(loc, sky)))
           d == IF "GSV" \in Enabled THEN GsvAll(sky) ELSE <<>>
           e == Push("VTG", to_vtg(loc), Vtg(to_vtg(loc)))
           f == Push("GLL", to_gll(loc), Gll(to_gll(loc)))
<1>3. a \in Seq(AllSentences)
  BY <1>1, <1>2, PushIn
<1>4. b \in Seq(AllSentences)
  BY <1>1, <1>2, PushIn
<1>5. c \in Seq(AllSentences)
  BY <1>1, <1>2, PushIn
<1>6. e \in Seq(AllSentences)
  BY <1>1, <1>2, PushIn
<1>7. f \in Seq(AllSentences)
  BY <1>1, <1>2, PushIn
<1>8. d \in Seq(AllSentences)
  <2>1. GsvAll(sky) \in Seq(PlainParts)
    BY GsvAllIn
  <2>2. \A s \in PlainParts : s \in AllSentences
    BY PartsIn
  <2>3. GsvAll(sky) \in Seq(AllSentences)
    BY <2>1, <2>2
  <2> QED
    BY <2>3
<1>9. Timeless(loc, sky) = a \o b \o c \o d \o e \o f
  BY DEF Timeless
<1> HIDE DEF a, b, c, d, e, f
<1> QED
  BY <1>3, <1>4, <1>5, <1>6, <1>7, <1>8, <1>9

\* What the generator makes of an epoch are sentences of these.
LEMMA GeneratedIn ==
  ASSUME NEW loc \in Locations, NEW sky \in Seq(Satellites), NEW tim \in Times
  PROVE  Generate(loc, sky) \in Seq(AllSentences) /\ GenerateTimed(loc, sky, tim) \in Seq(AllSentences)
<1>1. Timeless(loc, sky) \in Seq(AllSentences)
  BY TimelessIn
<1>2. to_zda(loc).valid => Zda(to_zda(loc)) \in AllSentences
  BY DEF to_zda, AllSentences, OtherSentences, Valid
<1>3. Zda(to_zda_timing(tim)) \in AllSentences
  BY DEF AllSentences, OtherSentences
<1> DEFINE a == Push("ZDA", to_zda(loc), Zda(to_zda(loc)))
           b == Push("ZDA", to_zda_timing(tim), Zda(to_zda_timing(tim)))
<1>4. a \in Seq(AllSentences) /\ b \in Seq(AllSentences)
  BY <1>2, <1>3, PushIn
<1>5. tim.valid
  BY DEF Times
<1>6. Generate(loc, sky) = Timeless(loc, sky) \o a /\ GenerateTimed(loc, sky, tim) = Timeless(loc, sky) \o b
  BY <1>5 DEF Generate, GenerateTimed
<1> HIDE DEF a, b
<1> QED
  BY <1>1, <1>4, <1>6

\* What a chip makes of an epoch are sentences of these.
LEMMA ChipIn ==
  ASSUME NEW loc \in Locations, NEW sky \in Seq(Satellites)
  PROVE  Chip(loc, sky) \in Seq(AllSentences)
<1> DEFINE all == GsvAll(sky)
           signalled == [j \in DOMAIN all |-> WithSignal(all[j])]
<1>1. all \in Seq(PlainParts)
  BY GsvAllIn
<1>2. signalled \in Seq(AllSentences)
  <2> HIDE DEF all
  <2>1. DOMAIN all = 1 .. Len(all) /\ Len(all) \in Nat /\ \A j \in 1 .. Len(all) : all[j] \in PlainParts
    BY <1>1
  <2>2. signalled \in [1 .. Len(all) -> AllSentences]
    BY <2>1, PartsIn
  <2> QED
    BY <2>1, <2>2
<1>3. CASE loc.valid
  <2> DEFINE first == <<Rmc(to_rmc(loc)), Vtg(to_vtg(loc)), Gga(to_gga(loc)), Gsa(to_gsa(loc, sky))>>
  <2>1. loc \in Valid
    BY <1>3 DEF Valid
  <2>2. /\ Gga(to_gga(loc)) \in GgaSentences /\ Rmc(to_rmc(loc)) \in RmcSentences
        /\ Vtg(to_vtg(loc)) \in VtgSentences
    BY <2>1 DEF GgaSentences, RmcSentences, VtgSentences
  <2>3. Gsa(to_gsa(loc, sky)) \in GsaSentences
    BY <2>1 DEF GsaSentences
  <2>4. /\ Gga(to_gga(loc)) \in AllSentences /\ Rmc(to_rmc(loc)) \in AllSentences
        /\ Vtg(to_vtg(loc)) \in AllSentences /\ Gsa(to_gsa(loc, sky)) \in AllSentences
    BY <2>2, <2>3 DEF AllSentences
  <2>5. first \in Seq(AllSentences)
    BY <2>4
  <2>6. Chip(loc, sky) = first \o signalled
    BY <1>3 DEF Chip
  <2> HIDE DEF first, signalled
  <2> QED
    BY <1>2, <2>5, <2>6
<1>4. CASE ~loc.valid
  <2> DEFINE first == <<VoidRmc(loc), VoidVtg(loc), VoidGga(loc), VoidGsa(loc)>>
  <2>1. loc \in Invalid
    BY <1>4 DEF Invalid
  <2>2. /\ VoidGga(loc) \in GgaSentences /\ VoidRmc(loc) \in RmcSentences
        /\ VoidVtg(loc) \in VtgSentences /\ VoidGsa(loc) \in GsaSentences
    BY <2>1 DEF GgaSentences, RmcSentences, VtgSentences, GsaSentences
  <2>3. /\ VoidGga(loc) \in AllSentences /\ VoidRmc(loc) \in AllSentences
        /\ VoidVtg(loc) \in AllSentences /\ VoidGsa(loc) \in AllSentences
    BY <2>2 DEF AllSentences
  <2>4. first \in Seq(AllSentences)
    BY <2>3
  <2>5. Chip(loc, sky) = first \o signalled
    BY <1>4 DEF Chip
  <2> HIDE DEF first, signalled
  <2> QED
    BY <1>2, <2>4, <2>5
<1> QED
  BY <1>3, <1>4

\* What is handed over in an epoch is a location and satellites.
LEMMA HandedOver ==
  ASSUME NEW epoch \in Nat, NEW fix \in Fixes, NEW sky \in Skies
  PROVE  At(epoch, fix) \in Locations /\ Turned(epoch, sky) \in Seq(Satellites)
<1>1. fix \in Locations /\ sky \in Seq(Satellites)
  BY PathAssumption
<1>2. At(epoch, fix) \in Locations
  BY <1>1 DEF At, Locations
<1>3. Turned(epoch, sky) \in Seq(Satellites)
  <2>1. DOMAIN sky = 1 .. Len(sky) /\ Len(sky) \in Nat /\ \A i \in 1 .. Len(sky) : sky[i] \in Satellites
    BY <1>1
  <2>2. \A i \in 1 .. Len(sky) : [sky[i] EXCEPT !.azim = epoch] \in Satellites
    BY <2>1 DEF Satellites
  <2>3. Turned(epoch, sky) \in [1 .. Len(sky) -> Satellites]
    BY <2>1, <2>2 DEF Turned
  <2> QED
    BY <2>1, <2>3
<1> QED
  BY <1>2, <1>3

-----------------------------------------------------------------------------
(* The inductive invariant.                                                *)

\* What the store may have of each sentence.
GgaMessages == {GgaSays(loc) : loc \in Locations}
RmcMessages == {RmcSays(loc) : loc \in Locations}
GsaMessages == {GsaSays(loc) : loc \in Locations}
VtgMessages == [magnetic : Readings, kmh : Readings]
Parts == [msgs : Int, msg : Int, inView : Int, sats : Seq(SeenSats)]

PathTypes ==
  /\ line \in Seq(AllSentences) /\ epochs \in Nat
  /\ gsv \in [parts : Seq(Parts), expected : Int, complete : {FALSE}]
  /\ store \in [gga : GgaMessages \cup {None}, rmc : RmcMessages \cup {None},
                gsa : GsaMessages \cup {None}, vtg : VtgMessages \cup {None},
                inView : Int, slots : [1 .. SlotCap -> SeenSats \cup {None}]]
  /\ said \in [GGA : Locations \cup {None}, RMC : Locations \cup {None}, GSA : Locations \cup {None},
               VTG : Locations \cup {None}, GSV : Seq(Satellites) \cup {None}]
  /\ whole \in [set : Seq(Satellites), upto : Nat]

\* The store has what the last RMC, GSA and VTG said.
RmcStored(st, sd) == IF sd.RMC = None THEN st.rmc = None ELSE st.rmc = RmcSays(sd.RMC)
GsaStored(st, sd) == IF sd.GSA = None THEN st.gsa = None ELSE st.gsa = GsaSays(sd.GSA)
VtgStored(st, sd) ==
  IF sd.VTG = None THEN st.vtg = None
  ELSE /\ st.vtg # None /\ st.vtg.kmh = VtgSays(sd.VTG).kmh
       /\ VtgSays(sd.VTG).magnetic # Empty => st.vtg.magnetic = VtgSays(sd.VTG).magnetic

\* A set that came whole is in the slots.
SetStored(st, set) ==
  /\ st.inView = Len(set)
  /\ \A i \in 1 .. SlotCap : i <= Len(set) => st.slots[i] = Seen(set[i])

\* The parts of a set that came one after the other, and is not whole yet, are all kept.
PartsKept(g, w) ==
  w.upto > 0 =>
    /\ w.upto \in 1 .. Messages(w.set)
    /\ w.upto < Messages(w.set) =>
         g.expected = Messages(w.set) /\ g.parts = [m \in 1 .. w.upto |-> PartSays(w.set, m)]

PathIInv ==
  /\ PathTypes
  /\ RmcStored(store, said) /\ GsaStored(store, said) /\ VtgStored(store, said)
  /\ said.GSV # None => SetStored(store, said.GSV)
  /\ PartsKept(gsv, whole)
  /\ BufferIsWhatWasSent /\ WholeSetIsShown

\* A sentence is of the kind that its type says.
LEMMA Kinds ==
  ASSUME NEW s \in AllSentences
  PROVE  /\ s.type = "GGA" => s \in GgaSentences
         /\ s.type = "RMC" => s \in RmcSentences
         /\ s.type = "GSA" => s \in GsaSentences
         /\ s.type = "VTG" => s \in VtgSentences
         /\ s.type = "GSV" => s \in GsvSentences
<1>1. ASSUME s \in OtherSentences PROVE s.type \in {"GLL", "ZDA"}
  <2>1. (\E loc \in Valid : s = Gll(to_gll(loc)) \/ s = Zda(to_zda(loc)))
        \/ (\E tim \in Times : s = Zda(to_zda_timing(tim)))
    BY <1>1 DEF OtherSentences
  <2>2. \A in : Gll(in).type = "GLL" /\ Zda(in).type = "ZDA"
    BY DEF Gll, Zda, MakeSentence
  <2> QED
    BY <2>1, <2>2
<1>2. \/ s \in GgaSentences \/ s \in RmcSentences \/ s \in GsaSentences \/ s \in VtgSentences
      \/ s \in GsvSentences \/ s \in OtherSentences
  BY DEF AllSentences
<1>3. /\ s \in GgaSentences => s.type = "GGA"
      /\ s \in RmcSentences => s.type = "RMC"
      /\ s \in GsaSentences => s.type = "GSA"
      /\ s \in VtgSentences => s.type = "VTG"
      /\ s \in GsvSentences => s.type = "GSV"
  BY GgaArrived, RmcArrived, GsaArrived, VtgArrived, GsvArrived
<1> QED
  BY <1>1, <1>2, <1>3

\* What a location says is something.
LEMMA SaysSomething ==
  ASSUME NEW loc \in Locations
  PROVE  /\ RmcSays(loc) # None /\ GsaSays(loc) # None /\ loc # None
         /\ VtgSays(loc) \in VtgMessages
<1>1. /\ loc.speed \in Int /\ loc.course \in Int /\ loc.decl \in Int
      /\ loc.hdop \in Int /\ loc.pdop \in Int /\ loc.vdop \in Int /\ loc.fix \in Int
  BY DEF Locations
<1>2. /\ "knots" \in Names /\ "course" \in Names /\ "kmh" \in Names /\ "magnetic" \in Names
      /\ "hdop" \in Names /\ "pdop" \in Names /\ "vdop" \in Names
  BY DEF Names
<1>3. RmcSays(loc) # None
  <2> DEFINE a == <<"knots", loc.speed>>
             b == <<"course", loc.course>>
             c == Active(loc)
  <2>1. a \in Readings /\ b \in Readings
    BY <1>1, <1>2, FieldReadings
  <2>2. c \in BOOLEAN
    BY DEF Active, Locations
  <2>3. RmcSays(loc) = [active |-> c, speed |-> a, course |-> b]
    BY DEF RmcSays
  <2> HIDE DEF a, b, c
  <2>4. RmcSays(loc) \in [active : BOOLEAN, speed : Readings, course : Readings]
    BY <2>1, <2>2, <2>3
  <2> QED
    BY <2>4, NoneAssumption
<1>4. GsaSays(loc) # None
  <2> DEFINE n == Num(NavMode(loc))
             a == OrZero("pdop", loc.pdop)
             b == OrZero("hdop", loc.hdop)
             c == OrZero("vdop", loc.vdop)
  <2>1. NavMode(loc) \in Int
    BY DEF NavMode
  <2>2. \A what \in Names, m \in Int : OrZero(what, m) \in Readings
    BY FieldReadings DEF OrZero
  <2>3. n \in Readings /\ a \in Readings /\ b \in Readings /\ c \in Readings
    BY <1>1, <1>2, <2>1, <2>2, FieldReadings
  <2>4. GsaSays(loc) = [nav |-> n, pdop |-> a, hdop |-> b, vdop |-> c]
    BY DEF GsaSays
  <2> HIDE DEF n, a, b, c
  <2>5. GsaSays(loc) \in [nav : Readings, pdop : Readings, hdop : Readings, vdop : Readings]
    BY <2>3, <2>4
  <2> QED
    BY <2>5, NoneAssumption
<1>5. VtgSays(loc) \in VtgMessages
  <2> DEFINE a == IF loc.valid /\ loc.decl # 0 THEN <<"magnetic", loc.course + loc.decl>> ELSE Empty
             b == IF loc.valid THEN <<"kmh", loc.speed>> ELSE Zero
  <2>1. loc.course + loc.decl \in Int
    BY <1>1
  <2>2. a \in Readings /\ b \in Readings
    BY <1>1, <1>2, <2>1, FieldReadings
  <2>3. VtgSays(loc) = [magnetic |-> a, kmh |-> b]
    BY DEF VtgSays
  <2> HIDE DEF a, b
  <2> QED
    BY <2>2, <2>3 DEF VtgMessages
<1> QED
  BY <1>3, <1>4, <1>5, NoneAssumption

\* The invariant holds before the first sentence.
LEMMA PathInitially == PathInit => PathIInv
<1> SUFFICES ASSUME PathInit PROVE PathIInv
  OBVIOUS
<1> USE DEF PathInit
<1>1. SlotCap \in Nat
  BY PathAssumption
<1>2. PathTypes
  <2>1. line \in Seq(AllSentences) /\ epochs \in Nat
    OBVIOUS
  <2>2. gsv \in [parts : Seq(Parts), expected : Int, complete : {FALSE}]
    OBVIOUS
  <2>3. store \in [gga : GgaMessages \cup {None}, rmc : RmcMessages \cup {None},
                   gsa : GsaMessages \cup {None}, vtg : VtgMessages \cup {None},
                   inView : Int, slots : [1 .. SlotCap -> SeenSats \cup {None}]]
    OBVIOUS
  <2>4. said \in [GGA : Locations \cup {None}, RMC : Locations \cup {None}, GSA : Locations \cup {None},
                  VTG : Locations \cup {None}, GSV : Seq(Satellites) \cup {None}]
    OBVIOUS
  <2>5. whole \in [set : Seq(Satellites), upto : Nat]
    OBVIOUS
  <2> QED
    BY <2>1, <2>2, <2>3, <2>4, <2>5 DEF PathTypes
<1>3. RmcStored(store, said) /\ GsaStored(store, said) /\ VtgStored(store, said)
  BY DEF RmcStored, GsaStored, VtgStored
<1>4. SetStored(store, said.GSV)
  <2>1. store.inView = 0 /\ said.GSV = <<>> /\ Len(<<>>) = 0
    OBVIOUS
  <2> QED
    BY <1>1, <2>1 DEF SetStored
<1>5. PartsKept(gsv, whole)
  BY DEF PartsKept
<1>6. BufferIsWhatWasSent /\ WholeSetIsShown
  BY DEF BufferIsWhatWasSent, WholeSetIsShown
<1> QED
  BY <1>2, <1>3, <1>4, <1>5, <1>6 DEF PathIInv

-----------------------------------------------------------------------------
(* The steps.                                                              *)

\* Only a commit changes the buffer.
LEMMA BufferStays ==
  ASSUME PathIInv, UNCHANGED <<data, shown>>
  PROVE  BufferIsWhatWasSent' /\ WholeSetIsShown'
BY DEF PathIInv, BufferIsWhatWasSent, WholeSetIsShown

\* A sentence arrives: it is one of those that may, and the others stay on the line.
LEMMA ArrivalStep ==
  ASSUME PathTypes, NEW type, Arrives(type)
  PROVE  /\ Head(line) \in AllSentences /\ Head(line).type = type
         /\ line' \in Seq(AllSentences) /\ epochs' \in Nat
BY DEF PathTypes, Arrives

\* The sentences of a new epoch leave the invariant as it is.
LEMMA SpeakStep ==
  ASSUME PathIInv, Speak
  PROVE  PathIInv'
<1> USE DEF PathIInv
<1>1. line' \in Seq(AllSentences) /\ epochs' \in Nat
  <2>1. epochs' \in Nat
    BY DEF Speak, PathTypes
  <2>2. PICK fix \in Fixes, sky \in Skies :
          LET loc == At(epochs', fix)
              sats == Turned(epochs', sky)
              tim == [valid |-> TRUE, time |-> epochs']
          IN  line' \in {Generate(loc, sats), GenerateTimed(loc, sats, tim), Chip(loc, sats)}
    BY DEF Speak
  <2> DEFINE loc == At(epochs', fix)
             sats == Turned(epochs', sky)
             tim == [valid |-> TRUE, time |-> epochs']
  <2>3. loc \in Locations /\ sats \in Seq(Satellites)
    BY <2>1, HandedOver
  <2>4. tim \in Times
    BY <2>1 DEF Times
  <2>5. line' \in {Generate(loc, sats), GenerateTimed(loc, sats, tim), Chip(loc, sats)}
    BY <2>2
  <2> HIDE DEF loc, sats, tim
  <2>6. /\ Generate(loc, sats) \in Seq(AllSentences) /\ GenerateTimed(loc, sats, tim) \in Seq(AllSentences)
        /\ Chip(loc, sats) \in Seq(AllSentences)
    BY <2>3, <2>4, GeneratedIn, ChipIn
  <2> QED
    BY <2>1, <2>5, <2>6
<1>2. UNCHANGED <<gsv, store, data, lost, whole, said, shown>>
  BY DEF Speak
<1>3. PathTypes'
  BY <1>1, <1>2 DEF PathTypes
<1>4. BufferIsWhatWasSent' /\ WholeSetIsShown'
  BY <1>2, BufferStays
<1> QED
  BY <1>2, <1>3, <1>4 DEF RmcStored, GsaStored, VtgStored, SetStored, PartsKept

\* The same for a step that only shortens the line.
LEMMA SkipStep ==
  ASSUME PathIInv, line # <<>>, line' = Tail(line),
         UNCHANGED <<gsv, store, data, epochs, whole, said, shown>>
  PROVE  PathIInv'
<1> USE DEF PathIInv
<1>1. PathTypes'
  <2>1. line \in Seq(AllSentences)
    BY DEF PathTypes
  <2>2. line' \in Seq(AllSentences)
    BY <2>1
  <2> QED
    BY <2>2 DEF PathTypes
<1>2. BufferIsWhatWasSent' /\ WholeSetIsShown'
  BY BufferStays
<1> QED
  BY <1>1, <1>2 DEF RmcStored, GsaStored, VtgStored, SetStored, PartsKept

\* An RMC sentence is stored as it was sent, or ignored.
LEMMA RmcStep ==
  ASSUME PathIInv, StoredOnly, Arrives("RMC")
  PROVE  PathIInv'
<1> DEFINE s == Head(line)
<1>0. PathTypes
  BY DEF PathIInv
<1>1. s \in RmcSentences /\ s.type = "RMC" /\ line' \in Seq(AllSentences) /\ epochs' \in Nat
  BY <1>0, ArrivalStep, Kinds
<1>2. UNCHANGED <<gsv, data, whole, shown>>
  BY DEF StoredOnly
<1>3. BufferIsWhatWasSent' /\ WholeSetIsShown'
  BY <1>2, BufferStays
<1>4. CASE ~Accepts(s)
  <2>1. UNCHANGED <<store, said, epochs>> /\ line # <<>> /\ line' = Tail(line)
    BY <1>4 DEF StoredOnly, Arrives
  <2> QED
    BY <1>2, <2>1, SkipStep
<1>5. CASE Accepts(s)
  <2>1. s.from \in Locations /\ RmcParser(s) = RmcSays(s.from)
    BY <1>1, <1>5, RmcArrived
  <2>2. store' = RmcHandler(RmcParser(s), store) /\ said' = Told(s)
    BY <1>1, <1>5 DEF StoredOnly
  <2> DEFINE m == RmcSays(s.from)
             loc == s.from
  <2>3. store' = [store EXCEPT !.rmc = m] /\ said' = [said EXCEPT !.RMC = loc]
    BY <1>1, <2>1, <2>2 DEF RmcHandler, Told
  <2>4. m \in RmcMessages /\ m # None /\ loc \in Locations /\ loc # None
    BY <2>1, SaysSomething DEF RmcMessages
  <2>5. m = RmcSays(loc)
    OBVIOUS
  <2> HIDE DEF m, loc, s
  <2>6. PathTypes'
    BY <1>0, <1>1, <1>2, <2>3, <2>4 DEF PathTypes
  <2>7. /\ store'.rmc = m /\ store'.gsa = store.gsa /\ store'.vtg = store.vtg
        /\ store'.inView = store.inView /\ store'.slots = store.slots
    BY <1>0, <2>3 DEF PathTypes
  <2>8. /\ said'.RMC = loc /\ said'.GSA = said.GSA /\ said'.VTG = said.VTG /\ said'.GSV = said.GSV
    BY <1>0, <2>3 DEF PathTypes
  <2>9. RmcStored(store, said)' /\ GsaStored(store, said)' /\ VtgStored(store, said)'
    BY <2>4, <2>5, <2>7, <2>8 DEF PathIInv, RmcStored, GsaStored, VtgStored
  <2>10. said'.GSV # None => SetStored(store', said'.GSV)
    BY <2>7, <2>8 DEF PathIInv, SetStored
  <2>11. PartsKept(gsv, whole)'
    BY <1>2 DEF PathIInv, PartsKept
  <2> QED
    BY <1>3, <2>6, <2>9, <2>10, <2>11 DEF PathIInv
<1> QED
  BY <1>4, <1>5

\* A GSA sentence is stored as it was sent.
LEMMA GsaStep ==
  ASSUME PathIInv, StoredOnly, Arrives("GSA")
  PROVE  PathIInv'
<1> DEFINE s == Head(line)
<1>0. PathTypes
  BY DEF PathIInv
<1>1. s \in GsaSentences /\ s.type = "GSA" /\ line' \in Seq(AllSentences) /\ epochs' \in Nat
  BY <1>0, ArrivalStep, Kinds
<1>2. UNCHANGED <<gsv, data, whole, shown>>
  BY DEF StoredOnly
<1>3. BufferIsWhatWasSent' /\ WholeSetIsShown'
  BY <1>2, BufferStays
<1>4. CASE ~Accepts(s)
  <2>1. UNCHANGED <<store, said, epochs>> /\ line # <<>> /\ line' = Tail(line)
    BY <1>4 DEF StoredOnly, Arrives
  <2> QED
    BY <1>2, <2>1, SkipStep
<1>5. CASE Accepts(s)
  <2>1. s.from \in Locations /\ GsaParser(s) = GsaSays(s.from)
    BY <1>1, GsaArrived
  <2>2. store' = GsaHandler(GsaParser(s), store) /\ said' = Told(s)
    BY <1>1, <1>5 DEF StoredOnly
  <2> DEFINE m == GsaSays(s.from)
             loc == s.from
  <2>3. store' = [store EXCEPT !.gsa = m] /\ said' = [said EXCEPT !.GSA = loc]
    BY <1>1, <2>1, <2>2 DEF GsaHandler, Told
  <2>4. m \in GsaMessages /\ m # None /\ loc \in Locations /\ loc # None
    BY <2>1, SaysSomething DEF GsaMessages
  <2>5. m = GsaSays(loc)
    OBVIOUS
  <2> HIDE DEF m, loc, s
  <2>6. PathTypes'
    BY <1>0, <1>1, <1>2, <2>3, <2>4 DEF PathTypes
  <2>7. /\ store'.gsa = m /\ store'.rmc = store.rmc /\ store'.vtg = store.vtg
        /\ store'.inView = store.inView /\ store'.slots = store.slots
    BY <1>0, <2>3 DEF PathTypes
  <2>8. /\ said'.GSA = loc /\ said'.RMC = said.RMC /\ said'.VTG = said.VTG /\ said'.GSV = said.GSV
    BY <1>0, <2>3 DEF PathTypes
  <2>9. RmcStored(store, said)' /\ GsaStored(store, said)' /\ VtgStored(store, said)'
    BY <2>4, <2>5, <2>7, <2>8 DEF PathIInv, RmcStored, GsaStored, VtgStored
  <2>10. said'.GSV # None => SetStored(store', said'.GSV)
    BY <2>7, <2>8 DEF PathIInv, SetStored
  <2>11. PartsKept(gsv, whole)'
    BY <1>2 DEF PathIInv, PartsKept
  <2> QED
    BY <1>3, <2>6, <2>9, <2>10, <2>11 DEF PathIInv
<1> QED
  BY <1>4, <1>5

\* The magnetic course of an older sentence stays if the new one has none.
LEMMA VtgStep ==
  ASSUME PathIInv, StoredOnly, Arrives("VTG")
  PROVE  PathIInv'
<1> DEFINE s == Head(line)
<1>0. PathTypes
  BY DEF PathIInv
<1>1. s \in VtgSentences /\ s.type = "VTG" /\ line' \in Seq(AllSentences) /\ epochs' \in Nat
  BY <1>0, ArrivalStep, Kinds
<1>2. UNCHANGED <<gsv, data, whole, shown>>
  BY DEF StoredOnly
<1>3. BufferIsWhatWasSent' /\ WholeSetIsShown'
  BY <1>2, BufferStays
<1>4. CASE ~Accepts(s)
  <2>1. UNCHANGED <<store, said, epochs>> /\ line # <<>> /\ line' = Tail(line)
    BY <1>4 DEF StoredOnly, Arrives
  <2> QED
    BY <1>2, <2>1, SkipStep
<1>5. CASE Accepts(s)
  <2>1. s.from \in Locations /\ VtgParser(s) = VtgSays(s.from)
    BY <1>1, VtgArrived
  <2>2. store' = VtgHandler(VtgParser(s), store) /\ said' = Told(s)
    BY <1>1, <1>5 DEF StoredOnly
  <2> DEFINE m == VtgSays(s.from)
             loc == s.from
             k == IF m.magnetic # Empty \/ store.vtg = None THEN m
                  ELSE [m EXCEPT !.magnetic = store.vtg.magnetic]
  <2>3. store' = [store EXCEPT !.vtg = k] /\ said' = [said EXCEPT !.VTG = loc]
    BY <1>1, <2>1, <2>2 DEF VtgHandler, Told
  <2>4. m \in VtgMessages /\ loc \in Locations /\ loc # None
    BY <2>1, SaysSomething
  <2>5. m = VtgSays(loc)
    OBVIOUS
  <2> HIDE DEF m, loc, s
  <2>6. /\ k \in VtgMessages /\ k.kmh = m.kmh /\ (m.magnetic # Empty => k.magnetic = m.magnetic)
    BY <1>0, <2>4 DEF PathTypes, VtgMessages
  <2>7. k # None
    BY <2>6, NoneAssumption DEF VtgMessages
  <2> HIDE DEF k
  <2>8. PathTypes'
    BY <1>0, <1>1, <1>2, <2>3, <2>4, <2>6 DEF PathTypes
  <2>9. /\ store'.vtg = k /\ store'.rmc = store.rmc /\ store'.gsa = store.gsa
        /\ store'.inView = store.inView /\ store'.slots = store.slots
    BY <1>0, <2>3 DEF PathTypes
  <2>10. /\ said'.VTG = loc /\ said'.RMC = said.RMC /\ said'.GSA = said.GSA /\ said'.GSV = said.GSV
    BY <1>0, <2>3 DEF PathTypes
  <2>11. RmcStored(store, said)' /\ GsaStored(store, said)'
    BY <2>9, <2>10 DEF PathIInv, RmcStored, GsaStored
  <2>12. VtgStored(store, said)'
    BY <2>4, <2>5, <2>6, <2>7, <2>9, <2>10 DEF VtgStored
  <2>13. said'.GSV # None => SetStored(store', said'.GSV)
    BY <2>9, <2>10 DEF PathIInv, SetStored
  <2>14. PartsKept(gsv, whole)'
    BY <1>2 DEF PathIInv, PartsKept
  <2> QED
    BY <1>3, <2>8, <2>11, <2>12, <2>13, <2>14 DEF PathIInv
<1> QED
  BY <1>4, <1>5

\* BufferIsWhatWasSent, of a buffer d and of what sd says was sent.
Shows(d, sd) ==
  LET g == sd.GGA
      r == sd.RMC
      a == sd.GSA
      v == sd.VTG
      or(what, n) == IF n > 0 THEN <<what, n>> ELSE Zero
  IN  /\ d.lat = <<"lat", g.lat>> /\ d.lon = <<"lon", g.lon>>
      /\ d.alt = <<"alt", g.alt>> /\ d.sep = <<"sep", g.alt>>
      /\ d.quality = Num(Quality(g)) /\ d.sats = Num(g.sats)
      /\ d.hdop = or("hdop", IF a # None THEN a.hdop ELSE g.hdop)
      /\ r # None => /\ d.speed = <<"knots", r.speed>>
                     /\ d.course = <<"course", r.course>>
      /\ d.active <=> r # None /\ r.ok /\ r.fix >= 2
      /\ a # None => /\ d.nav = Num(NavMode(a))
                     /\ d.pdop = or("pdop", a.pdop) /\ d.vdop = or("vdop", a.vdop)
      /\ v # None => /\ d.kmh = IF v.valid THEN <<"kmh", v.speed>> ELSE Zero
                     /\ (v.valid /\ v.decl # 0) =>
                           d.magnetic = <<"magnetic", v.course + v.decl>>

\* What the commit of a store that follows sd shows of it.
LEMMA CommitShows ==
  ASSUME NEW st, NEW sd, NEW u, NEW d, d = Commit(st, u),
         sd.GGA \in Locations, st.gga = GgaSays(sd.GGA),
         RmcStored(st, sd), GsaStored(st, sd), VtgStored(st, sd),
         sd.RMC \in Locations \cup {None}, sd.GSA \in Locations \cup {None},
         sd.VTG \in Locations \cup {None}
  PROVE  Shows(d, sd)
<1> DEFINE g == sd.GGA
           r == sd.RMC
           a == sd.GSA
           v == sd.VTG
<1>1. /\ d.lat = st.gga.lat /\ d.lon = st.gga.lon /\ d.alt = st.gga.alt /\ d.sep = st.gga.sep
      /\ d.quality = st.gga.quality /\ d.sats = st.gga.sats
      /\ d.hdop = (IF st.gsa # None THEN st.gsa.hdop ELSE st.gga.hdop)
  BY DEF Commit
<1>2. /\ d.active = (st.rmc # None /\ st.rmc.active)
      /\ st.rmc # None => d.speed = st.rmc.speed /\ d.course = st.rmc.course
  BY DEF Commit
<1>3. /\ st.gsa # None => d.nav = st.gsa.nav /\ d.pdop = st.gsa.pdop /\ d.vdop = st.gsa.vdop
      /\ st.vtg # None => d.kmh = st.vtg.kmh /\ d.magnetic = ParseOr(st.vtg.magnetic, Zero)
  BY DEF Commit
<1>4. /\ d.lat = <<"lat", g.lat>> /\ d.lon = <<"lon", g.lon>>
      /\ d.alt = <<"alt", g.alt>> /\ d.sep = <<"sep", g.alt>>
      /\ d.quality = Num(Quality(g)) /\ d.sats = Num(g.sats)
      /\ st.gga.hdop = OrZero("hdop", g.hdop)
  BY <1>1 DEF GgaSays
<1>5. /\ r # None => st.rmc # None /\ st.rmc = RmcSays(r)
      /\ r = None => st.rmc = None
      /\ a # None => st.gsa # None /\ st.gsa = GsaSays(a)
      /\ a = None => st.gsa = None
  BY SaysSomething DEF RmcStored, GsaStored
<1>6. d.hdop = OrZero("hdop", IF a # None THEN a.hdop ELSE g.hdop)
  BY <1>1, <1>4, <1>5 DEF GsaSays
<1>7. r # None => /\ d.speed = <<"knots", r.speed>> /\ d.course = <<"course", r.course>>
                  /\ st.rmc.active = Active(r)
  BY <1>2, <1>5 DEF RmcSays
<1>8. d.active <=> r # None /\ Active(r)
  BY <1>2, <1>5, <1>7
<1>9. d.active <=> r # None /\ r.ok /\ r.fix >= 2
  BY <1>8 DEF Active
<1>10. a # None => /\ d.nav = Num(NavMode(a))
                   /\ d.pdop = OrZero("pdop", a.pdop) /\ d.vdop = OrZero("vdop", a.vdop)
  BY <1>3, <1>5 DEF GsaSays
<1>11. ASSUME v # None
       PROVE  /\ d.kmh = IF v.valid THEN <<"kmh", v.speed>> ELSE Zero
              /\ (v.valid /\ v.decl # 0) => d.magnetic = <<"magnetic", v.course + v.decl>>
  <2>1. /\ d.kmh = VtgSays(v).kmh
        /\ VtgSays(v).magnetic # Empty => d.magnetic = ParseOr(VtgSays(v).magnetic, Zero)
    BY <1>3, <1>11 DEF VtgStored
  <2>2. /\ VtgSays(v).kmh = IF v.valid THEN <<"kmh", v.speed>> ELSE Zero
        /\ (v.valid /\ v.decl # 0) => VtgSays(v).magnetic = <<"magnetic", v.course + v.decl>>
    BY DEF VtgSays
  <2> QED
    BY <2>1, <2>2, Written DEF ParseOr
<1> HIDE DEF g, r, a, v
<1> QED
  BY <1>4, <1>6, <1>7, <1>9, <1>10, <1>11 DEF Shows, OrZero, g, r, a, v

\* ... and of the set in its slots.
LEMMA CommitShowsSet ==
  ASSUME NEW st, NEW set \in Seq(Satellites), NEW u, NEW d, d = Commit(st, u), SetStored(st, set)
  PROVE  /\ d.inView >= Len(set)
         /\ \A i \in DOMAIN set : i <= SlotCap =>
               LET sv == d.sky[i]
               IN  /\ i <= Len(d.sky)
                   /\ sv.id = <<"id", set[i].sv>> /\ sv.azim = <<"azim", set[i].azim>>
                   /\ sv.elev = (IF set[i].elev >= 0 THEN <<"elev", set[i].elev>> ELSE Num(-1))
                   /\ set[i].cno > 0 => sv.snr = <<"snr", set[i].cno>>
<1> DEFINE n == IF Len(set) > SlotCap THEN SlotCap ELSE Len(set)
           show(i) == IF st.slots[i] = None
                      THEN [id |-> Zero, elev |-> Zero, azim |-> Zero, snr |-> Zero]
                      ELSE [st.slots[i] EXCEPT !.snr = Unsigned(@, u)]
<1>1. SlotCap \in Nat /\ Len(set) \in Nat /\ st.inView = Len(set)
  BY PathAssumption DEF SetStored
<1>2. d.inView = Len(set) /\ d.sky = [i \in 1 .. n |-> show(i)]
  BY <1>1 DEF Commit
<1>3. n \in Nat /\ n <= SlotCap /\ n <= Len(set)
  BY <1>1
<1> HIDE DEF n
<1>4. /\ Len(d.sky) = n
      /\ \A i \in DOMAIN set : i <= SlotCap => i \in 1 .. n /\ i <= n
  <2>1. DOMAIN set = 1 .. Len(set)
    OBVIOUS
  <2> QED
    BY <1>1, <1>2, <1>3, <2>1 DEF n
<1>5. ASSUME NEW i \in 1 .. n
      PROVE  LET sv == d.sky[i]
             IN  /\ sv.id = <<"id", set[i].sv>> /\ sv.azim = <<"azim", set[i].azim>>
                 /\ sv.elev = (IF set[i].elev >= 0 THEN <<"elev", set[i].elev>> ELSE Num(-1))
                 /\ set[i].cno > 0 => sv.snr = <<"snr", set[i].cno>>
  <2>1. i \in 1 .. SlotCap /\ i <= Len(set) /\ i \in 1 .. Len(set)
    BY <1>1, <1>3
  <2>2. st.slots[i] = Seen(set[i])
    BY <2>1 DEF SetStored
  <2>3. set[i] \in Satellites
    BY <2>1
  <2> DEFINE sv == set[i]
  <2>4. Seen(sv) \in SeenSats /\ Seen(sv) # None
    BY <2>3, SeenIn, NoneAssumption DEF SeenSats
  <2>5. d.sky[i] = [Seen(sv) EXCEPT !.snr = Unsigned(@, u)]
    BY <1>2, <2>2, <2>4
  <2> HIDE DEF sv
  <2>6. /\ d.sky[i].id = Seen(sv).id /\ d.sky[i].elev = Seen(sv).elev /\ d.sky[i].azim = Seen(sv).azim
        /\ d.sky[i].snr = Unsigned(Seen(sv).snr, u)
    BY <2>4, <2>5 DEF SeenSats
  <2>7. sv.cno > 0 => Unsigned(Seen(sv).snr, u) = <<"snr", sv.cno>>
    <3>1. <<"snr", sv.cno>> # Num(-1)
      BY DEF Num
    <3> QED
      BY <3>1 DEF Seen, Unsigned
  <2>8. /\ Seen(sv).id = <<"id", sv.sv>> /\ Seen(sv).azim = <<"azim", sv.azim>>
        /\ Seen(sv).elev = (IF sv.elev >= 0 THEN <<"elev", sv.elev>> ELSE Num(-1))
    BY DEF Seen
  <2> QED
    BY <2>6, <2>7, <2>8 DEF sv
<1>6. d.inView >= Len(set)
  BY <1>1, <1>2
<1> QED
  BY <1>4, <1>5, <1>6

\* A GGA sentence that is accepted commits the store: the buffer is what was sent, and a whole set is in it.
LEMMA PositionStep ==
  ASSUME PathIInv, PositionArrives
  PROVE  PathIInv'
<1> DEFINE s == Head(line)
<1>0. PathTypes /\ Arrives("GGA")
  BY DEF PathIInv, PositionArrives
<1>1. s \in GgaSentences /\ s.type = "GGA" /\ line' \in Seq(AllSentences) /\ epochs' \in Nat
  BY <1>0, ArrivalStep, Kinds
<1>2. UNCHANGED <<gsv, whole>>
  BY DEF PositionArrives
<1>3. CASE ~Accepts(s)
  <2>1. UNCHANGED <<store, data, said, shown, epochs>> /\ line # <<>> /\ line' = Tail(line)
    BY <1>3 DEF PositionArrives, Arrives
  <2> QED
    BY <1>2, <2>1, SkipStep
<1>4. CASE Accepts(s)
  <2>1. s.from \in Locations /\ GgaParser(s) = GgaSays(s.from)
    BY <1>1, <1>4, GgaArrived
  <2>2. /\ store' = GgaHandler(GgaParser(s), store) /\ said' = Told(s) /\ shown' = said'
        /\ \E u \in {0, 255} : data' = Commit(store', u)
    BY <1>4 DEF PositionArrives
  <2> DEFINE m == GgaSays(s.from)
             loc == s.from
  <2>3. store' = [store EXCEPT !.gga = m] /\ said' = [said EXCEPT !.GGA = loc]
    BY <1>1, <2>1, <2>2 DEF GgaHandler, Told
  <2>4. m \in GgaMessages /\ loc \in Locations
    BY <2>1 DEF GgaMessages
  <2>5. m = GgaSays(loc)
    OBVIOUS
  <2> HIDE DEF m, loc, s
  <2>6. PathTypes'
    BY <1>0, <1>1, <1>2, <2>3, <2>4 DEF PathTypes
  <2>7. /\ store'.gga = m /\ store'.rmc = store.rmc /\ store'.gsa = store.gsa
        /\ store'.vtg = store.vtg /\ store'.inView = store.inView /\ store'.slots = store.slots
    BY <1>0, <2>3 DEF PathTypes
  <2>8. /\ said'.GGA = loc /\ said'.RMC = said.RMC /\ said'.GSA = said.GSA
        /\ said'.VTG = said.VTG /\ said'.GSV = said.GSV
    BY <1>0, <2>3 DEF PathTypes
  <2>9. RmcStored(store, said)' /\ GsaStored(store, said)' /\ VtgStored(store, said)'
    BY <2>7, <2>8 DEF PathIInv, RmcStored, GsaStored, VtgStored
  <2>10. said'.GSV # None => SetStored(store', said'.GSV)
    BY <2>7, <2>8 DEF PathIInv, SetStored
  <2>11. PartsKept(gsv, whole)'
    BY <1>2 DEF PathIInv, PartsKept
  <2>12. PICK u \in {0, 255} : data' = Commit(store', u)
    BY <2>2
  <2>13. /\ said'.RMC \in Locations \cup {None} /\ said'.GSA \in Locations \cup {None}
         /\ said'.VTG \in Locations \cup {None} /\ said'.GSV \in Seq(Satellites) \cup {None}
    BY <2>6 DEF PathTypes
  <2>14. BufferIsWhatWasSent'
    <3>1. /\ RmcStored(store', said') /\ GsaStored(store', said') /\ VtgStored(store', said')
          /\ store'.gga = GgaSays(said'.GGA) /\ said'.GGA \in Locations
      BY <2>4, <2>5, <2>7, <2>8, <2>9 DEF RmcStored, GsaStored, VtgStored
    <3> DEFINE st == store'
               sd == said'
               d == data'
    <3>2. /\ d = Commit(st, u) /\ RmcStored(st, sd) /\ GsaStored(st, sd) /\ VtgStored(st, sd)
          /\ st.gga = GgaSays(sd.GGA) /\ sd.GGA \in Locations
          /\ sd.RMC \in Locations \cup {None} /\ sd.GSA \in Locations \cup {None}
          /\ sd.VTG \in Locations \cup {None} /\ shown' = sd
      BY <2>2, <2>12, <2>13, <3>1
    <3> HIDE DEF st, sd, d
    <3>3. Shows(d, sd)
      BY <3>2, CommitShows
    <3> QED
      BY <3>2, <3>3 DEF Shows, BufferIsWhatWasSent, sd, d
  <2>15. WholeSetIsShown'
    <3> SUFFICES ASSUME said'.GSV # None PROVE WholeSetIsShown'
      BY <2>2 DEF WholeSetIsShown
    <3> DEFINE st == store'
               set == said'.GSV
               d == data'
    <3>1. /\ set \in Seq(Satellites) /\ d = Commit(st, u) /\ SetStored(st, set) /\ shown'.GSV = set
      BY <2>2, <2>10, <2>12, <2>13
    <3> HIDE DEF st, set, d
    <3>2. /\ d.inView >= Len(set)
          /\ \A i \in DOMAIN set : i <= SlotCap =>
                LET sv == d.sky[i]
                IN  /\ i <= Len(d.sky)
                    /\ sv.id = <<"id", set[i].sv>> /\ sv.azim = <<"azim", set[i].azim>>
                    /\ sv.elev = (IF set[i].elev >= 0 THEN <<"elev", set[i].elev>> ELSE Num(-1))
                    /\ set[i].cno > 0 => sv.snr = <<"snr", set[i].cno>>
      BY <3>1, CommitShowsSet
    <3> QED
      BY <3>1, <3>2 DEF WholeSetIsShown, d
  <2> QED
    BY <2>6, <2>9, <2>10, <2>11, <2>14, <2>15 DEF PathIInv
<1> QED
  BY <1>3, <1>4

\* What a part says is a part.
LEMMA PartSaysIn ==
  ASSUME NEW set \in Seq(Satellites), NEW msg \in 1 .. Messages(set)
  PROVE  /\ PartSays(set, msg) \in Parts
         /\ SeenOf(set) \in Seq(SeenSats) /\ Len(SeenOf(set)) = Len(set)
<1>1. SeenOf(set) \in Seq(SeenSats) /\ Len(SeenOf(set)) = Len(set)
  <2>1. \A i \in 1 .. Len(set) : set[i] \in Satellites
    OBVIOUS
  <2>2. SeenOf(set) \in [1 .. Len(set) -> SeenSats] /\ Len(set) \in Nat
    BY <2>1, SeenIn DEF SeenOf
  <2> QED
    BY <2>2
<1> DEFINE from1 == UpTo(set, msg - 1) + 1
           to == UpTo(set, msg)
           sats == SubSeq(SeenOf(set), from1, to)
<1>2. from1 \in Nat \ {0} /\ to \in Nat /\ to <= Len(set)
  <2>1. msg - 1 \in 0 .. Messages(set) /\ msg \in 0 .. Messages(set)
    BY SetDivided
  <2> QED
    BY <2>1, SetDivided
<1> HIDE DEF from1, to
<1>3. sats \in Seq(SeenSats)
  BY <1>1, <1>2
<1>4. Messages(set) \in Int /\ msg \in Int /\ Len(set) \in Int
  BY SetDivided
<1>5. PartSays(set, msg) = [msgs |-> Messages(set), msg |-> msg, inView |-> Len(set), sats |-> sats]
  BY DEF PartSays, from1, to
<1> HIDE DEF sats
<1> QED
  BY <1>1, <1>3, <1>4, <1>5 DEF Parts

\* The satellites of all parts of a set are those of the set.
LEMMA PartsJoined ==
  ASSUME NEW set \in Seq(Satellites), NEW sats,
         sats = [m \in 1 .. Messages(set) |-> PartSays(set, m).sats]
  PROVE  Joined(sats) = SeenOf(set)
<1> DEFINE t == SeenOf(set)
           n == Messages(set)
           cut == [m \in 0 .. n |-> UpTo(set, m)]
<1>1. n \in Nat \ {0} /\ 1 \in 1 .. n
  BY SetDivided
<1>2. t \in Seq(SeenSats) /\ Len(t) = Len(set)
  BY <1>1, PartSaysIn
<1>3. \A m \in 1 .. n : PartSays(set, m).sats = SubSeq(t, UpTo(set, m - 1) + 1, UpTo(set, m))
  BY DEF PartSays
<1>4. sats \in [1 .. n -> Seq(SeenSats)]
  <2>1. \A m \in 1 .. n : PartSays(set, m).sats \in Seq(SeenSats)
    BY PartSaysIn DEF Parts
  <2> QED
    BY <2>1
<1>5. \A m \in 1 .. n : m - 1 \in 0 .. n /\ m \in 0 .. n
  BY <1>1
<1>6. Cuts(sats, t, cut, n)
  <2>1. cut \in [0 .. n -> Nat] /\ cut[0] = 0
    BY <1>1, SetDivided
  <2>2. ASSUME NEW m \in 1 .. n
        PROVE  /\ cut[m - 1] <= cut[m] /\ cut[m] <= Len(t)
               /\ sats[m] = SubSeq(t, cut[m - 1] + 1, cut[m])
    <3>1. cut[m - 1] = UpTo(set, m - 1) /\ cut[m] = UpTo(set, m)
      BY <1>5
    <3>2. UpTo(set, m - 1) <= UpTo(set, m) /\ UpTo(set, m) <= Len(set)
      BY <1>5, SetDivided
    <3> QED
      BY <1>2, <1>3, <3>1, <3>2
  <2> HIDE DEF cut
  <2> QED
    BY <2>1, <2>2 DEF Cuts
<1>7. cut[n] = Len(t)
  BY <1>1, <1>2, SetDivided
<1> HIDE DEF t, n, cut
<1>8. Joined(sats) = SubSeq(t, 1, cut[n])
  BY <1>1, <1>2, <1>4, <1>6, JoinedCuts, ZenonT(60)
<1> QED
  BY <1>2, <1>7, <1>8, SubSeqFull DEF t

\* With a part that follows, all the parts so far are kept.
LEMMA PartsGathered ==
  ASSUME PathTypes, PartsKept(gsv, whole), NEW set \in Seq(Satellites),
         NEW msg \in 1 .. Messages(set), NEW part, part = PartSays(set, msg), Follows(set, part),
         NEW g, g = GsvUpdate(gsv, part)
  PROVE  /\ g.expected = Messages(set) /\ g.parts = [m \in 1 .. msg |-> PartSays(set, m)]
         /\ g.complete <=> msg = Messages(set)
<1>1. part.msg = msg /\ part.msgs = Messages(set) /\ Messages(set) \in Nat \ {0}
  BY SetDivided DEF PartSays
<1>2. CASE msg = 1
  <2>1. g = [parts |-> Append(<<>>, part), expected |-> Messages(set),
             complete |-> FALSE \/ msg = Messages(set)]
    BY <1>1, <1>2 DEF GsvUpdate
  <2>2. Append(<<>>, part) = [m \in 1 .. 1 |-> PartSays(set, m)]
    BY <1>2
  <2>3. g.expected = Messages(set) /\ g.parts = Append(<<>>, part)
    BY <2>1
  <2>4. g.complete = (FALSE \/ msg = Messages(set))
    BY <2>1
  <2> QED
    BY <1>2, <2>2, <2>3, <2>4
<1>3. CASE msg # 1
  <2>1. whole.set = set /\ whole.upto = msg - 1 /\ whole.upto > 0
    BY <1>1, <1>3 DEF Follows
  <2>2. whole.upto < Messages(whole.set)
    BY <1>1, <2>1
  <2>3. gsv.expected = Messages(set) /\ gsv.parts = [m \in 1 .. msg - 1 |-> PartSays(set, m)]
    BY <2>1, <2>2 DEF PartsKept
  <2>4. /\ g.parts = Append(gsv.parts, part) /\ g.expected = gsv.expected
        /\ g.complete = (gsv.complete \/ msg = gsv.expected)
    BY <1>1, <1>3 DEF GsvUpdate, PathTypes
  <2>5. gsv.complete = FALSE
    BY DEF PathTypes
  <2>6. Append(gsv.parts, part) = [m \in 1 .. msg |-> PartSays(set, m)]
    <3>1. gsv.parts \in Seq(Parts) /\ part \in Parts /\ Len(gsv.parts) = msg - 1
      BY <2>3, PartSaysIn DEF PathTypes
    <3> DEFINE more == Append(gsv.parts, part)
    <3>2. /\ more \in Seq(Parts) /\ Len(more) = msg /\ more[msg] = part
          /\ \A m \in 1 .. msg - 1 : more[m] = gsv.parts[m]
      BY <3>1
    <3> HIDE DEF more
    <3>3. \A m \in 1 .. msg : more[m] = PartSays(set, m)
      <4> TAKE m \in 1 .. msg
      <4>1. CASE m = msg
        BY <3>2, <4>1
      <4>2. CASE m # msg
        BY <2>3, <3>2, <4>2
      <4> QED
        BY <4>1, <4>2
    <3>4. more = [m \in 1 .. msg |-> more[m]]
      BY <3>2
    <3> QED
      BY <3>3, <3>4 DEF more
  <2> QED
    BY <2>3, <2>4, <2>5, <2>6
<1> QED
  BY <1>2, <1>3

\* A GSV sentence goes on with its set, completes it, or breaks it off.
LEMMA SatellitesStep ==
  ASSUME PathIInv, SatellitesArrive
  PROVE  PathIInv'
<1> DEFINE s == Head(line)
           set == s.from
           part == GsvParser(s)
           g == GsvUpdate(gsv, part)
<1>0. PathTypes /\ Arrives("GSV") /\ PartsKept(gsv, whole)
  BY DEF PathIInv, SatellitesArrive
<1>1. s \in GsvSentences /\ s.type = "GSV" /\ line' \in Seq(AllSentences) /\ epochs' \in Nat
  BY <1>0, ArrivalStep, Kinds
<1>2. /\ IF g.complete THEN store' = GsvHandler(g, store) /\ gsv' = GsvCleared(g)
         ELSE gsv' = g /\ UNCHANGED store
      /\ whole' = [set |-> set, upto |-> IF Follows(set, part) THEN part.msg ELSE 0]
      /\ said' = IF whole'.upto = 0 THEN [said EXCEPT !.GSV = None]
                 ELSE IF whole'.upto = part.msgs THEN [said EXCEPT !.GSV = set] ELSE said
      /\ UNCHANGED <<data, shown>>
  BY <1>1 DEF SatellitesArrive, Told
<1>3. BufferIsWhatWasSent' /\ WholeSetIsShown'
  BY <1>2, BufferStays
<1>4. set \in Seq(Satellites) /\ \E msg \in 1 .. Messages(set) : part = PartSays(set, msg)
  BY <1>1, GsvArrived
<1> HIDE DEF s, set, part, g
<1>5. PICK msg \in 1 .. Messages(set) : part = PartSays(set, msg)
  BY <1>4
<1>6. /\ part \in Parts /\ part.msg = msg /\ part.msgs = Messages(set) /\ part.inView = Len(set)
      /\ msg \in Nat \ {0} /\ Messages(set) \in Nat \ {0}
  BY <1>4, <1>5, PartSaysIn, SetDivided DEF PartSays
<1>7. /\ g.parts \in Seq(Parts) /\ g.parts # <<>> /\ g.expected \in Int /\ g.complete \in BOOLEAN
      /\ g = [parts |-> g.parts, expected |-> g.expected, complete |-> g.complete]
  <2> DEFINE h == IF part.msg = 1 THEN [parts |-> <<>>, expected |-> part.msgs, complete |-> FALSE]
                  ELSE gsv
  <2>1. h \in [parts : Seq(Parts), expected : Int, complete : {FALSE}]
    <3>1. [parts |-> <<>>, expected |-> part.msgs, complete |-> FALSE]
             \in [parts : Seq(Parts), expected : Int, complete : {FALSE}]
      BY <1>6
    <3> QED
      BY <1>0, <3>1 DEF PathTypes
  <2>2. g = [h EXCEPT !.parts = Append(@, part), !.complete = @ \/ part.msg = h.expected]
    BY DEF g, GsvUpdate
  <2> HIDE DEF h
  <2> DEFINE more == Append(h.parts, part)
             full == h.complete \/ part.msg = h.expected
  <2>3. g = [parts |-> more, expected |-> h.expected, complete |-> full]
    BY <2>1, <2>2
  <2>4. more \in Seq(Parts) /\ more # <<>>
    BY <1>6, <2>1, SMTT(30)
  <2>5. full \in BOOLEAN /\ h.expected \in Int
    BY <2>1
  <2> HIDE DEF more, full
  <2> QED
    BY <2>3, <2>4, <2>5
<1> DEFINE sats == [j \in DOMAIN g.parts |-> g.parts[j].sats]
           all == Joined(sats)
           slots == [i \in 1 .. SlotCap |-> IF i <= Len(all) THEN all[i] ELSE store.slots[i]]
<1>8. g.complete => store' = [store EXCEPT !.inView = g.parts[1].inView, !.slots = slots]
  BY <1>2 DEF GsvHandler
<1>9. all \in Seq(SeenSats) /\ g.parts[1].inView \in Int
  <2>1. /\ DOMAIN g.parts = 1 .. Len(g.parts) /\ Len(g.parts) \in Nat \ {0}
        /\ \A j \in 1 .. Len(g.parts) : g.parts[j] \in Parts
    BY <1>7
  <2>2. \A p \in Parts : p.sats \in Seq(SeenSats) /\ p.inView \in Int
    BY DEF Parts
  <2>3. sats \in [1 .. Len(g.parts) -> Seq(SeenSats)]
    BY <2>1, <2>2
  <2> HIDE DEF sats
  <2>4. sats \in Seq(Seq(SeenSats))
    BY <2>1, <2>3
  <2>5. all \in Seq(SeenSats)
    BY <2>4, JoinedIn
  <2>6. 1 \in 1 .. Len(g.parts)
    BY <2>1
  <2> QED
    BY <2>1, <2>2, <2>5, <2>6
<1>10. slots \in [1 .. SlotCap -> SeenSats \cup {None}]
  <2> HIDE DEF all
  <2>1. \A i \in 1 .. SlotCap : store.slots[i] \in SeenSats \cup {None}
    BY <1>0 DEF PathTypes
  <2>2. \A i \in 1 .. SlotCap : i <= Len(all) => all[i] \in SeenSats
    BY <1>9, PathAssumption
  <2> QED
    BY <2>1, <2>2
<1> HIDE DEF sats, all, slots
<1> DEFINE w == whole'
<1>11. w = [set |-> set, upto |-> IF Follows(set, part) THEN msg ELSE 0]
  BY <1>2, <1>6
<1>12. PathTypes'
  <2>1. gsv' \in [parts : Seq(Parts), expected : Int, complete : {FALSE}]
    <3>1. CASE g.complete
      <4>1. gsv' = [parts |-> <<>>, expected |-> g.expected, complete |-> FALSE]
        BY <1>2, <1>7, <3>1 DEF GsvCleared
      <4> QED
        BY <1>7, <4>1
    <3>2. CASE ~g.complete
      <4>1. gsv' = g /\ g.complete = FALSE
        BY <1>2, <1>7, <3>2
      <4> QED
        BY <1>7, <4>1
    <3> QED
      BY <3>1, <3>2
  <2>2. store' \in [gga : GgaMessages \cup {None}, rmc : RmcMessages \cup {None},
                    gsa : GsaMessages \cup {None}, vtg : VtgMessages \cup {None},
                    inView : Int, slots : [1 .. SlotCap -> SeenSats \cup {None}]]
    <3>1. CASE g.complete
      BY <1>0, <1>8, <1>9, <1>10, <3>1 DEF PathTypes
    <3>2. CASE ~g.complete
      BY <1>0, <1>2, <3>2 DEF PathTypes
    <3> QED
      BY <3>1, <3>2
  <2>3. said' \in [GGA : Locations \cup {None}, RMC : Locations \cup {None}, GSA : Locations \cup {None},
                   VTG : Locations \cup {None}, GSV : Seq(Satellites) \cup {None}]
    <3>1. said' = [said EXCEPT !.GSV = None] \/ said' = [said EXCEPT !.GSV = set] \/ said' = said
      BY <1>2
    <3> QED
      BY <1>0, <1>4, <3>1 DEF PathTypes
  <2>4. whole' \in [set : Seq(Satellites), upto : Nat]
    BY <1>4, <1>6, <1>11
  <2> QED
    BY <1>1, <2>1, <2>2, <2>3, <2>4 DEF PathTypes
<1>13. RmcStored(store, said)' /\ GsaStored(store, said)' /\ VtgStored(store, said)'
  <2>1. store'.rmc = store.rmc /\ store'.gsa = store.gsa /\ store'.vtg = store.vtg
    BY <1>0, <1>2, <1>8 DEF PathTypes
  <2>2. said'.RMC = said.RMC /\ said'.GSA = said.GSA /\ said'.VTG = said.VTG
    BY <1>0, <1>2 DEF PathTypes
  <2> QED
    BY <2>1, <2>2 DEF PathIInv, RmcStored, GsaStored, VtgStored
<1>14. CASE ~Follows(set, part)
  <2>1. w.upto = 0
    BY <1>11, <1>14
  <2>2. said'.GSV = None
    BY <1>0, <1>2, <2>1 DEF PathTypes
  <2>3. PartsKept(gsv, whole)'
    BY <2>1 DEF PartsKept
  <2> QED
    BY <1>3, <1>12, <1>13, <2>2, <2>3 DEF PathIInv
<1>15. CASE Follows(set, part)
  <2>1. w.upto = msg /\ w.set = set
    BY <1>11, <1>15
  <2>2. /\ g.expected = Messages(set) /\ g.parts = [m \in 1 .. msg |-> PartSays(set, m)]
        /\ g.complete <=> msg = Messages(set)
    BY <1>0, <1>4, <1>5, <1>15, PartsGathered DEF g
  <2>3. CASE msg = Messages(set)
    <3>1. said' = [said EXCEPT !.GSV = set]
      BY <1>2, <1>6, <2>1, <2>3
    <3>2. said'.GSV = set
      BY <1>0, <3>1 DEF PathTypes
    <3>3. sats = [m \in 1 .. Messages(set) |-> PartSays(set, m).sats]
      BY <2>2, <2>3 DEF sats
    <3>4. all = SeenOf(set)
      BY <1>4, <3>3, PartsJoined DEF all
    <3>5. g.parts[1].inView = Len(set)
      BY <1>6, <2>2 DEF PartSays
    <3>6. store'.inView = Len(set) /\ store'.slots = slots
      BY <1>0, <1>8, <2>2, <2>3, <3>5 DEF PathTypes
    <3>7. \A i \in 1 .. SlotCap : i <= Len(set) => slots[i] = Seen(set[i])
      <4>1. Len(all) = Len(set) /\ \A i \in 1 .. Len(set) : all[i] = Seen(set[i])
        <5>1. Len(SeenOf(set)) = Len(set)
          BY <1>4, <1>5, PartSaysIn
        <5> QED
          BY <3>4, <5>1 DEF SeenOf
      <4>2. Len(set) \in Nat /\ SlotCap \in Nat
        BY <1>4, PathAssumption
      <4> QED
        BY <4>1, <4>2 DEF slots
    <3>8. SetStored(store', said'.GSV)
      BY <3>2, <3>6, <3>7 DEF SetStored
    <3>9. PartsKept(gsv, whole)'
      BY <1>6, <2>1, <2>3 DEF PartsKept
    <3> QED
      BY <1>3, <1>12, <1>13, <3>8, <3>9 DEF PathIInv
  <2>4. CASE msg # Messages(set)
    <3>1. said' = said /\ gsv' = g /\ store' = store
      BY <1>2, <1>6, <2>1, <2>2, <2>4
    <3>2. PartsKept(gsv, whole)'
      BY <2>1, <2>2, <3>1 DEF PartsKept
    <3>3. said'.GSV # None => SetStored(store', said'.GSV)
      BY <3>1 DEF PathIInv
    <3> QED
      BY <1>3, <1>12, <1>13, <3>2, <3>3 DEF PathIInv
  <2> QED
    BY <2>3, <2>4
<1> QED
  BY <1>14, <1>15

\* Every step keeps the invariant.
LEMMA PathInductive == PathIInv /\ [PathNext]_pathVars => PathIInv'
<1> SUFFICES ASSUME PathIInv, [PathNext]_pathVars PROVE PathIInv'
  OBVIOUS
<1>1. CASE Speak
  BY <1>1, SpeakStep
<1>2. CASE Lose
  BY <1>2, SkipStep DEF Lose
<1>3. CASE PositionArrives
  BY <1>3, PositionStep
<1>4. CASE StoredOnly
  <2>1. Arrives("RMC") \/ Arrives("GSA") \/ Arrives("VTG")
    BY <1>4 DEF StoredOnly
  <2> QED
    BY <1>4, <2>1, RmcStep, GsaStep, VtgStep
<1>5. CASE SatellitesArrive
  BY <1>5, SatellitesStep
<1>6. CASE Unknown
  BY <1>6, SkipStep DEF Unknown, Arrives
<1>7. CASE UNCHANGED pathVars
  <2>1. PathTypes'
    BY <1>7 DEF PathIInv, PathTypes, pathVars
  <2>2. BufferIsWhatWasSent' /\ WholeSetIsShown'
    BY <1>7, BufferStays DEF pathVars
  <2> QED
    BY <1>7, <2>1, <2>2 DEF PathIInv, pathVars, RmcStored, GsaStored, VtgStored, SetStored, PartsKept
<1> QED
  BY <1>1, <1>2, <1>3, <1>4, <1>5, <1>6, <1>7 DEF PathNext

\* The invariant holds in every state, so whatever sentences are lost.
LEMMA PathInvariant == PathSpec => []PathIInv
BY PathInitially, PathInductive, PTL DEF PathSpec

\* For all locations, satellites, losses and both conversions of -1: after a commit of
\* on_hp_commit() nmea_data holds, member by member, what the last sentence of each type that
\* arrived was made of.
THEOREM BufferTheorem == PathSpec => []BufferIsWhatWasSent
<1>1. PathIInv => BufferIsWhatWasSent
  BY DEF PathIInv
<1> QED
  BY <1>1, PathInvariant, PTL

\* For all sizes of a set, of a sentence and of the store, and whatever is lost: a set of GSV
\* sentences that db_gsv_handler got whole is among what the next commit shows, satellite by
\* satellite up to the room there is, and nothing of a set that broke off takes a place of it.
THEOREM WholeSetTheorem == PathSpec => []WholeSetIsShown
<1>1. PathIInv => WholeSetIsShown
  BY DEF PathIInv
<1> QED
  BY <1>1, PathInvariant, PTL
=============================================================================
