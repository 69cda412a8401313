--------------------------- MODULE LibraryProofs ----------------------------
(***************************************************************************)
(* EventLoop, FdEvents, Signals and ChipControl for every value of their   *)
(* constants, each with the inductive invariant of its safety properties,  *)
(* and their composition.                                                  *)
(***************************************************************************)
EXTENDS Libraries, FiniteSetTheorems, TLAPS

-----------------------------------------------------------------------------
(* EventLoop, for every set of events, every delay, resolution and number  *)
(* of looper threads, and for any number of controllers that stop and      *)
(* resume it at the same time: in a stopped looper nothing is pending,     *)
(* unless a stop() has thrown, and no event runs a millisecond early.      *)

Joining  == {c \in Controllers : cpc[c] = "join"}
Spawning == {c \in Controllers : cpc[c] = "spawn"}
Holding  == {"wait", "requeue", "run"}
Count(b) == IF b THEN 1 ELSE 0

\* The threads there are, and those that are still to be made, are one more
\* than those to be joined while the looper runs, and as many while it does not.
CtlInv ==
  ~thrown => Count(handle # None) + Count(aborted) + Cardinality(Spawning)
               = Count(running) + Cardinality(Joining)

\* The thread of the handle is the only one there is.
ThreadInv == \A t \in Loopers : pc[t] # "none" <=> handle = t

\* The events in hand are in the hands of the threads that hold one.
HandInv ==
  /\ \A t \in Loopers : pc[t] \in Holding => hand[t] \in Events /\ place[hand[t]] = "hand"
  /\ \A e \in Events : place[e] = "hand" => \E t \in Loopers : pc[t] \in Holding /\ hand[t] = e

QuietInv == ~running => \A e \in Events : place[e] # "queued"

\* A wait ends, and an event runs, less than a millisecond before its time.
DueInv ==
  /\ \A t \in Loopers : pc[t] = "wait" => at[hand[t]] < until[t] + Ms
  /\ \A t \in Loopers : pc[t] = "run" => at[hand[t]] < now + Ms

LoopInv == CtlInv /\ ThreadInv /\ HandInv /\ QuietInv /\ DueInv
LoopIInv == TypeOK /\ LoopInv

-----------------------------------------------------------------------------
\* Rounding down to a multiple loses less than one.
LEMMA RoundDown ==
  ASSUME NEW x \in Nat, NEW m \in Nat \ {0}
  PROVE  (x \div m) * m \in Int /\ (x \div m) * m > x - m
  BY SMT

\* A wait_for() is shorter than the time to the event by less than a millisecond.
LEMMA WaitIsLongEnough ==
  ASSUME TypeOK, NEW e \in Events
  PROVE  WaitFor(e) \in Int /\ at[e] < now + WaitFor(e) + Ms
<1>1. at[e] \in Int /\ now \in Int /\ Ms \in Nat \ {0}
  BY LoopAssumption DEF TypeOK, Time
<1>2. CASE at[e] > now
  <2>1. at[e] - now \in Nat
    BY <1>1, <1>2
  <2>2. ((at[e] - now) \div Ms) * Ms \in Int /\ ((at[e] - now) \div Ms) * Ms > (at[e] - now) - Ms
    BY <2>1, <1>1, RoundDown
  <2>3. WaitFor(e) = ((at[e] - now) \div Ms) * Ms
    BY <1>2 DEF WaitFor
  <2> QED BY <2>2, <2>3, <1>1
<1>3. CASE ~(at[e] > now)
  BY <1>1, <1>3 DEF WaitFor
<1> QED BY <1>2, <1>3

LEMMA LoopInitialTypes == Init => TypeOK
<1> SUFFICES ASSUME Init PROVE TypeOK
  OBVIOUS
<1>1. now \in Time /\ at \in [Events -> Time]
  BY LoopAssumption DEF Init, Time
<1>2. pc \in [Loopers -> {"none", "top", "poll", "wait", "requeue", "run", "ended"}]
  BY DEF Init
<1>3. place \in [Events -> {"new", "made", "queued", "hand", "done", "lost"}]
      /\ cpc \in [Controllers -> {"idle", "join", "spawn"}]
  BY DEF Init
<1>4. hand \in [Loopers -> Events \cup {None}] /\ until \in [Loopers -> Int]
  BY DEF Init
<1> QED BY <1>1, <1>2, <1>3, <1>4 DEF Init, TypeOK

LEMMA LoopInitially == Init => LoopIInv
<1> SUFFICES ASSUME Init PROVE LoopIInv
  OBVIOUS
<1>1. TypeOK
  BY LoopInitialTypes
<1>2. CtlInv
  <2>1. Joining = {} /\ Spawning = {} /\ handle # None /\ running /\ ~aborted
    BY LoopAssumption DEF Init, Joining, Spawning
  <2> QED BY <2>1, FS_EmptySet DEF CtlInv, Count
<1>3. ThreadInv /\ HandInv /\ QuietInv /\ DueInv
  BY LoopAssumption DEF Init, ThreadInv, HandInv, QuietInv, DueInv, Holding
<1> QED BY <1>1, <1>2, <1>3 DEF LoopIInv, LoopInv

-----------------------------------------------------------------------------
(* The steps that touch neither a thread nor the controller.               *)

LEMMA TypeStep == TypeOK /\ [Next]_vars => TypeOK'
<1> SUFFICES ASSUME TypeOK, [Next]_vars PROVE TypeOK'
  OBVIOUS
<1> USE LoopAssumption DEF TypeOK, Time
<1>1. CASE UNCHANGED vars
  BY <1>1 DEF vars, postVars, loopVars, ctlVars
<1>2. CASE Tick
  BY <1>2 DEF Tick, postVars, loopVars, ctlVars
<1>3. ASSUME NEW e \in Events, Make(e) \/ Enqueue(e) \/ Notify(e) PROVE TypeOK'
  <2>1. Delay[e] * Ms \in Nat
    OBVIOUS
  <2> QED BY <1>3, <2>1 DEF Due, Make, Enqueue, Notify, loopVars, ctlVars
<1>4. ASSUME NEW t \in Loopers, LooperNext(t) PROVE TypeOK'
  <2>1. CASE Top(t) \/ Sleep(t) \/ Stopped(t) \/ TimedOut(t) \/ Woken(t)
    BY <2>1 DEF Top, Sleep, Stopped, TimedOut, Woken, Goes, postVars, loopVars, ctlVars
  <2>2. CASE Requeue(t) \/ Execute(t)
    BY <2>2 DEF Requeue, Execute, Goes, ctlVars
  <2>3. ASSUME NEW e \in Events, Pop(t, e) PROVE TypeOK'
    <3>1. now + WaitFor(e) \in Int
      BY WaitIsLongEnough
    <3>2. place' \in [Events -> {"new", "made", "queued", "hand", "done", "lost"}]
          /\ hand' \in [Loopers -> Events \cup {None}]
      BY <2>3 DEF Pop
    <3>3. until' \in [Loopers -> Int] /\ asleep' \in SUBSET Loopers
          /\ pc' \in [Loopers -> {"none", "top", "poll", "wait", "requeue", "run", "ended"}]
      BY <2>3, <3>1 DEF Pop, Goes
    <3> QED BY <2>3, <3>2, <3>3 DEF Pop, ctlVars
  <2> QED BY <1>4, <2>1, <2>2, <2>3 DEF LooperNext
<1>5. ASSUME NEW c \in Controllers, ControlNext(c) PROVE TypeOK'
  <2>1. CASE StopSection(c)
    BY <2>1 DEF StopSection, Discard, CtlGoes, loopVars
  <2>2. CASE Join(c)
    BY <2>2 DEF Join, Goes, CtlGoes, postVars
  <2>3. CASE ResumeSection(c)
    BY <2>3 DEF ResumeSection, CtlGoes, postVars, loopVars
  <2>4. CASE Spawn(c)
    BY <2>4 DEF Spawn, Goes, CtlGoes, postVars
  <2>5. CASE JoinThrows(c)
    BY <2>5 DEF JoinThrows, CtlGoes, postVars, loopVars
  <2> QED BY <1>5, <2>1, <2>2, <2>3, <2>4, <2>5 DEF ControlNext, Proceed
<1> QED BY <1>1, <1>2, <1>3, <1>4, <1>5 DEF Next

\* A posting thread, and the clock, keep LoopInv.
LEMMA PostStep ==
  ASSUME LoopIInv, NEW e \in Events, Make(e) \/ Enqueue(e) \/ Notify(e)
  PROVE  LoopInv'
<1>1. CtlInv' /\ ThreadInv'
  BY DEF LoopIInv, LoopInv, CtlInv, Joining, Spawning, ThreadInv, Make, Enqueue, Notify, loopVars, ctlVars
<1>2. HandInv'
  BY DEF LoopIInv, TypeOK, LoopInv, HandInv, Holding, Make, Enqueue, Notify, loopVars, ctlVars
<1>3. QuietInv'
  BY DEF LoopIInv, TypeOK, LoopInv, QuietInv, Make, Enqueue, Notify, loopVars, ctlVars
<1>4. DueInv'
  <2>1. \A t \in Loopers : pc[t] \in {"wait", "run"} => at'[hand[t]] = at[hand[t]]
    BY DEF LoopIInv, TypeOK, LoopInv, HandInv, Holding, Make, Enqueue, Notify
  <2> QED
    BY <2>1 DEF LoopIInv, LoopInv, DueInv, Make, Enqueue, Notify, loopVars, ctlVars
<1> QED BY <1>1, <1>2, <1>3, <1>4 DEF LoopInv

LEMMA LoopTickStep == LoopIInv /\ Tick => LoopInv'
<1> SUFFICES ASSUME LoopIInv, Tick PROVE LoopInv'
  OBVIOUS
<1>1. CtlInv' /\ ThreadInv' /\ HandInv' /\ QuietInv'
  BY DEF LoopIInv, LoopInv, CtlInv, Joining, Spawning, ThreadInv, HandInv, QuietInv, Tick, postVars,
     loopVars, ctlVars
<1>2. DueInv'
  BY LoopAssumption DEF LoopIInv, TypeOK, Time, LoopInv, HandInv, Holding, DueInv, Tick, postVars,
     loopVars, ctlVars
<1> QED BY <1>1, <1>2 DEF LoopInv

-----------------------------------------------------------------------------
(* The looper thread: it is the one of the handle, so what holds of its    *)
(* hand holds of every hand.                                               *)

LEMMA LooperStep ==
  ASSUME LoopIInv, NEW t \in Loopers, LooperNext(t)
  PROVE  LoopInv'
<1>1. pc[t] # "none" /\ handle = t /\ t # None
  BY LoopAssumption DEF LoopIInv, LoopInv, ThreadInv, LooperNext, Top, Sleep, Stopped, Pop, TimedOut,
     Woken, Requeue, Execute
<1>2. \A u \in Loopers : u # t => pc[u] = "none"
  BY <1>1 DEF LoopIInv, LoopInv, ThreadInv
<1>3. CtlInv'
  BY DEF LoopIInv, LoopInv, CtlInv, Joining, Spawning, LooperNext, Top, Sleep, Stopped, Pop, TimedOut,
     Woken, Requeue, Execute, ctlVars
<1>4. ThreadInv'
  BY <1>1, <1>2 DEF LoopIInv, TypeOK, LoopInv, ThreadInv, LooperNext, Top, Sleep, Stopped, Pop,
     TimedOut, Woken, Requeue, Execute, Goes, loopVars, ctlVars
<1>5. CASE Top(t) \/ Sleep(t) \/ Stopped(t)
  <2>1. HandInv' /\ QuietInv'
    BY <1>5 DEF LoopIInv, TypeOK, LoopInv, HandInv, QuietInv, Holding, Top, Sleep, Stopped, Goes,
       postVars, loopVars, ctlVars
  <2>2. DueInv'
    BY <1>5 DEF LoopIInv, TypeOK, LoopInv, DueInv, Top, Sleep, Stopped, Goes, postVars, loopVars, ctlVars
  <2> QED BY <1>3, <1>4, <2>1, <2>2 DEF LoopInv
<1>6. CASE TimedOut(t) \/ Woken(t)
  <2>1. HandInv' /\ QuietInv'
    BY <1>6 DEF LoopIInv, TypeOK, LoopInv, HandInv, QuietInv, Holding, TimedOut, Woken, Goes,
       postVars, ctlVars
  <2>2. pc[t] = "wait" => at[hand[t]] \in Int /\ now \in Int /\ until[t] \in Int /\ Ms \in Int
    BY LoopAssumption DEF LoopIInv, TypeOK, Time, LoopInv, HandInv, Holding
  <2>3. DueInv'
    BY <1>2, <1>6, <2>2 DEF LoopIInv, TypeOK, LoopInv, DueInv, TimedOut, Woken, Goes, postVars, ctlVars
  <2> QED BY <1>3, <1>4, <2>1, <2>3 DEF LoopInv
<1>7. CASE Requeue(t) \/ Execute(t)
  <2>1. pc[t] \in Holding /\ \A e \in Events : place[e] = "hand" => e = hand[t]
    BY <1>2, <1>7 DEF LoopIInv, LoopInv, HandInv, Holding, Requeue, Execute
  <2>2. \A u \in Loopers : pc'[u] \in {"none", "top"}
    BY <1>2, <1>7 DEF LoopIInv, TypeOK, Requeue, Execute, Goes
  <2>3. \A e \in Events : place'[e] # "hand"
    BY <2>1, <1>7 DEF LoopIInv, TypeOK, Requeue, Execute
  <2>4. QuietInv'
    BY <1>7 DEF LoopIInv, TypeOK, LoopInv, QuietInv, Requeue, Execute, ctlVars
  <2> QED BY <1>3, <1>4, <2>2, <2>3, <2>4 DEF LoopInv, HandInv, DueInv, Holding
<1>8. ASSUME NEW e \in Events, Pop(t, e) PROVE LoopInv'
  <2>1. \A f \in Events : place[f] # "hand"
    BY <1>2, <1>8 DEF LoopIInv, LoopInv, HandInv, Holding, Pop
  <2>2. place' = [place EXCEPT ![e] = "hand"] /\ hand'[t] = e
        /\ pc'[t] \in {"wait", "run"} /\ \A u \in Loopers : u # t => pc'[u] = "none"
    BY <1>2, <1>8 DEF LoopIInv, TypeOK, Pop, Goes
  <2>3. HandInv'
    BY <2>1, <2>2 DEF LoopIInv, TypeOK, HandInv, Holding
  <2>4. QuietInv'
    BY <1>8 DEF LoopIInv, TypeOK, LoopInv, QuietInv, Pop, ctlVars
  <2>5. pc'[t] = "wait" => at[e] < until'[t] + Ms
    BY <1>8, WaitIsLongEnough DEF LoopIInv, TypeOK, Pop, Goes
  <2>6. pc'[t] = "run" => at[e] < now + Ms
    <3>1. at[e] \in Int /\ now \in Int /\ Ms \in Nat \ {0}
      BY LoopAssumption DEF LoopIInv, TypeOK, Time
    <3>2. at[e] > now => pc'[t] = "wait"
      BY <1>8 DEF LoopIInv, TypeOK, Pop, Goes
    <3> QED BY <3>1, <3>2
  <2>7. DueInv'
    BY <1>8, <2>2, <2>5, <2>6 DEF DueInv, Pop
  <2> QED BY <1>3, <1>4, <2>3, <2>4, <2>7 DEF LoopInv
<1> QED BY <1>5, <1>6, <1>7, <1>8 DEF LooperNext

-----------------------------------------------------------------------------
(* The controllers.                                                        *)

\* One controller more in a command, or one less.
LEMMA Entered ==
  ASSUME TypeOK, NEW c \in Controllers, cpc[c] = "idle", NEW p \in {"join", "spawn"},
         cpc' = [cpc EXCEPT ![c] = p]
  PROVE  /\ Cardinality(Joining) \in Nat /\ Cardinality(Spawning) \in Nat
         /\ Cardinality(Joining') = Cardinality(Joining) + Count(p = "join")
         /\ Cardinality(Spawning') = Cardinality(Spawning) + Count(p = "spawn")
<1>1. IsFiniteSet(Joining) /\ IsFiniteSet(Spawning)
  BY LoopAssumption, FS_Subset DEF Joining, Spawning
<1>2. c \notin Joining /\ c \notin Spawning
  BY DEF Joining, Spawning
<1>3. /\ Joining' = IF p = "join" THEN Joining \cup {c} ELSE Joining
      /\ Spawning' = IF p = "spawn" THEN Spawning \cup {c} ELSE Spawning
  BY DEF TypeOK, Joining, Spawning
<1>4. /\ Cardinality(Joining) \in Nat /\ Cardinality(Spawning) \in Nat
      /\ Cardinality(Joining \cup {c}) = Cardinality(Joining) + 1
      /\ Cardinality(Spawning \cup {c}) = Cardinality(Spawning) + 1
  BY <1>1, <1>2, FS_AddElement, FS_CardinalityType
<1>5. Count(p = "join") = (IF p = "join" THEN 1 ELSE 0)
      /\ Count(p = "spawn") = (IF p = "spawn" THEN 1 ELSE 0)
  BY DEF Count
<1>6. CASE p = "join"
  BY <1>3, <1>4, <1>5, <1>6
<1>7. CASE p = "spawn"
  BY <1>3, <1>4, <1>5, <1>7
<1> QED BY <1>6, <1>7

LEMMA Left ==
  ASSUME TypeOK, NEW c \in Controllers, NEW p \in {"join", "spawn"}, cpc[c] = p,
         cpc' = [cpc EXCEPT ![c] = "idle"]
  PROVE  /\ Cardinality(Joining) \in Nat /\ Cardinality(Spawning) \in Nat
         /\ Cardinality(Joining') = Cardinality(Joining) - Count(p = "join")
         /\ Cardinality(Spawning') = Cardinality(Spawning) - Count(p = "spawn")
<1>1. IsFiniteSet(Joining) /\ IsFiniteSet(Spawning)
  BY LoopAssumption, FS_Subset DEF Joining, Spawning
<1>2. c \in Joining <=> p = "join"
  BY DEF Joining
<1>3. c \in Spawning <=> p = "spawn"
  BY DEF Spawning
<1>4. /\ Joining' = IF p = "join" THEN Joining \ {c} ELSE Joining
      /\ Spawning' = IF p = "spawn" THEN Spawning \ {c} ELSE Spawning
  BY DEF TypeOK, Joining, Spawning
<1>5. /\ Cardinality(Joining) \in Nat /\ Cardinality(Spawning) \in Nat
      /\ c \in Joining => Cardinality(Joining \ {c}) = Cardinality(Joining) - 1
      /\ c \in Spawning => Cardinality(Spawning \ {c}) = Cardinality(Spawning) - 1
  BY <1>1, FS_RemoveElement, FS_CardinalityType
<1>6. Count(p = "join") = (IF p = "join" THEN 1 ELSE 0)
      /\ Count(p = "spawn") = (IF p = "spawn" THEN 1 ELSE 0)
  BY DEF Count
<1>7. CASE p = "join"
  BY <1>2, <1>4, <1>5, <1>6, <1>7
<1>8. CASE p = "spawn"
  BY <1>3, <1>4, <1>5, <1>6, <1>8
<1> QED BY <1>7, <1>8

\* Whichever thread the handle has by now, stop() and resume() keep LoopInv: a
\* thread is made only when there is none, and joined only when it has ended.
LEMMA ControlStep ==
  ASSUME LoopIInv, ~aborted, NEW c \in Controllers, ControlNext(c)
  PROVE  LoopInv'
<1> USE DEF LoopIInv, TypeOK, LoopInv
<1>0. TypeOK /\ CtlInv /\ running \in BOOLEAN /\ aborted \in BOOLEAN /\ thrown \in BOOLEAN
  OBVIOUS
<1>1. CASE StopSection(c)
  <2>1. cpc[c] = "idle" /\ cpc' = [cpc EXCEPT ![c] = "join"] /\ running /\ ~running'
        /\ UNCHANGED <<handle, aborted, thrown>>
    BY <1>1 DEF StopSection, CtlGoes
  <2>2. CtlInv'
    <3>1. /\ Cardinality(Joining) \in Nat /\ Cardinality(Spawning) \in Nat
          /\ Cardinality(Joining') = Cardinality(Joining) + 1
          /\ Cardinality(Spawning') = Cardinality(Spawning) + 0
      BY <1>0, <2>1, Entered DEF Count
    <3> HIDE DEF LoopIInv, TypeOK, LoopInv
    <3> QED BY <1>0, <2>1, <3>1 DEF CtlInv, Count
  <2>3. ThreadInv'
    BY <1>1 DEF ThreadInv, StopSection, loopVars
  <2>4. HandInv' /\ QuietInv' /\ DueInv'
    BY <1>1 DEF HandInv, QuietInv, DueInv, Holding, StopSection, Discard, loopVars
  <2> QED BY <2>2, <2>3, <2>4
<1>2. CASE Join(c)
  <2>1. handle \in Loopers /\ pc' = [pc EXCEPT ![handle] = "none"] /\ handle' = None
        /\ cpc[c] = "join" /\ cpc' = [cpc EXCEPT ![c] = "idle"]
        /\ UNCHANGED <<running, aborted, thrown>>
    BY <1>2 DEF Join, Goes, CtlGoes
  <2>2. CtlInv'
    <3>1. /\ Cardinality(Joining) \in Nat /\ Cardinality(Spawning) \in Nat
          /\ Cardinality(Joining') = Cardinality(Joining) - 1
          /\ Cardinality(Spawning') = Cardinality(Spawning) - 0
      BY <1>0, <2>1, Left DEF Count
    <3>2. handle # None
      BY <2>1, LoopAssumption
    <3> HIDE DEF LoopIInv, TypeOK, LoopInv
    <3> QED BY <1>0, <2>1, <3>1, <3>2 DEF CtlInv, Count
  <2>3. ThreadInv'
    BY LoopAssumption, <2>1 DEF ThreadInv
  <2>4. \A u \in Loopers : pc'[u] = "none"
    BY <2>1 DEF ThreadInv
  <2>5. \A e \in Events : place[e] # "hand"
    BY <1>2 DEF ThreadInv, HandInv, Holding, Join
  <2> QED
    BY <1>2, <2>2, <2>3, <2>4, <2>5 DEF HandInv, QuietInv, DueInv, Holding, Join, postVars
<1>3. CASE JoinThrows(c)
  BY <1>3 DEF JoinThrows, CtlInv, ThreadInv, HandInv, QuietInv, DueInv, Holding, postVars, loopVars
<1>4. CASE ResumeSection(c)
  <2>1. cpc[c] = "idle" /\ cpc' = [cpc EXCEPT ![c] = "spawn"] /\ ~running /\ running'
        /\ UNCHANGED <<handle, aborted, thrown>>
    BY <1>4 DEF ResumeSection, CtlGoes
  <2>2. CtlInv'
    <3>1. /\ Cardinality(Joining) \in Nat /\ Cardinality(Spawning) \in Nat
          /\ Cardinality(Joining') = Cardinality(Joining) + 0
          /\ Cardinality(Spawning') = Cardinality(Spawning) + 1
      BY <1>0, <2>1, Entered DEF Count
    <3> HIDE DEF LoopIInv, TypeOK, LoopInv
    <3> QED BY <1>0, <2>1, <3>1 DEF CtlInv, Count
  <2> QED
    BY <1>4, <2>2 DEF ThreadInv, HandInv, QuietInv, DueInv, Holding, ResumeSection, postVars, loopVars
<1>5. CASE Spawn(c)
  <2>1. cpc[c] = "spawn" /\ cpc' = [cpc EXCEPT ![c] = "idle"] /\ aborted' = (handle # None)
        /\ UNCHANGED <<running, thrown>>
    BY <1>5 DEF Spawn, CtlGoes
  <2>0. /\ Cardinality(Joining) \in Nat /\ Cardinality(Spawning) \in Nat
        /\ Cardinality(Joining') = Cardinality(Joining) - 0
        /\ Cardinality(Spawning') = Cardinality(Spawning) - 1
    BY <1>0, <2>1, Left DEF Count
  <2>2. CASE handle # None
    <3>1. aborted' /\ UNCHANGED <<pc, handle>>
      BY <1>5, <2>1, <2>2 DEF Spawn
    <3>2. CtlInv'
      <4> HIDE DEF LoopIInv, TypeOK, LoopInv
      <4> QED BY <1>0, <2>0, <2>1, <2>2, <3>1 DEF CtlInv, Count
    <3> QED
      BY <1>5, <3>1, <3>2 DEF ThreadInv, HandInv, QuietInv, DueInv, Holding, Spawn, postVars
  <2>3. CASE handle = None
    <3>1. PICK t \in Loopers : pc[t] = "none" /\ pc' = [pc EXCEPT ![t] = "top"] /\ handle' = t
      BY <1>5, <2>3 DEF Spawn, Goes
    <3>2. ~aborted' /\ handle' # None
      BY LoopAssumption, <2>1, <2>3, <3>1
    <3>3. CtlInv'
      <4> HIDE DEF LoopIInv, TypeOK, LoopInv
      <4> QED BY <1>0, <2>0, <2>1, <2>3, <3>2 DEF CtlInv, Count
    <3>4. \A u \in Loopers : pc[u] = "none"
      BY LoopAssumption, <2>3 DEF ThreadInv
    <3>5. ThreadInv'
      BY <3>1, <3>4 DEF ThreadInv
    <3>6. HandInv' /\ QuietInv' /\ DueInv'
      BY <1>5, <3>1, <3>4 DEF HandInv, QuietInv, DueInv, Holding, Spawn, postVars
    <3> QED BY <3>3, <3>5, <3>6
  <2> QED BY <2>2, <2>3
<1> QED BY <1>1, <1>2, <1>3, <1>4, <1>5 DEF ControlNext, Proceed

LEMMA LoopInductive == ASSUME LoopIInv, [Next]_vars PROVE LoopIInv'
<1>1. TypeOK'
  BY TypeStep DEF LoopIInv
<1>2. LoopInv'
  <2>1. CASE UNCHANGED vars
    BY <2>1 DEF LoopIInv, LoopInv, CtlInv, Joining, Spawning, ThreadInv, HandInv, QuietInv, DueInv, vars,
       postVars, loopVars, ctlVars
  <2> QED
    BY <2>1, LoopTickStep, PostStep, LooperStep, ControlStep DEF Next
<1> QED BY <1>1, <1>2 DEF LoopIInv

-----------------------------------------------------------------------------
\* The variables have the types of the members they stand for, however many
\* threads control the looper.
THEOREM TypeCorrect == Spec => []TypeOK
<1> QED BY LoopInitialTypes, TypeStep, PTL DEF Spec

\* The invariant that the two results below follow from.
THEOREM LoopInvariant == Spec => []LoopIInv
<1>1. LoopIInv /\ [Next]_vars => LoopIInv'
  BY LoopInductive
<1> QED BY LoopInitially, <1>1, PTL DEF Spec

\* However many threads stop and resume a looper at the same time: once their
\* calls have returned, none of them by the exception of a join()
\* (libevent.h:647) without a thread, a stopped looper has an empty queue, no
\* looper thread is alive and none holds an event.
THEOREM QuietSafe == Spec => []StoppedIsQuiet
<1>1. LoopIInv => StoppedIsQuiet
  <2> SUFFICES ASSUME LoopIInv, ~thrown, ~running, \A c \in Controllers : cpc[c] = "idle"
               PROVE  /\ In("queued") \cup In("hand") = {}
                      /\ handle = None
                      /\ \A t \in Loopers : pc[t] = "none"
    BY DEF StoppedIsQuiet
  <2>1. handle = None
    <3>1. Joining = {} /\ Spawning = {}
      BY DEF Joining, Spawning
    <3> QED BY <3>1, FS_EmptySet DEF LoopIInv, LoopInv, CtlInv, Count
  <2>2. \A t \in Loopers : pc[t] = "none"
    BY <2>1, LoopAssumption DEF LoopIInv, LoopInv, ThreadInv
  <2>3. \A e \in Events : place[e] \notin {"queued", "hand"}
    BY <2>2 DEF LoopIInv, LoopInv, HandInv, QuietInv, Holding
  <2> QED BY <2>1, <2>2, <2>3 DEF In
<1> QED BY <1>1, LoopInvariant, PTL

\* poll() (libevent.h:493) hands out no event a whole millisecond early, however
\* often a notification, a stop() or a resume() of any thread has put it back.
THEOREM PunctualSafe == Spec => NeverAMillisecondEarly
<1>1. ASSUME LoopIInv, [Next]_vars
      PROVE  [\A e \in Events : place[e] # "done" /\ place'[e] = "done" => now + Ms > at[e]]_vars
  <2> SUFFICES ASSUME Next, NEW e \in Events, place[e] # "done", place'[e] = "done"
               PROVE  now + Ms > at[e]
    BY <1>1 DEF vars
  <2>1. PICK t \in Loopers : Execute(t)
    BY <1>1 DEF LoopIInv, TypeOK, Next, Tick, Make, Enqueue, Notify, LooperNext, Top, Sleep, Stopped, Pop,
       TimedOut, Woken, Requeue, ControlNext, StopSection, Discard, Proceed,
       Join, JoinThrows, ResumeSection, Spawn, postVars, loopVars
  <2>2. pc[t] = "run" /\ hand[t] = e
    BY <1>1, <2>1 DEF LoopIInv, TypeOK, Execute
  <2>3. at[e] \in Int /\ now \in Int /\ Ms \in Int
    BY <1>1, LoopAssumption DEF LoopIInv, TypeOK, Time
  <2> QED BY <1>1, <2>2, <2>3 DEF LoopIInv, LoopInv, DueInv
<1> QED BY <1>1, LoopInvariant, PTL DEF Spec, NeverAMillisecondEarly

-----------------------------------------------------------------------------
(* FdEvents: the array and the table.                                      *)

\* Outside of poll() and process_events() nothing is left of an earlier report, and what
\* process_events() has still to look at is just what is left of the last one.
ReportInv ==
  /\ phase \in {"idle", "poll"} => F!Reported = {}
  /\ phase = "process" => todo = F!Reported

\* An array that need not be made anew has the enabled descriptors and their events.
ArrayInv ==
  ~modified => \A d \in Fds :
    /\ pollFds[d] = None <=> ~(fdMap[d] # None /\ fdMap[d].enabled)
    /\ pollFds[d] # None => pollFds[d].events = fdMap[d].events

FdInv == F!TypeOK /\ ReportInv /\ ArrayInv /\ (phase = "poll" => ~modified)

LEMMA FdInit ==
  F!Init => FdInv
BY DEF F!Init, FdInv, F!TypeOK, ReportInv, ArrayInv, F!Reported

\* A change of the table leaves the array to be made anew.
LEMMA TableStep ==
  ASSUME FdInv, NEW d \in Fds, NEW e \in F!Entries \cup {None}, F!Table(d, e)
  PROVE  FdInv'
BY DEF F!Table, F!Free, F!loop, FdInv, F!TypeOK, ReportInv, ArrayInv, F!Reported

\* What a caller may put in the place of an entry is an entry.
LEMMA EntryType ==
  /\ \A e \in Masks : [events |-> e, enabled |-> TRUE] \in F!Entries
  /\ \A x \in F!Entries, b \in BOOLEAN : [x EXCEPT !.enabled = b] \in F!Entries
  /\ \A x \in F!Entries, e \in Masks : [x EXCEPT !.events = e] \in F!Entries
BY DEF F!Entries

LEMMA ChangeStep ==
  ASSUME FdInv, NEW d \in Fds, F!Change(d)
  PROVE  FdInv'
<1>1. fdMap[d] # None => fdMap[d] \in F!Entries
  BY DEF FdInv, F!TypeOK
<1>2. \E e \in F!Entries \cup {None} : F!Table(d, e)
  <2>1. CASE F!AddFd(d)
    BY <2>1, EntryType DEF F!AddFd
  <2>2. CASE F!RemoveFd(d)
    BY <2>2 DEF F!RemoveFd
  <2>3. CASE F!EnableFd(d)
    BY <2>3, <1>1, EntryType DEF F!EnableFd
  <2>4. CASE F!DisableFd(d)
    BY <2>4, <1>1, EntryType DEF F!DisableFd
  <2>5. CASE F!ModifyEvents(d)
    BY <2>5, <1>1, EntryType DEF F!ModifyEvents
  <2> QED
    BY <2>1, <2>2, <2>3, <2>4, <2>5 DEF F!Change
<1> QED
  BY <1>2, TableStep

LEMMA WaitStep ==
  ASSUME FdInv, F!Wait
  PROVE  FdInv'
<1>1. /\ phase = "idle" /\ F!Reported = {} /\ modified' = FALSE /\ fdMap' = fdMap /\ todo' = todo
      /\ phase' \in {"idle", "poll"} /\ todo \subseteq Fds
      /\ fdMap \in [Fds -> F!Entries \cup {None}] /\ pollFds \in [Fds -> F!Polled \cup {None}]
  BY DEF F!Wait, FdInv, F!TypeOK, ReportInv
<1>2. CASE modified
  <2>1. pollFds' = F!Rebuilt
    BY <1>2 DEF F!Wait
  <2>2. /\ pollFds' \in [Fds -> F!Polled \cup {None}]
        /\ \A d \in Fds : /\ pollFds'[d] = None <=> ~(fdMap[d] # None /\ fdMap[d].enabled)
                          /\ pollFds'[d] # None => /\ pollFds'[d].events = fdMap[d].events
                                                   /\ pollFds'[d].revents = {}
    BY FdAssumption, <1>1, <2>1 DEF F!Rebuilt, F!Entries, F!Polled
  <2> QED
    BY <1>1, <2>2 DEF FdInv, F!TypeOK, ReportInv, ArrayInv, F!Reported
<1>3. CASE ~modified
  <2>1. pollFds' = pollFds
    BY <1>3 DEF F!Wait
  <2> QED
    BY <1>1, <1>3, <2>1 DEF FdInv, F!TypeOK, ReportInv, ArrayInv, F!Reported
<1> QED
  BY <1>2, <1>3

LEMMA PollReturnsStep ==
  ASSUME FdInv, F!PollReturns
  PROVE  FdInv'
<1>1. PICK got \in [Fds -> SUBSET F!Kinds] :
        pollFds' = [d \in Fds |-> IF pollFds[d] = None THEN None
                                  ELSE [pollFds[d] EXCEPT !.revents = got[d]]]
  BY DEF F!PollReturns
<1>2. \A d \in Fds : pollFds[d] # None =>
        /\ pollFds[d] \in F!Polled /\ pollFds'[d] \in F!Polled /\ pollFds'[d] # None
        /\ pollFds'[d].events = pollFds[d].events
  BY FdAssumption, <1>1 DEF FdInv, F!TypeOK, F!Polled
<1>3. pollFds' \in [Fds -> F!Polled \cup {None}] /\ \A d \in Fds : pollFds[d] = None => pollFds'[d] = None
  BY <1>1, <1>2
<1>4. phase' = "between" /\ fdMap' = fdMap /\ modified' = modified /\ todo' = todo
  BY DEF F!PollReturns
<1> QED
  BY <1>2, <1>3, <1>4 DEF FdInv, F!TypeOK, ReportInv, ArrayInv

LEMMA DispatchStep ==
  ASSUME FdInv, NEW d \in Fds, F!Dispatch(d)
  PROVE  FdInv'
<1>1. /\ phase = "process" /\ todo = F!Reported /\ d \in todo /\ todo' = todo \ {d}
      /\ pollFds' = [pollFds EXCEPT ![d].revents = {}]
      /\ phase' = (IF todo' = {} THEN "idle" ELSE "process")
      /\ fdMap' = fdMap /\ modified' = modified
  BY DEF F!Dispatch, FdInv, ReportInv
<1>2. pollFds[d] # None /\ pollFds[d] \in F!Polled
  BY <1>1 DEF F!Reported, FdInv, F!TypeOK
<1>3. /\ pollFds'[d] \in F!Polled /\ pollFds'[d] # None /\ pollFds'[d].events = pollFds[d].events
      /\ pollFds'[d].revents = {}
  BY FdAssumption, <1>1, <1>2 DEF FdInv, F!TypeOK, F!Polled
<1>4. /\ pollFds' \in [Fds -> F!Polled \cup {None}]
      /\ \A e \in Fds \ {d} : pollFds'[e] = pollFds[e]
  BY <1>1, <1>3 DEF FdInv, F!TypeOK
<1>5. F!Reported' = F!Reported \ {d}
  BY <1>3, <1>4 DEF F!Reported
<1> QED
  BY <1>1, <1>2, <1>3, <1>4, <1>5 DEF FdInv, F!TypeOK, ReportInv, ArrayInv

LEMMA FdNextStep ==
  ASSUME FdInv, [F!Next]_(F!vars)
  PROVE  FdInv'
<1>1. ASSUME NEW d \in Fds, F!Change(d) PROVE FdInv'
  BY <1>1, ChangeStep
<1>2. ASSUME NEW d \in Fds, F!Dispatch(d) PROVE FdInv'
  BY <1>2, DispatchStep
<1>3. CASE F!Clear
  BY <1>3 DEF F!Clear, F!Free, F!loop, FdInv, F!TypeOK, ReportInv, ArrayInv, F!Reported
<1>4. CASE F!Wait
  BY <1>4, WaitStep
<1>5. CASE F!PollReturns
  BY <1>5, PollReturnsStep
<1>6. CASE F!PollEnds
  BY <1>6 DEF F!PollEnds, F!tables, FdInv, F!TypeOK, ReportInv, ArrayInv, F!Reported
<1>7. CASE F!Process
  BY <1>7 DEF F!Process, F!tables, FdInv, F!TypeOK, ReportInv, ArrayInv, F!Reported
<1>8. CASE UNCHANGED F!vars
  BY <1>8 DEF F!vars, F!tables, F!loop, FdInv, F!TypeOK, ReportInv, ArrayInv, F!Reported
<1> QED
  BY <1>1, <1>2, <1>3, <1>4, <1>5, <1>6, <1>7, <1>8 DEF F!Next

LEMMA FdInvCurrent ==
  ASSUME FdInv
  PROVE  F!PollIsCurrent
<1> SUFFICES ASSUME phase = "poll"
             PROVE  pollFds = [d \in Fds |-> IF fdMap[d] # None /\ fdMap[d].enabled
                                             THEN [events |-> fdMap[d].events, revents |-> {}]
                                             ELSE None]
  BY DEF F!PollIsCurrent
<1>1. pollFds \in [Fds -> F!Polled \cup {None}] /\ ~modified
  BY DEF FdInv, F!TypeOK
<1>2. ASSUME NEW d \in Fds, pollFds[d] # None
      PROVE  pollFds[d] = [events |-> fdMap[d].events, revents |-> {}]
  <2>1. pollFds[d] \in F!Polled /\ pollFds[d].events = fdMap[d].events /\ pollFds[d].revents = {}
    BY <1>1, <1>2 DEF FdInv, ReportInv, F!Reported, ArrayInv
  <2> QED
    BY <2>1 DEF F!Polled
<1> QED
  BY <1>1, <1>2 DEF FdInv, ArrayInv

\* fd_event_manager for every set of descriptors and events: poll() waits for exactly the
\* descriptors that the table has enabled, for the events asked for last, and an event that was
\* dispatched is not reported again.
THEOREM PollSafe ==
  F!Spec => []PollIsCurrent
<1>1. FdInv /\ [F!Next]_(F!vars) => FdInv'
  BY FdNextStep
<1> QED
  BY <1>1, FdInit, FdInvCurrent, PTL DEF F!Spec, PollIsCurrent

-----------------------------------------------------------------------------
(* Signals: who knows of whom.                                             *)

Erasing(t, s, o) == job[t] # None /\ <<s, o>> \in job[t].erase
Dropping(t, s, o, n) == job[t] # None /\ <<s, o, n>> \in job[t].drop
Dying(t, x) == job[t] # None /\ job[t].dies = x

\* The pairs a thread has work on, and those it keeps from others.
Works(t, s, o) == Erasing(t, s, o) \/ \E n \in Nat : Dropping(t, s, o, n)
Holds(t, s, o) == Works(t, s, o) \/ Dying(t, s) \/ Dying(t, o)

\* Nobody has work on a pair that another keeps, or on one that is destroyed.
Alone(s, o) ==
  /\ \A t, u \in Threads : Works(t, s, o) /\ Holds(u, s, o) => t = u
  /\ \A t \in Threads : Works(t, s, o) => s \notin dead /\ o \notin dead

Conns(s, o) == Cardinality(conns[s][o])

\* Where nobody has work both sides agree; a slot that left has no count; what a slot has still
\* to be told is what it has too many, unless it left by itself.
Counted(s, o) ==
  /\ (\A t \in Threads : ~Works(t, s, o)) => counts[o][s] = Conns(s, o)
  /\ \A t \in Threads : Erasing(t, s, o) => counts[o][s] = 0
  /\ \A t \in Threads, n \in Nat : Dropping(t, s, o, n) =>
        /\ n > 0 /\ ~Erasing(t, s, o)
        /\ \A m \in Nat : Dropping(t, s, o, m) => m = n
        /\ \/ counts[o][s] = Conns(s, o) + n
           \/ counts[o][s] = 0 /\ conns[s][o] = {}

\* What an object that is being destroyed has still of others it will have lost when its work
\* is done, and an object that is destroyed has nothing.
Severed(s, o) ==
  /\ \A t \in Threads :
       /\ Dying(t, o) => counts[o][s] = 0 /\ (conns[s][o] = {} \/ Erasing(t, s, o))
       /\ Dying(t, s) =>
            conns[s][o] = {} /\ (counts[o][s] = 0 \/ \E n \in Nat : Dropping(t, s, o, n))
  /\ s \in dead \/ o \in dead => counts[o][s] = 0 /\ conns[s][o] = {}

PairOK(s, o) == IsFiniteSet(conns[s][o]) /\ Alone(s, o) /\ Counted(s, o) /\ Severed(s, o)
PairInv == \A s \in Senders, o \in Slots : PairOK(s, o)

\* An object is destroyed once.
DyingInv ==
  \A t \in Threads, x \in Senders \cup Slots : Dying(t, x) =>
    x \notin dead /\ \A u \in Threads : Dying(u, x) => u = t

\* An emission calls slots that are connected.
LeftInv ==
  \A s \in Senders :
    /\ emitter[s] = None => left[s] = {}
    /\ \A o \in Slots, f \in Functions : <<o, f>> \in left[s] => f \in conns[s][o]

SignalsInv == S!TypeOK /\ PairInv /\ DyingInv /\ LeftInv

LEMMA SignalsInit ==
  S!Init => SignalsInv
<1> SUFFICES ASSUME S!Init PROVE SignalsInv
  OBVIOUS
<1>1. /\ conns = [s \in Senders |-> [o \in Slots |-> {}]] /\ callables = [s \in Senders |-> {}]
      /\ counts = [o \in Slots |-> [s \in Senders |-> 0]] /\ dead = {}
      /\ emitter = [s \in Senders |-> None] /\ left = [s \in Senders |-> {}]
      /\ job = [t \in Threads |-> None]
  BY DEF S!Init
<1>2. S!TypeOK
  BY <1>1 DEF S!TypeOK
<1>3. ASSUME NEW s \in Senders, NEW o \in Slots
      PROVE  PairOK(s, o)
  <2>1. conns[s][o] = {} /\ counts[o][s] = 0 /\ IsFiniteSet(conns[s][o]) /\ Conns(s, o) = 0
    BY <1>1, FS_EmptySet DEF Conns
  <2>2. \A t \in Threads : job[t] = None
    BY <1>1
  <2> QED
    BY <1>1, <2>1, <2>2
    DEF PairOK, Alone, Counted, Severed, Holds, Works, Erasing, Dropping, Dying
<1>4. DyingInv /\ LeftInv
  BY <1>1 DEF DyingInv, Dying, LeftInv
<1> QED
  BY <1>2, <1>3, <1>4 DEF SignalsInv, PairInv

\* What concerns a pair stays as it is.
Still(s, o) ==
  /\ conns'[s][o] = conns[s][o] /\ counts'[o][s] = counts[o][s]
  /\ \A u \in Threads :
       /\ Erasing(u, s, o)' <=> Erasing(u, s, o)
       /\ \A n \in Nat : Dropping(u, s, o, n)' <=> Dropping(u, s, o, n)
       /\ Dying(u, s)' <=> Dying(u, s)
       /\ Dying(u, o)' <=> Dying(u, o)
  /\ (s \in dead' <=> s \in dead) /\ (o \in dead' <=> o \in dead)

LEMMA StillOK ==
  ASSUME NEW s \in Senders, NEW o \in Slots, PairOK(s, o), Still(s, o)
  PROVE  PairOK(s, o)'
<1>1. \A t \in Threads : (Works(t, s, o)' <=> Works(t, s, o)) /\ (Holds(t, s, o)' <=> Holds(t, s, o))
  BY DEF Still, Works, Holds
<1>2. Alone(s, o)'
  BY <1>1 DEF PairOK, Alone, Still
<1>3. Counted(s, o)'
  BY <1>1 DEF PairOK, Counted, Still, Conns
<1>4. Severed(s, o)'
  BY DEF PairOK, Severed, Still
<1> QED
  BY <1>2, <1>3, <1>4 DEF PairOK, Still

\* The pairs of Under() are those a thread keeps.
LEMMA UnderIsHeld ==
  ASSUME S!TypeOK, NEW u \in Threads, NEW s \in Senders, NEW o \in Slots
  PROVE  <<s, o>> \in S!Under(u) <=> Holds(u, s, o)
<1>1. CASE job[u] = None
  BY <1>1 DEF S!Under, Holds, Works, Erasing, Dropping, Dying
<1>2. CASE job[u] # None
  <2>1. job[u] \in S!Jobs
    BY <1>2 DEF S!TypeOK
  <2>2. job[u].drop \subseteq Senders \X Slots \X Nat
    BY <2>1 DEF S!Jobs
  <2>3. <<s, o>> \in {<<d[1], d[2]>> : d \in job[u].drop} <=> \E n \in Nat : <<s, o, n>> \in job[u].drop
    <3>1. ASSUME NEW n \in Nat, <<s, o, n>> \in job[u].drop
          PROVE  <<s, o>> \in {<<d[1], d[2]>> : d \in job[u].drop}
      <4>1. <<s, o, n>>[1] = s /\ <<s, o, n>>[2] = o
        OBVIOUS
      <4> QED
        BY <3>1, <4>1
    <3>2. ASSUME NEW d \in job[u].drop, <<s, o>> = <<d[1], d[2]>>
          PROVE  \E n \in Nat : <<s, o, n>> \in job[u].drop
      <4>1. d \in Senders \X Slots \X Nat /\ d[1] = s /\ d[2] = o
        BY <2>2, <3>2
      <4> QED
        BY <4>1
    <3> QED
      BY <3>1, <3>2
  <2>4. <<s, o>> \in {p \in S!Pairs : job[u].dies \in {p[1], p[2]}} <=> job[u].dies \in {s, o}
    BY DEF S!Pairs
  <2> QED
    BY <1>2, <2>3, <2>4 DEF S!Under, Holds, Works, Erasing, Dropping, Dying
<1> QED
  BY <1>1, <1>2

LEMMA MayTouch ==
  ASSUME S!TypeOK, NEW t \in Threads, NEW pairs, S!May(t, pairs),
         NEW s \in Senders, NEW o \in Slots, <<s, o>> \in pairs
  PROVE  /\ job[t] = None /\ s \notin dead /\ o \notin dead
         /\ \A u \in Threads : ~Holds(u, s, o)
<1>1. job[t] = None /\ s \notin dead /\ o \notin dead
  BY DEF S!May
<1>2. \A u \in Threads : <<s, o>> \notin S!Under(u)
  BY DEF S!May
<1> QED
  BY <1>1, <1>2, UnderIsHeld

\* What is known of the jobs when a thread's changes.
JobIs(t, erase, drop, dies) ==
  /\ job' \in [Threads -> S!Jobs \cup {None}]
  /\ \A s \in Senders, o \in Slots, n \in Nat :
       /\ Erasing(t, s, o)' <=> <<s, o>> \in erase
       /\ Dropping(t, s, o, n)' <=> <<s, o, n>> \in drop
       /\ \A u \in Threads \ {t} :
            /\ Erasing(u, s, o)' <=> Erasing(u, s, o)
            /\ Dropping(u, s, o, n)' <=> Dropping(u, s, o, n)
  /\ \A x \in Senders \cup Slots :
       /\ Dying(t, x)' <=> x = dies
       /\ \A u \in Threads \ {t} : Dying(u, x)' <=> Dying(u, x)

\* A pair on which the thread has no work, before and after.
LEMMA StillAside ==
  ASSUME NEW t \in Threads, NEW erase, NEW drop, NEW dies, JobIs(t, erase, drop, dies),
         NEW r \in Senders, NEW q \in Slots,
         ~Holds(t, r, q), ~Holds(t, r, q)',
         conns'[r][q] = conns[r][q], counts'[q][r] = counts[q][r], dead' = dead
  PROVE  Still(r, q)
<1>1. /\ ~Erasing(t, r, q) /\ ~Dying(t, r) /\ ~Dying(t, q) /\ \A m \in Nat : ~Dropping(t, r, q, m)
      /\ ~Erasing(t, r, q)' /\ ~Dying(t, r)' /\ ~Dying(t, q)' /\ \A m \in Nat : ~Dropping(t, r, q, m)'
  BY DEF Holds, Works
<1>2. \A u \in Threads \ {t} :
        /\ Erasing(u, r, q)' <=> Erasing(u, r, q)
        /\ \A n \in Nat : Dropping(u, r, q, n)' <=> Dropping(u, r, q, n)
        /\ (Dying(u, r)' <=> Dying(u, r)) /\ (Dying(u, q)' <=> Dying(u, q))
  BY DEF JobIs
<1> QED
  BY <1>1, <1>2 DEF Still

LEMMA JobGoes ==
  ASSUME S!TypeOK, NEW t \in Threads, NEW erase \in SUBSET S!Pairs,
         NEW drop \in SUBSET (Senders \X Slots \X Nat), NEW dies \in Senders \cup Slots \cup {None},
         S!Goes(t, erase, drop, dies)
  PROVE  JobIs(t, erase, drop, dies)
<1> DEFINE new == [erase |-> erase, drop |-> drop, dies |-> dies]
<1>1. new \in S!Jobs /\ new # None
  BY SignalsAssumption DEF S!Jobs
<1>2. new.erase = erase /\ new.drop = drop /\ new.dies = dies
  OBVIOUS
<1>3. job' = [job EXCEPT ![t] = new] /\ job \in [Threads -> S!Jobs \cup {None}]
  BY DEF S!Goes, S!TypeOK
<1> HIDE DEF new
<1>4. job' \in [Threads -> S!Jobs \cup {None}] /\ job'[t] = new /\ \A u \in Threads \ {t} : job'[u] = job[u]
  BY <1>1, <1>3
<1> QED
  BY <1>1, <1>2, <1>4 DEF JobIs, Erasing, Dropping, Dying

LEMMA JobEnds ==
  ASSUME S!TypeOK, NEW t \in Threads, S!Ends(t)
  PROVE  JobIs(t, {}, {}, None)
<1>1. job' = [job EXCEPT ![t] = None] /\ job \in [Threads -> S!Jobs \cup {None}]
  BY DEF S!Ends, S!TypeOK
<1>2. job' \in [Threads -> S!Jobs \cup {None}] /\ job'[t] = None /\ \A u \in Threads \ {t} : job'[u] = job[u]
  BY <1>1
<1> QED
  BY <1>2, SignalsAssumption DEF JobIs, Erasing, Dropping, Dying

\* Where nobody keeps a pair, both sides agree on it.
LEMMA FreePair ==
  ASSUME PairInv, NEW s \in Senders, NEW o \in Slots, \A u \in Threads : ~Holds(u, s, o)
  PROVE  counts[o][s] = Conns(s, o) /\ IsFiniteSet(conns[s][o]) /\ Conns(s, o) \in Nat
<1>1. PairOK(s, o)
  BY DEF PairInv
<1>2. counts[o][s] = Conns(s, o) /\ IsFiniteSet(conns[s][o])
  BY <1>1 DEF PairOK, Counted, Holds
<1> QED
  BY <1>2, FS_CardinalityType DEF Conns

LEMMA OnePair ==
  ASSUME PairInv, NEW s \in Senders, NEW o \in Slots, PairOK(s, o)',
         \A r \in Senders, q \in Slots : r # s \/ q # o => Still(r, q)
  PROVE  PairInv'
<1> SUFFICES ASSUME NEW r \in Senders, NEW q \in Slots PROVE PairOK(r, q)'
  BY DEF PairInv
<1>1. CASE r = s /\ q = o
  BY <1>1
<1>2. CASE r # s \/ q # o
  BY <1>2, StillOK DEF PairInv
<1> QED
  BY <1>1, <1>2

LEMMA SameDying ==
  ASSUME DyingInv, dead' = dead, \A t \in Threads, x \in Senders \cup Slots : Dying(t, x)' => Dying(t, x)
  PROVE  DyingInv'
BY DEF DyingInv

\* With its jobs, its objects and the state of its pairs a step leaves every pair as it was.
LEMMA SamePairs ==
  ASSUME PairInv, DyingInv, UNCHANGED <<conns, counts, job, dead>>
  PROVE  PairInv' /\ DyingInv'
<1>1. \A s \in Senders, o \in Slots : Still(s, o)
  BY DEF Still, Erasing, Dropping, Dying
<1>2. PairInv'
  BY <1>1, StillOK DEF PairInv
<1>3. DyingInv'
  BY SameDying DEF Dying
<1> QED
  BY <1>2, <1>3

LEMMA ConnectStep ==
  ASSUME SignalsInv, NEW t \in Threads, NEW s \in Senders, NEW o \in Slots, NEW f \in Functions,
         S!Connect(t, s, o, f)
  PROVE  SignalsInv'
<1>1. /\ f \notin conns[s][o] /\ S!May(t, {<<s, o>>}) /\ emitter[s] = None
      /\ conns' = [conns EXCEPT ![s][o] = @ \cup {f}] /\ counts' = [counts EXCEPT ![o][s] = @ + 1]
      /\ UNCHANGED <<callables, emitter, left, job, dead>>
  BY DEF S!Connect, S!Unlocked, S!emission
<1>2. S!TypeOK /\ PairInv /\ DyingInv /\ LeftInv
  BY DEF SignalsInv
<1>3. conns \in [Senders -> [Slots -> SUBSET Functions]] /\ counts \in [Slots -> [Senders -> Nat]]
  BY <1>2 DEF S!TypeOK
<1>4. /\ conns' \in [Senders -> [Slots -> SUBSET Functions]] /\ counts' \in [Slots -> [Senders -> Nat]]
      /\ conns'[s][o] = conns[s][o] \cup {f} /\ counts'[o][s] = counts[o][s] + 1
      /\ \A r \in Senders, q \in Slots : r # s \/ q # o =>
            conns'[r][q] = conns[r][q] /\ counts'[q][r] = counts[q][r]
  BY <1>1, <1>3
<1>5. /\ s \notin dead /\ o \notin dead /\ \A u \in Threads : ~Holds(u, s, o)
  BY <1>1, <1>2, MayTouch
<1>6. \A u \in Threads : ~Holds(u, s, o)'
  BY <1>1, <1>5 DEF Holds, Works, Erasing, Dropping, Dying
<1>7. IsFiniteSet(conns'[s][o]) /\ counts'[o][s] = Conns(s, o)'
  BY <1>1, <1>2, <1>4, <1>5, FreePair, FS_AddElement DEF Conns
<1>8. PairOK(s, o)'
  BY <1>1, <1>5, <1>6, <1>7 DEF PairOK, Alone, Counted, Severed, Holds, Works
<1>9. \A r \in Senders, q \in Slots : r # s \/ q # o => Still(r, q)
  BY <1>1, <1>4 DEF Still, Erasing, Dropping, Dying
<1>10. PairInv'
  BY <1>2, <1>8, <1>9, OnePair
<1>11. DyingInv'
  BY <1>1, <1>2, SameDying DEF Dying
<1>12. LeftInv'
  BY <1>1, <1>2, <1>3, <1>4 DEF LeftInv
<1>13. S!TypeOK'
  BY <1>1, <1>2, <1>4 DEF S!TypeOK
<1> QED
  BY <1>10, <1>11, <1>12, <1>13 DEF SignalsInv

\* A thread erases connections of a pair in the signal, and has to tell the slot of n.
LEMMA ErasedInSignal ==
  ASSUME SignalsInv, NEW t \in Threads, NEW s \in Senders, NEW o \in Slots, NEW kept,
         kept \subseteq conns[s][o], NEW n \in Nat,
         \A u \in Threads : ~Holds(u, s, o), emitter[s] = None, s \notin dead, o \notin dead,
         job[t] = None, Conns(s, o) = Cardinality(kept) + n,
         conns' = [conns EXCEPT ![s][o] = kept],
         S!Goes(t, {}, IF n = 0 THEN {} ELSE {<<s, o, n>>}, None),
         UNCHANGED <<callables, counts, emitter, left, dead>>
  PROVE  SignalsInv'
<1> DEFINE drop == IF n = 0 THEN {} ELSE {<<s, o, n>>}
<1>1. S!TypeOK /\ PairInv /\ DyingInv /\ LeftInv
  BY DEF SignalsInv
<1>2. conns \in [Senders -> [Slots -> SUBSET Functions]] /\ counts \in [Slots -> [Senders -> Nat]]
  BY <1>1 DEF S!TypeOK
<1>3. /\ conns' \in [Senders -> [Slots -> SUBSET Functions]] /\ conns'[s][o] = kept
      /\ \A r \in Senders, q \in Slots : r # s \/ q # o => conns'[r][q] = conns[r][q]
  BY <1>2
<1>4. drop \in SUBSET (Senders \X Slots \X Nat) /\ {} \in SUBSET S!Pairs
  OBVIOUS
<1>5. JobIs(t, {}, drop, None)
  BY <1>1, <1>4, JobGoes
<1> HIDE DEF drop
<1>6. /\ counts[o][s] = Cardinality(kept) + n /\ IsFiniteSet(kept) /\ Cardinality(kept) \in Nat
      /\ counts'[o][s] = counts[o][s]
  BY <1>1, FreePair, FS_Subset, FS_CardinalityType
<1>7. /\ \A u \in Threads : ~Erasing(u, s, o)' /\ ~Dying(u, s)' /\ ~Dying(u, o)'
      /\ \A m \in Nat : Dropping(t, s, o, m)' <=> (m = n /\ n # 0)
      /\ \A u \in Threads \ {t}, m \in Nat : ~Dropping(u, s, o, m)'
  <2>1. \A u \in Threads, m \in Nat :
          ~Erasing(u, s, o) /\ ~Dropping(u, s, o, m) /\ ~Dying(u, s) /\ ~Dying(u, o)
    BY DEF Holds, Works
  <2>2. \A m \in Nat : <<s, o, m>> \in drop <=> (m = n /\ n # 0)
    BY DEF drop
  <2> QED
    BY <1>5, <2>1, <2>2, SignalsAssumption DEF JobIs
<1>8. PairOK(s, o)'
  <2>1. Alone(s, o)'
    BY <1>7 DEF Alone, Holds, Works
  <2>2. Counted(s, o)'
    BY <1>3, <1>6, <1>7 DEF Counted, Works, Conns
  <2>3. Severed(s, o)'
    BY <1>7 DEF Severed
  <2> QED
    BY <1>3, <1>6, <2>1, <2>2, <2>3 DEF PairOK
<1>9. ASSUME NEW r \in Senders, NEW q \in Slots, r # s \/ q # o
      PROVE  Still(r, q)
  <2>1. ~Holds(t, r, q)
    BY DEF Holds, Works, Erasing, Dropping, Dying
  <2>2. \A m \in Nat : <<r, q, m>> \notin drop
    BY <1>9 DEF drop
  <2>3. r # None /\ q # None
    BY SignalsAssumption
  <2>4. counts'[q][r] = counts[q][r] /\ conns'[r][q] = conns[r][q] /\ dead' = dead
    BY <1>3, <1>9
  <2>5. ~Holds(t, r, q)'
    BY <1>5, <2>2, <2>3 DEF JobIs, Holds, Works
  <2> QED
    BY <1>5, <2>1, <2>4, <2>5, StillAside
<1>10. PairInv'
  BY <1>1, <1>8, <1>9, OnePair
<1>11. DyingInv'
  <2>1. \A x \in Senders \cup Slots : ~Dying(t, x)'
    BY <1>5, SignalsAssumption DEF JobIs
  <2> QED
    BY <1>1, <1>5, <2>1, SameDying DEF JobIs
<1>12. LeftInv'
  BY <1>1, <1>3 DEF LeftInv
<1>13. S!TypeOK'
  BY <1>1, <1>3, <1>5 DEF S!TypeOK, JobIs
<1> QED
  BY <1>10, <1>11, <1>12, <1>13 DEF SignalsInv

LEMMA DisconnectStep ==
  ASSUME SignalsInv, NEW t \in Threads, NEW s \in Senders, NEW o \in Slots, NEW f \in Functions,
         S!Disconnect(t, s, o, f)
  PROVE  SignalsInv'
<1>1. /\ f \in conns[s][o] /\ S!May(t, {<<s, o>>}) /\ emitter[s] = None
      /\ conns' = [conns EXCEPT ![s][o] = @ \ {f}] /\ S!Goes(t, {}, {<<s, o, 1>>}, None)
      /\ UNCHANGED <<callables, counts, emitter, left, dead>>
  BY DEF S!Disconnect, S!Unlocked, S!emission
<1>2. S!TypeOK /\ PairInv
  BY DEF SignalsInv
<1>3. /\ job[t] = None /\ s \notin dead /\ o \notin dead /\ \A u \in Threads : ~Holds(u, s, o)
  BY <1>1, <1>2, MayTouch
<1> DEFINE kept == conns[s][o] \ {f}
<1>4. /\ IsFiniteSet(conns[s][o]) /\ Conns(s, o) \in Nat
      /\ Cardinality(kept) = Conns(s, o) - 1
  BY <1>1, <1>2, <1>3, FreePair, FS_RemoveElement DEF Conns
<1>5. kept \subseteq conns[s][o] /\ Conns(s, o) = Cardinality(kept) + 1
  BY <1>4
<1>6. conns' = [conns EXCEPT ![s][o] = kept]
  BY <1>1
<1>7. S!Goes(t, {}, IF 1 = 0 THEN {} ELSE {<<s, o, 1>>}, None)
  BY <1>1
<1> HIDE DEF kept
<1> QED
  BY <1>1, <1>3, <1>5, <1>6, <1>7, ErasedInSignal

\* Signals counts as this module does.
LEMMA SameCardinality ==
  ASSUME NEW x
  PROVE  S!Cardinality(x) = Cardinality(x)
BY DEF S!Cardinality, Cardinality

\* What Count() says of a pair.
LEMMA CountIs ==
  ASSUME NEW s \in Senders, NEW o \in Slots, IsFiniteSet(conns[s][o])
  PROVE  /\ S!Count(s, o) = IF Conns(s, o) = 0 THEN {} ELSE {<<s, o, Conns(s, o)>>}
         /\ Conns(s, o) \in Nat /\ (Conns(s, o) = 0 <=> conns[s][o] = {})
<1>1. Conns(s, o) \in Nat /\ (Conns(s, o) = 0 <=> conns[s][o] = {})
  BY FS_EmptySet, FS_CardinalityType DEF Conns
<1>2. CASE conns[s][o] = {}
  BY <1>1, <1>2 DEF S!Count
<1>3. CASE conns[s][o] # {}
  <2>1. S!Count(s, o) = {<<s, o, Conns(s, o)>>}
    BY <1>3, SameCardinality DEF S!Count, Conns
  <2> QED
    BY <1>1, <1>3, <2>1
<1> QED
  BY <1>1, <1>2, <1>3

LEMMA DisconnectSlotStep ==
  ASSUME SignalsInv, NEW t \in Threads, NEW s \in Senders, NEW o \in Slots, S!DisconnectSlot(t, s, o)
  PROVE  SignalsInv'
<1>1. /\ S!May(t, {<<s, o>>}) /\ emitter[s] = None
      /\ conns' = [conns EXCEPT ![s][o] = {}] /\ S!Goes(t, {}, S!Count(s, o), None)
      /\ UNCHANGED <<callables, counts, emitter, left, dead>>
  BY DEF S!DisconnectSlot, S!Unlocked, S!emission
<1>2. S!TypeOK /\ PairInv
  BY DEF SignalsInv
<1>3. /\ job[t] = None /\ s \notin dead /\ o \notin dead /\ \A u \in Threads : ~Holds(u, s, o)
  BY <1>1, <1>2, MayTouch
<1>4. /\ IsFiniteSet(conns[s][o]) /\ Conns(s, o) \in Nat /\ Conns(s, o) = Cardinality({}) + Conns(s, o)
  BY <1>2, <1>3, FreePair, FS_EmptySet
<1>5. S!Goes(t, {}, IF Conns(s, o) = 0 THEN {} ELSE {<<s, o, Conns(s, o)>>}, None)
  BY <1>1, <1>4, CountIs
<1> QED
  BY <1>1, <1>3, <1>4, <1>5, ErasedInSignal

LEMMA DisconnectAllStep ==
  ASSUME SignalsInv, NEW t \in Threads, NEW s \in Senders, NEW dies \in {None, s},
         S!DisconnectAll(t, s, dies)
  PROVE  SignalsInv'
<1> DEFINE drop == UNION {S!Count(s, o) : o \in Slots}
<1>1. /\ S!Usable(s) /\ S!May(t, {s} \X (Slots \ dead)) /\ emitter[s] = None
      /\ conns' = [conns EXCEPT ![s] = [o \in Slots |-> {}]]
      /\ callables' = [callables EXCEPT ![s] = {}] /\ S!Goes(t, {}, drop, dies)
      /\ UNCHANGED <<counts, emitter, left, dead>>
  BY DEF S!DisconnectAll, S!Unlocked, S!emission
<1>2. S!TypeOK /\ PairInv /\ DyingInv /\ LeftInv
  BY DEF SignalsInv
<1>3. /\ job[t] = None /\ s \notin dead /\ \A u \in Threads : ~Dying(u, s)
  BY <1>1 DEF S!May, S!Usable, Dying
<1>4. ASSUME NEW o \in Slots \ dead
      PROVE  \A u \in Threads : ~Holds(u, s, o)
  BY <1>1, <1>2, MayTouch
<1>5. ASSUME NEW o \in Slots
      PROVE  /\ IsFiniteSet(conns[s][o]) /\ Conns(s, o) \in Nat /\ counts[o][s] = Conns(s, o)
             /\ S!Count(s, o) = IF Conns(s, o) = 0 THEN {} ELSE {<<s, o, Conns(s, o)>>}
             /\ o \in dead => Conns(s, o) = 0
             /\ \A u \in Threads : ~Works(u, s, o) /\ (o \notin dead => ~Holds(u, s, o))
  <2>1. IsFiniteSet(conns[s][o]) /\ PairOK(s, o)
    BY <1>2 DEF PairInv, PairOK
  <2>2. CASE o \in dead
    BY <2>1, <2>2, CountIs DEF PairOK, Severed, Alone
  <2>3. CASE o \notin dead
    BY <1>2, <1>4, <2>3, FreePair, CountIs DEF Holds
  <2> QED
    BY <2>1, <2>2, <2>3, CountIs
<1>6. /\ drop \in SUBSET (Senders \X Slots \X Nat)
      /\ \A r \in Senders, o \in Slots, n \in Nat :
           <<r, o, n>> \in drop <=> r = s /\ n = Conns(s, o) /\ n # 0
  <2>1. \A o \in Slots : S!Count(s, o) \subseteq Senders \X Slots \X Nat
    BY <1>5
  <2>2. ASSUME NEW r \in Senders, NEW o \in Slots, NEW n \in Nat
        PROVE  <<r, o, n>> \in drop <=> r = s /\ n = Conns(s, o) /\ n # 0
    <3>1. \A q \in Slots : <<r, o, n>> \in S!Count(s, q) <=> q = o /\ r = s /\ n = Conns(s, o) /\ n # 0
      BY <1>5
    <3> QED
      BY <3>1
  <2> QED
    BY <2>1, <2>2
<1>7. dies \in Senders \cup Slots \cup {None}
  OBVIOUS
<1>8. JobIs(t, {}, drop, dies)
  <2>1. S!Goes(t, {}, drop, dies)
    BY <1>1
  <2> HIDE DEF drop
  <2> QED
    BY <1>2, <1>6, <1>7, <2>1, JobGoes
<1> HIDE DEF drop
<1>9. conns \in [Senders -> [Slots -> SUBSET Functions]] /\ counts \in [Slots -> [Senders -> Nat]]
      /\ callables \in [Senders -> SUBSET Lambdas]
  BY <1>2 DEF S!TypeOK
<1>10. /\ conns' \in [Senders -> [Slots -> SUBSET Functions]]
       /\ \A o \in Slots : conns'[s][o] = {}
       /\ \A r \in Senders \ {s} : conns'[r] = conns[r]
       /\ callables' \in [Senders -> SUBSET Lambdas]
  BY <1>1, <1>9
<1>11. ASSUME NEW o \in Slots
       PROVE  PairOK(s, o)'
  <2>1. /\ \A u \in Threads : ~Erasing(u, s, o)'
        /\ \A n \in Nat : Dropping(t, s, o, n)' <=> n = Conns(s, o) /\ n # 0
        /\ \A u \in Threads \ {t}, n \in Nat : ~Dropping(u, s, o, n)'
        /\ \A u \in Threads \ {t} : ~Dying(u, s)'
        /\ o \notin dead => \A u \in Threads : ~Dying(u, o)'
        /\ o \in dead => \A u \in Threads : ~Dying(u, o)
    <3>1. \A u \in Threads, n \in Nat : ~Erasing(u, s, o) /\ ~Dropping(u, s, o, n)
      BY <1>5 DEF Works
    <3>2. o # dies
      BY SignalsAssumption
    <3>3. \A u \in Threads : ~Dying(u, o)
      BY <1>2, <1>5 DEF DyingInv, Holds
    <3> QED
      BY <1>3, <1>6, <1>8, <3>1, <3>2, <3>3 DEF JobIs
  <2>2. \A u \in Threads : ~Dying(u, o)'
    <3>1. o # dies
      BY SignalsAssumption
    <3>2. \A u \in Threads : ~Dying(u, o)
      BY <1>2, <1>5 DEF DyingInv, Holds
    <3> QED
      BY <1>8, <3>1, <3>2 DEF JobIs
  <2>3. /\ conns'[s][o] = {} /\ counts'[o][s] = Conns(s, o) /\ Conns(s, o) \in Nat
        /\ IsFiniteSet(conns'[s][o]) /\ Conns(s, o)' = 0 /\ dead' = dead
    BY <1>1, <1>5, <1>10, FS_EmptySet DEF Conns
  <2>4. Alone(s, o)'
    BY <1>3, <1>5, <2>1, <2>2, <2>3 DEF Alone, Holds, Works
  <2>5. Counted(s, o)'
    BY <2>1, <2>3 DEF Counted, Works
  <2>6. Severed(s, o)'
    BY <1>3, <1>5, <2>1, <2>2, <2>3 DEF Severed
  <2> QED
    BY <2>3, <2>4, <2>5, <2>6 DEF PairOK
<1>12. ASSUME NEW r \in Senders \ {s}, NEW q \in Slots
       PROVE  Still(r, q)
  <2>1. ~Holds(t, r, q)
    BY <1>3 DEF Holds, Works, Erasing, Dropping, Dying
  <2>2. (\A m \in Nat : <<r, q, m>> \notin drop) /\ r # dies /\ q # dies
    BY <1>6, SignalsAssumption
  <2>3. conns'[r][q] = conns[r][q] /\ counts'[q][r] = counts[q][r] /\ dead' = dead
    BY <1>1, <1>10
  <2>4. ~Holds(t, r, q)'
    BY <1>8, <2>2 DEF JobIs, Holds, Works
  <2> QED
    BY <1>8, <2>1, <2>3, <2>4, StillAside
<1>13. PairInv'
  BY <1>2, <1>11, <1>12, StillOK DEF PairInv
<1>14. DyingInv'
  <2>1. ASSUME NEW u \in Threads, NEW x \in Senders \cup Slots
        PROVE  Dying(u, x)' <=> (u = t /\ x = dies) \/ (u # t /\ Dying(u, x))
    BY <1>8 DEF JobIs
  <2>2. dead' = dead /\ (dies # None => dies = s)
    BY <1>1
  <2>3. \A x \in Senders \cup Slots : x # None
    BY SignalsAssumption
  <2> QED
    BY <1>2, <1>3, <2>1, <2>2, <2>3 DEF DyingInv
<1>15. LeftInv'
  BY <1>1, <1>2, <1>10 DEF LeftInv
<1>16. S!TypeOK'
  BY <1>1, <1>2, <1>8, <1>10 DEF S!TypeOK, JobIs
<1> QED
  BY <1>13, <1>14, <1>15, <1>16 DEF SignalsInv

\* A slot forgets signals, and has to erase what they still have of it.
Forgets(t, o, gone, dies) ==
  /\ job[t] = None /\ o \notin dead /\ \A u \in Threads : ~Dying(u, o)
  /\ dies = o => gone = Senders
  /\ \A s \in gone \ dead, u \in Threads : ~Holds(u, s, o)
  /\ \A s \in Senders, q \in Slots :
       counts'[q][s] = IF s \in gone /\ q = o THEN 0 ELSE counts[q][s]
  /\ counts' \in [Slots -> [Senders -> Nat]]
  /\ S!Goes(t, {s \in gone : counts[o][s] > 0} \X {o}, {}, dies)
  /\ UNCHANGED <<conns, callables, emitter, left, dead>>

LEMMA SlotForgets ==
  ASSUME SignalsInv, NEW t \in Threads, NEW o \in Slots, NEW gone \in SUBSET Senders,
         NEW dies \in {None, o}, Forgets(t, o, gone, dies)
  PROVE  SignalsInv'
<1> DEFINE erase == {s \in gone : counts[o][s] > 0} \X {o}
<1> USE DEF Forgets
<1>1. S!TypeOK /\ PairInv /\ DyingInv /\ LeftInv
  BY DEF SignalsInv
<1>2. /\ erase \in SUBSET S!Pairs
      /\ \A s \in Senders, q \in Slots : <<s, q>> \in erase <=> s \in gone /\ q = o /\ counts[o][s] > 0
  BY DEF S!Pairs
<1>3. {} \in SUBSET (Senders \X Slots \X Nat) /\ dies \in Senders \cup Slots \cup {None}
  OBVIOUS
<1>4. JobIs(t, erase, {}, dies)
  <2>1. S!Goes(t, erase, {}, dies)
    OBVIOUS
  <2> HIDE DEF erase
  <2> QED
    BY <1>1, <1>2, <1>3, <2>1, JobGoes
<1> HIDE DEF erase
<1>5. \A s \in Senders : s # o /\ s # dies
  BY SignalsAssumption
<1>6. ASSUME NEW s \in gone
      PROVE  /\ counts[o][s] = Conns(s, o) /\ IsFiniteSet(conns[s][o]) /\ Conns(s, o) \in Nat
             /\ \A u \in Threads : ~Works(u, s, o) /\ (s \notin dead => ~Holds(u, s, o)) /\ ~Dying(u, s)
             /\ s \in dead => counts[o][s] = 0 /\ conns[s][o] = {}
  <2>1. PairOK(s, o)
    BY <1>1 DEF PairInv
  <2>2. CASE s \in dead
    BY <1>1, <2>1, <2>2, FS_EmptySet DEF PairOK, Severed, Alone, Conns, DyingInv
  <2>3. CASE s \notin dead
    BY <1>1, <2>3, FreePair DEF Holds
  <2> QED
    BY <2>2, <2>3
<1>7. ASSUME NEW s \in gone
      PROVE  PairOK(s, o)'
  <2>1. /\ Erasing(t, s, o)' <=> counts[o][s] > 0
        /\ \A u \in Threads \ {t} : ~Erasing(u, s, o)' /\ ~Dying(u, o)'
        /\ \A u \in Threads : ~Dying(u, s)'
        /\ \A u \in Threads, n \in Nat : ~Dropping(u, s, o, n)'
    <3>1. /\ <<s, o>> \in erase <=> counts[o][s] > 0
          /\ \A u \in Threads, n \in Nat : ~Erasing(u, s, o) /\ ~Dropping(u, s, o, n)
          /\ \A u \in Threads : ~Dying(u, s) /\ ~Dying(u, o)
      BY <1>2, <1>6 DEF Works
    <3> QED
      BY <1>4, <1>5, <3>1 DEF JobIs
  <2>2. /\ counts'[o][s] = 0 /\ conns'[s][o] = conns[s][o] /\ Conns(s, o)' = Conns(s, o) /\ dead' = dead
        /\ counts[o][s] > 0 => s \notin dead
        /\ ~(counts[o][s] > 0) => conns[s][o] = {} /\ Conns(s, o) = 0
    <3>1. Conns(s, o) = 0 <=> conns[s][o] = {}
      BY <1>6, FS_EmptySet DEF Conns
    <3> QED
      BY <1>6, <3>1 DEF Conns
  <2>3. Alone(s, o)'
    BY <2>1, <2>2 DEF Alone, Holds, Works
  <2>4. Counted(s, o)'
    BY <2>1, <2>2 DEF Counted, Works
  <2>5. Severed(s, o)'
    BY <1>6, <2>1, <2>2 DEF Severed
  <2> QED
    BY <1>6, <2>2, <2>3, <2>4, <2>5 DEF PairOK
<1>8. ASSUME NEW s \in Senders, NEW q \in Slots, s \notin gone \/ q # o
      PROVE  Still(s, q)
  <2>1. ~Holds(t, s, q)
    BY DEF Holds, Works, Erasing, Dropping, Dying
  <2>2. q # dies
    <3>1. q = dies => q = o /\ gone = Senders
      BY SignalsAssumption
    <3> QED
      BY <1>8, <3>1
  <2>3. counts'[q][s] = counts[q][s] /\ conns'[s][q] = conns[s][q] /\ dead' = dead
    BY <1>8
  <2>4. <<s, q>> \notin erase /\ s # dies
    BY <1>2, <1>5, <1>8
  <2>5. ~Holds(t, s, q)'
    BY <1>4, <2>2, <2>4 DEF JobIs, Holds, Works
  <2> QED
    BY <1>4, <2>1, <2>3, <2>5, StillAside
<1>9. PairInv'
  BY <1>1, <1>7, <1>8, StillOK DEF PairInv
<1>10. DyingInv'
  <2>1. ASSUME NEW u \in Threads, NEW x \in Senders \cup Slots
        PROVE  Dying(u, x)' <=> (u = t /\ x = dies) \/ (u # t /\ Dying(u, x))
    BY <1>4 DEF JobIs
  <2>2. dead' = dead /\ (dies # None => dies = o)
    OBVIOUS
  <2>3. \A x \in Senders \cup Slots : x # None
    BY SignalsAssumption
  <2> QED
    BY <1>1, <2>1, <2>2, <2>3 DEF DyingInv
<1>11. LeftInv'
  BY <1>1 DEF LeftInv
<1>12. S!TypeOK'
  BY <1>1, <1>4 DEF S!TypeOK, JobIs
<1> QED
  BY <1>9, <1>10, <1>11, <1>12 DEF SignalsInv

LEMMA SlotDisconnectStep ==
  ASSUME SignalsInv, NEW t \in Threads, NEW s \in Senders, NEW o \in Slots, S!SlotDisconnect(t, o, s)
  PROVE  SignalsInv'
<1>1. /\ S!May(t, {<<s, o>>}) /\ counts[o][s] > 0 /\ counts' = [counts EXCEPT ![o][s] = 0]
      /\ S!Goes(t, {<<s, o>>}, {}, None)
      /\ UNCHANGED <<conns, callables, emitter, left, dead>>
  BY DEF S!SlotDisconnect, S!Known, S!emission
<1>2. S!TypeOK /\ PairInv
  BY DEF SignalsInv
<1>3. counts \in [Slots -> [Senders -> Nat]]
  BY <1>2 DEF S!TypeOK
<1>4. /\ job[t] = None /\ s \notin dead /\ o \notin dead /\ \A u \in Threads : ~Holds(u, s, o)
  BY <1>1, <1>2, MayTouch
<1>5. {r \in {s} : counts[o][r] > 0} \X {o} = {<<s, o>>}
  BY <1>1
<1>6. \A r \in Senders, q \in Slots :
        counts'[q][r] = IF r \in {s} /\ q = o THEN 0 ELSE counts[q][r]
  BY <1>1, <1>3
<1>7. counts' \in [Slots -> [Senders -> Nat]]
  BY <1>1, <1>3
<1>8. None # o /\ None \in {None, o} /\ {s} \in SUBSET Senders /\ \A u \in Threads : ~Dying(u, o)
  BY <1>4, SignalsAssumption DEF Holds
<1>9. None = o => {s} = Senders
  BY <1>8
<1>10. \A r \in {s} \ dead, u \in Threads : ~Holds(u, r, o)
  BY <1>4
<1>11. Forgets(t, o, {s}, None)
  BY <1>1, <1>4, <1>5, <1>6, <1>7, <1>8, <1>9, <1>10 DEF Forgets
<1> QED
  BY <1>8, <1>11, SlotForgets

LEMMA SlotDisconnectAllStep ==
  ASSUME SignalsInv, NEW t \in Threads, NEW o \in Slots, NEW dies \in {None, o},
         S!SlotDisconnectAll(t, o, dies)
  PROVE  SignalsInv'
<1>1. /\ S!Usable(o) /\ S!May(t, (Senders \ dead) \X {o})
      /\ counts' = [counts EXCEPT ![o] = [s \in Senders |-> 0]]
      /\ S!Goes(t, {s \in Senders : counts[o][s] > 0} \X {o}, {}, dies)
      /\ UNCHANGED <<conns, callables, emitter, left, dead>>
  BY DEF S!SlotDisconnectAll, S!Known, S!emission
<1>2. S!TypeOK /\ PairInv
  BY DEF SignalsInv
<1>3. counts \in [Slots -> [Senders -> Nat]]
  BY <1>2 DEF S!TypeOK
<1>4. job[t] = None /\ o \notin dead /\ \A u \in Threads : ~Dying(u, o)
  BY <1>1 DEF S!May, S!Usable, Dying
<1>5. \A s \in Senders \ dead, u \in Threads : ~Holds(u, s, o)
  <2> SUFFICES ASSUME NEW s \in Senders \ dead PROVE \A u \in Threads : ~Holds(u, s, o)
    OBVIOUS
  <2>1. <<s, o>> \in (Senders \ dead) \X {o}
    OBVIOUS
  <2> QED
    BY <1>1, <1>2, <2>1, MayTouch
<1>6. \A s \in Senders, q \in Slots :
        counts'[q][s] = IF s \in Senders /\ q = o THEN 0 ELSE counts[q][s]
  BY <1>1, <1>3
<1>7. counts' \in [Slots -> [Senders -> Nat]]
  BY <1>1, <1>3
<1>8. Forgets(t, o, Senders, dies)
  BY <1>1, <1>4, <1>5, <1>6, <1>7 DEF Forgets
<1> QED
  BY <1>8, SlotForgets

\* What a thread has still to do is of this kind.
LEMMA JobType ==
  ASSUME S!TypeOK, NEW t \in Threads, job[t] # None
  PROVE  /\ job[t].erase \in SUBSET S!Pairs /\ job[t].drop \in SUBSET (Senders \X Slots \X Nat)
         /\ job[t].dies \in Senders \cup Slots \cup {None}
<1>1. job[t] \in S!Jobs
  BY DEF S!TypeOK
<1> QED
  BY <1>1 DEF S!Jobs

LEMMA UnregisterStep ==
  ASSUME SignalsInv, NEW t \in Threads, NEW s \in Senders, NEW o \in Slots, NEW n,
         S!Unregister(t, s, o, n)
  PROVE  SignalsInv'
<1> DEFINE drop == job[t].drop \ {<<s, o, n>>}
<1>1. /\ job[t] # None /\ <<s, o, n>> \in job[t].drop
      /\ counts' = [counts EXCEPT ![o][s] = IF @ > n THEN @ - n ELSE 0]
      /\ S!Goes(t, job[t].erase, drop, job[t].dies)
      /\ UNCHANGED <<conns, callables, emitter, left, dead>>
  BY DEF S!Unregister, S!emission
<1>2. S!TypeOK /\ PairInv /\ DyingInv /\ LeftInv
  BY DEF SignalsInv
<1>3. /\ job[t].erase \in SUBSET S!Pairs /\ drop \in SUBSET (Senders \X Slots \X Nat)
      /\ job[t].dies \in Senders \cup Slots \cup {None} /\ n \in Nat
  BY <1>1, <1>2, JobType
<1>4. JobIs(t, job[t].erase, drop, job[t].dies)
  <2>1. S!Goes(t, job[t].erase, drop, job[t].dies)
    BY <1>1
  <2> HIDE DEF drop
  <2> QED
    BY <1>2, <1>3, <2>1, JobGoes
<1>5. \A r \in Senders, q \in Slots, m \in Nat :
        <<r, q, m>> \in drop <=> <<r, q, m>> \in job[t].drop /\ ~(r = s /\ q = o /\ m = n)
  OBVIOUS
<1> HIDE DEF drop
<1>6. \A r \in Senders, q \in Slots, x \in Senders \cup Slots, m \in Nat, u \in Threads :
        /\ Erasing(u, r, q)' <=> Erasing(u, r, q)
        /\ Dying(u, x)' <=> Dying(u, x)
        /\ Dropping(u, r, q, m)' <=> Dropping(u, r, q, m) /\ ~(u = t /\ r = s /\ q = o /\ m = n)
  <2>1. \A r \in Senders, q \in Slots, x \in Senders \cup Slots, m \in Nat :
          /\ Erasing(t, r, q)' <=> Erasing(t, r, q)
          /\ Dying(t, x)' <=> Dying(t, x)
          /\ Dropping(t, r, q, m)' <=> Dropping(t, r, q, m) /\ ~(r = s /\ q = o /\ m = n)
    <3>1. \A x \in Senders \cup Slots : Dying(t, x)' <=> x = job[t].dies
      BY <1>4 DEF JobIs
    <3>2. \A r \in Senders, q \in Slots : Erasing(t, r, q)' <=> <<r, q>> \in job[t].erase
      BY <1>3, <1>4 DEF JobIs
    <3>3. \A r \in Senders, q \in Slots, m \in Nat : Dropping(t, r, q, m)' <=> <<r, q, m>> \in drop
      BY <1>4 DEF JobIs
    <3> QED
      BY <1>1, <1>5, <3>1, <3>2, <3>3 DEF Erasing, Dropping, Dying
  <2>2. \A u \in Threads \ {t}, r \in Senders, q \in Slots, x \in Senders \cup Slots, m \in Nat :
          /\ Erasing(u, r, q)' <=> Erasing(u, r, q)
          /\ Dying(u, x)' <=> Dying(u, x)
          /\ Dropping(u, r, q, m)' <=> Dropping(u, r, q, m)
    BY <1>4 DEF JobIs
  <2> QED
    BY <2>1, <2>2
<1>7. /\ counts \in [Slots -> [Senders -> Nat]] /\ PairOK(s, o) /\ Dropping(t, s, o, n)
  BY <1>1, <1>2 DEF S!TypeOK, PairInv, Dropping
<1>8. Conns(s, o) \in Nat /\ (Conns(s, o) = 0 <=> conns[s][o] = {}) /\ counts[o][s] \in Nat
  BY <1>7, FS_EmptySet, FS_CardinalityType DEF PairOK, Conns
<1>9. /\ counts'[o][s] = Conns(s, o)
      /\ \/ counts[o][s] = Conns(s, o) + n
         \/ counts[o][s] = 0 /\ conns[s][o] = {}
  <2>1. counts'[o][s] = IF counts[o][s] > n THEN counts[o][s] - n ELSE 0
    BY <1>1, <1>7
  <2>2. \/ counts[o][s] = Conns(s, o) + n
        \/ counts[o][s] = 0 /\ conns[s][o] = {}
    BY <1>3, <1>7 DEF PairOK, Counted
  <2> QED
    BY <1>3, <1>8, <2>1, <2>2
<1>10. /\ counts' \in [Slots -> [Senders -> Nat]]
       /\ \A r \in Senders, q \in Slots : r # s \/ q # o => counts'[q][r] = counts[q][r]
  <2>1. (IF counts[o][s] > n THEN counts[o][s] - n ELSE 0) \in Nat
    BY <1>3, <1>8
  <2> QED
    BY <1>1, <1>7, <2>1
<1>11. /\ \A u \in Threads : Holds(u, s, o) => u = t
       /\ ~Erasing(t, s, o) /\ \A m \in Nat : Dropping(t, s, o, m) => m = n
       /\ s \notin dead /\ o \notin dead
  BY <1>3, <1>7 DEF PairOK, Alone, Counted, Holds, Works
<1>12. PairOK(s, o)'
  <2>1. \A u \in Threads : ~Works(u, s, o)'
    BY <1>6, <1>11 DEF Works, Holds
  <2>2. Alone(s, o)'
    BY <2>1 DEF Alone
  <2>3. Counted(s, o)'
    BY <1>1, <1>9, <2>1 DEF Counted, Works, Conns
  <2>4. Severed(s, o)'
    <3>1. ASSUME NEW u \in Threads, Dying(u, o)
          PROVE  counts'[o][s] = 0 /\ conns[s][o] = {}
      BY <1>7, <1>8, <1>9, <1>11, <3>1 DEF PairOK, Severed, Holds
    <3>2. ASSUME NEW u \in Threads, Dying(u, s)
          PROVE  counts'[o][s] = 0 /\ conns[s][o] = {}
      BY <1>7, <1>8, <1>9, <3>2 DEF PairOK, Severed
    <3> QED
      BY <1>1, <1>6, <1>11, <3>1, <3>2 DEF Severed
  <2> QED
    BY <1>1, <1>7, <2>2, <2>3, <2>4 DEF PairOK
<1>13. \A r \in Senders, q \in Slots : r # s \/ q # o => Still(r, q)
  BY <1>1, <1>6, <1>10 DEF Still
<1>14. PairInv'
  BY <1>2, <1>12, <1>13, OnePair
<1>15. DyingInv'
  <2>1. \A u \in Threads, x \in Senders \cup Slots : Dying(u, x)' => Dying(u, x)
    BY <1>6
  <2> QED
    BY <1>1, <1>2, <2>1, SameDying
<1>16. LeftInv'
  BY <1>1, <1>2 DEF LeftInv
<1>17. S!TypeOK'
  BY <1>1, <1>2, <1>4, <1>10 DEF S!TypeOK, JobIs
<1> QED
  BY <1>14, <1>15, <1>16, <1>17 DEF SignalsInv

LEMMA EraseStep ==
  ASSUME SignalsInv, NEW t \in Threads, NEW s \in Senders, NEW o \in Slots, S!Erase(t, s, o)
  PROVE  SignalsInv'
<1> DEFINE drop == S!Count(s, o)
<1> DEFINE erase == job[t].erase \ {<<s, o>>}
<1>1. /\ job[t] # None /\ <<s, o>> \in job[t].erase /\ job[t].drop = {} /\ emitter[s] = None
      /\ conns' = [conns EXCEPT ![s][o] = {}] /\ S!Goes(t, erase, drop, job[t].dies)
      /\ UNCHANGED <<callables, counts, emitter, left, dead>>
  BY DEF S!Erase, S!Unlocked, S!emission
<1>2. S!TypeOK /\ PairInv /\ DyingInv /\ LeftInv
  BY DEF SignalsInv
<1>3. PairOK(s, o) /\ conns \in [Senders -> [Slots -> SUBSET Functions]]
  BY <1>2 DEF PairInv, S!TypeOK
<1>4. Conns(s, o) \in Nat /\ drop = IF Conns(s, o) = 0 THEN {} ELSE {<<s, o, Conns(s, o)>>}
  BY <1>3, CountIs DEF PairOK
<1> HIDE DEF drop
<1>5. /\ erase \in SUBSET S!Pairs /\ drop \in SUBSET (Senders \X Slots \X Nat)
      /\ job[t].dies \in Senders \cup Slots \cup {None}
  BY <1>1, <1>2, <1>4, JobType
<1>6. \A r \in Senders, q \in Slots :
        <<r, q>> \in erase <=> <<r, q>> \in job[t].erase /\ ~(r = s /\ q = o)
  OBVIOUS
<1>7. JobIs(t, erase, drop, job[t].dies)
  <2>1. S!Goes(t, erase, drop, job[t].dies)
    BY <1>1
  <2> HIDE DEF erase
  <2> QED
    BY <1>2, <1>5, <2>1, JobGoes
<1> HIDE DEF erase
<1>8. \A r \in Senders, q \in Slots, m \in Nat :
        <<r, q, m>> \in drop <=> r = s /\ q = o /\ m = Conns(s, o) /\ m # 0
  BY <1>4
<1>9. \A r \in Senders, q \in Slots, x \in Senders \cup Slots, m \in Nat :
        /\ Erasing(t, r, q)' <=> Erasing(t, r, q) /\ ~(r = s /\ q = o)
        /\ Dying(t, x)' <=> Dying(t, x)
        /\ ~Dropping(t, r, q, m)
        /\ Dropping(t, r, q, m)' <=> r = s /\ q = o /\ m = Conns(s, o) /\ m # 0
  <2>1. \A x \in Senders \cup Slots : Dying(t, x)' <=> x = job[t].dies
    BY <1>7 DEF JobIs
  <2>2. \A r \in Senders, q \in Slots : Erasing(t, r, q)' <=> <<r, q>> \in erase
    BY <1>7, <1>4 DEF JobIs
  <2>3. \A r \in Senders, q \in Slots, m \in Nat : Dropping(t, r, q, m)' <=> <<r, q, m>> \in drop
    BY <1>7 DEF JobIs
  <2> QED
    BY <1>1, <1>6, <1>8, <2>1, <2>2, <2>3 DEF Erasing, Dropping, Dying
<1>10. \A u \in Threads \ {t}, r \in Senders, q \in Slots, x \in Senders \cup Slots, m \in Nat :
         /\ Erasing(u, r, q)' <=> Erasing(u, r, q)
         /\ Dying(u, x)' <=> Dying(u, x)
         /\ Dropping(u, r, q, m)' <=> Dropping(u, r, q, m)
  BY <1>7 DEF JobIs
<1>11. /\ counts[o][s] = 0 /\ s \notin dead /\ o \notin dead /\ Works(t, s, o)
       /\ \A u \in Threads : Holds(u, s, o) => u = t
  <2>1. Erasing(t, s, o)
    BY <1>1 DEF Erasing
  <2> QED
    BY <1>3, <2>1 DEF PairOK, Alone, Counted, Works, Holds
<1>12. /\ conns' \in [Senders -> [Slots -> SUBSET Functions]] /\ conns'[s][o] = {}
       /\ \A r \in Senders, q \in Slots : r # s \/ q # o => conns'[r][q] = conns[r][q]
  BY <1>1, <1>3
<1>13. PairOK(s, o)'
  <2>1. /\ IsFiniteSet(conns'[s][o]) /\ Conns(s, o)' = 0 /\ counts'[o][s] = 0 /\ dead' = dead
    BY <1>1, <1>11, <1>12, FS_EmptySet DEF Conns
  <2>2. \A u \in Threads : Holds(u, s, o)' => u = t
    BY <1>10, <1>11 DEF Holds, Works
  <2>3. Alone(s, o)'
    BY <1>11, <2>1, <2>2 DEF Alone, Holds
  <2>4. Counted(s, o)'
    <3>1. \A u \in Threads : ~Erasing(u, s, o)'
      BY <1>9, <2>2 DEF Holds, Works
    <3>2. \A u \in Threads, n \in Nat : Dropping(u, s, o, n)' => n = Conns(s, o) /\ n # 0
      BY <1>9, <2>2 DEF Holds, Works
    <3> QED
      BY <1>12, <2>1, <3>1, <3>2 DEF Counted
  <2>5. Severed(s, o)'
    BY <1>12, <2>1 DEF Severed
  <2> QED
    BY <2>1, <2>3, <2>4, <2>5 DEF PairOK
<1>14. ASSUME NEW r \in Senders, NEW q \in Slots, r # s \/ q # o
       PROVE  Still(r, q)
  <2>1. /\ Erasing(t, r, q)' <=> Erasing(t, r, q)
        /\ Dying(t, r)' <=> Dying(t, r)
        /\ Dying(t, q)' <=> Dying(t, q)
        /\ \A m \in Nat : Dropping(t, r, q, m)' <=> Dropping(t, r, q, m)
    BY <1>9, <1>14
  <2> QED
    BY <1>1, <1>10, <1>12, <1>14, <2>1 DEF Still
<1>15. PairInv'
  BY <1>2, <1>13, <1>14, OnePair
<1>16. DyingInv'
  <2>1. \A u \in Threads, x \in Senders \cup Slots : Dying(u, x)' => Dying(u, x)
    BY <1>4, <1>9, <1>10
  <2> QED
    BY <1>1, <1>2, <2>1, SameDying
<1>17. LeftInv'
  BY <1>1, <1>2, <1>12 DEF LeftInv
<1>18. S!TypeOK'
  BY <1>1, <1>2, <1>7, <1>12 DEF S!TypeOK, JobIs
<1> QED
  BY <1>15, <1>16, <1>17, <1>18 DEF SignalsInv

LEMMA ReturnStep ==
  ASSUME SignalsInv, NEW t \in Threads, S!Return(t)
  PROVE  SignalsInv'
<1>1. /\ job[t] # None /\ job[t].erase = {} /\ job[t].drop = {}
      /\ dead' = dead \cup ({job[t].dies} \ {None}) /\ S!Ends(t)
      /\ UNCHANGED <<conns, callables, counts, emitter, left>>
  BY DEF S!Return, S!sides, S!emission
<1>2. S!TypeOK /\ PairInv /\ DyingInv /\ LeftInv
  BY DEF SignalsInv
<1>3. JobIs(t, {}, {}, None)
  BY <1>1, <1>2, JobEnds
<1>4. \A x \in Senders \cup Slots : x # None
  BY SignalsAssumption
<1>5. /\ \A r \in Senders, q \in Slots : ~Works(t, r, q)
      /\ \A r \in Senders, q \in Slots : ~Holds(t, r, q)'
      /\ \A x \in Senders \cup Slots : x \in dead' <=> x \in dead \/ Dying(t, x)
  <2>1. \A r \in Senders, q \in Slots : ~Works(t, r, q)
    BY <1>1 DEF Works, Erasing, Dropping
  <2>2. \A r \in Senders, q \in Slots : ~Holds(t, r, q)'
    BY <1>3, <1>4 DEF JobIs, Holds, Works
  <2>3. \A x \in Senders \cup Slots : x \in dead' <=> x \in dead \/ Dying(t, x)
    BY <1>1, <1>4 DEF Dying
  <2> QED
    BY <2>1, <2>2, <2>3
<1>6. \A u \in Threads, r \in Senders, q \in Slots, n \in Nat :
        /\ Erasing(u, r, q)' <=> Erasing(u, r, q)
        /\ Dropping(u, r, q, n)' <=> Dropping(u, r, q, n)
  BY <1>3, <1>5 DEF JobIs, Works, Holds
<1>7. \A u \in Threads, x \in Senders \cup Slots : Dying(u, x)' <=> Dying(u, x) /\ u # t
  BY <1>3, <1>4 DEF JobIs
<1>8. ASSUME NEW s \in Senders, NEW o \in Slots
      PROVE  PairOK(s, o)'
  <2>1. PairOK(s, o) /\ conns'[s][o] = conns[s][o] /\ counts'[o][s] = counts[o][s]
    BY <1>1, <1>2 DEF PairInv
  <2>2. \A u \in Threads : Works(u, s, o)' <=> Works(u, s, o)
    BY <1>6 DEF Works
  <2>3. Alone(s, o)'
    <3>1. ASSUME NEW u \in Threads, Works(u, s, o)
          PROVE  s \notin dead' /\ o \notin dead'
      <4>1. u # t /\ ~Holds(t, s, o)
        BY <1>5, <2>1, <3>1 DEF PairOK, Alone
      <4> QED
        BY <1>5, <2>1, <3>1, <4>1 DEF PairOK, Alone, Holds
    <3>2. \A u \in Threads : Holds(u, s, o)' => Holds(u, s, o)
      BY <1>7, <2>2 DEF Holds
    <3> QED
      BY <2>1, <2>2, <3>1, <3>2 DEF PairOK, Alone
  <2>4. Counted(s, o)'
    BY <1>6, <2>1, <2>2 DEF PairOK, Counted, Conns
  <2>5. Severed(s, o)'
    <3>1. s \in dead' \/ o \in dead' => counts[o][s] = 0 /\ conns[s][o] = {}
      BY <1>5, <2>1 DEF PairOK, Severed, Works
    <3> QED
      BY <1>6, <1>7, <2>1, <3>1 DEF PairOK, Severed
  <2> QED
    BY <2>1, <2>3, <2>4, <2>5 DEF PairOK
<1>9. DyingInv'
  BY <1>2, <1>5, <1>7 DEF DyingInv
<1>10. LeftInv'
  BY <1>1, <1>2 DEF LeftInv
<1>11. S!TypeOK'
  <2>1. job[t].dies \in Senders \cup Slots \cup {None}
    BY <1>1, <1>2, JobType
  <2> QED
    BY <1>1, <1>2, <1>3, <2>1 DEF S!TypeOK, JobIs
<1> QED
  BY <1>8, <1>9, <1>10, <1>11 DEF SignalsInv, PairInv

LEMMA EmitStep ==
  ASSUME SignalsInv, NEW t \in Threads, NEW s \in Senders, S!Emit(t, s)
  PROVE  SignalsInv'
<1> DEFINE bound == {w \in Slots \X Functions : w[2] \in conns[s][w[1]]}
           calls == {None} \X callables[s]
<1>1. /\ emitter' = [emitter EXCEPT ![s] = t] /\ left' = [left EXCEPT ![s] = bound \cup calls]
      /\ UNCHANGED <<conns, callables, counts, job, dead>>
  BY DEF S!Emit, S!sides
<1>2. S!TypeOK /\ PairInv /\ DyingInv /\ LeftInv
  BY DEF SignalsInv
<1>3. /\ emitter \in [Senders -> Threads \cup {None}] /\ callables \in [Senders -> SUBSET Lambdas]
      /\ left \in [Senders -> SUBSET ((Slots \X Functions) \cup ({None} \X Lambdas))]
  BY <1>2 DEF S!TypeOK
<1>4. /\ \A o \in Slots, f \in Functions : <<o, f>> \in bound \cup calls => f \in conns[s][o]
      /\ bound \cup calls \in SUBSET ((Slots \X Functions) \cup ({None} \X Lambdas))
  BY <1>3, SignalsAssumption
<1> HIDE DEF bound, calls
<1>5. /\ emitter' \in [Senders -> Threads \cup {None}] /\ emitter'[s] = t /\ t # None
      /\ left' \in [Senders -> SUBSET ((Slots \X Functions) \cup ({None} \X Lambdas))]
      /\ left'[s] = bound \cup calls
      /\ \A r \in Senders \ {s} : emitter'[r] = emitter[r] /\ left'[r] = left[r]
  BY <1>1, <1>3, <1>4, SignalsAssumption
<1>6. LeftInv'
  BY <1>1, <1>2, <1>4, <1>5 DEF LeftInv
<1>7. S!TypeOK'
  BY <1>1, <1>2, <1>5 DEF S!TypeOK
<1> QED
  BY <1>1, <1>2, <1>6, <1>7, SamePairs DEF SignalsInv

LEMMA CallOneStep ==
  ASSUME SignalsInv, NEW s \in Senders, NEW o, NEW f, S!CallOne(s, o, f)
  PROVE  SignalsInv'
<1>1. /\ left' = [left EXCEPT ![s] = @ \ {<<o, f>>}]
      /\ UNCHANGED <<conns, callables, counts, emitter, job, dead>>
  BY DEF S!CallOne, S!sides
<1>2. S!TypeOK /\ PairInv /\ DyingInv /\ LeftInv
  BY DEF SignalsInv
<1>3. left \in [Senders -> SUBSET ((Slots \X Functions) \cup ({None} \X Lambdas))]
  BY <1>2 DEF S!TypeOK
<1>4. /\ left' \in [Senders -> SUBSET ((Slots \X Functions) \cup ({None} \X Lambdas))]
      /\ \A r \in Senders : left'[r] \subseteq left[r]
  BY <1>1, <1>3
<1>5. LeftInv'
  BY <1>1, <1>2, <1>4 DEF LeftInv
<1>6. S!TypeOK'
  BY <1>1, <1>2, <1>4 DEF S!TypeOK
<1> QED
  BY <1>1, <1>2, <1>5, <1>6, SamePairs DEF SignalsInv

LEMMA EmitReturnsStep ==
  ASSUME SignalsInv, NEW s \in Senders, S!EmitReturns(s)
  PROVE  SignalsInv'
<1>1. /\ left[s] = {} /\ emitter' = [emitter EXCEPT ![s] = None]
      /\ UNCHANGED <<conns, callables, counts, left, job, dead>>
  BY DEF S!EmitReturns, S!sides
<1>2. S!TypeOK /\ PairInv /\ DyingInv /\ LeftInv
  BY DEF SignalsInv
<1>3. emitter \in [Senders -> Threads \cup {None}]
  BY <1>2 DEF S!TypeOK
<1>4. /\ emitter' \in [Senders -> Threads \cup {None}]
      /\ \A r \in Senders \ {s} : emitter'[r] = emitter[r]
  BY <1>1, <1>3
<1>5. LeftInv'
  BY <1>1, <1>2, <1>4 DEF LeftInv
<1>6. S!TypeOK'
  BY <1>1, <1>2, <1>4 DEF S!TypeOK
<1> QED
  BY <1>1, <1>2, <1>5, <1>6, SamePairs DEF SignalsInv

\* A step that changes nothing but the callables of a signal.
LEMMA CallablesStep ==
  ASSUME SignalsInv, NEW s \in Senders, NEW lambdas \in SUBSET Lambdas,
         callables' = [callables EXCEPT ![s] = lambdas],
         UNCHANGED <<conns, counts, emitter, left, job, dead>>
  PROVE  SignalsInv'
<1>1. S!TypeOK /\ PairInv /\ DyingInv /\ LeftInv
  BY DEF SignalsInv
<1>2. callables' \in [Senders -> SUBSET Lambdas]
  BY <1>1 DEF S!TypeOK
<1>3. LeftInv'
  BY <1>1 DEF LeftInv
<1>4. S!TypeOK'
  BY <1>1, <1>2 DEF S!TypeOK
<1> QED
  BY <1>1, <1>3, <1>4, SamePairs DEF SignalsInv

\* What a thread changes that no destructor and no disconnect() holds.
LEMMA ChangeOfSignals ==
  ASSUME SignalsInv, NEW t \in Threads, S!Change(t)
  PROVE  SignalsInv'
<1>1. CASE \E s \in Senders, o \in Slots :
             \/ \E f \in Functions : S!Connect(t, s, o, f) \/ S!Disconnect(t, s, o, f)
             \/ S!DisconnectSlot(t, s, o)
             \/ S!SlotDisconnect(t, o, s)
  BY <1>1, ConnectStep, DisconnectStep, DisconnectSlotStep, SlotDisconnectStep
<1>2. CASE \E s \in Senders : S!DisconnectAll(t, s, None) \/ S!DisconnectAll(t, s, s)
  BY <1>2, DisconnectAllStep
<1>3. CASE \E o \in Slots : S!SlotDisconnectAll(t, o, None) \/ S!SlotDisconnectAll(t, o, o)
  BY <1>3, SlotDisconnectAllStep
<1> QED
  BY <1>1, <1>2, <1>3 DEF S!Change

LEMMA SignalsNext ==
  ASSUME SignalsInv, [S!Next]_(S!vars)
  PROVE  SignalsInv'
<1>1. ASSUME NEW t \in Threads, S!Change(t)
      PROVE  SignalsInv'
  BY <1>1, ChangeOfSignals
<1>2. ASSUME NEW t \in Threads, S!GoesOn(t)
      PROVE  SignalsInv'
  BY <1>2, EraseStep, UnregisterStep, ReturnStep DEF S!GoesOn
<1>3. ASSUME NEW t \in Threads, NEW s \in Senders, S!Emit(t, s)
      PROVE  SignalsInv'
  BY <1>3, EmitStep
<1>4. ASSUME NEW s \in Senders, NEW l \in Lambdas, S!ConnectCallable(s, l)
      PROVE  SignalsInv'
  <2>1. callables[s] \cup {l} \in SUBSET Lambdas
    BY DEF SignalsInv, S!TypeOK
  <2> QED
    BY <1>4, <2>1, CallablesStep DEF S!ConnectCallable, S!emission
<1>5. ASSUME NEW s \in Senders, S!DisconnectAllCallable(s)
      PROVE  SignalsInv'
  <2>1. {} \in SUBSET Lambdas
    OBVIOUS
  <2> QED
    BY <1>5, <2>1, CallablesStep DEF S!DisconnectAllCallable, S!emission
<1>6. ASSUME NEW s \in Senders, NEW o, NEW f, S!CallOne(s, o, f)
      PROVE  SignalsInv'
  BY <1>6, CallOneStep
<1>7. ASSUME NEW s \in Senders, S!EmitReturns(s)
      PROVE  SignalsInv'
  BY <1>7, EmitReturnsStep
<1>8. CASE UNCHANGED S!vars
  <2>1. UNCHANGED <<conns, callables, counts, emitter, left, job, dead>>
    BY <1>8 DEF S!vars, S!sides, S!emission
  <2>2. S!TypeOK' /\ LeftInv'
    BY <2>1 DEF SignalsInv, S!TypeOK, LeftInv
  <2> QED
    BY <2>1, <2>2, SamePairs DEF SignalsInv
<1> QED
  BY <1>1, <1>2, <1>3, <1>4, <1>5, <1>6, <1>7, <1>8 DEF S!Next

LEMMA NothingDanglesNow ==
  ASSUME SignalsInv
  PROVE  S!NothingDangles
<1>1. S!TypeOK /\ PairInv /\ LeftInv
  BY DEF SignalsInv
<1>2. ASSUME NEW s \in Senders, NEW o \in Slots
      PROVE  /\ o \in dead => conns[s][o] = {} /\ \A f \in Functions : <<o, f>> \notin left[s]
             /\ s \in dead => counts[o][s] = 0
  BY <1>1 DEF PairInv, PairOK, Severed, LeftInv
<1>3. ASSUME NEW p \in S!Pairs, \A t \in Threads : p \notin S!Under(t)
      PROVE  counts[p[2]][p[1]] = S!Cardinality(conns[p[1]][p[2]])
  <2>1. PICK s \in Senders, o \in Slots : p = <<s, o>>
    BY DEF S!Pairs
  <2>2. \A t \in Threads : ~Holds(t, s, o)
    BY <1>1, <1>3, <2>1, UnderIsHeld
  <2>3. counts[o][s] = Conns(s, o)
    BY <1>1, <2>2, FreePair
  <2>4. p[1] = s /\ p[2] = o
    BY <2>1
  <2> QED
    BY <2>3, <2>4, SameCardinality DEF Conns
<1> QED
  BY <1>2, <1>3 DEF S!NothingDangles

\* sigslot for every number of threads, signals, slots and functions:
\* whatever the interleaving of connecting, disconnecting, destroying and emitting, no destroyed
\* slot is connected or about to be called, no slot knows a destroyed signal, and where nobody is
\* disconnecting both sides have the same number of connections.
THEOREM SignalsSafe ==
  S!Spec => []NothingDangles
<1>1. SignalsInv /\ [S!Next]_(S!vars) => SignalsInv'
  BY SignalsNext
<1> QED
  BY <1>1, SignalsInit, NothingDanglesNow, PTL DEF S!Spec, NothingDangles

-----------------------------------------------------------------------------
(* ChipControl: the pin and the chip.                                      *)

Sleeps(c) == call[c] # C!Idle

ChipTypeOK ==
  /\ pin \in BOOLEAN /\ failures \in Nat
  /\ call \in [Threads -> [left: -1 .. 3, overlapped: BOOLEAN, pulsed: BOOLEAN,
                           carried: BOOLEAN]]
  /\ \A c \in Threads : Sleeps(c) => call[c].left >= 0
  /\ line \in {"high", "low"} /\ lowFor \in 0 .. 2 /\ owed \in BOOLEAN
  /\ aiding \subseteq C!Sectors /\ gnss \in BOOLEAN /\ stored \in BOOLEAN
  /\ undelivered \subseteq {"alone", "overlapped"}

\* The line is low for a reason.
LineInv == line = "low" => owed \/ \E c \in Threads : Sleeps(c)

\* A call that met no other is the only one, and while its write holds the line has been low
\* for as long as it sleeps.
AloneInv ==
  \A c \in Threads : Sleeps(c) /\ ~call[c].overlapped =>
    /\ \A d \in Threads \ {c} : ~Sleeps(d)
    /\ call[c].carried => line = "low" /\ (lowFor = 2 \/ lowFor + call[c].left >= 3)

ChipInv == ChipTypeOK /\ LineInv /\ AloneInv /\ C!ChipIsAsCommanded

\* A request says to the chip what i_gnss_controller.h says of its command.
LEMMA Requests ==
  \A name \in DOMAIN C!CfgRst :
    /\ C!Kept(C!CfgRst[name]) = C!Says[name][1]
    /\ C!Says[name][2] \in BOOLEAN
    /\ (C!CfgRst[name][3] # C!CTRL.stop) <=> C!Says[name][2]
<1>1. \A m \in {0, 1, 65535}, c \in {8, 9, 2} :
        /\ C!Kept(C!build(m, c)) =
             (IF m = 0 THEN C!Sectors ELSE IF m = 1 THEN {"others"} ELSE {})
        /\ C!build(m, c)[3] = c
  <2>1. 0 % 256 = 0 /\ 0 \div 256 = 0 /\ 1 % 256 = 1 /\ 1 \div 256 = 0
        /\ 65535 % 256 = 255 /\ 65535 \div 256 = 255
    OBVIOUS
  <2>2. 0 % 2 = 0 /\ 1 % 2 = 1 /\ 65535 % 2 = 1
    OBVIOUS
  <2> QED
    BY <2>1, <2>2 DEF C!build, C!Kept, C!Sectors
<1>2. /\ C!NAV_BBR.hot = 0 /\ C!NAV_BBR.warm = 1 /\ C!NAV_BBR.cold = 65535
      /\ C!CTRL.stop = 8 /\ C!CTRL.start = 9 /\ C!CTRL.reset = 2
  BY DEF C!NAV_BBR, C!CTRL
<1>3. DOMAIN C!CfgRst = {"hot_stop", "warm_stop", "cold_stop", "hot_start", "warm_start",
                        "cold_start", "hot_reset", "warm_reset", "cold_reset"}
  BY DEF C!CfgRst
<1>4. ASSUME NEW name \in DOMAIN C!CfgRst
      PROVE  /\ C!Kept(C!CfgRst[name]) = C!Says[name][1]
             /\ C!Says[name][2] \in BOOLEAN
             /\ (C!CfgRst[name][3] # C!CTRL.stop) <=> C!Says[name][2]
  <2>1. /\ name \in {"hot_stop", "hot_start", "hot_reset"} =>
               \E c \in {8, 9, 2} : C!CfgRst[name] = C!build(0, c)
        /\ name \in {"warm_stop", "warm_start", "warm_reset"} =>
               \E c \in {8, 9, 2} : C!CfgRst[name] = C!build(1, c)
        /\ name \in {"cold_stop", "cold_start", "cold_reset"} =>
               \E c \in {8, 9, 2} : C!CfgRst[name] = C!build(65535, c)
    BY <1>2 DEF C!CfgRst
  <2>2. /\ name \in {"hot_stop", "warm_stop", "cold_stop"} =>
               \E m \in {0, 1, 65535} : C!CfgRst[name] = C!build(m, 8)
        /\ name \in {"hot_start", "warm_start", "cold_start"} =>
               \E m \in {0, 1, 65535} : C!CfgRst[name] = C!build(m, 9)
        /\ name \in {"hot_reset", "warm_reset", "cold_reset"} =>
               \E m \in {0, 1, 65535} : C!CfgRst[name] = C!build(m, 2)
    BY <1>2 DEF C!CfgRst
  <2>3. /\ name \in {"hot_stop", "hot_start", "hot_reset"} => C!Says[name][1] = C!Sectors
        /\ name \in {"warm_stop", "warm_start", "warm_reset"} => C!Says[name][1] = {"others"}
        /\ name \in {"cold_stop", "cold_start", "cold_reset"} => C!Says[name][1] = {}
    BY DEF C!Says, C!Keeps
  <2>4. /\ name \in {"hot_stop", "warm_stop", "cold_stop"} => C!Says[name][2] = FALSE
        /\ name \notin {"hot_stop", "warm_stop", "cold_stop"} => C!Says[name][2] = TRUE
    <3>1. /\ C!Says["hot_stop"][2] = FALSE /\ C!Says["warm_stop"][2] = FALSE
          /\ C!Says["cold_stop"][2] = FALSE
      BY DEF C!Says
    <3>2. /\ C!Says["hot_start"][2] = TRUE /\ C!Says["warm_start"][2] = TRUE
          /\ C!Says["cold_start"][2] = TRUE
      BY DEF C!Says
    <3>3. /\ C!Says["hot_reset"][2] = TRUE /\ C!Says["warm_reset"][2] = TRUE
          /\ C!Says["cold_reset"][2] = TRUE
      BY DEF C!Says
    <3> QED
      BY <1>3, <3>1, <3>2, <3>3
  <2>5. C!Kept(C!CfgRst[name]) = C!Says[name][1]
    <3>1. CASE name \in {"hot_stop", "hot_start", "hot_reset"}
      BY <1>1, <2>1, <2>3, <3>1
    <3>2. CASE name \in {"warm_stop", "warm_start", "warm_reset"}
      BY <1>1, <2>1, <2>3, <3>2
    <3>3. CASE name \in {"cold_stop", "cold_start", "cold_reset"}
      BY <1>1, <2>1, <2>3, <3>3
    <3> QED
      BY <1>3, <3>1, <3>2, <3>3
  <2>6. (C!CfgRst[name][3] # 8) <=> (name \notin {"hot_stop", "warm_stop", "cold_stop"})
    BY <1>1, <1>3, <2>2
  <2>7. C!Says[name][2] \in BOOLEAN /\ (C!CfgRst[name][3] # 8 <=> C!Says[name][2])
    BY <2>4, <2>6
  <2> QED
    BY <1>2, <2>5, <2>7
<1> QED
  BY <1>4

LEMMA ChipInit ==
  C!Init => ChipInv
<1> SUFFICES ASSUME C!Init PROVE ChipInv
  OBVIOUS
<1>1. \A c \in Threads : ~Sleeps(c)
  BY DEF C!Init, Sleeps
<1>2. call \in [Threads -> [left: -1 .. 3, overlapped: BOOLEAN, pulsed: BOOLEAN, carried: BOOLEAN]]
  BY DEF C!Init, C!Idle, C!Holding
<1>3. /\ pin \in BOOLEAN /\ owed \in BOOLEAN /\ gnss \in BOOLEAN /\ stored \in BOOLEAN
      /\ aiding \subseteq C!Sectors /\ undelivered \subseteq {"alone", "overlapped"}
  BY DEF C!Init
<1>4. failures \in Nat /\ lowFor \in 0 .. 2 /\ line \in {"high", "low"}
  BY DEF C!Init
<1>5. ChipTypeOK
  BY <1>1, <1>2, <1>3, <1>4 DEF ChipTypeOK
<1>6. C!ChipIsAsCommanded
  BY DEF C!Init, C!ChipIsAsCommanded
<1> QED
  BY <1>1, <1>5, <1>6 DEF C!Init, ChipInv, LineInv, AloneInv

\* A request concerns the chip only.
LEMMA SendStep ==
  ASSUME ChipInv, NEW c \in Threads, NEW name \in DOMAIN C!CfgRst, C!Send(c, name)
  PROVE  ChipInv'
<1>1. /\ pin' = pin /\ call' = call /\ failures' = failures /\ line' = line /\ lowFor' = lowFor
      /\ owed' = owed /\ undelivered' = undelivered
  BY DEF C!Send
<1>2. /\ <<aiding', gnss', stored'>> = promised'
      /\ aiding' \subseteq C!Sectors /\ gnss' \in BOOLEAN /\ stored' \in BOOLEAN
  <2>1. <<aiding, gnss, stored>> = promised /\ aiding \subseteq C!Sectors /\ gnss \in BOOLEAN
        /\ stored \in BOOLEAN
    BY DEF ChipInv, ChipTypeOK, C!ChipIsAsCommanded
  <2>2. CASE UNCHANGED <<aiding, gnss, stored, promised>>
    BY <2>1, <2>2
  <2>3. CASE /\ aiding' = aiding \cap C!Says[name][1] /\ gnss' = C!Says[name][2]
             /\ promised' = <<promised[1] \cap C!Says[name][1], C!Says[name][2], promised[3]>>
             /\ stored' = stored /\ gnss' \in BOOLEAN
    BY <2>1, <2>3
  <2> QED
    BY <2>2, <2>3, Requests DEF C!Send, C!chipVars
<1> QED
  BY <1>1, <1>2 DEF ChipInv, ChipTypeOK, LineInv, AloneInv, Sleeps, C!ChipIsAsCommanded

LEMMA SendSosStep ==
  ASSUME ChipInv, NEW c \in Threads, NEW name \in {"backup", "clear_backup"}, C!SendSos(c, name)
  PROVE  ChipInv'
<1>1. /\ pin' = pin /\ call' = call /\ failures' = failures /\ line' = line /\ lowFor' = lowFor
      /\ owed' = owed /\ undelivered' = undelivered /\ aiding' = aiding /\ gnss' = gnss
  BY DEF C!SendSos
<1>2. <<aiding, gnss, stored>> = promised /\ stored \in BOOLEAN
  BY DEF ChipInv, ChipTypeOK, C!ChipIsAsCommanded
<1>3. (C!UpdSos[name][1] = C!CMD.save) = (name = "backup")
  BY DEF C!UpdSos, C!CMD
<1>4. <<aiding', gnss', stored'>> = promised' /\ stored' \in BOOLEAN
  <2>1. CASE UNCHANGED <<stored, promised>>
    BY <1>1, <1>2, <2>1
  <2>2. CASE stored' = (name = "backup") /\ promised' = [promised EXCEPT ![3] = (name = "backup")]
    BY <1>1, <1>2, <2>2
  <2> QED
    BY <1>3, <2>1, <2>2 DEF C!SendSos
<1> QED
  BY <1>1, <1>4 DEF ChipInv, ChipTypeOK, LineInv, AloneInv, Sleeps, C!ChipIsAsCommanded

LEMMA PinStep ==
  ASSUME ChipInv, C!set_reset_pin
  PROVE  ChipInv'
BY DEF C!set_reset_pin, C!chipVars, ChipInv, ChipTypeOK, LineInv, AloneInv, Sleeps, C!ChipIsAsCommanded

\* The calls in progress are records of this kind.
Calls == [left: -1 .. 3, overlapped: BOOLEAN, pulsed: BOOLEAN, carried: BOOLEAN]

LEMMA IdleType ==
  /\ C!Idle \in Calls /\ C!Idle.left = -1
  /\ \A x \in Calls : x.left >= 0 => x # C!Idle
BY DEF Calls, C!Idle, C!Holding

LEMMA HoldingType ==
  ASSUME NEW o \in BOOLEAN, NEW w \in BOOLEAN
  PROVE  LET x == C!Holding(3, o, FALSE, w) IN
         x \in Calls /\ x # C!Idle /\ x.left = 3 /\ x.overlapped = o /\ x.carried = w
BY DEF Calls, C!Idle, C!Holding

LEMMA OverlappedType ==
  ASSUME NEW x \in Calls
  PROVE  LET y == [x EXCEPT !.overlapped = TRUE] IN
         y \in Calls /\ y.left = x.left /\ y.overlapped = TRUE
BY DEF Calls

LEMMA PulsedType ==
  ASSUME NEW x \in Calls
  PROVE  LET y == [x EXCEPT !.pulsed = TRUE] IN
         y \in Calls /\ y.left = x.left /\ y.overlapped = x.overlapped
BY DEF Calls

LEMMA ElapsedType ==
  ASSUME NEW x \in Calls, x.left > 0
  PROVE  LET y == [x EXCEPT !.left = @ - 1] IN
         /\ y \in Calls /\ y.left = x.left - 1 /\ y.overlapped = x.overlapped
         /\ y.carried = x.carried
BY DEF Calls

\* write_value() says true of every byte that reaches the pin.
LEMMA Writes ==
  ASSUME NEW w \in C!WriteValue
  PROVE  w[1] \in BOOLEAN /\ w[2] \in BOOLEAN /\ (w[2] => w[1])
<1>1. w \in {<<TRUE, TRUE>>, <<FALSE, FALSE>>, <<TRUE, FALSE>>}
  BY DEF C!WriteValue
<1>2. CASE w = <<TRUE, TRUE>>
  BY <1>2
<1>3. CASE w = <<TRUE, FALSE>>
  BY <1>3
<1>4. CASE w = <<FALSE, FALSE>>
  BY <1>4
<1> QED
  BY <1>1, <1>2, <1>3, <1>4

LEMMA HoldStep ==
  ASSUME ChipInv, NEW c \in Threads, C!hardware_reset_command(c)
  PROVE  ChipInv'
<1>1. CASE UNCHANGED C!vars
  BY <1>1 DEF C!vars, C!chipVars, ChipInv, ChipTypeOK, LineInv, AloneInv, Sleeps, C!ChipIsAsCommanded
<1>2. CASE pin /\ ~UNCHANGED C!vars
  <2>1. PICK w \in C!WriteValue :
          /\ C!Drive(w, "low")
          /\ lowFor' = IF line = "high" THEN 0 ELSE lowFor
          /\ call' = IF ~w[1] THEN call
                     ELSE [d \in Threads |->
                             IF d = c THEN C!Holding(3, C!Others(c) # {}, FALSE, w[2])
                             ELSE IF call[d] = C!Idle THEN C!Idle
                             ELSE [call[d] EXCEPT !.overlapped = TRUE]]
    BY <1>2 DEF C!hardware_reset_command, C!Pulse
  <2>2. UNCHANGED <<pin, aiding, gnss, stored, owed, promised, undelivered>> /\ call[c] = C!Idle
    BY <1>2 DEF C!hardware_reset_command, C!chipVars
  <2>3. /\ call \in [Threads -> Calls] /\ failures \in Nat /\ lowFor \in 0 .. 2
        /\ line \in {"high", "low"} /\ \A d \in Threads : Sleeps(d) => call[d].left >= 0
    BY DEF ChipInv, ChipTypeOK, Calls
  <2> HIDE DEF Calls
  <2>4. CASE ~w[1]
    <3>0. ~w[2]
      BY <2>4, Writes
    <3>1. UNCHANGED <<call, line>> /\ failures' \in Nat /\ lowFor' = IF line = "high" THEN 0 ELSE lowFor
      BY <2>1, <2>3, <2>4, <3>0 DEF C!Drive
    <3> QED
      BY <2>2, <3>1 DEF ChipInv, ChipTypeOK, LineInv, AloneInv, Sleeps, C!ChipIsAsCommanded
  <2>5. CASE w[1]
    <3>0. (C!Others(c) # {}) \in BOOLEAN /\ w[2] \in BOOLEAN
      BY Writes
    <3>1. /\ \A d \in Threads \ {c} :
               /\ call'[d] \in Calls
               /\ Sleeps(d)' <=> Sleeps(d)
               /\ Sleeps(d) => call'[d].left = call[d].left /\ call'[d].overlapped
          /\ call' \in [Threads -> Calls]
      <4>1. ASSUME NEW d \in Threads \ {c}
            PROVE  /\ call'[d] \in Calls
                   /\ Sleeps(d)' <=> Sleeps(d)
                   /\ Sleeps(d) => call'[d].left = call[d].left /\ call'[d].overlapped
        <5>1. CASE call[d] = C!Idle
          BY <2>1, <2>5, <5>1, IdleType DEF Sleeps
        <5>2. CASE call[d] # C!Idle
          <6>1. call'[d] = [call[d] EXCEPT !.overlapped = TRUE]
            BY <2>1, <2>5, <5>2
          <6>2. call[d] \in Calls /\ call[d].left >= 0
            BY <2>3, <5>2 DEF Sleeps
          <6>3. call'[d] \in Calls /\ call'[d].left = call[d].left /\ call'[d].overlapped
            BY <6>1, <6>2, OverlappedType
          <6> QED
            BY <5>2, <6>2, <6>3, IdleType DEF Sleeps
        <5> QED
          BY <5>1, <5>2
      <4>2. call'[c] \in Calls
        BY <2>1, <2>5, <3>0, HoldingType, Writes
      <4>3. call' = [d \in Threads |-> call'[d]]
        BY <2>1, <2>5
      <4>4. call' \in [Threads -> Calls]
        <5>1. \A d \in Threads : call'[d] \in Calls
          BY <4>1, <4>2
        <5> QED
          BY <4>3, <5>1
      <4> QED
        BY <4>1, <4>4 DEF Sleeps
    <3>2. /\ Sleeps(c)' /\ call'[c].left = 3 /\ call'[c].overlapped = (C!Others(c) # {})
          /\ call'[c].carried = w[2]
      <4>1. call'[c] = C!Holding(3, C!Others(c) # {}, FALSE, w[2])
        BY <2>1, <2>5
      <4> QED
        BY <3>0, <4>1, HoldingType DEF Sleeps
    <3>3. C!Others(c) = {} => \A d \in Threads \ {c} : ~Sleeps(d)
      BY DEF C!Others, Sleeps
    <3>4. /\ failures' \in Nat /\ lowFor' \in 0 .. 2 /\ line' \in {"high", "low"}
          /\ w[2] => line' = "low"
      BY <2>1, <2>3, Writes DEF C!Drive
    <3>5. ChipTypeOK'
      <4>1. \A d \in Threads : Sleeps(d)' => call'[d].left >= 0
        BY <2>3, <3>1, <3>2 DEF Sleeps
      <4>2. /\ pin' \in BOOLEAN /\ owed' \in BOOLEAN /\ aiding' \subseteq C!Sectors /\ gnss' \in BOOLEAN
            /\ stored' \in BOOLEAN /\ undelivered' \subseteq {"alone", "overlapped"}
        BY <2>2 DEF ChipInv, ChipTypeOK
      <4> QED
        BY <3>1, <3>4, <4>1, <4>2 DEF ChipTypeOK, Calls
    <3>6. LineInv' /\ C!ChipIsAsCommanded'
      BY <2>2, <3>2 DEF ChipInv, LineInv, Sleeps, C!ChipIsAsCommanded
    <3>7. AloneInv'
      <4>1. ASSUME NEW d \in Threads, Sleeps(d)', ~call'[d].overlapped
            PROVE  d = c
        BY <3>1, <4>1 DEF Sleeps
      <4>2. ASSUME ~call'[c].overlapped
            PROVE  /\ \A d \in Threads \ {c} : ~Sleeps(d)'
                   /\ call'[c].carried => line' = "low" /\ lowFor' + call'[c].left >= 3
        <5>1. C!Others(c) = {}
          BY <3>2, <4>2
        <5>2. \A d \in Threads \ {c} : ~Sleeps(d)'
          BY <3>1, <3>3, <5>1 DEF Sleeps
        <5>3. call'[c].carried => line' = "low"
          BY <3>2, <3>4
        <5>4. lowFor' + call'[c].left >= 3
          <6>1. call'[c].left = 3 /\ lowFor' \in 0 .. 2
            BY <3>2, <3>4
          <6>2. \A n \in 0 .. 2 : n + 3 >= 3
            OBVIOUS
          <6> QED
            BY <6>1, <6>2
        <5> QED
          BY <5>2, <5>3, <5>4
      <4> QED
        BY <4>1, <4>2 DEF AloneInv
    <3> QED
      BY <3>5, <3>6, <3>7 DEF ChipInv
  <2> QED
    BY <2>4, <2>5
<1> QED
  BY <1>1, <1>2 DEF C!hardware_reset_command

LEMMA ReleaseStep ==
  ASSUME ChipInv, NEW c \in Threads, C!Release(c)
  PROVE  ChipInv'
<1>1. PICK w \in C!WriteValue :
        LET long    == line = "low" /\ w[2] /\ lowFor = 2
            carried == call[c].carried /\ w[2]
        IN  /\ C!Drive(w, "high")
            /\ owed' = ~w[2]
            /\ undelivered' =
                 IF w[1] /\ carried /\ ~(call[c].pulsed \/ long)
                 THEN undelivered \cup {IF call[c].overlapped THEN "overlapped" ELSE "alone"}
                 ELSE undelivered
            /\ call' = [d \in Threads |->
                          IF d = c THEN C!Idle
                          ELSE IF call[d] # C!Idle /\ long THEN [call[d] EXCEPT !.pulsed = TRUE]
                          ELSE call[d]]
  BY DEF C!Release, C!MinPulse
<1>2. Sleeps(c) /\ call[c].left = 0 /\ C!Rise /\ pin' = pin
      /\ lowFor' = IF line' = "high" THEN 0 ELSE lowFor
  BY DEF C!Release, C!PulseOver, Sleeps
<1>3. /\ call \in [Threads -> Calls] /\ failures \in Nat /\ lowFor \in 0 .. 2
      /\ line \in {"high", "low"} /\ \A d \in Threads : Sleeps(d) => call[d].left >= 0
  BY DEF ChipInv, ChipTypeOK, Calls
<1> HIDE DEF Calls
<1>4. ASSUME NEW d \in Threads \ {c}
      PROVE  /\ call'[d] \in Calls /\ (Sleeps(d)' <=> Sleeps(d))
             /\ Sleeps(d) => call'[d].left = call[d].left /\ call'[d].overlapped = call[d].overlapped
  <2>1. CASE call'[d] = call[d]
    BY <1>3, <2>1 DEF Sleeps
  <2>2. CASE Sleeps(d) /\ call'[d] = [call[d] EXCEPT !.pulsed = TRUE]
    <3>1. call[d] \in Calls /\ call[d].left >= 0
      BY <1>3, <2>2
    <3> QED
      BY <2>2, <3>1, PulsedType, IdleType DEF Sleeps
  <2> QED
    BY <1>1, <2>1, <2>2 DEF Sleeps
<1>5. call'[c] = C!Idle /\ call' = [d \in Threads |-> call'[d]]
  BY <1>1
<1>6. /\ failures' \in Nat /\ lowFor' \in 0 .. 2 /\ line' \in {"high", "low"}
      /\ line' = "low" => owed'
  <2>1. /\ failures' = IF w[2] THEN failures ELSE failures + 1
        /\ line' = IF w[2] THEN "high" ELSE line
        /\ owed' = ~w[2]
    BY <1>1 DEF C!Drive
  <2>2. lowFor' \in 0 .. 2
    BY <1>2, <1>3
  <2>3. failures' \in Nat
    BY <1>3, <2>1
  <2>4. line' \in {"high", "low"} /\ (line' = "low" => owed')
    BY <1>3, <2>1
  <2> QED
    BY <2>2, <2>3, <2>4
<1>7. "alone" \notin undelivered' /\ undelivered' \subseteq {"alone", "overlapped"}
  <2>1. "alone" \notin undelivered /\ undelivered \subseteq {"alone", "overlapped"}
    BY DEF ChipInv, ChipTypeOK, C!ChipIsAsCommanded
  <2>2. CASE call[c].overlapped
    BY <1>1, <2>1, <2>2
  <2>3. CASE ~call[c].overlapped
    <3>1. call[c].carried => line = "low" /\ lowFor = 2
      BY <1>2, <1>3, <2>3 DEF ChipInv, AloneInv
    <3> QED
      BY <1>1, <2>1, <3>1
  <2> QED
    BY <2>2, <2>3
<1>8. /\ <<aiding', gnss', stored'>> = promised' /\ aiding' \subseteq C!Sectors
      /\ gnss' \in BOOLEAN /\ stored' \in BOOLEAN
  <2>1. /\ <<aiding, gnss, stored>> = promised /\ aiding \subseteq C!Sectors
        /\ gnss \in BOOLEAN /\ stored \in BOOLEAN
    BY DEF ChipInv, ChipTypeOK, C!ChipIsAsCommanded
  <2>2. \/ UNCHANGED <<aiding, gnss, stored, promised>>
        \/ aiding' = {} /\ gnss' = TRUE /\ promised' = <<{}, TRUE, promised[3]>> /\ stored' = stored
    BY <1>2 DEF C!Rise, C!chipVars
  <2> QED
    BY <2>1, <2>2
<1>9. ChipTypeOK'
  <2>1. call' \in [Threads -> Calls] /\ \A d \in Threads : Sleeps(d)' => call'[d].left >= 0
    BY <1>3, <1>4, <1>5, IdleType DEF Sleeps
  <2>2. pin' \in BOOLEAN /\ owed' \in BOOLEAN
    BY <1>1, <1>2 DEF ChipInv, ChipTypeOK
  <2> QED
    BY <1>6, <1>7, <1>8, <2>1, <2>2 DEF ChipTypeOK, Calls
<1>10. AloneInv'
  <2> SUFFICES ASSUME NEW d \in Threads, Sleeps(d)', ~call'[d].overlapped
               PROVE  FALSE
    BY DEF AloneInv
  <2>1. d # c /\ Sleeps(d) /\ ~call[d].overlapped
    BY <1>4, <1>5 DEF Sleeps
  <2> QED
    BY <1>2, <2>1 DEF ChipInv, AloneInv
<1>11. LineInv' /\ C!ChipIsAsCommanded'
  BY <1>6, <1>7, <1>8 DEF LineInv, C!ChipIsAsCommanded
<1> QED
  BY <1>9, <1>10, <1>11 DEF ChipInv

LEMMA TickStep ==
  ASSUME ChipInv, C!Tick
  PROVE  ChipInv'
<1>1. /\ call' = [c \in Threads |-> IF call[c] # C!Idle /\ call[c].left > 0
                                    THEN [call[c] EXCEPT !.left = @ - 1] ELSE call[c]]
      /\ lowFor' = IF line = "low" /\ lowFor < 2 THEN lowFor + 1 ELSE lowFor
      /\ UNCHANGED <<pin, failures, line, aiding, gnss, stored, owed, promised, undelivered>>
  BY DEF C!Tick, C!chipVars, C!MinPulse
<1>2. /\ call \in [Threads -> Calls] /\ lowFor \in 0 .. 2
      /\ \A c \in Threads : Sleeps(c) => call[c].left >= 0
  BY DEF ChipInv, ChipTypeOK, Calls
<1>3. \A x \in Calls : x.left \in -1 .. 3
  BY DEF Calls
<1> HIDE DEF Calls
<1>4. ASSUME NEW c \in Threads
      PROVE  /\ call'[c] \in Calls /\ (Sleeps(c)' <=> Sleeps(c))
             /\ Sleeps(c) => /\ call'[c].left >= 0 /\ call'[c].left >= call[c].left - 1
                             /\ call'[c].overlapped = call[c].overlapped
                             /\ call'[c].carried = call[c].carried
  <2>1. CASE call'[c] = call[c]
    <3>1. call[c].left >= call[c].left - 1
      BY <1>2, <1>3
    <3> QED
      BY <1>2, <2>1, <3>1 DEF Sleeps
  <2>2. CASE /\ Sleeps(c) /\ call[c].left > 0
             /\ call'[c] = [call[c] EXCEPT !.left = @ - 1]
    <3>1. call[c] \in Calls /\ call[c].left \in 0 .. 3
      BY <1>2, <1>3, <2>2
    <3>2. /\ call'[c] \in Calls /\ call'[c].left = call[c].left - 1
          /\ call'[c].overlapped = call[c].overlapped /\ call'[c].carried = call[c].carried
      BY <2>2, <3>1, ElapsedType
    <3>3. call'[c].left >= 0 /\ call'[c].left >= call[c].left - 1
      <4>1. call[c].left \in 0 .. 3 /\ call[c].left > 0 /\ call'[c].left = call[c].left - 1
        BY <2>2, <3>1, <3>2
      <4> QED
        BY <4>1
    <3> QED
      BY <2>2, <3>2, <3>3, IdleType DEF Sleeps
  <2> QED
    BY <1>1, <2>1, <2>2 DEF Sleeps
<1>5. ChipTypeOK'
  <2>1. call' \in [Threads -> Calls]
    <3>1. call' = [c \in Threads |-> call'[c]]
      BY <1>1
    <3> QED
      BY <1>4, <3>1
  <2>2. lowFor' \in 0 .. 2
    BY <1>1, <1>2
  <2>3. \A c \in Threads : Sleeps(c)' => call'[c].left >= 0
    BY <1>4
  <2> QED
    BY <1>1, <2>1, <2>2, <2>3 DEF ChipInv, ChipTypeOK, Calls
<1>6. AloneInv'
  <2>1. ASSUME NEW c \in Threads, Sleeps(c)', ~call'[c].overlapped
        PROVE  \A d \in Threads \ {c} : ~Sleeps(d)'
    BY <1>4, <2>1 DEF ChipInv, AloneInv
  <2>2. ASSUME NEW c \in Threads, Sleeps(c)', ~call'[c].overlapped, call'[c].carried
        PROVE  line' = "low" /\ (lowFor' = 2 \/ lowFor' + call'[c].left >= 3)
    <3>1. line = "low" /\ (lowFor = 2 \/ lowFor + call[c].left >= 3)
      BY <1>4, <2>2 DEF ChipInv, AloneInv
    <3>2. /\ call'[c].left >= call[c].left - 1 /\ call[c].left \in -1 .. 3
          /\ call'[c].left \in -1 .. 3
      BY <1>2, <1>3, <1>4, <2>2
    <3>3. line' = line /\ lowFor' = IF lowFor < 2 THEN lowFor + 1 ELSE lowFor
      BY <1>1, <3>1
    <3> QED
      BY <1>2, <3>1, <3>2, <3>3
  <2> QED
    BY <2>1, <2>2 DEF AloneInv
<1>7. LineInv' /\ C!ChipIsAsCommanded'
  BY <1>1, <1>4 DEF ChipInv, LineInv, C!ChipIsAsCommanded, Sleeps
<1> QED
  BY <1>5, <1>6, <1>7 DEF ChipInv

LEMMA ChipNext ==
  ASSUME ChipInv, [C!Next]_(C!vars)
  PROVE  ChipInv'
<1>1. CASE C!set_reset_pin
  BY <1>1, PinStep
<1>2. CASE C!Tick
  BY <1>2, TickStep
<1>3. ASSUME NEW c \in Threads, C!Release(c) PROVE ChipInv'
  BY <1>3, ReleaseStep
<1>4. ASSUME NEW c \in Threads, NEW name, C!Execute(c, name) PROVE ChipInv'
  <2>1. CASE C!hardware_reset_command(c)
    BY <2>1, HoldStep
  <2>2. ASSUME NEW n \in {"backup", "clear_backup"}, C!SendSos(c, n) PROVE ChipInv'
    BY <2>2, SendSosStep
  <2>3. ASSUME NEW n \in DOMAIN C!CfgRst, C!Send(c, n) PROVE ChipInv'
    BY <2>3, SendStep
  <2>4. DOMAIN C!CfgRst = {"hot_stop", "warm_stop", "cold_stop", "hot_start", "warm_start",
                          "cold_start", "hot_reset", "warm_reset", "cold_reset"}
    BY DEF C!CfgRst
  <2> QED
    BY <1>4, <2>1, <2>2, <2>3, <2>4
    DEF C!Execute, C!backup_command, C!clear_backup_command, C!hot_stop_command,
        C!warm_stop_command, C!cold_stop_command, C!hot_start_command, C!warm_start_command,
        C!cold_start_command, C!hot_reset_command, C!warm_reset_command, C!cold_reset_command
<1>5. CASE UNCHANGED C!vars
  BY <1>5 DEF C!vars, C!chipVars, ChipInv, ChipTypeOK, LineInv, AloneInv, Sleeps, C!ChipIsAsCommanded
<1> QED
  BY <1>1, <1>2, <1>3, <1>4, <1>5 DEF C!Next, C!execute_command

\* gnss_controller and gpio for every set of threads, of lines they pass and of failures of the
\* pin: RESET_N does not stay low but by a failure, a hardware_reset() that met no other and
\* returned true has reset the chip, and the chip is as i_gnss_controller.h says.
THEOREM ChipSafe ==
  C!Spec => []ChipIsAsCommanded
<1>1. ChipInv /\ [C!Next]_(C!vars) => ChipInv'
  BY ChipNext
<1>2. ChipInv => ChipIsAsCommanded
  BY DEF ChipInv, ChipIsAsCommanded
<1> QED
  BY <1>1, <1>2, ChipInit, PTL DEF C!Spec
-----------------------------------------------------------------------------
(* The composition.                                                        *)

\* Where the variables of a class rest, so does the class.
LEMMA Rests ==
  /\ UNCHANGED valueRest => UNCHANGED V!vars
  /\ UNCHANGED timerRest => UNCHANGED T!vars
  /\ UNCHANGED poolRest => UNCHANGED P!vars
  /\ UNCHANGED fdRest => UNCHANGED F!vars
  /\ UNCHANGED signalsRest => UNCHANGED S!vars
  /\ UNCHANGED chipRest => UNCHANGED C!vars
<1>1. UNCHANGED valueRest => UNCHANGED V!vars
  BY DEF valueRest, V!vars, V!valueVars, V!threadVars, V!holderVars
<1>2. UNCHANGED timerRest => UNCHANGED T!vars
  BY DEF timerRest, T!vars, T!timerVars, T!userVars, T!runHistory
<1>3. UNCHANGED poolRest => UNCHANGED P!vars
  BY DEF poolRest, P!vars, P!poolTasks, P!poolThreads
<1>4. UNCHANGED fdRest => UNCHANGED F!vars
  BY DEF fdRest, F!vars, F!tables, F!loop
<1>5. UNCHANGED signalsRest => UNCHANGED S!vars
  BY DEF signalsRest, S!vars, S!sides, S!emission
<1>6. UNCHANGED chipRest => UNCHANGED C!vars
  BY DEF chipRest, C!vars, C!chipVars
<1> QED
  BY <1>1, <1>2, <1>3, <1>4, <1>5, <1>6

\* What runs side by side in Libraries is each class as it is by itself: what is proved of a
\* class holds of its part in every behaviour of the composition.
THEOREM Composition ==
  LibSpec => Spec /\ V!Spec /\ T!Spec /\ P!Spec /\ F!Spec /\ S!Spec /\ C!Spec
<1>1. LibInit => Init /\ V!Init /\ T!Init /\ P!Init /\ F!Init /\ S!Init /\ C!Init
  BY DEF LibInit
<1>2. ASSUME [LibNext]_all
      PROVE  /\ [Next]_vars /\ [V!Next]_(V!vars) /\ [T!Next]_(T!vars) /\ [P!Next]_(P!vars)
             /\ [F!Next]_(F!vars) /\ [S!Next]_(S!vars) /\ [C!Next]_(C!vars)
  <2>1. CASE LoopStep(Next) \/ ContendedStep(Next)
    BY <2>1, Rests DEF LoopStep, ContendedStep
  <2>2. CASE ValueStep(V!Next)
    BY <2>2, Rests DEF ValueStep
  <2>3. CASE TimerStep(T!Next)
    BY <2>3, Rests DEF TimerStep
  <2>4. CASE PoolStep(P!Next)
    BY <2>4, Rests DEF PoolStep
  <2>5. CASE FdStep(F!Next)
    BY <2>5, Rests DEF FdStep
  <2>6. CASE SignalsStep(S!Next)
    BY <2>6, Rests DEF SignalsStep
  <2>7. CASE ChipStep(C!Next)
    BY <2>7, Rests DEF ChipStep
  <2>8. CASE UNCHANGED all
    BY <2>8, Rests DEF all
  <2> QED
    BY <1>2, <2>1, <2>2, <2>3, <2>4, <2>5, <2>6, <2>7, <2>8 DEF LibNext
<1> QED
  BY <1>1, <1>2, PTL DEF LibSpec, Spec, V!Spec, T!Spec, P!Spec, F!Spec, S!Spec, C!Spec

\* What the run checks of a small instance of the composition, for every value of the constants.
THEOREM LibrariesSafe ==
  LibSpec => [](PollIsCurrent /\ NothingDangles /\ ChipIsAsCommanded)
BY Composition, PollSafe, SignalsSafe, ChipSafe, PTL

\* And of the event loop in it, however many controllers stop and resume it.
THEOREM LoopSafe ==
  LibSpec => []StoppedIsQuiet /\ NeverAMillisecondEarly
BY Composition, QuietSafe, PunctualSafe, PTL
=============================================================================
