--------------------------- MODULE ReceiverProofs ---------------------------
(***************************************************************************)
(* Receiver for every set of control threads, configurations and           *)
(* descriptors and every MaxRetries: type correctness, the safety          *)
(* invariants, and the refinement of Lifecycle.                            *)
(***************************************************************************)
EXTENDS Receiver, TLAPS

\* At most one control thread is inside a command, the owner of cmd_mutex_.
CommandsSerialised == \A c \in Callers : pc[c] # "idle" => cmd = c

\* state_mutex_ is held between steps only by an init() about to commit.
LockInv == \A c \in Callers : pc[c] = "commit" <=> lock = c

\* The thread, running_ and the parser exist in the running state only.
ThreadInv ==
  /\ parser <=> state = "running"
  /\ state # "running" => worker = "none" /\ ~running
  /\ worker = "none" => ~running
  /\ state = "running" /\ worker = "none" => \E c \in Callers : pc[c] = "finish"

\* What a control thread knows of the receiver between its steps.
CallerInv ==
  \A c \in Callers :
    /\ pc[c] \in {"join", "finish"} => state = "running" /\ ~running
    /\ pc[c] = "finish" => worker = "none"
    /\ pc[c] = "close" => state # "running"

\* The retry counter and the ways out of the loop.
RetryInv ==
  /\ worker \in Live \ {"exit"} => fails < MaxRetries
  /\ worker = "exit" /\ running => fails = MaxRetries
  /\ worker = "exited" => ~running

IInv == /\ TypeOK /\ CommandsSerialised /\ LockInv /\ ThreadInv
        /\ CallerInv /\ RetryInv /\ IdleIsReleased

-----------------------------------------------------------------------------

LEMMA InitIInv == Init => IInv
<1> SUFFICES ASSUME Init PROVE IInv
  OBVIOUS
<1> USE ReceiverAssumption DEF Init
<1>1. TypeOK
  <2>1. running \in BOOLEAN /\ parser \in BOOLEAN /\ crashed \in BOOLEAN
    BY Zenon
  <2> QED
    BY <2>1 DEF TypeOK, CallerPCs, WorkerPCs
<1>2. CommandsSerialised /\ LockInv /\ CallerInv
  BY DEF CommandsSerialised, LockInv, CallerInv
<1>3. ThreadInv /\ RetryInv /\ IdleIsReleased
  BY DEF ThreadInv, RetryInv, IdleIsReleased, Live
<1> QED
  BY <1>1, <1>2, <1>3 DEF IInv

\* Every step preserves the ranges of the variables.
LEMMA NextTypeOK == IInv /\ [Next]_vars => TypeOK'
<1> SUFFICES ASSUME IInv, [Next]_vars PROVE TypeOK'
  OBVIOUS
<1>0. TypeOK /\ RetryInv
  BY DEF IInv
<1> USE <1>0, ReceiverAssumption
     DEF TypeOK, CallerPCs, callerVars, recvVars, portVars, workVars, Return,
         ReopenOk, ReopenFails
<1>1. ASSUME NEW c \in Callers, Call(c) PROVE TypeOK'
  BY <1>1 DEF Call, Enter
<1>2. ASSUME NEW c \in Callers, InitPort(c) PROVE TypeOK'
  BY <1>2 DEF InitPort
<1>3. ASSUME NEW c \in Callers, InitCommit(c) PROVE TypeOK'
  BY <1>3 DEF InitCommit
<1>4. ASSUME NEW c \in Callers, Start(c) PROVE TypeOK'
  <2>1. parser' \in BOOLEAN /\ running' \in BOOLEAN
    BY <1>4, Zenon DEF Start
  <2> QED
    BY <1>4, <2>1 DEF Start, WorkerPCs
<1>5. ASSUME NEW c \in Callers, StopSignal(c) PROVE TypeOK'
  <2>1. running' \in BOOLEAN
    BY <1>5, Zenon DEF StopSignal
  <2> QED
    BY <1>5, <2>1 DEF StopSignal
<1>6. ASSUME NEW c \in Callers, StopJoin(c) PROVE TypeOK'
  BY <1>6 DEF StopJoin, WorkerPCs
<1>7. ASSUME NEW c \in Callers, StopFinish(c) PROVE TypeOK'
  <2>1. parser' \in BOOLEAN
    BY <1>7, Zenon DEF StopFinish
  <2> QED
    BY <1>7, <2>1 DEF StopFinish
<1>8. ASSUME NEW c \in Callers, Close(c) PROVE TypeOK'
  BY <1>8 DEF Close
<1>9. CASE WorkerStep
  <2> USE DEF WorkerPCs
  <2>1. ASSUME NEW to \in WorkerPCs, WorkerGoto(to) PROVE TypeOK'
    BY <2>1 DEF WorkerGoto
  <2>2. CASE WorkerTop
    BY <2>2 DEF WorkerTop
  <2>3. CASE ReadThrows
    <3>1. crashed' \in BOOLEAN
      BY <2>3, Zenon DEF ReadThrows
    <3> QED
      BY <2>3, <3>1 DEF ReadThrows
  <2>4. CASE ReconfBegin
    BY <2>4 DEF ReconfBegin
  <2>5. CASE Reopen
    BY <2>5 DEF Reopen, RetryInv, Live
  <2>6. CASE ReconfCheck
    BY <2>6 DEF ReconfCheck, RetryInv, Live
  <2>7. CASE WorkerExit
    <3>1. running' \in BOOLEAN
      BY <2>7, Zenon DEF WorkerExit
    <3> QED
      BY <2>7, <3>1 DEF WorkerExit
  <2> QED
    BY <1>9, <2>1, <2>2, <2>3, <2>4, <2>5, <2>6, <2>7
       DEF WorkerStep, PollTimeout, PollFailure, PollReady, NothingAvailable,
           SomeAvailable, Read, ReadEmpty, Fed
<1>10. CASE DeviceChange
  BY <1>10 DEF DeviceChange
<1>11. CASE UNCHANGED vars
  BY <1>11 DEF vars
<1> QED
  BY <1>1, <1>2, <1>3, <1>4, <1>5, <1>6, <1>7, <1>8, <1>9, <1>10, <1>11
     DEF Next, CallerStep, Aborted

\* Every step preserves the rest of the inductive invariant.
LEMMA NextIInv == IInv /\ [Next]_vars => IInv'
<1> SUFFICES ASSUME IInv, [Next]_vars PROVE IInv'
  OBVIOUS
<1>0. TypeOK'
  BY NextTypeOK
<1> DEFINE Rest == /\ CommandsSerialised /\ LockInv /\ ThreadInv
                   /\ CallerInv /\ RetryInv /\ IdleIsReleased
<1>r. Rest /\ TypeOK
  BY DEF IInv
<1> SUFFICES Rest'
  BY <1>0 DEF IInv
<1> USE <1>0, <1>r, ReceiverAssumption
     DEF TypeOK, CommandsSerialised, LockInv, ThreadInv, CallerInv, RetryInv,
         IdleIsReleased, callerVars, recvVars, portVars, workVars, Return,
         ReopenOk, ReopenFails, Live, CallerPCs, WorkerPCs
<1>1. ASSUME NEW c \in Callers, Call(c) PROVE Rest'
  BY <1>1 DEF Call, Enter
<1>2. ASSUME NEW c \in Callers, InitPort(c) PROVE Rest'
  BY <1>2 DEF InitPort
<1>3. ASSUME NEW c \in Callers, InitCommit(c) PROVE Rest'
  BY <1>3 DEF InitCommit
<1>4. ASSUME NEW c \in Callers, Start(c) PROVE Rest'
  BY <1>4 DEF Start
<1>5. ASSUME NEW c \in Callers, StopSignal(c) PROVE Rest'
  BY <1>5 DEF StopSignal
<1>6. ASSUME NEW c \in Callers, StopJoin(c) PROVE Rest'
  BY <1>6 DEF StopJoin
<1>7. ASSUME NEW c \in Callers, StopFinish(c) PROVE Rest'
  BY <1>7 DEF StopFinish
<1>8. ASSUME NEW c \in Callers, Close(c) PROVE Rest'
  BY <1>8 DEF Close
<1>9. CASE WorkerStep
  <2>1. ASSUME NEW to \in Live \ {"exit"}, WorkerGoto(to), worker \in Live \ {"exit"}
        PROVE  Rest'
    BY <2>1 DEF WorkerGoto
  <2>2. CASE WorkerTop
    BY <2>2 DEF WorkerTop
  <2>3. CASE ReadThrows
    BY <2>3 DEF ReadThrows
  <2>4. CASE ReconfBegin
    BY <2>4 DEF ReconfBegin
  <2>5. CASE Reopen
    BY <2>5 DEF Reopen
  <2>6. CASE ReconfCheck
    BY <2>6 DEF ReconfCheck
  <2>7. CASE WorkerExit
    BY <2>7 DEF WorkerExit
  <2> QED
    BY <1>9, <2>1, <2>2, <2>3, <2>4, <2>5, <2>6, <2>7
       DEF WorkerStep, PollTimeout, PollFailure, PollReady, NothingAvailable,
           SomeAvailable, Read, ReadEmpty, Fed
<1>10. CASE DeviceChange
  BY <1>10 DEF DeviceChange
<1>11. CASE UNCHANGED vars
  BY <1>11 DEF vars
<1> QED
  BY <1>1, <1>2, <1>3, <1>4, <1>5, <1>6, <1>7, <1>8, <1>9, <1>10, <1>11
     DEF Next, CallerStep, Aborted

THEOREM Inductive == Spec => []IInv
  BY InitIInv, NextIInv, PTL DEF Spec

\* The variables of a receiver keep their types.
THEOREM TypeCorrect == Spec => []TypeOK
<1>1. IInv => TypeOK
  BY DEF IInv
<1> QED
  BY <1>1, Inductive, PTL

\* The worker never feeds a parser that stop() has destroyed.
THEOREM ParserSafe == Spec => []ParserOutlivesFeed
<1>1. IInv => ParserOutlivesFeed
  BY DEF IInv, ThreadInv, ParserOutlivesFeed
<1> QED
  BY <1>1, Inductive, PTL

\* is_running() is never true of a worker that has left its loop.
THEOREM RunningSafe == Spec => []RunningIsTruthful
<1>1. IInv => RunningIsTruthful
  BY DEF IInv, TypeOK, ThreadInv, RetryInv, RunningIsTruthful, Live
<1> QED
  BY <1>1, Inductive, PTL

\* An idle receiver has no worker and no open port.
THEOREM IdleSafe == Spec => []IdleIsReleased
<1>1. IInv => IdleIsReleased
  BY DEF IInv
<1> QED
  BY <1>1, Inductive, PTL

\* The worker gives up after MaxRetries failed attempts and not before.
THEOREM GivesUpSafe == Spec => []GivesUpOnlyWhenExhausted
<1>1. IInv => GivesUpOnlyWhenExhausted
  BY DEF IInv, RetryInv, GivesUpOnlyWhenExhausted
<1> QED
  BY <1>1, Inductive, PTL

\* terminate() always leaves the receiver idle.
THEOREM TerminateSafe == Spec => TerminateIdles
<1>1. IInv /\ [Next]_vars => [\A c \in Callers : Close(c) => state' = "idle"]_vars
  BY DEF IInv, TypeOK, CallerInv, Close
<1> QED
  BY <1>1, Inductive, PTL DEF Spec, TerminateIdles

-----------------------------------------------------------------------------
(* Refinement of Lifecycle.                                                *)

LEMMA InitRefines == Init => Lifecycle!Init
BY ReceiverAssumption DEF Init, Lifecycle!Init, Live, WorkerPCs

\* Every step of the receiver is a step of the documented state machine or
\* changes nothing it shows.
LEMMA NextRefines == IInv /\ [Next]_vars => [Lifecycle!Next]_(Lifecycle!vars)
<1> SUFFICES ASSUME IInv, [Next]_vars PROVE [Lifecycle!Next]_(Lifecycle!vars)
  OBVIOUS
<1>r. TypeOK /\ ThreadInv /\ CallerInv /\ RetryInv
  BY DEF IInv
<1> USE <1>r, ReceiverAssumption
     DEF TypeOK, ThreadInv, CallerInv, RetryInv, callerVars, recvVars, portVars,
         workVars, Return, ReopenOk, ReopenFails, Live, WorkerPCs,
         Lifecycle!Next, Lifecycle!vars
<1>1. ASSUME NEW c \in Callers, Call(c) PROVE UNCHANGED Lifecycle!vars
  BY <1>1 DEF Call, Enter
<1>2. ASSUME NEW c \in Callers, InitPort(c) PROVE Lifecycle!OpenPort
  BY <1>2 DEF InitPort, Lifecycle!OpenPort
<1>3. ASSUME NEW c \in Callers, InitCommit(c)
      PROVE  Lifecycle!Initialize \/ UNCHANGED Lifecycle!vars
  BY <1>3 DEF InitCommit, Lifecycle!Initialize
<1>4. ASSUME NEW c \in Callers, Start(c)
      PROVE  Lifecycle!StartReader \/ UNCHANGED Lifecycle!vars
  BY <1>4 DEF Start, Lifecycle!StartReader
<1>5. ASSUME NEW c \in Callers, StopSignal(c) PROVE UNCHANGED Lifecycle!vars
  BY <1>5 DEF StopSignal
<1>6. ASSUME NEW c \in Callers, StopJoin(c) PROVE UNCHANGED Lifecycle!vars
  BY <1>6 DEF StopJoin
<1>7. ASSUME NEW c \in Callers, StopFinish(c) PROVE Lifecycle!StopReader
  BY <1>7 DEF StopFinish, Lifecycle!StopReader
<1>8. ASSUME NEW c \in Callers, Close(c)
      PROVE  Lifecycle!Terminate \/ UNCHANGED Lifecycle!vars
  BY <1>8 DEF Close, Lifecycle!Terminate
<1>9. CASE WorkerStep
  <2>1. ASSUME NEW to \in Live, WorkerGoto(to), worker \in Live
        PROVE  UNCHANGED Lifecycle!vars
    BY <2>1 DEF WorkerGoto
  <2>2. CASE WorkerTop \/ ReadThrows \/ ReconfBegin \/ ReconfCheck
    BY <2>2 DEF WorkerTop, ReadThrows, ReconfBegin, ReconfCheck
  <2>3. CASE Reopen
    BY <2>3 DEF Reopen, Lifecycle!OpenPort
  <2>4. CASE WorkerExit
    BY <2>4 DEF WorkerExit, Lifecycle!ReaderFinishes
  <2> QED
    BY <1>9, <2>1, <2>2, <2>3, <2>4
       DEF WorkerStep, PollTimeout, PollFailure, PollReady, NothingAvailable,
           SomeAvailable, Read, ReadEmpty, Fed
<1>10. CASE DeviceChange
  BY <1>10 DEF DeviceChange
<1>11. CASE UNCHANGED vars
  BY <1>11 DEF vars
<1> QED
  BY <1>1, <1>2, <1>3, <1>4, <1>5, <1>6, <1>7, <1>8, <1>9, <1>10, <1>11
     DEF Next, CallerStep, Aborted

\* The receiver implements the state machine drawn in gnss_receiver.h.
THEOREM ReceiverRefines == Spec => ImplementsLifecycle
  BY InitRefines, NextRefines, Inductive, PTL
     DEF Spec, ImplementsLifecycle, Lifecycle!Spec

=============================================================================
