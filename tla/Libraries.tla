------------------------------ MODULE Libraries ------------------------------
(***************************************************************************)
(* The classes of libevent.h and threadpool.h and the commands to the chip *)
(* side by side: EventLoop, and instances of LatestValue, Timer,           *)
(* ThreadPool, FdEvents, Signals and ChipControl.  They share nothing, so  *)
(* a behaviour runs one of them, chosen at its start, and leaves the       *)
(* others as they are: its states are the sum of theirs, not the product.  *)
(* EventLoop runs twice: "contended" by all its controllers, of which only *)
(* what holds of any number is asked, and "loop", with those in Owners.    *)
(***************************************************************************)
EXTENDS EventLoop

CONSTANTS
  MaxValue, Cap,                                   \* LatestValue
  Repeats,                                         \* Timer
  Tasks, Priority,                                 \* ThreadPool
  Fds, Masks,                                      \* FdEvents
  Senders, Slots, Functions, Wiring, Lambdas,      \* Signals
  Lines, Failures, MaxFailures,                    \* ChipControl
  Threads,                                         \* the threads of each
  Owners                                           \* those that start and stop it

VARIABLES
  part,                                                                \* the class that runs
  latest, fresh, telling, stopFlag, thread, collided, stage, inHand,
    step, handed,                                                      \* LatestValue
  kernel, duration, repeat, counter, ticking, notice, user, saved,
    made, clean, cut,                                                  \* Timer
  task, stamp, untold, open, worker, holds, destructor,                \* ThreadPool
  fdMap, pollFds, modified, phase, todo,                               \* FdEvents
  conns, callables, counts, emitter, left, job, dead,                  \* Signals
  pin, call, failures, line, lowFor, aiding, gnss, stored, owed, promised,
    undelivered                                                        \* ChipControl

V == INSTANCE LatestValue WITH Holders <- Owners, Runs <- Threads
T == INSTANCE Timer WITH Users <- Owners, Notices <- Threads
P == INSTANCE ThreadPool WITH Workers <- Threads
F == INSTANCE FdEvents
S == INSTANCE Signals
C == INSTANCE ChipControl WITH Callers <- Threads

\* None is none of their objects, and a signal is not a slot.
ASSUME FdAssumption == None \notin F!Entries \cup F!Polled
ASSUME SignalsAssumption ==
  /\ None \notin Threads \cup Senders \cup Slots \cup S!Jobs
  /\ Senders \cap Slots = {}

valueRest ==
  <<latest, fresh, telling, stopFlag, thread, collided, stage, inHand, step, handed>>
timerRest ==
  <<kernel, duration, repeat, counter, ticking, notice, user, saved, made, clean, cut>>
poolRest == <<task, stamp, untold, open, worker, holds, destructor>>
fdRest == <<fdMap, pollFds, modified, phase, todo>>
signalsRest == <<conns, callables, counts, emitter, left, job, dead>>
chipRest ==
  <<pin, call, failures, line, lowFor, aiding, gnss, stored, owed, promised, undelivered>>

\* A step of one class, the others at rest.
LoopStep(a) ==
  /\ part = "loop" /\ a
  /\ \A c \in Controllers \ Owners : cpc'[c] = cpc[c]
  /\ UNCHANGED <<part, valueRest, timerRest, poolRest, fdRest, signalsRest, chipRest>>

ContendedStep(a) ==
  /\ part = "contended" /\ a
  /\ UNCHANGED <<part, valueRest, timerRest, poolRest, fdRest, signalsRest, chipRest>>

ValueStep(a) ==
  /\ part = "value" /\ a
  /\ UNCHANGED <<part, vars, timerRest, poolRest, fdRest, signalsRest, chipRest>>

TimerStep(a) ==
  /\ part = "timer" /\ a
  /\ UNCHANGED <<part, vars, valueRest, poolRest, fdRest, signalsRest, chipRest>>

PoolStep(a) ==
  /\ part = "pool" /\ a
  /\ UNCHANGED <<part, vars, valueRest, timerRest, fdRest, signalsRest, chipRest>>

FdStep(a) ==
  /\ part = "fd" /\ a
  /\ UNCHANGED <<part, vars, valueRest, timerRest, poolRest, signalsRest, chipRest>>

SignalsStep(a) ==
  /\ part = "signals" /\ a
  /\ UNCHANGED <<part, vars, valueRest, timerRest, poolRest, fdRest, chipRest>>

ChipStep(a) ==
  /\ part = "chip" /\ a
  /\ UNCHANGED <<part, vars, valueRest, timerRest, poolRest, fdRest, signalsRest>>

\* Threads are alike: the first worker's identity is fixed.
LibInit ==
  /\ thread = CHOOSE t \in Threads : TRUE
  /\ part \in {"contended", "loop", "value", "timer", "pool", "fd", "signals", "chip"}
  /\ Init /\ V!Init /\ T!Init /\ P!Init /\ F!Init /\ S!Init /\ C!Init

LibNext ==
  \/ LoopStep(Next) \/ ContendedStep(Next)
  \/ ValueStep(V!Next) \/ TimerStep(T!Next) \/ PoolStep(P!Next)
  \/ FdStep(F!Next) \/ SignalsStep(S!Next) \/ ChipStep(C!Next)

all == <<part, vars, valueRest, timerRest, poolRest, fdRest, signalsRest, chipRest>>

\* The fairness of EventLoop, LatestValue, Timer and ThreadPool.  As only one class runs in a
\* behaviour, weak fairness of an action of one class or another is weak fairness of each; the
\* actions are paired to have fewer conditions for TLC to check.
LibFairness ==
  /\ WF_all(\/ LoopStep(Tick) \/ ValueStep(V!Tell) \/ PoolStep(P!NotifyAll)
            \/ TimerStep(\E n \in Threads : T!Expire(n)))
  /\ \A e \in Events :
        /\ WF_all(LoopStep(Enqueue(e)) \/ PoolStep(e \in Tasks /\ P!Enqueue(e)))
        /\ WF_all(LoopStep(Notify(e)) \/ PoolStep(e \in Tasks /\ P!NotifyOne(e)))
  /\ \A t \in Threads :
        WF_all(\/ LoopStep(t \in Loopers /\ LooperNext(t)) \/ ValueStep(V!RunNext(t))
               \/ PoolStep(P!WorkerNext(t)) \/ TimerStep(T!Handler(t)))
  /\ \A c \in Owners :
        WF_all(\/ LoopStep(c \in Controllers /\ Proceed(c)) \/ ValueStep(V!HolderGoesOn(c))
               \/ PoolStep(P!Join) \/ TimerStep(T!UserGoesOn(c)))

LibSpec == LibInit /\ [][LibNext]_all /\ LibFairness

\* What a class has accepted it does: an event that enqueue() took is executed unless a stop()
\* discards it (where nobody else stops or resumes the looper), a task unless the pool is destroyed, a value reaches the callback unless the
\* worker is stopped, and a timer calls back as often as it was asked to unless it is stopped.
WorkIsDone ==
  (part = "loop" => AcceptedEventsRun) /\ V!LatestIsHanded /\ T!RunsItsRepeats /\ P!TasksRun

\* A stop() or a destructor that joins a thread returns, wherever that thread is, and a timer
\* with a limit ends.
StopsReturn ==
  (part = "loop" => StopReturns) /\ V!StopEnds /\ T!LimitedRunsEnd /\ P!DestructorReturns

\* poll() waits for what the table of descriptors has (FdEvents).
PollIsCurrent == F!PollIsCurrent

\* Signals and slots know of each other what there is, and nothing destroyed (Signals).
NothingDangles == S!NothingDangles

\* RESET_N is released and the chip is as the commands it took say (ChipControl).
ChipIsAsCommanded == C!ChipIsAsCommanded
=============================================================================
