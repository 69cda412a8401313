----------------------------- MODULE EventLoop -----------------------------
(***************************************************************************)
(* event_queue, event_looper and event_handler of libevent.h: any thread   *)
(* posts events, at once or with a delay, a looper thread executes them    *)
(* when they are due, and controllers stop and resume the looper, from any *)
(* thread and without waiting for each other.                              *)
(*                                                                         *)
(* The queue's mutex is never held across a step: wait() and wait_for()    *)
(* release it, so what is left of it are the critical sections, each one   *)
(* step, and the set "asleep" of the threads inside a wait.  m_running of  *)
(* the looper and of its queue change together, in event_looper's critical *)
(* section, and are one variable.                                          *)
(***************************************************************************)
EXTENDS Integers, FiniteSets

CONSTANTS
  Events,       \* the events, each posted once, by a thread of its own
  Delay,        \* Delay[e]: delay_ms of event e
  Ms,           \* ticks of the clock per millisecond: stamps are finer than delays
  MaxTime,      \* bound on the clock
  Controllers,  \* the threads that call stop() and resume()
  Loopers,      \* identities for looper threads
  None          \* no event, no thread

ASSUME LoopAssumption ==
  /\ Ms \in Nat \ {0} /\ MaxTime \in Nat
  /\ Delay \in [Events -> Nat]
  /\ None \notin Events \cup Loopers /\ IsFiniteSet(Controllers)

VARIABLES
  now,      \* steady_clock::now()
  place,    \* where each event is: "new", "made" (constructed), "queued",
            \*   "hand" (a looper thread has it), "done", "lost" (discarded)
  at,       \* its time stamp
  notifier, \* events that are in m_queue but whose poster has yet to notify
  running,  \* m_running
  handle,   \* m_looper_thread
  aborted,  \* std::terminate(): a thread was assigned to a joinable handle
  thrown,   \* history: a stop() has thrown, as there was no thread to join
  pc,       \* of a looper thread: "none", "top", "poll", "wait", "requeue",
            \*   "run" or "ended"
  hand,     \* the event it holds
  until,    \* when its wait_for() ends; 0 outside of it
  asleep,   \* the looper threads inside wait() or wait_for()
  cpc       \* of a controller: "idle", "join" (in stop()) or "spawn" (in resume())

postVars == <<place, at, notifier>>
loopVars == <<pc, hand, until>>
ctlVars  == <<running, handle, aborted, thrown, cpc>>
vars == <<now, postVars, loopVars, asleep, ctlVars>>

In(p) == {e \in Events : place[e] = p}
Time == 0 .. MaxTime

Init ==
  /\ now = 0 /\ running = TRUE /\ aborted = FALSE /\ thrown = FALSE
  /\ place = [e \in Events |-> "new"] /\ at = [e \in Events |-> 0]
  /\ notifier = {} /\ asleep = {}
  /\ handle \in Loopers
  /\ pc = [t \in Loopers |-> IF t = handle THEN "top" ELSE "none"]
  /\ hand = [t \in Loopers |-> None] /\ until = [t \in Loopers |-> 0]
  /\ cpc = [c \in Controllers |-> "idle"]

\* Time passes whatever the threads do: each of them may be late.
Tick == now < MaxTime /\ now' = now + 1 /\ UNCHANGED <<postVars, loopVars, asleep, ctlVars>>

-----------------------------------------------------------------------------
(* A thread that posts: post_event() and post_delayed_event().             *)

\* The time stamp that the event's constructor computes.
Due(e) == now + Delay[e] * Ms

Make(e) ==
  /\ place[e] = "new" /\ Due(e) <= MaxTime
  /\ at' = [at EXCEPT ![e] = Due(e)]
  /\ place' = [place EXCEPT ![e] = "made"]
  /\ UNCHANGED <<now, notifier, loopVars, asleep, ctlVars>>

\* enqueue(): in the critical section ...
Enqueue(e) ==
  /\ place[e] = "made"
  /\ place' = [place EXCEPT ![e] = IF running THEN "queued" ELSE "lost"]
  /\ notifier' = IF running THEN notifier \cup {e} ELSE notifier
  /\ UNCHANGED <<now, at, loopVars, asleep, ctlVars>>

\* ... and after it.
Notify(e) ==
  /\ e \in notifier
  /\ notifier' = notifier \ {e} /\ asleep' = {}
  /\ UNCHANGED <<now, place, at, loopVars, ctlVars>>

-----------------------------------------------------------------------------
(* The looper thread.                                                      *)

Goes(t, p) == pc' = [pc EXCEPT ![t] = p]

Top(t) ==
  /\ pc[t] = "top"
  /\ Goes(t, IF running THEN "poll" ELSE "ended")
  /\ UNCHANGED <<now, postVars, hand, until, asleep, ctlVars>>

\* poll(): sleeps until there is an event or the queue is stopped; a wait()
\* tests its condition again each time it is woken.
Sleep(t) ==
  /\ pc[t] = "poll" /\ t \notin asleep
  /\ running /\ In("queued") = {}
  /\ asleep' = asleep \cup {t}
  /\ UNCHANGED <<now, postVars, loopVars, ctlVars>>

Stopped(t) ==
  /\ pc[t] = "poll" /\ t \notin asleep /\ ~running
  /\ Goes(t, "top")
  /\ UNCHANGED <<now, postVars, hand, until, asleep, ctlVars>>

\* The events the priority queue may have on top.
First == {e \in In("queued") : \A f \in In("queued") : at[e] <= at[f]}

\* Bug: one millisecond too few.
BugWaitFor(e) == IF at[e] > now THEN ((at[e] - now) \div Ms) * Ms - Ms ELSE 0

\* The wait for an event that is not due: whole milliseconds, rounded down.
WaitFor(e) == IF at[e] > now THEN ((at[e] - now) \div Ms) * Ms ELSE 0

Pop(t, e) ==
  /\ pc[t] = "poll" /\ t \notin asleep /\ running /\ e \in First
  /\ place' = [place EXCEPT ![e] = "hand"]
  /\ hand' = [hand EXCEPT ![t] = e]
  /\ IF at[e] > now
       THEN /\ Goes(t, "wait") /\ asleep' = asleep \cup {t}
            /\ until' = [until EXCEPT ![t] = now + WaitFor(e)]
       ELSE Goes(t, "run") /\ UNCHANGED <<asleep, until>>
  /\ UNCHANGED <<now, at, notifier, ctlVars>>

\* wait_for() ends: by the clock ...
TimedOut(t) ==
  /\ pc[t] = "wait" /\ now >= until[t]
  /\ Goes(t, "run") /\ asleep' = asleep \ {t}
  /\ until' = [until EXCEPT ![t] = 0]
  /\ UNCHANGED <<now, postVars, hand, ctlVars>>

\* ... or by a notification before that, or for no reason.
Woken(t) ==
  /\ pc[t] = "wait" /\ now < until[t]
  /\ Goes(t, "requeue") /\ asleep' = asleep \ {t}
  /\ until' = [until EXCEPT ![t] = 0]
  /\ UNCHANGED <<now, postVars, hand, ctlVars>>

\* The event in hand goes back; poll() returns no event.
Requeue(t) ==
  /\ pc[t] = "requeue"
  /\ place' = [place EXCEPT ![hand[t]] = IF running THEN "queued" ELSE "lost"]
  /\ asleep' = IF running THEN {} ELSE asleep
  /\ hand' = [hand EXCEPT ![t] = None] /\ Goes(t, "top")
  /\ UNCHANGED <<now, at, notifier, until, ctlVars>>

Execute(t) ==
  /\ pc[t] = "run"
  /\ place' = [place EXCEPT ![hand[t]] = "done"]
  /\ hand' = [hand EXCEPT ![t] = None] /\ Goes(t, "top")
  /\ UNCHANGED <<now, at, notifier, until, asleep, ctlVars>>

LooperNext(t) ==
  \/ Top(t) \/ Sleep(t) \/ Stopped(t) \/ TimedOut(t) \/ Woken(t)
  \/ Requeue(t) \/ Execute(t) \/ \E e \in Events : Pop(t, e)

-----------------------------------------------------------------------------
(* A controller.                                                           *)

CtlGoes(c, p) == cpc' = [cpc EXCEPT ![c] = p]
Discard == place' = [e \in Events |-> IF place[e] = "queued" THEN "lost" ELSE place[e]]

\* Bug: what is in the queue stays there.
BugKeepQueue(c) ==
  /\ cpc[c] = "idle" /\ running
  /\ running' = FALSE /\ asleep' = {}
  /\ CtlGoes(c, "join")
  /\ UNCHANGED <<now, postVars, loopVars, handle, aborted, thrown>>

\* Bug: nobody is woken.
BugSilentStop(c) ==
  /\ cpc[c] = "idle" /\ running
  /\ running' = FALSE /\ Discard
  /\ CtlGoes(c, "join")
  /\ UNCHANGED <<now, at, notifier, loopVars, asleep, handle, aborted, thrown>>

\* stop() of a looper that runs: the critical section, event_queue::stop()
\* included ...
StopSection(c) ==
  /\ cpc[c] = "idle" /\ running
  /\ running' = FALSE /\ Discard /\ asleep' = {}
  /\ CtlGoes(c, "join")
  /\ UNCHANGED <<now, at, notifier, loopVars, handle, aborted, thrown>>

\* ... and the join, of whatever thread the handle has by then ...
Join(c) ==
  /\ cpc[c] = "join" /\ handle # None /\ pc[handle] = "ended"
  /\ Goes(handle, "none") /\ handle' = None
  /\ CtlGoes(c, "idle")
  /\ UNCHANGED <<now, postVars, hand, until, asleep, running, aborted, thrown>>

\* ... which throws when it has none: the stop() came between the halves of
\* another controller's resume(), or somebody else has joined the thread.
JoinThrows(c) ==
  /\ cpc[c] = "join" /\ handle = None
  /\ thrown' = TRUE /\ CtlGoes(c, "idle")
  /\ UNCHANGED <<now, postVars, loopVars, asleep, running, handle, aborted>>

\* resume() of a looper that is stopped: the critical section ...
ResumeSection(c) ==
  /\ cpc[c] = "idle" /\ ~running
  /\ running' = TRUE /\ asleep' = {}
  /\ CtlGoes(c, "spawn")
  /\ UNCHANGED <<now, postVars, loopVars, handle, aborted, thrown>>

\* ... and the new thread; assigning to a handle that is still joinable ends
\* the program.
Spawn(c) ==
  /\ cpc[c] = "spawn"
  /\ aborted' = (handle # None)
  /\ IF handle = None
       THEN \E t \in Loopers : pc[t] = "none" /\ Goes(t, "top") /\ handle' = t
       ELSE UNCHANGED <<pc, handle>>
  /\ CtlGoes(c, "idle")
  /\ UNCHANGED <<now, postVars, hand, until, asleep, running, thrown>>

\* What a controller goes on to do once it is inside a command.
Proceed(c) == Join(c) \/ JoinThrows(c) \/ Spawn(c)

ControlNext(c) == StopSection(c) \/ ResumeSection(c) \/ Proceed(c)

-----------------------------------------------------------------------------
Next ==
  /\ ~aborted
  /\ \/ Tick
     \/ \E e \in Events : Make(e) \/ Enqueue(e) \/ Notify(e)
     \/ \E t \in Loopers : LooperNext(t)
     \/ \E c \in Controllers : ControlNext(c)

Spec == Init /\ [][Next]_vars

\* Time passes, and every thread that is in the middle of something goes on;
\* nobody has to post, to stop or to resume.
FairSpec ==
  /\ Spec /\ WF_vars(Tick)
  /\ \A e \in Events : WF_vars(Enqueue(e)) /\ WF_vars(Notify(e))
  /\ \A t \in Loopers : WF_vars(LooperNext(t))
  /\ \A c \in Controllers : WF_vars(Proceed(c))

-----------------------------------------------------------------------------
TypeOK ==
  /\ now \in Time /\ at \in [Events -> Time]
  /\ place \in [Events -> {"new", "made", "queued", "hand", "done", "lost"}]
  /\ notifier \in SUBSET Events /\ asleep \in SUBSET Loopers
  /\ running \in BOOLEAN /\ aborted \in BOOLEAN /\ thrown \in BOOLEAN
  /\ handle \in Loopers \cup {None}
  /\ pc \in [Loopers -> {"none", "top", "poll", "wait", "requeue", "run", "ended"}]
  /\ hand \in [Loopers -> Events \cup {None}]
  /\ until \in [Loopers -> Int]
  /\ cpc \in [Controllers -> {"idle", "join", "spawn"}]

\* However the commands of the controllers meet, after they have returned and
\* until the next resume() nothing is pending in a stopped looper and nothing
\* will be executed: the queue is empty, no looper thread is alive, and none
\* holds an event that a notification or a clock might still set free.  Only a
\* stop() that throws for want of a thread may leave one behind.
StoppedIsQuiet ==
  ~thrown /\ ~running /\ (\A c \in Controllers : cpc[c] = "idle") =>
    /\ In("queued") \cup In("hand") = {}
    /\ handle = None
    /\ \A t \in Loopers : pc[t] = "none"

\* poll() hands out no event a whole millisecond before its time, however often
\* it was put back; it may be early by less (the wait is rounded down).
NeverAMillisecondEarly ==
  [][\A e \in Events : place[e] # "done" /\ place'[e] = "done" => now + Ms > at[e]]_vars

\* An event that enqueue() has accepted is executed or discarded by a stop():
\* a looper thread that sleeps on a later event, or on none, is woken for it.
AcceptedEventsRun ==
  \A e \in Events : place[e] = "queued" ~> place[e] \in {"done", "lost"}

\* stop() returns, also when the looper thread waits for an event of the
\* future.  (Like the property above, of one controller: several may keep each
\* other from returning, or abort the program.)
StopReturns == \A c \in Controllers : cpc[c] = "join" ~> cpc[c] = "idle"
=============================================================================
