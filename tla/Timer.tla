-------------------------------- MODULE Timer --------------------------------
(***************************************************************************)
(* time_event::timer of libevent.h: a POSIX timer whose expirations call   *)
(* timer_timeout_handler() on threads of their own, and the threads that   *)
(* start, stop, resume it and change its duration.                         *)
(*                                                                         *)
(* Every use of m_mutex is one step.  A callback is opaque; it runs with   *)
(* m_mutex held.                                                           *)
(***************************************************************************)
EXTENDS Integers

CONSTANTS
  Users,     \* the threads that call the timer's operations
  Notices,   \* identities for the threads of expirations
  Repeats,   \* what start() may be called with; -1 is for ever
  Cap        \* bound: as far as callbacks are counted

VARIABLES
  kernel,    \* the POSIX timer: "off" (no m_timer_id), "idle" (never fires),
             \*   "once", "spent" (has fired once) or "periodic"
  duration,  \* m_duration_ms is not zero
  repeat,    \* m_repeat_count
  counter,   \* m_repeat_counter
  ticking,   \* m_running
  notice,    \* of each expiration: "free", "call", "count" or "stop"
  user,      \* of each thread: "idle", "decide", "stop", "reread" (in
             \*   set_duration()) or "start" (there or in resume())
  saved,     \* the repeat count it is about to start with
  \* History, of the current run:
  made,      \* callbacks since it was started
  clean,     \* no earlier expiration was in flight then
  cut        \* a user has stopped it

timerVars  == <<kernel, duration, repeat, counter, ticking>>
userVars   == <<user, saved>>
runHistory == <<made, clean, cut>>
vars == <<timerVars, notice, userVars, runHistory>>

Init ==
  /\ kernel = "off" /\ duration = FALSE /\ repeat = -1 /\ counter = 0 /\ ticking = FALSE
  /\ notice = [n \in Notices |-> "free"]
  /\ user = [u \in Users |-> "idle"] /\ saved = [u \in Users |-> -1]
  /\ made = 0 /\ clean = TRUE /\ cut = FALSE

-----------------------------------------------------------------------------
(* Critical sections of start() and stop().                                *)

\* timer_create() or timer_settime() fails, and start() throws.
StartFails(k) ==
  /\ ~ticking
  /\ repeat' = k /\ counter' = 0
  /\ UNCHANGED <<kernel, duration, ticking, runHistory>>

\* Bug: the count of the last run goes on.
BugStartSection(k) ==
  IF ticking THEN UNCHANGED <<timerVars, runHistory>>
  ELSE /\ repeat' = k /\ counter' = counter /\ ticking' = TRUE
       /\ kernel' = CASE ~duration -> "idle" [] k = 0 -> "once" [] OTHER -> "periodic"
       /\ made' = 0 /\ cut' = FALSE /\ clean' = (\A n \in Notices : notice[n] = "free")
       /\ UNCHANGED duration

\* A duration of zero disarms.
StartSection(k) ==
  IF ticking THEN UNCHANGED <<timerVars, runHistory>>
  ELSE /\ repeat' = k /\ counter' = 0 /\ ticking' = TRUE
       /\ kernel' = CASE ~duration -> "idle" [] k = 0 -> "once" [] OTHER -> "periodic"
       /\ made' = 0 /\ cut' = FALSE /\ clean' = (\A n \in Notices : notice[n] = "free")
       /\ UNCHANGED duration

StopSection ==
  /\ ticking' = FALSE /\ counter' = (IF ticking THEN 0 ELSE counter)
  /\ kernel' = "off"
  /\ UNCHANGED <<duration, repeat>>

-----------------------------------------------------------------------------
(* A user.                                                                 *)

Goes(u, p) == user' = [user EXCEPT ![u] = p]

Start(u, k) ==
  /\ user[u] = "idle"
  /\ StartSection(k) \/ StartFails(k)
  /\ UNCHANGED <<notice, userVars>>

Stop(u) ==
  /\ user[u] = "idle"
  /\ StopSection /\ cut' = TRUE
  /\ UNCHANGED <<notice, userVars, made, clean>>

\* resume(): it reads under the mutex ...
Resume(u) ==
  /\ user[u] = "idle" /\ ~ticking /\ duration
  /\ saved' = [saved EXCEPT ![u] = repeat] /\ Goes(u, "start")
  /\ UNCHANGED <<timerVars, notice, runHistory>>

\* ... and starts after it.
Restart(u) ==
  /\ user[u] = "start" /\ Goes(u, "idle")
  /\ StartSection(saved[u]) \/ StartFails(saved[u])
  /\ UNCHANGED <<notice, saved>>

\* set_duration(): the new duration, then what is running is stopped and started again.
SetDuration(u, positive) ==
  /\ user[u] = "idle"
  /\ duration' = positive /\ Goes(u, "decide")
  /\ UNCHANGED <<kernel, repeat, counter, ticking, notice, saved, runHistory>>

Decide(u) ==
  /\ user[u] = "decide" /\ Goes(u, IF ticking THEN "stop" ELSE "idle")
  /\ UNCHANGED <<timerVars, notice, saved, runHistory>>

StopToRestart(u) ==
  /\ user[u] = "stop" /\ Goes(u, "reread")
  /\ StopSection /\ cut' = TRUE
  /\ UNCHANGED <<notice, saved, made, clean>>

\* m_repeat_count is read without the mutex.
Reread(u) ==
  /\ user[u] = "reread" /\ Goes(u, "start")
  /\ saved' = [saved EXCEPT ![u] = repeat]
  /\ UNCHANGED <<timerVars, notice, runHistory>>

UserGoesOn(u) == Restart(u) \/ Decide(u) \/ StopToRestart(u) \/ Reread(u)

-----------------------------------------------------------------------------
(* An expiration: timer_timeout_handler() on a thread of its own.          *)

Reaches(n, p) == notice' = [notice EXCEPT ![n] = p]

\* The kernel does not wait for the handler of the last expiration.
Expire(n) ==
  /\ kernel \in {"once", "periodic"} /\ notice[n] = "free"
  /\ kernel' = (IF kernel = "once" THEN "spent" ELSE kernel)
  /\ Reaches(n, "call")
  /\ UNCHANGED <<duration, repeat, counter, ticking, userVars, runHistory>>

\* invoke_callbacks()
Call(n) ==
  /\ notice[n] = "call" /\ Reaches(n, "count")
  /\ made' = (IF made < Cap THEN made + 1 ELSE made)
  /\ UNCHANGED <<timerVars, userVars, clean, cut>>

Count(n) ==
  /\ notice[n] = "count"
  /\ counter' = (IF repeat > 0 THEN counter + 1 ELSE counter)
  /\ Reaches(n, IF repeat = 0 \/ (repeat > 0 /\ counter' >= repeat) THEN "stop" ELSE "free")
  /\ UNCHANGED <<kernel, duration, repeat, ticking, userVars, runHistory>>

\* stop(), of whichever run there is by now.
SelfStop(n) ==
  /\ notice[n] = "stop" /\ Reaches(n, "free")
  /\ StopSection
  /\ UNCHANGED <<userVars, runHistory>>

Handler(n) == Call(n) \/ Count(n) \/ SelfStop(n)

-----------------------------------------------------------------------------
UserNext(u) ==
  \/ \E k \in Repeats : Start(u, k)
  \/ \E positive \in BOOLEAN : SetDuration(u, positive)
  \/ Stop(u) \/ Resume(u) \/ UserGoesOn(u)

Next ==
  \/ \E u \in Users : UserNext(u)
  \/ \E n \in Notices : Expire(n) \/ Handler(n)

Spec == Init /\ [][Next]_vars

\* An armed timer expires, and what is begun goes on.
Fairness ==
  /\ WF_vars(\E n \in Notices : Expire(n))
  /\ \A n \in Notices : WF_vars(Handler(n))
  /\ \A u \in Users : WF_vars(UserGoesOn(u))

FairSpec == Spec /\ Fairness

-----------------------------------------------------------------------------
TypeOK ==
  /\ kernel \in {"off", "idle", "once", "spent", "periodic"}
  /\ duration \in BOOLEAN /\ repeat \in Repeats \cup {-1} /\ counter \in Nat
  /\ ticking \in BOOLEAN /\ cut \in BOOLEAN /\ clean \in BOOLEAN /\ made \in 0 .. Cap
  /\ notice \in [Notices -> {"free", "call", "count", "stop"}]
  /\ user \in [Users -> {"idle", "decide", "stop", "reread", "start"}]
  /\ saved \in [Users -> Repeats \cup {-1}]

Limited == ticking /\ kernel \in {"once", "periodic"} /\ repeat >= 0

\* A run with a limit calls back as often as start() was asked to before it stops itself,
\* unless a user stops it.  Not promised of a run that is started while an expiration of an
\* earlier one is in flight: that one's handler may stop it.
RunsItsRepeats == Limited /\ clean /\ ~cut ~> cut \/ (made >= repeat /\ made > 0)

\* ... and it does stop.
LimitedRunsEnd == Limited ~> ~ticking
=============================================================================
