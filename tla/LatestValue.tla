---------------------------- MODULE LatestValue ----------------------------
(***************************************************************************)
(* once_event::once_at_least of libevent.h: a worker thread hands the      *)
(* latest value to a callback, at once when it is new and again after      *)
(* every interval without a new one; other threads update the value, stop  *)
(* the worker and resume it.                                               *)
(*                                                                         *)
(* Values are numbered as they are given.  Time is left out: a wait may    *)
(* end by its deadline whenever it is waiting.                             *)
(***************************************************************************)
EXTENDS Integers

CONSTANTS
  Holders,    \* the threads that call stop() and resume()
  Runs,       \* identities for worker threads
  MaxValue,   \* bound: updates
  None        \* no thread

VARIABLES
  latest,     \* last_value_; 0 while has_value_ is false
  fresh,      \* new_data_
  telling,    \* updates that have yet to notify
  stopFlag,   \* stop_flag_
  thread,     \* worker_thread_
  collided,   \* std::terminate(): assigned to while joinable
  stage,      \* of a worker thread: "none", "top", "test", "doze" (about to
              \*   sleep), "asleep", "call" or "ended"
  inHand,     \* the value it will hand over; 0 is none
  step,       \* of a holder: "idle", "wake" and "join" (in stop()), "spawn" and
              \*   "tell" (in resume())
  \* History:
  handed      \* the latest value a callback has been given

valueVars  == <<latest, fresh, telling>>
threadVars == <<stage, inHand>>
holderVars == <<stopFlag, thread, collided, step>>
vars == <<valueVars, threadVars, holderVars, handed>>

Init ==
  /\ latest = 0 /\ fresh = FALSE /\ telling = 0
  /\ stopFlag = FALSE /\ collided = FALSE /\ handed = 0
  /\ thread \in Runs
  /\ stage = [r \in Runs |-> IF r = thread THEN "top" ELSE "none"]
  /\ inHand = [r \in Runs |-> 0]
  /\ step = [h \in Holders |-> "idle"]

\* notify_all(): it misses a thread that has tested its condition and not yet gone to sleep.
Woken == [r \in Runs |-> IF stage[r] = "asleep" THEN "test" ELSE stage[r]]

-----------------------------------------------------------------------------
(* update(), in the mutex, which a thread holds from its test to its sleep *)
(* ...                                                                     *)

Update ==
  /\ latest < MaxValue /\ \A r \in Runs : stage[r] # "doze"
  /\ latest' = latest + 1 /\ fresh' = TRUE /\ telling' = telling + 1
  /\ UNCHANGED <<threadVars, holderVars, handed>>

\* ... and after it.
Tell ==
  /\ telling > 0 /\ telling' = telling - 1
  /\ stage' = Woken
  /\ UNCHANGED <<latest, fresh, inHand, holderVars, handed>>

-----------------------------------------------------------------------------
(* worker_loop()                                                           *)

Is(r, p) == stage' = [stage EXCEPT ![r] = p]

Top(r) ==
  /\ stage[r] = "top"
  /\ Is(r, IF stopFlag THEN "ended" ELSE "test")
  /\ UNCHANGED <<valueVars, inHand, holderVars, handed>>

\* The worker ends, or takes the value, new or not, if there is one.
Taken(r) ==
  /\ IF stopFlag THEN Is(r, "ended") /\ UNCHANGED <<fresh, inHand>>
     ELSE /\ Is(r, IF latest = 0 THEN "top" ELSE "call")
          /\ inHand' = [inHand EXCEPT ![r] = latest] /\ fresh' = FALSE
  /\ UNCHANGED <<latest, telling, holderVars, handed>>

\* The predicate of the wait holds, or not ...
Ready(r) == stage[r] = "test" /\ (stopFlag \/ fresh) /\ Taken(r)

Doze(r) ==
  /\ stage[r] = "test" /\ ~(stopFlag \/ fresh)
  /\ Is(r, "doze")
  /\ UNCHANGED <<valueVars, inHand, holderVars, handed>>

Sleep(r) ==
  /\ stage[r] = "doze" /\ Is(r, "asleep")
  /\ UNCHANGED <<valueVars, inHand, holderVars, handed>>

\* ... and the deadline ends it anyway.
Late(r) == stage[r] = "asleep" /\ Taken(r)

Call(r) ==
  /\ stage[r] = "call" /\ Is(r, "top")
  /\ handed' = inHand[r] /\ inHand' = [inHand EXCEPT ![r] = 0]
  /\ UNCHANGED <<valueVars, holderVars>>

RunNext(r) == Top(r) \/ Ready(r) \/ Doze(r) \/ Sleep(r) \/ Late(r) \/ Call(r)

-----------------------------------------------------------------------------
(* stop() and resume(): whoever changes the flag goes on.                  *)

Holds(h, p) == step' = [step EXCEPT ![h] = p]

Stop(h) ==
  /\ step[h] = "idle" /\ ~stopFlag
  /\ stopFlag' = TRUE /\ Holds(h, "wake")
  /\ UNCHANGED <<valueVars, threadVars, thread, collided, handed>>

WakeAll(h) ==
  /\ step[h] \in {"wake", "tell"}
  /\ stage' = Woken
  /\ Holds(h, IF step[h] = "wake" THEN "join" ELSE "idle")
  /\ UNCHANGED <<valueVars, inHand, stopFlag, thread, collided, handed>>

\* Only a thread that is joinable is joined.
Join(h) ==
  /\ step[h] = "join" /\ Holds(h, "idle")
  /\ IF thread = None THEN UNCHANGED <<stage, thread>>
     ELSE stage[thread] = "ended" /\ Is(thread, "none") /\ thread' = None
  /\ UNCHANGED <<valueVars, inHand, stopFlag, collided, handed>>

Resume(h) ==
  /\ step[h] = "idle" /\ stopFlag
  /\ stopFlag' = FALSE /\ Holds(h, "spawn")
  /\ UNCHANGED <<valueVars, threadVars, thread, collided, handed>>

Spawn(h) ==
  /\ step[h] = "spawn" /\ Holds(h, "tell")
  /\ collided' = (thread # None)
  /\ IF thread # None THEN UNCHANGED <<stage, thread>>
     ELSE \E r \in Runs : stage[r] = "none" /\ Is(r, "top") /\ thread' = r
  /\ UNCHANGED <<valueVars, inHand, stopFlag, handed>>

HolderGoesOn(h) == WakeAll(h) \/ Join(h) \/ Spawn(h)

-----------------------------------------------------------------------------
Next ==
  /\ ~collided
  /\ \/ Update \/ Tell
     \/ \E r \in Runs : RunNext(r)
     \/ \E h \in Holders : Stop(h) \/ Resume(h) \/ HolderGoesOn(h)

Spec == Init /\ [][Next]_vars

\* A deadline passes, and what is begun goes on; callbacks return.
Fairness ==
  /\ WF_vars(Tell)
  /\ \A r \in Runs : WF_vars(RunNext(r))
  /\ \A h \in Holders : WF_vars(HolderGoesOn(h))

FairSpec == Spec /\ Fairness

-----------------------------------------------------------------------------
TypeOK ==
  /\ latest \in 0 .. MaxValue /\ fresh \in BOOLEAN /\ telling \in Nat
  /\ stopFlag \in BOOLEAN /\ thread \in Runs \cup {None} /\ collided \in BOOLEAN
  /\ stage \in [Runs -> {"none", "top", "test", "doze", "asleep", "call", "ended"}]
  /\ inHand \in [Runs -> 0 .. MaxValue] /\ handed \in 0 .. MaxValue
  /\ step \in [Holders -> {"idle", "wake", "join", "spawn", "tell"}]

\* A value that is given while the worker runs reaches the callback, or a later one does; one
\* that comes while it is stopped waits for resume().
LatestIsHanded ==
  \A v \in 1 .. MaxValue : latest = v /\ ~stopFlag ~> handed >= v \/ stopFlag

\* stop() returns, even though its notification may be missed: then the deadline ends the wait.
StopEnds == \A h \in Holders : step[h] = "join" ~> step[h] = "idle"

\* No value is handed over after a later one.
ValuesAscend == [][handed' >= handed]_handed
=============================================================================
