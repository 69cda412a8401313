----------------------------- MODULE ThreadPool -----------------------------
(***************************************************************************)
(* threadpool.h: tasks with a priority, worker threads that execute them,  *)
(* and the destructor.                                                     *)
(*                                                                         *)
(* m_mut_tasks is never held across a step: a wait() releases it.          *)
(***************************************************************************)
EXTENDS Integers

CONSTANTS
  Tasks,      \* each enqueued once, by a thread of its own
  Priority,   \* Priority[t]: the priority of task t
  Workers,    \* m_workers
  None        \* no task

VARIABLES
  task,       \* where each task is: "new", "made", "queued", "taken", "done"
              \*   or "lost" (still queued when the pool was destroyed)
  stamp,      \* its time stamp
  untold,     \* tasks that are queued but whose notify_one() is still to come
  open,       \* m_running
  worker,     \* of each worker: "top", "wait", "asleep", "run" or "ended"
  holds,      \* the task it has taken
  destructor  \* "idle", "notify", "join" or "done"

poolTasks   == <<task, stamp, untold>>
poolThreads == <<worker, holds>>
vars == <<poolTasks, poolThreads, open, destructor>>

Are(p) == {t \in Tasks : task[t] = p}

Init ==
  /\ task = [t \in Tasks |-> "new"] /\ stamp = [t \in Tasks |-> 0] /\ untold = {}
  /\ open = TRUE /\ destructor = "idle"
  /\ worker = [w \in Workers |-> "top"] /\ holds = [w \in Workers |-> None]

-----------------------------------------------------------------------------
(* A thread that enqueues.  Nobody enqueues once the destructor is called. *)

\* The clock shows a later time than at the last task, or still the same.
Make(t) ==
  /\ task[t] = "new" /\ destructor = "idle"
  /\ \E u \in Tasks, later \in {0, 1} :
        /\ \A v \in Tasks : stamp[v] <= stamp[u]
        /\ stamp' = [stamp EXCEPT ![t] = stamp[u] + later]
  /\ task' = [task EXCEPT ![t] = "made"]
  /\ UNCHANGED <<untold, poolThreads, open, destructor>>

Enqueue(t) ==
  /\ task[t] = "made"
  /\ task' = [task EXCEPT ![t] = "queued"] /\ untold' = untold \cup {t}
  /\ UNCHANGED <<stamp, poolThreads, open, destructor>>

\* notify_one()
NotifyOne(t) ==
  /\ t \in untold /\ untold' = untold \ {t}
  /\ LET asleep == {w \in Workers : worker[w] = "asleep"}
     IN  IF asleep = {} THEN UNCHANGED worker
         ELSE \E w \in asleep : worker' = [worker EXCEPT ![w] = "wait"]
  /\ UNCHANGED <<task, stamp, holds, open, destructor>>

-----------------------------------------------------------------------------
(* A worker.                                                               *)

Becomes(w, p) == worker' = [worker EXCEPT ![w] = p]

Top(w) ==
  /\ worker[w] = "top"
  /\ Becomes(w, IF open THEN "wait" ELSE "ended")
  /\ UNCHANGED <<poolTasks, holds, open, destructor>>

Sleep(w) ==
  /\ worker[w] = "wait" /\ open /\ Are("queued") = {}
  /\ Becomes(w, "asleep")
  /\ UNCHANGED <<poolTasks, holds, open, destructor>>

Leave(w) ==
  /\ worker[w] = "wait" /\ ~open
  /\ Becomes(w, "ended")
  /\ UNCHANGED <<poolTasks, holds, open, destructor>>

\* Task::operator<: t comes before u in the queue.  The highest number is first.
Before(t, u) ==
  \/ Priority[t] > Priority[u]
  \/ Priority[t] = Priority[u] /\ stamp[t] < stamp[u]

Take(w, t) ==
  /\ worker[w] = "wait" /\ open /\ t \in Are("queued")
  /\ ~\E u \in Are("queued") : Before(u, t)
  /\ task' = [task EXCEPT ![t] = "taken"] /\ holds' = [holds EXCEPT ![w] = t]
  /\ Becomes(w, "run")
  /\ UNCHANGED <<stamp, untold, open, destructor>>

Run(w) ==
  /\ worker[w] = "run"
  /\ task' = [task EXCEPT ![holds[w]] = "done"] /\ holds' = [holds EXCEPT ![w] = None]
  /\ Becomes(w, "top")
  /\ UNCHANGED <<stamp, untold, open, destructor>>

Spurious(w) == worker[w] = "asleep" /\ Becomes(w, "wait")
               /\ UNCHANGED <<poolTasks, holds, open, destructor>>

WorkerNext(w) == Top(w) \/ Sleep(w) \/ Leave(w) \/ Run(w) \/ \E t \in Tasks : Take(w, t)

-----------------------------------------------------------------------------
(* The destructor.  No enqueue() is under way then.                        *)

Shut ==
  /\ destructor = "idle" /\ Are("made") = {} /\ untold = {}
  /\ open' = FALSE /\ destructor' = "notify"
  /\ UNCHANGED <<poolTasks, poolThreads>>

NotifyAll ==
  /\ destructor = "notify" /\ destructor' = "join"
  /\ worker' = [w \in Workers |-> IF worker[w] = "asleep" THEN "wait" ELSE worker[w]]
  /\ UNCHANGED <<poolTasks, holds, open>>

\* All joined, the queue is destroyed with what is in it.
Join ==
  /\ destructor = "join" /\ \A w \in Workers : worker[w] = "ended"
  /\ destructor' = "done"
  /\ task' = [t \in Tasks |-> IF task[t] = "queued" THEN "lost" ELSE task[t]]
  /\ UNCHANGED <<stamp, untold, poolThreads, open>>

-----------------------------------------------------------------------------
Next ==
  \/ \E t \in Tasks : Make(t) \/ Enqueue(t) \/ NotifyOne(t)
  \/ \E w \in Workers : WorkerNext(w) \/ Spurious(w)
  \/ Shut \/ NotifyAll \/ Join

Spec == Init /\ [][Next]_vars

\* An enqueue() and a destructor go on, and so does a worker; tasks return.
Fairness ==
  /\ \A t \in Tasks : WF_vars(Enqueue(t)) /\ WF_vars(NotifyOne(t))
  /\ \A w \in Workers : WF_vars(WorkerNext(w))
  /\ WF_vars(NotifyAll) /\ WF_vars(Join)

FairSpec == Spec /\ Fairness

-----------------------------------------------------------------------------
TypeOK ==
  /\ task \in [Tasks -> {"new", "made", "queued", "taken", "done", "lost"}]
  /\ stamp \in [Tasks -> Nat] /\ untold \subseteq Tasks
  /\ open \in BOOLEAN
  /\ worker \in [Workers -> {"top", "wait", "asleep", "run", "ended"}]
  /\ holds \in [Workers -> Tasks \cup {None}]
  /\ destructor \in {"idle", "notify", "join", "done"}

\* A task is executed, by whichever worker, unless the pool is destroyed first.
TasksRun == \A t \in Tasks : task[t] = "queued" ~> task[t] = "done" \/ ~open

\* The destructor returns, wherever the workers are when it is called.
DestructorReturns == destructor = "notify" ~> destructor = "done"
=============================================================================
