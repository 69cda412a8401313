------------------------------ MODULE FdEvents ------------------------------
(***************************************************************************)
(* fd_event::fd_event_manager of libevent.h: a table of descriptors, the   *)
(* array that poll() is given, which is made of the table again only when  *)
(* the table has changed, one thread that waits and processes, and others  *)
(* that change the table.  What a callback is and does is left out.        *)
(*                                                                         *)
(* mutex_ is held while poll() waits and while callbacks run.              *)
(***************************************************************************)
EXTENDS Integers, FiniteSets

CONSTANTS
  Fds,        \* descriptors, which are numbers
  Masks,      \* sets of events a caller may ask for
  None        \* not in the table, not in the array

Kinds   == UNION Masks \cup {"error"}
Entries == [events: Masks, enabled: BOOLEAN]
Polled  == [events: Masks, revents: SUBSET Kinds]

VARIABLES
  fdMap,      \* fd_map_
  pollFds,    \* poll_fds_ and poll_fd_map_, by descriptor
  modified,   \* modified_
  phase,      \* the waiting thread: "idle", "poll", "between" (wait() and
              \*   process_events()) or "process"
  todo        \* descriptors process_events() has still to look at

tables == <<fdMap, pollFds, modified>>
loop   == <<phase, todo>>
vars == <<tables, loop>>

Init ==
  /\ fdMap = [d \in Fds |-> None] /\ pollFds = [d \in Fds |-> None] /\ modified = FALSE
  /\ phase = "idle" /\ todo = {}

\* mutex_ is free.
Free == phase \in {"idle", "between"}

-----------------------------------------------------------------------------
(* The threads that change the table.  A descriptor that is not there is   *)
(* refused, and one that is there cannot be added.                         *)

Table(d, entry) ==
  /\ Free
  /\ fdMap' = [fdMap EXCEPT ![d] = entry] /\ modified' = TRUE
  /\ UNCHANGED <<pollFds, loop>>

AddFd(d) ==
  /\ fdMap[d] = None
  /\ \E e \in Masks : Table(d, [events |-> e, enabled |-> TRUE])

RemoveFd(d) == fdMap[d] # None /\ Table(d, None)

EnableFd(d) ==
  /\ fdMap[d] # None /\ ~fdMap[d].enabled
  /\ Table(d, [fdMap[d] EXCEPT !.enabled = TRUE])

\* Bug: the array is not made anew.
BugDisableFd(d) ==
  /\ fdMap[d] # None /\ fdMap[d].enabled /\ Free
  /\ fdMap' = [fdMap EXCEPT ![d].enabled = FALSE]
  /\ UNCHANGED <<pollFds, modified, loop>>

DisableFd(d) ==
  /\ fdMap[d] # None /\ fdMap[d].enabled
  /\ Table(d, [fdMap[d] EXCEPT !.enabled = FALSE])

ModifyEvents(d) ==
  /\ fdMap[d] # None
  /\ \E e \in Masks : Table(d, [fdMap[d] EXCEPT !.events = e])

\* The array goes with the table: nothing is left to make anew.
Clear ==
  /\ Free
  /\ fdMap' = [d \in Fds |-> None] /\ pollFds' = [d \in Fds |-> None] /\ modified' = FALSE
  /\ UNCHANGED <<loop>>

Change(d) ==
  AddFd(d) \/ RemoveFd(d) \/ EnableFd(d) \/ DisableFd(d) \/ ModifyEvents(d)

-----------------------------------------------------------------------------
(* wait_and_process()                                                      *)

\* rebuild_poll_fds()
Rebuilt ==
  [d \in Fds |->
     IF fdMap[d] # None /\ fdMap[d].enabled
     THEN [events |-> fdMap[d].events, revents |-> {}] ELSE None]

\* With no descriptor to wait for it returns at once.
Wait ==
  /\ phase = "idle"
  /\ pollFds' = (IF modified THEN Rebuilt ELSE pollFds) /\ modified' = FALSE
  /\ phase' = (IF \A d \in Fds : pollFds'[d] = None THEN "idle" ELSE "poll")
  /\ UNCHANGED <<fdMap, todo>>

\* What the kernel may report: errors whether they are asked for or not.
Reports(d) == SUBSET (pollFds[d].events \cup {"error"})

\* poll() returns events ...
PollReturns ==
  /\ phase = "poll" /\ phase' = "between"
  /\ \E got \in [Fds -> SUBSET Kinds] :
        /\ \A d \in Fds : pollFds[d] # None => got[d] \in Reports(d)
        /\ \E d \in Fds : pollFds[d] # None /\ got[d] # {}
        /\ pollFds' = [d \in Fds |-> IF pollFds[d] = None THEN None
                                     ELSE [pollFds[d] EXCEPT !.revents = got[d]]]
  /\ UNCHANGED <<fdMap, modified, todo>>

\* ... or nothing, by the timeout or an error.
PollEnds ==
  /\ phase = "poll" /\ phase' = "idle"
  /\ UNCHANGED <<tables, todo>>

Reported == {d \in Fds : pollFds[d] # None /\ pollFds[d].revents # {}}

\* process_events() begins; the table may have changed since.
Process ==
  /\ phase = "between"
  /\ phase' = (IF Reported = {} THEN "idle" ELSE "process") /\ todo' = Reported
  /\ UNCHANGED <<tables>>

\* In the order of the array, which is that of the descriptors.  The callback is the one the
\* table has now, if the descriptor is still there.
Dispatch(d) ==
  /\ phase = "process" /\ d \in todo /\ \A e \in todo : d <= e
  /\ pollFds' = [pollFds EXCEPT ![d].revents = {}]
  /\ todo' = todo \ {d} /\ phase' = (IF todo' = {} THEN "idle" ELSE "process")
  /\ UNCHANGED <<fdMap, modified>>

-----------------------------------------------------------------------------
Next ==
  \/ \E d \in Fds : Change(d) \/ Dispatch(d)
  \/ Clear \/ Wait \/ PollReturns \/ PollEnds \/ Process

Spec == Init /\ [][Next]_vars

-----------------------------------------------------------------------------
TypeOK ==
  /\ fdMap \in [Fds -> Entries \cup {None}] /\ pollFds \in [Fds -> Polled \cup {None}]
  /\ modified \in BOOLEAN /\ phase \in {"idle", "poll", "between", "process"}
  /\ todo \subseteq Fds

\* Whatever the table went through, with changes between a wait() and its process_events()
\* among them: poll() waits for exactly the descriptors that are enabled and for the events
\* asked for last.  And no event of an earlier wait is left in the array, to be reported again.
PollIsCurrent ==
  phase = "poll" =>
    pollFds = [d \in Fds |-> IF fdMap[d] # None /\ fdMap[d].enabled
                             THEN [events |-> fdMap[d].events, revents |-> {}] ELSE None]
=============================================================================
