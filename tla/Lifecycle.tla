----------------------------- MODULE Lifecycle ------------------------------
(***************************************************************************)
(* What a receiver promises its user (the state machine drawn in           *)
(* gnss_receiver.h): a reader thread is created only by start() and lives  *)
(* only in the running phase; a port is open only between init() and       *)
(* terminate(); stop() returns when the thread has finished.               *)
(***************************************************************************)

VARIABLES
  phase,     \* "idle", "initialized" or "running"
  thread,    \* "none", "alive" or "finished"
  open       \* is the port open?

vars == <<phase, thread, open>>

Init == phase = "idle" /\ thread = "none" /\ open = FALSE

\* init() has two visible effects: the port opens, the phase advances; on a
\* failure the port is left closed.
OpenPort == open' \in BOOLEAN /\ UNCHANGED <<phase, thread>>

Initialize == phase = "idle" /\ phase' = "initialized" /\ UNCHANGED <<thread, open>>

StartReader ==
  /\ phase = "initialized" /\ phase' = "running" /\ thread' = "alive"
  /\ UNCHANGED open

ReaderFinishes ==
  thread = "alive" /\ thread' = "finished" /\ UNCHANGED <<phase, open>>

StopReader ==
  /\ phase = "running" /\ thread = "finished"
  /\ phase' = "initialized" /\ thread' = "none"
  /\ UNCHANGED open

Terminate ==
  /\ phase = "initialized" /\ phase' = "idle" /\ open' = FALSE
  /\ UNCHANGED thread

Next ==
  OpenPort \/ Initialize \/ StartReader \/ ReaderFinishes \/ StopReader \/ Terminate

Spec == Init /\ [][Next]_vars

=============================================================================
