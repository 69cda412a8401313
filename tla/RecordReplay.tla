---------------------------- MODULE RecordReplay ----------------------------
(***************************************************************************)
(* The record and replay modes of gnss_controller, over the lifecycle      *)
(* commands they interleave with.  Each command holds cmd_mutex_ and goes  *)
(* through the receivers one by one; between two of its steps the workers  *)
(* go on: they read their port, write what they read to the record file    *)
(* their parser was given ("tap"), or give up.                             *)
(*                                                                         *)
(* The receivers are those of module Receiver with "alive" for a worker    *)
(* that has not finished: running_ is true just then, outside of stop().   *)
(***************************************************************************)
EXTENDS Integers, Sequences

CONSTANTS
  N,           \* number of receivers
  Files,       \* record files (file_port objects)
  None,        \* no file, no configuration
  MaxPorts     \* bound on the length of record_ports_

ASSUME RecordAssumption ==
  /\ N \in Nat \ {0} /\ MaxPorts \in Nat
  /\ None \notin Files \cup {"live", "file"}

Receivers == 1..N

VARIABLES
  recv,           \* the receivers
  command,        \* the command that holds cmd_mutex_
  at,             \* the receiver it has come to
  stage,          \* how far it is with that receiver: "first" or "second"
  file,           \* the record file start_record() has just opened
  recordActive, recordPorts,   \* record_active_, record_ports_
  replayActive, saved,         \* replay_active_; which of replay_saved_ports_
                               \*   (and of replay_ports_) are not null
  anyStarted,     \* any_started
  openFiles,      \* the record files that nobody has closed
  faulted         \* history: has an exception left start_record() or
                  \*   start_replay() half-way?

progress == <<command, at, stage, file>>
modes    == <<recordActive, recordPorts, replayActive, saved, anyStarted>>
vars     == <<recv, progress, modes, openFiles, faulted>>

Commands == {"init", "start", "stop", "terminate",
             "start_record", "stop_record", "start_replay", "stop_replay"}

Init ==
  /\ recv = [i \in Receivers |->
       [state |-> "idle", alive |-> FALSE, port |-> "live", config |-> None,
        callback |-> None, tap |-> None]]
  /\ command = "none" /\ at = 1 /\ stage = "first" /\ file = None
  /\ recordActive = FALSE /\ recordPorts = <<>>
  /\ replayActive = FALSE /\ saved = <<>> /\ anyStarted = FALSE
  /\ openFiles = {} /\ faulted = FALSE

-----------------------------------------------------------------------------
(* What the operations of a receiver make of it.                           *)

Stopped(r) ==
  IF r.state = "running"
  THEN [r EXCEPT !.state = "initialized", !.alive = FALSE, !.tap = None]
  ELSE r

\* Every start() builds a parser with the current raw_msg_cb_.
Started(r) ==
  IF r.state = "initialized"
  THEN [r EXCEPT !.state = "running", !.alive = TRUE, !.tap = r.callback]
  ELSE r

Terminated(r) == [Stopped(r) EXCEPT !.state = "idle"]

\* set_port() is ignored unless the receiver is idle.
WithPort(r, p) == IF r.state = "idle" THEN [r EXCEPT !.port = p] ELSE r

\* An operator named Bug... is a slip the code does not make; the checks put it
\* in the place of a definition below it, to see which property notices.

\* Bug: config_ is assigned before the port is asked.
BugInitialized(r, cfg) ==
  {[r EXCEPT !.config = cfg,
             !.state = IF r.state = "idle" THEN "initialized" ELSE r.state] :
     p \in {cfg} \cap {r.port}} \cup {[r EXCEPT !.config = cfg]}

\* init() may fail, and a port rejects a configuration that is not of its kind.
Initialized(r, cfg) ==
  {[r EXCEPT !.config = cfg,
             !.state = IF r.state = "idle" THEN "initialized" ELSE r.state] :
     p \in {cfg} \cap {r.port}} \cup {r}

\* Bug: a running parser is left with the callback it was built with.
BugRewired(r, cb) == [r EXCEPT !.callback = cb]

\* The stop/start cycle that gives the parser another callback.
Rewired(r, cb) ==
  IF r.alive THEN Started([Stopped(r) EXCEPT !.callback = cb])
             ELSE [r EXCEPT !.callback = cb]

-----------------------------------------------------------------------------
(* Commands.                                                               *)

\* A command takes cmd_mutex_, unless it refuses at once.  The stop() with
\* which terminate() begins is a command of its own: it releases cmd_mutex_.
Call(c) ==
  /\ command = "none"
  /\ c = "start_record" => ~recordActive /\ ~replayActive /\ Len(recordPorts) + N <= MaxPorts
  /\ c = "stop_record"  => recordActive
  /\ c = "start_replay" => ~recordActive /\ ~replayActive
  /\ c = "stop_replay"  => replayActive
  /\ command' = c /\ at' = 1 /\ stage' = "first" /\ anyStarted' = FALSE
  /\ saved' = IF c = "start_replay" THEN <<>> ELSE saved
  /\ UNCHANGED <<recv, file, recordActive, recordPorts, replayActive, openFiles, faulted>>

Return == command' = "none" /\ at' = 1 /\ stage' = "first" /\ file' = None

\* Goes on to the next receiver.
NextReceiver == at' = at + 1 /\ stage' = "first" /\ file' = None /\ UNCHANGED command

Done(c) == command = c /\ at = N + 1
Busy(c) == command = c /\ at <= N

\* init(), start(), stop() and terminate() for one receiver after the other; a
\* failure does not keep the rest from being tried.
LifecycleStep ==
  /\ \/ Busy("init") /\ \E r \in Initialized(recv[at], "live") : recv' = [recv EXCEPT ![at] = r]
     \/ Busy("start") /\ recv' = [recv EXCEPT ![at] = Started(@)]
     \/ Busy("stop") /\ recv' = [recv EXCEPT ![at] = Stopped(@)]
     \/ Busy("terminate") /\ recv' = [recv EXCEPT ![at] = Terminated(@)]
  /\ NextReceiver
  /\ UNCHANGED <<modes, openFiles, faulted>>

LifecycleDone ==
  /\ \E c \in {"init", "start", "stop", "terminate"} : Done(c)
  /\ Return
  /\ UNCHANGED <<recv, modes, openFiles, faulted>>

\* file_port::open() throws when the file cannot be opened, and nothing between
\* here and the application catches that.
OpenThrows ==
  /\ Busy("start_record") \/ Busy("start_replay")
  /\ stage = "first"
  /\ Return /\ faulted' = TRUE
  /\ UNCHANGED <<recv, modes, openFiles>>

\* Files that a callback, a parser or record_ports_ holds.
Held == {recv[i].callback : i \in Receivers} \cup {recv[i].tap : i \in Receivers}
          \cup {recordPorts[k] : k \in DOMAIN recordPorts}

\* start_record(): open a file for the next receiver ...
OpenRecord ==
  /\ Busy("start_record") /\ stage = "first"
  /\ \E f \in Files \ Held : file' = f /\ openFiles' = openFiles \cup {f}
  /\ stage' = "second"
  /\ UNCHANGED <<recv, command, at, modes, faulted>>

\* ... and hand it to the receiver.
Tap ==
  /\ Busy("start_record") /\ stage = "second"
  /\ recv' = [recv EXCEPT ![at] = Rewired(@, file)]
  /\ recordPorts' = Append(recordPorts, file) /\ anyStarted' = TRUE
  /\ NextReceiver
  /\ UNCHANGED <<recordActive, replayActive, saved, openFiles, faulted>>

StartRecordDone ==
  /\ Done("start_record") /\ anyStarted
  /\ recordActive' = TRUE
  /\ Return
  /\ UNCHANGED <<recv, recordPorts, replayActive, saved, anyStarted, openFiles, faulted>>

\* stop_record(): take the callback away ...
Untap ==
  /\ Busy("stop_record") /\ stage = "first"
  /\ recv' = [recv EXCEPT ![at] = Rewired(@, None)]
  /\ stage' = "second"
  /\ UNCHANGED <<command, at, file, modes, openFiles, faulted>>

\* ... and close the file at the receiver's place in record_ports_.
CloseRecord ==
  /\ Busy("stop_record") /\ stage = "second"
  /\ openFiles' = openFiles \ {recordPorts[at]}
  /\ NextReceiver
  /\ UNCHANGED <<recv, modes, faulted>>

StopRecordDone ==
  /\ Done("stop_record")
  /\ recordActive' = FALSE /\ recordPorts' = <<>>
  /\ Return
  /\ UNCHANGED <<recv, replayActive, saved, anyStarted, openFiles, faulted>>

\* start_replay(): open the replay file ...
OpenReplay ==
  /\ Busy("start_replay") /\ stage = "first"
  /\ stage' = "second"
  /\ UNCHANGED <<recv, command, at, file, modes, openFiles, faulted>>

\* Bug: a receiver whose replay file cannot be initialized keeps the file's port.
BugSwitch ==
  /\ Busy("start_replay") /\ stage = "second"
  /\ LET r == WithPort(Terminated(recv[at]), "file")
     IN  \E s \in Initialized(r, "file") :
           /\ recv' = [recv EXCEPT ![at] = Started(s)]
           /\ saved' = Append(saved, s # r) /\ anyStarted' = (anyStarted \/ s # r)
  /\ NextReceiver
  /\ UNCHANGED <<recordActive, recordPorts, replayActive, openFiles, faulted>>

\* ... and switch the receiver to it; back to its own port, and nothing more,
\* when it cannot be initialized with the file.
Switch ==
  /\ Busy("start_replay") /\ stage = "second"
  /\ LET r == WithPort(Terminated(recv[at]), "file")
     IN  \E s \in Initialized(r, "file") :
           /\ recv' = [recv EXCEPT ![at] = IF s = r THEN WithPort(r, "live") ELSE Started(s)]
           /\ saved' = Append(saved, s # r) /\ anyStarted' = (anyStarted \/ s # r)
  /\ NextReceiver
  /\ UNCHANGED <<recordActive, recordPorts, replayActive, openFiles, faulted>>

\* Without a single success there is nothing in saved to restore.
StartReplayDone ==
  /\ Done("start_replay")
  /\ replayActive' = anyStarted
  /\ saved' = IF anyStarted THEN saved ELSE <<>>
  /\ Return
  /\ UNCHANGED <<recv, recordActive, recordPorts, anyStarted, openFiles, faulted>>

\* stop_replay(): terminate, and restore what was saved.
Restore ==
  /\ Busy("stop_replay")
  /\ LET r == Terminated(recv[at])
     IN  \/ /\ saved[at]
            /\ \E s \in Initialized(WithPort(r, "live"), "live") :
                 recv' = [recv EXCEPT ![at] = Started(s)]
         \/ ~saved[at] /\ recv' = [recv EXCEPT ![at] = r]
  /\ NextReceiver
  /\ UNCHANGED <<modes, openFiles, faulted>>

StopReplayDone ==
  /\ Done("stop_replay")
  /\ replayActive' = FALSE /\ saved' = <<>>
  /\ Return
  /\ UNCHANGED <<recv, recordActive, recordPorts, anyStarted, openFiles, faulted>>

\* A worker gives up.
GiveUp(i) ==
  /\ recv[i].alive
  /\ recv' = [recv EXCEPT ![i].alive = FALSE]
  /\ UNCHANGED <<progress, modes, openFiles, faulted>>

Next ==
  \/ \E c \in Commands : Call(c)
  \/ LifecycleStep \/ LifecycleDone \/ OpenThrows
  \/ OpenRecord \/ Tap \/ StartRecordDone
  \/ Untap \/ CloseRecord \/ StopRecordDone
  \/ OpenReplay \/ Switch \/ StartReplayDone
  \/ Restore \/ StopReplayDone
  \/ \E i \in Receivers : GiveUp(i)

Spec == Init /\ [][Next]_vars

-----------------------------------------------------------------------------
(* Properties.                                                             *)

\* A worker never writes to a record file that stop_record() has closed, which
\* would throw in the worker thread; not even when exceptions have left files
\* of earlier attempts in record_ports_, so that indices no longer match.
TapHasFile ==
  \A i \in Receivers : recv[i].alive /\ recv[i].tap # None => recv[i].tap \in openFiles

\* While recording is on, each worker writes to a file of its own, however the
\* receivers are stopped, started and terminated meanwhile.
RecordsWhileOn ==
  recordActive /\ command # "stop_record" =>
    \A i \in Receivers : recv[i].alive =>
      /\ recv[i].tap \in openFiles
      /\ \A j \in Receivers \ {i} : recv[j].tap # recv[i].tap

\* While recording is off no worker records, unless start_record() has thrown;
\* in particular the file that is being replayed is not written to.
QuietWhileOff ==
  command # "start_record" /\ ~recordActive /\ ~faulted =>
    \A i \in Receivers : recv[i].alive => recv[i].tap = None

\* What the workers record follows the mode the controller reports, into files that are open.
RecordingFollowsTheMode == TapHasFile /\ RecordsWhileOn /\ QuietWhileOff

\* The configuration a worker would reopen its port with is one the port takes:
\* set_port() and init() are never taken apart by another command.
ConfigFitsPort ==
  \A i \in Receivers : recv[i].state # "idle" => recv[i].config = recv[i].port

\* When stop_replay() has returned every receiver has its own port again, also
\* if an earlier start_replay() has thrown half-way.
StopReplayRestores ==
  [][StopReplayDone => \A i \in Receivers : recv[i].port = "live"]_vars

=============================================================================
