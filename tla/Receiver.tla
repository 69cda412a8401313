------------------------------ MODULE Receiver ------------------------------
(***************************************************************************)
(* gnss_receiver: one UART/file port, one reader worker thread, and the    *)
(* control threads that drive the receiver through gnss_controller.        *)
(*                                                                         *)
(* A control thread runs init(), start(), stop() or terminate() while it   *)
(* holds gnss_controller::cmd_mutex_ ("cmd"); inside, the operations take  *)
(* gnss_receiver::state_mutex_ ("lock") for the sections the code guards.  *)
(* The worker takes neither: it shares running_, config_, the parser and   *)
(* the port with the control threads, and every one of its accesses is a   *)
(* step of its own.  The port serialises each of its calls by its own      *)
(* mutex, so a port call is one step.                                      *)
(***************************************************************************)
EXTENDS Integers

CONSTANTS
  Callers,      \* control threads
  Configs,      \* port configurations init() may be given
  Fds,          \* descriptors the operating system may hand out
  None,         \* no thread, no configuration, an invalid (-1) descriptor
  MaxRetries    \* UART_MAX_RECONFIGURE_RETRIES

ASSUME ReceiverAssumption ==
  /\ None \notin Callers \cup Configs \cup Fds
  /\ Configs # {} /\ Fds # {}
  /\ MaxRetries \in Nat \ {0}

VARIABLES
  cmd,       \* owner of gnss_controller::cmd_mutex_
  lock,      \* owner of gnss_receiver::state_mutex_
  pc,        \* where each control thread is
  goal,      \* the operation stop() runs on behalf of: "stop" or "terminate"
  arg,       \* the config argument of a control thread's init()
  state,     \* state_
  running,   \* running_
  parser,    \* ubx_parser_ is not null
  config,    \* config_
  fd,        \* the port's fd_
  portCfg,   \* the configuration the open port was opened with
  worker,    \* where worker_loop() is; "none": worker_thread_ not joinable
  cur,       \* current_fd, the descriptor registered for polling
  wcfg,      \* the config_ the worker is reconfiguring the port with
  fails,     \* reconfigure_fail_count
  device,    \* is the device behind the port present?
  crashed    \* std::terminate was called

callerVars == <<cmd, lock, pc, goal, arg>>
recvVars   == <<state, running, parser, config>>
portVars   == <<fd, portCfg>>
workVars   == <<worker, cur, wcfg, fails>>
vars == <<callerVars, recvVars, portVars, workVars, device, crashed>>

CallerPCs == {"idle", "init", "commit", "start", "stop", "join", "finish", "close"}
WorkerPCs == {"none", "top", "poll", "avail", "read", "feed",
              "reconf", "reopen", "check", "exit", "exited"}
Live      == WorkerPCs \ {"none", "exited"}

Init ==
  /\ cmd = None /\ lock = None
  /\ pc = [c \in Callers |-> "idle"]
  /\ goal = [c \in Callers |-> "stop"]
  /\ arg = [c \in Callers |-> None]
  /\ state = "idle" /\ running = FALSE /\ parser = FALSE /\ config = None
  /\ fd = None /\ portCfg = None
  /\ worker = "none" /\ cur = None /\ wcfg = None /\ fails = 0
  /\ device \in {"up", "down"} /\ crashed = FALSE

-----------------------------------------------------------------------------
(* The port: open() and reconfigure() close the old descriptor and open a  *)
(* new one; opening throws, and leaves the port closed, when the device is *)
(* absent.                                                                 *)

\* An operator named Bug... is a slip the code does not make; the checks put it
\* in the place of a definition below it, to see which property notices.

\* Bug: a port whose termios settings cannot be applied is left open.
BugReopenFails == device = "down" /\ fd' \in Fds /\ portCfg' = None

ReopenOk(cfg) == device = "up" /\ fd' \in Fds /\ portCfg' = cfg
ReopenFails   == device = "down" /\ fd' = None /\ portCfg' = None

-----------------------------------------------------------------------------
(* Control threads.                                                        *)

\* A control thread enters one of the commands.
Enter(c) ==
  /\ pc[c] = "idle"
  /\ \/ /\ \E cfg \in Configs : arg' = [arg EXCEPT ![c] = cfg]
        /\ pc' = [pc EXCEPT ![c] = "init"]
        /\ UNCHANGED goal
     \/ /\ pc' = [pc EXCEPT ![c] = "start"]
        /\ UNCHANGED <<goal, arg>>
     \/ /\ \E g \in {"stop", "terminate"} : goal' = [goal EXCEPT ![c] = g]
        /\ pc' = [pc EXCEPT ![c] = "stop"]
        /\ UNCHANGED arg
  /\ UNCHANGED <<lock, recvVars, portVars, workVars, device, crashed>>

\* A command takes cmd_mutex_; the mutex is released when it returns.
Call(c) == cmd = None /\ cmd' = c /\ Enter(c)

Return(c) ==
  /\ pc' = [pc EXCEPT ![c] = "idle"]
  /\ goal' = [goal EXCEPT ![c] = "stop"]
  /\ arg' = [arg EXCEPT ![c] = None]
  /\ cmd' = None

\* init(): opens the port, or reconfigures it when it is already open.  A
\* failure changes neither state_ nor config_.
InitPort(c) ==
  /\ pc[c] = "init" /\ lock = None
  /\ \/ /\ ReopenOk(arg[c])
        /\ lock' = c
        /\ pc' = [pc EXCEPT ![c] = "commit"]
        /\ UNCHANGED <<cmd, goal, arg>>
     \/ ReopenFails /\ Return(c) /\ UNCHANGED lock
  /\ UNCHANGED <<recvVars, workVars, device, crashed>>

\* ... and then stores config_, still under state_mutex_.
InitCommit(c) ==
  /\ pc[c] = "commit"
  /\ config' = arg[c]
  /\ state' = IF state = "idle" THEN "initialized" ELSE state
  /\ lock' = None
  /\ Return(c)
  /\ UNCHANGED <<running, parser, portVars, workVars, device, crashed>>

\* Bug: start() does not ask for an initialized receiver.
BugStart(c) ==
  /\ pc[c] = "start" /\ lock = None
  /\ parser' = TRUE /\ running' = TRUE /\ state' = "running"
  /\ worker' = "top" /\ cur' = None /\ wcfg' = None /\ fails' = 0
  /\ Return(c)
  /\ UNCHANGED <<lock, config, portVars, device, crashed>>

\* start(): a fresh parser, running_, and a worker with fresh locals.
Start(c) ==
  /\ pc[c] = "start" /\ lock = None
  /\ IF state = "initialized"
     THEN /\ parser' = TRUE /\ running' = TRUE /\ state' = "running"
          /\ worker' = "top" /\ cur' = None /\ wcfg' = None /\ fails' = 0
     ELSE UNCHANGED <<parser, running, state, workVars>>
  /\ Return(c)
  /\ UNCHANGED <<lock, config, portVars, device, crashed>>

\* Bug: stop() does not tell the worker.
BugStopSignal(c) ==
  /\ pc[c] = "stop" /\ lock = None
  /\ \/ state = "running" /\ pc' = [pc EXCEPT ![c] = "join"]
        /\ UNCHANGED <<cmd, goal, arg>>
     \/ state # "running" /\ Return(c)
  /\ UNCHANGED <<lock, recvVars, portVars, workVars, device, crashed>>

\* stop(), first section: nothing to do unless running, else signal the worker.
StopSignal(c) ==
  /\ pc[c] = "stop" /\ lock = None
  /\ \/ /\ state = "running"
        /\ running' = FALSE
        /\ pc' = [pc EXCEPT ![c] = "join"]
        /\ UNCHANGED <<cmd, goal, arg>>
     \/ /\ state # "running" /\ goal[c] = "terminate"
        /\ pc' = [pc EXCEPT ![c] = "close"]
        /\ UNCHANGED <<cmd, goal, arg, running>>
     \/ state # "running" /\ goal[c] = "stop" /\ Return(c) /\ UNCHANGED running
  /\ UNCHANGED <<lock, state, parser, config, portVars, workVars, device, crashed>>

\* Bug: stop() goes on without waiting.
BugStopJoin(c) ==
  /\ pc[c] = "join"
  /\ pc' = [pc EXCEPT ![c] = "finish"]
  /\ UNCHANGED <<cmd, lock, goal, arg, recvVars, portVars, workVars, device, crashed>>

\* stop() waits for the worker without holding state_mutex_.
StopJoin(c) ==
  /\ pc[c] = "join" /\ worker \in {"exited", "none"}
  /\ worker' = "none"
  /\ pc' = [pc EXCEPT ![c] = "finish"]
  /\ UNCHANGED <<cmd, lock, goal, arg, recvVars, portVars, cur, wcfg, fails,
                 device, crashed>>

\* stop(), last section: destroy the parser, back to initialized.
StopFinish(c) ==
  /\ pc[c] = "finish" /\ lock = None
  /\ parser' = FALSE /\ state' = "initialized"
  /\ \/ /\ goal[c] = "terminate"
        /\ pc' = [pc EXCEPT ![c] = "close"]
        /\ UNCHANGED <<cmd, goal, arg>>
     \/ goal[c] = "stop" /\ Return(c)
  /\ UNCHANGED <<lock, running, config, portVars, workVars, device, crashed>>

\* terminate() after its stop(): close the port.
Close(c) ==
  /\ pc[c] = "close" /\ lock = None
  /\ IF state = "initialized"
     THEN fd' = None /\ portCfg' = None /\ state' = "idle"
     ELSE UNCHANGED <<portVars, state>>
  /\ Return(c)
  /\ UNCHANGED <<lock, running, parser, config, workVars, device, crashed>>

CallerStep(c) ==
  InitPort(c) \/ InitCommit(c) \/ Start(c) \/ StopSignal(c) \/ StopJoin(c)
    \/ StopFinish(c) \/ Close(c)

-----------------------------------------------------------------------------
(* The worker.                                                             *)

WorkerGoto(to) ==
  /\ worker' = to
  /\ UNCHANGED <<callerVars, recvVars, portVars, cur, wcfg, fails, device, crashed>>

\* Bug: the loop polls again, instead of reconfiguring, without a descriptor.
BugWorkerTop ==
  /\ worker = "top"
  /\ worker' = IF ~running THEN "exit" ELSE "poll"
  /\ cur' = fd
  /\ UNCHANGED <<callerVars, recvVars, portVars, wcfg, fails, device, crashed>>

\* Loop condition and get_fd(): leave, reconfigure, or (re)register and poll.
WorkerTop ==
  /\ worker = "top"
  /\ worker' = CASE ~running           -> "exit"
                 [] running /\ fd = None -> "reconf"
                 [] OTHER              -> "poll"
  /\ cur' = IF running /\ fd # None THEN fd ELSE cur
  /\ UNCHANGED <<callerVars, recvVars, portVars, wcfg, fails, device, crashed>>

\* wait_and_process() returned 0: one second without data.
PollTimeout == worker = "poll" /\ WorkerGoto("top")

\* poll() failed, or reported POLLERR/POLLHUP/POLLNVAL on the registered
\* descriptor: the device is gone, or another thread reopened the port.
PollFailure == worker = "poll" /\ WorkerGoto("reconf")

\* POLLIN.
PollReady == worker = "poll" /\ cur = fd /\ device = "up" /\ WorkerGoto("avail")

\* available(): nothing to read, or the port was closed meanwhile.
NothingAvailable == worker = "avail" /\ WorkerGoto("top")

SomeAvailable ==
  worker = "avail" /\ fd # None /\ device = "up" /\ WorkerGoto("read")

\* read_bytes() returns data, which the parsers are fed, or no byte at all.
Read == worker = "read" /\ fd # None /\ device = "up" /\ WorkerGoto("feed")

ReadEmpty == worker = "read" /\ fd # None /\ WorkerGoto("top")

\* read_bytes() throws on a closed port and on an error of read(2); nothing
\* in the worker thread catches the exception.
ReadThrows ==
  /\ worker = "read" /\ (fd = None \/ device = "down")
  /\ crashed' = TRUE
  /\ UNCHANGED <<callerVars, recvVars, portVars, workVars, device>>

Fed == worker = "feed" /\ WorkerGoto("top")

\* reconfigure_port(): drop the registration, read config_ (no lock) ...
ReconfBegin ==
  /\ worker = "reconf"
  /\ cur' = None /\ wcfg' = config /\ worker' = "reopen"
  /\ UNCHANGED <<callerVars, recvVars, portVars, fails, device, crashed>>

\* Bug: one attempt too few.
BugReopen ==
  /\ worker = "reopen"
  /\ \/ ReopenOk(wcfg) /\ worker' = "check" /\ UNCHANGED fails
     \/ ReopenFails /\ fails' = fails + 1
        /\ worker' = IF fails + 2 < MaxRetries THEN "top" ELSE "exit"
  /\ wcfg' = None
  /\ UNCHANGED <<callerVars, recvVars, cur, device, crashed>>

\* ... reopen the port with it; an io_exception is a failed attempt ...
Reopen ==
  /\ worker = "reopen"
  /\ \/ ReopenOk(wcfg) /\ worker' = "check" /\ UNCHANGED fails
     \/ ReopenFails /\ fails' = fails + 1
        /\ worker' = IF fails + 1 < MaxRetries THEN "top" ELSE "exit"
  /\ wcfg' = None
  /\ UNCHANGED <<callerVars, recvVars, cur, device, crashed>>

\* ... and ask for its descriptor again, which another thread may have closed.
ReconfCheck ==
  /\ worker = "check"
  /\ fails' = IF fd # None THEN 0 ELSE fails + 1
  /\ worker' = IF fails' < MaxRetries THEN "top" ELSE "exit"
  /\ UNCHANGED <<callerVars, recvVars, portVars, cur, wcfg, device, crashed>>

\* Bug: running_ is not reset after the loop.
BugWorkerExit ==
  /\ worker = "exit"
  /\ cur' = None /\ worker' = "exited"
  /\ UNCHANGED <<callerVars, recvVars, portVars, wcfg, fails, device, crashed>>

WorkerExit ==
  /\ worker = "exit"
  /\ cur' = None /\ running' = FALSE /\ worker' = "exited"
  /\ UNCHANGED <<callerVars, state, parser, config, portVars, wcfg, fails,
                 device, crashed>>

WorkerStep ==
  WorkerTop \/ PollTimeout \/ PollFailure \/ PollReady \/ NothingAvailable
    \/ SomeAvailable \/ Read \/ ReadEmpty \/ ReadThrows \/ Fed
    \/ ReconfBegin \/ Reopen \/ ReconfCheck \/ WorkerExit

-----------------------------------------------------------------------------
(* The device comes and goes.                                              *)

DeviceChange ==
  /\ device' = IF device = "up" THEN "down" ELSE "up"
  /\ UNCHANGED <<callerVars, recvVars, portVars, workVars, crashed>>

\* An aborted process takes no further step.
Aborted == crashed /\ UNCHANGED vars

Next ==
  \/ /\ ~crashed
     /\ \/ \E c \in Callers : Call(c) \/ CallerStep(c)
        \/ WorkerStep
        \/ DeviceChange
  \/ Aborted

Spec == Init /\ [][Next]_vars

\* The operating system schedules every thread that can run; nobody is
\* obliged to issue a command, and the device may behave as it likes.
FairSpec ==
  /\ Spec
  /\ WF_vars(~crashed /\ WorkerStep)
  /\ \A c \in Callers : WF_vars(~crashed /\ CallerStep(c))

-----------------------------------------------------------------------------
(* Properties.                                                             *)

\* Every variable stays in its range.
TypeOK ==
  /\ cmd \in Callers \cup {None} /\ lock \in Callers \cup {None}
  /\ pc \in [Callers -> CallerPCs]
  /\ goal \in [Callers -> {"stop", "terminate"}]
  /\ arg \in [Callers -> Configs \cup {None}]
  /\ state \in {"idle", "initialized", "running"}
  /\ running \in BOOLEAN /\ parser \in BOOLEAN
  /\ config \in Configs \cup {None}
  /\ fd \in Fds \cup {None} /\ portCfg \in Configs \cup {None}
  /\ worker \in WorkerPCs /\ cur \in Fds \cup {None}
  /\ wcfg \in Configs \cup {None} /\ fails \in 0..MaxRetries
  /\ device \in {"up", "down"} /\ crashed \in BOOLEAN

\* The parser is not destroyed under the worker: while bytes are being fed,
\* ubx_parser_ exists, whatever stop(), start() and terminate() do meanwhile.
ParserOutlivesFeed == worker = "feed" => parser

\* is_running() never reports a worker that is gone, however it ended
\* (gnss_receiver.cpp resets running_ after the loop).
RunningIsTruthful == running => worker \in Live

\* An idle receiver holds no thread and, unless an init() is just opening it,
\* no descriptor: once terminate() has returned, no worker is left that could
\* reopen the port behind it.
IdleIsReleased ==
  state = "idle" =>
    worker = "none" /\ (fd = None \/ \E c \in Callers : pc[c] = "commit")

\* A worker that leaves its loop without having been told to has used up its
\* MaxRetries attempts.
GivesUpOnlyWhenExhausted == worker = "exit" /\ running => fails = MaxRetries

\* terminate() always leaves the receiver idle: no other command can start
\* the receiver again between its stop() and its close.
TerminateIdles == [][\A c \in Callers : Close(c) => state' = "idle"]_vars

\* Every command returns, unless the process aborts: in particular the join
\* in stop() ends, wherever the worker was when it was signalled.
CommandsReturn ==
  \A c \in Callers : pc[c] # "idle" ~> (pc[c] = "idle" \/ crashed)

\* A worker never lives on with a closed port: the port is reopened, or the
\* worker is told to stop, gives up, or takes the process down.
PortHeals ==
  (worker \in Live /\ fd = None) ~> (fd # None \/ worker \notin Live \/ crashed)

\* The documented state machine IDLE / INITIALIZED / RUNNING.
Lifecycle == INSTANCE Lifecycle WITH
  phase  <- state,
  thread <- IF worker \in Live THEN "alive"
            ELSE IF state = "running" THEN "finished" ELSE "none",
  open   <- fd # None

\* The receiver implements it.
ImplementsLifecycle == Lifecycle!Spec

=============================================================================
