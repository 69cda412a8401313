----------------------------- MODULE SharedBuffers -----------------------------
(***************************************************************************)
(* From a decoded message to the application: the handlers, ubx_database,  *)
(* the shared buffers of ubx_database_wrapper and the data_updated signal, *)
(* with every thread that uses them.                                       *)
(*                                                                         *)
(* A worker per receiver runs the decoder stub: handler_->update(msg)      *)
(* without a lock, then apply_update() under rw_mutex_.  A message that    *)
(* ends an epoch makes apply_update() take a snapshot and call             *)
(* on_hp_commit() or on_lp_commit(), which refresh the buffers one by one  *)
(* and emit data_updated after each: rw_mutex_ and the signal's mutex are  *)
(* held while the slots run.  Control threads emit with cmd_mutex_ held    *)
(* and join the workers with cmd_mutex_ held.  Threads that feed sensor    *)
(* data write dead_reckoning_in_ and emit; the controller's slot sends the *)
(* buffer to the chip.                                                     *)
(*                                                                         *)
(* What is read or written without a lock (a handler's message and         *)
(* dead_reckoning_in_) is copied in two halves, so that a reader and a     *)
(* writer can meet in the middle.  A message is its arrival number.        *)
(***************************************************************************)
EXTENDS Naturals

CONSTANTS
    Receivers,      \* the receivers' worker threads, which share one database
    Controllers,    \* threads that call commands of gnss_controller
    Sensors,        \* threads that call update_dead_reckoning_in()
    Kinds,          \* the messages the chip is configured to send
    MaxStamp,       \* bound: decoded messages
    MaxInput,       \* bound: sensor inputs
    NoOne           \* the holder of a free mutex

Halves == {1, 2}
Stamps == 0..MaxStamp
Inputs == 0..MaxInput

-----------------------------------------------------------------------------
(* The tables of the code: which messages reach the database, which commit *)
(* refreshes which buffer, and what a buffer is made of.                   *)

Handlers == { "nav_pvt", "nav_sat", "nav_dop", "nav_timegps", "nav_status",
              "tim_tp", "nav_timeutc", "nav_clock", "nav_att", "rxm_measx",
              "mon_io", "mon_txbuf", "mon_span", "sec_sig", "esf_ins",
              "esf_status" }

Cases == (Handlers \ {"mon_span"})
            \cup { "nav_eell", "nav2_pvt", "nav2_eell", "nav2_dop",
                   "nav2_timegps", "nav_odo", "esf_meas", "nav_sig" }

Wired == Handlers \cap Cases

ShouldCommit(k) == CASE k = "nav_pvt" -> "hp"
                     [] k = "nav_sat" -> "lp"
                     [] OTHER         -> "none"

Location         == {"nav_pvt"}
Timing           == {"tim_tp", "nav_timegps", "nav_status", "nav_timeutc", "nav_clock"}
Attitude         == {"nav_att"}
Dop              == {"nav_dop"}
Security         == {"sec_sig"}
DeadReckoningOut == {"esf_ins", "esf_status"}
Satellites       == {"nav_sat"}
RawMeasurements  == {"rxm_measx"}
Monitor          == {"mon_io", "mon_txbuf", "mon_span"}

Feeds == [ location |-> Location, timing |-> Timing, attitude |-> Attitude,
           dop |-> Dop, security |-> Security,
           dead_reckoning_out |-> DeadReckoningOut,
           satellites |-> Satellites, raw_measurements |-> RawMeasurements,
           monitor |-> Monitor ]

Refreshes == [ hp |-> {"location", "timing", "attitude", "dop", "security",
                       "dead_reckoning_out"},
               lp |-> {"satellites", "raw_measurements", "monitor"} ]

Buffers == DOMAIN Feeds
CommitOf(b) == IF b \in Refreshes["hp"] THEN "hp" ELSE "lp"

(* The place of a buffer in its commit. *)
Rank == [ location |-> 1, timing |-> 2, attitude |-> 3, dop |-> 4,
          security |-> 5, dead_reckoning_out |-> 6,
          satellites |-> 1, raw_measurements |-> 2, monitor |-> 3 ]

ASSUME KindsAssumption == Kinds \subseteq Wired
ASSUME BoundsAssumption == MaxStamp \in Nat /\ MaxInput \in Nat
ASSUME ThreadsAssumption ==
    /\ NoOne \notin Receivers \cup Controllers \cup Sensors
    /\ Receivers \cap (Controllers \cup Sensors) = {}
    /\ Controllers \cap Sensors = {}

-----------------------------------------------------------------------------
VARIABLES
    wpc,        \* where the worker is
    running,    \* running_ of its receiver
    msg,        \* the message it is decoding: its kind and its stamp
    handlerMsg, \* msg_ of the handlers, one per kind for all receivers
    rw,         \* holder of rw_mutex_ (exclusive)
    store,      \* store_: per kind, the stamps of the two halves; 0 is not valid
    snap,       \* the snapshot the worker's commit callback works on
    todo,       \* the buffers this commit has yet to look at
    buffer,     \* the shared buffers
    seen,       \* what the application's slot has copied
    last,       \* history: the last snapshot of each commit kind
    stamp,      \* history: messages decoded so far
    cpc,        \* where the control thread is
    cmd,        \* holder of cmd_mutex_
    sig,        \* holder of the mutex of data_updated, if its slots take time
    spc,        \* where the sensor thread is
    input,      \* inputs given so far
    mine,       \* the input a sensor thread is storing
    drLock,     \* holder of dr_in_mutex_
    drIn,       \* dead_reckoning_in_
    meas,       \* the UBX-ESF-MEAS message the slot is building
    sent        \* the last one it sent

workerVars == <<wpc, running, msg>>
dbVars == <<handlerMsg, rw, store, snap, todo, last, stamp>>
viewVars == <<buffer, seen>>
controlVars == <<cpc, cmd>>
sensorVars == <<spc, input, mine, drLock, drIn, meas, sent>>
vars == <<workerVars, dbVars, viewVars, controlVars, sig, sensorVars>>

Nothing == [h \in Halves |-> 0]
EmptyStore == [k \in Kinds |-> Nothing]
NoMessage == [kind |-> "none", stamp |-> 0]

(* What a commit of the snapshot s puts into buffer b. *)
Project(b, s) == [k \in Feeds[b] \cap Kinds |-> s[k]]

(* is_valid(): a field that was ever set stays valid, store_ is never reset. *)
IsValid(s, k) == \E h \in Halves : s[k][h] # 0

SomeValid(b, s) == \E k \in Feeds[b] \cap Kinds : IsValid(s, k)

(* The timing buffer is assigned whatever the snapshot holds, and announced *)
(* if it holds anything; the others are assigned and announced together.   *)
(* Location and satellites need no check: their own message is what commits. *)
Assigned(b, s) == b = "timing" \/ SomeValid(b, s)
Announced(b, s) == SomeValid(b, s)

Current(w, b) == b \in todo[w] /\ \A c \in todo[w] : Rank[b] <= Rank[c]

Init ==
    /\ wpc = [w \in Receivers |-> "idle"]
    /\ running = [w \in Receivers |-> TRUE]
    /\ msg = [w \in Receivers |-> NoMessage]
    /\ handlerMsg = EmptyStore
    /\ rw = NoOne
    /\ store = EmptyStore
    /\ snap = [w \in Receivers |-> EmptyStore]
    /\ todo = [w \in Receivers |-> {}]
    /\ buffer = [b \in Buffers |-> Project(b, EmptyStore)]
    /\ seen = buffer
    /\ last = [c \in {"hp", "lp"} |-> EmptyStore]
    /\ stamp = 0
    /\ cpc = [c \in Controllers |-> "idle"]
    /\ cmd = NoOne
    /\ sig = NoOne
    /\ spc = [s \in Sensors |-> "idle"]
    /\ input = 0
    /\ mine = [s \in Sensors |-> 0]
    /\ drLock = NoOne
    /\ drIn = Nothing
    /\ meas = [s \in Sensors |-> Nothing]
    /\ sent = Nothing

-----------------------------------------------------------------------------
(* Workers.  A stopped worker may still have frames of its last read. *)

Goto(w, place) == wpc' = [wpc EXCEPT ![w] = place]

(* The stub's callback: handler_->update(msg) assigns msg_ without a lock. *)
Receive(w, k) ==
    /\ wpc[w] = "idle"
    /\ stamp < MaxStamp
    /\ stamp' = stamp + 1
    /\ msg' = [msg EXCEPT ![w] = [kind |-> k, stamp |-> stamp']]
    /\ handlerMsg' = [handlerMsg EXCEPT ![k][1] = stamp']
    /\ Goto(w, "update")
    /\ UNCHANGED <<running, rw, store, snap, todo, last, viewVars, controlVars, sig,
                   sensorVars>>

UpdateRest(w) ==
    /\ wpc[w] = "update"
    /\ handlerMsg' = [handlerMsg EXCEPT ![msg[w].kind][2] = msg[w].stamp]
    /\ Goto(w, "apply")
    /\ UNCHANGED <<running, msg, rw, store, snap, todo, last, stamp, viewVars,
                   controlVars, sig, sensorVars>>

(* apply_update(): under the lock handle() reads the handler's message. *)
Apply(w) ==
    /\ wpc[w] = "apply"
    /\ rw = NoOne
    /\ rw' = w
    /\ LET k == msg[w].kind IN
       store' = [store EXCEPT ![k][1] = handlerMsg[k][1]]
    /\ Goto(w, "handle")
    /\ UNCHANGED <<running, msg, handlerMsg, snap, todo, last, stamp, viewVars,
                   controlVars, sig, sensorVars>>

\* An operator named Bug... is a slip the code does not make; the checks put it
\* in the place of the definition that follows it, and a property has to fail.

\* Bug: the callback runs after the lock has been released.
BugStartCommit(w, c) ==
    /\ snap' = [snap EXCEPT ![w] = store']
    /\ last' = [last EXCEPT ![c] = store']
    /\ todo' = [todo EXCEPT ![w] = {b \in Refreshes[c] : Assigned(b, store')}]
    /\ rw' = NoOne
    /\ Goto(w, "commit")
    /\ UNCHANGED msg

(* do_commit() takes a snapshot and calls the commit callback, which will   *)
(* assign the buffers it has data for.                                     *)
StartCommit(w, c) ==
    /\ snap' = [snap EXCEPT ![w] = store']
    /\ last' = [last EXCEPT ![c] = store']
    /\ todo' = [todo EXCEPT ![w] = {b \in Refreshes[c] : Assigned(b, store')}]
    /\ Goto(w, "commit")
    /\ UNCHANGED <<rw, msg>>

(* The rest of handle(); then the commit policy decides. *)
HandleRest(w) ==
    /\ wpc[w] = "handle"
    /\ LET k == msg[w].kind
           c == ShouldCommit(k) IN
       /\ store' = [store EXCEPT ![k][2] = handlerMsg[k][2]]
       /\ IF c = "none"
          THEN /\ rw' = NoOne
               /\ Goto(w, "idle")
               /\ msg' = [msg EXCEPT ![w] = NoMessage]
               /\ UNCHANGED <<snap, todo, last>>
          ELSE StartCommit(w, c)
    /\ UNCHANGED <<running, handlerMsg, stamp, viewVars, controlVars, sig,
                   sensorVars>>

(* on_hp_commit() and on_lp_commit(): a buffer is assigned under its own mutex *)
(* and announced, then the next one.                                       *)
Assign(w, b) ==
    /\ wpc[w] = "commit"
    /\ Current(w, b)
    /\ buffer' = [buffer EXCEPT ![b] = Project(b, snap[w])]
    /\ IF Announced(b, snap[w])
       THEN Goto(w, "emit") /\ UNCHANGED todo
       ELSE UNCHANGED wpc /\ todo' = [todo EXCEPT ![w] = @ \ {b}]
    /\ UNCHANGED <<running, msg, handlerMsg, rw, store, snap, last, stamp, seen,
                   controlVars, sig, sensorVars>>

(* The application's slot calls the getter of the buffer and copies it. *)
OnDataUpdated(b) == seen' = [seen EXCEPT ![b] = buffer[b]]

\* Bug: an emission that meets another one is dropped.
BugNotify(b) == IF sig = NoOne THEN OnDataUpdated(b) ELSE UNCHANGED seen

(* emit() waits for the signal's mutex and runs the slots with the mutex     *)
(* held; the controller's slot ignores these buffers.                      *)
Notify(b) == sig = NoOne /\ OnDataUpdated(b)

Emit(w, b) ==
    /\ wpc[w] = "emit"
    /\ Current(w, b)
    /\ Notify(b)
    /\ todo' = [todo EXCEPT ![w] = @ \ {b}]
    /\ Goto(w, "commit")
    /\ UNCHANGED <<running, msg, handlerMsg, rw, store, snap, last, stamp, buffer,
                   controlVars, sig, sensorVars>>

CommitEnds(w) ==
    /\ wpc[w] = "commit"
    /\ todo[w] = {}
    /\ rw' = NoOne
    /\ msg' = [msg EXCEPT ![w] = NoMessage]
    /\ snap' = [snap EXCEPT ![w] = EmptyStore]
    /\ Goto(w, "idle")
    /\ UNCHANGED <<running, handlerMsg, store, todo, last, stamp, viewVars,
                   controlVars, sig, sensorVars>>

(* A reply to a command (MON-VER, CFG-VALGET, UPD-SOS) does not go through *)
(* the database: its decoder emits on the worker, without rw_mutex_.       *)
ReceiveReply(w) ==
    /\ wpc[w] = "idle"
    /\ stamp < MaxStamp
    /\ stamp' = stamp + 1
    /\ Goto(w, "reply")
    /\ UNCHANGED <<running, msg, handlerMsg, rw, store, snap, todo, last, viewVars,
                   controlVars, sig, sensorVars>>

EmitReply(w) ==
    /\ wpc[w] = "reply"
    /\ sig = NoOne
    /\ Goto(w, "idle")
    /\ UNCHANGED <<running, msg, dbVars, viewVars, controlVars, sig, sensorVars>>

WorkerExit(w) ==
    /\ wpc[w] = "idle"
    /\ ~running[w]
    /\ Goto(w, "ended")
    /\ UNCHANGED <<running, msg, dbVars, viewVars, controlVars, sig, sensorVars>>

WorkerNext(w) ==
    \/ UpdateRest(w) \/ Apply(w) \/ HandleRest(w)
    \/ \E b \in Buffers : Assign(w, b) \/ Emit(w, b)
    \/ CommitEnds(w) \/ EmitReply(w) \/ WorkerExit(w)

-----------------------------------------------------------------------------
(* Control threads: sync_config(), stop() and start() of gnss_controller.   *)
(* The waits of commands for answers end by their timer and are left out.  *)

Call(c, command) ==
    /\ cpc[c] = "idle"
    /\ cmd = NoOne
    /\ cmd' = c
    /\ cpc' = [cpc EXCEPT ![c] = command]
    /\ UNCHANGED <<workerVars, dbVars, viewVars, sig, sensorVars>>

Return(c) ==
    /\ cmd' = NoOne
    /\ cpc' = [cpc EXCEPT ![c] = "idle"]

SyncEmit(c) ==
    /\ cpc[c] = "sync"
    /\ sig = NoOne
    /\ Return(c)
    /\ UNCHANGED <<workerVars, dbVars, viewVars, sig, sensorVars>>

(* stop() takes one receiver after the other: it clears running_, then joins. *)
StopSignal(c, w) ==
    /\ cpc[c] = "stop"
    /\ running[w]
    /\ running' = [running EXCEPT ![w] = FALSE]
    /\ cpc' = [cpc EXCEPT ![c] = "join"]
    /\ UNCHANGED <<wpc, msg, dbVars, viewVars, cmd, sig, sensorVars>>

StopJoin(c) ==
    /\ cpc[c] = "join"
    /\ \A w \in Receivers : running[w] \/ wpc[w] = "ended"
    /\ cpc' = [cpc EXCEPT ![c] = "stop"]
    /\ UNCHANGED <<workerVars, dbVars, viewVars, cmd, sig, sensorVars>>

StopEnds(c) ==
    /\ cpc[c] = "stop"
    /\ \A w \in Receivers : ~running[w]
    /\ Return(c)
    /\ UNCHANGED <<workerVars, dbVars, viewVars, sig, sensorVars>>

(* start() makes a parser anew for every stopped receiver; its decoders use *)
(* the same handlers and the same database.                                *)
Start(c) ==
    /\ cpc[c] = "start"
    /\ running' = [w \in Receivers |-> TRUE]
    /\ wpc' = [w \in Receivers |-> IF wpc[w] = "ended" THEN "idle" ELSE wpc[w]]
    /\ Return(c)
    /\ UNCHANGED <<msg, dbVars, viewVars, sig, sensorVars>>

ControlNext(c) ==
    \/ SyncEmit(c) \/ StopJoin(c) \/ StopEnds(c) \/ Start(c)
    \/ \E w \in Receivers : StopSignal(c, w)

-----------------------------------------------------------------------------
(* Sensor threads: update_dead_reckoning_in(). *)

SensorAt(s, place) == spc' = [spc EXCEPT ![s] = place]

StoreFirst(s) ==
    /\ spc[s] = "idle"
    /\ input < MaxInput
    /\ drLock = NoOne
    /\ drLock' = s
    /\ input' = input + 1
    /\ mine' = [mine EXCEPT ![s] = input']
    /\ drIn' = [drIn EXCEPT ![1] = input']
    /\ SensorAt(s, "store")
    /\ UNCHANGED <<workerVars, dbVars, viewVars, controlVars, sig, meas, sent>>

StoreRest(s) ==
    /\ spc[s] = "store"
    /\ drIn' = [drIn EXCEPT ![2] = mine[s]]
    /\ mine' = [mine EXCEPT ![s] = 0]
    /\ drLock' = NoOne
    /\ SensorAt(s, "emit")
    /\ UNCHANGED <<workerVars, dbVars, viewVars, controlVars, sig, input, meas,
                   sent>>

\* Bug: an emission that meets another one is dropped, as the slot that is
\* running reads the buffer anyway.
BugSensorEmit(s) ==
    /\ spc[s] = "emit"
    /\ IF sig = NoOne
       THEN sig' = s /\ SensorAt(s, "slot")
       ELSE SensorAt(s, "idle") /\ UNCHANGED sig
    /\ UNCHANGED <<workerVars, dbVars, viewVars, controlVars, input, mine, drLock,
                   drIn, meas, sent>>

SensorEmit(s) ==
    /\ spc[s] = "emit"
    /\ sig = NoOne
    /\ sig' = s
    /\ SensorAt(s, "slot")
    /\ UNCHANGED <<workerVars, dbVars, viewVars, controlVars, input, mine, drLock,
                   drIn, meas, sent>>

\* Bug: the slot takes cmd_mutex_ before it uses the transport.
BugSlotGet(s) ==
    /\ spc[s] = "slot"
    /\ drLock = NoOne
    /\ cmd = NoOne
    /\ SensorAt(s, "read")
    /\ UNCHANGED <<workerVars, dbVars, viewVars, controlVars, sig, input, mine,
                   drLock, drIn, meas, sent>>

(* slot_external_data_update(): the getter, then the buffer is read through *)
(* the reference, then send_async().                                       *)
SlotGet(s) ==
    /\ spc[s] = "slot"
    /\ drLock = NoOne
    /\ SensorAt(s, "read")
    /\ UNCHANGED <<workerVars, dbVars, viewVars, controlVars, sig, input, mine,
                   drLock, drIn, meas, sent>>

SlotRead(s) ==
    /\ spc[s] = "read"
    /\ meas' = [meas EXCEPT ![s][1] = drIn[1]]
    /\ SensorAt(s, "read2")
    /\ UNCHANGED <<workerVars, dbVars, viewVars, controlVars, sig, input, mine,
                   drLock, drIn, sent>>

SlotSend(s) ==
    /\ spc[s] = "read2"
    /\ sent' = [meas[s] EXCEPT ![2] = drIn[2]]
    /\ meas' = [meas EXCEPT ![s] = Nothing]
    /\ sig' = NoOne
    /\ SensorAt(s, "idle")
    /\ UNCHANGED <<workerVars, dbVars, viewVars, controlVars, input, mine, drLock,
                   drIn>>

SensorNext(s) == StoreRest(s) \/ SensorEmit(s) \/ SlotGet(s) \/ SlotRead(s) \/ SlotSend(s)

-----------------------------------------------------------------------------
Next ==
    \/ \E w \in Receivers : \/ \E k \in Kinds : Receive(w, k)
                            \/ ReceiveReply(w)
                            \/ WorkerNext(w)
    \/ \E c \in Controllers : \/ \E command \in {"sync", "stop", "start"} : Call(c, command)
                              \/ ControlNext(c)
    \/ \E s \in Sensors : StoreFirst(s) \/ SensorNext(s)

Spec == Init /\ [][Next]_vars

(* The scheduler runs every thread that can run.  A mutex is handed to      *)
(* nobody in particular: weak fairness is enough, as the messages and the  *)
(* inputs that compete with a command are finitely many.                   *)
Fairness ==
    /\ \A w \in Receivers : WF_vars(WorkerNext(w))
    /\ \A c \in Controllers : WF_vars(ControlNext(c))
    /\ \A s \in Sensors : WF_vars(SensorNext(s))

FairSpec == Spec /\ Fairness

-----------------------------------------------------------------------------
(* Properties. *)

Half == [Halves -> Stamps]
Contents(b) == [Feeds[b] \cap Kinds -> Half]

\* Every variable stays in its range; a commit refreshes buffers of its own kind.
TypeOK ==
    /\ wpc \in [Receivers -> {"idle", "update", "apply", "handle", "commit",
                              "emit", "reply", "ended"}]
    /\ running \in [Receivers -> BOOLEAN]
    /\ msg \in [Receivers -> [kind : Kinds \cup {"none"}, stamp : Stamps]]
    /\ handlerMsg \in [Kinds -> Half] /\ store \in [Kinds -> Half]
    /\ rw \in Receivers \cup {NoOne} /\ cmd \in Controllers \cup {NoOne}
    /\ sig \in Sensors \cup {NoOne}
    /\ snap \in [Receivers -> [Kinds -> Half]]
    /\ last \in [{"hp", "lp"} -> [Kinds -> Half]]
    /\ todo \in [Receivers -> (SUBSET Refreshes["hp"]) \cup (SUBSET Refreshes["lp"])]
    /\ \A b \in Buffers : buffer[b] \in Contents(b) /\ seen[b] \in Contents(b)
    /\ stamp \in Stamps /\ input \in Inputs
    /\ cpc \in [Controllers -> {"idle", "sync", "stop", "join", "start"}]
    /\ spc \in [Sensors -> {"idle", "store", "emit", "slot", "read", "read2"}]
    /\ mine \in [Sensors -> Inputs] /\ drLock \in Sensors \cup {NoOne}
    /\ drIn \in [Halves -> Inputs] /\ sent \in [Halves -> Inputs]
    /\ meas \in [Sensors -> [Halves -> Inputs]]

\* The buffers belong to one epoch: whenever no update is in progress, every
\* buffer of a commit kind, the ones that were skipped included, holds what the
\* last commit of that kind took from the database; no older commit of another
\* receiver comes in between (rw_mutex_ is held while the callback runs).
BuffersShareAnEpoch ==
    rw = NoOne => \A b \in Buffers : buffer[b] = Project(b, last[CommitOf(b)])

\* No change is missed by the subscriber: whenever no update is in progress, the
\* application's slot has seen the present contents of every buffer, whichever
\* other threads were emitting the same signal.
SubscriberIsCurrent == rw = NoOne => seen = buffer

\* The last sensor input reaches the chip whole: once every thread that feeds
\* sensor data is done, the last UBX-ESF-MEAS sent is dead_reckoning_in_, though
\* the slot reads it without a lock while other threads write it.
LastInputIsSent ==
    (\A s \in Sensors : spc[s] = "idle") => sent = drIn /\ drIn[1] = drIn[2]

\* Commands return: neither the join of the workers nor the emission under
\* cmd_mutex_ waits for ever, as long as the slots only read buffers.
CommandsReturn == \A c \in Controllers : cpc[c] # "idle" ~> cpc[c] = "idle"

=============================================================================
