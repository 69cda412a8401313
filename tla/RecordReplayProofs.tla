------------------------- MODULE RecordReplayProofs -------------------------
(***************************************************************************)
(* RecordReplay for every number of receivers, every set of record files   *)
(* and every MaxPorts: what the workers record follows the mode, no worker *)
(* reopens its port with a configuration of the other kind, and            *)
(* stop_replay() gives every receiver its own port back.                   *)
(***************************************************************************)
EXTENDS RecordReplay, SequenceTheorems, TLAPS

Receiver == [state : {"idle", "initialized", "running"}, alive : BOOLEAN,
             port : {"live", "file"}, config : {None, "live", "file"},
             callback : Files \cup {None}, tap : Files \cup {None}]

TypeOK ==
  /\ recv \in [Receivers -> Receiver]
  /\ command \in Commands \cup {"none"} /\ at \in 1..N+1
  /\ stage \in {"first", "second"} /\ file \in Files \cup {None}
  /\ recordActive \in BOOLEAN /\ recordPorts \in Seq(Files)
  /\ replayActive \in BOOLEAN /\ saved \in Seq(BOOLEAN) /\ anyStarted \in BOOLEAN
  /\ openFiles \in SUBSET Files /\ faulted \in BOOLEAN

\* A receiver between two calls: only a running one has a worker and a parser,
\* the parser of a living worker has the current callback, and an initialized
\* receiver has a configuration of its port's kind.
Sound(r) ==
  /\ r.alive => r.state = "running" /\ r.tap = r.callback
  /\ r.state # "running" => r.tap = None
  /\ r.state # "idle" => r.config = r.port

ReceiverInv == \A i \in Receivers : Sound(recv[i])

\* Only three commands take two steps for a receiver, and the modes exclude each other.
CommandInv ==
  /\ command = "none" => at = 1
  /\ stage = "second" => at <= N /\ command \in {"start_record", "stop_record", "start_replay"}
  /\ ~(recordActive /\ replayActive)
  /\ command \in {"start_record", "start_replay"} => ~recordActive /\ ~replayActive
  /\ command = "stop_record" => recordActive
  /\ command = "stop_replay" => replayActive

\* The file start_record() has in hand is open and nobody else's.
FileInv ==
  command = "start_record" /\ stage = "second" => file \in openFiles /\ file \notin Held

\* The callbacks hold open files, no two the same, and no parser keeps the file
\* of another receiver's callback.  The files of earlier attempts may have
\* displaced a receiver's file in record_ports_, but only towards the end.
CallbackInv ==
  /\ \A i \in Receivers : recv[i].callback # None => recv[i].callback \in openFiles
  /\ \A i, j \in Receivers : i # j /\ recv[i].callback # None =>
       recv[i].callback # recv[j].callback /\ recv[i].callback # recv[j].tap
  /\ \A i \in Receivers, k \in DOMAIN recordPorts :
       recv[i].callback = recordPorts[k] => i <= k

\* How many receivers have a callback, and how many files record_ports_ holds.
RecordInv ==
  /\ command = "start_record" =>
       Len(recordPorts) >= at - 1 /\ \A i \in 1..at-1 : recv[i].callback # None
  /\ recordActive => Len(recordPorts) >= N
  /\ recordActive /\ command # "stop_record" => \A i \in Receivers : recv[i].callback # None
  /\ command = "stop_record" => \A i \in 1..at-1 : recv[i].callback = None
  /\ command = "stop_record" /\ stage = "second" => recv[at].callback = None
  /\ command # "start_record" /\ ~recordActive /\ ~faulted =>
       \A i \in Receivers : recv[i].callback = None

\* A receiver on a replay file is one that stop_replay() will restore, or has not come to yet.
ReplayInv ==
  /\ command = "start_replay" => Len(saved) = at - 1
  /\ replayActive => Len(saved) = N
  /\ command = "start_replay" \/ replayActive =>
       \A i \in DOMAIN saved : recv[i].port = "file" => saved[i]
  /\ command = "stop_replay" => \A i \in 1..at-1 : recv[i].port = "live"

IInv == /\ TypeOK /\ ReceiverInv /\ CommandInv /\ FileInv
        /\ CallbackInv /\ RecordInv /\ ReplayInv

-----------------------------------------------------------------------------
(* What the operations of a receiver keep.                                 *)

\* Stopping, starting and giving the parser another callback keep a receiver sound.
LEMMA StoppedSound ==
  ASSUME NEW r \in Receiver, Sound(r)
  PROVE  /\ Stopped(r) \in Receiver /\ Sound(Stopped(r))
         /\ Stopped(r).state # "running" /\ Stopped(r).tap = None
         /\ Stopped(r).callback = r.callback /\ Stopped(r).port = r.port
         /\ Terminated(r) \in Receiver /\ Sound(Terminated(r))
         /\ Terminated(r).state = "idle" /\ Terminated(r).tap = None
         /\ Terminated(r).callback = r.callback /\ Terminated(r).port = r.port
  BY DEF Receiver, Sound, Stopped, Terminated

LEMMA StartedSound ==
  ASSUME NEW r \in Receiver, Sound(r)
  PROVE  /\ Started(r) \in Receiver /\ Sound(Started(r))
         /\ Started(r).callback = r.callback /\ Started(r).port = r.port
         /\ Started(r).tap \in {r.tap, r.callback}
  BY DEF Receiver, Sound, Started

LEMMA RewiredSound ==
  ASSUME NEW r \in Receiver, Sound(r), NEW cb \in Files \cup {None}
  PROVE  /\ Rewired(r, cb) \in Receiver /\ Sound(Rewired(r, cb))
         /\ Rewired(r, cb).callback = cb /\ Rewired(r, cb).port = r.port
         /\ Rewired(r, cb).tap \in {r.tap, cb}
  BY DEF Receiver, Sound, Rewired, Started, Stopped

\* A successful init() leaves the receiver with the configuration its port takes.
LEMMA InitializedSound ==
  ASSUME NEW r \in Receiver, Sound(r), NEW cfg \in {"live", "file"},
         NEW s \in Initialized(r, cfg)
  PROVE  /\ s \in Receiver /\ Sound(s)
         /\ s.callback = r.callback /\ s.port = r.port /\ s.tap = r.tap
         /\ s # r => r.port = cfg
<1>1. CASE s = r
  BY <1>1
<1>2. CASE r.port = cfg /\ s = [r EXCEPT !.config = cfg,
                 !.state = IF r.state = "idle" THEN "initialized" ELSE r.state]
  BY <1>2 DEF Receiver, Sound
<1> QED
  BY <1>1, <1>2 DEF Initialized

LEMMA WithPortSound ==
  ASSUME NEW r \in Receiver, Sound(r), r.state = "idle", NEW p \in {"live", "file"}
  PROVE  /\ WithPort(r, p) \in Receiver /\ Sound(WithPort(r, p))
         /\ WithPort(r, p).port = p /\ WithPort(r, p).state = "idle"
         /\ WithPort(r, p).callback = r.callback /\ WithPort(r, p).tap = r.tap
  BY DEF Receiver, Sound, WithPort

\* A step that changes one receiver, but neither its callback nor what the other
\* parsers hold, keeps the part of the invariant that is about files.
LEMMA SameCallback ==
  ASSUME TypeOK, ReceiverInv, CallbackInv, FileInv,
         NEW i \in Receivers, NEW s \in Receiver, Sound(s),
         s.callback = recv[i].callback, s.tap \in {recv[i].tap, recv[i].callback, None},
         recv' = [recv EXCEPT ![i] = s], UNCHANGED <<recordPorts, openFiles>>
  PROVE  /\ recv' \in [Receivers -> Receiver] /\ ReceiverInv' /\ CallbackInv'
         /\ \A j \in Receivers : recv'[j].callback = recv[j].callback
         /\ Held' \subseteq Held \cup {None}
<1> USE RecordAssumption DEF TypeOK
<1>1. recv' \in [Receivers -> Receiver] /\ ReceiverInv'
  BY DEF ReceiverInv
<1>2. \A j \in Receivers : recv'[j].callback = recv[j].callback
  OBVIOUS
<1>3. \A j \in Receivers : recv'[j].tap \in {recv[j].tap, recv[j].callback, None}
  OBVIOUS
<1>4. CallbackInv'
  BY <1>2, <1>3 DEF CallbackInv
<1>5. Held' \subseteq Held \cup {None}
  BY <1>2, <1>3 DEF Held
<1> QED
  BY <1>1, <1>2, <1>4, <1>5

-----------------------------------------------------------------------------
(* The invariant is inductive.                                             *)

LEMMA InitIInv == Init => IInv
<1> SUFFICES ASSUME Init PROVE IInv
  OBVIOUS
<1> USE RecordAssumption DEF Init, Receivers
<1>1. recordActive \in BOOLEAN /\ replayActive \in BOOLEAN /\ anyStarted \in BOOLEAN
        /\ faulted \in BOOLEAN
  BY Zenon
<1>2. recv \in [Receivers -> Receiver]
  BY DEF Receiver
<1>3. TypeOK
  <2>1. recordPorts \in Seq(Files) /\ saved \in Seq(BOOLEAN)
    OBVIOUS
  <2>2. /\ command \in Commands \cup {"none"} /\ at \in 1..N+1
        /\ stage \in {"first", "second"} /\ file \in Files \cup {None}
        /\ openFiles \in SUBSET Files
    OBVIOUS
  <2> QED
    BY <1>1, <1>2, <2>1, <2>2, Zenon DEF TypeOK
<1>4. ReceiverInv /\ CommandInv /\ FileInv
  BY DEF ReceiverInv, Sound, CommandInv, FileInv
<1>5. CallbackInv /\ RecordInv /\ ReplayInv
  BY DEF CallbackInv, RecordInv, ReplayInv
<1> QED
  BY <1>3, <1>4, <1>5 DEF IInv

\* A step that touches no receiver and no record file keeps the part of the
\* invariant that is about receivers.
LEMMA SameReceivers ==
  ASSUME IInv, UNCHANGED <<recv, recordPorts, openFiles>>
  PROVE  ReceiverInv' /\ CallbackInv' /\ Held' = Held
  BY DEF IInv, ReceiverInv, CallbackInv, Held

LEMMA CallKeeps ==
  ASSUME IInv, NEW c \in Commands, Call(c)
  PROVE  IInv'
<1> USE RecordAssumption DEF Receivers
<1>1. TypeOK /\ CommandInv /\ RecordInv /\ ReplayInv
  BY DEF IInv
<1>2. ReceiverInv' /\ CallbackInv'
  BY SameReceivers DEF Call
<1>3. TypeOK'
  <2>1. saved' \in Seq(BOOLEAN) /\ anyStarted' \in BOOLEAN
    BY <1>1, Zenon, EmptySeq DEF Call, TypeOK
  <2> QED
    BY <1>1, <2>1 DEF Call, TypeOK
<1>4. CommandInv' /\ FileInv'
  BY <1>1 DEF Call, TypeOK, CommandInv, FileInv, Commands
<1>5. RecordInv'
  BY <1>1 DEF Call, TypeOK, CommandInv, RecordInv, Commands
<1>6. ReplayInv'
  BY <1>1 DEF Call, TypeOK, CommandInv, ReplayInv, Commands
<1> QED
  BY <1>2, <1>3, <1>4, <1>5, <1>6 DEF IInv

LEMMA LifecycleKeeps ==
  ASSUME IInv, LifecycleStep \/ LifecycleDone
  PROVE  IInv'
<1> USE RecordAssumption DEF Receivers
<1>1. TypeOK /\ ReceiverInv /\ CommandInv /\ FileInv /\ CallbackInv /\ RecordInv /\ ReplayInv
  BY DEF IInv
<1>2. CASE LifecycleStep
  <2>1. at \in Receivers /\ recv[at] \in Receiver /\ Sound(recv[at])
    BY <1>1, <1>2 DEF LifecycleStep, Busy, TypeOK, ReceiverInv
  <2>2. PICK s \in Receiver : /\ Sound(s) /\ recv' = [recv EXCEPT ![at] = s]
                              /\ s.callback = recv[at].callback /\ s.port = recv[at].port
                              /\ s.tap \in {recv[at].tap, recv[at].callback, None}
    <3>1. CASE Busy("init")
      <4>1. PICK s \in Initialized(recv[at], "live") : recv' = [recv EXCEPT ![at] = s]
        BY <1>2, <3>1 DEF LifecycleStep, Busy
      <4> QED
        BY <2>1, <4>1, InitializedSound
    <3>2. CASE Busy("start")
      BY <1>2, <2>1, <3>2, StartedSound DEF LifecycleStep, Busy
    <3>3. CASE Busy("stop")
      <4>1. recv' = [recv EXCEPT ![at] = Stopped(recv[at])]
        BY <1>2, <3>3 DEF LifecycleStep, Busy
      <4> QED
        BY <2>1, <4>1, StoppedSound
    <3>4. CASE Busy("terminate")
      <4>1. recv' = [recv EXCEPT ![at] = Terminated(recv[at])]
        BY <1>2, <3>4 DEF LifecycleStep, Busy
      <4> QED
        BY <2>1, <4>1, StoppedSound
    <3> QED
      BY <1>2, <3>1, <3>2, <3>3, <3>4 DEF LifecycleStep
  <2>3. /\ command \in {"init", "start", "stop", "terminate"} /\ at <= N
        /\ command' = command /\ at' = at + 1 /\ stage' = "first" /\ file' = None
        /\ UNCHANGED <<modes, openFiles, faulted>>
    BY <1>2 DEF LifecycleStep, Busy, NextReceiver
  <2>4. /\ recv' \in [Receivers -> Receiver] /\ ReceiverInv' /\ CallbackInv'
        /\ \A j \in Receivers : recv'[j].callback = recv[j].callback
    <3>1. UNCHANGED <<recordPorts, openFiles>>
      BY <2>3 DEF modes
    <3> QED
      BY <1>1, <2>1, <2>2, <3>1, SameCallback
  <2>5. \A j \in Receivers : recv'[j].port = recv[j].port
    BY <1>1, <2>2 DEF TypeOK
  <2>6. TypeOK'
    BY <1>1, <2>3, <2>4 DEF TypeOK, modes
  <2>7. CommandInv' /\ FileInv'
    BY <1>1, <2>3 DEF CommandInv, FileInv, modes
  <2>8. RecordInv'
    BY <1>1, <2>3, <2>4 DEF RecordInv, modes
  <2>9. ReplayInv'
    BY <1>1, <2>3, <2>5 DEF ReplayInv, CommandInv, modes, TypeOK
  <2> QED
    BY <2>4, <2>6, <2>7, <2>8, <2>9 DEF IInv
<1>3. CASE LifecycleDone
  <2>1. ReceiverInv' /\ CallbackInv'
    BY <1>3, SameReceivers DEF LifecycleDone, modes
  <2>2. TypeOK'
    BY <1>1, <1>3 DEF LifecycleDone, Return, modes, TypeOK
  <2>3. CommandInv' /\ FileInv' /\ RecordInv' /\ ReplayInv'
    BY <1>1, <1>3 DEF LifecycleDone, Done, Return, modes, CommandInv, FileInv, RecordInv, ReplayInv
  <2> QED
    BY <2>1, <2>2, <2>3 DEF IInv
<1> QED
  BY <1>2, <1>3

LEMMA OpenThrowsKeeps ==
  ASSUME IInv, OpenThrows
  PROVE  IInv'
<1> USE RecordAssumption DEF Receivers
<1>1. TypeOK /\ CommandInv /\ RecordInv /\ ReplayInv
  BY DEF IInv
<1>2. ReceiverInv' /\ CallbackInv'
  BY SameReceivers DEF OpenThrows, modes
<1>3. TypeOK'
  BY <1>1 DEF OpenThrows, Return, modes, TypeOK
<1>4. CommandInv' /\ FileInv' /\ RecordInv' /\ ReplayInv'
  BY <1>1 DEF OpenThrows, Busy, Return, modes, CommandInv, FileInv, RecordInv, ReplayInv
<1> QED
  BY <1>2, <1>3, <1>4 DEF IInv

\* The file in hand is new: it is not held by a callback, a parser or record_ports_.
LEMMA OpenRecordKeeps ==
  ASSUME IInv, OpenRecord
  PROVE  IInv'
<1> USE RecordAssumption DEF Receivers
<1>1. /\ TypeOK /\ ReceiverInv /\ CommandInv /\ CallbackInv /\ RecordInv /\ ReplayInv
  BY DEF IInv
<1>2. PICK f \in Files \ Held : file' = f /\ openFiles' = openFiles \cup {f}
  BY DEF OpenRecord
<1>3. /\ command = "start_record" /\ at <= N /\ stage' = "second"
      /\ UNCHANGED <<recv, command, at, modes, faulted>>
  BY DEF OpenRecord, Busy
<1>4. Held' = Held
  BY <1>3 DEF Held, modes
<1>5. TypeOK'
  BY <1>1, <1>2, <1>3 DEF TypeOK, modes
<1>6. ReceiverInv' /\ CommandInv' /\ CallbackInv'
  BY <1>1, <1>2, <1>3 DEF ReceiverInv, CommandInv, CallbackInv, modes
<1>7. FileInv'
  BY <1>2, <1>4 DEF FileInv
<1>8. RecordInv' /\ ReplayInv'
  BY <1>1, <1>3 DEF RecordInv, ReplayInv, modes
<1> QED
  BY <1>5, <1>6, <1>7, <1>8 DEF IInv

\* The callback and the end of record_ports_ both become the file in hand; the
\* receiver's index is at most the file's place.
LEMMA TapKeeps ==
  ASSUME IInv, Tap
  PROVE  IInv'
<1> USE RecordAssumption DEF Receivers
<1>1. TypeOK /\ ReceiverInv /\ CommandInv /\ FileInv /\ CallbackInv /\ RecordInv /\ ReplayInv
  BY DEF IInv
<1>2. /\ command = "start_record" /\ stage = "second" /\ at \in Receivers
      /\ recv' = [recv EXCEPT ![at] = Rewired(recv[at], file)]
      /\ recordPorts' = Append(recordPorts, file) /\ anyStarted' = TRUE
      /\ command' = command /\ at' = at + 1 /\ stage' = "first" /\ file' = None
      /\ UNCHANGED <<recordActive, replayActive, saved, openFiles, faulted>>
  BY <1>1 DEF Tap, Busy, NextReceiver, TypeOK
<1>3. file \in Files /\ file \in openFiles /\ file \notin Held
  BY <1>1, <1>2 DEF FileInv, TypeOK
<1> DEFINE s == Rewired(recv[at], file)
<1>4. /\ s \in Receiver /\ Sound(s) /\ s.callback = file /\ s.port = recv[at].port
      /\ s.tap \in {recv[at].tap, file}
  BY <1>1, <1>2, <1>3, RewiredSound DEF TypeOK, ReceiverInv
<1>5. /\ recv' \in [Receivers -> Receiver] /\ recv'[at] = s
      /\ \A j \in Receivers \ {at} : recv'[j] = recv[j]
  BY <1>1, <1>2, <1>4 DEF TypeOK
<1> HIDE DEF s
<1>6. /\ recordPorts' \in Seq(Files) /\ Len(recordPorts') = Len(recordPorts) + 1
      /\ DOMAIN recordPorts = 1..Len(recordPorts) /\ Len(recordPorts) \in Nat
      /\ DOMAIN recordPorts' = 1..Len(recordPorts)+1
      /\ \A k \in DOMAIN recordPorts : recordPorts'[k] = recordPorts[k]
      /\ recordPorts'[Len(recordPorts) + 1] = file
  BY <1>1, <1>2, <1>3 DEF TypeOK
<1>7. Len(recordPorts) >= at - 1 /\ \A i \in 1..at-1 : recv[i].callback # None
  BY <1>1, <1>2 DEF RecordInv
<1>8. TypeOK'
  BY <1>1, <1>2, <1>5, <1>6 DEF TypeOK
<1>9. ReceiverInv'
  BY <1>1, <1>4, <1>5 DEF ReceiverInv
<1>10. CommandInv' /\ FileInv'
  BY <1>1, <1>2 DEF CommandInv, FileInv
<1>11. CallbackInv'
  <2>1. \A i \in Receivers : /\ file # recv[i].callback /\ file # recv[i].tap
    BY <1>3 DEF Held
  <2>2. \A k \in DOMAIN recordPorts : file # recordPorts[k]
    BY <1>3 DEF Held
  <2>3. \A i \in Receivers : recv'[i].callback # None => recv'[i].callback \in openFiles'
    BY <1>1, <1>2, <1>3, <1>4, <1>5 DEF CallbackInv
  <2>4. ASSUME NEW i \in Receivers, NEW j \in Receivers, i # j, recv'[i].callback # None
        PROVE  recv'[i].callback # recv'[j].callback /\ recv'[i].callback # recv'[j].tap
    <3>1. CASE i = at
      BY <2>1, <2>4, <3>1, <1>4, <1>5
    <3>2. CASE j = at
      BY <1>1, <2>1, <2>4, <3>2, <1>4, <1>5 DEF CallbackInv
    <3>3. CASE i # at /\ j # at
      BY <1>1, <2>4, <3>3, <1>5 DEF CallbackInv
    <3> QED
      BY <3>1, <3>2, <3>3
  <2>5. ASSUME NEW i \in Receivers, NEW k \in DOMAIN recordPorts',
               recv'[i].callback = recordPorts'[k]
        PROVE  i <= k
    <3>1. CASE i = at
      BY <2>2, <2>5, <3>1, <1>4, <1>5, <1>6, <1>7
    <3>2. CASE i # at
      BY <1>1, <2>1, <2>5, <3>2, <1>5, <1>6 DEF CallbackInv
    <3> QED
      BY <3>1, <3>2
  <2> QED
    BY <2>3, <2>4, <2>5 DEF CallbackInv
<1>12. RecordInv'
  <2>1. \A i \in 1..at : recv'[i].callback # None
    BY <1>2, <1>3, <1>4, <1>5, <1>7
  <2> QED
    BY <1>1, <1>2, <1>6, <1>7, <2>1 DEF RecordInv, CommandInv, TypeOK
<1>13. ReplayInv'
  BY <1>1, <1>2 DEF ReplayInv, CommandInv
<1> QED
  BY <1>8, <1>9, <1>10, <1>11, <1>12, <1>13 DEF IInv

LEMMA StartRecordDoneKeeps ==
  ASSUME IInv, StartRecordDone
  PROVE  IInv'
<1> USE RecordAssumption DEF Receivers
<1>1. TypeOK /\ CommandInv /\ RecordInv /\ ReplayInv
  BY DEF IInv
<1>2. ReceiverInv' /\ CallbackInv'
  BY SameReceivers DEF StartRecordDone
<1>3. TypeOK'
  BY <1>1 DEF StartRecordDone, Return, TypeOK
<1>4. CommandInv' /\ FileInv' /\ RecordInv' /\ ReplayInv'
  BY <1>1 DEF StartRecordDone, Done, Return, CommandInv, FileInv, RecordInv, ReplayInv
<1> QED
  BY <1>2, <1>3, <1>4 DEF IInv

LEMMA UntapKeeps ==
  ASSUME IInv, Untap
  PROVE  IInv'
<1> USE RecordAssumption DEF Receivers
<1>1. TypeOK /\ ReceiverInv /\ CommandInv /\ CallbackInv /\ RecordInv /\ ReplayInv
  BY DEF IInv
<1>2. /\ command = "stop_record" /\ at \in Receivers /\ stage' = "second"
      /\ recv' = [recv EXCEPT ![at] = Rewired(recv[at], None)]
      /\ UNCHANGED <<command, at, file, modes, openFiles, faulted>>
  BY <1>1 DEF Untap, Busy, TypeOK
<1> DEFINE s == Rewired(recv[at], None)
<1>3. /\ s \in Receiver /\ Sound(s) /\ s.callback = None /\ s.port = recv[at].port
      /\ s.tap \in {recv[at].tap, None}
  BY <1>1, <1>2, RewiredSound DEF TypeOK, ReceiverInv
<1>4. /\ recv' \in [Receivers -> Receiver] /\ recv'[at] = s
      /\ \A j \in Receivers \ {at} : recv'[j] = recv[j]
  BY <1>1, <1>2, <1>3 DEF TypeOK
<1> HIDE DEF s
<1>5. TypeOK'
  BY <1>1, <1>2, <1>4 DEF TypeOK, modes
<1>6. ReceiverInv'
  BY <1>1, <1>3, <1>4 DEF ReceiverInv
<1>7. CommandInv' /\ FileInv'
  BY <1>1, <1>2 DEF CommandInv, FileInv, modes
<1>8. CallbackInv'
  <2>1. \A k \in DOMAIN recordPorts : recordPorts[k] # None
    BY <1>1 DEF TypeOK
  <2>2. ASSUME NEW i \in Receivers, NEW j \in Receivers, i # j, recv'[i].callback # None
        PROVE  recv'[i].callback # recv'[j].callback /\ recv'[i].callback # recv'[j].tap
    <3>1. i # at /\ recv'[i] = recv[i]
      BY <1>3, <1>4, <2>2
    <3>2. recv'[j].callback \in {recv[j].callback, None} /\ recv'[j].tap \in {recv[j].tap, None}
      BY <1>3, <1>4
    <3> QED
      BY <1>1, <2>2, <3>1, <3>2 DEF CallbackInv
  <2>3. \A i \in Receivers, k \in DOMAIN recordPorts : recv'[i].callback = recordPorts[k] => i <= k
    BY <1>1, <1>3, <1>4, <2>1 DEF CallbackInv
  <2>4. \A i \in Receivers : recv'[i].callback # None => recv'[i].callback \in openFiles
    BY <1>1, <1>3, <1>4 DEF CallbackInv
  <2> QED
    BY <1>2, <2>2, <2>3, <2>4 DEF CallbackInv, modes
<1>9. RecordInv'
  <2>1. \A i \in 1..at-1 : recv'[i].callback = None
    BY <1>1, <1>2, <1>4 DEF RecordInv
  <2> QED
    BY <1>1, <1>2, <1>3, <1>4, <2>1 DEF RecordInv, CommandInv, modes
<1>10. ReplayInv'
  BY <1>1, <1>2 DEF ReplayInv, CommandInv, modes
<1> QED
  BY <1>5, <1>6, <1>7, <1>8, <1>9, <1>10 DEF IInv

\* The file that is closed is nobody's callback: its place is that of a receiver
\* whose callback is gone, or of an earlier one.
LEMMA CloseRecordKeeps ==
  ASSUME IInv, CloseRecord
  PROVE  IInv'
<1> USE RecordAssumption DEF Receivers
<1>1. TypeOK /\ ReceiverInv /\ CommandInv /\ CallbackInv /\ RecordInv /\ ReplayInv
  BY DEF IInv
<1>2. /\ command = "stop_record" /\ stage = "second" /\ at \in Receivers
      /\ openFiles' = openFiles \ {recordPorts[at]}
      /\ command' = command /\ at' = at + 1 /\ stage' = "first" /\ file' = None
      /\ UNCHANGED <<recv, modes, faulted>>
  BY <1>1 DEF CloseRecord, Busy, NextReceiver, TypeOK
<1>3. at \in DOMAIN recordPorts /\ recordPorts[at] \in Files
  BY <1>1, <1>2 DEF TypeOK, CommandInv, RecordInv
<1>4. \A i \in 1..at : recv[i].callback = None
  BY <1>1, <1>2 DEF RecordInv
<1>5. \A i \in Receivers : recv[i].callback # recordPorts[at]
  BY <1>1, <1>2, <1>3, <1>4 DEF CallbackInv
<1>6. TypeOK'
  BY <1>1, <1>2 DEF TypeOK, modes
<1>7. ReceiverInv' /\ CallbackInv'
  BY <1>1, <1>2, <1>5 DEF ReceiverInv, CallbackInv, modes
<1>8. CommandInv' /\ FileInv'
  BY <1>1, <1>2 DEF CommandInv, FileInv, modes
<1>9. RecordInv' /\ ReplayInv'
  BY <1>1, <1>2, <1>4 DEF RecordInv, ReplayInv, CommandInv, modes
<1> QED
  BY <1>6, <1>7, <1>8, <1>9 DEF IInv

LEMMA StopRecordDoneKeeps ==
  ASSUME IInv, StopRecordDone
  PROVE  IInv'
<1> USE RecordAssumption DEF Receivers
<1>1. TypeOK /\ ReceiverInv /\ CommandInv /\ CallbackInv /\ RecordInv /\ ReplayInv
  BY DEF IInv
<1>2. /\ command = "stop_record" /\ at = N + 1
      /\ recordActive' = FALSE /\ recordPorts' = <<>>
      /\ command' = "none" /\ at' = 1 /\ stage' = "first" /\ file' = None
      /\ UNCHANGED <<recv, replayActive, saved, anyStarted, openFiles, faulted>>
  BY DEF StopRecordDone, Done, Return
<1>3. \A i \in Receivers : recv[i].callback = None
  BY <1>1, <1>2 DEF RecordInv
<1>4. TypeOK'
  <2>1. recordPorts' \in Seq(Files) /\ recordActive' \in BOOLEAN
    BY <1>2, EmptySeq, Zenon
  <2> QED
    BY <1>1, <1>2, <2>1 DEF TypeOK
<1>5. ReceiverInv' /\ CommandInv' /\ FileInv' /\ CallbackInv'
  BY <1>1, <1>2, <1>3 DEF ReceiverInv, CommandInv, FileInv, CallbackInv
<1>6. RecordInv' /\ ReplayInv'
  BY <1>1, <1>2, <1>3 DEF RecordInv, ReplayInv, CommandInv
<1> QED
  BY <1>4, <1>5, <1>6 DEF IInv

LEMMA OpenReplayKeeps ==
  ASSUME IInv, OpenReplay
  PROVE  IInv'
<1> USE RecordAssumption DEF Receivers
<1>1. TypeOK /\ CommandInv /\ RecordInv /\ ReplayInv
  BY DEF IInv
<1>2. ReceiverInv' /\ CallbackInv'
  BY SameReceivers DEF OpenReplay, modes
<1>3. TypeOK'
  BY <1>1 DEF OpenReplay, modes, TypeOK
<1>4. CommandInv' /\ FileInv' /\ RecordInv' /\ ReplayInv'
  BY <1>1 DEF OpenReplay, Busy, modes, CommandInv, FileInv, RecordInv, ReplayInv
<1> QED
  BY <1>2, <1>3, <1>4 DEF IInv

\* The receiver is on the file exactly when its entry of saved says so.
LEMMA SwitchKeeps ==
  ASSUME IInv, Switch
  PROVE  IInv'
<1> USE RecordAssumption DEF Receivers
<1>1. TypeOK /\ ReceiverInv /\ CommandInv /\ FileInv /\ CallbackInv /\ RecordInv /\ ReplayInv
  BY DEF IInv
<1>2. at \in Receivers /\ recv[at] \in Receiver /\ Sound(recv[at])
  BY <1>1 DEF Switch, Busy, TypeOK, ReceiverInv
<1> DEFINE r == WithPort(Terminated(recv[at]), "file")
<1>3. /\ r \in Receiver /\ Sound(r) /\ r.port = "file" /\ r.state = "idle"
      /\ r.callback = recv[at].callback /\ r.tap = None
  BY <1>2, StoppedSound, WithPortSound
<1>4. PICK s \in Initialized(r, "file") :
        /\ recv' = [recv EXCEPT ![at] = IF s = r THEN WithPort(r, "live") ELSE Started(s)]
        /\ saved' = Append(saved, s # r) /\ anyStarted' = (anyStarted \/ s # r)
  BY Zenon DEF Switch
<1> DEFINE t == IF s = r THEN WithPort(r, "live") ELSE Started(s)
<1>5. /\ t \in Receiver /\ Sound(t) /\ t.callback = recv[at].callback
      /\ t.tap \in {recv[at].tap, recv[at].callback, None}
      /\ t.port = "file" => s # r
  <2>1. CASE s = r
    BY <1>3, <2>1, WithPortSound
  <2>2. CASE s # r
    BY <1>3, <2>2, InitializedSound, StartedSound
  <2> QED
    BY <2>1, <2>2
<1>6. /\ command = "start_replay" /\ stage = "second"
      /\ command' = command /\ at' = at + 1 /\ stage' = "first" /\ file' = None
      /\ UNCHANGED <<recordActive, recordPorts, replayActive, openFiles, faulted>>
  BY DEF Switch, Busy, NextReceiver
<1>7. recv' = [recv EXCEPT ![at] = t]
  BY <1>4
<1>8. PICK b \in BOOLEAN : b = (s # r) /\ saved' = Append(saved, b)
  BY <1>4, Zenon
<1>9. anyStarted' \in BOOLEAN
  BY <1>4, Zenon
<1> HIDE DEF t, r
<1>10. /\ recv' \in [Receivers -> Receiver] /\ ReceiverInv' /\ CallbackInv'
       /\ \A j \in Receivers : recv'[j].callback = recv[j].callback
  BY <1>1, <1>2, <1>5, <1>6, <1>7, SameCallback
<1>11. Len(saved) = at - 1 /\ saved' \in Seq(BOOLEAN) /\ Len(saved') = at
       /\ DOMAIN saved = 1..at-1 /\ DOMAIN saved' = 1..at
       /\ saved'[at] = b /\ \A i \in 1..at-1 : saved'[i] = saved[i]
  BY <1>1, <1>2, <1>6, <1>8 DEF TypeOK, ReplayInv
<1>12. TypeOK'
  BY <1>1, <1>2, <1>6, <1>9, <1>10, <1>11 DEF TypeOK
<1>13. CommandInv' /\ FileInv' /\ RecordInv'
  BY <1>1, <1>6, <1>10 DEF CommandInv, FileInv, RecordInv
<1>14. ReplayInv'
  <2>1. ASSUME NEW i \in 1..at, recv'[i].port = "file" PROVE saved'[i]
    <3>1. CASE i = at
      BY <1>1, <1>2, <1>5, <1>7, <1>8, <1>11, <2>1, <3>1 DEF TypeOK
    <3>2. CASE i # at
      <4>1. i \in 1..at-1 /\ recv'[i] = recv[i]
        BY <1>1, <1>2, <1>7, <3>2 DEF TypeOK
      <4>2. saved[i]
        BY <1>1, <1>6, <1>11, <2>1, <4>1 DEF ReplayInv
      <4> QED
        BY <1>11, <4>1, <4>2
    <3> QED
      BY <3>1, <3>2
  <2> QED
    BY <1>1, <1>2, <1>6, <1>11, <2>1 DEF ReplayInv, CommandInv
<1> QED
  BY <1>10, <1>12, <1>13, <1>14 DEF IInv

LEMMA StartReplayDoneKeeps ==
  ASSUME IInv, StartReplayDone
  PROVE  IInv'
<1> USE RecordAssumption DEF Receivers
<1>1. TypeOK /\ CommandInv /\ RecordInv /\ ReplayInv
  BY DEF IInv
<1>2. ReceiverInv' /\ CallbackInv'
  BY SameReceivers DEF StartReplayDone
<1>3. /\ command = "start_replay" /\ at = N + 1
      /\ command' = "none" /\ at' = 1 /\ stage' = "first" /\ file' = None
      /\ UNCHANGED <<recv, recordActive, recordPorts, anyStarted, openFiles, faulted>>
  BY DEF StartReplayDone, Done, Return
<1>4. CASE anyStarted
  <2>1. replayActive' = TRUE /\ saved' = saved
    BY <1>1, <1>4, Zenon DEF StartReplayDone, TypeOK
  <2>2. TypeOK' /\ CommandInv' /\ FileInv' /\ RecordInv' /\ ReplayInv'
    BY <1>1, <1>3, <2>1 DEF TypeOK, CommandInv, FileInv, RecordInv, ReplayInv
  <2> QED
    BY <1>2, <2>2 DEF IInv
<1>5. CASE ~anyStarted
  <2>1. replayActive' = FALSE /\ saved' = <<>>
    BY <1>1, <1>5, Zenon DEF StartReplayDone, TypeOK
  <2>2. saved' \in Seq(BOOLEAN) /\ replayActive' \in BOOLEAN
    BY <2>1, EmptySeq, Zenon
  <2>3. TypeOK' /\ CommandInv' /\ FileInv' /\ RecordInv' /\ ReplayInv'
    BY <1>1, <1>3, <2>1, <2>2 DEF TypeOK, CommandInv, FileInv, RecordInv, ReplayInv
  <2> QED
    BY <1>2, <2>3 DEF IInv
<1> QED
  BY <1>4, <1>5

LEMMA RestoreKeeps ==
  ASSUME IInv, Restore
  PROVE  IInv'
<1> USE RecordAssumption DEF Receivers
<1>1. TypeOK /\ ReceiverInv /\ CommandInv /\ FileInv /\ CallbackInv /\ RecordInv /\ ReplayInv
  BY DEF IInv
<1>2. at \in Receivers /\ recv[at] \in Receiver /\ Sound(recv[at])
  BY <1>1 DEF Restore, Busy, TypeOK, ReceiverInv
<1>3. /\ command = "stop_replay" /\ replayActive
      /\ command' = command /\ at' = at + 1 /\ stage' = "first" /\ file' = None
      /\ UNCHANGED <<modes, openFiles, faulted>>
  BY <1>1 DEF Restore, Busy, NextReceiver, CommandInv
<1>4. at \in DOMAIN saved /\ (recv[at].port = "file" => saved[at])
  BY <1>1, <1>2, <1>3 DEF ReplayInv, TypeOK
<1> DEFINE r == Terminated(recv[at])
<1>5. /\ r \in Receiver /\ Sound(r) /\ r.state = "idle" /\ r.tap = None
      /\ r.callback = recv[at].callback /\ r.port = recv[at].port
  BY <1>2, StoppedSound
<1>6. PICK t \in Receiver : /\ Sound(t) /\ recv' = [recv EXCEPT ![at] = t]
                            /\ t.callback = recv[at].callback /\ t.port = "live"
                            /\ t.tap \in {recv[at].tap, recv[at].callback, None}
  <2>1. CASE saved[at] /\ \E s \in Initialized(WithPort(r, "live"), "live") :
                            recv' = [recv EXCEPT ![at] = Started(s)]
    <3>1. PICK s \in Initialized(WithPort(r, "live"), "live") :
                 recv' = [recv EXCEPT ![at] = Started(s)]
      BY <2>1
    <3>2. /\ s \in Receiver /\ Sound(s) /\ s.callback = recv[at].callback
          /\ s.port = "live" /\ s.tap = None
      BY <1>5, WithPortSound, InitializedSound
    <3> QED
      BY <3>1, <3>2, StartedSound
  <2>2. CASE ~saved[at] /\ recv' = [recv EXCEPT ![at] = r]
    <3>1. r.port = "live"
      BY <1>4, <1>5, <2>2 DEF Receiver
    <3> QED
      BY <1>5, <2>2, <3>1
  <2> QED
    BY <2>1, <2>2 DEF Restore
<1> HIDE DEF r
<1>7. /\ recv' \in [Receivers -> Receiver] /\ ReceiverInv' /\ CallbackInv'
      /\ \A j \in Receivers : recv'[j].callback = recv[j].callback
  <2>1. UNCHANGED <<recordPorts, openFiles>>
    BY <1>3 DEF modes
  <2> QED
    BY <1>1, <1>2, <1>6, <2>1, SameCallback
<1>8. \A j \in Receivers : recv'[j].port \in {recv[j].port, "live"}
  BY <1>1, <1>6 DEF TypeOK
<1>9. \A j \in 1..at : recv'[j].port = "live"
  BY <1>1, <1>2, <1>3, <1>6 DEF TypeOK, ReplayInv
<1>10. TypeOK'
  BY <1>1, <1>2, <1>3, <1>7 DEF TypeOK, modes
<1>11. CommandInv' /\ FileInv'
  BY <1>1, <1>3 DEF CommandInv, FileInv, modes
<1>12. RecordInv'
  BY <1>1, <1>3, <1>7 DEF RecordInv, modes
<1>13. ReplayInv'
  BY <1>1, <1>3, <1>8, <1>9 DEF ReplayInv, modes, TypeOK
<1> QED
  BY <1>7, <1>10, <1>11, <1>12, <1>13 DEF IInv

LEMMA StopReplayDoneKeeps ==
  ASSUME IInv, StopReplayDone
  PROVE  IInv'
<1> USE RecordAssumption DEF Receivers
<1>1. TypeOK /\ CommandInv /\ RecordInv /\ ReplayInv
  BY DEF IInv
<1>2. ReceiverInv' /\ CallbackInv'
  BY SameReceivers DEF StopReplayDone
<1>3. TypeOK'
  <2>1. replayActive' \in BOOLEAN /\ saved' \in Seq(BOOLEAN)
    BY EmptySeq, Zenon DEF StopReplayDone
  <2> QED
    BY <1>1, <2>1 DEF StopReplayDone, Return, TypeOK
<1>4. CommandInv' /\ FileInv' /\ RecordInv' /\ ReplayInv'
  BY <1>1 DEF StopReplayDone, Done, Return, CommandInv, FileInv, RecordInv, ReplayInv
<1> QED
  BY <1>2, <1>3, <1>4 DEF IInv

LEMMA GiveUpKeeps ==
  ASSUME IInv, NEW i \in Receivers, GiveUp(i)
  PROVE  IInv'
<1> USE RecordAssumption DEF Receivers
<1>1. TypeOK /\ ReceiverInv /\ CommandInv /\ FileInv /\ CallbackInv /\ RecordInv /\ ReplayInv
  BY DEF IInv
<1> DEFINE s == [recv[i] EXCEPT !.alive = FALSE]
<1>2. /\ s \in Receiver /\ Sound(s) /\ s.callback = recv[i].callback
      /\ s.tap = recv[i].tap /\ s.port = recv[i].port
  <2>1. recv[i] \in Receiver /\ Sound(recv[i])
    BY <1>1 DEF TypeOK, ReceiverInv
  <2> QED
    BY <2>1 DEF Receiver, Sound
<1>3. recv' = [recv EXCEPT ![i] = s] /\ UNCHANGED <<progress, modes, openFiles, faulted>>
  BY <1>1 DEF GiveUp, TypeOK
<1> HIDE DEF s
<1>4. /\ recv' \in [Receivers -> Receiver] /\ ReceiverInv' /\ CallbackInv'
      /\ \A j \in Receivers : recv'[j].callback = recv[j].callback
      /\ Held' \subseteq Held \cup {None}
  <2>1. UNCHANGED <<recordPorts, openFiles>>
    BY <1>3 DEF modes
  <2> QED
    BY <1>1, <1>2, <1>3, <2>1, SameCallback
<1>5. \A j \in Receivers : recv'[j].port = recv[j].port
  BY <1>1, <1>2, <1>3 DEF TypeOK
<1>6. TypeOK' /\ CommandInv'
  BY <1>1, <1>3, <1>4 DEF TypeOK, CommandInv, progress, modes
<1>7. FileInv'
  <2> SUFFICES ASSUME command = "start_record", stage = "second"
               PROVE  file \in openFiles /\ file \notin Held'
    BY <1>3 DEF FileInv, progress
  <2>1. file \in openFiles /\ file \notin Held /\ file # None
    BY <1>1 DEF FileInv, TypeOK
  <2> QED
    BY <1>4, <2>1
<1>8. RecordInv'
  BY <1>1, <1>3, <1>4 DEF RecordInv, TypeOK, CommandInv, progress, modes
<1>9. ReplayInv'
  BY <1>1, <1>3, <1>5 DEF ReplayInv, TypeOK, progress, modes
<1> QED
  BY <1>4, <1>6, <1>7, <1>8, <1>9 DEF IInv

\* Every step of the commands and of the workers keeps the invariant.
LEMMA NextIInv == IInv /\ [Next]_vars => IInv'
<1> SUFFICES ASSUME IInv, [Next]_vars PROVE IInv'
  OBVIOUS
<1>1. CASE UNCHANGED vars
  BY <1>1 DEF vars, progress, modes, IInv, TypeOK, ReceiverInv, CommandInv, FileInv, Held,
              CallbackInv, RecordInv, ReplayInv
<1>2. CASE Next
  BY <1>2, CallKeeps, LifecycleKeeps, OpenThrowsKeeps, OpenRecordKeeps, TapKeeps,
     StartRecordDoneKeeps, UntapKeeps, CloseRecordKeeps, StopRecordDoneKeeps,
     OpenReplayKeeps, SwitchKeeps, StartReplayDoneKeeps, RestoreKeeps,
     StopReplayDoneKeeps, GiveUpKeeps, Zenon DEF Next
<1> QED
  BY <1>1, <1>2

LEMMA Invariance == Spec => []IInv
  BY InitIInv, NextIInv, PTL DEF Spec

-----------------------------------------------------------------------------
(* The theorems.                                                           *)

\* The variables of the modes keep their ranges, for any number of receivers
\* and any length of record_ports_.
THEOREM TypeCorrect == Spec => []TypeOK
<1>1. IInv => TypeOK
  BY DEF IInv
<1> QED
  BY <1>1, Invariance, PTL

\* Workers record just while recording is on, each into an open file of its own,
\* also after exceptions have left files of earlier attempts in record_ports_.
THEOREM RecordingSafe == Spec => []RecordingFollowsTheMode
<1>1. IInv => RecordingFollowsTheMode
  <2> SUFFICES ASSUME IInv PROVE RecordingFollowsTheMode
    OBVIOUS
  <2>1. TypeOK /\ ReceiverInv /\ CallbackInv /\ RecordInv
    BY DEF IInv
  <2>2. \A i \in Receivers : recv[i].alive => recv[i].tap = recv[i].callback
    BY <2>1 DEF ReceiverInv, Sound
  <2>3. TapHasFile
    BY <2>1, <2>2 DEF TapHasFile, CallbackInv
  <2>4. RecordsWhileOn
    BY <2>1, <2>2 DEF RecordsWhileOn, CallbackInv, RecordInv
  <2>5. QuietWhileOff
    BY <2>1, <2>2 DEF QuietWhileOff, RecordInv
  <2> QED
    BY <2>3, <2>4, <2>5 DEF RecordingFollowsTheMode
<1> QED
  BY <1>1, Invariance, PTL

\* No worker can reopen its port with a configuration of the other kind: set_port(),
\* init() and start() of a mode change are never taken apart.
THEOREM ConfigSafe == Spec => []ConfigFitsPort
<1>1. IInv => ConfigFitsPort
  BY DEF IInv, ReceiverInv, Sound, ConfigFitsPort
<1> QED
  BY <1>1, Invariance, PTL

\* A completed stop_replay() leaves every receiver on its own port, whatever an
\* earlier start_replay() that threw had left behind.
THEOREM StopReplaySafe == Spec => StopReplayRestores
<1>1. IInv /\ [Next]_vars => [StopReplayDone => \A i \in Receivers : recv[i].port = "live"]_vars
  BY RecordAssumption DEF IInv, ReplayInv, TypeOK, StopReplayDone, Done, Receivers
<1> QED
  BY <1>1, Invariance, PTL DEF Spec, StopReplayRestores
=============================================================================
