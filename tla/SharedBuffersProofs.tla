------------------------- MODULE SharedBuffersProofs -------------------------
(***************************************************************************)
(* SharedBuffers for every set of receivers, control threads, sensor       *)
(* threads and configured messages: the buffers share an epoch, the        *)
(* subscriber misses nothing, and the last sensor input reaches the chip.  *)
(***************************************************************************)
EXTENDS SharedBuffers, TLAPS

Kind == {"hp", "lp"}
InUpdate == {"update", "apply", "handle", "commit", "emit"}
Locked == {"handle", "commit", "emit"}

\* The views are functions on the buffers.
ViewsInv ==
    /\ buffer = [b \in Buffers |-> buffer[b]]
    /\ seen = [b \in Buffers |-> seen[b]]

\* rw_mutex_ is held by the worker that is inside apply_update(), and by no other.
LockInv ==
    /\ \A w \in Receivers : wpc[w] \in Locked <=> rw = w
    /\ rw \in Receivers \cup {NoOne}

\* A worker inside an update has a message, whose halves are not 0, and the
\* handler's message is not 0 either, whichever worker wrote it.
MessageInv ==
    \A w \in Receivers : wpc[w] \in InUpdate =>
        LET k == msg[w].kind IN
        /\ k \in Kinds /\ msg[w].stamp # 0
        /\ handlerMsg[k][1] # 0
        /\ wpc[w] # "update" => handlerMsg[k][2] # 0

\* What was valid in a snapshot is valid in the database, and a buffer without
\* valid data is empty.
ValidInv ==
    /\ \A c \in Kind, k \in Kinds : IsValid(last[c], k) => IsValid(store, k)
    /\ \A b \in Buffers : ~SomeValid(b, store) =>
          buffer[b] = Project(b, EmptyStore) /\ seen[b] = Project(b, EmptyStore)

\* A buffer is as its last commit left it, and announced.
UpToDate(b) == buffer[b] = Project(b, last[CommitOf(b)]) /\ seen[b] = buffer[b]

\* While a commit is going on only the buffers still to do may be out of date.
CommitInv ==
    /\ (\A w \in Receivers : wpc[w] \notin {"commit", "emit"}) =>
          \A b \in Buffers : UpToDate(b)
    /\ \A w \in Receivers : wpc[w] \in {"commit", "emit"} =>
          /\ \E c \in Kind : snap[w] = last[c] /\ todo[w] \subseteq Refreshes[c]
          /\ snap[w] = store
          /\ \A b \in Buffers : b \notin todo[w] => UpToDate(b)
          /\ wpc[w] = "emit" =>
                \A b \in Buffers : Current(w, b) => buffer[b] = Project(b, snap[w])

BufferInv == ViewsInv /\ LockInv /\ MessageInv /\ ValidInv /\ CommitInv

IInv == TypeOK /\ BufferInv

\* A sensor thread between its two halves holds dr_in_mutex_; one inside the
\* slot holds the signal's mutex.
SensorLocks ==
    /\ \A s \in Sensors : spc[s] = "store" <=> drLock = s
    /\ \A s \in Sensors : spc[s] \in {"slot", "read", "read2"} <=> sig = s
    /\ \A s \in Sensors : spc[s] = "store" => drIn[1] = mine[s]
    /\ drLock = NoOne => drIn[1] = drIn[2]

\* Unless some thread is yet to read dead_reckoning_in_, a slot has read the
\* first half as it is now; and without any slot it was sent as it is now.
SensorInv ==
    (\A s \in Sensors : spc[s] \notin {"store", "emit", "slot", "read"}) =>
        /\ \A s \in Sensors : spc[s] = "read2" => meas[s][1] = drIn[1]
        /\ (\A s \in Sensors : spc[s] # "read2") => sent = drIn

-----------------------------------------------------------------------------
(* The tables of the code and what a projection depends on. *)

\* Every buffer is refreshed by one kind of commit.
LEMMA CommitTable ==
    /\ \A b \in Buffers, c \in Kind : b \in Refreshes[c] <=> CommitOf(b) = c
    /\ \A b \in Buffers : CommitOf(b) \in Kind
    /\ \A c \in Kind : Refreshes[c] \subseteq Buffers
BY DEF Buffers, Feeds, Refreshes, CommitOf, Kind

\* A commit looks at its buffers in an order.
LEMMA RankTable ==
    /\ \A b \in Buffers : Rank[b] \in Nat
    /\ \A c \in Kind : \A b1, b2 \in Refreshes[c] : Rank[b1] = Rank[b2] => b1 = b2
BY DEF Buffers, Feeds, Refreshes, Rank, Kind

LEMMA CommitKind == \A k : ShouldCommit(k) # "none" => ShouldCommit(k) \in Kind
BY DEF ShouldCommit, Kind

\* A buffer has the contents its type allows.
LEMMA ProjectType ==
    ASSUME NEW b \in Buffers, NEW s \in [Kinds -> Half]
    PROVE  Project(b, s) \in Contents(b)
BY DEF Project, Contents

LEMMA EmptyType == EmptyStore \in [Kinds -> Half] /\ Nothing \in Half
BY BoundsAssumption DEF EmptyStore, Nothing, Half, Stamps

\* Without valid data a buffer is empty.
LEMMA ProjectEmpty ==
    ASSUME NEW b \in Buffers, NEW s \in [Kinds -> Half], ~SomeValid(b, s)
    PROVE  Project(b, s) = Project(b, EmptyStore)
<1>1. ASSUME NEW k \in Feeds[b] \cap Kinds PROVE s[k] = EmptyStore[k]
  <2>1. \A h \in Halves : s[k][h] = 0
    BY DEF SomeValid, IsValid
  <2>2. s[k] \in [Halves -> Stamps]
    BY DEF Half
  <2>3. s[k] = [h \in Halves |-> 0]
    BY <2>1, <2>2
  <2>. QED BY <2>3 DEF EmptyStore, Nothing
<1>. QED BY <1>1 DEF Project

-----------------------------------------------------------------------------
LEMMA InitIInv == Init => IInv
<1>. SUFFICES ASSUME Init PROVE IInv
  OBVIOUS
<1>. USE DEF Init
<1>1. /\ \A b \in Buffers : buffer[b] = Project(b, EmptyStore)
      /\ seen = buffer
  OBVIOUS
<1>2. ViewsInv
  BY DEF ViewsInv
<1>3. TypeOK
  <2>1. \A b \in Buffers : buffer[b] \in Contents(b) /\ seen[b] \in Contents(b)
    BY <1>1, EmptyType, ProjectType
  <2>2. todo \in [Receivers -> (SUBSET Refreshes["hp"]) \cup (SUBSET Refreshes["lp"])]
    OBVIOUS
  <2>3. Nothing \in [Halves -> Inputs]
    BY BoundsAssumption DEF Nothing, Inputs
  <2>4. 0 \in Stamps /\ 0 \in Inputs
    BY BoundsAssumption DEF Stamps, Inputs
  <2>5. running \in [Receivers -> BOOLEAN]
    OBVIOUS
  <2>. HIDE DEF Init
  <2>6. msg \in [Receivers -> [kind : Kinds \cup {"none"}, stamp : Stamps]]
    BY <2>4 DEF Init, NoMessage
  <2>. QED BY <2>1, <2>2, <2>3, <2>4, <2>5, <2>6, EmptyType DEF TypeOK, Init
<1>4. LockInv
  BY ThreadsAssumption DEF LockInv, Locked
<1>5. MessageInv
  BY DEF MessageInv, InUpdate
<1>6. ValidInv
  <2>1. \A k \in Kinds : ~IsValid(EmptyStore, k)
    BY DEF IsValid, EmptyStore, Nothing
  <2>. QED BY <1>1, <2>1 DEF ValidInv, Kind
<1>7. CommitInv
  <2>1. \A b \in Buffers : last[CommitOf(b)] = EmptyStore
    BY CommitTable DEF Kind
  <2>. QED BY <1>1, <2>1 DEF CommitInv, UpToDate
<1>. QED BY <1>2, <1>3, <1>4, <1>5, <1>6, <1>7 DEF IInv, BufferInv

\* A step keeps every variable in its range.
LEMMA NextType == IInv /\ [Next]_vars => TypeOK' /\ ViewsInv'
<1>. SUFFICES ASSUME IInv, [Next]_vars PROVE TypeOK' /\ ViewsInv'
  OBVIOUS
<1>. USE DEF IInv, BufferInv
<1>. DEFINE Database == UNCHANGED dbVars
            Views == UNCHANGED viewVars
            Sensing == UNCHANGED <<sensorVars, sig>>
<1>1. ASSUME NEW w \in Receivers, NEW k \in Kinds, Receive(w, k)
      PROVE  TypeOK' /\ ViewsInv'
  <2>1. stamp' \in Stamps
    BY <1>1, BoundsAssumption DEF TypeOK, Receive, Stamps
  <2>2. handlerMsg' \in [Kinds -> Half]
    BY <1>1, <2>1 DEF TypeOK, Receive, Half, Halves
  <2>3. running' \in [Receivers -> BOOLEAN]
    BY <1>1 DEF TypeOK, Receive
  <2>4. msg' \in [Receivers -> [kind : Kinds \cup {"none"}, stamp : Stamps]]
    BY <1>1, <2>1 DEF TypeOK, Receive
  <2>. QED BY <1>1, <2>1, <2>2, <2>3, <2>4
       DEF TypeOK, ViewsInv, Receive, Goto, viewVars, controlVars, sensorVars
<1>2. ASSUME NEW w \in Receivers, UpdateRest(w)
      PROVE  TypeOK' /\ ViewsInv'
  <2>1. msg[w].kind \in Kinds /\ msg[w].stamp \in Stamps
    BY <1>2 DEF MessageInv, InUpdate, UpdateRest, TypeOK
  <2>2. handlerMsg' \in [Kinds -> Half]
    BY <1>2, <2>1 DEF TypeOK, UpdateRest, Half, Halves
  <2>3. running' \in [Receivers -> BOOLEAN]
    BY <1>2 DEF TypeOK, UpdateRest
  <2>. QED BY <1>2, <2>2, <2>3
       DEF TypeOK, ViewsInv, UpdateRest, Goto, viewVars, controlVars, sensorVars
<1>3. ASSUME NEW w \in Receivers, Apply(w)
      PROVE  TypeOK' /\ ViewsInv'
  <2>1. msg[w].kind \in Kinds
    BY <1>3 DEF MessageInv, InUpdate, Apply
  <2>2. store' \in [Kinds -> Half]
    BY <1>3, <2>1 DEF TypeOK, Apply, Half, Halves
  <2>3. running' \in [Receivers -> BOOLEAN]
    BY <1>3 DEF TypeOK, Apply
  <2>. QED BY <1>3, <2>2, <2>3
       DEF TypeOK, ViewsInv, Apply, Goto, viewVars, controlVars, sensorVars
<1>4. ASSUME NEW w \in Receivers, HandleRest(w)
      PROVE  TypeOK' /\ ViewsInv'
  <2>. DEFINE k == msg[w].kind
  <2>1. k \in Kinds
    BY <1>4 DEF MessageInv, InUpdate, HandleRest
  <2>2. store' \in [Kinds -> Half]
    BY <1>4, <2>1 DEF TypeOK, HandleRest, Half, Halves
  <2>3. running' \in [Receivers -> BOOLEAN]
    BY <1>4 DEF TypeOK, HandleRest
  <2>4. \A b \in Buffers : buffer'[b] \in Contents(b) /\ seen'[b] \in Contents(b)
    BY <1>4 DEF TypeOK, HandleRest, viewVars
  <2>5. CASE ShouldCommit(k) = "none"
    <3>1. 0 \in Stamps
      BY BoundsAssumption DEF Stamps
    <3>2. msg' \in [Receivers -> [kind : Kinds \cup {"none"}, stamp : Stamps]]
      <4>1. NoMessage \in [kind : Kinds \cup {"none"}, stamp : Stamps]
        BY <3>1 DEF NoMessage
      <4>2. msg' = [msg EXCEPT ![w] = NoMessage]
        BY <1>4, <2>5 DEF HandleRest
      <4>. QED BY <4>1, <4>2 DEF TypeOK
    <3>3. wpc' \in [Receivers -> {"idle", "update", "apply", "handle", "commit",
                                  "emit", "reply", "ended"}]
      <4>1. wpc' = [wpc EXCEPT ![w] = "idle"]
        BY <1>4, <2>5 DEF HandleRest, Goto
      <4>. QED BY <4>1 DEF TypeOK
    <3>4. rw' = NoOne /\ UNCHANGED <<snap, todo, last>>
      BY <1>4, <2>5 DEF HandleRest
    <3>5. UNCHANGED <<handlerMsg, stamp, viewVars, controlVars, sig, sensorVars>>
      BY <1>4 DEF HandleRest
    <3>. QED BY <2>2, <2>3, <2>4, <3>2, <3>3, <3>4, <3>5
         DEF TypeOK, ViewsInv, viewVars, controlVars, sensorVars
  <2>6. CASE ShouldCommit(k) # "none"
    <3>1. ShouldCommit(k) \in {"hp", "lp"}
      BY <2>6, CommitKind DEF Kind
    <3>2. StartCommit(w, ShouldCommit(k))
      BY <1>4, <2>6 DEF HandleRest
    <3>3. /\ snap' \in [Receivers -> [Kinds -> Half]]
          /\ last' \in [{"hp", "lp"} -> [Kinds -> Half]]
      BY <2>2, <3>1, <3>2 DEF TypeOK, StartCommit
    <3>4. todo' \in [Receivers -> (SUBSET Refreshes["hp"]) \cup (SUBSET Refreshes["lp"])]
      <4>. DEFINE new == {b \in Refreshes[ShouldCommit(k)] : Assigned(b, store')}
      <4>0. new \subseteq Refreshes[ShouldCommit(k)]
        OBVIOUS
      <4>. HIDE DEF new
      <4>1. new \in (SUBSET Refreshes["hp"]) \cup (SUBSET Refreshes["lp"])
        <5>. DEFINE c == ShouldCommit(k)
        <5>1. c = "hp" \/ c = "lp"
          BY <3>1
        <5>2. new \subseteq Refreshes[c]
          BY <4>0
        <5>. HIDE DEF c
        <5>. QED BY <5>1, <5>2
      <4>2. todo' = [todo EXCEPT ![w] = new]
        BY <3>2 DEF StartCommit, new
      <4>. QED BY <4>1, <4>2 DEF TypeOK
    <3>5. wpc' \in [Receivers -> {"idle", "update", "apply", "handle", "commit",
                                  "emit", "reply", "ended"}]
      BY <3>2 DEF TypeOK, StartCommit, Goto
    <3>6. UNCHANGED <<rw, msg>>
      BY <3>2 DEF StartCommit
    <3>7. UNCHANGED <<handlerMsg, stamp, viewVars, controlVars, sig, sensorVars>>
      BY <1>4 DEF HandleRest
    <3>. QED BY <2>2, <2>3, <2>4, <3>3, <3>4, <3>5, <3>6, <3>7
         DEF TypeOK, ViewsInv, viewVars, controlVars, sensorVars
  <2>. QED BY <2>5, <2>6
<1>5. ASSUME NEW w \in Receivers, NEW b \in Buffers, Assign(w, b)
      PROVE  TypeOK' /\ ViewsInv'
  <2>1. snap[w] \in [Kinds -> Half]
    BY DEF TypeOK
  <2>2. buffer' = [a \in Buffers |-> IF a = b THEN Project(b, snap[w]) ELSE buffer[a]]
    BY <1>5 DEF Assign, ViewsInv
  <2>3. \A a \in Buffers : buffer'[a] \in Contents(a) /\ seen'[a] \in Contents(a)
    BY <1>5, <2>1, <2>2, ProjectType DEF TypeOK, Assign
  <2>4. running' \in [Receivers -> BOOLEAN]
    BY <1>5 DEF TypeOK, Assign
  <2>5. todo' \in [Receivers -> (SUBSET Refreshes["hp"]) \cup (SUBSET Refreshes["lp"])]
    <3>1. todo[w] \ {b} \in (SUBSET Refreshes["hp"]) \cup (SUBSET Refreshes["lp"])
      BY DEF TypeOK
    <3>2. todo' = todo \/ todo' = [todo EXCEPT ![w] = @ \ {b}]
      BY <1>5 DEF Assign
    <3>. QED BY <3>1, <3>2 DEF TypeOK
  <2>6. ViewsInv'
    BY <1>5, <2>2 DEF ViewsInv, Assign
  <2>7. wpc' \in [Receivers -> {"idle", "update", "apply", "handle", "commit",
                                "emit", "reply", "ended"}]
    <3>1. wpc' = wpc \/ wpc' = [wpc EXCEPT ![w] = "emit"]
      BY <1>5 DEF Assign, Goto
    <3>. QED BY <3>1 DEF TypeOK
  <2>8. UNCHANGED <<running, msg, handlerMsg, rw, store, snap, last, stamp,
                    controlVars, sig, sensorVars>>
    BY <1>5 DEF Assign
  <2>. QED BY <2>3, <2>4, <2>5, <2>6, <2>7, <2>8
       DEF TypeOK, controlVars, sensorVars
<1>6. ASSUME NEW w \in Receivers, NEW b \in Buffers, Emit(w, b)
      PROVE  TypeOK' /\ ViewsInv'
  <2>2. seen' = [a \in Buffers |-> IF a = b THEN buffer[b] ELSE seen[a]]
    BY <1>6 DEF Emit, Notify, OnDataUpdated, ViewsInv
  <2>3. \A a \in Buffers : buffer'[a] \in Contents(a) /\ seen'[a] \in Contents(a)
    BY <1>6, <2>2 DEF TypeOK, Emit
  <2>4. running' \in [Receivers -> BOOLEAN]
    BY <1>6 DEF TypeOK, Emit
  <2>5. todo' \in [Receivers -> (SUBSET Refreshes["hp"]) \cup (SUBSET Refreshes["lp"])]
    <3>1. todo[w] \ {b} \in (SUBSET Refreshes["hp"]) \cup (SUBSET Refreshes["lp"])
      BY DEF TypeOK
    <3>2. todo' = todo \/ todo' = [todo EXCEPT ![w] = @ \ {b}]
      BY <1>6 DEF Emit
    <3>. QED BY <3>1, <3>2 DEF TypeOK
  <2>6. ViewsInv'
    BY <1>6, <2>2 DEF ViewsInv, Emit
  <2>7. wpc' \in [Receivers -> {"idle", "update", "apply", "handle", "commit",
                                "emit", "reply", "ended"}]
    BY <1>6 DEF TypeOK, Emit, Goto
  <2>8. UNCHANGED <<running, msg, handlerMsg, rw, store, snap, last, stamp,
                    controlVars, sig, sensorVars>>
    BY <1>6 DEF Emit
  <2>. QED BY <2>3, <2>4, <2>5, <2>6, <2>7, <2>8
       DEF TypeOK, controlVars, sensorVars
<1>7. ASSUME NEW w \in Receivers, CommitEnds(w)
      PROVE  TypeOK' /\ ViewsInv'
  <2>1. running' \in [Receivers -> BOOLEAN]
    BY <1>7 DEF TypeOK, CommitEnds
  <2>2. 0 \in Stamps
    BY BoundsAssumption DEF Stamps
  <2>. QED BY <1>7, <2>1, <2>2, EmptyType
       DEF TypeOK, ViewsInv, CommitEnds, Goto, NoMessage, viewVars, controlVars, sensorVars
<1>8. ASSUME NEW w \in Receivers, ReceiveReply(w)
      PROVE  TypeOK' /\ ViewsInv'
  <2>1. running' \in [Receivers -> BOOLEAN]
    BY <1>8 DEF TypeOK, ReceiveReply
  <2>2. stamp' \in Stamps
    BY <1>8, BoundsAssumption DEF TypeOK, ReceiveReply, Stamps
  <2>. QED BY <1>8, <2>1, <2>2
       DEF TypeOK, ViewsInv, ReceiveReply, Goto, viewVars, controlVars, sensorVars
<1>9. ASSUME NEW w \in Receivers, EmitReply(w) \/ WorkerExit(w)
      PROVE  TypeOK' /\ ViewsInv'
  <2>1. running' \in [Receivers -> BOOLEAN]
    BY <1>9 DEF TypeOK, EmitReply, WorkerExit
  <2>. QED BY <1>9, <2>1 DEF TypeOK, ViewsInv, EmitReply, WorkerExit, Goto, dbVars,
            viewVars, controlVars, sensorVars
<1>10. ASSUME NEW c \in Controllers, NEW command \in {"sync", "stop", "start"},
              Call(c, command)
       PROVE  TypeOK' /\ ViewsInv'
  <2>1. running' \in [Receivers -> BOOLEAN]
    BY <1>10 DEF TypeOK, Call, workerVars
  <2>. QED BY <1>10, <2>1 DEF TypeOK, ViewsInv, Call, workerVars, dbVars, viewVars, sensorVars
<1>11. ASSUME NEW c \in Controllers, ControlNext(c)
       PROVE  TypeOK' /\ ViewsInv'
  <2>. USE <1>11 DEF ControlNext
  <2>1. running' \in [Receivers -> BOOLEAN]
    BY DEF TypeOK, SyncEmit, StopSignal, StopJoin, StopEnds, Start, workerVars
  <2>2. cpc' \in [Controllers -> {"idle", "sync", "stop", "join", "start"}]
    BY DEF TypeOK, SyncEmit, StopSignal, StopJoin, StopEnds, Start, Return
  <2>3. cmd' \in Controllers \cup {NoOne}
    BY DEF TypeOK, SyncEmit, StopSignal, StopJoin, StopEnds, Start, Return
  <2>4. wpc' \in [Receivers -> {"idle", "update", "apply", "handle", "commit",
                                "emit", "reply", "ended"}]
    BY DEF TypeOK, SyncEmit, StopSignal, StopJoin, StopEnds, Start, workerVars
  <2>5. UNCHANGED <<msg, dbVars, viewVars, sig, sensorVars>>
    BY DEF SyncEmit, StopSignal, StopJoin, StopEnds, Start, workerVars
  <2>. QED BY <2>1, <2>2, <2>3, <2>4, <2>5 DEF TypeOK, ViewsInv, dbVars, viewVars, sensorVars
<1>12. ASSUME NEW s \in Sensors, StoreFirst(s) \/ SensorNext(s)
       PROVE  TypeOK' /\ ViewsInv'
  <2>. USE <1>12 DEF SensorNext
  <2>1. UNCHANGED <<workerVars, dbVars, viewVars, controlVars>>
    BY DEF StoreFirst, StoreRest, SensorEmit, SlotGet, SlotRead, SlotSend
  <2>2. running' \in [Receivers -> BOOLEAN]
    BY <2>1 DEF TypeOK, workerVars
  <2>3. 0 \in Inputs /\ Nothing \in [Halves -> Inputs]
    BY BoundsAssumption DEF Nothing, Inputs
  <2>4. /\ spc' \in [Sensors -> {"idle", "store", "emit", "slot", "read", "read2"}]
        /\ drLock' \in Sensors \cup {NoOne} /\ sig' \in Sensors \cup {NoOne}
    BY DEF TypeOK, StoreFirst, StoreRest, SensorEmit, SlotGet, SlotRead, SlotSend, SensorAt
  <2>5. /\ input' \in Inputs
        /\ mine' \in [Sensors -> Inputs]
        /\ drIn' \in [Halves -> Inputs]
    <3>1. CASE StoreFirst(s)
      <4>1. input' \in Inputs
        BY <3>1, BoundsAssumption DEF TypeOK, StoreFirst, Inputs
      <4>. QED BY <3>1, <4>1 DEF TypeOK, StoreFirst, Halves
    <3>2. CASE StoreRest(s)
      <4>1. mine[s] \in Inputs
        BY DEF TypeOK
      <4>2. input' \in Inputs
        BY <3>2 DEF TypeOK, StoreRest
      <4>3. mine' \in [Sensors -> Inputs]
        BY <3>2, <2>3 DEF TypeOK, StoreRest
      <4>4. drIn' \in [Halves -> Inputs]
        BY <3>2, <4>1 DEF TypeOK, StoreRest
      <4>. QED BY <4>2, <4>3, <4>4
    <3>3. CASE SensorEmit(s) \/ SlotGet(s)
      BY <3>3 DEF TypeOK, SensorEmit, SlotGet
    <3>4. CASE SlotRead(s) \/ SlotSend(s)
      BY <3>4 DEF TypeOK, SlotRead, SlotSend
    <3>. QED BY <3>1, <3>2, <3>3, <3>4
  <2>6. meas' \in [Sensors -> [Halves -> Inputs]] /\ sent' \in [Halves -> Inputs]
    <3>1. drIn[1] \in Inputs /\ drIn[2] \in Inputs /\ meas[s] \in [Halves -> Inputs]
      BY DEF TypeOK, Halves
    <3>2. CASE SlotRead(s)
      BY <3>1, <3>2 DEF TypeOK, SlotRead, Halves
    <3>3. CASE SlotSend(s)
      <4>1. [meas[s] EXCEPT ![2] = drIn[2]] \in [Halves -> Inputs]
        BY <3>1 DEF Halves
      <4>2. [meas EXCEPT ![s] = Nothing] \in [Sensors -> [Halves -> Inputs]]
        BY <2>3 DEF TypeOK
      <4>. QED BY <3>3, <4>1, <4>2 DEF SlotSend
    <3>4. CASE ~SlotRead(s) /\ ~SlotSend(s)
      BY <3>4 DEF TypeOK, StoreFirst, StoreRest, SensorEmit, SlotGet
    <3>. QED BY <3>2, <3>3, <3>4
  <2>. QED BY <2>1, <2>2, <2>4, <2>5, <2>6
       DEF TypeOK, ViewsInv, workerVars, dbVars, viewVars, controlVars
<1>13. ASSUME UNCHANGED vars
       PROVE  TypeOK' /\ ViewsInv'
  <2>1. running' \in [Receivers -> BOOLEAN]
    BY <1>13 DEF TypeOK, vars, workerVars
  <2>. QED BY <1>13, <2>1 DEF TypeOK, ViewsInv, vars, workerVars, dbVars, viewVars,
            controlVars, sensorVars
<1>. QED BY <1>1, <1>2, <1>3, <1>4, <1>5, <1>6, <1>7, <1>8, <1>9, <1>10, <1>11,
            <1>12, <1>13 DEF Next, WorkerNext

-----------------------------------------------------------------------------
(* rw_mutex_ and the handlers' messages. *)

LEMMA LockStep == IInv /\ [Next]_vars => LockInv'
<1>. SUFFICES ASSUME IInv, [Next]_vars PROVE LockInv'
  OBVIOUS
<1>. USE DEF IInv, BufferInv, LockInv, Locked
<1>. DEFINE NewLock == \/ UNCHANGED <<wpc, rw>>
                       \/ \E w \in Receivers, p \in {"update", "idle", "apply", "reply", "ended"} :
                             wpc[w] \notin Locked /\ wpc' = [wpc EXCEPT ![w] = p] /\ rw' = rw
                       \/ \E w \in Receivers, p \in {"commit", "emit"} :
                             wpc[w] \in Locked /\ wpc' = [wpc EXCEPT ![w] = p] /\ rw' = rw
                       \/ \E w \in Receivers :
                             rw = NoOne /\ wpc' = [wpc EXCEPT ![w] = "handle"] /\ rw' = w
                       \/ \E w \in Receivers :
                             wpc[w] \in Locked /\ wpc' = [wpc EXCEPT ![w] = "idle"] /\ rw' = NoOne
<1>1. ASSUME NEW w \in Receivers, NEW k \in Kinds, Receive(w, k) PROVE NewLock
  BY <1>1 DEF Receive, Goto
<1>2. ASSUME NEW w \in Receivers, WorkerNext(w) \/ ReceiveReply(w) PROVE NewLock
  <2>1. CASE UpdateRest(w) \/ EmitReply(w) \/ WorkerExit(w) \/ ReceiveReply(w)
    BY <2>1 DEF UpdateRest, EmitReply, WorkerExit, ReceiveReply, Goto, dbVars
  <2>2. CASE Apply(w)
    BY <2>2 DEF Apply, Goto
  <2>3. CASE HandleRest(w)
    BY <2>3 DEF HandleRest, StartCommit, Goto
  <2>4. ASSUME NEW b \in Buffers, Assign(w, b) \/ Emit(w, b) PROVE NewLock
    BY <2>4 DEF Assign, Emit, Goto
  <2>5. CASE CommitEnds(w)
    BY <2>5 DEF CommitEnds, Goto
  <2>. QED BY <1>2, <2>1, <2>2, <2>3, <2>4, <2>5 DEF WorkerNext
<1>3. ASSUME NEW c \in Controllers, ControlNext(c), ~Start(c) PROVE NewLock
  BY <1>3 DEF ControlNext, SyncEmit, StopSignal, StopJoin, StopEnds, workerVars, dbVars
<1>4. ASSUME NEW c \in Controllers, Start(c) PROVE LockInv'
  BY <1>4 DEF Start, dbVars
<1>5. ASSUME NEW c \in Controllers, NEW command \in {"sync", "stop", "start"},
             Call(c, command)
      PROVE  NewLock
  BY <1>5 DEF Call, workerVars, dbVars
<1>6. ASSUME NEW s \in Sensors, StoreFirst(s) \/ SensorNext(s) PROVE NewLock
  BY <1>6 DEF StoreFirst, SensorNext, StoreRest, SensorEmit, SlotGet, SlotRead,
              SlotSend, workerVars, dbVars
<1>7. ASSUME UNCHANGED vars PROVE NewLock
  BY <1>7 DEF vars, workerVars, dbVars
<1>8. wpc \in [Receivers -> {"idle", "update", "apply", "handle", "commit",
                             "emit", "reply", "ended"}]
  BY DEF TypeOK
<1>9. NewLock => LockInv'
  BY <1>8, ThreadsAssumption
<1>. QED BY <1>1, <1>2, <1>3, <1>4, <1>5, <1>6, <1>7, <1>9 DEF Next

LEMMA MessageStep == IInv /\ [Next]_vars => MessageInv'
<1>. SUFFICES ASSUME IInv, [Next]_vars PROVE MessageInv'
  OBVIOUS
<1>. USE DEF IInv, BufferInv, MessageInv, InUpdate
<1>0. /\ wpc \in [Receivers -> {"idle", "update", "apply", "handle", "commit",
                                "emit", "reply", "ended"}]
      /\ msg \in [Receivers -> [kind : Kinds \cup {"none"}, stamp : Stamps]]
      /\ handlerMsg \in [Kinds -> Half] /\ stamp \in Stamps
  BY DEF TypeOK
<1>1. ASSUME NEW w \in Receivers, NEW k \in Kinds, Receive(w, k) PROVE MessageInv'
  <2>1. stamp' # 0
    BY <1>0, <1>1, BoundsAssumption DEF Receive, Stamps
  <2>2. /\ msg' = [msg EXCEPT ![w] = [kind |-> k, stamp |-> stamp']]
        /\ handlerMsg' = [handlerMsg EXCEPT ![k][1] = stamp']
        /\ wpc' = [wpc EXCEPT ![w] = "update"]
    BY <1>1 DEF Receive, Goto
  <2>3. \A j \in Kinds : /\ handlerMsg[j][1] # 0 => handlerMsg'[j][1] # 0
                         /\ handlerMsg'[j][2] = handlerMsg[j][2]
                         /\ handlerMsg'[k][1] # 0
    BY <1>0, <2>1, <2>2 DEF Half, Halves
  <2>. QED BY <1>0, <2>1, <2>2, <2>3
<1>2. ASSUME NEW w \in Receivers, UpdateRest(w) PROVE MessageInv'
  <2>1. msg[w].kind \in Kinds /\ msg[w].stamp # 0 /\ wpc[w] = "update"
    BY <1>2 DEF UpdateRest
  <2>2. /\ handlerMsg' = [handlerMsg EXCEPT ![msg[w].kind][2] = msg[w].stamp]
        /\ wpc' = [wpc EXCEPT ![w] = "apply"]
        /\ msg' = msg
    BY <1>2 DEF UpdateRest, Goto
  <2>3. \A j \in Kinds : /\ handlerMsg[j][2] # 0 => handlerMsg'[j][2] # 0
                         /\ handlerMsg'[j][1] = handlerMsg[j][1]
                         /\ handlerMsg'[msg[w].kind][2] # 0
    BY <1>0, <2>1, <2>2 DEF Half, Halves
  <2>. QED BY <1>0, <2>1, <2>2, <2>3
<1>. DEFINE NoNews ==
       /\ handlerMsg' = handlerMsg
       /\ \A v \in Receivers : wpc'[v] \in InUpdate =>
             /\ wpc[v] \in InUpdate /\ msg'[v] = msg[v]
             /\ wpc[v] = "update" => wpc'[v] = "update"
<1>3. ASSUME NEW w \in Receivers, WorkerNext(w) \/ ReceiveReply(w), ~UpdateRest(w)
      PROVE  NoNews
  <2>1. CASE EmitReply(w) \/ WorkerExit(w) \/ ReceiveReply(w)
    BY <1>0, <2>1 DEF EmitReply, WorkerExit, ReceiveReply, Goto, dbVars
  <2>2. CASE Apply(w)
    BY <1>0, <2>2 DEF Apply, Goto
  <2>3. CASE HandleRest(w)
    BY <1>0, <2>3 DEF HandleRest, StartCommit, Goto
  <2>4. ASSUME NEW b \in Buffers, Assign(w, b) \/ Emit(w, b) PROVE NoNews
    BY <1>0, <2>4 DEF Assign, Emit, Goto
  <2>5. CASE CommitEnds(w)
    BY <1>0, <2>5 DEF CommitEnds, Goto
  <2>. QED BY <1>3, <2>1, <2>2, <2>3, <2>4, <2>5 DEF WorkerNext
<1>4. ASSUME NEW c \in Controllers, ControlNext(c) PROVE NoNews
  BY <1>0, <1>4 DEF ControlNext, SyncEmit, StopSignal, StopJoin, StopEnds, Start, workerVars, dbVars
<1>5. ASSUME NEW c \in Controllers, NEW command \in {"sync", "stop", "start"},
             Call(c, command)
      PROVE  NoNews
  BY <1>5 DEF Call, workerVars, dbVars
<1>6. ASSUME NEW s \in Sensors, StoreFirst(s) \/ SensorNext(s) PROVE NoNews
  BY <1>6 DEF StoreFirst, SensorNext, StoreRest, SensorEmit, SlotGet, SlotRead,
              SlotSend, workerVars, dbVars
<1>7. ASSUME UNCHANGED vars PROVE NoNews
  BY <1>7 DEF vars, workerVars, dbVars
<1>8. NoNews => MessageInv'
  OBVIOUS
<1>. QED BY <1>1, <1>2, <1>3, <1>4, <1>5, <1>6, <1>7, <1>8 DEF Next

-----------------------------------------------------------------------------
(* The buffers.  A change to them is made by the worker that holds rw_mutex_. *)

\* Of the steps, the ones that leave the database and the views alone and take
\* no worker into or out of a commit, keep the invariant.
LEMMA QuietStep ==
    ASSUME IInv, UNCHANGED <<store, snap, todo, last, buffer, seen>>,
           wpc' \in [Receivers -> {"idle", "update", "apply", "handle", "commit",
                                   "emit", "reply", "ended"}],
           \A w \in Receivers : \/ wpc'[w] = wpc[w]
                                \/ {wpc[w], wpc'[w]} \cap {"commit", "emit"} = {}
    PROVE  ValidInv' /\ CommitInv'
<1>1. ValidInv'
  BY DEF IInv, BufferInv, ValidInv, SomeValid, IsValid
<1>2. \A b \in Buffers : UpToDate(b)' <=> UpToDate(b)
  BY DEF UpToDate, Project
<1>3. \A w \in Receivers, b \in Buffers : Current(w, b)' <=> Current(w, b)
  BY DEF Current
<1>4. \A w \in Receivers : /\ wpc'[w] \in {"commit", "emit"} <=> wpc[w] \in {"commit", "emit"}
                           /\ wpc'[w] = "emit" <=> wpc[w] = "emit"
  OBVIOUS
<1>5. \A b \in Buffers, w \in Receivers : Project(b, snap[w])' = Project(b, snap[w])
  BY DEF Project
<1>6. (\A w \in Receivers : wpc'[w] \notin {"commit", "emit"}) =>
          \A b \in Buffers : UpToDate(b)'
  BY <1>2, <1>4 DEF IInv, BufferInv, CommitInv
<1>7. ASSUME NEW w \in Receivers, wpc'[w] \in {"commit", "emit"}
      PROVE  /\ \E c \in Kind : snap'[w] = last'[c] /\ todo'[w] \subseteq Refreshes[c]
             /\ snap'[w] = store'
             /\ \A b \in Buffers : b \notin todo'[w] => UpToDate(b)'
             /\ wpc'[w] = "emit" =>
                   \A b \in Buffers : Current(w, b)' => buffer'[b] = Project(b, snap[w])'
  BY <1>2, <1>3, <1>4, <1>5, <1>7 DEF IInv, BufferInv, CommitInv
<1>. QED BY <1>1, <1>6, <1>7 DEF CommitInv

\* handle() overwrites one half of a message, with a half that is not 0.
LEMMA StoreGrows ==
    ASSUME IInv, NEW w \in Receivers, Apply(w) \/ HandleRest(w)
    PROVE  /\ store' \in [Kinds -> Half]
           /\ \A j \in Kinds : IsValid(store, j) => IsValid(store', j)
           /\ \A b \in Buffers : SomeValid(b, store) => SomeValid(b, store')
<1>. DEFINE k == msg[w].kind
<1>1. /\ k \in Kinds /\ handlerMsg[k][1] \in Stamps \ {0}
      /\ handlerMsg[k][2] \in Stamps \ {0}
  BY DEF IInv, BufferInv, MessageInv, InUpdate, TypeOK, Apply, HandleRest, Half, Halves
<1>2. \E h \in Halves, x \in Stamps \ {0} : store' = [store EXCEPT ![k][h] = x]
  BY <1>1 DEF Apply, HandleRest, Halves
<1>3. store \in [Kinds -> Half]
  BY DEF IInv, TypeOK
<1>. HIDE DEF k
<1>4. PICK h \in Halves, x \in Stamps \ {0} : store' = [store EXCEPT ![k][h] = x]
  BY <1>2
<1>5. store' \in [Kinds -> Half] /\ \A j \in Kinds : IsValid(store, j) => IsValid(store', j)
  <2>. DEFINE t == [store EXCEPT ![k][h] = x]
  <2>1. t \in [Kinds -> Half]
    BY <1>1, <1>3 DEF Half
  <2>2. \A j \in Kinds, g \in Halves : store[j][g] # 0 => t[j][g] # 0
    BY <1>1, <1>3 DEF Half, Stamps
  <2>. QED BY <1>4, <2>1, <2>2 DEF IsValid
<1>. QED BY <1>5 DEF SomeValid

\* The holder of rw_mutex_ is alone in apply_update().
LEMMA OneHolder ==
    ASSUME IInv, NEW w \in Receivers, wpc[w] \in Locked
    PROVE  \A v \in Receivers \ {w} : wpc[v] \notin Locked
BY DEF IInv, BufferInv, LockInv

LEMMA ApplyStep ==
    ASSUME IInv, NEW w \in Receivers, Apply(w)
    PROVE  ValidInv' /\ CommitInv'
<1>1. /\ UNCHANGED <<snap, todo, last, buffer, seen>>
      /\ wpc' = [wpc EXCEPT ![w] = "handle"] /\ wpc[w] = "apply" /\ rw = NoOne
  BY DEF Apply, Goto, viewVars
<1>2. \A v \in Receivers : wpc[v] \notin Locked
  BY <1>1, ThreadsAssumption DEF IInv, BufferInv, LockInv
<1>3. ValidInv'
  <2>1. /\ \A c \in Kind, j \in Kinds : IsValid(last[c], j) => IsValid(store, j)
        /\ \A b \in Buffers : ~SomeValid(b, store) =>
              buffer[b] = Project(b, EmptyStore) /\ seen[b] = Project(b, EmptyStore)
    BY DEF IInv, BufferInv, ValidInv
  <2>. QED BY <1>1, <2>1, StoreGrows DEF ValidInv
<1>4. \A v \in Receivers : wpc[v] \notin {"commit", "emit"} /\ wpc'[v] \notin {"commit", "emit"}
  BY <1>1, <1>2 DEF IInv, TypeOK, Locked
<1>5. \A b \in Buffers : UpToDate(b)'
  BY <1>1, <1>4 DEF UpToDate, IInv, BufferInv, CommitInv
<1>. QED BY <1>3, <1>4, <1>5 DEF CommitInv

LEMMA HandleStep ==
    ASSUME IInv, NEW w \in Receivers, HandleRest(w), TypeOK'
    PROVE  ValidInv' /\ CommitInv'
<1>. DEFINE c == ShouldCommit(msg[w].kind)
<1>1. wpc[w] = "handle" /\ UNCHANGED <<buffer, seen>>
  BY DEF HandleRest, viewVars
<1>2. \A v \in Receivers : wpc[v] \notin {"commit", "emit"}
  BY <1>1, OneHolder DEF Locked
<1>3. \A b \in Buffers : UpToDate(b)
  BY <1>2 DEF IInv, BufferInv, CommitInv
<1>4. \A b \in Buffers : ~SomeValid(b, store') =>
          buffer[b] = Project(b, EmptyStore) /\ seen[b] = Project(b, EmptyStore)
  BY StoreGrows DEF IInv, BufferInv, ValidInv
<1>5. \A d \in Kind, j \in Kinds : IsValid(last[d], j) => IsValid(store', j)
  BY StoreGrows DEF IInv, BufferInv, ValidInv
<1>6. CASE c = "none"
  <2>1. wpc' = [wpc EXCEPT ![w] = "idle"] /\ UNCHANGED <<snap, todo, last>>
    BY <1>6 DEF HandleRest, Goto
  <2>2. ValidInv'
    BY <1>1, <1>4, <1>5, <2>1 DEF ValidInv
  <2>3. \A v \in Receivers : wpc'[v] \notin {"commit", "emit"}
    BY <1>2, <2>1 DEF IInv, TypeOK
  <2>4. \A b \in Buffers : UpToDate(b)'
    BY <1>1, <1>3, <2>1 DEF UpToDate
  <2>. QED BY <2>2, <2>3, <2>4 DEF CommitInv
<1>7. CASE c # "none"
  <2>1. c \in Kind
    BY <1>7, CommitKind
  <2>2. StartCommit(w, c)
    BY <1>7 DEF HandleRest
  <2>. HIDE DEF c
  <2>. DEFINE new == {b \in Refreshes[c] : Assigned(b, store')}
  <2>3. /\ snap' = [snap EXCEPT ![w] = store'] /\ last' = [last EXCEPT ![c] = store']
        /\ todo' = [todo EXCEPT ![w] = new] /\ wpc' = [wpc EXCEPT ![w] = "commit"]
    BY <2>2 DEF StartCommit, Goto
  <2>4. /\ snap'[w] = store' /\ last'[c] = store' /\ todo'[w] = new
        /\ wpc'[w] = "commit" /\ \A v \in Receivers \ {w} : wpc'[v] = wpc[v]
        /\ \A d \in Kind \ {c} : last'[d] = last[d]
    BY <2>1, <2>3 DEF IInv, TypeOK, Kind
  <2>5. ValidInv'
    BY <1>1, <1>4, <1>5, <2>1, <2>4 DEF ValidInv
  <2>6. ASSUME NEW b \in Buffers, b \notin todo'[w] PROVE UpToDate(b)'
    <3>1. CASE CommitOf(b) = c
      <4>1. b \in Refreshes[c]
        BY <2>1, <3>1, CommitTable
      <4>2. ~SomeValid(b, store')
        BY <2>4, <2>6, <4>1 DEF Assigned
      <4>3. Project(b, store') = Project(b, EmptyStore)
        BY <4>2, ProjectEmpty, StoreGrows
      <4>4. buffer[b] = Project(b, EmptyStore) /\ seen[b] = Project(b, EmptyStore)
        BY <1>4, <4>2
      <4>. QED BY <1>1, <2>4, <3>1, <4>3, <4>4 DEF UpToDate
    <3>2. CASE CommitOf(b) # c
      <4>1. last'[CommitOf(b)] = last[CommitOf(b)]
        BY <2>4, <3>2, CommitTable
      <4>. QED BY <1>1, <1>3, <4>1 DEF UpToDate
    <3>. QED BY <3>1, <3>2
  <2>7. new \subseteq Refreshes[c]
    OBVIOUS
  <2>8. CommitInv'
    <3>. HIDE DEF new
    <3>. QED BY <1>2, <2>1, <2>4, <2>6, <2>7 DEF CommitInv
  <2>. QED BY <2>5, <2>8
<1>. QED BY <1>6, <1>7

\* What CommitInv says of the worker that is inside a commit.
LEMMA AtCommit ==
    ASSUME IInv, NEW w \in Receivers, wpc[w] \in {"commit", "emit"}
    PROVE  /\ \A b \in todo[w] : snap[w] = last[CommitOf(b)]
           /\ snap[w] = store
           /\ \A b \in Buffers : b \notin todo[w] => UpToDate(b)
           /\ \A b1, b2 \in todo[w] : Current(w, b1) /\ Current(w, b2) => b1 = b2
<1>1. PICK c \in Kind : snap[w] = last[c] /\ todo[w] \subseteq Refreshes[c]
  BY DEF IInv, BufferInv, CommitInv
<1>2. \A b \in todo[w] : snap[w] = last[CommitOf(b)]
  BY <1>1, CommitTable
<1>3. ASSUME NEW b1 \in todo[w], NEW b2 \in todo[w], Current(w, b1), Current(w, b2)
      PROVE  b1 = b2
  <2>1. Rank[b1] \in Nat /\ Rank[b2] \in Nat /\ b1 \in Refreshes[c] /\ b2 \in Refreshes[c]
    BY <1>1, CommitTable, RankTable
  <2>2. Rank[b1] <= Rank[b2] /\ Rank[b2] <= Rank[b1]
    BY <1>3 DEF Current
  <2>. QED BY <2>1, <2>2, RankTable
<1>. QED BY <1>2, <1>3 DEF IInv, BufferInv, CommitInv

LEMMA AssignStep ==
    ASSUME IInv, NEW w \in Receivers, NEW b \in Buffers, Assign(w, b)
    PROVE  ValidInv' /\ CommitInv'
<1>1. /\ wpc[w] = "commit" /\ Current(w, b) /\ b \in todo[w]
      /\ UNCHANGED <<store, snap, last, seen>>
  BY DEF Assign, Current
<1>2. buffer' = [a \in Buffers |-> IF a = b THEN Project(b, snap[w]) ELSE buffer[a]]
  BY DEF Assign, IInv, BufferInv, ViewsInv
<1>3. /\ snap[w] = store /\ store \in [Kinds -> Half]
      /\ snap[w] = last[CommitOf(b)]
  BY <1>1, AtCommit DEF IInv, TypeOK
<1>4. \A v \in Receivers \ {w} : wpc[v] \notin {"commit", "emit"}
  BY <1>1, OneHolder DEF Locked
<1>5. ~SomeValid(b, store) => Project(b, snap[w]) = Project(b, EmptyStore)
                              /\ seen[b] = Project(b, EmptyStore)
  BY <1>3, ProjectEmpty DEF IInv, BufferInv, ValidInv
<1>6. ValidInv'
  <2>1. \A a \in Buffers : ~SomeValid(a, store') =>
          buffer'[a] = Project(a, EmptyStore) /\ seen'[a] = Project(a, EmptyStore)
    BY <1>1, <1>2, <1>5 DEF IInv, BufferInv, ValidInv
  <2>. QED BY <1>1, <2>1 DEF ValidInv, IInv, BufferInv
<1>7. \A a \in Buffers \ {b} : UpToDate(a) => UpToDate(a)'
  BY <1>1, <1>2 DEF UpToDate
<1>8. CASE Announced(b, snap[w])
  <2>1. wpc' = [wpc EXCEPT ![w] = "emit"] /\ todo' = todo
    BY <1>8 DEF Assign, Goto
  <2>2. \A v \in Receivers \ {w} : wpc'[v] \notin {"commit", "emit"}
    BY <1>4, <2>1 DEF IInv, TypeOK
  <2>3. wpc'[w] = "emit"
    BY <2>1 DEF IInv, TypeOK
  <2>4. \A a \in Buffers : a \notin todo'[w] => UpToDate(a)'
    BY <1>1, <1>7, <2>1, AtCommit
  <2>5. \A a \in Buffers : Current(w, a)' => buffer'[a] = Project(a, snap'[w])
    <3>1. ASSUME NEW a \in Buffers, Current(w, a)' PROVE a = b
      <4>1. Current(w, a) /\ a \in todo[w]
        BY <2>1, <3>1 DEF Current
      <4>. QED BY <1>1, <4>1, AtCommit
    <3>. QED BY <1>1, <1>2, <3>1
  <2>6. \E c \in Kind : snap'[w] = last'[c] /\ todo'[w] \subseteq Refreshes[c]
    BY <1>1, <2>1 DEF IInv, BufferInv, CommitInv
  <2>. QED BY <1>1, <1>3, <1>6, <2>2, <2>3, <2>4, <2>5, <2>6 DEF CommitInv
<1>9. CASE ~Announced(b, snap[w])
  <2>1. wpc' = wpc /\ todo' = [todo EXCEPT ![w] = @ \ {b}]
    BY <1>9 DEF Assign
  <2>2. todo'[w] = todo[w] \ {b}
    BY <2>1 DEF IInv, TypeOK
  <2>3. UpToDate(b)'
    BY <1>1, <1>2, <1>3, <1>5, <1>9 DEF UpToDate, Announced
  <2>4. \A a \in Buffers : a \notin todo'[w] => UpToDate(a)'
    BY <1>1, <1>7, <2>2, <2>3, AtCommit
  <2>5. \E c \in Kind : snap'[w] = last'[c] /\ todo'[w] \subseteq Refreshes[c]
    BY <1>1, <2>2 DEF IInv, BufferInv, CommitInv
  <2>. QED BY <1>1, <1>3, <1>4, <1>6, <2>1, <2>4, <2>5 DEF CommitInv
<1>. QED BY <1>8, <1>9

LEMMA EmitStep ==
    ASSUME IInv, NEW w \in Receivers, NEW b \in Buffers, Emit(w, b)
    PROVE  ValidInv' /\ CommitInv'
<1>1. /\ wpc[w] = "emit" /\ Current(w, b) /\ b \in todo[w]
      /\ UNCHANGED <<store, snap, last, buffer>>
      /\ wpc' = [wpc EXCEPT ![w] = "commit"]
      /\ todo' = [todo EXCEPT ![w] = @ \ {b}]
  BY DEF Emit, Current, Goto
<1>2. seen' = [a \in Buffers |-> IF a = b THEN buffer[b] ELSE seen[a]]
  BY DEF Emit, Notify, OnDataUpdated, IInv, BufferInv, ViewsInv
<1>3. snap[w] = store /\ snap[w] = last[CommitOf(b)]
  BY <1>1, AtCommit
<1>4. buffer[b] = Project(b, snap[w])
  BY <1>1 DEF IInv, BufferInv, CommitInv
<1>5. ValidInv'
  BY <1>1, <1>2 DEF IInv, BufferInv, ValidInv
<1>6. \A v \in Receivers \ {w} : wpc'[v] \notin {"commit", "emit"}
  BY <1>1, OneHolder DEF Locked, IInv, TypeOK
<1>7. wpc'[w] = "commit" /\ todo'[w] = todo[w] \ {b}
  BY <1>1 DEF IInv, TypeOK
<1>8. \A a \in Buffers : a \notin todo'[w] => UpToDate(a)'
  <2>1. UpToDate(b)'
    BY <1>1, <1>2, <1>3, <1>4 DEF UpToDate
  <2>2. \A a \in Buffers \ {b} : UpToDate(a) => UpToDate(a)'
    BY <1>1, <1>2 DEF UpToDate
  <2>. QED BY <1>1, <1>7, <2>1, <2>2, AtCommit
<1>9. \E c \in Kind : snap'[w] = last'[c] /\ todo'[w] \subseteq Refreshes[c]
  BY <1>1, <1>7 DEF IInv, BufferInv, CommitInv
<1>. QED BY <1>1, <1>3, <1>5, <1>6, <1>7, <1>8, <1>9 DEF CommitInv

LEMMA EndStep ==
    ASSUME IInv, NEW w \in Receivers, CommitEnds(w)
    PROVE  ValidInv' /\ CommitInv'
<1>1. /\ wpc[w] = "commit" /\ todo[w] = {}
      /\ UNCHANGED <<store, last, buffer, seen>>
      /\ wpc' = [wpc EXCEPT ![w] = "idle"]
  BY DEF CommitEnds, Goto, viewVars
<1>2. ValidInv'
  BY <1>1 DEF IInv, BufferInv, ValidInv
<1>3. \A v \in Receivers : wpc'[v] \notin {"commit", "emit"}
  BY <1>1, OneHolder DEF Locked, IInv, TypeOK
<1>4. \A b \in Buffers : UpToDate(b)'
  BY <1>1, AtCommit DEF UpToDate
<1>. QED BY <1>2, <1>3, <1>4 DEF CommitInv

LEMMA NextIInv == IInv /\ [Next]_vars => IInv'
<1>. SUFFICES ASSUME IInv, [Next]_vars PROVE IInv'
  OBVIOUS
<1>1. TypeOK' /\ ViewsInv' /\ LockInv' /\ MessageInv'
  BY NextType, LockStep, MessageStep
<1>2. wpc' \in [Receivers -> {"idle", "update", "apply", "handle", "commit",
                              "emit", "reply", "ended"}]
  BY <1>1 DEF TypeOK
<1>. DEFINE Quiet == /\ UNCHANGED <<store, snap, todo, last, buffer, seen>>
                     /\ \A w \in Receivers :
                           \/ wpc'[w] = wpc[w]
                           \/ {wpc[w], wpc'[w]} \cap {"commit", "emit"} = {}
<1>3. Quiet => ValidInv' /\ CommitInv'
  BY <1>2, QuietStep
<1>4. ASSUME NEW w \in Receivers,
             (\E k \in Kinds : Receive(w, k)) \/ ReceiveReply(w) \/ UpdateRest(w)
                \/ EmitReply(w) \/ WorkerExit(w)
      PROVE  Quiet
  <2>1. /\ UNCHANGED <<store, snap, todo, last, buffer, seen>>
        /\ wpc[w] \notin {"commit", "emit"}
        /\ \E p \in {"idle", "update", "apply", "reply", "ended"} :
              wpc' = [wpc EXCEPT ![w] = p]
    BY <1>4 DEF Receive, ReceiveReply, UpdateRest, EmitReply, WorkerExit, Goto, dbVars,
                viewVars
  <2>. QED BY <2>1 DEF IInv, TypeOK
<1>5. ASSUME NEW c \in Controllers, ControlNext(c) PROVE Quiet
  <2>1. UNCHANGED <<store, snap, todo, last, buffer, seen>>
    BY <1>5 DEF ControlNext, SyncEmit, StopSignal, StopJoin, StopEnds, Start, dbVars, viewVars
  <2>2. wpc' = wpc \/ wpc' = [w \in Receivers |-> IF wpc[w] = "ended" THEN "idle" ELSE wpc[w]]
    BY <1>5 DEF ControlNext, SyncEmit, StopSignal, StopJoin, StopEnds, Start, workerVars
  <2>. QED BY <2>1, <2>2
<1>6. ASSUME NEW c \in Controllers, NEW command \in {"sync", "stop", "start"},
             Call(c, command)
      PROVE  Quiet
  BY <1>6 DEF Call, workerVars, dbVars, viewVars
<1>7. ASSUME NEW s \in Sensors, StoreFirst(s) \/ SensorNext(s) PROVE Quiet
  BY <1>7 DEF StoreFirst, SensorNext, StoreRest, SensorEmit, SlotGet, SlotRead,
              SlotSend, workerVars, dbVars, viewVars
<1>8. ASSUME UNCHANGED vars PROVE Quiet
  BY <1>8 DEF vars, workerVars, dbVars, viewVars
<1>9. ValidInv' /\ CommitInv'
  <2>. HIDE DEF Quiet
  <2>. QED BY <1>1, <1>3, <1>4, <1>5, <1>6, <1>7, <1>8, ApplyStep, HandleStep, AssignStep,
              EmitStep, EndStep
           DEF Next, WorkerNext
<1>. QED BY <1>1, <1>9 DEF IInv, BufferInv

LEMMA Inductive == Spec => []IInv
BY InitIInv, NextIInv, PTL DEF Spec

\* Every variable stays in its range, with any number of receivers, control
\* threads and sensor threads and any configured messages.
THEOREM TypeCorrect == Spec => []TypeOK
<1>1. IInv => TypeOK
  BY DEF IInv
<1>. QED BY <1>1, Inductive, PTL

\* Whenever no update is in progress the buffers of a commit kind hold what the
\* last commit of that kind took from the database, however many receivers
\* commit: rw_mutex_ is held until the last buffer is refreshed.
THEOREM EpochSafe == Spec => []BuffersShareAnEpoch
<1>1. IInv => BuffersShareAnEpoch
  <2>. SUFFICES ASSUME IInv, rw = NoOne
                PROVE  \A b \in Buffers : buffer[b] = Project(b, last[CommitOf(b)])
    BY DEF BuffersShareAnEpoch
  <2>1. \A w \in Receivers : wpc[w] \notin {"commit", "emit"}
    BY ThreadsAssumption DEF IInv, BufferInv, LockInv, Locked
  <2>. QED BY <2>1 DEF IInv, BufferInv, CommitInv, UpToDate
<1>. QED BY <1>1, Inductive, PTL

\* Whenever no update is in progress the application's slot has seen every
\* buffer as it is, however many threads emit the same signal.
THEOREM SubscriberSafe == Spec => []SubscriberIsCurrent
<1>1. IInv => SubscriberIsCurrent
  <2>. SUFFICES ASSUME IInv, rw = NoOne PROVE seen = buffer
    BY DEF SubscriberIsCurrent
  <2>1. \A w \in Receivers : wpc[w] \notin {"commit", "emit"}
    BY ThreadsAssumption DEF IInv, BufferInv, LockInv, Locked
  <2>2. \A b \in Buffers : seen[b] = buffer[b]
    BY <2>1 DEF IInv, BufferInv, CommitInv, UpToDate
  <2>3. seen = [b \in Buffers |-> seen[b]] /\ buffer = [b \in Buffers |-> buffer[b]]
    BY DEF IInv, BufferInv, ViewsInv
  <2>. QED BY <2>2, <2>3
<1>. QED BY <1>1, Inductive, PTL

-----------------------------------------------------------------------------
(* The sensor threads. *)

SensorIInv == SensorLocks /\ SensorInv

LEMMA SensorInit == Init => SensorIInv
BY ThreadsAssumption DEF Init, SensorIInv, SensorLocks, SensorInv, Nothing, Halves

LEMMA SensorQuiet ==
    ASSUME SensorIInv, UNCHANGED <<sig, sensorVars>>
    PROVE  SensorIInv'
BY DEF SensorIInv, SensorLocks, SensorInv, sensorVars

LEMMA SensorStep ==
    ASSUME TypeOK, SensorIInv, NEW s \in Sensors, StoreFirst(s) \/ SensorNext(s)
    PROVE  SensorIInv'
<1>0. /\ spc \in [Sensors -> {"idle", "store", "emit", "slot", "read", "read2"}]
      /\ mine \in [Sensors -> Inputs] /\ drIn \in [Halves -> Inputs]
      /\ sent \in [Halves -> Inputs] /\ meas \in [Sensors -> [Halves -> Inputs]]
      /\ NoOne \notin Sensors /\ 1 \in Halves /\ 2 \in Halves
  BY ThreadsAssumption DEF TypeOK, Halves
<1>1. CASE StoreFirst(s)
  <2>1. /\ spc[s] = "idle" /\ spc' = [spc EXCEPT ![s] = "store"]
        /\ drLock = NoOne /\ drLock' = s
        /\ mine' = [mine EXCEPT ![s] = input'] /\ drIn' = [drIn EXCEPT ![1] = input']
        /\ UNCHANGED <<sig, meas, sent>>
    BY <1>1 DEF StoreFirst, SensorAt
  <2>. QED BY <1>0, <2>1 DEF SensorIInv, SensorLocks, SensorInv
<1>2. CASE StoreRest(s)
  <2>1. /\ spc[s] = "store" /\ spc' = [spc EXCEPT ![s] = "emit"]
        /\ drLock' = NoOne
        /\ mine' = [mine EXCEPT ![s] = 0] /\ drIn' = [drIn EXCEPT ![2] = mine[s]]
        /\ UNCHANGED <<sig, meas, sent>>
    BY <1>2 DEF StoreRest, SensorAt
  <2>2. drIn'[1] = drIn'[2]
    BY <1>0, <2>1 DEF SensorIInv, SensorLocks
  <2>3. \A v \in Sensors \ {s} : spc[v] # "store"
    BY <2>1 DEF SensorIInv, SensorLocks
  <2>. QED BY <1>0, <2>1, <2>2, <2>3 DEF SensorIInv, SensorLocks, SensorInv
<1>3. CASE SensorEmit(s)
  <2>1. /\ spc[s] = "emit" /\ spc' = [spc EXCEPT ![s] = "slot"]
        /\ sig = NoOne /\ sig' = s
        /\ UNCHANGED <<mine, drLock, drIn, meas, sent>>
    BY <1>3 DEF SensorEmit, SensorAt
  <2>. QED BY <1>0, <2>1 DEF SensorIInv, SensorLocks, SensorInv
<1>4. CASE SlotGet(s)
  <2>1. /\ spc[s] = "slot" /\ spc' = [spc EXCEPT ![s] = "read"]
        /\ UNCHANGED <<sig, mine, drLock, drIn, meas, sent>>
    BY <1>4 DEF SlotGet, SensorAt
  <2>. QED BY <1>0, <2>1 DEF SensorIInv, SensorLocks, SensorInv
<1>5. CASE SlotRead(s)
  <2>1. /\ spc[s] = "read" /\ spc' = [spc EXCEPT ![s] = "read2"]
        /\ meas' = [meas EXCEPT ![s][1] = drIn[1]]
        /\ UNCHANGED <<sig, mine, drLock, drIn, sent>>
    BY <1>5 DEF SlotRead, SensorAt
  <2>2. meas'[s][1] = drIn[1]
    BY <1>0, <2>1
  <2>3. \A v \in Sensors \ {s} : spc[v] # "read2"
    BY <2>1 DEF SensorIInv, SensorLocks
  <2>. QED BY <1>0, <2>1, <2>2, <2>3 DEF SensorIInv, SensorLocks, SensorInv
<1>6. CASE SlotSend(s)
  <2>1. /\ spc[s] = "read2" /\ spc' = [spc EXCEPT ![s] = "idle"]
        /\ sent' = [meas[s] EXCEPT ![2] = drIn[2]] /\ sig' = NoOne
        /\ UNCHANGED <<mine, drLock, drIn>>
    BY <1>6 DEF SlotSend, SensorAt
  <2>2. meas[s][1] = drIn[1] => sent' = drIn
    BY <1>0, <2>1 DEF Halves
  <2>3. \A v \in Sensors \ {s} : spc[v] \notin {"slot", "read", "read2"}
    BY <2>1 DEF SensorIInv, SensorLocks
  <2>4. SensorLocks'
    BY <1>0, <2>1, <2>3 DEF SensorIInv, SensorLocks
  <2>5. SensorInv'
    BY <1>0, <2>1, <2>2, <2>3 DEF SensorIInv, SensorInv
  <2>. QED BY <2>4, <2>5 DEF SensorIInv
<1>. QED BY <1>1, <1>2, <1>3, <1>4, <1>5, <1>6 DEF SensorNext

LEMMA SensorNextInv == TypeOK /\ SensorIInv /\ [Next]_vars => SensorIInv'
<1>. SUFFICES ASSUME TypeOK, SensorIInv, [Next]_vars PROVE SensorIInv'
  OBVIOUS
<1>1. ASSUME NEW w \in Receivers,
             (\E k \in Kinds : Receive(w, k)) \/ ReceiveReply(w) \/ WorkerNext(w)
      PROVE  UNCHANGED <<sig, sensorVars>>
  BY <1>1 DEF WorkerNext, Receive, ReceiveReply, UpdateRest, Apply, HandleRest,
              Assign, Emit, CommitEnds, EmitReply, WorkerExit
<1>2. ASSUME NEW c \in Controllers,
             (\E command \in {"sync", "stop", "start"} : Call(c, command)) \/ ControlNext(c)
      PROVE  UNCHANGED <<sig, sensorVars>>
  BY <1>2 DEF ControlNext, Call, SyncEmit, StopSignal, StopJoin, StopEnds, Start
<1>3. UNCHANGED vars => UNCHANGED <<sig, sensorVars>>
  BY DEF vars
<1>. QED BY <1>1, <1>2, <1>3, SensorQuiet, SensorStep DEF Next

\* When every thread that feeds sensor data is done, the last UBX-ESF-MEAS sent
\* is dead_reckoning_in_ as it is, with any number of such threads: the signal's
\* mutex orders the slots, and the last writer's slot comes after its input.
THEOREM LastInputSafe == Spec => []LastInputIsSent
<1>1. TypeOK /\ SensorIInv => LastInputIsSent
  <2>. SUFFICES ASSUME TypeOK, SensorIInv, \A s \in Sensors : spc[s] = "idle"
                PROVE  sent = drIn /\ drIn[1] = drIn[2]
    BY DEF LastInputIsSent
  <2>1. sent = drIn
    BY DEF SensorIInv, SensorInv
  <2>2. drLock = NoOne
    BY DEF SensorIInv, SensorLocks, TypeOK
  <2>. QED BY <2>1, <2>2 DEF SensorIInv, SensorLocks
<1>. QED BY <1>1, SensorInit, SensorNextInv, TypeCorrect, PTL DEF Spec

=============================================================================
