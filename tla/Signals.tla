------------------------------- MODULE Signals -------------------------------
(***************************************************************************)
(* sigslot of libevent.h: signals, slot objects, and the threads that      *)
(* connect, disconnect, destroy and emit.                                  *)
(*                                                                         *)
(* A signal keeps its connections and a slot counts them, each behind a    *)
(* mutex of its own.  connect() changes both at once; to disconnect, a     *)
(* thread changes the side it began at, releases its mutex, and changes    *)
(* the other.  emit() holds the mutex of the signal while the slots run;   *)
(* any other use of a mutex is one step.                                   *)
(*                                                                         *)
(* The callers: no function of a slot is connected twice to a signal, and  *)
(* no thread touches a pair of signal and slot which another thread is     *)
(* disconnecting, or an object that is destroyed.  Slots do not use the    *)
(* signal that calls them.                                                 *)
(***************************************************************************)
EXTENDS Integers, FiniteSets

CONSTANTS
  Threads,
  Senders,    \* the signals
  Slots,      \* the slot objects
  Functions,  \* their member functions
  Wiring,     \* <<signal, slot, function>> that the callers may connect
  Lambdas,    \* callables
  None        \* no thread, no job, no object

VARIABLES
  conns,      \* m_slot_connections, by signal and slot: functions connected
  callables,  \* m_callable_connections
  counts,     \* m_signal_connection_counts, by slot and signal
  emitter,    \* who holds the mutex of a signal in emit()
  left,       \* the slots and functions it has still to call
  job,        \* what a thread that disconnects has still to do
  dead        \* objects destroyed

sides    == <<conns, callables, counts>>
emission == <<emitter, left>>
vars == <<sides, emission, job, dead>>

Pairs == Senders \X Slots

\* erase: pairs to be erased in the signal; drop: pairs to be counted down in the slot, and
\* by how much; dies: the object whose destructor this is.
Jobs == [erase: SUBSET Pairs, drop: SUBSET (Senders \X Slots \X Nat),
         dies: Senders \cup Slots \cup {None}]

Init ==
  /\ conns = [s \in Senders |-> [o \in Slots |-> {}]]
  /\ callables = [s \in Senders |-> {}]
  /\ counts = [o \in Slots |-> [s \in Senders |-> 0]]
  /\ emitter = [s \in Senders |-> None] /\ left = [s \in Senders |-> {}]
  /\ job = [t \in Threads |-> None] /\ dead = {}

\* The pairs a thread is disconnecting.
Under(t) ==
  IF job[t] = None THEN {}
  ELSE job[t].erase \cup {<<d[1], d[2]>> : d \in job[t].drop}
       \cup {p \in Pairs : job[t].dies \in {p[1], p[2]}}

\* What a thread may do to these pairs.
May(t, pairs) ==
  /\ job[t] = None
  /\ \A u \in Threads : Under(u) \cap pairs = {}
  /\ \A p \in pairs : {p[1], p[2]} \cap dead = {}

\* An object that is not destroyed and that nobody is destroying.
Usable(x) == x \notin dead /\ \A u \in Threads : job[u] # None => job[u].dies # x

Ends(t) == job' = [job EXCEPT ![t] = None]
Goes(t, erase, drop, dies) ==
  job' = [job EXCEPT ![t] = [erase |-> erase, drop |-> drop, dies |-> dies]]

-----------------------------------------------------------------------------
(* A signal's side.                                                        *)

Unlocked(s) == emitter[s] = None

Connect(t, s, o, f) ==
  /\ <<s, o, f>> \in Wiring /\ f \notin conns[s][o]
  /\ May(t, {<<s, o>>}) /\ Unlocked(s)
  /\ conns' = [conns EXCEPT ![s][o] = @ \cup {f}]
  /\ counts' = [counts EXCEPT ![o][s] = @ + 1]
  /\ UNCHANGED <<callables, emission, job, dead>>

ConnectCallable(s, l) ==
  /\ Usable(s) /\ Unlocked(s) /\ l \notin callables[s]
  /\ callables' = [callables EXCEPT ![s] = @ \cup {l}]
  /\ UNCHANGED <<conns, counts, emission, job, dead>>

\* disconnect(slot, function)
Disconnect(t, s, o, f) ==
  /\ May(t, {<<s, o>>}) /\ Unlocked(s) /\ f \in conns[s][o]
  /\ conns' = [conns EXCEPT ![s][o] = @ \ {f}]
  /\ Goes(t, {}, {<<s, o, 1>>}, None)
  /\ UNCHANGED <<callables, counts, emission, dead>>

\* What the slot of a pair has to be told when all its connections are erased.
Count(s, o) == IF conns[s][o] = {} THEN {} ELSE {<<s, o, Cardinality(conns[s][o])>>}

\* disconnect(slot)
DisconnectSlot(t, s, o) ==
  /\ May(t, {<<s, o>>}) /\ Unlocked(s)
  /\ conns' = [conns EXCEPT ![s][o] = {}]
  /\ Goes(t, {}, Count(s, o), None)
  /\ UNCHANGED <<callables, counts, emission, dead>>

\* disconnect_all(); the destructor does no more.
DisconnectAll(t, s, dies) ==
  /\ Usable(s) /\ May(t, {s} \X (Slots \ dead)) /\ Unlocked(s)
  /\ conns' = [conns EXCEPT ![s] = [o \in Slots |-> {}]]
  /\ callables' = [callables EXCEPT ![s] = {}]
  /\ Goes(t, {}, UNION {Count(s, o) : o \in Slots}, dies)
  /\ UNCHANGED <<counts, emission, dead>>

DisconnectAllCallable(s) ==
  /\ Usable(s) /\ Unlocked(s) /\ callables[s] # {}
  /\ callables' = [callables EXCEPT ![s] = {}]
  /\ UNCHANGED <<conns, counts, emission, job, dead>>

-----------------------------------------------------------------------------
(* A slot's side.                                                          *)

Known(o) == {s \in Senders : counts[o][s] > 0}

\* disconnect(signal)
SlotDisconnect(t, o, s) ==
  /\ May(t, {<<s, o>>}) /\ s \in Known(o)
  /\ counts' = [counts EXCEPT ![o][s] = 0]
  /\ Goes(t, {<<s, o>>}, {}, None)
  /\ UNCHANGED <<conns, callables, emission, dead>>

\* disconnect_all(); the destructor does no more.
SlotDisconnectAll(t, o, dies) ==
  /\ Usable(o) /\ May(t, (Senders \ dead) \X {o})
  /\ counts' = [counts EXCEPT ![o] = [s \in Senders |-> 0]]
  /\ Goes(t, Known(o) \X {o}, {}, dies)
  /\ UNCHANGED <<conns, callables, emission, dead>>

-----------------------------------------------------------------------------
(* The other half.                                                         *)

\* Bug: one connection is taken off, however many were erased.
BugUnregister(t, s, o, n) ==
  /\ job[t] # None /\ <<s, o, n>> \in job[t].drop
  /\ counts' = [counts EXCEPT ![o][s] = IF @ > 1 THEN @ - 1 ELSE 0]
  /\ Goes(t, job[t].erase, job[t].drop \ {<<s, o, n>>}, job[t].dies)
  /\ UNCHANGED <<conns, callables, emission, dead>>

\* unregister_connection()
Unregister(t, s, o, n) ==
  /\ job[t] # None /\ <<s, o, n>> \in job[t].drop
  /\ counts' = [counts EXCEPT ![o][s] = IF @ > n THEN @ - n ELSE 0]
  /\ Goes(t, job[t].erase, job[t].drop \ {<<s, o, n>>}, job[t].dies)
  /\ UNCHANGED <<conns, callables, emission, dead>>

\* A slot that leaves calls disconnect(slot) of one signal after the other.
Erase(t, s, o) ==
  /\ job[t] # None /\ <<s, o>> \in job[t].erase /\ job[t].drop = {} /\ Unlocked(s)
  /\ conns' = [conns EXCEPT ![s][o] = {}]
  /\ Goes(t, job[t].erase \ {<<s, o>>}, Count(s, o), job[t].dies)
  /\ UNCHANGED <<callables, counts, emission, dead>>

Return(t) ==
  /\ job[t] # None /\ job[t].erase = {} /\ job[t].drop = {}
  /\ dead' = dead \cup ({job[t].dies} \ {None})
  /\ Ends(t)
  /\ UNCHANGED <<sides, emission>>

GoesOn(t) ==
  \/ \E s \in Senders, o \in Slots : Erase(t, s, o)
  \/ \E s \in Senders, o \in Slots, n \in 1 .. Cardinality(Functions) : Unregister(t, s, o, n)
  \/ Return(t)

-----------------------------------------------------------------------------
(* emit()                                                                  *)

Emit(t, s) ==
  /\ job[t] = None /\ Usable(s) /\ Unlocked(s)
  /\ emitter' = [emitter EXCEPT ![s] = t]
  /\ left' = [left EXCEPT ![s] = {w \in Slots \X Functions : w[2] \in conns[s][w[1]]}
                                 \cup ({None} \X callables[s])]
  /\ UNCHANGED <<sides, job, dead>>

\* The slots in any order, then the callables.
CallOne(s, o, f) ==
  /\ <<o, f>> \in left[s]
  /\ o = None => left[s] \subseteq {None} \X Lambdas
  /\ left' = [left EXCEPT ![s] = @ \ {<<o, f>>}]
  /\ UNCHANGED <<sides, emitter, job, dead>>

EmitReturns(s) ==
  /\ emitter[s] # None /\ left[s] = {}
  /\ emitter' = [emitter EXCEPT ![s] = None]
  /\ UNCHANGED <<sides, left, job, dead>>

-----------------------------------------------------------------------------
Change(t) ==
  \/ \E s \in Senders, o \in Slots :
        \/ \E f \in Functions : Connect(t, s, o, f) \/ Disconnect(t, s, o, f)
        \/ DisconnectSlot(t, s, o)
        \/ SlotDisconnect(t, o, s)
  \/ \E s \in Senders : DisconnectAll(t, s, None) \/ DisconnectAll(t, s, s)
  \/ \E o \in Slots : SlotDisconnectAll(t, o, None) \/ SlotDisconnectAll(t, o, o)

\* A thread that is in an emit() of its own is nowhere else.
Idle(t) == \A s \in Senders : emitter[s] # t

Next ==
  \/ \E t \in Threads :
        \/ Idle(t) /\ Change(t)
        \/ GoesOn(t)
        \/ \E s \in Senders : Idle(t) /\ Emit(t, s)
  \/ \E s \in Senders :
        \/ \E l \in Lambdas : ConnectCallable(s, l) \/ CallOne(s, None, l)
        \/ \E o \in Slots, f \in Functions : CallOne(s, o, f)
        \/ DisconnectAllCallable(s) \/ EmitReturns(s)

Spec == Init /\ [][Next]_vars

-----------------------------------------------------------------------------
TypeOK ==
  /\ conns \in [Senders -> [Slots -> SUBSET Functions]]
  /\ callables \in [Senders -> SUBSET Lambdas]
  /\ counts \in [Slots -> [Senders -> Nat]]
  /\ emitter \in [Senders -> Threads \cup {None}]
  /\ left \in [Senders -> SUBSET ((Slots \X Functions) \cup ({None} \X Lambdas))]
  /\ job \in [Threads -> Jobs \cup {None}]
  /\ dead \subseteq Senders \cup Slots

\* However connecting, disconnecting and destroying of signals and slots interleave with each
\* other and with emissions: no destroyed slot is connected or about to be called, no slot
\* knows a destroyed signal, whose disconnect() its destructor would call, and where nobody is
\* disconnecting both sides have the same number of connections.
NothingDangles ==
  /\ \A s \in Senders, o \in Slots :
        /\ o \in dead => conns[s][o] = {} /\ \A f \in Functions : <<o, f>> \notin left[s]
        /\ s \in dead => counts[o][s] = 0
  /\ \A p \in Pairs :
        (\A t \in Threads : p \notin Under(t)) =>
           counts[p[2]][p[1]] = Cardinality(conns[p[1]][p[2]])
=============================================================================
