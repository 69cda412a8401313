---------------------------- MODULE AckTransport ----------------------------
(***************************************************************************)
(* serial_transport_impl: the control thread sends a UBX request and waits *)
(* for the receiver's worker thread to decode the answer.                  *)
(*                                                                         *)
(* Every sender holds gnss_controller::cmd_mutex_ for the whole command,   *)
(* so there is one command at a time and "phase" says how far it is; what  *)
(* interleaves with it is the worker, which takes the chip's answers off   *)
(* the line and, without any lock, compares them with last_sent_class_id_  *)
(* and last_sent_msg_id_ before it signals ack_toggle_.                    *)
(***************************************************************************)
EXTENDS Integers, Sequences

CONSTANTS
  Kinds,      \* the (class, id) pairs of the requests
  AsyncKinds, \* those that send_async() sends, too
  Contents,   \* what an answer says
  Positive,   \* the contents whose decoder calls handle_ack(): all but ACK-NAK
  Answers,    \* Answers[k]: the sequences of contents the chip may answer
              \*   a request of kind k with; <<>> when the answer is lost
  None,       \* no kind (0xFF, 0xFF), no frame
  MaxLine     \* bound on the undecoded answers

Frames == [kind : Kinds, content : Contents, own : BOOLEAN]

ASSUME TransportAssumption ==
  /\ AsyncKinds \subseteq Kinds /\ Positive \subseteq Contents
  /\ None \notin Kinds \cup Frames
  /\ Answers \in [Kinds -> SUBSET Seq(Contents)]
  /\ MaxLine \in Nat

VARIABLES
  phase,      \* of the synchronous command: "idle", "ids", "write" or "wait"
  kind,       \* its kind; the last one's when idle
  toggle,     \* ack_toggle_ is triggered
  lastSent,   \* last_sent_class_id_, last_sent_msg_id_
  line,       \* answers the worker has not decoded yet
  worker,     \* decoder callback: "idle", "match", "set" or "deliver"
  frame,      \* the answer it is called with
  \* History, for the properties:
  setBy,      \* the kind of the answer that triggered the toggle, "own" if it
              \*   answers the current command
  clean,      \* no answer was under way when the command began, which has not
              \*   failed
  handled     \* has a positive answer to the current command been handled?

sendVars == <<phase, kind, toggle, lastSent, clean>>
workVars == <<worker, frame>>
history  == <<setBy, handled>>
vars == <<sendVars, line, workVars, history>>

Init ==
  /\ phase = "idle" /\ kind \in Kinds /\ toggle = FALSE /\ lastSent = None
  /\ line = <<>> /\ worker = "idle" /\ frame = None
  /\ setBy = None /\ clean = FALSE /\ handled = FALSE

-----------------------------------------------------------------------------
(* The control thread.                                                     *)

\* The answers a to the current request, of kind k, as frames on the line.
FramesOf(k, a) ==
  [i \in DOMAIN a |-> [kind |-> k, content |-> a[i], own |-> TRUE]]

\* Answers that are no longer the current command's.
Aged(f) == IF f = None THEN None ELSE [f EXCEPT !.own = FALSE]
AllAged(l) == [i \in DOMAIN l |-> Aged(l[i])]

\* An operator named Bug... is a slip the code does not make; the checks put it
\* in the place of a definition below it, to see which property notices.

\* Bug: send_sync() does not reset the toggle.
BugBegin(k) ==
  /\ phase = "idle"
  /\ phase' = "ids" /\ kind' = k
  /\ clean' = (line = <<>> /\ worker = "idle")
  /\ line' = AllAged(line) /\ frame' = Aged(frame)
  /\ UNCHANGED <<toggle, lastSent, worker, history>>

\* send_sync(): resets the toggle ...
Begin(k) ==
  /\ phase = "idle"
  /\ phase' = "ids" /\ kind' = k
  /\ toggle' = FALSE
  /\ clean' = (line = <<>> /\ worker = "idle")
  /\ line' = AllAged(line) /\ frame' = Aged(frame)
  /\ UNCHANGED <<lastSent, worker, history>>

\* ... then stores what it is about to send ...
SetIds ==
  /\ phase = "ids"
  /\ lastSent' = kind /\ phase' = "write"
  /\ UNCHANGED <<kind, toggle, clean, line, workVars, history>>

\* ... and writes it.
WriteWith(a) ==
  /\ phase = "write"
  /\ Len(line) + Len(a) <= MaxLine
  /\ line' = line \o FramesOf(kind, a) /\ phase' = "wait"
  /\ UNCHANGED <<kind, toggle, lastSent, clean, workVars, history>>

Return(ok) ==
  /\ phase' = "idle"
  /\ clean' = (clean /\ ok) /\ setBy' = None /\ handled' = FALSE

\* When the port cannot be written to, send_sync() returns false and leaves
\* last_sent_* as they are.
WriteFails ==
  /\ phase = "write" /\ Return(FALSE)
  /\ UNCHANGED <<kind, toggle, lastSent, line, workVars>>

\* wait_for(): true once the toggle is triggered ...
Succeed ==
  /\ phase = "wait" /\ toggle /\ Return(TRUE)
  /\ UNCHANGED <<kind, toggle, lastSent, line, workVars>>

\* Bug: a wake-up at the deadline does not look at the toggle again.
BugTimeout ==
  /\ phase = "wait" /\ Return(FALSE)
  /\ lastSent' = None
  /\ UNCHANGED <<kind, toggle, line, workVars>>

\* Bug: a timeout is not the end of the wait.
BugWaitOn ==
  /\ phase = "wait" /\ ~toggle
  /\ lastSent' = None
  /\ UNCHANGED <<phase, kind, toggle, clean, line, workVars, history>>

\* ... and false when UART_POLL_TIMEOUT_MS have passed and it still is not.
Timeout ==
  /\ phase = "wait" /\ ~toggle /\ Return(FALSE)
  /\ lastSent' = None
  /\ UNCHANGED <<kind, toggle, line, workVars>>

\* send_async(): the answer, if any, is nobody's.
SendAsync(k) ==
  /\ phase = "idle"
  /\ \E a \in Answers[k] :
       /\ Len(line) + Len(a) <= MaxLine
       /\ line' = line \o AllAged(FramesOf(k, a))
  /\ UNCHANGED <<sendVars, workVars, history>>

Sender ==
  SetIds \/ (\E a \in Answers[kind] : WriteWith(a)) \/ WriteFails \/ Succeed \/ Timeout

-----------------------------------------------------------------------------
(* The worker: the parser decodes the next answer and calls its decoder's  *)
(* callback, which may call handle_ack().                                  *)

Decode ==
  /\ worker = "idle" /\ line # <<>>
  /\ frame' = Head(line) /\ line' = Tail(line) /\ worker' = "match"
  /\ UNCHANGED <<sendVars, history>>

Handled == handled \/ (phase = "wait" /\ frame.own /\ frame.content \in Positive)

\* handle_ack(): the answer is compared first ...
Match ==
  /\ worker = "match"
  /\ IF frame.content \in Positive /\ frame.kind = lastSent
     THEN worker' = "set" /\ UNCHANGED handled
     ELSE worker' = "deliver" /\ handled' = Handled
  /\ UNCHANGED <<sendVars, line, frame, setBy>>

\* ... and the toggle is triggered afterwards.
Set ==
  /\ worker = "set"
  /\ toggle' = TRUE /\ worker' = "deliver" /\ handled' = Handled
  /\ setBy' = IF phase = "idle" THEN None ELSE [kind |-> frame.kind, own |-> frame.own]
  /\ UNCHANGED <<phase, kind, lastSent, clean, line, frame>>

\* The rest of the callback, after handle_ack().
Deliver ==
  /\ worker = "deliver"
  /\ worker' = "idle" /\ frame' = None
  /\ UNCHANGED <<sendVars, line, history>>

Worker == Decode \/ Match \/ Set \/ Deliver

-----------------------------------------------------------------------------

Next ==
  \/ \E k \in Kinds : Begin(k)
  \/ \E k \in AsyncKinds : SendAsync(k)
  \/ Sender
  \/ Worker

Spec == Init /\ [][Next]_vars

\* The operating system runs the control thread, and its timer expires; the
\* worker may be arbitrarily slow, or not run at all.
FairSpec == Spec /\ WF_vars(Sender)

-----------------------------------------------------------------------------
(* Properties.                                                             *)

\* Every variable stays in its range, the line in its bound.
TypeOK ==
  /\ phase \in {"idle", "ids", "write", "wait"} /\ kind \in Kinds
  /\ toggle \in BOOLEAN /\ lastSent \in Kinds \cup {None}
  /\ line \in Seq(Frames) /\ Len(line) <= MaxLine
  /\ worker \in {"idle", "match", "set", "deliver"}
  /\ frame \in Frames \cup {None} /\ clean \in BOOLEAN
  /\ setBy \in [kind : Kinds, own : BOOLEAN] \cup {None}
  /\ handled \in BOOLEAN

\* A command that began when no older answer was under way succeeds only by
\* an answer to its own request: the reset takes back every signal of earlier
\* commands, those given after their timeout included.
CreditIsOwn ==
  phase = "wait" /\ clean /\ toggle => setBy = [kind |-> kind, own |-> TRUE]

\* Whatever else is on the line, a command never times out after handle_ack()
\* has returned for a positive answer of its own: the toggle is reset, and
\* last_sent_* are stored, before the request is written.
NoAnswerIsMissed == [][Timeout => ~handled]_vars

\* send_sync() returns, answered or not, so that cmd_mutex_ is released.
SendReturns == phase # "idle" ~> phase = "idle"

=============================================================================
