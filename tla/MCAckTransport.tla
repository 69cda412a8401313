--------------------------- MODULE MCAckTransport ---------------------------
(***************************************************************************)
(* Instances of AckTransport for TLC, and what comments of the repository  *)
(* say of it that its code does not do.                                    *)
(***************************************************************************)
EXTENDS AckTransport

MCContents == {"resp", "ack", "nak"}
MCPositive == {"resp", "ack"}

\* The chip answers a VALGET with the values and an acknowledgement, a VALSET
\* with an acknowledgement, a MON-VER poll with the version; it may refuse
\* the former two; and each of the frames may be lost.
MCAnswers == [k \in Kinds |->
  CASE k = "valget" -> {<<>>, <<"resp">>, <<"ack">>, <<"resp", "ack">>, <<"nak">>}
    [] k = "valset" -> {<<>>, <<"ack">>, <<"nak">>}
    [] k = "ver"    -> {<<>>, <<"resp">>}]

\* serial_transport_impl.cpp:50-51: send_sync() returns true if the ACK of the
\* message it sent was received.  In the code the worker may compare the answer
\* to one request with last_sent_*, that request time out, the next command, of
\* another kind, reset the toggle and write its own, and only then the worker
\* trigger the toggle: the next command is credited with it.
TrueMeansAcked == phase = "wait" /\ toggle => setBy.kind = kind

=============================================================================
