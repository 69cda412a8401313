----------------------------- MODULE MCReceiver -----------------------------
(***************************************************************************)
(* Instances of Receiver for TLC, and what the repository's documentation  *)
(* says of the receiver that its code does not do.                         *)
(***************************************************************************)
EXTENDS Receiver

\* README.md: an error of read_bytes() makes the worker reconfigure the port.
\* In the code it is an exception that no frame of the worker thread catches.
ReadErrorIsHandled == ~crashed

=============================================================================
