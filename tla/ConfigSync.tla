----------------------------- MODULE ConfigSync -----------------------------
(***************************************************************************)
(* The configuration commands of gnss_controller (poll_config, sync_config *)
(* and force_sync_config) on top of the transport: ubx_config_sync_service *)
(* with its default_config_ and the ubx_config_repository, which the       *)
(* worker thread fills from CFG-VALGET answers: those to poll_config() and *)
(* those to query_datum(), which asks for the datum's keys.                *)
(***************************************************************************)
EXTENDS Integers, Sequences

CONSTANTS
  Keys,      \* configuration keys
  DatumKeys, \* those of the datum, which query_datum() asks for
  Values,    \* their values
  Inis,      \* the INI files: functions from some of the keys to values
  None,      \* no value, no kind, no frame
  MaxLine    \* bound on the undecoded answers

Chips  == [Keys -> Values]
Repos  == [Keys -> Values \cup {None}]
NoRepo == [k \in Keys |-> None]

ASSUME ConfigAssumption ==
  /\ None \notin Values /\ DatumKeys \subseteq Keys
  /\ \A ini \in Inis : DOMAIN ini \in SUBSET Keys /\ ini \in [DOMAIN ini -> Values]

\* What an answer says: the values of some keys, or an ACK-ACK.  The callback
\* of an ACK-NAK only logs, so a refusal is as good as no answer.
Ack == <<"ack">>
Response(r) == <<"valget", r>>
Responses == {Response(r) : r \in Repos}

VARIABLES
  phase, kind, toggle, lastSent, line, worker, frame,   \* as in AckTransport
  setBy, clean, handled,
  command,    \* the command that holds cmd_mutex_
  default,    \* default_config_, as a function; empty before the first load
  repo,       \* entries_ of the repository
  updates,    \* the keys apply_configuration() sends
  chip,       \* the configuration in the chip's RAM (external)
  \* History, for the properties:
  polled      \* what the chip had at the last poll; None when an older answer
              \*   was under way then, or when another command than sync_config()
              \*   may have written to the chip or loaded a file since

Transport == INSTANCE AckTransport WITH
  Kinds      <- {"valget", "valset"},
  AsyncKinds <- {"valset"},
  Contents   <- Responses \cup {Ack},
  Positive   <- Responses \cup {Ack},
  Answers    <- [k \in {"valget", "valset"} |-> {}]

ASSUME LineAssumption ==
  MaxLine \in Nat /\ None \notin {"valget", "valset"} \cup Transport!Frames

transportVars == <<phase, kind, toggle, lastSent, clean, line, worker, frame,
                   setBy, handled>>
configVars == <<command, default, repo, updates, chip, polled>>
vars == <<transportVars, configVars>>

Init ==
  /\ Transport!Init
  /\ command = "none" /\ default = <<>> /\ repo = NoRepo /\ updates = {}
  /\ chip \in Chips /\ polled = None

-----------------------------------------------------------------------------
(* Commands of a control thread.                                           *)

Idle == command = "none" /\ phase = "idle"

\* poll_config() and force_sync_config() load the INI file; when it cannot be
\* read they fail and keep the old defaults, when it has no known key the
\* defaults are empty and they fail.
LoadFails ==
  /\ Idle
  /\ default' \in {default, <<>>}
  /\ polled' = None
  /\ UNCHANGED <<transportVars, command, repo, updates, chip>>

\* An operator named Bug... is a slip the code does not make; the checks put it
\* in the place of a definition below it, to see which property notices.

\* Bug: the values of an earlier poll stay in the repository.
BugPoll(ini) ==
  /\ Idle /\ DOMAIN ini # {}
  /\ default' = ini /\ command' = "poll"
  /\ polled' = IF line = <<>> /\ worker = "idle" THEN chip ELSE None
  /\ UNCHANGED <<transportVars, repo, updates, chip>>

\* poll_config(): load, clear the repository, and send a VALGET of the keys.
Poll(ini) ==
  /\ Idle /\ DOMAIN ini # {}
  /\ default' = ini /\ repo' = NoRepo /\ command' = "poll"
  /\ polled' = IF line = <<>> /\ worker = "idle" THEN chip ELSE None
  /\ UNCHANGED <<transportVars, updates, chip>>

\* Bug: a key the chip has not reported is taken to be right.
BugDiffering(r) == {k \in DOMAIN default : r[k] # None /\ r[k] # default[k]}

\* The keys whose value in the repository is missing, or not the default.
Differing(r) == {k \in DOMAIN default : r[k] # default[k]}

\* sync_config(): compare, and send a VALSET of the keys that differ ...
Sync ==
  /\ Idle /\ Differing(repo) # {}
  /\ updates' = Differing(repo) /\ command' = "sync"
  /\ UNCHANGED <<transportVars, default, repo, chip, polled>>

\* ... or report success at once.
NothingToSync ==
  /\ Idle /\ Differing(repo) = {}
  /\ UNCHANGED vars

\* Bug: only the keys that differ from the repository are forced.
BugForceSync(ini) ==
  /\ Idle /\ DOMAIN ini # {}
  /\ default' = ini /\ updates' = {k \in DOMAIN ini : repo[k] # ini[k]}
  /\ command' = "force" /\ polled' = None
  /\ UNCHANGED <<transportVars, repo, chip>>

\* force_sync_config(): load, and send a VALSET of every key.
ForceSync(ini) ==
  /\ Idle /\ DOMAIN ini # {}
  /\ default' = ini /\ updates' = DOMAIN ini /\ command' = "force"
  /\ polled' = None
  /\ UNCHANGED <<transportVars, repo, chip>>

\* query_datum(): send a VALGET of the datum's keys; the repository is not cleared.
QueryDatum ==
  /\ Idle
  /\ command' = "query"
  /\ UNCHANGED <<transportVars, default, repo, updates, chip, polled>>

\* Any other command that changes the chip's configuration: set_datum() and
\* reset_datum() by a VALSET that they do not wait for, the cold and hardware
\* resets.
OtherCommand ==
  /\ Idle
  /\ chip' \in Chips /\ polled' = None
  /\ \E a \in {<<>>, <<Ack>>} :
       /\ Len(line) + Len(a) <= MaxLine
       /\ line' = line \o Transport!AllAged(Transport!FramesOf("valset", a))
  /\ UNCHANGED <<phase, kind, toggle, lastSent, worker, frame, setBy, clean, handled,
                 command, default, repo, updates>>

\* send_sync() of the command in progress.
Send ==
  /\ command # "none" /\ phase = "idle"
  /\ Transport!Begin(IF command \in {"poll", "query"} THEN "valget" ELSE "valset")
  /\ UNCHANGED configVars

SendIds == Transport!SetIds /\ UNCHANGED configVars

\* The keys that a VALGET asks for.
Asked == IF command = "poll" THEN DOMAIN default ELSE DatumKeys

\* The chip answers a VALGET with the values of the keys and an ACK-ACK; it may
\* not have heard it, or refuse it, and answers may be lost.
Valget ==
  /\ command \in {"poll", "query"}
  /\ LET r == [k \in Keys |-> IF k \in Asked THEN chip[k] ELSE None]
     IN  \E a \in {<<>>, <<Response(r)>>, <<Response(r), Ack>>} :
           Transport!WriteWith(a)
  /\ UNCHANGED configVars

\* It answers a VALSET with an ACK-ACK after it has taken the values over.
Valset ==
  /\ command \in {"sync", "force"}
  /\ \/ /\ chip' = [k \in Keys |-> IF k \in updates THEN default[k] ELSE chip[k]]
        /\ \E a \in {<<>>, <<Ack>>} : Transport!WriteWith(a)
     \/ chip' = chip /\ Transport!WriteWith(<<>>)
  /\ UNCHANGED <<command, default, repo, updates, polled>>

\* The command returns: true when send_sync() did, and false otherwise.
SendFails ==
  /\ Transport!WriteFails \/ Transport!Timeout
  /\ command' = "none" /\ updates' = {}
  /\ UNCHANGED <<default, repo, chip, polled>>

Success ==
  /\ Transport!Succeed
  /\ command' = "none" /\ updates' = {}
  /\ UNCHANGED <<default, repo, chip, polled>>

Control ==
  Send \/ SendIds \/ Valget \/ Valset \/ SendFails \/ Success

-----------------------------------------------------------------------------
(* The worker thread.                                                      *)

Decode == (Transport!Decode \/ Transport!Match \/ Transport!Set) /\ UNCHANGED configVars

\* on_valget_response(): called after handle_ack(), stores the reported values
\* one by one.
Reported == {k \in Keys : frame.content[2][k] # None}

Store(k) ==
  /\ worker = "deliver" /\ frame.content \in Responses /\ k \in Reported
  /\ repo' = [repo EXCEPT ![k] = frame.content[2][k]]
  /\ frame' = [frame EXCEPT !.content[2][k] = None]
  /\ UNCHANGED <<phase, kind, toggle, lastSent, line, worker, setBy, clean, handled,
                 command, default, updates, chip, polled>>

Stored ==
  /\ frame \in Transport!Frames /\ frame.content \in Responses => Reported = {}
  /\ Transport!Deliver
  /\ UNCHANGED configVars

Worker == Decode \/ (\E k \in Keys : Store(k)) \/ Stored

-----------------------------------------------------------------------------

Next ==
  \/ LoadFails
  \/ \E ini \in Inis : Poll(ini) \/ ForceSync(ini)
  \/ Sync \/ NothingToSync \/ QueryDatum \/ OtherCommand
  \/ Control
  \/ Worker

Spec == Init /\ [][Next]_vars

-----------------------------------------------------------------------------
(* Properties.                                                             *)

\* Does the chip have the defaults?
InSync == \A k \in DOMAIN default : chip[k] = default[k]

\* What may be known of a key: what the chip reported to the last poll; of a key of
\* the datum, that or what query_datum() has found since, which the chip still has.
Known(k) == {None, polled[k]} \cup (IF k \in DatumKeys THEN {chip[k]} ELSE {})

\* The repository holds no more, even while late answers, lost ones and the commands
\* of the control thread interleave.
RepositoryIsCurrent ==
  polled # None => \A k \in Keys : repo[k] \in Known(k)

\* A sync_config() that returns true leaves the chip with the defaults, when
\* the poll can be trusted: by having nothing to send ...
SkipIsSafe == polled # None /\ default # <<>> /\ Differing(repo) = {} => InSync

\* ... or, if nothing old was under way, by the acknowledgement of what it sent;
\* force_sync_config() needs no poll.
SuccessTakesEffect ==
  [][/\ Success /\ clean
     /\ \/ command = "sync" /\ polled # None
        \/ command = "force"
     => InSync]_vars

=============================================================================
