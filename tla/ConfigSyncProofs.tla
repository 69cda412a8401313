-------------------------- MODULE ConfigSyncProofs --------------------------
(***************************************************************************)
(* ConfigSync for every set of keys and values, every INI file and every   *)
(* length of the line: the repository shows what the chip reported, a      *)
(* synchronisation that reports success has left the chip with the         *)
(* defaults, and the commands keep to the protocol of AckTransport, whose  *)
(* theorems therefore hold of them.                                        *)
(***************************************************************************)
EXTENDS ConfigSync, SequenceTheorems, TLAPS

TypeOK ==
  /\ Transport!TypeOK
  /\ command \in {"none", "poll", "query", "sync", "force"}
  /\ default \in Inis \cup {<<>>} /\ repo \in Repos /\ updates \in SUBSET Keys
  /\ chip \in Chips /\ polled \in Chips \cup {None}

\* A request is on its way only on behalf of a command, and the worker has an
\* answer in hand just when it is busy.
FrameInv ==
  /\ command = "none" => phase = "idle"
  /\ worker = "idle" <=> frame = None

\* An answer that reports nothing but what the chip had at the last poll, or, of the
\* datum, has still.
Trusted(f) ==
  f.content \in Responses => \A k \in Keys : f.content[2][k] \in Known(k)

\* As long as the poll counts, so do the answers under way and the repository;
\* the chip is as it was polled, but for the defaults a sync_config() has written.
PollInv ==
  polled # None =>
    /\ \A i \in DOMAIN line : Trusted(line[i])
    /\ frame # None => Trusted(frame)
    /\ RepositoryIsCurrent
    /\ command = "poll" => chip = polled
    /\ \A k \in DOMAIN default : chip[k] \in {polled[k], default[k]}

\* The keys that are not sent have their default already.
UpdateInv ==
  /\ command \in {"sync", "force"} => updates \subseteq DOMAIN default
  /\ command = "force" => updates = DOMAIN default
  /\ command = "sync" /\ polled # None =>
       \A k \in DOMAIN default \ updates : chip[k] = default[k]

\* The chip has what the command in progress sends.
Taken == \A k \in updates : chip[k] = default[k]

\* Without an older answer under way there is nothing that could signal success
\* before the request is written, and nothing but the chip's answer to it after.
CleanInv ==
  clean =>
    /\ phase \in {"ids", "write"} => line = <<>> /\ worker = "idle" /\ ~toggle
    /\ /\ phase = "wait" /\ command \in {"sync", "force"}
       /\ toggle \/ line # <<>> \/ worker # "idle"
       => Taken

IInv == TypeOK /\ FrameInv /\ PollInv /\ UpdateInv /\ CleanInv

-----------------------------------------------------------------------------
(* The answers on the line.                                                *)

\* An answer keeps what it says when it is no longer the current command's.
LEMMA AgedLine ==
  ASSUME NEW l \in Seq(Transport!Frames)
  PROVE  /\ Transport!AllAged(l) \in Seq(Transport!Frames) /\ Len(Transport!AllAged(l)) = Len(l)
         /\ DOMAIN Transport!AllAged(l) = DOMAIN l
         /\ \A i \in DOMAIN l : Transport!AllAged(l)[i].content = l[i].content
<1> DEFINE m == Transport!AllAged(l)
<1>1. DOMAIN l = 1..Len(l) /\ Len(l) \in Nat /\ \A i \in DOMAIN l : l[i] \in Transport!Frames
  OBVIOUS
<1>2. ASSUME NEW f \in Transport!Frames
      PROVE  Transport!Aged(f) \in Transport!Frames /\ Transport!Aged(f).content = f.content
  BY LineAssumption DEF Transport!Aged, Transport!Frames
<1>3. m \in [1..Len(l) -> Transport!Frames] /\ \A i \in DOMAIN l : m[i].content = l[i].content
  BY <1>1, <1>2 DEF Transport!AllAged
<1>4. DOMAIN m = DOMAIN l
  BY <1>1 DEF Transport!AllAged
<1> HIDE DEF m
<1>5. m \in Seq(Transport!Frames) /\ Len(m) = Len(l)
  BY <1>1, <1>3
<1> QED
  BY <1>3, <1>4, <1>5 DEF m

LEMMA FramesOfType ==
  ASSUME NEW k \in {"valget", "valset"}, NEW a \in Seq(Responses \cup {Ack})
  PROVE  /\ Transport!FramesOf(k, a) \in Seq(Transport!Frames) /\ Len(Transport!FramesOf(k, a)) = Len(a)
         /\ DOMAIN Transport!FramesOf(k, a) = DOMAIN a
         /\ \A i \in DOMAIN a : Transport!FramesOf(k, a)[i].content = a[i]
<1> DEFINE m == Transport!FramesOf(k, a)
<1>1. /\ DOMAIN a = 1..Len(a) /\ Len(a) \in Nat
      /\ \A i \in DOMAIN a : a[i] \in Responses \cup {Ack}
  OBVIOUS
<1>2. m \in [1..Len(a) -> Transport!Frames] /\ \A i \in DOMAIN a : m[i].content = a[i]
  BY <1>1 DEF Transport!FramesOf, Transport!Frames
<1>3. DOMAIN m = DOMAIN a
  BY <1>1 DEF Transport!FramesOf
<1> HIDE DEF m
<1>4. m \in Seq(Transport!Frames) /\ Len(m) = Len(a)
  BY <1>1, <1>2
<1> QED
  BY <1>2, <1>3, <1>4 DEF m

\* Every answer on a line that has been extended was there, or is new.
LEMMA AppendedLine ==
  ASSUME NEW l \in Seq(Transport!Frames), NEW m \in Seq(Transport!Frames)
  PROVE  /\ l \o m \in Seq(Transport!Frames) /\ Len(l \o m) = Len(l) + Len(m)
         /\ \A i \in DOMAIN (l \o m) :
              \/ \E j \in DOMAIN l : (l \o m)[i] = l[j]
              \/ \E j \in DOMAIN m : (l \o m)[i] = m[j]
<1>1. /\ l \o m \in Seq(Transport!Frames) /\ Len(l \o m) = Len(l) + Len(m)
      /\ \A i \in DOMAIN (l \o m) :
           \/ i \in DOMAIN l /\ (l \o m)[i] = l[i]
           \/ i - Len(l) \in DOMAIN m /\ (l \o m)[i] = m[i - Len(l)]
  OBVIOUS
<1> QED
  BY <1>1

LEMMA SingletonSeq ==
  ASSUME NEW S, NEW e \in S
  PROVE  <<e>> \in Seq(S) /\ Len(<<e>>) = 1
  OBVIOUS

LEMMA DecodedLine ==
  ASSUME NEW l \in Seq(Transport!Frames), l # <<>>
  PROVE  /\ Head(l) \in Transport!Frames /\ Tail(l) \in Seq(Transport!Frames) /\ Len(Tail(l)) = Len(l) - 1
         /\ \E j \in DOMAIN l : Head(l) = l[j]
         /\ \A i \in DOMAIN Tail(l) : \E j \in DOMAIN l : Tail(l)[i] = l[j]
<1>1. 1 \in DOMAIN l /\ Head(l) = l[1]
  OBVIOUS
<1>2. \A i \in DOMAIN Tail(l) : i + 1 \in DOMAIN l /\ Tail(l)[i] = l[i + 1]
  OBVIOUS
<1>3. Head(l) \in Transport!Frames /\ Tail(l) \in Seq(Transport!Frames) /\ Len(Tail(l)) = Len(l) - 1
  OBVIOUS
<1> QED
  BY <1>1, <1>2, <1>3

\* What a report says, and that an ACK-ACK reports nothing.
LEMMA Contents ==
  /\ \A r \in Repos : Response(r) \in Responses /\ Response(r)[2] = r
  /\ \A c \in Responses : c[2] \in Repos /\ c = Response(c[2])
  /\ Ack \notin Responses
<1>1. \A r \in Repos : Response(r) \in Responses /\ Response(r)[2] = r /\ Response(r) # Ack
  BY DEF Responses, Response, Ack
<1> QED
  BY <1>1 DEF Responses

LEMMA InitIInv == Init => IInv
<1> SUFFICES ASSUME Init PROVE IInv
  OBVIOUS
<1> USE DEF Init, Transport!Init
<1>1. toggle \in BOOLEAN /\ clean \in BOOLEAN /\ handled \in BOOLEAN
  BY Zenon
<1>2. line \in Seq(Transport!Frames) /\ Len(line) = 0 /\ DOMAIN line = {}
  OBVIOUS
<1>3. Transport!TypeOK
  BY <1>1, <1>2, LineAssumption DEF Transport!TypeOK
<1>4. TypeOK
  BY <1>3, LineAssumption DEF TypeOK, NoRepo, Repos
<1>5. FrameInv /\ PollInv /\ UpdateInv /\ CleanInv
  BY <1>1 DEF FrameInv, PollInv, UpdateInv, CleanInv
<1> QED
  BY <1>4, <1>5 DEF IInv

\* LoadFails, Poll, ForceSync, Sync, NothingToSync and QueryDatum: nothing of the transport changes.
LEMMA CommandKeeps ==
  ASSUME IInv,
         \/ LoadFails \/ (\E ini \in Inis : Poll(ini) \/ ForceSync(ini))
         \/ Sync \/ NothingToSync \/ QueryDatum
  PROVE  IInv'
<1>1. TypeOK /\ FrameInv /\ PollInv /\ UpdateInv /\ CleanInv
  BY DEF IInv
<1>2. Idle /\ UNCHANGED transportVars
  BY DEF LoadFails, Poll, Sync, NothingToSync, QueryDatum, ForceSync, vars
<1>3. Transport!TypeOK'
  BY <1>1, <1>2 DEF TypeOK, Transport!TypeOK, transportVars
<1>4. CleanInv'
  BY <1>1, <1>2 DEF CleanInv, Idle, transportVars
<1>5. CASE LoadFails
  <2>1. TypeOK'
    BY <1>1, <1>3, <1>5 DEF LoadFails, TypeOK
  <2>2. FrameInv' /\ PollInv' /\ UpdateInv'
    BY <1>1, <1>2, <1>5 DEF LoadFails, FrameInv, PollInv, UpdateInv, Idle, transportVars
  <2> QED
    BY <1>4, <2>1, <2>2 DEF IInv
<1>6. ASSUME NEW ini \in Inis, Poll(ini) PROVE IInv'
  <2>1. TypeOK'
    BY <1>1, <1>3, <1>6 DEF Poll, TypeOK, NoRepo, Repos
  <2>2. FrameInv' /\ UpdateInv'
    BY <1>1, <1>2, <1>6 DEF Poll, FrameInv, UpdateInv, Idle, transportVars
  <2>3. polled' # None => line' = <<>> /\ frame' = None /\ polled' = chip
    BY <1>1, <1>2, <1>6 DEF Poll, FrameInv, transportVars
  <2>4. PollInv'
    BY <1>6, <2>3 DEF Poll, PollInv, RepositoryIsCurrent, Known, NoRepo
  <2> QED
    BY <1>4, <2>1, <2>2, <2>4 DEF IInv
<1>7. ASSUME NEW ini \in Inis, ForceSync(ini) PROVE IInv'
  <2>1. DOMAIN ini \subseteq Keys
    BY ConfigAssumption
  <2>2. TypeOK'
    BY <1>1, <1>3, <1>7, <2>1 DEF ForceSync, TypeOK
  <2>3. FrameInv' /\ PollInv' /\ UpdateInv'
    BY <1>1, <1>2, <1>7 DEF ForceSync, FrameInv, PollInv, UpdateInv, Idle, transportVars
  <2> QED
    BY <1>4, <2>2, <2>3 DEF IInv
<1>8. CASE Sync
  <2>1. DOMAIN default \subseteq Keys /\ \A k \in DOMAIN default : default[k] \in Values
    BY <1>1, ConfigAssumption DEF TypeOK
  <2>2. TypeOK'
    BY <1>1, <1>3, <1>8, <2>1 DEF Sync, TypeOK, Differing
  <2>3. FrameInv' /\ PollInv'
    BY <1>1, <1>2, <1>8 DEF Sync, FrameInv, PollInv, RepositoryIsCurrent, Known, Trusted, Idle,
                            transportVars
  <2>4. polled # None => \A k \in DOMAIN default \ Differing(repo) : chip[k] = default[k]
    <3> SUFFICES ASSUME polled # None, NEW k \in DOMAIN default, repo[k] = default[k]
                 PROVE  chip[k] = default[k]
      BY DEF Differing
    <3>1. repo[k] # None /\ repo[k] \in {None, polled[k], chip[k]}
      BY <1>1, <2>1, ConfigAssumption DEF PollInv, RepositoryIsCurrent, Known
    <3> QED
      BY <1>1, <3>1 DEF PollInv
  <2>5. UpdateInv'
    BY <1>1, <1>2, <1>8, <2>4 DEF Sync, UpdateInv, Differing
  <2> QED
    BY <1>4, <2>2, <2>3, <2>5 DEF IInv
<1>9. CASE NothingToSync
  BY <1>1, <1>3, <1>4, <1>9
  DEF NothingToSync, vars, configVars, transportVars, IInv, TypeOK, FrameInv, PollInv,
      RepositoryIsCurrent, Known, Trusted, UpdateInv
<1>10. CASE QueryDatum
  <2>1. TypeOK'
    BY <1>1, <1>3, <1>10 DEF QueryDatum, TypeOK
  <2>2. FrameInv' /\ PollInv' /\ UpdateInv'
    BY <1>1, <1>2, <1>10 DEF QueryDatum, FrameInv, PollInv, RepositoryIsCurrent, Known, Trusted,
                             UpdateInv, Idle, transportVars
  <2> QED
    BY <1>4, <2>1, <2>2 DEF IInv
<1> QED
  BY <1>5, <1>6, <1>7, <1>8, <1>9, <1>10

LEMMA OtherCommandKeeps ==
  ASSUME IInv, OtherCommand
  PROVE  IInv'
<1>1. TypeOK /\ FrameInv /\ PollInv /\ UpdateInv /\ CleanInv
  BY DEF IInv
<1>2. PICK a \in {<<>>, <<Ack>>} :
        /\ Len(line) + Len(a) <= MaxLine
        /\ line' = line \o Transport!AllAged(Transport!FramesOf("valset", a))
  BY DEF OtherCommand
<1> DEFINE m == Transport!AllAged(Transport!FramesOf("valset", a))
<1>3. m \in Seq(Transport!Frames) /\ Len(m) = Len(a)
  <2>1. a \in Seq(Responses \cup {Ack})
    BY EmptySeq, SingletonSeq
  <2> QED
    BY <2>1, FramesOfType, AgedLine
<1>4. /\ Idle /\ chip' \in Chips /\ polled' = None /\ line' = line \o m
      /\ UNCHANGED <<phase, kind, toggle, lastSent, worker, frame, setBy, clean, handled,
                     command, default, repo, updates>>
  BY <1>2 DEF OtherCommand
<1> HIDE DEF m
<1>5. line' \in Seq(Transport!Frames) /\ Len(line') <= MaxLine
  BY <1>1, <1>2, <1>3, <1>4, AppendedLine DEF TypeOK, Transport!TypeOK
<1>6. TypeOK'
  BY <1>1, <1>4, <1>5 DEF TypeOK, Transport!TypeOK
<1>7. FrameInv' /\ PollInv' /\ UpdateInv' /\ CleanInv'
  BY <1>1, <1>4 DEF FrameInv, PollInv, UpdateInv, CleanInv, Idle
<1> QED
  BY <1>6, <1>7 DEF IInv

LEMMA SendKeeps ==
  ASSUME IInv, Send
  PROVE  IInv'
<1>1. TypeOK /\ FrameInv /\ PollInv /\ UpdateInv /\ CleanInv
  BY DEF IInv
<1>2. PICK k \in {"valget", "valset"} : Transport!Begin(k)
  BY DEF Send
<1> USE DEF Transport!Begin, Transport!history
<1>3. line \in Seq(Transport!Frames) /\ frame \in Transport!Frames \cup {None}
  BY <1>1 DEF TypeOK, Transport!TypeOK
<1>4. /\ line' \in Seq(Transport!Frames) /\ Len(line') = Len(line) /\ DOMAIN line' = DOMAIN line
      /\ \A i \in DOMAIN line : line'[i].content = line[i].content
  BY <1>2, <1>3, AgedLine
<1>5. /\ frame' \in Transport!Frames \cup {None} /\ (frame' = None <=> frame = None)
      /\ frame' # None => frame'.content = frame.content
  BY <1>2, <1>3, LineAssumption DEF Transport!Aged, Transport!Frames
<1>6. clean' \in BOOLEAN /\ toggle' = FALSE
  BY <1>2, Zenon
<1>7. command # "none" /\ UNCHANGED configVars /\ phase' = "ids"
  BY <1>2 DEF Send
<1>8. TypeOK'
  BY <1>1, <1>2, <1>4, <1>5, <1>6, <1>7 DEF TypeOK, Transport!TypeOK, configVars
<1>9. FrameInv' /\ UpdateInv'
  BY <1>1, <1>2, <1>5, <1>7 DEF FrameInv, UpdateInv, configVars
<1>10. PollInv'
  BY <1>1, <1>4, <1>5, <1>7 DEF PollInv, RepositoryIsCurrent, Known, Trusted, configVars
<1>11. CleanInv'
  <2>1. clean' => line = <<>> /\ worker' = "idle"
    BY <1>2, Zenon
  <2>2. line = <<>> => line' = <<>>
    BY <1>3, <1>4
  <2> QED
    BY <1>6, <1>7, <2>1, <2>2 DEF CleanInv
<1> QED
  BY <1>8, <1>9, <1>10, <1>11 DEF IInv

LEMMA SendIdsKeeps ==
  ASSUME IInv, SendIds
  PROVE  IInv'
<1>1. TypeOK /\ FrameInv /\ PollInv /\ UpdateInv /\ CleanInv
  BY DEF IInv
<1> USE DEF SendIds, configVars, Transport!SetIds, Transport!workVars, Transport!history
<1>2. TypeOK'
  BY <1>1 DEF TypeOK, Transport!TypeOK
<1>3. FrameInv' /\ PollInv' /\ UpdateInv' /\ CleanInv'
  BY <1>1 DEF FrameInv, PollInv, RepositoryIsCurrent, Known, Trusted, UpdateInv, CleanInv
<1> QED
  BY <1>2, <1>3 DEF IInv

\* What writing the request does to the line and to the phase.
LEMMA Written ==
  ASSUME TypeOK, NEW a \in Seq(Responses \cup {Ack}), Transport!WriteWith(a)
  PROVE  /\ Transport!TypeOK' /\ phase = "write" /\ phase' = "wait"
         /\ UNCHANGED <<kind, toggle, lastSent, clean, worker, frame, setBy, handled>>
         /\ Len(line') = Len(line) + Len(a)
         /\ \A i \in DOMAIN line' : \/ \E j \in DOMAIN line : line'[i] = line[j]
                                    \/ \E j \in DOMAIN a : line'[i].content = a[j]
<1> USE DEF Transport!WriteWith, Transport!workVars, Transport!history
<1> DEFINE m == Transport!FramesOf(kind, a)
<1>1. kind \in {"valget", "valset"} /\ line \in Seq(Transport!Frames)
  BY DEF TypeOK, Transport!TypeOK
<1>2. /\ m \in Seq(Transport!Frames) /\ Len(m) = Len(a) /\ DOMAIN m = DOMAIN a
      /\ \A i \in DOMAIN a : m[i].content = a[i]
  BY <1>1, FramesOfType
<1>3. line' = line \o m
  OBVIOUS
<1> HIDE DEF m
<1>4. /\ line' \in Seq(Transport!Frames) /\ Len(line') = Len(line) + Len(a)
      /\ \A i \in DOMAIN line' : \/ \E j \in DOMAIN line : line'[i] = line[j]
                                 \/ \E j \in DOMAIN m : line'[i] = m[j]
  <2>1. /\ line \o m \in Seq(Transport!Frames) /\ Len(line \o m) = Len(line) + Len(m)
        /\ \A i \in DOMAIN (line \o m) : \/ \E j \in DOMAIN line : (line \o m)[i] = line[j]
                                        \/ \E j \in DOMAIN m : (line \o m)[i] = m[j]
    BY <1>1, <1>2, AppendedLine, Zenon
  <2> QED
    BY <1>2, <1>3, <2>1, Zenon
<1>5. ASSUME NEW i \in DOMAIN line', NEW j \in DOMAIN m, line'[i] = m[j]
      PROVE  \E n \in DOMAIN a : line'[i].content = a[n]
  BY <1>2, <1>5
<1>6. Transport!TypeOK'
  BY <1>4 DEF TypeOK, Transport!TypeOK
<1> QED
  BY <1>4, <1>5, <1>6

\* The answer to the poll reports what the chip has, which is what was polled; the
\* answer to a query only what the chip has of the datum.
LEMMA ValgetKeeps ==
  ASSUME IInv, Valget
  PROVE  IInv'
<1>1. TypeOK /\ FrameInv /\ PollInv /\ UpdateInv /\ CleanInv
  BY DEF IInv
<1> DEFINE r == [k \in Keys |-> IF k \in Asked THEN chip[k] ELSE None]
<1>2. PICK a \in {<<>>, <<Response(r)>>, <<Response(r), Ack>>} : Transport!WriteWith(a)
  BY DEF Valget
<1>3. command \in {"poll", "query"} /\ UNCHANGED configVars
  BY DEF Valget
<1>4. r \in Repos
  BY <1>1 DEF TypeOK, Repos, Chips
<1>5. /\ \A k \in Keys : r[k] \in {None, chip[k]}
      /\ command = "query" => \A k \in Keys \ DatumKeys : r[k] = None
  BY DEF Asked
<1> HIDE DEF r
<1>6. Response(r) \in Responses /\ Response(r)[2] = r /\ Ack \notin Responses
  BY <1>4, Contents
<1>7. /\ a \in Seq(Responses \cup {Ack})
      /\ \A j \in DOMAIN a : a[j] \in {Response(r), Ack}
  <2> DEFINE p == Response(r)
             q == Ack
  <2>1. p \in Responses \cup {Ack} /\ q \in Responses \cup {Ack}
    BY <1>6
  <2> HIDE DEF p, q
  <2>2. /\ <<>> \in Seq(Responses \cup {Ack}) /\ <<p>> \in Seq(Responses \cup {Ack})
        /\ <<p, q>> \in Seq(Responses \cup {Ack})
    BY <2>1, EmptySeq
  <2>3. /\ \A j \in DOMAIN <<>> : <<>>[j] \in {p, q}
        /\ \A j \in DOMAIN <<p>> : <<p>>[j] \in {p, q}
        /\ \A j \in DOMAIN <<p, q>> : <<p, q>>[j] \in {p, q}
    OBVIOUS
  <2> QED
    BY <2>2, <2>3, Zenon DEF p, q
<1>8. /\ Transport!TypeOK' /\ phase = "write" /\ phase' = "wait"
      /\ UNCHANGED <<kind, toggle, lastSent, clean, worker, frame, setBy, handled>>
      /\ \A i \in DOMAIN line' : \/ \E j \in DOMAIN line : line'[i] = line[j]
                                 \/ \E j \in DOMAIN a : line'[i].content = a[j]
  BY <1>1, <1>2, <1>7, Written
<1>9. TypeOK'
  BY <1>1, <1>3, <1>8 DEF TypeOK, configVars
<1>10. FrameInv' /\ UpdateInv' /\ CleanInv'
  BY <1>1, <1>3, <1>8 DEF FrameInv, UpdateInv, CleanInv, configVars
<1>11. PollInv'
  <2> SUFFICES ASSUME polled # None PROVE PollInv'
    BY <1>3 DEF PollInv, configVars
  <2>1. \A k \in Keys : r[k] \in Known(k)
    <3>1. CASE command = "poll"
      BY <1>1, <1>5, <3>1 DEF PollInv, Known
    <3>2. CASE command = "query"
      BY <1>5, <3>2 DEF Known
    <3> QED
      BY <1>3, <3>1, <3>2
  <2>2. ASSUME NEW i \in DOMAIN line' PROVE Trusted(line'[i])
    <3>1. CASE \E j \in DOMAIN line : line'[i] = line[j]
      BY <1>1, <3>1 DEF PollInv
    <3>2. CASE \E j \in DOMAIN a : line'[i].content = a[j]
      <4>1. line'[i].content \in {Response(r), Ack}
        BY <1>7, <3>2
      <4> QED
        BY <1>6, <2>1, <4>1 DEF Trusted
    <3> QED
      BY <1>8, <2>2, <3>1, <3>2
  <2> QED
    BY <1>1, <1>3, <1>8, <2>2 DEF PollInv, Trusted, RepositoryIsCurrent, Known, configVars
<1> QED
  BY <1>9, <1>10, <1>11 DEF IInv

\* The chip acknowledges a VALSET only after it has taken the values over.
LEMMA ValsetKeeps ==
  ASSUME IInv, Valset
  PROVE  IInv'
<1>1. TypeOK /\ FrameInv /\ PollInv /\ UpdateInv /\ CleanInv
  BY DEF IInv
<1>2. PICK a \in {<<>>, <<Ack>>} :
        /\ Transport!WriteWith(a)
        /\ \/ chip' = [k \in Keys |-> IF k \in updates THEN default[k] ELSE chip[k]]
           \/ chip' = chip /\ a = <<>>
  BY DEF Valset
<1>3. /\ command \in {"sync", "force"}
      /\ UNCHANGED <<command, default, repo, updates, polled>>
  BY DEF Valset
<1>4. a \in Seq(Responses \cup {Ack}) /\ \A j \in DOMAIN a : a[j] = Ack
  <2> DEFINE q == Ack
  <2>1. q \in Responses \cup {Ack}
    OBVIOUS
  <2> HIDE DEF q
  <2>2. \A j \in DOMAIN <<q>> : <<q>>[j] = q
    OBVIOUS
  <2>3. <<>> \in Seq(Responses \cup {Ack}) /\ <<q>> \in Seq(Responses \cup {Ack})
    BY <2>1, EmptySeq
  <2>4. a = <<>> \/ a = <<q>>
    BY DEF q
  <2>5. \A j \in DOMAIN a : a[j] = q
    BY <2>2, <2>4
  <2> QED
    BY <2>3, <2>4, <2>5 DEF q
<1>5. /\ Transport!TypeOK' /\ phase = "write" /\ phase' = "wait"
      /\ UNCHANGED <<kind, toggle, lastSent, clean, worker, frame, setBy, handled>>
      /\ Len(line') = Len(line) + Len(a)
      /\ \A i \in DOMAIN line' : \/ \E j \in DOMAIN line : line'[i] = line[j]
                                 \/ \E j \in DOMAIN a : line'[i].content = a[j]
  BY <1>1, <1>2, <1>4, Written
<1>6. updates \subseteq DOMAIN default /\ DOMAIN default \subseteq Keys
      /\ \A k \in DOMAIN default : default[k] \in Values
  BY <1>1, <1>3, ConfigAssumption DEF UpdateInv, TypeOK
<1>7. chip' \in Chips /\ \A k \in Keys : chip'[k] \in {chip[k]} \cup {default[d] : d \in updates \cap {k}}
  BY <1>1, <1>2, <1>6 DEF Chips, TypeOK
<1>8. TypeOK'
  BY <1>1, <1>3, <1>5, <1>7 DEF TypeOK
<1>9. FrameInv'
  BY <1>1, <1>3, <1>5 DEF FrameInv
<1>10. UpdateInv'
  BY <1>1, <1>3, <1>6, <1>7 DEF UpdateInv
<1>11. PollInv'
  <2> SUFFICES ASSUME polled # None PROVE PollInv'
    BY <1>3 DEF PollInv
  <2>0. \A k \in Keys : Known(k) \subseteq Known(k)'
    <3> SUFFICES ASSUME NEW k \in Keys PROVE chip[k] \in {polled[k], chip'[k]}
      BY <1>3 DEF Known
    <3>1. CASE k \in updates
      <4>1. chip[k] \in {polled[k], default[k]}
        BY <1>1, <1>6, <3>1 DEF PollInv
      <4>2. chip'[k] \in {chip[k], default[k]}
        BY <1>7
      <4> QED
        BY <4>1, <4>2
    <3>2. CASE k \notin updates
      BY <1>7, <3>2
    <3> QED
      BY <3>1, <3>2
  <2>1. ASSUME NEW i \in DOMAIN line', line'[i].content \in Responses, NEW k \in Keys
        PROVE  line'[i].content[2][k] \in Known(k)'
    <3>1. PICK j \in DOMAIN line : line'[i] = line[j]
      BY <1>4, <1>5, <2>1, Contents
    <3>2. Trusted(line[j])
      BY <1>1 DEF PollInv
    <3> QED
      BY <2>0, <2>1, <3>1, <3>2 DEF Trusted
  <2>3. frame' # None => Trusted(frame)'
    BY <1>1, <1>5, <2>0 DEF PollInv, Trusted
  <2>4. RepositoryIsCurrent'
    BY <1>1, <1>3, <2>0 DEF PollInv, RepositoryIsCurrent
  <2>2. polled # None => \A k \in DOMAIN default : chip'[k] \in {polled[k], default[k]}
    BY <1>1, <1>6, <1>7 DEF PollInv
  <2> QED
    BY <1>3, <2>1, <2>2, <2>3, <2>4 DEF PollInv, Trusted
<1>12. CleanInv'
  <2>1. CASE chip' = [k \in Keys |-> IF k \in updates THEN default[k] ELSE chip[k]]
    <3>1. Taken'
      BY <1>3, <1>6, <2>1 DEF Taken
    <3> QED
      BY <1>5, <3>1 DEF CleanInv
  <2>2. CASE a = <<>>
    <3>1. clean => line = <<>> /\ worker = "idle" /\ ~toggle
      BY <1>1, <1>5 DEF CleanInv
    <3>2. line = <<>> => line' = <<>>
      BY <1>5, <2>2 DEF Transport!TypeOK
    <3> QED
      BY <1>5, <3>1, <3>2 DEF CleanInv
  <2> QED
    BY <1>2, <2>1, <2>2
<1> QED
  BY <1>8, <1>9, <1>10, <1>11, <1>12 DEF IInv

LEMMA ReturnKeeps ==
  ASSUME IInv, SendFails \/ Success
  PROVE  IInv'
<1>1. TypeOK /\ FrameInv /\ PollInv /\ UpdateInv /\ CleanInv
  BY DEF IInv
<1>2. clean' \in BOOLEAN /\ handled' \in BOOLEAN
  BY <1>1, Zenon DEF SendFails, Success, Transport!WriteFails, Transport!Timeout,
                     Transport!Succeed, Transport!Return, TypeOK, Transport!TypeOK
<1>3. /\ phase' = "idle" /\ setBy' = None /\ lastSent' \in {lastSent, None}
      /\ command' = "none" /\ updates' = {}
      /\ UNCHANGED <<kind, toggle, line, worker, frame, default, repo, chip, polled>>
  BY DEF SendFails, Success, Transport!WriteFails, Transport!Timeout, Transport!Succeed,
         Transport!Return, Transport!workVars
<1>4. TypeOK'
  BY <1>1, <1>2, <1>3 DEF TypeOK, Transport!TypeOK
<1>5. FrameInv' /\ PollInv' /\ UpdateInv' /\ CleanInv'
  BY <1>1, <1>3 DEF FrameInv, PollInv, RepositoryIsCurrent, Known, Trusted, UpdateInv, CleanInv
<1> QED
  BY <1>4, <1>5 DEF IInv

LEMMA DecodeKeeps ==
  ASSUME IInv, Decode
  PROVE  IInv'
<1>1. TypeOK /\ FrameInv /\ PollInv /\ UpdateInv /\ CleanInv
  BY DEF IInv
<1>2. UNCHANGED configVars
  BY DEF Decode
<1> USE DEF configVars, Transport!sendVars, Transport!history
<1>3. CASE Transport!Decode
  <2> USE DEF Transport!Decode
  <2>1. /\ frame' \in Transport!Frames /\ line' \in Seq(Transport!Frames)
        /\ Len(line') = Len(line) - 1 /\ \E j \in DOMAIN line : frame' = line[j]
        /\ \A i \in DOMAIN line' : \E j \in DOMAIN line : line'[i] = line[j]
    BY <1>1, <1>3, DecodedLine DEF TypeOK, Transport!TypeOK
  <2>2. frame' # None
    BY <2>1, LineAssumption
  <2>3. TypeOK'
    <3>1. Len(line') <= MaxLine
      BY <1>1, <2>1, LineAssumption DEF TypeOK, Transport!TypeOK
    <3> QED
      BY <1>1, <1>2, <1>3, <2>1, <3>1 DEF TypeOK, Transport!TypeOK
  <2>4. FrameInv' /\ UpdateInv'
    BY <1>1, <1>2, <1>3, <2>2 DEF FrameInv, UpdateInv
  <2>5. PollInv'
    BY <1>1, <1>2, <1>3, <2>1 DEF PollInv, Trusted, RepositoryIsCurrent, Known
  <2>6. CleanInv'
    BY <1>1, <1>2, <1>3 DEF CleanInv, Taken
  <2> QED
    BY <2>3, <2>4, <2>5, <2>6 DEF IInv
<1>4. CASE Transport!Match \/ Transport!Set
  <2> USE DEF Transport!Match, Transport!Set
  <2>1. frame \in Transport!Frames /\ worker # "idle" /\ worker' \in {"set", "deliver"}
    BY <1>1, <1>4 DEF FrameInv, TypeOK, Transport!TypeOK
  <2>2. handled' \in BOOLEAN /\ toggle' \in BOOLEAN
    BY <1>1, <1>4, Zenon DEF TypeOK, Transport!TypeOK, Transport!Handled
  <2>3. setBy' \in [kind : {"valget", "valset"}, own : BOOLEAN] \cup {None}
    <3>1. frame.kind \in {"valget", "valset"} /\ frame.own \in BOOLEAN
      BY <2>1 DEF Transport!Frames
    <3>2. [kind |-> frame.kind, own |-> frame.own] \in [kind : {"valget", "valset"}, own : BOOLEAN]
      BY <3>1, Zenon
    <3>3. setBy' \in {setBy, None, [kind |-> frame.kind, own |-> frame.own]}
      BY <1>4, Zenon
    <3> QED
      BY <1>1, <3>2, <3>3 DEF TypeOK, Transport!TypeOK
  <2>4. /\ UNCHANGED <<phase, kind, lastSent, clean, line, frame>>
    BY <1>4
  <2>5. TypeOK'
    BY <1>1, <1>2, <2>1, <2>2, <2>3, <2>4 DEF TypeOK, Transport!TypeOK
  <2>6. FrameInv' /\ UpdateInv' /\ PollInv'
    BY <1>1, <1>2, <2>1, <2>4 DEF FrameInv, UpdateInv, PollInv, Trusted, RepositoryIsCurrent, Known
  <2>7. CleanInv'
    BY <1>1, <1>2, <2>1, <2>4 DEF CleanInv, Taken
  <2> QED
    BY <2>5, <2>6, <2>7 DEF IInv
<1> QED
  BY <1>3, <1>4 DEF Decode

\* A report from which one key has been taken.
LEMMA StoredContent ==
  ASSUME NEW f \in Transport!Frames, f.content \in Responses, NEW k \in Keys
  PROVE  /\ [f EXCEPT !.content[2][k] = None] \in Transport!Frames
         /\ [f EXCEPT !.content[2][k] = None].content \in Responses
         /\ [f EXCEPT !.content[2][k] = None].content[2] = [f.content[2] EXCEPT ![k] = None]
<1> DEFINE r == f.content[2]
           s == [r EXCEPT ![k] = None]
<1>1. r \in Repos /\ f.content = <<"valget", r>>
  BY Contents DEF Response
<1>2. s \in Repos
  BY <1>1 DEF Repos
<1> HIDE DEF s
<1>3. [f.content EXCEPT ![2] = s] = <<"valget", s>>
  BY <1>1
<1>4. [f EXCEPT !.content[2][k] = None] = [f EXCEPT !.content = [f.content EXCEPT ![2] = s]]
  BY DEF s, Transport!Frames
<1>5. Response(s) \in Responses /\ Response(s)[2] = s /\ Response(s) = <<"valget", s>>
  BY <1>2, Contents DEF Response
<1> DEFINE c == Response(s)
<1>6. [f EXCEPT !.content[2][k] = None] = [f EXCEPT !.content = c]
  BY <1>3, <1>4, <1>5
<1> HIDE DEF c
<1>7. c \in Responses
  BY <1>5 DEF c
<1>8. [f EXCEPT !.content = c] \in Transport!Frames /\ [f EXCEPT !.content = c].content = c
  BY <1>7 DEF Transport!Frames
<1> QED
  BY <1>5, <1>6, <1>7, <1>8 DEF c, s

\* One reported value goes to the repository: it is known, if the poll counts.
LEMMA StoreKeeps ==
  ASSUME IInv, NEW k \in Keys, Store(k)
  PROVE  IInv'
<1>1. TypeOK /\ FrameInv /\ PollInv /\ UpdateInv /\ CleanInv
  BY DEF IInv
<1>2. /\ worker = "deliver" /\ frame.content \in Responses /\ frame.content[2][k] # None
      /\ repo' = [repo EXCEPT ![k] = frame.content[2][k]]
      /\ frame' = [frame EXCEPT !.content[2][k] = None]
      /\ UNCHANGED <<phase, kind, toggle, lastSent, line, worker, setBy, clean, handled,
                     command, default, updates, chip, polled>>
  BY DEF Store, Reported
<1>3. frame \in Transport!Frames
  BY <1>1, <1>2 DEF FrameInv, TypeOK, Transport!TypeOK
<1>4. /\ frame' \in Transport!Frames /\ frame'.content \in Responses
      /\ frame'.content[2] = [frame.content[2] EXCEPT ![k] = None]
  BY <1>2, <1>3, StoredContent, Zenon
<1>5. frame' # None /\ frame # None
  BY <1>3, <1>4, LineAssumption
<1>6. frame.content[2] \in Repos
  BY <1>2, Contents
<1>7. repo' \in Repos
  BY <1>1, <1>2, <1>6 DEF TypeOK, Repos
<1>8. TypeOK'
  BY <1>1, <1>2, <1>4, <1>7 DEF TypeOK, Transport!TypeOK
<1>9. FrameInv' /\ UpdateInv' /\ CleanInv'
  BY <1>1, <1>2, <1>5 DEF FrameInv, UpdateInv, CleanInv, Taken
<1>10. PollInv'
  <2> SUFFICES ASSUME polled # None PROVE PollInv'
    BY <1>2 DEF PollInv
  <2>1. \A d \in Keys : frame.content[2][d] \in Known(d)
    BY <1>1, <1>2, <1>5 DEF PollInv, Trusted
  <2>2. \A d \in Keys : repo'[d] \in Known(d)
    BY <1>1, <1>2, <2>1 DEF PollInv, RepositoryIsCurrent, TypeOK, Repos
  <2>3. \A d \in Keys : frame'.content[2][d] \in Known(d)
    BY <1>4, <1>6, <2>1 DEF Repos, Known
  <2> QED
    BY <1>1, <1>2, <2>2, <2>3 DEF PollInv, Trusted, RepositoryIsCurrent, Known
<1> QED
  BY <1>8, <1>9, <1>10 DEF IInv

LEMMA StoredKeeps ==
  ASSUME IInv, Stored
  PROVE  IInv'
<1>1. TypeOK /\ FrameInv /\ PollInv /\ UpdateInv /\ CleanInv
  BY DEF IInv
<1> USE DEF Stored, configVars, Transport!Deliver, Transport!sendVars, Transport!history
<1>2. TypeOK'
  BY <1>1 DEF TypeOK, Transport!TypeOK
<1>3. FrameInv' /\ UpdateInv' /\ CleanInv'
  BY <1>1 DEF FrameInv, UpdateInv, CleanInv, Taken
<1>4. PollInv'
  BY <1>1 DEF PollInv, Trusted, RepositoryIsCurrent, Known
<1> QED
  BY <1>2, <1>3, <1>4 DEF IInv

\* Every step of the commands, the chip and the worker keeps the invariant.
LEMMA NextIInv == IInv /\ [Next]_vars => IInv'
<1> SUFFICES ASSUME IInv, [Next]_vars PROVE IInv'
  OBVIOUS
<1>1. CASE UNCHANGED vars
  BY <1>1 DEF vars, transportVars, configVars, IInv, TypeOK, Transport!TypeOK, FrameInv,
              PollInv, Trusted, RepositoryIsCurrent, Known, UpdateInv, CleanInv, Taken
<1>2. CASE Next
  BY <1>2, CommandKeeps, OtherCommandKeeps, SendKeeps, SendIdsKeeps, ValgetKeeps, ValsetKeeps,
     ReturnKeeps, DecodeKeeps, StoreKeeps, StoredKeeps, Zenon
  DEF Next, Control, Worker
<1> QED
  BY <1>1, <1>2

LEMMA Invariance == Spec => []IInv
  BY InitIInv, NextIInv, PTL DEF Spec

-----------------------------------------------------------------------------
(* The theorems.                                                           *)

\* The repository holds values, the line answers, and the line keeps its bound,
\* for any keys and INI files.
THEOREM TypeCorrect == Spec => []TypeOK
<1>1. IInv => TypeOK
  BY DEF IInv
<1> QED
  BY <1>1, Invariance, PTL

\* What the repository holds of a key is what the chip reported to the last poll or,
\* of the datum (ubx_config_manager.cpp:85-90 stores the answers to query_datum(), too),
\* still has, however late the answers come and whatever commands run meanwhile.
THEOREM RepositorySafe == Spec => []RepositoryIsCurrent
<1>1. IInv => RepositoryIsCurrent
  BY DEF IInv, PollInv, RepositoryIsCurrent, Known
<1> QED
  BY <1>1, Invariance, PTL

\* A sync_config() that finds nothing to send is right about the chip.
THEOREM SkipSafe == Spec => []SkipIsSafe
<1>1. IInv => SkipIsSafe
  <2> SUFFICES ASSUME IInv, polled # None, Differing(repo) = {}, NEW k \in DOMAIN default
               PROVE  chip[k] = default[k]
    BY DEF SkipIsSafe, InSync
  <2>1. TypeOK /\ PollInv
    BY DEF IInv
  <2>2. DOMAIN default \subseteq Keys /\ default[k] \in Values
    BY <2>1, ConfigAssumption DEF TypeOK
  <2>3. repo[k] = default[k]
    BY DEF Differing
  <2>4. repo[k] \in {None, polled[k], chip[k]}
    BY <2>1, <2>2 DEF PollInv, RepositoryIsCurrent, Known
  <2>5. default[k] \in {polled[k], chip[k]}
    BY <2>2, <2>3, <2>4, ConfigAssumption
  <2> QED
    BY <2>1, <2>5 DEF PollInv
<1> QED
  BY <1>1, Invariance, PTL

\* A sync_config() or force_sync_config() whose request was acknowledged, with
\* nothing older under way, has left the chip with the defaults.
THEOREM SuccessSafe == Spec => SuccessTakesEffect
<1> DEFINE Effect == /\ Success /\ clean
                     /\ \/ command = "sync" /\ polled # None
                        \/ command = "force"
                     => InSync
<1>1. IInv /\ [Next]_vars => [Effect]_vars
  <2> SUFFICES ASSUME IInv, Success, clean,
                      \/ command = "sync" /\ polled # None
                      \/ command = "force"
               PROVE  InSync
    OBVIOUS
  <2>1. UpdateInv /\ CleanInv
    BY DEF IInv
  <2>2. phase = "wait" /\ toggle
    BY DEF Success, Transport!Succeed
  <2>3. \A k \in updates : chip[k] = default[k]
    BY <2>1, <2>2 DEF CleanInv, Taken
  <2> QED
    BY <2>1, <2>3 DEF UpdateInv, InSync
<1> QED
  BY <1>1, Invariance, PTL DEF Spec, SuccessTakesEffect

-----------------------------------------------------------------------------
(* The configuration commands are the transport's.                         *)

\* An answer without the values it reports.
Report == Response(NoRepo)
Tag(f) ==
  IF f = None THEN None
  ELSE [kind |-> f.kind, content |-> IF f.content = Ack THEN Ack ELSE Report, own |-> f.own]
Tags(l) == [i \in DOMAIN l |-> Tag(l[i])]

Protocol == INSTANCE AckTransportProofs WITH
  Kinds      <- {"valget", "valset"},
  AsyncKinds <- {"valset"},
  Contents   <- {Report, Ack},
  Positive   <- {Report, Ack},
  Answers    <- [k \in {"valget", "valset"} |->
                   IF k = "valget" THEN {<<>>, <<Report>>, <<Report, Ack>>}
                                   ELSE {<<>>, <<Ack>>}],
  line       <- Tags(line),
  frame      <- Tag(frame)

\* The request on its way is the one the command in progress sends.
RoleInv ==
  phase # "idle" =>
    /\ command # "none"
    /\ kind = IF command \in {"poll", "query"} THEN "valget" ELSE "valset"

\* Every command sends one kind of request, and none is sent without one.
LEMMA RoleInvariance == Spec => []RoleInv
<1>1. Init => RoleInv
  BY DEF Init, Transport!Init, RoleInv
<1>2. RoleInv /\ [Next]_vars => RoleInv'
  <2> SUFFICES ASSUME RoleInv, [Next]_vars PROVE RoleInv'
    OBVIOUS
  <2> USE DEF RoleInv, configVars
  <2>1. CASE \/ UNCHANGED vars \/ LoadFails \/ (\E ini \in Inis : Poll(ini) \/ ForceSync(ini))
             \/ Sync \/ NothingToSync \/ QueryDatum \/ OtherCommand
    BY <2>1 DEF vars, transportVars, LoadFails, Poll, ForceSync, Sync, NothingToSync,
                QueryDatum, OtherCommand, Idle
  <2>2. CASE Control
    BY <2>2 DEF Control, Send, SendIds, Valget, Valset, SendFails, Success, Transport!Begin,
                Transport!SetIds, Transport!WriteWith, Transport!WriteFails,
                Transport!Timeout, Transport!Succeed, Transport!Return
  <2>3. CASE Worker
    BY <2>3 DEF Worker, Decode, Store, Stored, Transport!Decode, Transport!Match,
                Transport!Set, Transport!Deliver, Transport!sendVars
  <2> QED
    BY <2>1, <2>2, <2>3 DEF Next
<1> QED
  BY <1>1, <1>2, PTL DEF Spec

\* The constants given to the protocol are as it demands.
LEMMA ProtocolAssumption == Protocol!TransportAssumption
<1> DEFINE p == Report
           q == Ack
<1>1. /\ <<>> \in Seq({p, q}) /\ <<p>> \in Seq({p, q}) /\ <<q>> \in Seq({p, q})
      /\ <<p, q>> \in Seq({p, q})
  <2> HIDE DEF p, q
  <2> QED
    OBVIOUS
<1>2. [k \in {"valget", "valset"} |->
         IF k = "valget" THEN {<<>>, <<p>>, <<p, q>>} ELSE {<<>>, <<q>>}]
      \in [{"valget", "valset"} -> SUBSET Seq({p, q})]
  <2> HIDE DEF p, q
  <2> QED
    BY <1>1
<1>3. Protocol!Frames \subseteq Transport!Frames
  <2>1. NoRepo \in Repos
    BY DEF NoRepo, Repos
  <2>2. {Report, Ack} \subseteq Responses \cup {Ack}
    BY <2>1 DEF Report, Responses
  <2> QED
    BY <2>2 DEF Protocol!Frames, Transport!Frames
<1> QED
  BY <1>2, <1>3, LineAssumption DEF Protocol!TransportAssumption

\* Of an answer the transport sees the kind, whose it is, and whether it reports.
LEMMA TagOf ==
  ASSUME NEW f \in Transport!Frames
  PROVE  /\ Tag(f) \in Protocol!Frames /\ Tag(f) # None /\ f # None
         /\ Tag(f).kind = f.kind /\ Tag(f).own = f.own
         /\ Tag(f).content = IF f.content = Ack THEN Ack ELSE Report
<1>1. f # None /\ f.kind \in {"valget", "valset"} /\ f.own \in BOOLEAN
  BY LineAssumption DEF Transport!Frames
<1>2. Tag(f) = [kind |-> f.kind, content |-> IF f.content = Ack THEN Ack ELSE Report,
                own |-> f.own]
  BY <1>1 DEF Tag
<1>3. Tag(f) \in Protocol!Frames
  BY <1>1, <1>2 DEF Protocol!Frames
<1>4. Tag(f) # None
  BY <1>3, ProtocolAssumption DEF Protocol!TransportAssumption
<1> QED
  BY <1>1, <1>2, <1>3, <1>4

\* Tags and ages are independent of each other.
LEMMA AgedRecord ==
  ASSUME NEW K, NEW C, NEW e \in [kind : K, content : C, own : BOOLEAN]
  PROVE  [e EXCEPT !.own = FALSE] = [kind |-> e.kind, content |-> e.content, own |-> FALSE]
<1> DEFINE g == [e EXCEPT !.own = FALSE]
<1>1. /\ g \in [kind : K, content : C, own : BOOLEAN]
      /\ g.kind = e.kind /\ g.content = e.content /\ g.own = FALSE
  OBVIOUS
<1>2. g = [kind |-> g.kind, content |-> g.content, own |-> g.own]
  <2> HIDE DEF g
  <2> QED
    BY <1>1
<1> QED
  BY <1>1, <1>2, Zenon

LEMMA TagAged ==
  ASSUME NEW f \in Transport!Frames \cup {None}
  PROVE  Tag(Transport!Aged(f)) = Protocol!Aged(Tag(f))
<1>1. CASE f = None
  BY <1>1 DEF Tag, Transport!Aged, Protocol!Aged
<1>2. CASE f # None
  <2> DEFINE c == IF f.content = Ack THEN Ack ELSE Report
  <2>1. f \in Transport!Frames
    BY <1>2
  <2>2. Transport!Aged(f) = [f EXCEPT !.own = FALSE] /\ Transport!Aged(f) \in Transport!Frames
    BY <1>2, <2>1 DEF Transport!Aged, Transport!Frames
  <2>3. /\ Transport!Aged(f).kind = f.kind /\ Transport!Aged(f).content = f.content
        /\ Transport!Aged(f).own = FALSE
    BY <2>1, <2>2 DEF Transport!Frames
  <2>4. Tag(Transport!Aged(f)) = [kind |-> f.kind, content |-> c, own |-> FALSE]
    BY <2>2, <2>3, TagOf DEF Tag
  <2>5. Tag(f) = [kind |-> f.kind, content |-> c, own |-> f.own] /\ Tag(f) # None
    BY <1>2, <2>1, TagOf DEF Tag
  <2>6. Protocol!Aged(Tag(f)) = [kind |-> f.kind, content |-> c, own |-> FALSE]
    <3> DEFINE e == Tag(f)
    <3>1. e \in [kind : {"valget", "valset"}, content : {Report, Ack}, own : BOOLEAN]
      BY <2>1, TagOf DEF Protocol!Frames
    <3>2. e.kind = f.kind /\ e.content = c /\ e # None
      BY <2>1, TagOf
    <3> HIDE DEF e, c
    <3>3. [e EXCEPT !.own = FALSE] = [kind |-> e.kind, content |-> e.content, own |-> FALSE]
      BY <3>1, AgedRecord, Zenon
    <3>4. Protocol!Aged(e) = [e EXCEPT !.own = FALSE]
      BY <3>2, Zenon DEF Protocol!Aged
    <3> QED
      BY <3>2, <3>3, <3>4, Zenon DEF e
  <2> QED
    BY <2>4, <2>6
<1> QED
  BY <1>1, <1>2

\* The tags of a line are a line, and are made one by one: of an aged line, of two
\* lines joined, and of the rest of a line.
LEMMA TagsOf ==
  ASSUME NEW l \in Seq(Transport!Frames)
  PROVE  /\ Tags(l) \in Seq(Protocol!Frames) /\ Len(Tags(l)) = Len(l)
         /\ DOMAIN Tags(l) = DOMAIN l /\ \A i \in DOMAIN l : Tags(l)[i] = Tag(l[i])
         /\ Tags(l) = <<>> <=> l = <<>>
<1> DEFINE m == Tags(l)
<1>1. DOMAIN l = 1..Len(l) /\ Len(l) \in Nat /\ \A i \in DOMAIN l : l[i] \in Transport!Frames
  OBVIOUS
<1>2. m \in [1..Len(l) -> Protocol!Frames] /\ DOMAIN m = DOMAIN l
      /\ \A i \in DOMAIN l : m[i] = Tag(l[i])
  BY <1>1, TagOf DEF Tags
<1> HIDE DEF m
<1>3. m \in Seq(Protocol!Frames) /\ Len(m) = Len(l)
  BY <1>1, <1>2
<1>4. m = <<>> <=> l = <<>>
  BY <1>1, <1>3
<1> QED
  BY <1>2, <1>3, <1>4 DEF m

LEMMA TagsAged ==
  ASSUME NEW l \in Seq(Transport!Frames)
  PROVE  Tags(Transport!AllAged(l)) = Protocol!AllAged(Tags(l))
<1>1. /\ DOMAIN Transport!AllAged(l) = DOMAIN l /\ DOMAIN Tags(l) = DOMAIN l
      /\ \A i \in DOMAIN l : l[i] \in Transport!Frames
      /\ \A i \in DOMAIN l : Tags(l)[i] = Tag(l[i])
  BY AgedLine, TagsOf
<1>2. ASSUME NEW i \in DOMAIN l
      PROVE  Tag(Transport!AllAged(l)[i]) = Protocol!Aged(Tags(l)[i])
  BY <1>1, TagAged DEF Transport!AllAged
<1>3. Tags(Transport!AllAged(l)) = [i \in DOMAIN l |-> Tag(Transport!AllAged(l)[i])]
  BY <1>1 DEF Tags
<1>4. Protocol!AllAged(Tags(l)) = [i \in DOMAIN l |-> Protocol!Aged(Tags(l)[i])]
  BY <1>1 DEF Protocol!AllAged
<1> QED
  BY <1>2, <1>3, <1>4

\* Facts about any sequences.
LEMMA Appended ==
  ASSUME NEW S, NEW s \in Seq(S), NEW t \in Seq(S)
  PROVE  /\ s \o t \in Seq(S) /\ Len(s \o t) = Len(s) + Len(t)
         /\ Len(s) \in Nat /\ Len(t) \in Nat
         /\ \A i \in 1..Len(s) : (s \o t)[i] = s[i]
         /\ \A i \in 1..Len(t) : (s \o t)[Len(s) + i] = t[i]
         /\ \A i \in 1..(Len(s) + Len(t)) : i \in 1..Len(s) \/ i - Len(s) \in 1..Len(t)
  OBVIOUS

LEMMA SameSequence ==
  ASSUME NEW S, NEW s \in Seq(S), NEW t \in Seq(S), Len(s) = Len(t),
         \A i \in 1..Len(s) : s[i] = t[i]
  PROVE  s = t
  OBVIOUS

LEMMA TagsAppended ==
  ASSUME NEW l \in Seq(Transport!Frames), NEW m \in Seq(Transport!Frames)
  PROVE  Tags(l \o m) = Tags(l) \o Tags(m)
<1> DEFINE n == l \o m
           u == Tags(n)
           t == Tags(l)
           v == Tags(m)
           w == t \o v
<1>1. /\ n \in Seq(Transport!Frames) /\ Len(n) = Len(l) + Len(m)
      /\ Len(l) \in Nat /\ Len(m) \in Nat
      /\ \A i \in 1..Len(l) : n[i] = l[i]
      /\ \A i \in 1..Len(m) : n[Len(l) + i] = m[i]
  BY Appended
<1> HIDE DEF n
<1>2. /\ t \in Seq(Protocol!Frames) /\ Len(t) = Len(l) /\ \A i \in 1..Len(l) : t[i] = Tag(l[i])
      /\ v \in Seq(Protocol!Frames) /\ Len(v) = Len(m) /\ \A i \in 1..Len(m) : v[i] = Tag(m[i])
      /\ u \in Seq(Protocol!Frames) /\ Len(u) = Len(n) /\ \A i \in 1..Len(n) : u[i] = Tag(n[i])
  BY <1>1, TagsOf
<1> HIDE DEF u, t, v
<1>3. /\ w \in Seq(Protocol!Frames) /\ Len(w) = Len(t) + Len(v)
      /\ \A i \in 1..Len(t) : w[i] = t[i]
      /\ \A i \in 1..Len(v) : w[Len(t) + i] = v[i]
  <2>1. t \in Seq(Protocol!Frames) /\ v \in Seq(Protocol!Frames)
    BY <1>2
  <2> QED
    BY <2>1, Appended
<1> HIDE DEF w
<1>4. ASSUME NEW i \in 1..Len(u) PROVE u[i] = w[i]
  <2>1. CASE i <= Len(l)
    BY <1>1, <1>2, <1>3, <2>1
  <2>2. CASE i > Len(l)
    <3> DEFINE j == i - Len(l)
    <3>1. j \in 1..Len(m) /\ i = Len(l) + j /\ i \in 1..Len(n)
      BY <1>1, <1>2, <2>2
    <3> HIDE DEF j
    <3> QED
      BY <1>1, <1>2, <1>3, <3>1
  <2> QED
    BY <1>1, <1>2, <2>1, <2>2
<1>5. Len(u) = Len(w)
  BY <1>1, <1>2, <1>3
<1>6. u = w
  BY <1>2, <1>3, <1>4, <1>5, SameSequence
<1> QED
  BY <1>6 DEF n, u, t, v, w

LEMMA Decoded ==
  ASSUME NEW S, NEW s \in Seq(S), s # <<>>
  PROVE  /\ Tail(s) \in Seq(S) /\ Len(Tail(s)) = Len(s) - 1 /\ Head(s) = s[1]
         /\ Len(s) \in Nat \ {0}
         /\ \A i \in 1..(Len(s) - 1) : i + 1 \in 1..Len(s) /\ Tail(s)[i] = s[i + 1]
  OBVIOUS

LEMMA TagsDecoded ==
  ASSUME NEW l \in Seq(Transport!Frames), l # <<>>
  PROVE  /\ Tags(l) # <<>> /\ Tag(Head(l)) = Head(Tags(l)) /\ Tags(Tail(l)) = Tail(Tags(l))
<1> DEFINE n == Tail(l)
           t == Tags(l)
           u == Tags(n)
           w == Tail(t)
<1>1. /\ n \in Seq(Transport!Frames) /\ Len(n) = Len(l) - 1 /\ Head(l) = l[1]
      /\ Len(l) \in Nat \ {0}
      /\ \A i \in 1..(Len(l) - 1) : i + 1 \in 1..Len(l) /\ n[i] = l[i + 1]
  BY Decoded
<1> HIDE DEF n
<1>2. /\ t \in Seq(Protocol!Frames) /\ Len(t) = Len(l) /\ t # <<>>
      /\ \A i \in 1..Len(l) : t[i] = Tag(l[i])
      /\ u \in Seq(Protocol!Frames) /\ Len(u) = Len(n) /\ \A i \in 1..Len(n) : u[i] = Tag(n[i])
  BY <1>1, TagsOf
<1> HIDE DEF t, u
<1>3. /\ w \in Seq(Protocol!Frames) /\ Len(w) = Len(t) - 1 /\ Head(t) = t[1]
      /\ \A i \in 1..(Len(t) - 1) : w[i] = t[i + 1]
  BY <1>2, Decoded
<1> HIDE DEF w
<1>4. Len(u) = Len(w) /\ \A i \in 1..Len(u) : u[i] = w[i]
  BY <1>1, <1>2, <1>3
<1>5. u = w
  BY <1>2, <1>3, <1>4, SameSequence
<1>6. Tag(Head(l)) = Head(t)
  BY <1>1, <1>2, <1>3
<1> QED
  BY <1>2, <1>5, <1>6 DEF n, t, u, w

\* Nothing has been sent, and nothing answered.
LEMMA ProtocolInit == Init => Protocol!Init
<1> SUFFICES ASSUME Init PROVE Protocol!Init
  OBVIOUS
<1>1. Transport!Init
  BY DEF Init
<1>2. line \in Seq(Transport!Frames) /\ line = <<>> /\ frame = None
  BY <1>1 DEF Transport!Init
<1>3. Tags(line) = <<>> /\ Tag(frame) = None
  BY <1>2, TagsOf DEF Tag
<1> QED
  BY <1>1, <1>3, Zenon DEF Transport!Init, Protocol!Init

\* What the chip answers to a request, as the transport sees it.
LEMMA TagsWritten ==
  ASSUME NEW k \in {"valget", "valset"}, NEW a \in Seq(Responses \cup {Ack}),
         NEW b \in Seq({Report, Ack}), Len(b) = Len(a),
         \A i \in 1..Len(a) : b[i] = IF a[i] = Ack THEN Ack ELSE Report
  PROVE  /\ Transport!FramesOf(k, a) \in Seq(Transport!Frames)
         /\ Tags(Transport!FramesOf(k, a)) = Protocol!FramesOf(k, b)
<1> DEFINE m == Transport!FramesOf(k, a)
<1>1. DOMAIN a = 1..Len(a) /\ DOMAIN b = 1..Len(a)
  OBVIOUS
<1>2. /\ m \in Seq(Transport!Frames) /\ DOMAIN m = 1..Len(a)
      /\ \A i \in 1..Len(a) : m[i] = [kind |-> k, content |-> a[i], own |-> TRUE]
  BY <1>1, FramesOfType DEF Transport!FramesOf
<1> HIDE DEF m
<1>3. ASSUME NEW i \in 1..Len(a)
      PROVE  Tag(m[i]) = [kind |-> k, content |-> b[i], own |-> TRUE]
  <2>1. m[i] \in Transport!Frames
    BY <1>2
  <2>2. m[i] # None
    BY <2>1, TagOf
  <2> DEFINE e == m[i]
  <2>3. e.kind = k /\ e.content = a[i] /\ e.own = TRUE /\ e # None
    BY <1>2, <2>2
  <2> HIDE DEF e
  <2>4. Tag(e) = [kind |-> k, content |-> IF a[i] = Ack THEN Ack ELSE Report, own |-> TRUE]
    BY <2>3, Zenon DEF Tag
  <2> QED
    BY <2>4, Zenon DEF e
<1>4. Tags(m) = [i \in 1..Len(a) |-> [kind |-> k, content |-> b[i], own |-> TRUE]]
  BY <1>2, <1>3 DEF Tags
<1>5. Protocol!FramesOf(k, b) = [i \in 1..Len(a) |-> [kind |-> k, content |-> b[i], own |-> TRUE]]
  BY <1>1 DEF Protocol!FramesOf
<1> QED
  BY <1>2, <1>4, <1>5 DEF m

\* The answers the chip gives are among those the transport expects.
LEMMA AnswersOf ==
  ASSUME NEW r \in Repos
  PROVE  /\ \A a \in {<<>>, <<Response(r)>>, <<Response(r), Ack>>} :
              /\ a \in Seq(Responses \cup {Ack})
              /\ \E b \in {<<>>, <<Report>>, <<Report, Ack>>} :
                   /\ b \in Seq({Report, Ack}) /\ Len(b) = Len(a)
                   /\ \A i \in 1..Len(a) : b[i] = IF a[i] = Ack THEN Ack ELSE Report
         /\ \A a \in {<<>>, <<Ack>>} :
              /\ a \in Seq(Responses \cup {Ack}) /\ a \in Seq({Report, Ack})
              /\ \A i \in 1..Len(a) : a[i] = IF a[i] = Ack THEN Ack ELSE Report
<1> DEFINE x == Response(r)
           p == Report
           q == Ack
           V == Responses
<1>1. x \in V \cup {q} /\ q \in V \cup {q} /\ x # q
  BY Contents
<1>2. p \in {p, q} /\ q \in {p, q}
  OBVIOUS
<1> HIDE DEF x, p, q, V
<1>3. /\ <<>> \in Seq(V \cup {q}) /\ <<x>> \in Seq(V \cup {q}) /\ <<x, q>> \in Seq(V \cup {q})
      /\ <<q>> \in Seq(V \cup {q})
  BY <1>1
<1>4. <<>> \in Seq({p, q}) /\ <<p>> \in Seq({p, q}) /\ <<p, q>> \in Seq({p, q}) /\ <<q>> \in Seq({p, q})
  BY <1>2
<1>5. /\ Len(<<p>>) = Len(<<x>>) /\ Len(<<p, q>>) = Len(<<x, q>>)
      /\ \A i \in 1..Len(<<>>) : <<>>[i] = IF <<>>[i] = q THEN q ELSE p
      /\ \A i \in 1..Len(<<x>>) : <<p>>[i] = IF <<x>>[i] = q THEN q ELSE p
      /\ \A i \in 1..Len(<<x, q>>) : <<p, q>>[i] = IF <<x, q>>[i] = q THEN q ELSE p
      /\ \A i \in 1..Len(<<q>>) : <<q>>[i] = IF <<q>>[i] = q THEN q ELSE p
  <2>1. Len(<<p>>) = Len(<<x>>) /\ Len(<<p, q>>) = Len(<<x, q>>)
    OBVIOUS
  <2>2. \A i \in 1..Len(<<>>) : <<>>[i] = IF <<>>[i] = q THEN q ELSE p
    OBVIOUS
  <2>3. \A i \in 1..Len(<<x>>) : <<p>>[i] = IF <<x>>[i] = q THEN q ELSE p
    BY <1>1
  <2>4. \A i \in 1..Len(<<x, q>>) : <<p, q>>[i] = IF <<x, q>>[i] = q THEN q ELSE p
    <3>1. \A i \in 1..Len(<<x, q>>) : i = 1 \/ i = 2
      OBVIOUS
    <3>2. <<p, q>>[1] = p /\ <<x, q>>[1] = x /\ <<p, q>>[2] = q /\ <<x, q>>[2] = q
      OBVIOUS
    <3> QED
      BY <1>1, <3>1, <3>2, Zenon
  <2>5. \A i \in 1..Len(<<q>>) : <<q>>[i] = IF <<q>>[i] = q THEN q ELSE p
    OBVIOUS
  <2> QED
    BY <2>1, <2>2, <2>3, <2>4, <2>5
<1>6. ASSUME NEW a \in {<<>>, <<x>>, <<x, q>>}
      PROVE  /\ a \in Seq(V \cup {q})
             /\ \E b \in {<<>>, <<p>>, <<p, q>>} :
                  /\ b \in Seq({p, q}) /\ Len(b) = Len(a)
                  /\ \A i \in 1..Len(a) : b[i] = IF a[i] = q THEN q ELSE p
  <2>1. CASE a = <<>>
    BY <1>3, <1>4, <1>5, <2>1, Zenon
  <2>2. CASE a = <<x>>
    BY <1>3, <1>4, <1>5, <2>2, Zenon
  <2>3. CASE a = <<x, q>>
    BY <1>3, <1>4, <1>5, <2>3, Zenon
  <2> QED
    BY <2>1, <2>2, <2>3, Zenon
<1>7. ASSUME NEW a \in {<<>>, <<q>>}
      PROVE  /\ a \in Seq(V \cup {q}) /\ a \in Seq({p, q})
             /\ \A i \in 1..Len(a) : a[i] = IF a[i] = q THEN q ELSE p
  <2>1. CASE a = <<>>
    BY <1>3, <1>4, <1>5, <2>1, Zenon
  <2>2. CASE a = <<q>>
    BY <1>3, <1>4, <1>5, <2>2, Zenon
  <2> QED
    BY <2>1, <2>2, Zenon
<1> QED
  BY <1>6, <1>7, Zenon DEF x, p, q, V

\* Writing a request with an answer is the transport's step with the answer's tags.
LEMMA ProtocolWrites ==
  ASSUME TypeOK, NEW a \in Seq(Responses \cup {Ack}), Transport!WriteWith(a),
         NEW b \in Seq({Report, Ack}), Len(b) = Len(a),
         \A i \in 1..Len(a) : b[i] = IF a[i] = Ack THEN Ack ELSE Report
  PROVE  Protocol!WriteWith(b)
<1>1. /\ phase = "write" /\ Len(line) + Len(a) <= MaxLine
      /\ line' = line \o Transport!FramesOf(kind, a) /\ phase' = "wait"
      /\ UNCHANGED <<kind, toggle, lastSent, clean, worker, frame, setBy, handled>>
  BY DEF Transport!WriteWith, Transport!workVars, Transport!history
<1>2. line \in Seq(Transport!Frames) /\ kind \in {"valget", "valset"}
  BY DEF TypeOK, Transport!TypeOK
<1>3. Tags(line') = Tags(line) \o Protocol!FramesOf(kind, b)
  <2> DEFINE m == Transport!FramesOf(kind, a)
  <2>1. m \in Seq(Transport!Frames) /\ Tags(m) = Protocol!FramesOf(kind, b)
    BY <1>2, TagsWritten
  <2> HIDE DEF m
  <2>2. Tags(line \o m) = Tags(line) \o Tags(m)
    BY <1>2, <2>1, TagsAppended
  <2> QED
    BY <1>1, <2>1, <2>2 DEF m
<1>4. Len(Tags(line)) + Len(b) <= MaxLine
  BY <1>1, <1>2, TagsOf
<1> QED
  BY <1>1, <1>3, <1>4, Zenon DEF Protocol!WriteWith, Protocol!workVars, Protocol!history

\* A command, its request and its return are the control thread's steps.
LEMMA ProtocolSender ==
  ASSUME IInv, RoleInv, Control
  PROVE  Protocol!Next
<1>1. TypeOK /\ FrameInv
  BY DEF IInv
<1>2. /\ line \in Seq(Transport!Frames) /\ frame \in Transport!Frames \cup {None}
      /\ kind \in {"valget", "valset"} /\ chip \in Chips /\ (Tags(line) = <<>> <=> line = <<>>)
  BY <1>1, TagsOf DEF TypeOK, Transport!TypeOK
<1> USE DEF Transport!history, Protocol!history, Transport!workVars, Protocol!workVars
<1>3. CASE Send
  <2>1. PICK k \in {"valget", "valset"} : Transport!Begin(k)
    BY <1>3 DEF Send
  <2>2. Tags(line') = Protocol!AllAged(Tags(line)) /\ Tag(frame') = Protocol!Aged(Tag(frame))
    BY <1>2, <2>1, TagsAged, TagAged DEF Transport!Begin
  <2>3. Protocol!Begin(k)
    BY <1>2, <2>1, <2>2, Zenon DEF Transport!Begin, Protocol!Begin
  <2> QED
    BY <2>3, Zenon DEF Protocol!Next
<1>4. CASE SendIds
  <2>1. Protocol!SetIds
    BY <1>4, Zenon DEF SendIds, Transport!SetIds, Protocol!SetIds
  <2> QED
    BY <2>1, Zenon DEF Protocol!Next, Protocol!Sender
<1>5. CASE Valget
  <2> DEFINE r == [k \in Keys |-> IF k \in Asked THEN chip[k] ELSE None]
  <2>1. PICK a \in {<<>>, <<Response(r)>>, <<Response(r), Ack>>} : Transport!WriteWith(a)
    BY <1>5 DEF Valget
  <2>2. r \in Repos
    BY <1>2 DEF Repos, Chips
  <2> HIDE DEF r
  <2>3. a \in Seq(Responses \cup {Ack})
    BY <2>2, AnswersOf
  <2>4. PICK b \in {<<>>, <<Report>>, <<Report, Ack>>} :
          /\ b \in Seq({Report, Ack}) /\ Len(b) = Len(a)
          /\ \A i \in 1..Len(a) : b[i] = IF a[i] = Ack THEN Ack ELSE Report
    BY <2>2, AnswersOf
  <2>5. Protocol!WriteWith(b)
    BY <1>1, <2>1, <2>3, <2>4, ProtocolWrites
  <2>6. kind = "valget"
    BY <1>5, <2>1 DEF RoleInv, Valget, Transport!WriteWith
  <2>7. \E w \in [k \in {"valget", "valset"} |->
                    IF k = "valget" THEN {<<>>, <<Report>>, <<Report, Ack>>}
                                    ELSE {<<>>, <<Ack>>}][kind] : Protocol!WriteWith(w)
    BY <2>4, <2>5, <2>6
  <2> QED
    BY <2>7, Zenon DEF Protocol!Next, Protocol!Sender
<1>6. CASE Valset
  <2>1. PICK a \in {<<>>, <<Ack>>} : Transport!WriteWith(a)
    BY <1>6 DEF Valset
  <2>2. NoRepo \in Repos
    BY DEF NoRepo, Repos
  <2>3. /\ a \in Seq(Responses \cup {Ack}) /\ a \in Seq({Report, Ack})
        /\ \A i \in 1..Len(a) : a[i] = IF a[i] = Ack THEN Ack ELSE Report
    BY <2>2, AnswersOf
  <2>4. Protocol!WriteWith(a)
    BY <1>1, <2>1, <2>3, ProtocolWrites
  <2>5. kind = "valset"
    BY <1>6, <2>1 DEF RoleInv, Valset, Transport!WriteWith
  <2>6. \E w \in [k \in {"valget", "valset"} |->
                    IF k = "valget" THEN {<<>>, <<Report>>, <<Report, Ack>>}
                                    ELSE {<<>>, <<Ack>>}][kind] : Protocol!WriteWith(w)
    BY <2>4, <2>5
  <2> QED
    BY <2>6, Zenon DEF Protocol!Next, Protocol!Sender
<1>7. CASE SendFails
  <2>1. Protocol!WriteFails \/ Protocol!Timeout
    BY <1>7, Zenon
    DEF SendFails, Transport!WriteFails, Protocol!WriteFails, Transport!Timeout,
        Protocol!Timeout, Transport!Return, Protocol!Return
  <2> QED
    BY <2>1, Zenon DEF Protocol!Next, Protocol!Sender
<1>8. CASE Success
  <2>1. Protocol!Succeed
    BY <1>8, Zenon
    DEF Success, Transport!Succeed, Protocol!Succeed, Transport!Return, Protocol!Return
  <2> QED
    BY <2>1, Zenon DEF Protocol!Next, Protocol!Sender
<1> QED
  BY <1>3, <1>4, <1>5, <1>6, <1>7, <1>8 DEF Control

\* The worker's steps are those of the protocol; storing a value is none of them.
LEMMA ProtocolWorker ==
  ASSUME IInv, Worker
  PROVE  Protocol!Next \/ UNCHANGED Protocol!vars
<1>1. TypeOK /\ FrameInv
  BY DEF IInv
<1>2. line \in Seq(Transport!Frames) /\ frame \in Transport!Frames \cup {None}
  BY <1>1 DEF TypeOK, Transport!TypeOK
<1>3. worker # "idle" =>
        /\ frame \in Transport!Frames /\ Tag(frame).kind = frame.kind
        /\ Tag(frame).own = frame.own
        /\ frame.content \in Responses \cup {Ack} /\ Tag(frame).content \in {Report, Ack}
  BY <1>1, <1>2, TagOf DEF FrameInv, Transport!Frames
<1> USE DEF Transport!history, Protocol!history, Transport!sendVars, Protocol!sendVars
<1>4. CASE Transport!Decode
  <2>1. /\ Tags(line) # <<>> /\ Tag(frame') = Head(Tags(line))
        /\ Tags(line') = Tail(Tags(line))
    BY <1>2, <1>4, TagsDecoded DEF Transport!Decode
  <2>2. Protocol!Decode
    BY <1>4, <2>1, Zenon DEF Transport!Decode, Protocol!Decode
  <2> QED
    BY <2>2, Zenon DEF Protocol!Next, Protocol!Worker
<1>5. CASE Transport!Match
  <2>1. /\ worker = "match"
        /\ IF frame.content \in Responses \cup {Ack} /\ frame.kind = lastSent
           THEN worker' = "set" /\ UNCHANGED handled
           ELSE worker' = "deliver" /\ handled' = Transport!Handled
        /\ UNCHANGED <<phase, kind, toggle, lastSent, clean, line, frame, setBy>>
    BY <1>5, Zenon DEF Transport!Match
  <2>2. Transport!Handled = Protocol!Handled
    BY <1>1, <1>3, <2>1, Zenon DEF Transport!Handled, Protocol!Handled
  <2>3. frame.content \in Responses \cup {Ack} /\ Tag(frame).content \in {Report, Ack}
        /\ Tag(frame).kind = frame.kind
    BY <1>3, <2>1
  <2>4. IF Tag(frame).content \in {Report, Ack} /\ Tag(frame).kind = lastSent
        THEN worker' = "set" /\ UNCHANGED handled
        ELSE worker' = "deliver" /\ handled' = Protocol!Handled
    <3>1. CASE frame.kind = lastSent
      BY <2>1, <2>3, <3>1, Zenon
    <3>2. CASE frame.kind # lastSent
      BY <2>1, <2>2, <2>3, <3>2, Zenon
    <3> QED
      BY <3>1, <3>2
  <2>5. Protocol!Match
    BY <2>1, <2>4, Zenon DEF Protocol!Match
  <2> QED
    BY <2>5, Zenon DEF Protocol!Next, Protocol!Worker
<1>6. CASE Transport!Set
  <2>1. /\ worker = "set" /\ toggle' = TRUE /\ worker' = "deliver"
        /\ handled' = Transport!Handled
        /\ setBy' = IF phase = "idle" THEN None ELSE [kind |-> frame.kind, own |-> frame.own]
        /\ UNCHANGED <<phase, kind, lastSent, clean, line, frame>>
    BY <1>6, Zenon DEF Transport!Set
  <2>2. Transport!Handled = Protocol!Handled
    BY <1>1, <1>3, <2>1, Zenon DEF Transport!Handled, Protocol!Handled
  <2>3. Tag(frame).kind = frame.kind /\ Tag(frame).own = frame.own
    BY <1>3, <2>1
  <2>4. Protocol!Set
    BY <2>1, <2>2, <2>3, Zenon DEF Protocol!Set
  <2> QED
    BY <2>4, Zenon DEF Protocol!Next, Protocol!Worker
<1>7. ASSUME NEW k \in Keys, Store(k) PROVE UNCHANGED Protocol!vars
  <2>1. /\ worker = "deliver" /\ frame.content \in Responses
        /\ frame' = [frame EXCEPT !.content[2][k] = None]
        /\ UNCHANGED <<phase, kind, toggle, lastSent, line, worker, setBy, clean, handled>>
    BY <1>7 DEF Store
  <2>2. frame \in Transport!Frames /\ frame' \in Transport!Frames /\ frame'.content \in Responses
    BY <1>3, <2>1, StoredContent, Zenon
  <2>3. frame'.kind = frame.kind /\ frame'.own = frame.own
    BY <2>1, <2>2 DEF Transport!Frames
  <2>4. Tag(frame') = Tag(frame)
    BY <2>1, <2>2, <2>3, Contents, TagOf DEF Tag
  <2> QED
    BY <2>1, <2>4, Zenon DEF Protocol!vars, Protocol!workVars
<1>8. CASE Stored
  <2>1. Tag(frame') = None
    BY <1>8 DEF Stored, Transport!Deliver, Tag
  <2>2. Protocol!Deliver
    BY <1>8, <2>1, Zenon DEF Stored, Transport!Deliver, Protocol!Deliver
  <2> QED
    BY <2>2, Zenon DEF Protocol!Next, Protocol!Worker
<1> QED
  BY <1>4, <1>5, <1>6, <1>7, <1>8 DEF Worker, Decode

\* Every step of the commands is one of the protocol, or none of its concern.
LEMMA ProtocolNext ==
  ASSUME IInv, RoleInv, [Next]_vars
  PROVE  [Protocol!Next]_(Protocol!vars)
<1> USE DEF Protocol!vars, Protocol!sendVars, Protocol!workVars, Protocol!history
<1>1. CASE \/ UNCHANGED vars \/ LoadFails \/ (\E ini \in Inis : Poll(ini) \/ ForceSync(ini))
           \/ Sync \/ NothingToSync \/ QueryDatum
  <2>1. UNCHANGED transportVars
    BY <1>1 DEF LoadFails, Poll, ForceSync, Sync, NothingToSync, QueryDatum, vars
  <2> QED
    BY <2>1, Zenon DEF transportVars
<1>2. CASE OtherCommand
  <2>1. PICK a \in {<<>>, <<Ack>>} :
          /\ Len(line) + Len(a) <= MaxLine
          /\ line' = line \o Transport!AllAged(Transport!FramesOf("valset", a))
    BY <1>2 DEF OtherCommand
  <2>2. /\ phase = "idle"
        /\ UNCHANGED <<phase, kind, toggle, lastSent, worker, frame, setBy, clean, handled>>
    BY <1>2 DEF OtherCommand, Idle
  <2>3. NoRepo \in Repos
    BY DEF NoRepo, Repos
  <2>4. /\ a \in Seq(Responses \cup {Ack}) /\ a \in Seq({Report, Ack})
        /\ \A i \in 1..Len(a) : a[i] = IF a[i] = Ack THEN Ack ELSE Report
    BY <2>3, AnswersOf
  <2>5. line \in Seq(Transport!Frames)
    BY DEF IInv, TypeOK, Transport!TypeOK
  <2> DEFINE m == Transport!FramesOf("valset", a)
             n == Transport!AllAged(m)
  <2>6. m \in Seq(Transport!Frames) /\ Tags(m) = Protocol!FramesOf("valset", a)
    BY <2>4, TagsWritten
  <2> HIDE DEF m
  <2>7. n \in Seq(Transport!Frames) /\ Tags(n) = Protocol!AllAged(Tags(m))
    BY <2>6, AgedLine, TagsAged
  <2> HIDE DEF n
  <2>8. Tags(line \o n) = Tags(line) \o Tags(n)
    BY <2>5, <2>7, TagsAppended
  <2>9. line' = line \o n
    BY <2>1 DEF n, m
  <2>10. Tags(line') = Tags(line) \o Protocol!AllAged(Protocol!FramesOf("valset", a))
    BY <2>6, <2>7, <2>8, <2>9
  <2>11. Len(Tags(line)) + Len(a) <= MaxLine
    BY <2>1, <2>5, TagsOf
  <2>12. a \in [k \in {"valget", "valset"} |->
                  IF k = "valget" THEN {<<>>, <<Report>>, <<Report, Ack>>}
                                  ELSE {<<>>, <<Ack>>}]["valset"]
    OBVIOUS
  <2>13. Protocol!SendAsync("valset")
    BY <2>2, <2>10, <2>11, <2>12, Zenon DEF Protocol!SendAsync
  <2> QED
    BY <2>13, Zenon DEF Protocol!Next
<1>3. CASE Control
  BY <1>3, ProtocolSender
<1>4. CASE Worker
  BY <1>4, ProtocolWorker
<1> QED
  BY <1>1, <1>2, <1>3, <1>4 DEF Next

\* The configuration commands, with the chip's answers to them, are commands of
\* serial_transport_impl: what an answer reports does not matter to the handshake.
THEOREM ImplementsTransport == Spec => Protocol!Spec
<1>1. Init => Protocol!Init
  BY ProtocolInit
<1>2. IInv /\ RoleInv /\ [Next]_vars => [Protocol!Next]_(Protocol!vars)
  BY ProtocolNext
<1> QED
  BY <1>1, <1>2, Invariance, RoleInvariance, PTL DEF Spec, Protocol!Spec

\* So a configuration command that began when nothing older was under way
\* succeeds only by the chip's answer to its own VALGET or VALSET, and none
\* times out after handle_ack() has returned for one.
THEOREM ConfigCommandsSafe ==
  Spec => []Transport!CreditIsOwn /\ Transport!NoAnswerIsMissed
<1>1. Protocol!Spec => []Protocol!CreditIsOwn
  BY ProtocolAssumption, Protocol!CreditSafe DEF Protocol!TransportAssumption
<1>2. Protocol!Spec => Protocol!NoAnswerIsMissed
  BY ProtocolAssumption, Protocol!NoAnswerMissed DEF Protocol!TransportAssumption
<1>3. Protocol!CreditIsOwn => Transport!CreditIsOwn
  BY DEF Protocol!CreditIsOwn, Transport!CreditIsOwn
<1>4. [Protocol!Timeout => ~handled]_(Protocol!vars)
        => [Transport!Timeout => ~handled]_(Transport!vars)
  <2> SUFFICES ASSUME [Protocol!Timeout => ~handled]_(Protocol!vars), Transport!Timeout
               PROVE  ~handled
    OBVIOUS
  <2>1. Protocol!Timeout
    BY Zenon DEF Transport!Timeout, Protocol!Timeout, Transport!Return, Protocol!Return,
                 Transport!workVars, Protocol!workVars
  <2>2. ~ UNCHANGED Protocol!vars
    BY DEF Transport!Timeout, Transport!Return, Protocol!vars, Protocol!sendVars
  <2> QED
    BY <2>1, <2>2
<1> QED
  BY <1>1, <1>2, <1>3, <1>4, ImplementsTransport, PTL
  DEF Protocol!NoAnswerIsMissed, Transport!NoAnswerIsMissed
=============================================================================
