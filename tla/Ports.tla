-------------------------------- MODULE Ports --------------------------------
(***************************************************************************)
(* io_helper: uart_port, i2c_port and file_port behind i_io_port.          *)
(*                                                                         *)
(* One port object at a time, which a reader (the worker thread of a       *)
(* receiver) and control threads call.  Every call holds the port's mutex_ *)
(* from its first line to its last.  A call that asks the kernel once is   *)
(* one step; a read, and a write to a file, is one step per read(2) or     *)
(* write(2), which may each do less than they are asked for.  An EINTR,    *)
(* which file_port answers by asking again, is no step.                    *)
(*                                                                         *)
(* The bytes of a recording are numbered in the order in which they were   *)
(* handed to write_bytes().                                                *)
(***************************************************************************)
EXTENDS Integers, Sequences

CONSTANTS
    Reader,      \* the thread that calls available() and read_bytes()
    Controls,    \* the threads that make the other calls
    Fds,         \* descriptors the kernel may hand out
    Configs,     \* [type, wait, writable, loop]: wait is of a UART, the rest of a file
    None,
    ReadSize,    \* the most a read asks for (UART_READ_CHUNK_BYTES)
    MessageLen,  \* bytes in a recorded frame
    MaxBytes,    \* bound: bytes in a recording
    MaxWaiting   \* bound: bytes a device holds for us

Threads == Controls \cup {Reader}

\* What the kernel has of a descriptor that is open, and a read or write in progress.
Opened == [cfg: Configs, at: Nat]
Jobs   == [op: {"read", "write"}, size: Nat, got: Seq(Nat)]

ASSUME PortsAssumption ==
    /\ None \notin Threads \cup Fds \cup Configs /\ Reader \notin Controls
    /\ None \notin Nat /\ None \notin Seq(Nat) /\ None \notin Opened /\ None \notin Jobs
    /\ Configs \subseteq [type: {"uart", "i2c", "file"}, wait: {"timed", "none", "block"},
                          writable: BOOLEAN, loop: BOOLEAN]
    \* Of a file, as file_config::record() and replay() make it:
    /\ \A cfg \in Configs : cfg.writable => cfg.type = "file" /\ ~cfg.loop
    /\ ReadSize \in Nat \ {0} /\ MessageLen \in Nat \ {0}

VARIABLES
    kind,        \* the class of the port object
    fd, config,  \* fd_, config_
    mutex,       \* who is inside a call
    job,         \* of a read or write in progress: what is asked for, what is done
    avail,       \* what available() last told the reader
    os,          \* the kernel: its open descriptors, with configuration and offset
    disk,        \* the recording, None while there is no such file
    waiting,     \* bytes a device holds for us
    \* History:
    recorded,    \* bytes of the recording whose write_bytes() has returned
    expect,      \* the byte the reader of a replay must get next
    faithful     \* whether it has got each in its turn

portVars   == <<kind, fd, config>>
callVars   == <<mutex, job, avail>>
kernelVars == <<os, disk, waiting>>
history    == <<recorded, expect, faithful>>
vars == <<portVars, callVars, kernelVars, history>>

Init ==
    /\ kind \in {cfg.type : cfg \in Configs}
    /\ fd = None /\ config = None
    /\ mutex = None /\ job = None /\ avail = 0
    /\ os = [d \in Fds |-> None] /\ disk = None /\ waiting = 0
    /\ recorded = 0 /\ expect = None /\ faithful = TRUE

-----------------------------------------------------------------------------
(* Opening and closing.  An open that fails throws.                        *)

\* An operator named Bug... is a slip the code does not make; the checks put it
\* in the place of a definition below it, to see which property notices.

\* close_locked()
Closed == IF fd = None THEN os ELSE [os EXCEPT ![fd] = None]

\* What a UART still held when it was closed is dropped (tcflush).
Shut ==
    /\ fd' = None /\ os' = Closed /\ UNCHANGED disk
    /\ waiting' = IF fd # None /\ kind = "uart" THEN 0 ELSE waiting

\* A file opened for writing is created or cut to nothing, one opened for reading exists; a
\* UART starts empty.
OpenSucceeds(cfg) ==
    /\ cfg.type = "file" => cfg.writable \/ disk # None
    /\ \E d \in {e \in Fds : Closed[e] = None} :
          fd' = d /\ os' = [Closed EXCEPT ![d] = [cfg |-> cfg, at |-> 0]]
    /\ config' = cfg
    /\ disk' = IF cfg.writable THEN <<>> ELSE disk
    /\ recorded' = IF cfg.writable THEN 0 ELSE recorded
    /\ expect' = IF cfg.type = "file" /\ ~cfg.writable THEN 1 ELSE None
    /\ waiting' = IF cfg.type = "uart" THEN 0 ELSE waiting

\* open(2) fails.
OpenFails == Shut /\ expect' = None /\ UNCHANGED <<config, recorded>>

\* Bug: a line whose settings cannot be applied is left open.
BugSettingsFail(cfg) ==
    /\ cfg.type \in {"uart", "i2c"}
    /\ \E d \in {e \in Fds : Closed[e] = None} :
          os' = [Closed EXCEPT ![d] = [cfg |-> cfg, at |-> 0]]
    /\ fd' = None /\ UNCHANGED <<disk, waiting>>
    /\ config' = IF cfg.type = "uart" THEN cfg ELSE config
    /\ expect' = None /\ UNCHANGED recorded

\* It succeeds, but the termios settings or the slave address are refused: uart_port has
\* stored the configuration by then, i2c_port has not.
SettingsFail(cfg) ==
    /\ cfg.type \in {"uart", "i2c"}
    /\ Shut
    /\ config' = IF cfg.type = "uart" THEN cfg ELSE config
    /\ expect' = None /\ UNCHANGED recorded

\* open_locked()
OpenLocked(cfg) == OpenSucceeds(cfg) \/ OpenFails \/ SettingsFail(cfg)

Calling == mutex = None /\ UNCHANGED <<kind, mutex, job, avail, faithful>>

\* A recording and its replay are port objects of their own: a port that has a file is not
\* asked for another.
Asked(cfg) == kind = "file" /\ cfg.type = "file" /\ config # None => cfg = config

\* A configuration of another channel is refused, by uart_port before it closes what is open.
WrongType(closes) ==
    IF closes THEN OpenFails ELSE UNCHANGED <<fd, config, os, disk, waiting, recorded, expect>>

Open(cfg) ==
    /\ Calling /\ Asked(cfg)
    /\ IF cfg.type = kind THEN OpenLocked(cfg) ELSE WrongType(kind # "uart")

Reconfigure(cfg) ==
    /\ Calling /\ Asked(cfg)
    /\ IF cfg.type = kind THEN OpenLocked(cfg) ELSE WrongType(TRUE)

\* reconnect(): a closed UART stays closed, the others try, if they ever had a path.
Reconnect ==
    /\ Calling
    /\ IF config # None /\ (kind = "uart" => fd # None) THEN OpenLocked(config) ELSE OpenFails

Close == Calling /\ Shut /\ expect' = None /\ UNCHANGED <<config, recorded>>

\* flush() of a UART drops what has come in.
Flush ==
    /\ mutex = None /\ kind = "uart" /\ fd # None
    /\ waiting' = 0
    /\ UNCHANGED <<portVars, callVars, os, disk, history>>

\* The object is destroyed, which closes it, and io_port_factory::create() makes another.  Its
\* receiver is idle then: no reader has asked it for anything.
Replace ==
    /\ mutex = None
    /\ kind' \in {cfg.type : cfg \in Configs}
    /\ Shut /\ config' = None /\ avail' = 0 /\ expect' = None
    /\ UNCHANGED <<mutex, job, recorded, faithful>>

-----------------------------------------------------------------------------
(* Reading.                                                                *)

At == os[fd].at

\* available()
Readable ==
    IF kind # "file" THEN waiting
    ELSE IF At < Len(disk) \/ ~config.loop THEN Len(disk) - At ELSE Len(disk)

\* Nothing more to come of a replay: everything recorded must have been read.
Over(n) == fd # None /\ expect # None /\ n = 0

Available ==
    /\ mutex = None
    /\ LET n == IF fd = None THEN 0 ELSE Readable
       IN  /\ avail' = n
           /\ faithful' = (faithful /\ (Over(n) => expect = recorded + 1 \/ recorded = 0))
    /\ UNCHANGED <<portVars, mutex, job, kernelVars, recorded, expect>>

\* read_bytes(): the worker of a receiver asks for what available() said, up to its buffer;
\* the interface lets it ask for less or more.
ReadBegins ==
    /\ mutex = None /\ avail > 0 /\ fd # None
    /\ mutex' = Reader
    /\ \E n \in 1..ReadSize : job' = [op |-> "read", size |-> n, got |-> <<>>]
    /\ avail' = 0
    /\ UNCHANGED <<portVars, kernelVars, history>>

\* ... it throws when the port was closed since.
ReadRefused ==
    /\ mutex = None /\ avail > 0 /\ fd = None
    /\ avail' = 0
    /\ UNCHANGED <<portVars, mutex, job, kernelVars, history>>

Reading == mutex = Reader
Release == mutex' = None /\ job' = None

\* A UART gives what it has; without a byte the call waits ("block"), returns 0 ("timed") or
\* throws ("none", by EAGAIN).  An I2C transaction is as long as it was asked to be.
ReadDevice ==
    /\ Reading /\ kind # "file"
    /\ kind = "uart" /\ config.wait = "block" => waiting > 0
    /\ waiting' = IF waiting > job.size THEN waiting - job.size ELSE 0
    /\ Release
    /\ UNCHANGED <<portVars, avail, os, disk, history>>

Left == job.size - Len(job.got)

\* The byte whose turn comes n bytes after the expected one.
Turn(n) ==
    IF config.loop /\ expect + n > recorded THEN expect + n - recorded ELSE expect + n

\* The reader gets these bytes.
Deliver(bytes) ==
    /\ Release
    /\ IF expect = None THEN UNCHANGED <<expect, faithful>>
       ELSE /\ expect' = Turn(Len(bytes))
            /\ faithful' = (faithful /\ \A i \in DOMAIN bytes : bytes[i] = Turn(i - 1))

\* read_locked(): what one read(2) gives; enough, and the call returns.
ReadFile ==
    /\ Reading /\ kind = "file" /\ At < Len(disk)
    /\ \E n \in 1..Left :
          LET got == job.got \o SubSeq(disk, At + 1, At + n)
          IN  /\ n <= Len(disk) - At
              /\ os' = [os EXCEPT ![fd].at = @ + n]
              /\ IF n = Left THEN Deliver(got)
                 ELSE job' = [job EXCEPT !.got = got] /\ UNCHANGED <<mutex, expect, faithful>>
    /\ UNCHANGED <<portVars, avail, disk, waiting, recorded>>

\* Bug: at the end of a file that does not loop, it asks again.
BugEndOfFile ==
    /\ Reading /\ kind = "file" /\ At = Len(disk) /\ config.loop
    /\ IF job.got = <<>>
       THEN os' = [os EXCEPT ![fd].at = 0] /\ UNCHANGED <<mutex, job, expect, faithful>>
       ELSE Deliver(job.got) /\ UNCHANGED os
    /\ UNCHANGED <<portVars, avail, disk, waiting, recorded>>

\* The end of the file: back to the beginning when it loops and nothing is read yet, or a
\* shorter answer.
EndOfFile ==
    /\ Reading /\ kind = "file" /\ At = Len(disk)
    /\ IF config.loop /\ job.got = <<>>
       THEN os' = [os EXCEPT ![fd].at = 0] /\ UNCHANGED <<mutex, job, expect, faithful>>
       ELSE Deliver(job.got) /\ UNCHANGED os
    /\ UNCHANGED <<portVars, avail, disk, waiting, recorded>>

\* read(2) fails: the bytes of this call are lost with the exception.
ReadThrows ==
    /\ Reading /\ Release /\ expect' = None
    /\ UNCHANGED <<portVars, avail, kernelVars, recorded, faithful>>

ReadGoesOn == ReadDevice \/ ReadFile \/ EndOfFile

-----------------------------------------------------------------------------
(* Recording.  A write to a device is one write(2), which changes nothing  *)
(* here; a write to a file that is not open for it throws.                 *)

WriteBegins(t) ==
    /\ mutex = None /\ kind = "file" /\ fd # None /\ config.writable
    /\ recorded + MessageLen <= MaxBytes
    /\ mutex' = t
    /\ job' = [op |-> "write", size |-> MessageLen, got |-> <<>>]
    /\ UNCHANGED <<portVars, avail, kernelVars, history>>

Writing == mutex \in Controls

\* The next n bytes of the frame.
Chunk(n) == [i \in 1..n |-> recorded + Len(job.got) + i]

\* Bug: what one write(2) takes is all that is written.
BugWriteFile ==
    /\ Writing
    /\ \E n \in 1..Left :
          /\ disk' = SubSeq(disk, 1, At) \o Chunk(n)
          /\ os' = [os EXCEPT ![fd].at = @ + n]
    /\ Release /\ recorded' = recorded + job.size
    /\ UNCHANGED <<portVars, avail, waiting, expect, faithful>>

\* write_bytes(): what one write(2) takes, until the frame is written.
WriteFile ==
    /\ Writing
    /\ \E n \in 1..Left :
          /\ disk' = SubSeq(disk, 1, At) \o Chunk(n)
          /\ os' = [os EXCEPT ![fd].at = @ + n]
          /\ IF n = Left THEN Release /\ recorded' = recorded + job.size
             ELSE /\ job' = [job EXCEPT !.got = @ \o Chunk(n)]
                  /\ UNCHANGED <<mutex, recorded>>
    /\ UNCHANGED <<portVars, avail, waiting, expect, faithful>>

\* write(2) fails: the frame is torn, and stays so.
WriteThrows ==
    /\ Writing /\ Release
    /\ recorded' = recorded + Len(job.got)
    /\ UNCHANGED <<portVars, avail, kernelVars, expect, faithful>>

-----------------------------------------------------------------------------

Arrives ==
    /\ waiting < MaxWaiting
    /\ waiting' = waiting + 1
    /\ UNCHANGED <<portVars, callVars, os, disk, history>>

Call ==
    \/ \E cfg \in Configs : Open(cfg) \/ Reconfigure(cfg)
    \/ Reconnect \/ Close \/ Flush \/ Replace
    \/ \E t \in Controls : WriteBegins(t)
    \/ Available \/ ReadBegins \/ ReadRefused

Next == Call \/ ReadGoesOn \/ ReadThrows \/ WriteFile \/ WriteThrows \/ Arrives

Spec == Init /\ [][Next]_vars

\* A thread that is inside a call is run, and the kernel does not interrupt it for ever.
\* Nobody has to call, and nothing has to fail.
FairSpec == Spec /\ WF_vars(ReadGoesOn) /\ WF_vars(WriteFile)

-----------------------------------------------------------------------------
(* Properties.                                                             *)

\* Every variable stays in its range.
TypeOK ==
    /\ kind \in {cfg.type : cfg \in Configs}
    /\ fd \in Fds \cup {None} /\ config \in Configs \cup {None}
    /\ mutex \in Threads \cup {None} /\ avail \in Nat
    /\ job \in Jobs \cup {None}
    /\ os \in [Fds -> Opened \cup {None}]
    /\ disk \in Seq(Nat) \cup {None} /\ waiting \in Nat
    /\ recorded \in Nat /\ expect \in Nat \cup {None} /\ faithful \in BOOLEAN

\* A replay gives the recorded bytes, each once and in their order, and does not end before
\* the last: however the kernel cuts the reads and the writes, wherever the end of a looping
\* file falls, and whatever else is done to the ports meanwhile.
ReplayIsTheRecording == faithful

\* Whatever fails while a port is opened, reconfigured or replaced, the kernel has no
\* descriptor open but the port's own, and that one with the configuration the port thinks
\* it has, which is of the port's channel.
DescriptorsAreKept ==
    mutex = None =>
        /\ {d \in Fds : os[d] # None} = {fd} \ {None}
        /\ fd # None => os[fd].cfg = config /\ config.type = kind

\* No call keeps the port's mutex for ever, not even a read at the end of a file: everybody
\* else who needs the port, stop() and terminate() among them, would wait with it.
NobodyKeepsThePort == \A t \in Threads : mutex = t ~> mutex # t

=============================================================================
