----------------------------- MODULE PortsProofs -----------------------------
(***************************************************************************)
(* Ports for every set of threads, descriptors and configurations, and     *)
(* every size of reads, frames and recordings: no descriptor is lost, and  *)
(* a replay is its recording.                                              *)
(***************************************************************************)
EXTENDS Ports, TLAPS

\* The bytes the call in progress has read or written so far.
Got == IF job = None THEN <<>> ELSE job.got

\* The kernel has the port's descriptor open, with the port's configuration, and no other.
DescriptorInv ==
    /\ \A d \in Fds : os[d] # None <=> d = fd
    /\ fd # None => os[fd].cfg = config /\ config # None
    /\ config # None => config.type = kind

\* A call that holds the mutex between two steps is a read of an open port, or a write to
\* a recording that is not yet done.
JobInv ==
    /\ mutex = None <=> job = None
    /\ mutex # None => fd # None /\ Len(job.got) < job.size
    /\ mutex \in Controls => kind = "file" /\ config.writable

\* A recording holds the bytes of the finished writes and of the one in progress.
DiskInv ==
    /\ disk = None => recorded = 0
    /\ disk # None =>
          /\ Len(disk) = recorded + (IF mutex \in Controls THEN Len(job.got) ELSE 0)
          /\ \A i \in 1..Len(disk) : disk[i] = i

\* An offset lies within the file, and at its end while recording.
OffsetInv ==
    fd # None /\ kind = "file" =>
        /\ disk # None /\ os[fd].at <= Len(disk)
        /\ config.writable => os[fd].at = Len(disk)

\* The offset of a replay is where the expected byte and those in the reader's hands say.
TurnInv ==
    expect # None =>
        /\ fd # None /\ kind = "file" /\ ~config.writable
        /\ expect >= 1 /\ (config.loop => expect <= recorded \/ expect = 1)
        /\ \A i \in 1..Len(Got) : Got[i] = expect + i - 1
        /\ \/ os[fd].at = expect - 1 + Len(Got)
           \/ config.loop /\ Got = <<>> /\ expect = 1 /\ os[fd].at = recorded

PortInv == DescriptorInv /\ JobInv /\ DiskInv /\ OffsetInv /\ TurnInv /\ faithful

IInv == TypeOK /\ PortInv

-----------------------------------------------------------------------------

LEMMA InitInv == Init => IInv
<1> SUFFICES ASSUME Init PROVE IInv
    OBVIOUS
<1>1. TypeOK
    BY DEF Init, TypeOK
<1>2. PortInv
    BY PortsAssumption DEF Init, PortInv, DescriptorInv, JobInv, DiskInv, OffsetInv,
        TurnInv, Threads
<1> QED
    BY <1>1, <1>2 DEF IInv

\* Closing what is open, whatever becomes of the object and its configuration.
LEMMA ShutInv ==
    ASSUME IInv, Shut, mutex = None, mutex' = None, job' = job,
           kind' \in {cfg.type : cfg \in Configs}, config' \in Configs \cup {None},
           config' # None => config'.type = kind', avail' \in Nat,
           recorded' = recorded, expect' = None, faithful' = faithful
    PROVE  IInv'
<1>1. /\ fd' = None /\ disk' = disk /\ waiting' \in Nat /\ os' \in [Fds -> Opened \cup {None}]
      /\ \A d \in Fds : os'[d] = None
    BY PortsAssumption DEF IInv, PortInv, DescriptorInv, TypeOK, Shut, Closed
<1>2. job = None
    BY DEF IInv, PortInv, JobInv
<1>3. TypeOK'
    BY <1>1 DEF IInv, TypeOK
<1>4. PortInv'
    BY <1>1, <1>2, PortsAssumption DEF IInv, TypeOK, PortInv, DescriptorInv, JobInv, DiskInv,
        OffsetInv, TurnInv, Threads
<1> QED
    BY <1>3, <1>4 DEF IInv

\* An open that succeeds.
LEMMA OpenSucceedsInv ==
    ASSUME IInv, Calling, NEW cfg \in Configs, cfg.type = kind, OpenSucceeds(cfg)
    PROVE  IInv'
<1>1. PICK d \in Fds : /\ Closed[d] = None /\ fd' = d
                       /\ os' = [Closed EXCEPT ![d] = [cfg |-> cfg, at |-> 0]]
    BY DEF OpenSucceeds
<1>2. Closed \in [Fds -> Opened \cup {None}] /\ \A e \in Fds : Closed[e] = None
    BY PortsAssumption DEF IInv, PortInv, DescriptorInv, TypeOK, Closed
<1>3. [cfg |-> cfg, at |-> 0] \in Opened
    BY DEF Opened
<1>4. /\ os' \in [Fds -> Opened \cup {None}]
      /\ os'[d] = [cfg |-> cfg, at |-> 0]
      /\ \A e \in Fds : os'[e] # None <=> e = d
    BY <1>1, <1>2, <1>3, PortsAssumption
<1>5. mutex = None /\ mutex' = None /\ job = None /\ job' = None
    BY DEF IInv, PortInv, JobInv, Calling
<1>6. TypeOK'
    BY <1>1, <1>4, <1>5 DEF IInv, TypeOK, Calling, OpenSucceeds
<1>7. /\ cfg.writable \in BOOLEAN /\ cfg.writable => cfg.type = "file"
      /\ d # None /\ cfg # None
    BY PortsAssumption
<1>8. DescriptorInv' /\ JobInv'
    BY <1>1, <1>4, <1>5, <1>7, PortsAssumption
        DEF DescriptorInv, JobInv, Calling, OpenSucceeds, Threads
<1>9. CASE cfg.writable
  <2>a. <<>> \in Seq(Nat) /\ None \notin Controls
    BY PortsAssumption DEF Threads
  <2>1. disk' = <<>> /\ recorded' = 0 /\ expect' = None /\ disk' # None /\ mutex' \notin Controls
    BY <1>5, <1>9, <2>a, PortsAssumption DEF OpenSucceeds
  <2>2. DiskInv' /\ OffsetInv' /\ TurnInv'
    BY <1>1, <1>4, <2>1, PortsAssumption DEF DiskInv, OffsetInv, TurnInv
  <2> QED
    BY <1>6, <1>8, <2>2 DEF IInv, PortInv, Calling
<1>10. CASE ~cfg.writable
  <2>1. disk' = disk /\ recorded' = recorded /\ mutex' \notin Controls /\ mutex \notin Controls
    BY <1>5, <1>10, PortsAssumption DEF OpenSucceeds, Threads
  <2>2. DiskInv'
    BY <2>1 DEF IInv, PortInv, DiskInv
  <2>3. cfg.type = "file" => disk # None /\ Len(disk) \in Nat
    BY <1>10 DEF OpenSucceeds, IInv, TypeOK
  <2>4. config' = cfg /\ kind' = cfg.type /\ os'[fd'].at = 0
    BY <1>1, <1>4 DEF OpenSucceeds, Calling
  <2>5. OffsetInv'
    BY <1>10, <2>1, <2>3, <2>4 DEF OffsetInv
  <2>6. TurnInv'
    <3>1. expect' # None => expect' = 1 /\ cfg.type = "file"
      BY DEF OpenSucceeds
    <3>2. Got' = <<>>
      BY <1>5 DEF Got
    <3> QED
      BY <1>1, <1>7, <1>10, <2>4, <3>1, <3>2 DEF TurnInv
  <2> QED
    BY <1>6, <1>8, <2>2, <2>5, <2>6 DEF IInv, PortInv, Calling
<1> QED
    BY <1>7, <1>9, <1>10

LEMMA OpenLockedInv ==
    ASSUME IInv, Calling, NEW cfg \in Configs, cfg.type = kind, OpenLocked(cfg)
    PROVE  IInv'
<1>1. CASE OpenSucceeds(cfg)
    BY <1>1, OpenSucceedsInv
<1>2. CASE OpenFails
    BY <1>2, ShutInv DEF OpenFails, Calling, IInv, TypeOK, PortInv, DescriptorInv
<1>3. CASE SettingsFail(cfg)
    BY <1>3, ShutInv DEF SettingsFail, Calling, IInv, TypeOK, PortInv, DescriptorInv
<1> QED
    BY <1>1, <1>2, <1>3 DEF OpenLocked

\* What every call that opens, closes or replaces comes to.
LEMMA LifecycleInv ==
    ASSUME IInv,
           \/ \E cfg \in Configs : Open(cfg) \/ Reconfigure(cfg)
           \/ Reconnect \/ Close \/ Replace
    PROVE  IInv'
<1>1. ASSUME Calling, OpenFails PROVE IInv'
    BY <1>1, ShutInv DEF OpenFails, Calling, IInv, TypeOK, PortInv, DescriptorInv
<1>2. ASSUME Calling, NEW closes \in BOOLEAN, WrongType(closes) PROVE IInv'
  <2>1. CASE closes
    BY <1>1, <1>2, <2>1 DEF WrongType
  <2>2. CASE ~closes
    <3>1. UNCHANGED vars
      BY <1>2, <2>2 DEF WrongType, Calling, vars, portVars, callVars, kernelVars, history
    <3> QED
      BY <3>1 DEF IInv, TypeOK, PortInv, DescriptorInv, JobInv, DiskInv, OffsetInv, TurnInv,
          Got, vars, portVars, callVars, kernelVars, history
  <2> QED
    BY <2>1, <2>2
<1>3. ASSUME NEW cfg \in Configs, Open(cfg) PROVE IInv'
    BY <1>2, <1>3, OpenLockedInv DEF Open
<1>4. ASSUME NEW cfg \in Configs, Reconfigure(cfg) PROVE IInv'
    BY <1>2, <1>4, OpenLockedInv DEF Reconfigure
<1>5. CASE Reconnect
  <2>1. CASE config # None /\ (kind = "uart" => fd # None)
    <3>1. config \in Configs /\ config.type = kind
      BY <2>1 DEF IInv, TypeOK, PortInv, DescriptorInv
    <3> QED
      BY <1>5, <2>1, <3>1, OpenLockedInv DEF Reconnect
  <2> QED
    BY <1>1, <1>5, <2>1 DEF Reconnect
<1>6. CASE Close
    BY <1>6, ShutInv DEF Close, Calling, IInv, TypeOK, PortInv, DescriptorInv
<1>7. CASE Replace
    BY <1>7, ShutInv DEF Replace, IInv, TypeOK, Shut
<1> QED
    BY <1>3, <1>4, <1>5, <1>6, <1>7

\* Steps that leave the port, the file and the reader's place alone.
LEMMA StutterInv ==
    ASSUME IInv, TypeOK', UNCHANGED <<portVars, mutex, job, os, disk, recorded, expect, faithful>>
    PROVE  IInv'
    BY DEF IInv, PortInv, DescriptorInv, JobInv, DiskInv, OffsetInv, TurnInv, Got, portVars

LEMMA DeviceInv ==
    ASSUME IInv, Flush \/ Arrives \/ ReadRefused
    PROVE  IInv'
<1>1. TypeOK'
    BY DEF IInv, TypeOK, Flush, Arrives, ReadRefused, portVars, callVars, kernelVars, history
<1> QED
    BY <1>1, StutterInv DEF Flush, Arrives, ReadRefused, portVars, callVars, kernelVars, history

LEMMA AvailableInv == ASSUME IInv, Available PROVE IInv'
<1> DEFINE n == IF fd = None THEN 0 ELSE Readable
<1>1. fd # None => os[fd] \in Opened /\ config \in Configs
    BY DEF IInv, TypeOK, PortInv, DescriptorInv
<1>2. fd # None /\ kind = "file" => At \in Nat /\ Len(disk) \in Nat /\ At <= Len(disk)
    BY <1>1 DEF IInv, TypeOK, PortInv, OffsetInv, At, Opened
<1>3. n \in Nat
    BY <1>1, <1>2 DEF Readable, IInv, TypeOK
<1>4. Over(n) => expect = recorded + 1 \/ recorded = 0
  <2> SUFFICES ASSUME Over(n) PROVE expect = recorded + 1 \/ recorded = 0
      OBVIOUS
  <2>1. mutex = None /\ job = None /\ Got = <<>> /\ mutex \notin Controls
      BY PortsAssumption DEF Available, IInv, PortInv, JobInv, Got, Threads
  <2>a. fd # None /\ expect # None /\ Readable = 0
      BY DEF Over
  <2>b. kind = "file" /\ expect \in Nat /\ recorded \in Nat
      BY <2>a DEF IInv, TypeOK, PortInv, TurnInv
  <2>2. disk # None /\ Len(disk) = recorded
      BY <2>1, <2>a, <2>b DEF IInv, PortInv, OffsetInv, DiskInv
  <2>3. At = recorded \/ recorded = 0
      BY <1>2, <2>a, <2>b, <2>2 DEF Readable
  <2>4. CASE At = expect - 1
      BY <2>3, <2>4, <2>b
  <2>5. CASE config.loop /\ At = recorded
      BY <1>2, <2>a, <2>b, <2>2, <2>5 DEF Readable
  <2> QED
      BY <2>1, <2>4, <2>5, <2>a, <2>b DEF IInv, PortInv, TurnInv, At
<1>5. avail' = n /\ faithful' = (faithful /\ (Over(n) => expect = recorded + 1 \/ recorded = 0))
    BY DEF Available
<1>6. TypeOK' /\ faithful' = faithful
    BY <1>3, <1>4, <1>5 DEF Available, IInv, TypeOK, PortInv, portVars, kernelVars
<1> QED
    BY <1>6, StutterInv DEF Available, portVars, kernelVars

LEMMA ReadBeginsInv == ASSUME IInv, ReadBegins PROVE IInv'
<1>1. PICK n \in 1..ReadSize : job' = [op |-> "read", size |-> n, got |-> <<>>]
    BY DEF ReadBegins
<1>a. Reader # None /\ Reader \notin Controls /\ None \notin Controls
    BY PortsAssumption DEF Threads
<1>b. n \in Nat /\ n > 0 /\ <<>> \in Seq(Nat)
    BY PortsAssumption
<1>c. job' \in Jobs
    BY <1>1, <1>b DEF Jobs
<1>2. /\ job' \in Jobs /\ job' # None /\ job'.got = <<>> /\ job'.size = n /\ n \in Nat /\ n > 0
      /\ Reader # None /\ Reader \notin Controls /\ None \notin Controls
    BY <1>1, <1>a, <1>b, <1>c, PortsAssumption
<1>3. mutex = None /\ job = None
    BY DEF ReadBegins, IInv, PortInv, JobInv
<1>4. TypeOK'
    BY <1>2 DEF ReadBegins, IInv, TypeOK, Threads, portVars, kernelVars, history
<1>5. Got = <<>> /\ Got' = <<>>
    BY <1>2, <1>3 DEF Got
<1>6. PortInv'
    BY <1>2, <1>3, <1>5 DEF ReadBegins, IInv, PortInv, DescriptorInv, JobInv, DiskInv, OffsetInv,
        TurnInv, portVars, kernelVars, history
<1> QED
    BY <1>4, <1>6 DEF IInv

LEMMA WriteBeginsInv == ASSUME IInv, NEW t \in Controls, WriteBegins(t) PROVE IInv'
<1>a. t # None /\ None \notin Controls
    BY PortsAssumption DEF Threads
<1>b. MessageLen \in Nat /\ MessageLen > 0 /\ <<>> \in Seq(Nat)
    BY PortsAssumption
<1>c. job' = [op |-> "write", size |-> MessageLen, got |-> <<>>]
    BY DEF WriteBegins
<1>d. job' \in Jobs
    BY <1>b, <1>c DEF Jobs
<1>1. /\ job' \in Jobs /\ job' # None /\ job'.got = <<>> /\ job'.size = MessageLen
      /\ MessageLen \in Nat /\ MessageLen > 0 /\ t # None /\ None \notin Controls
    BY <1>a, <1>b, <1>c, <1>d, PortsAssumption
<1>2. mutex = None /\ job = None
    BY DEF WriteBegins, IInv, PortInv, JobInv
<1>3. TypeOK'
    BY <1>1 DEF WriteBegins, IInv, TypeOK, Threads, portVars, kernelVars, history
<1>4. Got = <<>> /\ Got' = <<>>
    BY <1>1, <1>2 DEF Got
<1>5. PortInv'
    BY <1>1, <1>2, <1>4 DEF WriteBegins, IInv, TypeOK, PortInv, DescriptorInv, JobInv, DiskInv,
        OffsetInv, TurnInv, portVars, kernelVars, history
<1> QED
    BY <1>3, <1>5 DEF IInv

\* A read that ends without bytes for a reader of a replay.
LEMMA ReadEndsInv ==
    ASSUME IInv, Reading, Release, UNCHANGED <<portVars, avail, os, disk, recorded, faithful>>,
           waiting' \in Nat, expect' # None => expect' = expect /\ kind # "file"
    PROVE  IInv'
<1>1. mutex \notin Controls /\ mutex' \notin Controls /\ mutex' = None /\ job' = None
    BY PortsAssumption DEF Reading, Release, Threads
<1>2. TypeOK'
    BY <1>1 DEF IInv, TypeOK, portVars
<1>3. PortInv'
    BY <1>1 DEF IInv, PortInv, DescriptorInv, JobInv, DiskInv, OffsetInv, TurnInv, portVars
<1> QED
    BY <1>2, <1>3 DEF IInv

\* What is known while a call is in progress.
LEMMA InCall ==
    ASSUME IInv, mutex # None
    PROVE  /\ fd \in Fds /\ os[fd] \in Opened /\ At \in Nat /\ config \in Configs
           /\ job \in Jobs /\ job.got \in Seq(Nat) /\ job.size \in Nat
           /\ Len(job.got) \in Nat /\ Left \in Nat /\ Left > 0 /\ Got = job.got
           /\ recorded \in Nat
<1>1. fd \in Fds /\ os[fd] \in Opened /\ config \in Configs /\ recorded \in Nat
    BY DEF IInv, TypeOK, PortInv, DescriptorInv, JobInv
<1>2. At \in Nat
    BY <1>1 DEF At, Opened
<1>3. job \in Jobs /\ Got = job.got
    BY DEF IInv, TypeOK, PortInv, JobInv, Got
<1>4. job.got \in Seq(Nat) /\ job.size \in Nat /\ Len(job.got) \in Nat
    BY <1>3 DEF Jobs
<1>5. Left \in Nat /\ Left > 0
    BY <1>4 DEF IInv, PortInv, JobInv, Left
<1> QED
    BY <1>1, <1>2, <1>3, <1>4, <1>5

\* A read is of a file that holds the recording up to its last finished write.
LEMMA InFileRead ==
    ASSUME IInv, Reading, kind = "file"
    PROVE  /\ mutex # None /\ mutex \notin Controls
           /\ disk \in Seq(Nat) /\ disk # None /\ Len(disk) = recorded /\ At <= Len(disk)
           /\ \A i \in 1..Len(disk) : disk[i] = i
<1>1. mutex # None /\ mutex \notin Controls
    BY PortsAssumption DEF Reading, Threads
<1>2. fd # None
    BY <1>1 DEF IInv, PortInv, JobInv
<1> QED
    BY <1>1, <1>2 DEF IInv, TypeOK, PortInv, OffsetInv, DiskInv, At

\* What a call has, with n bytes of a file from its offset a on.
Join(s, t, a, n) == s \o SubSeq(t, a + 1, a + n)

LEMMA Joined ==
    ASSUME NEW s \in Seq(Nat), NEW t \in Seq(Nat), NEW a \in Nat, NEW n \in Nat,
           n > 0, a + n <= Len(t)
    PROVE  /\ Join(s, t, a, n) \in Seq(Nat)
           /\ Len(Join(s, t, a, n)) = Len(s) + n
           /\ DOMAIN Join(s, t, a, n) = 1..(Len(s) + n)
           /\ \A i \in 1..(Len(s) + n) :
                 Join(s, t, a, n)[i] = IF i <= Len(s) THEN s[i] ELSE t[a + i - Len(s)]
<1> DEFINE u == SubSeq(t, a + 1, a + n)
<1>1. u \in Seq(Nat) /\ Len(u) = n /\ \A i \in 1..n : u[i] = t[a + i]
    OBVIOUS
<1>2. /\ s \o u \in Seq(Nat) /\ Len(s \o u) = Len(s) + n
      /\ DOMAIN (s \o u) = 1..Len(s \o u)
    BY <1>1
<1>3. \A i \in 1..Len(s \o u) :
         (s \o u)[i] = IF i <= Len(s) THEN s[i] ELSE u[i - Len(s)]
    BY <1>1
<1>4. \A i \in 1..Len(s \o u) : ~(i <= Len(s)) =>
         u[i - Len(s)] = t[a + i - Len(s)]
    BY <1>1, <1>2
<1> QED
    BY <1>2, <1>3, <1>4 DEF Join

LEMMA ReadDeviceInv == ASSUME IInv, ReadDevice \/ ReadThrows PROVE IInv'
<1>1. CASE ReadThrows
  <2>1. waiting' \in Nat /\ UNCHANGED <<portVars, avail, os, disk, recorded, faithful>>
    BY <1>1 DEF ReadThrows, kernelVars, IInv, TypeOK
  <2> QED
    BY <1>1, <2>1, ReadEndsInv DEF ReadThrows
<1>2. CASE ReadDevice
  <2>1. waiting' \in Nat
    <3>1. job.size \in Nat /\ waiting \in Nat
      BY <1>2, InCall, PortsAssumption DEF ReadDevice, Reading, Threads, IInv, TypeOK
    <3> QED
      BY <1>2, <3>1 DEF ReadDevice
  <2> QED
    BY <1>2, <2>1, ReadEndsInv DEF ReadDevice, history
<1> QED
    BY <1>1, <1>2

\* A call returns with bytes of a replay: they are the next ones, and the place moves on.
LEMMA DeliverInv ==
    ASSUME IInv, Reading, kind = "file", expect # None,
           NEW got \in Seq(Nat), DOMAIN got = 1..Len(got),
           \A i \in 1..Len(got) : got[i] = expect + i - 1,
           expect - 1 + Len(got) <= recorded, Deliver(got)
    PROVE  /\ expect' \in Nat /\ expect' >= 1 /\ faithful' = faithful
           /\ config.loop => expect' <= recorded \/ expect' = 1
           /\ \/ expect' = expect + Len(got)
              \/ config.loop /\ expect' = 1 /\ expect + Len(got) = recorded + 1
<1>1. expect \in Nat /\ expect >= 1 /\ recorded \in Nat /\ Len(got) \in Nat
    BY DEF IInv, TypeOK, PortInv, TurnInv
<1>2. \A i \in 1..Len(got) : got[i] = Turn(i - 1)
    BY <1>1 DEF Turn
<1>3. expect' = Turn(Len(got)) /\ faithful' = faithful
    BY <1>2 DEF Deliver, IInv, TypeOK
<1> QED
    BY <1>1, <1>3 DEF Turn

LEMMA ReadFileInv == ASSUME IInv, ReadFile PROVE IInv'
<1> DEFINE got(n) == Join(job.got, disk, At, n)
<1>1. PICK n \in 1..Left :
          /\ n <= Len(disk) - At
          /\ os' = [os EXCEPT ![fd].at = @ + n]
          /\ IF n = Left THEN Deliver(got(n))
             ELSE job' = [job EXCEPT !.got = got(n)] /\ UNCHANGED <<mutex, expect, faithful>>
    BY DEF ReadFile, Join
<1>2. /\ Reading /\ kind = "file" /\ At < Len(disk)
      /\ UNCHANGED <<portVars, avail, disk, waiting, recorded>>
    BY DEF ReadFile
<1>3. /\ fd \in Fds /\ os[fd] \in Opened /\ At \in Nat /\ config \in Configs
      /\ job \in Jobs /\ job.got \in Seq(Nat) /\ job.size \in Nat
      /\ Len(job.got) \in Nat /\ Left \in Nat /\ Left > 0 /\ Got = job.got
      /\ recorded \in Nat
    BY <1>2, InFileRead, InCall
<1>4. /\ mutex # None /\ mutex \notin Controls
      /\ disk \in Seq(Nat) /\ disk # None /\ Len(disk) = recorded /\ At <= Len(disk)
      /\ \A i \in 1..Len(disk) : disk[i] = i
    BY <1>2, InFileRead
<1>5. n \in Nat /\ n > 0 /\ At + n <= Len(disk)
    BY <1>1, <1>3, <1>4
<1>6. /\ got(n) \in Seq(Nat) /\ Len(got(n)) = Len(job.got) + n
      /\ DOMAIN got(n) = 1..(Len(job.got) + n)
      /\ \A i \in 1..(Len(job.got) + n) :
            got(n)[i] = IF i <= Len(job.got) THEN job.got[i] ELSE disk[At + i - Len(job.got)]
  <2>1. /\ job.got \in Seq(Nat) /\ disk \in Seq(Nat) /\ At \in Nat /\ n \in Nat
        /\ n > 0 /\ At + n <= Len(disk)
    BY <1>3, <1>4, <1>5
  <2>2. PICK s \in Seq(Nat), t \in Seq(Nat), a \in Nat, m \in Nat :
            s = job.got /\ t = disk /\ a = At /\ m = n
    BY <2>1
  <2>3. m > 0 /\ a + m <= Len(t)
    BY <2>1, <2>2
  <2>4. /\ Join(s, t, a, m) \in Seq(Nat) /\ Len(Join(s, t, a, m)) = Len(s) + m
        /\ DOMAIN Join(s, t, a, m) = 1..(Len(s) + m)
        /\ \A i \in 1..(Len(s) + m) :
              Join(s, t, a, m)[i] = IF i <= Len(s) THEN s[i] ELSE t[a + i - Len(s)]
    BY <2>3, Joined
  <2> QED
    BY <2>2, <2>4
<1> HIDE DEF got
\* The file moves on.
<1>7. /\ os' \in [Fds -> Opened \cup {None}]
      /\ os'[fd].cfg = os[fd].cfg /\ os'[fd].at = At + n
      /\ \A d \in Fds : os'[d] # None <=> os[d] # None
  <2>1. [os[fd] EXCEPT !.at = @ + n] \in Opened
    BY <1>3, <1>5 DEF Opened, At
  <2>2. os' = [os EXCEPT ![fd] = [os[fd] EXCEPT !.at = @ + n]]
    BY <1>1, <1>3 DEF IInv, TypeOK
  <2>3. /\ [os[fd] EXCEPT !.at = @ + n].at = At + n
        /\ [os[fd] EXCEPT !.at = @ + n].cfg = os[fd].cfg
    BY <1>3 DEF Opened, At
  <2>4. os[fd] # None
    BY <1>3, PortsAssumption
  <2> QED
    BY <1>3, <2>1, <2>2, <2>3, <2>4, PortsAssumption DEF IInv, TypeOK
<1>8. DescriptorInv'
    BY <1>2, <1>7 DEF IInv, PortInv, DescriptorInv, portVars
<1>9. OffsetInv'
  <2>1. config.writable => os[fd].at = Len(disk)
    BY <1>2, <1>3, PortsAssumption DEF IInv, PortInv, OffsetInv
  <2> QED
    BY <1>2, <1>4, <1>5, <1>7, <2>1 DEF OffsetInv, portVars, At
\* What the reader has is what its place says.
<1>10. ASSUME expect # None
       PROVE  /\ expect \in Nat /\ expect >= 1 /\ ~config.writable
              /\ At = expect - 1 + Len(job.got)
              /\ config.loop => expect <= recorded \/ expect = 1
              /\ \A i \in 1..Len(got(n)) : got(n)[i] = expect + i - 1
  <2>1. /\ expect \in Nat /\ expect >= 1 /\ ~config.writable
        /\ config.loop => expect <= recorded \/ expect = 1
        /\ \A i \in 1..Len(job.got) : job.got[i] = expect + i - 1
        /\ At = expect - 1 + Len(job.got) \/ At = recorded
    BY <1>3, <1>10 DEF IInv, TypeOK, PortInv, TurnInv, At
  <2>2. At = expect - 1 + Len(job.got)
    BY <1>2, <1>4, <2>1
  <2>3. ASSUME NEW i \in 1..Len(got(n)) PROVE got(n)[i] = expect + i - 1
    <3>a. i \in 1..(Len(job.got) + n) /\ Len(disk) \in Nat
      BY <1>4, <1>6
    <3>b. got(n)[i] = IF i <= Len(job.got) THEN job.got[i] ELSE disk[At + i - Len(job.got)]
      BY <1>6, <3>a
    <3>c. i \in Nat /\ i >= 1 /\ i <= Len(job.got) + n
      BY <1>3, <1>5, <3>a
    <3>1. CASE i <= Len(job.got)
      <4>1. i \in 1..Len(job.got)
        BY <1>3, <3>1, <3>c
      <4> QED
        BY <2>1, <3>1, <3>b, <4>1
    <3>2. CASE ~(i <= Len(job.got))
      <4>1. At + i - Len(job.got) \in 1..Len(disk)
        BY <1>3, <1>5, <3>2, <3>a, <3>c
      <4>2. got(n)[i] = At + i - Len(job.got)
        BY <1>4, <3>2, <3>b, <4>1
      <4> QED
        <5>1. expect \in Nat /\ Len(job.got) \in Nat /\ At \in Nat
          BY <1>3, <2>1
        <5>2. PICK k \in Nat : k = Len(job.got)
          BY <5>1
        <5>3. At = expect - 1 + k /\ got(n)[i] = At + i - k
          BY <2>2, <4>2, <5>2
        <5> QED
          BY <3>c, <5>1, <5>3
    <3> QED
      BY <3>1, <3>2
  <2> QED
    BY <2>1, <2>2, <2>3
<1>11. CASE n = Left
  <2>1. Deliver(got(n)) /\ mutex' = None /\ job' = None /\ mutex' \notin Controls
    BY <1>1, <1>11, PortsAssumption DEF Deliver, Release, Threads
  <2>2. expect # None =>
           /\ expect' \in Nat /\ expect' >= 1 /\ faithful' = faithful
           /\ config.loop => expect' <= recorded \/ expect' = 1
           /\ \/ expect' = expect + Len(got(n))
              \/ config.loop /\ expect' = 1 /\ expect + Len(got(n)) = recorded + 1
    <3> SUFFICES ASSUME expect # None
                 PROVE  /\ expect' \in Nat /\ expect' >= 1 /\ faithful' = faithful
                        /\ config.loop => expect' <= recorded \/ expect' = 1
                        /\ \/ expect' = expect + Len(got(n))
                           \/ /\ config.loop /\ expect' = 1
                              /\ expect + Len(got(n)) = recorded + 1
        OBVIOUS
    <3>1. expect - 1 + Len(got(n)) <= recorded
        BY <1>3, <1>4, <1>5, <1>6, <1>10
    <3>2. \A i \in 1..Len(got(n)) : got(n)[i] = expect + i - 1
        BY <1>10
    <3> QED
        BY <1>2, <1>6, <2>1, <3>1, <3>2, DeliverInv
  <2>3. expect = None => expect' = None /\ faithful' = faithful
    BY <2>1 DEF Deliver
  <2>4. TypeOK'
    BY <1>2, <1>7, <2>1, <2>2, <2>3 DEF IInv, TypeOK, portVars
  <2>5. JobInv' /\ DiskInv' /\ faithful'
    BY <1>2, <1>4, <2>1, <2>2, <2>3 DEF IInv, PortInv, JobInv, DiskInv, portVars
  <2>6. TurnInv'
    <3> SUFFICES ASSUME expect' # None PROVE TurnInv'
        BY DEF TurnInv
    <3>1. expect # None /\ Got' = <<>>
        BY <2>1, <2>3 DEF Got
    <3>2. \/ os'[fd].at = expect' - 1
          \/ config.loop /\ expect' = 1 /\ os'[fd].at = recorded
      <4>1. /\ os'[fd].at = expect - 1 + Len(got(n)) /\ expect \in Nat
            /\ Len(got(n)) \in Nat
        BY <1>3, <1>5, <1>6, <1>7, <1>10, <3>1
      <4>2. CASE expect' = expect + Len(got(n))
        BY <4>1, <4>2
      <4>3. CASE config.loop /\ expect' = 1 /\ expect + Len(got(n)) = recorded + 1
        BY <1>3, <4>1, <4>3
      <4> QED
        BY <2>2, <3>1, <4>2, <4>3
    <3> QED
        BY <1>2, <1>3, <1>10, <2>2, <3>1, <3>2, PortsAssumption DEF TurnInv, portVars
  <2> QED
    BY <1>8, <1>9, <2>4, <2>5, <2>6 DEF IInv, PortInv
<1>12. CASE n # Left
  <2>1. job' = [job EXCEPT !.got = got(n)] /\ UNCHANGED <<mutex, expect, faithful>>
    BY <1>1, <1>12
  <2>2. job' \in Jobs /\ job' # None /\ job'.got = got(n) /\ job'.size = job.size
    BY <1>3, <1>6, <2>1, PortsAssumption DEF Jobs
  <2>3. TypeOK'
    BY <1>2, <1>7, <2>1, <2>2 DEF IInv, TypeOK, portVars
  <2>4. Len(got(n)) < job.size
    BY <1>1, <1>3, <1>5, <1>6, <1>12 DEF Left
  <2>5. JobInv' /\ DiskInv'
    BY <1>2, <1>3, <1>4, <2>1, <2>2, <2>4 DEF IInv, PortInv, JobInv, DiskInv, portVars
  <2>6. TurnInv'
    <3> SUFFICES ASSUME expect' # None PROVE TurnInv'
        BY DEF TurnInv
    <3>1. expect # None /\ expect' = expect /\ Got' = got(n)
        BY <2>1, <2>2 DEF Got
    <3>2. os'[fd].at = expect - 1 + Len(got(n))
        BY <1>3, <1>5, <1>6, <1>7, <1>10, <3>1
    <3> QED
        BY <1>2, <1>3, <1>10, <3>1, <3>2, PortsAssumption DEF TurnInv, portVars
  <2> QED
    BY <1>8, <1>9, <2>1, <2>3, <2>5, <2>6 DEF IInv, PortInv
<1> QED
    BY <1>11, <1>12

LEMMA EndOfFileInv == ASSUME IInv, EndOfFile PROVE IInv'
<1>1. /\ Reading /\ kind = "file" /\ At = Len(disk)
      /\ UNCHANGED <<portVars, avail, disk, waiting, recorded>>
    BY DEF EndOfFile
<1>2. /\ fd \in Fds /\ os[fd] \in Opened /\ At \in Nat /\ config \in Configs
      /\ job \in Jobs /\ job.got \in Seq(Nat) /\ Len(job.got) \in Nat /\ Got = job.got
      /\ mutex # None /\ mutex \notin Controls /\ disk # None /\ Len(disk) = recorded
      /\ recorded \in Nat
    BY <1>1, InFileRead, InCall
\* Back to the beginning.
<1>3. CASE config.loop /\ job.got = <<>>
  <2>1. os' = [os EXCEPT ![fd].at = 0] /\ UNCHANGED <<mutex, job, expect, faithful>>
    BY <1>3 DEF EndOfFile
  <2>2. [os[fd] EXCEPT !.at = 0] \in Opened /\ [os[fd] EXCEPT !.at = 0].cfg = os[fd].cfg
        /\ [os[fd] EXCEPT !.at = 0].at = 0
    BY <1>2 DEF Opened
  <2>3. /\ os' \in [Fds -> Opened \cup {None}]
        /\ os'[fd].cfg = os[fd].cfg /\ os'[fd].at = 0
        /\ \A d \in Fds : os'[d] # None <=> os[d] # None
    BY <1>2, <2>1, <2>2, PortsAssumption DEF IInv, TypeOK
  <2>4. TypeOK' /\ DescriptorInv' /\ JobInv' /\ DiskInv' /\ faithful'
    BY <1>1, <2>1, <2>3 DEF IInv, TypeOK, PortInv, DescriptorInv, JobInv, DiskInv, portVars
  <2>5. OffsetInv'
    <3>1. ~config.writable
      BY <1>2, <1>3, PortsAssumption
    <3> QED
      BY <1>1, <1>2, <2>3, <3>1 DEF OffsetInv, portVars
  <2>6. TurnInv'
    <3> SUFFICES ASSUME expect # None PROVE TurnInv'
        BY <2>1 DEF TurnInv
    <3>1. /\ expect \in Nat /\ expect >= 1 /\ ~config.writable
          /\ expect <= recorded \/ expect = 1
          /\ At = expect - 1 \/ expect = 1
      BY <1>2, <1>3 DEF IInv, TypeOK, PortInv, TurnInv, At
    <3>2. expect = 1
      BY <1>1, <1>2, <3>1
    <3>3. Got' = <<>> /\ Len(Got') = 0
      BY <1>2, <1>3, <2>1 DEF Got
    <3>4. fd' = fd /\ fd # None /\ kind' = kind /\ config' = config /\ expect' = expect
      BY <1>1, <1>2, <2>1, PortsAssumption DEF portVars
    <3>5. os'[fd'].at = expect' - 1 + Len(Got')
      BY <2>3, <3>2, <3>3, <3>4
    <3> QED
      BY <1>1, <1>3, <3>1, <3>2, <3>3, <3>4, <3>5 DEF TurnInv
  <2> QED
    BY <2>4, <2>5, <2>6 DEF IInv, PortInv
\* A shorter answer.
<1>4. CASE ~(config.loop /\ job.got = <<>>)
  <2>1. Deliver(job.got) /\ os' = os
    BY <1>4 DEF EndOfFile
  <2>2. mutex' = None /\ job' = None /\ mutex' \notin Controls
    BY <2>1, PortsAssumption DEF Deliver, Release, Threads
  <2>3. ASSUME expect # None
        PROVE  /\ expect \in Nat /\ expect >= 1 /\ ~config.writable
               /\ \A i \in 1..Len(job.got) : job.got[i] = expect + i - 1
               /\ \/ At = expect - 1 + Len(job.got)
                  \/ config.loop /\ job.got = <<>>
    BY <1>2, <2>3 DEF IInv, TypeOK, PortInv, TurnInv, At
  <2>4. ASSUME expect # None PROVE expect - 1 + Len(job.got) = recorded
    BY <1>1, <1>2, <1>4, <2>3, <2>4
  <2>5. ASSUME expect # None
        PROVE  /\ expect' \in Nat /\ expect' >= 1 /\ faithful' = faithful
               /\ config.loop => expect' <= recorded \/ expect' = 1
               /\ \/ expect' = expect + Len(job.got)
                  \/ config.loop /\ expect' = 1 /\ expect + Len(job.got) = recorded + 1
    <3>1. DOMAIN job.got = 1..Len(job.got) /\ expect - 1 + Len(job.got) <= recorded
      BY <1>2, <2>4, <2>5
    <3> QED
      BY <1>1, <1>2, <2>1, <2>3, <2>5, <3>1, DeliverInv
  <2>6. expect = None => expect' = None /\ faithful' = faithful
    BY <2>1 DEF Deliver
  <2>7. TypeOK' /\ DescriptorInv' /\ JobInv' /\ DiskInv' /\ OffsetInv' /\ faithful'
    BY <1>1, <1>2, <2>1, <2>2, <2>5, <2>6
        DEF IInv, TypeOK, PortInv, DescriptorInv, JobInv, DiskInv, OffsetInv, portVars
  <2>8. TurnInv'
    <3> SUFFICES ASSUME expect' # None PROVE TurnInv'
        BY DEF TurnInv
    <3>1. expect # None /\ Got' = <<>>
        BY <2>2, <2>6 DEF Got
    <3>2. \/ At = expect' - 1
          \/ config.loop /\ expect' = 1 /\ At = recorded
      <4>1. expect \in Nat /\ At = recorded /\ expect - 1 + Len(job.got) = recorded
        BY <1>1, <1>2, <2>3, <2>4, <3>1
      <4>2. CASE expect' = expect + Len(job.got)
        BY <1>2, <4>1, <4>2
      <4> QED
        BY <2>5, <3>1, <4>1, <4>2
    <3>3. fd' = fd /\ fd # None /\ kind' = kind /\ config' = config /\ recorded' = recorded
      BY <1>1, <1>2, PortsAssumption DEF portVars
    <3>4. os'[fd'].at = At /\ Len(Got') = 0
      BY <2>1, <3>1, <3>3 DEF At
    <3> QED
      BY <1>1, <2>3, <2>5, <3>1, <3>2, <3>3, <3>4 DEF TurnInv
  <2> QED
    BY <2>7, <2>8 DEF IInv, PortInv
<1> QED
    BY <1>3, <1>4

\* A frame is written at the end of its recording, which no reader has.
LEMMA InWrite ==
    ASSUME IInv, Writing
    PROVE  /\ mutex # None /\ kind = "file" /\ config.writable /\ expect = None
           /\ disk \in Seq(Nat) /\ disk # None /\ Len(disk) = recorded + Len(job.got)
           /\ At = Len(disk) /\ \A i \in 1..Len(disk) : disk[i] = i
<1>1. mutex # None /\ kind = "file" /\ config.writable
    BY PortsAssumption DEF Writing, Threads, IInv, PortInv, JobInv
<1>2. fd # None
    BY <1>1 DEF IInv, PortInv, JobInv
<1> QED
    BY <1>1, <1>2 DEF Writing, IInv, TypeOK, PortInv, OffsetInv, DiskInv, TurnInv, At

\* n more bytes at the end of a recording are the next ones.
LEMMA Appended ==
    ASSUME NEW s \in Seq(Nat), NEW n \in Nat, NEW c \in Seq(Nat),
           \A i \in 1..Len(s) : s[i] = i, c = [i \in 1..n |-> Len(s) + i]
    PROVE  /\ SubSeq(s, 1, Len(s)) \o c \in Seq(Nat)
           /\ Len(SubSeq(s, 1, Len(s)) \o c) = Len(s) + n
           /\ \A i \in 1..(Len(s) + n) : (SubSeq(s, 1, Len(s)) \o c)[i] = i
<1>1. SubSeq(s, 1, Len(s)) = s
    OBVIOUS
<1>2. Len(c) = n /\ \A i \in 1..n : c[i] = Len(s) + i
    OBVIOUS
<1>3. s \o c \in Seq(Nat) /\ Len(s \o c) = Len(s) + n
    BY <1>2
<1>4. ASSUME NEW i \in 1..(Len(s) + n) PROVE (s \o c)[i] = i
  <2>1. CASE i <= Len(s)
    BY <2>1
  <2>2. CASE ~(i <= Len(s))
    <3>1. (s \o c)[i] = c[i - Len(s)] /\ i - Len(s) \in 1..n
      BY <1>2, <1>3, <2>2
    <3> QED
      BY <1>2, <3>1
  <2> QED
    BY <2>1, <2>2
<1> QED
    BY <1>1, <1>3, <1>4

LEMMA WriteThrowsInv == ASSUME IInv, WriteThrows PROVE IInv'
<1>1. /\ mutex # None /\ expect = None /\ disk # None /\ Len(disk) = recorded + Len(job.got)
      /\ recorded \in Nat /\ Len(job.got) \in Nat
    BY InWrite, InCall DEF WriteThrows
<1>2. /\ mutex' = None /\ job' = None /\ mutex' \notin Controls
      /\ recorded' = recorded + Len(job.got)
      /\ UNCHANGED <<portVars, avail, os, disk, waiting, expect, faithful>>
    BY PortsAssumption DEF WriteThrows, Release, Threads, kernelVars
<1>3. TypeOK'
    BY <1>1, <1>2 DEF IInv, TypeOK, portVars
<1>4. PortInv'
    BY <1>1, <1>2 DEF IInv, PortInv, DescriptorInv, JobInv, DiskInv, OffsetInv, TurnInv, portVars
<1> QED
    BY <1>3, <1>4 DEF IInv

LEMMA WriteFileInv == ASSUME IInv, WriteFile PROVE IInv'
<1>1. Writing /\ UNCHANGED <<portVars, avail, waiting, expect, faithful>>
    BY DEF WriteFile
<1>2. PICK n \in 1..Left :
          /\ disk' = SubSeq(disk, 1, At) \o Chunk(n)
          /\ os' = [os EXCEPT ![fd].at = @ + n]
          /\ IF n = Left THEN Release /\ recorded' = recorded + job.size
             ELSE /\ job' = [job EXCEPT !.got = @ \o Chunk(n)]
                  /\ UNCHANGED <<mutex, recorded>>
    BY DEF WriteFile
<1>3. /\ mutex # None /\ kind = "file" /\ config.writable /\ expect = None
      /\ disk \in Seq(Nat) /\ disk # None /\ Len(disk) = recorded + Len(job.got)
      /\ At = Len(disk) /\ \A i \in 1..Len(disk) : disk[i] = i
    BY <1>1, InWrite
<1>4. /\ fd \in Fds /\ os[fd] \in Opened /\ At \in Nat
      /\ job \in Jobs /\ job.got \in Seq(Nat) /\ job.size \in Nat
      /\ Len(job.got) \in Nat /\ Left \in Nat /\ Left > 0 /\ recorded \in Nat
    BY <1>3, InCall
<1>5. n \in Nat /\ n > 0 /\ n <= Left
    BY <1>2, <1>4
\* The recording grows by the next bytes.
<1>6. Chunk(n) \in Seq(Nat) /\ Len(Chunk(n)) = n /\ Chunk(n) = [i \in 1..n |-> Len(disk) + i]
    BY <1>3, <1>4, <1>5 DEF Chunk
<1>7. /\ disk' \in Seq(Nat) /\ Len(disk') = recorded + Len(job.got) + n
      /\ \A i \in 1..Len(disk') : disk'[i] = i
  <2>1. PICK s \in Seq(Nat), c \in Seq(Nat), m \in Nat : s = disk /\ c = Chunk(n) /\ m = n
    BY <1>3, <1>5, <1>6
  <2>2. \A i \in 1..Len(s) : s[i] = i
    BY <1>3, <2>1
  <2>3. c = [i \in 1..m |-> Len(s) + i]
    BY <1>6, <2>1
  <2>4. /\ SubSeq(s, 1, Len(s)) \o c \in Seq(Nat)
        /\ Len(SubSeq(s, 1, Len(s)) \o c) = Len(s) + m
        /\ \A i \in 1..(Len(s) + m) : (SubSeq(s, 1, Len(s)) \o c)[i] = i
    BY <2>2, <2>3, Appended
  <2>5. disk' = SubSeq(s, 1, Len(s)) \o c
    BY <1>2, <1>3, <2>1
  <2> QED
    BY <1>3, <2>1, <2>4, <2>5
<1>8. /\ os' \in [Fds -> Opened \cup {None}]
      /\ os'[fd].cfg = os[fd].cfg /\ os'[fd].at = At + n
      /\ \A d \in Fds : os'[d] # None <=> os[d] # None
  <2>1. [os[fd] EXCEPT !.at = @ + n] \in Opened
    BY <1>4, <1>5 DEF Opened, At
  <2>2. os' = [os EXCEPT ![fd] = [os[fd] EXCEPT !.at = @ + n]]
    BY <1>2, <1>4 DEF IInv, TypeOK
  <2>3. /\ [os[fd] EXCEPT !.at = @ + n].at = At + n
        /\ [os[fd] EXCEPT !.at = @ + n].cfg = os[fd].cfg
    BY <1>4 DEF Opened, At
  <2>4. os[fd] # None
    BY <1>4, PortsAssumption
  <2> QED
    BY <1>4, <2>1, <2>2, <2>3, <2>4, PortsAssumption DEF IInv, TypeOK
<1>9. DescriptorInv' /\ TurnInv' /\ faithful'
    BY <1>1, <1>3, <1>8 DEF IInv, PortInv, DescriptorInv, TurnInv, portVars
<1>10. disk' # None
    BY <1>7, PortsAssumption
<1>11. OffsetInv'
    BY <1>1, <1>3, <1>4, <1>5, <1>7, <1>8, <1>10 DEF OffsetInv, portVars
<1>12. CASE n = Left
  <2>1. /\ mutex' = None /\ job' = None /\ mutex' \notin Controls
        /\ recorded' = recorded + job.size
    BY <1>2, <1>12, PortsAssumption DEF Release, Threads
  <2>2. recorded' \in Nat /\ Len(disk') = recorded'
    BY <1>4, <1>7, <1>12, <2>1 DEF Left
  <2>3. TypeOK'
    BY <1>1, <1>7, <1>8, <2>1, <2>2 DEF IInv, TypeOK, portVars
  <2>4. JobInv' /\ DiskInv'
    BY <1>7, <1>10, <2>1, <2>2 DEF JobInv, DiskInv
  <2> QED
    BY <1>9, <1>11, <2>3, <2>4 DEF IInv, PortInv
<1>13. CASE n # Left
  <2>1. job' = [job EXCEPT !.got = job.got \o Chunk(n)] /\ mutex' = mutex /\ recorded' = recorded
    BY <1>2, <1>4, <1>13
  <2>2. job.got \o Chunk(n) \in Seq(Nat) /\ Len(job.got \o Chunk(n)) = Len(job.got) + n
    BY <1>4, <1>6
  <2>3. /\ job' \in Jobs /\ job' # None /\ job'.size = job.size
        /\ Len(job'.got) = Len(job.got) + n
    BY <1>4, <2>1, <2>2, PortsAssumption DEF Jobs
  <2>4. Len(job'.got) < job.size
    BY <1>4, <1>5, <1>13, <2>3 DEF Left
  <2>5. TypeOK'
    BY <1>1, <1>7, <1>8, <2>1, <2>3 DEF IInv, TypeOK, portVars
  <2>6. JobInv'
    BY <1>1, <1>3, <2>1, <2>3, <2>4 DEF IInv, PortInv, JobInv, portVars
  <2>7. DiskInv'
    <3>1. mutex' \in Controls /\ Len(disk') = recorded' + Len(job'.got)
      BY <1>1, <1>4, <1>5, <1>7, <2>1, <2>3 DEF Writing
    <3> QED
      BY <1>7, <1>10, <3>1 DEF DiskInv
  <2> QED
    BY <1>9, <1>11, <2>5, <2>6, <2>7 DEF IInv, PortInv
<1> QED
    BY <1>12, <1>13

LEMMA NextInv == ASSUME IInv, [Next]_vars PROVE IInv'
<1>1. CASE Call
    BY <1>1, LifecycleInv, DeviceInv, AvailableInv, ReadBeginsInv, WriteBeginsInv DEF Call
<1>2. CASE ReadGoesOn
    BY <1>2, ReadDeviceInv, ReadFileInv, EndOfFileInv DEF ReadGoesOn
<1>3. CASE ReadThrows
    BY <1>3, ReadDeviceInv
<1>4. CASE WriteFile
    BY <1>4, WriteFileInv
<1>5. CASE WriteThrows
    BY <1>5, WriteThrowsInv
<1>6. CASE Arrives
    BY <1>6, DeviceInv
<1>7. CASE UNCHANGED vars
  <2>1. TypeOK'
    BY <1>7 DEF IInv, TypeOK, vars, portVars, callVars, kernelVars, history
  <2> QED
    BY <1>7, <2>1, StutterInv DEF vars, callVars, kernelVars, history
<1> QED
    BY <1>1, <1>2, <1>3, <1>4, <1>5, <1>6, <1>7 DEF Next

\* The inductive invariant: type correctness, which descriptors the kernel has open, what the
\* recording holds, and where in it each side stands.
THEOREM PortInvariant == Spec => []IInv
    BY InitInv, NextInv, PTL DEF Spec

\* The ports' variables keep their types, whoever calls and whatever fails.
THEOREM TypeCorrect == Spec => []TypeOK
<1>1. IInv => TypeOK
    BY DEF IInv
<1> QED
    BY <1>1, PortInvariant, PTL

\* read_locked() and write_bytes() of file_port: a replay gives what was recorded, whole and
\* in order, for recordings, reads and frames of any length.
THEOREM ReplaySafe == Spec => []ReplayIsTheRecording
<1>1. IInv => ReplayIsTheRecording
    BY DEF IInv, PortInv, ReplayIsTheRecording
<1> QED
    BY <1>1, PortInvariant, PTL

\* open_locked() and close_locked(): no descriptor is left behind, for any number of them.
THEOREM DescriptorsSafe == Spec => []DescriptorsAreKept
<1>1. IInv => DescriptorsAreKept
  <2> SUFFICES ASSUME IInv PROVE DescriptorsAreKept
      OBVIOUS
  <2>1. /\ fd \in Fds \cup {None} /\ None \notin Fds
        /\ \A d \in Fds : os[d] # None <=> d = fd
      BY PortsAssumption DEF IInv, TypeOK, PortInv, DescriptorInv
  <2>2. {d \in Fds : os[d] # None} = {fd} \ {None}
      BY <2>1
  <2>3. fd # None => os[fd].cfg = config /\ config.type = kind
      BY DEF IInv, PortInv, DescriptorInv
  <2> QED
      BY <2>2, <2>3 DEF DescriptorsAreKept
<1> QED
    BY <1>1, PortInvariant, PTL

=============================================================================
