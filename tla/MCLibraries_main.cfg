SPECIFICATION LibSpec
CONSTANTS
  None = None
  Events = {"now", "soon"}
  Delay <- MCDelay
  Repeats <- MCRepeats
  Priority <- MCPriority
  Masks <- MCMasks
  Wiring <- MCWiring
  Lines <- MCLines
  Ms = 2
  MaxTime = 4
  Controllers = {c1, c2}
  Owners = {c1}
  Loopers = {t1}
  MaxValue = 2
  Cap = 2
  Tasks = {"now", "soon"}
  Fds = {3, 4}
  Threads = {t1, t2}
  Senders = {"s1", "s2"}
  Slots = {"o1", "o2"}
  Functions = {"f", "g"}
  Lambdas = {"l"}
  Failures = {"open", "lost"}
  MaxFailures = 2
CHECK_DEADLOCK FALSE
INVARIANTS
  StoppedIsQuiet
  PollIsCurrent
  NothingDangles
  ChipIsAsCommanded
PROPERTIES
  NeverAMillisecondEarly
  WorkIsDone
  StopsReturn
