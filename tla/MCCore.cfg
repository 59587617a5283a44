SPECIFICATION CoreSpec
CONSTANTS
  Radix = 2
  Numbers = {43690, 65533}
  MaxWrites = 2
  Grow = 3
  t1 = t1
  t2 = t2
  Timers = {t1, t2}
  TimeProfiles <- MCTimeProfiles
  LVL_CLK_SHIFT = 1
  LVL_BITS = 2
  LVL_DEPTH = 3
  UNITS = 1
  LOWRES = 1
  TimeMax = 255
  QueueTasks = {1, 2, 3}
  Remotes = {r1, r2}
  Interval = 2
  FixedCap = 1
  LocalWakes = 1
  RemoteWakes = 2
  Threads = {w1, w2}
  Limit = 1
  MaxWorkers = 4
  Expires = {TRUE, FALSE}
  Arbiters = {1, 2}
  Stops = 2
  ArbiterStops = 1
  Raised = 3
  SigSlots = 2
  Starts = 2
  SigHandlers = {g1, g2}
  c1 = c1
  c2 = c2
  c3 = c3
  Kinds = {"mpsc", "stream", "pool", "condition", "oneshot", "inplace"}
  ChannelEnds = {e1, e2}
  MaxBuffer = 2
  Sends = 4
  CfgThreads = {a1, a2}
  CfgTypes = {"A"}
  MaxStorages = 3
  MaxHandles = 2
  OwnedConns = {o1, o2}
  Ios = {i1, i2}
  MaxIds = 2
  MaxChain = 2
  MaxOps = 2
  CbThreads = {b1, b2, b3}
  CbTasks = {k1, k2}
INVARIANTS
  NumbersReadBack
  TimersNeverEarly
  TimersNotForgotten
  DriverAwake
  JobNotStranded
  StopsAndSignalsSeen
  PipelineNotStranded
  LimitRespected
  ChannelNotStranded
  ReleasedOnce
SYMMETRY Symmetry
CHECK_DEADLOCK FALSE
