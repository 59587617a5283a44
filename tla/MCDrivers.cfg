SPECIFICATION DriversSpec
CONSTANTS
  f1 = f1
  f2 = f2
  sg = sg
  n1 = n1
  n2 = n2
  NotifyKey = 99
  s1 = s1
  s2 = s2
  h1 = h1
  QueueCap = 1
  ReadHigh = 2
  MaxOps = 6
  ZcSize = 1
  MaxWriteBufs = 2
  SqCap = 2
  DequeCap = 2
  Submits = 4
  Wakes = 1
INVARIANTS
  WaiterNotStuck
  IocpFollowsInterest
  BytesInOrder
  UringNotStranded
  ClosedBehindOps
  ConnectsAnswered
PROPERTIES EventsAsAsked RingSleepsOnNothing
SYMMETRY Symmetry
CHECK_DEADLOCK FALSE
