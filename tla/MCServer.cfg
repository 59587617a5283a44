SPECIFICATION FairSpec
CONSTANTS
  Sockets = {"s1"}
  Workers <- MCWorkers
  MaxConn = 1
  Profiles <- MCProfiles
INVARIANT HandedOverOnce
INVARIANT AcceptorNotStranded
INVARIANT BackpressureFollowsFlag
CHECK_DEADLOCK FALSE
PROPERTY ClientsServed
PROPERTY StopCompletes
