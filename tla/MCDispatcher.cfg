SPECIFICATION FairSpec
CONSTANTS
  MaxClock = 13
  Profiles <- MCProfiles
INVARIANTS
  InflightCounted
  TimerBehindFlag
  ControlsAlternate
PROPERTIES
  DispatcherCompletes
CHECK_DEADLOCK FALSE
