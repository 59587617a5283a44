SPECIFICATION RuntimeSpec
CONSTANTS
    Tasks = {1, 2, 3}
    Remotes = {r1, r2}
    Interval = 2
    FixedCap = 1
    LocalWakes = 2
    RemoteWakes = 3
INVARIANTS PollRunsActiveTasks
CHECK_DEADLOCK FALSE
