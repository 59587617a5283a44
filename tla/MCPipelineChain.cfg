SPECIFICATION PipelineSpec
CONSTANTS
    Callers = {c1, c2}
    Scenes <- MCChained
INVARIANTS NotifiedWhenReady
CHECK_DEADLOCK FALSE
