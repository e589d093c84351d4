CONSTANTS
    mild = mild
    hell = hell
    NULL = NULL
    Intensity = {mild, hell}
    Position <- MCPosition
    Hell = {hell}
    RepairMax = 1
    EvalRounds = 3
    Start = 5
    InlineAt = 4
    WriterAt = 3
    RepairAt = 3
    EvalAt = 1
SPECIFICATION Spec
INVARIANTS SavedIsJudged SavedIsSound CallsAreDistinct
CHECK_DEADLOCK FALSE
