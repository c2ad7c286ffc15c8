SPECIFICATION BackoffSpec
CONSTANTS
    None = None
    NaN = NaN
    TicksPerMs = 1
    Width = 4
    DrawDen = 4
    Choices <- WholeChoices
    Statuses = {"404", "503"}
    Successes = {"200"}
    RetryAfters = {None, 0}
    Samples <- Sampled
INVARIANTS
    UnjitteredPauseFollowsTheSchedule
    JitterStaysBetweenFloorAndCeiling
    FloorBoundsTheAttempts
