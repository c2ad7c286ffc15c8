SPECIFICATION Spec
CONSTANTS
    None = None
    NaN = NaN
    TicksPerMs = 1
    Width = 4
    DrawDen = 2
    HeaderNames <- MCHeaderNames
    Unfit = {"unfit"}
    Opaque = {"opaque"}
    Uuids <- MCUuids
    Bases <- MCBases
    BasePaths <- MCBasePaths
    VersionTexts = {"V2", "v9"}
    DefaultHeaders <- MCDefaultHeaders
    Tokens = {"token", "unfit"}
    RetryPolicies <- MCPolicies
    Targets <- MCTargets
    Contexts <- MCContexts
    Headers <- MCHeaders
    Queries <- MCQueries
    JsonBodies = {"document", None}
    RawBodies <- MCRawBodies
    StatusCodes = {"421", "503"}
    Durations = {1, 2}
    Observers = {"o1"}
    CallBound = 4
    AttemptBound = 2
CHECK_DEADLOCK FALSE
INVARIANTS
    EachLayerOverridesTheOneBelow
    SameRequestOnEveryAttempt
    TrackingSurvivesTheChain
    RequestReachesItsPath
    LoopGetsWhatWasAsked
