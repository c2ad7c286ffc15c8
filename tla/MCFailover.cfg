SPECIFICATION Spec
CONSTANTS
    None = None
    NaN = NaN
    TicksPerMs = 1
    Width = 4
    DrawDen = 2
    MaxCount = 6
    Calls = {c1}
    Clients <- FailoverClients
    Requests <- FailoverRequests
    Statuses = {"200", "404", "421", "503"}
    RetryAfters = {None, 0, 2}
INVARIANTS
    TypeOK
    AttemptBudget
    ExhaustedTellsEverything
    ResponseTellsTheRest
    ObserverHearsEveryResend
    NoEndpointRetriedAtOnce
    PauseAnswersItsCycle
    SleepEndsBeforeDeadline
    AttemptEndsWithTheDeadline
    NotProcessedIsSound
    ObserverProofIsSound
    DeadlineExceededMeansNothingSent
PROPERTIES
    DefinitiveAnswerIsPreferred
    WalksTheSet
