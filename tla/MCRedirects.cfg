SPECIFICATION FairRedirectsSpec
CONSTANTS
    None = None
    NaN = NaN
    TicksPerMs = 1
    Width = 4
    DrawDen = 2
    MaxCount = 4
    Calls = {c1}
    Clients <- RedirectClients
    Requests <- RedirectRequests
    Statuses = {"200", "404", "421"}
    RetryAfters = {None}
    Outside = Outside
    MaxRedirects = 3
    Kinds = {"303", "307"}
    ChainBound = 2
INVARIANTS
    StaysInTheSet
    OutsideNeverAnswersForTheSet
    ChainsAreBounded
PROPERTIES
    DeadlineEndsTheCall
