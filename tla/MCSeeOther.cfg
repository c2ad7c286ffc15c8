SPECIFICATION RedirectsSpec
CONSTANTS
    None = None
    NaN = NaN
    TicksPerMs = 1
    Width = 4
    DrawDen = 2
    MaxCount = 4
    Calls = {c1}
    Clients <- BuiltClients
    Requests <- PlainRequests
    Statuses = {"200", "421"}
    RetryAfters = {None}
    Outside = Outside
    MaxRedirects = 3
    Kinds = {"303", "307"}
    ChainBound = 2
INVARIANTS
    NotProcessedDespiteRedirects
