SPECIFICATION Spec
CONSTANTS
    None = None
    NaN = NaN
    TicksPerMs = 1
    Width = 4
    DrawDen = 2
    MaxCount = 6
    Calls = {c1, c2}
    Clients <- ConcurrentClients
    Requests <- ConcurrentRequests
    Statuses = {"200", "421", "503"}
    RetryAfters = {None}
SYMMETRY Symmetric
INVARIANTS
    ClientObserverHearsTheUnion
    PreferenceWasEarned
