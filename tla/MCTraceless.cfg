SPECIFICATION Spec
CONSTANTS
    None = None
    NaN = NaN
    TicksPerMs = 1
    Width = 4
    DrawDen = 2
    MaxCount = 6
    Calls = {c1}
    Clients <- SuppliedClients
    Requests <- SuppliedRequests
    Statuses = {"200", "404", "421", "503"}
    RetryAfters = {None}
INVARIANTS
    TracelessErrorNeverRotated
