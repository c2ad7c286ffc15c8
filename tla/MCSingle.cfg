SPECIFICATION Spec
CONSTANTS
    None = None
    NaN = NaN
    TicksPerMs = 1
    Width = 4
    DrawDen = 2
    MaxCount = 6
    Calls = {c1}
    Clients <- SingleClients
    Requests <- SingleRequests
    Statuses = {"200", "404", "423", "503"}
    RetryAfters = {None, 0, 1}
PROPERTIES
    SingleEndpointBehaviour
