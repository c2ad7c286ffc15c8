SPECIFICATION Spec
CONSTANTS
    None = None
    Garbage = Garbage
    Urls <- SomeUrls
    Lower <- LowerCase
    HttpClients = {h1}
    Timeouts = {5}
    DefaultTimeout = 30
    MaxFailovers = 2
INVARIANTS
    TypeOK
    BuildAcceptsExactlySets
    FirstOffenderIsBlamed
    RequestsGoWhereTheyAreSent
    SlotsServeTheirOrigins
    BuiltClientsAreHeldToTheSet
