CONSTANTS
    f1 = f1
    f2 = f2
    Handlers  <- MCHandlers
    MaxMuxes  = 3
    MaxCalls  = 4
    Methods   = {"GET", "PUT"}
    Patterns  = {"/a"}
    Malformed = {"a"}
SYMMETRY MCSymmetry
SPECIFICATION Spec
INVARIANTS
    TypeOK
    RoutesListedAreServed
    LoggedUnderItsID
    DevelopmentDecides
PROPERTIES
    RegisteredIsFound
    ServesAsInExchange
