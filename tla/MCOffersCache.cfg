CONSTANTS
    Names     <- MCNames
    Vendored  <- MCVendored
    Wildcard  = "*"
    NoName    = ""
    Callers   <- MCTwoCallers
    Accepts   <- MCFewAccepts
    Offers    <- MCOddOffers
    MaxOffers = 2
SPECIFICATION Spec
INVARIANTS
    TypeOK
    CacheSound
CHECK_DEADLOCK FALSE
