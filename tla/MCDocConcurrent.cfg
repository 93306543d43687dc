CONSTANTS
    Names     <- MCNames
    Vendored  <- MCVendored
    Wildcard  = "*"
    NoName    = ""
    Callers   <- MCTwoCallers
    Accepts   <- MCFewAccepts
    Offers    <- MCOddOffers
    MaxOffers = 2
SPECIFICATION Spec
INVARIANT
    SelectedIsOffered
CHECK_DEADLOCK FALSE
