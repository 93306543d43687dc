CONSTANTS
    Names     <- MCNames
    Vendored  <- MCVendored
    Wildcard  = "*"
    NoName    = ""
    Callers   <- MCOneCaller
    Accepts   <- MCTwoRanges
    Offers    <- MCPlainOffers
    MaxOffers = 2
SPECIFICATION Spec
INVARIANT
    HighestQualityWins
