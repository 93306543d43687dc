CONSTANTS
    Names     <- MCNames
    Vendored  <- MCVendored
    Wildcard  = "*"
    NoName    = ""
    Callers   <- MCOneCaller
    Accepts   <- MCAccepts
    Offers    <- MCPlainOffers
    MaxOffers = 2
SPECIFICATION Spec
INVARIANTS
    SelectedIsOffered
    LeastRankSelected
    OrderIrrelevant
    VendorOnlyByName
    FallbackAvoidsVendors
