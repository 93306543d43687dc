CONSTANTS
    Names       <- MCNames
    Vendored    <- MCVendored
    Wildcard    = "*"
    NoName      = ""
    Accepts     <- MCAccepts
    Customs     <- MCCustoms
    FormatMedia <- MCFormatMedia
SPECIFICATION Spec
INVARIANT
    RenderedAsNegotiated
