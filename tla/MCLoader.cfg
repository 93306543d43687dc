CONSTANTS
    Handlers   <- MCHandlers
    FieldNames <- MCNames
    Texts      <- MCTexts
    Blank      = "blank"
    Numbers    <- MCNumbers
    Truths     = {"1"}
    Matched    = {"word", "1"}
    Requests   <- MCRequests
SPECIFICATION Spec
INVARIANTS
    TypeOK
    BodyAfterParams
    HandlerSeesWhatWasSent
    ErrorIsEarned
PROPERTY
    LoadsAsInLifecycle
