CONSTANTS
    r1 = r1
    Requests   <- MCOneRequest
    Statuses   <- MCStatuses
    Responses  <- MCResponses
    Handlers   <- MCHandlers
    MaxReaders = 1
SPECIFICATION Spec
INVARIANTS
    TypeOK
    StatusAgreement
    NoForbiddenBody
    ContentTypeNotOverridden
    ContentTypeDescribesBody
    OneAuthor
    ReaderStillOpen
PROPERTIES
    EveryRequestEnds
    ImplementsExchange
