CONSTANTS
    MaxLength = 5
    Headers   <- MCHeaders
    Quality   <- MCQuality
SPECIFICATION Spec
INVARIANTS
    TypeOK
    RangesStandInText
    ListedIsParsed
PROPERTY
    ParserEnds
