CONSTANTS
    MaxLength = 2
    Headers   <- MCHeaders
    Quality   <- MCQuality
SPECIFICATION Spec
INVARIANT
    ParametersAreListed
