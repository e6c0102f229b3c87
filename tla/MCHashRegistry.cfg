SPECIFICATION Spec
CONSTANTS
    c1 = c1
    c2 = c2
    NoString = NoString
    Client <- const_Client
    Input <- const_Input
    HexLength <- const_HexLength
    DebugAssertions = TRUE
INVARIANTS
    ValidatorsAgree
    SecondOnlyByOverlap
