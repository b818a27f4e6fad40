SPECIFICATION FairSpec
CONSTANTS
    a = a
    b = b
    NoUser = NoUser
    Users <- MCUsers
    Cap = 2
    MaxCalls = 2
    Flaky <- MCFlaky
INVARIANTS
    NobodyIsStranded
PROPERTIES
    HalfCallEnds
