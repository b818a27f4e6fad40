SPECIFICATION FairSpec
CONSTANTS
    alice = alice
    a1 = a1
    a2 = a2
    a3 = a3
    None = None
    Users <- MCUsers
    Conns <- MCConns
    Uid <- MCUid
\* The connections of an instance are finite, and each is made once.
CHECK_DEADLOCK FALSE
INVARIANTS
    TypeOK
    NewestSpeaksForUser
PROPERTIES
    DepartureIsNoticed
