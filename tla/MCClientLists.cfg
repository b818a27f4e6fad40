SPECIFICATION CalmSpec
CONSTANTS
    alice = alice
    bob = bob
    a1 = a1
    a2 = a2
    b1 = b1
    None = None
    Users <- MCUsers
    Conns <- MCConns
    Uid <- MCUid
VIEW ListView
SYMMETRY Symmetry
\* The connections of an instance are finite, and each is made once.
CHECK_DEADLOCK FALSE
INVARIANTS
    ListIsCurrent
