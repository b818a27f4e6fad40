SPECIFICATION CalmSpec
CONSTANTS
    MaxAttempts = 5
    MaxTasks = 2
    MaxQueue = 2
\* A client that has given up, or was disconnected, has nothing left to do.
CHECK_DEADLOCK FALSE
INVARIANTS
    HandlersFindTheirTransport
    ConnectedIsWatched
    KeepsTrying
    SendingGoesOn
PROPERTIES
    WorkingConnectionIsKept
    DisconnectIsFinal
