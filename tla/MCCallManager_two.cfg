SPECIFICATION Spec
CONSTANTS
    io = io
    local = local
    remote = remote
    alice = alice
    bob = bob
    r1 = r1
    NoPeer = NoPeer
    NoCall = NoCall
    Threads <- TestThreads
    Initiators <- LocalThread
    Peers <- MCPeers
    RemoteIds <- MCRemoteIds
    MaxCalls = 2
INVARIANTS
    IdleIsClear
    EndingHasOwner
    CallingHasTimer
