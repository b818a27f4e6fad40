SPECIFICATION Spec
CONSTANTS
    io = io
    local = local
    remote = remote
    alice = alice
    bob = bob
    r1 = r1
    NoPeer = NoPeer
    NoCall = NoCall
    Threads <- IoThread
    Initiators <- IoThread
    Peers <- MCPeers
    RemoteIds <- MCRemoteIds
    MaxCalls = 1
PROPERTIES
    TimedOutCallStaysDead
