SPECIFICATION FairSpec
CONSTANTS
    alice = alice
    bob = bob
    NoPeer = NoPeer
    Peers <- MCPeers
    MaxCalls = 2
    MaxCands = 1
\* A behaviour ends when the last call is over and every message has arrived.
CHECK_DEADLOCK FALSE
INVARIANTS
    TypeOK
    SentForOwnCall
    CallbackFindsConnection
    CandidatesStayInTheirCall
    CandidatesAreApplied
PROPERTIES
    OfferIsAnswered
