SPECIFICATION FairSpec
CONSTANTS
    MaxShares = 2
    MaxCalls = 2
    MaxPulls = 1
    p1 = p1
    p2 = p2
    Peers <- TwoPeers
    NearbyPeers <- OneNearby
    MaxCounted = 1
    MaxFlights = 2
    f1 = f1
    f2 = f2
    Paths <- TwoPaths
    Folders <- OneFolder
    MaxDepth = 2
    Jobs <- TwoJobs
INVARIANTS
    TypeOK
    PageMatchesShare
    SendingHasCall
    IntakeHolds
PROPERTIES
    SendingMovesOn
CHECK_DEADLOCK FALSE
