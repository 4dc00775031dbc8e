SPECIFICATION FairSpec
CONSTANTS
    MaxFeed = 2
    MaxLoads = 2
    MaxWarm = 1
    MaxExtras = 1
    HostTTL = 2
    MaxOpens = 2
    MaxHostFeed = 1
    w1 = w1
    w2 = w2
    w3 = w3
    Starts <- TwoStarts
    Stops <- OneStop
    Joiners <- OneDevice
    NoTask = NoTask
    d1 = d1
    Devices <- OneDevice
    NoDevice = NoDevice
    MaxReloads = 2
    MaxTrusts = 2
    MaxRemote = 1
    MaxNews = 2
    n1 = n1
    n2 = n2
    Nearby <- TwoNearby
    WholeList = WholeList
    MaxSightings = 3
    MaxRequests = 2
    Others <- TwoNearby
    Nobody = Nobody
    MaxAsks = 2
INVARIANTS
    TypeOK
    BusyHasCall
    
    WindowHasCloser
PROPERTIES
    NodeReachesPage
    StaleWindowCloses
    OnlyConfirmed
CHECK_DEADLOCK FALSE
