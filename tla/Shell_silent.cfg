SPECIFICATION ShellSpec
CONSTANTS
    Peers = {p1, p2, p3}
    Burst = 2
    RefillInterval = 2
    MaxTrackedPeers = 2
    MaxTime = 6
    Releases = {1, 2}
    Size = 1
    Rows = {"a", "b"}
    MaxReads = 2
    MaxNews = 1
    Defaults <- FreshInstall
    MaxLaunches = 3
    Texts = {1, 2}
    Networks <- FourNetworks
    Urls = {"u1", "u2"}
    Cleartext = {"u2"}
    BadUrl = "bad"
    MaxRows = 2
    Receives = {"r1", "r2"}
    Names = {"a", "b"}
    MaxConflict = 3
    Handlers = {"h1", "h2", "h3"}
    Tops = {"a", "b"}
    InnerPaths <- ThreeInner
    MaxSize = 1
    MaxEntries = 4
    W16 = 4
    W32 = 300
    MaxScriptRuns = 3
    MaxNumber = 2
    ApkProfiles = {"universal", "arm64"}
    Commits <- SomeCommits
    PairingSubjects = {"pairing works"}
    TestSubjects = {"test works"}
    Prototype = "prototype"
    LengthOf <- SubjectLength
    Aliases <- KnownNames
    Owner = "owner"
    Bodies <- SomeBodies
    MaxCommits = 3
    MaxHighlights = 2
    MaxListed = 1
INVARIANTS SilentEditReachesNode
CHECK_DEADLOCK FALSE
