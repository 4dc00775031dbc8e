CONSTANTS
    r1 = r1  r2 = r2  NoReceive = NoReceive
    Receives <- TwoReceives
    MaxEvents = 2
    Tickets = {"t1", "t2"}
    MaxFetches = 2
    i1 = i1  i2 = i2  NoInvite = NoInvite
    Invites <- TwoInvites
    QueueLimit = 2
    BareWords = {"w1", "w2"}
    MaxWords = 3
    Segments = {"a", "b"}
    MaxFiles = 2
    MaxPeerName = 4
    TitleWidth = 5
SPECIFICATION FairSpec
INVARIANTS TypeOK ResetStays PreviewHolds NoInviteLost
           TextIsReadRight
PROPERTIES FinishedReceiveFrees  ServesInvites
CHECK_DEADLOCK FALSE
