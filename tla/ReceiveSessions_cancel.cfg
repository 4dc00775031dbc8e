SPECIFICATION FairSpec
CONSTANTS
    Receives = {r1, r2}
    Hashes = {h1, h2}
    None = None
    Environment = {"cancel", "history", "clear", "relaunch", "badticket", "rmfail"}
PROPERTIES CancelEndsReceive
CHECK_DEADLOCK FALSE
