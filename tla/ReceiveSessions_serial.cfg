SPECIFICATION Spec
CONSTANTS
    Receives = {r1, r2, r3}
    Hashes = {h1, h2}
    None = None
    Environment = {"history", "clear", "relaunch"}
SYMMETRY Symmetry
INVARIANTS TypeOK OneDownload PartialStoresTracked
CHECK_DEADLOCK FALSE
