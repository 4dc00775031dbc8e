SPECIFICATION FairSpec
CONSTANTS
    Devices = {d1}
    Tasks = {t1, t2}
    Conns = {c1, c2}
    None = None
    Environment = {"inbound", "refuse", "dialfail"}
PROPERTIES ActiveDeviceRetried OfflineDetected
