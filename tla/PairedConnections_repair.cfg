SPECIFICATION FairSpec
CONSTANTS
    Devices = {d1}
    Tasks = {t1, t2}
    Conns = {c1}
    None = None
    Environment = {"repair"}
PROPERTIES ActiveDeviceRetried
