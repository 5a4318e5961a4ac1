SPECIFICATION TimeSpec
CONSTANTS
    Threads = {t1}
    Hosts = {h1}
    Sessions = {s1, s2}
    Ports = {}
    Unset = Unset
    None = None
    Interrupts = 0
PROPERTY ConnectTimesOut
