SPECIFICATION Spec
CONSTANTS
    Threads = {t1}
    Hosts = {h1}
    Sessions = {s1}
    Ports = {22}
    Unset = Unset
    None = None
    Interrupts = 0
PROPERTY OwnOptionKept
