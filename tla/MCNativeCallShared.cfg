SPECIFICATION Spec
CONSTANTS
    t1 = t1  t2 = t2  s1 = s1  s2 = s2  c1 = c1  p1 = p1
    Thread = {t1, t2}
    Session = {s1}
    Channel = {}
    Scp = {p1}
    SessionOf <- ScpSessionOf
    Uses <- SharedUses
    Interrupts = 2
    MaxDepth = 1
    Nobody = Nobody
SYMMETRY Symmetry
INVARIANTS ErrorIsRecent
PROPERTIES EnsureKeepsException BufferFreedBeforeRaise
