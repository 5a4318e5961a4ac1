SPECIFICATION Spec
CONSTANTS
    t1 = t1  t2 = t2  s1 = s1  s2 = s2  c1 = c1  p1 = p1
    Thread = {t1, t2}
    Session = {s1}
    Channel = {c1}
    Scp = {}
    SessionOf <- TwoSessionOf
    Uses <- SharedUses
    Interrupts = 0
    MaxDepth = 1
    Nobody = Nobody
INVARIANTS ErrorIsOwn
