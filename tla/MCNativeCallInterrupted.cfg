SPECIFICATION Spec
CONSTANTS
    t1 = t1  t2 = t2  s1 = s1  s2 = s2  c1 = c1  p1 = p1
    Thread = {t1}
    Session = {s1}
    Channel = {c1}
    Scp = {p1}
    SessionOf <- OneSessionOf
    Uses <- OneUses
    Interrupts = 1
    MaxDepth = 2
    Nobody = Nobody
INVARIANTS BlockClosesHandle
