SPECIFICATION FairSpec
CONSTANTS
    t1 = t1  t2 = t2  s1 = s1  s2 = s2  c1 = c1  p1 = p1
    Thread = {t1, t2}
    Session = {s1, s2}
    Channel = {c1}
    Scp = {}
    SessionOf <- TwoSessionOf
    Uses <- TwoUses
    Interrupts = 0
    MaxDepth = 1
    Nobody = Nobody
INVARIANTS BlockClosesHandle
PROPERTY CallReturns
