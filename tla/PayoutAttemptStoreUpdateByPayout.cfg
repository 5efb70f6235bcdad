CONSTANTS
    Merchants = {m1, m2}
    PayoutIds = {p1}
    Connectors = {c1, c2}
    MaxAttempts = 2
    Clients = {k1, k2}
    None = None
    NotFound = NotFound
SPECIFICATION Spec
INVARIANT UpdateWritesOneAttempt
