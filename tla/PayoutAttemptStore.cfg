\* Two merchants sharing one payout id, up to two attempts per payout, two
\* connectors (so a retry can switch connector) and two concurrent callers.
CONSTANTS
    Merchants = {m1, m2}
    PayoutIds = {p1}
    Connectors = {c1, c2}
    MaxAttempts = 2
    Clients = {k1, k2}
    None = None
    NotFound = NotFound
SPECIFICATION Spec
INVARIANTS
    TypeOK
