CONSTANTS
    Payments = {q1, q2}
    TTL = 2
    MaxTime = 4
    RandomWords = {"gift", "x1"}
    None = None
SPECIFICATION Spec
INVARIANT ReviewTokenKept
