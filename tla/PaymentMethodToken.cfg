\* Two payments, a token lifetime of 2 ticks and a clock of 4, so that a
\* key can expire before and after its payment becomes final; random token
\* words include one that is also a payment method word.
CONSTANTS
    Payments = {q1, q2}
    TTL = 2
    MaxTime = 4
    RandomWords = {"gift", "x1"}
    None = None
SPECIFICATION Spec
INVARIANTS
    TypeOK
    KeyInjective
    StaleTokenBounded
