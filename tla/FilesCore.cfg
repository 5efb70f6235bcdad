\* Two merchants, two file ids and three concurrent requests: enough for a
\* create followed by a racing delete and retrieve, or two deletes, and for
\* one merchant naming the other's file id.
CONSTANTS
    Merchants = {m1, m2}
    FileIds = {f1, f2}
    Requests = {r1, r2, r3}
    None = None
SPECIFICATION Spec
INVARIANTS
    ProviderObjectHasMetadata
    AvailableFileHasObject
