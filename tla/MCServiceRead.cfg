SPECIFICATION Spec
CONSTANTS
    Requests = {r1, r2}
    Concurrency = 1
    MaxBoots = 0
INVARIANTS
    CancelledReadEnds
