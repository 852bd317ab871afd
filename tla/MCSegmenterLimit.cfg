SPECIFICATION Spec
CONSTANTS
    Samples = 13
    Chunk = 10
    Overlap = 5
    Pad = 5
    Silence = 3
    Frame = 2
    Width = 4
    Look = 4
INVARIANTS
    WindowWithinLimit
