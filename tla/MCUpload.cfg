SPECIFICATION MCSpec
CONSTANTS
    MaxFile = 2
    Framing = 3
    TextLimit = 1
    MaxParts = 3
    Names = {a, b}
    LinkLimit = 6
SYMMETRY Symmetry
INVARIANTS
    OnlyValidProcessed
    StoredWhole
    AudioOutsideModels
    SeparateAccepted
