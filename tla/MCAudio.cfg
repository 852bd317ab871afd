SPECIFICATION MCSpec
CONSTANTS
    Requests = {r1, r2}
    Blocks = 7
    MaxFile = 1
    Reserve = 3
    Margin = 0
    Packet = 2
    Longest = 4
    Word = 8
    MaxSize = 14
    First = 2
    Header = 2
    Fmt = 1
    Ds = 2
    Marker = 5
    MaxData = 8
SYMMETRY Symmetry
INVARIANTS
    TypeOK
    CutNeverRecognised
    ReserveSpared
    OpenExactly
    ReadsInside
CHECK_DEADLOCK FALSE
