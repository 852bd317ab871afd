SPECIFICATION Spec
CONSTANTS
    Requests = {r1, r2}
    Blocks = 6
    MaxFile = 1
    Reserve = 1
    Margin = 0
    Packet = 2
    Longest = 4
    Word = 8
INVARIANTS
    FullDiskIsStorage
