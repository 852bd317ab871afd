SPECIFICATION MCSpec
CONSTANTS
    Samples = 25
    Chunk = 10
    Overlap = 5
    Pad = 5
    Silence = 3
    Frame = 2
    Width = 4
    Look = 4
    Horizon = 7
    Tracks <- SmallTracks
    MaxWords = 3
    Longest = 3
    Labels = 2
    Before = 1
    After = 1
    Cap = 3
INVARIANTS
    NoVoiceLost
    WindowBounded
    RereadBounded
    OverlapTypeOK
    WordsKept
    WordsOnce
PROPERTIES
    DropsBounded
