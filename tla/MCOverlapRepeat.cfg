SPECIFICATION OverlapSpec
CONSTANTS
    Horizon = 7
    Tracks <- SmallTracks
    MaxWords = 2
    Longest = 3
    Labels = 2
    Before = 1
    After = 1
    Cap = 3
PROPERTIES
    RepeatsOutsideKept
