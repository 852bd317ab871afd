SPECIFICATION MCSpec
CONSTANTS
    Blank = 2
    Lengths = {1, 959, 960, 1600}
    Most = 4
    Installed <- SmallVocabulary
    LongestText = 5
    Ticks = 1
    Parts = 4
INVARIANTS
    CtcCollapses
    PredictionFresh
    EmissionsOrdered
    AudioOnly
    DamageNoticed
    WordsTimed
    TimesNest
    ReportComplete
CHECK_DEADLOCK FALSE
