SPECIFICATION MCSpec
CONSTANTS
    Users = {u1, u2, u3}
    Capacity = 2
    Loader = init
    Ctc = FALSE
    Damage = 2
INVARIANTS
    UseWhileLive
    DestroyedOnce
    NothingLeaks
    LoadsExactly
PROPERTIES
    EngineCloses
