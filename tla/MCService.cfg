SPECIFICATION Spec
CONSTANTS
    Requests = {r1, r2, r3}
    Concurrency = 2
    MaxBoots = 0
SYMMETRY Symmetry
INVARIANTS
    SlotAccounting
    EngineOutlivesHandlers
    HonestSuccess
    FilesHeld
    NoForgottenDir
PROPERTIES
    ImplementsGate
