SPECIFICATION FairSpec
CONSTANTS
    Requests = {r1, r2}
    Concurrency = 1
    MaxBoots = 1
INVARIANTS
    NoForgottenDir
PROPERTIES
    AdmittedToOwnedDisk
    ShutdownCompletes
    AdmittedEnds
    AdmissionRecovers
