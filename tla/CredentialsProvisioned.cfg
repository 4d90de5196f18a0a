\* Two runs of any scripts, by two operators at a time or one after the other,
\* each stopped anywhere, and two objects lost while none runs.
SPECIFICATION Spec
CONSTANTS
    Operators = {o1, o2}
    Scripts = {"postgres", "objectStore", "storageAccess", "database", "registry",
               "executionRegistry", "runtime", "gitopsBootstrap", "gitopsHealth",
               "smoke", "verifyRun"}
    MaxRuns = 2
    MaxLosses = 2
SYMMETRY Symmetry
INVARIANTS
    TypeOK
    CredentialsFit
    CopiesAgree
    RetryAccepted
PROPERTIES
    SuccessMeansUsable
CHECK_DEADLOCK FALSE
