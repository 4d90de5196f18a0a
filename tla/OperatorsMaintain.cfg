\* Two operators, who pause, migrate or verify at once, while Argo CD and
\* other people write twice.
SPECIFICATION Spec
CONSTANTS
    o1 = o1
    o2 = o2
    Operators = {o1, o2}
    Scripts = {"pause", "deploy", "health"}
    v1 = v1
    v2 = v2
    Rests = {v1, v2}
    OwnedRests = {v1, v2}
    MaxMeddling = 2
SYMMETRY Symmetry
VIEW View
INVARIANTS
    OperatorInv
    QuietHolds
    GrantsFollowMigration
PROPERTIES
    ScriptsOnlySwitchOff
CHECK_DEADLOCK FALSE
