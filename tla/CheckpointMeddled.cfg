\* One checkpoint run against two disruptive writes, enough to undo a change
\* before the second readings.
CONSTANTS
    Runs = {w1}
    NoRun = NoRun
    Kinds = {"checkpoint"}
    Attempts = 1
    Rests <- MCReviewedOnly
    OwnedRests <- MCReviewedOnly
    MaxMeddling = 2
SPECIFICATION Spec
INVARIANTS
    CheckpointSound
\* runs end, and the controllers settle
CHECK_DEADLOCK FALSE
