\* One pause run against one disruptive write of anybody else, at any step.
CONSTANTS
    Runs = {w1}
    NoRun = NoRun
    Kinds = {"pause"}
    Attempts = 2
    Rests <- MCRests
    OwnedRests <- MCReviewedOnly
    MaxMeddling = 1
SPECIFICATION Spec
INVARIANTS
    PatchLandsOnGuarded
    OnlyAdoptedPatched
    PausedInOrder
    PauseComplete
    ResentPatchIsNoOp
\* runs end, and the controllers settle
CHECK_DEADLOCK FALSE
