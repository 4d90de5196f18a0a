\* Two runs of any workflows, the Jobs of the first still at work during the second.
CONSTANTS
    Runs = {w1, w2}
    NoRun = NoRun
    Kinds = {"preparation", "migration", "qualification", "grants"}
    Rests <- MCReviewedOnly
    OwnedRests <- MCReviewedOnly
    MaxMeddling = 0
SPECIFICATION Spec
INVARIANTS
    DatabaseInv
PROPERTIES
    UpgradeSpec
\* all runs and Jobs end
CHECK_DEADLOCK FALSE
