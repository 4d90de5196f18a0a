\* Two runs of either kind, one after the other, with requests of the first
\* still under way while the second runs.
CONSTANTS
    Runs = {w1, w2}
    NoRun = NoRun
    Kinds = {"pause", "checkpoint"}
    Attempts = 2
    Rests <- MCReviewedOnly
    OwnedRests <- MCReviewedOnly
    MaxMeddling = 0
SPECIFICATION FairSpec
INVARIANTS
    IInv
PROPERTIES
    EverySubmissionEnds
\* runs end, and the controllers settle
CHECK_DEADLOCK FALSE
