\* One or two runs of one request against three writes by outsiders, at any step.
CONSTANTS
    Runs = {w1, w2}
    NoRun = NoRun
    Digests = {d1}
    MaxMeddling = 3
SYMMETRY MCSymmetry
SPECIFICATION Spec
INVARIANTS
    AdoptionInv
    BaselineStored
    BaselineOfLiveRoot
\* all runs end
CHECK_DEADLOCK FALSE
