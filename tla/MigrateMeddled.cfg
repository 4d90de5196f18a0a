\* One migration against three writes by others to the control-plane objects
\* and to the ledger.
CONSTANTS
    Runs = {w1}
    NoRun = NoRun
    Kinds = {"migration"}
    Rests <- MCReviewedOnly
    OwnedRests <- MCReviewedOnly
    MaxMeddling = 2
SPECIFICATION Spec
INVARIANTS
    AdmittedUnderBaseline
    OnlyPeopleInterrupt
\* runs end, and the controllers settle
CHECK_DEADLOCK FALSE
