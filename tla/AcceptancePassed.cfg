\* One acceptance session: the cluster changes once while it is qualified, and
\* the world around the session misbehaves, twice in all with that change.
SPECIFICATION Spec
CONSTANTS
    n1 = n1
    n2 = n2
    Nodes = {n1, n2}
    MaxChanges = 1
    MaxFaults = 2
SYMMETRY Symmetry
INVARIANTS
    AcceptanceTypeOK
    QualificationSound
    PassedMeansRecovered
    PassedMeansDecided
    ApprovedOnEvidence
    JournalCoversWrites
CHECK_DEADLOCK FALSE
