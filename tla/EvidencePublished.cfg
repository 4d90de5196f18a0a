\* Publications of every kind, two at a time, up to a raw result of the second
\* attempt at its evidence, with two files rewritten meanwhile.
SPECIFICATION Spec
CONSTANTS
    Publishers = {p1, p2}
    Paths = {r1, r2, r3}
    Kinds = {"browser", "baseline", "diagnostics", "rawResult", "kubeBurner", "policy", "k6"}
    Rewritten = {"measurements", "latency", "policy"}
    Baselines = {2}
    MaxRuns <- MCMaxRuns
    MaxEdits = 2
SYMMETRY Symmetry
INVARIANTS
    PublicationInv
    ManifestsResolve
    DiagnosticsAgree
    CaptureMarked
    PolicyAsReviewed
PROPERTIES
    EvidenceSpec
CHECK_DEADLOCK FALSE
