\* Three runs of two competing requests, with the creates of earlier runs still
\* under way while later ones run.
CONSTANTS
    Runs = {w1, w2, w3}
    NoRun = NoRun
    Digests = {d1, d2}
    MaxMeddling = 0
SPECIFICATION Spec
INVARIANTS
    PointerNeverDangles
    OneBaseline
    RetryNeverRefused
PROPERTIES
    LedgerSpec
\* all runs end
CHECK_DEADLOCK FALSE
