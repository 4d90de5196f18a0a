\* Nothing misbehaves: the cleanup merely goes on while the session restarts
\* the control plane.
SPECIFICATION Spec
CONSTANTS
    n1 = n1
    n2 = n2
    Nodes = {n1, n2}
    MaxChanges = 0
    MaxFaults = 0
INVARIANTS
    RestartDuringHold
CHECK_DEADLOCK FALSE
