SPECIFICATION AuditSpec

CONSTANTS
    Writers = {w1, w2}
    MaxRows = 3
    MaxTime = 1

INVARIANT NeverForks

\* Rows end.
CHECK_DEADLOCK FALSE
