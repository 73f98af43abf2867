\* Targets of one job, some of which keep some sample types only.
CHECK_DEADLOCK FALSE
SPECIFICATION Spec
CONSTANTS
    l1 = l1
    l2 = l2
    l3 = l3
    b1 = b1
    b2 = b2
    b3 = b3
    None = None
    Loops = {l1, l2}
    KeepAlone = FALSE
    Buffers = {b1, b2, b3}
INVARIANTS
    SeriesMatchLabels
