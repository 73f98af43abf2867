\* Three targets that keep every sample type, or one that does not.  Slices that
\* failed scrapes drop are not made again, so the bound stops the system.
CHECK_DEADLOCK FALSE
SPECIFICATION Spec
CONSTANTS
    l1 = l1
    l2 = l2
    l3 = l3
    b1 = b1
    b2 = b2
    b3 = b3
    None = None
    Loops = {l1, l2, l3}
    KeepAlone = TRUE
    Buffers = {b1, b2, b3}
SYMMETRY MCSymmetry
INVARIANTS
    TypeOK
    BuffersAreNotShared
    SeriesMatchLabels
