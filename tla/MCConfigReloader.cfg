\* Two components, the first of which may fail, and four changes of the file, which may
\* be written, replaced, linked elsewhere, moved and removed.  Without changes nothing
\* happens.
CHECK_DEADLOCK FALSE
SPECIFICATION FairSpec
CONSTANTS
    c1 = c1
    c2 = c2
    Invalid = Invalid
    Absent = Absent
    Configs = {c1, c2}
    Components = 2
    MayFail = {1}
    MaxChanges = 4
INVARIANTS
    TypeOK
    SuccessMeansAgreement
PROPERTIES
    NewestConfigIsApplied
