\* Two clients, a setter, Force, debuginfod and both ways of sending a file; the
\* bounds stop the system.
CHECK_DEADLOCK FALSE
SPECIFICATION Spec
CONSTANTS
    c1 = c1
    c2 = c2
    s1 = s1
    f1 = f1
    f2 = f2
    NoFile = NoFile
    NoMeta = NoMeta
    Clients = {c1, c2}
    Setters = {s1}
    Types = {"debuginfo"}
    Files = {f1, f2}
    SignedModes = {TRUE, FALSE}
    Answers = {"found", "none", "error"}
    Forces = {TRUE, FALSE}
    StaleAfter = 1
    Slow = TRUE
    MaxIds = 2
    MaxFailures = 1
SYMMETRY MCSymmetry
INVARIANTS
    TypeOK
    RecordsAreWhole
    UploadedMeansStored
    MetadataIsConsistent
