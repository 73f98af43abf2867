\* An invalid file is replaced by a valid one.
CHECK_DEADLOCK FALSE
SPECIFICATION SymSpec
CONSTANTS
    c1 = c1
    c2 = c2
    s1 = s1
    s2 = s2
    f1 = f1
    f2 = f2
    f3 = f3
    NoFile = NoFile
    NoMeta = NoMeta
    Clients = {c1}
    Setters = {s1}
    Types = {"debuginfo"}
    Files = {f1, f2}
    Kind <- MCKind
    UpstreamFile = f3
    SignedModes = {FALSE}
    Answers = {"none"}
    Forces = {FALSE}
    StaleAfter = 1
    Slow = TRUE
    MaxIds = 2
    MaxFailures = 0
INVARIANTS
    EqualMeansInvalid
