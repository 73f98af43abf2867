\* An invalid and a valid file, an empty one at debuginfod, two queries, with
\* fairness; the bounds stop the clients.
CHECK_DEADLOCK FALSE
SPECIFICATION FairSymSpec
CONSTANTS
    c1 = c1
    c2 = c2
    s1 = s1
    s2 = s2
    f1 = f1
    f2 = f2
    f3 = f3
    NoFile = NoFile
    NoMeta = NoMeta
    Clients = {c1}
    Setters = {s1, s2}
    Types = {"debuginfo"}
    Files = {f1, f2}
    Kind <- MCKind
    UpstreamFile = f3
    SignedModes = {FALSE}
    Answers = {"found", "none"}
    Forces = {TRUE, FALSE}
    StaleAfter = 1
    Slow = FALSE
    MaxIds = 2
    MaxFailures = 1
INVARIANTS
    SymTypeOK
    QualityWasObserved
    OpensAnUploadedFile
PROPERTIES
    UploadsAreAssessed
    DebuginfosBecomeAvailable
