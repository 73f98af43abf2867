SPECIFICATION Spec
CONSTANTS
    Types <- MCTypes
    Delta <- MCDelta
    LabelsOf <- MCLabelsOf
    Preferred = "cpu"
    Matchers = {"", "m"}
    Times = {1, 2}
    Binaries = {"libc"}
    Links <- MCLinks
    MaxEvents = 3
INVARIANTS
    ExplorerTypeOK
    SearchCommitsWhatIsShown
    ViewIsOfTheQuery
    ZoomIsOfTheView
    HistoryIsNotRewritten
    SumByIsOfTheType
PROPERTIES
    PageComesToRest
CHECK_DEADLOCK FALSE
