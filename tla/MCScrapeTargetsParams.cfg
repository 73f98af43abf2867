\* A job with params.
CHECK_DEADLOCK FALSE
SPECIFICATION Spec
CONSTANTS
    ProfTypes = {"cpu", "memory"}
    SecondsSet = {0, 30}
    Interval = 10
    Shared = TRUE
    MaxSyncs = 3
INVARIANTS
    DefaultsToScrapeInterval
