CONSTANTS
    Defaults <- SomeDefaults
    Root = 0
    Downloading = 1
    Deleted = 7
    Tasks = {t1}
    Quotes = FALSE
    NoRow = NoRow
    NoCat = NoCat
    MaxId = 9
    MaxQueue = 2
    MaxRestarts = 0
SPECIFICATION Spec
INVARIANTS EveryRecordOwned
CHECK_DEADLOCK FALSE
