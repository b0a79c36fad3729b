CONSTANTS
    Defaults <- SomeDefaults
    Root = 0
    Downloading = 1
    Deleted = 7
    Tasks = {t1}
    Quotes = TRUE
    NoRow = NoRow
    NoCat = NoCat
    MaxId = 10
    MaxQueue = 1
    MaxRestarts = 1
SPECIFICATION Spec
INVARIANTS TypeOK TableFollows SystemRowsStay
PROPERTIES NoAdoption OnlySubtreeGoes
CHECK_DEADLOCK FALSE
