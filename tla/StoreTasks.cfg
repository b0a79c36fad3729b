CONSTANTS
    Music = Music
    Downloading = Downloading
    Downloaded = Downloaded
    Deleted = Deleted
    NotLoaded = NotLoaded
    NoRow = NoRow
    Categories <- Cats
    Children <- DefaultChildren
    UserCats <- ChosenCats
    Views <- Cats
    StartFrom <- OnlyDownloading
    MaxId = 2
    MaxQueue = 1
    MaxRows = 1
    MaxRestarts = 1
SPECIFICATION Spec
INVARIANTS TypeOK OneHome CleanIsStored NewTaskIsNew DeleteMovesShownRow PurgedStaysGone
CHECK_DEADLOCK FALSE
