CONSTANTS
    Music = Music
    Downloading = Downloading
    Downloaded = Downloaded
    Deleted = Deleted
    NotLoaded = NotLoaded
    NoRow = NoRow
    Categories <- Cats
    Children <- DefaultChildren
    UserCats <- OnlyDownloading
    Views <- TrashViews
    StartFrom <- AllButDownloaded
    MaxId = 2
    MaxQueue = 1
    MaxRows = 1
    MaxRestarts = 1
SPECIFICATION Spec
INVARIANTS DownloadingUnique OneHome
CHECK_DEADLOCK FALSE
