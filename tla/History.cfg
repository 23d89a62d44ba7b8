SPECIFICATION FairSpec
CONSTANTS
    FirstIds = {2}
    MaxId = 3
    MaxErased = 1
    MaxEvents = 1
    UpTos = {1}
    PageSize = 2
    Errors = {"repeat", "other"}
    MaxErrors = 1
INVARIANTS
    TypeOK
    NoHiddenHole
    PatchesApplied
PROPERTIES
    DownloadsEnd
    HistoryArrives
\* The dialog is quiet when all that is bounded has happened.
CHECK_DEADLOCK FALSE
