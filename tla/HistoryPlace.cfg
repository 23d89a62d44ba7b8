SPECIFICATION Spec
CONSTANTS
    FirstIds = {2}
    MaxId = 3
    MaxErased = 1
    MaxEvents = 2
    UpTos = {}
    PageSize = 2
    Errors = {"repeat"}
    MaxErrors = 0
INVARIANTS PlaceIsFound
CHECK_DEADLOCK FALSE
