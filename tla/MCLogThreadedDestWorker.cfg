SPECIFICATION FairSpec
CONSTANTS
    Key <- MCKey
    MaxMsgs = 2
    FlushOnKeyChange = FALSE
    BatchLines = 2
    BatchTimeout = TRUE
    Throttle = 1
    RetriesOnErrorMax = 2
    RetriesMax = 2
    InsertResults = {"drop", "error", "not_connected", "explicit", "success", "queued", "retry"}
    FlushResults = {"drop", "error", "not_connected", "explicit", "success", "queued", "retry"}
    DiskQueue = FALSE
INVARIANT NothingLost
INVARIANT DroppedAfterRetries
PROPERTIES
    EveryMessageDone
    ExitsWhenAsked
