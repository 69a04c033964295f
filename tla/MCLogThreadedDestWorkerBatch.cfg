SPECIFICATION Spec
CONSTANTS
    Key <- MCKey
    MaxMsgs = 6
    FlushOnKeyChange = TRUE
    BatchLines = 3
    BatchTimeout = FALSE
    Throttle = 0
    RetriesOnErrorMax = 3
    RetriesMax = 2
    InsertResults = {"queued"}
    FlushResults = {"success", "drop", "error", "not_connected", "retry"}
    DiskQueue = FALSE
INVARIANTS
    OneKeyPerBatch
    BatchKeptAcrossRetries
