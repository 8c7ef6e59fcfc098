\* Unparsable messages, unsendable actions, evicted transactions, a fault and a crash.
SPECIFICATION Spec
CONSTANTS
    e1 = e1  e2 = e2  k1 = k1
    Bad = Bad
    Events = {e1, e2, k1}
    KeyEvents = {k1}
    Logs <- BadLogs
    Unpackable = {e2}
    Configured = {"warehouse"}
    Outcomes = {"applied", "rejected"}
    BatchSize = 2
    MaxChunk = 2
    Window = 2
    MaxTx = 3
    MaxCrashes = 1
    MaxFaults = 1
    MaxDrops = 1
INVARIANTS OffsetsInOrder FailedInDLQ
CHECK_DEADLOCK FALSE
