\* Failing calls, reverting transactions and a crash; clean logs.
SPECIFICATION Spec
CONSTANTS
    e1 = e1  e2 = e2  k1 = k1
    Bad = Bad
    Events = {e1, e2, k1}
    KeyEvents = {k1}
    Logs <- CleanLogs
    Unpackable = {}
    Configured = {"warehouse", "key"}
    Outcomes = {"applied", "signer"}
    BatchSize = 2
    MaxChunk = 1
    Window = 2
    MaxTx = 4
    MaxCrashes = 1
    MaxFaults = 1
    MaxDrops = 0
INVARIANTS TypeOK CommittedApplied RejectedNotApplied OutcomeKnown NoActionSkipped KafkaOrder
PROPERTIES RowForward
CHECK_DEADLOCK FALSE
