\* Every action settles and the log is consumed, under fairness.
SPECIFICATION FairSpec
CONSTANTS
    e1 = e1  e2 = e2  k1 = k1
    Bad = Bad
    Events = {e1, e2}
    KeyEvents = {}
    Logs <- PairLog
    Unpackable = {}
    Configured = {"warehouse", "key"}
    Outcomes = {"applied", "signer"}
    BatchSize = 2
    MaxChunk = 1
    Window = 1
    MaxTx = 4
    MaxCrashes = 1
    MaxFaults = 1
    MaxDrops = 0
PROPERTIES EventuallySettled EventuallyCommitted
CHECK_DEADLOCK FALSE
