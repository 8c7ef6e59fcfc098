\* A message Parse refuses behind a batch whose Send failed.
SPECIFICATION Spec
CONSTANTS
    e1 = e1  e2 = e2  k1 = k1
    Bad = Bad
    Events = {e1}
    KeyEvents = {}
    Logs <- BadBehindAction
    Unpackable = {}
    Configured = {"warehouse", "key"}
    Outcomes = {"applied"}
    BatchSize = 2
    MaxChunk = 1
    Window = 1
    MaxTx = 1
    MaxCrashes = 1
    MaxFaults = 1
    MaxDrops = 0
INVARIANTS NoActionSkipped
CHECK_DEADLOCK FALSE
