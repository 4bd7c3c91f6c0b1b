SPECIFICATION Spec
CONSTANTS
    i1 = i1
    i2 = i2
    i3 = i3
    hook = hook
    r1 = r1
    r2 = r2
    child = child
    a = a
    None = None
    Instances = {i1, i2, i3}
    Transports = {"Pty"}
    Policies <- Full
    Events <- NoEvents
    MaxGeneration = 2
    MaxOperation = 4
    MaxFrame = 2
    MaxSessions = 1
    MaxIdentities = 2
    Identities = {a}
    Sources = {}
    Requests = {}
    Agents = {}
    MaxInteractions = 1
    MaxSubagents = 0
    MaxSequence = 0
INVARIANT OperationOwed
INVARIANT WorkerEffectsLive
INVARIANT ProcessOwned
INVARIANT ExpectsHold
INVARIANT ForegroundTrust
PROPERTY NoRewind
CHECK_DEADLOCK FALSE
SYMMETRY InstanceSymmetry
