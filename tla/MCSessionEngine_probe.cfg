SPECIFICATION Spec
CONSTANTS
    i1 = i1
    i2 = i2
    i3 = i3
    hook = hook
    r1 = r1
    r2 = r2
    child = child
    a = a
    None = None
    Instances = {i1}
    Transports = {"Pty"}
    Policies <- RawPty
    Events <- NoEvents
    MaxGeneration = 1
    MaxOperation = 3
    MaxFrame = 0
    MaxSessions = 1
    MaxIdentities = 1
    Identities = {}
    Sources = {}
    Requests = {}
    Agents = {}
    MaxInteractions = 1
    MaxSubagents = 0
    MaxSequence = 0
INVARIANT ProbeOwed
CHECK_DEADLOCK FALSE
