SPECIFICATION FairSpec
CONSTANTS
    i1 = i1
    i2 = i2
    i3 = i3
    hook = hook
    r1 = r1
    r2 = r2
    child = child
    a = a
    None = None
    Instances = {i1}
    Transports = {"Pty", "Acp"}
    Policies <- IdentityPolicies
    Events <- IdentityEvents
    MaxGeneration = 2
    MaxOperation = 3
    MaxFrame = 0
    MaxSessions = 1
    MaxIdentities = 1
    Identities = {a}
    Sources = {hook}
    Requests = {}
    Agents = {child}
    MaxInteractions = 1
    MaxSubagents = 1
    MaxSequence = 2
INVARIANT PolicyWithholds
PROPERTY OperationSettles
CHECK_DEADLOCK FALSE
