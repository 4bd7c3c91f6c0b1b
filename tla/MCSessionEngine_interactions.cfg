SPECIFICATION Spec
CONSTANTS
    i1 = i1
    i2 = i2
    i3 = i3
    hook = hook
    r1 = r1
    r2 = r2
    child = child
    a = a
    None = None
    Instances = {i1}
    Transports = {"Acp"}
    Policies <- Semantic
    Events <- InteractionEvents
    MaxGeneration = 1
    MaxOperation = 3
    MaxFrame = 0
    MaxSessions = 1
    MaxIdentities = 1
    Identities = {}
    Sources = {hook}
    Requests = {r1}
    Agents = {child}
    MaxInteractions = 2
    MaxSubagents = 1
    MaxSequence = 3
INVARIANT TypeOK
INVARIANT ResolvingIsPending
INVARIANT ResolutionEffectsWanted
PROPERTY InteractionFinal
CHECK_DEADLOCK FALSE
