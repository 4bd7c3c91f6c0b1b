SPECIFICATION Spec
CONSTANTS
    i1 = i1
    i2 = i2
    i3 = i3
    hook = hook
    r1 = r1
    r2 = r2
    child = child
    a = a
    None = None
    Instances = {i1}
    Transports = {"Acp"}
    Policies <- Semantic
    Events <- ChildQuestions
    MaxGeneration = 1
    MaxOperation = 1
    MaxFrame = 0
    MaxSessions = 1
    MaxIdentities = 1
    Identities = {}
    Sources = {hook}
    Requests = {r1, r2}
    Agents = {child}
    MaxInteractions = 3
    MaxSubagents = 1
    MaxSequence = 4
INVARIANT WaitingMeansUnresolved
CHECK_DEADLOCK FALSE
