SPECIFICATION FairSpec
CONSTANTS
  i1 = i1 c1 = c1 c2 = c2 p1 = p1 r1 = r1
  consumer1 = consumer1 consumer2 = consumer2
  q1 = q1 q2 = q2
  Gate = Gate
  Instances = {i1}
  Clients = {c1}
  ConsumerOf <- OneConsumer
  RequestIds = {q1}
  Providers = {p1}
  Owner <- GateOwned
  Resources = {r1}
  Offers <- OfferAll
  Generations = {1, 2}
  MaxTick = 2
  MaxAuthority = 2
  MaxU64 = 3
  MaxProviders = 2
  MaxPolicies = 2
  MaxRequests = 2
  MaxActivePerClient = 2
  MaxCompletions = 1
INVARIANT TypeOK
INVARIANT InvokeAuthorized
INVARIANT ActiveAuthorized
INVARIANT DeadlineAhead
INVARIANT InvokedOnce
INVARIANT CancelFollowsInvoke
INVARIANT ApprovalBinds
INVARIANT AuthorityLastWord
PROPERTY TerminalIsFinal
PROPERTY ClosureIsComplete
PROPERTY EventuallySettled
CHECK_DEADLOCK FALSE
