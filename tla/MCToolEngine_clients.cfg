SPECIFICATION Spec
CONSTANTS
  i1 = i1 c1 = c1 c2 = c2 p1 = p1 r1 = r1
  consumer1 = consumer1 consumer2 = consumer2
  q1 = q1 q2 = q2
  Gate = Gate
  Instances = {i1}
  Clients = {c1, c2}
  ConsumerOf <- TwoConsumers
  RequestIds = {q1, q2}
  Providers = {p1}
  Owner <- GateOwned
  Resources = {r1}
  Offers <- OfferAll
  Generations = {1}
  MaxTick = 2
  MaxAuthority = 1
  MaxU64 = 4
  MaxProviders = 2
  MaxPolicies = 2
  MaxRequests = 2
  MaxActivePerClient = 2
  MaxCompletions = 1
INVARIANT CancelNeverLostToFullQueue
INVARIANT SettledOnce
CHECK_DEADLOCK FALSE
SYMMETRY IdSymmetry
