SPECIFICATION PlaneSpec
CONSTANTS
  i1 = i1 c1 = c1 p1 = p1 r1 = r1 consumer1 = consumer1 q1 = q1 q2 = q2
  Gate = Gate
  Instances = {i1}
  Clients = {c1}
  ConsumerOf <- OneConsumer
  RequestIds = {q1}
  Providers = {p1}
  Owner <- GateOwned
  Resources = {r1}
  Offers <- OfferAll
  Generations = {1}
  MaxTick = 5
  MaxAuthority = 4
  MaxU64 = 3
  MaxProviders = 1
  MaxPolicies = 1
  MaxRequests = 1
  MaxActivePerClient = 1
  MaxCompletions = 2
  IngressCapacity = 2
  DrainLimit = 2
  WorkCapacity = 1
  MaxRuntimes = 1
  MaxSequence = 4
  MaxControl = 1
  Deadlines = {5}
INVARIANT PlaneTypeOK
INVARIANT EffectsDeliverable
INVARIANT RunsWhereSent
INVARIANT NothingFollowsClose
INVARIANT OfferedBeforeClosed
INVARIANT RegistryAgrees
CHECK_DEADLOCK FALSE
