CONSTANTS
  Ticket <- MCTicket
  Path <- MCPath
  Workstream = {"application", "integration"}
  Integration = "integration"
  Owned <- MCOwned
  Shared = {"s"}
  Manifests = {}
  MaxActive = 2
  MaxFiles = 2
  MaxComponents = 1
  NoTicket = NoTicket
  NoDelivery = NoDelivery
  Plans <- MCPlans
  MaxMerges = 2
  MaxPaths <- MCMaxPaths
  Checkers = {"t2"}
  Steady = FALSE
  NoKey = NoKey
SPECIFICATION Spec
CHECK_DEADLOCK FALSE
INVARIANTS DependenciesFinished
