SPECIFICATION Spec
CONSTANTS
  NoEvent = "none"
  Listens <- PairListens
  OnSuccess <- PairSuccess
  OnFailure <- None
  FanOut <- Once
  Timed = {"a"}
  Skips = {}
  McpJobs = {}
  Piped = {"a", "b"}
  DomainEvents = {}
  Publishes <- Never
  CronRoots = {}
  IntervalRoots = {1}
  DomainRoots = {}
  ManualRoots = {2}
  Slots = 1
  MaxDepth = 2
  RateLimit <- Limit9
  MaxEdits = 2
  Events = {"a.ok"}
  Jobs = {"a", "b"}
INVARIANT SlotsBalanced
INVARIANT RegistrationFollowsRegistry
PROPERTY NoFiringWhenDisabled
