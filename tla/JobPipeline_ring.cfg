SPECIFICATION FairSpec
CONSTANTS
  NoEvent = "none"
  Listens <- RingListens
  OnSuccess <- RingSuccess
  OnFailure <- RingFailure
  FanOut <- RingItems
  Timed = {"c"}
  Skips = {"a"}
  McpJobs = {"b"}
  Piped = {"a", "b", "c"}
  DomainEvents = {"task.created"}
  Publishes <- RingPublishes
  CronRoots = {2}
  IntervalRoots = {}
  DomainRoots = {1}
  ManualRoots = {}
  Slots = 2
  MaxDepth = 2
  RateLimit <- Limit1
  MaxEdits = 0
  Events = {"task.created", "a.ok", "b.ok", "a.failed"}
  Jobs = {"a", "b", "c"}
INVARIANT ChainIsFinite
INVARIANT ChainCut
INVARIANT RateOvershootBounded
PROPERTY ChainsEnd
