SPECIFICATION FairSpec
CONSTANTS
  login = login
  logout = logout
  r1 = r1
  r2 = r2
  Callers <- TwoCallers
  Runs <- TwoRuns
  Nobody = "nobody"
  Jobs = {"a"}
  MaxBuses = 2
INVARIANT DrainIsComplete
INVARIANT SurvivorsAreCancelled
INVARIANT LoopHasOneOwner
INVARIANT TriggersOfTheSession
PROPERTY CallsReturn
