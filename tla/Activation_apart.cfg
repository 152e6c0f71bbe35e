\* A rule of no workspace and one of the second of two, on one run.
SPECIFICATION Spec
CONSTANTS
  Rules = {"r1", "r2"}
  Runs = {"n1"}
  Workspaces = {"w1", "w2"}
  Global = "global"
  Scope <- HomeOf
  MaxFacts = 3
  MaxAttempts = 2
  Batch = 1
  Page = 2
  MaxChanges = 0
PROPERTY RulesAreIndependent
CHECK_DEADLOCK FALSE
