\* One run, one rule of the second of two workspaces, under fair passes.
SPECIFICATION FairSpec
CONSTANTS
  Rules = {"r2"}
  Runs = {"n1"}
  Workspaces = {"w1", "w2"}
  Global = "global"
  Scope <- HomeOf
  MaxFacts = 3
  MaxAttempts = 2
  Batch = 2
  Page = 1
  MaxChanges = 1
INVARIANTS
  SourcesAreKept
  TerminalIsObeyed
PROPERTIES
  SpentForGood
  FactsSettle
  ClaimsEnd
CHECK_DEADLOCK FALSE
