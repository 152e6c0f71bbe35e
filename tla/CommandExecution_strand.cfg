SPECIFICATION FairSpec
CONSTANTS
  o1 = o1
  o2 = o2
  Operations <- TwoOperations
  Invocations = {1, 2}
  Interactive = {}
  Owning = {}
  External = {1}
  MaxStartups = 2
  MaxEpochs = 0
PROPERTIES RowsOfTheDeadAreRecovered
CHECK_DEADLOCK FALSE
