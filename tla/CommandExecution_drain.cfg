SPECIFICATION FairSpec
CONSTANTS
  o1 = o1
  o2 = o2
  Operations <- TwoOperations
  Invocations = {1}
  Interactive = {1}
  Owning = {1}
  External = {}
  MaxStartups = 2
  MaxEpochs = 2
PROPERTIES DrainEnds ClosedRowsAreRecovered
CHECK_DEADLOCK FALSE
