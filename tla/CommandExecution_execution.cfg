SPECIFICATION Spec
SYMMETRY OperationSymmetry
CONSTANTS
  o1 = o1
  o2 = o2
  Operations <- TwoOperations
  Invocations = {1, 2}
  Interactive = {1}
  Owning = {2}
  External = {}
  MaxStartups = 2
  MaxEpochs = 1
INVARIANTS OwnerAlone
PROPERTIES StartIsAuthorised CommandSpec
CHECK_DEADLOCK FALSE
