SPECIFICATION FairSpec
CONSTANTS
  c1 = c1
  c2 = c2
  s1 = s1
  nobody = nobody
  Clients <- TwoClients
  Sessions <- OneSession
  Nobody <- nobody
  MaxGenerations = 2
  MaxEpochs = 1
INVARIANTS OneMap
PROPERTIES CommitIsCurrent MapSpec CallsReturn
