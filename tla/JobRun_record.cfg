\* Two runs of up to two attempts; two sessions, two faults.
SPECIFICATION RunSpec
CONSTANTS
  Runs = {r1, r2}
  Attempts = 2
  MaxSessions = 2
  MaxFaults = 2
SYMMETRY RunSymmetry
INVARIANTS
  SequencesGrow
  LiveProofIsCurrent
PROPERTIES
  RecordSpec
CHECK_DEADLOCK FALSE
