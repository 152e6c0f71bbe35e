\* Two askers under fair scheduling, two responses to each.
SPECIFICATION FairSpec
CONSTANTS
  Questions = {q1, q2}
  MaxClicks = 2
INVARIANTS
  TurnsAreExclusive
  OrphanIsLeaving
PROPERTIES
  QuestionSpec
  LiveDialogStays
  AskersReturn
  ScreenIsFreed
CHECK_DEADLOCK FALSE
