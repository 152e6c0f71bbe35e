\* Two questions of one conversation and one of another, under fair scheduling.
SPECIFICATION FairSpec
CONSTANTS
  Questions = {q1, q2, w}
  Elsewhere = w
  v1 = v1
  v2 = v2
  Conversations = {v1, v2}
  ConversationOf <- MCConversationOf
  MaxMessages = 2
INVARIANTS
  WaitingIsAnswerable
  NothingLeftBehind
  ExpiredMeansUndecided
PROPERTIES
  QuestionSpec
  AskersReturn
CHECK_DEADLOCK FALSE
