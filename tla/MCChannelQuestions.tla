--------------------------- MODULE MCChannelQuestions ---------------------------
(* Model checking of ChannelQuestions: some questions of one conversation, *)
(* one of another.                                                         *)
EXTENDS ChannelQuestions, TLC

CONSTANTS Elsewhere, v1, v2

MCConversationOf == [q \in Questions |-> IF q = Elsewhere THEN v2 ELSE v1]
QuestionSymmetry == Permutations(Questions \ {Elsewhere})
=============================================================================
