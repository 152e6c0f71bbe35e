---------------------------- MODULE MCQuestionnaire ----------------------------
(* Model checking of Questionnaire on a few interchangeable questions.     *)
EXTENDS Questionnaire, TLC

QuestionSymmetry == Permutations(Questions)
=============================================================================
