\* Two callers, no deadline: an answer is expected to end its call.
CONSTANTS
  Callers = {c, d}
  Events = {e, f}
  AuthCallers = {}
  GivesTag = FALSE
  AnswersInOrder = TRUE
  DeadlineMayPass = FALSE
  MaxCalls = 2
  MaxChallenges = 0
SPECIFICATION Spec
PROPERTY AnswerEndsCall
CHECK_DEADLOCK FALSE
