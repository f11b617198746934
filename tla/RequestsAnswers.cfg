\* Two callers, a relay that answers in any order, challenges and deadlines.
CONSTANTS
  Callers = {c, d}
  Events = {e, f}
  AuthCallers = {d}
  GivesTag = FALSE
  AnswersInOrder = FALSE
  DeadlineMayPass = TRUE
  MaxCalls = 2
  MaxChallenges = 2
SPECIFICATION Spec
INVARIANTS TypeOK AnswerIsOwnAndFresh NoSleepOverAnswer UsedChallengeGone
PROPERTY CallsReturn
