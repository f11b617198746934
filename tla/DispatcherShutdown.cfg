\* Two receive threads, a message queue that overflows: tasks and shutdown.
CONSTANTS
  Posters = {p, q}
  MessageLimit = 2
  WaitMayTimeOut = FALSE
  MaxTasks = 4
SPECIFICATION Spec
INVARIANTS TypeOK NoSleepOverTasks ReleasedMeansDone
PROPERTIES ReleaseEnds ImplementsExecutor
