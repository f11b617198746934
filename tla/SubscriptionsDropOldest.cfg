\* A queue of two that drops its oldest event; two threads close.
CONSTANTS
  Subs = {a}
  Users = {u, v}
  MaxQueue = 2
  Throws = FALSE
  MayUpdate = FALSE
  SendMayFail = FALSE
  SendMayBeLost = TRUE
  PostMayFail = FALSE
  MaxMessages = 5
  MaxCalls = 3
SPECIFICATION Spec
INVARIANT StatusSeenByCallback
PROPERTIES ImplementsStream ClosedIsFinal QueueDrains
