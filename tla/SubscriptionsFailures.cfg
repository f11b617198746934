\* A queue of one that closes the subscription when it overflows; sends and
\* posts may fail.
CONSTANTS
  Subs = {a}
  Users = {u, v}
  MaxQueue = 1
  Throws = TRUE
  MayUpdate = FALSE
  SendMayFail = TRUE
  SendMayBeLost = TRUE
  PostMayFail = TRUE
  MaxMessages = 4
  MaxCalls = 3
SPECIFICATION Spec
INVARIANT FailedCloseMayBeRepeated
PROPERTY ImplementsStream
