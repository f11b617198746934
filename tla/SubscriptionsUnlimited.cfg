\* No queue limit, two subscriptions, filters that are updated.
CONSTANTS
  Subs = {a, b}
  Users = {u}
  MaxQueue = 0
  Throws = FALSE
  MayUpdate = TRUE
  SendMayFail = FALSE
  SendMayBeLost = TRUE
  PostMayFail = FALSE
  MaxMessages = 3
  MaxCalls = 2
SPECIFICATION Spec
INVARIANTS TypeOK NoStrandedEvents OneDrain
PROPERTY ImplementsStream
