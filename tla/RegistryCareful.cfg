\* Two threads, two relays; a relay is disconnected when nothing else uses it.
CONSTANTS
  Users = {u, v}
  Urls = {r, s}
  Careful = TRUE
  MaxSessions = 3
SPECIFICATION Spec
INVARIANTS TypeOK ForgottenIsDown ThreadsAreServed OneDispatcher
