\* DisconnectRelay may come between ConnectRelay's insertion and its start of
\* the receive thread: the release is expected to stop every thread.
CONSTANTS
  Users = {u, v}
  Urls = {r}
  Careful = FALSE
  MaxSessions = 1
SPECIFICATION Spec
INVARIANT ReleaseStopsThreads
