\* Every option, URL, message, event and filter of a small world, through every
\* conversion.
CONSTANTS
  IntMax = 3
  DwordMax = 7
  MaxTimeout = 40
  MaxSessions = 2
  kAuthKind = 2
  Now = 8
  Nonces = {1, 2}
  SignerKey = "key"
  Utf8 <- MCUtf8
  CStr <- MCCStr
  Lower <- MCLower
  Milliseconds <- MCMilliseconds
  Parsed <- MCParsed
  TextNumber <- MCTextNumber
  TextDate <- MCTextDate
  IsLabel <- MCIsLabel
  Hash <- MCHash
  Sign <- MCSign
  ClientOptions <- MCClientOptions
  RelayUrls <- MCRelayUrls
  Connections <- MCConnections
  Talks <- MCTalks
  Meanings <- MCMeanings
  Times <- MCTimes
  Drafts <- MCDrafts
  AuthDrafts <- MCAuthDrafts
  Contents <- MCContents
  FilterLists <- MCFilterLists
  SubscriptionOptions <- MCSubscriptionOptions
SPECIFICATION Spec
INVARIANTS TypeOK WaitsAsAsked ReachesRelayMeant SessionAsAnnounced ReadAsMeant EventKeptWhole
  SignatureCoversSent SameMessageAgain AuthAnswersChallenge 
\* The sessions that are allowed may all have been disconnected.
CHECK_DEADLOCK FALSE
