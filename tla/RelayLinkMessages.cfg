\* Errors are Win32 codes or HRESULTs: both threads of a link, from frames to teardown.
CONSTANTS
  Types = {"utf8"}
  ErrorCodes <- EitherError
  TimeoutCodes <- EitherTimeout
  TimeoutHResult <- WrappedTimeout
  WaitForever = FALSE
  MaxFrames = 3
  MaxFaults = 1
SPECIFICATION Spec
INVARIANTS TypeOK WakesToAMessage ThreadsGoneBeforeRelease FramesInOrder
PROPERTIES StopReturns Delivered
