\* A transport failure is expected to be reported by the session's state.
CONSTANTS
  Types = {"utf8"}
  ErrorCodes <- EitherError
  TimeoutCodes <- EitherTimeout
  TimeoutHResult <- WrappedTimeout
  WaitForever = FALSE
  MaxFrames = 1
  MaxFaults = 1
SPECIFICATION Spec
PROPERTY LossIsReported
