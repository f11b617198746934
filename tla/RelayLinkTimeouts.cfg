\* A timeout between two frames of a message is expected to be waited out.
CONSTANTS
  Types = {"utf8"}
  ErrorCodes <- EitherError
  TimeoutCodes <- EitherTimeout
  TimeoutHResult <- WrappedTimeout
  WaitForever = FALSE
  MaxFrames = 2
  MaxFaults = 1
SPECIFICATION Spec
INVARIANT MessagesWhole
