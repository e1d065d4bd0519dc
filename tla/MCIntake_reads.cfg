\* Bodies cut into reads in every way, and timed uploads at every pace.
SPECIFICATION Spec
CHECK_DEADLOCK FALSE
CONSTANTS
  Boundary <- TheBoundary
  MaxPreamble = 7
  MaxOverhead = 28
  FeedSlice = 4
  MaxEpilogue = 3
  MaxPartHead = 12
  Uploads <- TheUploads
  StallMinBytes = 3
  MaxClock = 12
INVARIANTS ReadRight RawRight WatchdogIsJust
