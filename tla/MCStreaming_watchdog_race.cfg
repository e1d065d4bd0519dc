\* The watchdog fires between the first chunk and the handler's next step.
SPECIFICATION MCSpec
CONSTANTS
  Kinds = {"http", "sink"}
  QueueSize = 1
  MaxChunks = 2
INVARIANT EveryUploadRecorded
