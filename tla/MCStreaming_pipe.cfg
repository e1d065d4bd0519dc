\* Both destinations, a small queue, a file longer than two queues.
SPECIFICATION MCFairSpec
CONSTANTS
  Kinds = {"http", "sink"}
  QueueSize = 2
  MaxChunks = 5
INVARIANTS QueueIsSound BeginsAndEndsWell JudgedRight
PROPERTIES ImplementsPipe UploadEnds
