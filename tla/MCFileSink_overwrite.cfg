\* Two uploads replace one another under one name.
SPECIFICATION FairSpec
CHECK_DEADLOCK FALSE
CONSTANTS
  Uploads = {u1, u2}
  Names = {n1}
  NoFile = NoFile
  Numbers = {d1, d2}
  NoFd = NoFd
  MaxChunks = 0
  Threads = 2
  Overwrite = TRUE
  Fsync = TRUE
PROPERTY FailureSparesOthers
