\* Files are linked, never replaced; three uploads, one name, two threads.
SPECIFICATION MCSpec
CONSTANTS
  Uploads = {u1, u2, u3}
  Names = {n1}
  NoFile = NoFile
  Numbers = {d1, d2}
  NoFd = NoFd
  MaxChunks = 1
  Threads = 2
  Overwrite = FALSE
  Fsync = TRUE
SYMMETRY Permuted
INVARIANTS VisibleIsWhole ReportedIsKept FailedLeavesNothing NoStrayWrite
