\* A finish sent again after the upload was claimed.
SPECIFICATION MCSpec
CONSTANTS
  Principals = {}
  Nobody = Nobody
  Tickets = {t1}
  Processes = {p1, p2}
  Calls = 1
  Legacy = {}
  ServerClock = FALSE
  Fast = {}
  Skew = 0
  Ttl = 1
  Retention = 1
  Second = 1
  MemoSize = 1
  Resends = TRUE
  CallTime = 1
  MaxClock = 0
INVARIANT ClaimedOnce
