\* A process that writes the old layout beside one that writes the new,
\* their clocks ahead of the server's, which decides expiry.
SPECIFICATION MCSpec
CONSTANTS
  Principals = {}
  Nobody = Nobody
  Tickets = {t1}
  Processes = {p1, p2}
  Calls = 1
  Legacy = {p1}
  ServerClock = TRUE
  Fast = {p2}
  Skew = 1
  Ttl = 1
  Retention = 2
  Second = 2
  MemoSize = 1
  Resends = FALSE
  CallTime = 1
  MaxClock = 2
INVARIANTS RefusalsWereTrue KeysLast
PROPERTIES ImplementsContract AgreedExpiry
