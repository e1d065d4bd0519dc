\* One life of a ticket with an owner: an upload, an abandonment and the end
\* of retention all fit between 0 and MaxClock.  Ids in the URL, a token as
\* the only credential; as with the defaults of the code, the gateway judges
\* expiry by its own reading and the grace is shorter than a destination's
\* time.  Crashes, failing stores, fairness of the code.
SPECIFICATION FairSpec
CHECK_DEADLOCK FALSE
CONSTANTS
  Principals = {alice, bob}
  Nobody = Nobody
  Tickets = {t1}
  Requests = {r1, r2}
  Claimers = {c1}
  Processes = {p1}
  MaxRecords = 1
  MaxInFlight = 1
  Ttls = {1}
  Retention = 6
  UploadTimeout = 1
  Grace = 1
  BackendTime = 2
  StoreTime = 1
  Authenticates = TRUE
  TicketInUrl = FALSE
  DecidesExpiry = FALSE
  StoreMayFail = TRUE
  Durable = TRUE
  LastStart = 1
  MaxClock = 7
INVARIANTS RecordOutlivesUpload OnlyOwnerSpends
PROPERTIES StatusMonotone SlotsComeBack SpentTicketResolves
