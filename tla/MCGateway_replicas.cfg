\* Two replicas, a durable store that can fail: races for one ticket.
SPECIFICATION Spec
SYMMETRY Symmetry
CHECK_DEADLOCK FALSE
CONSTANTS
  Principals = {alice}
  Nobody = Nobody
  Tickets = {t1}
  Requests = {r1, r2, r3}
  Claimers = {}
  Processes = {p1, p2}
  MaxRecords = 2
  MaxInFlight = 1
  Ttls = {1}
  Retention = 2
  UploadTimeout = 1
  Grace = 1
  BackendTime = 1
  StoreTime = 9
  Authenticates = FALSE
  TicketInUrl = TRUE
  DecidesExpiry = TRUE
  StoreMayFail = TRUE
  Durable = TRUE
  LastStart = 1
  MaxClock = 2
INVARIANTS TypeOK SingleUse SlotAccounting AnswerTruthful RefusalTruthful
PROPERTY ImplementsContract
