\* Two processes share a file with room for one record.
SPECIFICATION Spec
SYMMETRY Symmetry
CONSTANTS
  Principals = {}
  Nobody = Nobody
  NoTicket = NoTicket
  Tickets = {t1, t2}
  MaxRecords = 1
  Processes = {p1, p2}
  Threads = 1
  Closes = {p1}
  Crashes = {p2}
  Ttl = 1
  Retention = 2
  CallTime = 1
  MaxClock = 2
INVARIANTS CapHolds AnswersWereTrue
PROPERTY ImplementsContract
