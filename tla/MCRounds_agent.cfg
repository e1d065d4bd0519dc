\* One agent, its person and two tool calls; a gateway that checks no digest.
SPECIFICATION FairSpec
CHECK_DEADLOCK FALSE
CONSTANTS
  Tickets = {t1, t2}
  Agents = {a1}
  Resolvers = {c1, c2}
  Contents = {x, y}
  None = None
  Verifies = FALSE
INVARIANTS UriIsTheFile ToldTruly
PROPERTIES AnswerWasRight CallsEnd
