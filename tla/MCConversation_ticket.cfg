\* Every declaration with every way of building the gateway, and what may be sent then.
SPECIFICATION Spec
CHECK_DEADLOCK FALSE
CONSTANTS
  NameLimit = 7
  ExtensionLimit = 3
  Nobody = Nobody
  Principals <- ThePrincipals
  Registry <- TheRegistry
  TokenClaims <- TheClaims
  Envelope = 1
  Slack = 2
  DefaultDestination = "notes"
  Offered = {"any"}
  Gateways <- TheGateways
  Declarations <- TheDeclarations
  Files <- TheFiles
  Clients <- TheClients
  Strays <- TheStrays
  DrainLimit = 1
  MaxMessage = 2
  MaxRequests = 2
INVARIANTS NothingLearned PromisesKept NamedPlainly CountedOnce AnswerHeard
