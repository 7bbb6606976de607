\* A user who waits for the outcome of a connection, ids that are not reused,
\* an instrument that triggers after the connection stands.
SPECIFICATION Spec
CONSTANTS
  MaxConnects = 4
  Patient = TRUE
  FreshIds = TRUE
  EarlyTrigger = FALSE
INVARIANTS
  NoStaleScope
  TheConnection
  JoinFits
  ItemsAgree
PROPERTIES
  ImplementsConnection
CHECK_DEADLOCK FALSE
