SPECIFICATION FairSpec
CONSTANTS
  None = None
  MaxClients = 3
  TokenClients <- FirstAndLast
  AuthorizationIds = {a1, a2}
  Requests = {r1, r2}
INVARIANTS LifecycleIsTrue DeadClientStaysOut
PROPERTIES DrainIsRespected DrainFreesDatabase
\* the process ends
CHECK_DEADLOCK FALSE
