SPECIFICATION Spec
CONSTANTS
  Path = {k}
  Endpoint = {e1, e2}
  Edge = {e1, e2}
  DelayedEdge = {e2}
  MaxAttempts = 2
  MaxHandlers = 2
  MaxVersion = 3
  MaxClock = 2
  AskedVersion = {1}
  Year = 3
  Scopes <- MCScopes
  RequestedTtl = {0, 3}
  DefaultTtl = 1
  MaxTtl = 2
INVARIANTS EveryReadIsBounded
