SPECIFICATION Spec
CONSTANTS
  r1 = r1
  r2 = r2
  p1 = p1
  p2 = p2
  Requests = {r1, r2}
  Sessions = {s1}
  Parties = {p1}
  Owner <- OneOwner
  NoRequest = NoRequest
  Checks = {v1}
  NoSession = NoSession
  Links <- References
  Kinds <- Draft1
  Demands <- Demanding
  RequestLife = 1
  TokenLife = 1
  Skew = 0
  MaxTime = 0
  MaxEditions = 2
CHECK_DEADLOCK FALSE
INVARIANTS
  NonceMatchesRequest
