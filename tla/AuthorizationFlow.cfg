SPECIFICATION FairSpec
CONSTANTS
  r1 = r1
  r2 = r2
  p1 = p1
  p2 = p2
  Requests = {r1, r2}
  Sessions = {s1}
  Parties = {p1, p2}
  Owner <- OneOwner
  NoRequest = NoRequest
  Checks = {v1}
  NoSession = NoSession
  Links <- AllChannels
  Kinds <- Drafts
  Demands <- Careless
  RequestLife = 1
  TokenLife = 1
  Skew = 2
  MaxTime = 3
  MaxEditions = 2
CHECK_DEADLOCK FALSE
INVARIANTS
  TypeOK
  AnswersVerifiedRequest
  AcceptedWhereAsked
  ExpiredRequestNotAnswered
  ExpiredTokenNotAccepted
PROPERTIES
  AnswersAsPromised
  InTimeGoesThrough
