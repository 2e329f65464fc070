SPECIFICATION Spec_http
CONSTANTS
  None = None
  NoValue = NoValue
  EMPTY = EMPTY
  Unsupported = Unsupported
  NoResponse = NoResponse
  Task = Task
  a = a  b = b  ka = ka  kb = kb  iss = iss  other = other
  c1 = c1  c2 = c2
  reader = reader  writer = writer  alice = alice
  p = p  q = q  r1 = r1  r2 = r2
  Issuer = iss
  Callers = {c1, c2}
  Jwk <- RotatingJwk
  Docs <- RotatingDocs
  Token <- RotatingTokens
  Requests <- RotatingRequests
  Configs <- OnePolicy
  Matches <- MCMatches
  Interval = 1
  MaxStale = 1
  Timeout = 1
  Horizon = 3
  MaxRev = 1
  HasRemote = TRUE
  Faulty = TRUE
SYMMETRY CallerSymmetry
INVARIANTS
  RefusalsAreJustified
PROPERTIES
  ForwardedIsEntitled
