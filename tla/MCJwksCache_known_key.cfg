SPECIFICATION Spec
CONSTANTS
  None = None
  Unsupported = Unsupported
  NoResponse = NoResponse
  Task = Task
  a = a  b = b  ka = ka  kb = kb  iss = iss
  c1 = c1  c2 = c2
  Issuer = iss
  Callers = {c1, c2}
  Jwk <- MCJwk
  Docs <- UsableDocs
  Token <- FewTokens
  Interval = 1
  MaxStale = 2
  Timeout = 1
  Horizon = 4
  MaxRev = 1
  HasRemote = TRUE
  Faulty = TRUE
PROPERTY
  KnownKeyHonoured
