SPECIFICATION LiveSpec
CONSTANTS
  None = None
  Unsupported = Unsupported
  NoResponse = NoResponse
  Task = Task
  a = a  b = b  ka = ka  kb = kb  iss = iss
  c1 = c1  c2 = c2
  Issuer = iss
  Callers = {c1, c2}
  Jwk <- MCJwk
  Docs <- RotatingDocs
  Token <- OneToken
  Interval = 1
  MaxStale = 1
  Timeout = 1
  Horizon = 3
  MaxRev = 1
  HasRemote = TRUE
  Faulty = TRUE
PROPERTIES
  CallsReturn
