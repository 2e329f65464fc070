SPECIFICATION Spec
CONSTANTS
  None = None
  Unsupported = Unsupported
  NoResponse = NoResponse
  Task = Task
  a = a  b = b  ka = ka  kb = kb  iss = iss
  c1 = c1  c2 = c2
  Issuer = iss
  Callers = {c1, c2}
  Jwk <- MCJwk
  Docs <- UsableDocs
  Token <- OneToken
  Interval = 2
  MaxStale = 5
  Timeout = 1
  Horizon = 7
  MaxRev = 2
  HasRemote = TRUE
  Faulty = FALSE
SYMMETRY CallerSymmetry
INVARIANTS
  NeverStale
