SPECIFICATION RequestSpec
CONSTANTS
  SyncMax = 1
  Reqid32 = 2
  Ids = {0, 300}
  LimitMax = 100000
  Lengths = {0, 40}
  Salts = {s1, s2}
  Passwords = {p1, p2}
INVARIANTS Decodes MinusOneMeansError ScrambleProves
