SPECIFICATION Spec
CONSTANTS
  P = P  Q = Q  Weights = Weights  Config = Config  NewConfig = NewConfig
  C1 = C1  C2 = C2  None = None  I1 = I1  I2 = I2
  Pulls = {P, Q}
  Blobs = {Weights}
  Lfs = {Weights}
  Size <- MCSize
  Commits = {C1}
  Files <- MCFiles
  Inodes = {I1, I2}
  Retries = 0
  MaxFaults = 0
INVARIANT WholeAtDest
