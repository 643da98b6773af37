SPECIFICATION FairSpec
CONSTANTS
  P = P  Q = Q  Weights = Weights  Config = Config  NewConfig = NewConfig
  C1 = C1  C2 = C2  None = None  I1 = I1  I2 = I2
  Pulls = {P}
  Blobs = {Weights, Config, NewConfig}
  Lfs = {Weights}
  Size <- MCSize
  Commits = {C1, C2}
  Files <- MCFiles
  Inodes = {I1, I2}
  Retries = 1
  MaxFaults = 3
INVARIANT TypeOK
INVARIANT WholeAtDest
INVARIANT RefComplete
PROPERTY Heals
