SPECIFICATION Spec
CONSTANTS
  R1 = R1  R2 = R2  K1 = K1  K2 = K2  A = A  B = B  NA = NA  NB = NB
  Far = Far  FarName = FarName  MA = MA  MB = MB  MFar = MFar  Claude = Claude
  T0 = T0  T1 = T1  X1 = X1  X2 = X2  I1 = I1  I2 = I2  I3 = I3  I4 = I4
  P1 = P1  P2 = P2  C1 = C1  C2 = C2  Hand = Hand
  V1 = V1  V2 = V2  V3 = V3  N1 = N1
  None = None
  Nothing = Nothing
  Requests = {R1, R2}
  Asks <- MCAsks
  Keys = {K1, K2}
  ClientOf <- MCClientOf
  MayUse <- MCMayUse
  Recipes = {A, B}
  NameOf <- MCNameOf
  ModelOf <- MCModelOf
  Here = Here
  Engines = {Here, Far}
  Names = {NA, NB, FarName}
  Models = {MA, MB, MFar}
  Configs <- MCConfigs
  Terminals = {X1, X2}
  Commands <- MCCommands
  Inodes = {I1, I2, I3, I4}
  LiveEvery = 2
  AskMax = 1
  Tools = {T0, T1}
  Every = 2
  Late = 1
  StaleAfter = 4
  KeptFor = 6
  Ports = {P1, P2}
  EnginePort = P1
  KindOf <- MCKindOf
  Lists = {C1, C2}
  Listeners <- MCListeners
  Limit = 2
  RelayOld = 2
  AskEvery = 2
  Hands = {Hand, NA}
  Viewers = {V1, V2, V3}
  PeerNames = {N1}
  Workers = 2
  PeerKept = 2
  PeerMax = 1
  Scenes <- MCScenes
CHECK_DEADLOCK FALSE
INVARIANT TypeOK
INVARIANT KeysDecide
INVARIANT OneAnswer
INVARIANT UsageTells
INVARIANT Recent
INVARIANT BlocksHoldTogether
INVARIANT LoadingShown
INVARIANT EndShown
INVARIANT ContainersRecent
INVARIANT ModelsRecent
INVARIANT LostNotLong
INVARIANT PeersRecent
 
PROPERTY HandKept
PROPERTY Messages
