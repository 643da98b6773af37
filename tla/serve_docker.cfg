SPECIFICATION Spec
CONSTANTS
  s1 = s1  c1 = c1  c2 = c2  n1 = n1  x1 = x1
  head = head  worker = worker
  None = None  Solo = solo  Unit = unit
  Keeper = keeper  Booter = booter
  NodeSeq <- MCNodeSeq
  Runtime <- MCRuntime
  Span <- MCSpan
  Port <- MCPort
  Recipes = {s1, c1}
  Users = {u1}
  Linger = TRUE
  Lossy = TRUE
  MaxFaults = 1
INVARIANT TypeOK
INVARIANT NoEngineOnTop
INVARIANT RecordTrueAlone
INVARIANT DownFreesHead
PROPERTY RefusesWithoutReplace
