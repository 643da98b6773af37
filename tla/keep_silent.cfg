SPECIFICATION Spec
CONSTANTS
  A = A  B = B  None = None
  Recipes = {A}
  Grace = 2
  LostGrace = 1
  Gap = 3
  Day = 5
  MaxPerDay = 1
  MaxNow = 14
INVARIANT SaysSo
