SPECIFICATION Spec
CONSTANTS
  A = A  B = B  None = None
  Recipes = {A, B}
  Grace = 2
  LostGrace = 1
  Gap = 3
  Day = 7
  MaxPerDay = 2
  MaxNow = 9
INVARIANT TypeOK
INVARIANT Remembered
INVARIANT Spaced
INVARIANT InBudget
PROPERTY KeepsBudget
INVARIANT Prompt
