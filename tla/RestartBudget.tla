--------------------------- MODULE RestartBudget ---------------------------
(***************************************************************************)
(* What rack keep promises of the restarts it makes (py/keep.py): "at most *)
(* once per KEEP_GAP_MIN and KEEP_MAX_PER_DAY times a day".  The clock     *)
(* moves on, and a restart is launched only when both limits allow it.     *)
(***************************************************************************)
EXTENDS Integers, FiniteSets

CONSTANTS
  Gap,        \* the least time between two restarts
  Day,        \* the window of the daily limit
  MaxPerDay,  \* restarts allowed in it
  MaxNow      \* bound: the clock stops here

ASSUME BudgetAssumption ==
  /\ Gap \in Nat \ {0} /\ Day \in Nat \ {0}
  /\ MaxPerDay \in Nat /\ MaxNow \in Nat

VARIABLES
  now,       \* the clock
  launched   \* the times of the restarts so far

budgetVars == <<now, launched>>

Recent(times, t) == {x \in times : t - x < Day}

MayLaunch ==
  /\ \A x \in launched : now - x >= Gap
  /\ Cardinality(Recent(launched, now)) < MaxPerDay

Launch ==
  /\ MayLaunch
  /\ launched' = launched \cup {now}
  /\ UNCHANGED now

Pass ==
  /\ now < MaxNow
  /\ now' = now + 1
  /\ UNCHANGED launched

BudgetInit == now = 0 /\ launched = {}
BudgetNext == Launch \/ Pass
BudgetSpec == BudgetInit /\ [][BudgetNext]_budgetVars

-----------------------------------------------------------------------------
\* Times are times: the clock within its bound, no restart in the future.
BudgetTypeOK ==
  /\ now \in 0..MaxNow
  /\ launched \subseteq 0..now

\* Two restarts are at least Gap apart, ever.
Spaced == \A x, y \in launched : x < y => y - x >= Gap

\* In no window of a day, wherever it begins, are there more restarts than
\* the limit: not only counted at the moment of a restart.
InBudget ==
  \A t \in 0..MaxNow :
    Cardinality({x \in launched : t <= x /\ x < t + Day}) <= MaxPerDay
=============================================================================
