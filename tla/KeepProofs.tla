----------------------------- MODULE KeepProofs -----------------------------
(***************************************************************************)
(* rack keep's limits on its restarts, for every grace, gap, day and limit *)
(* and any number of recipes.  The argument: keep.json never forgets a     *)
(* restart that still counts (Remembered), so what decide() measures on    *)
(* keep.json is what rack keep did, and each of its steps is a step of     *)
(* RestartBudget.  First the limits a RestartBudget keeps, for every gap,  *)
(* day and limit.                                                          *)
(***************************************************************************)
EXTENDS Keep, RestartBudget, FiniteSetTheorems, TLAPS

-----------------------------------------------------------------------------
(***************************************************************************)
(* A set of restart times is finite, and so are its windows.               *)
(***************************************************************************)
LEMMA TimesFinite ==
  ASSUME BudgetTypeOK, NEW T, T \subseteq launched
  PROVE  IsFiniteSet(T)
<1>1. IsFiniteSet(0..now)
  BY FS_Interval DEF BudgetTypeOK
<1> QED
  BY <1>1, FS_Subset DEF BudgetTypeOK

\* The clock stays within its bound and no restart lies in the future.
THEOREM BudgetTypeCorrect == BudgetSpec => []BudgetTypeOK
<1>1. BudgetInit => BudgetTypeOK
  BY BudgetAssumption DEF BudgetInit, BudgetTypeOK
<1>2. BudgetTypeOK /\ [BudgetNext]_budgetVars => BudgetTypeOK'
  <2> SUFFICES ASSUME BudgetTypeOK, [BudgetNext]_budgetVars
               PROVE  BudgetTypeOK'
    OBVIOUS
  <2> USE DEF BudgetTypeOK
  <2>1. CASE Launch
    BY <2>1 DEF Launch
  <2>2. CASE Pass
    BY <2>2, BudgetAssumption DEF Pass
  <2>3. CASE UNCHANGED budgetVars
    BY <2>3 DEF budgetVars
  <2> QED
    BY <2>1, <2>2, <2>3 DEF BudgetNext
<1> QED
  BY <1>1, <1>2, PTL DEF BudgetSpec

-----------------------------------------------------------------------------
\* Two restarts are never closer than the gap (KEEP_GAP_MIN).
THEOREM BudgetSpaced == BudgetSpec => []Spaced
<1>1. BudgetInit => Spaced
  BY DEF BudgetInit, Spaced
<1>2. BudgetTypeOK /\ Spaced /\ [BudgetNext]_budgetVars => Spaced'
  <2> SUFFICES ASSUME BudgetTypeOK, Spaced, [BudgetNext]_budgetVars,
                      NEW x \in launched', NEW y \in launched', x < y
               PROVE  y - x >= Gap
    BY DEF Spaced
  <2>1. CASE Launch
    \* x and y were there before, or y is the restart of now: x, the older
    \* one, was, and MayLaunch measured it.
    <3>1. x \in launched
      BY <2>1 DEF Launch, BudgetTypeOK
    <3>2. CASE y \in launched
      BY <3>1, <3>2 DEF Spaced
    <3>3. CASE y = now
      BY <2>1, <3>1, <3>3 DEF Launch, MayLaunch
    <3> QED
      BY <2>1, <3>2, <3>3 DEF Launch
  <2>2. CASE UNCHANGED launched
    BY <2>2 DEF Spaced
  <2> QED
    BY <2>1, <2>2 DEF BudgetNext, Pass, budgetVars
<1> QED
  BY <1>1, <1>2, BudgetTypeCorrect, PTL DEF BudgetSpec

-----------------------------------------------------------------------------
Window(t) == {x \in launched : t <= x /\ x < t + Day}

\* A restart launched now goes into windows that hold recent restarts only.
LEMMA LaunchFitsWindow ==
  ASSUME BudgetTypeOK, Launch, NEW t \in 0..MaxNow, t <= now, now < t + Day
  PROVE  Cardinality(Window(t)') <= MaxPerDay
<1> DEFINE R == Recent(launched, now)
<1>1. IsFiniteSet(R) /\ Cardinality(R) \in Nat
  BY TimesFinite, FS_CardinalityType DEF Recent
<1>2. now \notin R => Cardinality(R \cup {now}) = Cardinality(R) + 1
  BY <1>1, FS_AddElement
<1>3. Cardinality(R \cup {now}) <= MaxPerDay /\ IsFiniteSet(R \cup {now})
  <2>1. Cardinality(R) < MaxPerDay
    BY DEF Launch, MayLaunch
  <2>2. CASE now \in R
    <3>1. R \cup {now} = R
      BY <2>2
    <3> QED
      BY <1>1, <2>1, <3>1, BudgetAssumption
  <2>3. CASE now \notin R
    <3>1. IsFiniteSet(R \cup {now})
      BY <1>1, FS_AddElement
    <3> HIDE DEF R
    <3> QED
      BY <1>1, <1>2, <2>1, <2>3, <3>1, BudgetAssumption
  <2> QED
    BY <2>2, <2>3
<1>4. Window(t)' \subseteq R \cup {now}
  <2> SUFFICES ASSUME NEW x \in launched', t <= x, x < t + Day
               PROVE  x \in R \cup {now}
    BY DEF Window
  <2>1. x \in launched \cup {now}
    BY DEF Launch
  <2>2. x \in launched => now - x < Day
    BY BudgetAssumption DEF BudgetTypeOK
  <2> QED
    BY <2>1, <2>2 DEF Recent
<1>5. Cardinality(Window(t)') <= Cardinality(R \cup {now})
      /\ Cardinality(Window(t)') \in Nat
  BY <1>3, <1>4, FS_Subset, FS_CardinalityType
<1>6. Cardinality(R \cup {now}) \in Nat
  BY <1>3, FS_CardinalityType
<1> QED
  BY <1>3, <1>5, <1>6, BudgetAssumption

\* No window of a day ever holds more restarts than the limit
\* (KEEP_MAX_PER_DAY).
THEOREM BudgetInBudget == BudgetSpec => []InBudget
<1>1. BudgetInit => InBudget
  <2> SUFFICES ASSUME BudgetInit, NEW t \in 0..MaxNow
               PROVE  Cardinality({x \in launched : t <= x /\ x < t + Day}) <= MaxPerDay
    BY DEF InBudget
  <2>1. {x \in launched : t <= x /\ x < t + Day} = {}
    BY DEF BudgetInit
  <2> QED
    BY <2>1, FS_EmptySet, BudgetAssumption
<1>2. BudgetTypeOK /\ InBudget /\ [BudgetNext]_budgetVars => InBudget'
  <2> SUFFICES ASSUME BudgetTypeOK, InBudget, [BudgetNext]_budgetVars,
                      NEW t \in 0..MaxNow
               PROVE  Cardinality(Window(t)') <= MaxPerDay
    BY DEF InBudget, Window
  <2>1. Cardinality(Window(t)) <= MaxPerDay
    BY DEF InBudget, Window
  <2>2. CASE Launch /\ t <= now /\ now < t + Day
    BY <2>2, LaunchFitsWindow
  <2>3. CASE Launch /\ ~(t <= now /\ now < t + Day)
    <3>1. Window(t)' = Window(t)
      BY <2>3, BudgetAssumption DEF Window, Launch, BudgetTypeOK
    <3> QED
      BY <2>1, <3>1
  <2>4. CASE UNCHANGED launched
    <3>1. Window(t)' = Window(t)
      BY <2>4 DEF Window
    <3> QED
      BY <2>1, <3>1
  <2> QED
    BY <2>2, <2>3, <2>4 DEF BudgetNext, Pass, budgetVars
<1> QED
  BY <1>1, <1>2, BudgetTypeCorrect, PTL DEF BudgetSpec

-----------------------------------------------------------------------------
(***************************************************************************)
(* What decide() returns.                                                  *)
(***************************************************************************)
\* A legal keep.json at time t.
Legal(s, t) == s \in State /\ s.firstBad \in 0..t \cup {None}

LEMMA VerdictFields ==
  ASSUME NEW action, NEW state
  PROVE  Verdict(action, state).action = action /\ Verdict(action, state).state = state
BY DEF Verdict

LEMMA FreshLegal ==
  ASSUME NEW t \in Nat, NEW R \in SUBSET Nat, NEW r \in Recipes \cup {None}
  PROVE  Legal(Fresh(R, r), t) /\ Fresh(R, r).restarts = R
BY DEF Legal, Fresh, State

LEMMA MarkedLegal ==
  ASSUME NEW t \in Nat, NEW s, Legal(s, t), NEW r \in Recipes
  PROVE  /\ Legal(Marked(s, t, r), t)
         /\ Marked(s, t, r).restarts = Pruned(s, t)
<1>1. Pruned(s, t) \in SUBSET Nat
  BY DEF Pruned, Legal, State
<1> DEFINE same == IF s.recipe = r THEN [s EXCEPT !.restarts = Pruned(s, t)]
                   ELSE Fresh(Pruned(s, t), r)
<1>2. Legal(same, t) /\ same.restarts = Pruned(s, t)
  <2>1. CASE s.recipe = r
    BY <1>1, <2>1 DEF Legal, State
  <2>2. CASE s.recipe # r
    BY <1>1, <2>2, FreshLegal
  <2> QED
    BY <2>1, <2>2
<1>3. Marked(s, t, r) = IF same.firstBad = None THEN [same EXCEPT !.firstBad = t]
                        ELSE same
  BY DEF Marked
<1> HIDE DEF same
<1> QED
  BY <1>1, <1>2, <1>3 DEF Legal, State

\* v leaves a legal keep.json with the restarts of the last day, and with the
\* one it asks for, which is then due and in budget.
KeepsRestarts(v, s, t, r) ==
  /\ Legal(v.state, t)
  /\ \/ /\ v.action # "restart"
        /\ v.state.restarts = Pruned(s, t)
     \/ /\ v.action = "restart" /\ r \in Recipes
        /\ v.state.restarts = Pruned(s, t) \cup {t}
        /\ \A x \in Pruned(s, t) : t - x >= Gap
        /\ ~(Cardinality(Pruned(s, t)) >= MaxPerDay)

LEMMA DecideKeepsRestarts ==
  ASSUME NEW t \in Nat, NEW s, Legal(s, t), NEW r \in Recipes \cup {None},
         NEW isUp \in BOOLEAN, NEW busy \in BOOLEAN, NEW lost \in BOOLEAN
  PROVE  KeepsRestarts(Decide(s, t, r, isUp, busy, lost), s, t, r)
<1> DEFINE v == Decide(s, t, r, isUp, busy, lost)
<1> SUFFICES KeepsRestarts(v, s, t, r)
  OBVIOUS
<1> DEFINE kept == [s EXCEPT !.restarts = Pruned(s, t)]
           fine == [kept EXCEPT !.firstBad = None, !.gaveUp = FALSE]
           m    == Marked(s, t, r)
           over == [m EXCEPT !.gaveUp = TRUE]
           new  == [m EXCEPT !.restarts = m.restarts \cup {t}, !.firstBad = t]
<1>1. Pruned(s, t) \in SUBSET Nat
  BY DEF Pruned, Legal, State
<1>2. /\ Legal(kept, t) /\ kept.restarts = Pruned(s, t)
      /\ Legal(fine, t) /\ fine.restarts = Pruned(s, t)
  BY <1>1 DEF Legal, State
<1>3. CASE r = None
  <2>1. v = Verdict("none", Fresh(Pruned(s, t), None))
    BY <1>3 DEF Decide
  <2>2. v.action = "none" /\ v.state = Fresh(Pruned(s, t), r)
    BY <2>1, <1>3, VerdictFields
  <2>3. Legal(v.state, t) /\ v.state.restarts = Pruned(s, t)
    BY <2>2, <1>1, FreshLegal
  <2> QED
    BY <2>2, <2>3 DEF KeepsRestarts
<1>4. CASE r # None /\ busy
  <2>1. v = Verdict("none", kept)
    BY <1>4 DEF Decide
  <2>2. v.action = "none" /\ v.state = kept
    BY <2>1, VerdictFields
  <2> HIDE DEF kept
  <2> QED
    BY <2>2, <1>2 DEF KeepsRestarts
<1>5. CASE r # None /\ ~busy /\ isUp /\ ~lost
  <2>1. v = Verdict("none", fine)
    BY <1>5 DEF Decide
  <2>2. v.action = "none" /\ v.state = fine
    BY <2>1, VerdictFields
  <2> HIDE DEF fine
  <2> QED
    BY <2>2, <1>2 DEF KeepsRestarts
<1>6. CASE r # None /\ ~busy /\ ~(isUp /\ ~lost)
  <2>1. Legal(m, t) /\ m.restarts = Pruned(s, t)
    BY <1>6, MarkedLegal
  <2>2. CASE ~Due(m, t, lost) \/ (Spent(m) /\ m.gaveUp)
    <3>1. v = Verdict("none", m)
      BY <1>6, <2>2 DEF Decide
    <3>2. v.action = "none" /\ v.state = m
      BY <3>1, VerdictFields
    <3> HIDE DEF m
    <3> QED
      BY <3>2, <2>1 DEF KeepsRestarts
  <2>3. CASE Due(m, t, lost) /\ Spent(m) /\ ~m.gaveUp
    <3>1. v = Verdict("giveup", over)
      BY <1>6, <2>3 DEF Decide
    <3>2. v.action = "giveup" /\ v.state = over
      BY <3>1, VerdictFields
    <3> HIDE DEF m
    <3>3. Legal(over, t) /\ over.restarts = Pruned(s, t)
      BY <2>1 DEF Legal, State
    <3> HIDE DEF over
    <3> QED
      BY <3>2, <3>3 DEF KeepsRestarts
  <2>4. CASE Due(m, t, lost) /\ ~Spent(m)
    <3>1. v = Verdict("restart", new)
      BY <1>6, <2>4 DEF Decide
    <3>2. v.action = "restart" /\ v.state = new
      BY <3>1, VerdictFields
    <3> HIDE DEF m
    <3>3. Legal(new, t) /\ new.restarts = Pruned(s, t) \cup {t}
      <4>1. m \in State /\ m.restarts \cup {t} \in SUBSET Nat /\ t \in Nat \cup {None}
        BY <1>1, <2>1 DEF Legal
      <4>2. new \in State /\ new.firstBad = t /\ new.restarts = m.restarts \cup {t}
        BY <4>1 DEF State
      <4> QED
        BY <2>1, <4>2 DEF Legal
    <3>4. /\ \A x \in Pruned(s, t) : t - x >= Gap
          /\ ~(Cardinality(Pruned(s, t)) >= MaxPerDay)
      BY <2>1, <2>4 DEF Due, Spent
    <3> HIDE DEF new
    <3> QED
      BY <3>2, <3>3, <3>4, <1>6 DEF KeepsRestarts
  <2> QED
    BY <2>2, <2>3, <2>4
<1> QED
  BY <1>3, <1>4, <1>5, <1>6

-----------------------------------------------------------------------------
(***************************************************************************)
(* The invariant.  TypeOK alone does not bound the restarts: the limits    *)
(* are measured on keep.json, and Remembered ties it to what was done.     *)
(***************************************************************************)
KInv == TypeOK /\ Remembered

LEMMA KInvInit == Init => KInv
<1> SUFFICES ASSUME Init
             PROVE  KInv
  OBVIOUS
<1>1. now = 0 /\ now \in 0..MaxNow
  BY KeepAssumption, BudgetAssumption DEF Init
<1>2. st \in State /\ st.firstBad = None /\ st.restarts = {}
  BY DEF Init, Fresh, State
<1>3. TypeOK
  BY <1>1, <1>2 DEF Init, TypeOK, Engine
<1>4. Remembered
  BY <1>2 DEF Init, Remembered
<1> QED
  BY <1>3, <1>4 DEF KInv

\* The history of the steps that are not checks.
LEMMA RemembersTyped ==
  ASSUME TypeOK, Remembers, now' \in Nat, now <= now'
  PROVE  badSince' \in 0..now' \cup {None}
BY DEF TypeOK, Remembers

\* A check in the terms of what decide() is known to leave.
LEMMA CheckDecides ==
  ASSUME KInv, NEW seen
  PROVE  KeepsRestarts(Decision(seen), st, now, serving)
<1> DEFINE lost == seen = "lost" /\ ~Busy
<1>1. now \in Nat /\ Legal(st, now)
  BY KeepAssumption, BudgetAssumption DEF KInv, TypeOK, Legal
<1>2. /\ Busy \in BOOLEAN /\ lost \in BOOLEAN /\ serving \in Recipes \cup {None}
      /\ (seen \in {"up", "lost"}) \in BOOLEAN
  BY DEF Busy, KInv, TypeOK
<1>3. Decision(seen) = Decide(st, now, serving, seen \in {"up", "lost"}, Busy, lost)
  BY DEF Decision
<1> HIDE DEF lost
<1> QED
  BY <1>1, <1>2, <1>3, DecideKeepsRestarts

LEMMA KInvCheck == KInv /\ Check => KInv'
<1> SUFFICES ASSUME KInv, NEW seen, Checks(seen)
             PROVE  KInv'
  BY DEF Check
<1> DEFINE v == Decision(seen)
<1>1. now \in Nat /\ launched \subseteq 0..now
  BY KeepAssumption, BudgetAssumption DEF KInv, TypeOK
<1>2. KeepsRestarts(v, st, now, serving)
  BY CheckDecides
<1>3. /\ st' = v.state /\ now' = now
      /\ keepUp' = IF v.action = "restart" THEN serving ELSE None
      /\ launched' = IF v.action = "restart" THEN launched \cup {now} ELSE launched
      /\ said' = IF v.action = "giveup" THEN now ELSE said
      /\ badSince' = IF ~Bad' \/ seen = "up" THEN None
                     ELSE IF badSince = None THEN now ELSE badSince
      /\ UNCHANGED world
  BY DEF Checks
<1> HIDE DEF v
<1>4. TypeOK'
  <2>1. badSince' \in 0..now' \cup {None}
    BY <1>1, <1>3 DEF KInv, TypeOK
  <2>2. launched' \subseteq 0..now'
    BY <1>1, <1>3
  <2>3. keepUp' \in Recipes \cup {None}
    BY <1>2, <1>3 DEF KeepsRestarts
  <2>4. said' \in 0..now' \cup {None}
    BY <1>1, <1>3 DEF KInv, TypeOK
  <2>5. st' \in State /\ st'.firstBad \in 0..now' \cup {None}
    BY <1>2, <1>3 DEF KeepsRestarts, Legal
  <2> QED
    BY <2>1, <2>2, <2>3, <2>4, <2>5, <1>3 DEF KInv, TypeOK, world
<1>5. Remembered'
  <2>1. st.restarts \subseteq launched /\ \A x \in launched \ st.restarts : now - x >= Day
    BY DEF KInv, Remembered
  <2>2. \A x \in launched : x \in Pruned(st, now) \/ now - x >= Day
    BY <1>1, <2>1, BudgetAssumption DEF Pruned
  <2>3. Pruned(st, now) \subseteq launched
    BY <2>1 DEF Pruned
  <2> QED
    BY <1>2, <1>3, <2>2, <2>3 DEF Remembered, KeepsRestarts
<1> QED
  BY <1>4, <1>5 DEF KInv

LEMMA KInvTick == KInv /\ Tick => KInv'
<1> SUFFICES ASSUME KInv, Tick
             PROVE  KInv'
  OBVIOUS
<1>1. now \in Nat /\ now' = now + 1 /\ now' \in 0..MaxNow
  BY KeepAssumption, BudgetAssumption DEF KInv, TypeOK, Tick
<1>2. badSince' \in 0..now' \cup {None}
  BY <1>1, RemembersTyped DEF Tick, KInv
<1>3. UNCHANGED <<serving, engine, cron, userUp, keepUp, st, launched, said>>
  BY DEF Tick, world, history
<1>4. TypeOK'
  <2>1. \A x : x \in 0..now => x \in 0..now'
    BY <1>1
  <2>2. st'.firstBad \in 0..now' \cup {None} /\ said' \in 0..now' \cup {None}
    BY <1>3, <2>1 DEF KInv, TypeOK
  <2>3. launched' \subseteq 0..now'
    BY <1>3, <2>1 DEF KInv, TypeOK
  <2> QED
    BY <1>1, <1>2, <1>3, <2>2, <2>3 DEF KInv, TypeOK
<1>5. Remembered'
  <2>1. \A x \in launched : x \in Nat
    BY DEF KInv, TypeOK
  <2>2. \A x \in launched \ st.restarts : now - x >= Day
    BY DEF KInv, Remembered
  <2>3. \A x \in launched \ st.restarts : now' - x >= Day
    BY <1>1, <2>1, <2>2, BudgetAssumption
  <2> QED
    BY <1>3, <2>3 DEF KInv, Remembered
<1> QED
  BY <1>4, <1>5 DEF KInv

\* Every other step leaves the clock, keep.json and the restarts alone.
OtherStep ==
  \/ \E r \in Recipes : UserUp(r)
  \/ Starts \/ UserUpServes \/ KeepUpServes \/ UserUpStops \/ KeepUpFails
  \/ UserDown \/ UserSwitch \/ EngineMoves

LEMMA OtherStepUnchanged ==
  OtherStep => UNCHANGED <<now, st, launched, said>> /\ Remembers
BY DEF OtherStep, UserUp, Starts, UserUpServes, KeepUpServes, UserUpStops,
       KeepUpFails, UserDown, UserSwitch, EngineMoves, history

LEMMA OtherStepTyped ==
  ASSUME TypeOK, OtherStep
  PROVE  /\ serving' \in Recipes \cup {None} /\ engine' \in Engine /\ cron' \in BOOLEAN
         /\ userUp' \in Recipes \cup {None} /\ keepUp' \in Recipes \cup {None}
<1> USE DEF TypeOK, Engine
<1>1. ASSUME NEW r \in Recipes, UserUp(r)
      PROVE  UNCHANGED <<serving, engine, cron, keepUp>> /\ userUp' = r
  BY <1>1 DEF UserUp
<1>2. CASE Starts
  BY <1>2 DEF Starts
<1>3. CASE UserUpServes \/ KeepUpServes
  BY <1>3 DEF UserUpServes, KeepUpServes
<1>4. CASE UserUpStops \/ KeepUpFails
  BY <1>4 DEF UserUpStops, KeepUpFails
<1>5. CASE UserDown \/ UserSwitch
  BY <1>5 DEF UserDown, UserSwitch
<1>6. CASE EngineMoves
  BY <1>6 DEF EngineMoves
<1> QED
  BY <1>1, <1>2, <1>3, <1>4, <1>5, <1>6 DEF OtherStep

LEMMA KInvOther == KInv /\ OtherStep => KInv'
<1> SUFFICES ASSUME KInv, OtherStep
             PROVE  KInv'
  OBVIOUS
<1>1. UNCHANGED <<now, st, launched, said>> /\ Remembers
  BY OtherStepUnchanged
<1>2. badSince' \in 0..now' \cup {None}
  BY <1>1, RemembersTyped, KeepAssumption, BudgetAssumption DEF KInv, TypeOK
<1>3. TypeOK'
  BY <1>1, <1>2, OtherStepTyped DEF KInv, TypeOK
<1>4. Remembered'
  BY <1>1 DEF KInv, Remembered
<1> QED
  BY <1>3, <1>4 DEF KInv

LEMMA KInvStep == KInv /\ [Next]_vars => KInv'
<1>1. KInv /\ UNCHANGED vars => KInv'
  BY DEF KInv, TypeOK, Remembered, vars
<1>2. Next <=> Check \/ Tick \/ OtherStep
  BY DEF Next, OtherStep
<1> QED
  BY <1>1, <1>2, KInvCheck, KInvTick, KInvOther

LEMMA KInvAlways == Spec => []KInv
BY KInvInit, KInvStep, PTL DEF Spec

\* Types, and nothing in keep.json or the history lies in the future.
THEOREM KeepTypeCorrect == Spec => []TypeOK
<1>1. KInv => TypeOK
  BY DEF KInv
<1> QED
  BY <1>1, KInvAlways, PTL

\* keep.json knows every restart that still counts.
THEOREM KeepRemembers == Spec => []Remembered
<1>1. KInv => Remembered
  BY DEF KInv
<1> QED
  BY <1>1, KInvAlways, PTL

-----------------------------------------------------------------------------
(***************************************************************************)
(* rack keep implements its budget.                                        *)
(***************************************************************************)
\* The restarts decide() counts are all the restarts of the last day.
LEMMA CountsAll ==
  ASSUME KInv
  PROVE  Pruned(st, now) = Recent(launched, now)
<1>1. Pruned(st, now) \subseteq Recent(launched, now)
  BY DEF KInv, Remembered, Pruned, Recent
<1>2. ASSUME NEW x \in launched, now - x < Day
      PROVE  x \in st.restarts
  <2>1. x \in Nat /\ now \in Nat
    BY KeepAssumption, BudgetAssumption DEF KInv, TypeOK
  <2>2. ~(now - x >= Day)
    BY <1>2, <2>1, BudgetAssumption
  <2> QED
    BY <2>2 DEF KInv, Remembered
<1> QED
  BY <1>1, <1>2 DEF Pruned, Recent

LEMMA RecentCounted ==
  ASSUME NEW t \in Nat, launched \subseteq 0..t
  PROVE  Cardinality(Recent(launched, t)) \in Nat
<1>1. IsFiniteSet(0..t)
  BY FS_Interval
<1>2. IsFiniteSet(Recent(launched, t))
  BY <1>1, FS_Subset DEF Recent
<1> QED
  BY <1>2, FS_CardinalityType

LEMMA CheckLaunches ==
  ASSUME KInv, Check, launched' # launched
  PROVE  Launch
<1>0. PICK seen \in Sees(engine) : Checks(seen)
  BY DEF Check
<1> DEFINE v == Decision(seen)
<1>1. now \in Nat /\ launched \subseteq 0..now
  BY KeepAssumption, BudgetAssumption DEF KInv, TypeOK
<1>2. v.action = "restart" /\ launched' = launched \cup {now} /\ now' = now
  BY <1>0 DEF Checks
<1> HIDE DEF v
<1>3. /\ \A x \in Pruned(st, now) : now - x >= Gap
      /\ ~(Cardinality(Pruned(st, now)) >= MaxPerDay)
  BY <1>2, CheckDecides DEF KeepsRestarts, v
\* One that is older than a day is further away than the gap, which is no longer.
<1>4. ASSUME NEW x \in launched
      PROVE  now - x >= Gap
  <2>1. x \in Nat
    BY <1>1
  <2>2. CASE now - x < Day
    BY <1>3, <2>2, CountsAll DEF Recent
  <2>3. CASE ~(now - x < Day)
    BY <1>1, <2>1, <2>3, KeepAssumption, BudgetAssumption
  <2> QED
    BY <2>2, <2>3
<1>5. Cardinality(Recent(launched, now)) < MaxPerDay
  BY <1>1, <1>3, CountsAll, RecentCounted, BudgetAssumption
<1> QED
  BY <1>2, <1>4, <1>5 DEF Launch, MayLaunch

\* The restarts of rack keep are those of a RestartBudget: never closer than
\* the gap, never more than the limit in a day.
THEOREM KeepImplementsBudget == Spec => KeepsBudget
<1>1. Init => BudgetInit
  BY DEF Init, BudgetInit
<1>2. KInv /\ [Next]_vars => [BudgetNext]_(budgetVars)
  <2> SUFFICES ASSUME KInv, [Next]_vars
               PROVE  BudgetNext \/ UNCHANGED <<now, launched>>
    BY DEF budgetVars
  <2>1. CASE Check
    <3>1. now' = now
      BY <2>1 DEF Check, Checks
    <3> QED
      BY <2>1, <3>1, CheckLaunches DEF BudgetNext
  <2>2. CASE Tick
    BY <2>2 DEF Tick, history, BudgetNext, Pass
  <2>3. CASE OtherStep
    BY <2>3, OtherStepUnchanged
  <2>4. CASE UNCHANGED vars
    BY <2>4 DEF vars
  <2> QED
    BY <2>1, <2>2, <2>3, <2>4 DEF Next, OtherStep
<1> QED
  BY <1>1, <1>2, KInvAlways, PTL DEF Spec, KeepsBudget, BudgetSpec

\* So what is proved of the budget holds of rack keep: its restarts are never
\* closer than the gap, and no day, wherever it begins, has more than the limit.
THEOREM KeepSpacedInBudget == Spec => []Spaced /\ []InBudget
BY KeepImplementsBudget, BudgetSpaced, BudgetInBudget, PTL DEF KeepsBudget

-----------------------------------------------------------------------------
(***************************************************************************)
(* rack keep acts.  Its keep.json has counted the grace for the recipe     *)
(* that serves at least since the check that first found the engine bad.   *)
(***************************************************************************)
Counting ==
  Bad /\ badSince # None =>
    /\ st.recipe = serving
    /\ st.firstBad # None /\ st.firstBad <= badSince

LEMMA MarkedCounts ==
  ASSUME NEW t \in Nat, NEW s, Legal(s, t), NEW r \in Recipes
  PROVE  /\ Marked(s, t, r).recipe = r
         /\ Marked(s, t, r).firstBad \in 0..t
         /\ s.recipe = r /\ s.firstBad # None => Marked(s, t, r).firstBad = s.firstBad
<1> DEFINE same == IF s.recipe = r THEN [s EXCEPT !.restarts = Pruned(s, t)]
                   ELSE Fresh(Pruned(s, t), r)
<1>1. Marked(s, t, r) = IF same.firstBad = None THEN [same EXCEPT !.firstBad = t]
                        ELSE same
  BY DEF Marked
<1>2. /\ same \in [restarts : SUBSET Nat, recipe : Recipes \cup {None},
                   firstBad : Nat \cup {None}, gaveUp : BOOLEAN]
      /\ same.recipe = r /\ same.firstBad \in 0..t \cup {None}
      /\ s.recipe = r => same.firstBad = s.firstBad
  <2>1. Pruned(s, t) \in SUBSET Nat
    BY DEF Pruned, Legal, State
  <2>2. CASE s.recipe = r
    BY <2>1, <2>2 DEF Legal, State
  <2>3. CASE s.recipe # r
    BY <2>1, <2>3 DEF Fresh
  <2> QED
    BY <2>2, <2>3
<1> HIDE DEF same
<1> QED
  BY <1>1, <1>2

\* v counts from s's time if s counted for the recipe already.
KeepsCounting(v, s, t, r) ==
  /\ v.state.recipe = r /\ v.state.firstBad \in 0..t
  /\ s.recipe = r /\ s.firstBad # None => v.state.firstBad = s.firstBad

\* Of a bad engine decide() keeps, or starts to keep, since when it is bad.
LEMMA DecideCounts ==
  ASSUME NEW t \in Nat, NEW s, Legal(s, t), NEW r \in Recipes,
         NEW isUp \in BOOLEAN, NEW lost \in BOOLEAN, ~(isUp /\ ~lost),
         Decide(s, t, r, isUp, FALSE, lost).action # "restart"
  PROVE  KeepsCounting(Decide(s, t, r, isUp, FALSE, lost), s, t, r)
<1> DEFINE m    == Marked(s, t, r)
           over == [m EXCEPT !.gaveUp = TRUE]
           v    == Decide(s, t, r, isUp, FALSE, lost)
<1>1. Legal(m, t)
  BY MarkedLegal
<1>2. r # None /\ v.action # "restart"
  BY KeepAssumption
<1>3. \/ v = Verdict("none", m) \/ v = Verdict("giveup", over)
      \/ v = Verdict("restart", [m EXCEPT !.restarts = m.restarts \cup {t}, !.firstBad = t])
  BY <1>2 DEF Decide
<1>4. /\ m.recipe = r /\ m.firstBad \in 0..t
      /\ s.recipe = r /\ s.firstBad # None => m.firstBad = s.firstBad
  BY MarkedCounts
<1> HIDE DEF m
<1>5. over.recipe = m.recipe /\ over.firstBad = m.firstBad
  BY <1>1 DEF Legal, State
<1> HIDE DEF over, v
<1>6. v.state = m \/ v.state = over
  BY <1>2, <1>3, VerdictFields
<1>7. KeepsCounting(v, s, t, r)
  BY <1>4, <1>5, <1>6 DEF KeepsCounting
<1> QED
  BY <1>7 DEF v

\* With no command running a check asks for the engine and its shares only.
LEMMA DecisionIdle ==
  ASSUME ~Busy, NEW seen
  PROVE  Decision(seen) = Decide(st, now, serving, seen \in {"up", "lost"}, FALSE,
                                 seen = "lost")
<1>1. Busy = FALSE
  BY DEF Busy
<1>2. (seen = "lost" /\ ~Busy) = (seen = "lost")
  OBVIOUS
<1> QED
  BY ONLY <1>1, <1>2, Zenon DEF Decision

LEMMA CountingCheck == KInv /\ Counting /\ Check => Counting'
<1> SUFFICES ASSUME KInv, Counting, NEW seen, Checks(seen), Bad', badSince' # None
             PROVE  /\ st'.recipe = serving'
                    /\ st'.firstBad # None /\ st'.firstBad <= badSince'
  BY DEF Counting, Check
<1> DEFINE lost == seen = "lost"
           isUp == seen \in {"up", "lost"}
<1>1. /\ UNCHANGED <<now, serving, engine, cron, userUp>> /\ keepUp = None
      /\ st' = Decision(seen).state
      /\ keepUp' = IF Decision(seen).action = "restart" THEN serving ELSE None
      /\ badSince' = IF badSince = None THEN now ELSE badSince
      /\ seen # "up"
  BY DEF Checks, world
<1>2. Bad /\ ~Busy /\ serving \in Recipes
  BY <1>1 DEF Bad, Busy, KInv, TypeOK
<1>3. Decision(seen).action # "restart"
  BY <1>1, <1>2, KeepAssumption DEF Bad, Busy
<1>4. Decision(seen) = Decide(st, now, serving, isUp, FALSE, lost)
  BY <1>2, DecisionIdle
<1>5. /\ now \in Nat /\ Legal(st, now) /\ isUp \in BOOLEAN /\ lost \in BOOLEAN
      /\ ~(isUp /\ ~lost) /\ badSince \in 0..now \cup {None}
  BY <1>1, <1>2, BudgetAssumption DEF KInv, TypeOK, Legal, Bad
<1> HIDE DEF lost, isUp
<1>6. KeepsCounting(Decision(seen), st, now, serving)
  BY <1>2, <1>3, <1>4, <1>5, DecideCounts
<1>7. CASE badSince = None
  BY <1>1, <1>6, <1>7, KeepAssumption, <1>5 DEF KeepsCounting
<1>8. CASE badSince # None
  BY <1>1, <1>2, <1>6, <1>8 DEF Counting, KeepsCounting
<1> QED
  BY <1>7, <1>8

\* Nothing else keeps an engine bad and undisturbed while it changes what is
\* recorded as serving or what keep.json says of it.
LEMMA CountingOther == Counting /\ (Tick \/ OtherStep) => Counting'
<1> SUFFICES ASSUME Counting, Tick \/ OtherStep, Bad', badSince' # None
             PROVE  /\ st'.recipe = serving'
                    /\ st'.firstBad # None /\ st'.firstBad <= badSince'
  BY DEF Counting
<1>1. Remembers /\ st' = st
  BY OtherStepUnchanged DEF Tick
<1>2. Bad /\ badSince' = badSince
  BY <1>1 DEF Remembers
<1>3. serving' = serving
  <2>1. CASE Tick
    BY <2>1 DEF Tick, world
  <2>2. CASE UserUpServes \/ KeepUpServes
    BY <1>2, <2>2 DEF UserUpServes, KeepUpServes, Bad, Busy
  <2>3. CASE UserDown
    BY <2>3 DEF UserDown, Bad
  <2>4. CASE \/ \E r \in Recipes : UserUp(r)
             \/ Starts \/ UserUpStops \/ KeepUpFails \/ UserSwitch \/ EngineMoves
    BY <2>4 DEF UserUp, Starts, UserUpStops, KeepUpFails, UserSwitch, EngineMoves
  <2> QED
    BY <2>1, <2>2, <2>3, <2>4 DEF OtherStep
<1> QED
  BY <1>1, <1>2, <1>3 DEF Counting

LEMMA CountingAlways == Spec => []Counting
<1>1. Init => Counting
  BY DEF Init, Counting
<1>2. KInv /\ Counting /\ [Next]_vars => Counting'
  <2>1. Counting /\ UNCHANGED vars => Counting'
    BY DEF Counting, Bad, Busy, vars
  <2> QED
    BY <2>1, CountingCheck, CountingOther DEF Next, OtherStep
<1> QED
  BY <1>1, <1>2, KInvAlways, PTL DEF Spec

\* A check that finds the recorded engine still bad when its grace is over,
\* with budget left, runs rack up again.
THEOREM KeepPrompt == Spec => []Prompt
<1>1. KInv /\ Counting => Prompt
  <2> SUFFICES ASSUME KInv, Counting, StillBad, MayLaunch
               PROVE  Decision(engine).action = "restart"
    BY DEF Prompt
  <2> DEFINE lost == engine = "lost"
             isUp == engine \in {"up", "lost"}
             m    == Marked(st, now, serving)
  <2>1. /\ ~Busy /\ serving \in Recipes /\ serving # None /\ ~(isUp /\ ~lost)
        /\ now \in Nat /\ Legal(st, now) /\ launched \subseteq 0..now
        /\ badSince \in 0..now
    BY BudgetAssumption DEF StillBad, Bad, KInv, TypeOK, Legal
  <2>2. Decision(engine) = Decide(st, now, serving, isUp, FALSE, lost)
    BY <2>1, DecisionIdle
  <2>3. m.restarts = Pruned(st, now) /\ m.firstBad = st.firstBad
    BY <2>1, MarkedLegal, MarkedCounts DEF Counting, StillBad
  <2>4. st.firstBad \in 0..now /\ st.firstBad <= badSince
    BY DEF Counting, StillBad, KInv, TypeOK
  <2>5. ~Spent(m)
    BY <2>1, <2>3, CountsAll, RecentCounted, BudgetAssumption DEF Spent, MayLaunch
  <2>6. Due(m, now, lost)
    <3>1. \A x \in m.restarts : now - x >= Gap
      BY <2>3, CountsAll DEF MayLaunch, Recent
    <3>2. now - st.firstBad >= (IF lost THEN LostGrace ELSE Grace)
      BY <2>1, <2>4, KeepAssumption DEF StillBad, GraceOver
    <3> QED
      BY <2>3, <3>1, <3>2 DEF Due
  <2> HIDE DEF lost, isUp
  <2>7. Decision(engine) = Verdict("restart",
                     [m EXCEPT !.restarts = m.restarts \cup {now}, !.firstBad = now])
    BY <2>1, <2>2, <2>5, <2>6 DEF Decide
  <2> QED
    BY <2>7, VerdictFields
<1> QED
  BY <1>1, KInvAlways, CountingAlways, PTL
=============================================================================
