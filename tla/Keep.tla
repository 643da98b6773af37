-------------------------------- MODULE Keep --------------------------------
(***************************************************************************)
(* rack keep (py/keep.py): cron runs a check every two minutes; a check    *)
(* that finds the recorded engine dead long enough runs rack up again and  *)
(* waits for it, holding its lock.  What it remembers from one check to    *)
(* the next is keep.json.  Around it a person serves, stops and detaches,  *)
(* and the engine loads, answers, dies or loses a share.                   *)
(*                                                                         *)
(* One unit of time is the period of the checks; a check may also be       *)
(* missed, or run by hand.  The clock and the restarts made so far are     *)
(* those of RestartBudget, which this module implements.                   *)
(***************************************************************************)
EXTENDS RestartBudget

CONSTANTS
  Recipes, None,
  Grace,      \* how long it may not answer before it is served again
  LostGrace   \* the same for an engine that answers with a share lost

ASSUME KeepAssumption ==
  /\ None \notin Recipes \cup Int
  /\ Grace \in Nat /\ LostGrace \in Nat
  /\ Gap <= Day   \* keep.json remembers a day

VARIABLES
  serving,   \* the recipe serving.json names, or None
  engine,    \* what its /health and its shares say
  cron,      \* keep's line is in the crontab
  userUp,    \* the recipe a person's rack up is serving, or None
  keepUp,    \* the recipe the check's own rack up is serving, or None
  st,        \* keep.json
  said,      \* history: when it last said that it gives up, or None
  badSince   \* history: the check that first found it bad, undisturbed since, or None

world   == <<serving, engine, cron, userUp>>
history == <<launched, said>>
vars    == <<now, serving, engine, cron, userUp, keepUp, st,
             launched, said, badSince>>

\* up: answers, every share there; lost: answers, a cluster's share is gone;
\* loading: started and does not answer yet.
Engine == {"dead", "loading", "up", "lost"}

\* keep.json; gave_up's time is only ever tested for being there.
State == [restarts : SUBSET Nat, recipe : Recipes \cup {None},
          firstBad : Nat \cup {None}, gaveUp : BOOLEAN]

Fresh(restarts, recipe) ==
  [restarts |-> restarts, recipe |-> recipe, firstBad |-> None, gaveUp |-> FALSE]

Busy == userUp # None \/ keepUp # None

-----------------------------------------------------------------------------
(***************************************************************************)
(* decide(): a pure function of keep.json, the time and what was asked.    *)
(***************************************************************************)
\* Mutant of Pruned: the restarts of the last gap only.
PrunedToGap(s, t) == {x \in s.restarts : t - x <= Gap}

Pruned(s, t) == {x \in s.restarts : t - x < Day}

\* Mutants of Marked: every check starts the grace again; it keeps when the
\* grace ends in place of when it began.
MarkedAnew(s, t, recipe) ==
  [s EXCEPT !.restarts = Pruned(s, t), !.recipe = recipe, !.firstBad = t]
MarkedDeadline(s, t, recipe) ==
  IF s.recipe = recipe /\ s.firstBad # None
    THEN [s EXCEPT !.restarts = Pruned(s, t)]
    ELSE [Fresh(Pruned(s, t), recipe) EXCEPT !.firstBad = t + Grace]

\* What a bad engine leaves in keep.json: the recipe and since when.
Marked(s, t, recipe) ==
  LET same == IF s.recipe = recipe THEN [s EXCEPT !.restarts = Pruned(s, t)]
              ELSE Fresh(Pruned(s, t), recipe)
  IN IF same.firstBad = None THEN [same EXCEPT !.firstBad = t] ELSE same

\* Mutants of Due and Spent: no gap is kept; one restart more than the limit.
DueNoGap(m, t, lost) == t - m.firstBad >= (IF lost THEN LostGrace ELSE Grace)
SpentOneMore(m) == Cardinality(m.restarts) > MaxPerDay

\* m is Marked at t: the grace is over and the last restart is far enough.
Due(m, t, lost) ==
  /\ t - m.firstBad >= (IF lost THEN LostGrace ELSE Grace)
  /\ \A x \in m.restarts : t - x >= Gap

Spent(m) == Cardinality(m.restarts) >= MaxPerDay

Verdict(action, state) == [action |-> action, state |-> state]

\* Mutant of Decide: rack down clears keep.json.
DecideDownForgets(s, t, recipe, isUp, busy, lost) ==
  LET kept == [s EXCEPT !.restarts = Pruned(s, t)]
      m    == Marked(s, t, recipe)
  IN CASE recipe = None ->
            Verdict("none", Fresh({}, None))
       [] recipe # None /\ (busy \/ (isUp /\ ~lost)) ->
            Verdict("none", kept)
       [] OTHER ->
            IF ~Due(m, t, lost) \/ Spent(m) THEN Verdict("none", m)
            ELSE Verdict("restart",
                   [m EXCEPT !.restarts = m.restarts \cup {t}, !.firstBad = t])

Decide(s, t, recipe, isUp, busy, lost) ==
  LET kept == [s EXCEPT !.restarts = Pruned(s, t)]
      m    == Marked(s, t, recipe)
  IN CASE recipe = None ->
            Verdict("none", Fresh(Pruned(s, t), None))
       [] recipe # None /\ busy ->
            Verdict("none", kept)
       [] recipe # None /\ ~busy /\ isUp /\ ~lost ->
            Verdict("none", [kept EXCEPT !.firstBad = None, !.gaveUp = FALSE])
       [] OTHER ->
            IF ~Due(m, t, lost) \/ (Spent(m) /\ m.gaveUp) THEN Verdict("none", m)
            ELSE IF Spent(m) THEN Verdict("giveup", [m EXCEPT !.gaveUp = TRUE])
            ELSE Verdict("restart",
                   [m EXCEPT !.restarts = m.restarts \cup {t}, !.firstBad = t])

-----------------------------------------------------------------------------
(***************************************************************************)
(* The checks, the commands and the engine.                                *)
(***************************************************************************)
\* A recorded engine is not what it should be and nothing is being done.
Bad == serving # None /\ cron /\ ~Busy /\ engine # "up"

\* It is forgotten as soon as it is not bad, something is being done, or a
\* check finds it good.
Remembers == badSince' = IF Bad /\ Bad' THEN badSince ELSE None

\* What a check may see of an engine: a share on a node that cannot be asked
\* is not counted lost.
Sees(e) == IF e = "lost" THEN {"lost", "up"} ELSE {e}

\* What a check that sees seen decides; shares are asked for when nothing runs.
Decision(seen) ==
  LET lost == seen = "lost" /\ ~Busy
  IN Decide(st, now, serving, seen \in {"up", "lost"}, Busy, lost)

\* check(): cron runs it, or a person does (rack keep); the lock lets one run.
Checks(seen) ==
  /\ keepUp = None
  /\ LET v == Decision(seen)
     IN /\ st' = v.state
        /\ keepUp'   = IF v.action = "restart" THEN serving ELSE None
        /\ launched' = IF v.action = "restart" THEN launched \cup {now} ELSE launched
        /\ said'     = IF v.action = "giveup" THEN now ELSE said
  /\ UNCHANGED <<now, world>>
  /\ badSince' = IF ~Bad' \/ seen = "up" THEN None
                 ELSE IF badSince = None THEN now ELSE badSince

Check == \E seen \in Sees(engine) : Checks(seen)

Tick ==
  /\ now < MaxNow
  /\ now' = now + 1
  /\ UNCHANGED <<world, keepUp, st, history>>
  /\ Remembers

UserUp(r) ==
  /\ userUp = None /\ userUp' = r
  /\ UNCHANGED <<now, serving, engine, cron, keepUp, st, history>>
  /\ Remembers

\* A running rack up has stopped what was there and started its engine.
Starts ==
  /\ Busy
  /\ engine' = "loading"
  /\ UNCHANGED <<now, serving, cron, userUp, keepUp, st, history>>
  /\ Remembers

\* rack up saw an answer: it records the recipe, and turns keep on.
UserUpServes ==
  /\ userUp # None /\ engine = "up"
  /\ serving' = userUp /\ userUp' = None /\ cron' = TRUE
  /\ UNCHANGED <<now, engine, keepUp, st, history>>
  /\ Remembers

KeepUpServes ==
  /\ keepUp # None /\ engine = "up"
  /\ serving' = keepUp /\ keepUp' = None /\ cron' = TRUE
  /\ UNCHANGED <<now, engine, userUp, st, history>>
  /\ Remembers

\* rack up failed, with its engine loading on or gone, or the person detached
\* (Ctrl-C), which turns keep on and records nothing.
UserUpStops ==
  /\ userUp # None /\ userUp' = None
  /\ engine' \in {engine, "dead"}
  /\ cron' \in {cron, TRUE}
  /\ UNCHANGED <<now, serving, keepUp, st, history>>
  /\ Remembers

KeepUpFails ==
  /\ keepUp # None /\ keepUp' = None
  /\ engine' \in {engine, "dead"}
  /\ UNCHANGED <<now, serving, cron, userUp, st, history>>
  /\ Remembers

UserDown ==
  /\ userUp = None
  /\ serving' = None /\ engine' = "dead" /\ cron' = FALSE
  /\ UNCHANGED <<now, userUp, keepUp, st, history>>
  /\ Remembers

\* rack keep on, rack keep off.
UserSwitch ==
  /\ cron' = ~cron
  /\ UNCHANGED <<now, serving, engine, userUp, keepUp, st, history>>
  /\ Remembers

\* The engine by itself: it comes up, dies, loses a share, or is restarted
\* where it runs (Docker, systemd).
EngineMoves ==
  /\ \/ engine = "loading" /\ engine' \in {"up", "dead"}
     \/ engine = "up"      /\ engine' \in {"dead", "loading", "lost"}
     \/ engine = "lost"    /\ engine' = "dead"
  /\ UNCHANGED <<now, serving, cron, userUp, keepUp, st, history>>
  /\ Remembers

Init ==
  /\ now = 0 /\ serving = None /\ engine = "dead" /\ cron = FALSE
  /\ userUp = None /\ keepUp = None
  /\ st = Fresh({}, None)
  /\ launched = {} /\ said = None /\ badSince = None

Next ==
  \/ Check \/ Tick
  \/ \E r \in Recipes : UserUp(r)
  \/ Starts \/ UserUpServes \/ KeepUpServes \/ UserUpStops \/ KeepUpFails
  \/ UserDown \/ UserSwitch \/ EngineMoves

Spec == Init /\ [][Next]_vars

-----------------------------------------------------------------------------
(***************************************************************************)
(* Properties.                                                             *)
(***************************************************************************)
\* Types; and neither keep.json nor the history lies in the future.
TypeOK ==
  /\ now \in 0..MaxNow
  /\ serving \in Recipes \cup {None} /\ engine \in Engine
  /\ cron \in BOOLEAN
  /\ userUp \in Recipes \cup {None} /\ keepUp \in Recipes \cup {None}
  /\ st \in State /\ st.firstBad \in 0..now \cup {None}
  /\ launched \subseteq 0..now
  /\ said \in 0..now \cup {None}
  /\ badSince \in 0..now \cup {None}

\* keep.json knows every restart that still counts, whatever cleared, pruned
\* or replaced it since: what a restart is decided on is what was done.
Remembered ==
  /\ st.restarts \subseteq launched
  /\ \A x \in launched \ st.restarts : now - x >= Day

\* "At most once per KEEP_GAP_MIN (30) and KEEP_MAX_PER_DAY (3) times a day":
\* whatever keep.json went through, rack keep's restarts are those of a
\* RestartBudget (its Spaced and InBudget are checked here too).
KeepsBudget == BudgetSpec

GraceOver == now - badSince >= (IF engine = "lost" THEN LostGrace ELSE Grace)

\* A dead engine is served again: a check that finds the recorded engine still
\* bad when the grace since the check that first found it so is over, with
\* nothing done about it meanwhile, no check that missed it (a lost share on a
\* node that cannot be asked) and budget left, restarts it.
StillBad == Bad /\ badSince # None /\ GraceOver

Prompt == StillBad /\ MayLaunch => Decision(engine).action = "restart"

\* "... then it stops trying and says so": a check that finds the engine still
\* bad and no restart left in the day says that it gives up, or rack keep has
\* said so since its last restart.
SaysSo ==
  /\ StillBad
  /\ \A x \in launched : now - x >= Gap
  /\ Cardinality(Recent(launched, now)) >= MaxPerDay
  => \/ Decision(engine).action = "giveup"
     \/ said # None /\ \A x \in launched : x <= said
=============================================================================
