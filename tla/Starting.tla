------------------------------ MODULE Starting ------------------------------
(***************************************************************************)
(* starting.json (py/serve.py, class Starting): while a rack up works it   *)
(* says loading, with a heartbeat; then it is gone, or says failed.  The   *)
(* heartbeat is a thread of the same process, and both threads write       *)
(* through the same .tmp, starting.json.<pid>.tmp: open, which empties it, *)
(* the text when it is closed, and a rename.  A command's own work is one  *)
(* step here (it is module Serve); after it, and before rack down's, comes *)
(* what the rack script does on the site's gateway (module Gateway).       *)
(***************************************************************************)
EXTENDS Rack

CONSTANTS
  Every,       \* Starting.EVERY
  Late,        \* how late a heartbeat may come on a loaded machine
  StaleAfter,  \* STARTING_STALE_S
  KeptFor      \* STARTING_KEPT_S

ASSUME StartingAssumption ==
  /\ Every \in Nat \ {0} /\ Late \in Nat
  /\ StaleAfter \in Nat /\ Every + Late <= StaleAfter
  /\ KeptFor \in Nat /\ StaleAfter <= KeptFor

VARIABLES
  starting,  \* starting.json: a text, or None
  tmp,       \* each command's .tmp
  cmd,       \* the rack up or rack down of each terminal
  thr,       \* the two threads of a rack up that may be writing
  last       \* history: how the last command ended, if it was alone and its
             \* heartbeat was not writing

Texts   == [state : {"loading", "failed"}, recipe : Recipes, at : Nat]
Empty   == [state |-> "empty"]          \* opened, and nothing written yet
Torn    == [state |-> "torn"]           \* one text over the end of another
File    == Texts \cup {Empty, Torn, None}

ASSUME FilesAssumption == None \notin Texts \cup {Empty, Torn}

Command == [
  pc     : {"idle", "first", "work", "recorded", "fail", "exit", "sync", "unroute", "down"},
  recipe : Recipes \cup {None},
  failed : BOOLEAN,                     \* self.rec's state
  beat   : Nat,                         \* when the heartbeat's wait began
  alone  : BOOLEAN]                     \* history: no other command beside it, so far

Threads == {"main", "beat"}
Writer  == [pc : {"out", "open", "closed"}, text : Texts \cup {None},
            onto : {"tmp", "file", "gone", None}]   \* where the file it has open is by now

Idle    == [pc |-> "idle", recipe |-> None, failed |-> FALSE, beat |-> 0, alone |-> FALSE]
Out     == [pc |-> "out", text |-> None, onto |-> None]

startingVars == <<starting, tmp, cmd, thr, last>>

At(t, pc) == cmd[t].pc = pc
Goes(t, pc) == cmd' = [cmd EXCEPT ![t].pc = pc]

\* Starting.write: rec with the time, into the .tmp.
Opens(t, x, failed) ==
  /\ tmp' = [tmp EXCEPT ![t] = Empty]
  /\ thr' = [thr EXCEPT ![t][x] =
       [pc |-> "open", onto |-> "tmp",
        text |-> [state |-> IF failed THEN "failed" ELSE "loading", recipe |-> cmd'[t].recipe, at |-> now]]]

\* A text over another: a shorter one leaves the other's end.
Over(old, new) == IF old \in Texts /\ old.state = "failed" /\ new.state = "loading" THEN Torn ELSE new

Flush(t, x) ==
  /\ thr[t][x].pc = "open"
  /\ LET w == thr[t][x]
     IN /\ tmp' = IF w.onto = "tmp" THEN [tmp EXCEPT ![t] = Over(tmp[t], w.text)] ELSE tmp
        /\ starting' = IF w.onto = "file" THEN Over(starting, w.text) ELSE starting
  /\ thr' = [thr EXCEPT ![t][x].pc = "closed"]
  /\ UNCHANGED <<cmd, last, shared>>

\* What becomes of the files that are open when t's .tmp takes the place of
\* starting.json, or nothing does.
Moved(t, renamed) ==
  [u \in Terminals |-> [x \in Threads |->
    [thr[u][x] EXCEPT !.onto =
       IF thr[u][x].onto = "file" THEN "gone"
       ELSE IF renamed /\ u = t /\ thr[u][x].onto = "tmp" THEN "file" ELSE thr[u][x].onto]]]

\* os.replace: whatever is in the .tmp by now; without one, nothing (OSError).
\* The first write is followed by the heartbeat's thread, the last by the exit.
Replace(t, x) ==
  /\ thr[t][x].pc = "closed"
  /\ LET there == tmp[t] # None
     IN /\ starting' = IF there THEN tmp[t] ELSE starting
        /\ tmp' = [tmp EXCEPT ![t] = None]
        /\ thr' = [IF there THEN Moved(t, TRUE) ELSE thr EXCEPT ![t][x] = Out]
  /\ cmd' = [cmd EXCEPT ![t].pc = CASE x = "main" /\ cmd[t].pc = "first" -> "work"
                                    [] x = "main" /\ cmd[t].pc = "fail" -> "exit"
                                    [] OTHER -> cmd[t].pc,
                        ![t].beat = now]
  /\ UNCHANGED <<last, shared>>

Running(t) == ~At(t, "idle")
Begins(t, rec) ==
  cmd' = [u \in Terminals |->
            IF u = t THEN [rec EXCEPT !.alone = \A v \in Terminals : ~Running(v)]
            ELSE [cmd[u] EXCEPT !.alone = FALSE]]

Ends(t, how) ==
  last' = IF cmd[t].alone /\ thr[t]["beat"].pc = "out" THEN [how |-> how, recipe |-> cmd[t].recipe] ELSE None

-----------------------------------------------------------------------------
(***************************************************************************)
(* rack up.                                                                *)
(***************************************************************************)
Up(t, c) ==
  /\ At(t, "idle") /\ Spends("ups")
  /\ Begins(t, [Idle EXCEPT !.pc = "first", !.recipe = c])
  /\ Opens(t, "main", FALSE)
  /\ last' = None
  /\ UNCHANGED <<starting, recipe, now>>

\* Mutant of Beat: done() and failed() do not stop it.
BeatOn(t) ==
  /\ cmd[t].pc \in {"work", "recorded", "exit"}
  /\ thr[t]["beat"].pc = "out" /\ now - cmd[t].beat >= Every
  /\ UNCHANGED <<cmd, last>>
  /\ Opens(t, "beat", cmd[t].failed)
  /\ UNCHANGED <<starting, shared>>

\* Starting.beat: while it is not stopped, every EVERY seconds.
Beat(t) ==
  /\ cmd[t].pc \in {"work", "recorded"}
  /\ thr[t]["beat"].pc = "out" /\ now - cmd[t].beat >= Every
  /\ UNCHANGED <<cmd, last>>
  /\ Opens(t, "beat", cmd[t].failed)
  /\ UNCHANGED <<starting, shared>>

\* do_record, the last step of every plan.
Records(t) ==
  /\ At(t, "work")
  /\ recipe' = cmd[t].recipe
  /\ Goes(t, "recorded")
  /\ UNCHANGED <<starting, tmp, thr, last, now, budget>>

\* done(): the heartbeat is stopped, which does not wait for a write of its
\* that has begun, and the file removed.
Done(t) ==
  /\ At(t, "recorded")
  /\ starting' = None
  /\ thr' = Moved(t, FALSE)
  /\ Goes(t, "exit")
  /\ Ends(t, "served")
  /\ UNCHANGED <<tmp, shared>>

\* failed().
Fails(t) ==
  /\ At(t, "work")
  /\ cmd' = [cmd EXCEPT ![t].pc = "fail", ![t].failed = TRUE]
  /\ Opens(t, "main", TRUE)
  /\ Ends(t, "failed")
  /\ UNCHANGED <<starting, shared>>

\* Ctrl-C leaves the file as it is, and the engine loading; the process ends
\* well, so the script goes on.
Detaches(t) ==
  /\ At(t, "work")
  /\ Goes(t, "exit")
  /\ UNCHANGED <<starting, tmp, thr, last, shared>>

\* The process ends, wherever its heartbeat is.  One that has not failed is
\* followed by the sync of the gateway.
Gone(t) == thr' = [thr EXCEPT ![t] = [x \in Threads |-> Out]] /\ tmp' = [tmp EXCEPT ![t] = None]

Exit(t) ==
  /\ At(t, "exit")
  /\ Gone(t)
  /\ cmd' = IF cmd[t].failed THEN [cmd EXCEPT ![t] = Idle] ELSE [cmd EXCEPT ![t].pc = "sync"]
  /\ UNCHANGED <<starting, last, shared>>

Killed(t) ==
  /\ cmd[t].pc \in {"first", "work", "recorded", "fail"}
  /\ Gone(t)
  /\ Spends("kills")
  /\ cmd' = [cmd EXCEPT ![t] = Idle]
  /\ last' = None
  /\ UNCHANGED <<starting, recipe, now>>

-----------------------------------------------------------------------------
(***************************************************************************)
(* rack down, and what the monitor makes of the file.                      *)
(***************************************************************************)
Down(t) ==
  /\ At(t, "idle") /\ Spends("downs")
  /\ Begins(t, [Idle EXCEPT !.pc = "unroute"])
  /\ last' = None
  /\ UNCHANGED <<starting, tmp, thr, recipe, now>>

\* plan_down's last step: the record goes.
Removes(t) ==
  /\ At(t, "down")
  /\ recipe' = None
  /\ cmd' = [cmd EXCEPT ![t] = Idle]
  /\ UNCHANGED <<starting, tmp, thr, last, now, budget>>

\* Mutant of ReadStarting: stale once a heartbeat is late.
ReadStartingHasty(m) ==
  IF starting \notin Texts THEN None
  ELSE [state |-> IF starting.state = "loading" /\ m - starting.at > Every THEN "interrupted" ELSE starting.state,
        recipe |-> starting.recipe]

\* read_starting (monitor/rackmon.py), at time m.
ReadStarting(m) ==
  IF starting \notin Texts THEN None
  ELSE LET old   == m - starting.at
           state == IF starting.state = "loading" /\ old > StaleAfter THEN "interrupted" ELSE starting.state
       IN IF state # "loading" /\ old > KeptFor THEN None
          ELSE [state |-> state, recipe |-> starting.recipe]

\* Time passes; a heartbeat is Late at most, and a write takes no time.
Beats == \A t \in Terminals :
  /\ cmd[t].pc \in {"work", "recorded"} => now - cmd[t].beat < Every + Late
  /\ \A x \in Threads : thr[t][x].pc = "out"

StartingInit ==
  /\ starting = None /\ last = None
  /\ tmp = [t \in Terminals |-> None]
  /\ cmd = [t \in Terminals |-> Idle]
  /\ thr = [t \in Terminals |-> [x \in Threads |-> Out]]

UpStep(t) ==
  \/ Beat(t) \/ Done(t) \/ Fails(t) \/ Detaches(t) \/ Exit(t) \/ Killed(t)
  \/ \E x \in Threads : Flush(t, x) \/ Replace(t, x)

-----------------------------------------------------------------------------
\* starting.json, each .tmp, the commands and their threads have their types.
StartingTypeOK ==
  /\ starting \in File
  /\ tmp \in [Terminals -> File]
  /\ cmd \in [Terminals -> Command]
  /\ thr \in [Terminals -> [Threads -> Writer]]
  /\ last \in [how : {"served", "failed"}, recipe : Recipes] \cup {None}

\* Whenever anybody reads it while a rack up works, and no other command has
\* come between, starting.json says loading, and that recipe: the heartbeat
\* keeps ahead of STARTING_STALE_S, and its write never lets the file be
\* seen missing or half written (Starting.beat, write, read_starting).
LoadingShown ==
  \A t \in Terminals :
    cmd[t].pc \in {"work", "recorded"} /\ cmd[t].alone =>
      ReadStarting(now) = [state |-> "loading", recipe |-> cmd[t].recipe]

\* After it, until the next command, the file is gone, or says failed with
\* that recipe: unless a heartbeat was being written at the end, whose rename
\* may still come (Starting.done, failed).
EndShown ==
  last # None /\ (\A t \in Terminals : cmd[t].pc \notin {"first", "work", "recorded", "fail"}) =>
    IF last.how = "served" THEN starting = None
    ELSE starting \in Texts /\ starting.state = "failed" /\ starting.recipe = last.recipe
=============================================================================
