------------------------------- MODULE Serve -------------------------------
(***************************************************************************)
(* rack up, rack down and rack keep over one rack: py/serve.py plans a     *)
(* list of steps and runs them one at a time; nothing locks the rack, so   *)
(* every step of one command may interleave with the steps of another,     *)
(* with an engine that loads, answers or dies, and with a reboot.          *)
(*                                                                         *)
(* A running command is a `job`, what it read when it planned, and `pc`,   *)
(* the step it is at.  Its plan is a function of the job, as p["steps"] is *)
(* fixed once plan_up or plan_down returns.  When rack keep acts is left   *)
(* to module Keep; here it may act whenever its checks allow it.           *)
(***************************************************************************)
EXTENDS Integers, Sequences, FiniteSets

CONSTANTS
  Recipes,    \* the recipes of the site
  Runtime,    \* [Recipes -> Runtimes]: what plan_up chooses for a recipe
  Span,       \* [Recipes -> 1..Len(NodeSeq)]: nodes_needed, 1 is a solo engine
  Port,       \* [Recipes -> Nat]: the port its /health answers on
  NodeSeq,    \* the nodes of the rack, the head first
  Solo,       \* the head's serve_solo container
  Unit,       \* the head's systemd user unit dgx-serve-engine.service
  Users,      \* the terminals a person runs rack up and rack down from
  Keeper,     \* the check cron runs
  Booter,     \* the boot unit's own rack up --boot
  Linger,     \* whether the user's systemd starts at boot
  Lossy,      \* whether a worker may miss a command sent to it over ssh
  MaxFaults,  \* bound: failed steps, deaths and reboots in a behaviour
  None

Runtimes == {"docker", "systemd", "external"}
HeadNode == NodeSeq[1]
Nodes    == {NodeSeq[i] : i \in DOMAIN NodeSeq}
Procs    == Users \cup {Keeper, Booter}

ASSUME RackAssumption ==
  /\ Len(NodeSeq) \in Nat \ {0}
  /\ NodeSeq \in [1..Len(NodeSeq) -> Nodes]
  /\ Runtime \in [Recipes -> Runtimes]
  /\ Span \in [Recipes -> 1..Len(NodeSeq)]
  /\ Port \in [Recipes -> Nat]
  /\ MaxFaults \in Nat
  /\ Linger \in BOOLEAN /\ Lossy \in BOOLEAN
  /\ None \notin Recipes \cup Nodes \cup {Solo, Unit}
  /\ Keeper # Booter /\ {Keeper, Booter} \cap Users = {}
  /\ Solo # Unit /\ {Solo, Unit} \cap (Nodes \cup Recipes) = {}
  /\ Nodes \cap Recipes = {}

IsCluster(r)  == Runtime[r] = "docker" /\ Span[r] > 1
IsExternal(r) == Runtime[r] = "external"
NodesOf(r)    == {NodeSeq[i] : i \in 1..Span[r]}

(***************************************************************************)
(* The places an engine can be: serve_solo on the head, serve_node on each *)
(* node, the systemd unit, and an external engine's own processes.         *)
(***************************************************************************)
Slots == Nodes \cup {Solo, Unit} \cup {r \in Recipes : IsExternal(r)}

SlotOf(r) == CASE IsExternal(r)           -> r
               [] Runtime[r] = "systemd"  -> Unit
               [] IsCluster(r)            -> HeadNode
               [] OTHER                   -> Solo

\* idle: a cluster's container runs `sleep infinity` and no engine;
\* running: the engine process is there and does not answer;
\* up: it answers /health; exited: it is there and stopped.
Phases  == {"idle", "running", "up", "exited"}
Engines == [recipe : Recipes, phase : Phases]

UpJobs   == [cmd : {"up", "refresh"}, recipe : Recipes,
             replace : BOOLEAN, boot : BOOLEAN, external : BOOLEAN,
             bootSeen : {FALSE}, unitSeen : {FALSE}]
DownJobs == [cmd : {"down"}, recipe : Recipes \cup {None},
             replace : {FALSE}, boot : {FALSE}, external : {FALSE},
             bootSeen : BOOLEAN, unitSeen : BOOLEAN]
Jobs     == UpJobs \cup DownJobs

ASSUME NoneAssumption == None \notin Engines \cup Jobs

VARIABLES
  record,    \* serving.json: the recipe it names, or None
  eng,       \* what is in each slot
  bootUnit,  \* dgx-serve-boot.service: the recipe it re-forms, or None
  bootOn,    \* it is enabled
  unitFile,  \* the recipe the systemd unit's file starts, or None
  unitOn,    \* it is enabled
  cron,      \* rack keep's line is in the crontab
  keep,      \* the recipe a check has decided to serve again, or None
  job, pc,   \* the command each process runs, and the step it is at
  alone,     \* history: no other command has run beside this one
  faults     \* faults so far (bounded by MaxFaults)

rackVars == <<record, eng, bootUnit, bootOn, unitFile, unitOn, cron, keep>>
vars     == <<record, eng, bootUnit, bootOn, unitFile, unitOn, cron, keep,
              job, pc, alone, faults>>

Present(s)    == eng[s] # None
Active(s)     == Present(s) /\ eng[s].phase # "exited"
\* /health answers on port q (healthy), which is also a port that is open.
Answers(q)    == \E s \in Slots : Present(s) /\ eng[s].phase = "up"
                                  /\ Port[eng[s].recipe] = q
Containers(n) == IF n = HeadNode THEN {HeadNode, Solo} ELSE {n}

-----------------------------------------------------------------------------
(***************************************************************************)
(* Plans.  A step names its kind and what it works on.                     *)
(***************************************************************************)
Already(r)        == [kind |-> "up-already", recipe |-> r]
ExternalFirst     == [kind |-> "external-first"]
Rm(n, slots)      == [kind |-> "rm", node |-> n, slots |-> slots]
Free(n, watched)  == [kind |-> "free", node |-> n, watched |-> watched]
\* images, weights, mkdir, mods, the version check, reach: slow, may fail,
\* change nothing this module keeps
Prepare           == [kind |-> "prepare"]
RunContainer(s, n) == [kind |-> "run", slot |-> s, node |-> n]
Launch(n)         == [kind |-> "launch", node |-> n]
WriteFile(f)      == [kind |-> "write", file |-> f]
RemoveFile(f)     == [kind |-> "remove", file |-> f]
Systemctl(v, f)   == [kind |-> "systemctl", verb |-> v, file |-> f]
ExternalUp        == [kind |-> "external-up"]
ExternalDown      == [kind |-> "external-down"]
Wait              == [kind |-> "wait"]
Record            == [kind |-> "record"]
Cron(on)          == [kind |-> "cron", on |-> on]

\* The first k nodes in turn, step a[n] then step b[n].
PerNode(k, a, b) ==
  [i \in 1..2*k |-> IF i % 2 = 1 THEN a[NodeSeq[(i + 1) \div 2]]
                                 ELSE b[NodeSeq[i \div 2]]]

\* Mutants of Guard: it looks for the solo container only; it stops what runs
\* whether or not it was asked to replace it.
GuardSoloOnly(k, replace) ==
  LET look == [n \in Nodes |-> Free(n, Containers(n) \cap {Solo})]
      stop == [n \in Nodes |-> Rm(n, Containers(n))]
  IN IF replace THEN PerNode(k, stop, look)
                ELSE [i \in 1..k |-> look[NodeSeq[i]]]
GuardAlwaysStops(k, replace) ==
  PerNode(k, [n \in Nodes |-> Rm(n, Containers(n))],
             [n \in Nodes |-> Free(n, Containers(n))])

\* guard_steps: stop rack's own containers first when replacing, then look.
\* Only docker's containers are looked at, and the port on the head.
Guard(k, replace) ==
  LET look == [n \in Nodes |-> Free(n, Containers(n))]
      stop == [n \in Nodes |-> Rm(n, Containers(n))]
  IN IF replace THEN PerNode(k, stop, look)
                ELSE [i \in 1..k |-> look[NodeSeq[i]]]

BootUnitSteps ==
  IF Linger THEN <<WriteFile("boot"), Systemctl("enable", "boot")>>
            ELSE <<Systemctl("disable", "boot"), RemoveFile("boot")>>

PlanDockerSolo(r, replace) ==
  Guard(1, replace)
    \o <<Prepare, Rm(HeadNode, {Solo}), RunContainer(Solo, HeadNode), Wait>>

PlanCluster(r, replace, boot) ==
  LET clear == [n \in Nodes |-> Rm(n, {n})]
      start == [n \in Nodes |-> RunContainer(n, n)]
  IN (IF boot THEN <<Prepare>> ELSE <<>>)
       \o Guard(Span[r], replace \/ boot) \o <<Prepare>>
       \o PerNode(Span[r], clear, start) \o <<Prepare>>
       \o [i \in 1..Span[r] |-> Launch(NodeSeq[Span[r] + 1 - i])]
       \o BootUnitSteps \o <<Wait>>

PlanNative(replace) ==
  (IF replace THEN <<Systemctl("stop", "unit")>> ELSE <<>>)
    \o <<Free(HeadNode, {Unit}), Prepare, WriteFile("unit"),
         Systemctl("enable", "unit"), Systemctl("restart", "unit"), Wait>>

PlanExternal(replace) ==
  Guard(Len(NodeSeq), replace)
    \o (IF replace THEN <<Systemctl("disable", "boot"), RemoveFile("boot"),
                          RemoveFile("record")>> ELSE <<>>)
    \o <<ExternalUp, Wait>>

PlanUp(r, replace, boot, external) ==
  LET body == CASE Runtime[r] = "systemd" -> PlanNative(replace)
                [] IsExternal(r)          -> PlanExternal(replace)
                [] IsCluster(r)           -> PlanCluster(r, replace, boot)
                [] OTHER                  -> PlanDockerSolo(r, replace)
      already == IF Runtime[r] = "systemd" THEN <<>>
                 ELSE IF IsCluster(r) /\ boot THEN <<Already(None)>>
                 ELSE IF replace THEN <<>> ELSE <<Already(r)>>
  IN already \o (IF external THEN <<ExternalFirst>> ELSE <<>>)
       \o body \o <<Record, Cron(TRUE)>>

\* Mutants of PlanDown: only the head is stopped; the boot unit goes only with
\* the record of the cluster it re-forms.
PlanDownHeadOnly(r, bootSeen, unitSeen) ==
  <<Rm(HeadNode, Containers(HeadNode)), Systemctl("disable", "boot"),
    RemoveFile("boot"), RemoveFile("record"), Cron(FALSE)>>
PlanDownKeepsBoot(r, bootSeen, unitSeen) ==
  (IF r = None THEN [i \in DOMAIN NodeSeq |-> Rm(NodeSeq[i], Containers(NodeSeq[i]))]
               ELSE [i \in 1..Span[r] |-> Rm(NodeSeq[i], Containers(NodeSeq[i]))])
    \o (IF r # None /\ IsCluster(r)
          THEN <<Systemctl("disable", "boot"), RemoveFile("boot")>> ELSE <<>>)
    \o <<RemoveFile("record"), Cron(FALSE)>>

\* r is the record read when the plan was made.
PlanDown(r, bootSeen, unitSeen) ==
  LET runtime == IF r = None THEN "none" ELSE Runtime[r]
      targets == IF r = None THEN Len(NodeSeq) ELSE Span[r]
      Stop(n) == Rm(n, Containers(n))
  IN (IF runtime \in {"none", "docker"}
        THEN [i \in 1..targets |-> Stop(NodeSeq[i])]
               \o (IF runtime = "docker" \/ bootSeen
                     THEN <<Systemctl("disable", "boot"), RemoveFile("boot")>>
                     ELSE <<>>)
        ELSE <<>>)
     \o (IF runtime = "systemd" \/ (runtime = "none" /\ unitSeen)
           THEN <<Systemctl("disable --now", "unit"), RemoveFile("unit")>>
           ELSE <<>>)
     \o (IF runtime = "external" THEN <<ExternalDown>> ELSE <<>>)
     \o <<RemoveFile("record"), Cron(FALSE)>>

\* What a cluster's up-already step still does when it stops the plan (its
\* `then`), and the end of cmd_up.
PlanRefresh == BootUnitSteps \o <<Cron(TRUE)>>

\* Written as functions so that TLC works each plan out once.
UpPlan ==
  [r \in Recipes |-> [replace \in BOOLEAN |-> [boot \in BOOLEAN |->
     [external \in BOOLEAN |-> PlanUp(r, replace, boot, external)]]]]
DownPlan ==
  [r \in Recipes \cup {None} |-> [bootSeen \in BOOLEAN |->
     [unitSeen \in BOOLEAN |-> PlanDown(r, bootSeen, unitSeen)]]]

Plan(j) == CASE j.cmd = "up"   ->
                  UpPlan[j.recipe][j.replace][j.boot][j.external]
             [] j.cmd = "down" -> DownPlan[j.recipe][j.bootSeen][j.unitSeen]
             [] OTHER          -> PlanRefresh

-----------------------------------------------------------------------------
(***************************************************************************)
(* Commands.                                                               *)
(***************************************************************************)
Running(p)  == job[p] # None
Step(p)     == Plan(job[p])[pc[p]]
At(p, kind) == Running(p) /\ Step(p).kind = kind
LastStep(p) == pc[p] = Len(Plan(job[p]))

\* The process ends; a failed step ends it wherever it is.
Ends(p) ==
  /\ job' = [job EXCEPT ![p] = None]
  /\ pc'  = [pc EXCEPT ![p] = 0]
  /\ UNCHANGED alone

\* Mutant of Goes: off by one at the end of the plan.
GoesPastTheEnd(p) ==
  IF pc[p] > Len(Plan(job[p])) THEN Ends(p)
  ELSE /\ pc' = [pc EXCEPT ![p] = @ + 1]
       /\ UNCHANGED <<job, alone>>

\* The step is done: the next one, or the end.
Goes(p) ==
  IF LastStep(p) THEN Ends(p)
  ELSE /\ pc' = [pc EXCEPT ![p] = @ + 1]
       /\ UNCHANGED <<job, alone>>

\* busy(): pgrep sees py/serve.py, which has ended by the time keep_follow runs.
Busy == \E p \in Procs : Running(p) /\ Step(p).kind # "cron"

\* p starts command j; alone[p] says no other command runs beside it.
Starts(p, j) ==
  /\ ~Running(p)
  /\ job' = [job EXCEPT ![p] = j]
  /\ pc'  = [pc EXCEPT ![p] = 1]
  /\ LET others == {q \in Procs \ {p} : Running(q)}
     IN alone' = [q \in Procs |-> IF q = p THEN others = {}
                                  ELSE alone[q] /\ q \notin others]

UpJob(r, replace, boot) ==
  [cmd |-> "up", recipe |-> r, replace |-> replace, boot |-> boot,
   external |-> record # None /\ IsExternal(record),
   bootSeen |-> FALSE, unitSeen |-> FALSE]

DownJob ==
  [cmd |-> "down", recipe |-> record, replace |-> FALSE, boot |-> FALSE,
   external |-> FALSE, bootSeen |-> bootUnit # None,
   unitSeen |-> unitFile # None]

UserUp(p) ==
  /\ p \in Users
  /\ \E r \in Recipes, replace \in BOOLEAN : Starts(p, UpJob(r, replace, FALSE))
  /\ UNCHANGED <<rackVars, faults>>

UserDown(p) ==
  /\ p \in Users
  /\ Starts(p, DownJob)
  /\ UNCHANGED <<rackVars, faults>>

\* check(): reads the record, asks /health, looks for a running command and
\* for lost shares, and decides.  The lock lets one check run at a time.
LostShare(r) ==
  /\ IsCluster(r)
  /\ \E n \in NodesOf(r) : ~(Present(n) /\ eng[n].phase \in {"running", "up"})

KeepDecides ==
  /\ cron /\ keep = None /\ ~Running(Keeper)
  /\ record # None
  /\ ~Answers(Port[record]) \/ LostShare(record)
  /\ ~Busy
  /\ keep' = record
  /\ UNCHANGED <<record, eng, bootUnit, bootOn, unitFile, unitOn, cron,
                 job, pc, alone, faults>>

\* Mutant of KeepUp: rack up without --replace.
KeepUpNoReplace ==
  /\ keep # None
  /\ Starts(Keeper, UpJob(keep, FALSE, FALSE))
  /\ keep' = None
  /\ UNCHANGED <<record, eng, bootUnit, bootOn, unitFile, unitOn, cron, faults>>

KeepUp ==
  /\ keep # None
  /\ Starts(Keeper, UpJob(keep, TRUE, FALSE))
  /\ keep' = None
  /\ UNCHANGED <<record, eng, bootUnit, bootOn, unitFile, unitOn, cron, faults>>

-----------------------------------------------------------------------------
(***************************************************************************)
(* The executor's steps.                                                   *)
(***************************************************************************)
Fault == faults < MaxFaults /\ faults' = faults + 1

engOnly   == <<record, bootUnit, bootOn, unitFile, unitOn, cron, keep, faults>>
fileVars  == <<bootUnit, bootOn, unitFile, unitOn>>

Put(s, r, phase) == eng' = [eng EXCEPT ![s] = [recipe |-> r, phase |-> phase]]
Clear(slots)     == eng' = [s \in Slots |-> IF s \in slots THEN None ELSE eng[s]]

\* Done, or Ctrl-C: the rest of the plan is skipped, cmd_up goes on.
SkipsToEnd(p) ==
  /\ pc' = [pc EXCEPT ![p] = Len(Plan(job[p]))]
  /\ UNCHANGED <<job, alone>>

DoUpAlready(p, s) ==
  /\ s.kind = "up-already"
  /\ LET r == job[p].recipe
         asked == s.recipe
         found == Answers(Port[r]) /\ asked \in {None, record}
     IN \/ ~found /\ Goes(p)
        \/ /\ found
           /\ IF asked # None /\ IsCluster(r)
                THEN /\ job' = [job EXCEPT ![p].cmd = "refresh"]
                     /\ pc'  = [pc EXCEPT ![p] = 1]
                     /\ UNCHANGED alone
                ELSE SkipsToEnd(p)
  /\ UNCHANGED <<rackVars, faults>>

\* Mutant of DoExternalFirst: an external engine that does not answer is left.
DoExternalFirstAnswering(p, s) ==
  /\ s.kind = "external-first"
  /\ IF record = None \/ ~IsExternal(record) \/ ~Answers(Port[record])
       THEN Goes(p) /\ UNCHANGED <<record, eng>>
     ELSE IF ~job[p].replace
       THEN Ends(p) /\ UNCHANGED <<record, eng>>
     ELSE Goes(p) /\ Clear({record}) /\ record' = None
  /\ UNCHANGED <<fileVars, cron, keep, faults>>

DoExternalFirst(p, s) ==
  /\ s.kind = "external-first"
  /\ IF record = None \/ ~IsExternal(record)
       THEN Goes(p) /\ UNCHANGED <<record, eng>>
     ELSE IF ~job[p].replace /\ Answers(Port[record])
       THEN Ends(p) /\ UNCHANGED <<record, eng>>
     ELSE Goes(p) /\ Clear({record}) /\ record' = None
  /\ UNCHANGED <<fileVars, cron, keep, faults>>

DoRm(p, s) ==
  /\ s.kind = "rm"
  /\ Clear(s.slots)
  /\ Goes(p)
  /\ UNCHANGED engOnly

\* Mutant of FindsBusy: only an engine that answers is seen.
FindsBusyAnswering(p, s) ==
  s.node = HeadNode /\ Answers(Port[job[p].recipe])

\* docker ps names the node's running containers, systemctl is-active the
\* unit; the port is asked on the head, and only when nothing else was found.
FindsBusy(p, s) ==
  \/ \E e \in s.watched : Active(e)
  \/ s.node = HeadNode /\ Answers(Port[job[p].recipe])

DoFree(p, s) ==
  /\ s.kind = "free"
  /\ IF FindsBusy(p, s) THEN Ends(p) ELSE Goes(p)
  /\ UNCHANGED <<rackVars, faults>>

DoPrepare(p, s) ==
  /\ s.kind = "prepare"
  /\ Goes(p)
  /\ UNCHANGED <<rackVars, faults>>

\* docker run --name fails while the name is taken.
DoRunContainer(p, s) ==
  /\ s.kind = "run"
  /\ IF Present(s.slot) THEN Ends(p) /\ UNCHANGED eng
     ELSE /\ Put(s.slot, job[p].recipe,
                 IF s.slot = Solo THEN "running" ELSE "idle")
          /\ Goes(p)
  /\ UNCHANGED engOnly

\* docker exec -d: a rank started beside another one dies on its ports.
DoLaunch(p, s) ==
  /\ s.kind = "launch"
  /\ LET n == s.node
     IN IF ~Active(n) THEN Ends(p) /\ UNCHANGED eng
        ELSE /\ IF eng[n].phase = "idle" THEN Put(n, job[p].recipe, "running")
                                         ELSE UNCHANGED eng
             /\ Goes(p)
  /\ UNCHANGED engOnly

DoWrite(p, s) ==
  /\ s.kind = "write"
  /\ IF s.file = "boot"
       THEN bootUnit' = job[p].recipe /\ UNCHANGED unitFile
       ELSE unitFile' = job[p].recipe /\ UNCHANGED bootUnit
  /\ Goes(p)
  /\ UNCHANGED <<record, eng, bootOn, unitOn, cron, keep, faults>>

DoRemove(p, s) ==
  /\ s.kind = "remove"
  /\ LET f == s.file
     IN /\ record'   = IF f = "record" THEN None ELSE record
        /\ bootUnit' = IF f = "boot" THEN None ELSE bootUnit
        /\ unitFile' = IF f = "unit" THEN None ELSE unitFile
  /\ Goes(p)
  /\ UNCHANGED <<eng, bootOn, unitOn, cron, keep, faults>>

\* The boot unit's verbs ignore errors; the engine unit's enable and restart
\* do not, and fail when its file is gone.
DoSystemctlBoot(p, s) ==
  /\ s.kind = "systemctl" /\ s.file = "boot"
  /\ bootOn' = (s.verb = "enable" /\ bootUnit # None)
  /\ Goes(p)
  /\ UNCHANGED <<record, eng, bootUnit, unitFile, unitOn, cron, keep, faults>>

DoSystemctlStop(p, s) ==
  /\ s.kind = "systemctl" /\ s.file = "unit"
  /\ s.verb \in {"stop", "disable --now"}
  /\ Clear({Unit})
  /\ unitOn' = (s.verb = "stop" /\ unitOn)
  /\ Goes(p)
  /\ UNCHANGED <<record, bootUnit, bootOn, unitFile, cron, keep, faults>>

DoSystemctlStart(p, s) ==
  /\ s.kind = "systemctl" /\ s.file = "unit"
  /\ s.verb \in {"enable", "restart"}
  /\ IF unitFile = None THEN Ends(p) /\ UNCHANGED <<eng, unitOn>>
     ELSE /\ Goes(p)
          /\ unitOn' = (unitOn \/ s.verb = "enable")
          /\ IF s.verb = "restart" THEN Put(Unit, unitFile, "running")
                                         ELSE UNCHANGED eng
  /\ UNCHANGED <<record, bootUnit, bootOn, unitFile, cron, keep, faults>>

DoExternalUp(p, s) ==
  /\ s.kind = "external-up"
  /\ LET r == job[p].recipe
     IN IF Present(r) THEN UNCHANGED eng ELSE Put(r, r, "running")
  /\ Goes(p)
  /\ UNCHANGED engOnly

DoExternalDown(p, s) ==
  /\ s.kind = "external-down"
  /\ Clear({job[p].recipe})
  /\ Goes(p)
  /\ UNCHANGED engOnly

-----------------------------------------------------------------------------
(***************************************************************************)
(* Waiting until it answers.                                               *)
(***************************************************************************)
\* do_wait asks the port, not the engine it started.
DoWait(p, s) ==
  /\ s.kind = "wait"
  /\ Answers(Port[job[p].recipe])
  /\ Goes(p)
  /\ UNCHANGED <<rackVars, faults>>

\* clean_up_failed: only an external engine is stopped (on_fail).
GivesUp(p) ==
  /\ LET r == job[p].recipe
     IN IF IsExternal(r) THEN Clear({r}) ELSE UNCHANGED eng
  /\ Ends(p)

DoWaitDead(p, s) ==
  /\ s.kind = "wait"
  /\ ~Answers(Port[job[p].recipe])
  /\ ~Active(SlotOf(job[p].recipe))
  /\ GivesUp(p)
  /\ UNCHANGED engOnly

\* The engine in slot s can still come up: nothing answers on its port, and
\* a cluster's head has a rank of its recipe on every node.
CanComeUp(s) ==
  /\ Present(s) /\ eng[s].phase = "running"
  /\ s = HeadNode \/ s \notin Nodes
  /\ ~Answers(Port[eng[s].recipe])
  /\ s = HeadNode => \A n \in NodesOf(eng[s].recipe) :
                        /\ Present(n)
                        /\ eng[n].recipe = eng[s].recipe
                        /\ eng[n].phase \in {"running", "up"}

\* Mutant of DoWaitTimeout: the deadline counts only while the engine loads.
DoWaitTimeoutLoading(p, s) ==
  /\ s.kind = "wait"
  /\ ~Answers(Port[job[p].recipe])
  /\ CanComeUp(SlotOf(job[p].recipe))
  /\ Fault
  /\ GivesUp(p)
  /\ UNCHANGED <<record, fileVars, cron, keep>>

\* The deadline: a fault when the engine was only slow.
DoWaitTimeout(p, s) ==
  /\ s.kind = "wait"
  /\ ~Answers(Port[job[p].recipe])
  /\ IF CanComeUp(SlotOf(job[p].recipe))
       THEN Fault
       ELSE UNCHANGED faults
  /\ GivesUp(p)
  /\ UNCHANGED <<record, fileVars, cron, keep>>

\* Ctrl-C while it waits: SystemExit(0), so nothing is recorded.
Detach(p, s) ==
  /\ p \in Users
  /\ s.kind = "wait"
  /\ SkipsToEnd(p)
  /\ UNCHANGED <<rackVars, faults>>

DoRecord(p, s) ==
  /\ s.kind = "record"
  /\ record' = job[p].recipe
  /\ Goes(p)
  /\ UNCHANGED <<eng, fileVars, cron, keep, faults>>

\* keep_follow on or off, in the rack script, after py/serve.py has ended.
DoCron(p, s) ==
  /\ s.kind = "cron"
  /\ cron' = s.on
  /\ Goes(p)
  /\ UNCHANGED <<record, eng, fileVars, keep, faults>>

-----------------------------------------------------------------------------
(***************************************************************************)
(* What goes wrong.                                                        *)
(***************************************************************************)
\* A step that fails raises PlanError and the plan stops there.
Fallible == {"prepare", "run", "launch", "external-up", "external-first"}

StepFails(p, s) ==
  /\ s.kind \in Fallible
  /\ Fault
  /\ Ends(p)
  /\ UNCHANGED rackVars

\* A step whose errors are ignored fails: a worker that does not answer over
\* ssh, an EXTERNAL_DOWN that stops nothing.  The plan goes on.
StepIgnored(p, s) ==
  /\ \/ Lossy /\ s.kind = "rm" /\ s.node # HeadNode
     \/ s.kind = "external-down"
  /\ Fault
  /\ Goes(p)
  /\ UNCHANGED rackVars

\* A worker that does not answer over ssh looks free to do_free.
LooksFree(p, s) ==
  /\ Lossy /\ s.kind = "free" /\ s.node # HeadNode
  /\ FindsBusy(p, s)
  /\ Fault
  /\ Goes(p)
  /\ UNCHANGED rackVars

\* The command is killed (a lost ssh session, a closed terminal).
Killed(p) ==
  /\ p \in Users /\ Running(p)
  /\ Fault
  /\ Ends(p)
  /\ UNCHANGED rackVars

ComesUp(s) ==
  /\ CanComeUp(s)
  /\ Put(s, eng[s].recipe, "up")
  /\ UNCHANGED <<engOnly, job, pc, alone>>

\* An engine dies: Docker restarts a solo one, systemd its unit; a cluster's
\* container stays, idle; an external engine is gone.
Dies(s) ==
  /\ Present(s) /\ eng[s].phase \in {"running", "up"}
  /\ IF s \in {Solo, Unit} THEN Put(s, eng[s].recipe, "running")
     ELSE IF s \in Nodes THEN Put(s, eng[s].recipe, "idle")
     ELSE Clear({s})
  /\ Fault
  /\ UNCHANGED <<record, fileVars, cron, keep, job, pc, alone>>

\* memwatch kills the container, or the unit's engine exits cleanly: neither
\* is restarted.
Exits(s) ==
  /\ s \in Nodes \cup {Solo, Unit}
  /\ Present(s) /\ eng[s].phase \in {"running", "up"}
  /\ Put(s, eng[s].recipe, "exited")
  /\ Fault
  /\ UNCHANGED <<record, fileVars, cron, keep, job, pc, alone>>

AfterReboot(s) ==
  CASE s = Unit /\ unitOn /\ Linger /\ unitFile # None ->
         [recipe |-> unitFile, phase |-> "running"]
    [] s \in Nodes /\ Active(s) -> [eng[s] EXCEPT !.phase = "idle"]
    [] s = Solo /\ Active(s)    -> [eng[s] EXCEPT !.phase = "running"]
    [] s \in Nodes \cup {Solo} /\ ~Active(s) -> eng[s]
    [] OTHER                   -> None

\* Every machine restarts: no command survives, containers come back by their
\* restart policy, and systemd starts what is enabled.
Reboot ==
  /\ Fault
  /\ eng' = [s \in Slots |-> AfterReboot(s)]
  /\ keep' = None
  /\ LET boots == bootOn /\ Linger /\ bootUnit # None
     IN /\ job' = [p \in Procs |-> IF p = Booter /\ boots
                                    THEN UpJob(bootUnit, TRUE, TRUE) ELSE None]
        /\ pc' = [p \in Procs |-> IF p = Booter /\ boots THEN 1 ELSE 0]
        /\ alone' = [p \in Procs |-> p = Booter]
  /\ UNCHANGED <<record, fileVars, cron>>

-----------------------------------------------------------------------------
Init ==
  /\ record = None /\ bootUnit = None /\ unitFile = None /\ keep = None
  /\ eng = [s \in Slots |-> None]
  /\ bootOn = FALSE /\ unitOn = FALSE /\ cron = FALSE
  /\ job = [p \in Procs |-> None]
  /\ pc = [p \in Procs |-> 0]
  /\ alone = [p \in Procs |-> FALSE]
  /\ faults = 0

Executes(p) ==
  Running(p) /\ LET s == Step(p) IN
  \/ DoUpAlready(p, s) \/ DoExternalFirst(p, s) \/ DoRm(p, s) \/ DoFree(p, s)
  \/ DoPrepare(p, s) \/ DoRunContainer(p, s) \/ DoLaunch(p, s)
  \/ DoWrite(p, s) \/ DoRemove(p, s)
  \/ DoSystemctlBoot(p, s) \/ DoSystemctlStop(p, s) \/ DoSystemctlStart(p, s)
  \/ DoExternalUp(p, s) \/ DoExternalDown(p, s)
  \/ DoWait(p, s) \/ DoWaitDead(p, s) \/ DoWaitTimeout(p, s)
  \/ DoRecord(p, s) \/ DoCron(p, s)

Fails(p) ==
  \/ Running(p) /\ LET s == Step(p) IN
       StepFails(p, s) \/ StepIgnored(p, s) \/ LooksFree(p, s) \/ Detach(p, s)
  \/ Killed(p)

Environment ==
  \/ \E s \in Slots : ComesUp(s) \/ Dies(s) \/ Exits(s)
  \/ Reboot

Next ==
  \/ \E p \in Procs : UserUp(p) \/ UserDown(p) \/ Executes(p) \/ Fails(p)
  \/ KeepDecides \/ KeepUp
  \/ Environment

Spec == Init /\ [][Next]_vars

\* A command goes on until it ends: strongly fair, for a wait that could end
\* again and again ends at its deadline at the latest.  An engine that can
\* answer does in the end, and cron runs a check every two minutes; people
\* need do nothing.
Fairness ==
  /\ \A p \in Procs : SF_vars(Executes(p))
  /\ \A s \in Slots : WF_vars(ComesUp(s))
  /\ WF_vars(KeepDecides) /\ WF_vars(KeepUp)

FairSpec == Spec /\ Fairness

-----------------------------------------------------------------------------
(***************************************************************************)
(* Properties.                                                             *)
(***************************************************************************)
\* Types of the state; and a running command is at a step of its plan, an ended
\* one at none (Executor.execute goes through the steps once, in order).
TypeOK ==
  /\ record   \in Recipes \cup {None}
  /\ eng      \in [Slots -> Engines \cup {None}]
  /\ bootUnit \in Recipes \cup {None}
  /\ bootOn   \in BOOLEAN
  /\ unitFile \in Recipes \cup {None}
  /\ unitOn   \in BOOLEAN
  /\ cron     \in BOOLEAN
  /\ keep     \in Recipes \cup {None}
  /\ job      \in [Procs -> Jobs \cup {None}]
  /\ pc       \in [Procs -> Nat]
  /\ alone    \in [Procs -> BOOLEAN]
  /\ faults   \in 0..MaxFaults
  /\ \A p \in Procs : IF Running(p) THEN pc[p] \in 1..Len(Plan(job[p]))
                                    ELSE pc[p] = 0

NodeOf(s) == IF s \in Nodes THEN s ELSE HeadNode

\* The nodes a command of recipe r puts an engine on.
Uses(r) == IF Runtime[r] = "docker" THEN NodesOf(r) ELSE {HeadNode}

\* The steps that put an engine somewhere, and a command at one of them.
Places(s) ==
  \/ s.kind \in {"run", "launch", "external-up"}
  \/ s.kind = "systemctl" /\ s.verb = "restart"

Starting(p) == Running(p) /\ Places(Step(p))

\* The nodes that always answer a probe.
Heard == IF Lossy THEN {HeadNode} ELSE Nodes

\* A command that nothing else runs beside never gets as far as starting its
\* engine on a node where another recipe's engine still is ("Refuse to start
\* on top of another engine", guard_steps).
NoEngineOnTop ==
  \A p \in Procs : alone[p] /\ Starting(p) =>
    \A s \in Slots : Active(s) /\ NodeOf(s) \in Uses(job[p].recipe) \cap Heard =>
                       eng[s].recipe = job[p].recipe

\* What a command that runs alone records as serving is what answers: when it
\* is about to write serving.json, no other recipe's engine answers on its port.
RecordTrueAlone ==
  \A p \in Procs : alone[p] /\ At(p, "record") =>
    \A s \in Slots : Present(s) /\ eng[s].phase = "up" =>
       \/ eng[s].recipe = job[p].recipe
       \/ Port[eng[s].recipe] # Port[job[p].recipe]

\* rack up without --replace never takes down another recipe's engine that is
\* running, whatever failed before: it refuses.
RefusesWithoutReplace ==
  [][\A p \in Procs :
       (/\ alone[p] /\ Running(p) /\ pc'[p] # pc[p] /\ faults' = faults
        /\ job[p].cmd = "up" /\ ~job[p].replace) =>
       \A s \in Slots :
         Active(s) /\ NodeOf(s) \in Heard /\ eng[s].recipe # job[p].recipe =>
           eng'[s] = eng[s]]_vars

\* When rack down has run by itself, nothing of the rack's serves on any node
\* and nothing comes back at boot.
DownLeavesNothing ==
  \A p \in Procs : alone[p] /\ At(p, "cron") /\ job[p].cmd = "down" =>
    /\ \A s \in Slots : ~Active(s)
    /\ ~(bootOn /\ bootUnit # None) /\ ~(unitOn /\ unitFile # None)

\* The same of the head alone, where the API and the boot unit are.
DownFreesHead ==
  \A p \in Procs : alone[p] /\ At(p, "cron") /\ job[p].cmd = "down" =>
    /\ \A s \in Slots : Active(s) => NodeOf(s) # HeadNode
    /\ ~(bootOn /\ bootUnit # None) /\ ~(unitOn /\ unitFile # None)

\* "A plan starting while one is recorded deals with it first": a command that
\* runs alone starts its own engine only once a recorded external engine has
\* been stopped and its record removed (stop_external_first).
ExternalDealtWith ==
  \A p \in Procs : alone[p] /\ Starting(p) => record = None \/ ~IsExternal(record)

\* A command always comes to its end, whatever the other commands and the
\* engines do meanwhile: do_wait's deadline and liveness check end every wait.
CommandsEnd == \A p \in Procs : Running(p) ~> ~Running(p)

\* What comes back when the machine restarts is what was serving.
BootBringsBackRecord ==
  [][Reboot => job'[Booter] = None \/ job'[Booter].recipe = record]_vars

\* While rack keep is on, what is recorded as serving answers again, on every
\* node it spans, or a person has taken over.
Served == record # None /\ Answers(Port[record]) /\ ~LostShare(record)

KeepRestores ==
  (record # None /\ cron) ~> (Served \/ \E p \in Users : Running(p))
=============================================================================
