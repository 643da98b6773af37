----------------------------- MODULE ServeProofs -----------------------------
(***************************************************************************)
(* The types of Serve, for every rack, every set of recipes and any number *)
(* of terminals.  What is not obvious of them is the plans: a command is   *)
(* always at a step of its own plan, and rack down, which may have no      *)
(* recipe to work with, never runs a step that starts one.  Then what a    *)
(* plan does about a recorded external engine; and, where every engine is  *)
(* a container, what the guards and rack down achieve for a command that   *)
(* runs alone.                                                             *)
(***************************************************************************)
EXTENDS Serve, TLAPS

Verbs == {"stop", "disable", "disable --now"}
Files == {"boot", "unit", "record"}

\* The steps that stop and clean up; with them those of the boot unit; of the
\* runtime's own plan; and of all of rack up's.
StopSteps ==
  [kind : {"rm"}, node : Nodes, slots : SUBSET Slots]
    \cup [kind : {"systemctl"}, verb : Verbs, file : Files]
    \cup [kind : {"remove"}, file : Files]
    \cup [kind : {"external-down"}]
    \cup [kind : {"cron"}, on : BOOLEAN]

BootSteps ==
  StopSteps
    \cup [kind : {"systemctl"}, verb : {"enable"}, file : Files]
    \cup [kind : {"write"}, file : Files]

BodySteps ==
  BootSteps
    \cup [kind : {"systemctl"}, verb : {"restart"}, file : Files]
    \cup [kind : {"free"}, node : Nodes, watched : SUBSET Slots]
    \cup [kind : {"run"}, slot : Slots, node : Nodes]
    \cup [kind : {"launch"}, node : Nodes]
    \cup [kind : {"prepare", "external-up", "wait"}]

UpSteps ==
  BodySteps
    \cup [kind : {"up-already"}, recipe : Recipes \cup {None}]
    \cup [kind : {"external-first", "record"}]

-----------------------------------------------------------------------------
(***************************************************************************)
(* Plans.                                                                  *)
(***************************************************************************)
LEMMA NodesKnown ==
  /\ \A i \in 1..Len(NodeSeq) : NodeSeq[i] \in Nodes
  /\ HeadNode \in Nodes
  /\ \A n \in Nodes : Containers(n) \subseteq Slots
  /\ Nodes \subseteq Slots /\ Solo \in Slots /\ Unit \in Slots
<1>1. DOMAIN NodeSeq = 1..Len(NodeSeq) /\ 1 \in 1..Len(NodeSeq)
  BY RackAssumption
<1>2. HeadNode \in Nodes
  BY <1>1, RackAssumption DEF HeadNode
<1>3. Nodes \subseteq Slots /\ Solo \in Slots /\ Unit \in Slots
  BY DEF Slots
<1> QED
  BY <1>1, <1>2, <1>3, RackAssumption DEF Containers

\* The constructors of the steps rack down has.
LEMMA StopStepTypes ==
  /\ \A n \in Nodes, slots \in SUBSET Slots : Rm(n, slots) \in StopSteps
  /\ \A v \in Verbs, f \in Files : Systemctl(v, f) \in StopSteps
  /\ \A f \in Files : RemoveFile(f) \in StopSteps
  /\ ExternalDown \in StopSteps
  /\ Cron(TRUE) \in StopSteps /\ Cron(FALSE) \in StopSteps
<1>1. \A n \in Nodes, slots \in SUBSET Slots : Rm(n, slots) \in StopSteps
  BY DEF Rm, StopSteps
<1>2. \A v \in Verbs, f \in Files : Systemctl(v, f) \in StopSteps
  BY DEF Systemctl, StopSteps
<1>3. \A f \in Files : RemoveFile(f) \in StopSteps
  BY DEF RemoveFile, StopSteps
<1>4. ExternalDown \in StopSteps
  BY DEF ExternalDown, StopSteps
<1>5. Cron(TRUE) \in StopSteps /\ Cron(FALSE) \in StopSteps
  BY DEF Cron, StopSteps
<1> QED
  BY <1>1, <1>2, <1>3, <1>4, <1>5

LEMMA BootStepTypes ==
  /\ StopSteps \subseteq BootSteps
  /\ \A f \in Files : Systemctl("enable", f) \in BootSteps
  /\ \A f \in Files : WriteFile(f) \in BootSteps
<1>1. \A f \in Files : Systemctl("enable", f) \in BootSteps
  BY DEF Systemctl, BootSteps
<1>2. \A f \in Files : WriteFile(f) \in BootSteps
  BY DEF WriteFile, BootSteps
<1>3. StopSteps \subseteq BootSteps
  BY DEF BootSteps
<1> QED
  BY <1>1, <1>2, <1>3

LEMMA BodyStepTypes ==
  /\ StopSteps \subseteq BodySteps /\ BootSteps \subseteq BodySteps
  /\ \A f \in Files : Systemctl("restart", f) \in BodySteps
  /\ \A n \in Nodes, slots \in SUBSET Slots : Free(n, slots) \in BodySteps
  /\ \A s \in Slots, n \in Nodes : RunContainer(s, n) \in BodySteps
  /\ \A n \in Nodes : Launch(n) \in BodySteps
  /\ {Prepare, ExternalUp, Wait} \subseteq BodySteps
<1>1. \A n \in Nodes, slots \in SUBSET Slots : Free(n, slots) \in BodySteps
  BY DEF Free, BodySteps
<1>2. \A s \in Slots, n \in Nodes : RunContainer(s, n) \in BodySteps
  BY DEF RunContainer, BodySteps
<1>3. \A n \in Nodes : Launch(n) \in BodySteps
  BY DEF Launch, BodySteps
<1>4. \A f \in Files : Systemctl("restart", f) \in BodySteps
  BY DEF Systemctl, BodySteps
<1>5. {Prepare, ExternalUp, Wait} \subseteq BodySteps
  BY DEF Prepare, ExternalUp, Wait, BodySteps
<1>6. StopSteps \subseteq BodySteps /\ BootSteps \subseteq BodySteps
  BY DEF BootSteps, BodySteps
<1> QED
  BY <1>1, <1>2, <1>3, <1>4, <1>5, <1>6

LEMMA UpStepTypes ==
  /\ StopSteps \subseteq UpSteps /\ BootSteps \subseteq UpSteps
  /\ BodySteps \subseteq UpSteps
  /\ \A r \in Recipes \cup {None} : Already(r) \in UpSteps
  /\ ExternalFirst \in UpSteps /\ Record \in UpSteps
<1>1. \A r \in Recipes \cup {None} : Already(r) \in UpSteps
  BY DEF Already, UpSteps
<1>2. ExternalFirst \in UpSteps /\ Record \in UpSteps
  BY DEF ExternalFirst, Record, UpSteps
<1>3. BodySteps \subseteq UpSteps
  BY DEF UpSteps
<1> QED
  BY <1>1, <1>2, <1>3, BodyStepTypes

\* One step, a few steps, and one plan after another.
LEMMA PlansJoin ==
  ASSUME NEW S
  PROVE  /\ <<>> \in Seq(S)
         /\ \A a \in S : <<a>> \in Seq(S)
         /\ \A a, b \in S : <<a, b>> \in Seq(S)
         /\ \A u, v \in Seq(S) : u \o v \in Seq(S)
  OBVIOUS

LEMMA WiderPlan ==
  ASSUME NEW S, NEW T, S \subseteq T, NEW u \in Seq(S)
  PROVE  u \in Seq(T)
  OBVIOUS

LEMMA JoinLen ==
  ASSUME NEW S, NEW u \in Seq(S), NEW v \in Seq(S), NEW n \in Nat, Len(v) = n
  PROVE  Len(u \o v) = Len(u) + n
  OBVIOUS

LEMMA JoinLeft ==
  ASSUME NEW S, NEW u \in Seq(S), NEW v \in Seq(S), NEW i \in 1..Len(u)
  PROVE  (u \o v)[i] = u[i]
  OBVIOUS

LEMMA JoinRight ==
  ASSUME NEW S, NEW u \in Seq(S), NEW v \in Seq(S), NEW i \in 1..Len(v)
  PROVE  (u \o v)[Len(u) + i] = v[i]
  OBVIOUS

LEMMA PairType ==
  ASSUME NEW S, NEW a \in S, NEW b \in S
  PROVE  <<a, b>> \in Seq(S) /\ Len(<<a, b>>) = 2
  OBVIOUS

LEMMA FirstOfPair ==
  ASSUME NEW S, NEW u \in Seq(S), NEW a \in S, NEW b \in S
  PROVE  (u \o <<a, b>>)[Len(u) + 1] = a
  OBVIOUS

LEMMA LastOfPair ==
  ASSUME NEW S, NEW u \in Seq(S), NEW a \in S, NEW b \in S
  PROVE  (u \o <<a, b>>)[Len(u) + 2] = b
  OBVIOUS

LEMMA OneType ==
  ASSUME NEW S, NEW a \in S
  PROVE  <<a>> \in Seq(S) /\ Len(<<a>>) = 1
  OBVIOUS

LEMMA PerNodeType ==
  ASSUME NEW S, NEW k \in 1..Len(NodeSeq),
         NEW a \in [Nodes -> S], NEW b \in [Nodes -> S]
  PROVE  PerNode(k, a, b) \in Seq(S)
<1>1. Len(NodeSeq) \in Nat /\ k \in Nat
  BY RackAssumption
<1>2. ASSUME NEW i \in 1..2*k
      PROVE  /\ i % 2 = 1 => (i + 1) \div 2 \in 1..Len(NodeSeq)
             /\ i % 2 # 1 => i \div 2 \in 1..Len(NodeSeq)
  BY <1>1
<1>3. ASSUME NEW i \in 1..2*k
      PROVE  (IF i % 2 = 1 THEN a[NodeSeq[(i + 1) \div 2]] ELSE b[NodeSeq[i \div 2]]) \in S
  BY <1>2, NodesKnown
<1>4. 2*k \in Nat
  BY <1>1
<1> QED
  BY <1>3, <1>4 DEF PerNode
LEMMA FirstNodesType ==
  ASSUME NEW S, NEW k \in 1..Len(NodeSeq), NEW a \in [Nodes -> S]
  PROVE  [i \in 1..k |-> a[NodeSeq[i]]] \in Seq(S)
<1>1. Len(NodeSeq) \in Nat /\ k \in Nat
  BY RackAssumption
<1>2. \A i \in 1..k : a[NodeSeq[i]] \in S
  BY <1>1, NodesKnown
<1> QED
  BY <1>1, <1>2

LEMMA LastNodesFirstType ==
  ASSUME NEW S, NEW k \in 1..Len(NodeSeq), NEW a \in [Nodes -> S]
  PROVE  [i \in 1..k |-> a[NodeSeq[k + 1 - i]]] \in Seq(S)
<1>1. Len(NodeSeq) \in Nat /\ k \in Nat
  BY RackAssumption
<1>2. \A i \in 1..k : k + 1 - i \in 1..Len(NodeSeq)
  BY <1>1
<1>3. \A i \in 1..k : a[NodeSeq[k + 1 - i]] \in S
  BY <1>2, NodesKnown
<1> QED
  BY <1>1, <1>3

LEMMA GuardType ==
  ASSUME NEW k \in 1..Len(NodeSeq), NEW replace \in BOOLEAN
  PROVE  Guard(k, replace) \in Seq(BodySteps)
<1> DEFINE look == [n \in Nodes |-> Free(n, Containers(n))]
           stop == [n \in Nodes |-> Rm(n, Containers(n))]
<1>1. look \in [Nodes -> BodySteps] /\ stop \in [Nodes -> BodySteps]
  BY NodesKnown, StopStepTypes, BodyStepTypes
<1> HIDE DEF look, stop
<1>2. PerNode(k, stop, look) \in Seq(BodySteps)
  BY <1>1, PerNodeType
<1>3. [i \in 1..k |-> look[NodeSeq[i]]] \in Seq(BodySteps)
  BY <1>1, FirstNodesType
<1> QED
  BY <1>2, <1>3 DEF Guard, look, stop

LEMMA BootUnitStepsType == BootUnitSteps \in Seq(BootSteps) /\ Len(BootUnitSteps) = 2
<1>1. /\ WriteFile("boot") \in BootSteps /\ RemoveFile("boot") \in BootSteps
      /\ Systemctl("enable", "boot") \in BootSteps
      /\ Systemctl("disable", "boot") \in BootSteps
  BY StopStepTypes, BootStepTypes DEF Verbs, Files
<1> QED
  BY <1>1 DEF BootUnitSteps

LEMMA PlanDockerSoloType ==
  ASSUME NEW r \in Recipes, NEW replace \in BOOLEAN
  PROVE  PlanDockerSolo(r, replace) \in Seq(BodySteps)
<1>1. 1 \in 1..Len(NodeSeq)
  BY RackAssumption
<1>2. Guard(1, replace) \in Seq(BodySteps)
  BY <1>1, GuardType
<1>3. /\ Prepare \in BodySteps /\ Wait \in BodySteps
      /\ Rm(HeadNode, {Solo}) \in BodySteps
      /\ RunContainer(Solo, HeadNode) \in BodySteps
  BY NodesKnown, StopStepTypes, BodyStepTypes
<1>4. <<Prepare, Rm(HeadNode, {Solo}), RunContainer(Solo, HeadNode), Wait>> \in Seq(BodySteps)
  BY <1>3
<1> QED
  BY <1>2, <1>4, PlansJoin DEF PlanDockerSolo

LEMMA PlanClusterType ==
  ASSUME NEW r \in Recipes, NEW replace \in BOOLEAN, NEW boot \in BOOLEAN
  PROVE  PlanCluster(r, replace, boot) \in Seq(BodySteps)
<1> DEFINE clear == [n \in Nodes |-> Rm(n, {n})]
           start == [n \in Nodes |-> RunContainer(n, n)]
           launches == [i \in 1..Span[r] |-> Launch(NodeSeq[Span[r] + 1 - i])]
<1>1. Span[r] \in 1..Len(NodeSeq) /\ Len(NodeSeq) \in Nat /\ Span[r] \in Nat
  BY RackAssumption
<1>2. clear \in [Nodes -> BodySteps] /\ start \in [Nodes -> BodySteps]
  BY NodesKnown, StopStepTypes, BodyStepTypes
<1>3. Prepare \in BodySteps /\ Wait \in BodySteps
  BY BodyStepTypes
<1>4. launches \in Seq(BodySteps)
  <2> DEFINE launch == [n \in Nodes |-> Launch(n)]
  <2>1. launch \in [Nodes -> BodySteps]
    BY BodyStepTypes
  <2>2. [i \in 1..Span[r] |-> launch[NodeSeq[Span[r] + 1 - i]]] \in Seq(BodySteps)
    <3> HIDE DEF launch
    <3> QED
      BY <2>1, <1>1, LastNodesFirstType
  <2>3. \A i \in 1..Span[r] : Span[r] + 1 - i \in 1..Len(NodeSeq)
    BY <1>1
  <2>4. \A i \in 1..Span[r] : launch[NodeSeq[Span[r] + 1 - i]] = Launch(NodeSeq[Span[r] + 1 - i])
    BY <2>3, NodesKnown
  <2> QED
    BY <2>2, <2>4
<1>5. Guard(Span[r], replace \/ boot) \in Seq(BodySteps)
  BY <1>1, GuardType
<1> HIDE DEF clear, start, launches
<1>6. PerNode(Span[r], clear, start) \in Seq(BodySteps)
  BY <1>1, <1>2, PerNodeType
<1>7. (IF boot THEN <<Prepare>> ELSE <<>>) \in Seq(BodySteps) /\ <<Prepare>> \in Seq(BodySteps)
      /\ <<Wait>> \in Seq(BodySteps)
  BY <1>3, PlansJoin
<1>8. PlanCluster(r, replace, boot) =
        (IF boot THEN <<Prepare>> ELSE <<>>)
          \o Guard(Span[r], replace \/ boot) \o <<Prepare>>
          \o PerNode(Span[r], clear, start) \o <<Prepare>>
          \o launches \o BootUnitSteps \o <<Wait>>
  BY Zenon DEF PlanCluster, clear, start, launches
<1> DEFINE guarded == (IF boot THEN <<Prepare>> ELSE <<>>)
                        \o Guard(Span[r], replace \/ boot) \o <<Prepare>>
           started == guarded \o PerNode(Span[r], clear, start) \o <<Prepare>>
<1>9. guarded \in Seq(BodySteps)
  BY <1>5, <1>7, PlansJoin
<1>10. started \in Seq(BodySteps)
  <2> HIDE DEF guarded
  <2> QED
    BY <1>6, <1>7, <1>9, PlansJoin
<1>11. started \o launches \o BootUnitSteps \o <<Wait>> \in Seq(BodySteps)
  <2>1. BootUnitSteps \in Seq(BodySteps)
    BY BootUnitStepsType, BodyStepTypes, WiderPlan
  <2> HIDE DEF started
  <2> QED
    BY <1>4, <1>7, <1>10, <2>1, PlansJoin
<1> QED
  BY <1>8, <1>11

LEMMA PlanNativeType ==
  ASSUME NEW replace \in BOOLEAN
  PROVE  PlanNative(replace) \in Seq(BodySteps)
<1>1. /\ Systemctl("stop", "unit") \in BodySteps
      /\ Systemctl("enable", "unit") \in BodySteps
      /\ Systemctl("restart", "unit") \in BodySteps
      /\ Free(HeadNode, {Unit}) \in BodySteps /\ Prepare \in BodySteps
      /\ WriteFile("unit") \in BodySteps /\ Wait \in BodySteps
  BY NodesKnown, StopStepTypes, BootStepTypes, BodyStepTypes DEF Verbs, Files
<1>2. (IF replace THEN <<Systemctl("stop", "unit")>> ELSE <<>>) \in Seq(BodySteps)
  BY <1>1
<1>3. <<Free(HeadNode, {Unit}), Prepare, WriteFile("unit"),
        Systemctl("enable", "unit"), Systemctl("restart", "unit"), Wait>> \in Seq(BodySteps)
  BY <1>1
<1> QED
  BY <1>2, <1>3, PlansJoin DEF PlanNative

LEMMA PlanExternalType ==
  ASSUME NEW replace \in BOOLEAN
  PROVE  PlanExternal(replace) \in Seq(BodySteps)
<1>1. Len(NodeSeq) \in 1..Len(NodeSeq)
  BY RackAssumption
<1>2. Guard(Len(NodeSeq), replace) \in Seq(BodySteps)
  BY <1>1, GuardType
<1>3. /\ Systemctl("disable", "boot") \in BodySteps /\ ExternalUp \in BodySteps
      /\ RemoveFile("boot") \in BodySteps /\ RemoveFile("record") \in BodySteps
      /\ Wait \in BodySteps
  BY StopStepTypes, BodyStepTypes DEF Verbs, Files
<1>4. (IF replace THEN <<Systemctl("disable", "boot"), RemoveFile("boot"),
                         RemoveFile("record")>> ELSE <<>>) \in Seq(BodySteps)
  BY <1>3
<1>5. <<ExternalUp, Wait>> \in Seq(BodySteps)
  BY <1>3
<1> QED
  BY <1>2, <1>4, <1>5, PlansJoin DEF PlanExternal

\* PlanUp in three parts: what comes before the runtime's own plan, that plan,
\* and its record and its line in the crontab.
Front(r, replace, boot, external) ==
  (IF Runtime[r] = "systemd" THEN <<>>
   ELSE IF IsCluster(r) /\ boot THEN <<Already(None)>>
   ELSE IF replace THEN <<>> ELSE <<Already(r)>>)
    \o (IF external THEN <<ExternalFirst>> ELSE <<>>)

Body(r, replace, boot) ==
  CASE Runtime[r] = "systemd" -> PlanNative(replace)
    [] IsExternal(r)          -> PlanExternal(replace)
    [] IsCluster(r)           -> PlanCluster(r, replace, boot)
    [] OTHER                  -> PlanDockerSolo(r, replace)

Back == <<Record, Cron(TRUE)>>

LEMMA BackType ==
  Back \in Seq(UpSteps) /\ Len(Back) = 2
<1>1. Record \in UpSteps /\ Cron(TRUE) \in UpSteps
  BY StopStepTypes, UpStepTypes
<1> QED
  BY <1>1, PairType, Zenon DEF Back

LEMMA PlanUpParts ==
  ASSUME NEW r \in Recipes, NEW replace \in BOOLEAN, NEW boot \in BOOLEAN,
         NEW external \in BOOLEAN
  PROVE  /\ PlanUp(r, replace, boot, external) =
              Front(r, replace, boot, external) \o Body(r, replace, boot) \o Back
         /\ Front(r, replace, boot, external) \in Seq(UpSteps)
         /\ Body(r, replace, boot) \in Seq(BodySteps)
<1> DEFINE already == IF Runtime[r] = "systemd" THEN <<>>
                      ELSE IF IsCluster(r) /\ boot THEN <<Already(None)>>
                      ELSE IF replace THEN <<>> ELSE <<Already(r)>>
           first == IF external THEN <<ExternalFirst>> ELSE <<>>
<1>1. Body(r, replace, boot) \in Seq(BodySteps)
  <2>1. CASE Runtime[r] = "systemd"
    BY <2>1, PlanNativeType DEF Body, IsExternal, IsCluster
  <2>2. CASE IsExternal(r)
    BY <2>2, PlanExternalType DEF Body, IsExternal, IsCluster
  <2>3. CASE IsCluster(r)
    BY <2>3, PlanClusterType DEF Body, IsExternal, IsCluster
  <2>4. CASE ~IsCluster(r) /\ ~IsExternal(r) /\ Runtime[r] # "systemd"
    BY <2>4, PlanDockerSoloType DEF Body
  <2> QED
    BY <2>1, <2>2, <2>3, <2>4
<1>2. already \in Seq(UpSteps) /\ first \in Seq(UpSteps)
  BY UpStepTypes, PlansJoin
<1>3. Front(r, replace, boot, external) = already \o first
  BY Zenon DEF Front
<1>4. PlanUp(r, replace, boot, external) =
        already \o first \o Body(r, replace, boot) \o Back
  BY Zenon DEF PlanUp, Body, Back
<1> HIDE DEF already, first
<1>5. already \o first \in Seq(UpSteps)
  BY <1>2, PlansJoin
<1> QED
  BY <1>1, <1>3, <1>4, <1>5

\* Whatever the runtime and the options, rack up's plan is of rack up's steps,
\* and never empty: it ends in the record and the crontab.
LEMMA PlanUpType ==
  ASSUME NEW r \in Recipes, NEW replace \in BOOLEAN, NEW boot \in BOOLEAN,
         NEW external \in BOOLEAN
  PROVE  /\ PlanUp(r, replace, boot, external) \in Seq(UpSteps)
         /\ Len(PlanUp(r, replace, boot, external)) \in Nat \ {0}
<1>1. Body(r, replace, boot) \in Seq(UpSteps)
  BY PlanUpParts, UpStepTypes, WiderPlan
<1> DEFINE before == Front(r, replace, boot, external) \o Body(r, replace, boot)
<1>2. before \in Seq(UpSteps) /\ PlanUp(r, replace, boot, external) = before \o Back
  BY <1>1, PlanUpParts, PlansJoin
<1> HIDE DEF before
<1>3. before \o Back \in Seq(UpSteps) /\ Len(before) \in Nat
  BY <1>2, BackType
<1>4. Len(before \o Back) = Len(before) + 2
  BY <1>2, BackType, JoinLen
<1> QED
  BY <1>2, <1>3, <1>4

LEMMA PlanDownType ==
  ASSUME NEW r \in Recipes \cup {None}, NEW bootSeen \in BOOLEAN,
         NEW unitSeen \in BOOLEAN
  PROVE  /\ PlanDown(r, bootSeen, unitSeen) \in Seq(StopSteps)
         /\ Len(PlanDown(r, bootSeen, unitSeen)) \in Nat \ {0}
<1> DEFINE runtime == IF r = None THEN "none" ELSE Runtime[r]
           targets == IF r = None THEN Len(NodeSeq) ELSE Span[r]
           stops   == [i \in 1..targets |-> Rm(NodeSeq[i], Containers(NodeSeq[i]))]
           boots   == IF runtime = "docker" \/ bootSeen
                        THEN <<Systemctl("disable", "boot"), RemoveFile("boot")>>
                        ELSE <<>>
           docker  == IF runtime \in {"none", "docker"} THEN stops \o boots ELSE <<>>
           native  == IF runtime = "systemd" \/ (runtime = "none" /\ unitSeen)
                        THEN <<Systemctl("disable --now", "unit"), RemoveFile("unit")>>
                        ELSE <<>>
           outside == IF runtime = "external" THEN <<ExternalDown>> ELSE <<>>
           last    == <<RemoveFile("record"), Cron(FALSE)>>
<1>1. Len(NodeSeq) \in Nat /\ targets \in 1..Len(NodeSeq) /\ targets \in Nat
  BY RackAssumption
<1>2. stops \in Seq(StopSteps)
  <2>1. \A i \in 1..targets : i \in 1..Len(NodeSeq)
    BY <1>1
  <2>2. \A i \in 1..targets : Rm(NodeSeq[i], Containers(NodeSeq[i])) \in StopSteps
    BY <2>1, NodesKnown, StopStepTypes
  <2> QED
    BY <2>2, <1>1
<1>3. boots \in Seq(StopSteps) /\ native \in Seq(StopSteps) /\ outside \in Seq(StopSteps)
  BY StopStepTypes, PlansJoin DEF Verbs, Files
<1>4. RemoveFile("record") \in StopSteps /\ Cron(FALSE) \in StopSteps
  BY StopStepTypes DEF Files
<1>5. PlanDown(r, bootSeen, unitSeen) = docker \o native \o outside \o last
  BY Zenon DEF PlanDown
<1>8. last \in Seq(StopSteps) /\ Len(last) = 2
  BY <1>4, PairType, Zenon
<1> HIDE DEF stops, boots, native, outside, last
<1>6. docker \in Seq(StopSteps)
  BY <1>2, <1>3, PlansJoin
<1> HIDE DEF docker
<1>7. docker \o native \o outside \in Seq(StopSteps)
  BY <1>3, <1>6, PlansJoin
<1> DEFINE before == docker \o native \o outside
<1> HIDE DEF before
<1>9. before \o last \in Seq(StopSteps) /\ Len(before) \in Nat
  BY <1>7, <1>8 DEF before
<1>10. Len(before \o last) = Len(before) + 2
  BY <1>7, <1>8, JoinLen DEF before
<1> QED
  BY <1>5, <1>9, <1>10 DEF before
\* The kinds of step that work on the command's recipe.
NeedsRecipe == {"up-already", "run", "launch", "write", "external-up", "wait", "record"}

LEMMA StepKinds ==
  /\ \A s \in StopSteps : s.kind \notin NeedsRecipe
  /\ \A s \in UpSteps : s.kind = "cron" => s.on \in BOOLEAN
<1>1. \A s \in StopSteps : s.kind \notin NeedsRecipe
  BY DEF StopSteps, NeedsRecipe
<1>2. \A s \in UpSteps : s.kind = "cron" => s.on \in BOOLEAN
  BY DEF UpSteps, BodySteps, BootSteps, StopSteps
<1> QED
  BY <1>1, <1>2

\* A command's plan is never empty, and a command with no recipe to work with
\* (rack down with nothing recorded) has no step that places one.
LEMMA PlanType ==
  ASSUME NEW j \in Jobs
  PROVE  /\ Plan(j) \in Seq(UpSteps) /\ Len(Plan(j)) \in Nat \ {0}
         /\ j \in UpJobs \/ Plan(j) \in Seq(StopSteps)
         /\ j.cmd = "up" \/ Plan(j) \in Seq(BootSteps)
<1>1. CASE j \in UpJobs /\ j.cmd = "up"
  <2>1. /\ j.recipe \in Recipes /\ j.replace \in BOOLEAN
        /\ j.boot \in BOOLEAN /\ j.external \in BOOLEAN
    BY <1>1 DEF UpJobs
  <2>2. Plan(j) = PlanUp(j.recipe, j.replace, j.boot, j.external)
    BY <1>1, <2>1 DEF Plan, UpPlan
  <2> QED
    BY <1>1, <2>1, <2>2, PlanUpType
<1>2. CASE j \in UpJobs /\ j.cmd = "refresh"
  <2>1. Cron(TRUE) \in BootSteps /\ BootUnitSteps \in Seq(BootSteps)
    BY StopStepTypes, BootStepTypes, BootUnitStepsType
  <2>2. Plan(j) = BootUnitSteps \o <<Cron(TRUE)>>
    BY <1>2 DEF Plan, PlanRefresh
  <2> QED
    <3> DEFINE last == <<Cron(TRUE)>>
    <3>1. last \in Seq(BootSteps) /\ Len(last) = 1
      BY <2>1, OneType, Zenon
    <3> HIDE DEF last
    <3>2. BootUnitSteps \o last \in Seq(BootSteps) /\ Len(BootUnitSteps) \in Nat
      BY <2>1, <3>1
    <3>3. Len(BootUnitSteps \o last) = Len(BootUnitSteps) + 1
      BY <2>1, <3>1, JoinLen
    <3>4. Plan(j) = BootUnitSteps \o last
      BY <2>2 DEF last
    <3> QED
      BY <1>2, <3>2, <3>3, <3>4, UpStepTypes, WiderPlan
<1>3. CASE j \in DownJobs
  <2>1. /\ j.cmd = "down" /\ j.recipe \in Recipes \cup {None}
        /\ j.bootSeen \in BOOLEAN /\ j.unitSeen \in BOOLEAN
    BY <1>3 DEF DownJobs
  <2>2. Plan(j) = PlanDown(j.recipe, j.bootSeen, j.unitSeen)
    BY <2>1 DEF Plan, DownPlan
  <2>3. Plan(j) \in Seq(StopSteps) /\ Len(Plan(j)) \in Nat \ {0}
    BY <2>1, <2>2, PlanDownType
  <2> QED
    BY <2>3, UpStepTypes, BootStepTypes, WiderPlan
<1>4. j \in UpJobs => j.cmd \in {"up", "refresh"}
  BY DEF UpJobs
<1> QED
  BY <1>1, <1>2, <1>3, <1>4 DEF Jobs

-----------------------------------------------------------------------------
(***************************************************************************)
(* TypeOK in two parts: what the commands work on, and where they are.     *)
(***************************************************************************)
RackOK ==
  /\ record \in Recipes \cup {None} /\ eng \in [Slots -> Engines \cup {None}]
  /\ bootUnit \in Recipes \cup {None} /\ bootOn \in BOOLEAN
  /\ unitFile \in Recipes \cup {None} /\ unitOn \in BOOLEAN
  /\ cron \in BOOLEAN /\ keep \in Recipes \cup {None}
  /\ faults \in 0..MaxFaults

ControlOK ==
  /\ job \in [Procs -> Jobs \cup {None}]
  /\ pc \in [Procs -> Nat] /\ alone \in [Procs -> BOOLEAN]
  /\ \A p \in Procs : IF Running(p) THEN pc[p] \in 1..Len(Plan(job[p]))
                                    ELSE pc[p] = 0

LEMMA TwoParts == TypeOK <=> RackOK /\ ControlOK
  BY DEF TypeOK, RackOK, ControlOK

LEMMA TwoPartsNext == TypeOK' <=> RackOK' /\ ControlOK'
  BY DEF TypeOK, RackOK, ControlOK, Running

LEMMA StepType ==
  ASSUME ControlOK, NEW p \in Procs, Running(p)
  PROVE  /\ job[p] \in Jobs /\ Step(p) \in UpSteps
         /\ Step(p).kind \in NeedsRecipe =>
              job[p] \in UpJobs /\ job[p].recipe \in Recipes
<1>1. job[p] \in Jobs /\ pc[p] \in 1..Len(Plan(job[p]))
  BY DEF ControlOK, Running
<1>2. /\ Plan(job[p]) \in Seq(UpSteps) /\ Len(Plan(job[p])) \in Nat
      /\ job[p] \in UpJobs \/ Plan(job[p]) \in Seq(StopSteps)
  BY <1>1, PlanType
<1>3. Step(p) \in UpSteps
  BY <1>1, <1>2 DEF Step
<1>4. CASE Plan(job[p]) \in Seq(StopSteps)
  <2>1. Step(p) \in StopSteps
    BY <1>1, <1>2, <1>4 DEF Step
  <2> QED
    BY <1>1, <1>3, <2>1, StepKinds
<1>5. job[p] \in UpJobs => job[p].recipe \in Recipes
  BY DEF UpJobs
<1> QED
  BY <1>1, <1>2, <1>3, <1>4, <1>5

LEMMA EndsTyped ==
  ASSUME ControlOK, NEW p \in Procs, Ends(p)
  PROVE  ControlOK'
<1>1. /\ job' \in [Procs -> Jobs \cup {None}] /\ pc' \in [Procs -> Nat]
      /\ alone' \in [Procs -> BOOLEAN]
  BY DEF ControlOK, Ends
<1>2. ASSUME NEW q \in Procs
      PROVE  IF job'[q] # None THEN pc'[q] \in 1..Len(Plan(job'[q])) ELSE pc'[q] = 0
  <2>1. CASE q = p
    BY <2>1 DEF ControlOK, Ends
  <2>2. CASE q # p
    BY <2>2 DEF ControlOK, Ends, Running
  <2> QED
    BY <2>1, <2>2
<1> QED
  BY <1>1, <1>2 DEF ControlOK, Running

\* p's job is the same and its step another one of the plan.
LEMMA MovesTyped ==
  ASSUME ControlOK, NEW p \in Procs, Running(p),
         NEW k \in 1..Len(Plan(job[p])),
         pc' = [pc EXCEPT ![p] = k], UNCHANGED <<job, alone>>
  PROVE  ControlOK'
<1>1. job[p] \in Jobs
  BY DEF ControlOK, Running
<1>2. k \in Nat
  BY <1>1, PlanType
<1>3. /\ job' \in [Procs -> Jobs \cup {None}] /\ pc' \in [Procs -> Nat]
      /\ alone' \in [Procs -> BOOLEAN]
  BY <1>2 DEF ControlOK
<1>4. ASSUME NEW q \in Procs
      PROVE  IF job'[q] # None THEN pc'[q] \in 1..Len(Plan(job'[q])) ELSE pc'[q] = 0
  <2>1. CASE q = p
    BY <2>1 DEF ControlOK, Running
  <2>2. CASE q # p
    BY <2>2 DEF ControlOK, Running
  <2> QED
    BY <2>1, <2>2
<1> QED
  BY <1>3, <1>4 DEF ControlOK, Running

LEMMA GoesTyped ==
  ASSUME ControlOK, NEW p \in Procs, Running(p), Goes(p)
  PROVE  ControlOK'
<1>1. CASE LastStep(p)
  BY <1>1, EndsTyped DEF Goes
<1>2. CASE ~LastStep(p)
  <2>1. /\ pc[p] \in 1..Len(Plan(job[p])) /\ pc[p] # Len(Plan(job[p]))
        /\ Len(Plan(job[p])) \in Nat
    BY <1>2, StepType, PlanType DEF ControlOK, LastStep
  <2>2. pc[p] + 1 \in 1..Len(Plan(job[p]))
    BY <2>1
  <2>3. pc' = [pc EXCEPT ![p] = pc[p] + 1] /\ UNCHANGED <<job, alone>>
    BY <1>2 DEF Goes
  <2> QED
    BY <2>2, <2>3, MovesTyped
<1> QED
  BY <1>1, <1>2

LEMMA SkipsTyped ==
  ASSUME ControlOK, NEW p \in Procs, Running(p), SkipsToEnd(p)
  PROVE  ControlOK'
<1>1. Len(Plan(job[p])) \in 1..Len(Plan(job[p]))
  BY StepType, PlanType
<1> QED
  BY <1>1, MovesTyped DEF SkipsToEnd

\* p is at the first step of the plan of j.
LEMMA PutsTyped ==
  ASSUME ControlOK, NEW p \in Procs, NEW j \in Jobs,
         job' = [job EXCEPT ![p] = j], pc' = [pc EXCEPT ![p] = 1],
         alone' \in [Procs -> BOOLEAN]
  PROVE  ControlOK'
<1>1. 1 \in 1..Len(Plan(j))
  BY PlanType
<1>2. job' \in [Procs -> Jobs \cup {None}] /\ pc' \in [Procs -> Nat]
  BY DEF ControlOK
<1>3. ASSUME NEW q \in Procs
      PROVE  IF job'[q] # None THEN pc'[q] \in 1..Len(Plan(job'[q])) ELSE pc'[q] = 0
  <2>1. CASE q = p
    BY <1>1, <2>1, NoneAssumption DEF ControlOK
  <2>2. CASE q # p
    BY <2>2 DEF ControlOK, Running
  <2> QED
    BY <2>1, <2>2
<1> QED
  BY <1>2, <1>3 DEF ControlOK, Running

LEMMA StartsTyped ==
  ASSUME ControlOK, NEW p \in Procs, NEW j \in Jobs, Starts(p, j)
  PROVE  ControlOK'
<1>1. ASSUME NEW q \in Procs, NEW others
      PROVE  (IF q = p THEN others = {} ELSE alone[q] /\ q \notin others) \in BOOLEAN
  BY DEF ControlOK
<1>2. alone' \in [Procs -> BOOLEAN]
  BY <1>1 DEF Starts
<1> QED
  BY <1>2, PutsTyped DEF Starts

-----------------------------------------------------------------------------
(***************************************************************************)
(* Every step keeps the types.                                             *)
(***************************************************************************)
\* What can be in a slot, and what is done to it.
LEMMA SlotTypes ==
  ASSUME eng \in [Slots -> Engines \cup {None}]
  PROVE  /\ \A s : \A r \in Recipes, phase \in Phases :
              Put(s, r, phase) => eng' \in [Slots -> Engines \cup {None}]
         /\ \A slots : Clear(slots) => eng' \in [Slots -> Engines \cup {None}]
         /\ \A s \in Slots : Present(s) =>
              eng[s].recipe \in Recipes /\ eng[s].phase \in Phases
<1>1. \A s : \A r \in Recipes, phase \in Phases :
         Put(s, r, phase) => eng' \in [Slots -> Engines \cup {None}]
  <2>1. \A r \in Recipes, phase \in Phases : [recipe |-> r, phase |-> phase] \in Engines
    BY DEF Engines
  <2> QED
    BY <2>1 DEF Put
<1>2. \A slots : Clear(slots) => eng' \in [Slots -> Engines \cup {None}]
  BY DEF Clear
<1>3. \A s \in Slots : Present(s) => eng[s].recipe \in Recipes /\ eng[s].phase \in Phases
  BY DEF Present, Engines
<1> QED
  BY <1>1, <1>2, <1>3

LEMMA FaultTyped ==
  ASSUME faults \in 0..MaxFaults, Fault
  PROVE  faults' \in 0..MaxFaults
  BY RackAssumption DEF Fault

\* The steps of a plan as they are meant to go.
LEMMA ExecutesTyped ==
  ASSUME RackOK, ControlOK, NEW p \in Procs, Executes(p)
  PROVE  RackOK' /\ ControlOK'
<1> DEFINE s == Step(p)
           r == job[p].recipe
<1>1. /\ Running(p) /\ s \in UpSteps
      /\ s.kind \in NeedsRecipe => job[p] \in UpJobs /\ r \in Recipes
      /\ s.kind = "cron" => s.on \in BOOLEAN
  BY StepType, StepKinds DEF Executes
<1>2. \/ DoUpAlready(p, s) \/ DoExternalFirst(p, s) \/ DoRm(p, s) \/ DoFree(p, s)
      \/ DoPrepare(p, s) \/ DoRunContainer(p, s) \/ DoLaunch(p, s)
      \/ DoWrite(p, s) \/ DoRemove(p, s)
      \/ DoSystemctlBoot(p, s) \/ DoSystemctlStop(p, s) \/ DoSystemctlStart(p, s)
      \/ DoExternalUp(p, s) \/ DoExternalDown(p, s)
      \/ DoWait(p, s) \/ DoWaitDead(p, s) \/ DoWaitTimeout(p, s)
      \/ DoRecord(p, s) \/ DoCron(p, s)
  BY DEF Executes
<1>3. /\ Goes(p) => ControlOK'
      /\ Ends(p) => ControlOK'
      /\ SkipsToEnd(p) => ControlOK'
  BY <1>1, GoesTyped, EndsTyped, SkipsTyped
<1>4. /\ "running" \in Phases /\ "idle" \in Phases
  BY DEF Phases
<1> HIDE DEF s
<1>5. CASE DoUpAlready(p, s)
  <2>1. RackOK'
    BY <1>5 DEF DoUpAlready, RackOK, rackVars
  <2>2. CASE Goes(p) \/ SkipsToEnd(p)
    BY <1>3, <2>1, <2>2
  <2>3. CASE /\ job' = [job EXCEPT ![p].cmd = "refresh"]
             /\ pc'  = [pc EXCEPT ![p] = 1] /\ UNCHANGED alone
             /\ job[p] \in UpJobs
    <3> DEFINE j == [job[p] EXCEPT !.cmd = "refresh"]
    <3>1. j \in Jobs
      BY <2>3 DEF UpJobs, Jobs
    <3> HIDE DEF j
    <3>2. job' = [job EXCEPT ![p] = j]
      BY <2>3 DEF j
    <3>3. alone' \in [Procs -> BOOLEAN]
      BY <2>3 DEF ControlOK
    <3>4. ControlOK'
      BY <2>3, <3>1, <3>2, <3>3, PutsTyped
    <3> QED
      BY <2>1, <3>4
  <2> QED
    BY <1>1, <1>5, <2>2, <2>3 DEF DoUpAlready, NeedsRecipe
<1>6. CASE DoExternalFirst(p, s)
  BY <1>3, <1>6, SlotTypes DEF DoExternalFirst, RackOK, fileVars
<1>7. CASE DoRm(p, s)
  BY <1>3, <1>7, SlotTypes DEF DoRm, RackOK, engOnly
<1>8. CASE DoFree(p, s)
  BY <1>3, <1>8 DEF DoFree, RackOK, rackVars
<1>9. CASE DoPrepare(p, s)
  BY <1>3, <1>9 DEF DoPrepare, RackOK, rackVars
<1>10. CASE DoRunContainer(p, s)
  BY <1>1, <1>3, <1>4, <1>10, SlotTypes DEF DoRunContainer, RackOK, engOnly, NeedsRecipe
<1>11. CASE DoLaunch(p, s)
  BY <1>1, <1>3, <1>4, <1>11, SlotTypes DEF DoLaunch, RackOK, engOnly, NeedsRecipe
<1>12. CASE DoWrite(p, s)
  BY <1>1, <1>3, <1>12 DEF DoWrite, RackOK, NeedsRecipe
<1>13. CASE DoRemove(p, s)
  BY <1>3, <1>13 DEF DoRemove, RackOK
<1>14. CASE DoSystemctlBoot(p, s)
  BY <1>3, <1>14 DEF DoSystemctlBoot, RackOK
<1>15. CASE DoSystemctlStop(p, s)
  BY <1>3, <1>15, SlotTypes DEF DoSystemctlStop, RackOK
<1>16. CASE DoSystemctlStart(p, s)
  BY <1>3, <1>4, <1>16, SlotTypes DEF DoSystemctlStart, RackOK
<1>17. CASE DoExternalUp(p, s)
  BY <1>1, <1>3, <1>4, <1>17, SlotTypes DEF DoExternalUp, RackOK, engOnly, NeedsRecipe
<1>18. CASE DoExternalDown(p, s)
  BY <1>3, <1>18, SlotTypes DEF DoExternalDown, RackOK, engOnly
<1>19. CASE DoWait(p, s)
  BY <1>3, <1>19 DEF DoWait, RackOK, rackVars
<1>20. CASE DoWaitDead(p, s)
  BY <1>3, <1>20, SlotTypes DEF DoWaitDead, GivesUp, RackOK, engOnly
<1>21. CASE DoWaitTimeout(p, s)
  BY <1>3, <1>21, SlotTypes, FaultTyped DEF DoWaitTimeout, GivesUp, RackOK, fileVars
<1>22. CASE DoRecord(p, s)
  BY <1>1, <1>3, <1>22 DEF DoRecord, RackOK, fileVars, NeedsRecipe
<1>23. CASE DoCron(p, s)
  BY <1>1, <1>3, <1>23 DEF DoCron, RackOK, fileVars
<1> QED
  BY <1>2, <1>5, <1>6, <1>7, <1>8, <1>9, <1>10, <1>11, <1>12, <1>13, <1>14,
     <1>15, <1>16, <1>17, <1>18, <1>19, <1>20, <1>21, <1>22, <1>23
\* The steps that do not go as meant.
LEMMA FailsTyped ==
  ASSUME RackOK, ControlOK, NEW p \in Procs, Fails(p)
  PROVE  RackOK' /\ ControlOK'
<1> DEFINE s == Step(p)
<1>1. Running(p) /\ (StepFails(p, s) \/ StepIgnored(p, s) \/ LooksFree(p, s)
                       \/ Detach(p, s) \/ Killed(p))
  BY DEF Fails, Killed
<1>2. /\ Goes(p) => ControlOK'
      /\ Ends(p) => ControlOK'
      /\ SkipsToEnd(p) => ControlOK'
  BY <1>1, GoesTyped, EndsTyped, SkipsTyped
<1> HIDE DEF s
<1>3. CASE StepFails(p, s)
  BY <1>2, <1>3, FaultTyped DEF StepFails, RackOK, rackVars
<1>4. CASE StepIgnored(p, s)
  BY <1>2, <1>4, FaultTyped DEF StepIgnored, RackOK, rackVars
<1>5. CASE LooksFree(p, s)
  BY <1>2, <1>5, FaultTyped DEF LooksFree, RackOK, rackVars
<1>6. CASE Detach(p, s)
  BY <1>2, <1>6 DEF Detach, RackOK, rackVars
<1>7. CASE Killed(p)
  BY <1>2, <1>7, FaultTyped DEF Killed, RackOK, rackVars
<1> QED
  BY <1>1, <1>3, <1>4, <1>5, <1>6, <1>7

\* Commands start with jobs.
LEMMA JobTypes ==
  ASSUME RackOK
  PROVE  /\ \A r \in Recipes, replace, boot \in BOOLEAN : UpJob(r, replace, boot) \in Jobs
         /\ DownJob \in Jobs
<1>1. record \in Recipes \cup {None}
  BY DEF RackOK
<1>2. (record # None /\ IsExternal(record)) \in BOOLEAN
  BY DEF IsExternal
<1>3. \A r \in Recipes, replace, boot \in BOOLEAN : UpJob(r, replace, boot) \in UpJobs
  BY <1>2 DEF UpJob, UpJobs
<1>4. DownJob \in DownJobs
  BY <1>1 DEF DownJob, DownJobs
<1> QED
  BY <1>3, <1>4 DEF Jobs

LEMMA CommandsTyped ==
  ASSUME RackOK, ControlOK,
         KeepDecides \/ KeepUp \/ \E p \in Procs : UserUp(p) \/ UserDown(p)
  PROVE  RackOK' /\ ControlOK'
<1>1. CASE KeepDecides
  BY <1>1 DEF KeepDecides, RackOK, ControlOK, Running
<1>2. CASE KeepUp
  <2>1. keep \in Recipes /\ Keeper \in Procs
    BY <1>2 DEF KeepUp, RackOK, Procs
  <2>2. ControlOK'
    BY <1>2, <2>1, JobTypes, StartsTyped DEF KeepUp
  <2> QED
    BY <1>2, <2>2 DEF KeepUp, RackOK
<1>3. ASSUME NEW p \in Procs, UserUp(p)
      PROVE  RackOK' /\ ControlOK'
  <2>1. ControlOK'
    BY <1>3, JobTypes, StartsTyped DEF UserUp
  <2> QED
    BY <1>3, <2>1 DEF UserUp, RackOK, rackVars
<1>4. ASSUME NEW p \in Procs, UserDown(p)
      PROVE  RackOK' /\ ControlOK'
  <2>1. ControlOK'
    BY <1>4, JobTypes, StartsTyped DEF UserDown
  <2> QED
    BY <1>4, <2>1 DEF UserDown, RackOK, rackVars
<1> QED
  BY <1>1, <1>2, <1>3, <1>4

\* Engines and reboots.
LEMMA EnvironmentTyped ==
  ASSUME RackOK, ControlOK, Environment
  PROVE  RackOK' /\ ControlOK'
<1>1. /\ {"idle", "running", "up", "exited"} \subseteq Phases
      /\ eng \in [Slots -> Engines \cup {None}]
  BY DEF Phases, RackOK
<1>2. UNCHANGED <<job, pc, alone>> => ControlOK'
  BY DEF ControlOK, Running
<1>3. ASSUME NEW s \in Slots, ComesUp(s)
      PROVE  RackOK' /\ ControlOK'
  BY <1>1, <1>2, <1>3, SlotTypes DEF ComesUp, CanComeUp, RackOK, engOnly
<1>4. ASSUME NEW s \in Slots, Dies(s)
      PROVE  RackOK' /\ ControlOK'
  BY <1>1, <1>2, <1>4, SlotTypes, FaultTyped DEF Dies, RackOK, fileVars
<1>5. ASSUME NEW s \in Slots, Exits(s)
      PROVE  RackOK' /\ ControlOK'
  BY <1>1, <1>2, <1>5, SlotTypes, FaultTyped DEF Exits, RackOK, fileVars
<1>6. CASE Reboot
  <2> DEFINE boots == bootOn /\ Linger /\ bootUnit # None
             j     == UpJob(bootUnit, TRUE, TRUE)
  <2>1. ASSUME NEW s \in Slots PROVE AfterReboot(s) \in Engines \cup {None}
    <3>1. CASE AfterReboot(s) = [recipe |-> unitFile, phase |-> "running"] /\ unitFile # None
      BY <1>1, <3>1 DEF RackOK, Engines
    <3>2. CASE Active(s) /\ \E phase \in {"idle", "running"} :
                 AfterReboot(s) = [eng[s] EXCEPT !.phase = phase]
      BY <1>1, <3>2 DEF Active, Present, Engines
    <3>3. CASE AfterReboot(s) \in {eng[s], None}
      BY <1>1, <3>3
    <3> QED
      BY <3>1, <3>2, <3>3 DEF AfterReboot
  <2>2. eng' \in [Slots -> Engines \cup {None}]
    BY <1>6, <2>1 DEF Reboot
  <2>3. boots => j \in Jobs
    <3>1. bootUnit # None => bootUnit \in Recipes
      BY DEF RackOK
    <3>2. TRUE \in BOOLEAN
      OBVIOUS
    <3> QED
      BY <3>1, <3>2, JobTypes, Zenon
  <2> HIDE DEF j, boots
  <2>4. /\ job' = [p \in Procs |-> IF p = Booter /\ boots THEN j ELSE None]
        /\ pc'  = [p \in Procs |-> IF p = Booter /\ boots THEN 1 ELSE 0]
        /\ alone' = [p \in Procs |-> p = Booter]
    BY <1>6 DEF Reboot, j, boots
  <2>5. ControlOK'
    <3>1. boots => 1 \in 1..Len(Plan(j))
      BY <2>3, PlanType
    <3> QED
      BY <2>3, <2>4, <3>1, NoneAssumption DEF ControlOK, Running
  <2> QED
    BY <1>6, <2>2, <2>5, FaultTyped DEF Reboot, RackOK, fileVars
<1> QED
  BY <1>3, <1>4, <1>5, <1>6 DEF Environment

LEMMA InitTyped == Init => TypeOK
<1>1. Init => RackOK
  <2>1. 0 \in 0..MaxFaults
    BY RackAssumption
  <2>2. Init => eng \in [Slots -> Engines \cup {None}]
    BY DEF Init
  <2> QED
    BY <2>1, <2>2 DEF Init, RackOK
<1>2. Init => ControlOK
  BY DEF Init, ControlOK, Running
<1> QED
  BY <1>1, <1>2, TwoParts

LEMMA NextTyped == TypeOK /\ [Next]_vars => TypeOK'
<1> SUFFICES ASSUME RackOK, ControlOK, [Next]_vars
             PROVE  RackOK' /\ ControlOK'
  BY TwoParts, TwoPartsNext
<1>1. ASSUME NEW p \in Procs, Executes(p) \/ Fails(p)
      PROVE  RackOK' /\ ControlOK'
  BY <1>1, ExecutesTyped, FailsTyped
<1>2. CASE KeepDecides \/ KeepUp \/ \E p \in Procs : UserUp(p) \/ UserDown(p)
  BY <1>2, CommandsTyped
<1>3. CASE Environment
  BY <1>3, EnvironmentTyped
<1>4. CASE UNCHANGED vars
  BY <1>4 DEF vars, RackOK, ControlOK, Running
<1> QED
  BY <1>1, <1>2, <1>3, <1>4 DEF Next

\* What the commands, the engines and the reboots do never takes the state out
\* of its types, nor a command off its plan (Executor.execute).
THEOREM ServeTypeCorrect == Spec => []TypeOK
  BY InitTyped, NextTyped, PTL DEF Spec

-----------------------------------------------------------------------------
(***************************************************************************)
(* A recorded external engine is seen by no guard, so a plan that starts   *)
(* while one is recorded must stop it and remove its record before its own *)
(* engine starts (stop_external_first, EXTERNAL_DOWN).  For every rack and *)
(* every set of recipes: the order of the steps in every plan, and that    *)
(* nothing a command that runs alone meets brings the record back.         *)
(***************************************************************************)
(***************************************************************************)
(* The order of rack up's steps.                                           *)
(***************************************************************************)
\* Only the last step but one records; nothing starts before a step that deals
\* with a recorded external engine, and there is one if one was recorded.
Ordered(P, external) ==
  /\ Len(P) \in Nat \ {0, 1} /\ P[Len(P)].kind = "cron"
  /\ \A i \in 1..Len(P) - 2 : P[i].kind # "record"
  /\ \A i \in 1..Len(P) : P[i].kind = "external-first" =>
        \A k \in 1..i : ~Places(P[k])
  /\ external => \E i \in 1..Len(P) : P[i].kind = "external-first"

LEMMA PlanUpOrder ==
  ASSUME NEW r \in Recipes, NEW replace \in BOOLEAN, NEW boot \in BOOLEAN,
         NEW external \in BOOLEAN
  PROVE  Ordered(PlanUp(r, replace, boot, external), external)
<1> DEFINE front == Front(r, replace, boot, external)
           body  == Body(r, replace, boot)
           P     == PlanUp(r, replace, boot, external)
           n     == Len(P)
<1>1. body \in Seq(BodySteps) /\ P = front \o body \o Back /\ front \in Seq(UpSteps)
  BY PlanUpParts
<1>2. /\ Len(front) \in Nat
      /\ \A i \in 1..Len(front) : front[i].kind \in {"up-already", "external-first"}
      /\ external => Len(front) # 0 /\ front[Len(front)].kind = "external-first"
  BY <1>1 DEF Already, ExternalFirst, Front
<1>3. body \in Seq(UpSteps) /\ Len(body) \in Nat
      /\ \A i \in 1..Len(body) : body[i].kind \notin {"record", "external-first"}
  <2>1. \A s \in BodySteps : s.kind \notin {"record", "external-first"}
    BY DEF BodySteps, BootSteps, StopSteps
  <2>2. \A i \in 1..Len(body) : body[i] \in BodySteps
    BY <1>1
  <2>3. body \in Seq(UpSteps) /\ Len(body) \in Nat
    BY <1>1, UpStepTypes, WiderPlan
  <2> QED
    BY <2>1, <2>2, <2>3
<1> HIDE DEF body, front
<1> DEFINE before == front \o body
<1>4. /\ before \in Seq(UpSteps) /\ Len(before) \in Nat
      /\ Len(before) = Len(front) + Len(body)
      /\ \A i \in 1..Len(front) : before[i] = front[i]
      /\ \A i \in 1..Len(body) : before[Len(front) + i] = body[i]
  <2>1. /\ before \in Seq(UpSteps) /\ Len(before) \in Nat
        /\ Len(before) = Len(front) + Len(body)
    BY <1>1, <1>3
  <2>2. \A i \in 1..Len(front) : before[i] = front[i]
    BY <1>1, <1>3, JoinLeft
  <2>3. \A i \in 1..Len(body) : before[Len(front) + i] = body[i]
    BY <1>1, <1>3, JoinRight
  <2> QED
    BY <2>1, <2>2, <2>3
<1>5. P = before \o Back
  BY <1>1
<1> HIDE DEF before, P
<1>6. n = Len(before) + 2
  <2>1. before \in Seq(UpSteps)
    BY <1>4
  <2>2. Len(before \o Back) = Len(before) + 2
    BY <2>1, BackType, JoinLen
  <2> QED
    BY <1>5, <2>2
<1>7. \A i \in 1..Len(before) : P[i] = before[i]
  BY <1>4, <1>5, BackType, JoinLeft
<1>8. /\ \A i \in 1..Len(front) : i \in 1..Len(before)
      /\ \A i \in 1..Len(body) : Len(front) + i \in 1..Len(before)
  BY <1>2, <1>3, <1>4
<1>9. n = Len(front) + Len(body) + 2
  BY <1>4, <1>6
<1>10. n \in Nat \ {0, 1}
  BY <1>2, <1>3, <1>9
<1>11. P[n].kind = "cron"
  <2> DEFINE c == Cron(TRUE)
  <2>1. before \in Seq(UpSteps) /\ Record \in UpSteps /\ c \in UpSteps
    BY <1>4, UpStepTypes, StopStepTypes
  <2>2. Back = <<Record, c>> /\ c.kind = "cron"
    BY DEF Back, Cron
  <2> HIDE DEF c
  <2>3. (before \o <<Record, c>>)[Len(before) + 2] = c
    BY <2>1, LastOfPair
  <2> QED
    BY <1>5, <1>6, <2>2, <2>3
<1>12. \A i \in 1..n - 2 :
          \/ i \in 1..Len(front) /\ P[i] = front[i]
          \/ P[i].kind \notin {"record", "external-first"}
  <2> SUFFICES ASSUME NEW i \in 1..n - 2, i \notin 1..Len(front)
               PROVE  P[i].kind \notin {"record", "external-first"}
    BY <1>7, <1>4, <1>8
  <2>1. PICK k \in 1..Len(body) : i = Len(front) + k
    <3>1. i - Len(front) \in 1..Len(body) /\ i = Len(front) + (i - Len(front))
      BY <1>2, <1>3, <1>9
    <3> QED
      BY <3>1
  <2>2. P[i] = before[i]
    <3>1. i \in 1..Len(before)
      BY <1>4, <1>6
    <3> QED
      BY <1>7, <3>1
  <2>3. before[i] = body[k]
    BY <1>4, <2>1
  <2> QED
    BY <1>3, <2>2, <2>3
<1>13. P[n - 1].kind = "record"
  <2> DEFINE c == Cron(TRUE)
  <2>1. before \in Seq(UpSteps) /\ Record \in UpSteps /\ c \in UpSteps
    BY <1>4, UpStepTypes, StopStepTypes
  <2>2. Back = <<Record, c>> /\ Record.kind = "record"
    BY DEF Back, Record
  <2> HIDE DEF c
  <2>3. (before \o <<Record, c>>)[Len(before) + 1] = Record
    BY <2>1, FirstOfPair
  <2>4. n - 1 = Len(before) + 1
    BY <1>4, <1>6
  <2> QED
    BY <1>5, <2>2, <2>3, <2>4
<1>14. \A i \in 1..n - 2 : P[i].kind # "record"
  BY <1>2, <1>12
<1>15. ASSUME NEW i \in 1..n, P[i].kind = "external-first"
       PROVE  \A k \in 1..i : ~Places(P[k])
  <2>1. i \in 1..Len(front)
    <3>1. i # n /\ i # n - 1
      BY <1>11, <1>13, <1>15
    <3> QED
      BY <1>10, <1>12, <1>15, <3>1
  <2>2. \A k \in 1..Len(front) : ~Places(P[k])
    BY <1>2, <1>7, <1>4, <1>8 DEF Places
  <2> QED
    BY <1>2, <2>1, <2>2
<1>16. external => \E i \in 1..n : P[i].kind = "external-first"
  <2> SUFFICES ASSUME external PROVE P[Len(front)].kind = "external-first" /\ Len(front) \in 1..n
    OBVIOUS
  <2>1. Len(front) \in 1..Len(front) /\ Len(front) \in 1..n
    BY <1>2, <1>3, <1>9
  <2> QED
    BY <1>2, <1>7, <1>4, <1>8, <2>1
<1> QED
  BY <1>10, <1>11, <1>14, <1>15, <1>16 DEF P, Ordered

\* Only a rack up places engines.
LEMMA OnlyUpPlaces == \A s \in BootSteps : ~Places(s)
  BY DEF BootSteps, StopSteps, Verbs, Places

-----------------------------------------------------------------------------
(***************************************************************************)
(* The inductive invariant.                                                *)
(***************************************************************************)
\* What `alone` says of the commands that run now.
Alone == \A p \in Procs : alone[p] /\ Running(p) => \A q \in Procs \ {p} : ~Running(q)

NoExternal == record = None \/ ~IsExternal(record)

\* p has no step left that deals with a recorded external engine.
Faced(p) ==
  \A i \in pc[p]..Len(Plan(job[p])) : Plan(job[p])[i].kind # "external-first"

\* From then on until it has recorded its own engine, none is recorded.
Dealt ==
  \A p \in Procs :
    (/\ alone[p] /\ Running(p) /\ job[p].cmd = "up"
     /\ pc[p] < Len(Plan(job[p])) /\ Faced(p)) => NoExternal

XInv == TypeOK /\ Alone /\ Dealt

LEMMA PlanOrder ==
  ASSUME NEW j \in Jobs, j.cmd = "up"
  PROVE  Ordered(Plan(j), j.external)
<1>1. j \in UpJobs
  BY DEF Jobs, DownJobs
<1>2. /\ j.recipe \in Recipes /\ j.replace \in BOOLEAN
      /\ j.boot \in BOOLEAN /\ j.external \in BOOLEAN
  BY <1>1 DEF UpJobs
<1>3. Plan(j) = PlanUp(j.recipe, j.replace, j.boot, j.external)
  BY <1>2 DEF Plan, UpPlan
<1> QED
  BY <1>2, <1>3, PlanUpOrder

LEMMA XInvImplies ==
  ASSUME XInv
  PROVE  ExternalDealtWith
<1> SUFFICES ASSUME NEW p \in Procs, alone[p], Starting(p)
             PROVE  NoExternal
  BY DEF ExternalDealtWith, NoExternal
<1> DEFINE P == Plan(job[p])
<1>1. ControlOK /\ Running(p) /\ Places(P[pc[p]])
  BY TwoParts DEF XInv, Starting, Step
<1>2. job[p] \in Jobs /\ pc[p] \in 1..Len(P) /\ P \in Seq(UpSteps) /\ Len(P) \in Nat
  BY <1>1, StepType, PlanType DEF ControlOK
<1>3. job[p].cmd = "up"
  <2> SUFFICES ASSUME P \in Seq(BootSteps) PROVE FALSE
    BY <1>2, PlanType
  <2>1. P[pc[p]] \in BootSteps
    BY <1>2
  <2> QED
    BY <1>1, <2>1, OnlyUpPlaces
<1>4. pc[p] # Len(P)
  BY <1>1, <1>2, <1>3, PlanOrder DEF Places, Ordered
<1>5. Faced(p)
  <2> SUFFICES ASSUME NEW i \in pc[p]..Len(P), P[i].kind = "external-first"
               PROVE  FALSE
    BY DEF Faced
  <2>1. i \in 1..Len(P) /\ pc[p] \in 1..i
    BY <1>2
  <2> QED
    BY <1>1, <1>2, <1>3, <2>1, PlanOrder DEF Ordered
<1> QED
  BY <1>1, <1>2, <1>3, <1>4, <1>5 DEF XInv, Dealt

-----------------------------------------------------------------------------
(***************************************************************************)
(* What a step of command p is, whatever its kind.                         *)
(***************************************************************************)
\* It ends, skips to its last step, turns into a refresh, or goes on.
MovesOn(p) ==
  \/ job'[p] = None
  \/ job'[p].cmd # "up"
  \/ job'[p] = job[p] /\ pc'[p] = Len(Plan(job[p]))
  \/ job'[p] = job[p] /\ pc'[p] = pc[p] + 1

Others(p) ==
  /\ \A q \in Procs \ {p} : job'[q] = job[q] /\ pc'[q] = pc[q]
  /\ alone' = alone

\* The record is written by the step that records only; the step that deals
\* with an external engine goes on only when none is recorded.
Records(p) ==
  /\ Step(p).kind # "record" => record' \in {record, None}
  /\ Step(p).kind = "external-first" /\ job'[p] # None => NoExternal'

Shape(p) == Running(p) /\ MovesOn(p) /\ Others(p) /\ Records(p)

LEMMA EndsShape ==
  ASSUME ControlOK, NEW p \in Procs
  PROVE  /\ Ends(p) => MovesOn(p) /\ Others(p) /\ job'[p] = None
         /\ SkipsToEnd(p) => MovesOn(p) /\ Others(p)
         /\ Goes(p) => MovesOn(p) /\ Others(p)
<1>1. Ends(p) => MovesOn(p) /\ Others(p) /\ job'[p] = None
  BY DEF ControlOK, Ends, MovesOn, Others
<1>2. SkipsToEnd(p) => MovesOn(p) /\ Others(p)
  BY DEF ControlOK, SkipsToEnd, MovesOn, Others
<1>3. ~LastStep(p) /\ Goes(p) => MovesOn(p) /\ Others(p)
  BY DEF ControlOK, Goes, MovesOn, Others
<1> QED
  BY <1>1, <1>2, <1>3 DEF Goes

LEMMA ExecutesShape ==
  ASSUME ControlOK, NEW p \in Procs, Executes(p)
  PROVE  Shape(p)
<1> DEFINE s == Step(p)
           refreshes == /\ job' = [job EXCEPT ![p].cmd = "refresh"]
                        /\ UNCHANGED alone /\ pc' = [pc EXCEPT ![p] = 1]
<1>1. Running(p) /\ job[p] \in Jobs /\ (s.kind \in NeedsRecipe => job[p] \in UpJobs)
  BY StepType DEF Executes
<1>2. \/ DoUpAlready(p, s) \/ DoExternalFirst(p, s) \/ DoRm(p, s) \/ DoFree(p, s)
      \/ DoPrepare(p, s) \/ DoRunContainer(p, s) \/ DoLaunch(p, s)
      \/ DoWrite(p, s) \/ DoRemove(p, s)
      \/ DoSystemctlBoot(p, s) \/ DoSystemctlStop(p, s) \/ DoSystemctlStart(p, s)
      \/ DoExternalUp(p, s) \/ DoExternalDown(p, s)
      \/ DoWait(p, s) \/ DoWaitDead(p, s) \/ DoWaitTimeout(p, s)
      \/ DoRecord(p, s) \/ DoCron(p, s)
  BY DEF Executes
<1> HIDE DEF s
<1>3. \/ Goes(p) \/ Ends(p) \/ SkipsToEnd(p)
      \/ refreshes /\ s.kind = "up-already"
  BY <1>2, Zenon
     DEF DoUpAlready, DoExternalFirst, DoRm, DoFree, DoPrepare, DoRunContainer,
         DoLaunch, DoWrite, DoRemove, DoSystemctlBoot, DoSystemctlStop,
         DoSystemctlStart, DoExternalUp, DoExternalDown, DoWait, DoWaitDead,
         DoWaitTimeout, GivesUp, DoRecord, DoCron
<1>4. MovesOn(p) /\ Others(p)
  <2>1. CASE Goes(p) \/ Ends(p) \/ SkipsToEnd(p)
    BY <2>1, EndsShape
  <2>2. CASE refreshes /\ s.kind = "up-already"
    <3>1. job[p] \in UpJobs
      BY <1>1, <2>2 DEF NeedsRecipe
    <3>2. [job[p] EXCEPT !.cmd = "refresh"].cmd = "refresh"
      BY <3>1 DEF UpJobs
    <3>3. job'[p] = [job[p] EXCEPT !.cmd = "refresh"]
      BY <2>2 DEF ControlOK
    <3>4. MovesOn(p)
      BY <3>2, <3>3 DEF MovesOn
    <3>5. Others(p)
      BY <2>2 DEF ControlOK, Others
    <3> QED
      BY <3>4, <3>5
  <2> QED
    BY <1>3, <2>1, <2>2
<1>5. CASE DoExternalFirst(p, s)
  <2>1. s.kind = "external-first" /\ (Ends(p) \/ (Goes(p) /\ NoExternal'))
    BY <1>5 DEF DoExternalFirst, NoExternal
  <2>2. record' \in {record, None}
    BY <1>5 DEF DoExternalFirst
  <2>3. Records(p)
    BY <2>1, <2>2, EndsShape DEF Records, s
  <2> QED
    BY <1>1, <1>4, <2>3 DEF Shape
<1>6. CASE DoRecord(p, s)
  <2>1. s.kind = "record"
    BY <1>6 DEF DoRecord
  <2> QED
    BY <1>1, <1>4, <2>1 DEF Shape, Records, s
<1>7. CASE ~DoExternalFirst(p, s) /\ ~DoRecord(p, s)
  <2>1. record' \in {record, None} /\ s.kind # "external-first"
    BY <1>2, <1>7
       DEF DoUpAlready, DoRm, DoFree, DoPrepare, DoRunContainer,
           DoLaunch, DoWrite, DoRemove, DoSystemctlBoot, DoSystemctlStop,
           DoSystemctlStart, DoExternalUp, DoExternalDown, DoWait, DoWaitDead,
           DoWaitTimeout, DoCron, rackVars, engOnly
  <2> QED
    BY <1>1, <1>4, <2>1 DEF Shape, Records, s
<1> QED
  BY <1>5, <1>6, <1>7

LEMMA FailsShape ==
  ASSUME ControlOK, NEW p \in Procs, Fails(p)
  PROVE  Shape(p)
<1> DEFINE s == Step(p)
<1>1. /\ Running(p) /\ UNCHANGED record
      /\ \/ Ends(p)
         \/ (Goes(p) \/ SkipsToEnd(p)) /\ s.kind # "external-first"
  BY DEF Fails, Killed, StepFails, StepIgnored, LooksFree, Detach, rackVars
<1>2. MovesOn(p) /\ Others(p) /\ (Ends(p) => job'[p] = None)
  BY <1>1, EndsShape
<1> QED
  BY <1>1, <1>2 DEF Shape, Records

-----------------------------------------------------------------------------
(***************************************************************************)
(* Every step keeps the invariant.                                         *)
(***************************************************************************)
LEMMA ShapeKeeps ==
  ASSUME XInv, NEW p \in Procs, Shape(p)
  PROVE  Alone' /\ Dealt'
<1>1. ControlOK /\ Running(p) /\ job[p] \in Jobs /\ pc[p] \in 1..Len(Plan(job[p]))
      /\ Len(Plan(job[p])) \in Nat
  BY TwoParts, StepType, PlanType DEF XInv, ControlOK, Shape
<1>2. ASSUME NEW q \in Procs, q # p
      PROVE  ~alone[q] \/ ~Running(q)
  BY <1>1, <1>2 DEF XInv, Alone
<1>3. /\ MovesOn(p) /\ Records(p) /\ alone' = alone
      /\ \A q \in Procs \ {p} : job'[q] = job[q] /\ pc'[q] = pc[q]
  BY DEF Shape, Others
<1>4. Alone'
  BY <1>1, <1>2, <1>3 DEF XInv, Alone, Running
<1>5. ASSUME NEW q \in Procs, alone'[q], job'[q] # None, job'[q].cmd = "up",
             pc'[q] < Len(Plan(job'[q])),
             \A i \in pc'[q]..Len(Plan(job'[q])) : Plan(job'[q])[i].kind # "external-first"
      PROVE  NoExternal'
  <2>1. q = p
    BY <1>2, <1>3, <1>5 DEF Running
  <2>2. job'[p] = job[p] /\ pc'[p] = pc[p] + 1
    BY <1>1, <1>3, <1>5, <2>1 DEF MovesOn
  <2>3. CASE Step(p).kind = "external-first"
    BY <1>3, <1>5, <2>1, <2>3 DEF Records
  <2>4. CASE Step(p).kind # "external-first"
    <3>1. Faced(p)
      <4> SUFFICES ASSUME NEW i \in pc[p]..Len(Plan(job[p]))
                   PROVE  Plan(job[p])[i].kind # "external-first"
        BY DEF Faced
      <4>1. i = pc[p] \/ i \in (pc[p] + 1)..Len(Plan(job[p]))
        BY <1>1
      <4> QED
        BY <1>5, <2>1, <2>2, <2>4, <4>1 DEF Step
    <3>2. NoExternal
      BY <1>1, <1>3, <1>5, <2>1, <2>2, <3>1 DEF XInv, Dealt
    <3>3. Step(p).kind # "record"
      <4>1. pc[p] \in 1..Len(Plan(job[p])) - 2
        BY <1>1, <1>5, <2>1, <2>2
      <4>2. Ordered(Plan(job[p]), job[p].external)
        BY <1>1, <1>5, <2>1, <2>2, PlanOrder
      <4> QED
        BY <4>1, <4>2 DEF Ordered, Step
    <3> QED
      BY <1>3, <3>2, <3>3 DEF Records, NoExternal
  <2> QED
    BY <2>3, <2>4
<1> QED
  BY <1>4, <1>5 DEF Dealt, Faced, Running

\* A command that starts knows whether an external engine is recorded.
LEMMA StartsKeeps ==
  ASSUME XInv, NEW p \in Procs, NEW j \in Jobs, Starts(p, j), UNCHANGED record,
         j.cmd = "up" => (j.external <=> ~NoExternal)
  PROVE  Alone' /\ Dealt'
<1>1. ControlOK
  BY TwoParts DEF XInv
<1>2. /\ job'[p] = j /\ pc'[p] = 1 /\ j # None
      /\ \A q \in Procs \ {p} : job'[q] = job[q] /\ pc'[q] = pc[q]
  BY <1>1, NoneAssumption DEF Starts, ControlOK
<1>3. /\ \A q \in Procs \ {p} : alone'[q] => ~Running(q)
      /\ alone'[p] => \A q \in Procs \ {p} : ~Running(q)
  BY DEF Starts
<1>4. Alone'
  BY <1>2, <1>3 DEF Alone, Running
<1>5. ASSUME NEW q \in Procs, alone'[q], job'[q] # None, job'[q].cmd = "up",
             \A i \in pc'[q]..Len(Plan(job'[q])) : Plan(job'[q])[i].kind # "external-first"
      PROVE  NoExternal'
  <2>1. q = p
    BY <1>2, <1>3, <1>5 DEF Running
  <2>2. Ordered(Plan(j), j.external)
    BY <1>2, <1>5, <2>1, PlanOrder
  <2>3. NoExternal
    BY <1>2, <1>5, <2>1, <2>2 DEF Ordered
  <2> QED
    BY <2>3 DEF NoExternal
<1> QED
  BY <1>4, <1>5 DEF Dealt, Faced, Running

LEMMA CommandsKeep ==
  ASSUME XInv,
         KeepDecides \/ KeepUp \/ \E p \in Procs : UserUp(p) \/ UserDown(p)
  PROVE  Alone' /\ Dealt'
<1>1. RackOK /\ ControlOK
  BY TwoParts DEF XInv
<1>2. \A r, replace, boot : UpJob(r, replace, boot).external <=> ~NoExternal
  BY DEF UpJob, NoExternal
<1>3. DownJob.cmd # "up"
  BY DEF DownJob
<1>4. CASE KeepDecides
  BY <1>4 DEF XInv, KeepDecides, Alone, Dealt, Faced, Running, NoExternal
<1>5. CASE KeepUp
  <2>1. /\ keep \in Recipes /\ Keeper \in Procs
        /\ Starts(Keeper, UpJob(keep, TRUE, FALSE)) /\ UNCHANGED record
    BY <1>1, <1>5 DEF KeepUp, RackOK, Procs
  <2>2. UpJob(keep, TRUE, FALSE) \in Jobs
    <3>1. TRUE \in BOOLEAN /\ FALSE \in BOOLEAN
      OBVIOUS
    <3> QED
      BY <1>1, <2>1, <3>1, JobTypes, Zenon
  <2> QED
    BY <1>2, <2>1, <2>2, StartsKeeps
<1>6. ASSUME NEW p \in Procs, UserUp(p)
      PROVE  Alone' /\ Dealt'
  <2>1. UNCHANGED record
    BY <1>6 DEF UserUp, rackVars
  <2>2. PICK r \in Recipes, replace \in BOOLEAN : Starts(p, UpJob(r, replace, FALSE))
    BY <1>6 DEF UserUp
  <2>3. UpJob(r, replace, FALSE) \in Jobs
    <3>1. FALSE \in BOOLEAN
      OBVIOUS
    <3> QED
      BY <1>1, <3>1, JobTypes, Zenon
  <2> QED
    BY <1>2, <2>1, <2>2, <2>3, StartsKeeps
<1>7. ASSUME NEW p \in Procs, UserDown(p)
      PROVE  Alone' /\ Dealt'
  <2>1. UNCHANGED record /\ Starts(p, DownJob)
    BY <1>7 DEF UserDown, rackVars
  <2> QED
    BY <1>1, <1>3, <2>1, JobTypes, StartsKeeps
<1> QED
  BY <1>4, <1>5, <1>6, <1>7

LEMMA EnvironmentKeeps ==
  ASSUME XInv, Environment
  PROVE  Alone' /\ Dealt'
<1>1. ASSUME UNCHANGED <<record, job, pc, alone>>
      PROVE  Alone' /\ Dealt'
  BY <1>1 DEF XInv, Alone, Dealt, Faced, Running, NoExternal
<1>2. ASSUME NEW s \in Slots, ComesUp(s) \/ Dies(s) \/ Exits(s)
      PROVE  Alone' /\ Dealt'
  BY <1>1, <1>2 DEF ComesUp, Dies, Exits, engOnly
<1>3. CASE Reboot
  <2> DEFINE boots == bootOn /\ Linger /\ bootUnit # None
             j     == UpJob(bootUnit, TRUE, TRUE)
  <2>1. boots => j \in Jobs
    <3>1. bootUnit # None => bootUnit \in Recipes
      BY TwoParts DEF XInv, RackOK
    <3>2. TRUE \in BOOLEAN
      OBVIOUS
    <3>3. RackOK
      BY TwoParts DEF XInv
    <3> QED
      BY <3>1, <3>2, <3>3, JobTypes, Zenon
  <2>2. j.external <=> ~NoExternal
    BY DEF UpJob, NoExternal
  <2>3. j.cmd = "up"
    BY DEF UpJob
  <2> HIDE DEF j, boots
  <2>4. /\ job' = [p \in Procs |-> IF p = Booter /\ boots THEN j ELSE None]
        /\ pc'  = [p \in Procs |-> IF p = Booter /\ boots THEN 1 ELSE 0]
        /\ UNCHANGED record
    BY <1>3 DEF Reboot, j, boots
  <2>5. Alone'
    BY <2>4 DEF Alone, Running
  <2>6. ASSUME NEW q \in Procs, job'[q] # None,
               \A i \in pc'[q]..Len(Plan(job'[q])) : Plan(job'[q])[i].kind # "external-first"
        PROVE  NoExternal'
    <3>1. boots /\ job'[q] = j /\ pc'[q] = 1
      BY <2>4, <2>6
    <3>2. Ordered(Plan(j), j.external)
      BY <2>1, <2>3, <3>1, PlanOrder
    <3>3. NoExternal
      BY <2>2, <2>6, <3>1, <3>2 DEF Ordered
    <3> QED
      BY <2>4, <3>3 DEF NoExternal
  <2> QED
    BY <2>5, <2>6 DEF Dealt, Faced, Running
<1> QED
  BY <1>2, <1>3 DEF Environment

LEMMA XInvariant == Spec => []XInv
<1>1. Init => XInv
  <2>1. Init => Alone /\ Dealt
    BY DEF Init, Alone, Dealt, Running
  <2> QED
    BY <2>1, InitTyped DEF XInv
<1>2. XInv /\ [Next]_vars => XInv'
  <2> SUFFICES ASSUME XInv, [Next]_vars
               PROVE  Alone' /\ Dealt'
    BY NextTyped DEF XInv
  <2>1. ASSUME NEW p \in Procs, Executes(p) \/ Fails(p)
        PROVE  Alone' /\ Dealt'
    BY <2>1, TwoParts, ExecutesShape, FailsShape, ShapeKeeps DEF XInv
  <2>2. CASE KeepDecides \/ KeepUp \/ \E p \in Procs : UserUp(p) \/ UserDown(p)
    BY <2>2, CommandsKeep
  <2>3. CASE Environment
    BY <2>3, EnvironmentKeeps
  <2>4. CASE UNCHANGED vars
    BY <2>4 DEF vars, XInv, Alone, Dealt, Faced, Running, NoExternal
  <2> QED
    BY <2>1, <2>2, <2>3, <2>4 DEF Next
<1> QED
  BY <1>1, <1>2, PTL DEF Spec

\* A command that runs alone starts its engine only when no external engine is
\* recorded any more: it was stopped and its record removed (stop_external_first
\* and EXTERNAL_DOWN), whatever ran, failed, died or rebooted before.
THEOREM ServeDealsWithExternal == Spec => []ExternalDealtWith
<1>1. XInv => ExternalDealtWith
  BY XInvImplies
<1> QED
  BY <1>1, XInvariant, PTL

-----------------------------------------------------------------------------
(***************************************************************************)
(* Containers only.  A command that runs alone starts nothing on top of    *)
(* another engine, takes nothing down unasked, records what answers, and   *)
(* rack down leaves nothing behind, because what a step has found or made  *)
(* stays so while the later steps count on it: the engines that load, die  *)
(* and come back between two steps are those that were there.              *)
(*                                                                         *)
(* With a systemd or an external recipe on the rack most of it is not so:  *)
(* the guards look at their own runtime's engines, and rack down stops     *)
(* those of the runtime recorded.                                          *)
(***************************************************************************)
\* Every engine is a container; and every recipe spans as many nodes.
OnlyDocker == \A r \in Recipes : Runtime[r] = "docker"
OneSpan == \A r, q \in Recipes : Span[r] = Span[q]

\* Where recipe r's own containers are.
OwnSlots(r) == NodesOf(r) \cup {Solo}

AloneAt(p, cmd) == alone[p] /\ Running(p) /\ job[p].cmd = cmd

\* The steps p has behind it.
Done(p) == {Plan(job[p])[i] : i \in 1..pc[p] - 1}

\* Where a rack up has looked, on a node that answers, runs only what it has
\* started, until it skips to its end.
Looked(p) ==
  AloneAt(p, "up") /\ pc[p] < Len(Plan(job[p])) =>
    (\A s \in Done(p) : s.kind = "free" /\ s.node \in Heard =>
      (\A e \in s.watched : Active(e) => eng[e].recipe = job[p].recipe))

\* What a rack down has stopped, on a node that answers, stays stopped.
Stopped(p) ==
  AloneAt(p, "down") =>
    (\A s \in Done(p) : s.kind = "rm" /\ s.node \in Heard =>
      (\A e \in s.slots : ~Active(e)))

\* The boot unit is gone once a rack down has removed it, or was not there.
Unbooted(p) ==
  AloneAt(p, "down") =>
    ((RemoveFile("boot") \in Done(p) \/ (job[p].recipe = None /\ ~job[p].bootSeen)) => bootUnit = None)

\* The boot unit's rack up always replaces.
BootReplaces(p) == Running(p) /\ job[p].cmd = "up" /\ job[p].boot => job[p].replace

\* There is no unit, and a worker's rank never answers itself.
ContainersOnly ==
  /\ eng[Unit] = None /\ unitFile = None
  /\ \A n \in Nodes \ {HeadNode} : Present(n) => eng[n].phase # "up"

\* If all recipes span as many nodes, no container is beyond them.
WithinSpan == OneSpan => (\A s \in Slots, r \in Recipes : Present(s) => s \in OwnSlots(r))

DockerInv ==
  /\ ContainersOnly /\ WithinSpan
  /\ \A p \in Procs : Looked(p) /\ Stopped(p) /\ Unbooted(p) /\ BootReplaces(p)

-----------------------------------------------------------------------------
(***************************************************************************)
(* Plans of containers.  The steps they are of, and where they look.       *)
(***************************************************************************)
DockerSteps(r) ==
  [kind : {"rm"}, node : Nodes, slots : SUBSET OwnSlots(r)]
    \cup [kind : {"free"}, node : Nodes, watched : SUBSET OwnSlots(r)]
    \cup [kind : {"run"}, slot : OwnSlots(r), node : Nodes]
    \cup [kind : {"launch"}, node : NodesOf(r)]
    \cup [kind : {"systemctl"}, verb : {"enable", "disable"}, file : {"boot"}]
    \cup [kind : {"write", "remove"}, file : {"boot"}]
    \cup [kind : {"prepare", "wait"}]

LEMMA DockerStepTypes ==
  ASSUME NEW r \in Recipes
  PROVE  /\ \A n \in Nodes, slots \in SUBSET OwnSlots(r) : Rm(n, slots) \in DockerSteps(r)
         /\ \A n \in Nodes, slots \in SUBSET OwnSlots(r) : Free(n, slots) \in DockerSteps(r)
         /\ \A s \in OwnSlots(r), n \in Nodes : RunContainer(s, n) \in DockerSteps(r)
         /\ \A n \in NodesOf(r) : Launch(n) \in DockerSteps(r)
         /\ \A v \in {"enable", "disable"} : Systemctl(v, "boot") \in DockerSteps(r)
         /\ WriteFile("boot") \in DockerSteps(r) /\ RemoveFile("boot") \in DockerSteps(r)
         /\ Prepare \in DockerSteps(r) /\ Wait \in DockerSteps(r)
<1>1. \A n \in Nodes, slots \in SUBSET OwnSlots(r) : Rm(n, slots) \in DockerSteps(r)
  BY DEF Rm, DockerSteps
<1>2. \A n \in Nodes, slots \in SUBSET OwnSlots(r) : Free(n, slots) \in DockerSteps(r)
  BY DEF Free, DockerSteps
<1>3. \A s \in OwnSlots(r), n \in Nodes : RunContainer(s, n) \in DockerSteps(r)
  BY DEF RunContainer, DockerSteps
<1>4. \A n \in NodesOf(r) : Launch(n) \in DockerSteps(r)
  BY DEF Launch, DockerSteps
<1>5. \A v \in {"enable", "disable"} : Systemctl(v, "boot") \in DockerSteps(r)
  BY DEF Systemctl, DockerSteps
<1>6. WriteFile("boot") \in DockerSteps(r) /\ RemoveFile("boot") \in DockerSteps(r)
  BY DEF WriteFile, RemoveFile, DockerSteps
<1>7. Prepare \in DockerSteps(r) /\ Wait \in DockerSteps(r)
  BY DEF Prepare, Wait, DockerSteps
<1> QED
  BY <1>1, <1>2, <1>3, <1>4, <1>5, <1>6, <1>7

LEMMA DockerStepKinds ==
  ASSUME NEW r \in Recipes, NEW s \in DockerSteps(r)
  PROVE  /\ s.kind = "rm" => s.slots \subseteq OwnSlots(r)
         /\ s.kind = "run" => s.slot \in OwnSlots(r)
         /\ s.kind = "launch" => s.node \in NodesOf(r)
         /\ s.kind = "write" => s.file = "boot"
         /\ s.kind \notin {"up-already", "external-first", "external-up", "external-down",
                           "record", "cron"}
  BY DEF DockerSteps

LEMMA OwnNodes ==
  ASSUME NEW r \in Recipes
  PROVE  /\ Span[r] \in 1..Len(NodeSeq) /\ Span[r] \in Nat /\ Len(NodeSeq) \in Nat
         /\ \A i \in 1..Span[r] : NodeSeq[i] \in NodesOf(r)
         /\ \A n \in NodesOf(r) : \E i \in 1..Span[r] : n = NodeSeq[i]
         /\ HeadNode \in NodesOf(r) /\ NodesOf(r) \subseteq Nodes
         /\ \A n \in NodesOf(r) : Containers(n) \in SUBSET OwnSlots(r)
<1>1. Span[r] \in 1..Len(NodeSeq) /\ Span[r] \in Nat /\ Len(NodeSeq) \in Nat
  BY RackAssumption
<1>2. /\ \A i \in 1..Span[r] : NodeSeq[i] \in NodesOf(r)
      /\ \A n \in NodesOf(r) : \E i \in 1..Span[r] : n = NodeSeq[i]
  BY DEF NodesOf
<1>3. NodesOf(r) \subseteq Nodes
  BY <1>1, <1>2, NodesKnown
<1>4. HeadNode \in NodesOf(r)
  BY <1>1, <1>2 DEF HeadNode
<1> QED
  BY <1>1, <1>2, <1>3, <1>4 DEF Containers, OwnSlots

\* Step a and step b of each of the first k nodes.
LEMMA PerNodeAt ==
  ASSUME NEW k \in Nat, NEW a, NEW b
  PROVE  /\ \A i \in 1..2*k : \E m \in 1..k :
              PerNode(k, a, b)[i] \in {a[NodeSeq[m]], b[NodeSeq[m]]}
         /\ \A i \in 1..k : PerNode(k, a, b)[2 * i] = b[NodeSeq[i]]
<1>1. ASSUME NEW i \in 1..2*k
      PROVE  /\ i % 2 = 1 => (i + 1) \div 2 \in 1..k
             /\ i % 2 # 1 => i \div 2 \in 1..k
  OBVIOUS
<1>2. ASSUME NEW i \in 1..k
      PROVE  2 * i \in 1..2*k /\ (2 * i) % 2 # 1 /\ (2 * i) \div 2 = i
  OBVIOUS
<1>3. \A i \in 1..2*k :
        PerNode(k, a, b)[i] = IF i % 2 = 1 THEN a[NodeSeq[(i + 1) \div 2]] ELSE b[NodeSeq[i \div 2]]
  BY DEF PerNode
<1> QED
  BY <1>1, <1>2, <1>3

LEMMA PerNodeSteps ==
  ASSUME NEW S, NEW k \in Nat, NEW a, NEW b,
         \A i \in 1..k : a[NodeSeq[i]] \in S /\ b[NodeSeq[i]] \in S
  PROVE  PerNode(k, a, b) \in Seq(S) /\ Len(PerNode(k, a, b)) = 2 * k
<1> DEFINE PutAt(i) == IF i % 2 = 1 THEN a[NodeSeq[(i + 1) \div 2]] ELSE b[NodeSeq[i \div 2]]
<1>1. ASSUME NEW i \in 1..2*k
      PROVE  /\ i % 2 = 1 => (i + 1) \div 2 \in 1..k
             /\ i % 2 # 1 => i \div 2 \in 1..k
  OBVIOUS
<1>2. \A i \in 1..2*k : PutAt(i) \in S
  BY <1>1
<1>3. PerNode(k, a, b) = [i \in 1..2*k |-> PutAt(i)] /\ 2 * k \in Nat
  BY DEF PerNode
<1> HIDE DEF PutAt
<1> QED
  BY <1>2, <1>3

\* What comes first in v, when v starts with u.
StartsWith(u, v) ==
  Len(u) \in 0..Len(v) /\ \A i \in 1..Len(u) : v[i] = u[i]

LEMMA StartsOn ==
  ASSUME NEW S, NEW u \in Seq(S), NEW v \in Seq(S), NEW w \in Seq(S), StartsWith(u, v)
  PROVE  v \o w \in Seq(S) /\ StartsWith(u, v \o w)
<1>1. v \o w \in Seq(S) /\ Len(v \o w) = Len(v) + Len(w) /\ Len(u) \in Nat /\ Len(v) \in Nat /\ Len(w) \in Nat
  OBVIOUS
<1>2. \A i \in 1..Len(v) : (v \o w)[i] = v[i]
  BY JoinLeft
<1> QED
  BY <1>1, <1>2 DEF StartsWith

LEMMA StartsHere ==
  ASSUME NEW S, NEW u \in Seq(S), NEW w \in Seq(S)
  PROVE  u \o w \in Seq(S) /\ StartsWith(u, u \o w)
<1>1. StartsWith(u, u)
  BY DEF StartsWith
<1> QED
  BY <1>1, StartsOn

\* guard_steps looks at every container of every node.
LEMMA GuardLooks ==
  ASSUME NEW r \in Recipes, NEW replace \in BOOLEAN
  PROVE  LET G == Guard(Span[r], replace)
         IN  /\ G \in Seq(DockerSteps(r))
             /\ \A i \in 1..Len(G) : G[i].kind = "free" \/ (replace /\ G[i].kind = "rm")
             /\ \A n \in NodesOf(r) : \E i \in 1..Len(G) : G[i] = Free(n, Containers(n))
<1> DEFINE k == Span[r]
           look == [n \in Nodes |-> Free(n, Containers(n))]
           stop == [n \in Nodes |-> Rm(n, Containers(n))]
           G == Guard(Span[r], replace)
<1>1. k \in Nat /\ \A i \in 1..k : NodeSeq[i] \in NodesOf(r) /\ NodeSeq[i] \in Nodes
  BY OwnNodes
<1>2. \A n \in NodesOf(r) : \E i \in 1..k : n = NodeSeq[i]
  BY OwnNodes
<1>3. \A n \in NodesOf(r) : /\ look[n] = Free(n, Containers(n)) /\ look[n] \in DockerSteps(r)
                           /\ stop[n] = Rm(n, Containers(n)) /\ stop[n] \in DockerSteps(r)
  BY OwnNodes, DockerStepTypes
<1>4. \A n \in NodesOf(r) : Free(n, Containers(n)).kind = "free" /\ Rm(n, Containers(n)).kind = "rm"
  BY DEF Free, Rm
<1>5. replace => G = PerNode(k, stop, look)
  BY DEF Guard
<1>6. ~replace => G = [i \in 1..k |-> look[NodeSeq[i]]]
  BY DEF Guard
<1> HIDE DEF look, stop, G, k
<1>7. CASE replace
  <2>1. /\ G \in Seq(DockerSteps(r)) /\ Len(G) = 2 * k
        /\ \A i \in 1..2*k : \E m \in 1..k : G[i] \in {stop[NodeSeq[m]], look[NodeSeq[m]]}
        /\ \A i \in 1..k : G[2 * i] = look[NodeSeq[i]]
    <3>1. \A i \in 1..k : stop[NodeSeq[i]] \in DockerSteps(r) /\ look[NodeSeq[i]] \in DockerSteps(r)
      BY <1>1, <1>3
    <3>2. k \in Nat /\ G = PerNode(k, stop, look)
      BY <1>1, <1>5, <1>7
    <3>3. /\ \A i \in 1..2*k : \E m \in 1..k : G[i] \in {stop[NodeSeq[m]], look[NodeSeq[m]]}
          /\ \A i \in 1..k : G[2 * i] = look[NodeSeq[i]]
      BY <3>2, PerNodeAt
    <3>4. G \in Seq(DockerSteps(r)) /\ Len(G) = 2 * k
      BY <3>1, <3>2, PerNodeSteps
    <3> QED
      BY <3>3, <3>4
  <2>2. \A i \in 1..Len(G) : G[i].kind = "free" \/ (replace /\ G[i].kind = "rm")
    BY <1>1, <1>3, <1>4, <1>7, <2>1
  <2>3. ASSUME NEW n \in NodesOf(r)
        PROVE  \E i \in 1..Len(G) : G[i] = Free(n, Containers(n))
    <3>1. PICK i \in 1..k : n = NodeSeq[i]
      BY <1>2
    <3>2. 2 * i \in 1..Len(G) /\ G[2 * i] = Free(n, Containers(n))
      BY <1>1, <1>3, <2>1, <3>1
    <3> QED
      BY <3>2
  <2> QED
    BY <2>1, <2>2, <2>3 DEF G
<1>8. CASE ~replace
  <2>1. /\ G \in Seq(DockerSteps(r)) /\ Len(G) = k
        /\ \A i \in 1..k : G[i] = look[NodeSeq[i]]
    BY <1>1, <1>3, <1>6, <1>8
  <2>2. \A i \in 1..Len(G) : G[i].kind = "free" \/ (replace /\ G[i].kind = "rm")
    BY <1>1, <1>3, <1>4, <2>1
  <2>3. \A n \in NodesOf(r) : \E i \in 1..Len(G) : G[i] = Free(n, Containers(n))
    BY <1>1, <1>2, <1>3, <2>1
  <2> QED
    BY <2>1, <2>2, <2>3 DEF G
<1> QED
  BY <1>7, <1>8

LEMMA ClusterStarts ==
  ASSUME NEW r \in Recipes, NEW replace \in BOOLEAN, NEW boot \in BOOLEAN
  PROVE  LET A == IF boot THEN <<Prepare>> ELSE <<>>
             G == Guard(Span[r], replace \/ boot)
         IN  /\ PlanCluster(r, replace, boot) \in Seq(DockerSteps(r))
             /\ StartsWith(A \o G, PlanCluster(r, replace, boot))
<1> DEFINE S == DockerSteps(r)
           A == IF boot THEN <<Prepare>> ELSE <<>>
           G == Guard(Span[r], replace \/ boot)
           clear == [n \in Nodes |-> Rm(n, {n})]
           start == [n \in Nodes |-> RunContainer(n, n)]
           each == PerNode(Span[r], clear, start)
           launches == [i \in 1..Span[r] |-> Launch(NodeSeq[Span[r] + 1 - i])]
           one == <<Prepare>>
           last == <<Wait>>
<1>1. A \in Seq(S) /\ one \in Seq(S) /\ last \in Seq(S)
  BY DockerStepTypes, PlansJoin
<1>2. G \in Seq(S)
  <2>1. replace \/ boot \in BOOLEAN
    OBVIOUS
  <2> QED
    BY <2>1, GuardLooks
<1>3. each \in Seq(S)
  <2>1. \A n \in NodesOf(r) : {n} \in SUBSET OwnSlots(r) /\ n \in OwnSlots(r) /\ n \in Nodes
    BY OwnNodes DEF OwnSlots
  <2>2. \A n \in NodesOf(r) : clear[n] \in S /\ start[n] \in S
    BY <2>1, DockerStepTypes
  <2> HIDE DEF clear, start, S
  <2>3. \A i \in 1..Span[r] : clear[NodeSeq[i]] \in S /\ start[NodeSeq[i]] \in S
    BY <2>2, OwnNodes
  <2> QED
    BY <2>3, OwnNodes, PerNodeSteps
<1>4. launches \in Seq(S)
  <2>1. \A i \in 1..Span[r] : Span[r] + 1 - i \in 1..Span[r]
    BY OwnNodes
  <2>2. \A i \in 1..Span[r] : Launch(NodeSeq[Span[r] + 1 - i]) \in S
    BY <2>1, OwnNodes, DockerStepTypes
  <2> DEFINE L(i) == Launch(NodeSeq[Span[r] + 1 - i])
             k == Span[r]
  <2>3. k \in Nat /\ \A i \in 1..k : L(i) \in S
    BY <2>2, OwnNodes
  <2> HIDE DEF S, L, k
  <2>4. [i \in 1..k |-> L(i)] \in Seq(S)
    BY <2>3
  <2> QED
    BY <2>4 DEF L, k
<1>5. BootUnitSteps \in Seq(S)
  BY DockerStepTypes, PlansJoin DEF BootUnitSteps
<1>6. PlanCluster(r, replace, boot) = A \o G \o one \o each \o one \o launches \o BootUnitSteps \o last
  BY Zenon DEF PlanCluster
<1> HIDE DEF S, A, G, each, launches, one, last
<1> DEFINE u == A \o G
           v1 == u \o one
           v2 == v1 \o each
           v3 == v2 \o one
           v4 == v3 \o launches
           v5 == v4 \o BootUnitSteps
<1>7. u \in Seq(S)
  BY <1>1, <1>2, PlansJoin
<1> HIDE DEF u
<1>8. v1 \in Seq(S) /\ StartsWith(u, v1)
  BY <1>1, <1>7, StartsHere
<1> HIDE DEF v1
<1>9. v2 \in Seq(S) /\ StartsWith(u, v2)
  BY <1>3, <1>7, <1>8, StartsOn
<1> HIDE DEF v2
<1>10. v3 \in Seq(S) /\ StartsWith(u, v3)
  BY <1>1, <1>7, <1>9, StartsOn
<1> HIDE DEF v3
<1>11. v4 \in Seq(S) /\ StartsWith(u, v4)
  BY <1>4, <1>7, <1>10, StartsOn
<1> HIDE DEF v4
<1>12. v5 \in Seq(S) /\ StartsWith(u, v5)
  BY <1>5, <1>7, <1>11, StartsOn
<1> HIDE DEF v5
<1>13. v5 \o last \in Seq(S) /\ StartsWith(u, v5 \o last)
  BY <1>1, <1>7, <1>12, StartsOn
<1>14. PlanCluster(r, replace, boot) = v5 \o last
  BY <1>6 DEF v5, v4, v3, v2, v1, u
<1> QED
  BY <1>13, <1>14 DEF u, S, A, G

LEMMA SoloStarts ==
  ASSUME NEW r \in Recipes, NEW replace \in BOOLEAN, Span[r] = 1
  PROVE  /\ PlanDockerSolo(r, replace) \in Seq(DockerSteps(r))
         /\ StartsWith(Guard(Span[r], replace), PlanDockerSolo(r, replace))
<1> DEFINE S == DockerSteps(r)
           rest == <<Prepare, Rm(HeadNode, {Solo}), RunContainer(Solo, HeadNode), Wait>>
<1>1. rest \in Seq(S)
  <2>1. HeadNode \in Nodes /\ Solo \in OwnSlots(r) /\ {Solo} \in SUBSET OwnSlots(r)
    BY OwnNodes DEF OwnSlots
  <2>2. /\ Rm(HeadNode, {Solo}) \in S /\ RunContainer(Solo, HeadNode) \in S
        /\ Prepare \in S /\ Wait \in S
    BY <2>1, DockerStepTypes
  <2> HIDE DEF S
  <2> QED
    BY <2>2
<1>2. PlanDockerSolo(r, replace) = Guard(Span[r], replace) \o rest
  BY DEF PlanDockerSolo
<1>3. Guard(Span[r], replace) \in Seq(S)
  BY GuardLooks
<1> HIDE DEF S, rest
<1> QED
  BY <1>1, <1>2, <1>3, StartsHere DEF S

\* Before it places anything, rack up looks at every container of every node it
\* spans; before that it stops containers only if it may replace them.
Guarded(P, r, replace) ==
  \E g \in 0..Len(P) :
    /\ \A i \in 1..g : \/ P[i].kind \in {"up-already", "external-first", "prepare", "free"}
                       \/ replace /\ P[i].kind = "rm"
    /\ \A n \in NodesOf(r) : \E i \in 1..g : P[i] = Free(n, Containers(n))

LEMMA BodyGuarded ==
  ASSUME NEW r \in Recipes, NEW replace \in BOOLEAN, NEW boot \in BOOLEAN, Runtime[r] = "docker"
  PROVE  LET B == Body(r, replace, boot)
         IN  B \in Seq(DockerSteps(r)) /\ Guarded(B, r, replace \/ boot)
<1> DEFINE B == Body(r, replace, boot)
           S == DockerSteps(r)
<1>1. ASSUME NEW A \in Seq(S), NEW G \in Seq(S), NEW may \in BOOLEAN, B \in Seq(S),
             \A i \in 1..Len(A) : A[i].kind = "prepare",
             \A i \in 1..Len(G) : G[i].kind = "free" \/ (may /\ G[i].kind = "rm"),
             \A n \in NodesOf(r) : \E i \in 1..Len(G) : G[i] = Free(n, Containers(n)),
             StartsWith(A \o G, B)
      PROVE  Guarded(B, r, may)
  <2> HIDE DEF B, S
  <2> DEFINE u == A \o G
             g == Len(u)
  <2>1. /\ g = Len(A) + Len(G) /\ Len(A) \in Nat /\ Len(G) \in Nat /\ Len(B) \in Nat
        /\ \A i \in 1..Len(A) : u[i] = A[i]
        /\ \A i \in 1..Len(G) : u[Len(A) + i] = G[i]
    BY <1>1, JoinLeft, JoinRight
  <2>2. g \in 0..Len(B) /\ \A i \in 1..g : B[i] = u[i]
    BY <1>1 DEF StartsWith
  <2> HIDE DEF u
  <2>3. ASSUME NEW i \in 1..g
        PROVE  \/ B[i].kind \in {"up-already", "external-first", "prepare", "free"}
               \/ may /\ B[i].kind = "rm"
    <3>1. CASE i \in 1..Len(A)
      BY <1>1, <2>1, <2>2, <3>1
    <3>2. CASE i \notin 1..Len(A)
      <4>1. i - Len(A) \in 1..Len(G) /\ i = Len(A) + (i - Len(A))
        BY <2>1, <3>2
      <4>2. B[i] = G[i - Len(A)]
        BY <2>1, <2>2, <4>1
      <4> QED
        BY <1>1, <4>1, <4>2
    <3> QED
      BY <3>1, <3>2
  <2>4. ASSUME NEW n \in NodesOf(r)
        PROVE  \E i \in 1..g : B[i] = Free(n, Containers(n))
    <3>1. PICK m \in 1..Len(G) : G[m] = Free(n, Containers(n))
      BY <1>1
    <3>2. Len(A) + m \in 1..g /\ B[Len(A) + m] = G[m]
      BY <2>1, <2>2
    <3> QED
      BY <3>1, <3>2
  <2> QED
    BY <2>2, <2>3, <2>4 DEF Guarded
<1>2. CASE Span[r] > 1
  <2> DEFINE A == IF boot THEN <<Prepare>> ELSE <<>>
             G == Guard(Span[r], replace \/ boot)
  <2>1. B = PlanCluster(r, replace, boot)
    BY <1>2 DEF Body, IsCluster, IsExternal
  <2>2. A \in Seq(S) /\ \A i \in 1..Len(A) : A[i].kind = "prepare"
    <3>1. Prepare \in S /\ Prepare.kind = "prepare"
      BY DockerStepTypes DEF Prepare
    <3> HIDE DEF S
    <3> QED
      BY <3>1
  <2>3. replace \/ boot \in BOOLEAN
    OBVIOUS
  <2>4. /\ G \in Seq(S)
        /\ \A i \in 1..Len(G) : G[i].kind = "free" \/ ((replace \/ boot) /\ G[i].kind = "rm")
        /\ \A n \in NodesOf(r) : \E i \in 1..Len(G) : G[i] = Free(n, Containers(n))
    BY <2>3, GuardLooks
  <2>5. B \in Seq(S) /\ StartsWith(A \o G, B)
    BY <2>1, ClusterStarts
  <2> HIDE DEF A, G, B, S
  <2>6. Guarded(B, r, replace \/ boot)
    BY <1>1, <2>2, <2>3, <2>4, <2>5
  <2> QED
    BY <2>5, <2>6 DEF B, S
<1>3. CASE Span[r] = 1
  <2> DEFINE A == <<>>
             G == Guard(Span[r], replace)
  <2>1. B = PlanDockerSolo(r, replace)
    BY <1>3 DEF Body, IsCluster, IsExternal
  <2>2. A \in Seq(S) /\ \A i \in 1..Len(A) : A[i].kind = "prepare"
    OBVIOUS
  <2>3. replace \/ boot \in BOOLEAN
    OBVIOUS
  <2>4. /\ G \in Seq(S)
        /\ \A i \in 1..Len(G) : G[i].kind = "free" \/ ((replace \/ boot) /\ G[i].kind = "rm")
        /\ \A n \in NodesOf(r) : \E i \in 1..Len(G) : G[i] = Free(n, Containers(n))
    BY GuardLooks
  <2>5. B \in Seq(S) /\ StartsWith(G, B)
    BY <1>3, <2>1, SoloStarts
  <2> HIDE DEF G, B, S
  <2>6. A \o G = G
    BY <2>4
  <2>7. StartsWith(A \o G, B)
    BY <2>5, <2>6
  <2> HIDE DEF A
  <2>8. Guarded(B, r, replace \/ boot)
    BY <1>1, <2>2, <2>3, <2>4, <2>5, <2>7
  <2> QED
    BY <2>5, <2>8 DEF B, S
<1> QED
  BY <1>2, <1>3, OwnNodes

LEMMA UpGuarded ==
  ASSUME OnlyDocker, NEW j \in Jobs, j.cmd = "up"
  PROVE  /\ Guarded(Plan(j), j.recipe, j.replace \/ j.boot)
         /\ j.recipe \in Recipes
         /\ \A i \in 1..Len(Plan(j)) : \/ Plan(j)[i] \in DockerSteps(j.recipe)
                                       \/ Plan(j)[i].kind \in {"up-already", "external-first", "record", "cron"}
         /\ Plan(j)[Len(Plan(j))].kind = "cron"
<1> DEFINE r == j.recipe
           may == j.replace \/ j.boot
           front == Front(r, j.replace, j.boot, j.external)
           body == Body(r, j.replace, j.boot)
           P == Plan(j)
<1>1. j \in UpJobs
  BY DEF Jobs, DownJobs
<1>2. /\ r \in Recipes /\ j.replace \in BOOLEAN /\ j.boot \in BOOLEAN /\ j.external \in BOOLEAN
      /\ may \in BOOLEAN /\ Runtime[r] = "docker"
  BY <1>1 DEF UpJobs, OnlyDocker
<1>3. P = PlanUp(r, j.replace, j.boot, j.external)
  BY <1>2 DEF Plan, UpPlan
<1>4. P = front \o body \o Back /\ front \in Seq(UpSteps) /\ body \in Seq(UpSteps)
  <2>1. body \in Seq(BodySteps)
    BY <1>2, PlanUpParts
  <2>2. P = front \o body \o Back /\ front \in Seq(UpSteps)
    BY <1>2, <1>3, PlanUpParts
  <2> HIDE DEF body
  <2>3. body \in Seq(UpSteps)
    BY <2>1, UpStepTypes, WiderPlan
  <2> QED
    BY <2>2, <2>3
<1>5. \A i \in 1..Len(front) : front[i].kind \in {"up-already", "external-first"}
  BY <1>2 DEF Already, ExternalFirst, Front
<1>6. body \in Seq(DockerSteps(r)) /\ Guarded(body, r, may)
  BY <1>2, BodyGuarded
<1>7. P[Len(P)].kind = "cron"
  BY PlanOrder DEF Ordered
<1> HIDE DEF r, may, front, body, P
<1> DEFINE before == front \o body
           f == Len(front)
<1>8. /\ before \in Seq(UpSteps) /\ f \in Nat /\ Len(body) \in Nat /\ Len(before) = f + Len(body)
      /\ \A i \in 1..f : before[i] = front[i]
      /\ \A i \in 1..Len(body) : before[f + i] = body[i]
  BY <1>4, JoinLeft, JoinRight
<1>9. P = before \o Back
  BY <1>4
<1> HIDE DEF before, f
<1>10. /\ Len(P) = Len(before) + 2
       /\ \A i \in 1..Len(before) : P[i] = before[i]
       /\ P[Len(before) + 1].kind = "record" /\ P[Len(before) + 2].kind = "cron"
  <2>1. Len(before \o Back) = Len(before) + 2
    <3>1. before \in Seq(UpSteps)
      BY <1>8
    <3> QED
      BY <3>1, BackType, JoinLen
  <2>2. \A i \in 1..Len(before) : (before \o Back)[i] = before[i]
    BY <1>8, BackType, JoinLeft
  <2>3. Record.kind = "record" /\ Cron(TRUE).kind = "cron" /\ Record \in UpSteps /\ Cron(TRUE) \in UpSteps
    BY UpStepTypes, StopStepTypes DEF Record, Cron
  <2>4. (before \o Back)[Len(before) + 1] = Record /\ (before \o Back)[Len(before) + 2] = Cron(TRUE)
    <3> DEFINE a == Record
               c == Cron(TRUE)
    <3>1. a \in UpSteps /\ c \in UpSteps /\ Back = <<a, c>>
      BY <2>3 DEF Back
    <3> HIDE DEF a, c
    <3>2. (before \o <<a, c>>)[Len(before) + 1] = a /\ (before \o <<a, c>>)[Len(before) + 2] = c
      BY <1>8, <3>1, FirstOfPair, LastOfPair
    <3> QED
      BY <3>1, <3>2 DEF a, c
  <2> QED
    BY <1>9, <2>1, <2>2, <2>3, <2>4
<1>11. ASSUME NEW i \in 1..Len(P)
       PROVE  \/ P[i] \in DockerSteps(r)
              \/ P[i].kind \in {"up-already", "external-first", "record", "cron"}
  <2>1. CASE i \in 1..f
    BY <1>5, <1>8, <1>10, <2>1 DEF f
  <2>2. CASE i \in f + 1 .. f + Len(body)
    <3>1. i - f \in 1..Len(body) /\ i = f + (i - f) /\ i \in 1..Len(before)
      BY <1>8, <2>2
    <3>2. P[i] = body[i - f]
      BY <1>8, <1>10, <3>1
    <3> QED
      BY <1>6, <3>1, <3>2
  <2>3. CASE i > f + Len(body)
    <3>1. i = Len(before) + 1 \/ i = Len(before) + 2
      BY <1>8, <1>10, <2>3
    <3> QED
      BY <1>10, <3>1
  <2> QED
    BY <1>8, <2>1, <2>2, <2>3
<1>12. Guarded(P, r, may)
  <2>1. PICK g \in 0..Len(body) :
          /\ \A i \in 1..g : \/ body[i].kind \in {"up-already", "external-first", "prepare", "free"}
                             \/ may /\ body[i].kind = "rm"
          /\ \A n \in NodesOf(r) : \E i \in 1..g : body[i] = Free(n, Containers(n))
    BY <1>6 DEF Guarded
  <2>2. f + g \in 0..Len(P)
    BY <1>8, <1>10
  <2>3. ASSUME NEW i \in 1..f + g
        PROVE  \/ P[i].kind \in {"up-already", "external-first", "prepare", "free"}
               \/ may /\ P[i].kind = "rm"
    <3>1. CASE i \in 1..f
      BY <1>5, <1>8, <1>10, <3>1 DEF f
    <3>2. CASE i \notin 1..f
      <4>1. i - f \in 1..g /\ i - f \in 1..Len(body) /\ i = f + (i - f) /\ i \in 1..Len(before)
        BY <1>8, <3>2
      <4>2. P[i] = body[i - f]
        BY <1>8, <1>10, <4>1
      <4> QED
        BY <2>1, <4>1, <4>2
    <3> QED
      BY <3>1, <3>2
  <2>4. ASSUME NEW n \in NodesOf(r)
        PROVE  \E i \in 1..f + g : P[i] = Free(n, Containers(n))
    <3>1. PICK m \in 1..g : body[m] = Free(n, Containers(n))
      BY <2>1
    <3>2. f + m \in 1..f + g /\ m \in 1..Len(body) /\ f + m \in 1..Len(before)
      BY <1>8
    <3>3. P[f + m] = Free(n, Containers(n))
      BY <1>8, <1>10, <3>1, <3>2
    <3> QED
      BY <3>2, <3>3
  <2> QED
    BY <2>2, <2>3, <2>4 DEF Guarded
<1> QED
  BY <1>2, <1>7, <1>11, <1>12 DEF P, r, may

\* A rack down stops every container of every node it goes to, and removes the
\* boot unit if it saw one or what is recorded may have one.
LEMMA DownStops ==
  ASSUME OnlyDocker, NEW j \in Jobs, j.cmd = "down"
  PROVE  LET P == Plan(j)
             targets == IF j.recipe = None THEN Len(NodeSeq) ELSE Span[j.recipe]
         IN  /\ P \in Seq(StopSteps)
             /\ \A i \in 1..targets : \E m \in 1..Len(P) - 1 :
                  P[m] = Rm(NodeSeq[i], Containers(NodeSeq[i]))
             /\ j.recipe # None \/ j.bootSeen => \E m \in 1..Len(P) - 1 : P[m] = RemoveFile("boot")
             /\ \A i \in 1..Len(P) - 1 : P[i].kind # "cron"
<1> DEFINE r == j.recipe
           runtime == IF r = None THEN "none" ELSE Runtime[r]
           targets == IF r = None THEN Len(NodeSeq) ELSE Span[r]
           stops   == [i \in 1..targets |-> Rm(NodeSeq[i], Containers(NodeSeq[i]))]
           boots   == IF runtime = "docker" \/ j.bootSeen
                        THEN <<Systemctl("disable", "boot"), RemoveFile("boot")>>
                        ELSE <<>>
           docker  == IF runtime \in {"none", "docker"} THEN stops \o boots ELSE <<>>
           native  == IF runtime = "systemd" \/ (runtime = "none" /\ j.unitSeen)
                        THEN <<Systemctl("disable --now", "unit"), RemoveFile("unit")>>
                        ELSE <<>>
           outside == IF runtime = "external" THEN <<ExternalDown>> ELSE <<>>
           last    == <<RemoveFile("record"), Cron(FALSE)>>
           S       == {s \in StopSteps : s.kind # "cron"}
           P       == Plan(j)
<1>1. j \in DownJobs
  BY DEF Jobs, UpJobs
<1>2. /\ j.recipe \in Recipes \cup {None} /\ j.bootSeen \in BOOLEAN /\ j.unitSeen \in BOOLEAN
      /\ r # None => runtime = "docker"
  BY <1>1 DEF DownJobs, OnlyDocker
<1>3. P = PlanDown(r, j.bootSeen, j.unitSeen) /\ P \in Seq(StopSteps)
  BY <1>1, <1>2, PlanDownType DEF Plan, DownPlan, DownJobs
<1>4. P = docker \o native \o outside \o last
  BY <1>3, Zenon DEF PlanDown
<1>5. docker = stops \o boots
  BY <1>2
<1>6. Len(NodeSeq) \in Nat /\ targets \in Nat /\ targets \in 1..Len(NodeSeq)
  BY <1>2, RackAssumption
<1>7. /\ \A i \in 1..targets : Rm(NodeSeq[i], Containers(NodeSeq[i])) \in S
      /\ Systemctl("disable", "boot") \in S /\ RemoveFile("boot") \in S
      /\ Systemctl("disable --now", "unit") \in S /\ RemoveFile("unit") \in S
      /\ ExternalDown \in S /\ RemoveFile("record") \in S
      /\ RemoveFile("record") \in StopSteps /\ Cron(FALSE) \in StopSteps
  <2>1. \A i \in 1..targets : i \in 1..Len(NodeSeq)
    BY <1>6
  <2>2. \A i \in 1..targets : Rm(NodeSeq[i], Containers(NodeSeq[i])) \in StopSteps
    BY <2>1, NodesKnown, StopStepTypes
  <2>3. \A i \in 1..targets : Rm(NodeSeq[i], Containers(NodeSeq[i])).kind # "cron"
    BY DEF Rm
  <2>4. /\ Systemctl("disable", "boot") \in StopSteps /\ RemoveFile("boot") \in StopSteps
        /\ Systemctl("disable --now", "unit") \in StopSteps /\ RemoveFile("unit") \in StopSteps
        /\ ExternalDown \in StopSteps /\ RemoveFile("record") \in StopSteps /\ Cron(FALSE) \in StopSteps
    BY StopStepTypes DEF Verbs, Files
  <2>5. /\ Systemctl("disable", "boot").kind # "cron" /\ RemoveFile("boot").kind # "cron"
        /\ Systemctl("disable --now", "unit").kind # "cron" /\ RemoveFile("unit").kind # "cron"
        /\ ExternalDown.kind # "cron" /\ RemoveFile("record").kind # "cron"
    BY DEF Systemctl, RemoveFile, ExternalDown
  <2> QED
    BY <2>2, <2>3, <2>4, <2>5
<1>8. S \subseteq StopSteps /\ \A s \in S : s.kind # "cron"
  OBVIOUS
<1>9. boots \in Seq(S) /\ native \in Seq(S) /\ outside \in Seq(S)
  <2> HIDE DEF S
  <2> QED
    BY <1>7, PlansJoin
<1>10. stops \in Seq(S) /\ Len(stops) = targets
       /\ \A i \in 1..targets : stops[i] = Rm(NodeSeq[i], Containers(NodeSeq[i]))
  <2> DEFINE R(i) == Rm(NodeSeq[i], Containers(NodeSeq[i]))
  <2>1. \A i \in 1..targets : R(i) \in S
    BY <1>7
  <2>2. stops = [i \in 1..targets |-> R(i)]
    OBVIOUS
  <2> HIDE DEF R, S, targets, stops
  <2>3. stops \in Seq(S) /\ Len(stops) = targets /\ \A i \in 1..targets : stops[i] = R(i)
    BY <1>6, <2>1, <2>2
  <2> QED
    BY <2>3 DEF R
<1>11. j.recipe # None \/ j.bootSeen => boots = <<Systemctl("disable", "boot"), RemoveFile("boot")>>
  BY <1>2
<1> HIDE DEF stops, boots, native, outside, last, S, docker, targets, runtime, P
<1> DEFINE stopped == stops \o boots
           free == stopped \o native
           off == free \o outside
<1>12. stopped \in Seq(S) /\ StartsWith(stops, stopped) /\ Len(stopped) = targets + Len(boots)
       /\ \A i \in 1..Len(boots) : stopped[targets + i] = boots[i]
  <2>1. stopped \in Seq(S) /\ StartsWith(stops, stopped)
    BY <1>9, <1>10, StartsHere
  <2>2. Len(stopped) = targets + Len(boots)
    <3>1. stops \in Seq(S) /\ boots \in Seq(S)
      BY <1>9, <1>10
    <3>2. Len(stops \o boots) = Len(stops) + Len(boots)
      BY <3>1
    <3> QED
      BY <1>10, <3>2
  <2>3. \A i \in 1..Len(boots) : (stops \o boots)[Len(stops) + i] = boots[i]
    BY <1>9, <1>10, JoinRight
  <2> QED
    BY <1>10, <2>1, <2>2, <2>3
<1> HIDE DEF stopped
<1>13. free \in Seq(S) /\ StartsWith(stopped, free)
  BY <1>9, <1>12, StartsHere
<1> HIDE DEF free
<1>14. off \in Seq(S) /\ StartsWith(stopped, off)
  BY <1>9, <1>12, <1>13, StartsOn
<1> HIDE DEF off
<1>15. P = off \o last
  BY <1>4, <1>5 DEF off, free, stopped
<1>16. off \in Seq(StopSteps) /\ last \in Seq(StopSteps) /\ Len(last) = 2 /\ last[1] = RemoveFile("record")
  <2> DEFINE a == RemoveFile("record")
             c == Cron(FALSE)
  <2>1. a \in StopSteps /\ c \in StopSteps /\ last = <<a, c>>
    BY <1>7 DEF last
  <2> HIDE DEF a, c
  <2>2. last \in Seq(StopSteps) /\ Len(last) = 2 /\ last[1] = a
    BY <2>1
  <2> QED
    BY <1>8, <1>14, <2>2, WiderPlan DEF a
<1>17. /\ Len(P) = Len(off) + 2 /\ Len(off) \in Nat
       /\ \A i \in 1..Len(off) : P[i] = off[i]
       /\ P[Len(off) + 1] = RemoveFile("record")
  <2>1. Len(off \o last) = Len(off) + 2
    BY <1>16, JoinLen
  <2>2. \A i \in 1..Len(off) : (off \o last)[i] = off[i]
    BY <1>16, JoinLeft
  <2>3. (off \o last)[Len(off) + 1] = last[1]
    <3>1. 1 \in 1..Len(last)
      BY <1>16
    <3> QED
      BY <1>16, <3>1, JoinRight
  <2> QED
    BY <1>15, <1>16, <2>1, <2>2, <2>3
<1>18. ASSUME NEW i \in 1..Len(stopped)
       PROVE  i \in 1..Len(P) - 1 /\ P[i] = stopped[i]
  BY <1>12, <1>14, <1>17 DEF StartsWith
<1>19. ASSUME NEW i \in 1..targets
       PROVE  \E m \in 1..Len(P) - 1 : P[m] = Rm(NodeSeq[i], Containers(NodeSeq[i]))
  <2>1. i \in 1..Len(stopped) /\ stopped[i] = stops[i]
    BY <1>6, <1>9, <1>10, <1>12 DEF StartsWith
  <2> QED
    BY <1>10, <1>18, <2>1
<1>20. ASSUME j.recipe # None \/ j.bootSeen
       PROVE  \E m \in 1..Len(P) - 1 : P[m] = RemoveFile("boot")
  <2> DEFINE a == Systemctl("disable", "boot")
             b == RemoveFile("boot")
  <2>1. a \in S /\ b \in S /\ boots = <<a, b>>
    BY <1>7, <1>11, <1>20 DEF S
  <2> HIDE DEF a, b
  <2>2. Len(boots) = 2 /\ boots[2] = b
    BY <2>1
  <2>3. targets + 2 \in 1..Len(stopped) /\ stopped[targets + 2] = b
    BY <1>6, <1>12, <2>2
  <2> QED
    BY <1>18, <2>3 DEF b
<1>21. ASSUME NEW i \in 1..Len(P) - 1
       PROVE  P[i].kind # "cron"
  <2>1. CASE i \in 1..Len(off)
    BY <1>8, <1>14, <1>17, <2>1
  <2>2. CASE i = Len(off) + 1
    BY <1>17, <2>2 DEF RemoveFile
  <2> QED
    BY <1>17, <2>1, <2>2
<1> QED
  BY <1>3, <1>19, <1>20, <1>21 DEF P, targets

-----------------------------------------------------------------------------
(***************************************************************************)
(* What a step of a command does to engines and files, on such a rack.     *)
(***************************************************************************)
LEMMA DockerSlots ==
  ASSUME OnlyDocker
  PROVE  /\ Slots = Nodes \cup {Solo, Unit}
         /\ \A r \in Recipes : ~IsExternal(r) /\ r \notin Slots /\ OwnSlots(r) \subseteq Slots \ {Unit}
         /\ None \notin Slots
<1>1. \A r \in Recipes : ~IsExternal(r)
  BY DEF OnlyDocker, IsExternal
<1>2. Slots = Nodes \cup {Solo, Unit}
  BY <1>1 DEF Slots
<1>3. \A r \in Recipes : NodesOf(r) \subseteq Nodes
  BY OwnNodes
<1> QED
  BY <1>1, <1>2, <1>3, RackAssumption DEF OwnSlots

LEMMA RefreshWrites ==
  ASSUME NEW j \in Jobs, j.cmd = "refresh"
  PROVE  \A i \in 1..Len(Plan(j)) : Plan(j)[i].kind = "write" => Plan(j)[i].file = "boot"
<1>1. Plan(j) = BootUnitSteps \o <<Cron(TRUE)>>
  BY DEF Plan, PlanRefresh
<1> QED
  BY <1>1 DEF BootUnitSteps, WriteFile, RemoveFile, Systemctl, Cron

\* A command starts only its own recipe's containers, and writes no unit's file.
LEMMA OwnStep ==
  ASSUME OnlyDocker, ControlOK, NEW p \in Procs, Running(p)
  PROVE  /\ Step(p).kind = "run" =>
              Step(p).slot \in OwnSlots(job[p].recipe) /\ job[p].recipe \in Recipes /\ job[p].cmd = "up"
         /\ Step(p).kind = "launch" =>
              Step(p).node \in NodesOf(job[p].recipe) /\ job[p].recipe \in Recipes /\ job[p].cmd = "up"
         /\ Step(p).kind = "write" => Step(p).file = "boot"
<1> DEFINE j == job[p]
<1>1. j \in Jobs /\ pc[p] \in 1..Len(Plan(j)) /\ Step(p) = Plan(j)[pc[p]]
  BY StepType DEF ControlOK, Step
<1>2. /\ Plan(j) \in Seq(UpSteps)
      /\ j \in UpJobs \/ Plan(j) \in Seq(StopSteps)
      /\ j.cmd = "up" \/ Plan(j) \in Seq(BootSteps)
  BY <1>1, PlanType
<1> HIDE DEF j
<1>3. CASE j.cmd = "up"
  <2>1. j.recipe \in Recipes
    BY <1>1, <1>3, UpGuarded
  <2>2. CASE Step(p) \in DockerSteps(j.recipe)
    BY <1>3, <2>1, <2>2, DockerStepKinds DEF j
  <2>3. CASE Step(p).kind \in {"up-already", "external-first", "record", "cron"}
    BY <2>3
  <2> QED
    BY <1>1, <1>3, <2>2, <2>3, UpGuarded
<1>4. CASE j.cmd # "up"
  <2>1. Step(p) \in BootSteps /\ Step(p).kind \notin {"run", "launch"}
    BY <1>1, <1>2, <1>4 DEF BootSteps, StopSteps
  <2>2. CASE j.cmd = "refresh"
    BY <1>1, <2>1, <2>2, RefreshWrites
  <2>3. CASE j.cmd # "refresh"
    <3>1. j \notin UpJobs
      BY <1>4, <2>3 DEF UpJobs
    <3>2. Step(p) \in StopSteps
      BY <1>1, <1>2, <3>1
    <3> QED
      BY <2>1, <3>2, StepKinds DEF NeedsRecipe
  <2> QED
    BY <2>2, <2>3
<1> QED
  BY <1>3, <1>4

\* The executor's step, by its kind, has one of these effects on what is in a slot.
Moves(p, e) ==
  \/ eng'[e] = eng[e]
  \/ Step(p).kind = "rm" /\ e \in Step(p).slots /\ eng'[e] = None
  \/ /\ Step(p).kind = "run" /\ e = Step(p).slot /\ ~Present(e)
     /\ eng'[e] \in Engines /\ eng'[e].recipe = job[p].recipe /\ eng'[e].phase \in {"running", "idle"}
  \/ /\ Step(p).kind = "launch" /\ e = Step(p).node /\ Present(e)
     /\ eng'[e] \in Engines /\ eng'[e].recipe = job[p].recipe /\ eng'[e].phase = "running"

LEMMA ExecutesMoves ==
  ASSUME OnlyDocker, RackOK, ControlOK, ContainersOnly, NEW p \in Procs, Executes(p)
  PROVE  \A e \in Slots : Moves(p, e)
<1> DEFINE s == Step(p)
<1>1. Running(p) /\ eng \in [Slots -> Engines \cup {None}] /\ record \in Recipes \cup {None}
  BY DEF Executes, RackOK
<1>2. \/ DoUpAlready(p, s) \/ DoExternalFirst(p, s) \/ DoRm(p, s) \/ DoFree(p, s)
      \/ DoPrepare(p, s) \/ DoRunContainer(p, s) \/ DoLaunch(p, s)
      \/ DoWrite(p, s) \/ DoRemove(p, s)
      \/ DoSystemctlBoot(p, s) \/ DoSystemctlStop(p, s) \/ DoSystemctlStart(p, s)
      \/ DoExternalUp(p, s) \/ DoExternalDown(p, s)
      \/ DoWait(p, s) \/ DoWaitDead(p, s) \/ DoWaitTimeout(p, s)
      \/ DoRecord(p, s) \/ DoCron(p, s)
  BY DEF Executes
<1>3. /\ s.kind \in NeedsRecipe => job[p].recipe \in Recipes
      /\ job[p] \in Jobs
  BY <1>1, StepType
<1>4. job[p].recipe \notin Slots
  BY <1>3, DockerSlots DEF Jobs, UpJobs, DownJobs
<1>5. /\ s.kind = "run" => s.slot \in Slots /\ job[p].recipe \in Recipes
      /\ s.kind = "launch" => s.node \in Slots /\ job[p].recipe \in Recipes
  <2>1. /\ s.kind = "run" => s.slot \in OwnSlots(job[p].recipe) /\ job[p].recipe \in Recipes
        /\ s.kind = "launch" => s.node \in NodesOf(job[p].recipe) /\ job[p].recipe \in Recipes
    BY <1>1, OwnStep
  <2>2. \A r \in Recipes : OwnSlots(r) \subseteq Slots /\ NodesOf(r) \subseteq Slots
    BY DockerSlots DEF OwnSlots
  <2> QED
    BY <2>1, <2>2
<1> HIDE DEF s
<1>6. CASE UNCHANGED eng
  BY <1>6 DEF Moves
<1>7. CASE DoRm(p, s)
  BY <1>1, <1>7 DEF DoRm, Clear, Moves, s
<1>8. CASE DoRunContainer(p, s) /\ eng' # eng
  <2>1. /\ s.kind = "run" /\ ~Present(s.slot)
        /\ \/ eng' = [eng EXCEPT ![s.slot] = [recipe |-> job[p].recipe, phase |-> "running"]]
           \/ eng' = [eng EXCEPT ![s.slot] = [recipe |-> job[p].recipe, phase |-> "idle"]]
    BY <1>8 DEF DoRunContainer, Put
  <2>2. \A ph \in {"running", "idle"} : [recipe |-> job[p].recipe, phase |-> ph] \in Engines
    BY <1>5, <2>1 DEF Engines, Phases
  <2> QED
    BY <1>1, <1>5, <2>1, <2>2 DEF Moves, s
<1>9. CASE DoLaunch(p, s) /\ eng' # eng
  <2>1. /\ s.kind = "launch" /\ Present(s.node)
        /\ eng' = [eng EXCEPT ![s.node] = [recipe |-> job[p].recipe, phase |-> "running"]]
    BY <1>9 DEF DoLaunch, Put, Active
  <2>2. [recipe |-> job[p].recipe, phase |-> "running"] \in Engines
    BY <1>5, <2>1 DEF Engines, Phases
  <2> QED
    BY <1>1, <1>5, <2>1, <2>2 DEF Moves, s
<1>10. CASE DoSystemctlStop(p, s)
  <2>1. \A e \in Slots : eng'[e] = IF e \in {Unit} THEN None ELSE eng[e]
    BY <1>10 DEF DoSystemctlStop, Clear
  <2> QED
    BY <2>1 DEF ContainersOnly, Moves
<1>11. CASE DoSystemctlStart(p, s)
  BY <1>6, <1>11 DEF DoSystemctlStart, ContainersOnly
<1>12. CASE DoExternalDown(p, s)
  <2>1. \A e \in Slots : eng'[e] = IF e \in {job[p].recipe} THEN None ELSE eng[e]
    BY <1>12 DEF DoExternalDown, Clear
  <2> QED
    BY <1>4, <2>1 DEF Moves
<1>13. CASE DoExternalUp(p, s)
  <2>1. eng' = eng \/ eng' = [eng EXCEPT ![job[p].recipe] = [recipe |-> job[p].recipe, phase |-> "running"]]
    BY <1>13 DEF DoExternalUp, Put
  <2> QED
    BY <1>1, <1>4, <2>1 DEF Moves
<1>14. CASE DoExternalFirst(p, s)
  <2>1. record = None \/ ~IsExternal(record)
    BY <1>1, DockerSlots
  <2> QED
    BY <1>6, <1>14, <2>1 DEF DoExternalFirst
<1>15. CASE DoWaitDead(p, s) \/ DoWaitTimeout(p, s)
  <2>1. s.kind = "wait" /\ GivesUp(p)
    BY <1>15 DEF DoWaitDead, DoWaitTimeout
  <2>2. ~IsExternal(job[p].recipe)
    BY <1>3, <2>1, DockerSlots DEF NeedsRecipe
  <2> QED
    BY <1>6, <2>1, <2>2 DEF GivesUp
<1>16. CASE \/ DoUpAlready(p, s) \/ DoFree(p, s) \/ DoPrepare(p, s) \/ DoWrite(p, s) \/ DoRemove(p, s)
            \/ DoSystemctlBoot(p, s) \/ DoWait(p, s) \/ DoRecord(p, s) \/ DoCron(p, s)
  BY <1>6, <1>16 DEF DoUpAlready, DoFree, DoPrepare, DoWrite, DoRemove, DoSystemctlBoot, DoWait,
                     DoRecord, DoCron, rackVars
<1> QED
  BY <1>2, <1>6, <1>7, <1>8, <1>9, <1>10, <1>11, <1>12, <1>13, <1>14, <1>15, <1>16

LEMMA FailsMoves ==
  ASSUME NEW p \in Procs, Fails(p)
  PROVE  UNCHANGED rackVars
  BY DEF Fails, Killed, StepFails, StepIgnored, LooksFree, Detach

\* A step that was gone on from did what it is for, on a node that answers; and
\* only an answer, or Ctrl-C, skips steps.
LEMMA GoesOn ==
  ASSUME ControlOK, NEW p \in Procs, Executes(p) \/ Fails(p), job'[p] # None
  PROVE  LET s == Step(p)
         IN  /\ s.kind \notin {"up-already", "wait"} => job'[p] = job[p] /\ pc'[p] = pc[p] + 1
             /\ s.kind = "free" /\ s.node \in Heard => \A e \in s.watched : ~Active(e)
             /\ s.kind = "rm" /\ s.node \in Heard => \A e \in s.slots \cap Slots : eng'[e] = None
             /\ s.kind = "remove" /\ s.file = "boot" => bootUnit' = None
<1> DEFINE s == Step(p)
<1>1. /\ Ends(p) => job'[p] = None
      /\ Goes(p) /\ job'[p] # None => job'[p] = job[p] /\ pc'[p] = pc[p] + 1
  BY DEF ControlOK, Ends, Goes
<1>2. ~Ends(p)
  BY <1>1
<1>3. ASSUME s.kind \notin {"up-already", "wait"}
      PROVE  job'[p] = job[p] /\ pc'[p] = pc[p] + 1
  <2> HIDE DEF s
  <2>1. CASE Executes(p)
    <3>1. \/ DoUpAlready(p, s) \/ DoExternalFirst(p, s) \/ DoRm(p, s) \/ DoFree(p, s)
          \/ DoPrepare(p, s) \/ DoRunContainer(p, s) \/ DoLaunch(p, s)
          \/ DoWrite(p, s) \/ DoRemove(p, s)
          \/ DoSystemctlBoot(p, s) \/ DoSystemctlStop(p, s) \/ DoSystemctlStart(p, s)
          \/ DoExternalUp(p, s) \/ DoExternalDown(p, s)
          \/ DoWait(p, s) \/ DoWaitDead(p, s) \/ DoWaitTimeout(p, s)
          \/ DoRecord(p, s) \/ DoCron(p, s)
      BY <2>1 DEF Executes, s
    <3>2. Goes(p) \/ Ends(p)
      BY <1>3, <3>1, Zenon
         DEF DoUpAlready, DoExternalFirst, DoRm, DoFree, DoPrepare, DoRunContainer,
             DoLaunch, DoWrite, DoRemove, DoSystemctlBoot, DoSystemctlStop,
             DoSystemctlStart, DoExternalUp, DoExternalDown, DoWait, DoWaitDead,
             DoWaitTimeout, DoRecord, DoCron
    <3> QED
      BY <1>1, <1>2, <3>2
  <2>2. CASE Fails(p)
    BY <1>1, <1>2, <1>3, <2>2 DEF Fails, Killed, StepFails, StepIgnored, LooksFree, Detach, s
  <2> QED
    BY <2>1, <2>2
<1>4. ASSUME s.kind = "free", s.node \in Heard
      PROVE  \A e \in s.watched : ~Active(e)
  <2>1. CASE Executes(p)
    <3>1. DoFree(p, s)
      BY <1>4, <2>1 DEF Executes, DoUpAlready, DoExternalFirst, DoRm, DoPrepare, DoRunContainer,
             DoLaunch, DoWrite, DoRemove, DoSystemctlBoot, DoSystemctlStop,
             DoSystemctlStart, DoExternalUp, DoExternalDown, DoWait, DoWaitDead,
             DoWaitTimeout, DoRecord, DoCron
    <3> QED
      BY <1>2, <3>1 DEF DoFree, FindsBusy
  <2>2. CASE Fails(p)
    BY <1>2, <1>4, <2>2 DEF Fails, Killed, StepFails, StepIgnored, LooksFree, Detach, Heard, Fallible
  <2> QED
    BY <2>1, <2>2
<1>5. ASSUME s.kind = "rm", s.node \in Heard
      PROVE  \A e \in s.slots \cap Slots : eng'[e] = None
  <2>1. CASE Executes(p)
    <3>1. DoRm(p, s)
      BY <1>5, <2>1 DEF Executes, DoUpAlready, DoExternalFirst, DoFree, DoPrepare, DoRunContainer,
             DoLaunch, DoWrite, DoRemove, DoSystemctlBoot, DoSystemctlStop,
             DoSystemctlStart, DoExternalUp, DoExternalDown, DoWait, DoWaitDead,
             DoWaitTimeout, DoRecord, DoCron
    <3> QED
      BY <3>1 DEF DoRm, Clear
  <2>2. CASE Fails(p)
    BY <1>2, <1>5, <2>2 DEF Fails, Killed, StepFails, StepIgnored, LooksFree, Detach, Heard, Fallible
  <2> QED
    BY <2>1, <2>2
<1>6. ASSUME s.kind = "remove", s.file = "boot"
      PROVE  bootUnit' = None
  <2>1. CASE Executes(p)
    <3>1. DoRemove(p, s)
      BY <1>6, <2>1 DEF Executes, DoUpAlready, DoExternalFirst, DoRm, DoFree, DoPrepare, DoRunContainer,
             DoLaunch, DoWrite, DoSystemctlBoot, DoSystemctlStop,
             DoSystemctlStart, DoExternalUp, DoExternalDown, DoWait, DoWaitDead,
             DoWaitTimeout, DoRecord, DoCron
    <3> QED
      BY <1>6, <3>1 DEF DoRemove
  <2>2. CASE Fails(p)
    BY <1>2, <1>6, <2>2 DEF Fails, Killed, StepFails, StepIgnored, LooksFree, Detach, Fallible
  <2> QED
    BY <2>1, <2>2
<1> QED
  BY <1>3, <1>4, <1>5, <1>6

\* The files a step may write.
LEMMA FilesMove ==
  ASSUME OnlyDocker, ControlOK, ContainersOnly, NEW p \in Procs, Executes(p) \/ Fails(p)
  PROVE  /\ unitFile' = None
         /\ Step(p).kind # "write" => bootUnit' \in {bootUnit, None}
<1> DEFINE s == Step(p)
<1>1. Running(p) /\ (s.kind = "write" => s.file = "boot")
  BY OwnStep DEF Executes, Fails, Killed
<1>2. unitFile = None
  BY DEF ContainersOnly
<1>3. CASE Fails(p)
  BY <1>2, <1>3, FailsMoves DEF rackVars
<1>4. CASE Executes(p)
  <2>1. \/ DoUpAlready(p, s) \/ DoExternalFirst(p, s) \/ DoRm(p, s) \/ DoFree(p, s)
        \/ DoPrepare(p, s) \/ DoRunContainer(p, s) \/ DoLaunch(p, s)
        \/ DoWrite(p, s) \/ DoRemove(p, s)
        \/ DoSystemctlBoot(p, s) \/ DoSystemctlStop(p, s) \/ DoSystemctlStart(p, s)
        \/ DoExternalUp(p, s) \/ DoExternalDown(p, s)
        \/ DoWait(p, s) \/ DoWaitDead(p, s) \/ DoWaitTimeout(p, s)
        \/ DoRecord(p, s) \/ DoCron(p, s)
    BY <1>4 DEF Executes
  <2> HIDE DEF s
  <2>2. CASE DoWrite(p, s)
    BY <1>1, <1>2, <2>2 DEF DoWrite, s
  <2>3. CASE DoRemove(p, s)
    BY <1>2, <2>3 DEF DoRemove
  <2>4. CASE ~DoWrite(p, s) /\ ~DoRemove(p, s)
    <3>1. unitFile' = unitFile /\ bootUnit' = bootUnit
      BY <2>1, <2>4
         DEF DoUpAlready, DoExternalFirst, DoRm, DoFree, DoPrepare, DoRunContainer,
             DoLaunch, DoSystemctlBoot, DoSystemctlStop,
             DoSystemctlStart, DoExternalUp, DoExternalDown, DoWait, DoWaitDead,
             DoWaitTimeout, DoRecord, DoCron, rackVars, engOnly, fileVars
    <3> QED
      BY <1>2, <3>1
  <2> QED
    BY <2>2, <2>3, <2>4
<1> QED
  BY <1>3, <1>4

-----------------------------------------------------------------------------
(***************************************************************************)
(* Every step keeps the invariant.                                         *)
(***************************************************************************)
\* A command goes on, ends, or becomes a refresh.
LEMMA JobMoves ==
  ASSUME ControlOK, NEW p \in Procs, Executes(p) \/ Fails(p)
  PROVE  /\ Running(p) /\ alone' = alone
         /\ \A q \in Procs \ {p} : job'[q] = job[q] /\ pc'[q] = pc[q]
         /\ job'[p] \in {None, job[p]} \/ (job'[p] # None /\ job'[p].cmd = "refresh")
         /\ MovesOn(p)
<1> DEFINE s == Step(p)
           refreshes == /\ job' = [job EXCEPT ![p].cmd = "refresh"]
                        /\ s.kind = "up-already"
<1>1. Shape(p)
  BY ExecutesShape, FailsShape
<1>2. Goes(p) \/ Ends(p) \/ SkipsToEnd(p) \/ refreshes
  <2>1. CASE Executes(p)
    <3> HIDE DEF s
    <3>1. \/ DoUpAlready(p, s) \/ DoExternalFirst(p, s) \/ DoRm(p, s) \/ DoFree(p, s)
          \/ DoPrepare(p, s) \/ DoRunContainer(p, s) \/ DoLaunch(p, s)
          \/ DoWrite(p, s) \/ DoRemove(p, s)
          \/ DoSystemctlBoot(p, s) \/ DoSystemctlStop(p, s) \/ DoSystemctlStart(p, s)
          \/ DoExternalUp(p, s) \/ DoExternalDown(p, s)
          \/ DoWait(p, s) \/ DoWaitDead(p, s) \/ DoWaitTimeout(p, s)
          \/ DoRecord(p, s) \/ DoCron(p, s)
      BY <2>1 DEF Executes, s
    <3> QED
      BY <3>1, Zenon
         DEF DoUpAlready, DoExternalFirst, DoRm, DoFree, DoPrepare, DoRunContainer,
             DoLaunch, DoWrite, DoRemove, DoSystemctlBoot, DoSystemctlStop,
             DoSystemctlStart, DoExternalUp, DoExternalDown, DoWait, DoWaitDead,
             DoWaitTimeout, GivesUp, DoRecord, DoCron
  <2>2. CASE Fails(p)
    BY <2>2 DEF Fails, Killed, StepFails, StepIgnored, LooksFree, Detach
  <2> QED
    BY <2>1, <2>2
<1>3. job'[p] \in {None, job[p]} \/ (job'[p] # None /\ job'[p].cmd = "refresh")
  <2>1. CASE Goes(p) \/ Ends(p) \/ SkipsToEnd(p)
    BY <2>1 DEF ControlOK, Goes, Ends, SkipsToEnd
  <2>2. CASE refreshes
    <3>1. job[p] \in UpJobs /\ job[p] \in Jobs
      BY <1>1, <2>2, StepType DEF NeedsRecipe, Shape
    <3>2. job'[p] = [job[p] EXCEPT !.cmd = "refresh"]
      BY <2>2 DEF ControlOK
    <3>3. [job[p] EXCEPT !.cmd = "refresh"] \in UpJobs /\ [job[p] EXCEPT !.cmd = "refresh"].cmd = "refresh"
      BY <3>1 DEF UpJobs
    <3> QED
      BY <3>2, <3>3, NoneAssumption DEF Jobs
  <2> QED
    BY <1>2, <2>1, <2>2
<1> QED
  BY <1>1, <1>3 DEF Shape, Others

LEMMA StepKeepsContainers ==
  ASSUME OnlyDocker, RackOK, ControlOK, ContainersOnly, WithinSpan, NEW p \in Procs, Executes(p) \/ Fails(p)
  PROVE  ContainersOnly' /\ WithinSpan'
<1>1. CASE Fails(p)
  BY <1>1, FailsMoves DEF rackVars, ContainersOnly, WithinSpan, Present
<1>2. CASE Executes(p)
  <2> DEFINE r == job[p].recipe
  <2>1. \A e \in Slots : Moves(p, e)
    BY <1>2, ExecutesMoves
  <2>2. ASSUME NEW e \in Slots, eng'[e] # eng[e], eng'[e] # None
        PROVE  r \in Recipes /\ e \in OwnSlots(r) /\ eng'[e].phase # "up"
    <3>1. Running(p)
      BY <1>2 DEF Executes
    <3>2. Moves(p, e)
      BY <2>1
    <3>3. CASE Step(p).kind = "run" /\ e = Step(p).slot /\ eng'[e].phase \in {"running", "idle"}
      BY <3>1, <3>3, OwnStep
    <3>4. CASE Step(p).kind = "launch" /\ e = Step(p).node /\ eng'[e].phase = "running"
      BY <3>1, <3>4, OwnStep DEF OwnSlots
    <3> QED
      BY <2>2, <3>2, <3>3, <3>4 DEF Moves
  <2>3. Unit \in Slots /\ Nodes \subseteq Slots /\ \A q \in Recipes : Unit \notin OwnSlots(q)
    BY DockerSlots
  <2>4. unitFile' = None
    BY FilesMove
  <2>5. ContainersOnly'
    BY <2>2, <2>3, <2>4 DEF ContainersOnly, Present
  <2>6. WithinSpan'
    <3> SUFFICES ASSUME OneSpan, NEW e \in Slots, NEW q \in Recipes, eng'[e] # None
                 PROVE  e \in OwnSlots(q)
      BY DEF WithinSpan, Present, OneSpan
    <3>1. CASE eng'[e] = eng[e]
      BY <3>1 DEF WithinSpan, Present
    <3>2. CASE eng'[e] # eng[e]
      <4>1. r \in Recipes /\ e \in OwnSlots(r)
        BY <2>2, <3>2
      <4>2. Span[r] = Span[q]
        BY <4>1 DEF OneSpan
      <4> QED
        BY <4>1, <4>2 DEF OwnSlots, NodesOf
    <3> QED
      BY <3>1, <3>2
  <2> QED
    BY <2>5, <2>6
<1> QED
  BY <1>1, <1>2

LEMMA StepMoves ==
  ASSUME OnlyDocker, RackOK, ControlOK, ContainersOnly, NEW p \in Procs, Executes(p) \/ Fails(p)
  PROVE  \A e \in Slots : Moves(p, e)
<1>1. CASE Fails(p)
  BY <1>1, FailsMoves DEF rackVars, Moves
<1> QED
  BY <1>1, ExecutesMoves

\* The steps behind a command that has gone on.
LEMMA DoneNext ==
  ASSUME ControlOK, NEW p \in Procs, Running(p), job'[p] = job[p], pc'[p] = pc[p] + 1
  PROVE  Done(p)' = Done(p) \cup {Step(p)}
<1>1. pc[p] \in Nat /\ pc[p] \in 1..Len(Plan(job[p])) /\ pc[p] >= 1
  <2>1. Len(Plan(job[p])) \in Nat
    BY StepType, PlanType
  <2> QED
    BY <2>1 DEF ControlOK
<1>2. 1..pc'[p] - 1 = (1..pc[p] - 1) \cup {pc[p]}
  BY <1>1
<1> QED
  BY <1>2 DEF Done, Step

LEMMA DoneTypes ==
  ASSUME ControlOK, NEW p \in Procs, Running(p), NEW s \in Done(p)
  PROVE  /\ s \in UpSteps
         /\ s.kind = "free" => s.watched \subseteq Slots
         /\ s.kind = "rm" => s.slots \subseteq Slots
<1>1. pc[p] \in 1..Len(Plan(job[p])) /\ Plan(job[p]) \in Seq(UpSteps) /\ Len(Plan(job[p])) \in Nat
  BY StepType, PlanType DEF ControlOK
<1>2. s \in UpSteps
  <2>1. PICK i \in 1..pc[p] - 1 : s = Plan(job[p])[i]
    BY DEF Done
  <2>2. i \in 1..Len(Plan(job[p]))
    BY <1>1
  <2> QED
    BY <1>1, <2>1, <2>2
<1> QED
  BY <1>2 DEF UpSteps, BodySteps, BootSteps, StopSteps

LEMMA StepKeepsLooked ==
  ASSUME OnlyDocker, RackOK, ControlOK, ContainersOnly, NEW p \in Procs, Executes(p) \/ Fails(p), Looked(p)
  PROVE  Looked(p)'
<1> SUFFICES ASSUME alone[p], job'[p] # None, job'[p].cmd = "up", pc'[p] < Len(Plan(job'[p])),
                    NEW s \in Done(p)', s.kind = "free", s.node \in Heard,
                    NEW e \in s.watched, eng'[e] # None, eng'[e].phase # "exited"
             PROVE  eng'[e].recipe = job'[p].recipe
  <2>1. alone' = alone
    BY JobMoves
  <2> QED
    BY <2>1 DEF Looked, AloneAt, Running, Active, Present, Heard
<1>1. Running(p) /\ job'[p] = job[p] /\ pc'[p] = pc[p] + 1 /\ job[p].cmd = "up"
  <2>1. job'[p] = job[p] /\ MovesOn(p) /\ Running(p)
    BY JobMoves
  <2>2. pc'[p] = pc[p] + 1
    BY <2>1 DEF MovesOn
  <2> QED
    BY <2>1, <2>2
<1>2. pc[p] < Len(Plan(job[p]))
  <2>1. pc[p] \in Nat /\ Len(Plan(job[p])) \in Nat
    BY <1>1, StepType, PlanType DEF ControlOK
  <2> QED
    BY <1>1, <2>1
<1>3. \A t \in Done(p) : t.kind = "free" /\ t.node \in Heard =>
        \A x \in t.watched : Active(x) => eng[x].recipe = job[p].recipe
  BY <1>1, <1>2 DEF Looked, AloneAt
<1>4. Done(p)' = Done(p) \cup {Step(p)}
  BY <1>1, DoneNext
<1>5. e \in Slots
  <2>1. CASE s \in Done(p)
    BY <1>1, <2>1, DoneTypes
  <2>2. CASE s = Step(p)
    <3>1. s \in UpSteps
      BY <1>1, <2>2, StepType
    <3> QED
      BY <3>1 DEF UpSteps, BodySteps, BootSteps, StopSteps
  <2> QED
    BY <1>4, <2>1, <2>2
<1>6. Moves(p, e)
  BY <1>5, StepMoves
<1>7. CASE eng'[e] = eng[e]
  <2>1. Active(e)
    BY <1>7 DEF Active, Present
  <2>2. s # Step(p)
    BY <1>1, <2>1, GoesOn
  <2>3. s \in Done(p)
    BY <1>4, <2>2
  <2> QED
    BY <1>1, <1>3, <1>7, <2>1, <2>3
<1> QED
  BY <1>1, <1>6, <1>7 DEF Moves

LEMMA StepKeepsStopped ==
  ASSUME OnlyDocker, RackOK, ControlOK, ContainersOnly, NEW p \in Procs, Executes(p) \/ Fails(p),
         Stopped(p), Unbooted(p)
  PROVE  Stopped(p)' /\ Unbooted(p)'
<1> SUFFICES ASSUME alone[p], job'[p] # None, job'[p].cmd = "down"
             PROVE  Stopped(p)' /\ Unbooted(p)'
  <2>1. alone' = alone
    BY JobMoves
  <2> QED
    BY <2>1 DEF Stopped, Unbooted, AloneAt, Running
<1>1. Running(p) /\ job'[p] = job[p] /\ job[p].cmd = "down" /\ job[p] \in Jobs
  <2>1. Running(p) /\ job'[p] = job[p]
    BY JobMoves
  <2> QED
    BY <2>1, StepType
<1>2. Step(p) \in StopSteps
  <2>1. job[p] \notin UpJobs
    BY <1>1 DEF UpJobs
  <2>2. Plan(job[p]) \in Seq(StopSteps) /\ pc[p] \in 1..Len(Plan(job[p]))
    BY <1>1, <2>1, PlanType DEF ControlOK
  <2> QED
    BY <2>2 DEF Step
<1>3. Step(p).kind \notin NeedsRecipe
  BY <1>2, StepKinds
<1>4. pc'[p] = pc[p] + 1
  BY <1>1, <1>3, GoesOn DEF NeedsRecipe
<1>5. Done(p)' = Done(p) \cup {Step(p)}
  BY <1>1, <1>4, DoneNext
<1>6. AloneAt(p, "down")
  BY <1>1 DEF AloneAt
<1>7. \A e \in Slots : eng'[e] \in {eng[e], None}
  BY <1>3, StepMoves DEF Moves, NeedsRecipe
<1>8. ASSUME NEW s \in Done(p)', s.kind = "rm", s.node \in Heard, NEW e \in s.slots
      PROVE  ~(eng'[e] # None /\ eng'[e].phase # "exited")
  <2>1. CASE s \in Done(p)
    <3>1. e \in Slots
      BY <1>1, <1>8, <2>1, DoneTypes
    <3>2. ~Active(e)
      BY <1>6, <1>8, <2>1 DEF Stopped
    <3> QED
      BY <1>7, <3>1, <3>2 DEF Active, Present
  <2>2. CASE s = Step(p)
    <3>1. e \in Slots
      BY <1>2, <1>8, <2>2 DEF StopSteps
    <3> QED
      BY <1>1, <1>8, <2>2, <3>1, GoesOn
  <2> QED
    BY <1>5, <2>1, <2>2
<1>9. ASSUME RemoveFile("boot") \in Done(p)' \/ (job'[p].recipe = None /\ ~job'[p].bootSeen)
      PROVE  bootUnit' = None
  <2>1. bootUnit' \in {bootUnit, None}
    BY <1>3, FilesMove DEF NeedsRecipe
  <2>2. CASE RemoveFile("boot") = Step(p)
    <3>1. Step(p).kind = "remove" /\ Step(p).file = "boot"
      BY <2>2 DEF RemoveFile
    <3> QED
      BY <1>1, <3>1, GoesOn
  <2>3. CASE RemoveFile("boot") # Step(p)
    BY <1>1, <1>5, <1>6, <1>9, <2>1, <2>3 DEF Unbooted
  <2> QED
    BY <2>2, <2>3
<1>10. Stopped(p)'
  BY <1>8 DEF Stopped, Active, Present, Heard
<1>11. Unbooted(p)'
  BY <1>9 DEF Unbooted
<1> QED
  BY <1>10, <1>11

LEMMA StepKeepsDocker ==
  ASSUME OnlyDocker, RackOK, ControlOK, Alone, DockerInv, NEW p \in Procs, Executes(p) \/ Fails(p)
  PROVE  DockerInv'
<1>1. /\ ContainersOnly /\ WithinSpan
      /\ \A q \in Procs : Looked(q) /\ Stopped(q) /\ Unbooted(q) /\ BootReplaces(q)
  BY DEF DockerInv
<1>2. /\ Running(p) /\ alone' = alone
      /\ \A q \in Procs \ {p} : job'[q] = job[q] /\ pc'[q] = pc[q]
      /\ job'[p] \in {None, job[p]} \/ (job'[p] # None /\ job'[p].cmd = "refresh")
  BY JobMoves
<1>3. ContainersOnly' /\ WithinSpan'
  BY <1>1, StepKeepsContainers
<1>4. Looked(p)' /\ Stopped(p)' /\ Unbooted(p)'
  BY <1>1, StepKeepsLooked, StepKeepsStopped
<1>5. ASSUME NEW q \in Procs, q # p
      PROVE  Looked(q)' /\ Stopped(q)' /\ Unbooted(q)'
  <2>1. ~(alone'[q] /\ job'[q] # None)
    BY <1>2, <1>5 DEF Alone, Running
  <2> QED
    BY <2>1 DEF Looked, Stopped, Unbooted, AloneAt, Running
<1>6. ASSUME NEW q \in Procs
      PROVE  BootReplaces(q)'
  <2>1. BootReplaces(q)
    BY <1>1
  <2>2. CASE job'[q] = job[q]
    BY <2>1, <2>2 DEF BootReplaces, Running
  <2>3. CASE job'[q] # job[q]
    BY <1>2, <2>3 DEF BootReplaces, Running
  <2> QED
    BY <2>2, <2>3
<1>7. \A q \in Procs : Looked(q)' /\ Stopped(q)' /\ Unbooted(q)' /\ BootReplaces(q)'
  BY <1>4, <1>5, <1>6
<1> QED
  BY <1>3, <1>7 DEF DockerInv

LEMMA StartKeepsDocker ==
  ASSUME ControlOK, Alone, DockerInv, NEW p \in Procs, NEW j \in Jobs, Starts(p, j),
         UNCHANGED <<eng, bootUnit, unitFile>>,
         j.cmd = "up" => (j.boot => j.replace),
         j.cmd = "down" => (j.recipe = None /\ ~j.bootSeen => bootUnit = None)
  PROVE  DockerInv'
<1>1. /\ job'[p] = j /\ pc'[p] = 1 /\ j # None
      /\ \A q \in Procs \ {p} : job'[q] = job[q] /\ pc'[q] = pc[q] /\ (alone'[q] => ~Running(q))
  BY NoneAssumption DEF Starts, ControlOK
<1>2. ContainersOnly' /\ WithinSpan'
  BY DEF DockerInv, ContainersOnly, WithinSpan, Present
<1>3. Done(p)' = {}
  BY <1>1 DEF Done
<1>4. Looked(p)' /\ Stopped(p)'
  BY <1>3 DEF Looked, Stopped
<1>5. Unbooted(p)'
  BY <1>1, <1>3 DEF Unbooted, AloneAt
<1>6. BootReplaces(p)'
  BY <1>1 DEF BootReplaces
<1>7. ASSUME NEW q \in Procs, q # p
      PROVE  Looked(q)' /\ Stopped(q)' /\ Unbooted(q)' /\ BootReplaces(q)'
  <2>1. ~(alone'[q] /\ job'[q] # None) /\ job'[q] = job[q]
    BY <1>1, <1>7 DEF Running
  <2>2. BootReplaces(q)
    BY DEF DockerInv
  <2> QED
    BY <2>1, <2>2 DEF Looked, Stopped, Unbooted, BootReplaces, AloneAt, Running
<1>8. \A q \in Procs : Looked(q)' /\ Stopped(q)' /\ Unbooted(q)' /\ BootReplaces(q)'
  BY <1>4, <1>5, <1>6, <1>7
<1> QED
  BY <1>2, <1>8 DEF DockerInv

LEMMA CommandsKeepDocker ==
  ASSUME RackOK, ControlOK, Alone, DockerInv,
         KeepDecides \/ KeepUp \/ \E p \in Procs : UserUp(p) \/ UserDown(p)
  PROVE  DockerInv'
<1>1. \A r \in Recipes, replace, boot \in BOOLEAN :
         UpJob(r, replace, boot) \in Jobs /\ UpJob(r, replace, boot).cmd = "up"
         /\ UpJob(r, replace, boot).boot = boot /\ UpJob(r, replace, boot).replace = replace
  <2>1. \A r \in Recipes, replace, boot \in BOOLEAN : UpJob(r, replace, boot) \in Jobs
    BY JobTypes, Zenon
  <2>2. \A r, replace, boot : UpJob(r, replace, boot).cmd = "up"
         /\ UpJob(r, replace, boot).boot = boot /\ UpJob(r, replace, boot).replace = replace
    BY DEF UpJob
  <2> QED
    BY <2>1, <2>2
<1>2. DownJob \in Jobs /\ DownJob.cmd = "down" /\ DownJob.bootSeen = (bootUnit # None)
  <2>1. DownJob \in Jobs
    BY JobTypes
  <2> QED
    BY <2>1 DEF DownJob
<1>3. TRUE \in BOOLEAN /\ FALSE \in BOOLEAN
  OBVIOUS
<1>4. CASE KeepDecides
  BY <1>4 DEF KeepDecides, DockerInv, ContainersOnly, WithinSpan, Present, Looked, Stopped, Unbooted,
              BootReplaces, AloneAt, Running, Done, Active
<1>5. CASE KeepUp
  <2> DEFINE j == UpJob(keep, TRUE, FALSE)
  <2>1. keep \in Recipes /\ Keeper \in Procs /\ Starts(Keeper, j) /\ UNCHANGED <<eng, bootUnit, unitFile>>
    BY <1>5 DEF KeepUp, RackOK, Procs
  <2>2. j \in Jobs /\ j.cmd = "up" /\ j.boot = FALSE
    BY <1>1, <1>3, <2>1
  <2> HIDE DEF j
  <2> QED
    BY <2>1, <2>2, StartKeepsDocker
<1>6. ASSUME NEW p \in Procs, UserUp(p)
      PROVE  DockerInv'
  <2>1. UNCHANGED <<eng, bootUnit, unitFile>>
    BY <1>6 DEF UserUp, rackVars
  <2>2. PICK r \in Recipes, replace \in BOOLEAN : Starts(p, UpJob(r, replace, FALSE))
    BY <1>6 DEF UserUp
  <2> DEFINE j == UpJob(r, replace, FALSE)
  <2>3. j \in Jobs /\ j.cmd = "up" /\ j.boot = FALSE /\ Starts(p, j)
    BY <1>1, <1>3, <2>2
  <2> HIDE DEF j
  <2> QED
    BY <2>1, <2>3, StartKeepsDocker
<1>7. ASSUME NEW p \in Procs, UserDown(p)
      PROVE  DockerInv'
  <2> DEFINE j == DownJob
  <2>1. UNCHANGED <<eng, bootUnit, unitFile>> /\ Starts(p, j)
    BY <1>7 DEF UserDown, rackVars
  <2>2. j \in Jobs /\ j.cmd = "down" /\ (~j.bootSeen => bootUnit = None)
    BY <1>2
  <2> HIDE DEF j
  <2> QED
    BY <2>1, <2>2, StartKeepsDocker
<1> QED
  BY <1>4, <1>5, <1>6, <1>7

\* No engine that was not running runs after a step of the environment.
LEMMA EnvironmentMoves ==
  ASSUME RackOK, ContainersOnly, Environment
  PROVE  /\ \A e \in Slots : eng'[e] # None => Present(e)
         /\ \A e \in Slots : eng'[e] # None /\ eng'[e].phase # "exited" =>
              Active(e) /\ eng'[e].recipe = eng[e].recipe
         /\ eng'[Unit] = None /\ unitFile' = None /\ bootUnit' = bootUnit
         /\ \A n \in Nodes \ {HeadNode} : eng'[n] # None => eng'[n].phase # "up"
<1>1. /\ eng \in [Slots -> Engines \cup {None}] /\ eng[Unit] = None /\ unitFile = None
      /\ Unit \in Slots /\ Nodes \subseteq Slots /\ Solo \in Slots
      /\ \A n \in Nodes \ {HeadNode} : eng[n] # None => eng[n].phase # "up"
      /\ Unit \notin Nodes /\ Solo \notin Nodes /\ Solo # Unit
  BY RackAssumption, NodesKnown DEF RackOK, ContainersOnly, Present
<1>2. \A r, ph : [recipe |-> r, phase |-> ph].recipe = r /\ [recipe |-> r, phase |-> ph].phase = ph
  OBVIOUS
<1>3. \A e \in Slots, ph \in Phases : eng[e] # None => [recipe |-> eng[e].recipe, phase |-> ph] # None
  <2>1. \A e \in Slots, ph \in Phases : eng[e] # None => [recipe |-> eng[e].recipe, phase |-> ph] \in Engines
    BY <1>1 DEF Engines
  <2> QED
    BY <2>1, NoneAssumption
<1>4. ASSUME NEW s \in Slots, ComesUp(s)
      PROVE  /\ s # Unit /\ (s \in Nodes => s = HeadNode) /\ Active(s)
             /\ eng' = [eng EXCEPT ![s] = [recipe |-> eng[s].recipe, phase |-> "up"]]
             /\ unitFile' = unitFile /\ bootUnit' = bootUnit
  BY <1>1, <1>4 DEF ComesUp, CanComeUp, Present, Active, Put, engOnly
<1>5. ASSUME NEW s \in Slots, Dies(s) \/ Exits(s)
      PROVE  /\ Active(s) /\ s # Unit
             /\ \/ \E ph \in {"running", "idle", "exited"} :
                     eng' = [eng EXCEPT ![s] = [recipe |-> eng[s].recipe, phase |-> ph]]
                \/ eng' = [x \in Slots |-> IF x \in {s} THEN None ELSE eng[x]]
             /\ unitFile' = unitFile /\ bootUnit' = bootUnit
  BY <1>1, <1>5 DEF Dies, Exits, Present, Active, Put, Clear, fileVars
<1>6. CASE \E s \in Slots : ComesUp(s) \/ Dies(s) \/ Exits(s)
  BY <1>1, <1>2, <1>4, <1>5, <1>6 DEF Active, Present
<1>7. CASE Reboot
  <2>1. eng' = [s \in Slots |-> AfterReboot(s)] /\ unitFile' = unitFile /\ bootUnit' = bootUnit
    BY <1>7 DEF Reboot, fileVars
  <2>2. AfterReboot(Unit) = None
    BY <1>1 DEF AfterReboot
  <2>3. ASSUME NEW e \in Slots, Active(e), NEW ph \in {"idle", "running"}
        PROVE  /\ eng[e] # None
               /\ [eng[e] EXCEPT !.phase = ph].recipe = eng[e].recipe
               /\ [eng[e] EXCEPT !.phase = ph].phase = ph
    BY <1>1, <2>3 DEF Engines, Active, Present
  <2>4. ASSUME NEW e \in Nodes
        PROVE  \/ Active(e) /\ AfterReboot(e) = [eng[e] EXCEPT !.phase = "idle"]
               \/ ~Active(e) /\ AfterReboot(e) = eng[e]
    BY <1>1 DEF AfterReboot
  <2>5. \/ Active(Solo) /\ AfterReboot(Solo) = [eng[Solo] EXCEPT !.phase = "running"]
        \/ ~Active(Solo) /\ AfterReboot(Solo) = eng[Solo]
    BY <1>1 DEF AfterReboot
  <2>6. ASSUME NEW e \in Slots, e \notin Nodes \cup {Solo}
        PROVE  AfterReboot(e) = None
    BY <1>1, <2>6 DEF AfterReboot
  <2>7. ASSUME NEW e \in Slots
        PROVE  /\ eng'[e] # None => Present(e)
               /\ eng'[e] # None /\ eng'[e].phase # "exited" => Active(e) /\ eng'[e].recipe = eng[e].recipe
               /\ eng'[e] # None /\ e \in Nodes => eng'[e].phase \in {"idle", "exited"}
    <3>1. eng'[e] = AfterReboot(e) /\ (eng[e] # None => eng[e] \in Engines)
      BY <1>1, <2>1
    <3>2. CASE ~Active(e) /\ eng'[e] = eng[e]
      BY <1>1, <3>1, <3>2 DEF Active, Present, Engines, Phases
    <3>3. CASE Active(e) /\ (eng'[e] = [eng[e] EXCEPT !.phase = "idle"]
                             \/ (e \notin Nodes /\ eng'[e] = [eng[e] EXCEPT !.phase = "running"]))
      BY <2>3, <3>3 DEF Present
    <3>5. CASE e \in Nodes
      BY <2>4, <3>1, <3>2, <3>3, <3>5
    <3>6. CASE e = Solo
      BY <1>1, <2>5, <3>1, <3>2, <3>3, <3>6
    <3>4. CASE e \notin Nodes \cup {Solo}
      BY <2>6, <3>1, <3>4
    <3> QED
      BY <3>4, <3>5, <3>6
  <2> QED
    BY <1>1, <2>1, <2>2, <2>7
<1> QED
  BY <1>6, <1>7 DEF Environment

LEMMA EnvironmentKeepsDocker ==
  ASSUME OnlyDocker, RackOK, ControlOK, Alone, DockerInv, Environment
  PROVE  DockerInv'
<1>1. /\ ContainersOnly /\ WithinSpan
      /\ \A q \in Procs : Looked(q) /\ Stopped(q) /\ Unbooted(q) /\ BootReplaces(q)
  BY DEF DockerInv
<1>2. /\ \A e \in Slots : eng'[e] # None => Present(e)
      /\ \A e \in Slots : eng'[e] # None /\ eng'[e].phase # "exited" =>
           Active(e) /\ eng'[e].recipe = eng[e].recipe
      /\ eng'[Unit] = None /\ unitFile' = None /\ bootUnit' = bootUnit
      /\ \A n \in Nodes \ {HeadNode} : eng'[n] # None => eng'[n].phase # "up"
  BY <1>1, EnvironmentMoves
<1>3. ContainersOnly'
  BY <1>2 DEF ContainersOnly, Present
<1>4. WithinSpan'
  BY <1>1, <1>2 DEF WithinSpan, OneSpan, Present
<1>5. CASE \E s \in Slots : ComesUp(s) \/ Dies(s) \/ Exits(s)
  <2>1. UNCHANGED <<job, pc, alone>>
    BY <1>5 DEF ComesUp, Dies, Exits
  <2>2. ASSUME NEW q \in Procs
        PROVE  Looked(q)' /\ Stopped(q)' /\ Unbooted(q)' /\ BootReplaces(q)'
    <3>1. Looked(q) /\ Stopped(q) /\ Unbooted(q) /\ BootReplaces(q) /\ Done(q)' = Done(q)
      BY <1>1, <2>1 DEF Done
    <3>2. Running(q) => \A s \in Done(q) : /\ s.kind = "free" => s.watched \subseteq Slots
                                           /\ s.kind = "rm" => s.slots \subseteq Slots
      BY DoneTypes
    <3>3. Looked(q)'
      BY <1>2, <2>1, <3>1, <3>2 DEF Looked, AloneAt, Running, Active, Present, Heard
    <3>4. Stopped(q)'
      BY <1>2, <2>1, <3>1, <3>2 DEF Stopped, AloneAt, Running, Active, Present, Heard
    <3>5. Unbooted(q)'
      BY <1>2, <2>1, <3>1 DEF Unbooted, AloneAt, Running
    <3>6. BootReplaces(q)'
      BY <2>1, <3>1 DEF BootReplaces, Running
    <3> QED
      BY <3>3, <3>4, <3>5, <3>6
  <2>3. \A q \in Procs : Looked(q)' /\ Stopped(q)' /\ Unbooted(q)' /\ BootReplaces(q)'
    BY <2>2
  <2> QED
    BY <1>3, <1>4, <2>3 DEF DockerInv
<1>6. CASE Reboot
  <2>1. ASSUME NEW q \in Procs, job'[q] # None
        PROVE  job'[q].cmd = "up" /\ job'[q].replace = TRUE /\ pc'[q] = 1
    BY <1>6, <2>1 DEF Reboot, UpJob
  <2>2. ASSUME NEW q \in Procs
        PROVE  Looked(q)' /\ Stopped(q)' /\ Unbooted(q)' /\ BootReplaces(q)'
    <3>1. CASE job'[q] = None
      BY <3>1 DEF Looked, Stopped, Unbooted, BootReplaces, AloneAt, Running
    <3>2. CASE job'[q] # None
      <4>1. Done(q)' = {}
        <5>1. pc'[q] = 1
          BY <2>1, <3>2
        <5> QED
          BY <5>1 DEF Done
      <4> QED
        BY <2>1, <3>2, <4>1 DEF Looked, Stopped, Unbooted, BootReplaces, AloneAt, Running
    <3> QED
      BY <3>1, <3>2
  <2>3. \A q \in Procs : Looked(q)' /\ Stopped(q)' /\ Unbooted(q)' /\ BootReplaces(q)'
    BY <2>2
  <2> QED
    BY <1>3, <1>4, <2>3 DEF DockerInv
<1> QED
  BY <1>5, <1>6 DEF Environment

LEMMA DockerInvInitially == Init => DockerInv
<1> SUFFICES ASSUME Init PROVE DockerInv
  OBVIOUS
<1>1. ContainersOnly /\ WithinSpan
  BY NodesKnown DEF Init, ContainersOnly, WithinSpan, Present
<1>2. \A p \in Procs : ~Running(p)
  BY DEF Init, Running
<1> QED
  BY <1>1, <1>2 DEF DockerInv, Looked, Stopped, Unbooted, BootReplaces, AloneAt

LEMMA DockerInvNext ==
  ASSUME OnlyDocker, XInv, DockerInv, [Next]_vars
  PROVE  DockerInv'
<1>1. RackOK /\ ControlOK /\ Alone
  BY TwoParts DEF XInv
<1>2. ASSUME NEW p \in Procs, Executes(p) \/ Fails(p)
      PROVE  DockerInv'
  BY <1>1, <1>2, StepKeepsDocker
<1>3. CASE KeepDecides \/ KeepUp \/ \E p \in Procs : UserUp(p) \/ UserDown(p)
  BY <1>1, <1>3, CommandsKeepDocker
<1>4. CASE Environment
  BY <1>1, <1>4, EnvironmentKeepsDocker
<1>5. CASE UNCHANGED vars
  BY <1>5 DEF vars, DockerInv, ContainersOnly, WithinSpan, Present, Looked, Stopped, Unbooted,
              BootReplaces, AloneAt, Running, Done, Active
<1> QED
  BY <1>2, <1>3, <1>4, <1>5 DEF Next

\* The invariant DockerInv holds on every rack whose recipes are all containers:
\* guard_steps, plan_down and the boot unit's steps, whatever else runs.
LEMMA DockerInvariant ==
  ASSUME OnlyDocker
  PROVE  Spec => []DockerInv
<1>1. XInv /\ DockerInv /\ [Next]_vars => DockerInv'
  BY DockerInvNext
<1> QED
  BY <1>1, DockerInvInitially, XInvariant, PTL DEF Spec

-----------------------------------------------------------------------------
(***************************************************************************)
(* What follows from it.                                                   *)
(***************************************************************************)
LEMMA NodesHeard == HeadNode \in Heard /\ HeadNode \in Nodes /\ NodeOf(Solo) = HeadNode
                    /\ \A n \in Nodes : NodeOf(n) = n /\ n \in Containers(n)
                    /\ Solo \in Containers(HeadNode)
  BY NodesKnown, RackAssumption DEF Heard, NodeOf, Containers

\* Once past its guard, a rack up finds no other recipe's engine on the nodes
\* it spans.
LEMMA LooksBefore ==
  ASSUME OnlyDocker, ControlOK, DockerInv, NEW p \in Procs, AloneAt(p, "up"),
         Step(p).kind \notin {"up-already", "external-first", "prepare", "free", "cron"},
         Step(p).kind = "rm" => ~(job[p].replace \/ job[p].boot)
  PROVE  \A s \in Slots : Active(s) /\ NodeOf(s) \in NodesOf(job[p].recipe) \cap Heard =>
                            eng[s].recipe = job[p].recipe
<1> DEFINE j == job[p]
           P == Plan(j)
<1>1. /\ Running(p) /\ j \in Jobs /\ j.cmd = "up" /\ pc[p] \in 1..Len(P) /\ Step(p) = P[pc[p]]
      /\ Len(P) \in Nat /\ pc[p] \in Nat
  <2>1. Running(p) /\ j.cmd = "up"
    BY DEF AloneAt
  <2>2. j \in Jobs /\ pc[p] \in 1..Len(P) /\ Step(p) = P[pc[p]]
    BY <2>1, StepType DEF ControlOK, Step
  <2>3. Len(P) \in Nat
    BY <2>2, PlanType
  <2> QED
    BY <2>1, <2>2, <2>3
<1> HIDE DEF P, j
<1>2. PICK g \in 0..Len(P) :
        /\ \A i \in 1..g : \/ P[i].kind \in {"up-already", "external-first", "prepare", "free"}
                           \/ (j.replace \/ j.boot) /\ P[i].kind = "rm"
        /\ \A n \in NodesOf(j.recipe) : \E i \in 1..g : P[i] = Free(n, Containers(n))
  BY <1>1, UpGuarded DEF Guarded, P
<1>3. P[Len(P)].kind = "cron" /\ j.recipe \in Recipes
  BY <1>1, UpGuarded DEF P
<1>4. pc[p] > g /\ pc[p] < Len(P)
  BY <1>1, <1>2, <1>3 DEF j
<1>5. ASSUME NEW n \in NodesOf(j.recipe)
      PROVE  Free(n, Containers(n)) \in Done(p)
  <2>1. PICK i \in 1..g : P[i] = Free(n, Containers(n))
    BY <1>2
  <2>2. i \in 1..pc[p] - 1
    BY <1>1, <1>4
  <2> QED
    BY <2>1, <2>2 DEF Done, P, j
<1>6. \A s \in Done(p) : s.kind = "free" /\ s.node \in Heard =>
        \A e \in s.watched : Active(e) => eng[e].recipe = j.recipe
  BY <1>4 DEF DockerInv, Looked, P, j
<1>7. ASSUME NEW s \in Slots, Active(s), NodeOf(s) \in NodesOf(j.recipe) \cap Heard
      PROVE  eng[s].recipe = j.recipe
  <2>1. s \in Containers(NodeOf(s))
    <3>1. s # Unit
      BY <1>7 DEF DockerInv, ContainersOnly, Active, Present
    <3> QED
      BY <3>1, DockerSlots, NodesHeard
  <2> DEFINE f == Free(NodeOf(s), Containers(NodeOf(s)))
  <2>2. f \in Done(p) /\ f.kind = "free" /\ f.node \in Heard /\ s \in f.watched
    BY <1>5, <1>7, <2>1 DEF Free
  <2> HIDE DEF f
  <2> QED
    BY <1>6, <1>7, <2>2
<1> QED
  BY <1>7 DEF j

\* A command that runs alone never gets as far as starting its containers on a
\* node where another recipe's engine still runs, if that node answers
\* (guard_steps and do_free), on any rack whose recipes are all containers.
THEOREM NoEngineIsOnTop ==
  ASSUME OnlyDocker
  PROVE  Spec => []NoEngineOnTop
<1>1. ASSUME XInv, DockerInv, NEW p \in Procs, alone[p], Starting(p), NEW s \in Slots,
             Active(s), NodeOf(s) \in Uses(job[p].recipe) \cap Heard
      PROVE  eng[s].recipe = job[p].recipe
  <2>1. ControlOK /\ Running(p) /\ Places(Step(p))
    BY <1>1, TwoParts DEF XInv, Starting
  <2>2. job[p] \in Jobs /\ pc[p] \in 1..Len(Plan(job[p])) /\ Step(p) = Plan(job[p])[pc[p]]
    BY <2>1, StepType DEF ControlOK, Step
  <2>3. job[p].cmd = "up"
    <3> SUFFICES ASSUME Plan(job[p]) \in Seq(BootSteps) PROVE FALSE
      BY <2>2, PlanType
    <3>1. Step(p) \in BootSteps
      BY <2>2
    <3> QED
      BY <2>1, <3>1, OnlyUpPlaces
  <2>4. job[p].recipe \in Recipes
    BY <2>2, <2>3, UpGuarded
  <2>5. NodeOf(s) \in NodesOf(job[p].recipe) \cap Heard
    BY <1>1, <2>4 DEF Uses, OnlyDocker
  <2>6. Step(p).kind \notin {"up-already", "external-first", "prepare", "free", "cron", "rm"}
    BY <2>1 DEF Places
  <2>7. AloneAt(p, "up")
    BY <1>1, <2>1, <2>3 DEF AloneAt
  <2> QED
    BY <1>1, <2>1, <2>5, <2>6, <2>7, LooksBefore
<1>2. XInv /\ DockerInv => NoEngineOnTop
  BY <1>1 DEF NoEngineOnTop
<1> QED
  BY <1>2, XInvariant, DockerInvariant, PTL

\* When a command that runs alone is about to write serving.json, no other
\* recipe's engine answers on its port (do_wait and record), on such a rack.
THEOREM RecordIsTrueAlone ==
  ASSUME OnlyDocker
  PROVE  Spec => []RecordTrueAlone
<1>1. ASSUME XInv, DockerInv, NEW p \in Procs, alone[p], At(p, "record"), NEW s \in Slots,
             Present(s), eng[s].phase = "up"
      PROVE  eng[s].recipe = job[p].recipe
  <2>1. ControlOK /\ Running(p) /\ Step(p).kind = "record"
    BY <1>1, TwoParts DEF XInv, At
  <2>2. job[p] \in Jobs /\ pc[p] \in 1..Len(Plan(job[p])) /\ Step(p) = Plan(job[p])[pc[p]]
    BY <2>1, StepType DEF ControlOK, Step
  <2>3. job[p].cmd = "up"
    <3> SUFFICES ASSUME Plan(job[p]) \in Seq(BootSteps) PROVE FALSE
      BY <2>2, PlanType
    <3>1. Step(p) \in BootSteps
      BY <2>2
    <3> QED
      BY <2>1, <3>1 DEF BootSteps, StopSteps
  <2>4. job[p].recipe \in Recipes
    BY <2>2, <2>3, UpGuarded
  <2>5. AloneAt(p, "up") /\ Active(s)
    BY <1>1, <2>1, <2>3 DEF AloneAt, Active
  <2>6. NodeOf(s) = HeadNode
    <3>1. s # Unit /\ (s \in Nodes => s = HeadNode)
      BY <1>1 DEF DockerInv, ContainersOnly, Present
    <3> QED
      BY <3>1, DockerSlots, NodesHeard
  <2>7. NodeOf(s) \in NodesOf(job[p].recipe) \cap Heard
    BY <2>4, <2>6, OwnNodes, NodesHeard
  <2> QED
    BY <1>1, <2>1, <2>5, <2>7, LooksBefore
<1>2. XInv /\ DockerInv => RecordTrueAlone
  BY <1>1 DEF RecordTrueAlone
<1> QED
  BY <1>2, XInvariant, DockerInvariant, PTL

\* rack up without --replace that runs alone takes down nothing of another
\* recipe's that runs on a node that answers (guard_steps), on such a rack.
THEOREM RefusesUnlessReplacing ==
  ASSUME OnlyDocker
  PROVE  Spec => RefusesWithoutReplace
<1>1. ASSUME XInv, DockerInv, [Next]_vars, NEW p \in Procs,
             alone[p], Running(p), pc'[p] # pc[p], faults' = faults,
             job[p].cmd = "up", ~job[p].replace,
             NEW s \in Slots, Active(s), NodeOf(s) \in Heard, eng[s].recipe # job[p].recipe
      PROVE  eng'[s] = eng[s]
  <2>1. RackOK /\ ControlOK /\ ContainersOnly
    BY <1>1, TwoParts DEF XInv, DockerInv
  <2>2. CASE UNCHANGED eng
    BY <2>2
  <2>3. CASE KeepDecides \/ KeepUp \/ \E q \in Procs : UserUp(q) \/ UserDown(q)
    BY <2>3 DEF KeepDecides, KeepUp, UserUp, UserDown, rackVars
  <2>4. CASE Environment
    <3>1. faults \in Nat
      BY <2>1, RackAssumption DEF RackOK
    <3>2. CASE \E e \in Slots : ComesUp(e)
      BY <1>1, <3>2 DEF ComesUp
    <3>3. CASE Reboot \/ \E e \in Slots : Dies(e) \/ Exits(e)
      <4>1. faults' = faults + 1
        BY <3>3 DEF Reboot, Dies, Exits, Fault
      <4> QED
        BY <1>1, <3>1, <4>1
    <3> QED
      BY <2>4, <3>2, <3>3 DEF Environment
  <2>5. ASSUME NEW q \in Procs, Executes(q) \/ Fails(q)
        PROVE  eng'[s] = eng[s]
    <3>1. q = p
      BY <1>1, <2>1, <2>5, JobMoves
    <3>2. Moves(p, s)
      BY <2>1, <2>5, <3>1, StepMoves
    <3>3. job[p] \in Jobs /\ pc[p] \in 1..Len(Plan(job[p])) /\ Step(p) = Plan(job[p])[pc[p]]
      BY <1>1, <2>1, StepType DEF ControlOK, Step
    <3>4. job[p].recipe \in Recipes
      BY <1>1, <3>3, UpGuarded
    <3>5. AloneAt(p, "up") /\ ~job[p].boot
      BY <1>1 DEF AloneAt, DockerInv, BootReplaces
    <3>6. ASSUME Step(p).kind \in {"rm", "launch"}, s \in OwnSlots(job[p].recipe)
          PROVE  FALSE
      <4>1. NodeOf(s) \in NodesOf(job[p].recipe) \cap Heard
        BY <1>1, <3>4, <3>6, OwnNodes, NodesHeard DEF OwnSlots
      <4> QED
        BY <1>1, <2>1, <3>5, <3>6, <4>1, LooksBefore
    <3>7. CASE Step(p).kind = "rm" /\ s \in Step(p).slots
      <4>1. Step(p) \in DockerSteps(job[p].recipe)
        BY <1>1, <3>3, <3>7, UpGuarded
      <4> QED
        BY <3>4, <3>6, <3>7, <4>1, DockerStepKinds
    <3>8. CASE Step(p).kind = "launch" /\ s = Step(p).node
      BY <1>1, <2>1, <3>6, <3>8, OwnStep DEF OwnSlots
    <3>9. Present(s)
      BY <1>1 DEF Active
    <3> QED
      BY <3>2, <3>7, <3>8, <3>9 DEF Moves
  <2> QED
    BY <1>1, <2>2, <2>3, <2>4, <2>5 DEF Next, vars
<1>2. XInv /\ DockerInv /\ [Next]_vars =>
        [\A p \in Procs :
           (/\ alone[p] /\ Running(p) /\ pc'[p] # pc[p] /\ faults' = faults
            /\ job[p].cmd = "up" /\ ~job[p].replace) =>
           \A s \in Slots :
             Active(s) /\ NodeOf(s) \in Heard /\ eng[s].recipe # job[p].recipe =>
               eng'[s] = eng[s]]_vars
  BY <1>1
<1> QED
  BY <1>2, XInvariant, DockerInvariant, PTL DEF Spec, RefusesWithoutReplace

\* What a rack down that runs alone has behind it when it is at its last step.
LEMMA DownDone ==
  ASSUME OnlyDocker, ControlOK, DockerInv, NEW p \in Procs, alone[p], At(p, "cron"), job[p].cmd = "down"
  PROVE  LET targets == IF job[p].recipe = None THEN Len(NodeSeq) ELSE Span[job[p].recipe]
         IN  /\ job[p].recipe \in Recipes \cup {None}
             /\ \A i \in 1..targets : NodeSeq[i] \in Heard =>
                  \A e \in Containers(NodeSeq[i]) : ~Active(e)
             /\ bootUnit = None /\ unitFile = None /\ eng[Unit] = None
<1> DEFINE j == job[p]
           P == Plan(j)
           targets == IF j.recipe = None THEN Len(NodeSeq) ELSE Span[j.recipe]
<1>1. Running(p) /\ Step(p).kind = "cron" /\ AloneAt(p, "down")
  BY DEF At, AloneAt
<1>2. j \in Jobs /\ pc[p] \in 1..Len(P) /\ Step(p) = P[pc[p]] /\ Len(P) \in Nat
  <2>1. j \in Jobs /\ pc[p] \in 1..Len(P) /\ Step(p) = P[pc[p]]
    BY <1>1, StepType DEF ControlOK, Step
  <2> QED
    BY <2>1, PlanType
<1>3. j.recipe \in Recipes \cup {None}
  BY <1>2 DEF Jobs, UpJobs, DownJobs
<1> HIDE DEF j, P, targets
<1>4. /\ \A i \in 1..targets : \E m \in 1..Len(P) - 1 : P[m] = Rm(NodeSeq[i], Containers(NodeSeq[i]))
      /\ j.recipe # None \/ j.bootSeen => \E m \in 1..Len(P) - 1 : P[m] = RemoveFile("boot")
      /\ \A i \in 1..Len(P) - 1 : P[i].kind # "cron"
  BY <1>2, DownStops DEF j, P, targets
<1>5. pc[p] = Len(P)
  BY <1>1, <1>2, <1>4
<1>6. \A m \in 1..Len(P) - 1 : P[m] \in Done(p)
  BY <1>5 DEF Done, P, j
<1>7. ASSUME NEW i \in 1..targets, NodeSeq[i] \in Heard
      PROVE  \A e \in Containers(NodeSeq[i]) : ~Active(e)
  <2> DEFINE s == Rm(NodeSeq[i], Containers(NodeSeq[i]))
  <2>1. s \in Done(p)
    BY <1>4, <1>6
  <2>2. s.kind = "rm" /\ s.node = NodeSeq[i] /\ s.slots = Containers(NodeSeq[i])
    BY DEF Rm
  <2> HIDE DEF s
  <2> QED
    BY <1>1, <1>7, <2>1, <2>2 DEF DockerInv, Stopped
<1>8. bootUnit = None
  BY <1>1, <1>4, <1>6 DEF DockerInv, Unbooted, j
<1>9. unitFile = None /\ eng[Unit] = None
  BY DEF DockerInv, ContainersOnly
<1> QED
  BY <1>3, <1>7, <1>8, <1>9 DEF targets, j

\* When rack down has run by itself, nothing serves on the head and nothing
\* comes back there at boot (plan_down), on such a rack, whatever was recorded.
THEOREM DownHasFreedHead ==
  ASSUME OnlyDocker
  PROVE  Spec => []DownFreesHead
<1>1. ASSUME XInv, DockerInv, NEW p \in Procs, alone[p], At(p, "cron"), job[p].cmd = "down"
      PROVE  /\ \A s \in Slots : Active(s) => NodeOf(s) # HeadNode
             /\ bootUnit = None /\ unitFile = None
  <2>1. ControlOK
    BY <1>1, TwoParts DEF XInv
  <2> DEFINE targets == IF job[p].recipe = None THEN Len(NodeSeq) ELSE Span[job[p].recipe]
  <2>2. /\ job[p].recipe \in Recipes \cup {None}
        /\ \A i \in 1..targets : NodeSeq[i] \in Heard => \A e \in Containers(NodeSeq[i]) : ~Active(e)
        /\ bootUnit = None /\ unitFile = None /\ eng[Unit] = None
    BY <1>1, <2>1, DownDone
  <2>3. 1 \in 1..targets
    BY <2>2, RackAssumption
  <2> HIDE DEF targets
  <2>4. ~Active(HeadNode) /\ ~Active(Solo) /\ ~Active(Unit)
    BY <2>2, <2>3, NodesHeard DEF HeadNode, Active, Present
  <2>5. \A s \in Slots : Active(s) => NodeOf(s) # HeadNode
    BY <2>4, DockerSlots, NodesHeard
  <2> QED
    BY <2>2, <2>5
<1>2. XInv /\ DockerInv => DownFreesHead
  BY <1>1 DEF DownFreesHead
<1> QED
  BY <1>2, XInvariant, DockerInvariant, PTL

\* And nothing serves on any node, if a command is never lost on its way to a
\* worker and all recipes span as many nodes: a wider one that was replaced
\* leaves its farther ranks to themselves (plan_down goes by the record).
THEOREM DownHasLeftNothing ==
  ASSUME OnlyDocker, OneSpan, ~Lossy
  PROVE  Spec => []DownLeavesNothing
<1>1. ASSUME XInv, DockerInv, NEW p \in Procs, alone[p], At(p, "cron"), job[p].cmd = "down"
      PROVE  /\ \A s \in Slots : ~Active(s)
             /\ bootUnit = None /\ unitFile = None
  <2>1. ControlOK
    BY <1>1, TwoParts DEF XInv
  <2> DEFINE targets == IF job[p].recipe = None THEN Len(NodeSeq) ELSE Span[job[p].recipe]
  <2>2. /\ job[p].recipe \in Recipes \cup {None}
        /\ \A i \in 1..targets : NodeSeq[i] \in Heard => \A e \in Containers(NodeSeq[i]) : ~Active(e)
        /\ bootUnit = None /\ unitFile = None /\ eng[Unit] = None
    BY <1>1, <2>1, DownDone
  <2>3. 1 \in 1..targets /\ \A i \in 1..targets : NodeSeq[i] \in Nodes
    BY <2>2, RackAssumption, NodesKnown
  <2>4. Heard = Nodes
    BY DEF Heard
  <2>5. ~Active(Solo) /\ ~Active(Unit)
    BY <2>2, <2>3, NodesHeard DEF HeadNode, Active, Present
  <2>6. ASSUME NEW n \in Nodes, Active(n)
        PROVE  \E i \in 1..targets : n = NodeSeq[i]
    <3>1. CASE job[p].recipe = None
      <4>1. DOMAIN NodeSeq = 1..Len(NodeSeq)
        BY RackAssumption
      <4> QED
        BY <3>1, <4>1 DEF Nodes
    <3>2. CASE job[p].recipe \in Recipes
      <4>1. n \in OwnSlots(job[p].recipe)
        BY <1>1, <2>6, <3>2, DockerSlots DEF DockerInv, WithinSpan, Active
      <4>2. n \in NodesOf(job[p].recipe)
        BY <2>5, <2>6, <4>1 DEF OwnSlots
      <4>3. job[p].recipe # None
        BY <3>2, RackAssumption
      <4> QED
        BY <3>2, <4>2, <4>3, OwnNodes
    <3> QED
      BY <2>2, <3>1, <3>2
  <2> HIDE DEF targets
  <2>7. \A n \in Nodes : ~Active(n)
    BY <2>2, <2>4, <2>6, NodesHeard
  <2> QED
    BY <2>2, <2>5, <2>7, DockerSlots
<1>2. XInv /\ DockerInv => DownLeavesNothing
  BY <1>1 DEF DownLeavesNothing
<1> QED
  BY <1>2, XInvariant, DockerInvariant, PTL
=============================================================================
