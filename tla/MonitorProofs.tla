---------------------------- MODULE MonitorProofs ----------------------------
(***************************************************************************)
(* What the monitor shows is recent, and it gives itself up when it should *)
(* (Monitor), and so is what its cluster view shows of other machines      *)
(* (Peers): for any time-outs, peers, views, ports and engines, on the     *)
(* whole head (HeadNode).                                                  *)
(***************************************************************************)
EXTENDS StartingProofs

-----------------------------------------------------------------------------
(***************************************************************************)
(* What the scene leaves to happen.                                        *)
(***************************************************************************)
\* What is left of a scene.
BudgetOK ==
  /\ DOMAIN budget = Counted \cup Set /\ \A what \in Counted : budget[what] \in Nat
  /\ budget.asks \in [Requests -> Asks \cup {None}]

SpentOr == UNCHANGED budget \/ \E what \in Counted : Spends(what)

LEMMA SpentOrAsked ==
  ASSUME [Next]_vars
  PROVE  SpentOr \/ \E r \in Requests : Arrive(r)
<1> USE DEF shared
<1>1. CASE UNCHANGED vars
  BY <1>1 DEF vars, SpentOr
<1>2. CASE GateStep
  <2>1. ASSUME NEW r \in Requests, Handler(r) PROVE SpentOr \/ Arrive(r)
    BY <2>1 DEF Handler, Stat, Load, Resolve, Upstream, Reply, StreamEnds, StreamBreaks, CountTokens,
                Chunk, Routes, Kept, Asked, Store, Listed, SpentOr, Counted
  <2>2. ASSUME NEW t \in Terminals, KeyCommand(t) PROVE SpentOr
    BY <2>2 DEF KeyCommand, KeyRead, KeyOpen, KeyWrite, KeyReplace, SpentOr, Counted
  <2>3. ASSUME Around PROVE SpentOr
    BY <2>3 DEF Around, EngineChanges, Edit, Leave, Restart, SpentOr, Counted
  <2> QED BY <1>2, <2>1, <2>2, <2>3 DEF GateStep
<1>3. ASSUME NEW t \in Terminals, Commanded(t) PROVE SpentOr
  <2>1. CASE Down(t) \/ \E c \in Recipes : Up(t, c)
    BY <2>1 DEF Down, Up, SpentOr, Counted
  <2>2. CASE UpStep(t)
    BY <2>2 DEF UpStep, Beat, Done, Fails, Detaches, Exit, Killed, Flush, Replace, SpentOr, Counted
  <2>3. CASE GatewayStep(t)
    BY <2>3 DEF GatewayStep, Loads, NothingRecorded, SaveStep, BakOpens, Copies, BakWrites, TmpOpens, TmpWrites,
                Replaces, TmpIsGone, LeavesIt, Reloads, Interrupted, RecordsOver, Records, RemovesRecord, Removes,
                GatewayCommand, SpentOr, Counted
  <2> QED BY <1>3, <2>1, <2>2, <2>3 DEF Commanded
<1>4. CASE HandEdits \/ LiteLLMRestarts
  BY <1>4 DEF HandEdits, LiteLLMRestarts, SpentOr, Counted
<1>5. CASE Sampler \/ Relays \/ Changes
  BY <1>5 DEF Sampler, Relays, Changes, Begin, Probes, Gpus, EnginesPolled, Publish, RelayAsks, RelayHears, RelayWrites,
              NvmlChanges, DockerChanges, PortChanges, SpentOr, Counted
<1>6. CASE MonitorRestarts \/ \E v \in Viewers : Views(v)
  BY <1>6 DEF MonitorRestarts, Restarted, Views, Cluster, Shows, PoolTakes, Says, Keeps, SpentOr, Counted
<1>7. CASE Tick
  BY <1>7 DEF Tick, SpentOr, Counted
<1> QED BY <1>1, <1>2, <1>3, <1>4, <1>5, <1>6, <1>7 DEF Next

LEMMA SpentKeeps ==
  ASSUME BudgetOK, NEW what \in Counted, Spends(what)
  PROVE  BudgetOK'
<1>1. what # "asks" /\ what \in DOMAIN budget /\ "asks" \in DOMAIN budget
  BY DEF Counted, Set, BudgetOK
<1>2. budget' = [budget EXCEPT ![what] = budget[what] - 1] /\ budget[what] - 1 \in Nat
  BY DEF Spends, BudgetOK
<1> QED BY <1>1, <1>2 DEF BudgetOK

LEMMA ArriveAsks ==
  ASSUME BudgetOK, NEW r \in Requests, Arrive(r)
  PROVE  BudgetOK'
<1>1. "asks" \in DOMAIN budget /\ "asks" \notin Counted
  BY DEF Counted, Set, BudgetOK
<1>2. budget' = [budget EXCEPT !.asks[r] = None]
  BY DEF Arrive
<1> QED BY <1>1, <1>2 DEF BudgetOK

LEMMA BudgetStep ==
  ASSUME BudgetOK, [Next]_vars
  PROVE  BudgetOK'
<1>1. CASE UNCHANGED budget
  BY <1>1 DEF BudgetOK
<1> QED BY <1>1, SpentOrAsked, SpentKeeps, ArriveAsks DEF SpentOr

LEMMA BudgetInitially ==
  ASSUME Init
  PROVE  BudgetOK
BY ScenesAssumption DEF Init, BudgetOK

\* What is left of the scene stays a number of each thing that may still happen,
\* and of each request that may still come (Spends, Arrive).
THEOREM BudgetInvariant == Spec => []BudgetOK
<1>1. BudgetOK /\ [Next]_vars => BudgetOK'
  BY BudgetStep
<1> QED BY <1>1, BudgetInitially, PTL DEF Spec

\* Where a monitor runs it stays.
LEMMA BoxedStays ==
  ASSUME BudgetOK, [Next]_vars
  PROVE  budget'.boxed = budget.boxed
<1>1. "boxed" \in DOMAIN budget /\ "boxed" \notin Counted
  BY DEF Counted, Set, BudgetOK
<1>2. CASE \E what \in Counted : Spends(what)
  BY <1>1, <1>2 DEF Spends
<1>3. CASE \E r \in Requests : Arrive(r)
  <2>1. PICK r \in Requests : budget' = [budget EXCEPT !.asks[r] = None]
    BY <1>3 DEF Arrive
  <2> QED BY <1>1, <2>1
<1> QED BY <1>2, <1>3, SpentOrAsked DEF SpentOr

-----------------------------------------------------------------------------
(***************************************************************************)
(* The monitor's invariant.                                                *)
(***************************************************************************)
\* A refusal counts once the GPU has answered, and while none is being counted
\* the sample that is shown, or is next, is without it.  While NVML refuses, at
\* most one more sample is published than is counted: the one that had asked
\* before.
LostOK ==
  /\ Boxed => mon.lost <= Limit /\ (mon.pc # "out" => mon.lost < Limit)
  /\ mon.pc = "out" => Boxed /\ mon.fields = "known" /\ shown # None /\ ~shown.gpu
  /\ mon.lost > 0 => /\ mon.fields = "known"
                     /\ IF mon.pc \in {"engines", "publish"} THEN ~mon.gpu ELSE shown # None /\ ~shown.gpu
  /\ Boxed /\ mon.fields = "known" /\ nvml = "lost" =>
       mon.blind <= IF mon.pc \in {"idle", "gpu"} THEN mon.lost + 1 ELSE mon.lost

\* What docker said, it said no earlier than the relay's time stamp.
RelayOK ==
  /\ relay.pc # "idle" =>
       relay.rec \in RelayRec /\ relay.rec.at <= relay.rec.said /\ relay.rec.at <= now
  /\ relay.file # None => relay.file.at <= relay.file.said
ReadOK ==
  /\ mon.containers # None => mon.at - mon.said <= RelayOld
  /\ ContainersRecent

\* What an engine is known to name, it named when it was asked last, unless it
\* refused then; and what is published was asked recently.
NamedOK(k) == k.models # {} /\ ~k.refused => k.at <= k.named
AskedOK(k, at) == ~k.error /\ k.models # {} => k.refused \/ at - k.named < AskEvery
EnginesOK ==
  /\ mon.at <= now
  /\ \A p \in Ports : mon.engines[p] # None => NamedOK(mon.engines[p])
  /\ mon.pc = "publish" => \A p \in Ports : mon.engines[p] # None => AskedOK(mon.engines[p], mon.at)
  /\ shown # None => \A p \in Ports : shown.engines[p] # None => AskedOK(shown.engines[p], shown.at)

MonitorInv == MonitorTypeOK /\ LostOK /\ RelayOK /\ ReadOK /\ EnginesOK

LEMMA NeverTyped == Never \in Int
BY MonitorAssumption DEF Never

\* What neither counts nor publishes leaves the count as it was.
LEMMA LostSame ==
  ASSUME LostOK, budget'.boxed = budget.boxed, UNCHANGED <<shown, nvml>>,
         mon'.lost = mon.lost, mon'.blind = mon.blind, mon'.fields = mon.fields, mon'.gpu = mon.gpu,
         \/ mon'.pc = mon.pc
         \/ mon.pc = "idle" /\ mon'.pc = "gpu"
         \/ mon.pc = "engines" /\ mon'.pc = "publish"
  PROVE  LostOK'
BY DEF LostOK, Boxed

LEMMA BeginKeeps ==
  ASSUME StartingInv, MonitorInv, budget'.boxed = budget.boxed, Begin
  PROVE  MonitorInv'
<1> DEFINE rec == relay.file
           use == rec # None /\ rec.list # None /\ now - rec.at <= RelayOld
           list == IF use THEN rec.list ELSE None
           said == IF use THEN rec.said ELSE 0
<1>1. /\ mon' = [mon EXCEPT !.pc = "gpu", !.at = now, !.serving = recipe, !.containers = list, !.said = said]
      /\ UNCHANGED <<shown, relay, nvml, docker, port, now>> /\ mon.pc = "idle"
      /\ mon \in Process /\ recipe \in Recipes \cup {None} /\ now \in Nat
  BY DEF Begin, Does, startingVars, MonitorInv, MonitorTypeOK, StartingInv
<1>2. /\ list \in Lists \cup {None} /\ said \in Int
      /\ list # None => now - said <= RelayOld
  BY <1>1, MonitorAssumption DEF MonitorInv, MonitorTypeOK, Relay, RelayRec, RelayOK
<1> HIDE DEF list, said
<1>3. /\ mon' \in Process /\ mon'.pc = "gpu" /\ mon'.at = now /\ mon'.containers = list /\ mon'.said = said
      /\ mon'.lost = mon.lost /\ mon'.blind = mon.blind /\ mon'.fields = mon.fields /\ mon'.gpu = mon.gpu
      /\ mon'.engines = mon.engines
  BY <1>1, <1>2 DEF Process
<1>4. MonitorTypeOK'
  BY <1>1, <1>3 DEF MonitorInv, MonitorTypeOK
<1>5. RelayOK' /\ ReadOK'
  BY <1>1, <1>2, <1>3 DEF MonitorInv, RelayOK, ReadOK, ContainersRecent
<1>7. LostOK'
  BY <1>1, <1>3, LostSame DEF MonitorInv
<1>6. EnginesOK'
  BY <1>1, <1>3 DEF MonitorInv, EnginesOK
<1> QED BY <1>4, <1>5, <1>6, <1>7 DEF MonitorInv

LEMMA CountedTyped ==
  ASSUME NEW m \in Process, NEW pc \in {"engines", "out"}, NEW gpu \in BOOLEAN, NEW n \in Nat
  PROVE  [m EXCEPT !.pc = pc, !.gpu = gpu, !.lost = n] \in Process
<1> DEFINE a == [m EXCEPT !.pc = pc]
           b == [a EXCEPT !.gpu = gpu]
           c == [b EXCEPT !.lost = n]
<1>1. a \in Process
  BY SMTT(30) DEF Process
<1>2. ASSUME NEW x \in Process PROVE [x EXCEPT !.gpu = gpu] \in Process
  BY SMTT(30) DEF Process
<1>3. ASSUME NEW x \in Process PROVE [x EXCEPT !.lost = n] \in Process
  BY SMTT(30) DEF Process
<1>4. c \in Process
  BY <1>1, <1>2, <1>3
<1>5. [m EXCEPT !.pc = pc, !.gpu = gpu, !.lost = n] = c
  OBVIOUS
<1> QED BY <1>4, <1>5

\* Until it is known which figures there are, none is asked for.
LEMMA ProbesKeeps ==
  ASSUME StartingInv, MonitorInv, budget'.boxed = budget.boxed, Probes
  PROVE  MonitorInv'
<1>1. /\ UNCHANGED <<shown, relay, nvml, docker, port, now>> /\ mon.pc = "gpu" /\ mon.fields = "unknown"
      /\ mon \in Process /\ mon.lost \in Nat /\ LostOK /\ Limit \in Nat
  BY MonitorAssumption DEF Probes, Does, shared, MonitorInv, MonitorTypeOK, Process
<1>2. mon.lost = 0
  BY <1>1 DEF LostOK
<1>3. /\ mon' \in Process /\ mon'.at = mon.at /\ mon'.engines = mon.engines
      /\ mon'.containers = mon.containers /\ mon'.said = mon.said
      /\ mon'.lost = 0 /\ mon'.blind = mon.blind
      /\ \/ mon'.pc = "gpu" /\ (mon'.fields = "known" => nvml = "fine")
         \/ mon'.pc = "engines" /\ mon'.fields = "unknown"
  <2>1. CASE nvml = "fine"
    <3>1. mon' = [mon EXCEPT !.fields = "known"]
      BY <2>1 DEF Probes
    <3> QED BY <1>1, <1>2, <2>1, <3>1, SMTT(30) DEF Process
  <2>2. CASE nvml = "absent"
    <3>1. mon' = [mon EXCEPT !.fields = "none"]
      BY <2>2 DEF Probes
    <3> QED BY <1>1, <1>2, <3>1, SMTT(30) DEF Process
  <2>3. CASE nvml # "fine" /\ nvml # "absent"
    <3>1. mon' = [mon EXCEPT !.pc = "engines", !.gpu = FALSE]
      BY <2>3 DEF Probes
    <3>2. mon' = [mon EXCEPT !.pc = "engines", !.gpu = FALSE, !.lost = 0]
      BY <1>1, <1>2, <3>1 DEF Process
    <3>3. mon' \in Process
      BY <1>1, <3>2, CountedTyped
    <3> QED BY <1>1, <1>2, <3>1, <3>3 DEF Process
  <2> QED BY <2>1, <2>2, <2>3
<1>4. LostOK'
  BY <1>1, <1>2, <1>3 DEF LostOK, Boxed
<1>5. MonitorTypeOK'
  BY <1>1, <1>3 DEF MonitorInv, MonitorTypeOK
<1>6. RelayOK' /\ ReadOK' /\ EnginesOK'
  BY <1>1, <1>3 DEF MonitorInv, RelayOK, ReadOK, ContainersRecent, EnginesOK
<1> QED BY <1>4, <1>5, <1>6 DEF MonitorInv

LEMMA GpusKeeps ==
  ASSUME StartingInv, MonitorInv, budget'.boxed = budget.boxed, Gpus
  PROVE  MonitorInv'
<1> DEFINE has == mon.fields = "known"
           lost  == CASE has /\ nvml = "fine" -> 0
                      [] has /\ nvml = "lost" -> mon.lost + 1
                      [] OTHER                  -> mon.lost
           out   == lost > mon.lost /\ lost >= Limit /\ Boxed
           pc    == IF out THEN "out" ELSE "engines"
           gpu   == has /\ nvml = "fine"
<1>1. /\ UNCHANGED <<shown, relay, nvml, docker, port, now>> /\ mon.pc = "gpu" /\ mon \in Process
      /\ mon.lost \in Nat /\ mon.blind \in Nat /\ LostOK /\ Limit \in Nat \ {0, 1}
      /\ mon' = [mon EXCEPT !.pc = pc, !.gpu = gpu, !.lost = lost]
  BY MonitorAssumption DEF Gpus, Does, shared, MonitorInv, MonitorTypeOK, Process
<1>2. /\ has /\ nvml = "fine" => lost = 0
      /\ has /\ nvml = "lost" => lost = mon.lost + 1
      /\ ~(has /\ nvml \in {"fine", "lost"}) => lost = mon.lost
  OBVIOUS
<1>3. lost \in Nat
  BY <1>1, <1>2
<1>4. /\ out => pc = "out" /\ lost > mon.lost /\ lost >= Limit /\ Boxed
      /\ ~out => pc = "engines" /\ ~(lost > mon.lost /\ lost >= Limit /\ Boxed)
      /\ pc \in {"engines", "out"} /\ gpu \in BOOLEAN
  OBVIOUS
<1> HIDE DEF lost, out, pc
<1>5. /\ mon' \in Process /\ mon'.pc = pc /\ mon'.at = mon.at /\ mon'.fields = mon.fields
      /\ mon'.containers = mon.containers /\ mon'.said = mon.said /\ mon'.engines = mon.engines
      /\ mon'.lost = lost /\ mon'.blind = mon.blind /\ (mon'.gpu <=> gpu)
  <2>1. mon' \in Process
    BY <1>1, <1>3, <1>4, CountedTyped
  <2> QED BY <1>1, <2>1 DEF Process
<1>6. LostOK'
  <2>1. /\ Boxed => lost <= Limit /\ (pc # "out" => lost < Limit)
        /\ pc = "out" => Boxed /\ has /\ shown # None /\ ~shown.gpu
    BY <1>1, <1>2, <1>3, <1>4 DEF LostOK
  <2>2. lost > 0 => has /\ ~gpu /\ (pc = "out" => shown # None /\ ~shown.gpu)
    BY <1>1, <1>2, <1>3, <1>4, <2>1 DEF LostOK
  <2>3. Boxed /\ has /\ nvml = "lost" => mon.blind <= lost
    BY <1>1, <1>2 DEF LostOK
  <2> QED BY <1>1, <1>4, <1>5, <2>1, <2>2, <2>3 DEF LostOK, Boxed
<1>7. MonitorTypeOK'
  BY <1>1, <1>5 DEF MonitorInv, MonitorTypeOK
<1>8. RelayOK' /\ ReadOK' /\ EnginesOK'
  BY <1>1, <1>4, <1>5 DEF MonitorInv, RelayOK, ReadOK, ContainersRecent, EnginesOK
<1> QED BY <1>6, <1>7, <1>8 DEF MonitorInv

\* What a sample comes to know of a port.
LEMMA FoundOK ==
  ASSUME MonitorInv, NEW p \in Ports
  PROVE  Found(p) \in Known \cup {None} /\ (Found(p) # None => NamedOK(Found(p)))
<1> DEFINE new(k) == [kind |-> k, models |-> {}, at |-> Never, named |-> 0, refused |-> FALSE, error |-> FALSE]
<1>1. ASSUME NEW k \in PortKinds PROVE new(k) \in Known /\ NamedOK(new(k))
  BY NeverTyped DEF Known, NamedOK
<1>2. Found(p) = None \/ Found(p) = mon.engines[p] \/ \E k \in PortKinds : Found(p) = new(k)
  <2>1. port[p] # None => port[p].kind \in PortKinds
    BY MonitorAssumption DEF MonitorInv, MonitorTypeOK, Listener
  <2>2. mon.serving # None => KindOf[mon.serving] \in PortKinds
    BY MonitorAssumption DEF MonitorInv, MonitorTypeOK, Process
  <2> QED BY <2>1, <2>2 DEF Found
<1>3. mon.engines[p] \in Known \cup {None} /\ (mon.engines[p] # None => NamedOK(mon.engines[p]))
  BY DEF MonitorInv, MonitorTypeOK, Process, EnginesOK
<1> HIDE DEF new
<1> QED BY <1>1, <1>2, <1>3

LEMMA KnownTyped ==
  ASSUME NEW k \in Known, NEW at \in Int, NEW named \in Int, NEW models \in SUBSET Models, NEW refused \in BOOLEAN
  PROVE  /\ [k EXCEPT !.at = at, !.refused = refused] \in Known
         /\ [k EXCEPT !.at = at, !.models = models, !.named = named, !.refused = refused] \in Known
BY DEF Known

LEMMA RefreshedOK ==
  ASSUME NEW k \in Known, NamedOK(k), mon.at \in Nat, now \in Nat, mon.at <= now,
         NEW e \in Listeners \cup {None}
  PROVE  /\ Refreshed(k, e) \in Known /\ NamedOK(Refreshed(k, e))
         /\ Refreshed(k, e).models # {} => Refreshed(k, e).refused \/ mon.at - Refreshed(k, e).named < AskEvery
<1> USE MonitorAssumption
<1>1. CASE mon.at - k.at < AskEvery
  <2>1. Refreshed(k, e) = k
    BY <1>1 DEF Refreshed
  <2> QED BY <1>1, <2>1 DEF NamedOK, Known
<1>2. CASE ~(mon.at - k.at < AskEvery) /\ (e = None \/ e.mute \/ e.closed)
  <2>1. Refreshed(k, e) = [k EXCEPT !.at = mon.at, !.refused = TRUE]
    BY <1>2 DEF Refreshed
  <2>2. Refreshed(k, e) \in Known
    <3>1. mon.at \in Int /\ k.named \in Int /\ k.models \in SUBSET Models /\ TRUE \in BOOLEAN
      BY DEF Known
    <3> QED BY <2>1, <3>1, KnownTyped
  <2>3. Refreshed(k, e).refused
    BY <2>1 DEF Known
  <2> QED BY <2>2, <2>3 DEF NamedOK
<1>3. CASE ~(mon.at - k.at < AskEvery) /\ ~(e = None \/ e.mute \/ e.closed)
  <2>1. Refreshed(k, e) = [k EXCEPT !.at = mon.at, !.models = {e.model}, !.named = now, !.refused = FALSE]
    BY <1>3 DEF Refreshed
  <2>2. e.model \in Models
    BY <1>3 DEF Listener
  <2>3. Refreshed(k, e) \in Known
    <3>1. mon.at \in Int /\ now \in Int /\ {e.model} \in SUBSET Models /\ FALSE \in BOOLEAN
      BY <2>2
    <3>2. [k EXCEPT !.at = mon.at, !.models = {e.model}, !.named = now, !.refused = FALSE] \in Known
      BY <3>1, KnownTyped, Zenon
    <3> QED BY <2>1, <3>2
  <2>4. Refreshed(k, e).at = mon.at /\ Refreshed(k, e).named = now
    BY <2>1 DEF Known
  <2>5. mon.at - now < AskEvery
    OBVIOUS
  <2> QED BY <2>3, <2>4, <2>5 DEF NamedOK
<1> QED BY <1>1, <1>2, <1>3

LEMMA PolledOK ==
  ASSUME NEW k \in Known, NamedOK(k), mon.at \in Nat, now \in Nat, mon.at <= now,
         NEW e \in Listeners \cup {None}
  PROVE  Polled(k, e) \in Known /\ NamedOK(Polled(k, e)) /\ AskedOK(Polled(k, e), mon.at)
<1>1. CASE k.kind = "vllm" /\ (e = None \/ e.mute \/ e.kind # "vllm")
  <2>1. Polled(k, e) = [k EXCEPT !.error = TRUE]
    BY <1>1 DEF Polled
  <2> QED BY <2>1 DEF NamedOK, AskedOK, Known
<1>2. CASE ~(k.kind = "vllm" /\ (e = None \/ e.mute \/ e.kind # "vllm"))
  <2> DEFINE f == Refreshed(k, e)
  <2>1. Polled(k, e) = [f EXCEPT !.error = FALSE]
    BY <1>2 DEF Polled
  <2>2. f \in Known /\ NamedOK(f) /\ (f.models # {} => f.refused \/ mon.at - f.named < AskEvery)
    BY RefreshedOK
  <2> HIDE DEF f
  <2> QED BY <2>1, <2>2 DEF NamedOK, AskedOK, Known
<1> QED BY <1>1, <1>2

\* When engines have been asked, the sample has them all, and each is recent.
LEMMA EnginesPolledKeeps ==
  ASSUME StartingInv, MonitorInv, budget'.boxed = budget.boxed, EnginesPolled
  PROVE  MonitorInv'
<1> DEFINE due     == mon.at - mon.asked >= AskEvery
           found   == IF due THEN [p \in Ports |-> Found(p)] ELSE mon.engines
           engines == [p \in Ports |-> IF found[p] = None THEN None ELSE Polled(found[p], port[p])]
           asked   == IF due THEN mon.at ELSE mon.asked
<1>1. /\ mon \in Process /\ mon.pc = "engines" /\ mon.at \in Nat /\ now \in Nat /\ mon.at <= now
      /\ UNCHANGED <<shown, relay, nvml, docker, port, now>>
      /\ mon' = [mon EXCEPT !.pc = "publish", !.asked = asked, !.engines = engines]
  BY DEF EnginesPolled, Does, shared, MonitorInv, MonitorTypeOK, EnginesOK, StartingInv, Process
<1>2. ASSUME NEW p \in Ports
      PROVE  found[p] \in Known \cup {None} /\ (found[p] # None => NamedOK(found[p]))
  BY <1>1, FoundOK DEF Process, MonitorInv, EnginesOK
<1> HIDE DEF found
<1>3. ASSUME NEW p \in Ports
      PROVE  /\ engines[p] \in Known \cup {None}
             /\ engines[p] # None => NamedOK(engines[p]) /\ AskedOK(engines[p], mon.at)
  <2>1. port[p] \in Listeners \cup {None}
    BY DEF MonitorInv, MonitorTypeOK
  <2>2. CASE found[p] = None
    <3>1. engines[p] = None
      BY <2>2
    <3> QED BY <3>1
  <2>3. CASE found[p] # None
    <3>1. engines[p] = Polled(found[p], port[p])
      BY <2>3
    <3>2. found[p] \in Known /\ NamedOK(found[p])
      BY <1>2, <2>3
    <3> HIDE DEF engines
    <3> QED BY <1>1, <2>1, <3>1, <3>2, PolledOK
  <2> QED BY <2>2, <2>3
<1>4. engines \in [Ports -> Known \cup {None}] /\ asked \in Int
  BY <1>1, <1>3 DEF Process
<1> HIDE DEF engines, asked
<1>5. /\ mon' \in Process /\ mon'.pc = "publish" /\ mon'.at = mon.at /\ mon'.engines = engines
      /\ mon'.containers = mon.containers /\ mon'.said = mon.said
      /\ mon'.lost = mon.lost /\ mon'.blind = mon.blind /\ mon'.fields = mon.fields /\ mon'.gpu = mon.gpu
  <2> DEFINE a == [mon EXCEPT !.pc = "publish"]
             b == [a EXCEPT !.asked = asked]
             c == [b EXCEPT !.engines = engines]
  <2>1. a \in Process
    BY <1>1, SMTT(30) DEF Process
  <2>2. ASSUME NEW x \in Process PROVE [x EXCEPT !.asked = asked] \in Process
    BY <1>4, SMTT(30) DEF Process
  <2>3. ASSUME NEW x \in Process PROVE [x EXCEPT !.engines = engines] \in Process
    BY <1>4, SMTT(30) DEF Process
  <2>4. mon' = c
    BY <1>1
  <2>5. mon' \in Process
    BY <2>1, <2>2, <2>3, <2>4
  <2> QED BY <1>1, <2>5 DEF Process
<1>6. MonitorTypeOK'
  BY <1>1, <1>5 DEF MonitorInv, MonitorTypeOK
<1>7. RelayOK' /\ ReadOK'
  BY <1>1, <1>5 DEF MonitorInv, RelayOK, ReadOK, ContainersRecent
<1>9. LostOK'
  BY <1>1, <1>5, LostSame DEF MonitorInv
<1>8. EnginesOK'
  BY <1>1, <1>3, <1>5 DEF MonitorInv, EnginesOK
<1> QED BY <1>6, <1>7, <1>8, <1>9 DEF MonitorInv

\* read_starting says nothing else.
LEMMA ReadTyped ==
  ASSUME StartingInv
  PROVE  ReadStarting(now) \in Read \cup {None}
<1>1. CASE starting \notin Texts
  BY <1>1 DEF ReadStarting
<1>2. CASE starting \in Texts
  <2> DEFINE old == now - starting.at
             state == IF starting.state = "loading" /\ old > StaleAfter THEN "interrupted" ELSE starting.state
  <2>1. state \in {"loading", "failed", "interrupted"} /\ starting.recipe \in Recipes
    BY <1>2 DEF Texts
  <2>2. ReadStarting(now) \in {None, [state |-> state, recipe |-> starting.recipe]}
    BY <1>2 DEF ReadStarting
  <2> HIDE DEF state
  <2> QED BY <2>1, <2>2 DEF Read
<1> QED BY <1>1, <1>2

LEMMA PublishKeeps ==
  ASSUME StartingInv, MonitorInv, budget'.boxed = budget.boxed, Publish
  PROVE  MonitorInv'
<1> DEFINE read == ReadStarting(now)
<1>1. /\ mon \in Process /\ mon.pc = "publish"
      /\ UNCHANGED <<relay, nvml, docker, port, now>>
      /\ mon' = [mon EXCEPT !.pc = "idle", !.blind = mon.blind + 1]
      /\ shown' = [at |-> mon.at, serving |-> mon.serving, starting |-> read, containers |-> mon.containers,
                   said |-> mon.said, engines |-> mon.engines, gpu |-> mon.gpu]
  BY DEF Publish, Does, shared, MonitorInv, MonitorTypeOK
<1>2. read \in Read \cup {None}
  BY ReadTyped
<1> HIDE DEF read
<1>3. /\ mon' \in Process /\ mon'.pc = "idle" /\ mon'.at = mon.at /\ mon'.engines = mon.engines
      /\ mon'.containers = mon.containers /\ mon'.said = mon.said
      /\ mon'.lost = mon.lost /\ mon'.blind = mon.blind + 1 /\ mon'.fields = mon.fields
  <2> DEFINE a == [mon EXCEPT !.pc = "idle"]
             n == mon.blind + 1
  <2>1. a \in Process /\ n \in Nat
    BY <1>1, SMTT(30) DEF Process
  <2> HIDE DEF n
  <2>2. ASSUME NEW x \in Process PROVE [x EXCEPT !.blind = n] \in Process
    BY <2>1, SMTT(30) DEF Process
  <2>3. mon' = [a EXCEPT !.blind = n]
    BY <1>1 DEF n
  <2>4. mon' \in Process
    BY <2>1, <2>2, <2>3
  <2> QED BY <1>1, <2>4 DEF Process, n
<1>4. /\ shown' \in Sample
      /\ shown'.at = mon.at /\ shown'.containers = mon.containers /\ shown'.said = mon.said
      /\ shown'.engines = mon.engines /\ shown'.gpu = mon.gpu
  <2>1. /\ mon.at \in Nat /\ mon.serving \in Recipes \cup {None} /\ mon.containers \in Lists \cup {None}
        /\ mon.said \in Int /\ mon.engines \in [Ports -> Known \cup {None}] /\ mon.gpu \in BOOLEAN
    BY <1>1 DEF Process
  <2> QED BY <1>1, <1>2, <2>1 DEF Sample
<1>5. MonitorTypeOK'
  BY <1>1, <1>3, <1>4 DEF MonitorInv, MonitorTypeOK
<1>6. RelayOK' /\ ReadOK'
  BY <1>1, <1>3, <1>4 DEF MonitorInv, RelayOK, ReadOK, ContainersRecent
<1>8. LostOK'
  <2>1. mon.lost \in Nat /\ mon.blind \in Nat /\ mon.gpu \in BOOLEAN /\ LostOK
    BY <1>1 DEF Process, MonitorInv
  <2>2. shown' # None
    BY <1>4, SampleAssumption
  <2> QED BY <1>1, <1>3, <1>4, <2>1, <2>2 DEF LostOK, Boxed
<1>7. EnginesOK'
  BY <1>1, <1>3, <1>4 DEF MonitorInv, EnginesOK
<1> QED BY <1>5, <1>6, <1>7, <1>8 DEF MonitorInv

LEMMA FreshOK ==
  /\ Fresh \in Process /\ Fresh.pc = "idle" /\ Fresh.at = 0 /\ Fresh.lost = 0 /\ Fresh.fields = "unknown"
  /\ Fresh.containers = None /\ Fresh.engines = [p \in Ports |-> None]
BY NeverTyped, SMTT(30) DEF Fresh, Process

LEMMA RestartedKeeps ==
  ASSUME StartingInv, MonitorInv, Restarted
  PROVE  MonitorInv'
<1>1. UNCHANGED <<relay, docker, port, now>> /\ mon' = Fresh /\ shown' = None /\ nvml' = "fine"
  BY DEF Restarted, shared
<1>2. MonitorTypeOK' /\ LostOK' /\ RelayOK' /\ ReadOK' /\ EnginesOK'
  BY <1>1, FreshOK, MonitorAssumption
     DEF StartingInv, MonitorInv, MonitorTypeOK, LostOK, Boxed, RelayOK, ReadOK, ContainersRecent, EnginesOK
<1> QED BY <1>2 DEF MonitorInv

LEMMA RelaysKeep ==
  ASSUME StartingInv, MonitorInv, budget'.boxed = budget.boxed, Relays
  PROVE  MonitorInv'
<1>1. UNCHANGED <<mon, shown, nvml, docker, port, now>> /\ now \in Nat /\ relay \in Relay /\ docker \in Lists \cup {None}
  BY DEF Relays, RelayAsks, RelayHears, RelayWrites, shared, StartingInv, MonitorInv, MonitorTypeOK
<1>2. relay' \in Relay /\ RelayOK'
  <2>1. CASE RelayAsks
    <3> DEFINE rec == [at |-> now, list |-> None, said |-> now]
    <3>1. rec \in RelayRec /\ rec.at = now /\ rec.said = now
      BY <1>1 DEF RelayRec
    <3>2. relay' = [relay EXCEPT !.pc = "asked", !.rec = rec]
      BY <2>1 DEF RelayAsks
    <3> HIDE DEF rec
    <3>3. /\ relay' \in Relay /\ relay'.rec = rec /\ relay'.file = relay.file
      BY <1>1, <3>1, <3>2 DEF Relay
    <3> QED BY <1>1, <3>1, <3>3 DEF MonitorInv, RelayOK
  <2>2. CASE RelayHears
    <3> DEFINE rec == [relay.rec EXCEPT !.list = docker, !.said = now]
    <3>1. relay.rec \in RelayRec /\ relay.rec.at <= now
      BY <1>1, <2>2 DEF RelayHears, MonitorInv, RelayOK, Relay
    <3>2. rec \in RelayRec /\ rec.at = relay.rec.at /\ rec.said = now
      BY <1>1, <3>1 DEF RelayRec
    <3>3. relay' = [relay EXCEPT !.pc = "said", !.rec = rec]
      BY <2>2, <1>1 DEF RelayHears, Relay
    <3> HIDE DEF rec
    <3>4. relay' \in Relay /\ relay'.rec = rec /\ relay'.file = relay.file
      BY <1>1, <3>2, <3>3 DEF Relay
    <3> QED BY <1>1, <3>1, <3>2, <3>4 DEF MonitorInv, RelayOK
  <2>3. CASE RelayWrites
    <3>0. relay.pc = "said"
      BY <2>3 DEF RelayWrites
    <3>1. PICK file \in {relay.rec, relay.file} : relay' = [pc |-> "idle", rec |-> None, file |-> file]
      BY <2>3 DEF RelayWrites
    <3>2. file \in RelayRec \cup {None} /\ (file # None => file.at <= file.said)
      BY <1>1, <3>0, <3>1 DEF Relay, MonitorInv, RelayOK
    <3> QED BY <3>1, <3>2 DEF Relay, RelayOK
  <2> QED BY <2>1, <2>2, <2>3 DEF Relays
<1>3. MonitorTypeOK'
  BY <1>1, <1>2 DEF MonitorInv, MonitorTypeOK
<1>4. ReadOK' /\ EnginesOK'
  BY <1>1 DEF MonitorInv, ReadOK, ContainersRecent, EnginesOK
<1>5. LostOK'
  BY <1>1, LostSame DEF MonitorInv
<1> QED BY <1>2, <1>3, <1>4, <1>5 DEF MonitorInv

LEMMA ChangesKeep ==
  ASSUME StartingInv, MonitorInv, budget'.boxed = budget.boxed, Changes
  PROVE  MonitorInv'
<1>1. CASE NvmlChanges
  <2>1. /\ UNCHANGED <<shown, relay, docker, port, now>> /\ nvml' \in {"fine", "lost", "odd"}
        /\ mon' = [mon EXCEPT !.blind = 0] /\ mon \in Process /\ LostOK
    BY <1>1 DEF NvmlChanges, MonitorInv, MonitorTypeOK
  <2>2. /\ mon' \in Process /\ mon'.blind = 0 /\ mon'.pc = mon.pc /\ mon'.at = mon.at
        /\ mon'.containers = mon.containers /\ mon'.said = mon.said /\ mon'.engines = mon.engines
        /\ mon'.lost = mon.lost /\ mon'.fields = mon.fields /\ mon'.gpu = mon.gpu /\ mon.lost \in Nat
    BY <2>1, SMTT(30) DEF Process
  <2>3. LostOK'
    BY <2>1, <2>2 DEF LostOK, Boxed
  <2>4. MonitorTypeOK' /\ RelayOK' /\ ReadOK' /\ EnginesOK'
    BY <2>1, <2>2 DEF MonitorInv, MonitorTypeOK, RelayOK, ReadOK, ContainersRecent, EnginesOK
  <2> QED BY <2>3, <2>4 DEF MonitorInv
<1>2. CASE DockerChanges \/ \E p \in Ports : PortChanges(p)
  <2>1. /\ UNCHANGED <<mon, shown, relay, nvml, now>> /\ docker' \in Lists \cup {None}
        /\ port' \in [Ports -> Listeners \cup {None}]
    BY <1>2 DEF DockerChanges, PortChanges, MonitorInv, MonitorTypeOK
  <2>2. LostOK'
    BY <2>1, LostSame DEF MonitorInv
  <2> QED BY <2>1, <2>2 DEF MonitorInv, MonitorTypeOK, RelayOK, ReadOK, ContainersRecent, EnginesOK
<1> QED BY <1>1, <1>2 DEF Changes

\* Whatever else the head does, time does not go back.
LEMMA OthersKeep ==
  ASSUME StartingInv, MonitorInv, budget'.boxed = budget.boxed, UNCHANGED monitorVars, now' \in {now, now + 1}
  PROVE  MonitorInv'
<1>1. UNCHANGED <<mon, shown, relay, nvml, docker, port>> /\ now \in Nat
  BY DEF monitorVars, StartingInv
<1>2. MonitorTypeOK' /\ ReadOK'
  BY <1>1 DEF MonitorInv, MonitorTypeOK, ReadOK, ContainersRecent
<1>5. LostOK'
  BY <1>1, LostSame DEF MonitorInv
<1>3. RelayOK'
  BY <1>1 DEF MonitorInv, RelayOK, RelayRec
<1>4. EnginesOK'
  <2>1. mon.at \in Nat
    BY DEF MonitorInv, MonitorTypeOK, Process
  <2> QED BY <1>1, <2>1 DEF MonitorInv, EnginesOK
<1> QED BY <1>2, <1>3, <1>4, <1>5 DEF MonitorInv

\* A command takes no time here.
LEMMA CommandedNow ==
  ASSUME NEW t \in Terminals, Commanded(t)
  PROVE  now' = now
<1> USE DEF shared
<1>1. CASE Down(t) \/ \E c \in Recipes : Up(t, c)
  BY <1>1 DEF Down, Up
<1>2. CASE UpStep(t)
  BY <1>2 DEF UpStep, Beat, Done, Fails, Detaches, Exit, Killed, Flush, Replace
<1>3. CASE GatewayStep(t)
  BY <1>3 DEF GatewayStep, Loads, NothingRecorded, SaveStep, BakOpens, Copies, BakWrites, TmpOpens, TmpWrites,
              Replaces, TmpIsGone, LeavesIt, Reloads, Interrupted, RecordsOver, Records, RemovesRecord, Removes,
              GatewayCommand
<1> QED BY <1>1, <1>2, <1>3 DEF Commanded

\* Every step of the head is one of the monitor's, or leaves what is the
\* monitor's.
LEMMA MonitorApart ==
  ASSUME [Next]_vars
  PROVE  \/ Begin \/ Probes \/ Gpus \/ EnginesPolled \/ Publish \/ Relays \/ Changes \/ Restarted
         \/ UNCHANGED monitorVars /\ now' \in {now, now + 1}
<1> USE DEF shared
<1>1. CASE UNCHANGED vars
  BY <1>1 DEF vars
<1>2. CASE GateStep /\ UNCHANGED <<startingVars, monitorVars, peersVars, gatewayVars>>
  BY <1>2, GateLeaves
<1>3. CASE (HandEdits \/ LiteLLMRestarts) /\ UNCHANGED <<gateVars, monitorVars, peersVars>>
  BY <1>3 DEF HandEdits, LiteLLMRestarts
<1>4. CASE Sampler \/ Relays \/ Changes
  BY <1>4 DEF Sampler
<1>5. CASE MonitorRestarts \/ \E v \in Viewers : Views(v)
  BY <1>5 DEF MonitorRestarts, Views, Cluster, Shows, PoolTakes, Says, Keeps
<1>6. CASE \E t \in Terminals : Commanded(t) /\ UNCHANGED <<gateVars, monitorVars, peersVars>>
  BY <1>6, CommandedNow
<1>7. CASE Tick
  BY <1>7 DEF Tick
<1> QED BY <1>1, <1>2, <1>3, <1>4, <1>5, <1>6, <1>7 DEF Next

LEMMA MonitorInitially ==
  ASSUME Init
  PROVE  MonitorInv
<1>1. /\ mon = Fresh /\ shown = None /\ relay = [pc |-> "idle", rec |-> None, file |-> None] /\ now = 0
      /\ nvml \in {"fine", "lost", "odd", "absent"} /\ docker \in Lists \cup {None} /\ port = [p \in Ports |-> None]
  BY ScenesAssumption DEF Init, MonitorInit
<1>2. relay \in Relay
  BY <1>1 DEF Relay
<1>3. MonitorTypeOK
  BY <1>1, <1>2, FreshOK DEF MonitorTypeOK
<1>4. LostOK /\ RelayOK /\ ReadOK /\ EnginesOK
  BY <1>1, FreshOK, MonitorAssumption DEF Boxed, LostOK, RelayOK, ReadOK, ContainersRecent, EnginesOK
<1> QED BY <1>3, <1>4 DEF MonitorInv

LEMMA MonitorStep ==
  ASSUME BudgetOK, StartingInv, MonitorInv, [Next]_vars
  PROVE  MonitorInv'
BY BoxedStays, MonitorApart, BeginKeeps, ProbesKeeps, GpusKeeps, EnginesPolledKeeps, PublishKeeps, RelaysKeep, ChangesKeep, RestartedKeeps,
   OthersKeep

\* So does the monitor's: its count, the relay's times, what engines named.
THEOREM MonitorInvariant == Spec => []MonitorInv
<1> QED BY MonitorInitially, MonitorStep, BudgetInvariant, StartingInvariant, PTL DEF Spec

\* The monitor's process, what it has published and what it reads have their
\* types (monitor/rackmon.py, the sampler and the relay).
THEOREM MonitorTyped == Spec => []MonitorTypeOK
<1>1. MonitorInv => MonitorTypeOK
  BY DEF MonitorInv
<1> QED BY <1>1, MonitorInvariant, PTL

\* The containers a sample shows were docker's at most RelayOld before it
\* (relay_once, sample_containers).
THEOREM ContainersAreRecent == Spec => []ContainersRecent
<1>1. MonitorInv => ContainersRecent
  BY DEF MonitorInv, ReadOK
<1> QED BY <1>1, MonitorInvariant, PTL

\* What an engine is shown to serve, it named less than AskEvery before the
\* sample, or it refused to say (refresh_models).
THEOREM ModelsAreRecent == Spec => []ModelsRecent
<1>1. MonitorInv => ModelsRecent
  BY DEF MonitorInv, EnginesOK, AskedOK, ModelsRecent
<1> QED BY <1>1, MonitorInvariant, PTL

\* A monitor in a container that has had the GPU publishes at most Limit
\* samples once NVML refuses it for good, and then exits; no other exits, and
\* none that shows the GPU's figures (sample_gpus, gpu_lost_check).
THEOREM LostNotForLong == Spec => []LostNotLong
<1>1. MonitorInv => LostNotLong
  <2> SUFFICES ASSUME MonitorInv PROVE LostNotLong
    OBVIOUS
  <2>1. LostOK /\ mon.lost \in Nat /\ mon.blind \in Nat /\ Limit \in Nat /\ mon.pc \in {"idle", "gpu", "engines", "publish", "out"}
    BY MonitorAssumption DEF MonitorInv, MonitorTypeOK, Process
  <2> QED BY <2>1 DEF LostOK, LostNotLong, Does
<1> QED BY <1>1, MonitorInvariant, PTL

-----------------------------------------------------------------------------
(***************************************************************************)
(* The cluster view.                                                       *)
(***************************************************************************)
\* A question that is on its way was put at most PeerMax ago, and an answer
\* that is kept was at most PeerMax on its way.
FutureOK(f) ==
  /\ f.pc \in {"ask", "store"} => f.since <= now /\ now - f.since <= PeerMax
  /\ f.pc = "store" => f.since <= f.said /\ f.said <= now
  /\ f.age < PeerKept + PeerMax
KeptOK(c) == c # None => c.said <= c.at /\ c.at <= now /\ c.at - c.said <= PeerMax

PeersInv ==
  /\ PeersTypeOK
  /\ \A v \in Viewers, p \in PeerNames : FutureOK(futures[v][p])
  /\ \A p \in PeerNames : KeptOK(cache[p])

\* A question that is not on its way, and whose answer is as old as it may be.
LEMMA FutureTyped ==
  ASSUME now \in Nat, NEW f \in Future
  PROVE  /\ [f EXCEPT !.pc = "ask", !.since = now] \in Future
         /\ [f EXCEPT !.pc = "store", !.said = now] \in Future
         /\ \A age \in Nat : [f EXCEPT !.pc = "done", !.age = age] \in Future
BY DEF Future

LEMMA NoFutureOK ==
  ASSUME NEW pc \in {"none", "queued"}
  PROVE  [NoFuture EXCEPT !.pc = pc] \in Future /\ NoFuture \in Future /\ FutureOK([NoFuture EXCEPT !.pc = pc])
         /\ FutureOK(NoFuture)
BY PeersAssumption DEF NoFuture, Future, FutureOK

\* One question changes.
LEMMA SetsKeeps ==
  ASSUME StartingInv, PeersInv, NEW v \in Viewers, NEW p \in PeerNames, NEW f \in Future,
         Sets(v, p, f), FutureOK(f), view' = view, now' = now,
         \/ cache' = cache
         \/ \E c \in [at : Nat, said : Nat] : KeptOK(c) /\ cache' = [cache EXCEPT ![p] = c]
  PROVE  PeersInv'
<1>1. futures' = [futures EXCEPT ![v][p] = f]
  BY DEF Sets
<1>2. futures' \in [Viewers -> [PeerNames -> Future]]
  BY <1>1 DEF PeersInv, PeersTypeOK
<1>3. ASSUME NEW u \in Viewers, NEW q \in PeerNames PROVE FutureOK(futures[u][q])'
  <2>1. futures'[u][q] \in {f, futures[u][q]}
    BY <1>1 DEF PeersInv, PeersTypeOK
  <2>2. FutureOK(futures'[u][q])
    BY <2>1 DEF PeersInv
  <2> QED BY <2>2 DEF FutureOK
<1>4. cache' \in [PeerNames -> [at : Nat, said : Nat] \cup {None}] /\ \A q \in PeerNames : KeptOK(cache'[q])
  BY DEF PeersInv, PeersTypeOK
<1>5. \A q \in PeerNames : KeptOK(cache[q])'
  BY <1>4 DEF KeptOK
<1>6. PeersTypeOK'
  BY <1>2, <1>4 DEF PeersInv, PeersTypeOK
<1> QED BY <1>3, <1>5, <1>6 DEF PeersInv

LEMMA ViewsKeep ==
  ASSUME StartingInv, MonitorInv, PeersInv, NEW v \in Viewers, Views(v)
  PROVE  PeersInv'
<1> USE DEF shared
<1>1. CASE Cluster(v)
  <2> DEFINE q == [NoFuture EXCEPT !.pc = "queued"]
             own == IF shown = None THEN None ELSE shown.at
             new == [pc |-> "waits", own |-> own]
  <2>1. /\ futures' = [futures EXCEPT ![v] = [p \in PeerNames |-> q]]
        /\ view' = [view EXCEPT ![v] = new] /\ cache' = cache /\ now' = now
    BY <1>1 DEF Cluster
  <2>2. q \in Future /\ FutureOK(q)
    BY NoFutureOK
  <2>3. new \in View
    BY DEF View, MonitorInv, MonitorTypeOK, Sample
  <2> HIDE DEF q, new
  <2>4. PeersTypeOK'
    BY <2>1, <2>2, <2>3 DEF PeersInv, PeersTypeOK
  <2>5. ASSUME NEW u \in Viewers, NEW p \in PeerNames PROVE FutureOK(futures[u][p])'
    <3>1. futures'[u][p] \in {q, futures[u][p]}
      BY <2>1 DEF PeersInv, PeersTypeOK
    <3>2. FutureOK(futures'[u][p])
      BY <2>2, <3>1 DEF PeersInv
    <3> QED BY <2>1, <3>2 DEF FutureOK
  <2> QED BY <2>1, <2>4, <2>5 DEF PeersInv, KeptOK
<1>2. CASE Shows(v)
  <2>1. UNCHANGED <<futures, cache, now>> /\ view' \in [Viewers -> View]
    BY <1>2 DEF Shows, PeersInv, PeersTypeOK, View
  <2> QED BY <2>1 DEF PeersInv, PeersTypeOK, FutureOK, KeptOK
<1>3. ASSUME NEW p \in PeerNames, PoolTakes(v, p) PROVE PeersInv'
  <2> DEFINE f == futures[v][p]
  <2>1. /\ UNCHANGED <<view, cache, now>> /\ f \in Future /\ FutureOK(f) /\ now \in Nat
        /\ f.pc = "queued" /\ cache[p] \in [at : Nat, said : Nat] \cup {None} /\ KeptOK(cache[p])
    BY <1>3 DEF PoolTakes, Peer, PeersInv, PeersTypeOK, StartingInv
  <2>2. CASE PeerKeptYet(p)
    <3> DEFINE age == now - cache[p].said
               g == [f EXCEPT !.pc = "done", !.age = age]
    <3>1. age \in Nat /\ age < PeerKept + PeerMax
      BY <2>1, <2>2, PeersAssumption DEF PeerKeptYet, KeptOK
    <3>2. Sets(v, p, g)
      BY <1>3, <2>2 DEF PoolTakes
    <3> HIDE DEF age
    <3>3. g \in Future
      BY <2>1, <3>1, FutureTyped
    <3>4. FutureOK(g)
      BY <2>1, <3>1 DEF FutureOK, Future
    <3> HIDE DEF g
    <3> QED BY <2>1, <3>2, <3>3, <3>4, SetsKeeps
  <2>3. CASE ~PeerKeptYet(p)
    <3> DEFINE g == [f EXCEPT !.pc = "ask", !.since = now]
    <3>1. Sets(v, p, g)
      BY <1>3, <2>3 DEF PoolTakes
    <3>2. g \in Future
      BY <2>1, FutureTyped
    <3>3. FutureOK(g)
      BY <2>1, PeersAssumption DEF FutureOK, Future
    <3> HIDE DEF g
    <3> QED BY <2>1, <3>1, <3>2, <3>3, SetsKeeps
  <2> QED BY <2>2, <2>3
<1>4. ASSUME NEW p \in PeerNames, Says(v, p) PROVE PeersInv'
  <2> DEFINE f == futures[v][p]
             g == [f EXCEPT !.pc = "store", !.said = now]
  <2>1. /\ UNCHANGED <<view, cache, now>> /\ f \in Future /\ FutureOK(f) /\ now \in Nat
        /\ f.pc = "ask" /\ Sets(v, p, g)
    BY <1>4 DEF Says, Peer, PeersInv, PeersTypeOK, StartingInv
  <2>2. g \in Future
    BY <2>1, FutureTyped
  <2>3. FutureOK(g)
    BY <2>1 DEF FutureOK, Future
  <2> HIDE DEF g
  <2> QED BY <2>1, <2>2, <2>3, SetsKeeps
<1>5. ASSUME NEW p \in PeerNames, Keeps(v, p) PROVE PeersInv'
  <2> DEFINE f == futures[v][p]
             age == now - f.said
             g == [f EXCEPT !.pc = "done", !.age = age]
             c == [at |-> now, said |-> f.said]
  <2>1. /\ UNCHANGED <<view, now>> /\ f \in Future /\ FutureOK(f) /\ now \in Nat
        /\ f.pc = "store" /\ Sets(v, p, g) /\ cache' = [cache EXCEPT ![p] = c]
    BY <1>5 DEF Keeps, Peer, PeersInv, PeersTypeOK, StartingInv
  <2>2. age \in Nat /\ age < PeerKept + PeerMax /\ age <= PeerMax /\ f.said \in Nat /\ f.said <= now
    BY <2>1, PeersAssumption DEF FutureOK, Future
  <2>3. c \in [at : Nat, said : Nat] /\ KeptOK(c)
    BY <2>1, <2>2 DEF KeptOK
  <2> HIDE DEF age, c
  <2>4. g \in Future
    BY <2>1, <2>2, FutureTyped
  <2>5. FutureOK(g)
    BY <2>1, <2>2 DEF FutureOK, Future
  <2> HIDE DEF g
  <2> QED BY <2>1, <2>3, <2>4, <2>5, SetsKeeps
<1> QED BY <1>1, <1>2, <1>3, <1>4, <1>5 DEF Views

LEMMA ViewersRestartKeeps ==
  ASSUME StartingInv, PeersInv, MonitorRestarts
  PROVE  PeersInv'
<1>1. /\ view' = [v \in Viewers |-> IF view[v].pc = "waits" THEN [view[v] EXCEPT !.pc = "killed"] ELSE view[v]]
      /\ futures' = [v \in Viewers |-> [p \in PeerNames |-> NoFuture]]
      /\ cache' = [p \in PeerNames |-> None] /\ now' = now
  BY DEF MonitorRestarts, Restarted, shared
<1>2. view' \in [Viewers -> View]
  BY <1>1 DEF PeersInv, PeersTypeOK, View
<1>3. NoFuture \in Future /\ FutureOK(NoFuture)
  BY NoFutureOK
<1>4. PeersTypeOK'
  BY <1>1, <1>2, <1>3 DEF PeersTypeOK
<1>5. ASSUME NEW v \in Viewers, NEW p \in PeerNames PROVE FutureOK(futures[v][p])'
  BY <1>1, <1>3 DEF FutureOK
<1>6. ASSUME NEW p \in PeerNames PROVE KeptOK(cache[p])'
  BY <1>1 DEF KeptOK
<1> QED BY <1>4, <1>5, <1>6 DEF PeersInv

LEMMA PeersTickKeeps ==
  ASSUME StartingInv, PeersInv, Tick
  PROVE  PeersInv'
<1>1. UNCHANGED <<view, futures, cache>> /\ now' = now + 1 /\ now \in Nat /\ PeersInTime
  BY DEF Tick, peersVars, StartingInv
<1>2. ASSUME NEW v \in Viewers, NEW p \in PeerNames PROVE FutureOK(futures[v][p])'
  <2>1. futures[v][p] \in Future /\ FutureOK(futures[v][p])
    BY DEF PeersInv, PeersTypeOK
  <2>2. futures[v][p].pc \in {"ask", "store"} => now - futures[v][p].since < PeerMax
    BY <1>1 DEF PeersInTime
  <2> QED BY <1>1, <2>1, <2>2, PeersAssumption DEF FutureOK, Future
<1>3. ASSUME NEW p \in PeerNames PROVE KeptOK(cache[p])'
  BY <1>1 DEF PeersInv, PeersTypeOK, KeptOK
<1>4. PeersTypeOK'
  BY <1>1 DEF PeersInv, PeersTypeOK
<1> QED BY <1>2, <1>3, <1>4 DEF PeersInv

\* Every step of the head is a view's, or leaves what is the views'.
LEMMA PeersApart ==
  ASSUME [Next]_vars
  PROVE  (\E v \in Viewers : Views(v)) \/ MonitorRestarts \/ Tick \/ UNCHANGED <<peersVars, now>>
<1> USE DEF shared
<1>1. CASE UNCHANGED vars
  BY <1>1 DEF vars
<1>2. CASE GateStep /\ UNCHANGED <<startingVars, monitorVars, peersVars, gatewayVars>>
  BY <1>2, GateLeaves
<1>3. CASE (HandEdits \/ LiteLLMRestarts) /\ UNCHANGED <<gateVars, monitorVars, peersVars>>
  BY <1>3 DEF HandEdits, LiteLLMRestarts
<1>4. CASE (Sampler \/ Relays \/ Changes) /\ UNCHANGED <<gateVars, peersVars, gatewayVars>>
  BY <1>4 DEF Sampler, Relays, Changes, Begin, Probes, Gpus, EnginesPolled, Publish, RelayAsks, RelayHears, RelayWrites,
              NvmlChanges, DockerChanges, PortChanges
<1>5. CASE \E t \in Terminals : Commanded(t) /\ UNCHANGED <<gateVars, monitorVars, peersVars>>
  BY <1>5, CommandedNow
<1> QED BY <1>1, <1>2, <1>3, <1>4, <1>5 DEF Next

LEMMA PeersInitially ==
  ASSUME Init
  PROVE  PeersInv
<1>1. /\ view = [v \in Viewers |-> [pc |-> "idle", own |-> None]]
      /\ futures = [v \in Viewers |-> [p \in PeerNames |-> NoFuture]]
      /\ cache = [p \in PeerNames |-> None]
  BY DEF Init, PeersInit
<1>2. NoFuture \in Future /\ FutureOK(NoFuture)
  BY NoFutureOK
<1> QED BY <1>1, <1>2 DEF PeersInv, PeersTypeOK, View, KeptOK

LEMMA PeersStep ==
  ASSUME StartingInv, MonitorInv, PeersInv, [Next]_vars
  PROVE  PeersInv'
<1>1. CASE UNCHANGED <<peersVars, now>>
  BY <1>1 DEF peersVars, PeersInv, PeersTypeOK, FutureOK, KeptOK
<1> QED BY <1>1, PeersApart, ViewsKeep, ViewersRestartKeeps, PeersTickKeeps

\* And the cluster view's: questions and answers are no older than they may be.
THEOREM PeersInvariant == Spec => []PeersInv
<1> QED BY PeersInitially, PeersStep, StartingInvariant, MonitorInvariant, PTL DEF Spec

\* Cluster views, their questions and the answers that are kept have their
\* types (App.cluster).
THEOREM PeersTyped == Spec => []PeersTypeOK
<1>1. PeersInv => PeersTypeOK
  BY DEF PeersInv
<1> QED BY <1>1, PeersInvariant, PTL

\* What a cluster view says of a peer is less than PeerKept and a time-out old,
\* whatever overtakes what in the pool (App._peer).
THEOREM PeersAreRecent == Spec => []PeersRecent
<1>1. PeersInv => PeersRecent
  BY DEF PeersInv, FutureOK, PeersRecent
<1> QED BY <1>1, PeersInvariant, PTL
=============================================================================
