------------------------------ MODULE Monitor ------------------------------
(***************************************************************************)
(* The machine's monitor (monitor/rackmon.py): one thread takes samples,   *)
(* one after the other, and publishes each when it is whole; a relay in a  *)
(* container of its own writes containers.json, which the samples read.    *)
(* A sample is four steps here: it reads serving.json and containers.json, *)
(* asks NVML, finds and polls the engines, reads starting.json and is      *)
(* published.  CPU, memory, network and temperatures, and the engines'     *)
(* counters, are left out.                                                 *)
(***************************************************************************)
EXTENDS Starting

CONSTANTS
  Ports,                 \* MONITOR_ENGINE_PORTS
  EnginePort,            \* serving.json's port
  KindOf,                \* what rack declares of a recipe's engine, by its name
  Listeners,             \* what may come to listen on a port
  Lists,                 \* what docker may answer
  Limit,                 \* GPU_LOST_LIMIT
  RelayOld, AskEvery     \* the 30 s of sample_containers, and those of the engines

PortKinds == {"vllm", "openai"}          \* with /metrics, and without
\* closed: its /v1/models wants a key of its own; mute: it answers nothing.
Listener == [kind : PortKinds, model : Models, closed : BOOLEAN, mute : BOOLEAN]

ASSUME MonitorAssumption ==
  /\ EnginePort \in Ports
  /\ KindOf \in [Recipes -> PortKinds]
  /\ Limit \in Nat \ {0, 1} /\ RelayOld \in Nat /\ AskEvery \in Nat \ {0}
  /\ None \notin Lists
  /\ Listeners \subseteq Listener

VARIABLES
  mon,     \* the monitor's process
  shown,   \* self.current: what the last sample published
  relay,   \* the relay's request and containers.json
  nvml,    \* what nvidia-smi says: "fine", "lost" (Failed to initialize NVML), "odd";
           \* "absent" where there is none
  docker,  \* docker's containers, or None when it does not answer
  port     \* what listens on each port, or None

monitorVars == <<mon, shown, relay, nvml, docker, port>>

\* An Engine object: models and models_at; history: when they were named, and
\* whether the last question was refused.
Known    == [kind : PortKinds, models : SUBSET Models, at : Int, named : Int, refused : BOOLEAN, error : BOOLEAN]
Never    == -1 - AskEvery               \* models_at = 0.0, which is long ago

Read     == [state : {"loading", "failed", "interrupted"}, recipe : Recipes]
Sample   == [at : Nat, serving : Recipes \cup {None}, starting : Read \cup {None},
             containers : Lists \cup {None}, said : Int, engines : [Ports -> Known \cup {None}], gpu : BOOLEAN]

ASSUME SampleAssumption == None \notin Sample

Process  == [
  pc      : {"idle", "gpu", "engines", "publish", "out"},
  at      : Nat,                         \* now, when the sample began
  serving : Recipes \cup {None},
  containers : Lists \cup {None}, said : Int,
  fields  : {"unknown", "known", "none"},    \* gpu_fields
  gpu     : BOOLEAN,                     \* this sample has the GPUs' figures
  lost    : Nat,                         \* gpu_lost
  engines : [Ports -> Known \cup {None}], asked : Int,    \* engines_at
  blind   : Nat]                         \* history: samples published since nvml last changed

Fresh == [pc |-> "idle", at |-> 0, serving |-> None, containers |-> None, said |-> 0, fields |-> "unknown",
          gpu |-> FALSE, lost |-> 0, engines |-> [p \in Ports |-> None], asked |-> Never, blind |-> 0]

Does(pc) == mon.pc = pc

\* read_serving, then sample_containers: containers.json, unless it says an
\* error or is older than RelayOld.
Begin ==
  /\ Does("idle") /\ Spends("samples")
  /\ LET rec == relay.file
         use == rec # None /\ rec.list # None /\ now - rec.at <= RelayOld
     IN mon' = [mon EXCEPT !.pc = "gpu", !.at = now, !.serving = recipe,
                           !.containers = IF use THEN rec.list ELSE None,
                           !.said = IF use THEN rec.said ELSE 0]
  /\ UNCHANGED <<shown, relay, nvml, docker, port, startingVars, recipe, now>>

\* sample_gpus: until NVML has said which fields it knows, each sample asks;
\* without an nvidia-smi there are none, and nothing is asked again.
Probes ==
  /\ Does("gpu") /\ mon.fields = "unknown"
  /\ mon' = CASE nvml = "fine"   -> [mon EXCEPT !.fields = "known"]
              [] nvml = "absent" -> [mon EXCEPT !.fields = "none"]
              [] OTHER           -> [mon EXCEPT !.pc = "engines", !.gpu = FALSE]
  /\ UNCHANGED <<shown, relay, nvml, docker, port, startingVars, shared>>

Boxed == budget.boxed       \* /.dockerenv is there

\* Mutant of Gpus: an answer does not start the count again.
GpusNoReset ==
  /\ Does("gpu") /\ mon.fields # "unknown"
  /\ LET known == mon.fields = "known"
         lost  == IF known /\ nvml = "lost" THEN mon.lost + 1 ELSE mon.lost
         out   == lost > mon.lost /\ lost >= Limit /\ Boxed
     IN mon' = [mon EXCEPT !.pc = IF out THEN "out" ELSE "engines", !.gpu = known /\ nvml = "fine", !.lost = lost]
  /\ UNCHANGED <<shown, relay, nvml, docker, port, startingVars, shared>>

\* And then for the figures: a "Failed to initialize NVML" counts, an answer
\* starts the count again.  At the limit a monitor in a container exits
\* (gpu_lost_check), for docker to start it again with the GPU.
Gpus ==
  /\ Does("gpu") /\ mon.fields # "unknown"
  /\ LET known == mon.fields = "known"
         lost  == CASE known /\ nvml = "fine" -> 0
                    [] known /\ nvml = "lost" -> mon.lost + 1
                    [] OTHER                  -> mon.lost
         out   == lost > mon.lost /\ lost >= Limit /\ Boxed
     IN mon' = [mon EXCEPT !.pc = IF out THEN "out" ELSE "engines", !.gpu = known /\ nvml = "fine", !.lost = lost]
  /\ UNCHANGED <<shown, relay, nvml, docker, port, startingVars, shared>>

\* discover_engines: which kind of engine answers on a port that listens; one
\* that rack declares is taken for the kind declared, though it answers nothing.
Found(p) ==
  LET e == port[p]
      new(k) == [kind |-> k, models |-> {}, at |-> Never, named |-> 0, refused |-> FALSE, error |-> FALSE]
  IN IF e = None THEN None
     ELSE IF mon.engines[p] # None THEN mon.engines[p]
     ELSE IF ~e.mute /\ (e.kind = "vllm" \/ ~e.closed) THEN new(e.kind)
     ELSE IF mon.serving # None /\ p = EnginePort THEN new(KindOf[mon.serving]) ELSE None

\* Mutant of Refreshed: off by one.
RefreshedLate(k, e) ==
  IF mon.at - k.at <= AskEvery THEN k
  ELSE IF e = None \/ e.mute \/ e.closed THEN [k EXCEPT !.at = mon.at, !.refused = TRUE]
  ELSE [k EXCEPT !.at = mon.at, !.models = {e.model}, !.named = now, !.refused = FALSE]

\* refresh_models: at most every AskEvery; a refusal leaves what was named.
Refreshed(k, e) ==
  IF mon.at - k.at < AskEvery THEN k
  ELSE IF e = None \/ e.mute \/ e.closed THEN [k EXCEPT !.at = mon.at, !.refused = TRUE]
  ELSE [k EXCEPT !.at = mon.at, !.models = {e.model}, !.named = now, !.refused = FALSE]

\* poll: /metrics first, for a kind that has it; without an answer an error,
\* and no more is asked.
Polled(k, e) ==
  IF k.kind = "vllm" /\ (e = None \/ e.mute \/ e.kind # "vllm") THEN [k EXCEPT !.error = TRUE]
  ELSE [Refreshed(k, e) EXCEPT !.error = FALSE]

EnginesPolled ==
  /\ Does("engines")
  /\ LET due   == mon.at - mon.asked >= AskEvery
         found == IF due THEN [p \in Ports |-> Found(p)] ELSE mon.engines
     IN mon' = [mon EXCEPT !.pc = "publish", !.asked = IF due THEN mon.at ELSE mon.asked,
                           !.engines = [p \in Ports |-> IF found[p] = None THEN None
                                                        ELSE Polled(found[p], port[p])]]
  /\ UNCHANGED <<shown, relay, nvml, docker, port, startingVars, shared>>

Publish ==
  /\ Does("publish")
  /\ shown' = [at |-> mon.at, serving |-> mon.serving, starting |-> ReadStarting(now),
               containers |-> mon.containers, said |-> mon.said, engines |-> mon.engines, gpu |-> mon.gpu]
  /\ mon' = [mon EXCEPT !.pc = "idle", !.blind = mon.blind + 1]
  /\ UNCHANGED <<relay, nvml, docker, port, startingVars, shared>>

\* docker's restart policy: a new process, with the GPU.
Restarted ==
  /\ Does("out")
  /\ mon' = Fresh /\ shown' = None /\ nvml' = "fine"
  /\ UNCHANGED <<relay, docker, port, startingVars, shared>>

-----------------------------------------------------------------------------
(***************************************************************************)
(* The relay: relay_once over and over.                                    *)
(***************************************************************************)
RelayRec == [at : Nat, list : Lists \cup {None}, said : Nat]
Relay    == [pc : {"idle", "asked", "said"}, rec : RelayRec \cup {None}, file : RelayRec \cup {None}]

RelayAsks ==
  /\ relay.pc = "idle" /\ Spends("relays")
  /\ relay' = [relay EXCEPT !.pc = "asked", !.rec = [at |-> now, list |-> None, said |-> now]]
  /\ UNCHANGED <<mon, shown, nvml, docker, port, startingVars, recipe, now>>

\* What docker answers, or an error.
RelayHears ==
  /\ relay.pc = "asked"
  /\ relay' = [relay EXCEPT !.pc = "said", !.rec.list = docker, !.rec.said = now]
  /\ UNCHANGED <<mon, shown, nvml, docker, port, startingVars, shared>>

\* Mutant of RelayWrites: the file says when it was written.
RelayWritesTime ==
  /\ relay.pc = "said"
  /\ relay' = [pc |-> "idle", rec |-> None, file |-> [relay.rec EXCEPT !.at = now]]
  /\ UNCHANGED <<mon, shown, nvml, docker, port, startingVars, shared>>

\* The file is replaced, or cannot be written and stays.
RelayWrites ==
  /\ relay.pc = "said"
  /\ relay' \in {[pc |-> "idle", rec |-> None, file |-> relay.rec], [pc |-> "idle", rec |-> None, file |-> relay.file]}
  /\ UNCHANGED <<mon, shown, nvml, docker, port, startingVars, shared>>

-----------------------------------------------------------------------------
(***************************************************************************)
(* What they look at changes.                                              *)
(***************************************************************************)
NvmlChanges ==
  /\ Spends("nvml") /\ nvml # "absent"
  /\ nvml' \in {"fine", "lost", "odd"} \ {nvml}
  /\ mon' = [mon EXCEPT !.blind = 0]
  /\ UNCHANGED <<shown, relay, docker, port, startingVars, recipe, now>>

DockerChanges ==
  /\ Spends("docker")
  /\ docker' \in (Lists \cup {None}) \ {docker}
  /\ UNCHANGED <<mon, shown, relay, nvml, port, startingVars, recipe, now>>

PortChanges(p) ==
  /\ Spends("ports")
  /\ \E e \in (Listeners \cup {None}) \ {port[p]} : port' = [port EXCEPT ![p] = e]
  /\ UNCHANGED <<mon, shown, relay, nvml, docker, startingVars, recipe, now>>

MonitorInit ==
  /\ mon = Fresh /\ shown = None
  /\ relay = [pc |-> "idle", rec |-> None, file |-> None]
  /\ nvml = budget.gpus /\ docker = budget.lists
  /\ port = [p \in Ports |-> None]

Sampler == Begin \/ Probes \/ Gpus \/ EnginesPolled \/ Publish
Relays  == RelayAsks \/ RelayHears \/ RelayWrites
Changes == NvmlChanges \/ DockerChanges \/ \E p \in Ports : PortChanges(p)

-----------------------------------------------------------------------------
\* The monitor's process, what it has published, and what it looks at have
\* their types.
MonitorTypeOK ==
  /\ mon \in Process
  /\ shown \in Sample \cup {None}
  /\ relay \in Relay
  /\ nvml \in {"fine", "lost", "odd", "absent"}
  /\ docker \in Lists \cup {None}
  /\ port \in [Ports -> Listeners \cup {None}]

\* The containers a sample shows were docker's at most RelayOld before the
\* sample began, however long the relay's request took, and whether or not
\* its writes succeed (relay_once, sample_containers).
ContainersRecent ==
  shown # None /\ shown.containers # None => shown.at - shown.said <= RelayOld

\* An engine that is shown without an error names what answered on its port
\* less than AskEvery before the sample began, unless it refused to say the
\* last time: whatever took the port's place in between (discover_engines,
\* Engine.poll, refresh_models).
ModelsRecent ==
  shown # None =>
    \A p \in Ports :
      LET k == shown.engines[p]
      IN k # None /\ ~k.error /\ k.models # {} => k.refused \/ shown.at - k.named < AskEvery

\* In a container, a monitor that has had the GPU publishes at most Limit
\* samples once NVML refuses it for good, whatever else went wrong before: then
\* it gives itself up.  It does so nowhere else: not on a bare machine, not
\* without ever having had the GPU, and not while the GPU's figures are what
\* its last sample shows (sample_gpus, gpu_lost_check).
LostNotLong ==
  /\ Boxed /\ mon.fields = "known" /\ nvml = "lost" => mon.blind <= Limit
  /\ Does("out") => Boxed /\ mon.fields = "known" /\ shown # None /\ ~shown.gpu
=============================================================================
