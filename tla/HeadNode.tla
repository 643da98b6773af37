------------------------------ MODULE HeadNode ------------------------------
(***************************************************************************)
(* The head, with all that runs on it beside the engine: the rack up and   *)
(* rack down of its terminals (Starting), what they do on the site's       *)
(* gateway (Gateway), rack gate's requests and key commands (Gate), the    *)
(* monitor (Monitor) and its cluster view (Peers).  They meet in           *)
(* serving.json and starting.json, and in the time, which passes for all   *)
(* of them at once.                                                        *)
(***************************************************************************)
EXTENDS Gate, Peers, Gateway

vars == <<gateVars, startingVars, monitorVars, peersVars, gatewayVars, shared>>

\* What a scene bounds.
Counted == {"chunks", "commands", "swaps", "edits", "leaves", "restarts", "ticks", "ups", "downs", "kills",
            "told", "rewrites", "samples", "views", "relays", "nvml", "docker", "ports"}

\* And what it sets.
Set == {"recipe", "config", "names", "keys", "asks", "conf", "gpus", "boxed", "lists"}

ASSUME ScenesAssumption ==
  \A s \in Scenes :
    /\ DOMAIN s = Counted \cup Set
    /\ \A what \in Counted : s[what] \in Nat
    /\ s.recipe \in Recipes \cup {None}
    /\ s.config \in Configs /\ s.names \in [Engines -> SUBSET Models] /\ s.keys \subseteq Keys
    /\ s.asks \in [Requests -> Asks \cup {None}]
    /\ s.conf \in Seq(Lines)
    /\ \A i \in DOMAIN s.conf :
         IsRoute(s.conf[i]) /\ s.conf[i].to \in Recipes => s.conf[i].to = s.recipe /\ InItsPlace(s.conf, i)
    /\ s.gpus \in {"fine", "lost", "odd", "absent"} /\ s.boxed \in BOOLEAN /\ s.lists \in Lists \cup {None}

Init ==
  /\ budget \in Scenes
  /\ recipe = budget.recipe
  /\ now = 0
  /\ GateInit /\ StartingInit /\ MonitorInit /\ PeersInit /\ GatewayInit

\* Both a command's own steps and those in the script around it.
Commanded(t) ==
  \/ /\ gw[t] = None
     /\ Down(t) \/ \E c \in Recipes : Up(t, c)
     /\ UNCHANGED gatewayVars
  \/ UpStep(t) /\ UNCHANGED gatewayVars
  \/ GatewayStep(t)

Tick ==
  /\ Spends("ticks")
  /\ AskedInTime /\ Beats /\ PeersInTime
  /\ now' = now + 1
  /\ UNCHANGED <<gateVars, startingVars, monitorVars, peersVars, gatewayVars, recipe>>

Next ==
  \/ GateStep /\ UNCHANGED <<startingVars, monitorVars, peersVars, gatewayVars>>
  \/ \E t \in Terminals : Commanded(t) /\ UNCHANGED <<gateVars, monitorVars, peersVars>>
  \/ (HandEdits \/ LiteLLMRestarts) /\ UNCHANGED <<gateVars, monitorVars, peersVars>>
  \/ (Sampler \/ Relays \/ Changes) /\ UNCHANGED <<gateVars, peersVars, gatewayVars>>
  \/ (MonitorRestarts \/ \E v \in Viewers : Views(v)) /\ UNCHANGED <<gateVars, gatewayVars>>
  \/ Tick

Spec == Init /\ [][Next]_vars

-----------------------------------------------------------------------------
\* Every part's variables have their types, and so have the record, the clock
\* and what is left of the scene.
TypeOK ==
  /\ recipe \in Recipes \cup {None} /\ now \in Nat
  /\ \A what \in Counted : budget[what] \in Nat
  /\ GateTypeOK /\ StartingTypeOK /\ MonitorTypeOK /\ PeersTypeOK /\ GatewayTypeOK
=============================================================================
