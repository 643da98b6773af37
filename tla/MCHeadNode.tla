----------------------------- MODULE MCHeadNode -----------------------------
(***************************************************************************)
(* The head for TLC: two recipes, two terminals, two requests of the gate, *)
(* the rack's own engine and one of gate.json's.  What may happen in a     *)
(* behaviour is one of MCScenes: each lets one group of hazards meet in    *)
(* full, and most let commands of the others come in between.              *)
(***************************************************************************)
EXTENDS HeadNode
CONSTANTS R1, R2, K1, K2, A, B, NA, NB, Far, FarName, MA, MB, MFar, Claude, T0, T1, X1, X2, I1, I2, I3, I4,
          P1, P2, C1, C2, Hand, V1, V2, V3, N1

MCClientOf == (K1 :> "laptop") @@ (K2 :> "laptop")
MCMayUse   == (K1 :> {NA, NB, FarName}) @@ (K2 :> {FarName})
MCNameOf   == (A :> NA) @@ (B :> NB)
MCKindOf   == (A :> "vllm") @@ (B :> "openai")
MCModelOf  == (A :> MA) @@ (B :> MB)
FarRoute  == FarName :> [engine |-> Far, model |-> MFar]
Config    == [routes |-> FarRoute, aliases |-> Claude :> NA]
Edited    == [routes |-> FarRoute @@ (NA :> [engine |-> Far, model |-> MFar]), aliases |-> Claude :> FarName]
HalfSaved == [routes |-> << >>, aliases |-> << >>]
MCConfigs == {Config, Edited, HalfSaved}

Ask(path, key, asked, stream) ==
  [path |-> path, key |-> key, asked |-> asked, stream |-> stream, body |-> TRUE, want |-> 2]
ModelList == Ask("models", K1, Claude, FALSE)
Streamed  == Ask("messages", K1, Claude, TRUE)
MCPosts  ==
  {Ask(p, K1, n, s) : p \in {"chat", "messages"}, n \in {NA, Claude}, s \in BOOLEAN}
    \cup {Ask("count", K1, NA, FALSE), Ask("other", K1, NA, FALSE), Ask("chat", None, NA, FALSE),
          [Ask("chat", K1, NA, FALSE) EXCEPT !.body = FALSE], Ask("chat", K2, NA, FALSE)}
Knock    == Ask("chat", K1, None, FALSE)   \* for no model: the keys decide, then 404
MCAsks   == {ModelList, Streamed, Knock} \cup MCPosts

KeyDo(do, key, replace) == [do |-> do, key |-> key, replace |-> replace]
MCCommands == {KeyDo("rm", K1, FALSE), KeyDo("add", K2, TRUE), KeyDo("add", K1, FALSE)}

Conf0 == <<ListLine, RouteTo(Hand, "theirs"), Note, Section>>
Clash == <<ListLine, RouteTo(Hand, "theirs"), RouteTo(NA, "theirs"), Section>>
Short == <<ListLine, RouteTo(NA, "theirs")>>
Bare  == <<Note>>      \* no model_list: every sync is refused

Managed == <<ListLine, BeginMark, RouteTo(NA, A), EndMark, RouteTo(Hand, "theirs"), Section>>

Listens(kind, m, closed, mute) == [kind |-> kind, model |-> m, closed |-> closed, mute |-> mute]
MCListeners == {Listens("vllm", MA, FALSE, FALSE), Listens("vllm", MB, FALSE, FALSE), Listens("vllm", MA, TRUE, FALSE),
                Listens("openai", MB, FALSE, FALSE), Listens("openai", MB, FALSE, TRUE)}

Still == [what \in Counted |-> 0] @@
         [recipe |-> A, config |-> Config, names |-> (Here :> {MA}) @@ (Far :> {MFar}), keys |-> {K1, K2},
          asks |-> [r \in Requests |-> None], conf |-> Conf0,
          gpus |-> "fine", boxed |-> TRUE, lists |-> C1]

\* Requests meet key commands, or a gate that is restarted.
KeyScenes ==
  {[Still EXCEPT !.keys = ks, !.asks = [r \in Requests |-> Knock], !.commands = c, !.restarts = 2 - c] :
     ks \in {{K1}, {K2}}, c \in 1..2}
\* Two lists meet engines that come and go, as time passes; one meets rack up.
ListScenes ==
  {[Still EXCEPT !.config = HalfSaved, !.asks = [r \in Requests |-> ModelList], !.swaps = 1, !.ticks = 3],
   [Still EXCEPT !.asks = [r \in Requests |-> ModelList], !.ticks = 3],
   [Still EXCEPT !.recipe = None, !.asks[R1] = ModelList, !.ups = 1, !.edits = 1]}
\* Any POST meets engines that fail or go, rack down, an edit of gate.json, a
\* client that leaves.
PostScenes ==
  {[Still EXCEPT !.asks[R1] = a, !.swaps = 1, !.edits = 1, !.leaves = 1, !.chunks = 1] :
     a \in MCPosts}
\* A streamed answer.
StreamScenes == {[Still EXCEPT !.asks[R1] = Streamed, !.chunks = 5]}
\* Commands in two terminals, and their heartbeats.
StartingScenes ==
  {[Still EXCEPT !.recipe = None, !.conf = Bare, !.ups = 2, !.downs = 1, !.ticks = 2],
   [Still EXCEPT !.recipe = None, !.ups = 1, !.kills = 1, !.ticks = 7]}
\* The sampler and the relay, as time passes.
MonitorScenes ==
  {[Still EXCEPT !.samples = 1, !.relays = 2, !.docker = 1, !.ticks = 4],
   [Still EXCEPT !.samples = 3, !.ports = 2, !.ticks = 3],
   [Still EXCEPT !.recipe = B, !.samples = 3, !.ports = 1, !.ticks = 2],
   [Still EXCEPT !.samples = 5, !.nvml = 4, !.gpus = "lost"],
   [Still EXCEPT !.samples = 5, !.nvml = 3, !.boxed = FALSE],
   [Still EXCEPT !.samples = 3, !.nvml = 1, !.gpus = "absent"],
   [Still EXCEPT !.recipe = None, !.samples = 2, !.ups = 1]}
\* Three cluster views, as time passes; two, and a monitor that gives itself up.
PeersScenes ==
  {[Still EXCEPT !.views = 3, !.ticks = 4], [Still EXCEPT !.views = 2, !.samples = 3, !.nvml = 1]}
\* Commands on the gateway's config, which people edit too.
GatewayScenes ==
  {[Still EXCEPT !.recipe = None, !.ups = 1, !.downs = 1, !.kills = 1],
   [Still EXCEPT !.conf = Managed, !.ups = 1, !.downs = 1],
   [Still EXCEPT !.conf = Managed, !.downs = 1, !.kills = 1, !.rewrites = 1],
   [Still EXCEPT !.conf = Managed, !.ups = 2],
   [Still EXCEPT !.conf = Managed, !.told = 2],
   [Still EXCEPT !.conf = Short, !.told = 2, !.rewrites = 1],
   [Still EXCEPT !.conf = Clash, !.told = 2, !.downs = 1],
   [Still EXCEPT !.conf = Managed, !.told = 1, !.downs = 1, !.kills = 1]}

MCScenes == KeyScenes \cup ListScenes \cup PostScenes \cup StreamScenes \cup StartingScenes
              \cup MonitorScenes \cup PeersScenes \cup GatewayScenes
=============================================================================
