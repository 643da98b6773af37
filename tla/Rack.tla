-------------------------------- MODULE Rack --------------------------------
(***************************************************************************)
(* What rack's parts on the head share: serving.json, which rack up and    *)
(* rack down write and the gate, the monitor and the gateway's commands    *)
(* read, the terminals the commands are given in, and the time.            *)
(***************************************************************************)
EXTENDS Integers, Sequences, FiniteSets, TLC

CONSTANTS
  Recipes,
  Models,
  Names,       \* public names
  NameOf,      \* a recipe's: its gateway_name, else its served_name
  Terminals,   \* where commands are given
  Scenes,      \* bounds: how things are at first, and how often what may happen
  None

ASSUME RackAssumption ==
  /\ NameOf \in [Recipes -> Names]
  /\ None \notin Recipes \cup Models \cup Names \cup Terminals \cup Nat

VARIABLES
  recipe,   \* the recipe serving.json names, or None
  now,
  budget    \* the scene: what may still happen

shared == <<recipe, now, budget>>

Spends(what) ==
  /\ budget[what] > 0
  /\ budget' = [budget EXCEPT ![what] = budget[what] - 1]
=============================================================================
