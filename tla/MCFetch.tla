------------------------------- MODULE MCFetch -------------------------------
(***************************************************************************)
(* rack pull for TLC: two commits of a model that share its weights, an    *)
(* LFS file of two chunks, and have a file of git's each.                  *)
(***************************************************************************)
EXTENDS Fetch
CONSTANTS P, Q, I1, I2, Weights, Config, NewConfig, C1, C2
MCSize  == [b \in Blobs |-> IF b = Weights THEN 2 ELSE 1]
MCFiles == [c \in Commits |-> {Weights, IF c = C1 THEN Config ELSE NewConfig} \cap Blobs]
=============================================================================
