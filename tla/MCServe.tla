------------------------------ MODULE MCServe ------------------------------
(***************************************************************************)
(* Small racks for TLC: a head and one worker, and at most one recipe of   *)
(* each runtime: s1 a solo container, c1 and c2 clusters over both nodes,  *)
(* n1 a native engine under systemd, x1 an external one.                   *)
(***************************************************************************)
EXTENDS Serve

CONSTANTS s1, c1, c2, n1, x1, head, worker

MCNodeSeq == <<head, worker>>
MCRuntime == [r \in Recipes |-> IF r = n1 THEN "systemd"
                               ELSE IF r = x1 THEN "external" ELSE "docker"]
MCSpan    == [r \in Recipes |-> IF r \in {c1, c2} THEN 2 ELSE 1]

\* Every engine on the rack's port, and x1 on one of its own.
MCPort    == [r \in Recipes |-> 8888]
MCOwnPort == [r \in Recipes |-> IF r = x1 THEN 8890 ELSE 8888]
=============================================================================
