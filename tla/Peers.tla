------------------------------- MODULE Peers -------------------------------
(***************************************************************************)
(* The monitor's cluster view (monitor/rackmon.py, class App): a request   *)
(* asks every peer, through a pool of threads that all requests share, and *)
(* waits for all of them.  A peer's answer, or that it gave none, is kept  *)
(* for PeerKept from when it came; two requests may ask the same peer at   *)
(* once.  Left out: what the answers say, tokens, the other paths.         *)
(***************************************************************************)
EXTENDS Monitor

CONSTANTS
  Viewers,     \* one request each
  PeerNames,   \* MONITOR_PEERS
  Workers,     \* the pool's threads
  PeerKept, PeerMax    \* the cache's time, and the time-out of a question

ASSUME PeersAssumption ==
  /\ Workers \in Nat \ {0}
  /\ PeerKept \in Nat \ {0} /\ PeerMax \in Nat

VARIABLES
  view,     \* each viewer's request, and the sample of the head it shows
  futures,  \* its question to each peer
  cache     \* peer -> when its answer came, and when it was said

peersVars == <<view, futures, cache>>

View   == [pc : {"idle", "waits", "done", "killed"}, own : Nat \cup {None}]
Future == [pc : {"none", "queued", "ask", "store", "done"}, since : Nat, said : Nat,
           age : Nat]                      \* history: how old what it gave was
NoFuture == [pc |-> "none", since |-> 0, said |-> 0, age |-> 0]

Peer(v, p, pc) == futures[v][p].pc = pc
Sets(v, p, f) == futures' = [futures EXCEPT ![v][p] = f]

\* cluster(): every peer's question is submitted, and the head's own sample
\* is read.
Cluster(v) ==
  /\ view[v].pc = "idle" /\ Spends("views")
  /\ futures' = [futures EXCEPT ![v] = [p \in PeerNames |-> [NoFuture EXCEPT !.pc = "queued"]]]
  /\ view' = [view EXCEPT ![v] = [pc |-> "waits", own |-> IF shown = None THEN None ELSE shown.at]]
  /\ UNCHANGED <<cache, monitorVars, startingVars, recipe, now>>

Busy == {x \in Viewers \X PeerNames : futures[x[1]][x[2]].pc \in {"ask", "store"}}

\* Mutant of PeerKeptYet: one more moment.
PeerKeptLonger(p) == cache[p] # None /\ now - cache[p].at <= PeerKept

PeerKeptYet(p) == cache[p] # None /\ now - cache[p].at < PeerKept

\* _peer(), when a thread of the pool is free (whichever question it takes
\* first): the answer that is kept, or the peer is asked.
PoolTakes(v, p) ==
  /\ Peer(v, p, "queued") /\ Cardinality(Busy) < Workers
  /\ Sets(v, p, IF PeerKeptYet(p)
                THEN [futures[v][p] EXCEPT !.pc = "done", !.age = now - cache[p].said]
                ELSE [futures[v][p] EXCEPT !.pc = "ask", !.since = now])
  /\ UNCHANGED <<view, cache, monitorVars, startingVars, shared>>

\* The peer answers, or does not; the answer is on its way.
Says(v, p) ==
  /\ Peer(v, p, "ask")
  /\ Sets(v, p, [futures[v][p] EXCEPT !.pc = "store", !.said = now])
  /\ UNCHANGED <<view, cache, monitorVars, startingVars, shared>>

\* It is kept, over whatever is there, with the time it came.
Keeps(v, p) ==
  /\ Peer(v, p, "store")
  /\ LET said == futures[v][p].said
     IN /\ cache' = [cache EXCEPT ![p] = [at |-> now, said |-> said]]
        /\ Sets(v, p, [futures[v][p] EXCEPT !.pc = "done", !.age = now - said])
  /\ UNCHANGED <<view, monitorVars, startingVars, shared>>

\* The request is answered when all its questions are.
Shows(v) ==
  /\ view[v].pc = "waits" /\ \A p \in PeerNames : Peer(v, p, "done")
  /\ view' = [view EXCEPT ![v].pc = "done"]
  /\ UNCHANGED <<futures, cache, monitorVars, startingVars, shared>>

\* The monitor has exited and docker starts it again: what it was asked and
\* what it kept are gone.
MonitorRestarts ==
  /\ Restarted
  /\ view' = [v \in Viewers |-> IF view[v].pc = "waits" THEN [view[v] EXCEPT !.pc = "killed"] ELSE view[v]]
  /\ futures' = [v \in Viewers |-> [p \in PeerNames |-> NoFuture]]
  /\ cache' = [p \in PeerNames |-> None]

PeersInit ==
  /\ view = [v \in Viewers |-> [pc |-> "idle", own |-> None]]
  /\ futures = [v \in Viewers |-> [p \in PeerNames |-> NoFuture]]
  /\ cache = [p \in PeerNames |-> None]

Views(v) ==
  /\ ~Does("out")
  /\ \/ Cluster(v) \/ Shows(v)
     \/ \E p \in PeerNames : PoolTakes(v, p) \/ Says(v, p) \/ Keeps(v, p)

\* Time passes; a question is over after PeerMax.
PeersInTime ==
  \A v \in Viewers, p \in PeerNames :
    futures[v][p].pc \in {"ask", "store"} => now - futures[v][p].since < PeerMax

-----------------------------------------------------------------------------
\* Requests, their questions and the answers that are kept have their types.
PeersTypeOK ==
  /\ view \in [Viewers -> View]
  /\ futures \in [Viewers -> [PeerNames -> Future]]
  /\ cache \in [PeerNames -> [at : Nat, said : Nat] \cup {None}]

\* What a cluster view says of a peer, the peer said less than PeerKept and a
\* question's time-out before the view took it, however the threads that ask
\* it overtake each other, and however often one's answer replaces a newer one
\* (App._peer, which dates an answer by when it came).
PeersRecent == \A v \in Viewers, p \in PeerNames : futures[v][p].age < PeerKept + PeerMax
=============================================================================
