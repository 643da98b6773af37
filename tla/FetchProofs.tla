----------------------------- MODULE FetchProofs -----------------------------
(***************************************************************************)
(* rack pull's downloads, for any number of blobs, commits, chunks, retries *)
(* and faults: the types, for any number of pulls at once; and, when one    *)
(* runs at a time, that an LFS file in place is whole and what a branch     *)
(* names is complete.                                                       *)
(***************************************************************************)
EXTENDS Fetch, TLAPS

USE FetchAssumption

-----------------------------------------------------------------------------
(***************************************************************************)
(* What is written stays a sequence of chunks.                              *)
(***************************************************************************)
LEMMA WrittenType ==
  ASSUME NEW d \in Seq(BOOLEAN), NEW t \in Thread, NEW right \in BOOLEAN
  PROVE  Written(d, t, right) \in Seq(BOOLEAN)
<1>1. CASE t.append
  <2>1. (right /\ Len(d) = t.next) \in BOOLEAN
    OBVIOUS
  <2> DEFINE e == right /\ Len(d) = t.next
  <2>2. Written(d, t, right) = Append(d, e)
    BY <1>1 DEF Written
  <2> HIDE DEF e
  <2>3. e \in BOOLEAN => Append(d, e) \in Seq(BOOLEAN)
    OBVIOUS
  <2> QED
    BY <2>1, <2>2, <2>3 DEF e
<1>2. CASE ~t.append
  <2> DEFINE n == IF Len(d) > t.next THEN Len(d) ELSE t.next + 1
             e(k) == IF k = t.next + 1 THEN right ELSE k <= Len(d) /\ d[k]
  <2>1. n \in Nat
    BY DEF Thread
  <2>2. \A k \in 1..n : e(k) \in BOOLEAN
    OBVIOUS
  <2>3. Written(d, t, right) = [k \in 1..n |-> e(k)]
    BY <1>2, Zenon DEF Written
  <2> HIDE DEF n, e
  <2>4. [k \in 1..n |-> e(k)] \in Seq(BOOLEAN)
    BY <2>1, <2>2
  <2> QED
    BY <2>3, <2>4
<1> QED
  BY <1>1, <1>2

-----------------------------------------------------------------------------
(***************************************************************************)
(* Types.                                                                   *)
(***************************************************************************)
LEMMA ThreadType ==
  /\ Idle \in Thread /\ Ready \in Thread
  /\ Idle.fd = None /\ Ready.fd = None /\ Idle.pc = "idle" /\ Ready.pc = "begin"
BY DEF Idle, Ready, Thread

\* A thread that goes on without its .part open.
Ended == {"begin", "size", "ask", "verify", "place", "check", "done", "failed"}

LEMMA MovesType ==
  ASSUME NEW t \in Thread, NEW pc \in Ended
  PROVE  /\ [t EXCEPT !.pc = pc, !.fd = None] \in Thread
         /\ [t EXCEPT !.pc = pc, !.fd = None].fd = None
         /\ [t EXCEPT !.pc = pc, !.fd = None].pc = pc
         /\ pc # "read"
BY DEF Thread, Ended

LEMMA AgainType ==
  ASSUME NEW t \in Thread, NEW n \in Nat
  PROVE  LET u == [t EXCEPT !.pc = "size", !.fd = None, !.tries = n]
         IN  u \in Thread /\ u.fd = None /\ u.pc = "size"
BY DEF Thread

\* What TypeOK says of the threads, and of what they work on.
ThreadsOK ==
  /\ at \in [Pulls -> [Blobs -> Thread]]
  /\ \A p \in Pulls, b \in Blobs : at[p][b].fd # None <=> at[p][b].pc = "read"

FilesOK ==
  /\ blob \in [Blobs -> Inodes \cup {None}]
  /\ part \in [Blobs -> Inodes \cup {None}]
  /\ data \in [Blobs -> [Inodes -> Seq(BOOLEAN)]]
  /\ \A b \in Blobs : blob[b] # None => blob[b] # part[b]

RestOK ==
  /\ head \in Commits
  /\ links \in [Commits -> SUBSET Blobs]
  /\ ref \in Commits \cup {None}
  /\ want \in [Pulls -> Commits \cup {None}]
  /\ faults \in 0..MaxFaults

LEMMA ThreeParts == TypeOK <=> ThreadsOK /\ FilesOK /\ RestOK
  BY Zenon DEF TypeOK, ThreadsOK, FilesOK, RestOK

\* One thread moves.
LEMMA GoToType ==
  ASSUME ThreadsOK, RestOK, NEW p \in Pulls, NEW b \in Blobs, NEW t \in Thread,
         GoTo(p, b, t), t.fd # None <=> t.pc = "read", Fault \/ Smooth
  PROVE  ThreadsOK' /\ RestOK'
<1>1. at' = [at EXCEPT ![p] = [at[p] EXCEPT ![b] = t]]
  BY DEF GoTo
<1>2. ThreadsOK'
  BY <1>1 DEF ThreadsOK
<1>3. RestOK'
  BY DEF RestOK, GoTo, tree, Fault, Smooth
<1> QED
  BY <1>2, <1>3

LEMMA MovesKeeps ==
  ASSUME ThreadsOK, RestOK, NEW p \in Pulls, NEW b \in Blobs, Fault \/ Smooth,
         \/ \E pc \in Ended : Moves(p, b, pc)
         \/ AsksAgain(p, b)
         \/ Retry(p, b)
  PROVE  ThreadsOK' /\ RestOK'
<1>1. at[p][b] \in Thread
  BY DEF ThreadsOK
<1>2. ASSUME NEW pc \in Ended, Moves(p, b, pc)
      PROVE  ThreadsOK' /\ RestOK'
  <2> DEFINE t == [at[p][b] EXCEPT !.pc = pc, !.fd = None]
  <2>1. t \in Thread /\ t.fd = None /\ t.pc = pc /\ pc # "read"
    BY <1>1, MovesType, Zenon
  <2>2. GoTo(p, b, t)
    BY <1>2 DEF Moves
  <2> HIDE DEF t
  <2> QED
    BY <2>1, <2>2, GoToType
<1>3. CASE AsksAgain(p, b)
  <2> DEFINE t == [at[p][b] EXCEPT !.pc = "size", !.fd = None, !.tries = at[p][b].tries + 1]
  <2>1. t \in Thread /\ t.fd = None /\ t.pc = "size"
    <3>1. at[p][b].tries + 1 \in Nat
      BY <1>1 DEF Thread
    <3> QED
      BY <1>1, <3>1, AgainType, Zenon
  <2>2. GoTo(p, b, t)
    BY <1>3 DEF AsksAgain
  <2> HIDE DEF t
  <2> QED
    BY <2>1, <2>2, GoToType
<1>4. CASE Retry(p, b)
  BY <1>2, <1>3, <1>4 DEF Retry, Ended
<1> QED
  BY <1>2, <1>3, <1>4

\* The steps of one thread, by what they do to the files.
LEMMA QuietType ==
  ASSUME TypeOK, NEW p \in Pulls, NEW b \in Blobs,
         Begin(p, b) \/ AskFails(p, b) \/ Closes(p, b) \/ Breaks(p, b)
  PROVE  TypeOK'
<1>1. ThreadsOK /\ FilesOK /\ RestOK
  BY ThreeParts
<1>2. UNCHANGED names /\ (Fault \/ Smooth)
  BY DEF Begin, AskFails, Closes, Breaks
<1>3. \/ \E pc \in Ended : Moves(p, b, pc)
      \/ AsksAgain(p, b)
      \/ Retry(p, b)
  BY DEF Begin, AskFails, Closes, Breaks, Ended
<1>4. ThreadsOK' /\ RestOK'
  BY <1>1, <1>2, <1>3, MovesKeeps
<1>5. FilesOK'
  BY <1>1, <1>2 DEF FilesOK, names
<1> QED
  BY <1>4, <1>5, ThreeParts, PTL

LEMMA MeasureType ==
  ASSUME TypeOK, NEW p \in Pulls, NEW b \in Blobs, Measure(p, b)
  PROVE  TypeOK'
<1>1. ThreadsOK /\ FilesOK /\ RestOK
  BY ThreeParts
<1> DEFINE from(n) == GoTo(p, b, [at[p][b] EXCEPT !.pc = "ask", !.next = n])
<1>2. /\ UNCHANGED <<blob, data>> /\ (Fault \/ Smooth) /\ at[p][b].pc = "size"
      /\ part' = part \/ part' = [part EXCEPT ![b] = None]
      /\ Moves(p, b, "verify") \/ from(0) \/ from(IF part[b] = None THEN 0 ELSE Has(b, part[b]))
  BY Zenon DEF Measure
<1>3. (IF part[b] = None THEN 0 ELSE Has(b, part[b])) \in Nat
  BY <1>1 DEF FilesOK, Has
<1>4. ASSUME NEW n \in Nat, from(n)
      PROVE  ThreadsOK' /\ RestOK'
  <2> DEFINE t == [at[p][b] EXCEPT !.pc = "ask", !.next = n]
  <2>1. at[p][b] \in Thread /\ at[p][b].fd = None
    BY <1>1, <1>2 DEF ThreadsOK
  <2>2. t \in Thread /\ t.fd = None /\ t.pc = "ask"
    BY <2>1 DEF Thread
  <2>3. GoTo(p, b, t)
    BY <1>4
  <2> HIDE DEF t
  <2> QED
    BY <1>1, <1>2, <2>2, <2>3, GoToType
<1>5. ThreadsOK' /\ RestOK'
  <2>1. CASE Moves(p, b, "verify")
    <3>1. "verify" \in Ended
      BY DEF Ended
    <3> QED
      BY <1>1, <1>2, <2>1, <3>1, MovesKeeps
  <2> QED
    BY <1>2, <1>3, <1>4, <2>1
<1>6. FilesOK'
  BY <1>1, <1>2 DEF FilesOK
<1> QED
  BY <1>5, <1>6, ThreeParts, PTL

LEMMA AskType ==
  ASSUME TypeOK, NEW p \in Pulls, NEW b \in Blobs, Ask(p, b)
  PROVE  TypeOK'
<1>1. ThreadsOK /\ FilesOK /\ RestOK
  BY ThreeParts
<1>2. PICK rest \in BOOLEAN, i \in Inodes :
        /\ i # blob[b]
        /\ part' = [part EXCEPT ![b] = i]
        /\ data' = data \/ data' = [data EXCEPT ![b] = [data[b] EXCEPT ![i] = <<>>]]
        /\ GoTo(p, b, [at[p][b] EXCEPT !.pc = "read", !.fd = i, !.append = rest,
                                       !.next = IF rest THEN at[p][b].next ELSE 0])
        /\ UNCHANGED blob /\ Smooth
  <2>1. PICK rest \in {at[p][b].next > 0, FALSE} :
          \E i \in IF part[b] = None THEN Free(b) ELSE {part[b]} :
            /\ part' = [part EXCEPT ![b] = i]
            /\ data' = IF rest /\ part[b] # None THEN data
                       ELSE [data EXCEPT ![b][i] = <<>>]
            /\ GoTo(p, b, [at[p][b] EXCEPT !.pc = "read", !.fd = i, !.append = rest,
                                           !.next = IF rest THEN at[p][b].next ELSE 0])
    BY Zenon DEF Ask
  <2>2. rest \in BOOLEAN
    <3>1. (at[p][b].next > 0) \in BOOLEAN /\ FALSE \in BOOLEAN
      OBVIOUS
    <3> QED
      BY <2>1, <3>1, Zenon
  <2>3. PICK i \in IF part[b] = None THEN Free(b) ELSE {part[b]} :
            /\ part' = [part EXCEPT ![b] = i]
            /\ data' = IF rest /\ part[b] # None THEN data
                       ELSE [data EXCEPT ![b][i] = <<>>]
            /\ GoTo(p, b, [at[p][b] EXCEPT !.pc = "read", !.fd = i, !.append = rest,
                                           !.next = IF rest THEN at[p][b].next ELSE 0])
    BY <2>1
  <2>4. i \in Inodes /\ i # blob[b]
    BY <1>1, <2>3 DEF FilesOK, Free
  <2>5. data' = data \/ data' = [data EXCEPT ![b] = [data[b] EXCEPT ![i] = <<>>]]
    BY <2>3
  <2>6. UNCHANGED blob /\ Smooth
    BY DEF Ask
  <2> QED
    BY <2>2, <2>3, <2>4, <2>5, <2>6, Zenon
<1> DEFINE t == [at[p][b] EXCEPT !.pc = "read", !.fd = i, !.append = rest,
                                 !.next = IF rest THEN at[p][b].next ELSE 0]
<1>3. t \in Thread /\ t.fd = i /\ t.pc = "read"
  <2>1. (IF rest THEN at[p][b].next ELSE 0) \in Nat /\ at[p][b] \in Thread
    BY <1>1 DEF ThreadsOK, Thread
  <2>2. \A n \in Nat : LET u == [at[p][b] EXCEPT !.pc = "read", !.fd = i, !.append = rest, !.next = n]
                       IN u \in Thread /\ u.fd = i /\ u.pc = "read"
    BY <2>1 DEF Thread
  <2> QED
    BY <2>1, <2>2
<1>4. GoTo(p, b, t) /\ i # None
  BY <1>2
<1> HIDE DEF t
<1>5. ThreadsOK' /\ RestOK'
  BY <1>1, <1>2, <1>3, <1>4, GoToType
<1>6. FilesOK'
  <2>1. data' \in [Blobs -> [Inodes -> Seq(BOOLEAN)]]
    <3>1. <<>> \in Seq(BOOLEAN) /\ data[b] \in [Inodes -> Seq(BOOLEAN)]
      BY <1>1 DEF FilesOK
    <3>2. [data[b] EXCEPT ![i] = <<>>] \in [Inodes -> Seq(BOOLEAN)]
      BY <3>1
    <3> QED
      BY <1>1, <1>2, <3>2 DEF FilesOK
  <2> QED
    BY <1>1, <1>2, <2>1 DEF FilesOK
<1> QED
  BY <1>5, <1>6, ThreeParts, PTL

LEMMA ArrivesType ==
  ASSUME TypeOK, NEW p \in Pulls, NEW b \in Blobs, Read(p, b) \/ ReadsWrong(p, b)
  PROVE  TypeOK'
<1>1. ThreadsOK /\ FilesOK /\ RestOK
  BY ThreeParts
<1>2. PICK right \in BOOLEAN : Arrives(p, b, right) /\ (Fault \/ Smooth)
  <2>1. TRUE \in BOOLEAN /\ FALSE \in BOOLEAN
    OBVIOUS
  <2> QED
    BY <2>1, Zenon DEF Read, ReadsWrong
<1> DEFINE t == at[p][b]
           u == [t EXCEPT !.next = t.next + 1]
           d == Written(data[b][t.fd], t, right)
<1>3. /\ t.pc = "read" /\ GoTo(p, b, u) /\ UNCHANGED <<blob, part>>
      /\ data' = [data EXCEPT ![b] = [data[b] EXCEPT ![t.fd] = d]]
  BY <1>2 DEF Arrives
<1>4. t \in Thread /\ t.fd \in Inodes
  BY <1>1, <1>3 DEF ThreadsOK, Thread
<1>5. d \in Seq(BOOLEAN)
  <2>1. data[b][t.fd] \in Seq(BOOLEAN)
    BY <1>1, <1>4 DEF FilesOK
  <2> QED
    BY <1>4, <2>1, WrittenType
<1>6. u \in Thread /\ u.pc = "read" /\ u.fd # None
  BY <1>3, <1>4 DEF Thread
<1> HIDE DEF d, u
<1>7. ThreadsOK' /\ RestOK'
  BY <1>1, <1>2, <1>3, <1>6, GoToType
<1>8. FilesOK'
  <2>1. data' \in [Blobs -> [Inodes -> Seq(BOOLEAN)]]
    BY <1>1, <1>3, <1>5 DEF FilesOK
  <2> QED
    BY <1>1, <1>3, <2>1 DEF FilesOK
<1> QED
  BY <1>7, <1>8, ThreeParts, PTL

LEMMA NamesType ==
  ASSUME TypeOK, NEW p \in Pulls, NEW b \in Blobs,
         Verify(p, b) \/ Place(p, b) \/ CheckGit(p, b)
  PROVE  TypeOK'
<1>1. ThreadsOK /\ FilesOK /\ RestOK
  BY ThreeParts
<1>2. /\ \E pc \in Ended : Moves(p, b, pc)
      /\ Smooth /\ UNCHANGED data
  BY DEF Verify, Place, CheckGit, Ended
<1>3. ThreadsOK' /\ RestOK'
  BY <1>1, <1>2, MovesKeeps
<1>4. FilesOK'
  BY <1>1, <1>2 DEF FilesOK, Verify, Place, CheckGit
<1> QED
  BY <1>3, <1>4, ThreeParts, PTL

LEMMA PullsType ==
  ASSUME TypeOK, NEW p \in Pulls, Start(p) \/ Finishes(p) \/ Killed(p)
  PROVE  TypeOK'
<1>1. ThreadsOK /\ FilesOK /\ RestOK
  BY ThreeParts
<1>2. CASE LinkFile(p)
  <2>1. want[p] \in Commits /\ Files[want[p]] \subseteq Blobs
    BY <1>1, <1>2 DEF RestOK, LinkFile, Fetched, Stands
  <2>2. /\ UNCHANGED <<head, blob, part, data, ref, want, at, faults>>
        /\ \E b \in Blobs : links' = [links EXCEPT ![want[p]] = links[want[p]] \cup {b}]
    BY <1>2, <2>1 DEF LinkFile, Smooth, names
  <2>3. links' \in [Commits -> SUBSET Blobs]
    BY <1>1, <2>1, <2>2 DEF RestOK
  <2> QED
    BY <2>2, <2>3 DEF TypeOK
<1>3. CASE Start(p) \/ Errors(p) \/ WriteRef(p) \/ Killed(p)
  <2>1. PICK commit \in Commits \cup {None}, threads \in {NoThreads, Threads(head)} :
          PullGoes(p, commit, threads)
    BY <1>1, <1>3, Zenon DEF Start, Errors, WriteRef, Killed, RestOK
  <2>2. /\ threads \in [Blobs -> Thread]
        /\ \A b \in Blobs : threads[b].fd = None /\ threads[b].pc # "read"
    <3>1. \A b \in Blobs : threads[b] \in {Idle, Ready}
      BY <2>1 DEF Threads, NoThreads
    <3>2. threads \in [Blobs -> {Idle, Ready}]
      BY <2>1 DEF Threads, NoThreads
    <3>3. \A x \in {Idle, Ready} : x \in Thread /\ x.fd = None /\ x.pc # "read"
      BY ThreadType
    <3> QED
      BY <3>1, <3>2, <3>3
  <2>3. ThreadsOK'
    BY <1>1, <2>1, <2>2 DEF ThreadsOK, PullGoes
  <2>4. FilesOK'
    BY <1>1, <2>1 DEF FilesOK, PullGoes, names
  <2>5. links' = links /\ ref' \in Commits \cup {None} /\ (Fault \/ Smooth)
    BY <1>1, <1>3 DEF Start, Errors, WriteRef, Killed, RestOK, tree, Linked, Fetched, Stands
  <2>6. RestOK'
    BY <1>1, <2>1, <2>5 DEF RestOK, PullGoes, Fault, Smooth
  <2> QED
    BY <2>3, <2>4, <2>6, ThreeParts, PTL
<1> QED
  BY <1>2, <1>3 DEF Finishes

LEMMA InitTyped == Init => TypeOK
<1> SUFFICES ASSUME Init PROVE TypeOK
  OBVIOUS
<1>1. ThreadsOK
  BY ThreadType DEF Init, ThreadsOK, NoThreads
<1>2. FilesOK
  BY DEF Init, FilesOK
<1>3. RestOK
  BY DEF Init, RestOK
<1> QED
  BY <1>1, <1>2, <1>3, ThreeParts

LEMMA NextTyped == TypeOK /\ [Next]_vars => TypeOK'
<1> SUFFICES ASSUME TypeOK, [Next]_vars PROVE TypeOK'
  OBVIOUS
<1>1. ASSUME NEW p \in Pulls, NEW b \in Blobs,
             Works(p, b) \/ AskFails(p, b) \/ ReadsWrong(p, b) \/ Breaks(p, b)
      PROVE  TypeOK'
  BY <1>1, QuietType, MeasureType, AskType, ArrivesType, NamesType DEF Works
<1>2. CASE HubMoves
  BY <1>2 DEF TypeOK, HubMoves, Fault, names, tree
<1>3. CASE UNCHANGED vars
  BY <1>3 DEF TypeOK, vars, names, tree
<1> QED
  BY <1>1, <1>2, <1>3, PullsType DEF Next

\* The types, and the .part open exactly while a thread reads, for any number of
\* rack pulls at once.
THEOREM FetchTypeCorrect == Spec => []TypeOK
  BY InitTyped, NextTyped, PTL DEF Spec

-----------------------------------------------------------------------------
(***************************************************************************)
(* One rack pull at a time.                                                 *)
(***************************************************************************)
OnePull == \A p, q \in Pulls : p = q

\* What the place of a thread says of its blob.
Steady(p, b) ==
  LET t == at[p][b]
  IN /\ t.fd # None => t.fd = part[b]
     /\ t.pc \in {"size", "ask", "read", "verify", "place"} => blob[b] = None
     /\ t.pc = "place" /\ b \in Lfs => part[b] # None /\ Whole(b, part[b])
     /\ t.pc = "check" => b \notin Lfs /\ \A c \in Commits : b \notin links[c]
     /\ t.pc = "done" => blob[b] # None
     /\ t.pc # "idle" <=> want[p] # None /\ b \in Files[want[p]]

\* A file that is linked is there; a branch names what is linked.
LinkedThere == \A c \in Commits : \A b \in links[c] : blob[b] # None
RefLinked   == ref # None => Files[ref] \subseteq links[ref]

FInv ==
  /\ OnePull /\ TypeOK
  /\ \A p \in Pulls, b \in Blobs : Steady(p, b)
  /\ WholeAtDest /\ LinkedThere /\ RefLinked

LEMMA FInvImplies ==
  ASSUME FInv
  PROVE  RefComplete
<1> SUFFICES ASSUME ref # None, NEW b \in Files[ref]
             PROVE  b \in links[ref] /\ blob[b] # None /\ (b \in Lfs => Whole(b, blob[b]))
  BY DEF RefComplete
<1>1. ref \in Commits /\ b \in links[ref]
  BY DEF FInv, TypeOK, RefLinked
<1> QED
  BY <1>1 DEF FInv, LinkedThere, WholeAtDest

\* A thread works on its own blob: nothing else is to be looked at.
LEMMA OneThread ==
  ASSUME FInv, TypeOK', NEW p \in Pulls, NEW b \in Blobs, NEW t, GoTo(p, b, t),
         \A c \in Blobs \ {b} :
           blob'[c] = blob[c] /\ part'[c] = part[c] /\ data'[c] = data[c],
         Steady(p, b)',
         b \in Lfs /\ blob'[b] # None => Whole(b, blob[b])',
         blob'[b] # None \/ blob[b] = None \/ \A c \in Commits : b \notin links[c]
  PROVE  FInv'
<1>1. /\ at' = [at EXCEPT ![p] = [at[p] EXCEPT ![b] = t]]
      /\ links' = links /\ ref' = ref /\ want' = want
  BY DEF GoTo, tree
<1>2. ASSUME NEW q \in Pulls, NEW c \in Blobs
      PROVE  Steady(q, c)'
  <2>1. q = p
    BY DEF FInv, OnePull
  <2>2. CASE c # b
    <3>1. at'[q][c] = at[q][c]
      BY <1>1, <2>1, <2>2 DEF FInv, TypeOK
    <3>2. Steady(q, c)
      BY DEF FInv
    <3> QED
      BY <1>1, <2>2, <3>1, <3>2 DEF Steady, Whole
  <2> QED
    BY <2>1, <2>2
<1>3. WholeAtDest'
  BY DEF FInv, WholeAtDest, Whole
<1>4. LinkedThere'
  BY <1>1 DEF FInv, LinkedThere, TypeOK
<1>5. RefLinked'
  BY <1>1 DEF FInv, RefLinked
<1> QED
  BY <1>2, <1>3, <1>4, <1>5 DEF FInv, OnePull

\* The thread goes on at one of pcs, its .part closed.
Lands(p, b, pcs) ==
  \E t \in Thread : GoTo(p, b, t) /\ t.fd = None /\ t.pc \in pcs

LEMMA ItLands ==
  ASSUME TypeOK, NEW p \in Pulls, NEW b \in Blobs
  PROVE  /\ \A pc \in Ended : Moves(p, b, pc) => Lands(p, b, {pc})
         /\ AsksAgain(p, b) => Lands(p, b, {"size"})
         /\ Retry(p, b) => Lands(p, b, {"size", "failed"})
<1>1. at[p][b] \in Thread /\ at[p][b].tries + 1 \in Nat
  BY DEF TypeOK, Thread
<1>2. ASSUME NEW pc \in Ended, Moves(p, b, pc)
      PROVE  Lands(p, b, {pc})
  BY <1>1, <1>2, MovesType, Zenon DEF Moves, Lands
<1>3. ASSUME AsksAgain(p, b)
      PROVE  Lands(p, b, {"size"})
  BY <1>1, <1>3, AgainType, Zenon DEF AsksAgain, Lands
<1>4. "failed" \in Ended
  BY DEF Ended
<1>5. ASSUME Retry(p, b)
      PROVE  Lands(p, b, {"size", "failed"})
  BY <1>2, <1>3, <1>4, <1>5 DEF Retry, Lands
<1> QED
  BY <1>2, <1>3, <1>5

\* Whatever a thread does between two chunks, by where it lands and what it
\* leaves.
LEMMA LandsKeeps ==
  ASSUME FInv, TypeOK', NEW p \in Pulls, NEW b \in Blobs, at[p][b].pc # "idle",
         NEW pcs \in SUBSET Ended, Lands(p, b, pcs), UNCHANGED data,
         \A c \in Blobs \ {b} : blob'[c] = blob[c] /\ part'[c] = part[c],
         pcs \cap {"size", "ask", "verify", "place"} # {} => blob'[b] = None,
         "place" \in pcs /\ b \in Lfs => part'[b] # None /\ Whole(b, part'[b]),
         "check" \in pcs => b \notin Lfs /\ \A c \in Commits : b \notin links[c],
         "done" \in pcs => blob'[b] # None,
         b \in Lfs /\ blob'[b] # None => Whole(b, blob'[b]),
         blob'[b] # None \/ blob[b] = None \/ \A c \in Commits : b \notin links[c]
  PROVE  FInv'
<1>1. PICK t \in Thread : GoTo(p, b, t) /\ t.fd = None /\ t.pc \in pcs
  BY DEF Lands
<1>2. at'[p][b] = t /\ links' = links /\ want' = want
  BY <1>1 DEF FInv, TypeOK, GoTo, tree
<1>3. Steady(p, b)
  BY DEF FInv
<1>4. Steady(p, b)'
  BY <1>1, <1>2, <1>3 DEF Steady, Whole, Ended
<1>5. b \in Lfs /\ blob'[b] # None => Whole(b, blob[b])'
  BY DEF Whole
<1> QED
  BY <1>1, <1>4, <1>5, OneThread

LEMMA QuietKeeps ==
  ASSUME FInv, TypeOK', NEW p \in Pulls, NEW b \in Blobs,
         Begin(p, b) \/ AskFails(p, b) \/ Closes(p, b) \/ Breaks(p, b)
  PROVE  FInv'
<1>1. Steady(p, b) /\ TypeOK /\ UNCHANGED names /\ at[p][b].pc # "idle"
  BY DEF FInv, Begin, AskFails, Closes, Breaks
<1>2. b \in Lfs /\ blob[b] # None => Whole(b, blob[b])
  BY DEF FInv, WholeAtDest
<1>3. CASE blob[b] # None
  <2>1. Lands(p, b, {"done"})
    BY <1>1, <1>3, ItLands DEF Begin, AskFails, Closes, Breaks, Steady, Ended
  <2> QED
    BY <1>1, <1>2, <1>3, <2>1, LandsKeeps DEF names, Ended
<1>4. CASE blob[b] = None
  <2>1. Lands(p, b, {"size", "verify", "failed"})
    BY <1>1, <1>4, ItLands DEF Begin, AskFails, Closes, Breaks, Steady, Ended, Lands
  <2> QED
    BY <1>1, <1>2, <1>4, <2>1, LandsKeeps DEF names, Ended
<1> QED
  BY <1>3, <1>4

LEMMA MeasureKeeps ==
  ASSUME FInv, TypeOK', NEW p \in Pulls, NEW b \in Blobs, Measure(p, b)
  PROVE  FInv'
<1> DEFINE have == IF part[b] = None THEN 0 ELSE Has(b, part[b])
           from(n) == GoTo(p, b, [at[p][b] EXCEPT !.pc = "ask", !.next = n])
<1>1. /\ Steady(p, b) /\ TypeOK /\ blob[b] = None
      /\ at[p][b] \in Thread /\ at[p][b].fd = None
      /\ UNCHANGED <<blob, data>> /\ at[p][b].pc = "size"
  BY DEF FInv, TypeOK, Measure, Steady
<1>2. /\ \A c \in Blobs \ {b} : part'[c] = part[c]
      /\ Moves(p, b, "verify") \/ from(0) \/ from(have)
  BY <1>1 DEF Measure, TypeOK
<1>3. have \in Nat
  BY <1>1 DEF TypeOK, Has
<1>4. ASSUME NEW n \in Nat, from(n)
      PROVE  Lands(p, b, {"ask"})
  <2> DEFINE t == [at[p][b] EXCEPT !.pc = "ask", !.next = n]
  <2>1. t \in Thread /\ t.fd = None /\ t.pc = "ask"
    BY <1>1 DEF Thread
  <2>2. GoTo(p, b, t)
    BY <1>4
  <2> HIDE DEF t
  <2> QED
    BY <2>1, <2>2 DEF Lands
<1>5. Lands(p, b, {"ask", "verify"})
  <2>1. Moves(p, b, "verify") => Lands(p, b, {"verify"})
    BY <1>1, ItLands DEF Ended
  <2>2. Lands(p, b, {"ask"}) \/ Lands(p, b, {"verify"})
    BY <1>2, <1>3, <1>4, <2>1
  <2> QED
    BY <2>2 DEF Lands
<1> QED
  BY <1>1, <1>2, <1>5, LandsKeeps DEF Ended

\* The .part that is opened is not the blob: there is none.
LEMMA AskKeeps ==
  ASSUME FInv, TypeOK', NEW p \in Pulls, NEW b \in Blobs, Ask(p, b)
  PROVE  FInv'
<1>1. /\ Steady(p, b) /\ TypeOK /\ blob[b] = None
      /\ at[p][b] \in Thread /\ at[p][b].pc = "ask" /\ UNCHANGED blob
  BY DEF FInv, TypeOK, Ask, Steady
<1>2. PICK t, i :
        /\ GoTo(p, b, t) /\ part' = [part EXCEPT ![b] = i]
        /\ \A c \in Blobs \ {b} : data'[c] = data[c]
        /\ t.pc = "read" /\ t.fd = i
  <2>1. PICK rest \in {at[p][b].next > 0, FALSE} :
          \E i \in IF part[b] = None THEN Free(b) ELSE {part[b]} :
            /\ part' = [part EXCEPT ![b] = i]
            /\ data' = IF rest /\ part[b] # None THEN data
                       ELSE [data EXCEPT ![b][i] = <<>>]
            /\ GoTo(p, b, [at[p][b] EXCEPT !.pc = "read", !.fd = i, !.append = rest,
                                           !.next = IF rest THEN at[p][b].next ELSE 0])
    BY Zenon DEF Ask
  <2>2. PICK i \in IF part[b] = None THEN Free(b) ELSE {part[b]} :
            /\ part' = [part EXCEPT ![b] = i]
            /\ data' = IF rest /\ part[b] # None THEN data
                       ELSE [data EXCEPT ![b][i] = <<>>]
            /\ GoTo(p, b, [at[p][b] EXCEPT !.pc = "read", !.fd = i, !.append = rest,
                                           !.next = IF rest THEN at[p][b].next ELSE 0])
    BY <2>1
  <2> DEFINE n == IF rest THEN at[p][b].next ELSE 0
             t == [at[p][b] EXCEPT !.pc = "read", !.fd = i, !.append = rest, !.next = n]
  <2>3. t.pc = "read" /\ t.fd = i
    BY <1>1 DEF Thread
  <2>4. \A c \in Blobs \ {b} : data'[c] = data[c]
    BY <1>1, <2>2 DEF TypeOK
  <2>5. GoTo(p, b, t)
    BY <2>2
  <2> HIDE DEF t
  <2> QED
    BY <2>2, <2>3, <2>4, <2>5
<1>3. /\ \A c \in Blobs \ {b} : part'[c] = part[c]
      /\ part'[b] = i /\ at'[p][b] = t /\ links' = links /\ want' = want
  BY <1>1, <1>2 DEF TypeOK, GoTo, tree
<1>4. Steady(p, b)'
  BY <1>1, <1>2, <1>3 DEF Steady
<1> QED
  BY <1>1, <1>2, <1>3, <1>4, OneThread

\* A chunk is written to the .part, which is not the blob.
LEMMA ArrivesKeeps ==
  ASSUME FInv, TypeOK', NEW p \in Pulls, NEW b \in Blobs,
         Read(p, b) \/ ReadsWrong(p, b)
  PROVE  FInv'
<1>1. PICK right \in BOOLEAN : Arrives(p, b, right)
  <2>1. TRUE \in BOOLEAN /\ FALSE \in BOOLEAN
    OBVIOUS
  <2> QED
    BY <2>1, Zenon DEF Read, ReadsWrong
<1> DEFINE t == [at[p][b] EXCEPT !.next = at[p][b].next + 1]
<1>2. /\ at[p][b].pc = "read" /\ GoTo(p, b, t) /\ UNCHANGED <<blob, part>>
      /\ data' = [data EXCEPT ![b] = [data[b] EXCEPT ![at[p][b].fd] =
                                        Written(data[b][at[p][b].fd], at[p][b], right)]]
  BY <1>1 DEF Arrives
<1>3. Steady(p, b) /\ TypeOK /\ at[p][b] \in Thread
  BY DEF FInv, TypeOK
<1>4. \A c \in Blobs \ {b} : data'[c] = data[c]
  BY <1>2, <1>3 DEF TypeOK
<1>5. t.pc = "read" /\ t.fd = at[p][b].fd
  BY <1>2, <1>3 DEF Thread
<1> HIDE DEF t
<1>6. at'[p][b] = t /\ links' = links /\ want' = want
  BY <1>2, <1>3 DEF TypeOK, GoTo, tree
<1>7. Steady(p, b)' /\ blob'[b] = None
  BY <1>2, <1>3, <1>5, <1>6 DEF Steady
<1>8. blob[b] = None
  BY <1>2, <1>3 DEF Steady
<1> QED
  BY <1>2, <1>4, <1>7, <1>8, OneThread

LEMMA VerifyKept ==
  ASSUME FInv, TypeOK', NEW p \in Pulls, NEW b \in Blobs, Verify(p, b)
  PROVE  FInv'
<1>1. /\ Steady(p, b) /\ TypeOK /\ blob[b] = None /\ at[p][b].pc = "verify"
      /\ UNCHANGED <<blob, data>>
  BY DEF FInv, Verify, Steady
<1>2. \A c \in Blobs \ {b} : part'[c] = part[c]
  BY <1>1 DEF Verify, TypeOK
<1>3. CASE Moves(p, b, "failed")
  <2>1. Lands(p, b, {"failed"})
    BY <1>1, <1>3, ItLands DEF Ended
  <2> QED
    BY <1>1, <1>2, <2>1, LandsKeeps DEF Ended
<1>4. CASE /\ Moves(p, b, "place") /\ UNCHANGED part
           /\ part[b] # None /\ (b \in Lfs => Whole(b, part[b]))
  <2>1. Lands(p, b, {"place"})
    BY <1>1, <1>4, ItLands DEF Ended
  <2> QED
    BY <1>1, <1>2, <1>4, <2>1, LandsKeeps DEF Ended
<1> QED
  BY <1>3, <1>4 DEF Verify

LEMMA PlaceKeeps ==
  ASSUME FInv, TypeOK', NEW p \in Pulls, NEW b \in Blobs, Place(p, b)
  PROVE  FInv'
<1>1. /\ Steady(p, b) /\ TypeOK /\ blob[b] = None /\ at[p][b].pc = "place"
      /\ UNCHANGED data
  BY DEF FInv, Place, Steady
<1>2. \A c \in Blobs \ {b} : blob'[c] = blob[c] /\ part'[c] = part[c]
  BY <1>1 DEF Place, TypeOK
<1>3. \A c \in Commits : b \notin links[c]
  BY <1>1 DEF FInv, LinkedThere
<1>4. CASE part[b] = None
  <2>1. Lands(p, b, {"failed"}) /\ blob'[b] = None
    BY <1>1, <1>4, ItLands DEF Ended, Place
  <2> QED
    BY <1>1, <1>2, <2>1, LandsKeeps DEF Ended
<1>5. CASE part[b] # None
  <2>1. blob'[b] = part[b]
    BY <1>1, <1>5 DEF Place, TypeOK
  <2>2. CASE b \in Lfs
    <3>1. Lands(p, b, {"done"}) /\ Whole(b, blob'[b])
      BY <1>1, <1>5, <2>1, <2>2, ItLands DEF Ended, Place, Steady
    <3> QED
      BY <1>1, <1>2, <1>5, <2>1, <3>1, LandsKeeps DEF Ended
  <2>3. CASE b \notin Lfs
    <3>1. Lands(p, b, {"check"})
      BY <1>1, <1>5, <2>3, ItLands DEF Ended, Place
    <3> QED
      BY <1>1, <1>2, <1>3, <1>5, <2>1, <2>3, <3>1, LandsKeeps DEF Ended
  <2> QED
    BY <2>2, <2>3
<1> QED
  BY <1>4, <1>5

LEMMA CheckGitKeeps ==
  ASSUME FInv, TypeOK', NEW p \in Pulls, NEW b \in Blobs, CheckGit(p, b)
  PROVE  FInv'
<1>1. /\ Steady(p, b) /\ TypeOK /\ at[p][b].pc = "check" /\ UNCHANGED <<part, data>>
      /\ b \notin Lfs /\ \A c \in Commits : b \notin links[c]
  BY DEF FInv, CheckGit, Steady
<1>2. \A c \in Blobs \ {b} : blob'[c] = blob[c]
  BY <1>1 DEF CheckGit, TypeOK
<1>3. Lands(p, b, {"failed"}) \/ (Lands(p, b, {"done"}) /\ blob'[b] # None)
  BY <1>1, ItLands DEF Ended, CheckGit
<1>4. CASE Lands(p, b, {"failed"})
  BY <1>1, <1>2, <1>4, LandsKeeps DEF Ended
<1>5. CASE Lands(p, b, {"done"}) /\ blob'[b] # None
  BY <1>1, <1>2, <1>5, LandsKeeps DEF Ended
<1> QED
  BY <1>3, <1>4, <1>5

\* What is linked has been fetched, so no thread that may still remove its blob
\* is about it.
LEMMA LinkKeeps ==
  ASSUME FInv, TypeOK', NEW p \in Pulls, LinkFile(p)
  PROVE  FInv'
<1>1. want[p] \in Commits /\ Files[want[p]] \subseteq Blobs /\ TypeOK
  BY DEF FInv, TypeOK, LinkFile, Fetched, Stands
<1>2. PICK b \in Files[want[p]] :
        links' = [links EXCEPT ![want[p]] = links[want[p]] \cup {b}]
  BY DEF LinkFile
<1>3. UNCHANGED <<blob, part, data, ref, want, at>> /\ at[p][b].pc = "done"
  BY <1>2 DEF LinkFile, Fetched, Stands, names
<1>4. \A c \in Commits : links[c] \subseteq links'[c] /\ links'[c] \subseteq links[c] \cup {b}
  BY <1>1, <1>2 DEF TypeOK
<1>5. ASSUME NEW q \in Pulls, NEW a \in Blobs
      PROVE  Steady(q, a)'
  <2>1. q = p /\ Steady(q, a)
    BY DEF FInv, OnePull
  <2>2. at[q][a].pc = "check" => a # b
    BY <1>3, <2>1
  <2> QED
    BY <1>3, <1>4, <2>1, <2>2 DEF Steady, Whole
<1>6. WholeAtDest'
  BY <1>3 DEF FInv, WholeAtDest, Whole
<1>7. LinkedThere'
  <2>1. blob[b] # None
    BY <1>1, <1>3 DEF FInv, Steady
  <2> QED
    BY <1>3, <1>4, <2>1 DEF FInv, LinkedThere
<1>8. RefLinked'
  BY <1>1, <1>3, <1>4 DEF FInv, RefLinked, TypeOK
<1> QED
  BY <1>5, <1>6, <1>7, <1>8 DEF FInv, OnePull

LEMMA PullKeeps ==
  ASSUME FInv, TypeOK', NEW p \in Pulls,
         Start(p) \/ Errors(p) \/ WriteRef(p) \/ Killed(p)
  PROVE  FInv'
<1>1. /\ UNCHANGED <<blob, part, data, links>> /\ TypeOK
      /\ \/ PullGoes(p, head, Threads(head))
         \/ PullGoes(p, None, NoThreads)
  BY DEF FInv, Start, Errors, WriteRef, Killed, PullGoes, tree, names
<1>2. ASSUME NEW q \in Pulls, NEW b \in Blobs
      PROVE  Steady(q, b)'
  <2>1. q = p
    BY DEF FInv, OnePull
  <2>2. CASE PullGoes(p, head, Threads(head))
    <3>1. want'[p] = head /\ head # None /\ head \in Commits
      BY <1>1, <2>2 DEF PullGoes, TypeOK
    <3>2. at'[p][b] = IF b \in Files[head] THEN Ready ELSE Idle
      BY <1>1, <2>2 DEF PullGoes, TypeOK, Threads
    <3> QED
      BY <2>1, <3>1, <3>2, ThreadType DEF Steady
  <2>3. CASE PullGoes(p, None, NoThreads)
    <3>1. want'[p] = None /\ at'[p][b] = Idle
      BY <1>1, <2>3 DEF PullGoes, TypeOK, NoThreads
    <3> QED
      BY <2>1, <3>1, ThreadType DEF Steady
  <2> QED
    BY <1>1, <2>2, <2>3
<1>3. WholeAtDest' /\ LinkedThere'
  BY <1>1 DEF FInv, WholeAtDest, Whole, LinkedThere
<1>4. RefLinked'
  <2>1. CASE WriteRef(p)
    BY <1>1, <2>1 DEF RefLinked, WriteRef, Linked
  <2>2. CASE ref' = ref \/ ref' = None
    BY <1>1, <2>2 DEF FInv, RefLinked
  <2> QED
    BY <2>1, <2>2 DEF Start, Errors, Killed, tree
<1> QED
  BY <1>2, <1>3, <1>4 DEF FInv, OnePull

LEMMA FetchInvariant == OnePull /\ Spec => []FInv
<1>1. OnePull /\ Init => FInv
  <2> SUFFICES ASSUME OnePull, Init PROVE FInv
    OBVIOUS
  <2>1. ASSUME NEW p \in Pulls, NEW b \in Blobs
        PROVE  Steady(p, b)
    BY ThreadType DEF Init, Steady, NoThreads
  <2>2. WholeAtDest /\ LinkedThere /\ RefLinked
    BY DEF Init, WholeAtDest, LinkedThere, RefLinked
  <2> QED
    BY <2>1, <2>2, InitTyped DEF FInv
<1>2. FInv /\ [Next]_vars => FInv'
  <2> SUFFICES ASSUME FInv, [Next]_vars PROVE FInv'
    OBVIOUS
  <2>1. TypeOK'
    BY NextTyped DEF FInv
  <2>2. ASSUME NEW p \in Pulls, NEW b \in Blobs,
               Works(p, b) \/ AskFails(p, b) \/ ReadsWrong(p, b) \/ Breaks(p, b)
        PROVE  FInv'
    BY <2>1, <2>2, QuietKeeps, MeasureKeeps, AskKeeps, ArrivesKeeps,
       VerifyKept, PlaceKeeps, CheckGitKeeps DEF Works
  <2>3. ASSUME NEW p \in Pulls, Start(p) \/ Finishes(p) \/ Killed(p)
        PROVE  FInv'
    BY <2>1, <2>3, LinkKeeps, PullKeeps DEF Finishes
  <2>4. CASE HubMoves \/ UNCHANGED vars
    <3>1. UNCHANGED <<blob, part, data, links, ref, want, at>>
      BY <2>4 DEF HubMoves, vars, names, tree
    <3> QED
      BY <2>1, <3>1
         DEF FInv, OnePull, Steady, WholeAtDest, Whole, LinkedThere, RefLinked
  <2> QED
    BY <2>2, <2>3, <2>4 DEF Next
<1> QED
  BY <1>1, <1>2, PTL DEF Spec

\* One rack pull at a time: whatever is cut, corrupted, killed and resumed, a
\* file whose sha256 is listed is at its place only whole (download).
THEOREM FetchWhole == OnePull /\ Spec => []WholeAtDest
<1>1. FInv => WholeAtDest
  BY DEF FInv
<1> QED
  BY <1>1, FetchInvariant, PTL

\* And a branch names a commit only when each of its chosen files is linked and
\* there, and whole if it is an LFS file, though threads fail one by one and
\* kills fall between any two (pull).
THEOREM FetchComplete == OnePull /\ Spec => []RefComplete
<1>1. FInv => RefComplete
  BY FInvImplies
<1> QED
  BY <1>1, FetchInvariant, PTL
=============================================================================
