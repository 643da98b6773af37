-------------------------------- MODULE Fetch --------------------------------
(***************************************************************************)
(* rack pull (py/hfget.py over py/fetch.py): the files of a model's commit *)
(* are downloaded into the hub cache, one thread per blob, and linked when *)
(* all of them are there.  A download is kept as blob.part, resumed,       *)
(* verified and renamed into place; it fails, is cut short or is killed    *)
(* anywhere, and another rack pull may run beside it.                      *)
(*                                                                         *)
(* A file's content is what tells right from wrong: for each of its chunks *)
(* whether it is the right one at its place.  A name (the blob, its .part) *)
(* refers to an inode, since a thread goes on writing to the file it has   *)
(* opened whatever becomes of the name.                                    *)
(*                                                                         *)
(* Left out: a filesystem without symlinks, where a file is copied into    *)
(* the snapshot, each time anew.                                           *)
(***************************************************************************)
EXTENDS Integers, Sequences, FiniteSets

CONSTANTS
  Pulls,      \* the rack pulls that may run at once
  Blobs,
  Lfs,        \* the blobs whose sha256 the hub lists; git's id for the others
  Size,       \* of a blob, in chunks
  Commits,
  Files,      \* the blobs of a commit that rack pull chooses
  Inodes,     \* the files a blob's names may refer to
  Retries,
  MaxFaults,  \* bound: errors, cuts, corruption, kills, new commits
  None

ASSUME FetchAssumption ==
  /\ Lfs \subseteq Blobs
  /\ Size \in [Blobs -> Nat \ {0}]
  /\ Files \in [Commits -> SUBSET Blobs \ {{}}]
  /\ Retries \in Nat /\ MaxFaults \in Nat
  /\ None \notin Inodes \cup Commits

VARIABLES
  head,    \* the commit the hub's branch names
  blob,    \* blobs/<id>: an inode or None
  part,    \* blobs/<id>.part
  data,    \* what is in each inode
  links,   \* snapshots/<commit>/: the files linked
  ref,     \* refs/<branch>: the commit pulled last, or None
  want,    \* the commit each rack pull fetches, or None
  at,      \* where its thread for each blob is
  faults

names == <<blob, part, data>>
tree  == <<links, ref>>
vars  == <<head, names, tree, want, at, faults>>

\* A thread of the pool: fetch_blob and the download in it.
Thread == [pc : {"idle", "begin", "size", "ask", "read", "verify", "place",
                 "check", "done", "failed"},
           fd     : Inodes \cup {None},  \* the open .part
           next   : Nat,       \* the chunks before the one that arrives next
           append : BOOLEAN,   \* opened "ab", else "wb"
           tries  : Nat]

Idle  == [pc |-> "idle", fd |-> None, next |-> 0, append |-> FALSE, tries |-> 0]
Ready == [Idle EXCEPT !.pc = "begin"]

Has(b, i) == Len(data[b][i])

\* Every chunk is there, and right: the sha256 is as listed (sha256_file), or
\* git's id (git_blob_sha1).
Whole(b, i) == data[b][i] = [k \in 1..Size[b] |-> TRUE]

-----------------------------------------------------------------------------
(***************************************************************************)
(* Where a thread goes.                                                    *)
(***************************************************************************)
GoTo(p, b, t) == at' = [at EXCEPT ![p][b] = t] /\ UNCHANGED <<head, tree, want>>

Moves(p, b, pc) == GoTo(p, b, [at[p][b] EXCEPT !.pc = pc, !.fd = None])

Fault  == faults < MaxFaults /\ faults' = faults + 1
Smooth == UNCHANGED faults

\* A short answer is asked for again, however often.
AsksAgain(p, b) ==
  LET t == at[p][b]
  IN GoTo(p, b, [t EXCEPT !.pc = "size", !.fd = None, !.tries = t.tries + 1])

\* An error is asked for again as long as retries are left.
Retry(p, b) ==
  IF at[p][b].tries >= Retries THEN Moves(p, b, "failed") ELSE AsksAgain(p, b)

-----------------------------------------------------------------------------
(***************************************************************************)
(* fetch_blob and download.                                                *)
(***************************************************************************)
\* A blob that is there is taken for whole.  download looks once more, for a
\* whole LFS file that another pull has placed meanwhile: that is this step,
\* taken later.
Begin(p, b) ==
  /\ at[p][b].pc = "begin"
  /\ Moves(p, b, IF blob[b] # None THEN "done" ELSE "size")
  /\ Smooth /\ UNCHANGED names

\* What is there already is resumed; more than the whole is thrown away.
Measure(p, b) ==
  LET have == IF part[b] = None THEN 0 ELSE Has(b, part[b])
      from(n) == GoTo(p, b, [at[p][b] EXCEPT !.pc = "ask", !.next = n])
  IN /\ at[p][b].pc = "size"
     /\ \/ have > Size[b] /\ part' = [part EXCEPT ![b] = None] /\ from(0)
        \/ have = Size[b] /\ UNCHANGED part /\ Moves(p, b, "verify")
        \/ have < Size[b] /\ UNCHANGED part /\ from(have)
     /\ Smooth /\ UNCHANGED <<blob, data>>

Free(b) ==
  {i \in Inodes : i \notin {blob[b], part[b]} /\ \A p \in Pulls : at[p][b].fd # i}

\* The hub answers with the rest of the file, or with all of it (a server that
\* knows no Range): then what is there is overwritten.
Ask(p, b) ==
  /\ at[p][b].pc = "ask"
  /\ \E rest \in {at[p][b].next > 0, FALSE} :
       \E i \in IF part[b] = None THEN Free(b) ELSE {part[b]} :
         /\ part' = [part EXCEPT ![b] = i]
         /\ data' = IF rest /\ part[b] # None THEN data
                    ELSE [data EXCEPT ![b][i] = <<>>]
         /\ GoTo(p, b, [at[p][b] EXCEPT !.pc = "read", !.fd = i, !.append = rest,
                                        !.next = IF rest THEN at[p][b].next ELSE 0])
  /\ Smooth /\ UNCHANGED blob

\* 401, 403 and 404 are final; any other error is tried again.
AskFails(p, b) ==
  /\ at[p][b].pc = "ask" /\ Fault
  /\ Moves(p, b, "failed") \/ Retry(p, b)
  /\ UNCHANGED names

\* d with a chunk written where thread t writes: at the end, or at its own place.
Written(d, t, right) ==
  IF t.append THEN Append(d, right /\ Len(d) = t.next)
  ELSE [k \in 1..(IF Len(d) > t.next THEN Len(d) ELSE t.next + 1) |->
          IF k = t.next + 1 THEN right ELSE k <= Len(d) /\ d[k]]

Arrives(p, b, right) ==
  LET t == at[p][b]
  IN /\ t.pc = "read" /\ t.next < Size[b]
     /\ data' = [data EXCEPT ![b][t.fd] = Written(@, t, right)]
     /\ GoTo(p, b, [t EXCEPT !.next = t.next + 1])
     /\ UNCHANGED <<blob, part>>

Read(p, b) == Arrives(p, b, TRUE) /\ Smooth
ReadsWrong(p, b) == Arrives(p, b, FALSE) /\ Fault

\* The answer ends; what counts is the size of the .part then.
Closes(p, b) ==
  /\ at[p][b].pc = "read"
  /\ IF at[p][b].next = Size[b] THEN Smooth ELSE Fault
  /\ \/ part[b] = None /\ Retry(p, b)
     \/ part[b] # None /\ Has(b, part[b]) >= Size[b] /\ Moves(p, b, "verify")
     \/ part[b] # None /\ Has(b, part[b]) < Size[b] /\ AsksAgain(p, b)
  /\ UNCHANGED names

\* The connection breaks, or nothing arrives for too long.
Breaks(p, b) == at[p][b].pc = "read" /\ Fault /\ Retry(p, b) /\ UNCHANGED names

\* Mutants of Verify: the size is enough; what is wrong stays.
VerifySize(p, b) ==
  /\ at[p][b].pc = "verify"
  /\ Moves(p, b, IF part[b] # None /\ Has(b, part[b]) = Size[b] THEN "place"
                 ELSE "failed")
  /\ Smooth /\ UNCHANGED names
VerifyKeeps(p, b) ==
  /\ at[p][b].pc = "verify"
  /\ Moves(p, b, IF part[b] # None /\ (b \in Lfs => Whole(b, part[b])) THEN "place"
                 ELSE "failed")
  /\ Smooth /\ UNCHANGED names

Verify(p, b) ==
  LET sized == part[b] # None /\ Has(b, part[b]) = Size[b]
      right == b \in Lfs => Whole(b, part[b])
  IN /\ at[p][b].pc = "verify"
     /\ \/ ~sized /\ Moves(p, b, "failed") /\ UNCHANGED part
        \/ sized /\ right /\ Moves(p, b, "place") /\ UNCHANGED part
        \/ sized /\ ~right /\ Moves(p, b, "failed") /\ part' = [part EXCEPT ![b] = None]
     /\ Smooth /\ UNCHANGED <<blob, data>>

\* Mutant of Place: the .part is copied, and stays.
PlaceCopies(p, b) ==
  /\ at[p][b].pc = "place"
  /\ blob' = [blob EXCEPT ![b] = part[b]]
  /\ Moves(p, b, IF b \in Lfs THEN "done" ELSE "check")
  /\ Smooth /\ UNCHANGED <<part, data>>

\* os.replace; a file git holds is verified afterwards.
Place(p, b) ==
  /\ at[p][b].pc = "place"
  /\ \/ /\ part[b] # None
        /\ blob' = [blob EXCEPT ![b] = part[b]]
        /\ part' = [part EXCEPT ![b] = None]
        /\ Moves(p, b, IF b \in Lfs THEN "done" ELSE "check")
     \/ part[b] = None /\ Moves(p, b, "failed") /\ UNCHANGED <<blob, part>>
  /\ Smooth /\ UNCHANGED data

CheckGit(p, b) ==
  LET right == blob[b] # None /\ Whole(b, blob[b])
  IN /\ at[p][b].pc = "check"
     /\ Moves(p, b, IF right THEN "done" ELSE "failed")
     /\ blob' = IF right THEN blob ELSE [blob EXCEPT ![b] = None]
     /\ Smooth /\ UNCHANGED <<part, data>>

-----------------------------------------------------------------------------
(***************************************************************************)
(* pull.                                                                   *)
(***************************************************************************)
PullGoes(p, commit, threads) ==
  /\ want' = [want EXCEPT ![p] = commit]
  /\ at'   = [at EXCEPT ![p] = threads]
  /\ UNCHANGED <<head, names>>

Threads(commit) == [b \in Blobs |-> IF b \in Files[commit] THEN Ready ELSE Idle]
NoThreads       == [b \in Blobs |-> Idle]

\* The listing names the branch's commit, which the whole pull goes by.
Start(p) ==
  /\ want[p] = None
  /\ PullGoes(p, head, Threads(head))
  /\ Smooth /\ UNCHANGED tree

Stands(p, pcs) == want[p] # None /\ \A b \in Files[want[p]] : at[p][b].pc \in pcs

\* Mutant of Fetched: an error is reported and the rest is linked all the same.
FetchedOrNot(p) == Stands(p, {"done", "failed"})

Fetched(p) == Stands(p, {"done"})

\* Errors are collected until every thread has ended.
Errors(p) ==
  /\ Stands(p, {"done", "failed"}) /\ ~Stands(p, {"done"})
  /\ PullGoes(p, None, NoThreads)
  /\ Smooth /\ UNCHANGED tree

Linked(p) == Fetched(p) /\ Files[want[p]] \subseteq links[want[p]]

\* A link that is there and right is left alone.
LinkFile(p) ==
  /\ Fetched(p)
  /\ \E b \in Files[want[p]] \ links[want[p]] :
       links' = [links EXCEPT ![want[p]] = @ \cup {b}]
  /\ Smooth /\ UNCHANGED <<head, names, ref, want, at>>

WriteRef(p) ==
  /\ Linked(p)
  /\ ref' = want[p]
  /\ PullGoes(p, None, NoThreads)
  /\ Smooth /\ UNCHANGED links

\* Ctrl-C or a kill: only the files are left, an empty refs/<branch> if it hits
\* between the open and the write.
Killed(p) ==
  /\ want[p] # None /\ Fault
  /\ UNCHANGED ref \/ (Linked(p) /\ ref' = None)
  /\ PullGoes(p, None, NoThreads)
  /\ UNCHANGED links

\* The model's owner pushes.
HubMoves ==
  /\ Fault /\ head' \in Commits \ {head}
  /\ UNCHANGED <<names, tree, want, at>>

-----------------------------------------------------------------------------
Init ==
  /\ head \in Commits
  /\ blob = [b \in Blobs |-> None] /\ part = [b \in Blobs |-> None]
  /\ data = [b \in Blobs |-> [i \in Inodes |-> <<>>]]
  /\ links = [c \in Commits |-> {}] /\ ref = None
  /\ want = [p \in Pulls |-> None]
  /\ at = [p \in Pulls |-> NoThreads]
  /\ faults = 0

Works(p, b) ==
  \/ Begin(p, b) \/ Measure(p, b) \/ Ask(p, b) \/ Read(p, b)
  \/ Closes(p, b) \/ Verify(p, b) \/ Place(p, b) \/ CheckGit(p, b)

Finishes(p) == Errors(p) \/ LinkFile(p) \/ WriteRef(p)

Next ==
  \/ \E p \in Pulls, b \in Blobs :
       Works(p, b) \/ AskFails(p, b) \/ ReadsWrong(p, b) \/ Breaks(p, b)
  \/ \E p \in Pulls : Start(p) \/ Finishes(p) \/ Killed(p)
  \/ HubMoves

Spec == Init /\ [][Next]_vars

\* A thread of a pool and the pull that waits for it run on; the hub answers or
\* the timeout ends the wait.
FairSpec ==
  /\ Spec
  /\ \A p \in Pulls : WF_vars(Finishes(p)) /\ \A b \in Blobs : WF_vars(Works(p, b))

-----------------------------------------------------------------------------
(***************************************************************************)
(* Properties.                                                             *)
(***************************************************************************)
\* Types; a thread has its .part open while it reads and at no other time, and
\* a blob and its .part are not one file.
TypeOK ==
  /\ head \in Commits
  /\ blob \in [Blobs -> Inodes \cup {None}]
  /\ part \in [Blobs -> Inodes \cup {None}]
  /\ data \in [Blobs -> [Inodes -> Seq(BOOLEAN)]]
  /\ links \in [Commits -> SUBSET Blobs]
  /\ ref \in Commits \cup {None}
  /\ want \in [Pulls -> Commits \cup {None}]
  /\ at \in [Pulls -> [Blobs -> Thread]]
  /\ faults \in 0..MaxFaults
  /\ \A b \in Blobs :
       /\ blob[b] # None => blob[b] # part[b]
       /\ \A p \in Pulls : at[p][b].fd # None <=> at[p][b].pc = "read"

\* A file at its place is whole and verified (fetch.download), whatever was cut,
\* corrupted, killed or resumed before.
WholeAtDest == \A b \in Lfs : blob[b] # None => Whole(b, blob[b])

\* refs/<branch> names a commit only when every file chosen from it is linked
\* and its blob is there; and whole, if it is an LFS file.  A file that git
\* holds is verified at its place: a kill just before that leaves it there as
\* it came, and the next pull takes it for whole (pull, fetch_blob).
RefComplete ==
  ref # None => \A b \in Files[ref] :
    b \in links[ref] /\ blob[b] # None /\ (b \in Lfs => Whole(b, blob[b]))

\* Whatever a download left behind, a rack pull that is run again and again
\* brings the branch's commit once the faults have stopped.
Heals == []<><<\E p \in Pulls : Start(p)>>_vars => []<>(ref = head)
=============================================================================
