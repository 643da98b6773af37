--------------------------- MODULE StartingProofs ---------------------------
(***************************************************************************)
(* starting.json says what it should: LoadingShown and EndShown, for any   *)
(* number of terminals and commands, on the whole head (HeadNode), where   *)
(* the gateway's commands share the terminals with rack up and rack down.  *)
(***************************************************************************)
EXTENDS HeadNode, TLAPS

-----------------------------------------------------------------------------
(***************************************************************************)
(* The inductive invariant.                                                *)
(***************************************************************************)
\* A command that has a recipe to serve.
Serves == {"first", "work", "recorded", "fail", "exit", "sync"}
\* One whose threads may be writing, and that has not come to its end.
Active == {"first", "work", "recorded", "fail"}

Named  == \A t \in Terminals : cmd[t].pc \in Serves => cmd[t].recipe \in Recipes

\* A file of the gateway is only worked on where no part of serve.py runs.
Jobs   == DOMAIN gw = Terminals /\ \A t \in Terminals : gw[t] # None => cmd[t].pc \in {"idle", "sync", "unroute"}

\* Where no rack up is, nobody writes.
Quiet  == \A t \in Terminals :
            cmd[t].pc \in {"idle", "sync", "unroute", "down"} => \A x \in Threads : thr[t][x].pc = "out"

Alone  == \A t \in Terminals :
            cmd[t].alone => cmd[t].pc # "idle" /\ \A u \in Terminals \ {t} : cmd[u].pc = "idle"

Unfailed == \A t \in Terminals : cmd[t].pc \in {"first", "work", "recorded"} => ~cmd[t].failed

\* What t's rack up has to say now; and that its thread x has it in hand, open
\* or already in the .tmp.
TextNow(t, state) == [state |-> state, recipe |-> cmd[t].recipe, at |-> now]
InHand(t, x, state) ==
  /\ thr[t][x].onto = "tmp" /\ thr[t][x].text = TextNow(t, state)
  /\ \/ thr[t][x].pc = "open" /\ tmp[t] = Empty
     \/ thr[t][x].pc = "closed" /\ tmp[t] = TextNow(t, state)

\* starting.json dates from the last heartbeat, which is not long ago.
Shown(t) ==
  /\ starting = [state |-> "loading", recipe |-> cmd[t].recipe, at |-> cmd[t].beat]
  /\ cmd[t].beat <= now /\ now - cmd[t].beat <= Every + Late

FirstOK(t) == cmd[t].pc = "first" => thr[t]["beat"].pc = "out" /\ InHand(t, "main", "loading")
WorkOK(t)  == cmd[t].pc \in {"work", "recorded"} =>
                /\ thr[t]["main"].pc = "out"
                /\ thr[t]["beat"].pc = "out" \/ InHand(t, "beat", "loading")
                /\ Shown(t)

AloneShown == \A t \in Terminals : cmd[t].alone => FirstOK(t) /\ WorkOK(t)

\* The last command's end: it is over, or its last write is on its way.
EndText ==
  IF last.how = "served" THEN starting = None
  ELSE starting \in Texts /\ starting.state = "failed" /\ starting.recipe = last.recipe
AllOver == \A t \in Terminals : cmd[t].pc \notin Active /\ \A x \in Threads : thr[t][x].pc = "out"
Ending(t) ==
  /\ last.how = "failed" /\ last.recipe = cmd[t].recipe
  /\ cmd[t].pc = "fail" /\ cmd[t].alone
  /\ thr[t]["beat"].pc = "out" /\ InHand(t, "main", "failed")
Ended == last # None => (AllOver /\ EndText) \/ \E t \in Terminals : Ending(t)

StartingInv ==
  /\ recipe \in Recipes \cup {None} /\ now \in Nat
  /\ StartingTypeOK /\ Named /\ Jobs /\ Quiet /\ Alone /\ Unfailed /\ AloneShown /\ Ended

-----------------------------------------------------------------------------
(***************************************************************************)
(* Types.                                                                  *)
(***************************************************************************)
\* Both threads.
LEMMA ThreadsAre == "main" \in Threads /\ "beat" \in Threads /\ "main" # "beat" /\ Threads = {"main", "beat"}
BY DEF Threads

\* A file that is open keeps its place in the program, wherever it goes.
LEMMA OntoTyped ==
  ASSUME NEW w \in Writer, NEW onto \in {"tmp", "file", "gone", None}
  PROVE  [w EXCEPT !.onto = onto] \in Writer
BY DEF Writer

LEMMA MovedOne ==
  ASSUME StartingTypeOK, NEW t \in Terminals, NEW renamed \in BOOLEAN, NEW u \in Terminals, NEW x \in Threads
  PROVE  Moved(t, renamed)[u][x] \in Writer /\ Moved(t, renamed)[u][x].pc = thr[u][x].pc
<1>1. thr[u][x] \in Writer
  BY DEF StartingTypeOK
<1>2. PICK onto \in {"tmp", "file", "gone", None} : Moved(t, renamed)[u][x] = [thr[u][x] EXCEPT !.onto = onto]
  <2>1. CASE thr[u][x].onto = "file"
    BY <1>1, <2>1 DEF Moved
  <2>2. CASE thr[u][x].onto # "file" /\ renamed /\ u = t /\ thr[u][x].onto = "tmp"
    BY <1>1, <2>2 DEF Moved
  <2>3. CASE thr[u][x].onto # "file" /\ ~(renamed /\ u = t /\ thr[u][x].onto = "tmp")
    <3>1. thr[u][x].onto \in {"tmp", "file", "gone", None}
      BY <1>1 DEF Writer
    <3> QED BY <3>1, <2>3 DEF Moved
  <2> QED BY <2>1, <2>2, <2>3
<1>3. [thr[u][x] EXCEPT !.onto = onto].pc = thr[u][x].pc
  BY <1>1 DEF Writer
<1> QED BY <1>1, <1>2, <1>3, OntoTyped

LEMMA MovedTyped ==
  ASSUME StartingTypeOK, NEW t \in Terminals, NEW renamed \in BOOLEAN
  PROVE  /\ Moved(t, renamed) \in [Terminals -> [Threads -> Writer]]
         /\ \A u \in Terminals, x \in Threads : Moved(t, renamed)[u][x].pc = thr[u][x].pc
<1>1. \A u \in Terminals, x \in Threads :
        Moved(t, renamed)[u][x] \in Writer /\ Moved(t, renamed)[u][x].pc = thr[u][x].pc
  BY MovedOne
<1>2. DOMAIN Moved(t, renamed) = Terminals
  BY DEF Moved
<1>3. ASSUME NEW u \in Terminals PROVE Moved(t, renamed)[u] \in [Threads -> Writer]
  <2>1. Moved(t, renamed)[u] = [x \in Threads |-> Moved(t, renamed)[u][x]]
    BY DEF Moved
  <2> QED BY <1>1, <2>1
<1>4. Moved(t, renamed) = [u \in Terminals |-> Moved(t, renamed)[u]]
  BY DEF Moved
<1> QED BY <1>1, <1>3, <1>4

\* Begins: t's command comes, and no other is alone any more.
LEMMA BeginsTyped ==
  ASSUME StartingInv, NEW t \in Terminals, NEW rec \in Command, Begins(t, rec)
  PROVE  /\ cmd' \in [Terminals -> Command]
         /\ cmd'[t].pc = rec.pc /\ cmd'[t].recipe = rec.recipe /\ cmd'[t].failed = rec.failed
         /\ cmd'[t].alone => \A u \in Terminals : cmd[u].pc = "idle"
         /\ \A u \in Terminals \ {t} : /\ cmd'[u].pc = cmd[u].pc /\ cmd'[u].recipe = cmd[u].recipe
                                       /\ cmd'[u].failed = cmd[u].failed /\ ~cmd'[u].alone
<1> DEFINE free == \A v \in Terminals : ~Running(v)
<1>1. free \in BOOLEAN
  OBVIOUS
<1>2. cmd' = [u \in Terminals |-> IF u = t THEN [rec EXCEPT !.alone = free] ELSE [cmd[u] EXCEPT !.alone = FALSE]]
  BY DEF Begins
<1>3. free => \A u \in Terminals : cmd[u].pc = "idle"
  BY DEF Running, At
<1> HIDE DEF free
<1>4. [rec EXCEPT !.alone = free] \in Command
  BY <1>1 DEF Command
<1>5. \A u \in Terminals : [cmd[u] EXCEPT !.alone = FALSE] \in Command
  BY DEF StartingInv, StartingTypeOK, Command
<1>6. cmd' \in [Terminals -> Command]
  BY <1>2, <1>4, <1>5
<1>7. cmd'[t].pc = rec.pc /\ cmd'[t].recipe = rec.recipe /\ cmd'[t].failed = rec.failed /\ cmd'[t].alone = free
  BY <1>1, <1>2 DEF Command
<1>8. ASSUME NEW u \in Terminals \ {t}
      PROVE  /\ cmd'[u].pc = cmd[u].pc /\ cmd'[u].recipe = cmd[u].recipe
             /\ cmd'[u].failed = cmd[u].failed /\ ~cmd'[u].alone
  BY <1>2 DEF StartingInv, StartingTypeOK, Command
<1> QED BY <1>3, <1>6, <1>7, <1>8

\* Opens: t's thread x has its text in hand, and the others what they had.
LEMMA OpensTyped ==
  ASSUME StartingInv, NEW t \in Terminals, NEW x \in Threads, NEW failed \in BOOLEAN,
         NEW state \in {"loading", "failed"}, state = IF failed THEN "failed" ELSE "loading",
         cmd'[t].recipe \in Recipes, now' = now, Opens(t, x, failed)
  PROVE  /\ tmp' \in [Terminals -> File] /\ thr' \in [Terminals -> [Threads -> Writer]]
         /\ InHand(t, x, state)'
         /\ \A y \in Threads \ {x} : thr'[t][y] = thr[t][y]
         /\ \A u \in Terminals \ {t} : thr'[u] = thr[u]
<1> DEFINE text == [state |-> state, recipe |-> cmd'[t].recipe, at |-> now]
           w == [pc |-> "open", onto |-> "tmp", text |-> text]
<1>1. text \in Texts
  BY DEF Texts, StartingInv
<1>2. tmp' = [tmp EXCEPT ![t] = Empty] /\ thr' = [thr EXCEPT ![t][x] = w]
  BY DEF Opens
<1>3. TextNow(t, state)' = text
  BY DEF TextNow
<1> HIDE DEF text
<1>4. w \in Writer /\ w.pc = "open" /\ w.onto = "tmp" /\ w.text = text
  BY <1>1 DEF Writer
<1> HIDE DEF w
<1>5. tmp' \in [Terminals -> File] /\ tmp'[t] = Empty
  BY <1>2 DEF StartingInv, StartingTypeOK, File
<1>6. thr'[t][x] = w /\ thr' \in [Terminals -> [Threads -> Writer]]
  BY <1>2, <1>4 DEF StartingInv, StartingTypeOK
<1>7. InHand(t, x, state)'
  BY <1>3, <1>4, <1>5, <1>6 DEF InHand
<1> QED BY <1>2, <1>5, <1>6, <1>7 DEF StartingInv, StartingTypeOK

-----------------------------------------------------------------------------
(***************************************************************************)
(* Each step keeps the invariant.                                          *)
(***************************************************************************)
LEMMA UpKeeps ==
  ASSUME StartingInv, NEW t \in Terminals, NEW c \in Recipes, Up(t, c), gw[t] = None, gw' = gw
  PROVE  StartingInv'
<1> DEFINE rec == [Idle EXCEPT !.pc = "first", !.recipe = c]
<1>1. rec \in Command /\ rec.pc = "first" /\ rec.recipe = c /\ ~rec.failed
  BY DEF Idle, Command
<1>2. /\ Begins(t, rec) /\ Opens(t, "main", FALSE)
      /\ last' = None /\ starting' = starting /\ recipe' = recipe /\ now' = now /\ cmd[t].pc = "idle"
  BY DEF Up, At
<1> HIDE DEF rec
<1>3. /\ cmd' \in [Terminals -> Command]
      /\ cmd'[t].pc = "first" /\ cmd'[t].recipe = c /\ ~cmd'[t].failed
      /\ cmd'[t].alone => \A u \in Terminals : cmd[u].pc = "idle"
      /\ \A u \in Terminals \ {t} : /\ cmd'[u].pc = cmd[u].pc /\ cmd'[u].recipe = cmd[u].recipe
                                    /\ cmd'[u].failed = cmd[u].failed /\ ~cmd'[u].alone
  BY <1>1, <1>2, BeginsTyped
<1>4. /\ tmp' \in [Terminals -> File] /\ thr' \in [Terminals -> [Threads -> Writer]]
      /\ InHand(t, "main", "loading")'
      /\ thr'[t]["beat"] = thr[t]["beat"]
      /\ \A u \in Terminals \ {t} : thr'[u] = thr[u]
  <2>1. FALSE \in BOOLEAN /\ "loading" \in {"loading", "failed"}
        /\ "loading" = IF FALSE THEN "failed" ELSE "loading"
    OBVIOUS
  <2>2. /\ tmp' \in [Terminals -> File] /\ thr' \in [Terminals -> [Threads -> Writer]]
        /\ InHand(t, "main", "loading")'
        /\ \A y \in Threads \ {"main"} : thr'[t][y] = thr[t][y]
        /\ \A u \in Terminals \ {t} : thr'[u] = thr[u]
    BY <1>2, <1>3, <2>1, OpensTyped, ThreadsAre
  <2> QED BY <2>2, ThreadsAre
<1>5. StartingTypeOK'
  BY <1>2, <1>3, <1>4 DEF StartingInv, StartingTypeOK
<1>6. Named' /\ Jobs'
  BY <1>2, <1>3 DEF StartingInv, Named, Jobs
<1>7. Quiet'
  BY <1>3, <1>4 DEF StartingInv, Quiet
<1>8. Alone' /\ Unfailed'
  BY <1>3 DEF StartingInv, Alone, Unfailed
<1>9. AloneShown'
  <2>1. thr[t]["beat"].pc = "out"
    BY <1>2, ThreadsAre DEF StartingInv, Quiet
  <2> QED BY <1>3, <1>4, <2>1 DEF AloneShown, FirstOK, WorkOK
<1>10. Ended'
  BY <1>2 DEF Ended
<1> QED BY <1>2, <1>5, <1>6, <1>7, <1>8, <1>9, <1>10 DEF StartingInv

LEMMA DownKeeps ==
  ASSUME StartingInv, NEW t \in Terminals, Down(t), gw[t] = None, gw' = gw
  PROVE  StartingInv'
<1> DEFINE rec == [Idle EXCEPT !.pc = "unroute"]
<1>1. rec \in Command /\ rec.pc = "unroute"
  BY DEF Idle, Command
<1>2. /\ Begins(t, rec) /\ cmd[t].pc = "idle"
      /\ last' = None /\ UNCHANGED <<starting, tmp, thr, recipe, now>>
  BY DEF Down, At
<1> HIDE DEF rec
<1>3. /\ cmd' \in [Terminals -> Command]
      /\ cmd'[t].pc = "unroute"
      /\ cmd'[t].alone => \A u \in Terminals : cmd[u].pc = "idle"
      /\ \A u \in Terminals \ {t} : /\ cmd'[u].pc = cmd[u].pc /\ cmd'[u].recipe = cmd[u].recipe
                                    /\ cmd'[u].failed = cmd[u].failed /\ ~cmd'[u].alone
  BY <1>1, <1>2, BeginsTyped
<1>5. StartingTypeOK'
  BY <1>2, <1>3 DEF StartingInv, StartingTypeOK
<1>6. Named' /\ Jobs'
  BY <1>2, <1>3 DEF StartingInv, Named, Jobs, Serves
<1>7. Quiet'
  BY <1>2, <1>3 DEF StartingInv, Quiet
<1>8. Alone' /\ Unfailed'
  BY <1>3 DEF StartingInv, Alone, Unfailed
<1>9. AloneShown'
  BY <1>3 DEF AloneShown, FirstOK, WorkOK
<1>10. Ended'
  BY <1>2 DEF Ended
<1> QED BY <1>2, <1>5, <1>6, <1>7, <1>8, <1>9, <1>10 DEF StartingInv

LEMMA BeatKeeps ==
  ASSUME StartingInv, NEW t \in Terminals, Beat(t), gw' = gw
  PROVE  StartingInv'
<1>1. /\ cmd[t].pc \in {"work", "recorded"} /\ thr[t]["beat"].pc = "out"
      /\ UNCHANGED <<cmd, last, starting, recipe, now>>
      /\ Opens(t, "beat", cmd[t].failed) /\ ~cmd[t].failed /\ cmd[t].failed \in BOOLEAN
  BY DEF Beat, StartingInv, Unfailed, StartingTypeOK, Command, shared
<1>2. cmd'[t].recipe \in Recipes
  BY <1>1 DEF StartingInv, Named, Serves
<1>4. /\ tmp' \in [Terminals -> File] /\ thr' \in [Terminals -> [Threads -> Writer]]
      /\ InHand(t, "beat", "loading")'
      /\ thr'[t]["main"] = thr[t]["main"]
      /\ \A u \in Terminals \ {t} : thr'[u] = thr[u]
  <2>1. "loading" \in {"loading", "failed"} /\ "loading" = IF cmd[t].failed THEN "failed" ELSE "loading"
    BY <1>1
  <2>2. /\ tmp' \in [Terminals -> File] /\ thr' \in [Terminals -> [Threads -> Writer]]
        /\ InHand(t, "beat", "loading")'
        /\ \A y \in Threads \ {"beat"} : thr'[t][y] = thr[t][y]
        /\ \A u \in Terminals \ {t} : thr'[u] = thr[u]
    BY <1>1, <1>2, <2>1, OpensTyped, ThreadsAre
  <2> QED BY <2>2, ThreadsAre
<1>5. StartingTypeOK'
  BY <1>1, <1>4 DEF StartingInv, StartingTypeOK
<1>6. Named' /\ Jobs' /\ Alone' /\ Unfailed'
  BY <1>1 DEF StartingInv, Named, Jobs, Alone, Unfailed
<1>7. Quiet'
  BY <1>1, <1>4 DEF StartingInv, Quiet
<1>9. AloneShown'
  <2>1. \A u \in Terminals : cmd[u].alone => u = t
    BY <1>1 DEF StartingInv, Alone
  <2>2. cmd[t].alone => WorkOK(t)'
    BY <1>1, <1>4 DEF StartingInv, AloneShown, WorkOK, Shown
  <2> QED BY <1>1, <2>1, <2>2 DEF AloneShown, FirstOK
<1>10. Ended'
  <2>1. last = None
    BY <1>1 DEF StartingInv, Ended, AllOver, Ending, Active, Alone
  <2> QED BY <1>1, <2>1 DEF Ended
<1> QED BY <1>1, <1>5, <1>6, <1>7, <1>9, <1>10 DEF StartingInv

\* A terminal whose thread writes is the only one that can be alone, or at the
\* end of the last command.
LEMMA WriterAlone ==
  ASSUME StartingInv, NEW t \in Terminals, NEW x \in Threads, thr[t][x].pc # "out"
  PROVE  /\ \A u \in Terminals : cmd[u].alone => u = t
         /\ last # None => Ending(t) /\ x = "main"
<1>1. cmd[t].pc # "idle"
  BY DEF StartingInv, Quiet
<1>2. \A u \in Terminals : cmd[u].alone => u = t
  BY <1>1 DEF StartingInv, Alone
<1>3. last # None => \E u \in Terminals : Ending(u)
  BY DEF StartingInv, Ended, AllOver
<1> QED BY <1>2, <1>3, ThreadsAre DEF Ending

LEMMA FlushInHand ==
  ASSUME StartingInv, NEW t \in Terminals, NEW x \in Threads, Flush(t, x),
         NEW state \in {"loading", "failed"}, InHand(t, x, state)
  PROVE  InHand(t, x, state)' /\ starting' = starting
<1>1. /\ thr[t][x].pc = "open" /\ thr[t][x].onto = "tmp" /\ tmp[t] = Empty /\ thr[t][x].text = TextNow(t, state)
      /\ thr[t][x] \in Writer
  BY DEF Flush, InHand, StartingInv, StartingTypeOK
<1>2. tmp' = [tmp EXCEPT ![t] = Over(Empty, TextNow(t, state))] /\ starting' = starting
  BY <1>1 DEF Flush
<1>3. Over(Empty, TextNow(t, state)) = TextNow(t, state)
  BY DEF Over, Empty
<1>4. TextNow(t, state)' = TextNow(t, state)
  BY DEF Flush, TextNow, shared
<1>5. /\ thr'[t][x].onto = "tmp" /\ thr'[t][x].text = TextNow(t, state) /\ thr'[t][x].pc = "closed"
  BY <1>1 DEF Flush, StartingInv, StartingTypeOK, Writer
<1>6. tmp'[t] = TextNow(t, state)
  BY <1>2, <1>3 DEF StartingInv, StartingTypeOK
<1> QED BY <1>2, <1>4, <1>5, <1>6 DEF InHand

LEMMA FlushKeeps ==
  ASSUME StartingInv, NEW t \in Terminals, NEW x \in Threads, Flush(t, x), gw' = gw
  PROVE  StartingInv'
<1>1. /\ thr[t][x] \in Writer /\ thr[t][x].pc = "open" /\ UNCHANGED <<cmd, last, recipe, now>>
      /\ thr' = [thr EXCEPT ![t][x].pc = "closed"]
  BY DEF StartingInv, StartingTypeOK, Flush, shared
<1>2. ASSUME NEW old \in File PROVE Over(old, thr[t][x].text) \in File
  <2>1. thr[t][x].text \in File
    BY <1>1 DEF Writer, File
  <2> QED BY <2>1 DEF Over, File
<1>3. Over(tmp[t], thr[t][x].text) \in File /\ Over(starting, thr[t][x].text) \in File
  BY <1>2 DEF StartingInv, StartingTypeOK
<1>4. tmp' \in [Terminals -> File] /\ starting' \in File
  BY <1>3 DEF StartingInv, StartingTypeOK, Flush
<1>5. [thr[t][x] EXCEPT !.pc = "closed"] \in Writer
  BY <1>1 DEF Writer
<1>6. /\ thr' \in [Terminals -> [Threads -> Writer]]
      /\ \A u \in Terminals, y \in Threads : u # t \/ y # x => thr'[u][y] = thr[u][y]
  BY <1>1, <1>5 DEF StartingInv, StartingTypeOK
<1>7. StartingTypeOK' /\ Named' /\ Jobs' /\ Alone' /\ Unfailed'
  BY <1>1, <1>4, <1>6 DEF StartingInv, StartingTypeOK, Named, Jobs, Alone, Unfailed
<1>8. Quiet'
  BY <1>1, <1>6 DEF StartingInv, Quiet
<1>9. AloneShown'
  <2>1. \A u \in Terminals : cmd'[u].alone => u = t
    BY <1>1, WriterAlone
  <2>2. cmd[t].alone => FirstOK(t)' /\ WorkOK(t)'
    <3>1. "loading" \in {"loading", "failed"}
      OBVIOUS
    <3>2. CASE cmd[t].alone /\ cmd[t].pc = "first"
      BY <1>1, <1>6, <3>1, <3>2, FlushInHand, ThreadsAre DEF StartingInv, AloneShown, FirstOK, WorkOK
    <3>3. CASE cmd[t].alone /\ cmd[t].pc \in {"work", "recorded"}
      BY <1>1, <1>6, <3>1, <3>3, FlushInHand, ThreadsAre DEF StartingInv, AloneShown, FirstOK, WorkOK, Shown
    <3> QED BY <1>1, <3>2, <3>3 DEF FirstOK, WorkOK
  <2> QED BY <1>1, <2>1, <2>2 DEF AloneShown
<1>10. Ended'
  <2>1. SUFFICES ASSUME last # None PROVE Ending(t)'
    BY <1>1 DEF Ended
  <2>2. Ending(t) /\ x = "main" /\ "failed" \in {"loading", "failed"}
    BY <1>1, <2>1, WriterAlone
  <2> QED BY <1>1, <1>6, <2>2, FlushInHand, ThreadsAre DEF Ending
<1> QED BY <1>1, <1>7, <1>8, <1>9, <1>10 DEF StartingInv

\* What is in hand takes the place of starting.json.
LEMMA ReplaceInHand ==
  ASSUME StartingInv, NEW t \in Terminals, NEW x \in Threads, Replace(t, x),
         NEW state \in {"loading", "failed"}, InHand(t, x, state), cmd[t].pc \in Serves
  PROVE  starting' = TextNow(t, state) /\ starting' \in Texts
<1>1. tmp[t] = TextNow(t, state)
  BY DEF Replace, InHand
<1>2. TextNow(t, state) \in Texts
  BY DEF TextNow, Texts, StartingInv, Named
<1>3. tmp[t] # None
  BY <1>1, <1>2, FilesAssumption
<1> QED BY <1>1, <1>2, <1>3 DEF Replace

LEMMA ReplaceKeeps ==
  ASSUME StartingInv, NEW t \in Terminals, NEW x \in Threads, Replace(t, x), gw' = gw
  PROVE  StartingInv'
<1>1. /\ starting' \in File /\ tmp' \in [Terminals -> File]
      /\ UNCHANGED <<last, recipe, now>> /\ thr[t][x].pc = "closed" /\ now \in Nat
  BY DEF Replace, StartingInv, StartingTypeOK, File, shared
<1>2. Out \in Writer /\ Out.pc = "out"
  BY DEF Out, Writer
<1>3. /\ thr' \in [Terminals -> [Threads -> Writer]]
      /\ thr'[t][x].pc = "out"
      /\ \A u \in Terminals, y \in Threads : u # t \/ y # x => thr'[u][y].pc = thr[u][y].pc
  <2>1. TRUE \in BOOLEAN
    OBVIOUS
  <2>2. /\ Moved(t, TRUE) \in [Terminals -> [Threads -> Writer]]
        /\ \A u \in Terminals, y \in Threads : Moved(t, TRUE)[u][y].pc = thr[u][y].pc
    BY <2>1, MovedTyped DEF StartingInv
  <2>3. PICK was \in [Terminals -> [Threads -> Writer]] :
          /\ thr' = [was EXCEPT ![t][x] = Out]
          /\ \A u \in Terminals, y \in Threads : was[u][y].pc = thr[u][y].pc
    BY <2>2 DEF Replace, StartingInv, StartingTypeOK
  <2> QED BY <1>2, <2>3
<1>4. PICK pc \in {"work", "exit", cmd[t].pc} :
        /\ cmd' = [cmd EXCEPT ![t].pc = pc, ![t].beat = now]
        /\ x = "main" /\ cmd[t].pc = "first" => pc = "work"
        /\ x = "main" /\ cmd[t].pc = "fail" => pc = "exit"
        /\ x # "main" \/ cmd[t].pc \notin {"first", "fail"} => pc = cmd[t].pc
  BY DEF Replace
<1>5. pc \in Serves \cup {"idle", "unroute", "down"}
  BY <1>4 DEF Serves, StartingInv, StartingTypeOK, Command
<1>6. /\ cmd' \in [Terminals -> Command]
      /\ cmd'[t].pc = pc /\ cmd'[t].recipe = cmd[t].recipe /\ cmd'[t].beat = now
      /\ cmd'[t].alone = cmd[t].alone /\ cmd'[t].failed = cmd[t].failed
      /\ \A u \in Terminals \ {t} : cmd'[u] = cmd[u]
  BY <1>1, <1>4, <1>5 DEF StartingInv, StartingTypeOK, Command, Serves
<1>7. cmd[t].pc \notin {"idle", "sync", "unroute", "down"}
  BY <1>1 DEF StartingInv, Quiet
<1>8. StartingTypeOK'
  BY <1>1, <1>3, <1>6 DEF StartingInv, StartingTypeOK
<1>9. Named' /\ Jobs' /\ Alone' /\ Unfailed'
  BY <1>4, <1>6, <1>7, ThreadsAre DEF StartingInv, Named, Jobs, Alone, Unfailed, Serves
<1>10. Quiet'
  BY <1>3, <1>4, <1>6, <1>7 DEF StartingInv, Quiet
<1>11. \A u \in Terminals : cmd'[u].alone => u = t
  BY <1>1, <1>6, WriterAlone
<1>12. AloneShown'
  <2>1. ASSUME cmd[t].alone, cmd[t].pc \in {"first", "work", "recorded"}
        PROVE  /\ InHand(t, x, "loading") /\ pc \in {"work", "recorded"}
               /\ \A y \in Threads : thr'[t][y].pc = "out"
    BY <1>1, <1>3, <1>4, <2>1, ThreadsAre DEF StartingInv, AloneShown, FirstOK, WorkOK
  <2>2. ASSUME cmd[t].alone, cmd[t].pc \in {"first", "work", "recorded"}
        PROVE  Shown(t)'
    <3>1. starting' = TextNow(t, "loading")
      BY <2>1, <2>2, ReplaceInHand DEF Serves
    <3> QED BY <1>1, <1>6, <3>1, StartingAssumption DEF Shown, TextNow
  <2>3. cmd[t].alone => FirstOK(t)' /\ WorkOK(t)'
    BY <1>4, <1>6, <2>1, <2>2, ThreadsAre DEF FirstOK, WorkOK
  <2> QED BY <1>6, <1>11, <2>3 DEF AloneShown
<1>13. Ended'
  <2>1. SUFFICES ASSUME last # None PROVE AllOver' /\ EndText'
    BY <1>1 DEF Ended
  <2>2. Ending(t) /\ x = "main"
    BY <1>1, <2>1, WriterAlone
  <2>3. starting' = TextNow(t, "failed") /\ starting' \in Texts
    BY <2>2, ReplaceInHand DEF Ending, Serves
  <2>4. EndText'
    BY <1>1, <2>2, <2>3 DEF EndText, Ending, TextNow
  <2>5. \A u \in Terminals \ {t} : cmd[u].pc = "idle"
    BY <2>2 DEF Ending, StartingInv, Alone
  <2>6. AllOver'
    BY <1>3, <1>4, <1>6, <2>2, <2>5, ThreadsAre DEF AllOver, Ending, Active, StartingInv, Quiet
  <2> QED BY <2>4, <2>6
<1> QED BY <1>1, <1>8, <1>9, <1>10, <1>12, <1>13 DEF StartingInv

\* A command goes on, or ends, and writes nothing.
LEMMA PassesKeeps ==
  ASSUME StartingInv, NEW t \in Terminals, NEW c \in Command,
         cmd' = [cmd EXCEPT ![t] = c],
         UNCHANGED <<starting, tmp, thr, last, now>>, recipe' \in Recipes \cup {None},
         DOMAIN gw' = Terminals, \A u \in Terminals \ {t} : gw'[u] = gw[u],
         gw'[t] # None => c.pc \in {"idle", "sync", "unroute"},
         c.pc # "first" /\ cmd[t].pc # "fail",
         c.pc \in Serves => c.recipe \in Recipes,
         c.pc \in {"idle", "sync", "unroute", "down"} => cmd[t].pc \in {"idle", "sync", "unroute", "down"},
         cmd[t].pc = "idle" => c.pc = "idle",
         c.alone => c.pc # "idle" /\ cmd[t].alone,
         c.pc \in Active => cmd[t].pc \in {"work", "recorded"} /\ c.pc # "fail"
                              /\ ~c.failed /\ c.recipe = cmd[t].recipe /\ c.beat = cmd[t].beat
  PROVE  StartingInv'
<1>1. cmd' \in [Terminals -> Command] /\ cmd'[t] = c /\ \A u \in Terminals \ {t} : cmd'[u] = cmd[u]
  BY DEF StartingInv, StartingTypeOK
<1>2. StartingTypeOK' /\ Named' /\ Jobs'
  BY <1>1 DEF StartingInv, StartingTypeOK, Named, Jobs
<1>3. Quiet'
  BY <1>1 DEF StartingInv, Quiet
<1>4. Alone' /\ Unfailed'
  BY <1>1 DEF StartingInv, Alone, Unfailed, Active
<1>5. AloneShown'
  <2>1. ASSUME NEW u \in Terminals, cmd'[u].alone PROVE FirstOK(u)' /\ WorkOK(u)'
    <3>1. cmd[u].alone /\ FirstOK(u) /\ WorkOK(u)
      BY <1>1, <2>1 DEF StartingInv, AloneShown
    <3>2. CASE u = t
      BY <1>1, <3>1, <3>2 DEF FirstOK, WorkOK, Shown, InHand, TextNow, Active
    <3>3. CASE u # t
      BY <1>1, <3>1, <3>3 DEF FirstOK, WorkOK, Shown, InHand, TextNow
    <3> QED BY <3>2, <3>3
  <2> QED BY <2>1 DEF AloneShown
<1>6. Ended'
  <2>1. CASE last = None
    BY <2>1 DEF Ended
  <2>2. CASE AllOver /\ EndText
    BY <1>1, <2>2 DEF Ended, AllOver, EndText, Active
  <2>3. ASSUME NEW u \in Terminals, Ending(u) PROVE Ended'
    BY <1>1, <2>3 DEF Ended, Ending, InHand, TextNow
  <2> QED BY <2>1, <2>2, <2>3 DEF StartingInv, Ended
<1> QED BY <1>2, <1>3, <1>4, <1>5, <1>6 DEF StartingInv

\* A command's process ends, with its threads.
LEMMA GoneKeeps ==
  ASSUME StartingInv, NEW t \in Terminals, NEW c \in Command,
         cmd' = [cmd EXCEPT ![t] = c], Gone(t),
         UNCHANGED <<starting, recipe, now, gw>>, last' \in {last, None},
         c.pc = "idle" \/ (c.pc = "sync" /\ c.recipe \in Recipes),
         c.alone => c.pc # "idle" /\ cmd[t].alone,
         cmd[t].pc \in Serves \ {"sync"}, last' # None => cmd[t].pc # "fail"
  PROVE  StartingInv'
<1>1. cmd' \in [Terminals -> Command] /\ cmd'[t] = c /\ \A u \in Terminals \ {t} : cmd'[u] = cmd[u]
  BY DEF StartingInv, StartingTypeOK
<1>2. /\ thr' \in [Terminals -> [Threads -> Writer]] /\ tmp' \in [Terminals -> File]
      /\ \A x \in Threads : thr'[t][x].pc = "out"
      /\ \A u \in Terminals \ {t} : thr'[u] = thr[u] /\ tmp'[u] = tmp[u]
  <2>1. Out \in Writer /\ Out.pc = "out" /\ None \in File
    BY DEF Out, Writer, File
  <2> QED BY <2>1 DEF Gone, StartingInv, StartingTypeOK
<1>3. last' \in [how : {"served", "failed"}, recipe : Recipes] \cup {None} /\ starting' \in File
  BY DEF StartingInv, StartingTypeOK
<1>4. StartingTypeOK'
  BY <1>1, <1>2, <1>3 DEF StartingTypeOK
<1>5. Named' /\ Jobs'
  BY <1>1 DEF StartingInv, Named, Jobs, Serves
<1>6. Quiet'
  BY <1>1, <1>2 DEF StartingInv, Quiet
<1>7. Alone' /\ Unfailed'
  BY <1>1 DEF StartingInv, Alone, Unfailed, Serves
<1>8. AloneShown'
  <2>1. ASSUME NEW u \in Terminals, cmd'[u].alone PROVE FirstOK(u)' /\ WorkOK(u)'
    <3>1. CASE u = t
      BY <1>1, <3>1 DEF FirstOK, WorkOK
    <3>2. CASE u # t
      <4>1. cmd[u].alone
        BY <1>1, <2>1, <3>2
      <4> QED BY <3>2, <4>1 DEF StartingInv, Alone, Serves
    <3> QED BY <3>1, <3>2
  <2> QED BY <2>1 DEF AloneShown
<1>9. Ended'
  <2>1. CASE last' = None
    BY <2>1 DEF Ended
  <2>2. CASE last' # None /\ AllOver /\ EndText
    BY <1>1, <1>2, <2>2 DEF Ended, AllOver, EndText, Active
  <2>3. ASSUME last' # None, NEW u \in Terminals, Ending(u) PROVE FALSE
    BY <2>3 DEF Ending, StartingInv, Alone, Serves
  <2> QED BY <2>1, <2>2, <2>3 DEF StartingInv, Ended
<1> QED BY <1>4, <1>5, <1>6, <1>7, <1>8, <1>9 DEF StartingInv

LEMMA IdleTyped == Idle \in Command /\ Idle.pc = "idle" /\ ~Idle.alone
BY DEF Idle, Command

LEMMA RecordsKeeps ==
  ASSUME StartingInv, NEW t \in Terminals, Records(t), gw' = gw
  PROVE  StartingInv'
<1> DEFINE c == [cmd[t] EXCEPT !.pc = "recorded"]
<1>1. cmd[t] \in Command /\ cmd[t].pc = "work" /\ cmd[t].recipe \in Recipes /\ ~cmd[t].failed
  BY DEF Records, At, StartingInv, StartingTypeOK, Named, Unfailed, Serves
<1>2. c \in Command /\ c.pc = "recorded" /\ c.recipe = cmd[t].recipe /\ c.failed = cmd[t].failed
      /\ c.beat = cmd[t].beat /\ c.alone = cmd[t].alone
  BY <1>1 DEF Command
<1>3. cmd' = [cmd EXCEPT ![t] = c] /\ recipe' = cmd[t].recipe /\ UNCHANGED <<starting, tmp, thr, last, now>>
  BY DEF Records, Goes
<1> HIDE DEF c
<1>4. gw'[t] = None /\ DOMAIN gw' = Terminals
  BY <1>1 DEF StartingInv, Jobs
<1> QED BY <1>1, <1>2, <1>3, <1>4, PassesKeeps DEF Serves, Active

LEMMA RemovesKeeps ==
  ASSUME StartingInv, NEW t \in Terminals, Removes(t), gw' = gw
  PROVE  StartingInv'
<1>1. cmd[t].pc = "down" /\ gw'[t] = None /\ DOMAIN gw' = Terminals
  BY DEF Removes, At, StartingInv, Jobs
<1>2. cmd' = [cmd EXCEPT ![t] = Idle] /\ recipe' = None /\ UNCHANGED <<starting, tmp, thr, last, now>>
  BY DEF Removes
<1> QED BY <1>1, <1>2, IdleTyped, PassesKeeps DEF Serves, Active

LEMMA DetachesKeeps ==
  ASSUME StartingInv, NEW t \in Terminals, Detaches(t), gw' = gw
  PROVE  StartingInv'
<1> DEFINE c == [cmd[t] EXCEPT !.pc = "exit"]
<1>1. cmd[t] \in Command /\ cmd[t].pc = "work" /\ cmd[t].recipe \in Recipes
  BY DEF Detaches, At, StartingInv, StartingTypeOK, Named, Serves
<1>2. c \in Command /\ c.pc = "exit" /\ c.recipe = cmd[t].recipe /\ c.alone = cmd[t].alone
  BY <1>1 DEF Command
<1>3. cmd' = [cmd EXCEPT ![t] = c] /\ UNCHANGED <<starting, tmp, thr, last, recipe, now>>
  BY <1>1 DEF Detaches, Goes, shared, StartingInv, StartingTypeOK
<1> HIDE DEF c
<1>4. gw'[t] = None /\ DOMAIN gw' = Terminals /\ recipe' \in Recipes \cup {None}
  BY <1>1, <1>3 DEF StartingInv, Jobs
<1> QED BY <1>1, <1>2, <1>3, <1>4, PassesKeeps DEF Serves, Active

LEMMA ExitKeeps ==
  ASSUME StartingInv, NEW t \in Terminals, Exit(t), gw' = gw
  PROVE  StartingInv'
<1> DEFINE c == [cmd[t] EXCEPT !.pc = "sync"]
<1>1. /\ cmd[t] \in Command /\ cmd[t].pc = "exit" /\ cmd[t].recipe \in Recipes
      /\ Gone(t) /\ UNCHANGED <<starting, last, recipe, now>>
  BY DEF Exit, At, StartingInv, StartingTypeOK, Named, Serves, shared
<1>2. CASE cmd[t].failed
  <2>1. cmd' = [cmd EXCEPT ![t] = Idle]
    BY <1>2 DEF Exit
  <2> QED BY <1>1, <2>1, IdleTyped, GoneKeeps DEF Serves
<1>3. CASE ~cmd[t].failed
  <2>1. c \in Command /\ c.pc = "sync" /\ c.recipe \in Recipes /\ c.alone = cmd[t].alone
    BY <1>1 DEF Command
  <2>2. cmd' = [cmd EXCEPT ![t] = c]
    BY <1>3 DEF Exit
  <2> HIDE DEF c
  <2> QED BY <1>1, <2>1, <2>2, GoneKeeps DEF Serves
<1> QED BY <1>2, <1>3

LEMMA KilledKeeps ==
  ASSUME StartingInv, NEW t \in Terminals, Killed(t), gw' = gw
  PROVE  StartingInv'
<1>1. cmd' = [cmd EXCEPT ![t] = Idle] /\ Gone(t) /\ UNCHANGED <<starting, recipe, now>> /\ last' = None
      /\ cmd[t].pc \in {"first", "work", "recorded", "fail"}
  BY DEF Killed
<1> QED BY <1>1, IdleTyped, GoneKeeps DEF Serves

LEMMA EndsTyped ==
  ASSUME StartingInv, NEW t \in Terminals, NEW how \in {"served", "failed"}, Ends(t, how), cmd[t].recipe \in Recipes
  PROVE  /\ last' \in [how : {"served", "failed"}, recipe : Recipes] \cup {None}
         /\ last' # None => last'.how = how /\ last'.recipe = cmd[t].recipe /\ cmd[t].alone /\ thr[t]["beat"].pc = "out"
<1> DEFINE end == [how |-> how, recipe |-> cmd[t].recipe]
<1>1. end \in [how : {"served", "failed"}, recipe : Recipes] /\ end.how = how /\ end.recipe = cmd[t].recipe
  OBVIOUS
<1>2. CASE cmd[t].alone /\ thr[t]["beat"].pc = "out"
  <2>1. last' = end
    BY <1>2 DEF Ends
  <2> QED BY <1>1, <1>2, <2>1
<1>3. CASE ~(cmd[t].alone /\ thr[t]["beat"].pc = "out")
  <2>1. last' = None
    BY <1>3 DEF Ends
  <2> QED BY <2>1
<1> QED BY <1>2, <1>3

LEMMA DoneKeeps ==
  ASSUME StartingInv, NEW t \in Terminals, Done(t), gw' = gw
  PROVE  StartingInv'
<1> DEFINE c == [cmd[t] EXCEPT !.pc = "exit"]
<1>1. /\ cmd[t] \in Command /\ cmd[t].pc = "recorded" /\ cmd[t].recipe \in Recipes
      /\ UNCHANGED <<tmp, recipe, now>> /\ starting' = None /\ thr' = Moved(t, FALSE) /\ Ends(t, "served")
  BY DEF Done, At, StartingInv, StartingTypeOK, Named, Serves, shared
<1>2. c \in Command /\ c.pc = "exit" /\ c.recipe = cmd[t].recipe /\ c.alone = cmd[t].alone
  BY <1>1 DEF Command
<1>3. cmd' = [cmd EXCEPT ![t] = c]
  BY DEF Done, Goes
<1> HIDE DEF c
<1>4. /\ last' \in [how : {"served", "failed"}, recipe : Recipes] \cup {None}
      /\ last' # None => last'.how = "served" /\ cmd[t].alone /\ thr[t]["beat"].pc = "out"
  BY <1>1, EndsTyped
<1>5. /\ thr' \in [Terminals -> [Threads -> Writer]]
      /\ \A u \in Terminals, x \in Threads : thr'[u][x].pc = thr[u][x].pc
  <2>1. FALSE \in BOOLEAN
    OBVIOUS
  <2> QED BY <1>1, <2>1, MovedTyped DEF StartingInv
<1>6. cmd' \in [Terminals -> Command] /\ cmd'[t] = c /\ \A u \in Terminals \ {t} : cmd'[u] = cmd[u]
  BY <1>2, <1>3 DEF StartingInv, StartingTypeOK
<1>7. StartingTypeOK'
  BY <1>1, <1>4, <1>5, <1>6 DEF StartingInv, StartingTypeOK, File
<1>8. Named' /\ Jobs'
  BY <1>1, <1>2, <1>6 DEF StartingInv, Named, Jobs
<1>9. Quiet'
  BY <1>2, <1>5, <1>6 DEF StartingInv, Quiet
<1>10. Alone' /\ Unfailed'
  BY <1>1, <1>2, <1>6 DEF StartingInv, Alone, Unfailed
<1>11. AloneShown'
  <2>1. \A u \in Terminals : cmd'[u].alone => u = t
    BY <1>1, <1>2, <1>6 DEF StartingInv, Alone
  <2> QED BY <1>2, <1>6, <2>1 DEF AloneShown, FirstOK, WorkOK
<1>12. Ended'
  <2>1. SUFFICES ASSUME last' # None PROVE AllOver' /\ EndText'
    BY DEF Ended
  <2>2. /\ \A u \in Terminals \ {t} : cmd[u].pc = "idle" /\ \A x \in Threads : thr[u][x].pc = "out"
        /\ \A x \in Threads : thr[t][x].pc = "out"
    BY <1>1, <1>4, <2>1, ThreadsAre DEF StartingInv, Alone, Quiet, AloneShown, WorkOK
  <2>3. \A u \in Terminals : cmd'[u].pc \notin Active
    BY <1>2, <1>6, <2>2 DEF Active
  <2>4. \A u \in Terminals, x \in Threads : thr'[u][x].pc = "out"
    BY <1>5, <2>2
  <2>5. AllOver'
    BY <2>3, <2>4 DEF AllOver
  <2> QED BY <1>1, <1>4, <2>1, <2>5 DEF EndText
<1> QED BY <1>1, <1>7, <1>8, <1>9, <1>10, <1>11, <1>12 DEF StartingInv

LEMMA FailsKeeps ==
  ASSUME StartingInv, NEW t \in Terminals, Fails(t), gw' = gw
  PROVE  StartingInv'
<1> DEFINE c == [cmd[t] EXCEPT !.pc = "fail", !.failed = TRUE]
<1>1. /\ cmd[t] \in Command /\ cmd[t].pc = "work" /\ cmd[t].recipe \in Recipes
      /\ UNCHANGED <<starting, recipe, now>> /\ Opens(t, "main", TRUE) /\ Ends(t, "failed")
  BY DEF Fails, At, StartingInv, StartingTypeOK, Named, Serves, shared
<1>2. c \in Command /\ c.pc = "fail" /\ c.recipe = cmd[t].recipe /\ c.alone = cmd[t].alone
  BY <1>1 DEF Command
<1>3. cmd' = [cmd EXCEPT ![t] = c]
  BY DEF Fails, StartingInv, StartingTypeOK
<1> HIDE DEF c
<1>4. /\ last' \in [how : {"served", "failed"}, recipe : Recipes] \cup {None}
      /\ last' # None => last'.how = "failed" /\ last'.recipe = cmd[t].recipe
                           /\ cmd[t].alone /\ thr[t]["beat"].pc = "out"
  BY <1>1, EndsTyped
<1>5. cmd' \in [Terminals -> Command] /\ cmd'[t] = c /\ \A u \in Terminals \ {t} : cmd'[u] = cmd[u]
  BY <1>2, <1>3 DEF StartingInv, StartingTypeOK
<1>6. /\ tmp' \in [Terminals -> File] /\ thr' \in [Terminals -> [Threads -> Writer]]
      /\ InHand(t, "main", "failed")'
      /\ thr'[t]["beat"] = thr[t]["beat"]
      /\ \A u \in Terminals \ {t} : thr'[u] = thr[u]
  <2>1. TRUE \in BOOLEAN /\ "failed" \in {"loading", "failed"} /\ "failed" = IF TRUE THEN "failed" ELSE "loading"
    OBVIOUS
  <2>2. /\ tmp' \in [Terminals -> File] /\ thr' \in [Terminals -> [Threads -> Writer]]
        /\ InHand(t, "main", "failed")'
        /\ \A y \in Threads \ {"main"} : thr'[t][y] = thr[t][y]
        /\ \A u \in Terminals \ {t} : thr'[u] = thr[u]
    BY <1>1, <1>2, <1>5, <2>1, OpensTyped, ThreadsAre
  <2> QED BY <2>2, ThreadsAre
<1>7. StartingTypeOK'
  BY <1>1, <1>4, <1>5, <1>6 DEF StartingInv, StartingTypeOK
<1>8. Named' /\ Jobs'
  BY <1>1, <1>2, <1>5 DEF StartingInv, Named, Jobs
<1>9. Quiet'
  BY <1>2, <1>5, <1>6 DEF StartingInv, Quiet
<1>10. Alone' /\ Unfailed'
  BY <1>1, <1>2, <1>5 DEF StartingInv, Alone, Unfailed
<1>11. AloneShown'
  <2>1. \A u \in Terminals : cmd'[u].alone => u = t
    BY <1>1, <1>2, <1>5 DEF StartingInv, Alone
  <2> QED BY <1>2, <1>5, <2>1 DEF AloneShown, FirstOK, WorkOK
<1>12. Ended'
  <2>1. last' # None => Ending(t)'
    BY <1>2, <1>4, <1>5, <1>6 DEF Ending
  <2> QED BY <2>1 DEF Ended
<1> QED BY <1>1, <1>7, <1>8, <1>9, <1>10, <1>11, <1>12 DEF StartingInv

\* A step that is not a command's of serve.py.
LEMMA ApartKeeps ==
  ASSUME StartingInv, UNCHANGED <<startingVars, recipe, now>>, Jobs'
  PROVE  StartingInv'
<1>1. StartingTypeOK' /\ Named' /\ Quiet' /\ Alone' /\ Unfailed'
  BY DEF startingVars, StartingInv, StartingTypeOK, Named, Quiet, Alone, Unfailed
<1>2. AloneShown' /\ Ended'
  BY DEF startingVars, StartingInv, AloneShown, FirstOK, WorkOK, Shown, InHand, TextNow, Ended, AllOver, EndText, Ending
<1> QED BY <1>1, <1>2 DEF StartingInv

LEMMA TickKeeps ==
  ASSUME StartingInv, Tick
  PROVE  StartingInv'
<1>1. UNCHANGED <<startingVars, gw, recipe>> /\ now' = now + 1 /\ Beats
  BY DEF Tick, gatewayVars
<1>2. \A t \in Terminals, x \in Threads : thr[t][x].pc = "out"
  BY <1>1 DEF Beats
<1>3. StartingTypeOK' /\ Named' /\ Jobs' /\ Quiet' /\ Alone' /\ Unfailed' /\ now' \in Nat /\ recipe' \in Recipes \cup {None}
  BY <1>1 DEF startingVars, StartingInv, StartingTypeOK, Named, Jobs, Quiet, Alone, Unfailed
<1>4. AloneShown'
  <2>1. ASSUME NEW t \in Terminals, cmd[t].alone PROVE FirstOK(t)' /\ WorkOK(t)'
    <3>1. FirstOK(t) /\ WorkOK(t) /\ cmd[t] \in Command
      BY <2>1 DEF StartingInv, AloneShown, StartingTypeOK
    <3>2. cmd[t].pc # "first"
      BY <1>2, <3>1, ThreadsAre DEF FirstOK, InHand
    <3>3. CASE cmd[t].pc \in {"work", "recorded"}
      <4>1. Shown(t) /\ now - cmd[t].beat < Every + Late /\ now \in Nat /\ cmd[t].beat \in Nat
        BY <1>1, <3>1, <3>3 DEF WorkOK, Beats, StartingInv, Command
      <4>2. Shown(t)'
        BY <1>1, <4>1, StartingAssumption DEF startingVars, Shown
      <4> QED BY <1>1, <1>2, <3>2, <4>2, ThreadsAre DEF startingVars, FirstOK, WorkOK
    <3> QED BY <1>1, <3>2, <3>3 DEF startingVars, FirstOK, WorkOK
  <2> QED BY <1>1, <2>1 DEF AloneShown, startingVars
<1>5. Ended'
  <2>1. last # None => AllOver /\ EndText
    BY <1>2, ThreadsAre DEF StartingInv, Ended, Ending, InHand
  <2> QED BY <1>1, <2>1 DEF startingVars, Ended, AllOver, EndText
<1> QED BY <1>3, <1>4, <1>5 DEF StartingInv

\* The rack script goes on after its part.
LEMMA GoesOnKeeps ==
  ASSUME StartingInv, NEW t \in Terminals, GoesOn(t), UNCHANGED <<recipe, now>>,
         cmd[t].pc \in {"idle", "sync", "unroute"}
  PROVE  StartingInv'
<1> DEFINE c == [cmd[t] EXCEPT !.pc = "down"]
<1>1. /\ cmd[t] \in Command /\ recipe' \in Recipes \cup {None}
      /\ UNCHANGED <<starting, tmp, thr, last, now>>
      /\ DOMAIN gw' = Terminals /\ gw'[t] = None /\ \A u \in Terminals \ {t} : gw'[u] = gw[u]
  BY DEF GoesOn, StartingInv, StartingTypeOK, Jobs
<1>2. CASE cmd[t].pc = "unroute"
  <2>1. c \in Command /\ c.pc = "down" /\ c.alone = cmd[t].alone
    BY <1>1 DEF Command
  <2>2. cmd' = [cmd EXCEPT ![t] = c]
    BY <1>2 DEF GoesOn, At
  <2> HIDE DEF c
  <2> QED BY <1>1, <1>2, <2>1, <2>2, PassesKeeps DEF Serves, Active
<1>3. CASE cmd[t].pc # "unroute"
  <2>1. cmd' = [cmd EXCEPT ![t] = Idle]
    BY <1>3 DEF GoesOn, At
  <2> QED BY <1>1, <1>3, <2>1, IdleTyped, PassesKeeps DEF Serves, Active
<1> QED BY <1>2, <1>3

LEMMA GatewayKeeps ==
  ASSUME StartingInv, NEW t \in Terminals, GatewayStep(t)
  PROVE  StartingInv'
<1>1. CASE Loads(t) \/ \E do \in {"sync", "remove", "adopt"}, n \in Names \cup Hands : GatewayCommand(t, do, n)
  <2>1. UNCHANGED <<startingVars, recipe, now>> /\ DOMAIN gw' = Terminals
    BY <1>1 DEF Loads, GatewayCommand, LoadsConf, shared, StartingInv, Jobs
  <2>2. cmd[t].pc \in {"idle", "sync", "unroute"}
    BY <1>1 DEF Loads, GatewayCommand, At, StartingInv, Jobs
  <2>3. \A u \in Terminals \ {t} : gw'[u] = gw[u]
    BY <1>1 DEF Loads, GatewayCommand, LoadsConf, StartingInv, Jobs
  <2>4. Jobs'
    BY <2>1, <2>2, <2>3 DEF Jobs, StartingInv, startingVars
  <2> QED BY <2>1, <2>4, ApartKeeps
<1>2. CASE NothingRecorded(t) \/ LeavesIt(t) \/ Reloads(t) \/ TmpIsGone(t)
  <2>1. GoesOn(t) /\ UNCHANGED <<recipe, now>> /\ cmd[t].pc \in {"idle", "sync", "unroute"}
    BY <1>2 DEF NothingRecorded, LeavesIt, Reloads, TmpIsGone, GwAt, shared, StartingInv, Jobs
  <2> QED BY <2>1, GoesOnKeeps
<1>3. CASE Interrupted(t)
  <2>1. /\ UNCHANGED <<starting, tmp, thr, last, recipe, now>> /\ cmd[t].pc \in {"idle", "sync", "unroute"}
        /\ cmd' = [cmd EXCEPT ![t] = Idle] /\ recipe' \in Recipes \cup {None}
        /\ DOMAIN gw' = Terminals /\ gw'[t] = None /\ \A u \in Terminals \ {t} : gw'[u] = gw[u]
    BY <1>3 DEF Interrupted, StartingInv, Jobs
  <2> QED BY <2>1, IdleTyped, PassesKeeps DEF Serves, Active
<1>4. CASE RecordsOver(t)
  BY <1>4, RecordsKeeps DEF RecordsOver
<1>5. CASE RemovesRecord(t)
  BY <1>5, RemovesKeeps DEF RemovesRecord
<1>6. CASE SaveStep(t)
  <2>1. UNCHANGED <<startingVars, recipe, now>> /\ DOMAIN gw' = Terminals
        /\ \A u \in Terminals : gw[u] = None => gw'[u] = None
    BY <1>6 DEF SaveStep, BakOpens, Copies, BakWrites, TmpOpens, TmpWrites, Replaces, Saving, GwAt,
                shared, StartingInv, Jobs
  <2>2. Jobs'
    BY <2>1 DEF Jobs, StartingInv, startingVars
  <2> QED BY <2>1, <2>2, ApartKeeps
<1> QED BY <1>1, <1>2, <1>3, <1>4, <1>5, <1>6 DEF GatewayStep

LEMMA CommandedKeeps ==
  ASSUME StartingInv, NEW t \in Terminals, Commanded(t)
  PROVE  StartingInv'
<1>1. CASE gw[t] = None /\ UNCHANGED gatewayVars /\ (Down(t) \/ \E c \in Recipes : Up(t, c))
  BY <1>1, UpKeeps, DownKeeps DEF gatewayVars
<1>2. CASE UpStep(t) /\ UNCHANGED gatewayVars
  BY <1>2, BeatKeeps, DoneKeeps, FailsKeeps, DetachesKeeps, ExitKeeps, KilledKeeps, FlushKeeps, ReplaceKeeps
     DEF gatewayVars, UpStep
<1>3. CASE GatewayStep(t)
  BY <1>3, GatewayKeeps
<1> QED BY <1>1, <1>2, <1>3 DEF Commanded

\* The gate leaves the record and the time.
LEMMA GateLeaves ==
  ASSUME GateStep
  PROVE  UNCHANGED <<recipe, now>>
<1> USE DEF shared
<1>1. ASSUME NEW r \in Requests, Handler(r) PROVE UNCHANGED <<recipe, now>>
  BY <1>1 DEF Handler, Arrive, Stat, Load, Resolve, Upstream, Reply, StreamEnds, StreamBreaks, CountTokens,
              Chunk, Routes, Kept, Asked, Store, Listed
<1>2. ASSUME NEW t \in Terminals, KeyCommand(t) PROVE UNCHANGED <<recipe, now>>
  BY <1>2 DEF KeyCommand, KeyRead, KeyOpen, KeyWrite, KeyReplace
<1>3. ASSUME Around PROVE UNCHANGED <<recipe, now>>
  BY <1>3 DEF Around, EngineChanges, Edit, Leave, Restart
<1> QED BY <1>1, <1>2, <1>3 DEF GateStep

\* The other parts of the head leave all that is the commands'.
LEMMA StartingApart ==
  ASSUME [Next]_vars
  PROVE  \/ \E t \in Terminals : Commanded(t)
         \/ Tick
         \/ UNCHANGED <<startingVars, recipe, now, gw>>
<1> USE DEF shared, gatewayVars
<1>1. CASE UNCHANGED vars
  BY <1>1 DEF vars
<1>2. CASE GateStep /\ UNCHANGED <<startingVars, monitorVars, peersVars, gatewayVars>>
  BY <1>2, GateLeaves
<1>3. CASE (HandEdits \/ LiteLLMRestarts) /\ UNCHANGED <<gateVars, monitorVars, peersVars>>
  BY <1>3 DEF HandEdits, LiteLLMRestarts
<1>4. CASE (Sampler \/ Relays \/ Changes) /\ UNCHANGED <<gateVars, peersVars, gatewayVars>>
  BY <1>4 DEF Sampler, Relays, Changes, Begin, Probes, Gpus, EnginesPolled, Publish, RelayAsks, RelayHears, RelayWrites,
              NvmlChanges, DockerChanges, PortChanges
<1>5. CASE (MonitorRestarts \/ \E v \in Viewers : Views(v)) /\ UNCHANGED <<gateVars, gatewayVars>>
  BY <1>5 DEF MonitorRestarts, Restarted, Views, Cluster, Shows, PoolTakes, Says, Keeps
<1> QED BY <1>1, <1>2, <1>3, <1>4, <1>5 DEF Next

-----------------------------------------------------------------------------
(***************************************************************************)
(* The theorems.                                                           *)
(***************************************************************************)
LEMMA StartingInitially ==
  ASSUME Init
  PROVE  StartingInv
<1>1. recipe \in Recipes \cup {None} /\ now = 0
  BY ScenesAssumption DEF Init
<1>2. StartingInit /\ GatewayInit
  BY DEF Init
<1>3. Out \in Writer /\ Out.pc = "out" /\ Idle \in Command /\ Idle.pc = "idle" /\ ~Idle.alone /\ None \in File
  BY IdleTyped DEF Out, Writer, File
<1>4. StartingTypeOK
  BY <1>2, <1>3 DEF StartingInit, StartingTypeOK
<1>5. Named /\ Jobs /\ Quiet /\ Alone /\ Unfailed
  BY <1>2, <1>3 DEF StartingInit, GatewayInit, Named, Serves, Jobs, Quiet, Alone, Unfailed
<1>6. AloneShown /\ Ended
  BY <1>2, <1>3 DEF StartingInit, AloneShown, Ended
<1> QED BY <1>1, <1>4, <1>5, <1>6 DEF StartingInv

LEMMA StartingStep ==
  ASSUME StartingInv, [Next]_vars
  PROVE  StartingInv'
<1>1. CASE \E t \in Terminals : Commanded(t)
  BY <1>1, CommandedKeeps
<1>2. CASE Tick
  BY <1>2, TickKeeps
<1>3. CASE UNCHANGED <<startingVars, recipe, now, gw>>
  <2>1. Jobs'
    BY <1>3 DEF StartingInv, Jobs, startingVars
  <2> QED BY <1>3, <2>1, ApartKeeps
<1> QED BY <1>1, <1>2, <1>3, StartingApart

\* The invariant above holds in every behaviour of the head: what rack up,
\* rack down and their heartbeats do to starting.json and to its .tmp files.
THEOREM StartingInvariant == Spec => []StartingInv
<1> QED BY StartingInitially, StartingStep, PTL DEF Spec

\* starting.json, the .tmp files, the commands and their threads have their
\* types, whatever else runs on the head (Starting, in serve.py).
THEOREM StartingTyped == Spec => []StartingTypeOK
<1>1. StartingInv => StartingTypeOK
  BY DEF StartingInv
<1> QED BY <1>1, StartingInvariant, PTL

\* While a rack up works alone, read_starting says loading, and its recipe:
\* serve.py's heartbeat keeps ahead of the monitor's STARTING_STALE_S.
THEOREM LoadingIsShown == Spec => []LoadingShown
<1>1. ASSUME StartingInv, NEW t \in Terminals, cmd[t].pc \in {"work", "recorded"}, cmd[t].alone
      PROVE  ReadStarting(now) = [state |-> "loading", recipe |-> cmd[t].recipe]
  <2>1. Shown(t) /\ now \in Nat /\ cmd[t] \in Command /\ cmd[t].recipe \in Recipes
    BY <1>1 DEF StartingInv, AloneShown, WorkOK, StartingTypeOK, Named, Serves
  <2>2. /\ starting = [state |-> "loading", recipe |-> cmd[t].recipe, at |-> cmd[t].beat]
        /\ cmd[t].beat \in Nat /\ now - starting.at <= StaleAfter
    BY <2>1, StartingAssumption DEF Shown, Command
  <2>3. starting \in Texts /\ starting.state = "loading" /\ starting.recipe = cmd[t].recipe
    BY <2>1, <2>2 DEF Texts
  <2>4. ~(now - starting.at > StaleAfter)
    BY <2>1, <2>2, StartingAssumption
  <2> QED BY <2>3, <2>4 DEF ReadStarting
<1>2. StartingInv => LoadingShown
  BY <1>1 DEF LoadingShown
<1> QED BY <1>2, StartingInvariant, PTL

\* When it has ended, the file is gone or says failed, until the next command
\* (Starting.done, Starting.failed), unless its heartbeat was writing.
THEOREM EndIsShown == Spec => []EndShown
<1>1. StartingInv => EndShown
  BY DEF StartingInv, Ended, Ending, AllOver, EndText, EndShown
<1> QED BY <1>1, StartingInvariant, PTL
=============================================================================
