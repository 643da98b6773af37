------------------------------ MODULE Gateway ------------------------------
(***************************************************************************)
(* The routes rack keeps on a site's LiteLLM gateway (py/gateway.py, with  *)
(* lib/gateway.sh and the rack script around it): rack up adds the route   *)
(* of what it recorded, rack down removes it first, and people edit the    *)
(* same file by hand.  A command loads the file, works on what it loaded,  *)
(* and saves: it copies the file to .bak, writes .tmp, and renames that.   *)
(* Both names are the same for every command, and nothing is locked.       *)
(*                                                                         *)
(* The file is the sequence of its entries: the model_list: line, a route  *)
(* (its item with all its lines), the two markers, a note (comments and    *)
(* blank lines), the next section.  Indentation and the engine's key are   *)
(* left out.                                                               *)
(***************************************************************************)
EXTENDS Starting, SequencesExt

CONSTANT
  Hands    \* names people give routes of their own

ASSUME GatewayAssumption == "theirs" \notin Recipes

VARIABLES
  conf,    \* the LiteLLM config
  bak,     \* config.bak
  ctmp,    \* config.tmp, or None
  loaded,  \* the routes LiteLLM has loaded
  gw,      \* gateway.py in each terminal: what it is to do and where it is
  excused  \* history: the recipes whose routes may stay, see RoutesAccounted

gatewayVars == <<conf, bak, ctmp, loaded, gw, excused>>

ListLine == [is |-> "model_list"]
BeginMark == [is |-> "begin"]
EndMark   == [is |-> "end"]
Note      == [is |-> "note"]
Section   == [is |-> "section"]
Targets   == Recipes \cup {"theirs"}       \* where a route goes: a recipe's engine, or elsewhere
RouteTo(n, to) == [is |-> "route", name |-> n, to |-> to]
RouteLines == {RouteTo(n, to) : n \in Names \cup Hands, to \in Targets}
Lines     == RouteLines \cup {ListLine, BeginMark, EndMark, Note, Section}
IsRoute(x) == x.is = "route"

-----------------------------------------------------------------------------
(***************************************************************************)
(* gateway.py.                                                             *)
(***************************************************************************)
Where(c, x) == {i \in DOMAIN c : c[i] = x}

\* block(): both markers, once each and in order; neither; or they are damaged.
Marked(c)  == Where(c, BeginMark) # {} \/ Where(c, EndMark) # {}
Damaged(c) ==
  Marked(c) /\ ~\E b, e \in DOMAIN c :
                  Where(c, BeginMark) = {b} /\ Where(c, EndMark) = {e} /\ b < e
BeginAt(c) == Min(Where(c, BeginMark))
EndAt(c)   == Min(Where(c, EndMark))

\* model_list(), and ensure_block(): markers right after the model_list: line.
HasList(c) == Where(c, ListLine) # {}
ListAt(c)  == Min(Where(c, ListLine))
Ensured(c) ==
  IF Marked(c) THEN c
  ELSE InsertAt(InsertAt(c, ListAt(c) + 1, EndMark), ListAt(c) + 1, BeginMark)

\* section_end(): the list ends at the next section.
InList(c) == {i \in DOMAIN c : i > ListAt(c) /\ \A j \in ListAt(c)..i : c[j] # Section}

\* items() between the markers, and outside(): the routes of a name.
Between(c) == IF Marked(c) THEN {i \in DOMAIN c : BeginAt(c) < i /\ i < EndAt(c)} ELSE {}
Called(c, name) == {i \in DOMAIN c : IsRoute(c[i]) /\ c[i].name = name}
Inside(c, name)  == Called(c, name) \cap Between(c)
Outside(c, name) == (Called(c, name) \cap InList(c)) \ Between(c)

\* The managed block, the markers included, while they are whole.
Block(c) == IF Marked(c) /\ ~Damaged(c) THEN SubSeq(c, BeginAt(c), EndAt(c)) ELSE << >>

\* A route that rack down finds: in the block, the first of its name there, and
\* named for the recipe it goes to.
InItsPlace(c, i) ==
  /\ ~Damaged(c) /\ i \in Between(c) /\ c[i].name = NameOf[c[i].to]
  /\ \A k \in Inside(c, c[i].name) : i <= k

\* What sync, remove and adopt make of the file; Refused is a GatewayError.
Refused == <<>>
Synced(c, name, to) ==
  IF Damaged(c) \/ ~HasList(c) THEN Refused
  ELSE LET e == Ensured(c)
       IN CASE Outside(e, name) # {} -> Refused
            [] Outside(e, name) = {} /\ Inside(e, name) # {} ->
                 ReplaceAt(e, Min(Inside(e, name)), RouteTo(name, to))
            [] OTHER -> InsertAt(e, EndAt(e), RouteTo(name, to))

\* Mutant of Removed: it never finds the first entry.
RemovedNotFirst(c, name) ==
  CASE Damaged(c) -> Refused
    [] ~Damaged(c) /\ \A i \in Inside(c, name) : i = BeginAt(c) + 1 -> c
    [] OTHER -> RemoveAt(c, Min(Inside(c, name) \ {BeginAt(c) + 1}))

Removed(c, name) ==
  CASE Damaged(c) -> Refused
    [] ~Damaged(c) /\ Inside(c, name) = {} -> c
    [] OTHER -> RemoveAt(c, Min(Inside(c, name)))

Adopted(c, name) ==
  IF Damaged(c) \/ ~HasList(c) \/ Outside(Ensured(c), name) = {} THEN Refused
  ELSE LET e    == Ensured(c)
           i    == Min(Outside(e, name))
           rest == RemoveAt(e, i)
       IN InsertAt(rest, EndAt(rest), e[i])

-----------------------------------------------------------------------------
(***************************************************************************)
(* The commands around it.                                                 *)
(***************************************************************************)
Job == [do : {"sync", "remove", "adopt"}, name : Names \cup Hands, to : Targets,
        text : Seq(Lines),                            \* what it loaded
        pc : {"loaded", "bak", "copied", "kept", "open", "written", "saved"},
        copy : Seq(Lines),                            \* what it read for .bak
        onto : {"tmp", "conf", "gone", None},         \* where its .tmp is by now
        beside : BOOLEAN]                             \* history: it saved while another did

\* What LiteLLM loads when it starts.
RoutesOf(c) == IF HasList(c) THEN {c[i] : i \in {j \in InList(c) : IsRoute(c[j])}} ELSE {}

RecipesIn(routes) == {x.to : x \in routes} \cap Recipes
Routed(c) == RecipesIn({x \in ToSet(c) : IsRoute(x)})
Excuses(rs) == excused' = excused \cup rs

LoadsConf(t, do, name, to) ==
  gw' = [gw EXCEPT ![t] = [do |-> do, name |-> name, to |-> to, text |-> conf, pc |-> "loaded",
                               copy |-> << >>, onto |-> None, beside |-> FALSE]]

\* gateway_sync after rack up, gateway_remove before rack down: the name is
\* that of what is recorded by now.
Loads(t) ==
  /\ cmd[t].pc \in {"sync", "unroute"} /\ gw[t] = None /\ recipe # None
  /\ LoadsConf(t, IF At(t, "sync") THEN "sync" ELSE "remove", NameOf[recipe], recipe)
  /\ UNCHANGED <<conf, bak, ctmp, loaded, excused, startingVars, shared>>

\* The rack script goes on: rack up is over, rack down serves no more.
GoesOn(t) ==
  /\ gw' = [gw EXCEPT ![t] = None]
  /\ cmd' = [cmd EXCEPT ![t] = IF At(t, "unroute") THEN [cmd[t] EXCEPT !.pc = "down"] ELSE Idle]
  /\ UNCHANGED <<starting, tmp, thr, last>>

NothingRecorded(t) ==
  /\ cmd[t].pc \in {"sync", "unroute"} /\ gw[t] = None /\ recipe = None
  /\ GoesOn(t)
  /\ UNCHANGED <<conf, bak, ctmp, loaded, excused, shared>>

\* rack gateway sync, remove and adopt, in a terminal.
GatewayCommand(t, do, name) ==
  /\ At(t, "idle") /\ gw[t] = None /\ Spends("told")
  /\ do = "sync" => recipe # None /\ name = NameOf[recipe]
  /\ LoadsConf(t, do, name, IF do = "sync" THEN recipe ELSE "theirs")
  /\ UNCHANGED <<conf, bak, ctmp, loaded, excused, startingVars, recipe, now>>

Made(j) ==
  CASE j.do = "sync"   -> Synced(j.text, j.name, j.to)
    [] j.do = "remove" -> Removed(j.text, j.name)
    [] OTHER           -> Adopted(j.text, j.name)

GwAt(t, pc) == gw[t] # None /\ gw[t].pc = pc
Saving(t) == gw[t] # None /\ gw[t].pc \notin {"loaded", "saved"}

\* save(): .bak is opened, and is empty.
BakOpens(t) ==
  /\ GwAt(t, "loaded") /\ Made(gw[t]) \notin {Refused, gw[t].text}
  /\ bak' = << >>
  /\ gw' = [u \in Terminals |->
       IF u = t THEN [gw[t] EXCEPT !.pc = "bak", !.beside = \E v \in Terminals : Saving(v)]
       ELSE IF Saving(u) THEN [gw[u] EXCEPT !.beside = TRUE] ELSE gw[u]]
  /\ UNCHANGED <<conf, ctmp, loaded, excused, startingVars, shared>>

\* The file is read, as it is now.
Copies(t) ==
  /\ GwAt(t, "bak")
  /\ gw' = [gw EXCEPT ![t].pc = "copied", ![t].copy = conf]
  /\ UNCHANGED <<conf, bak, ctmp, loaded, excused, startingVars, shared>>

\* What a file holds when a text is written from its start, over what another
\* command has written since it was opened: the end of a longer one stays.  A
\* text is written when its file is closed, all at once.
Overlaid(old, new) ==
  IF old \in {<< >>, new} THEN {new}
  ELSE {new} \cup {new \o SubSeq(old, k, Len(old)) : k \in 2..Len(old)}

\* Mutant of BakWrites: what was loaded is kept.
BakWritesLoaded(t) ==
  /\ GwAt(t, "copied")
  /\ bak' \in Overlaid(bak, gw[t].text)
  /\ gw' = [gw EXCEPT ![t].pc = "kept"]
  /\ UNCHANGED <<conf, ctmp, loaded, excused, startingVars, shared>>

BakWrites(t) ==
  /\ GwAt(t, "copied")
  /\ bak' \in Overlaid(bak, gw[t].copy)
  /\ gw' = [gw EXCEPT ![t].pc = "kept"]
  /\ UNCHANGED <<conf, ctmp, loaded, excused, startingVars, shared>>

\* .tmp is opened: made, or emptied under whoever has it open.
TmpOpens(t) ==
  /\ GwAt(t, "kept")
  /\ ctmp' = << >>
  /\ gw' = [gw EXCEPT ![t].pc = "open", ![t].onto = "tmp"]
  /\ UNCHANGED <<conf, bak, loaded, excused, startingVars, shared>>

\* What was made of the file that was loaded is written, wherever the file it
\* opened is by now.
TmpWrites(t) ==
  /\ GwAt(t, "open")
  /\ LET onto == gw[t].onto
     IN /\ ctmp' \in IF onto = "tmp" THEN Overlaid(ctmp, Made(gw[t])) ELSE {ctmp}
        /\ conf' \in IF onto = "conf" THEN Overlaid(conf, Made(gw[t])) ELSE {conf}
        /\ Excuses(IF onto = "conf" THEN Routed(conf') ELSE {})
  /\ gw' = [gw EXCEPT ![t].pc = "written"]
  /\ UNCHANGED <<bak, loaded, startingVars, shared>>

\* os.replace: .tmp, whoever's it is by now, takes the place of the file.
Replaces(t) ==
  /\ GwAt(t, "written") /\ ctmp # None
  /\ conf' = ctmp /\ ctmp' = None
  /\ gw' = [u \in Terminals |->
       IF u = t THEN [gw[t] EXCEPT !.pc = "saved"]
       ELSE IF ~Saving(u) THEN gw[u]
       ELSE CASE gw[u].onto = "tmp"  -> [gw[u] EXCEPT !.onto = "conf"]
              [] gw[u].onto = "conf" -> [gw[u] EXCEPT !.onto = "gone"]
              [] OTHER               -> gw[u]]
  /\ LET j == gw[t]
         late == j.to # recipe \/ \E u \in Terminals : cmd[u].pc \in {"unroute", "down"}
     IN Excuses((IF j.do = "sync" /\ late THEN {j.to} ELSE {})
                  \cup (IF j.beside THEN Routed(ctmp)
                        ELSE IF j.text # conf THEN Routed(j.text) ELSE {}))
  /\ UNCHANGED <<bak, loaded, startingVars, shared>>

\* Another has renamed it: the save fails, after which rack down goes on, and
\* rack up is over.
TmpIsGone(t) ==
  /\ GwAt(t, "written") /\ ctmp = None
  /\ GoesOn(t)
  /\ Excuses(IF At(t, "unroute") THEN Routed(conf) \cup RecipesIn(loaded) ELSE {})
  /\ UNCHANGED <<conf, bak, ctmp, loaded, shared>>

\* Unchanged, or refused: then rack down goes on, and rack up is over.
LeavesIt(t) ==
  /\ GwAt(t, "loaded") /\ Made(gw[t]) \in {Refused, gw[t].text}
  /\ GoesOn(t)
  /\ Excuses(IF At(t, "unroute") THEN RecipesIn(loaded \ RoutesOf(conf)) ELSE {})
  /\ UNCHANGED <<conf, bak, ctmp, loaded, shared>>

\* gateway_reload, which adopt leaves out: LiteLLM is restarted, or cannot be,
\* or that is left to people.
Reloads(t) ==
  /\ GwAt(t, "saved")
  /\ GoesOn(t)
  /\ loaded' \in (IF gw[t].do = "adopt" THEN {loaded} ELSE {RoutesOf(conf), loaded})
  /\ Excuses(RecipesIn(loaded' \ RoutesOf(conf)))
  /\ UNCHANGED <<conf, bak, ctmp, shared>>

\* A kill, or Ctrl-C in the script's part of the command: .bak and .tmp stay as
\* they are.
Interrupted(t) ==
  /\ gw[t] # None /\ Spends("kills")
  /\ gw' = [gw EXCEPT ![t] = None] /\ cmd' = [cmd EXCEPT ![t] = Idle]
  /\ Excuses(IF gw[t].pc = "saved" THEN RecipesIn(loaded \ RoutesOf(conf)) ELSE {})
  /\ UNCHANGED <<conf, bak, ctmp, loaded, starting, tmp, thr, last, recipe, now>>

\* What rack up and rack down record, as far as the routes are concerned: a
\* recipe that is replaced keeps its route, and so may one that is put down
\* while other commands run.
RecordsOver(t) ==
  /\ Records(t)
  /\ Excuses(IF recipe \in {None, cmd[t].recipe} THEN {} ELSE {recipe})
  /\ UNCHANGED <<conf, bak, ctmp, loaded, gw>>

RemovesRecord(t) ==
  /\ Removes(t)
  /\ Excuses(IF recipe = None \/ cmd[t].alone THEN {} ELSE {recipe})
  /\ UNCHANGED <<conf, bak, ctmp, loaded, gw>>

\* People edit the file, in place: a line goes, or one of theirs comes.  Who
\* edits the block has its routes in hand from then on.
HandEdits ==
  /\ Spends("rewrites")
  /\ conf' \in {RemoveAt(conf, i) : i \in DOMAIN conf}
        \cup {InsertAt(conf, i, x) : i \in 1..Len(conf) + 1, x \in {RouteTo(n, "theirs") : n \in Hands} \cup {EndMark}}
  /\ Excuses(IF Block(conf') = Block(conf) THEN {} ELSE Routed(conf))
  /\ UNCHANGED <<bak, ctmp, loaded, gw, startingVars, recipe, now>>

\* LiteLLM is restarted for a reason of its own.
LiteLLMRestarts ==
  /\ loaded # RoutesOf(conf) /\ loaded' = RoutesOf(conf)
  /\ UNCHANGED <<conf, bak, ctmp, gw, excused, startingVars, shared>>

GatewayInit ==
  /\ conf = budget.conf /\ bak = << >> /\ ctmp = None
  /\ loaded = RoutesOf(conf)
  /\ gw = [t \in Terminals |-> None]
  /\ excused = {}

SaveStep(t) ==
  BakOpens(t) \/ Copies(t) \/ BakWrites(t) \/ TmpOpens(t) \/ TmpWrites(t) \/ Replaces(t)

GatewayStep(t) ==
  \/ Loads(t) \/ NothingRecorded(t) \/ LeavesIt(t) \/ Reloads(t) \/ Interrupted(t)
  \/ SaveStep(t) \/ TmpIsGone(t)
  \/ RecordsOver(t) \/ RemovesRecord(t)
  \/ \E do \in {"sync", "remove", "adopt"}, n \in Names \cup Hands : GatewayCommand(t, do, n)

-----------------------------------------------------------------------------
\* The config, its copy and its .tmp, LiteLLM's routes and the commands at work on them
\* have their types.
GatewayTypeOK ==
  /\ conf \in Seq(Lines) /\ bak \in Seq(Lines) /\ ctmp \in Seq(Lines) \cup {None}
  /\ loaded \subseteq RouteLines
  /\ gw \in [Terminals -> Job \cup {None}]
  /\ excused \subseteq Recipes

\* What is not between the markers.
ByHand(c) ==
  IF Marked(c) THEN SubSeq(c, 1, BeginAt(c) - 1) \o SubSeq(c, EndAt(c) + 1, Len(c)) ELSE c

\* A save that no other overlaps leaves in .bak, whole, what it copied there,
\* whatever an earlier one that was killed has left in .bak and .tmp; and if
\* the file is by then as it was loaded, every line of people's own stays,
\* where it is and as it is.  No name they route by hand is routed once more by
\* a sync (save, sync, remove).  Nothing is promised of saves that overlap, of
\* an edit between the copy and the rename, which is lost, and of .bak after a
\* kill.
HandKept ==
  [][\A t \in Terminals :
       GwAt(t, "written") /\ GwAt(t, "saved")' /\ ~gw[t].beside =>
         /\ bak' = gw[t].copy
         /\ gw[t].text = conf /\ gw[t].do # "adopt" => ByHand(conf') = ByHand(conf)
         /\ gw[t].do = "sync" => Outside(conf', gw[t].name) = {}]_gatewayVars

\* A gateway lists no model that rack has stopped: rack's routes, in the file
\* and in LiteLLM, go to the recipe that is recorded.  Excused are: a recipe
\* that another one has replaced, or that was put down while other commands
\* ran; the routes in a block that people have edited; and what a save over
\* somebody's edit, two saves at once, a failed restart of LiteLLM or an
\* interrupted command have left (gateway_sync, gateway_remove, gateway_reload,
\* save).
RoutesAccounted ==
  Routed(conf) \cup RecipesIn(loaded) \subseteq {recipe} \cup excused
=============================================================================
