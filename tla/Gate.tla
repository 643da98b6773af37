-------------------------------- MODULE Gate --------------------------------
(***************************************************************************)
(* rack gate (gate/rackgate.py, gate/rack-gate.sh): the rack's front door. *)
(* Each request has a thread of its own.  It reads what is on disk when it *)
(* needs it: the keys (again when the file has changed), the routes of     *)
(* serving.json and gate.json, the models the engines name (kept for       *)
(* LiveEvery).  Then it asks one engine and passes the answer on, an       *)
(* engine's stream translated by Stream.  Keys are added and removed by    *)
(* commands in other terminals; engines come, go and break off; clients    *)
(* leave; the gate is restarted.                                           *)
(*                                                                         *)
(* Left out: the translation of whole requests and answers (to_openai,     *)
(* from_openai), token counts, the wording of errors.                      *)
(***************************************************************************)
EXTENDS Rack, Stream

CONSTANTS
  Requests,    \* one connection each
  Asks,        \* what they may ask: [path, key, asked, stream, body, want]
  Keys, ClientOf, MayUse,    \* a key's client, and the public names it may use
  ModelOf,                   \* what a recipe's engine serves
  Here,                      \* the address of the rack's engine
  Engines,                   \* all addresses
  Configs,     \* gate.json: [routes, aliases]
  Commands,    \* rack gate key: [do, key, replace]
  Inodes,
  LiveEvery, AskMax          \* the cache's time, and the time-out of the question

ASSUME GateAssumption ==
  /\ Here \in Engines
  /\ LiveEvery \in Nat \ {0} /\ AskMax \in Nat
  /\ ModelOf \in [Recipes -> Models]
  /\ MayUse \in [Keys -> SUBSET Names]
  /\ None \notin Requests \cup Keys \cup Inodes

VARIABLES
  req,      \* each request: where its handler is and what it knows
  st,       \* the translator of a streamed answer
  live,     \* Routes.live: engine -> [at, ids, said] or None
  known,    \* Keys.by_hash (the keys in it) and Keys.stamp
  lock,     \* Keys.lock: the request that holds it, or None
  config,   \* gate.json
  names,    \* engine -> the models it names now, {} when it does not answer
  disk,     \* keys.json and keys.json.tmp: inodes, and what is in each
  term      \* the key commands

gate  == <<live, known, lock>>
files == <<config, disk>>
gateVars == <<req, st, gate, files, names, term>>

-----------------------------------------------------------------------------
(***************************************************************************)
(* Routes.                                                                 *)
(***************************************************************************)
\* Routes.all(): the recipe that is served, then gate.json's, which win.
AllRoutes ==
  LET own == {NameOf[c] : c \in {recipe} \ {None}}
  IN [n \in (DOMAIN config.routes) \cup own |->
        IF n \in DOMAIN config.routes THEN config.routes[n]
        ELSE [engine |-> Here, model |-> ModelOf[recipe]]]

\* Routes.resolve(): a route's own name, else an alias of it.
Resolved(name) ==
  LET routes == AllRoutes
      target == IF name \in DOMAIN config.aliases THEN config.aliases[name] ELSE None
  IN IF name \in DOMAIN routes THEN name
     ELSE IF target \in DOMAIN routes THEN target ELSE None

-----------------------------------------------------------------------------
(***************************************************************************)
(* A request.                                                              *)
(***************************************************************************)
Paths    == {"models", "chat", "messages", "count", "other"}
Route    == [engine : Engines, model : Models]
Statuses == {200, 400, 401, 404, 422, 429, 499, 502}
Told     == {400, 401, 403, 404, 413, 429, 500, 502, 503, 504}  \* ANTHROPIC_ERRORS

Request == [
  pc      : {"idle", "stat", "load", "resolve", "call", "reply", "stream", "routes", "list", "ask",
             "store", "done", "killed"},
  ask     : Asks \cup {None},
  stamp   : Nat \cup {None},              \* of keys.json, when it was looked at
  who     : Keys \cup {None},             \* the client, once let in
  route   : Route \cup {None},
  left    : SUBSET (Names \X Route),      \* a list: the routes still to look at
  ids     : SUBSET Names,                 \* the names that are listed
  since   : Nat,                          \* the time an engine was asked
  answer  : [ids : SUBSET Models, said : Nat] \cup {None},
  want    : Nat, tries : 0..1,            \* max_tokens, and whether it was refitted
  sent    : Seq(Statuses),                \* the status lines the client has got
  got     : {"nothing", "part", "whole"},
  rows    : Seq(Statuses),                \* usage
  logged  : BOOLEAN,                      \* the disk takes the usage row
  gone    : BOOLEAN,                      \* the client has left
  ever    : SUBSET Keys, through : SUBSET Keys, torn : BOOLEAN,   \* see Watch
  oldest  : Nat, waits : Nat, age : Nat,  \* see Takes, Kept, Listed
  trouble : {"none", "http", "refused", "timeout", "reset", "left", "odd"}]

\* What is asked, what gate.json routes, and what is told to rack gate key; and
\* there is a free inode for every command that creates a file.
ASSUME InputsAssumption ==
  /\ \A a \in Asks : a.path \in Paths /\ a.key \in Keys \cup {None} /\ a.want \in Nat
  /\ \A c \in Configs : DOMAIN c.routes \subseteq Names /\ \A n \in DOMAIN c.routes : c.routes[n] \in Route
  /\ \A c \in Commands : c.key \in Keys
  /\ None \notin Route \cup Asks
  /\ IsFiniteSet(Terminals) /\ IsFiniteSet(Inodes) /\ Cardinality(Inodes) > Cardinality(Terminals)

NoRequest == [
  pc |-> "idle", ask |-> None, stamp |-> None, who |-> None, route |-> None, left |-> {}, ids |-> {},
  since |-> 0, answer |-> None, want |-> 0, tries |-> 0, sent |-> << >>, got |-> "nothing", rows |-> << >>,
  logged |-> TRUE, gone |-> FALSE, ever |-> {}, through |-> {}, torn |-> FALSE, oldest |-> 0, waits |-> 0,
  age |-> 0, trouble |-> "none"]

Is(r, pc) == req[r].pc = pc

Becomes(r, rec) == req' = [req EXCEPT ![r] = rec]

\* send_json, send_response: one status line, and the answer with it.
Sends(q, code) == [q EXCEPT !.sent = Append(q.sent, code), !.got = "whole", !.pc = "done"]

\* Mutant of Refuses: it answers whatever has been sent.
RefusesAlways(q, code) == Sends(q, code)

\* error(): silent once an answer has begun.
Refuses(q, code) == IF q.sent # << >> THEN [q EXCEPT !.pc = "done"] ELSE Sends(q, code)

\* Usage.record, which says nothing of a disk that refuses the row.
Record(q, status) == IF q.logged THEN [q EXCEPT !.rows = Append(q.rows, status)] ELSE q

\* Mutant of Row: the 200 is not filled in.
RowNoDefault(q, status) ==
  LET d == [q EXCEPT !.pc = "done"]
  IN IF q.ask.path = "count" THEN d ELSE Record(d, IF status = 200 THEN None ELSE status)

\* finally: the usage row; a row without a status says 200.
Row(q, status) ==
  LET d == [q EXCEPT !.pc = "done"]
  IN IF q.ask.path = "count" THEN d ELSE Record(d, status)

\* What can go wrong with an engine or a client: an HTTP error, no connection,
\* a time-out, a connection that is reset, and what do_POST does not catch (an
\* answer cut short, one that is not JSON).
Trouble ==
  [is : {"http"}, code : {400, 404, 422, 429}] \cup [is : {"refused", "timeout", "reset", "odd"}]

\* Mutant of Excepts: a client that has left is not told apart.
ExceptsNoLeft(q, e) ==
  LET t == [q EXCEPT !.trouble = e.is]
  IN CASE e.is = "http" -> Row(Refuses(t, IF e.code \in Told THEN e.code ELSE 502), e.code)
       [] e.is \in {"refused", "timeout"} -> Row(Refuses(t, 502), 502)
       [] OTHER -> Row(t, 200)

\* do_POST's except clauses.
Excepts(q, e) ==
  LET t == [q EXCEPT !.trouble = e.is]
  IN CASE e.is = "http" -> Row(Refuses(t, IF e.code \in Told THEN e.code ELSE 502), e.code)
       [] e.is \in {"refused", "timeout"} -> Row(Refuses(t, 502), 502)
       [] e.is \in {"reset", "left"} -> Row(t, 499)
       [] e.is = "odd" -> Row(t, 200)

\* A write to a client that has left may still succeed, or raises.
Broken == [is |-> "left"]
WritesOr(r, q, okay) ==
  \/ Becomes(r, okay)
  \/ q.gone /\ Becomes(r, Excepts(q, Broken))

-----------------------------------------------------------------------------
(***************************************************************************)
(* Keys.                                                                   *)
(***************************************************************************)
\* What json.loads finds in keys.json; NotJson is not JSON.
NotJson == {None}
FileData == [rows : (SUBSET Keys) \cup {NotJson}, stamp : Nat]
KeysRows == disk.data[disk.keys].rows
KeysFile == IF KeysRows = NotJson THEN {} ELSE KeysRows

\* History: what keys.json has held while a request was let in.
Watch(rows) ==
  [r \in Requests |->
    IF req[r].pc \in {"stat", "load"}
    THEN [req[r] EXCEPT !.ever = req[r].ever \cup (rows \ NotJson), !.through = req[r].through \cap rows,
                        !.torn = req[r].torn \/ rows = NotJson]
    ELSE req[r]]

\* do_GET and do_POST, to the point where they look at the key.
Arrive(r) ==
  /\ Is(r, "idle")
  /\ budget.asks[r] # None
  /\ budget' = [budget EXCEPT !.asks[r] = None]
  /\ LET a == budget.asks[r]
         q == [NoRequest EXCEPT !.ask = a, !.want = a.want, !.ever = KeysFile, !.through = KeysFile,
                                !.torn = (KeysRows = NotJson)]
     IN Becomes(r, CASE a.path = "other"                   -> Sends(q, 404)
                     [] a.path # "other" /\ a.key = None -> Sends(q, 401)
                     [] OTHER                              -> [q EXCEPT !.pc = "stat"])
  /\ UNCHANGED <<st, gate, files, names, term, recipe, now>>

\* Keys._load: the file's stamp is taken first, under the lock.
Stat(r) ==
  /\ Is(r, "stat")
  /\ lock = None
  /\ lock' = r
  /\ Becomes(r, [req[r] EXCEPT !.pc = "load", !.stamp = disk.data[disk.keys].stamp])
  /\ UNCHANGED <<st, live, known, files, names, term, shared>>

\* Mutant of Load: the file is looked at only for a key that is not known.
LoadOnlyUnknown(r) ==
  /\ Is(r, "load")
  /\ LET q    == req[r]
         rows == IF q.ask.key \in known.rows \/ KeysRows = NotJson THEN known.rows ELSE KeysRows
     IN /\ known' = [rows |-> rows, stamp |-> q.stamp]
        /\ Becomes(r, IF q.ask.key \notin rows THEN Sends(q, 401)
                      ELSE [q EXCEPT !.who = q.ask.key,
                                     !.pc = IF q.ask.path = "models" THEN "routes" ELSE "resolve"])
  /\ lock' = None
  /\ UNCHANGED <<st, live, files, names, term, shared>>

\* Then, if it is another one, the file is read; what is not JSON leaves the
\* keys as they were.  Keys.client: the key's client, or 401.
Load(r) ==
  /\ Is(r, "load")
  /\ LET q    == req[r]
         rows == IF q.stamp = known.stamp \/ KeysRows = NotJson THEN known.rows ELSE KeysRows
     IN /\ known' = [rows |-> rows, stamp |-> q.stamp]
        /\ Becomes(r, IF q.ask.key \notin rows THEN Sends(q, 401)
                      ELSE [q EXCEPT !.who = q.ask.key,
                                     !.pc = IF q.ask.path = "models" THEN "routes" ELSE "resolve"])
  /\ lock' = None
  /\ UNCHANGED <<st, live, files, names, term, shared>>

-----------------------------------------------------------------------------
(***************************************************************************)
(* POST.                                                                   *)
(***************************************************************************)
\* body(), then the route the name stands for, if the key may use it.
Resolve(r) ==
  /\ Is(r, "resolve")
  /\ LET q    == req[r]
         name == Resolved(q.ask.asked)
     IN \E logged \in BOOLEAN :
        Becomes(r, CASE ~q.ask.body -> Sends(q, 400)
                     [] q.ask.body /\ (name = None \/ name \notin MayUse[q.who]) -> Sends(q, 404)
                     [] OTHER -> [q EXCEPT !.route = AllRoutes[name], !.pc = "call", !.logged = logged])
  /\ UNCHANGED <<st, gate, files, names, term, shared>>

\* refit_after: what the engine's refusal leaves for the answer, if that helps.
RefitAfter(q, room) == q.ask.path = "messages" /\ q.tries = 0 /\ room >= 1 /\ room < q.want

\* upstream(): the engine answers, refuses, or fails.  messages() asks again,
\* once, with the room a window refusal leaves.
Upstream(r) ==
  /\ Is(r, "call") /\ req[r].ask.path # "count"
  /\ LET q == req[r]
     IN \/ /\ q.route.model \in names[q.route.engine]
           /\ IF q.ask.stream
              THEN WritesOr(r, q, [q EXCEPT !.sent = Append(q.sent, 200), !.got = "part", !.pc = "stream"])
              ELSE Becomes(r, [q EXCEPT !.pc = "reply"])
           /\ st' = [st EXCEPT ![r] = NewStream]
        \/ /\ \E room \in 0..q.want :
                IF RefitAfter(q, room) THEN Becomes(r, [q EXCEPT !.want = room, !.tries = 1])
                ELSE Becomes(r, Excepts(q, [is |-> "http", code |-> 400]))
           /\ UNCHANGED st
        \/ /\ \E e \in Trouble : Becomes(r, Excepts(q, e))
           /\ UNCHANGED st
  /\ UNCHANGED <<gate, files, names, term, shared>>

\* An answer that is not a stream is read whole, then sent.
Reply(r) ==
  /\ Is(r, "reply")
  /\ \/ WritesOr(r, req[r], Row(Sends(req[r], 200), 200))
     \/ \E e \in Trouble : e.is \in {"timeout", "reset", "odd"} /\ Becomes(r, Excepts(req[r], e))
  /\ UNCHANGED <<st, gate, files, names, term, shared>>

\* messages(): one more chunk of the engine's stream, translated and sent.
Chunk(r, p) ==
  /\ Is(r, "stream") /\ req[r].ask.path = "messages"
  /\ Spends("chunks")
  /\ \/ st' = [st EXCEPT ![r] = Feed(st[r], p)] /\ UNCHANGED req
     \/ req[r].gone /\ Becomes(r, Excepts(req[r], Broken)) /\ UNCHANGED st
  /\ UNCHANGED <<gate, files, names, term, recipe, now>>

\* The engine's stream is over: [DONE], or just its end, which may be where
\* the engine died.  A passthrough has relayed the lines as they came.
StreamEnds(r) ==
  /\ Is(r, "stream")
  /\ \/ /\ Becomes(r, Row([req[r] EXCEPT !.got = "whole"], 200))
        /\ st' = IF req[r].ask.path = "messages" THEN [st EXCEPT ![r] = End(st[r])] ELSE st
     \/ req[r].gone /\ Becomes(r, Excepts(req[r], Broken)) /\ UNCHANGED st
  /\ UNCHANGED <<gate, files, names, term, shared>>

\* Or it breaks, and what the client has got just ends.
StreamBreaks(r) ==
  /\ Is(r, "stream")
  /\ \E e \in Trouble : e.is \in {"timeout", "reset", "odd"} /\ Becomes(r, Excepts(req[r], e))
  /\ UNCHANGED <<st, gate, files, names, term, shared>>

\* count_tokens: the engine's count, or an estimate whatever goes wrong, and
\* be it that the count could not be sent, or not all of it.
CountTokens(r) ==
  /\ Is(r, "call") /\ req[r].ask.path = "count"
  /\ LET q == req[r]
         half == [q EXCEPT !.sent = Append(q.sent, 200), !.got = "part"]
     IN \/ Becomes(r, Row(Sends(q, 200), 200))
        \/ q.gone /\ \E tried \in {q, half} :
             Becomes(r, Row(Sends(tried, 200), 200)) \/ Becomes(r, Excepts(tried, Broken))
  /\ UNCHANGED <<st, gate, files, names, term, shared>>

-----------------------------------------------------------------------------
(***************************************************************************)
(* GET /v1/models.                                                         *)
(***************************************************************************)
\* Routes.all(): the routes this list will be about.
Routes(r) ==
  /\ Is(r, "routes")
  /\ Becomes(r, [req[r] EXCEPT !.pc = "list", !.left = {<<n, AllRoutes[n]>> : n \in DOMAIN AllRoutes},
                               !.oldest = now])
  /\ UNCHANGED <<st, gate, files, names, term, shared>>

NextRoute(q) == CHOOSE x \in q.left : TRUE

\* A route is listed when its engine names its model.  History: when the oldest
\* answer used was given.
Takes(q, ids, said) ==
  LET x == NextRoute(q)
  IN [q EXCEPT !.pc = "list", !.left = q.left \ {x},
               !.ids = IF x[2].model \in ids THEN q.ids \cup {x[1]} ELSE q.ids,
               !.oldest = IF said < q.oldest THEN said ELSE q.oldest]

\* Mutant of Kept: one more moment.
KeptLonger(r) ==
  /\ Is(r, "list") /\ req[r].left # {}
  /\ LET q   == req[r]
         hit == live[NextRoute(q)[2].engine]
     IN Becomes(r, IF hit # None /\ now - hit.at <= LiveEvery THEN Takes(q, hit.ids, hit.said)
                   ELSE [q EXCEPT !.pc = "ask", !.since = now, !.waits = q.waits + 1])
  /\ UNCHANGED <<st, gate, files, names, term, shared>>

\* engine_models: the answer that is kept, while it is young enough; else the
\* engine is asked, outside the lock, from this time on.  History: how often a
\* list has had to ask.
Kept(r) ==
  /\ Is(r, "list") /\ req[r].left # {}
  /\ LET q   == req[r]
         hit == live[NextRoute(q)[2].engine]
     IN Becomes(r, IF hit # None /\ now - hit.at < LiveEvery THEN Takes(q, hit.ids, hit.said)
                   ELSE [q EXCEPT !.pc = "ask", !.since = now, !.waits = q.waits + 1])
  /\ UNCHANGED <<st, gate, files, names, term, shared>>

\* The engine answers, or fails to: then it names nothing.
Asked(r) ==
  /\ Is(r, "ask")
  /\ \E ids \in {names[NextRoute(req[r])[2].engine], {}} :
       Becomes(r, [req[r] EXCEPT !.pc = "store", !.answer = [ids |-> ids, said |-> now]])
  /\ UNCHANGED <<st, gate, files, names, term, shared>>

\* The answer is kept with the time it was asked for, over whatever is there.
Store(r) ==
  /\ Is(r, "store")
  /\ LET q == req[r]
     IN /\ live' = [live EXCEPT ![NextRoute(q)[2].engine] =
                      [at |-> q.since, ids |-> q.answer.ids, said |-> q.answer.said]]
        /\ Becomes(r, Takes(q, q.answer.ids, q.answer.said))
  /\ UNCHANGED <<st, known, lock, files, names, term, shared>>

\* The list, of the models the key may use.  History: how old the oldest answer
\* in it is by now.
Listed(r) ==
  /\ Is(r, "list") /\ req[r].left = {}
  /\ Becomes(r, [Sends(req[r], 200) EXCEPT !.ids = req[r].ids \cap MayUse[req[r].who],
                                           !.age = now - req[r].oldest])
  /\ UNCHANGED <<st, gate, files, names, term, shared>>

-----------------------------------------------------------------------------
(***************************************************************************)
(* rack gate key: keys.json is read, changed, written to keys.json.tmp and *)
(* renamed.  Both names are shared by every terminal.                      *)
(***************************************************************************)
Terminal == [pc : {"idle", "read", "opened", "torn", "mixed", "written"}, cmd : Commands \cup {None},
             rows : SUBSET Keys, fd : Inodes \cup {None}]
NoCommand == [pc |-> "idle", cmd |-> None, rows |-> {}, fd |-> None]

Stamps == disk.clock + 1   \* a write gives its file a modification time of its own

Written(rows) == [rows |-> rows, stamp |-> Stamps]

\* A free inode for a file that is created.
FreeInodes == Inodes \ ({disk.keys, disk.tmp} \cup {term[t].fd : t \in Terminals})

TermIs(t, rec) == term' = [term EXCEPT ![t] = rec]

\* The file is read (one that is not JSON counts as no clients at all), and
\* the command refuses, or knows the rows to write.
KeyRead(t, c) ==
  /\ term[t].pc = "idle"
  /\ Spends("commands")
  /\ LET rows  == KeysFile
         named == {k \in rows : ClientOf[k] = ClientOf[c.key]}
     IN TermIs(t, CASE c.do = "add" /\ named # {} /\ ~c.replace -> NoCommand
                  [] c.do = "rm"  /\ named = {}               -> NoCommand
                  [] OTHER -> [pc |-> "read", cmd |-> c, fd |-> None,
                               rows |-> (rows \ named) \cup (IF c.do = "add" THEN {c.key} ELSE {})])
  /\ UNCHANGED <<req, st, gate, files, names, recipe, now>>

\* Another command writes to the file in which one of them is half-way.
Mixed(t, i) ==
  [u \in Terminals |-> IF u # t /\ term[u].pc = "torn" /\ term[u].fd = i
                       THEN [term[u] EXCEPT !.pc = "mixed"] ELSE term[u]]

\* os.open with O_CREAT and O_TRUNC: the .tmp of another command, if it is
\* there, is emptied and shared.
KeyOpen(t) ==
  /\ term[t].pc = "read"
  /\ LET i == IF disk.tmp = None THEN CHOOSE x \in FreeInodes : TRUE ELSE disk.tmp
     IN /\ disk' = [disk EXCEPT !.tmp = i, !.clock = Stamps, !.data[i] = Written({})]
        /\ term' = [Mixed(t, i) EXCEPT ![t].pc = "opened", ![t].fd = i]
        /\ req' = IF i = disk.keys THEN Watch({}) ELSE req
  /\ UNCHANGED <<st, gate, config, names, shared>>

\* The rows reach the file in one write or in two, each from where this
\* command's last one ended: over what another has written meanwhile, whose
\* end may stay behind a shorter text.
KeyWrite(t) ==
  /\ term[t].pc \in {"opened", "torn", "mixed"}
  /\ LET i     == term[t].fd
         mine  == term[t].rows
         stays == \/ term[t].pc = "mixed"
                  \/ term[t].pc = "opened" /\ disk.data[i].rows \notin {{}, mine}
     IN \E rows \in {mine, NotJson}, pc \in {"torn", "written"} :
          /\ IF pc = "torn" THEN term[t].pc = "opened" /\ rows = NotJson ELSE rows = mine \/ stays
          /\ disk' = [disk EXCEPT !.clock = Stamps, !.data[i] = Written(rows)]
          /\ term' = [Mixed(t, i) EXCEPT ![t].pc = pc]
          /\ req' = IF i = disk.keys THEN Watch(rows) ELSE req
  /\ UNCHANGED <<st, gate, config, names, shared>>

\* os.replace: the .tmp, whoever's it is by now, becomes keys.json; without
\* one the command fails.
KeyReplace(t) ==
  /\ term[t].pc = "written"
  /\ TermIs(t, NoCommand)
  /\ IF disk.tmp = None THEN UNCHANGED <<disk, req>>
     ELSE /\ disk' = [disk EXCEPT !.keys = disk.tmp, !.tmp = None]
          /\ req' = Watch(disk.data[disk.tmp].rows)
  /\ UNCHANGED <<st, gate, config, names, shared>>

-----------------------------------------------------------------------------
(***************************************************************************)
(* Everything around it.                                                   *)
(***************************************************************************)
\* An engine starts, stops, or serves something else.
EngineChanges(e, ids) ==
  /\ Spends("swaps")
  /\ names[e] # ids /\ names' = [names EXCEPT ![e] = ids]
  /\ UNCHANGED <<req, st, gate, files, term, recipe, now>>

\* gate.json is edited.
Edit(c) ==
  /\ Spends("edits")
  /\ config # c /\ config' = c
  /\ UNCHANGED <<req, st, gate, names, disk, term, recipe, now>>

Leave(r) ==
  /\ Spends("leaves")
  /\ req[r].pc \notin {"idle", "done"} /\ ~req[r].gone
  /\ Becomes(r, [req[r] EXCEPT !.gone = TRUE])
  /\ UNCHANGED <<st, gate, files, names, term, recipe, now>>

\* The time may go on: engines are asked for AskMax at most, and all else a
\* list does takes no time.
AskedInTime ==
  \A r \in Requests : req[r].pc \notin {"list", "store"} /\ (Is(r, "ask") => now - req[r].since < AskMax)

\* rack gate up again, or a crash and docker's restart: the threads are gone,
\* and what they knew.
Restart ==
  /\ Spends("restarts")
  /\ req' = [r \in Requests |-> IF req[r].pc \in {"idle", "done"} THEN req[r]
                                ELSE [req[r] EXCEPT !.pc = "killed"]]
  /\ live' = [e \in Engines |-> None]
  /\ known' = [rows |-> {}, stamp |-> None]
  /\ lock' = None
  /\ UNCHANGED <<st, files, names, term, recipe, now>>

GateInit ==
  /\ req = [r \in Requests |-> NoRequest]
  /\ st = [r \in Requests |-> NewStream]
  /\ live = [e \in Engines |-> None]
  /\ known = [rows |-> {}, stamp |-> None]
  /\ lock = None
  /\ config = budget.config /\ names = budget.names
  /\ LET i == CHOOSE x \in Inodes : TRUE
     IN disk = [keys |-> i, tmp |-> None, clock |-> 0,
                data |-> [x \in Inodes |-> [rows |-> IF x = i THEN budget.keys ELSE {}, stamp |-> 0]]]
  /\ term = [t \in Terminals |-> NoCommand]

Handler(r) ==
  \/ Arrive(r) \/ Stat(r) \/ Load(r)
  \/ Resolve(r) \/ Upstream(r) \/ Reply(r) \/ StreamEnds(r) \/ StreamBreaks(r) \/ CountTokens(r)
  \/ \E p \in Parts : Chunk(r, p)
  \/ Routes(r) \/ Kept(r) \/ Asked(r) \/ Store(r) \/ Listed(r)

KeyCommand(t) ==
  \/ \E c \in Commands : KeyRead(t, c)
  \/ KeyOpen(t) \/ KeyWrite(t) \/ KeyReplace(t)

Around ==
  \/ \E e \in Engines, ids \in SUBSET Models : EngineChanges(e, ids)
  \/ \E c \in Configs : Edit(c)
  \/ \E r \in Requests : Leave(r)
  \/ Restart

GateStep ==
  \/ \E r \in Requests : Handler(r)
  \/ \E t \in Terminals : KeyCommand(t)
  \/ Around

-----------------------------------------------------------------------------
(***************************************************************************)
(* What should hold.                                                       *)
(***************************************************************************)
\* Requests, translators, cache, keys, files and key commands have their types.
GateTypeOK ==
  /\ req \in [Requests -> Request]
  /\ st \in [Requests -> StreamState]
  /\ live \in [Engines -> {None} \cup [at : Nat, ids : SUBSET Models, said : Nat]]
  /\ known \in [rows : SUBSET Keys, stamp : Nat \cup {None}]
  /\ lock \in Requests \cup {None}
  /\ config \in Configs
  /\ names \in [Engines -> SUBSET Models]
  /\ disk \in [keys : Inodes, tmp : Inodes \cup {None}, clock : Nat, data : [Inodes -> FileData]]
  /\ term \in [Terminals -> Terminal]

\* Whoever is let in has a key that was in keys.json at some moment since the
\* request came, and whoever is refused a key that was not there throughout:
\* what the gate keeps of the file (its stamp, read before it) never decides
\* by a file that is gone, whatever the commands in the terminals do
\* (Keys._load, Keys.client), as long as keys.json is JSON.
KeysDecide ==
  \A r \in Requests :
    ~req[r].torn =>
      /\ req[r].who # None => req[r].who \in req[r].ever
      /\ req[r].sent = <<401>> => req[r].ask.key \notin req[r].through

\* A client is answered once: no error follows a stream that has begun, and
\* nothing is answered twice (error(), send_json, do_POST): but for a count
\* that is sent again to a client that has left (count_tokens).
OneAnswer ==
  \A r \in Requests : Len(req[r].sent) <= 1 \/ (req[r].gone /\ req[r].ask.path = "count")

\* A request that was sent to an engine, or would have been, leaves one usage
\* row if the disk takes it, any other none; and the row's status is what the
\* client was told: 200 a whole answer, unless what the engine sent could not
\* be read; 499 a client that left, or an engine that reset its connection;
\* else that error, or 502 for a status the gate does not pass on, or a stream
\* that just ends.
UsageTells ==
  \A r \in Requests :
    LET q == req[r]
    IN q.pc = "done" =>
         IF q.route = None \/ q.ask.path = "count" \/ ~q.logged THEN q.rows = << >>
         ELSE /\ Len(q.rows) = 1
              /\ CASE q.rows[1] = 200 -> (q.sent = <<200>> /\ q.got = "whole") \/ q.trouble = "odd"
                   [] q.rows[1] = 499 -> q.gone \/ q.trouble = "reset"
                   [] OTHER -> q.sent \in {<<q.rows[1]>>, <<502>>} \/ (q.sent = <<200>> /\ q.got = "part")

\* When a list of models is sent, everything it says of an engine was the
\* engine's answer less than LiveEvery ago, and what the list has itself waited
\* for other engines: also when two requests asked at once and the older answer
\* has replaced the newer one (listed, engine_models).
Recent == \A r \in Requests : req[r].age < LiveEvery + AskMax * req[r].waits

\* What a client puts together by index is what the engine said: a block holds
\* pieces of one thing only, and a tool call's pieces are all in one block, even
\* when the engine goes back and forth between its tool calls.
BlocksHoldTogether ==
  \A r \in Requests : \A x, y \in st[r].holds :
    /\ x[1] = y[1] => x[2] = y[2]
    /\ x[2] \in Tools /\ x[2] = y[2] => x[1] = y[1]

\* Each stream that is translated is a Message.
AsMessage(r) == INSTANCE Message WITH
  None <- Nothing, phase <- st[r].phase, begun <- st[r].begun, ended <- st[r].ended, open <- st[r].open,
  told <- st[r].told, orderly <- st[r].orderly

Messages ==
  /\ \A r \in Requests : AsMessage(r)!MessageInit
  /\ [][\A r \in Requests : [AsMessage(r)!MessageNext]_(AsMessage(r)!messageVars)]_gateVars
=============================================================================
