# dgx-serve in TLA+

A verification development of dgx-serve (`rack`): one command line that serves
one model at a time on a rack, a head machine and the workers its larger models
span. The modules are translated from the code at this commit; the docs are used
only for the claims that the *violation* runs refute.

1. [The system](#1-the-system): components, state, operations, what is hard
2. [Modules](#2-modules): which models what, and how it corresponds to the code
3. [Runs](#3-runs): what is checked, the bounds, the fairness
4. [Disagreements found](#4-disagreements-found)
5. [Proofs](#5-proofs)
6. [Not modelled](#6-not-modelled), [plan](#7-plan)

## 1. The system

| component | state it keeps | operations | correct when |
|---|---|---|---|
| **serve** (`py/serve.py`; `cmd_up`, `cmd_down` in `rack`) | `serving.json`; containers `serve_solo`, `serve_node`; the systemd unit; the boot unit; `starting.json` and each command's `.tmp` | `rack up [--replace]`, `rack up --boot`, `rack down`: plan a list of steps, run them in order, with a heartbeat thread beside them | one engine on a node at a time; the record names what serves; `rack down` leaves nothing; a rack up that works is seen to |
| **rack keep** (`py/keep.py`) | `keep.json`, its line in the crontab, `keep.lock` | a check every two minutes; on, off | a dead engine is served again, within limits; it stays out of the way of people |
| **memwatch** (`scripts/memwatch.sh`) | none | kills the container when memory is gone | (a fault to the others) |
| **gate** (`gate/rackgate.py`, `gate/rack-gate.sh`) | `gate.json`, `keys.json`, usage rows; a cache of the models the engines name, the keys it knows and the key file's stamp; a translator per stream | a thread per request: let in, route, ask an engine, translate between API dialects, stream; `rack gate key add`, `rm` | the key file decides who is let in; a client is answered once; usage says what it was told; a list is recent; streams are well formed |
| **fetch, hfget, pull** | `blobs/`, `.part` files, `snapshots/` | resume, verify, link | a file that is in place is complete |
| **monitor** (`monitor/rackmon.py`) | the current sample, engines it found, the count of lost GPU readings; `containers.json`, which its relay writes; answers of peers | sample, publish, relay, show the cluster | what it shows is recent; in a container it gives itself up when the GPU is lost, and only then |
| **gateway** (`py/gateway.py`, `lib/gateway.sh`) | a managed block in another program's config; its `.bak` and `.tmp`, which all commands share | sync, remove, adopt, and LiteLLM's restart | its routes are those of what serves; what people wrote stays |
| **inventory, pairing** (`lib/*.sh`) | one file per machine (`nodes/<name>.env`), authorized keys | nodes add/rm/test, pair, remote | a worker is resolved one way |
| **recipes, platform, engines, fit** | none | pure functions of files and facts | |

How they interact: `cmd_up` resolves a recipe, runs `py/serve.py up`, then
syncs the gateway, starts the monitor and turns keep on; `cmd_down` removes the
route, runs `py/serve.py down` and turns keep off. cron runs `rack keep`, which
runs `rack up --replace`. systemd runs the boot unit, which is `rack up --boot`.
Gate reads `serving.json`, and the monitor reads that and `starting.json`. All of
them meet in files, containers and units; **nothing locks the rack**: any two commands may
interleave step by step. Only two checks of rack keep exclude each other.

What is hard: the interleaving of commands, of an engine that loads, answers and
dies on its own, and of a reboot; probes that are stale when acted upon; steps
that fail, and steps whose errors are ignored; a worker that does not answer over
ssh; the record, the boot unit, the unit file, the crontab and the containers
that must agree after all of that; and rack keep's arithmetic over several days.
Around the engine: threads that share a file, a cache or a pool; a file whose stamp is
taken before it is read; answers that come late and overtake each other; an engine's
stream that goes back and forth between its tool calls; files of other people's that
are read, changed and saved with no lock.
`PROJECT.json` lists the hazards, each at its line.

## 2. Modules

### Serve: commands, engines and reboots

State: `record` (serving.json), `eng` (what is in each slot: `serve_solo` and
`serve_node` containers, the unit, an external engine), `bootUnit`/`bootOn` and
`unitFile`/`unitOn` (a unit's file, and whether it is enabled), `cron`, `keep`
(the check that has decided and not yet acted), and for each process `job` and
`pc`. Processes are the terminals (`Users`), the check's own rack up (`Keeper`)
and the boot unit's (`Booter`).

A command is what it is in the code: `PlanUp` and `PlanDown` are functions of
the recipe, the options and what was read at planning time, and return the
sequence of steps; `Executes(p)` runs the step at `pc[p]` with one action per
kind of step (`DoRm`, `DoFree`, `DoLaunch`, `DoWait`, ...), and `Goes`, `Ends`
and `SkipsToEnd` are the executor's loop, its exceptions and `Done`. Steps that
change nothing the module keeps (images, weights, mkdir, mods, the version check,
reach) are runs of one `prepare` step that may fail.

The environment: `ComesUp`, `Dies` (with the restart policy of its slot),
`Exits` (memwatch's kill, a clean exit), `Reboot`, `StepFails`, `StepIgnored`,
`LooksFree`, `Killed` and `Detach` (Ctrl-C while it waits).

What is one action and takes several system calls in the code: planning and the
start of the process; the two or three probes of one `free` step; EXTERNAL_DOWN
and the removal of the record in `do_external_first`; a `daemon-reload` with the
write before it; a reboot and the planning of the boot unit's command. The mkdir
beside a container's removal and the watchdogs' own steps are left out, as they
neither fail a plan nor touch this state (except through `Exits`).

### Keep and RestartBudget

`RestartBudget` is the abstract specification of what rack keep promises: a
clock, and a restart (`Launch`) only when the gap and the daily limit allow it.

`Keep` extends it with the rest of the state and is `decide()` to the letter over
`keep.json` (`st`: the restarts, the recipe, `firstBad`, `gaveUp`), in periods of
the check. A check sees of the engine what `Sees` gives: a share lost on a node that
cannot be asked is not counted lost, so that check takes the engine for a good one.
`Decision(seen)` is what it then decides; `Check` is the whole of `check()`: the record,
health, busy, lost shares, decide, save, and the rack up it starts, which it waits for
holding its lock (`keepUp`). Around it a person serves
(`UserUp`), stops (`UserDown`), detaches and switches keep on or off, and the engine
loads, answers, dies or loses a share (`EngineMoves`); these are coarser than in
`Serve`. `launched`, `said` and `badSince` are history: no guard reads them, except
that `launched` is also the state of the budget. `KeepsBudget == BudgetSpec` says
that `Keep` implements the budget; the refinement mapping is the identity on `now`
and `launched`, and the content of it is that `keep.json`, which is all decide()
reads, is as good as the history.

### Fetch

What `rack pull` does to the hub cache. A file's content is, chunk by chunk, whether
it is the right one at its place; a name (`blob`, `part`) refers to an inode, because
a thread goes on writing to what it has opened when the name has been renamed or
removed. Each pull has a thread per blob (`at`), whose actions are `fetch_blob` and
`download` in order: `Begin`, `Measure`, `Ask`, `Read`, `Closes`, `Verify`, `Place`,
`CheckGit`; when all are done the pull links (`LinkFile`) and writes the ref
(`WriteRef`), else it reports (`Errors`). Around them requests fail (`AskFails`),
connections break (`Breaks`), chunks arrive wrong (`ReadsWrong`), answers end short
(`Closes`), servers ignore Range (`Ask`), pulls are `Killed` and the branch moves
(`HubMoves`). One action where the code makes two calls: the size and the sha256 of
the `.part`; closing it and asking its size; the two tests whether the blob exists.
`links`, `ref` and `want` are the snapshot, the branch's ref and the commit a pull
goes by.

### HeadNode: all that runs beside the engine

`HeadNode` composes the parts below. `Rack` holds what they share: `recipe`, which is
what `serving.json` names; the clock `now`; and `budget`, the scene (see the bounds).
`Next` interleaves the gate's threads and key commands, the terminals' commands, the
sampler, the relay, the cluster views, and the people and programs around them. Time
passes for all at once, and only when nothing is due: `Beats`, `AskedInTime` and
`PeersInTime` are the time-outs of the code, and the lateness allowed to a heartbeat.

`Starting` is the class of that name in serve.py, with a whole rack up as one step of
`work` (its steps are `Serve`'s). `Detaches` is Ctrl-C in the wait: serve.py ends with 0, so
the rack script goes on to the route of what is recorded by then (`Exit`). The heartbeat and the main thread write through one
`.tmp`, named by the pid: `Opens` (which empties it), `Flush`, `Replace`. A rename
takes along a file that the other thread has open, so a writer knows where its file is
by now (`onto`), and one text over another may leave it `Torn`. `ReadStarting` is
`read_starting` of rackmon.py: loading, failed, interrupted, or nothing.

`Gateway` is gateway.py on a config that is a sequence of entries (the `model_list:`
line, the two markers, routes, notes, the next section). `Synced`, `Removed` and
`Adopted` are what the commands make of a config. A command `Loads` the file, works on
what it has loaded while people and other commands change it, and then leaves it as it is
(`LeavesIt`) or saves it. `save()` is as many actions as it has effects others can see:
`BakOpens` (which empties `.bak`), `Copies` (which reads the file as it is now), `BakWrites`,
`TmpOpens`, `TmpWrites`, `Replaces`. `.bak` and `.tmp` have one name for all commands, so a text
may come to lie over another's (`Overlaid`), a rename may take another's text along, or
leave it none to rename (`TmpIsGone`); a kill (`Interrupted`) comes between any two. The history
`beside` says that two saves overlapped. `Reloads` is LiteLLM's restart, which may fail.
`rack up` syncs after its record is written, `rack down` removes before it stops.

`Monitor` takes a sample in steps (`Begin`, `Probes` and `Gpus`, `EnginesPolled`, `Publish`),
as the sampler reads files, NVML, the ports and `starting.json` at different times.
`Boxed` is the test for `/.dockerenv`: only a monitor in a container exits when the GPU is lost. Where
there is no nvidia-smi (`"absent"`) the first sample finds that there are no fields to ask for,
and none asks again. What is recorded is taken for the kind its engine is declared
with (`KindOf`), when its port does not say. The
relay asks docker (`RelayAsks`, `RelayHears`) and writes (`RelayWrites`), which may fail.
`Peers` is the cluster view: `Cluster` submits a question per peer, `PoolTakes` gives it
a thread or the answer that is kept, `Says`, `Keeps` and `Shows` follow. The monitor that
gives itself up takes both with it (`MonitorRestarts`).

`Gate` has a record per request, whose `pc` goes through `do_GET` or `do_POST`: `Arrive`,
`Stat` and `Load` (the key file, under the lock), `Resolve`, `Upstream` (with the refit),
`Reply`, `Chunk`, `StreamEnds`, `StreamBreaks`, `CountTokens`; `Routes`, `Kept`, `Asked`,
`Store`, `Listed`. `Excepts` is do_POST's except clauses, `Row` its finally. The key
commands read, open (`O_TRUNC`), write in one or two pieces and rename; `disk` keeps
inodes apart from names, as two terminals share `keys.json.tmp`, and one's text may lie over
the other's (`Mixed`). Other fields of a request: `logged`, whether the disk took its usage row;
and history, which no guard reads: `ever`, `through` and `torn` (what the key file held while a
request was let in), `trouble`, and of a list when the `oldest` answer in it was given, how many engines
it has asked itself (`waits`), and the `age` of that oldest answer when the list is sent (`Listed`).
`CountTokens` may send a second answer after a first whose sending failed, to nobody.

`Stream` is StreamTranslator as functions of a translator's state: `Feed` a part of a
chunk, `End`. Beside the translator's own fields it keeps what the events sent so far
have told the client (`begun`, `ended`, `open`, `told`), and whether the engine is
`orderly`: it has not come back to a tool call after saying something else.

`Message` is the abstract specification of a streamed answer, as a client counts on it:
blocks begin in the order of their index, one at a time; each is ended before the next
begins and before the answer is over; what is said goes to the open block, while the
engine is orderly. `Messages` says that each translator implements it, by `INSTANCE
Message WITH` the client's part of its state; what the translator works with (`index`,
`kind`, `tools`) is not part of the mapping, which is what makes it worth checking.

`MCServe`, `MCKeep`, `MCFetch` and `MCHeadNode` give TLC its instances;
`KeepProofs` (with `RestartBudget`'s), `ServeProofs`, `FetchProofs`, `StartingProofs`,
`MonitorProofs` (with `Peers`'), `GateProofs` (the streams), `RequestProofs` (the rest of
the gate) and `GatewayProofs` hold the proofs.
An operator that is a mutant of the one after it says so in its comment; no
specification uses it.

## 3. Runs

Every run of `Serve` has a head and one worker (the least rack a cluster needs)
and bounds only the faults (`MaxFaults`: failed steps, deaths, kills, exits,
reboots); commands are unbounded. Two recipes are what a swap needs; each runtime
has its own runs so that the state space stays within minutes.

| run | instance | shows |
|---|---|---|
| `serve_docker` | solo and cluster, worker may miss what is sent to it | `TypeOK`; `NoEngineOnTop`: alone, no command starts an engine where another recipe's still is, on a node that answers its probes; `RefusesWithoutReplace`: nor takes one down unasked; `RecordTrueAlone`: what is recorded is what answers; `DownFreesHead`: rack down frees the head, and for good |
| `serve_clusters` | two clusters | `DownLeavesNothing`: after rack down nothing runs on any node and nothing returns at boot |
| `serve_external` | systemd, and external on its own port | `ExternalDealtWith`: a recorded external engine is stopped and its record gone before another engine starts |
| `serve_keep_live` | a cluster, no linger; fair | `KeepRestores`, `CommandsEnd` |
| `keep` | two; checks missed or by hand, keep switched | `TypeOK`; `Remembered`: keep.json knows every restart that counts; `KeepsBudget`, `Spaced`, `InBudget`; `Prompt`: a check that finds the engine bad past its grace, with budget left, restarts it |
| `fetch` | two commits, one pull at a time | `TypeOK`; `WholeAtDest`: an LFS file in place is whole; `RefComplete`: a branch names only what is linked and there, and what of it is of LFS is whole; `Heals`: pulling again gets the branch's commit, whatever was left behind |
| `head_node` | the head in the scenes below | gate: `KeysDecide`, `OneAnswer`, `UsageTells`, `Recent`, `BlocksHoldTogether`, `Messages` (a refinement); starting.json: `LoadingShown`, `EndShown`; monitor: `ContainersRecent`, `ModelsRecent`, `LostNotLong`, `PeersRecent`; gateway: `HandKept`, `RoutesAccounted`; `TypeOK` of all |

and five that TLC must find violated, in [section 4](#4-disagreements-found):
`serve_mixed`, `serve_down_residue`, `serve_stale_boot`, `keep_silent` and `fetch_two`.

A property that says *alone* is about a command no other command has run beside
(`alone[p]`); engines, faults, reboots and rack keep's checks still interleave with
it. With several commands at once the code promises less: a rack down that starts
between a check's look and its rack up is run over, of two rack ups one may record
what the other started, and what a rack down read is stale when a rack up runs beside
it. The hazards say so at their lines; `CommandsEnd` and `KeepRestores` are the
properties that hold of any number of commands.

The bounds of `Keep`: a grace of 2 periods (1 with a share lost), a gap of 3, a day
of 7 (5 in `keep_silent`), 2 (1) restarts a day and 9 (14) periods of clock: more
than a day passes, the window slides over two restarts and a third is refused. The
real numbers (7.5, 15, 720 periods and 3) have the same order, and the proofs
cover them.

The bounds of `Fetch`: files of one and two chunks, so that a download is cut in the
middle and resumed; one retry, so that retries run out; three faults, so that a
corrupt chunk, a kill and an error meet in one history. The proofs of the safety
properties bound none of the three. `Heals` counts on no fairness of the person: it is about the behaviours in
which a pull is started again and again.

The bounds of `HeadNode` are its scenes. All its actions are there in every behaviour,
but those that would come without end (a request, a command, a tick, an engine that
changes, a hand edit, ...) spend from `budget`, and a scene says how much there is of
each. A scene makes one group of hazards meet in full; several let commands of other
parts come between. With all of them at once the state space would be the product of the
parts, though they share no more than `serving.json`, `starting.json` and the time.

| scenes of | what meets |
|---|---|
| `KeyScenes` | two requests; two key commands in two terminals, or a command and a gate that is restarted |
| `ListScenes` | two lists, engines that change, three ticks of a cache of two; two lists of two routes, one after the other, so that what one route has kept grows old while the next is asked; a list, rack up, an edit of gate.json |
| `PostScenes` | any POST (chat or messages, streamed or not, count_tokens, no key, a key that may not, no body) with an engine that changes, an edit, a client that leaves, every failure of the engine |
| `StreamScenes` | any five parts of chunks, of two tool calls, both kinds of text, finish reasons |
| `StartingScenes` | two rack ups and a rack down in two terminals, two ticks; one rack up killed, and seven ticks, so that its file is stale and then too old |
| `MonitorScenes` | a relay that asks twice, docker that goes; three samples of ports that change twice, or of an engine that is declared and answers nothing; five samples of NVML that changes four times, twice the limit, in a container; the same on a bare machine, and three where there is no nvidia-smi; a rack up |
| `PeersScenes` | three views over one peer with two threads, past the cache's time; two views and a monitor that exits |
| `GatewayScenes` | rack up, rack down and a kill; on a managed block: rack up beside rack down, two rack ups, two commands by hand, one beside a rack down with a kill, a rack down with a hand edit and a kill; two commands and an edit, or two and a rack down, on a config whose name people have routed |

Two tool calls are what it takes to go back and forth; five parts open three blocks and
come back to the first. Two requests are what a stale write over a newer one takes, two
terminals what two writers of a file take. The intervals keep the order of the code's where one bounds another: a heartbeat every 2
(15 s), a start that is stale after 4 (120 s) and forgotten after 6 (a day); a list's
answer kept for 2 (10 s) and asked for at most 1 (4 s). A peer's answer is kept for 2 and
asked for at most 1 (1.5 s and 2.5 s): here the order differs, and the theorems cover both,
as `LoadingShown`, `EndShown` and the monitor's and the cluster view's properties are
proved for all values. Time passes for a list while it asks an engine, at most `AskMax`;
what else it does takes none, as it waits for nothing there but a lock held for moments. `Recent` counts
the waits of the list itself: a list of *n* routes may ask *n* engines, one after the other.

The run reaches 768,424 distinct states, in a minute and a half to two with two workers.

Deadlock is not checked in this run alone: a scene ends.

Fairness (`FairSpec` of `Serve`) is strong for a command's steps: it is a process
that keeps running, and a wait that could end again and again ends at its absolute deadline
at the latest (`do_wait`, 3600 s), which weak fairness would not give as the
engine flaps. It is weak for an engine that can come up, and for the check and
its rack up, which cron repeats every two minutes. People, faults and reboots
have none. `Fetch`'s is weak: a thread of the pool and the pull that waits for it run
on, as every read of the network has a timeout.

Deadlock is checked in every other run.

## 4. Disagreements found

Each is a run TLC must find violated, with the quoted claim in `PROJECT.json`.

- `serve_mixed`: an engine of another runtime that still loads is not seen by the
  guard, and a second engine starts on the machine.
- `serve_down_residue`: a solo recipe that replaced a cluster leaves the worker's
  rank running, which `rack down`, going by the record, does not stop.
- `serve_stale_boot`: the replaced cluster's boot unit takes the solo engine down
  at the next boot.
- `keep_silent`: on a later day rack keep gives up without saying so.
- `fetch_two`: with no fault at all, a second rack pull of the same model truncates the
  `.part` that the first has verified and renames: the blob in place is not whole, and
  is taken for whole from then on.

Other places where the code and what is written beside it part, or where it does less than
one would think. Most are excused by name in a property, whose comment says so; none has a
run of its own:

- **gate**: an engine that resets its connection is logged with 499, as a client that
  left (rackgate.py:616); an answer that cannot be read is logged with 200; an engine's
  stream that just stops is passed on as a whole answer with `end_turn`; the pieces of a
  tool call the engine comes back to go to a block that has been ended (382-392). Two key
  commands share `keys.json.tmp`: one may rename the other's half, and a `keys.json`
  that is not JSON counts as no clients when the next command writes.
- **starting.json**: a heartbeat that is being written when `done()` removes the file
  puts it back ("gone when it serves", serve.py:1208); with `failed()` in its place both
  threads write one `.tmp` and may leave what is not JSON. Of two rack ups, the first to
  end removes the file of the other.
- **fetch**: hfget.py:13-16 says that each file is verified and "only then lands in blobs/".
  A file of git's (a config, a tokenizer) lands there first and is checked then
  (hfget.py:152-158): killed in between, a corrupt one stays, and the next pull takes it for good and
  writes the ref. `RefComplete` therefore promises of a git file only that it is there.
- **monitor**: on a bare machine a monitor whose GPU is lost samples on without it, as
  its test says it should. The comment at rackmon.py:659 says "samples in a row"; other errors in
  between neither count nor start the count again, and a probe that fails at the start
  never counts. A sample reads `serving.json` first and `starting.json` last (943, 974), so
  one taken across the end of a rack up shows neither. What takes an engine's port is not
  probed again while something listens there; an engine of kind openai is shown
  without an error when it no longer answers. A cluster view may show an older answer
  of a peer than the view before it.
- **gateway, the save**: gateway.py:21 and docs/12-gateway.md:272 say that what is replaced is
  kept in `.bak`. An edit between the copy and the rename is lost and is not
  in `.bak`. Of two saves that overlap one may install the other's text, with a route the other has
  just taken out, or one laid over the other; or it finds no `.tmp` to rename and fails, after which
  rack down goes on with its route still there. A killed save leaves `.bak` empty or cut until the
  next. `HandKept` speaks of a save that overlaps no other, and `RoutesAccounted` excuses the rest.
- **gateway**: a recipe that is replaced leaves its route; rack down killed between its save
  and LiteLLM's restart, or a restart that fails, leaves LiteLLM listing what is
  stopped, and the next command finds the file unchanged and restarts nothing; a sync given by
  hand during rack down puts the route back. `gateway_sync`'s `die` ends rack up, where
  the comment at rack:555 says "serving goes on without it": the monitor and keep are not
  seen to then. docs/14 says a stopped model "leaves the list at once"; the gate's cache
  keeps an engine's answer for up to 10 s, and a list that is being put together is older by up to
  4 s for each engine it asks after that; `Recent` says how old at most.
- **gateway, by hand**: when a name is twice inside the managed block, or a marker has been moved,
  `remove` and `sync` touch the first item only (gateway.py:150-183).
- **rack down** with an external engine recorded leaves the unit of a rack up that
  was killed. **rack up** without `--replace` stops a recorded external engine that does
  not answer just then (`do_external_first`).

## 5. Proofs

`tlapm` checks every leaf of eight modules; between them they state every safety property
the passing runs check. One is about rack keep (`KeepProofs`), from
`BudgetAssumption` and `KeepAssumption`: times are natural numbers, the gap and
the day are positive, and the gap is no longer than the day (the list of restarts
is pruned to a day, so a longer gap would be forgotten; the defaults are half an
hour and a day), and `None` is no time and no recipe. Nothing
is assumed of the number of recipes or of the grace.

- `BudgetTypeCorrect`, `BudgetSpaced`: a launch at `now` is at least the gap from
  every earlier one, and none lies in the future.
- `BudgetInBudget`: the code counts the restarts of the day *before* a launch; the
  theorem bounds *every* window of a day. The lemma `LaunchFitsWindow` is the
  bridge: a window that contains the new restart contains, besides it, only
  restarts less than a day old.
- `KeepTypeCorrect`, `KeepRemembers`: the inductive invariant is `KInv == TypeOK
  /\ Remembered`. Types alone bound nothing, since the limits are measured on
  `keep.json`; `Remembered` says that what `keep.json` lists was done and what it
  lacks is a day old. `DecideKeepsRestarts` states, for every input, what
  `decide()` leaves.
- `KeepImplementsBudget` (`Spec => KeepsBudget`): with `Remembered` what decide()
  counts is what the budget counts (`CountsAll`), so each check that restarts is
  a `Launch`, a `Tick` is a `Pass`, and everything else stutters.
- `KeepSpacedInBudget`: hence both limits hold of rack keep itself.
- `KeepPrompt` (`Spec => []Prompt`): the grace is measured on `firstBad`, the promise
  from the check that first found the engine bad, which keep.json does not hold. The
  invariant that joins them is `Counting`: while the engine has been bad undisturbed,
  `keep.json` is about the recorded recipe and its `firstBad` is no later than that
  check. A check that misses a lost share starts the grace again, for `decide()` and for
  the promise alike: a node that answers only now and then delays the restart for good.

One is about `Serve` (`ServeProofs`), from `RackAssumption` and `NoneAssumption`: recipes have
the shape the code gives them, with at least one node, and `None` is neither an
engine nor a command. Nothing is assumed of the number of nodes, recipes,
terminals or faults.

- `ServeTypeCorrect`: a step of a command does not fit its state by
  itself, it is whatever is at `pc` in the plan of its job. `PlanType` says of every
  plan that it is a nonempty sequence of steps, and of a rack down's or a refresh's
  that no step needs a recipe; `TypeOK` is inductive with that, in the two parts
  `RackOK` (files, units, engines) and `ControlOK` (jobs and their `pc`).
- `ServeDealsWithExternal`: the inductive invariant is `XInv
  == TypeOK /\ Alone /\ Dealt`. `Alone` turns the history variable into a fact about
  the commands that run now; `Dealt` says that a command with no step left that deals
  with an external engine runs on a rack that records none. That it holds at the
  start, and until the record is written, is the order of the steps in *every* plan
  (`PlanUpOrder`): an `external-first` step if an external engine was recorded,
  nothing placed before it, and the record written after everything. The step that
  writes the record is the only one that can bring an external engine into it
  (`ExecutesShape`, `FailsShape`), and a failed or detached step never skips the
  one that stops it.
- `NoEngineIsOnTop`, `RecordIsTrueAlone`, `RefusesUnlessReplacing`, `DownHasFreedHead` and
  `DownHasLeftNothing` are about racks whose recipes are all containers (`OnlyDocker`); the
  last one also assumes that no command is lost on its way to a worker (`~Lossy`) and that all
  recipes span as many nodes (`OneSpan`). The code needs this much: its guards look at the engines of
  their own runtime only, and rack down stops those of the runtime and the nodes
  recorded. `serve_mixed` refutes `NoEngineOnTop` with a second runtime, `serve_down_residue`
  `DownLeavesNothing` with a second span. The invariant is `XInv /\ DockerInv`. What a step
  of a command has seen or done must still hold when a later step counts on it, though
  engines load, die and come back in between and the machine reboots: `Looked` says that where a rack up has looked,
  on a node that answers, only what it has started itself runs; `Stopped` that
  what a rack down has stopped stays stopped; `Unbooted` that the boot unit it removed is
  not written again; `BootReplaces` that the one rack up nobody types is one that
  replaces. The first three are about commands that run alone, and rest on two facts: the
  environment brings back only an engine that is there, and no other command acts. The lemmas
  `UpGuarded`, `GuardLooks` and `DownStops` state of every plan where its looks and stops come.

One is about `Fetch`, from `FetchAssumption` (a blob has at least one chunk, a
commit at least one file). `FetchTypeCorrect` holds of any number of pulls at once;
`FetchWhole` and `FetchComplete` of one at a time (`OnePull`), and `fetch_two` shows
that they need it. Their invariant is `FInv`: `Steady` says for each place of a thread
what its blob is like then (no blob while it downloads; a verified `.part` before the
rename; a file of git's that is still to be checked is linked nowhere), `LinkedThere`
that no linked blob is missing, `RefLinked` that the ref names linked files. `OneThread`
reduces every step to the one blob its thread works on.

Five are about `HeadNode`, and hold of its specification as a whole: whatever the other
parts do, in any scene. They assume what the modules assume of their constants, by name:
`StartingAssumption` (a heartbeat and its lateness fit into the age at which a start is
stale, which is no more than the age at which it is forgotten), `MonitorAssumption`,
`PeersAssumption`, `StreamAssumption` (`Nothing` is no number, tool or kind),
`FilesAssumption` and `SampleAssumption` (`None` is no text and no sample), `GateAssumption` and `InputsAssumption` (what is asked,
routed and typed has the shape it should have), `GatewayAssumption` (`theirs`, where the
routes of other people go, is no recipe) and `ScenesAssumption` (a scene has these bounds,
starts with values of these types, and with no route of rack's in the config but one of the
recorded recipe, where rack puts it).

- `StartingProofs`: `StartingTyped`, `LoadingIsShown`, `EndIsShown`. The property is about
  what a reader of the file sees, the reasons are in the two threads and the `.tmp` between
  them. `StartingInv` names, beside types: that a command at work has a recipe (`Named`);
  that a gateway job runs only where no part of serve.py does (`Jobs`), as they share the
  terminals; that threads write only where a rack up is (`Quiet`); `Alone`, which turns the
  history variable into a fact about the commands that run now; `AloneShown`, which says
  for each place of the program what the file says and what each thread has in hand
  (`InHand`: its text is still to be written to an empty `.tmp`, or is the `.tmp`), so that
  a rename replaces a loading file by a newer one; and `Ended`, that the last command is
  over, or its last write is on its way. `Shown` bounds the file's age by `Every + Late`.
- `MonitorProofs`: `MonitorTyped`, `ContainersAreRecent`, `ModelsAreRecent`,
  `LostNotForLong`, and of the cluster view `PeersTyped`, `PeersAreRecent`. `RelayOK` carries
  the relay's time stamp through a request that may take any time: docker said it no
  earlier than the stamp. `EnginesOK` follows an engine's names from the question through
  the samples that keep them to the one that is shown. `LostOK` says what the count of refusals
  counts: it starts only after the GPU has answered, while it is not 0 the sample shown is without
  the GPU, and while NVML refuses at most one sample more is published than is counted, the one
  that had asked before. Its bound by `Limit` is there in a container only (`Boxed`, which
  `BudgetInvariant` keeps as it is). `FutureOK` and `KeptOK` bound a question by its
  time-out and an answer in the cache by when it came: whichever answer a view is given,
  the two bounds add up, for any number of threads that overtake each other.
- `GateProofs`: `BlocksAreHeldTogether` and the refinement `StreamsAreMessages` (`Spec =>
  Messages`). `StreamOK` is an invariant of the translator: the open block is the one
  it works on (`OpenOK`); no two tool calls have one block, and a text block is no
  call's (`ToolsOK`); an orderly engine is in the block it speaks to (`SourceOK`); what a block
  holds is its call's, or a text of its kind (`HoldsOK`). `FeedOK` and `EndOK` show that
  every part of a chunk keeps it and is a `Speak` or a `Finish` of `Message`; `Streamed`
  that a stream that has said anything belongs to a request whose handler is at it or is
  over, so nothing is said to a message that is over, and none starts again.
- `RequestProofs`: `OneAnswerIsSent`, `UsageIsTold`, `ListsAreRecent`, `KeysAreDecided`
  and `GateTyped`, from one invariant, `GateSafe` (`RequestsInvariant`). `RequestOK` says for each
  place of a handler what the client has been sent (`AnswerOK`), how many rows it has left and
  what they say (`RowsOK`), which keys decided (`Decided`), and how old the answers are it works
  with: `Slack`, what a list may be late by, grows with each engine it asks, before the time
  that takes has passed, so what was kept when it was looked up may go on ageing until the list is
  sent (`AgeOK`); a handler's step keeps it for its own request (`...Proceeds`), and the steps beside it
  (a client that leaves, a tick, a key command) for all. `KeysAreDecided` needs most:
  the gate reads `keys.json` again only when its stamp has changed, so what it knows must be
  what the file held at the stamp it has seen, through two key commands
  that share `keys.json.tmp`. `FilesOK`, `KnownOK` and `LoadOK` say
  so; that a file which is written has a stamp the gate has not seen is what makes a
  skipped load harmless. `BudgetOK` keeps the stamps within the scene's bound.
- `GatewayProofs`: `RoutesAreAccounted`, `HandIsKept`, `GatewayTyped` and `HeadTyped`.
  The first part says what `sync`, `remove` and `adopt` make of *any* file (`SyncedOK`,
  `RemovedOK`, `AdoptedOK`): where the markers go, what is by hand and stays, which routes there
  are afterwards. `GatewayInv` then adds to `StartingInv`: rack's routes that are not
  excused are where rack looks for them, in the block, first of their name, under their recipe's
  name (`Placed`); a command at work on the file does what its place in the rack script says
  (`JobOK`); a rack down that is alone has loaded a file that tells it of its route, until it
  has taken it out, and goes on to the record only when LiteLLM lists it no more
  (`Unlisted`). The save adds `SaveOK`: while a save overlaps no other, `.bak` and `.tmp`
  hold what its place says (`Intact`: nothing, its copy, what it made), which at its start needs
  nothing of what an earlier one has left there; a save that does overlap says so in `beside`, and
  then what its rename installs may be anything the other wrote. `ReplacedBy` is what `HandIsKept` adds. The
  proof failed at first, rightly: a name people write twice *inside* the
  block, or a marker they move, makes `remove` and `sync` look at the first item only, and a stopped model's
  route may stay; the property excuses the routes of a block that is edited by
  hand (`HandEdits`), and rack's own leftovers only as far as LiteLLM still lists them.

Only model-checked: liveness (`KeepRestores`, `CommandsEnd`, `Heals`), which is out of the
prover's reach. `TypeOK`, `ExternalDealtWith` and all that is proved of the other modules holds of
any rack; the other five properties of `Serve` of the racks said above.

## 6. Not modelled

- **serve**: launchd (the shape of the systemd plan with another command);
  `FOREIGN_ENGINES`; `--plan`; what a step prints. A rack up's own steps are `Serve`'s and
  one step in `Starting`: no run has both in full.
- **rack**: the start of the monitor's containers in `cmd_up`; `KEEP=0`; its other commands.
- **rack keep**: a living engine whose `/health` takes more than 3 s; a clock that goes back.
- **memwatch**: its thresholds.
- **fetch**: a filesystem without symlinks, where the snapshot gets copies of the blobs
  (`LinkFile` is the symlink alone); downloads whose size is not known (engine builds) and with them HTTP 416, free
  disk space, a pull of a commit by its hash (no ref), what a power cut leaves of unwritten
  pages; a file of git's that is corrupt and killed between its rename and its check
  stays in place (a hazard in `PROJECT.json`). `pull` itself keeps no state.
- **gate**: the translation of whole requests and answers (`to_openai`, `from_openai`),
  token counts and usage figures, the wording of errors, `/health`, `rack gate up`,
  `down` and `status`. An HTTP error of an engine is one of four codes, one of
  which the gate does not pass on.
- **monitor**: the figures (cpu, memory, network, temperatures, what an engine counts), ollama,
  a Mac's sampler, tokens, the HTTP side but for the cluster view, `rack-monitor.sh`. A
  peer that dribbles its answer may take longer than its time-out, which is per read; the
  model's is of the whole question.
- **gateway**: `status`, which only reads; indentation and the engine's key in a route.
- **inventory, nodes and pairing**: shell around ssh, one file per machine
  (`nodes/<name>.env`, each written whole and renamed) and `~/.ssh/authorized_keys`; not yet.
- **recipes, fit, platform, flags**: functions of files and of the machine, with no state
  that others change while they run.
- **benchmarks and cluster scripts**: they measure, and keep no state rack reads.

## 7. Plan

1. Inventory and pairing: `inv_set` on a machine's file, the checks of `rack nodes add`
   and the writes they precede, and the keys of a paired machine.
2. `Serve`: launchd and `FOREIGN_ENGINES`; the resolution order of recipes against a
   reference definition.
3. Proofs: the five theorems about racks of containers, for racks of systemd recipes (one
   unit, one node), and `RefusesWithoutReplace` for both together; `DownLeavesNothing` when
   commands get lost, on the nodes that answered.
