# Formal models of lera-plugins

TLA+ modules for the parts of this repository whose correctness depends on the
order in which things happen: plugins for the Lera MUD client, written in Lua,
and the Python tools that audit their parity with older plugins. TLC checks the
modules on small instances and TLAPS proves some of their properties for every
instance. `PROJECT.json` maps every definition to the lines it models.

## 1. Inventory

### How the system runs

A plugin is a Lua table of hooks. The client calls them one at a time, never two
at once: GMCP frames, text triggers, timers, aliases and commands the player
types, `on_input` and `on_send` filters, `on_disconnect`, `on_load` and
`on_unload` (a hot reload is both). A callback always runs to its end. What is
concurrent is everything between two callbacks: commands on their way to the
game, frames on their way back, running timers and the player. Most frames do
not name what they answer, and most of the hard behaviour below comes from that.

Plugins find each other with `plugin.get` and call each other's functions or
subscribe to callbacks. A plugin's `store` survives a reload; its locals do not.

### Components

| Component | State | Operations | Hard behaviour |
|---|---|---|---|
| `autostepper/init.lua`, the stepper | run mode, state (idle, stepping, fighting), what is awaited, timers, a view of the room, the route left, the farm | start, stop, frames, combat end, failed attack, blocked step, timers, hand moves, disconnect, reload | unnumbered rooms; an entry, an answer and a snapshot are the same frame; late timers; a stop in mid-step |
| `autostepper/explore/mode.lua`, the explorer | map, pending directions, the way back, active or retained | start, stop, resume, discard, reset, arrive, settle, leave, next step | dead reckoning through all of the above |
| `autostepper/explore/map.lua` | rooms by coordinate, position | record, move, two breadth-first searches | ties, one-way exits, the dive fallback |
| `autostepper/areas/chaossea.lua` | none | area test, layer, completion, setup | names are shared by all rooms of a layer |
| `roominfo.lua` | the current room, contents, page accumulator, subscribers | Room.Info, Room.Contents, Room.Map | pages out of order or from the room just left; the order in which subscribers hear of a frame |
| `speedwalk.lua` | places, the current route, recording | select, take a step, record | stepping shared with the stepper |
| `guild_viking/herd_replace.lua` | a persisted marker and budget, a job in memory | step, cancel, recover, reset | a purchase and a slaughter are irreversible; save and send may fail; restarts; stale receipts |
| `guild_viking/persist.lua` | option files | save, load | which module owns which options |
| `guild_viking/protocol.lua`, `handlers/*`, `state.lua` | pages in progress, guild state | one handler per package | page reassembly; which values are fresh |
| other `guild_viking/*` | window and page state | drawing | none that spans callbacks |
| `kill_trigger.lua`, `push_notify.lua`, `deadmans.lua` | counters, limits, an idle timer | fire, rate-limit, stop automation | limits and timers against late events |
| `chat_monitor.lua`, `chat_relay.lua` | windows, a recorder | capture, record, relay | recording across reloads |
| `mapper.lua`, `mapview.lua`, `minimap.lua` | a persisted graph of rooms | learn, search, draw | stale identity of rooms |
| `wizard/*` | a file transfer, a pane | chunks out and in, acknowledge | a transfer interrupted or repeated |
| `mercenary/*`, `crafting/*`, `professions.lua`, druid and shaman | protocol caches | display, commands | little |
| status windows, `generic/*` helpers | single values | display | little |
| `tools/legacy_parity/publish.py` and the records of `state.py` | files in one or two directories, a recoveries directory | prepare, publish, verify, roll back, finalize, retire, close | one step of several failing; other writers of the same names; a kill |
| `tools/legacy_parity/issues.py` | the issue links of the staged bundle; issues on GitHub | search, create, recheck, link | an index that lags, a creation whose answer is lost, overlapping commands |
| `legacy.py`, `audit.py`, `scope.py`, `staged.py`, `manifest.py`, the rest of `state.py`, `cli.py` of `tools/legacy_parity` | selection, preliminary audits, scope proposals, approval, staged bundle, provenance | include, omit, stage, propose, approve, write provenance | revisions; files that name one another and change apart |
| `tools/legacy_parity/validation.py`, `current.py` | none of its own | read all of these, the legacy tree and the plugins; publish or refresh | everything may change between one read and the next |
| `tools/legacy_parity/compare.py` | none | what counts as evidence, aggregate status | public claims against private evidence |
| `runtime.py`, `privacy.py`, `coverage.py`, `report.py` of `tools/legacy_parity` | none | run a scenario, scan, render | none that spans steps |

### What would make each correct

* Stepper and explorer: the map is true to the maze, or given up; the run decides
  on the room the player is in; it never leaves a fight; it sends one move at a
  time; it always ends; it calls a sea finished only when it is, as far as it can
  name the monsters.
* Map: the searches find the nearest frontier and shortest way back.
* roominfo: a list is committed only from one set of pages sent for one room.
* Herd replacement: at most one slaughter and one purchase per job, the purchase
  only after the slaughter is confirmed, no command repeated after a failed save
  or a restart, and the daily exposure never understated.
* Persistence: what was saved is loaded, into the module it came from.
* File transactions: a set of files is replaced as a whole or not at all, one that
  cannot be restored does not keep the others from it, no file anybody wrote is
  destroyed, and a failure leaves nothing behind.
* Issues: one per capability, found again after an interruption, linked to its
  own.
* Parity workflow: what is published was approved, is backed by its evidence,
  names sources each of which was there, and validates afterwards.

`PROJECT.json` lists the hazards, each at its line with the properties that
cover it.

## 2. Plan

Modules in the order they are written; those marked done exist.

1. `ExploreMap` (done): the map and its searches, pure. `MapDistance` (done) says
   what they must find; `MCExploreMap` drives them through every small map;
   `ExploreMapProofs` and `SearchProofs` (done) prove them right on every map.
2. `AutoStepper` (done): stepper, explorer, area profile, roominfo's cache, the
   game, the player and the connection, composed. It extends `ExploreMap`.
   `Survey` (done) is what it implements.
3. `AutoStepperProofs` (done) for the invariants that hold of every instance, and
   `SurveyProofs` (done) for the map: see section 6.
4. `HerdReplace` (done): the saga, with saves, sends and restarts that fail, and
   the abstract `Saga` it implements. `HerdReplaceProofs` (done): every safety
   property, the types and the refinement. To come: the cull count of the
   budget, and several pens under one budget.
5. `FileTransaction` (done), with the abstract `Publication` it implements (done).
6. `IssueSync` (done): finding, creating and linking issues.
7. `ParityWorkflow` over `AuditRules` (done): the commands over their files. It
   takes a file transaction as one step, which 5 justifies, and a whole
   sync-issues as one, which 6 does.
8. `FileTransactionProofs`, `ParityWorkflowProofs` and `IssueSyncProofs` (done): see
   section 6.
9. Not written: `Pages`, the reassembly of Room.Contents and of the Viking and
   crafting packages; `Persist`, the options of seven modules; `speedwalk`,
   `kill_trigger`, `push_notify`, `deadmans` and the wizard's transfer.

Each gets its own type invariant, and runs bounded so that every kind of
interference happens at least once and the important ones twice.

## 3. The modules

### ExploreMap

A map is a record of `rooms`, a function from coordinates to sets of exits, and
`pos`. The searches of `map.lua` keep a queue, parents and a depth; here a search
is its queue, in which each room has the route by which it was first found,
computed by a recursive function, so that no RECURSIVE operator is needed.
`Expand` offers the neighbours of a room in the order of `DIR_ORDER`, as the loop
over the exits does. `Rank` is the tie-breaking of `search_frontier`. `Vertical`
is an area's own sense of up and down (the Chaos Sea counts downwards).

`MapDistance` does not search. It says which rooms are within n recorded steps of
the position, what a walk is and what the nearest frontier is; the properties of
`MCExploreMap` and the theorems about the searches are stated with it.

### AutoStepper

`client` is one record that holds the locals of `init.lua` and `mode.lua`,
roominfo's cache (`info`, `contents`), the commands on the wire and whether the
connection is up. **Each Lua function is an operator from client to client**, and
each callback is one action that applies it. `here`, `sea`, `mobs` and `combat`
are the game; `frames` is what is on its way to the client, in order.

| Variable or field | Code |
|---|---|
| `enabled`, `mode`, `state` | `enabled`, `run_mode`, `state` in init.lua |
| `arrival` | `arrival_kind` with `arrival_timer` running |
| `batch` | `step_dispatch.explore_batch` |
| `waits` | `awaiting_refresh` and the attempt number (0: none) |
| `hold_timer` | `in_flight_timer` |
| `view`, `target` | `room_key`, `room_monsters`, `room_players`, `current_target` |
| `walk` | `route_commands` and what the speedwalk still holds |
| `farm`, `farm_timer` | `chaossea_farm.enabled`, `.restart_timer` |
| `active`, `held` | `active`; a map and a profile are retained |
| `map`, `pending`, `leaving`, `leave`, `unanchored` | `map`, `pending_dirs`, `pending_leave_path`, `reset_unanchored` in mode.lua |
| `filed` | history: the room each coordinate was filed from |
| `ended` | history: why the last run ended by itself |

The game is external, modelled from what the handlers expect: a direction is taken
or blocked, with or without a line that says so; an attack by a word to which a
monster in the room answers starts a fight, and any other finds no target; a fight
ends with a frame; the player may flee from it, and then the two frames come in
either order; a frame without an attacker may come at any time; a refresh may go
unanswered; a dropped connection loses what is under way. Every such event, and
every command of the player, is counted in `spent` against `Limit`: `block` is a
block that a line tells of, `hush` one without a word, `silent` a connection that
drops with an entry on its way.

What the model abstracts: a monster is a model value. `Keyword` is the word that
the stepper calls it by, which may be a guess (the first word of the vocabulary),
and `Answers` the words it answers to; both are constants, so that how the
vocabulary is searched is left out and what a wrong guess does is not. The
contents list carries monsters, whether there are players and whether it was
truncated; the cask is a property of the room; messages, dumps and notifications
are left out. Two operators have no line of their own: `Blank` is the part common
to `reset` and `discard`, `EndRun` the part common to the ends of a run.

`Eager` separates two players. A patient one (FALSE) starts a fresh map only
when the game has caught up, resumes only when earlier refreshes have been
answered, and types no direction while a fresh run awaits its first room. All
runs have that player; what the other one meets is told in section 5.

`Numbered` says whether the game numbers its rooms. The Chaos Sea does not.
StepperSessions numbers them, because it also walks a stored route: where rooms
have neither number nor coordinate a route's view is keyed by the room's name
alone, and init.lua documents that as the fallback.

### Survey

A chart that begins with a room, grows by a neighbour of a charted room, or is
given up. `AutoStepper` implements it with `charted` being the rooms really
behind the recorded coordinates.

### HerdReplace

A replacement slaughters a few of the worst animals of a full pen, waits until
the herd and the slaughter queue both show it, buys better ones, waits for the
delivery, and rests. Both commands are irreversible and may have been obeyed even
if nothing was heard of them.

| Variable | Code |
|---|---|
| `opts`, `disk` | the `replace` settings in memory (`enabled`, the phase in `in_flight`, `daily`), and as last saved |
| `job` | `jobs[opts]`: plan, post-cull statistics, slots, the budget it reserved |
| `job.same_epoch`, `overdue`, `behind` | `ctx.epoch == job.epoch`; the phase's deadline or cooldown has passed; `ctx.now` is before `job.last_now` |
| `seen`, `receipt` | the parsed herds, pending, bqueue and market records with `S.herd_observed`: stale, held (fresh, not after the baseline), newer (`later`) |
| `wire` | commands sent and not yet taken by the game |
| `pen`, `pending`, `queue`, `market` | the game: head and statistics, deliveries, slaughter queue, offers and prices |
| `unsettled`, `charged`, `slain` | observation only; no action reads them |

One action `Tick...` for each way through `step()`. `step()` never saves or sends:
the header of herd_replace.lua (lines 2-5) tells its caller to save first, to send
only after a good save, and to halt when either fails. The caller, autoherd, is
not in the repository, so `Commit` is that contract, marked external. A failed
save may or may not have reached the disk; a failed send may or may not have
reached the game.

The abstractions:

* One pen, whose receipts are four: herds, deliveries, queue, and one `market`
  that stands for offers, prices and wallet together, which `buy_safe` compares
  with what the plan saw. Quality and forecast gates are left open: any plan that
  passes the counted limits may be made, or not.
* A stale record is never read again, so what it said is dropped (`Unseen`).
  Receipts are accepted only while replacement is enabled, and counted as newer
  only if the phase waits for them; nothing reads them otherwise.
* `culled` is reserved, kept and never given back in the same statements as
  `spent`; only `spent` is modelled.
* `dry_run` is left out. It is a tick that does nothing, so with it on a job ends
  only by halting; `JobEnds` is about the plugin with it off.
* Editing the settings under a job is noticed by the next tick, before the
  player's next command.
* The animals' grade falls only by interference, and meat goes to the first empty
  slot of the queue.

Two limits of the evidence that the code accepts and the properties state with
care. The player's own slaughter of the same number, after the last receipt and
before the command is obeyed, passes for the job's: `BuysFollowSlaughter`
therefore asks for a slaughter of this pen since the queue receipt the plan was
made on, not for the job's own. And a reset may be given with a command still on
the wire: it settles the command by the player's word, which is what
herd_replace.lua:4-6 says of it.

### Saga

What a replacement promises: one slaughter, at most one purchase, then neither
until the outcome is settled; a cost is charged to a day when the slaughter goes
out, stays within the day's allowance and is never given back. `HerdReplace`
implements it with `stage` being `unsettled`. An unsettled command is settled by
the end of the cooldown or by the player's reset, and by nothing else.

### Publication

What the parity tools promise of files replaced together: names change one by
one while a transaction is open, it commits only when all of them show the new
file, and aborts only when all show what they showed before, less those in `left`,
for which restoring raised (`Leave`): a rollback that raises for one file still
restores the others. Nothing else that raises excuses anything. A transaction
that met another writer or another transaction, or was killed before it passed,
is void: the code has no recovery from a kill, and nothing is promised of it.

### FileTransaction

The records of `state.py` and the three transactions built on them:
`publish_transaction` (publish.py:255), `write_provenance_transaction`
(state.py:1147) and the single file of `_atomic_bytes_at` (state.py:704), in any
number of processes. A plan lists the files of a process and whether, like
`write_provenance_transaction`, it goes on finalizing after one record failed.

| Variable or field | Code |
|---|---|
| `dir` | the directory entries: which file (inode) each name holds; a temporary is named after the process |
| `kept` | the recoveries directory, to which `_retire_name` moves |
| `tx[p].stage`, `pc`, `i` | which loop over the records is running, the next call in it, and the record it is at |
| `orig`, `mode`, `published` | the identity noted in the record, exchange or no-replace, and the `published` flag |
| `goal`, `keep`, `target`, `bad`, `then` | the locals of `_retire_identity_aliases`, and where its caller goes on |
| `err`, `passed` | an exception on its way; every file published |
| `left`, `hurt` | the files whose own rollback raised; whether that or a closing raised |
| `made`, `destroyed`, `mixed`, `visited` | observation only |

Each system call on a name that somebody else may change is a step: `Check` and
`Rename` are two, and so are the choice of an alias (`Retire`) and its removal
(`Take`), which is where the code's own re-checks matter. Everything that raises
goes through `Failed`, which knows what each stage does with an exception. `Fault`
lets any step raise, `Kill` stops a process for good, and other writers replace
a file or move it aside, between `Undo`'s check and the exchange of `Back` too.

Once every file is published (`passed`) a transaction counts as committed, also
when finalizing it raises afterwards: that is what `Publication` says, and what the
run LateFailure holds against the design document.

Abstracted: a candidate is written in one step (half of it could be left under
its temporary name by a kill, never under the name itself); `replace_operation`,
which only tests pass; fsync, and what a power loss keeps; the verification of
the whole tree, whose failure is a `Fault`; hard links that exist beforehand.

### AuditRules

One record per feature says what the public files claim and what the private
evidence says; the operators are `validate_target`, `validate_evidence`,
`aggregate_target` and `strict_parity_findings` over such records. It has no
state; `ParityWorkflow` extends it.

### ParityWorkflow

The commands of `cli.py` over the files they share. A variable is a file:

| Variable | File |
|---|---|
| `selection`, `preliminary`, `proposals`, `approval` | selection.json, preliminary audits, scope proposals, approval.json |
| `bundle`, `provenance` | staged/audit-bundle.json, provenance.json |
| `public` | the three artifacts in validation/, with what was so while they were published |
| `legacy`, `plugins` | the legacy tree as a commit and the `bytes` of each source; the plugins and their mirror |
| `job[p]` | how far the long command of a terminal is, and what it has read |

A command that reads and writes one file is one action, whose guard is everything
it validates: FileTransaction shows what one write is worth. The long commands are
one action for each file they read, in the order of `_publish` (cli.py) and
`_validate_private` (validation.py), because between two of them a scenario may
run for minutes and any other command may be given. The sources of the dependency
closure are read one by one (`ReadSource`), so that a snapshot may mix two states of
the tree; approval, selection, provenance, plugins and mirror have a step each. The
commit is read when it is compared or, in a refresh, written. `validate` without
`--refresh-legacy` writes nothing; it is the predicate `Passes`. A hash is that
which it is a hash of, a file is what it says, an audit is one shape of feature
records; people write audits and hashes as they like. A whole `sync-issues` that
ends well is one step here (`LinkIssues`); IssueSync has its steps.

### IssueSync

`sync-issues` for a list of blockers: `_sync_issues` of cli.py and
`sync_capability_issue` of issues.py, one action for each command it gives to
GitHub and for each load or write of the bundle. `sync[p].mine` is the bundle the
process carries and writes back.

GitHub is external: `issues` has each issue's state and what the search index
says of it, which follows later (`Index`). The open and the closed issues are two
searches. A failed command (`Fault`) that creates an issue may have created it. A
process may be killed anywhere; another may be started beside it or after it;
people close and reopen issues; `StageAudit` writes another bundle with whatever
links.

`quiet`, `meddled` and `undisputed` are observation only. They name the
circumstances under which the properties promise something: `quiet` says that
commands did not overlap, that no search for an issue to reuse began before the
index knew all of them, and that no reopening fell between two searches.

## 4. What is checked

| Run | States | Question |
|---|---|---|
| ExploreMap | 26,244 | Do the searches agree with a definition by distance on every map over 4 coordinates and 3 directions (one-way exits, unrecorded positions)? |
| StepperInterference | 2,227,743 | Does the map stay true, and the position known, when stops, resumes, a reset, a typed direction, an "out", a block, a late timer, a flight and a walk back interleave? Does it implement Survey? |
| StepperSessions | 3,187,016 | Disconnects, reloads, a second stop, stray and late frames and a stored route beside a dive run: is a held move always the one move of this connection's explorer, is no move made on top of another, is the decision about the present room, and is "no unvisited exits remain" true? |
| StepperFarm | 1,015,044 | Two seas in a row, two monsters in the cask room of which the vocabulary names one, stray frames, truncated lists, a flight, late and unanswered refreshes: does the run never walk out of a fight, always wait and always end; is a sea completed only in the cask room and when no monster is left there that answers to its word, and the farm restarted only after completion? |
| HerdReplace | 572,847 | One mishap at any point of a replacement, restarts and midnights at will: does it implement Saga, keep the allowance, buy only after a slaughter, forget nothing, stay silent in doubt, and end? |
| FileTransaction | 180,532 | Steps that raise, in a rollback too, kills, other writers and other transactions: does a set of files change together, is each file restored whose own rollback does not raise, is no file lost, is a failure cleaned up, is a foreign file left in place unless that file's rollback raised, does every transaction end? |
| IssueSync | 492,225 | A late index, failed and killed commands, closed issues and other bundles: is there one issue per capability when nothing forces two, is every link the right one, has a failure a cause, does a command end? |
| ParityWorkflow | 3,319,257 | Every order of the commands around the steps of a publish and a refresh, with a tree that changes before, between and after the reads of its sources: is what is published approved and evidenced, were its commit and each of its sources in the tree at some moment, though not all at one, and does it validate once settled? |

Each of the four runs named in section 5 violates the one property it checks.

Bounds: seas of three to five rooms. `AlikeSea` is a corridor of rooms with equal
exits and a descent at its start: equal exits are what makes a slip in the
reckoning invisible to the explorer's own check, and the descent makes it come
back with a speedwalk of several commands. `TwoLayers` has a dead end and a
descent. Each interference happens once or twice: two starts, so that a map is
left and taken up again, and one of each other kind, which suffices because any
two of them can meet in one run. In StepperFarm the cask room holds a mutant, who
answers to the word for him, and a boss, who does not answer to the word guessed
for him, so that he is struck from the view; contents may be truncated, and one
combat frame is for another reason. The farm is turned on and off while the second
of its restart timer runs, and a redive by hand is a second run. Deadlock is not
checked: with the budget spent and the player at rest the system may stop.

HerdReplace: a pen of two of which one may be culled, two statistics so that a
herd can look worse or better, two slots so that a second slot can be filled by
someone else, two dates so that the allowance is renewed once and the clock can
go back over the renewal, an allowance of exactly one replacement so that a
second one under the same date would show. One mishap (a failed save or send, a
refused command, a disconnect, a rollback, aged receipts, an edit, or another
cull, sale, death, birth or price) at any point; restarts, resets, midnights,
deadlines and late or early receipts are not counted. The proofs hold for any
number of mishaps.

FileTransaction: five plans (`MCPlans`). Two files with two mishaps, since a step
that raises and a step of the rollback that raises are two; three files with one,
so that a record lies between the first and the last; a refresh of two files,
which finalizes differently; two writers of one file; and a refresh beside such a
writer, which makes the two meet on the second file. One other writer, which acts
once: a second one adds names, not orders. The proofs hold for any number.

IssueSync: two blockers, so that one is done when the other fails; two processes
and two starts, which either overlap or follow each other; two mishaps, so that a
creation whose answer was lost can be followed by a closing; two searches after a
creation, so that one is not the last; two issues, which are enough for a
duplicate and for a mix-up. What needs a third issue is `Stuck` and left out.

ParityWorkflow: one target and three audits, at parity, blocked, and claiming more
than its evidence; two sources with two versions each, and four trees: the first,
one with another commit only, and one with an edit of either source, the first
edit of which changes the constructs; two revisions, so that an older proposal can
be approved; seven commands, of which six are needed to publish at all and one
more proposes again; two long commands one after the other in one terminal, and
two changes of the tree or the plugins, so that the tree may drift and drift again
between two reads. Two terminals exceed eight million states; the proofs hold for
any number of terminals, targets, sources and changes.

Fairness, in `FairSpec` only: the game answers commands (`WF Game`), frames are
delivered (`Delivery`), and a running timer fires when nothing else is coming
(`WF (Timers /\ Quiet)`). These are the client's event loop and a live
connection, which `RunEnds` presumes. Nothing is assumed of the player, of the
bounded interferences, or of a timer beside a frame. An unanswered refresh is
allowed: the retries must end by themselves.

In HerdReplace, `WF Tick` is notify.lua:381, which calls the caller's tick at every
interval, and `WF DeadlinePasses` is time. Nothing is assumed of the game, of
receipts or of the connection: a job that hears nothing must end by itself.

In FileTransaction and IssueSync, `WF (\E p : Step(p))` says that running programs
run; it does not say which. Nothing is assumed of faults, kills, other writers,
people or GitHub's index, so that a search that never finds anything must end by
itself, and two transactions must not undo each other for ever. `SyncsEnd` leaves
out a process that may create no more issues because of the model's bound.

Every property is shown to be violated by a mutant of the code, one of the small
operators marked "Mutant" in the modules.

## 5. Findings

Four runs violate one property each, which states what the code's comments, its
tests or its documents say.

* **StaleViewAfterReset** (init.lua:385). The view is reseeded when the room's
  key changes, and after a reset in mid-step the next room has the same key.
* **StopAgain** (init.lua:1782). A stop in mid-step holds the move for the five
  seconds of `in_flight_timer`, and `HeldMoveIsTimed` says so after mode.lua:131
  and autostepper/README.md:60. A second stop cancels the timer first and arms one
  only if a run was enabled, so the move is held without end, and the next entry,
  whatever caused it, is committed as that step. `HeldMoveBelongs` is what is left
  of the promise.
* **DuplicateIssue** (issues.py:238). When the search index learns of a created
  issue later than the eight searches that follow, the command fails, and the
  next one, which finds nothing either, creates a second issue. The design
  document promises one deduplicated issue per capability
  (2026-08-07-legacy-plugin-parity-validation-design.md:504, and :432).
* **LateFailure** (publish.py:365). The originals are retired after every file was
  published, outside the `try` that rolls back. An exception there fails the
  command though the public files have changed; the design document says at :402
  that any failure leaves them unchanged.

Seen with other constants or by reading; no run is kept for them. For the first three
the promise is written down beside the property that is left of it, and TLC refutes
it in the run named:

* An attack that finds no target strikes the monster from the view, in the cask room
  too (init.lua:449). A boss whose name holds no word of the vocabulary is attacked
  by the vocabulary's first word, does not answer, is struck, and the sea is left as
  complete; autostepper/README.md:166-168 says that every monster there is fought and
  none walked away from. StepperFarm has such a boss: `CompletesOnlyWhenCleared` is
  false in it, `CompletesWhenFought` is what is left.
* A rollback checks that the name still holds the candidate and then exchanges it
  (state.py:556). A file that somebody puts there in between is exchanged away: the
  old original is back, and the other file stays under the random temporary name.
  test_publish.py:130 expects it at the public name. The command reports the error,
  and no other file is concerned. FileTransaction has that writer:
  `SubstitutionPreserved` is false in it, `ForeignFileStays` is what is left.
* The sources are read one after the other and never looked at again
  (validation.py:453). The tree drifts in its second source, the first is read, the
  tree changes to a drift in the first, the second is read: what was read is the
  provenance, though the tree never showed it since the command began, and it is
  published. The design document says at :460 that drift is fatal. ParityWorkflow has
  those changes: `DriftIsFatal` is false in it, `PublishedAsSeen` is what is left,
  each source by itself.
* A reset in a fight leaves an empty map, and the run ends as if the sea had been
  explored (init.lua:1902; the comment at :1893).
* A direction typed before the first room of a map is filed is not caught
  (init.lua:1650; `Eager` TRUE shows it).
* "out" is no direction that `check_hand_move` knows (init.lua:1637). Typed in the
  first room after a refresh was asked for, it leaves the sea while the answer still
  lets the run step, so that the step is sent with the lobby's entry still to come
  (`StepsOnlyWhenSettled` with one start and one `out`).
* A contents list that was cut off before the monsters is taken for an empty room,
  and outside the cask room the run walks on, out of a fight too; if the player then
  flees, the entry of the flight is taken for the step. `NoStepOutOfFight` leaves such
  a list out, as it does a room with players; `StepsOnlyWhenSettled` is checked
  without one.
* A refresh writes back the bundle it read, and with it takes back what another
  command wrote into the bundle meanwhile (validation.py:945).
* An approval that cannot be read makes proposals start at revision 1 again
  (cli.py:243). In the model an approval is readable or absent.
* A killed publication leaves some names new and some old, with the old files
  under temporary names; nothing picks that up later.

More slips of the map are kept out of the passing runs by their constants; TLC finds
each of these soon when they are changed:

* The connection drops after the game made a move and before its entry came: the
  map keeps the old coordinate (`Limit.silent` is 0).
* The answer to an earlier refresh ends the wait of a later start while a move is
  under way (mode.lua:166-180, init.lua:576; `Eager` is FALSE).
* A stop while an attack is on its way, the fight it starts, and a start: another
  player in the room lets the run step on out of the fight, and when the player
  flees from it, the entry of the flight is taken for the step (`MaySee` shows no
  players in that run).
* The sea is completed, the player types two directions, and the farm restarts the
  run between their entries: the second entry is taken for the new run's first step
  (`Limit.farm` is 0 where `Limit.hand` is not).

Seen and not listed as findings, because the code states them or no line
contradicts them: a flight during the wait for a route's first refresh is taken
for an arrival; with players in the room the stepper walks on even out of a
fight; an area without room numbers keeps its view between rooms of one name on a
stored route.

## 6. What is proved

`AutoStepperProofs`, for every sea, lair, route, configuration, visibility and
any number of interferences; the only assumptions are those on the constants that
TLC also evaluates. Of the game they say that there is a first sea, that every sea
has an entrance at the origin, on the lattice, and that a door leads to a room of
the same sea (`MazeAssumption`), and that a lair is a sequence of monsters and a
stored route one of commands (`WorldAssumption`), and that every monster is called
by a word and words are no other commands (`WordsAssumption`).

* `ControlInvariant`: `Spec => []Control(client)`.
* `RunAlwaysWaits`: `Spec => []RunAlwaysWaiting`.
* `RestartsFollowCompletion`: `Spec => []RestartOnlyAfterCompletion`.
* `StepperRelies`: `Spec => []Inv`, the second inductive invariant.
* `StepperTypes`: `Spec => []TypeOK`.
* `HeldMovesBelong`: `Spec => []HeldMoveBelongs`.

`RunAlwaysWaiting` is not inductive. A speedwalk that is under way while the
state is not `stepping` would let a stop take the wrong branch, the number of
refresh attempts must be known to be 0..3 for the retry to be compared, and the
record must have exactly the plugin's fields for an EXCEPT to mean what it says.
`Control` adds the three. The proof follows the code: one lemma per Lua function,
which takes a record with `Control` to a record with `Control`. Functions that
only work on the map (`Blank`, `Pause`, `Arrive`, `Leave`, ...) are shown to touch
no controlled field; `ProcessRoom` and `DoStep`, which end most handlers, are
shown to restore `Control` from a weaker `Ready`, where a run is enabled and has
not yet decided what to wait for. Then one lemma per action, and the step.

`TypeOK` and `HeldMoveBelongs` need each other and more. `Inv` is `Good` of the
client record and `World` of the rest. `Good` is `Able`, what a Lua function may
rely on in the middle of a callback too, and `Beside`, that a held move has no
explore run beside it, which holds between callbacks only: `Stop` restores it from
any `Able` record. `Able` adds to the types that the map is finite and on the
lattice (`Plotted`, without which `path_to` and `next_frontier` could answer
anything: that their answers are routes of directions is cited from
`ExploreMapProofs`), that an active explorer is held, that a move or a walk back is
pending only over a map with rooms, that a paused explorer has at most one move,
and that nothing is pending or on the wire without a connection. The last cannot
be kept by a handler that sends while offline, hence the lemmas on the handlers
assume `c.online`, and `World` says why they may: no frame reaches a client that is
not connected. `World` also says that every frame has its fields, so that a
contents list is a list of monsters, and that a fight is with a monster that is
there, so that one can die. There is one lemma per Lua function again, then one
per action or group of actions.

`MapFaithful`, `PositionKnown`, `ImplementsSurvey` and two of the action
properties do not hold of every instance, as section 5 says; the next module
proves when they do. Only model-checked are the other three action properties
(`NoStepOutOfFight`, `CompletesWhenFought` and `ExhaustedMeansExplored`) and
`RunEnds` (liveness).

`SurveyProofs`, for every sea, lair and configuration and any number of stops,
starts, resets, walks back, typed directions, dives, late timers, lost answers,
stray frames, reloads and disconnects, as long as `Undisturbed` is true:

* `MapsAreFaithful`: `Spec => [](Undisturbed => MapFaithful)`.
* `PositionsAreKnown`: `Spec => [](Undisturbed => PositionKnown)`.
* `ExplorerSurveys`: `Spec /\ []Undisturbed => ImplementsSurvey`.
* `StepperKnows`: `Spec => [](Undisturbed => Knows(client, frames, here))`.
* `DecisionsSeeTheRoom`: `Spec /\ [](Undisturbed /\ spent.reset = 0) =>
  DecidesOnPresentRoom`.
* `StepsWhenSettled`: `Spec /\ [](Undisturbed /\ spent.out = 0) =>
  StepsOnlyWhenSettled`.

`Undisturbed` is a state predicate, so that the first two speak of every state up to
the first disturbance. It says that the player is patient (`~Eager`), has no stored
route, and that four of the budgets are untouched: `wimpy`, `silent`, `farm` and
`hush`. Section 5 has the behaviour that breaks the map for `Eager` and the first
three. `hush` is a direction of a speedwalk that the game swallows while the rest
of the speedwalk can be walked from where the player was left; the seas of the
runs have no such place, and StepperInterference allows one `hush`. A stored route
sends moves that the explorer does not know of, and the proof has no case for
them; no counterexample is known.

The rooms of the Chaos Sea have no numbers: the client knows where it is only from
what it sent and what it was told, in order. The invariant therefore has to follow
the player through everything under way. A *fix* is where the map says the player
is, the directions still to be walked, and whether he is being taken out; `Heard`
is what each frame, and `Given` what each command, does to a fix. `Ahead` says that
the frames lead from the fix to where the player stands, and the commands on from
there. `Sure` is that the map is a chart (`Charts`: each coordinate lies where its
room does, with its exits) and that its position and pending moves are such a fix
(`Fits`). `Announced` is the same for a client that has no map yet: the last place
told of, once all is told, is where the player is. `Ordered` adds the control: a
step of several directions is a speedwalk that is being waited for, an active
explorer belongs to an enabled run, and rooms are held by a held map.

The two sides are proved apart. The game keeps `Ahead` whatever the client holds
(`GameAhead`). The client keeps `Sure` whatever frame comes first, with one lemma
for each handler, timer and command, each of which does one of four things: it lets
the map go (`Loose`); it keeps the map and sends nothing that moves (`Retains`); it
walks on from a fix with nothing left to walk (`Walks`); or it takes the entry for
the move that was made (`CompleteTrue`). Underneath are lemmas on sequences of
steps (`Passes`: they join, split, and stay within a set that every step stays
within), proved by induction over their length.

The two action properties need three more invariants, and without their
conditions both are false: StaleViewAfterReset shows it for a reset, section 5 has
the behaviour for "out". `Present` says that the view a decision will compare with
is of a room known to it: none while a refresh is awaited, the room the step was
made from while a step is, and in a fight the room last listed; a step into another
room then changes the key, because the map is a chart. `Steady` says that what is
under way lists the player's room in the end, entry by entry, and in a fight
begins with the room last listed: that is why contents that are no entry cannot
bring another room under the view. `Inside` says that while there is a map only
directions, attacks and refreshes are on the wire, and in the lobby no direction.
Every handler and command then does one of two things (`Onward`): it sends nothing
that moves, or it sends a step from a fix at rest in a room of the sea (`Clear`).
From such a fix no entry and no direction can be under way, since either would have
taken the player from where the fix says he stands (`ClearCalm`).

`ExploreMapProofs`, for every map of finitely many recorded rooms, whatever its
exits and its position:

* `PathToIsShortest`: `path_to` finds a route exactly if the room can be reached
  over recorded exits, and then a shortest one.
* `SearchFrontierIsNearest`: `search_frontier` answers nothing exactly if no room
  that can be reached has an unknown exit of those asked for, else a shortest walk
  to such a room and out of that exit, by a deferred exit only if there is no
  other as near.

A search is a recursive function on 0..n, n being the number of recorded rooms.
That such a function exists and has the values its equation gives it is proved by
induction over n (`RecursionExists`), induction being that `<` on Nat is well
founded (`CountsUp`). The queue is then `Dealing` after i rooms were taken from
it: it starts at the position (`Starts`), holds a room once (`Once`), in the order
of distance (`Sorted`), each with a walk to it (`Walked`) no longer than the room
is far (`Shortest`); the neighbours of the rooms dealt with are in it (`Closed`)
and no room in it is farther than one step from the one at work (`Near`). The
last is what makes it a breadth-first search, and it must be known while the
exits of one room are offered one after the other, hence a second induction over
`DirOrder`. After as many rounds as there are rooms the queue is used up (it holds
no room twice), so that being closed it holds all that is reachable. The cheapest
exit is then minimal by distance, rank and order of discovery.

`SearchProofs`, for every box, compass and convention of up and down:

* `ClearFindsNearest`, `DeferredComesLast`, `DiveDescends`, `RoutesAreShortest`: the
  four invariants of ExploreMap, whose inductive invariant `Plotted` says that the
  map stays finite, on the lattice and with exits that are directions.

`HerdReplaceProofs`, for every capacity, price, allowance, set of dates, set of
slots and any number of mishaps, from `HerdAssumption`:

* `HerdInvariant`: `Spec => []Inv`.
* `NothingForgotten`, `ExposureBounded`: the two state invariants of the run.
* `ImplementsSaga`: `Spec => SagaImplemented`, every step is a step of Saga or none.
* `PurchasesFollowSlaughters`, `SilenceInDoubt`: the two action properties.
* `HerdTypes`: `Spec => []TypeOK`.

None of the invariants is inductive alone. `Remembered` adds that a job at work is
marked on the disk and that its phase agrees with the last command, for else a
failed save in a later phase could erase the mark of an earlier one. `Covered`
adds that whichever record will be charged next, on disk, in memory or in the
job, already covers what was charged under its date, and that nothing was
charged under a later date: that is why a restart from an older save and a clock
turned back are harmless. `Evident` says which slots of the real queue can hold
meat without a slaughter the observation knows of: those the plan saw taken.
The proof has one lemma per action for `Remembered` and `Covered` together
(`NextCore`) and for the world (`NextWorld`); `Commit`, which ends every tick, is
handled once.

`HerdTypes` is more than types: the pen never holds more than its capacity. That
is not inductive, since a delivery adds to the pen; `Fits` adds what is on its way,
the sum of `pending` (`Total`, a recursive function whose laws are proved by
induction), and `Seen` that what was last seen was so once. The rest of it,
`Types`, is what the other proofs use.

Only model-checked here: `JobEnds` (liveness).

`FileTransactionProofs`, for any processes, files, plans, other writers and number
of mishaps, from `NamesApart` and `PlansTyped`:

* `TransactionTypes`: `Spec => []TypeOK`.
* `FilesKept`: `Spec => []NothingLost`.

The type invariant has content: every process works on one of its own files, and
publishes, rolls back and finalizes only when all of its records are prepared. To
be inductive it needs `Placed`: a process that prepares is in the first stage, and
a retirement goes on to one of four steps. There is one lemma for each operator on
records (`Moved` serves most of them), because a step replaces the record of one
process, and one lemma for each action. `NothingLost` rests on what a step does to
the directory: two names are swapped, a file comes under a free name, one is moved
to the recoveries, or somebody else overwrites one (`SwapKeeps` and its sisters).

The second part of the module says what a step does to the record of the process
that takes it, as a relation of two records and two directories (`Calls`, with one
disjunct per call), so that the third part compares records and never goes back
to the actions. `Controlled` is the control state of a record: which calls belong to
which stage, and when a process has passed or is hurt. `FilesNoted` says that a
candidate there is was noted by its transaction.

The third part, for the same constants:

* `CandidatesSwept`: `Spec => []NoCandidateAfterFailure`.
* `ForeignFilesKept`: `Spec => []ForeignFileStays`.
* `PublicationImplemented`: `Spec => ImplementsPublication`.

For the first, `Swept` follows a candidate through a failure: while it is not
published it has no name but its temporary one, and behind the record at work, in
the order of rolling back or closing, none has a name at all. For the other two,
each record is in one of four fates (`Ready`, `Swapped`, `Tidied`, or at the call
that tells), and each says what its temporary name holds (`Holds`): the candidate
before the exchange, the original after it, one of both or nothing when done. A
retirement needs its own clause (`Aims`): it looks for the candidate or the
original, it spares the public name when that shows what it looks for, and it
never takes a file from under a public name, which is what keeps a foreign file in
place. A record whose rollback raised is in `left` and has no fate; what its
temporary name may hold then is a clause of its own. `Shown` says what the public
name shows while nobody else has touched it. Around them: a file has one name and
a name holds versions of its own file (`Surrounds`), a writer who has not acted
has left nothing (`Strangers`), and a process that has met nobody is by itself
(`Company`). `Found` then says where a foreign file is: at its name, aside, or,
for a record in `left`, under the temporary name. The refinement maps a
transaction to its status, to what is seen of its files (`Sight`) and to the files
it could not restore (`Unrestored`: `left` while it is open). A step may void
several promises at once, for a second process that starts voids the first, and
`Publication` allows it.

`ParityWorkflowProofs`, for any targets, audits, trees, terminals and bounds, from
`WorkflowAssumption` and `NoneApart`:

* `WorkflowTypes`, `PublicAsSeen`, `PublicEvidenced`, `SettledPasses`: all four
  invariants of the run.

What a command has read and what is there now may differ, so none of them is
inductive. `Found` says what the checks that a command has passed establish of
what it read; `Seen`, that the approvals and trees it was shown include those
there are now; `Undisturbed`, that as long as nobody else has written anything,
what it read is what is there. The last one gives `SettledValidates` at the write,
the first two the properties of what is public. `PublicAsSeen` speaks of each source
by itself (`Met`, which `ReadSource` extends by one): that they were there together
is false, as section 5 says.

`IssueSyncProofs`, for any blockers, processes, audits, searches and bounds, from
`SyncAssumption`:

* `SyncTypes`, `OneIssue`, `OwnIssues`, `FailuresHaveCauses`: all four invariants
  of the run.

Each process is `Fit`: what it has found or created carries its blocker's marker,
and the blockers it is done with are linked to issues of their own (`Rightful`);
between its two searches it knows every issue of its blocker that the index does
not call closed, and it creates one only when there is none (`Sought`, while
`quiet`); unless somebody meddled, the bundle is the one it carries; and a failure
has its cause. `Calm` says that while nothing overlaps one process is active and
no marker is on two issues. Issues are only added and keep their marker
(`GrowsKeeps`), which is why the other processes stay fit.

Only model-checked in these four: the liveness properties `TransactionsEnd` and
`SyncsEnd`.

What cannot be proved here: liveness under fairness, and ENABLED. Recursive
*functions* over numbers and sequences are within reach, by induction as above;
RECURSIVE operators are not, and the project has none.

## 7. What is not modelled

See the inventory and the notes in `PROJECT.json`. Rendering, help text and
parsing of wording have no protocol between steps. Of the parity tools these are
left out: generating and running runtime scenarios (one passes or fails), the
privacy scan, coverage and reports, parsers and renderers of JSON, TOML and XML,
holding descriptors on directories while they are read, `with_runtime_result`,
which no command calls, and the private report, which nothing reads. Private
modules of the Viking plugin (autoherd, autoraid and others) are not in the
repository; HerdReplace takes autoherd's side of the contract from
herd_replace.lua's header and README.md:302-320.
