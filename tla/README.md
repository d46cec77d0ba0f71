# A verification project for codemem

codemem is an OpenCode plugin (TypeScript) and a Rust daemon. The plugin hears
of edited files and tells the daemon; the daemon indexes the files into SQLite
and answers questions about the project (duplicates, dead code, API drift,
conflicts between sessions). This directory models both: the parts in which the
order of events matters as state machines, the analysis of the indexed tables as
operators. TLC checks the models on small instances, and TLAPS proves the main
theorems about them for every value of the constants.

Paths below are relative to `packages/`; `daemon` is `codemem-daemon/src`,
`plugin` is `codemem-plugin/src`.

## Inventory

| Part | State | Operations | Hard behaviour | What makes it correct | Module |
|---|---|---|---|---|---|
| Index queue, `daemon/indexer.rs`, `metrics.rs` | a channel of 256 batches, three counters, three gauges | `enqueue_files`, the worker task, `decrement_queue_depth` | multi-threaded runtime: a handler is preempted between send, count and publication | accepted batches are served in order and once; counters stay within a bound of the truth | `IndexQueue` |
| File indexing, `indexer.rs`, `store.rs` | `files` and four detail tables, API baseline, sessions | `index_paths_now`, `check`, `rebuild`, `bootstrap_scan` | worker, checks and rebuilds run it on the same store, with no lock around it; aborts; crashes | no row is silently behind the disk | `FileIndex` |
| Maintenance lease, `store.rs`, `indexer.rs` | `maintenance_leases` | acquire, release, `maintain`, `rebuild` | expiry while at work, takeover, late release, crash | leases in force exclude each other | `MaintenanceLease` |
| Daemon lifecycle, `plugin/daemon/supervisor.ts`, `daemon/main.rs`, `rpc.rs` | pid file, socket, start lock, token file | `ensureDaemon`, `stop`, `cleanupStale`; boot, bind, cleanup | several processes, files instead of locks, timeouts, deaths, a server loop that ends in a live process | one daemon, which can be found and stopped | `DaemonLifecycle` |
| Session conflict tracker, `session_conflicts.rs` | a map of sessions, its table | `observe`, `conflicts`, `stale_sessions`, `prune` | concurrent observations in three steps, failed writes, restarts, decay by the clock | overlapping recent sessions are alerted, others are not | `SessionConflicts` |
| Change delivery, `plugin/index.ts` | pending files, reasons and timers of each session | `queueChangedFiles`, `flushChangedFiles`, event hooks | debounce, a flush racing new changes, failure loses a batch | a change is never forgotten by the plugin before a flush carries it | `ChangeDelivery` |
| RPC dispatch and framing, `rpc.rs` | one connection each | `read_frame`, `handle_stream`, `dispatch_inner` | order of refusals, errors that close the connection and errors that do not, a daemon that exits | what a caller is told is true | `DaemonRpc` |
| Daemon client, `plugin/daemon/client.ts` | one exchange | `request`, `exchange`, `readResponse` | two timeouts, late answers, answers without an id | an exchange settles, once | `DaemonRpc` |
| Module graph, `graph.rs` | built from the tables for each request | cones, dependents, Tarjan, packages, drift, dead code, drift map | loops with bounds and early exits; several reads of tables that the worker changes | agrees with definitions without loops | `ModuleGraph`, `Findings`, `DeadCodeReads` |
| Findings, change risk and review focus, `indexer.rs`, `model.rs` | none | `collect_findings`, `impact_cone`, `change_risk`, `focus_from_reasons` | caps, filter, order, deduplication, thresholds | what is left out is left out for a reason | `Findings` |
| Detectors, `daemon/detectors/` | none | clone and type-shape bucketing, `match_brace`, `normalize_*` | bands, thresholds, caps; text read by hand-written scanners | close fingerprints are paired; texts are cut and normalised right | `CloneDetector`, `SourceText` |
| Extraction, `indexer.rs`, `detectors/` | none | regular expressions over TypeScript | - | - | not modelled |
| Tool budget and tools; prompt signals; metrics and memory; CLI; shared types, configuration, reports; schema | sample windows, a cooldown | formatting, parsing, defaults | - | - | not modelled |

The parts meet like this. A plugin or CLI process owns a supervisor, which finds
or starts the daemon through files in `run/`, and a client, which sends it
requests over the socket. `project.filesChanged` puts a batch into the index
queue; the worker takes it out and runs `index_paths_now`; `analysis.check` runs
the same function in its own handler; `maintenance.rebuild` does so under the
lease after it has emptied the tables. `index_paths_now` ends by telling the
session tracker which files were touched and by writing an API baseline if there
is none. Checks, drift maps, cones and risks are computed from the tables and the
tracker at the moment of the request.

## Modules

| Module | Role |
|---|---|
| `BatchFifo` | abstract: a bounded line in front of one server |
| `IndexQueue` | the index queue with counters and gauges; implements `BatchFifo` |
| `FileIndex` | disk, plugin reports, queue, and concurrent `index_paths_now` calls on one store |
| `LeaseLock` | abstract: a lock its holder can lose |
| `MaintenanceLease` | the lease row and the calls that compete for it; implements `LeaseLock` |
| `DaemonLifecycle` | supervisors and daemons and the files between them |
| `SessionConflicts` | the tracker's map and table, and the alerts computed from the map |
| `DaemonRpc` | client, connection, handler, queue and process of the daemon |
| `ChangeDelivery` | the plugin's buckets, timers and flushes, composed with `DaemonRpc` |
| `Ordering` | sorted sequences of sets, keys, and a few helpers of the analysis |
| `ModuleGraph` | the tables of imports and exports, and the searches of `graph.rs` |
| `CloneDetector` | from fingerprints to duplicates |
| `Findings` | composes the two with the tracker's answer: check, drift map, cone, risk |
| `DeadCodeReads` | the three store calls behind a report of dead exports, the worker writing in between |
| `SourceText` | the scanners of the detectors, on characters and names |
| `IndexQueue_proofs`, `FileIndex_proofs`, `MaintenanceLease_proofs`, `DaemonLifecycle_proofs`, `SessionConflicts_proofs`, `ChangeDelivery_proofs`, `Findings_proofs`, `Answers_proofs` | theorems |
| `MC*` | instances for TLC: symmetry sets and values of function constants |

A definition named "mutant of X" is a plausible bug, kept next to the X it would
replace. No run uses it; it is there to show that a property notices.

### IndexQueue

One `project.filesChanged` call is the path `idle -> sent -> counted -> idle` or
`idle -> full -> dropCounted -> dropIncremented -> idle`, one action for each
atomic operation in `enqueue_files`: `try_send`, `fetch_add`, the store to the
gauge. `ReturnEarly` is a call that has nothing left after normalising or cannot
write its correlation record. The worker is
`waiting -> indexing (-> failed) -> indexed -> decremented -> waiting`.
`decrement_queue_depth` is one action: only its final successful load or exchange
has an effect. What a batch contains is reduced to its sender and a sequence
number; the events and durations that are written to the store and the metrics on
the way are left out.

### FileIndex

A file's text is a model value, and so are its digest and the rows derived from
it, so `row[f]` is the digest in table `files` and `detail[f]` the text that the
import, export, clone and type rows describe. `task[t]` holds the locals of one
`index_paths_now` call of the worker, of a check or of a rebuild. Each call on
the store is one action, because the store has one connection behind a mutex that
is released between calls; so is each file-system call. `Abort` is the `?` after
`stat` and `read_to_string`. `Observe` replaces the session's snapshot.
`RebuildClear` and `RebuildDiscover` are the two halves of `rebuild` before the
scan; the lease is left to `MaintenanceLease`, so two rebuilds may overlap, as
they do when a lease runs out. `Crash` throws away the queue and every call and
keeps the store; `CrashInClear` is a kill between the `DELETE`s of `clear_index`.
Both record what was queued or under way as `suspect`.

`Edit` is a change the plugin will report, `EditUnreported` one it will not (the
watcher hook ignores unlinks, a failed flush is not repeated, the editor may not
be running). `suspect` and `quiet` are history variables: files whose last look
was raced by another call, cut short or lost, or was never asked for, and files
that have not changed since a call began. No action of the program depends on
them. Left out: SQLite errors, paths that lead outside the project or are not
regular files, and layers switched off in the configuration.

### MaintenanceLease

`ReadClock` reads the clock and `Acquire` or `Refuse` runs the SQL statement
later, because the connection mutex is in between. `Release` deletes the row if
the owner matches. `until[c]` is what call c was promised. `Pid` says which calls
share a process: in the code the owner string contains a fixed word and the process
id, so all calls of a daemon have one owner. `Tick` is the clock, which does not run
backwards here. `freed` is a history variable: the calls at work whose row was deleted
by a call of their own process that had outlasted its lease.

### DaemonLifecycle

Each supervisor is at one await of `start`, `stop` or `cleanupStaleEndpoint`.
Files hold the identity of the process they would name. `Serves(s)` is what
`health()` finds out: a daemon listens where the socket path leads and accepts the
supervisor's token. `HealthFails` is also possible when it serves, if the daemon is
one of `Slow`, which may miss a timeout. `call[s]` tells where `cleanupStaleEndpoint`
returns to. `stop` ends with a `Verdict`: the pid it read has exited by then, and it
reports success, or it has not (`TerminateFails`: the signal cannot be sent or has no
effect), and it returns a warning.

A daemon boots, unlinks the path, binds, sets the permissions of the socket
(`Listen`) and accepts. A shutdown request ends that, and so does any error of
`serve`, which `main` passes on after it has cleaned up: `BindFails` is a bind that
meets the socket of another, `ServeFails` an error of `create_dir_all`, `bind`,
`set_permissions` or, in a daemon that has long been listening, of `accept`. In both
cases the process goes on for a while and removes the pid file and the socket by name.
The switches `Slow`, `Deaths`, `Failures` and `Exits` say which failures a run allows.
Two history variables, which no guard reads, say what the properties except: `calm`
ends when a call begins while another is under way, or while there is a daemon that is
slow, at its end or started with another token, and also when a pid file cannot be
written or a process exits with a daemon it is starting; `crowded` begins when two
supervisors are about to remove the same stale lock. Processes are named in
the order of their birth, and a variable no step will read again is reset. Left out:
reuse of process ids, Windows pipes, and the non-blocking `ensureDaemon(false)`
(whose caller returns before its lock is released).

### SessionConflicts

`observe` is `Snapshot` (clock and cone), `Insert` (the map, under its mutex) and
`Save` or `SaveFails` (the row); the worker and checks run it concurrently.
`Prune` is what `maintain` does to the table; the map keeps everything until a
`Restart` loads it from the rows, or from nothing when `load_sessions` fails.
`Conflicts` translates `active_snapshots`, the place of the asked session, the
pairing, the overlap and the cap. A session's files come with their cone, a
constant function here; `ModuleGraph` computes it. `latest`, `excused` and
`unsaved` are history.

### DaemonRpc and ChangeDelivery

`client[c]` is one call of `DaemonClient.request`, or a peer that is no
`DaemonClient`; every call has its own connection, as in the code. A request is
reduced to its id, the kind of its method and the set of things that are wrong
with it; `Refusal` goes through them in the order of `dispatch_inner`. `inbox` and
`outbox` are what is in the socket's two directions: a client that has timed out
has destroyed its socket, and the daemon still reads, does and tries to answer
what was sent. `RecordCorrelation` and `Analyze` are apart because the first
commits before the second runs, and its error is answered without an id. `Exit` is
the end of the process by a shutdown or a death, and cuts off every handler where
it is. What a method does is in the other modules; here it is counted in `served`.

`ChangeDelivery` is the plugin in front: `QueueChangedFiles` resets the timer,
`FlushChangedFiles` empties the bucket, then the flush waits for `ensureReady`
(`DaemonLifecycle`; here it succeeds or throws) and makes one call of `DaemonRpc`.
`since[s][f]` remembers which flushes had begun when f last changed.

### ModuleGraph, CloneDetector, Findings, SourceText

`docs[f]` are the rows of one file, replaced by `UpsertFile` and deleted by
`RemoveFile`; rows of other files may go on naming a file that is gone.
`Projects[i][f]` lists what file f of project i may contain. A file, package,
symbol, export or signature is a number, in the order of the strings in the code,
because order decides what a cap cuts off; a symbol is numbered by its file and its
place among the `SymbolsPerFile` names of a file. The searches of `graph.rs` are turns of
recursive functions, one for each pass through a loop, that keep the code's queue,
bound and early exit. Tarjan's algorithm is a machine too: `calls` is the stack of
`strong_connect` calls, each with the edges it has still to look at, beside the
code's stack, indices and low links; a turn returns to a caller, enters a node,
looks at an edge or closes a component, and `Turns`, n * n + 2n for n nodes, is more
than it needs. What a cap, a filter or a deduplication keeps is written as the sorted
places of a sequence (`Picked`, `Kept`, `Arranged` of `Ordering`). `Findings` keeps all caps of
`collect_findings`, in their places: each detector's before the path filter,
another after the sort. Scores and weights of `change_risk` are the code's
numbers. BLAKE3 and SimHash are not computed: a hash is the token sequence itself,
a simhash a set of bits that belongs to the input.

Each answer of `Findings` is computed from one content of the tables. The code reads
them in several store calls, and the worker may write in between; `DeadCodeReads` has
that for dead exports, where it shows: `ReadFiles` and `ReadImports` are the two calls
of `ModuleGraph::load`, `ReadExports` the one of `dead_code_findings`, and `Write` is
the worker at any moment. `DeadCode` takes the loaded graph and the exports as two
arguments. `stayed` and `occurred` are history: which imports and exports were stored
at every moment of the reads, and which at some moment.

`MatchBrace` and `NormalizeTokens` read sequences of characters one at a time,
`NormalizeType` sequences of names and operators. What extraction would find in a
file is an input.

## Runs

| Run | Specification | Bounds | Result |
|---|---|---|---|
| `queue` | `FairSpec` | 2 producers of 2 calls or fewer, a line of 1 | types, `DepthBounds`, `DropGaugeBound`; implements `BatchFifo`, its fairness included; accepted batches are indexed |
| `calls` | `Spec` | 1 file, 2 texts, worker and 1 check, 3 edits, queue of 1 | types, `StaleHasCause`, `CheckIsFreshUnlessRaced` |
| `batch` | `FairSpec` | 2 files, one text unreadable, worker and 1 rebuild, crashes, 2 edits | `StaleHasCause`, `EventuallyFresh` |
| `torn_clear` | `Spec` | smallest instance | `IndexedFileHasDetail` is violated |
| `lease_daemons` | `Spec` | 2 daemons with two calls each, clock up to 5, leases of 2 | types, `InForceExcludes`, `LiveHoldsRow`, implements `LeaseLock` |
| `daemon_calls` | `Spec` | 3 supervisors that may exit anywhere, 4 daemons that may die, the second slow, all failures; until trouble | `OneDaemonWhileCalm`, `ListenerIsFound`, `StopStops` |
| `start_lock` | `LeftSpec` | 3 supervisors that may exit anywhere, one of which has, with the lock; 1 slow daemon that may die, all failures | types, `StarterHoldsLock`, `LockIsReleased`, `LockOfGoneIsBroken` |
| `two_daemons` | `Spec` | 2 supervisors, 2 daemons | `OneDaemon` is violated |
| `sessions` | `FairSpec` | 3 sessions, 3 observations by 2 concurrent calls, clock up to 3, decay and retention 1 | `AlertsAreExact`, `OwnAlertsFirst`, `IdleSessionsExpire` |
| `delivery` | `FairSpec` | 2 flushes of a session, 2 changes, 1 other peer, queue of 1, any number of exits and restarts | types, `OutcomeIsTruthful`, `ChangesAreAnnounced`, `EverythingSettles` |
| `analysis` | `AnalysisSpec` | 4 files, 3 projects, caps of 2 and 3, 12 simhash bits in 4 bands, texts of 6 characters, types of 3 names | eleven invariants, see below |
| `missed_clone` | `AnalysisSpec` | the same | `DuplicatesAcrossFilesAreFound` is violated |

Why the bounds are enough to meet the interesting cases: in the queue, two
producers with a line of one meet a drop, a saturated decrement and a publication
out of date at once; the theorems cover any number of them. In `FileIndex` a race
needs two calls on one file and one change between their reads; a third edit lets
the row be wrong, repaired and wrong again; files interact only through a batch
that is abandoned, which takes two. For the lease, two daemons of two calls
have an overrun holder, a successor in another daemon, one in its own and whoever comes
next, and the clock goes past two leases; with one owner for both calls of a daemon the
late release that frees a successor is in the run, and `InForceExcludes` must live with
it. Among supervisors, three calls with four daemons go through start, failure, death
and restart one after the other, in one process and in several. This run keeps
to states in which `calm` holds (the constraint `UntilTrouble`): it ends once, and the
properties claim nothing after that. Only one process alone goes on beyond, to where it
has started daemons beside each other and one cannot bind. Losing the start lock takes three supervisors, one
that exits with it and two that find it. `start_lock` therefore has three and begins
where the first has gone (`LockLeft`): it took the lock and exited before it spawned
anything, the others were constructed before it wrote its token, and one of them has
called `stop` meanwhile. `Init` leads there in a few steps, from `Init` itself three
supervisors have more states than a run can visit, and the theorem covers every state
`Init` leads to. The two that are left go on to break the lock, both at once among other
ways, to start, to fail, and to leave a lock themselves. One daemon is enough there,
since daemons do not touch the lock.
Three sessions let an asked session stand behind two
others, and three observations let one session be observed again while a first
observation is still under way. Two flushes are one under way and one begun by a
change after it; the peer fills the queue, shuts the daemon down, or sends what
nobody should. Sessions share nothing in the plugin, so one is enough.

`analysis` has four independent inputs and explores each while the others are at
their start, which is all there is to see since no definition reads two of them:
the tables of the first project (chains, cycles of two to four files, a cycle
between packages, a lazily imported file, rows that name a removed file, an export
whose signature changes), the tables of the second (exact copies in up to three
files, near copies at distances up to four, small, generated and suppressed ones),
the tables of the third, which is written while it is read, and source texts. In every state each answer is computed anew and compared:

- `ConeIsBall`, `DependentsAreComplete`, `ComponentsAreClasses`: the code's loops
  against balls and classes of a relation;
- `DeadIsUnreachable`, on the third project: two imports from an entrypoint, each of
  which can be stored or removed at any moment of the three reads, and exports that come
  and go with them. A report is compared with what was stored all the time and with what
  was stored at some moment, under every cap; when nothing is written meanwhile both are
  the same, and so is what is reported and what no entrypoint reaches;
- `OmissionHasCause`: what a check leaves out of the whole analysis is accounted
  for by truncation, a detector at its cap, or rows that were not loaded;
- `MapIsClosed`, `FocusRanksReasons`: drift map and review focus are about the
  findings and reasons they come from;
- `CloseClonesAreFound`: banding misses no pair below the number of bands, as long as
  the detector stays below its cap;
- `BlockEndsAtItsBrace`, `TypesNormalize`: the scanners against a lexer and
  against sets of members.

Deadlock is checked except where the system really stops: in `queue` when the
bounded calls are used up, in `daemon_calls` and `start_lock` when every supervisor has exited, in
`sessions`, `delivery` and `analysis` at the end of the bounded clock, calls and
texts.

Fairness. `WF` of an `Indexer` task that has begun: the tokio runtime keeps
polling spawned tasks and nothing they await is held for ever. `WF` of `Enqueue`
or `DropBatch`, and of `FlushChangedFiles`: the debounce timer fires. `WF` of
`InCall` and of `DaemonStep`: a process that is running goes on, and every wait of
the supervisor has a deadline. `WF` of `Flush`: `ensureReady` ends, as
`LockIsReleased` shows of a start. `WF` of `ConnectFails` and `TimesOut`: the
client's two timers; nothing is assumed of the daemon there, so `EverythingSettles`
holds of a daemon that never says a word. `WF` of `Tick`: time passes. Nothing is
assumed about users: no call, edit, check, rebuild or stop has to happen, and no
daemon has to succeed in booting.

## Findings

Each of these is a run that TLC ends with a counterexample.

- `torn_clear`: `clear_index` deletes detail before files and without a
  transaction; after a kill in between, files look indexed and have no detail, and
  no later batch repairs them because the digest matches.
- `two_daemons`: the lock is taken without a second look at the daemon's health.
- `missed_clone`: with a path filter `collect_findings` loads the fingerprints of
  the asked files only, so a check of one changed file cannot find its copy
  elsewhere.

Other observations, made while modelling, have no run of their own.

Index and store:

- A batch in which every digest is up to date does not touch the session tracker,
  so a session whose file another session's batch has indexed already is unknown
  to it (`indexer.rs:977`; `docs/init.md:393`: "track touched files per session").
- `ensure_api_baseline` looks, computes and writes in three store calls; two
  concurrent scans of a new index both write, and the later one wins.
- The worker can finish a batch before `enqueue_files` has counted it: the
  saturating decrement has nothing to subtract, and `queue_depth` stays one above
  the truth; `DepthBounds` says that such drift never exceeds the number of
  concurrent callers.
- A check that waits for a fresh index can still read a stale row, because the
  worker may hold an older text of the file and upsert it afterwards;
  `CheckIsFreshUnlessRaced` says that this is the only way.

Lease and lifecycle:

- The owner of a lease is a name and the process id, the same for every call of a daemon.
  A call that outlasted its lease deletes, when it ends, the lease of the next call of
  its daemon, and a third works beside that one (`store.rs:1071` is the test
  `maintenance_leases_exclude_active_writers_and_recover_stale_leases`).
  `InForceExcludes` and `LiveHoldsRow` say that this is the only way.
- An error of `accept` ends the server loop of a daemon that runs well (`rpc.rs:223`). It
  removes its pid file and its socket before it exits; a supervisor that asks in between
  starts a second daemon, with nobody else around, and the first may then remove the
  files of the second (`docs/init.md:609`: "one daemon per project root / state dir").
  `calm` ends when a call meets a daemon in that condition.
- A stale start lock is read and removed in two steps: with three supervisors, two
  of which find the lock of the third after it exited, the slower one removes the
  lock the faster one has just created. `StarterHoldsLock` says that this is the
  only way to lose it.
- Every start writes its own token before it has the lock, so that two supervisors
  constructed before there is a token file leave a token that the daemon rejects.

Sessions:

- An observation replaces the session's snapshot: files of its earlier batches are
  forgotten, although they are recent.
- Of two concurrent observations of one session the older snapshot can be the last
  one in map or table; the error of a failed row is dropped; `load_sessions`
  failing starts an empty map (`excused` collects these).
- `docs/init.md:405` says "suppress self-overlap"; the ids `bootstrap`, `event`,
  `watcher` and `manual` are sessions like others, so an editing session is
  alerted against the watcher's report of its own edit. Line 403 has a maximum of 8
  alerted sessions per check and 405 keeps severity at `warn`; the code has neither.
- Nothing makes the retention longer than the decay; `RetainAssumption` holds of
  the defaults.

Plugin and RPC:

- A flush that fails for any reason loses its files; a request whose client timed
  out is carried out all the same; a `dropped` batch is a success of which
  the plugin takes no notice.
- Two flushes of a session may reach the daemon in either order; `turn` and
  `observedAt` are sent and not looked at. The debounce has no longest wait.
- When the correlation of an analysis request cannot be written, the error carries
  no id, so the client passes it over and waits for its timeout.

Analysis:

- The exports behind a report of dead code are read after the graph. An importer and its
  export that are stored between the two reads are reported, with the evidence "export is
  unreachable from declared entrypoints and has no observed inbound edges"
  (`graph.rs:193`): the export is new, the import that leads to it is not in the graph
  yet. `DeadIsUnreachable` says of what was stored throughout that it is not.
- `api_drift_findings` reads the exports of its own, like `dead_code_findings`; every
  other answer of several tables has such gaps too, and a check is of no one moment.
- Each detector's cap comes before the path filter: a check can leave out a finding
  about its paths and report `truncated` false. Package cycles name packages, so no
  path filter ever lets one through.
- On the drift map a node's severity is that of the finding inserted last, not of
  the worst.
- `dedup_by` compares neighbours of an order that begins with severity, so equal
  keys that differ in severity or confidence both stay.
- `match_brace` takes `/*/` for a whole block comment. `normalize_tokens` reads the
  words of comments as identifiers, and shingles are five tokens long
  (`docs/init.md:229`: comments removed, `231`: size 4).
- A type that mixes `|` and `&` is cut without regard to which binds closer; types
  that differ can get one normal form.
- Near copies at distance 4 to 6 are within the radius and may share no band.
- An import is resolved against the disk when its importer is indexed; the row
  stays when the imported file moves.

## Theorems

All are checked by TLAPS for every value of the constants that satisfies the
`ASSUME`s of the modules.

- `IndexQueue_proofs`. `TypeCorrect`, then `DepthBoundsCorrect`. `DepthBounds` is
  not inductive by itself in a useful form: the proof carries how each producer's
  place (`sent`, and not yet counted) and the worker's place enter the count of
  batches that exist, and uses that the sets of producers at a place are finite to
  follow their cardinalities from step to step; the upper bound uses that a
  saturated decrement happens only while some sender has not counted yet.
  `DropGaugeBoundCorrect` strengthens the invariant with a bound on the value that
  each call is about to publish. `ImplementsFifo` maps every step of the queue to a
  step of `BatchFifo` or a stutter; a call counts as refused from the moment
  `try_send` finds the channel full, hence the cardinality in the mapping.
- `FileIndex_proofs`. `TypeCorrect`, then `StaleHasCauseCorrect` and
  `CheckIsFreshUnlessRacedCorrect` from one invariant, `IInv`. Neither property is
  inductive: a row can be right now and be overwritten by a call that read an older
  text. `RiskHasCause` therefore asks for a cause as soon as some call holds a text
  that is no longer on disk, `RaceIsSuspect` says that of two calls that hold one
  file the second to look was recorded, `QuietIsSeen` that a call still holds what
  is on disk if the file did not change, and `AskedIsPromised` that for a file a
  running call has done the cause is another call, not the plugin. `Sure` is
  `WillRefresh` without promises that come to nothing, such as a read of a file that
  is gone. `Move` collects what a step of one call has to show of one file;
  `MoveKeeps` derives the invariant from it once, and each action has its `Move`.
- `MaintenanceLease_proofs`. No assumption is made on how calls are spread over
  processes. `LeaseInv` is `InForceExcludes` and `LiveHoldsRow` together, since
  neither is inductive alone: that two leases in force are one call follows from their
  one row, and that a release deletes no row in force from there being no other call in
  force. `InForceBefore` shows once that only a call's own `Acquire` puts its lease in
  force.
- `DaemonLifecycle_proofs`. No switch is assumed to be off, and the numbers of
  supervisors and daemons are any. `LockInv` adds
  to `StarterHoldsLock` that a supervisor about to break a lock is alone and has a stale
  one before it. The other three come from `CalmInv`: while `calm`, one call is under
  way, at most one daemon is alive, and of that one `Known` says what the files say at
  each place of its life and `Met` what each place of the one call knows of it. Each step
  is shown to keep it or to end the calm, and `BeginsAlone` that a call that does not end
  it meets no daemon but one that serves it. With a second call, or a daemon at its end,
  there can be two daemons, as `two_daemons` shows of the first.
- `SessionConflicts_proofs`. `AlertsAreExact` speaks of the map only and is not
  inductive: a restart copies the table into the map. `Recorded` says what map,
  table and pending observations hold of a session that is not excused, pruned rows
  included (`RecordedCorrect`), and `AlertsAreExactCorrect` follows with
  `RetainAssumption`, by which a pruned row is too old to be active.
  `OwnAlertsFirstCorrect` is about what is computed from
  the map, whoever asks: the answer is the set of clashing pairs, ranked by the places
  of their sessions (`FoundBefore`, `RanksBefore`) and cut at the cap, so every alert left
  out stands behind all that are given, none is given twice, and those of the asked
  session come first.
- `ChangeDelivery_proofs`. `ChangesAreAnnouncedCorrect`: the steps of `DaemonRpc`
  leave the plugin alone, and those of a flush keep its session and files, which is
  what makes the invariant inductive. `TypeCorrect` and `OutcomeIsTruthfulCorrect`
  rest on `RpcInv`, about `DaemonRpc` alone. Its part `CallOK` says of each connection
  that while the request with its id is unread nothing was done for it, nothing is in
  the outbox under the id and no conclusive outcome was given, except that its
  correlation may be written while the handler has it in hand. `TakenKeeps` shows it
  once for every step that takes a frame; `RefusalIs` that a refusal names the first
  fault. Assumed are `RpcAssumption` and `InputsAssumption`: a peer sends its id once on its own
  connection, and nobody sends another's; `createRequestId` makes ids of the clock and
  32 random bits, taken to be unique.
- `Findings_proofs`, about the searches of `graph.rs` on any tables of any size, and
  so of every state. `DocsInv` says that the tables have their types and a row for
  every file (`TablesTypeCorrect`). `Iterated` shows once that a function given by a
  start and a turn exists, which the provers do not see by themselves, and each search
  is then a sequence of states with an invariant.
  - `EveryConeIsBall`, `ConeIsBallCorrect`: `SearchInv` says that the queue is the
    nodes of one depth after those of the depth before, that each is as far from the
    start as its depth (`Near`), and that a node taken from it has had its neighbours
    queued (`Followed`); `TurnsSuffice` bounds the turns.
  - `DependentsCompleteForAnyLimit`, `DependentsAreCompleteCorrect`: `DependingInv`,
    for every limit and not only for the one the run has.
  - `DeadIsUnreachableCorrect`, about `ReadsSpec`: `ReadsInv` says of each phase of the
    reads that the imports and exports read so far lie between `stayed` and `occurred`,
    and `ReachableIsLedTo` that the search of the loaded graph finds what its imports
    lead to, whenever they were read; the report is then between the two bounds
    (`ReportsAreBetween`), whatever the cap leaves of it (`DeadRowsReported`).
  - `TarjanFindsComponents`: on every finite graph the machine's result is its set of
    classes of mutual reachability. The proof is about sets first: `ViewInv` is over
    the nodes that are waiting, open and closed. Open nodes are numbered in the order
    of their discovery (`Numbered`), the edges of a finished node have been looked at
    (`Looked`), each open node leads on to those after it by the call stack (`LeadsOn`)
    and back to an earlier one as far as its low link says (`LeadsBack`,
    `LowIsSeen`, `LowIsLeast`). `TarjanInv` ties the sequences to the sets, `ToDo` is
    a measure every turn lowers, hence `Turns` suffice, and `TakenIsComponent` says that
    what is popped from the stack is one class. `ComponentsAreClassesCorrect` follows
    for the graphs of the tables.
  - `EveryBlockEndsAtItsBrace`, `BlockEndsAtItsBraceCorrect`, about the scanners of
    `SourceText` on a text of any length. `RankedRecursion` shows that a function given
    from the end of the text backwards exists, and `ScannerRuns` that `match_brace` is a
    sequence of states, one for each character read. Its invariant `Scanned` says: as
    long as no brace has closed the block, the depth is the braces opened less those
    closed among the lexemes begun so far and is not 0, and the scanner is between two
    lexemes or inside one, in that lexeme's mode, with no closer of it behind
    (`Situated`). Without the second part it is not inductive, since which characters
    are lexemes depends on all those before. `TokensCounted` goes from the end of the
    block back lexeme by lexeme and finds the brace tokens of `normalize_tokens` to be
    the brace lexemes. Assumed are `CharactersAssumption` (the characters of the
    alphabet and the scanner's modes are different) and that the text begins with a
    brace (`Opens`), where all callers of `match_brace` begin; the statement has the
    exception for `/*/` that the property has. `TextSpec` has the steps of the
    texts and types alone; the `analysis` run takes them (`TextNext`) while the tables
    are at rest, so that texts are not multiplied by tables.
- `Answers_proofs`, about what is made of findings. `AnswerInv` adds to `DocsInv` that
  the tracker's answer and the baseline have their types, the baseline one row for each
  export. The lemmas on which the rest stands: keys are ordered as strings are
  (`KeyLess`), a stable sort of a weak order is a permutation (`Arranged`), a
  flattened sequence lists the cells of its parts in order, a filter keeps what it
  accepts and its order.
  - `CloseFoundUnderAnyCap`, `CloseClonesAreFoundCorrect`: functions with the same
    tokens meet in a bucket. Similar ones meet in a band, since a bit that differs
    spoils one band only and there are fewer such bits than bands (`SimhashAssumption`:
    bands of equal width); a report below its cap has therefore been through the pair.
  - `EveryDriftMapIsClosed`, `MapIsClosedCorrect`: for any sequence of findings of which
    each has its nodes, the edges of each join nodes of its own and an import edge
    brings both of its nodes; a node has the severity of one finding about it, hence
    none above the worst.
  - `EveryFocusRanks`, `FocusRanksReasonsCorrect`: for every set of files, asked about
    in the run or not. The reasons are records of known ranges (`ReasonRecords`), their
    order is strict, so the focus is the head of one ranking of the files they name;
    weights are not negative, so the sum for one file is at most the sum of all, before
    both are cut at 100.
  - `EveryOmissionHasCause`, `OmissionHasCauseCorrect`: each answer is a cut of what its
    detector would report without a cap (`DetectedAreCut`), so what is missing from a
    detector below its cap was never found among the rows of the asked files.
    `Listing` puts the rows of a set of files in the order of file and place; a bucket
    or a pair of all rows whose symbols lie in the asked files has the same cells there,
    and one set of cells has one listing (`OneListing`), so the same finding is made.
    Sorting, deduplicating and cutting at twice the cap lose no key of an answer that is
    not truncated (`OrderedKeeps`).
  - `SameFormSameMembers`, `TypesNormalizeCorrect`: a type of any length is names with
    operators between them (`Chained`); with one operator, cutting it there gives one
    part for each member, the sort of which is the sort of the members, and joining and
    cutting once more at the other operator changes nothing. Assumed is
    `TypeNamesAssumption`: `&`, `T`, built-in names and `|` come in this byte order.

Model-checked only: liveness (`FifoLiveness`, `AcceptedIsIndexed`,
`EventuallyFresh`, `LockIsReleased`, `LockOfGoneIsBroken`, `IdleSessionsExpire`,
`EverythingSettles`), which these provers do not reach.

## Not modelled

- `extract_imports`, `extract_exports`, `resolve_specifier`, `syntax_probe` and the
  recognition of functions, classes and type members: regular expressions over
  TypeScript text; a model would be the expressions again. Their results are the
  inputs of `ModuleGraph` and `CloneDetector`.
- `ensureDaemon(false)`, whose caller returns before its lock is released, and the
  start lock between `openSync` and `writeFileSync`.
- Tool schemas and budget, CLI, reports, shared types, configuration, schema of the
  store, durations and memory samples: formats, defaults and displays. Prompt
  signals: one map of times and a cooldown, a best effort nobody waits for.

Known limits: SQLite is taken to execute each statement and each transaction
atomically, and outside `DaemonRpc` and `SessionConflicts` not to fail; clocks do
not run backwards; process ids are not reused.

## Plan

The core and the analysis are modelled, and the safety invariants of the runs are
proved. What is left: the non-blocking start with the lock in two steps, as a second
version of `DaemonLifecycle`, and the gaps between the store calls of the other answers,
in the way of `DeadCodeReads`.
