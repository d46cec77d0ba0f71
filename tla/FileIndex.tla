---------------------------- MODULE FileIndex ----------------------------
(***************************************************************************)
(* How the daemon keeps its store in step with the disk (indexer.rs,        *)
(* store.rs): Indexer::index_paths_now, run by the queue's worker, by       *)
(* analysis.check handlers that wait for a fresh index and by rebuild, on   *)
(* the same store and without a lock around the whole of it.  The store's   *)
(* connection mutex is held for one call at a time, so each store call and  *)
(* each await on the file system is an action.                              *)
(*                                                                         *)
(* A file's text is a member of Contents; its digest and all rows derived   *)
(* from it are the text itself.  Files are numbers because a batch is       *)
(* sorted.  All detector layers are on, as in the default configuration.    *)
(***************************************************************************)
EXTENDS Naturals, Sequences, FiniteSets

CONSTANTS
  Files,      \* the project's source files, a set of numbers
  Contents,   \* the texts a file can have
  Unreadable, \* those read_to_string rejects (not UTF-8)
  Absent,     \* no such file, no such row
  Sessions,   \* the editing sessions
  Manual,     \* the session id a check without one is indexed under
  Bootstrap,  \* the session id a scan is indexed under
  Worker,     \* the queue's worker task
  Checks,     \* analysis.check handlers that run concurrently
  Rebuilds,   \* maintenance.rebuild handlers
  Capacity,   \* places in the index queue
  MaxEdits,   \* bound on the number of changes to the disk
  Crashes     \* whether the daemon may be killed and started again

Tasks == {Worker} \cup Checks \cup Rebuilds
Text  == Contents \cup {Absent}
SessionIds == Sessions \cup {Manual, Bootstrap}

ASSUME FilesAssumption == Files \subseteq Nat /\ IsFiniteSet(Files)
ASSUME ContentsAssumption == Unreadable \subseteq Contents /\ Absent \notin Contents
ASSUME BoundsAssumption == Capacity \in Nat /\ MaxEdits \in Nat /\ Crashes \in BOOLEAN

VARIABLES
  disk,      \* disk[f]: the text of f on disk
  edits,     \* how often the disk was changed (bounded by MaxEdits)
  pending,   \* pending[s]: files s changed that the plugin has not sent yet
  queue,     \* accepted batches: [session, files]
  row,       \* row[f]: the digest in table files
  detail,    \* detail[f]: the text that f's import, export, clone and type rows describe
  tracked,   \* tracked[s]: the touched files the session tracker has for s
  baseline,  \* baseline[f]: the exports of f in table api_baseline
  task,      \* task[t]: the local state of an index_paths_now call
  suspect    \* history: files whose last refresh was raced, cut short, or never asked for

storeVars == <<row, detail, tracked, baseline>>
vars == <<disk, edits, pending, queue, storeVars, task, suspect>>

(* A call's locals: touched_files, the files still to do, the source read, *)
(* whether anything was indexed, the exports read for the baseline.  quiet *)
(* is history: the files of the batch not changed since the call began.    *)
NoText   == [f \in Files |-> Absent]
IdleTask == [pc |-> "idle", session |-> Manual, batch |-> {}, todo |-> {},
             source |-> Absent, indexed |-> FALSE, exports |-> NoText, quiet |-> {}]

Init ==
  /\ disk \in [Files -> Text]
  /\ edits = 0
  /\ pending = [s \in Sessions |-> {}]
  /\ queue = << >>
  /\ row = disk /\ detail = disk
  /\ tracked = [s \in SessionIds |-> {}]
  /\ baseline \in {NoText, row}
  /\ task = [t \in Tasks |-> IdleTask]
  /\ suspect = {}

At(t, where) == task[t].pc = where

(* The file a task is at: batches are sorted.                              *)
First(fs)  == CHOOSE f \in fs : \A g \in fs : f <= g
Current(t) == First(task[t].todo)

(* A task that has looked at f on disk and not yet acted on what it saw.   *)
Holds(t, f) ==
  /\ task[t].pc \in {"remove", "compare", "upsert"}
  /\ f = Current(t)

---------------------------------------------------------------------------
(* The sessions, the disk and the plugin.                                  *)

Edit(s, f, c) ==
  /\ edits < MaxEdits
  /\ c # disk[f]
  /\ disk' = [disk EXCEPT ![f] = c]
  /\ edits' = edits + 1
  /\ pending' = [pending EXCEPT ![s] = @ \cup {f}]
  /\ task' = [t \in Tasks |-> [task[t] EXCEPT !.quiet = @ \ {f}]]
  /\ UNCHANGED <<queue, storeVars, suspect>>

(* A change nobody reports: the watcher hook hears of "add" and "change"   *)
(* but not of a file that is unlinked, a flush that fails is not repeated, *)
(* and OpenCode may not even run.                                          *)
EditUnreported(f, c) ==
  /\ edits < MaxEdits
  /\ c # disk[f]
  /\ disk' = [disk EXCEPT ![f] = c]
  /\ edits' = edits + 1
  /\ suspect' = suspect \cup {f}
  /\ task' = [t \in Tasks |-> [task[t] EXCEPT !.quiet = @ \ {f}]]
  /\ UNCHANGED <<pending, queue, storeVars>>

(* Mutant of Enqueue: a channel without its capacity.                      *)
EnqueueUnbounded(s) ==
  /\ pending[s] # {}
  /\ queue' = Append(queue, [session |-> s, files |-> pending[s]])
  /\ pending' = [pending EXCEPT ![s] = {}]
  /\ UNCHANGED <<disk, edits, storeVars, task, suspect>>

(* The plugin's debounced batch reaches enqueue_files: try_send accepts it *)
(* or, with the queue full, it is dropped for good.                        *)
Enqueue(s) ==
  /\ pending[s] # {}
  /\ Len(queue) < Capacity
  /\ queue' = Append(queue, [session |-> s, files |-> pending[s]])
  /\ pending' = [pending EXCEPT ![s] = {}]
  /\ UNCHANGED <<disk, edits, storeVars, task, suspect>>

DropBatch(s) ==
  /\ pending[s] # {}
  /\ Len(queue) >= Capacity
  /\ pending' = [pending EXCEPT ![s] = {}]
  /\ suspect' = suspect \cup pending[s]
  /\ UNCHANGED <<disk, edits, queue, storeVars, task>>

---------------------------------------------------------------------------
(* index_paths_now is entered from three places.                           *)

(* Mutant of Begin: of a batch only the first file is done.                *)
BeginFirstOnly(t, s, fs) ==
  task' = [task EXCEPT ![t] =
             [IdleTask EXCEPT !.pc = "probe", !.session = s, !.batch = fs,
                              !.todo = {First(fs)},
                              !.quiet = fs]]

Begin(t, s, fs) ==
  task' = [task EXCEPT ![t] =
             [IdleTask EXCEPT !.pc = "probe", !.session = s,
                              !.batch = fs, !.todo = fs, !.quiet = fs]]

WorkerReceive ==
  /\ At(Worker, "idle")
  /\ queue # << >>
  /\ Begin(Worker, Head(queue).session, Head(queue).files)
  /\ queue' = Tail(queue)
  /\ UNCHANGED <<disk, edits, pending, storeVars, suspect>>

CheckBegin(t, s, fs) ==
  /\ At(t, "idle")
  /\ Begin(t, s, fs)
  /\ UNCHANGED <<disk, edits, pending, queue, storeVars, suspect>>

(* rebuild: with the lease, clear_index empties the tables (the API        *)
(* baseline and the sessions stay), and bootstrap_scan then looks for the  *)
(* files on disk.  The lease is modelled by MaintenanceLease; here two     *)
(* rebuilds may overlap, as they do when it runs out.                      *)
RebuildClear(t) ==
  /\ At(t, "idle")
  /\ row' = NoText /\ detail' = NoText
  /\ task' = [task EXCEPT ![t].pc = "discover"]
  /\ UNCHANGED <<disk, edits, pending, queue, tracked, baseline, suspect>>

RebuildDiscover(t) ==
  /\ At(t, "discover")
  /\ LET found == {f \in Files : disk[f] # Absent} IN
       IF found = {}
         THEN task' = [task EXCEPT ![t] = IdleTask]
         ELSE Begin(t, Bootstrap, found)
  /\ UNCHANGED <<disk, edits, pending, queue, storeVars, suspect>>

---------------------------------------------------------------------------
(* The loop of index_paths_now over the batch.                             *)

Rest(t) == task[t].todo \ {Current(t)}

(* A second task that looks at f while another still acts on what it saw   *)
(* leaves the row to whoever writes last; a lone look settles it.          *)
Look(t, f) ==
  suspect' = IF \E u \in Tasks \ {t} : Holds(u, f) THEN suspect \cup {f}
                                                   ELSE suspect \ {f}

(* Mutant of Probe: a file that is gone is passed over.                    *)
ProbeSkipsMissing(t) ==
  /\ At(t, "probe") /\ task[t].todo # {}
  /\ IF disk[Current(t)] = Absent
       THEN task' = [task EXCEPT ![t].todo = Rest(t)]
       ELSE task' = [task EXCEPT ![t].pc = "read"]
  /\ UNCHANGED <<disk, edits, pending, queue, storeVars, suspect>>

Probe(t) ==
  /\ At(t, "probe") /\ task[t].todo # {}
  /\ LET f == Current(t) IN
       IF disk[f] = Absent
         THEN /\ task' = [task EXCEPT ![t].pc = "remove"]
              /\ Look(t, f)
         ELSE /\ task' = [task EXCEPT ![t].pc = "read"]
              /\ UNCHANGED suspect
  /\ UNCHANGED <<disk, edits, pending, queue, storeVars>>

RemoveFile(t) ==
  /\ At(t, "remove")
  /\ row' = [row EXCEPT ![Current(t)] = Absent]
  /\ detail' = [detail EXCEPT ![Current(t)] = Absent]
  /\ task' = [task EXCEPT ![t].pc = "probe", ![t].todo = Rest(t)]
  /\ UNCHANGED <<disk, edits, pending, queue, tracked, baseline, suspect>>

(* The file went away after exists(): canonicalize finds nothing and the   *)
(* loop goes on without touching the row.                                  *)
SkipVanished(t) ==
  /\ At(t, "read")
  /\ disk[Current(t)] = Absent
  /\ task' = [task EXCEPT ![t].pc = "probe", ![t].todo = Rest(t)]
  /\ UNCHANGED <<disk, edits, pending, queue, storeVars, suspect>>

(* Mutant of Abort: the file is tried again until it can be read.          *)
AbortRetries(t) ==
  /\ At(t, "read")
  /\ disk[Current(t)] \in Unreadable \cup {Absent}
  /\ task' = [task EXCEPT ![t].pc = "probe"]
  /\ UNCHANGED <<disk, edits, pending, queue, storeVars, suspect>>

(* It went away after canonicalize, or its text is not UTF-8: the `?`      *)
(* abandons the rest of the batch.  What was upserted stays; the session,  *)
(* the baseline and the time of the index are not brought up to date.      *)
Abort(t) ==
  /\ At(t, "read")
  /\ disk[Current(t)] \in Unreadable \cup {Absent}
  /\ task' = [task EXCEPT ![t] = IdleTask]
  /\ suspect' = suspect \cup task[t].todo
  /\ UNCHANGED <<disk, edits, pending, queue, storeVars>>

ReadSource(t) ==
  /\ At(t, "read")
  /\ disk[Current(t)] \in Contents \ Unreadable
  /\ task' = [task EXCEPT ![t].pc = "compare", ![t].source = disk[Current(t)]]
  /\ Look(t, Current(t))
  /\ UNCHANGED <<disk, edits, pending, queue, storeVars>>

(* Mutant of CompareDigest: any digest will do.                            *)
CompareExists(t) ==
  /\ At(t, "compare")
  /\ IF row[Current(t)] # Absent
       THEN task' = [task EXCEPT ![t].pc = "probe", ![t].todo = Rest(t),
                                 ![t].source = Absent]
       ELSE task' = [task EXCEPT ![t].pc = "upsert"]
  /\ UNCHANGED <<disk, edits, pending, queue, storeVars, suspect>>

(* file_digest equal to the digest of what was read: nothing to do.        *)
CompareDigest(t) ==
  /\ At(t, "compare")
  /\ IF row[Current(t)] = task[t].source
       THEN task' = [task EXCEPT ![t].pc = "probe", ![t].todo = Rest(t),
                                 ![t].source = Absent]
       ELSE task' = [task EXCEPT ![t].pc = "upsert"]
  /\ UNCHANGED <<disk, edits, pending, queue, storeVars, suspect>>

(* upsert_file_document replaces every row of the file in one transaction. *)
Upsert(t) ==
  /\ At(t, "upsert")
  /\ row' = [row EXCEPT ![Current(t)] = task[t].source]
  /\ detail' = [detail EXCEPT ![Current(t)] = task[t].source]
  /\ task' = [task EXCEPT ![t].pc = "probe", ![t].todo = Rest(t),
                          ![t].source = Absent, ![t].indexed = TRUE]
  /\ UNCHANGED <<disk, edits, pending, queue, tracked, baseline, suspect>>

---------------------------------------------------------------------------
(* After the loop.                                                         *)

(* sessions.observe, only when something was indexed.                      *)
Observe(t) ==
  /\ At(t, "probe") /\ task[t].todo = {} /\ task[t].indexed
  /\ tracked' = [tracked EXCEPT ![task[t].session] = task[t].batch]
  /\ task' = [task EXCEPT ![t].pc = "baseline"]
  /\ UNCHANGED <<disk, edits, pending, queue, row, detail, baseline, suspect>>

NothingIndexed(t) ==
  /\ At(t, "probe") /\ task[t].todo = {} /\ ~task[t].indexed
  /\ task' = [task EXCEPT ![t].pc = "done"]
  /\ UNCHANGED <<disk, edits, pending, queue, storeVars, suspect>>

(* ensure_api_baseline: one store call reads the baseline, a second the    *)
(* exports, a third writes.                                                *)
ReadBaseline(t) ==
  /\ At(t, "baseline")
  /\ task' = [task EXCEPT ![t].pc = IF baseline # NoText THEN "done" ELSE "exports"]
  /\ UNCHANGED <<disk, edits, pending, queue, storeVars, suspect>>

ReadExports(t) ==
  /\ At(t, "exports")
  /\ IF detail = NoText
       THEN task' = [task EXCEPT ![t].pc = "done"]
       ELSE task' = [task EXCEPT ![t].pc = "writeBaseline", ![t].exports = detail]
  /\ UNCHANGED <<disk, edits, pending, queue, storeVars, suspect>>

WriteBaseline(t) ==
  /\ At(t, "writeBaseline")
  /\ baseline' = task[t].exports
  /\ task' = [task EXCEPT ![t].pc = "done", ![t].exports = NoText]
  /\ UNCHANGED <<disk, edits, pending, queue, row, detail, tracked, suspect>>

(* The worker takes its next batch, a check collects its findings from the *)
(* store as it now is, a rebuild releases its lease.                       *)
Return(t) ==
  /\ At(t, "done")
  /\ task' = [task EXCEPT ![t] = IdleTask]
  /\ UNCHANGED <<disk, edits, pending, queue, storeVars, suspect>>

---------------------------------------------------------------------------
(* The daemon is killed and started again: the store survives, the queue   *)
(* and every call are gone.                                                *)
Unfinished ==
  {f \in Files : \/ \E i \in DOMAIN queue : f \in queue[i].files
                 \/ \E t \in Tasks : f \in task[t].todo \/ At(t, "discover")}

Restart ==
  /\ queue' = << >>
  /\ task' = [t \in Tasks |-> IdleTask]
  /\ suspect' = suspect \cup Unfinished
  /\ UNCHANGED <<disk, edits, pending, tracked, baseline>>

Crash ==
  /\ Crashes
  /\ Restart
  /\ UNCHANGED <<row, detail>>

(* Killed inside clear_index: execute_batch runs its DELETEs one by one,   *)
(* each in a transaction of its own, the table files after the detail.     *)
CrashInClear ==
  /\ Crashes
  /\ \E t \in Rebuilds : At(t, "idle")
  /\ Restart
  /\ detail' = NoText
  /\ UNCHANGED row

---------------------------------------------------------------------------
IndexPathsNow(t) ==
  \/ Probe(t) \/ RemoveFile(t) \/ SkipVanished(t) \/ Abort(t) \/ ReadSource(t)
  \/ CompareDigest(t) \/ Upsert(t)
  \/ Observe(t) \/ NothingIndexed(t)
  \/ ReadBaseline(t) \/ ReadExports(t) \/ WriteBaseline(t)
  \/ Return(t)

Next ==
  \/ \E f \in Files, c \in Text :
       EditUnreported(f, c) \/ \E s \in Sessions : Edit(s, f, c)
  \/ \E s \in Sessions : Enqueue(s) \/ DropBatch(s)
  \/ WorkerReceive
  \/ \E t \in Checks, s \in Sessions \cup {Manual}, fs \in (SUBSET Files) \ {{}} :
       CheckBegin(t, s, fs)
  \/ \E t \in Rebuilds : RebuildClear(t) \/ RebuildDiscover(t)
  \/ \E t \in Tasks : IndexPathsNow(t)
  \/ Crash \/ CrashInClear

Spec == Init /\ [][Next]_vars

(* The debounce timer fires and spawned tasks keep being polled; nobody    *)
(* has to edit, check or rebuild.                                          *)
FairSpec ==
  /\ Spec
  /\ \A s \in Sessions : WF_vars(Enqueue(s) \/ DropBatch(s))
  /\ WF_vars(WorkerReceive)
  /\ \A t \in Rebuilds : WF_vars(RebuildDiscover(t))
  /\ \A t \in Tasks : WF_vars(IndexPathsNow(t))

---------------------------------------------------------------------------
Pcs == {"idle", "discover", "probe", "remove", "read", "compare", "upsert",
        "baseline", "exports", "writeBaseline", "done"}

TaskState ==
  [pc : Pcs, session : SessionIds, batch : SUBSET Files, todo : SUBSET Files,
   source : Text, indexed : BOOLEAN, exports : [Files -> Text], quiet : SUBSET Files]

(* Every variable has its type; a task inside the loop has a file to do    *)
(* and one that compares or upserts has read a text.                       *)
TypeOK ==
  /\ disk \in [Files -> Text]
  /\ edits \in 0..MaxEdits
  /\ pending \in [Sessions -> SUBSET Files]
  /\ queue \in Seq([session : Sessions, files : (SUBSET Files) \ {{}}])
  /\ Len(queue) <= Capacity
  /\ row \in [Files -> Text] /\ detail \in [Files -> Text]
  /\ tracked \in [SessionIds -> SUBSET Files]
  /\ baseline \in [Files -> Text]
  /\ task \in [Tasks -> TaskState]
  /\ suspect \subseteq Files
  /\ \A t \in Tasks :
       /\ task[t].pc \in {"remove", "read", "compare", "upsert"} => task[t].todo # {}
       /\ task[t].pc \in {"compare", "upsert"} <=> task[t].source # Absent
       /\ task[t].todo \cup task[t].quiet \subseteq task[t].batch

(* t still has to look at f, or acts on f as it is on disk now.            *)
WillRefresh(t, f) ==
  \/ task[t].pc = "discover"
  \/ /\ f \in task[t].todo
     /\ \/ task[t].pc \in {"probe", "read"}
        \/ f # Current(t)
        \/ task[t].pc = "remove" /\ disk[f] = Absent
        \/ task[t].pc \in {"compare", "upsert"} /\ task[t].source = disk[f]

Notified(f) ==
  \/ \E s \in Sessions : f \in pending[s]
  \/ \E i \in DOMAIN queue : f \in queue[i].files

(* The store is never silently behind the disk: a row that differs from    *)
(* its file is one the plugin has still to report, one a queued batch or a *)
(* running call is going to refresh, or one whose last refresh was raced   *)
(* by another call, abandoned with its batch, lost in a crash, refused by  *)
(* a full queue or never asked for.                                        *)
StaleHasCause ==
  \A f \in Files :
    row[f] # disk[f] =>
      Notified(f) \/ f \in suspect \/ \E t \in Tasks : WillRefresh(t, f)

(* A check that waited for a fresh index does not depend on notifications: *)
(* when it reads its findings, the row of a file that did not change while *)
(* it ran agrees with the disk, even if the plugin never reported the file *)
(* -- unless another call raced it for the file or is still at it.         *)
CheckIsFreshUnlessRaced ==
  \A t \in Checks, f \in Files :
    At(t, "done") /\ f \in task[t].quiet /\ row[f] # disk[f] =>
      f \in suspect \/ \E u \in Tasks : WillRefresh(u, f)

(* "DB writes wrapped in transactions": a file the store calls indexed has *)
(* the imports, exports, clones and type shapes of that very text.         *)
IndexedFileHasDetail == \A f \in Files : detail[f] = row[f]

(* No file stays behind for good: again and again, whatever checks and     *)
(* rebuilds do meanwhile, its row agrees with the disk, unless its last    *)
(* refresh went wrong or nobody asked for one.                             *)
EventuallyFresh ==
  \A f \in Files : []<>(row[f] = disk[f] \/ f \in suspect)

===========================================================================
