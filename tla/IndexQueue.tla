---------------------------- MODULE IndexQueue ----------------------------
(***************************************************************************)
(* The index queue of the daemon (indexer.rs): a tokio mpsc channel that    *)
(* `project.filesChanged` handlers fill with try_send and that one worker   *)
(* task drains, and the counters that tell the outside how full it is.      *)
(*                                                                         *)
(* The runtime is multi-threaded, so a handler is preempted between its     *)
(* send, its fetch_add and its store to the telemetry gauge; each of those  *)
(* is an action of its own.  What a batch contains is abstracted to who     *)
(* sent it and how many calls that handler had made.                        *)
(***************************************************************************)
EXTENDS Naturals, Sequences, FiniteSets

CONSTANTS
  Producers,  \* the connections that call project.filesChanged concurrently
  Capacity,   \* mpsc::channel(256) in the code
  MaxCalls,   \* bound on the calls of one producer
  NoBatch     \* "the worker holds no batch"

Batches == Producers \X (1..MaxCalls)

ASSUME CapacityAssumption == Capacity \in Nat \ {0}
ASSUME ProducersAssumption == IsFiniteSet(Producers)
ASSUME MaxCallsAssumption == MaxCalls \in Nat
ASSUME NoBatchAssumption == NoBatch \notin Batches

VARIABLES
  channel,      \* the mpsc channel, oldest batch first
  calls,        \* calls[p]: how many calls producer p has made
  pc,           \* pc[p]: where producer p's call is
  seen,         \* seen[p]: the counter value p is about to publish, 0 when none
  workerPc,     \* where the worker's loop is
  current,      \* the batch the worker received
  workerSeen,   \* the counter value the worker is about to publish, 0 when none
  queueDepth,   \* Indexer::queue_depth
  dropped,      \* Indexer::dropped_batches
  failed,       \* Indexer::failed_batches
  gaugeDepth,   \* Metrics::queue_depth
  gaugeDrops,   \* Metrics::queue_drops
  gaugeFailed   \* Metrics::queue_failed

producerVars == <<calls, pc, seen>>
workerVars   == <<workerPc, current, workerSeen>>
counterVars  == <<queueDepth, dropped, failed>>
gaugeVars    == <<gaugeDepth, gaugeDrops, gaugeFailed>>
vars == <<channel, producerVars, workerVars, counterVars, gaugeVars>>

Init ==
  /\ channel = << >>
  /\ calls = [p \in Producers |-> 0]
  /\ pc = [p \in Producers |-> "idle"]
  /\ seen = [p \in Producers |-> 0]
  /\ workerPc = "waiting" /\ current = NoBatch /\ workerSeen = 0
  /\ queueDepth = 0 /\ dropped = 0 /\ failed = 0
  /\ gaugeDepth = 0 /\ gaugeDrops = 0 /\ gaugeFailed = 0

---------------------------------------------------------------------------
(* Indexer::enqueue_files.                                                 *)

Call(p) ==
  /\ pc[p] = "idle"
  /\ calls[p] < MaxCalls
  /\ calls' = [calls EXCEPT ![p] = @ + 1]

(* Nothing is left of the files after normalize_candidates, or writing the *)
(* correlation metadata fails: the call returns before try_send.           *)
ReturnEarly(p) ==
  /\ Call(p)
  /\ UNCHANGED <<channel, pc, seen, workerVars, counterVars, gaugeVars>>

(* Mutant of TrySendOk: an unbounded channel.                              *)
SendUnbounded(p) ==
  /\ Call(p)
  /\ channel' = Append(channel, <<p, calls'[p]>>)
  /\ pc' = [pc EXCEPT ![p] = "sent"]
  /\ UNCHANGED <<seen, workerVars, counterVars, gaugeVars>>

TrySendOk(p) ==
  /\ Call(p)
  /\ Len(channel) < Capacity
  /\ channel' = Append(channel, <<p, calls'[p]>>)
  /\ pc' = [pc EXCEPT ![p] = "sent"]
  /\ UNCHANGED <<seen, workerVars, counterVars, gaugeVars>>

(* Mutant of TrySendFull: any error of try_send is taken for a full queue. *)
TrySendFails(p) ==
  /\ Call(p)
  /\ pc' = [pc EXCEPT ![p] = "full"]
  /\ UNCHANGED <<channel, seen, workerVars, counterVars, gaugeVars>>

TrySendFull(p) ==
  /\ Call(p)
  /\ Len(channel) >= Capacity
  /\ pc' = [pc EXCEPT ![p] = "full"]
  /\ UNCHANGED <<channel, seen, workerVars, counterVars, gaugeVars>>

CountAccepted(p) ==
  /\ pc[p] = "sent"
  /\ queueDepth' = queueDepth + 1
  /\ seen' = [seen EXCEPT ![p] = queueDepth + 1]
  /\ pc' = [pc EXCEPT ![p] = "counted"]
  /\ UNCHANGED <<channel, calls, workerVars, dropped, failed, gaugeVars>>

PublishDepth(p) ==
  /\ pc[p] = "counted"
  /\ gaugeDepth' = seen[p]
  /\ seen' = [seen EXCEPT ![p] = 0]
  /\ pc' = [pc EXCEPT ![p] = "idle"]
  /\ UNCHANGED <<channel, calls, workerVars, counterVars, gaugeDrops, gaugeFailed>>

CountDrop(p) ==
  /\ pc[p] = "full"
  /\ dropped' = dropped + 1
  /\ seen' = [seen EXCEPT ![p] = dropped + 1]
  /\ pc' = [pc EXCEPT ![p] = "dropCounted"]
  /\ UNCHANGED <<channel, calls, workerVars, queueDepth, failed, gaugeVars>>

IncrementDrops(p) ==
  /\ pc[p] = "dropCounted"
  /\ gaugeDrops' = gaugeDrops + 1
  /\ pc' = [pc EXCEPT ![p] = "dropIncremented"]
  /\ UNCHANGED <<channel, calls, seen, workerVars, counterVars, gaugeDepth, gaugeFailed>>

(* Mutant of PublishDrops: the gauge is incremented a second time.         *)
IncrementDropsAgain(p) ==
  /\ pc[p] = "dropIncremented"
  /\ gaugeDrops' = gaugeDrops + 1
  /\ seen' = [seen EXCEPT ![p] = 0]
  /\ pc' = [pc EXCEPT ![p] = "idle"]
  /\ UNCHANGED <<channel, calls, workerVars, counterVars, gaugeDepth, gaugeFailed>>

PublishDrops(p) ==
  /\ pc[p] = "dropIncremented"
  /\ gaugeDrops' = seen[p]
  /\ seen' = [seen EXCEPT ![p] = 0]
  /\ pc' = [pc EXCEPT ![p] = "idle"]
  /\ UNCHANGED <<channel, calls, workerVars, counterVars, gaugeDepth, gaugeFailed>>

---------------------------------------------------------------------------
(* The worker task that Indexer::start spawns.                             *)

Receive ==
  /\ workerPc = "waiting"
  /\ channel # << >>
  /\ current' = Head(channel)
  /\ channel' = Tail(channel)
  /\ workerPc' = "indexing"
  /\ UNCHANGED <<producerVars, workerSeen, counterVars, gaugeVars>>

IndexOk ==
  /\ workerPc = "indexing"
  /\ workerPc' = "indexed"
  /\ UNCHANGED <<channel, producerVars, current, workerSeen, counterVars, gaugeVars>>

(* Mutant of IndexErr: the error leaves the loop, as with a `?` there.     *)
IndexErrEndsWorker ==
  /\ workerPc = "indexing"
  /\ failed' = failed + 1
  /\ workerPc' = "ended"
  /\ UNCHANGED <<channel, producerVars, current, workerSeen, queueDepth, dropped, gaugeVars>>

IndexErr ==
  /\ workerPc = "indexing"
  /\ failed' = failed + 1
  /\ workerPc' = "failed"
  /\ UNCHANGED <<channel, producerVars, current, workerSeen, queueDepth, dropped, gaugeVars>>

PublishFailed ==
  /\ workerPc = "failed"
  /\ gaugeFailed' = failed
  /\ workerPc' = "indexed"
  /\ UNCHANGED <<channel, producerVars, current, workerSeen, counterVars, gaugeDepth, gaugeDrops>>

(* decrement_queue_depth: a compare-exchange loop that stops at zero.  Its *)
(* effect is that of its last load or exchange.                            *)
(* Mutant of Decremented: a fetch_sub that wraps around at zero.           *)
DecrementedWrapping == IF queueDepth = 0 THEN 2^16 - 1 ELSE queueDepth - 1

Decremented == IF queueDepth = 0 THEN 0 ELSE queueDepth - 1

DecrementQueueDepth ==
  /\ workerPc = "indexed"
  /\ queueDepth' = Decremented
  /\ workerSeen' = Decremented
  /\ workerPc' = "decremented"
  /\ UNCHANGED <<channel, producerVars, current, dropped, failed, gaugeVars>>

PublishWorkerDepth ==
  /\ workerPc = "decremented"
  /\ gaugeDepth' = workerSeen
  /\ workerSeen' = 0
  /\ current' = NoBatch
  /\ workerPc' = "waiting"
  /\ UNCHANGED <<channel, producerVars, counterVars, gaugeDrops, gaugeFailed>>

---------------------------------------------------------------------------
Finish(p) ==
  \/ CountAccepted(p) \/ PublishDepth(p)
  \/ CountDrop(p) \/ IncrementDrops(p) \/ PublishDrops(p)

Producer(p) ==
  \/ ReturnEarly(p) \/ TrySendOk(p) \/ TrySendFull(p)
  \/ Finish(p)

Worker ==
  \/ Receive
  \/ IndexOk \/ IndexErr \/ PublishFailed
  \/ DecrementQueueDepth \/ PublishWorkerDepth

Next == (\E p \in Producers : Producer(p)) \/ Worker

Spec == Init /\ [][Next]_vars

(* A spawned task keeps being polled, so a call that has begun and the     *)
(* worker make progress; nobody has to make another call.                  *)
FairSpec ==
  /\ Spec
  /\ \A p \in Producers : WF_vars(Finish(p))
  /\ WF_vars(Worker)

---------------------------------------------------------------------------
ProducerPcs == {"idle", "sent", "counted", "full", "dropCounted", "dropIncremented"}
WorkerPcs   == {"waiting", "indexing", "failed", "indexed", "decremented"}

(* Every variable has its type, the channel respects its capacity, and the *)
(* worker holds a batch exactly while it is not waiting for one.           *)
TypeOK ==
  /\ channel \in Seq(Batches) /\ Len(channel) <= Capacity
  /\ calls \in [Producers -> 0..MaxCalls]
  /\ pc \in [Producers -> ProducerPcs]
  /\ seen \in [Producers -> Nat]
  /\ workerPc \in WorkerPcs
  /\ current \in Batches \cup {NoBatch}
  /\ (current = NoBatch) <=> (workerPc = "waiting")
  /\ workerSeen \in Nat
  /\ queueDepth \in Nat /\ dropped \in Nat /\ failed \in Nat
  /\ gaugeDepth \in Nat /\ gaugeDrops \in Nat /\ gaugeFailed \in Nat

At(where) == {p \in Producers : pc[p] = where}

(* Batches accepted and not yet subtracted from queueDepth.                *)
Outstanding ==
  Len(channel) + (IF workerPc \in {"indexing", "failed", "indexed"} THEN 1 ELSE 0)

(* The worker can finish a batch before its sender has counted it, and     *)
(* decrement_queue_depth then stops at zero instead of going below: the    *)
(* counter drifts.  The drift has one sign and a bound.  queue_depth never *)
(* hides a batch other than those whose sender is between try_send and     *)
(* fetch_add, and however long the daemon runs it never counts more        *)
(* batches that do not exist than there are concurrent callers.            *)
DepthBounds ==
  /\ Outstanding <= queueDepth + Cardinality(At("sent"))
  /\ queueDepth + Cardinality(At("sent")) <= Outstanding + Cardinality(Producers)

(* increment_queue_drops and set_queue_drops of concurrent calls overlap;  *)
(* the drop gauge may be stale, but it never shows more drops than the     *)
(* counter plus the calls that are between the two.                        *)
DropGaugeBound ==
  gaugeDrops <= dropped + Cardinality(At("dropIncremented"))

(* An accepted batch is eventually indexed: the single worker gets to it   *)
(* whatever the producers do.                                              *)
AcceptedIsIndexed ==
  \A b \in Batches :
    (\E i \in DOMAIN channel : channel[i] = b)
      ~> (current = b /\ workerPc = "decremented")

(* The queue is a bounded first-in first-out line served by one worker;    *)
(* a call counts as refused from the moment try_send finds the line full.  *)
Fifo == INSTANCE BatchFifo WITH
  line    <- channel,
  active  <- current,
  refused <- dropped + Cardinality(At("full"))

FifoSafety   == Fifo!Spec
FifoLiveness == Fifo!FairSpec

===========================================================================
