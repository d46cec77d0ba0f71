------------------------- MODULE IndexQueue_proofs -------------------------
(***************************************************************************)
(* Proofs about IndexQueue for every set of producers, every capacity and   *)
(* every number of calls: the types, the bounds on the drift of queue_depth *)
(* and of the drop gauge, and that the queue is a bounded FIFO.             *)
(***************************************************************************)
EXTENDS IndexQueue, FiniteSetTheorems, TLAPS

(* The values a call publishes never exceed the counter they came from;    *)
(* without this the drop gauge could jump above the counter.               *)
SeenDropsBound ==
  \A p \in Producers : pc[p] \in {"dropCounted", "dropIncremented"} => seen[p] <= dropped

IInv == TypeOK /\ DepthBounds /\ SeenDropsBound /\ DropGaugeBound

---------------------------------------------------------------------------
(* How many calls are at a step, before and after one call moves.          *)

LEMMA AtIsFinite ==
  ASSUME NEW w
  PROVE  /\ IsFiniteSet(At(w)) /\ Cardinality(At(w)) \in Nat
         /\ Cardinality(Producers) \in Nat
         /\ Cardinality(At(w)) <= Cardinality(Producers)
<1>1. At(w) \subseteq Producers
  BY DEF At
<1>2. QED
  BY <1>1, ProducersAssumption, FS_Subset, FS_CardinalityType

LEMMA MoveCounts ==
  ASSUME pc \in [Producers -> ProducerPcs],
         NEW p \in Producers, NEW v \in ProducerPcs, NEW w \in ProducerPcs,
         pc' = [pc EXCEPT ![p] = v]
  PROVE  /\ pc[p] # w /\ v = w => Cardinality(At(w)') = Cardinality(At(w)) + 1
         /\ pc[p] = w /\ v # w => Cardinality(At(w)') = Cardinality(At(w)) - 1
         /\ pc[p] # w /\ v # w => Cardinality(At(w)') = Cardinality(At(w))
<1>1. IsFiniteSet(At(w)) /\ Cardinality(At(w)) \in Nat
  BY AtIsFinite
<1>2. CASE pc[p] # w /\ v = w
  <2>1. At(w)' = At(w) \cup {p} /\ p \notin At(w)
    BY <1>2 DEF At
  <2>2. QED
    BY <1>1, <1>2, <2>1, FS_AddElement
<1>3. CASE pc[p] = w /\ v # w
  <2>1. At(w)' = At(w) \ {p} /\ p \in At(w)
    BY <1>3 DEF At
  <2>2. QED
    BY <1>1, <1>3, <2>1, FS_RemoveElement
<1>4. CASE pc[p] # w /\ v # w
  <2>1. At(w)' = At(w)
    BY <1>4 DEF At
  <2>2. QED
    BY <1>4, <2>1
<1>5. QED
  BY <1>2, <1>3, <1>4

---------------------------------------------------------------------------
LEMMA InitTypeOK == Init => TypeOK
BY CapacityAssumption, MaxCallsAssumption
   DEF Init, TypeOK, ProducerPcs, WorkerPcs

LEMMA NextTypeOK == TypeOK /\ [Next]_vars => TypeOK'
<1> SUFFICES ASSUME TypeOK, [Next]_vars PROVE TypeOK'
  OBVIOUS
<1> USE CapacityAssumption, MaxCallsAssumption, NoBatchAssumption
<1> USE DEF TypeOK, ProducerPcs, WorkerPcs, Batches, producerVars, workerVars,
            counterVars, gaugeVars
<1>1. ASSUME NEW p \in Producers, ReturnEarly(p) PROVE TypeOK'
  BY <1>1 DEF ReturnEarly, Call
<1>2. ASSUME NEW p \in Producers, TrySendOk(p) PROVE TypeOK'
  <2>1. calls' \in [Producers -> 0..MaxCalls] /\ calls'[p] \in 1..MaxCalls
    BY <1>2 DEF TrySendOk, Call
  <2>2. channel' \in Seq(Batches) /\ Len(channel') <= Capacity
    BY <1>2, <2>1 DEF TrySendOk
  <2>3. QED
    BY <1>2, <2>1, <2>2 DEF TrySendOk
<1>3. ASSUME NEW p \in Producers, TrySendFull(p) PROVE TypeOK'
  BY <1>3 DEF TrySendFull, Call
<1>4. ASSUME NEW p \in Producers, CountAccepted(p) PROVE TypeOK'
  BY <1>4 DEF CountAccepted
<1>5. ASSUME NEW p \in Producers, PublishDepth(p) PROVE TypeOK'
  BY <1>5 DEF PublishDepth
<1>6. ASSUME NEW p \in Producers, CountDrop(p) PROVE TypeOK'
  BY <1>6 DEF CountDrop
<1>7. ASSUME NEW p \in Producers, IncrementDrops(p) PROVE TypeOK'
  BY <1>7 DEF IncrementDrops
<1>8. ASSUME NEW p \in Producers, PublishDrops(p) PROVE TypeOK'
  BY <1>8 DEF PublishDrops
<1>9. CASE Receive
  <2>1. Head(channel) \in Batches /\ channel' \in Seq(Batches)
        /\ Len(channel') = Len(channel) - 1
    BY <1>9 DEF Receive
  <2>2. QED
    BY <1>9, <2>1 DEF Receive
<1>10. CASE IndexOk
  BY <1>10 DEF IndexOk
<1>11. CASE IndexErr
  BY <1>11 DEF IndexErr
<1>12. CASE PublishFailed
  BY <1>12 DEF PublishFailed
<1>13. CASE DecrementQueueDepth
  BY <1>13 DEF DecrementQueueDepth, Decremented
<1>14. CASE PublishWorkerDepth
  BY <1>14 DEF PublishWorkerDepth
<1>15. CASE UNCHANGED vars
  BY <1>15 DEF vars
<1>16. QED
  BY <1>1, <1>2, <1>3, <1>4, <1>5, <1>6, <1>7, <1>8, <1>9, <1>10, <1>11, <1>12,
     <1>13, <1>14, <1>15
     DEF Next, Producer, Finish, Worker

(* Every variable keeps its type, the channel never exceeds its capacity   *)
(* and the worker holds a batch exactly while it is at work.               *)
THEOREM TypeCorrect == Spec => []TypeOK
BY InitTypeOK, NextTypeOK, PTL DEF Spec
---------------------------------------------------------------------------
LEMMA InitIInv == Init => IInv
<1> SUFFICES ASSUME Init PROVE IInv
  OBVIOUS
<1>1. At("sent") = {} /\ At("dropIncremented") = {}
  BY DEF Init, At
<1>2. Cardinality(At("sent")) = 0 /\ Cardinality(At("dropIncremented")) = 0
  BY <1>1, FS_EmptySet
<1>3. DepthBounds
  BY <1>2, AtIsFinite DEF Init, DepthBounds, Outstanding
<1>4. SeenDropsBound /\ DropGaugeBound
  BY <1>2 DEF Init, SeenDropsBound, DropGaugeBound
<1>5. QED
  BY <1>3, <1>4, InitTypeOK DEF IInv

Sent == Cardinality(At("sent"))

(* Outstanding, queue_depth and the calls at "sent" changed together, or   *)
(* the decrement of a batch that was not counted stopped at zero.          *)
Balanced ==
  /\ Outstanding' \in Nat /\ queueDepth' \in Nat /\ Sent' \in Nat
  /\ \/ Outstanding' + queueDepth + Sent = Outstanding + queueDepth' + Sent'
     \/ /\ queueDepth = 0 /\ queueDepth' = 0
        /\ Sent' = Sent /\ Outstanding = Outstanding' + 1

LEMMA BalancedBounds ==
  ASSUME NEW o \in Nat, NEW q \in Nat, NEW s \in Nat, NEW n \in Nat,
         NEW o1 \in Nat, NEW q1 \in Nat, NEW s1 \in Nat,
         o <= q + s, q + s <= o + n, s <= n,
         \/ o1 + q + s = o + q1 + s1
         \/ q = 0 /\ q1 = 0 /\ s1 = s /\ o = o1 + 1
  PROVE  o1 <= q1 + s1 /\ q1 + s1 <= o1 + n
OBVIOUS

(* Each action moves Outstanding, queue_depth and the number of calls      *)
(* between send and count together; only the saturating decrement of an    *)
(* uncounted batch pulls them apart, and then some call is uncounted.      *)
LEMMA NextDepthBounds ==
  TypeOK /\ TypeOK' /\ DepthBounds /\ [Next]_vars => DepthBounds'
<1> SUFFICES ASSUME TypeOK, TypeOK', DepthBounds, [Next]_vars PROVE DepthBounds'
  OBVIOUS
<1>1. Sent \in Nat /\ Cardinality(Producers) \in Nat /\ Sent <= Cardinality(Producers)
  BY AtIsFinite DEF Sent
<1>2. /\ queueDepth \in Nat /\ Len(channel) \in Nat /\ Outstanding \in Nat
      /\ Outstanding <= queueDepth + Sent
      /\ queueDepth + Sent <= Outstanding + Cardinality(Producers)
  BY DEF TypeOK, DepthBounds, Outstanding, Sent
<1>3. ASSUME Balanced PROVE DepthBounds'
  <2>1. PICK o \in Nat, q \in Nat, s \in Nat :
          /\ o = Outstanding' /\ q = queueDepth' /\ s = Sent'
          /\ \/ o + queueDepth + Sent = Outstanding + q + s
             \/ queueDepth = 0 /\ q = 0 /\ s = Sent /\ Outstanding = o + 1
    BY <1>3, Zenon DEF Balanced
  <2>2. o <= q + s /\ q + s <= o + Cardinality(Producers)
    <3>1. \/ o + queueDepth + Sent = Outstanding + q + s
          \/ queueDepth = 0 /\ q = 0 /\ s = Sent /\ Outstanding = o + 1
      BY <2>1
    <3>2. QED
      BY <1>1, <1>2, <3>1, BalancedBounds
  <2>3. QED
    BY <2>1, <2>2, Zenon DEF DepthBounds, Sent
<1>4. ASSUME UNCHANGED <<channel, workerPc, queueDepth>>,
             NEW p \in Producers, NEW v \in ProducerPcs,
             pc' = [pc EXCEPT ![p] = v], pc[p] # "sent", v # "sent"
      PROVE  Balanced
  <2>1. Sent' = Sent
    BY <1>4, MoveCounts DEF Sent, TypeOK, ProducerPcs
  <2>2. QED
    BY <1>1, <1>2, <1>4, <2>1 DEF Outstanding, Balanced
<1>5. ASSUME UNCHANGED <<channel, workerPc, queueDepth, pc>>
      PROVE  Balanced
  BY <1>1, <1>2, <1>5 DEF Outstanding, At, Sent, Balanced
<1> USE DEF producerVars, workerVars, counterVars, gaugeVars
<1>6. ASSUME NEW p \in Producers, ReturnEarly(p) PROVE DepthBounds'
  BY <1>3, <1>5, <1>6 DEF ReturnEarly
<1>7. ASSUME NEW p \in Producers, TrySendOk(p) PROVE DepthBounds'
  <2>1. Sent' = Sent + 1
    BY <1>7, MoveCounts DEF Sent, TrySendOk, Call, TypeOK, ProducerPcs
  <2>2. Len(channel') = Len(channel) + 1
    BY <1>7 DEF TrySendOk, TypeOK
  <2>3. Outstanding' = Outstanding + 1
    BY <1>2, <1>7, <2>2 DEF TrySendOk, Outstanding
  <2>4. QED
    BY <1>1, <1>2, <1>3, <1>7, <2>1, <2>3 DEF TrySendOk, Balanced
<1>8. ASSUME NEW p \in Producers, TrySendFull(p) PROVE DepthBounds'
  BY <1>3, <1>4, <1>8 DEF TrySendFull, Call, ProducerPcs
<1>9. ASSUME NEW p \in Producers, CountAccepted(p) PROVE DepthBounds'
  <2>1. Sent' = Sent - 1
    BY <1>9, MoveCounts DEF Sent, CountAccepted, TypeOK, ProducerPcs
  <2>2. Outstanding' = Outstanding
    BY <1>9 DEF CountAccepted, Outstanding
  <2>3. Sent >= 1
    <3>1. p \in At("sent") /\ IsFiniteSet(At("sent"))
      BY <1>9, AtIsFinite DEF CountAccepted, At
    <3>2. Sent # 0
      BY <3>1, FS_EmptySet DEF Sent
    <3>3. QED
      BY <1>1, <3>2
  <2>4. QED
    BY <1>1, <1>2, <1>3, <1>9, <2>1, <2>2, <2>3 DEF CountAccepted, Balanced
<1>10. ASSUME NEW p \in Producers, PublishDepth(p) PROVE DepthBounds'
  BY <1>3, <1>4, <1>10 DEF PublishDepth, ProducerPcs
<1>11. ASSUME NEW p \in Producers, CountDrop(p) PROVE DepthBounds'
  BY <1>3, <1>4, <1>11 DEF CountDrop, ProducerPcs
<1>12. ASSUME NEW p \in Producers, IncrementDrops(p) PROVE DepthBounds'
  BY <1>3, <1>4, <1>12 DEF IncrementDrops, ProducerPcs
<1>13. ASSUME NEW p \in Producers, PublishDrops(p) PROVE DepthBounds'
  BY <1>3, <1>4, <1>13 DEF PublishDrops, ProducerPcs
<1>14. CASE Receive
  <2>1. Len(channel') = Len(channel) - 1 /\ Len(channel) >= 1
    BY <1>14 DEF Receive, TypeOK
  <2>2. Outstanding' = Outstanding
    BY <1>2, <1>14, <2>1 DEF Receive, Outstanding
  <2>3. QED
    BY <1>1, <1>2, <1>3, <1>14, <2>2 DEF Receive, At, Sent, Balanced
<1>15. ASSUME \/ IndexOk \/ IndexErr \/ PublishFailed PROVE DepthBounds'
  <2>1. Outstanding' = Outstanding /\ Sent' = Sent /\ queueDepth' = queueDepth
    BY <1>15 DEF IndexOk, IndexErr, PublishFailed, Outstanding, At, Sent
  <2>2. QED
    BY <1>1, <1>2, <1>3, <2>1 DEF Balanced
<1>16. CASE DecrementQueueDepth
  <2>1. Outstanding' = Outstanding - 1 /\ Outstanding >= 1 /\ Sent' = Sent
    BY <1>2, <1>16 DEF DecrementQueueDepth, Outstanding, At, Sent
  <2>2. QED
    BY <1>1, <1>2, <1>3, <1>16, <2>1 DEF DecrementQueueDepth, Decremented, Balanced
<1>17. CASE PublishWorkerDepth
  <2>1. Outstanding' = Outstanding /\ Sent' = Sent /\ queueDepth' = queueDepth
    BY <1>17 DEF PublishWorkerDepth, Outstanding, At, Sent
  <2>2. QED
    BY <1>1, <1>2, <1>3, <2>1 DEF Balanced
<1>18. CASE UNCHANGED vars
  BY <1>3, <1>5, <1>18 DEF vars
<1>19. QED
  BY <1>6, <1>7, <1>8, <1>9, <1>10, <1>11, <1>12, <1>13, <1>14, <1>15, <1>16,
     <1>17, <1>18
     DEF Next, Producer, Finish, Worker

---------------------------------------------------------------------------
Incremented == Cardinality(At("dropIncremented"))

LEMMA NextSeenDropsBound ==
  TypeOK /\ SeenDropsBound /\ [Next]_vars => SeenDropsBound'
<1> SUFFICES ASSUME TypeOK, SeenDropsBound, [Next]_vars,
                    NEW q \in Producers, pc'[q] \in {"dropCounted", "dropIncremented"}
             PROVE  seen'[q] <= dropped'
  BY DEF SeenDropsBound
<1> USE DEF TypeOK, ProducerPcs, SeenDropsBound, producerVars, workerVars, counterVars,
            gaugeVars
<1>1. ASSUME NEW p \in Producers, ReturnEarly(p) PROVE seen'[q] <= dropped'
  BY <1>1 DEF ReturnEarly
<1>2. ASSUME NEW p \in Producers, TrySendOk(p) PROVE seen'[q] <= dropped'
  BY <1>2 DEF TrySendOk
<1>3. ASSUME NEW p \in Producers, TrySendFull(p) PROVE seen'[q] <= dropped'
  BY <1>3 DEF TrySendFull
<1>4. ASSUME NEW p \in Producers, CountAccepted(p) PROVE seen'[q] <= dropped'
  BY <1>4 DEF CountAccepted
<1>5. ASSUME NEW p \in Producers, PublishDepth(p) PROVE seen'[q] <= dropped'
  BY <1>5 DEF PublishDepth
<1>6. ASSUME NEW p \in Producers, CountDrop(p) PROVE seen'[q] <= dropped'
  BY <1>6 DEF CountDrop
<1>7. ASSUME NEW p \in Producers, IncrementDrops(p) PROVE seen'[q] <= dropped'
  BY <1>7 DEF IncrementDrops
<1>8. ASSUME NEW p \in Producers, PublishDrops(p) PROVE seen'[q] <= dropped'
  BY <1>8 DEF PublishDrops
<1>9. ASSUME Worker PROVE seen'[q] <= dropped'
  BY <1>9 DEF Worker, Receive, IndexOk, IndexErr, PublishFailed, DecrementQueueDepth,
              PublishWorkerDepth
<1>10. CASE UNCHANGED vars
  BY <1>10 DEF vars
<1>11. QED
  BY <1>1, <1>2, <1>3, <1>4, <1>5, <1>6, <1>7, <1>8, <1>9, <1>10
     DEF Next, Producer, Finish

(* Only IncrementDrops raises the gauge by itself, and it adds a call to   *)
(* those that are about to overwrite it with a value of the counter.       *)
LEMMA NextDropGaugeBound ==
  TypeOK /\ SeenDropsBound /\ DropGaugeBound /\ [Next]_vars => DropGaugeBound'
<1> SUFFICES ASSUME TypeOK, SeenDropsBound, DropGaugeBound, [Next]_vars
             PROVE  DropGaugeBound'
  OBVIOUS
<1>1. /\ Incremented \in Nat /\ gaugeDrops \in Nat /\ dropped \in Nat
      /\ gaugeDrops <= dropped + Incremented
  BY AtIsFinite DEF TypeOK, DropGaugeBound, Incremented
<1>2. ASSUME gaugeDrops' = gaugeDrops, dropped' \in {dropped, dropped + 1},
             Incremented' = Incremented
      PROVE  DropGaugeBound'
  <2>1. \A d \in {dropped, dropped + 1} : gaugeDrops <= d + Incremented
    BY <1>1
  <2>2. gaugeDrops <= dropped' + Incremented
    BY <1>2, <2>1, Zenon
  <2>3. QED
    BY <1>2, <2>2 DEF DropGaugeBound, Incremented
<1>3. ASSUME NEW p \in Producers, NEW v \in ProducerPcs,
             pc' = [pc EXCEPT ![p] = v],
             pc[p] # "dropIncremented", v # "dropIncremented"
      PROVE  Incremented' = Incremented
  BY <1>3, MoveCounts DEF Incremented, TypeOK, ProducerPcs
<1>4. ASSUME UNCHANGED pc PROVE Incremented' = Incremented
  BY <1>4 DEF Incremented, At
<1> USE DEF producerVars, workerVars, counterVars, gaugeVars, ProducerPcs
<1>5. ASSUME NEW p \in Producers, ReturnEarly(p) PROVE DropGaugeBound'
  BY <1>2, <1>4, <1>5 DEF ReturnEarly
<1>6. ASSUME NEW p \in Producers, TrySendOk(p) PROVE DropGaugeBound'
  BY <1>2, <1>3, <1>6 DEF TrySendOk, Call
<1>7. ASSUME NEW p \in Producers, TrySendFull(p) PROVE DropGaugeBound'
  BY <1>2, <1>3, <1>7 DEF TrySendFull, Call
<1>8. ASSUME NEW p \in Producers, CountAccepted(p) PROVE DropGaugeBound'
  BY <1>2, <1>3, <1>8 DEF CountAccepted
<1>9. ASSUME NEW p \in Producers, PublishDepth(p) PROVE DropGaugeBound'
  BY <1>2, <1>3, <1>9 DEF PublishDepth
<1>10. ASSUME NEW p \in Producers, CountDrop(p) PROVE DropGaugeBound'
  BY <1>2, <1>3, <1>10 DEF CountDrop
<1>11. ASSUME NEW p \in Producers, IncrementDrops(p) PROVE DropGaugeBound'
  <2>1. Incremented' = Incremented + 1
    BY <1>11, MoveCounts DEF IncrementDrops, Incremented, TypeOK
  <2>2. gaugeDrops + 1 <= dropped + (Incremented + 1)
    BY <1>1
  <2>3. gaugeDrops' = gaugeDrops + 1 /\ dropped' = dropped
    BY <1>11 DEF IncrementDrops
  <2>4. QED
    BY <2>1, <2>2, <2>3 DEF DropGaugeBound, Incremented
<1>12. ASSUME NEW p \in Producers, PublishDrops(p) PROVE DropGaugeBound'
  <2>1. gaugeDrops' = seen[p] /\ dropped' = dropped /\ seen[p] <= dropped /\ seen[p] \in Nat
    BY <1>12 DEF PublishDrops, SeenDropsBound, TypeOK
  <2>2. PICK n \in Nat : n = Incremented'
    <3>1. pc' \in [Producers -> ProducerPcs]
      BY <1>12 DEF PublishDrops, TypeOK
    <3>2. At("dropIncremented")' \subseteq Producers
      BY <3>1 DEF At
    <3>3. QED
      BY <3>2, ProducersAssumption, FS_Subset, FS_CardinalityType DEF Incremented
  <2>3. seen[p] <= dropped + n
    BY <1>1, <2>1, n \in Nat
  <2>4. QED
    BY <2>1, <2>2, <2>3 DEF DropGaugeBound, Incremented
<1>13. ASSUME Worker PROVE DropGaugeBound'
  BY <1>2, <1>4, <1>13
     DEF Worker, Receive, IndexOk, IndexErr, PublishFailed, DecrementQueueDepth,
         PublishWorkerDepth
<1>14. CASE UNCHANGED vars
  BY <1>2, <1>4, <1>14 DEF vars
<1>15. QED
  BY <1>5, <1>6, <1>7, <1>8, <1>9, <1>10, <1>11, <1>12, <1>13, <1>14
     DEF Next, Producer, Finish

LEMMA NextIInv == IInv /\ [Next]_vars => IInv'
BY NextTypeOK, NextDepthBounds, NextSeenDropsBound, NextDropGaugeBound DEF IInv

LEMMA InvariantHolds == Spec => []IInv
BY InitIInv, NextIInv, PTL DEF Spec

(* The drift of queue_depth has one sign and a bound: in every state it is *)
(* at most as far below the accepted batches as there are calls between    *)
(* try_send and fetch_add, and at most as far above as there are callers.  *)
THEOREM DepthBoundsCorrect == Spec => []DepthBounds
<1>1. IInv => DepthBounds
  BY DEF IInv
<1>2. QED
  BY <1>1, InvariantHolds, PTL

(* The drop gauge never exceeds the counter by more than the calls that    *)
(* are between increment_queue_drops and set_queue_drops.                  *)
THEOREM DropGaugeBoundCorrect == Spec => []DropGaugeBound
<1>1. IInv => DropGaugeBound
  BY DEF IInv
<1>2. QED
  BY <1>1, InvariantHolds, PTL

---------------------------------------------------------------------------
(* IndexQueue implements BatchFifo.                                        *)

Full == Cardinality(At("full"))

(* No call is at "full" in the beginning.                                  *)
LEMMA InitFifo == Init => Fifo!Init
<1> SUFFICES ASSUME Init PROVE Fifo!Init
  OBVIOUS
<1>1. At("full") = {}
  BY DEF Init, At
<1>2. Cardinality(At("full")) = 0
  BY <1>1, FS_EmptySet
<1>3. QED
  BY <1>2 DEF Init, Fifo!Init

LEMMA NextFifo == TypeOK /\ [Next]_vars => [Fifo!Next]_(Fifo!fifoVars)
<1> SUFFICES ASSUME TypeOK, [Next]_vars PROVE [Fifo!Next]_(Fifo!fifoVars)
  OBVIOUS
<1> USE DEF producerVars, workerVars, counterVars, gaugeVars, ProducerPcs
<1>1. Full \in Nat /\ dropped \in Nat
  BY AtIsFinite DEF Full, TypeOK
<1>2. ASSUME NEW p \in Producers, NEW v \in ProducerPcs,
             pc' = [pc EXCEPT ![p] = v], pc[p] # "full", v # "full"
      PROVE  Full' = Full
  BY <1>2, MoveCounts DEF Full, TypeOK
<1>3. ASSUME UNCHANGED <<channel, current, dropped>>, Full' = Full
      PROVE  UNCHANGED Fifo!fifoVars
  BY <1>3 DEF Fifo!fifoVars, Full
<1>4. ASSUME UNCHANGED pc PROVE Full' = Full
  BY <1>4 DEF Full, At
<1>5. ASSUME NEW p \in Producers, ReturnEarly(p) PROVE UNCHANGED Fifo!fifoVars
  BY <1>3, <1>4, <1>5 DEF ReturnEarly
<1>6. ASSUME NEW p \in Producers, TrySendOk(p) PROVE Fifo!Next
  <2>1. Full' = Full /\ UNCHANGED <<current, dropped>>
    BY <1>2, <1>6 DEF TrySendOk, Call
  <2>2. <<p, calls'[p]>> \in Batches
    BY <1>6, MaxCallsAssumption DEF TrySendOk, Call, Batches, TypeOK
  <2>3. Fifo!Accept(<<p, calls'[p]>>)
    BY <1>6, <2>1 DEF TrySendOk, Fifo!Accept, Full
  <2>4. QED
    BY <2>2, <2>3 DEF Fifo!Next
<1>7. ASSUME NEW p \in Producers, TrySendFull(p) PROVE Fifo!Next
  <2>1. Full' = Full + 1
    BY <1>7, MoveCounts DEF TrySendFull, Call, Full, TypeOK
  <2>2. dropped' = dropped /\ Len(channel) >= Capacity /\ UNCHANGED <<channel, current>>
    BY <1>7 DEF TrySendFull
  <2>3. dropped + (Full + 1) = dropped + Full + 1
    BY <1>1
  <2>4. dropped' + Full' = dropped + Full + 1
    BY <2>1, <2>2, <2>3
  <2>5. Fifo!Refuse
    BY <2>2, <2>4 DEF Fifo!Refuse, Full
  <2>6. QED
    BY <2>5 DEF Fifo!Next
<1>8. ASSUME NEW p \in Producers, CountAccepted(p) PROVE UNCHANGED Fifo!fifoVars
  BY <1>2, <1>3, <1>8 DEF CountAccepted
<1>9. ASSUME NEW p \in Producers, PublishDepth(p) PROVE UNCHANGED Fifo!fifoVars
  BY <1>2, <1>3, <1>9 DEF PublishDepth
<1>10. ASSUME NEW p \in Producers, CountDrop(p) PROVE UNCHANGED Fifo!fifoVars
  <2>1. Full' = Full - 1
    BY <1>10, MoveCounts DEF CountDrop, Full, TypeOK
  <2>2. dropped' = dropped + 1 /\ UNCHANGED <<channel, current>>
    BY <1>10 DEF CountDrop
  <2>3. (dropped + 1) + (Full - 1) = dropped + Full
    BY <1>1
  <2>4. dropped' + Full' = dropped + Full
    BY <2>1, <2>2, <2>3
  <2>5. QED
    BY <2>2, <2>4 DEF Fifo!fifoVars, Full
<1>11. ASSUME NEW p \in Producers, IncrementDrops(p) PROVE UNCHANGED Fifo!fifoVars
  BY <1>2, <1>3, <1>11 DEF IncrementDrops
<1>12. ASSUME NEW p \in Producers, PublishDrops(p) PROVE UNCHANGED Fifo!fifoVars
  BY <1>2, <1>3, <1>12 DEF PublishDrops
<1>13. CASE Receive
  <2>1. current = NoBatch /\ Full' = Full /\ dropped' = dropped
    BY <1>4, <1>13 DEF Receive, TypeOK
  <2>2. Fifo!Take
    BY <1>13, <2>1 DEF Receive, Fifo!Take, Full
  <2>3. QED
    BY <2>2 DEF Fifo!Next
<1>14. ASSUME \/ IndexOk \/ IndexErr \/ PublishFailed \/ DecrementQueueDepth
       PROVE  UNCHANGED Fifo!fifoVars
  BY <1>3, <1>4, <1>14 DEF IndexOk, IndexErr, PublishFailed, DecrementQueueDepth
<1>15. CASE PublishWorkerDepth
  <2>1. current # NoBatch /\ Full' = Full /\ dropped' = dropped
    BY <1>4, <1>15 DEF PublishWorkerDepth, TypeOK
  <2>2. Fifo!Finish
    BY <1>15, <2>1 DEF PublishWorkerDepth, Fifo!Finish, Full
  <2>3. QED
    BY <2>2 DEF Fifo!Next
<1>16. CASE UNCHANGED vars
  BY <1>3, <1>4, <1>16 DEF vars
<1>17. QED
  BY <1>5, <1>6, <1>7, <1>8, <1>9, <1>10, <1>11, <1>12, <1>13, <1>14, <1>15, <1>16
     DEF Next, Producer, Finish, Worker

(* The channel, its counters and its worker are a bounded first-in         *)
(* first-out line: a batch is refused only when the line is full, none is  *)
(* lost or overtaken, and one is worked on at a time.                      *)
THEOREM ImplementsFifo == Spec => FifoSafety
BY InitFifo, NextFifo, TypeCorrect, PTL DEF Spec, FifoSafety, Fifo!Spec

===========================================================================
