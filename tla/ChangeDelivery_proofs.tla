----------------------- MODULE ChangeDelivery_proofs -----------------------
(***************************************************************************)
(* Proofs about ChangeDelivery for any number of sessions, files and calls  *)
(* and whatever the daemon and other peers do: no change is forgotten while *)
(* flushes are under way, and what a caller is told is true.                *)
(***************************************************************************)
EXTENDS ChangeDelivery, TLAPS

(***************************************************************************)
(* What a connection of DaemonRpc keeps, whatever the other connections do: *)
(* the request that bears the call's id is read once, and what is answered  *)
(* or told of it agrees with what was done.                                *)
(***************************************************************************)
Frames    == {BadFrame, BadJson} \cup Requests
Refusals  == {"invalid_jsonrpc", "protocol_mismatch", "unauthorized", "unknown_method", "invalid_params",
              "project_mismatch"}
Outcomes  == Refusals \cup {"none", "not sent", "closed", "timeout", "result", "dropped", "internal_error",
              "invalid_frame", "invalid_json"}
Clients   == [pc : {"idle", "connecting", "waiting", "done"}, frames : Seq(Frames), outcome : Outcomes]
Responses == [id : Calls \cup {NoId}, code : Outcomes]

RpcTypeOK ==
  /\ up \in BOOLEAN
  /\ client \in [Calls -> Clients]
  /\ inbox \in [Calls -> Seq(Frames)]
  /\ outbox \in [Calls -> Seq(Responses)]
  /\ handler \in [Calls -> {"none", "reading", "recorded", "ended"}]
  /\ queue \in Seq(Calls) /\ Len(queue) <= Capacity
  /\ recorded \subseteq Calls \cup {NoId}
  /\ served \in [Calls \cup {NoId} -> Nat]

(***************************************************************************)
(* The invariant of one connection.                                        *)
(***************************************************************************)
Unread(c) == \E i \in DOMAIN inbox[c] : Own(c, inbox[c][i])
Early     == {"invalid_jsonrpc", "protocol_mismatch", "unauthorized"}

(* What a caller may conclude from code.                                   *)
Told(c, code) ==
  /\ code = "result" => served[c] = 1
  /\ code \in Refusals \cup {"not sent"} => c \notin recorded /\ served[c] = 0
  /\ code = "dropped" => served[c] = 0
Conclusive == Refusals \cup {"result", "not sent", "dropped"}

(* Nothing has come of c yet.                                              *)
Untouched(c) ==
  inbox[c] = <<>> /\ outbox[c] = <<>> /\ handler[c] = "none" /\ served[c] = 0 /\ c \notin recorded

FramesOK(c) ==
  /\ Sendable(c, client[c].frames) /\ Sendable(c, inbox[c])
  /\ \A i \in DOMAIN inbox[c] : \E j \in DOMAIN client[c].frames : client[c].frames[j] = inbox[c][i]
HandlerOK(c) ==
  /\ client[c].pc \in {"idle", "connecting"} => Untouched(c)
  /\ client[c].pc # "done" => client[c].outcome = "none"
  /\ handler[c] = "recorded" => inbox[c] # <<>> /\ Frame(c) \in Requests /\ Frame(c).faults = {}
  /\ Unread(c) => served[c] = 0 /\ (c \in recorded => handler[c] = "recorded" /\ Frame(c).id = c)
ServedOK(c) ==
  /\ served[c] <= 1
  /\ served[c] = 1 => \E j \in DOMAIN client[c].frames : Own(c, client[c].frames[j]) /\ client[c].frames[j].faults = {}
OutcomeOK(c) == client[c].outcome \in Conclusive => ~Unread(c) /\ Told(c, client[c].outcome)
OutboxOK(c) ==
  \A i \in DOMAIN outbox[c] : outbox[c][i].id = c =>
    /\ ~Unread(c) /\ Told(c, outbox[c][i].code)
    /\ \A j \in DOMAIN client[c].frames :
         Own(c, client[c].frames[j]) /\ "token" \in client[c].frames[j].faults => outbox[c][i].code \in Early

CallOK(c) == FramesOK(c) /\ HandlerOK(c) /\ ServedOK(c) /\ OutcomeOK(c) /\ OutboxOK(c)
RpcInv == RpcTypeOK /\ \A c \in Calls : CallOK(c)

---------------------------------------------------------------------------
LEMMA RefusalsAre == Refusals = ToSet(Codes)
<1>1. DOMAIN Codes = 1 .. 6
  BY DEF Codes
<1>2. ToSet(Codes) = {Codes[1], Codes[2], Codes[3], Codes[4], Codes[5], Codes[6]}
  BY <1>1 DEF ToSet
<1>3. QED
  BY <1>2 DEF Codes, Refusals

LEMMA MinIs ==
  ASSUME NEW S \in SUBSET (1 .. 6), S # {}
  PROVE  Min(S) \in S /\ \A x \in S : Min(S) <= x
<1>1. \E x \in S : \A y \in S : x <= y
  <2>1. CASE 1 \in S
    BY <2>1
  <2>2. CASE 1 \notin S /\ 2 \in S
    BY <2>2
  <2>3. CASE 1 \notin S /\ 2 \notin S /\ 3 \in S
    BY <2>3
  <2>4. CASE 1 \notin S /\ 2 \notin S /\ 3 \notin S /\ 4 \in S
    BY <2>4
  <2>5. CASE 1 \notin S /\ 2 \notin S /\ 3 \notin S /\ 4 \notin S /\ 5 \in S
    BY <2>5
  <2>6. CASE 1 \notin S /\ 2 \notin S /\ 3 \notin S /\ 4 \notin S /\ 5 \notin S
    <3>1. \A x \in S : x = 6
      BY <2>6
    <3>2. PICK x \in S : TRUE
      OBVIOUS
    <3>3. x \in S /\ \A y \in S : x <= y
      BY <3>1, <3>2
    <3>4. QED
      BY <3>3
  <2>7. QED
    BY <2>1, <2>2, <2>3, <2>4, <2>5, <2>6
<1>2. QED
  BY <1>1 DEF Min

(* A refusal names the first fault; a request without faults gets none.    *)
LEMMA RefusalIs ==
  ASSUME NEW r \in Requests
  PROVE  /\ r.faults = {} => Refusal(r) = "none"
         /\ r.faults # {} => Refusal(r) \in Refusals /\ Refusal(r) # "none"
         /\ "token" \in r.faults => Refusal(r) \in Early
<1> DEFINE failed == {i \in DOMAIN Faults : Faults[i] \in r.faults}
<1>1. r.faults \subseteq ToSet(Faults) /\ DOMAIN Faults = 1 .. 6 /\ DOMAIN Codes = 1 .. 6
  BY DEF Requests, Faults, Codes
<1>2. r.faults # {} => failed # {}
  BY <1>1 DEF ToSet
<1>3. failed \subseteq 1 .. 6
  BY <1>1
<1>4. "token" \in r.faults => 3 \in failed
  BY <1>1 DEF Faults
<1>5. r.faults # {} => Refusal(r) = Codes[Min(failed)]
  BY DEF Refusal
<1>6. failed # {} => Min(failed) \in 1 .. 6 /\ (3 \in failed => Min(failed) <= 3)
  <2> HIDE DEF failed
  <2>1. QED
    BY <1>3, MinIs
<1>7. \A i \in 1 .. 6 : Codes[i] \in Refusals /\ Codes[i] # "none" /\ (i <= 3 => Codes[i] \in Early)
  BY DEF Codes, Refusals, Early
<1>8. QED
  <2> HIDE DEF failed
  <2>1. r.faults = {} => Refusal(r) = "none"
    BY DEF Refusal
  <2>2. QED
    BY <1>2, <1>4, <1>5, <1>6, <1>7, <2>1

LEMMA TailAt ==
  ASSUME NEW S, NEW q \in Seq(S), q # <<>>
  PROVE  \A i \in DOMAIN Tail(q) : i + 1 \in DOMAIN q /\ i + 1 # 1 /\ Tail(q)[i] = q[i + 1]
OBVIOUS

(* What is left when the first frame is taken.                             *)
LEMMA TailIs ==
  ASSUME NEW c, NEW q, Sendable(c, q), q # <<>>
  PROVE  /\ Sendable(c, Tail(q))
         /\ Own(c, Head(q)) => \A i \in DOMAIN Tail(q) : ~Own(c, Tail(q)[i])
         /\ \A i \in DOMAIN Tail(q) : \E j \in DOMAIN q : q[j] = Tail(q)[i]
         /\ \E j \in DOMAIN q : q[j] = Head(q)
<1> DEFINE F == {BadFrame, BadJson} \cup {r \in Requests : r.id \in {c, NoId}}
<1>1. q \in Seq(F)
  BY DEF Sendable
<1> HIDE DEF F
<1>2. Tail(q) \in Seq(F) /\ 1 \in DOMAIN q /\ Head(q) = q[1]
  BY <1>1
<1>3. \A i \in DOMAIN Tail(q) : i + 1 \in DOMAIN q /\ i + 1 # 1 /\ Tail(q)[i] = q[i + 1]
  BY <1>1, TailAt
<1>4. \A i, j \in DOMAIN q : Own(c, q[i]) /\ Own(c, q[j]) => i = j
  BY DEF Sendable
<1>5. \A i, j \in DOMAIN Tail(q) : Own(c, Tail(q)[i]) /\ Own(c, Tail(q)[j]) => i = j
  <2> SUFFICES ASSUME NEW i \in DOMAIN Tail(q), NEW j \in DOMAIN Tail(q), Own(c, Tail(q)[i]), Own(c, Tail(q)[j])
               PROVE  i = j
    OBVIOUS
  <2>1. i + 1 = j + 1
    BY <1>3, <1>4
  <2>2. i \in Nat /\ j \in Nat
    BY <1>2
  <2>3. QED
    BY <2>1, <2>2
<1>6. Sendable(c, Tail(q))
  BY <1>2, <1>5 DEF Sendable, F
<1>7. Own(c, Head(q)) => \A i \in DOMAIN Tail(q) : ~Own(c, Tail(q)[i])
  BY <1>2, <1>3, <1>4
<1>8. QED
  BY <1>2, <1>3, <1>6, <1>7

---------------------------------------------------------------------------
(* Types.                                                                  *)
LEMMA InitRpcTypeOK == RpcInit => RpcTypeOK
<1> SUFFICES ASSUME RpcInit PROVE RpcTypeOK
  OBVIOUS
<1>1. client \in [Calls -> Clients]
  <2>1. <<>> \in Seq(Frames)
    OBVIOUS
  <2>2. Unused \in Clients
    BY <2>1 DEF Unused, Clients, Outcomes
  <2>3. QED
    BY <2>2 DEF RpcInit
<1>2. inbox \in [Calls -> Seq(Frames)] /\ outbox \in [Calls -> Seq(Responses)]
  BY DEF RpcInit
<1>3. queue \in Seq(Calls) /\ Len(queue) <= Capacity
  BY RpcAssumption DEF RpcInit
<1>4. QED
  BY <1>1, <1>2, <1>3 DEF RpcInit, RpcTypeOK

LEMMA RespondIs ==
  ASSUME RpcTypeOK, NEW c \in Calls, NEW id \in Calls \cup {NoId}, NEW code \in Outcomes,
         NEW then \in {"reading", "ended"}, inbox[c] # <<>>, Respond(c, id, code, then)
  PROVE  /\ inbox' \in [Calls -> Seq(Frames)] /\ outbox' \in [Calls -> Seq(Responses)]
         /\ handler' \in [Calls -> {"none", "reading", "recorded", "ended"}]
         /\ inbox'[c] = Tail(inbox[c]) /\ handler'[c] \in {"reading", "ended"}
         /\ outbox'[c] = outbox[c] \/ outbox'[c] = Append(outbox[c], [id |-> id, code |-> code])
         /\ \A d \in Calls \ {c} : inbox'[d] = inbox[d] /\ outbox'[d] = outbox[d] /\ handler'[d] = handler[d]
<1>1. inbox' = [inbox EXCEPT ![c] = Tail(@)] /\ Tail(inbox[c]) \in Seq(Frames)
  BY DEF Respond, RpcTypeOK
<1>2. /\ \/ UNCHANGED outbox
         \/ outbox' = [outbox EXCEPT ![c] = Append(@, [id |-> id, code |-> code])]
      /\ \E next \in {"reading", "ended"} : handler' = [handler EXCEPT ![c] = next]
  BY DEF Respond
<1>3. [id |-> id, code |-> code] \in Responses
  BY DEF Responses
<1>4. Append(outbox[c], [id |-> id, code |-> code]) \in Seq(Responses)
  BY <1>3 DEF RpcTypeOK
<1>5. QED
  BY <1>1, <1>2, <1>4 DEF RpcTypeOK

(* The frame that is next, and what a request of it may name.              *)
LEMMA FrameIs ==
  ASSUME RpcTypeOK, NEW c \in Calls, inbox[c] # <<>>
  PROVE  /\ Frame(c) \in Frames
         /\ Frame(c) \notin {BadFrame, BadJson} => Frame(c) \in Requests /\ Frame(c).id \in Calls \cup {NoId}
<1>1. inbox[c] \in Seq(Frames)
  BY DEF RpcTypeOK
<1>2. Head(inbox[c]) \in Frames
  BY <1>1
<1>3. QED
  BY <1>2 DEF Frame, Frames, Requests

(* A handler's step, with what its request may do to queue and tables.     *)
LEMMA HandleTypeOK ==
  ASSUME RpcTypeOK, NEW c \in Calls, HandlerOK(c), Handle(c)
  PROVE  RpcTypeOK'
<1>1. CASE ReadJunk(c)
  <2>1. \E code \in Outcomes, then \in {"reading", "ended"} : Respond(c, NoId, code, then)
    BY <1>1 DEF ReadJunk, Outcomes
  <2>2. QED
    BY <1>1, <2>1, RespondIs DEF ReadJunk, ReadFrame, RpcTypeOK
<1>2. CASE EndOfStream(c)
  BY <1>2 DEF EndOfStream, RpcTypeOK
<1>3. CASE Refuse(c)
  <2>1. Frame(c) \in Requests /\ Frame(c).id \in Calls \cup {NoId} /\ inbox[c] # <<>>
    BY <1>3, FrameIs DEF Refuse, ReadRequest, ReadFrame
  <2>2. Refusal(Frame(c)) \in Outcomes
    BY <2>1, RefusalIs DEF Outcomes
  <2>3. QED
    BY <1>3, <2>1, <2>2, RespondIs DEF Refuse, RpcTypeOK
<1>4. ASSUME NEW method, Dispatched(c, method)
      PROVE  Frame(c) \in Requests /\ Frame(c).id \in Calls \cup {NoId} /\ inbox[c] # <<>>
  BY <1>4, FrameIs DEF Dispatched, ReadRequest, ReadFrame
<1>5. ASSUME inbox[c] # <<>>, Frame(c) \in Requests PROVE Served(c) \in [Calls \cup {NoId} -> Nat]
  BY <1>5 DEF Served, RpcTypeOK, Requests
<1>6. CASE FilesChanged(c)
  <2>1. Frame(c) \in Requests /\ Frame(c).id \in Calls \cup {NoId} /\ inbox[c] # <<>>
    BY <1>4, <1>6 DEF FilesChanged
  <2>2. \E code \in Outcomes : Respond(c, Frame(c).id, code, "reading")
    BY <1>6 DEF FilesChanged, Answer, AnswerErr, Outcomes
  <2>3. /\ queue' = queue \/ (Len(queue) < Capacity /\ queue' = Append(queue, c))
        /\ recorded' = recorded \/ recorded' = recorded \cup {Frame(c).id}
        /\ served' = served \/ served' = Served(c)
        /\ UNCHANGED <<up, client>>
    BY <1>6 DEF FilesChanged
  <2>4. queue' \in Seq(Calls) /\ Len(queue') <= Capacity
    <3>1. CASE queue' = queue
      BY <3>1 DEF RpcTypeOK
    <3>2. CASE Len(queue) < Capacity /\ queue' = Append(queue, c)
      <4>1. queue \in Seq(Calls) /\ Len(queue') = Len(queue) + 1 /\ queue' \in Seq(Calls)
        BY <3>2 DEF RpcTypeOK
      <4>2. QED
        BY <3>2, <4>1, RpcAssumption
    <3>3. QED
      BY <2>3, <3>1, <3>2
  <2>5. QED
    BY <1>5, <2>1, <2>2, <2>3, <2>4, RespondIs DEF RpcTypeOK
<1>7. CASE RecordCorrelation(c)
  <2>1. Frame(c) \in Requests /\ Frame(c).id \in Calls \cup {NoId} /\ inbox[c] # <<>>
    BY <1>4, <1>7 DEF RecordCorrelation
  <2>2. CASE handler' = [handler EXCEPT ![c] = "recorded"] /\ recorded' = recorded \cup {Frame(c).id} /\ UNCHANGED <<inbox, outbox>>
    <3>1. handler' \in [Calls -> {"none", "reading", "recorded", "ended"}]
      BY <2>2 DEF RpcTypeOK
    <3>2. recorded' \subseteq Calls \cup {NoId}
      BY <2>1, <2>2 DEF RpcTypeOK
    <3>3. QED
      BY <1>7, <2>2, <3>1, <3>2 DEF RecordCorrelation, RpcTypeOK
  <2>3. CASE Respond(c, NoId, "internal_error", "reading") /\ UNCHANGED recorded
    <3>1. \E code \in Outcomes : Respond(c, NoId, code, "reading")
      BY <2>3 DEF Outcomes
    <3>2. QED
      BY <1>7, <2>1, <2>3, <3>1, RespondIs DEF RecordCorrelation, RpcTypeOK
  <2>4. QED
    BY <1>7, <2>2, <2>3 DEF RecordCorrelation
<1>8. ASSUME inbox[c] # <<>>, Frame(c) \in Requests, Answer(c) \/ AnswerErr(c),
             served' = served \/ served' = Served(c), UNCHANGED <<up, client, queue, recorded>>
      PROVE  RpcTypeOK'
  <2>1. Frame(c).id \in Calls \cup {NoId}
    BY <1>8 DEF Requests
  <2>2. PICK code \in {"result", "internal_error"} : Respond(c, Frame(c).id, code, "reading")
    BY <1>8 DEF Answer, AnswerErr
  <2>3. code \in Outcomes
    BY <2>2 DEF Outcomes
  <2>4. QED
    BY <1>5, <1>8, <2>1, <2>2, <2>3, RespondIs DEF RpcTypeOK
<1>9. CASE Analyze(c)
  <2>1. inbox[c] # <<>> /\ Frame(c) \in Requests
    BY <1>9 DEF Analyze, HandlerOK
  <2>2. QED
    BY <1>8, <1>9, <2>1 DEF Analyze
<1>10. CASE ReadOnly(c) \/ Shutdown(c) \/ Maintain(c)
  <2>1. inbox[c] # <<>> /\ Frame(c) \in Requests
    BY <1>4, <1>10 DEF ReadOnly, Shutdown, Maintain
  <2>2. QED
    BY <1>8, <1>10, <2>1 DEF ReadOnly, Shutdown, Maintain
<1>11. QED
  BY <1>1, <1>2, <1>3, <1>6, <1>7, <1>9, <1>10 DEF Handle

LEMMA CallTypeOK ==
  ASSUME RpcTypeOK, NEW c \in Calls, Call(c)
  PROVE  RpcTypeOK'
<1>1. ASSUME NEW outcome \in Outcomes, Finish(c, outcome) PROVE RpcTypeOK'
  <2>1. client' = [client EXCEPT ![c].pc = "done", ![c].outcome = outcome] /\ client' \in [Calls -> Clients]
    BY <1>1 DEF Finish, RpcTypeOK, Clients
  <2>2. outbox' \in [Calls -> Seq(Responses)]
    BY <1>1 DEF Finish, RpcTypeOK
  <2>3. QED
    BY <1>1, <2>1, <2>2 DEF Finish, RpcTypeOK
<1>2. CASE Connect(c)
  BY <1>2 DEF Connect, RpcTypeOK, Clients
<1>3. CASE Receive(c)
  <2>1. Head(outbox[c]) \in Responses
    BY <1>3 DEF Receive, RpcTypeOK
  <2>2. QED
    BY <1>1, <1>3, <2>1 DEF Receive, Responses
<1>4. CASE PassOver(c)
  <2>1. Tail(outbox[c]) \in Seq(Responses)
    BY <1>4 DEF PassOver, RpcTypeOK
  <2>2. QED
    BY <1>4, <2>1 DEF PassOver, RpcTypeOK
<1>5. CASE Finish(c, "not sent") \/ Finish(c, "closed") \/ Finish(c, "timeout")
  <2>1. \E outcome \in Outcomes : Finish(c, outcome)
    BY <1>5 DEF Outcomes
  <2>2. QED
    BY <1>1, <2>1
<1>6. QED
  BY <1>2, <1>3, <1>4, <1>5 DEF Call, ConnectFails, Closed, TimesOut

LEMMA DaemonTypeOK == RpcTypeOK /\ (IndexBatch \/ Exit \/ Start) => RpcTypeOK'
<1>1. ASSUME RpcTypeOK, IndexBatch PROVE RpcTypeOK'
  <2>1. queue' \in Seq(Calls) /\ Len(queue') <= Capacity
    BY <1>1, RpcAssumption DEF IndexBatch, RpcTypeOK
  <2>2. QED
    BY <1>1, <2>1 DEF IndexBatch, RpcTypeOK
<1>2. ASSUME RpcTypeOK, Exit PROVE RpcTypeOK'
  <2>1. queue' \in Seq(Calls) /\ Len(queue') <= Capacity /\ inbox' \in [Calls -> Seq(Frames)]
    BY <1>2, RpcAssumption DEF Exit
  <2>2. QED
    BY <1>2, <2>1 DEF Exit, RpcTypeOK
<1>3. ASSUME RpcTypeOK, Start PROVE RpcTypeOK'
  BY <1>3 DEF Start, RpcTypeOK
<1>4. QED
  BY <1>1, <1>2, <1>3

---------------------------------------------------------------------------
(* A connection nobody touched keeps its invariant.                        *)
Same(c) ==
  /\ client'[c] = client[c] /\ inbox'[c] = inbox[c] /\ outbox'[c] = outbox[c] /\ handler'[c] = handler[c]
  /\ served'[c] = served[c] /\ (c \in recorded' <=> c \in recorded)

LEMMA SameKeeps ==
  ASSUME NEW c \in Calls, CallOK(c), Same(c)
  PROVE  CallOK(c)'
<1> USE DEF Same
<1>1. Unread(c)' <=> Unread(c)
  BY DEF Unread
<1>2. \A code : Told(c, code)' <=> Told(c, code)
  BY DEF Told
<1>3. FramesOK(c)' /\ ServedOK(c)'
  BY DEF CallOK, FramesOK, ServedOK
<1>4. HandlerOK(c)'
  BY <1>1 DEF CallOK, HandlerOK, Untouched, Frame
<1>5. OutcomeOK(c)' /\ OutboxOK(c)'
  BY <1>1, <1>2 DEF CallOK, OutcomeOK, OutboxOK
<1>6. QED
  BY <1>3, <1>4, <1>5 DEF CallOK

(* The handler of c has dealt with its first frame: it may have sent code    *)
(* under id, and has done what it did only if the frame is c's own.         *)
Taken(c, id, code) ==
  /\ inbox[c] # <<>> /\ inbox'[c] = Tail(inbox[c]) /\ client'[c] = client[c]
  /\ handler'[c] \in {"reading", "ended"} /\ client[c].pc \notin {"idle", "connecting"}
  /\ outbox'[c] = outbox[c] \/ outbox'[c] = Append(outbox[c], [id |-> id, code |-> code])
  /\ ~Own(c, Frame(c)) => id # c /\ served'[c] = served[c] /\ (c \in recorded' <=> c \in recorded)
  /\ Own(c, Frame(c)) =>
       /\ served'[c] \in {0, 1} /\ (served'[c] = 1 => Frame(c).faults = {})
       /\ id = c => Told(c, code)'
       /\ id = c /\ "token" \in Frame(c).faults => code \in Early

LEMMA TakenKeeps ==
  ASSUME RpcTypeOK, NEW c \in Calls, CallOK(c), NEW id \in Calls \cup {NoId}, NEW code \in Outcomes, Taken(c, id, code)
  PROVE  CallOK(c)'
<1> DEFINE q == inbox[c]
           fs == client[c].frames
<1>0. Sendable(c, q) /\ q # <<>> /\ Frame(c) = Head(q) /\ inbox'[c] = Tail(q) /\ client'[c] = client[c]
  BY DEF Taken, CallOK, FramesOK, Frame
<1>1. /\ Sendable(c, Tail(q))
      /\ Own(c, Frame(c)) => \A i \in DOMAIN Tail(q) : ~Own(c, Tail(q)[i])
      /\ \A i \in DOMAIN Tail(q) : \E j \in DOMAIN q : q[j] = Tail(q)[i]
      /\ \E j \in DOMAIN q : q[j] = Frame(c)
  BY <1>0, TailIs
<1>2. Own(c, Frame(c)) => Unread(c) /\ ~Unread(c)'
  BY <1>0, <1>1 DEF Unread
<1>3. Unread(c)' => Unread(c)
  BY <1>0, <1>1 DEF Unread
<1>4. \E j \in DOMAIN fs : fs[j] = Frame(c)
  BY <1>1 DEF CallOK, FramesOK
<1>5. FramesOK(c)'
  BY <1>0, <1>1 DEF CallOK, FramesOK
<1>6. HandlerOK(c)'
  <2>1. handler'[c] # "recorded" /\ client'[c].pc \notin {"idle", "connecting"}
    BY <1>0 DEF Taken
  <2>2. client'[c].pc # "done" => client'[c].outcome = "none"
    BY <1>0 DEF CallOK, HandlerOK
  <2>3. Unread(c)' => served'[c] = 0 /\ c \notin recorded'
    <3> SUFFICES ASSUME Unread(c)' PROVE served'[c] = 0 /\ c \notin recorded'
      OBVIOUS
    <3>1. ~Own(c, Frame(c)) /\ Unread(c)
      BY <1>2, <1>3
    <3>2. served[c] = 0 /\ c \notin recorded
      BY <3>1 DEF CallOK, HandlerOK, Own
    <3>3. QED
      BY <3>1, <3>2 DEF Taken
  <2>4. QED
    BY <2>1, <2>2, <2>3 DEF HandlerOK
<1>7. ServedOK(c)'
  <2>1. CASE Own(c, Frame(c))
    BY <1>0, <1>4, <2>1 DEF ServedOK, Taken
  <2>2. CASE ~Own(c, Frame(c))
    BY <1>0, <2>2 DEF CallOK, ServedOK, Taken
  <2>3. QED
    BY <2>1, <2>2
<1>8. ASSUME ~Own(c, Frame(c)) PROVE \A k : Told(c, k) => Told(c, k)'
  BY <1>8 DEF Told, Taken
<1>9. OutcomeOK(c)'
  BY <1>0, <1>2, <1>3, <1>8 DEF CallOK, OutcomeOK
<1>10. ASSUME NEW i \in DOMAIN outbox[c], outbox[c][i].id = c, NEW k, k = outbox[c][i].code
       PROVE  /\ ~Unread(c)' /\ Told(c, k)'
              /\ \A j \in DOMAIN fs : Own(c, fs[j]) /\ "token" \in fs[j].faults => k \in Early
  <2>1. /\ ~Unread(c) /\ Told(c, k)
        /\ \A j \in DOMAIN fs : Own(c, fs[j]) /\ "token" \in fs[j].faults => k \in Early
    BY <1>10 DEF CallOK, OutboxOK
  <2>2. QED
    BY <1>2, <1>3, <1>8, <2>1
<1>11. ASSUME id = c
       PROVE  /\ ~Unread(c)' /\ Told(c, code)'
              /\ \A j \in DOMAIN fs : Own(c, fs[j]) /\ "token" \in fs[j].faults => code \in Early
  <2>1. Own(c, Frame(c))
    BY <1>11 DEF Taken
  <2>2. \A j \in DOMAIN fs : Own(c, fs[j]) => fs[j] = Frame(c)
    BY <1>4, <2>1 DEF CallOK, FramesOK, Sendable
  <2>3. QED
    BY <1>2, <1>11, <2>1, <2>2 DEF Taken
<1>12. OutboxOK(c)'
  <2>1. CASE outbox'[c] = outbox[c]
    BY <1>0, <1>10, <2>1 DEF OutboxOK
  <2>2. CASE outbox'[c] = Append(outbox[c], [id |-> id, code |-> code])
    <3>1. outbox[c] \in Seq(Responses)
      BY DEF RpcTypeOK
    <3>2. \A i \in DOMAIN outbox'[c] :
            (i \in DOMAIN outbox[c] /\ outbox'[c][i] = outbox[c][i]) \/ outbox'[c][i] = [id |-> id, code |-> code]
      BY <2>2, <3>1
    <3>3. QED
      BY <1>0, <1>10, <1>11, <3>2 DEF OutboxOK
  <2>3. QED
    BY <2>1, <2>2 DEF Taken
<1>13. QED
  BY <1>5, <1>6, <1>7, <1>9, <1>12 DEF CallOK

(* A response, with what is done before it, takes the frame.               *)
LEMMA AnswerTakes ==
  ASSUME RpcTypeOK, NEW c \in Calls, CallOK(c), NEW id \in Calls \cup {NoId}, NEW code \in Outcomes,
         NEW then \in {"reading", "ended"}, inbox[c] # <<>>, handler[c] # "none", Respond(c, id, code, then),
         client' = client,
         ~Own(c, Frame(c)) => id # c /\ served'[c] = served[c] /\ (c \in recorded' <=> c \in recorded),
         Own(c, Frame(c)) => served'[c] \in {0, 1} /\ (served'[c] = 1 => Frame(c).faults = {}),
         Own(c, Frame(c)) /\ id = c => Told(c, code)' /\ ("token" \in Frame(c).faults => code \in Early),
         \A d \in Calls \ {c} : served'[d] = served[d] /\ (d \in recorded' <=> d \in recorded)
  PROVE  CallOK(c)' /\ \A d \in Calls \ {c} : Same(d)
<1>1. client[c].pc \notin {"idle", "connecting"}
  BY DEF CallOK, HandlerOK, Untouched
<1>2. Taken(c, id, code)
  BY <1>1, RespondIs DEF Taken
<1>3. ASSUME NEW d \in Calls \ {c} PROVE Same(d)
  <2>1. inbox'[d] = inbox[d] /\ outbox'[d] = outbox[d] /\ handler'[d] = handler[d]
    <3>1. inbox' = [inbox EXCEPT ![c] = Tail(@)]
      BY DEF Respond
    <3>2. UNCHANGED outbox \/ \E m : outbox' = [outbox EXCEPT ![c] = Append(@, m)]
      BY DEF Respond
    <3>3. \E next : handler' = [handler EXCEPT ![c] = next]
      BY DEF Respond
    <3>4. QED
      BY <1>3, <3>1, <3>2, <3>3 DEF RpcTypeOK
  <2>2. QED
    BY <2>1 DEF Same
<1>4. QED
  BY <1>2, <1>3, TakenKeeps

(* The request that is next, when it is c's own and nothing was written, is  *)
(* not yet done.                                                           *)
LEMMA OwnIsNew ==
  ASSUME RpcTypeOK, NEW c \in Calls, CallOK(c), inbox[c] # <<>>, Own(c, Frame(c))
  PROVE  served[c] = 0 /\ (handler[c] = "reading" => c \notin recorded)
<1>1. inbox[c] \in Seq(Frames)
  BY DEF RpcTypeOK
<1>2. 1 \in DOMAIN inbox[c] /\ Frame(c) = inbox[c][1]
  BY <1>1 DEF Frame
<1>3. Unread(c)
  BY <1>2 DEF Unread
<1>4. QED
  BY <1>3 DEF CallOK, HandlerOK

LEMMA ReadIs ==
  ASSUME RpcTypeOK, NEW c \in Calls, ReadFrame(c)
  PROVE  /\ inbox[c] # <<>> /\ handler[c] = "reading"
         /\ Frame(c) \in {BadFrame, BadJson} => ~Own(c, Frame(c))
         /\ Frame(c) \notin {BadFrame, BadJson} =>
              Frame(c) \in Requests /\ Frame(c).id \in Calls \cup {NoId}
BY FrameIs, RpcAssumption DEF ReadFrame, Own

LEMMA JunkKeeps ==
  ASSUME RpcTypeOK, NEW c \in Calls, CallOK(c), ReadJunk(c)
  PROVE  CallOK(c)' /\ \A d \in Calls \ {c} : Same(d)
<1>1. PICK code \in Outcomes, then \in {"reading", "ended"} : Respond(c, NoId, code, then)
  BY DEF ReadJunk, Outcomes
<1>2. inbox[c] # <<>> /\ handler[c] # "none" /\ ~Own(c, Frame(c)) /\ UNCHANGED <<client, served, recorded>>
  BY ReadIs DEF ReadJunk
<1>3. NoId # c
  BY RpcAssumption
<1>4. QED
  BY <1>1, <1>2, <1>3, AnswerTakes

LEMMA EndKeeps ==
  ASSUME RpcTypeOK, NEW c \in Calls, CallOK(c), EndOfStream(c)
  PROVE  CallOK(c)' /\ \A d \in Calls \ {c} : Same(d)
<1>1. /\ client' = client /\ inbox' = inbox /\ outbox' = outbox /\ served' = served /\ recorded' = recorded
      /\ handler[c] = "reading" /\ handler' = [handler EXCEPT ![c] = "ended"]
  BY DEF EndOfStream
<1>2. handler'[c] = "ended" /\ \A d \in Calls \ {c} : handler'[d] = handler[d]
  BY <1>1 DEF RpcTypeOK
<1>3. HandlerOK(c)'
  BY <1>1, <1>2 DEF CallOK, HandlerOK, Untouched, Unread
<1>4. FramesOK(c)' /\ ServedOK(c)' /\ OutcomeOK(c)' /\ OutboxOK(c)'
  BY <1>1 DEF CallOK, FramesOK, ServedOK, OutcomeOK, OutboxOK, Told, Unread
<1>5. QED
  BY <1>1, <1>2, <1>3, <1>4 DEF CallOK, Same

LEMMA RefuseKeeps ==
  ASSUME RpcTypeOK, NEW c \in Calls, CallOK(c), Refuse(c)
  PROVE  CallOK(c)' /\ \A d \in Calls \ {c} : Same(d)
<1>1. PICK r \in Requests : r = Frame(c)
  BY ReadIs DEF Refuse, ReadRequest
<1>2. PICK k : k = Refusal(r) /\ k \in Refusals /\ ("token" \in r.faults => k \in Early)
  BY <1>1, RefusalIs DEF Refuse
<1>3. /\ inbox[c] # <<>> /\ handler[c] = "reading" /\ r.id \in Calls \cup {NoId}
      /\ Respond(c, r.id, k, "reading") /\ UNCHANGED <<client, served, recorded>>
  BY <1>1, <1>2, ReadIs DEF Refuse, ReadRequest
<1>4. Own(c, r) <=> r.id = c
  BY <1>1 DEF Own
<1>5. Own(c, r) => served[c] = 0 /\ c \notin recorded
  BY <1>1, <1>3, OwnIsNew
<1>6. Own(c, r) => Told(c, k)'
  BY <1>2, <1>5, <1>3 DEF Told, Refusals
<1>7. Own(c, r) => served'[c] \in {0, 1} /\ (served'[c] = 1 => r.faults = {})
  BY <1>5, <1>3
<1>8. k \in Outcomes
  BY <1>2 DEF Outcomes
<1>9. QED
  BY <1>1, <1>2, <1>4, <1>3, <1>6, <1>7, <1>8, AnswerTakes

(* What is dispatched is c's own, or a notification: no other call's.       *)
LEMMA DispatchedIs ==
  ASSUME RpcTypeOK, NEW c \in Calls, CallOK(c), handler[c] = "recorded" \/ \E method : Dispatched(c, method)
  PROVE  /\ inbox[c] # <<>> /\ Frame(c) \in Requests /\ Frame(c).id \in {c, NoId} /\ Frame(c).faults = {}
         /\ handler[c] \in {"reading", "recorded"}
         /\ Own(c, Frame(c)) <=> Frame(c).id = c
<1>1. inbox[c] # <<>> /\ Frame(c) \in Requests /\ handler[c] \in {"reading", "recorded"} /\ Frame(c).faults = {}
  <2>1. CASE handler[c] = "recorded"
    BY <2>1 DEF CallOK, HandlerOK
  <2>2. CASE \E method : Dispatched(c, method)
    <3>1. inbox[c] # <<>> /\ Frame(c) \in Requests /\ handler[c] = "reading" /\ Refusal(Frame(c)) = "none"
      BY <2>2, ReadIs DEF Dispatched, ReadRequest
    <3>2. QED
      BY <3>1, RefusalIs
  <2>3. QED
    BY <2>1, <2>2
<1>2. Frame(c) \in {BadFrame, BadJson} \cup {r \in Requests : r.id \in {c, NoId}}
  <2> DEFINE F == {BadFrame, BadJson} \cup {r \in Requests : r.id \in {c, NoId}}
  <2>1. inbox[c] \in Seq(F)
    BY DEF CallOK, FramesOK, Sendable
  <2> HIDE DEF F
  <2>2. Head(inbox[c]) \in F
    BY <1>1, <2>1
  <2>3. QED
    BY <2>2 DEF F, Frame
<1>3. Frame(c) \notin {BadFrame, BadJson}
  BY <1>1, RpcAssumption
<1>4. QED
  BY <1>1, <1>2, <1>3 DEF Own

(* An answer to such a request, with a correlation written or not: "result"  *)
(* only when the request was served.                                       *)
LEMMA ServeKeeps ==
  ASSUME RpcTypeOK, NEW c \in Calls, CallOK(c), handler[c] = "recorded" \/ \E method : Dispatched(c, method),
         NEW code \in {"result", "internal_error", "dropped"}, Respond(c, Frame(c).id, code, "reading"),
         client' = client,
         \/ served' = served /\ code # "result"
         \/ served' = Served(c) /\ code # "dropped",
         recorded' = recorded \/ recorded' = recorded \cup {Frame(c).id}
  PROVE  CallOK(c)' /\ \A d \in Calls \ {c} : Same(d)
<1>1. PICK r \in Requests : r = Frame(c)
  BY DispatchedIs
<1>2. /\ inbox[c] # <<>> /\ handler[c] # "none" /\ r.id \in {c, NoId} /\ r.faults = {}
      /\ Own(c, r) <=> r.id = c
  BY <1>1, DispatchedIs
<1>3. NoId \notin Calls /\ NoId # c
  BY RpcAssumption
<1>4. served' = served \/ served' = [served EXCEPT ![r.id] = @ + 1]
  BY <1>1 DEF Served
<1>5. \A d \in Calls \ {r.id} : served'[d] = served[d] /\ (d \in recorded' <=> d \in recorded)
  BY <1>1, <1>4 DEF RpcTypeOK
<1>6. \A d \in Calls \ {c} : served'[d] = served[d] /\ (d \in recorded' <=> d \in recorded)
  BY <1>2, <1>3, <1>5
<1>7. ~Own(c, r) => r.id # c /\ served'[c] = served[c] /\ (c \in recorded' <=> c \in recorded)
  BY <1>2, <1>5
<1>8. Own(c, r) => served[c] = 0
  BY <1>1, <1>2, OwnIsNew
<1>9. Own(c, r) => served'[c] \in {0, 1} /\ (code = "result" => served'[c] = 1) /\ (code = "dropped" => served'[c] = 0)
  <2>1. CASE served' = served /\ code # "result"
    BY <1>8, <2>1
  <2>2. CASE served' = Served(c) /\ code # "dropped"
    BY <1>1, <1>2, <1>8, <2>2 DEF Served, RpcTypeOK
  <2>3. QED
    BY <2>1, <2>2
<1>10. Own(c, r) => Told(c, code)'
  BY <1>9 DEF Told, Refusals
<1>11. code \in Outcomes /\ r.id \in Calls \cup {NoId}
  BY <1>2 DEF Outcomes
<1>12. QED
  BY <1>1, <1>2, <1>6, <1>7, <1>9, <1>10, <1>11, AnswerTakes

LEMMA RecordKeeps ==
  ASSUME RpcTypeOK, NEW c \in Calls, CallOK(c), RecordCorrelation(c)
  PROVE  CallOK(c)' /\ \A d \in Calls \ {c} : Same(d)
<1>1. PICK r \in Requests : r = Frame(c)
  BY DispatchedIs DEF RecordCorrelation
<1>2. /\ inbox[c] # <<>> /\ handler[c] = "reading" /\ r.id \in {c, NoId} /\ r.faults = {}
      /\ Own(c, r) <=> r.id = c
  BY <1>1, DispatchedIs DEF RecordCorrelation, Dispatched, ReadRequest, ReadFrame
<1>3. NoId \notin Calls /\ NoId # c /\ UNCHANGED <<client, served>>
  BY RpcAssumption DEF RecordCorrelation
<1>4. Own(c, r) => served[c] = 0
  BY <1>1, <1>2, OwnIsNew
<1>5. CASE handler' = [handler EXCEPT ![c] = "recorded"] /\ recorded' = recorded \cup {Frame(c).id} /\ UNCHANGED <<inbox, outbox>>
  <2>1. \A d \in Calls \ {c} : Same(d)
    <3>1. \A d \in Calls \ {c} : d \in recorded' <=> d \in recorded
      BY <1>1, <1>2, <1>3, <1>5
    <3>2. QED
      BY <1>3, <1>5, <3>1 DEF Same, RpcTypeOK
  <2>2. handler'[c] = "recorded" /\ Frame(c)' = r /\ inbox' = inbox /\ outbox' = outbox /\ client' = client /\ served' = served
    BY <1>1, <1>3, <1>5 DEF RpcTypeOK, Frame
  <2>3. FramesOK(c)' /\ ServedOK(c)' /\ (Unread(c)' <=> Unread(c))
    BY <2>2 DEF CallOK, FramesOK, ServedOK, Unread
  <2>4. client[c].pc \notin {"idle", "connecting"}
    BY <1>2 DEF CallOK, HandlerOK, Untouched
  <2>5. c \in recorded' /\ r.id # c => c \in recorded
    BY <1>1, <1>5
  <2>6. Unread(c) => served[c] = 0 /\ c \notin recorded
    BY <1>2 DEF CallOK, HandlerOK
  <2>7. HandlerOK(c)'
    BY <1>2, <2>2, <2>3, <2>4, <2>5, <2>6 DEF CallOK, HandlerOK
  <2>8. Own(c, r) => Unread(c)
    <3>1. inbox[c] \in Seq(Frames)
      BY DEF RpcTypeOK
    <3>2. 1 \in DOMAIN inbox[c] /\ r = inbox[c][1]
      BY <1>1, <1>2, <3>1 DEF Frame
    <3>3. QED
      BY <3>2 DEF Unread
  <2>9. ASSUME ~Unread(c) PROVE \A k : Told(c, k) => Told(c, k)'
    BY <1>2, <2>2, <2>5, <2>8, <2>9 DEF Told
  <2>10. OutcomeOK(c)'
    BY <2>2, <2>3, <2>9 DEF CallOK, OutcomeOK
  <2>11. OutboxOK(c)'
    BY <2>2, <2>3, <2>9 DEF CallOK, OutboxOK
  <2>12. QED
    BY <2>1, <2>3, <2>7, <2>10, <2>11 DEF CallOK
<1>6. CASE Respond(c, NoId, "internal_error", "reading") /\ UNCHANGED recorded
  <2>1. PICK k \in Outcomes : k = "internal_error"
    BY DEF Outcomes
  <2>2. Respond(c, NoId, k, "reading")
    BY <1>6, <2>1
  <2>3. Own(c, r) => served'[c] \in {0, 1} /\ (served'[c] = 1 => r.faults = {})
    BY <1>2, <1>3, <1>4
  <2>4. QED
    BY <1>1, <1>2, <1>3, <1>6, <2>2, <2>3, AnswerTakes
<1>7. QED
  BY <1>5, <1>6 DEF RecordCorrelation

LEMMA HandleKeeps ==
  ASSUME RpcTypeOK, NEW c \in Calls, CallOK(c), Handle(c)
  PROVE  CallOK(c)' /\ \A d \in Calls \ {c} : Same(d)
<1> DEFINE Goal == CallOK(c)' /\ \A d \in Calls \ {c} : Same(d)
           Dispatch == handler[c] = "recorded" \/ \E method : Dispatched(c, method)
<1>1. ASSUME Dispatch, Answer(c), served' = Served(c), client' = client,
             recorded' = recorded \/ recorded' = recorded \cup {Frame(c).id}
      PROVE  Goal
  <2>1. PICK k \in {"result", "internal_error", "dropped"} : k = "result"
    OBVIOUS
  <2>2. QED
    BY <1>1, <2>1, ServeKeeps DEF Answer
<1>2. ASSUME Dispatch, AnswerErr(c), served' = served \/ served' = Served(c), client' = client, recorded' = recorded
      PROVE  Goal
  <2>1. PICK k \in {"result", "internal_error", "dropped"} : k = "internal_error"
    OBVIOUS
  <2>2. QED
    BY <1>2, <2>1, ServeKeeps DEF AnswerErr
<1>3. ASSUME Dispatch, Respond(c, Frame(c).id, "dropped", "reading"), served' = served, client' = client,
             recorded' = recorded \cup {Frame(c).id}
      PROVE  Goal
  <2>1. PICK k \in {"result", "internal_error", "dropped"} : k = "dropped"
    OBVIOUS
  <2>2. QED
    BY <1>3, <2>1, ServeKeeps
<1>4. CASE FilesChanged(c)
  BY <1>1, <1>2, <1>3, <1>4 DEF FilesChanged
<1>5. CASE Analyze(c)
  BY <1>1, <1>2, <1>5 DEF Analyze
<1>6. CASE ReadOnly(c) \/ Shutdown(c) \/ Maintain(c)
  BY <1>1, <1>2, <1>6 DEF ReadOnly, Shutdown, Maintain
<1>7. QED
  BY <1>4, <1>5, <1>6, JunkKeeps, EndKeeps, RefuseKeeps, RecordKeeps DEF Handle

---------------------------------------------------------------------------
(* The caller's steps.                                                     *)
LEMMA FinishKeeps ==
  ASSUME RpcTypeOK, NEW c \in Calls, CallOK(c), NEW outcome \in Outcomes, Finish(c, outcome),
         outcome \in Conclusive => ~Unread(c) /\ Told(c, outcome)
  PROVE  CallOK(c)' /\ \A d \in Calls \ {c} : Same(d)
<1>1. /\ client' = [client EXCEPT ![c].pc = "done", ![c].outcome = outcome]
      /\ outbox' = [outbox EXCEPT ![c] = <<>>] /\ UNCHANGED <<inbox, handler, recorded, served>>
  BY DEF Finish
<1>2. \A d \in Calls \ {c} : Same(d)
  BY <1>1 DEF Same, RpcTypeOK
<1>3. client'[c].pc = "done" /\ client'[c].outcome = outcome /\ client'[c].frames = client[c].frames
  BY <1>1 DEF RpcTypeOK, Clients
<1>4. outbox'[c] = <<>> /\ (Unread(c)' <=> Unread(c))
  BY <1>1 DEF RpcTypeOK, Unread
<1>5. FramesOK(c)' /\ ServedOK(c)'
  BY <1>1, <1>3 DEF CallOK, FramesOK, ServedOK
<1>6. HandlerOK(c)'
  BY <1>1, <1>3, <1>4 DEF CallOK, HandlerOK, Frame
<1>7. OutcomeOK(c)'
  BY <1>1, <1>3, <1>4 DEF OutcomeOK, Told
<1>8. OutboxOK(c)'
  BY <1>4 DEF OutboxOK
<1>9. QED
  BY <1>2, <1>5, <1>6, <1>7, <1>8 DEF CallOK

LEMMA ConnectKeeps ==
  ASSUME RpcTypeOK, NEW c \in Calls, CallOK(c), Connect(c)
  PROVE  CallOK(c)' /\ \A d \in Calls \ {c} : Same(d)
<1>1. /\ client[c].pc = "connecting" /\ client' = [client EXCEPT ![c].pc = "waiting"]
      /\ inbox' = [inbox EXCEPT ![c] = client[c].frames] /\ handler' = [handler EXCEPT ![c] = "reading"]
      /\ UNCHANGED <<outbox, recorded, served>>
  BY DEF Connect
<1>2. \A d \in Calls \ {c} : Same(d)
  BY <1>1 DEF Same, RpcTypeOK
<1>3. /\ client'[c].pc = "waiting" /\ client'[c].outcome = client[c].outcome /\ client'[c].frames = client[c].frames
      /\ inbox'[c] = client[c].frames /\ handler'[c] = "reading"
  BY <1>1 DEF RpcTypeOK, Clients
<1>4. Untouched(c) /\ client[c].outcome = "none"
  BY <1>1 DEF CallOK, HandlerOK
<1>5. FramesOK(c)' /\ ServedOK(c)'
  BY <1>1, <1>3 DEF CallOK, FramesOK, ServedOK
<1>6. HandlerOK(c)'
  BY <1>1, <1>3, <1>4 DEF HandlerOK, Untouched
<1>7. OutcomeOK(c)' /\ OutboxOK(c)'
  <2>1. client'[c].outcome \notin Conclusive
    BY <1>3, <1>4 DEF Conclusive, Refusals
  <2>2. outbox'[c] = <<>>
    BY <1>1, <1>4 DEF Untouched
  <2>3. QED
    BY <2>1, <2>2 DEF OutcomeOK, OutboxOK
<1>8. QED
  BY <1>2, <1>5, <1>6, <1>7 DEF CallOK

LEMMA PassOverKeeps ==
  ASSUME RpcTypeOK, NEW c \in Calls, CallOK(c), PassOver(c)
  PROVE  CallOK(c)' /\ \A d \in Calls \ {c} : Same(d)
<1>1. /\ outbox[c] # <<>> /\ outbox' = [outbox EXCEPT ![c] = Tail(@)] /\ Open(c)
      /\ UNCHANGED <<client, inbox, handler, recorded, served>>
  BY DEF PassOver
<1>2. \A d \in Calls \ {c} : Same(d)
  BY <1>1 DEF Same, RpcTypeOK
<1>3. outbox[c] \in Seq(Responses) /\ outbox'[c] = Tail(outbox[c])
  BY <1>1 DEF RpcTypeOK
<1>4. \A i \in DOMAIN outbox'[c] : i + 1 \in DOMAIN outbox[c] /\ outbox'[c][i] = outbox[c][i + 1]
  BY <1>1, <1>3, TailAt
<1>5. FramesOK(c)' /\ ServedOK(c)' /\ OutcomeOK(c)'
  BY <1>1 DEF CallOK, FramesOK, ServedOK, OutcomeOK, Unread, Told
<1>6. HandlerOK(c)'
  BY <1>1 DEF CallOK, HandlerOK, Open, Unread, Frame
<1>7. OutboxOK(c)'
  <2>1. ASSUME NEW i \in DOMAIN outbox'[c], outbox'[c][i].id = c, NEW k, k = outbox'[c][i].code
        PROVE  /\ ~Unread(c) /\ Told(c, k)
               /\ \A j \in DOMAIN client[c].frames :
                    Own(c, client[c].frames[j]) /\ "token" \in client[c].frames[j].faults => k \in Early
    BY <1>4, <2>1 DEF CallOK, OutboxOK
  <2>2. (Unread(c)' <=> Unread(c)) /\ \A k : Told(c, k)' <=> Told(c, k)
    BY <1>1 DEF Unread, Told
  <2>3. QED
    BY <1>1, <2>1, <2>2 DEF OutboxOK
<1>8. QED
  BY <1>2, <1>5, <1>6, <1>7 DEF CallOK

LEMMA CallKeeps ==
  ASSUME RpcTypeOK, NEW c \in Calls, CallOK(c), Call(c)
  PROVE  CallOK(c)' /\ \A d \in Calls \ {c} : Same(d)
<1>1. CASE ConnectFails(c)
  <2>1. PICK k \in Outcomes : k = "not sent"
    BY DEF Outcomes
  <2>2. ~Unread(c) /\ Told(c, k)
    <3>1. Untouched(c)
      BY <1>1 DEF CallOK, HandlerOK, ConnectFails
    <3>2. ~Unread(c)
      BY <3>1 DEF Untouched, Unread
    <3>3. Told(c, k)
      BY <2>1, <3>1 DEF Untouched, Told
    <3>4. QED
      BY <3>2, <3>3
  <2>3. QED
    BY <1>1, <2>1, <2>2, FinishKeeps DEF ConnectFails
<1>2. CASE Receive(c)
  <2>1. outbox[c] \in Seq(Responses) /\ outbox[c] # <<>>
    BY <1>2 DEF RpcTypeOK, Receive
  <2>2. 1 \in DOMAIN outbox[c] /\ Head(outbox[c]) = outbox[c][1] /\ outbox[c][1] \in Responses
    BY <2>1
  <2>3. PICK k \in Outcomes : k = outbox[c][1].code
    BY <2>2 DEF Responses
  <2>4. ~Unread(c) /\ Told(c, k)
    <3>1. outbox[c][1].id = c
      BY <1>2, <2>2 DEF Receive
    <3>2. ~Unread(c) /\ Told(c, outbox[c][1].code)
      BY <2>2, <3>1 DEF CallOK, OutboxOK
    <3>3. QED
      BY <2>3, <3>2
  <2>5. QED
    BY <1>2, <2>2, <2>3, <2>4, FinishKeeps DEF Receive
<1>3. CASE Closed(c) \/ TimesOut(c)
  <2>1. PICK k \in Outcomes : k \in {"closed", "timeout"} /\ Finish(c, k)
    BY <1>3 DEF Closed, TimesOut, Outcomes
  <2>2. k \notin Conclusive
    BY <2>1 DEF Conclusive, Refusals
  <2>3. QED
    BY <2>1, <2>2, FinishKeeps
<1>4. QED
  BY <1>1, <1>2, <1>3, ConnectKeeps, PassOverKeeps DEF Call

(***************************************************************************)
(* The whole: a step of the daemon, of a call, and its beginning.          *)
(***************************************************************************)
LEMMA ExitKeeps ==
  ASSUME RpcTypeOK, NEW c \in Calls, CallOK(c), Exit
  PROVE  CallOK(c)'
<1>1. /\ inbox'[c] = <<>> /\ UNCHANGED <<client, outbox, recorded, served>>
      /\ handler'[c] \in {"none", "ended"} /\ (handler[c] = "none" => handler'[c] = "none")
  BY DEF Exit
<1>2. ~Unread(c)'
  BY <1>1 DEF Unread
<1>3. Sendable(c, <<>>)
  BY DEF Sendable
<1>4. FramesOK(c)' /\ ServedOK(c)'
  BY <1>1, <1>3 DEF CallOK, FramesOK, ServedOK
<1>5. HandlerOK(c)'
  BY <1>1, <1>2 DEF CallOK, HandlerOK, Untouched
<1>6. \A k : Told(c, k)' <=> Told(c, k)
  BY <1>1 DEF Told
<1>7. OutcomeOK(c)' /\ OutboxOK(c)'
  BY <1>1, <1>2, <1>6 DEF CallOK, OutcomeOK, OutboxOK
<1>8. QED
  BY <1>4, <1>5, <1>7 DEF CallOK

LEMMA InitRpcInv == RpcInit => RpcInv
<1> SUFFICES ASSUME RpcInit, NEW c \in Calls PROVE CallOK(c)
  BY InitRpcTypeOK DEF RpcInv
<1>1. client[c] = Unused /\ inbox[c] = <<>> /\ outbox[c] = <<>> /\ handler[c] = "none" /\ served[c] = 0 /\ recorded = {}
  BY DEF RpcInit
<1>2. Sendable(c, <<>>)
  BY DEF Sendable
<1>3. QED
  BY <1>1, <1>2 DEF CallOK, FramesOK, HandlerOK, ServedOK, OutcomeOK, OutboxOK, Untouched, Unread, Unused, Conclusive, Refusals

LEMMA RpcNextKeeps == RpcInv /\ RpcNext => RpcInv'
<1> SUFFICES ASSUME RpcInv, RpcNext PROVE RpcInv'
  OBVIOUS
<1>1. ASSUME NEW c \in Calls, Call(c) \/ Handle(c) PROVE RpcInv'
  <2>1. RpcTypeOK'
    BY <1>1, CallTypeOK, HandleTypeOK DEF RpcInv, CallOK
  <2>2. CallOK(c)' /\ \A d \in Calls \ {c} : Same(d)
    BY <1>1, CallKeeps, HandleKeeps DEF RpcInv
  <2>3. \A d \in Calls \ {c} : CallOK(d)'
    BY <2>2, SameKeeps DEF RpcInv
  <2>4. QED
    BY <2>1, <2>2, <2>3 DEF RpcInv
<1>2. CASE IndexBatch \/ Start
  <2>1. \A c \in Calls : Same(c)
    BY <1>2 DEF IndexBatch, Start, Same
  <2>2. QED
    BY <1>2, <2>1, SameKeeps, DaemonTypeOK DEF RpcInv
<1>3. CASE Exit
  BY <1>3, ExitKeeps, DaemonTypeOK DEF RpcInv
<1>4. QED
  BY <1>1, <1>2, <1>3 DEF RpcNext

LEMMA BeginKeeps ==
  ASSUME RpcInv, NEW c \in Calls, NEW frames, Sendable(c, frames), Begin(c, frames)
  PROVE  RpcInv'
<1>1. /\ client[c] = Unused
      /\ client' = [client EXCEPT ![c] = [pc |-> "connecting", frames |-> frames, outcome |-> "none"]]
      /\ UNCHANGED <<up, inbox, outbox, handler, queue, recorded, served>>
  BY DEF Begin
<1>2. frames \in Seq(Frames)
  <2>1. {BadFrame, BadJson} \cup {r \in Requests : r.id \in {c, NoId}} \subseteq Frames
    BY DEF Frames
  <2>2. QED
    BY <2>1 DEF Sendable
<1>3. RpcTypeOK'
  BY <1>1, <1>2 DEF RpcInv, RpcTypeOK, Clients, Outcomes
<1>4. \A d \in Calls \ {c} : Same(d)
  BY <1>1 DEF Same, RpcInv, RpcTypeOK
<1>5. client'[c] = [pc |-> "connecting", frames |-> frames, outcome |-> "none"]
  BY <1>1 DEF RpcInv, RpcTypeOK
<1>6. Untouched(c) /\ Untouched(c)'
  BY <1>1 DEF RpcInv, CallOK, HandlerOK, Unused, Untouched
<1>7. CallOK(c)'
  <2>1. Sendable(c, <<>>)
    BY DEF Sendable
  <2>2. QED
    BY <1>5, <1>6, <2>1 DEF CallOK, FramesOK, HandlerOK, ServedOK, OutcomeOK, OutboxOK, Untouched, Unread, Conclusive, Refusals
<1>8. QED
  BY <1>3, <1>4, <1>7, SameKeeps DEF RpcInv

(***************************************************************************)
(* The plugin and its flushes.                                             *)
(***************************************************************************)
PluginTypeOK ==
  /\ pending \in [Sessions -> SUBSET Files]
  /\ flush \in [Flushes -> [pc : {"none", "ensuring", "sent", "failed"}, session : Sessions \cup {"none"},
                            files : SUBSET Files, turn : Nat]]
  /\ turn \in [Sessions -> Nat]
  /\ since \in [Sessions -> [Files -> SUBSET Flushes]]
  /\ \A c \in Flushes : flush[c].pc # "none" => flush[c].session \in Sessions

LEMMA InitPluginTypeOK == Init => PluginTypeOK
BY DEF Init, PluginTypeOK, NoFlush

LEMMA NextPluginTypeOK == PluginTypeOK /\ [Next]_vars => PluginTypeOK'
<1> SUFFICES ASSUME PluginTypeOK, [Next]_vars PROVE PluginTypeOK'
  OBVIOUS
<1> USE DEF PluginTypeOK
<1>1. ASSUME NEW s \in Sessions, NEW f \in Files, QueueChangedFiles(s, f) PROVE PluginTypeOK'
  BY <1>1 DEF QueueChangedFiles, Begun
<1>2. ASSUME NEW s \in Sessions, FlushChangedFiles(s) PROVE PluginTypeOK'
  BY <1>2 DEF FlushChangedFiles, Begun
<1>3. ASSUME NEW c \in Flushes, NotReady(c) PROVE PluginTypeOK'
  BY <1>3 DEF NotReady
<1>4. ASSUME NEW c \in Flushes, SendFlush(c) PROVE PluginTypeOK'
  <2>1. turn' \in [Sessions -> Nat] /\ turn'[flush[c].session] \in Nat
    BY <1>4 DEF SendFlush
  <2>2. flush' = [flush EXCEPT ![c].pc = "sent", ![c].turn = turn'[flush[c].session]]
        /\ flush[c].session \in Sessions /\ UNCHANGED <<pending, since>>
    BY <1>4 DEF SendFlush
  <2>3. QED
    BY <2>1, <2>2
<1>5. ASSUME UNCHANGED pluginVars PROVE PluginTypeOK'
  BY <1>5 DEF pluginVars
<1>6. QED
  BY <1>1, <1>2, <1>3, <1>4, <1>5 DEF Next, Flush, OtherCall, vars

(* A flush stays begun and keeps its session and its files.                *)
LEMMA FlushesStay ==
  ASSUME PluginTypeOK, [Next]_vars, NEW c \in Begun
  PROVE  c \in Begun' /\ flush'[c].session = flush[c].session /\ flush'[c].files = flush[c].files
<1> USE DEF PluginTypeOK, Begun, NoFlush
<1>1. CASE \E s \in Sessions : FlushChangedFiles(s)
  BY <1>1 DEF FlushChangedFiles
<1>2. CASE \E d \in Flushes : NotReady(d)
  BY <1>2 DEF NotReady
<1>3. CASE \E d \in Flushes : SendFlush(d)
  <2>1. PICK d \in Flushes : SendFlush(d)
    BY <1>3
  <2>2. PICK n : flush' = [flush EXCEPT ![d].pc = "sent", ![d].turn = n]
    BY <2>1 DEF SendFlush
  <2>3. CASE c = d
    BY <2>2, <2>3
  <2>4. CASE c # d
    BY <2>2, <2>4
  <2>5. QED
    BY <2>3, <2>4
<1>4. CASE UNCHANGED flush
  BY <1>4
<1>5. QED
  BY <1>1, <1>2, <1>3, <1>4 DEF Next, Flush, OtherCall, QueueChangedFiles, vars, pluginVars

(* The flushes a change is not waiting for had begun before it.             *)
SinceIsPast == \A s \in Sessions, f \in Files : since[s][f] # Flushes => since[s][f] \subseteq Begun

LEMMA InitSinceIsPast == Init => SinceIsPast
BY DEF Init, SinceIsPast

LEMMA NextSinceIsPast == PluginTypeOK /\ SinceIsPast /\ [Next]_vars => SinceIsPast'
<1> SUFFICES ASSUME PluginTypeOK, SinceIsPast, [Next]_vars, NEW s \in Sessions, NEW f \in Files,
                    since'[s][f] # Flushes
             PROVE  since'[s][f] \subseteq Begun'
  BY DEF SinceIsPast
<1>1. Begun \subseteq Begun'
  BY FlushesStay
<1>2. CASE \E t \in Sessions, g \in Files : QueueChangedFiles(t, g)
  <2>1. since'[s][f] \in {since[s][f], Begun}
    BY <1>2 DEF QueueChangedFiles, PluginTypeOK
  <2>2. QED
    BY <1>1, <2>1 DEF SinceIsPast
<1>3. CASE UNCHANGED since
  BY <1>1, <1>3 DEF SinceIsPast
<1>4. QED
  BY <1>2, <1>3 DEF Next, Flush, FlushChangedFiles, NotReady, SendFlush, OtherCall, vars, pluginVars

LEMMA InitAnnounced == Init => ChangesAreAnnounced
BY DEF Init, ChangesAreAnnounced

LEMMA NextAnnounced == PluginTypeOK /\ SinceIsPast /\ ChangesAreAnnounced /\ [Next]_vars => ChangesAreAnnounced'
<1> SUFFICES ASSUME PluginTypeOK, SinceIsPast, ChangesAreAnnounced, [Next]_vars, NEW s \in Sessions, NEW f \in Files,
                    since'[s][f] # Flushes
             PROVE  \/ f \in pending'[s] /\ s \in armed'
                    \/ \E c \in Begun' \ since'[s][f] : flush'[c].session = s /\ f \in flush'[c].files
  BY DEF ChangesAreAnnounced
<1>1. ASSUME NEW c \in Begun \ since[s][f], flush[c].session = s, f \in flush[c].files, since'[s][f] = since[s][f]
      PROVE  \E d \in Begun' \ since'[s][f] : flush'[d].session = s /\ f \in flush'[d].files
  BY <1>1, FlushesStay
<1>2. CASE \E t \in Sessions, g \in Files : QueueChangedFiles(t, g)
  <2>1. PICK t \in Sessions, g \in Files : QueueChangedFiles(t, g)
    BY <1>2
  <2>2. CASE t = s /\ g = f
    BY <2>1, <2>2 DEF QueueChangedFiles, PluginTypeOK
  <2>3. CASE ~(t = s /\ g = f)
    <3>1. since'[s][f] = since[s][f] /\ (f \in pending[s] => f \in pending'[s]) /\ (s \in armed => s \in armed')
      BY <2>1, <2>3 DEF QueueChangedFiles, PluginTypeOK
    <3>2. QED
      BY <1>1, <3>1 DEF ChangesAreAnnounced
  <2>4. QED
    BY <2>2, <2>3
<1>3. CASE \E t \in Sessions : FlushChangedFiles(t)
  <2>1. PICK t \in Sessions : FlushChangedFiles(t)
    BY <1>3
  <2>2. since'[s][f] = since[s][f]
    BY <2>1 DEF FlushChangedFiles
  <2>3. CASE t = s /\ f \in pending[s]
    <3>1. PICK c \in Flushes \ Begun :
            flush' = [flush EXCEPT ![c] = [pc |-> "ensuring", session |-> s, files |-> pending[s], turn |-> 0]]
      BY <2>1, <2>3 DEF FlushChangedFiles
    <3>2. c \in Begun' /\ flush'[c].session = s /\ f \in flush'[c].files
      BY <2>3, <3>1 DEF PluginTypeOK, Begun, NoFlush
    <3>3. CASE c \notin since[s][f]
      BY <2>2, <3>2, <3>3
    <3>4. CASE c \in since[s][f]
      BY <2>2, <3>1, <3>4 DEF SinceIsPast
    <3>5. QED
      BY <3>3, <3>4
  <2>4. CASE ~(t = s /\ f \in pending[s])
    <3>1. f \in pending[s] /\ s \in armed => f \in pending'[s] /\ s \in armed'
      BY <2>1, <2>4 DEF FlushChangedFiles, PluginTypeOK
    <3>2. QED
      BY <1>1, <2>2, <3>1 DEF ChangesAreAnnounced
  <2>5. QED
    BY <2>3, <2>4
<1>4. CASE UNCHANGED <<pending, armed, since>>
  BY <1>1, <1>4 DEF ChangesAreAnnounced
<1>5. QED
  BY <1>2, <1>3, <1>4 DEF Next, Flush, NotReady, SendFlush, OtherCall, vars, pluginVars

(* A change is not forgotten, whatever is under way when it comes.         *)
THEOREM ChangesAreAnnouncedCorrect == Spec => []ChangesAreAnnounced
<1>1. QED
  BY InitPluginTypeOK, NextPluginTypeOK, InitSinceIsPast, NextSinceIsPast, InitAnnounced, NextAnnounced, PTL DEF Spec

---------------------------------------------------------------------------
(* The connections' invariant under the steps of the plugin.               *)
LEMMA NextRpcInv == PluginTypeOK /\ RpcInv /\ [Next]_vars => RpcInv'
<1> SUFFICES ASSUME PluginTypeOK, RpcInv, [Next]_vars PROVE RpcInv'
  OBVIOUS
<1>1. CASE UNCHANGED rpcVars
  <2>1. \A c \in Calls : Same(c)
    BY <1>1 DEF Same, rpcVars
  <2>2. RpcTypeOK'
    BY <1>1 DEF RpcInv, RpcTypeOK, rpcVars
  <2>3. QED
    BY <2>1, <2>2, SameKeeps DEF RpcInv
<1>2. ASSUME NEW c \in Flushes, SendFlush(c) PROVE RpcInv'
  <2>1. PICK faults \in Mistakes : Begin(c, <<Request(c, "filesChanged", faults)>>)
    BY <1>2 DEF SendFlush
  <2>2. c \in Calls /\ faults \in SUBSET ToSet(Faults)
    BY FlushesAssumption, InputsAssumption
  <2>3. PICK r : r = Request(c, "filesChanged", faults)
    OBVIOUS
  <2>4. r \in Requests /\ r.id = c
    BY <2>2, <2>3 DEF Request, Requests, Methods
  <2>5. <<r>> \in Seq({BadFrame, BadJson} \cup {q \in Requests : q.id \in {c, NoId}}) /\ DOMAIN <<r>> = {1}
    BY <2>4
  <2>6. Sendable(c, <<r>>)
    BY <2>5 DEF Sendable
  <2>7. QED
    BY <2>1, <2>2, <2>3, <2>6, BeginKeeps
<1>3. ASSUME NEW c \in Calls \ Flushes, OtherCall(c) PROVE RpcInv'
  BY <1>3, BeginKeeps, InputsAssumption DEF OtherCall
<1>4. CASE RpcNext
  BY <1>4, RpcNextKeeps
<1>5. QED
  BY <1>1, <1>2, <1>3, <1>4 DEF Next, Flush, QueueChangedFiles, FlushChangedFiles, NotReady, vars

ArmedOK == armed \subseteq Sessions

LEMMA NextArmedOK == ArmedOK /\ [Next]_vars => ArmedOK'
BY DEF ArmedOK, Next, Flush, QueueChangedFiles, FlushChangedFiles, NotReady, SendFlush, OtherCall, vars, pluginVars

LEMMA TypeOKHolds == PluginTypeOK /\ ArmedOK /\ RpcInv => TypeOK
<1> SUFFICES ASSUME PluginTypeOK, ArmedOK, RpcInv PROVE TypeOK
  OBVIOUS
<1>1. \A c \in Calls : /\ client[c].pc \in {"idle", "connecting", "waiting", "done"}
                       /\ handler[c] \in {"none", "reading", "recorded", "ended"}
  BY DEF RpcInv, RpcTypeOK, Clients
<1>2. ToSet(queue) \subseteq Calls
  BY DEF RpcInv, RpcTypeOK, ToSet
<1>3. \A c \in Flushes : flush[c].pc \in {"none", "ensuring", "sent", "failed"}
  BY DEF PluginTypeOK
<1>4. QED
  BY <1>1, <1>2, <1>3 DEF TypeOK, PluginTypeOK, ArmedOK, RpcInv, RpcTypeOK

(* Types of plugin, connections and daemon, the queue's bound included.     *)
THEOREM TypeCorrect == Spec => []TypeOK
<1>1. Init => PluginTypeOK /\ ArmedOK /\ RpcInv
  BY InitPluginTypeOK, InitRpcInv DEF Init, ArmedOK
<1>2. QED
  BY <1>1, NextPluginTypeOK, NextArmedOK, NextRpcInv, TypeOKHolds, PTL DEF Spec

LEMMA RpcInvIsTruthful == RpcInv => OutcomeIsTruthful
<1> SUFFICES ASSUME RpcInv, NEW c \in Calls
             PROVE  LET refusals == ToSet(Codes)
                        Sent(d)  == {r \in ToSet(client[d].frames) : Own(d, r)}
                    IN /\ served[c] <= 1 /\ (served[c] = 1 => \E r \in Sent(c) : r.faults = {})
                       /\ client[c].outcome = "result" => served[c] = 1
                       /\ client[c].outcome \in refusals \cup {"not sent"} => c \notin recorded /\ served[c] = 0
                       /\ client[c].outcome = "dropped" => served[c] = 0
                       /\ \A i \in DOMAIN outbox[c], r \in Sent(c) :
                            outbox[c][i].id = c /\ "token" \in r.faults
                            => outbox[c][i].code \in {"invalid_jsonrpc", "protocol_mismatch", "unauthorized"}
  BY DEF OutcomeIsTruthful
<1> DEFINE Sent == {r \in ToSet(client[c].frames) : Own(c, r)}
<1>1. CallOK(c)
  BY DEF RpcInv
<1>2. \A r : r \in Sent <=> \E j \in DOMAIN client[c].frames : r = client[c].frames[j] /\ Own(c, r)
  BY DEF ToSet
<1>3. served[c] <= 1 /\ (served[c] = 1 => \E r \in Sent : r.faults = {})
  BY <1>1, <1>2 DEF CallOK, ServedOK
<1>4. /\ client[c].outcome = "result" => served[c] = 1
      /\ client[c].outcome \in Refusals \cup {"not sent"} => c \notin recorded /\ served[c] = 0
      /\ client[c].outcome = "dropped" => served[c] = 0
  BY <1>1 DEF CallOK, OutcomeOK, Told, Conclusive
<1>5. \A i \in DOMAIN outbox[c], r \in Sent : outbox[c][i].id = c /\ "token" \in r.faults => outbox[c][i].code \in Early
  BY <1>1, <1>2 DEF CallOK, OutboxOK
<1>6. QED
  BY <1>3, <1>4, <1>5, RefusalsAre DEF Early

(* Whatever is sent on whichever connection, and wherever the daemon stops,  *)
(* "result" was done once, a refusal means nothing was done or written, and  *)
(* a wrong token is told before anything about the request.                 *)
THEOREM OutcomeIsTruthfulCorrect == Spec => []OutcomeIsTruthful
<1>1. Init => PluginTypeOK /\ RpcInv
  BY InitPluginTypeOK, InitRpcInv DEF Init
<1>2. QED
  BY <1>1, NextPluginTypeOK, NextRpcInv, RpcInvIsTruthful, PTL DEF Spec
=============================================================================
