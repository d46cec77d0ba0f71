----------------------------- MODULE DaemonRpc -----------------------------
(***************************************************************************)
(* Calls to the daemon: client.ts on one side, rpc.rs on the other.  Every  *)
(* call has a connection of its own and is made once; its name is the id of *)
(* its request.  A peer sends frames; DaemonClient sends one, but the daemon *)
(* serves whatever comes.  What a request asks for is abstracted to the      *)
(* kind of its method, what is wrong with it to a set of faults.            *)
(***************************************************************************)
EXTENDS Naturals, Sequences, FiniteSets, SequencesExt

CONSTANTS
  Calls,     \* calls and their ids
  NoId,
  BadFrame,  \* a frame that is too long or breaks off
  BadJson,   \* a frame that is no request
  Capacity   \* of the daemon's queue of batches

Methods == {"filesChanged", "analysis", "read", "shutdown", "maintenance"}
(* In the order dispatch_inner looks for them, and what it answers.         *)
Faults == <<"jsonrpc", "version", "token", "method", "params", "root">>
Codes  == <<"invalid_jsonrpc", "protocol_mismatch", "unauthorized", "unknown_method", "invalid_params",
            "project_mismatch">>
Request(id, method, faults) == [id |-> id, method |-> method, faults |-> faults]

Requests == [id : Calls \cup {NoId}, method : Methods, faults : SUBSET ToSet(Faults)]

ASSUME RpcAssumption ==
  /\ NoId \notin Calls /\ {BadFrame, BadJson} \cap Requests = {}
  /\ Capacity \in Nat

(* A peer may send anything on c but another call's id, and its own once.  *)
Own(c, frame) == frame \in Requests /\ frame.id = c
Sendable(c, frames) ==
  /\ frames \in Seq({BadFrame, BadJson} \cup {r \in Requests : r.id \in {c, NoId}})
  /\ \A i, j \in DOMAIN frames : Own(c, frames[i]) /\ Own(c, frames[j]) => i = j

VARIABLES
  up,        \* the daemon's process runs
  client,    \* client[c]: where the caller is, what it sends, what it got
  inbox,     \* inbox[c]: frames the daemon has not read
  outbox,    \* outbox[c]: responses the caller has not read
  handler,   \* handler[c]: handle_stream for c: "none", "reading", "recorded", "ended"
  queue,     \* batches in the daemon's channel, by the call that brought them
  recorded,  \* ids of requests whose correlation is in the store
  served     \* history: how often what a request asks for was done, by its id
rpcVars == <<up, client, inbox, outbox, handler, queue, recorded, served>>

Unused == [pc |-> "idle", frames |-> <<>>, outcome |-> "none"]
Frame(c) == Head(inbox[c])
Open(c)  == client[c].pc = "waiting"

RpcInit ==
  /\ up = TRUE
  /\ client = [c \in Calls |-> Unused]
  /\ inbox = [c \in Calls |-> <<>>] /\ outbox = inbox
  /\ handler = [c \in Calls |-> "none"]
  /\ queue = <<>> /\ recorded = {} /\ served = [id \in Calls \cup {NoId} |-> 0]

(***************************************************************************)
(* client.ts.                                                              *)
(***************************************************************************)
Begin(c, frames) ==
  /\ client[c] = Unused
  /\ client' = [client EXCEPT ![c] = [pc |-> "connecting", frames |-> frames, outcome |-> "none"]]
  /\ UNCHANGED <<up, inbox, outbox, handler, queue, recorded, served>>

Connect(c) ==
  /\ client[c].pc = "connecting" /\ up
  /\ client' = [client EXCEPT ![c].pc = "waiting"]
  /\ inbox' = [inbox EXCEPT ![c] = client[c].frames]
  /\ handler' = [handler EXCEPT ![c] = "reading"]
  /\ UNCHANGED <<up, outbox, queue, recorded, served>>

(* The socket is destroyed with every outcome; the daemon is not told: it    *)
(* reads, does and answers what was sent.                                   *)
Finish(c, outcome) ==
  /\ client' = [client EXCEPT ![c].pc = "done", ![c].outcome = outcome]
  /\ outbox' = [outbox EXCEPT ![c] = <<>>]
  /\ UNCHANGED <<up, inbox, handler, queue, recorded, served>>

(* Mutant of ConnectFails: no timeout for the connection.                  *)
ConnectRefused(c) == client[c].pc = "connecting" /\ ~up /\ Finish(c, "not sent")

(* Nobody listens, the connection is not made in time, or the payload is    *)
(* too large to be sent.                                                   *)
ConnectFails(c) == client[c].pc = "connecting" /\ Finish(c, "not sent")

Receive(c) == Open(c) /\ outbox[c] # <<>> /\ Head(outbox[c]).id = c /\ Finish(c, Head(outbox[c]).code)

(* Responses without an id, or with another, are passed over.              *)
PassOver(c) ==
  /\ Open(c) /\ outbox[c] # <<>> /\ Head(outbox[c]).id # c
  /\ outbox' = [outbox EXCEPT ![c] = Tail(@)]
  /\ UNCHANGED <<up, client, inbox, handler, queue, recorded, served>>

Closed(c)   == Open(c) /\ outbox[c] = <<>> /\ handler[c] = "ended" /\ Finish(c, "closed")
TimesOut(c) == Open(c) /\ Finish(c, "timeout")

(***************************************************************************)
(* handle_stream and dispatch.                                             *)
(***************************************************************************)
(* Mutant of Refusal: the token is asked for last.                         *)
RefusalTokenLast(r) ==
  IF r.faults = {} THEN "none"
  ELSE LET order == <<1, 2, 4, 5, 6, 3>>
       IN Codes[order[Min({i \in DOMAIN order : Faults[order[i]] \in r.faults})]]

Refusal(r) ==
  IF r.faults = {} THEN "none" ELSE Codes[Min({i \in DOMAIN Faults : Faults[i] \in r.faults})]

(* A request without an id gets no response.  To a caller that is gone the   *)
(* first write may still succeed; an error ends the handler.                *)
Respond(c, id, code, then) ==
  LET frame == Frame(c)
      silent == frame \notin {BadFrame, BadJson} /\ frame.id = NoId
  IN /\ inbox' = [inbox EXCEPT ![c] = Tail(@)]
     /\ IF silent THEN /\ handler' = [handler EXCEPT ![c] = then]
                       /\ UNCHANGED outbox
        ELSE IF Open(c) THEN /\ outbox' = [outbox EXCEPT ![c] = Append(@, [id |-> id, code |-> code])]
                             /\ handler' = [handler EXCEPT ![c] = then]
        ELSE /\ \E next \in {then, "ended"} : handler' = [handler EXCEPT ![c] = next]
             /\ UNCHANGED outbox

ReadFrame(c) == handler[c] = "reading" /\ inbox[c] # <<>>

ReadJunk(c) ==
  /\ ReadFrame(c)
  /\ \/ Frame(c) = BadFrame /\ Respond(c, NoId, "invalid_frame", "ended")
     \/ Frame(c) = BadJson /\ Respond(c, NoId, "invalid_json", "reading")
  /\ UNCHANGED <<up, client, queue, recorded, served>>

EndOfStream(c) ==
  /\ handler[c] = "reading" /\ inbox[c] = <<>> /\ ~Open(c)
  /\ handler' = [handler EXCEPT ![c] = "ended"]
  /\ UNCHANGED <<up, client, inbox, outbox, queue, recorded, served>>

ReadRequest(c) == ReadFrame(c) /\ Frame(c) \notin {BadFrame, BadJson}
Refuse(c) ==
  /\ ReadRequest(c) /\ Refusal(Frame(c)) # "none"
  /\ Respond(c, Frame(c).id, Refusal(Frame(c)), "reading")
  /\ UNCHANGED <<up, client, queue, recorded, served>>

Dispatched(c, method) ==
  ReadRequest(c) /\ Refusal(Frame(c)) = "none" /\ Frame(c).method = method

Served(c)    == [served EXCEPT ![Frame(c).id] = @ + 1]
Answer(c)    == Respond(c, Frame(c).id, "result", "reading")
AnswerErr(c) == Respond(c, Frame(c).id, "internal_error", "reading")

(* Mutant of FilesChanged: the channel has no bound.                       *)
FilesChangedUnbounded(c) ==
  /\ Dispatched(c, "filesChanged")
  /\ queue' = Append(queue, c) /\ recorded' = recorded \cup {Frame(c).id} /\ served' = Served(c)
  /\ Answer(c)
  /\ UNCHANGED <<up, client>>

(* enqueue_files neither waits nor fails with the queue: it says accepted   *)
(* or dropped.  It fails if the correlation cannot be recorded.             *)
FilesChanged(c) ==
  /\ Dispatched(c, "filesChanged")
  /\ \/ /\ Len(queue) < Capacity
        /\ queue' = Append(queue, c) /\ recorded' = recorded \cup {Frame(c).id} /\ served' = Served(c)
        /\ Answer(c)
     \/ /\ Len(queue) >= Capacity
        /\ recorded' = recorded \cup {Frame(c).id} /\ UNCHANGED <<queue, served>>
        /\ Respond(c, Frame(c).id, "dropped", "reading")
     \/ AnswerErr(c) /\ UNCHANGED <<queue, recorded, served>>
  /\ UNCHANGED <<up, client>>

(* check, driftMap, conflicts, impactCone, changeRisk, apiSurface,          *)
(* layerBoundaries: first the correlation; an error of that step is         *)
(* answered without the request's id.                                      *)
RecordCorrelation(c) ==
  /\ Dispatched(c, "analysis")
  /\ \/ /\ recorded' = recorded \cup {Frame(c).id} /\ handler' = [handler EXCEPT ![c] = "recorded"]
        /\ UNCHANGED <<inbox, outbox>>
     \/ Respond(c, NoId, "internal_error", "reading") /\ UNCHANGED recorded
  /\ UNCHANGED <<up, client, queue, served>>

Analyze(c) ==
  /\ handler[c] = "recorded"
  /\ \/ Answer(c) /\ served' = Served(c)
     \/ AnswerErr(c) /\ UNCHANGED served
  /\ UNCHANGED <<up, client, queue, recorded>>

(* health, status, lockfile.                                               *)
ReadOnly(c) ==
  /\ Dispatched(c, "read")
  /\ \/ Answer(c) /\ served' = Served(c)
     \/ AnswerErr(c) /\ UNCHANGED served
  /\ UNCHANGED <<up, client, queue, recorded>>

(* notify_waiters: main stops serving; Exit may come before the answer.    *)
Shutdown(c) ==
  /\ Dispatched(c, "shutdown")
  /\ served' = Served(c) /\ Answer(c)
  /\ UNCHANGED <<up, client, queue, recorded>>

(* maintain and rebuild fail half-way as well: an error says nothing of      *)
(* what has been done.                                                     *)
Maintain(c) ==
  /\ Dispatched(c, "maintenance")
  /\ \/ Answer(c) /\ served' = Served(c)
     \/ AnswerErr(c) /\ (served' = Served(c) \/ UNCHANGED served)
  /\ UNCHANGED <<up, client, queue, recorded>>

(***************************************************************************)
(* The daemon's process and its worker.                                    *)
(***************************************************************************)
IndexBatch ==
  /\ up /\ queue # <<>> /\ queue' = Tail(queue)
  /\ UNCHANGED <<up, client, inbox, outbox, handler, recorded, served>>

(* It stops after a shutdown, or dies: with it go the queue and all that     *)
(* was not read.                                                           *)
Exit ==
  /\ up /\ up' = FALSE /\ queue' = <<>>
  /\ inbox' = [c \in Calls |-> <<>>]
  /\ handler' = [c \in Calls |-> IF handler[c] = "none" THEN "none" ELSE "ended"]
  /\ UNCHANGED <<client, outbox, recorded, served>>

Start ==
  /\ ~up /\ up' = TRUE
  /\ UNCHANGED <<client, inbox, outbox, handler, queue, recorded, served>>

Call(c)   == Connect(c) \/ ConnectFails(c) \/ Receive(c) \/ PassOver(c) \/ Closed(c) \/ TimesOut(c)
Handle(c) == \/ ReadJunk(c) \/ EndOfStream(c) \/ Refuse(c)
             \/ FilesChanged(c) \/ RecordCorrelation(c) \/ Analyze(c)
             \/ ReadOnly(c) \/ Shutdown(c) \/ Maintain(c)
RpcNext == (\E c \in Calls : Call(c) \/ Handle(c)) \/ IndexBatch \/ Exit \/ Start
(* The timers of the client run.                                           *)
RpcFairness == \A c \in Calls : WF_rpcVars(ConnectFails(c)) /\ WF_rpcVars(TimesOut(c))
============================================================================
