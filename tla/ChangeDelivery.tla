--------------------------- MODULE ChangeDelivery ---------------------------
(***************************************************************************)
(* How edits get from the plugin's hooks to the daemon's queue (index.ts):   *)
(* a bucket per session, a timer that every change sets anew, a flush that   *)
(* empties the bucket before it asks for a client, and one call of DaemonRpc *)
(* without a retry.  Other calls, of tools and other peers, go on beside it. *)
(***************************************************************************)
EXTENDS DaemonRpc, FiniteSetsExt

CONSTANTS
  Sessions,   \* session ids of hooks, "event" and "watcher" among them
  Files,
  Flushes,    \* the calls flushes make; the others are made by tools and peers
  Inputs,     \* Inputs[c]: the sequences of frames another call may send
  Mistakes,   \* what may be wrong with the plugin's own requests: sets of faults
  MaxChanges  \* bound on the number of changes

ASSUME FlushesAssumption == Flushes \subseteq Calls /\ DOMAIN Inputs = Calls \ Flushes
ASSUME InputsAssumption ==
  /\ \A c \in Calls \ Flushes : \A frames \in Inputs[c] : Sendable(c, frames)
  /\ Mistakes \subseteq SUBSET ToSet(Faults)

VARIABLES
  pending,  \* pendingFiles
  armed,    \* pendingTimer: sessions whose timer runs
  flush,    \* flush[c]: the flush that makes call c: its session, files and turn
  turn,     \* turnCounter
  changes,  \* history: number of changes
  since     \* since[s][f]: the flushes there were when s last changed f
pluginVars == <<pending, armed, flush, turn, changes, since>>
vars == <<rpcVars, pluginVars>>

NoFlush == [pc |-> "none", session |-> "none", files |-> {}, turn |-> 0]
Begun   == {c \in Flushes : flush[c] # NoFlush}

Init ==
  /\ RpcInit
  /\ pending = [s \in Sessions |-> {}]
  /\ armed = {} /\ changes = 0
  /\ flush = [c \in Flushes |-> NoFlush]
  /\ turn = [s \in Sessions |-> 0]
  /\ since = [s \in Sessions |-> [f \in Files |-> Flushes]]

(* Sets the timer anew, so that a flush waits until changes pause.          *)
QueueChangedFiles(s, f) ==
  /\ changes < MaxChanges /\ changes' = changes + 1
  /\ pending' = [pending EXCEPT ![s] = @ \cup {f}]
  /\ armed' = armed \cup {s}
  /\ since' = [since EXCEPT ![s][f] = Begun]
  /\ UNCHANGED <<rpcVars, flush, turn>>

(* The timer fires: the bucket is taken, then the flush waits for a client. *)
FlushChangedFiles(s) ==
  /\ s \in armed /\ armed' = armed \ {s}
  /\ \E c \in Flushes \ Begun :
       flush' = [flush EXCEPT ![c] = [pc |-> "ensuring", session |-> s, files |-> pending[s], turn |-> 0]]
  /\ pending' = [pending EXCEPT ![s] = {}]
  /\ UNCHANGED <<rpcVars, turn, changes, since>>

(* ensureReady throws: the files are lost.                                 *)
NotReady(c) ==
  /\ flush[c].pc = "ensuring" /\ flush' = [flush EXCEPT ![c].pc = "failed"]
  /\ UNCHANGED <<rpcVars, pending, armed, turn, changes, since>>

(* Mutant of SendFlush: the bucket is emptied when the files are sent.      *)
SendFlushAndEmpty(c) ==
  /\ flush[c].pc = "ensuring"
  /\ turn' = [turn EXCEPT ![flush[c].session] = @ + 1]
  /\ flush' = [flush EXCEPT ![c].pc = "sent", ![c].turn = turn'[flush[c].session]]
  /\ \E faults \in Mistakes : Begin(c, <<Request(c, "filesChanged", faults)>>)
  /\ pending' = [pending EXCEPT ![flush[c].session] = {}]
  /\ UNCHANGED <<armed, changes, since>>

SendFlush(c) ==
  /\ flush[c].pc = "ensuring"
  /\ turn' = [turn EXCEPT ![flush[c].session] = @ + 1]
  /\ flush' = [flush EXCEPT ![c].pc = "sent", ![c].turn = turn'[flush[c].session]]
  /\ \E faults \in Mistakes : Begin(c, <<Request(c, "filesChanged", faults)>>)
  /\ UNCHANGED <<pending, armed, changes, since>>

OtherCall(c) == (\E frames \in Inputs[c] : Begin(c, frames)) /\ UNCHANGED pluginVars

Flush(c) == NotReady(c) \/ SendFlush(c)
Next ==
  \/ \E s \in Sessions : FlushChangedFiles(s) \/ \E f \in Files : QueueChangedFiles(s, f)
  \/ \E c \in Flushes : Flush(c)
  \/ \E c \in Calls \ Flushes : OtherCall(c)
  \/ RpcNext /\ UNCHANGED pluginVars
Spec == Init /\ [][Next]_vars

(* Timers fire, and awaited promises settle: the supervisor's as            *)
(* DaemonLifecycle shows, a call's by its timeouts.                         *)
FairSpec ==
  /\ Spec
  /\ \A s \in Sessions : WF_vars(FlushChangedFiles(s))
  /\ \A c \in Flushes : WF_vars(Flush(c))
  /\ \A c \in Calls : WF_vars(ConnectFails(c) /\ UNCHANGED pluginVars) /\ WF_vars(TimesOut(c) /\ UNCHANGED pluginVars)

(***************************************************************************)
(* Properties.                                                             *)
(***************************************************************************)
TypeOK ==
  /\ up \in BOOLEAN
  /\ \A c \in Calls : /\ client[c].pc \in {"idle", "connecting", "waiting", "done"}
                      /\ handler[c] \in {"none", "reading", "recorded", "ended"}
  /\ Len(queue) <= Capacity /\ ToSet(queue) \subseteq Calls
  /\ pending \in [Sessions -> SUBSET Files] /\ armed \subseteq Sessions
  /\ \A c \in Flushes : flush[c].pc \in {"none", "ensuring", "sent", "failed"}

(* What a caller is told is true: "result" was done, once, by the time the   *)
(* answer came; a refusal, and "not sent", means nothing was done, not even  *)
(* a correlation written; and who has the wrong token is told that before    *)
(* anything about its request.  Of timeouts, closed sockets and internal     *)
(* errors nothing follows.                                                  *)
OutcomeIsTruthful ==
  LET refusals == ToSet(Codes)
      Sent(c)  == {r \in ToSet(client[c].frames) : Own(c, r)}
  IN \A c \in Calls :
       /\ served[c] <= 1 /\ (served[c] = 1 => \E r \in Sent(c) : r.faults = {})
       /\ client[c].outcome = "result" => served[c] = 1
       /\ client[c].outcome \in refusals \cup {"not sent"} => c \notin recorded /\ served[c] = 0
       /\ client[c].outcome = "dropped" => served[c] = 0
       /\ \A i \in DOMAIN outbox[c], r \in Sent(c) :
            outbox[c][i].id = c /\ "token" \in r.faults
            => outbox[c][i].code \in {"invalid_jsonrpc", "protocol_mismatch", "unauthorized"}

(* Whatever is under way when a file changes, the change waits under a       *)
(* running timer or a flush begun since carries the file.                    *)
ChangesAreAnnounced ==
  \A s \in Sessions, f \in Files : since[s][f] # Flushes =>
    \/ f \in pending[s] /\ s \in armed
    \/ \E c \in Begun \ since[s][f] : flush[c].session = s /\ f \in flush[c].files

(* Once changes pause, every bucket is emptied and every call ends, whether  *)
(* the daemon answers, stops, restarts or says nothing.                      *)
EverythingSettles ==
  <>[](/\ \A s \in Sessions : pending[s] = {}
       /\ \A c \in Calls : client[c].pc \in {"idle", "done"})
=============================================================================
