-------------------------- MODULE DaemonLifecycle --------------------------
(***************************************************************************)
(* How DaemonSupervisor (plugin, supervisor.ts) starts, finds and stops the *)
(* daemon of a state directory, and what the daemon (main.rs, serve_unix)   *)
(* does at both ends of its life.  They meet in four files: the pid file,   *)
(* the socket, the start lock and the token file.  Each supervisor is a     *)
(* process of its own; every await and every system call is an action.      *)
(*                                                                         *)
(* A token is named by the supervisor that made it up; processes are named  *)
(* in the order in which they come.  Locals are forgotten at their last use. *)
(* Two history variables, which no guard reads, say what the properties     *)
(* except: calm and crowded.                                               *)
(***************************************************************************)
EXTENDS Naturals, FiniteSets

CONSTANTS
  Supervisors,  \* plugin and CLI processes
  Daemons,      \* the daemon processes that can be spawned (a bound)
  NoFile,       \* the file does not exist
  Slow,         \* the daemons that may be too slow for a timeout
  Deaths,       \* whether daemons may die by themselves
  Failures,     \* what may fail: "serve" (its system calls), "pid file" (writing it)
  Exits         \* whether supervisor processes may exit in the middle of a call

ASSUME NoFileAssumption == NoFile \notin Supervisors \cup Daemons
ASSUME SwitchAssumption ==
  /\ Slow \subseteq Daemons
  /\ {Deaths, Exits} \subseteq BOOLEAN
  /\ Failures \subseteq {"serve", "pid file"}

VARIABLES
  pidFile,    \* run/codemem.pid: a daemon
  socket,     \* the endpoint: the daemon whose listener the path leads to
  lock,       \* run/codemem.start.lock: a supervisor
  tokenFile,  \* run/codemem.token
  pc,         \* pc[s]: where supervisor s is
  token,      \* token[s]: its token
  pid,        \* pid[s]: the pid its stop() read, until that has exited
  child,      \* child[s]: the daemon it spawned
  call,       \* call[s]: what it was last called for: start, stop or cleanup
  dpc,        \* dpc[d]: where daemon d is
  dtoken,     \* dtoken[d]: the token it was given
  calm,       \* nothing has come in the way of a call yet, see Begins
  crowded     \* two supervisors have been about to remove the same stale lock

files   == <<pidFile, socket, lock, tokenFile>>
locals  == <<token, pid, child, call>>
daemons == <<dpc, dtoken>>
history == <<calm, crowded>>
vars    == <<files, pc, locals, daemons, history>>

Init ==
  /\ pidFile = NoFile /\ socket = NoFile /\ lock = NoFile /\ tokenFile = NoFile
  /\ pc = [s \in Supervisors |-> "out"]
  /\ token = [s \in Supervisors |-> NoFile]
  /\ pid = [s \in Supervisors |-> NoFile] /\ child = [s \in Supervisors |-> NoFile]
  /\ call = [s \in Supervisors |-> "start"]
  /\ dpc = [d \in Daemons |-> "unborn"] /\ dtoken = [d \in Daemons |-> NoFile]
  /\ calm = TRUE /\ crowded = FALSE

SAt(s, where) == pc[s] = where
DAt(d, where) == dpc[d] = where
Gone(s)       == SAt(s, "gone")
Busy(s)       == pc[s] \notin {"out", "idle", "gone"}
Alive(d)      == d \in Daemons /\ dpc[d] \notin {"unborn", "dead"}
CleansUp(d)   == dpc[d] \in {"removePid", "removeSocket"}

SGoto(s, where) == pc' = [pc EXCEPT ![s] = where]
DGoto(d, where) ==
  /\ dpc' = [dpc EXCEPT ![d] = where]
  /\ dtoken' = IF where = "dead" THEN [dtoken EXCEPT ![d] = NoFile] ELSE dtoken

(* health(): somebody listens at the endpoint and accepts the token.       *)
Serves(s) ==
  /\ socket \in Daemons
  /\ DAt(socket, "listening")
  /\ dtoken[socket] = token[s]

HealthFails(s) == ~Serves(s) \/ socket \in Slow

(* History.  A call of s begins: calm ends when another's call is under    *)
(* way, or when there is a daemon that may not answer s by its own doing:  *)
(* it is slow, it ends, or it was started with another token.              *)
Begins(s) ==
  calm' = (/\ calm
           /\ \A t \in Supervisors \ {s} : ~Busy(t)
           /\ \A d \in Daemons : Alive(d) => d \notin Slow /\ ~CleansUp(d) /\ dtoken[d] = token[s])

---------------------------------------------------------------------------
(* new DaemonSupervisor and ensureDaemon.                                  *)

Construct(s) ==
  /\ SAt(s, "out") /\ s = CHOOSE t \in Supervisors : SAt(t, "out")
  /\ SGoto(s, "idle")
  /\ token' = [token EXCEPT ![s] = IF tokenFile = NoFile THEN s ELSE tokenFile]
  /\ UNCHANGED <<history, files, pid, child, call, daemons>>

(* With a healthy daemon ensureDaemon returns and nothing changes.         *)
EnsureStart(s) ==
  /\ SAt(s, "idle")
  /\ HealthFails(s)
  /\ SGoto(s, "writeToken")
  /\ call' = [call EXCEPT ![s] = "start"]
  /\ Begins(s)
  /\ UNCHANGED <<crowded, files, token, pid, child, daemons>>

WriteToken(s) ==
  /\ SAt(s, "writeToken")
  /\ tokenFile' = token[s]
  /\ SGoto(s, "cleanup")
  /\ UNCHANGED <<history, pidFile, socket, lock, locals, daemons>>

(* cleanupStaleEndpoint, which start, stop and cleanupStale call.          *)
AfterCleanup(s) == [start |-> "readLock", stop |-> "verdict", cleanup |-> "idle"][call[s]]

CleanupStale(s) ==
  /\ SAt(s, "idle")
  /\ SGoto(s, "cleanup")
  /\ call' = [call EXCEPT ![s] = "cleanup"]
  /\ Begins(s)
  /\ UNCHANGED <<crowded, files, token, pid, child, daemons>>

CleanupRead(s) ==
  /\ SAt(s, "cleanup")
  /\ SGoto(s, IF Alive(pidFile) THEN AfterCleanup(s) ELSE "removeSocket")
  /\ UNCHANGED <<history, files, locals, daemons>>

RemoveSocket(s) ==
  /\ SAt(s, "removeSocket")
  /\ socket' = NoFile
  /\ SGoto(s, "removePid")
  /\ UNCHANGED <<history, pidFile, lock, tokenFile, locals, daemons>>

RemovePid(s) ==
  /\ SAt(s, "removePid")
  /\ pidFile' = NoFile
  /\ SGoto(s, AfterCleanup(s))
  /\ UNCHANGED <<history, socket, lock, tokenFile, locals, daemons>>

(* The lock names a process that is gone.                                  *)
LockIsStale == lock # NoFile /\ Gone(lock)

(* Mutant of ReadLock: no lock is taken for stale.                         *)
ReadLockNoneStale(s) ==
  /\ SAt(s, "readLock")
  /\ SGoto(s, "takeLock")
  /\ UNCHANGED <<history, files, locals, daemons>>

(* acquireStartLock: remove the lock of a process that is gone, then       *)
(* create the file if it does not exist.                                   *)
ReadLock(s) ==
  /\ SAt(s, "readLock")
  /\ SGoto(s, IF LockIsStale THEN "breakLock" ELSE "takeLock")
  /\ crowded' = (crowded \/ (LockIsStale /\ \E t \in Supervisors : SAt(t, "breakLock")))
  /\ UNCHANGED <<calm, files, locals, daemons>>

BreakLock(s) ==
  /\ SAt(s, "breakLock")
  /\ lock' = NoFile
  /\ SGoto(s, "takeLock")
  /\ UNCHANGED <<history, pidFile, socket, tokenFile, locals, daemons>>

(* Mutant of TakeLock: the file is opened without O_EXCL.                  *)
TakeLockAnyway(s) ==
  /\ SAt(s, "takeLock")
  /\ lock' = s
  /\ SGoto(s, "spawn")
  /\ UNCHANGED <<history, pidFile, socket, tokenFile, locals, daemons>>

TakeLock(s) ==
  /\ SAt(s, "takeLock")
  /\ lock = NoFile
  /\ lock' = s
  /\ SGoto(s, "spawn")
  /\ UNCHANGED <<history, pidFile, socket, tokenFile, locals, daemons>>

LockTaken(s) ==
  /\ SAt(s, "takeLock")
  /\ lock # NoFile
  /\ SGoto(s, "await")
  /\ UNCHANGED <<history, files, locals, daemons>>

(* Another process holds the lock: wait for its daemon or give up.         *)
AwaitOther(s) ==
  /\ SAt(s, "await")
  /\ SGoto(s, "idle")
  /\ UNCHANGED <<history, files, locals, daemons>>

Spawn(s) ==
  /\ SAt(s, "spawn")
  /\ \E d \in Daemons :
       /\ DAt(d, "unborn") /\ d = CHOOSE e \in Daemons : DAt(e, "unborn")
       /\ dpc' = [dpc EXCEPT ![d] = "booting"]
       /\ dtoken' = [dtoken EXCEPT ![d] = token[s]]
       /\ child' = [child EXCEPT ![s] = d]
  /\ SGoto(s, "writePid")
  /\ UNCHANGED <<history, files, token, pid, call>>

(* Mutant of SpawnFails: an early return without the finally.              *)
SpawnFailsWithLock(s) ==
  /\ SAt(s, "spawn")
  /\ SGoto(s, "idle")
  /\ UNCHANGED <<history, files, locals, daemons>>

SpawnFails(s) ==
  /\ SAt(s, "spawn")
  /\ SGoto(s, "release")
  /\ UNCHANGED <<history, files, locals, daemons>>

(* Mutants of WritePid: the supervisor's own pid is written, or nothing.   *)
WriteOwnPid(s) ==
  /\ SAt(s, "writePid")
  /\ pidFile' = s
  /\ SGoto(s, "await ready")
  /\ UNCHANGED <<history, socket, lock, tokenFile, locals, daemons>>

WriteNoPid(s) ==
  /\ SAt(s, "writePid")
  /\ SGoto(s, "await ready")
  /\ UNCHANGED <<history, files, locals, daemons>>

WritePid(s) ==
  /\ SAt(s, "writePid")
  /\ pidFile' = child[s]
  /\ SGoto(s, "await ready")
  /\ UNCHANGED <<history, socket, lock, tokenFile, locals, daemons>>

(* The daemon runs, but no file names it, and the call gives up.           *)
WritePidFails(s) ==
  /\ "pid file" \in Failures
  /\ SAt(s, "writePid")
  /\ SGoto(s, "release")
  /\ calm' = FALSE
  /\ UNCHANGED <<crowded, files, locals, daemons>>

Ready(s) ==
  /\ SAt(s, "await ready")
  /\ Serves(s)
  /\ SGoto(s, "release")
  /\ UNCHANGED <<history, files, locals, daemons>>

(* Mutant of NotReady: the call does not wait for the daemon.              *)
NotReadyAtOnce(s) ==
  /\ SAt(s, "await ready")
  /\ SGoto(s, "release")
  /\ UNCHANGED <<history, files, locals, daemons>>

(* spawnTimeoutMs passed.  A daemon that is not slow has started to listen *)
(* by then, or never will.                                                 *)
NotReady(s) ==
  /\ SAt(s, "await ready")
  /\ \/ child[s] \in Slow
     \/ ~Serves(s) /\ dpc[child[s]] \notin {"booting", "binding", "bound"}
  /\ SGoto(s, "release")
  /\ UNCHANGED <<history, files, locals, daemons>>

Release(s) ==
  /\ SAt(s, "release")
  /\ lock' = NoFile
  /\ SGoto(s, "idle")
  /\ child' = [child EXCEPT ![s] = NoFile]
  /\ UNCHANGED <<history, pidFile, socket, tokenFile, token, pid, call, daemons>>

---------------------------------------------------------------------------
(* stop.                                                                   *)

StopRead(s) ==
  /\ SAt(s, "idle")
  /\ SGoto(s, "shutdown")
  /\ pid' = [pid EXCEPT ![s] = pidFile]
  /\ call' = [call EXCEPT ![s] = "stop"]
  /\ Begins(s)
  /\ UNCHANGED <<crowded, files, token, child, daemons>>

Shutdown(s) ==
  /\ SAt(s, "shutdown")
  /\ \/ Serves(s) /\ DGoto(socket, "removePid")
     \/ HealthFails(s) /\ UNCHANGED daemons
  /\ SGoto(s, "await exit")
  /\ UNCHANGED <<history, files, locals>>

(* The pid that was read is gone, or there was none.                       *)
Exited(s) ==
  /\ SAt(s, "await exit")
  /\ ~Alive(pid[s])
  /\ pid' = [pid EXCEPT ![s] = NoFile]
  /\ SGoto(s, "cleanup")
  /\ UNCHANGED <<history, files, token, child, call, daemons>>

(* It is still there after a second: SIGTERM, which the daemon does not    *)
(* handle.                                                                 *)
Terminate(s) ==
  /\ SAt(s, "await exit")
  /\ Alive(pid[s])
  /\ DGoto(pid[s], "dead")
  /\ pid' = [pid EXCEPT ![s] = NoFile]
  /\ SGoto(s, "cleanup")
  /\ UNCHANGED <<history, files, token, child, call>>

(* The signal cannot be sent, or has no effect within another second.      *)
TerminateFails(s) ==
  /\ SAt(s, "await exit")
  /\ Alive(pid[s])
  /\ SGoto(s, "cleanup")
  /\ UNCHANGED <<history, files, locals, daemons>>

(* Mutant of Verdict: a failed SIGTERM only makes a warning.               *)
VerdictUnchecked(s) ==
  /\ SAt(s, "verdict")
  /\ SGoto(s, "stopped")
  /\ UNCHANGED <<history, files, locals, daemons>>

(* After cleanupStaleEndpoint: stopped is whether the pid has exited by    *)
(* now; otherwise the call returns its warning.                            *)
Verdict(s) ==
  /\ SAt(s, "verdict")
  /\ SGoto(s, IF Alive(pid[s]) THEN "idle" ELSE "stopped")
  /\ pid' = [pid EXCEPT ![s] = NoFile]
  /\ UNCHANGED <<history, files, token, child, call, daemons>>

(* stop() returns stopped.                                                 *)
Stopped(s) ==
  /\ SAt(s, "stopped")
  /\ SGoto(s, "idle")
  /\ UNCHANGED <<history, files, locals, daemons>>

(* The process ends; the files it wrote stay, and the daemon whose start   *)
(* it was waiting for goes on.                                             *)
Exit(s) ==
  /\ Exits
  /\ ~Gone(s) /\ ~SAt(s, "out")
  /\ SGoto(s, "gone")
  /\ token' = [token EXCEPT ![s] = NoFile]
  /\ pid' = [pid EXCEPT ![s] = NoFile]
  /\ child' = [child EXCEPT ![s] = NoFile]
  /\ call' = [call EXCEPT ![s] = "start"]
  /\ calm' = (calm /\ pc[s] \notin {"writePid", "await ready"})
  /\ UNCHANGED <<crowded, files, daemons>>

---------------------------------------------------------------------------
(* The daemon.                                                             *)

(* Its configuration or its store cannot be opened: main returns early.    *)
BootFails(d) ==
  /\ DAt(d, "booting")
  /\ DGoto(d, "dead")
  /\ UNCHANGED <<history, files, pc, locals>>

(* serve_unix removes whatever is at the endpoint, binds and sets the      *)
(* permissions of the socket before it accepts.                            *)
Unlink(d) ==
  /\ DAt(d, "booting")
  /\ socket' = NoFile
  /\ DGoto(d, "binding")
  /\ UNCHANGED <<history, pidFile, lock, tokenFile, pc, locals>>

Bind(d) ==
  /\ DAt(d, "binding")
  /\ socket = NoFile
  /\ socket' = d
  /\ DGoto(d, "bound")
  /\ UNCHANGED <<history, pidFile, lock, tokenFile, pc, locals>>

(* Another has put its socket there since.                                 *)
BindFails(d) ==
  /\ DAt(d, "binding")
  /\ socket # NoFile
  /\ DGoto(d, "removePid")
  /\ UNCHANGED <<history, files, pc, locals>>

Listen(d) ==
  /\ DAt(d, "bound")
  /\ DGoto(d, "listening")
  /\ UNCHANGED <<history, files, pc, locals>>

(* Any other error ends serve as well: the directory of the endpoint       *)
(* cannot be made, bind or set_permissions fails, or accept fails in a     *)
(* daemon that has long been listening.                                    *)
ServeFails(d) ==
  /\ "serve" \in Failures
  /\ dpc[d] \in {"booting", "binding", "bound", "listening"}
  /\ DGoto(d, "removePid")
  /\ UNCHANGED <<history, files, pc, locals>>

(* cleanup, after a shutdown request or an error of serve.                 *)
DaemonRemovesPid(d) ==
  /\ DAt(d, "removePid")
  /\ pidFile' = NoFile
  /\ DGoto(d, "removeSocket")
  /\ UNCHANGED <<history, socket, lock, tokenFile, pc, locals>>

DaemonRemovesSocket(d) ==
  /\ DAt(d, "removeSocket")
  /\ socket' = NoFile
  /\ DGoto(d, "dead")
  /\ UNCHANGED <<history, pidFile, lock, tokenFile, pc, locals>>

Die(d) ==
  /\ Deaths
  /\ Alive(d)
  /\ DGoto(d, "dead")
  /\ UNCHANGED <<history, files, pc, locals>>

---------------------------------------------------------------------------
(* A call of ensureDaemon, stop or cleanupStale that is under way.         *)
InCall(s) ==
  \/ WriteToken(s) \/ CleanupRead(s) \/ RemoveSocket(s) \/ RemovePid(s)
  \/ ReadLock(s) \/ BreakLock(s) \/ TakeLock(s) \/ LockTaken(s) \/ AwaitOther(s)
  \/ Spawn(s) \/ SpawnFails(s) \/ WritePid(s) \/ WritePidFails(s)
  \/ Ready(s) \/ NotReady(s) \/ Release(s)
  \/ Shutdown(s) \/ Exited(s) \/ Terminate(s) \/ TerminateFails(s) \/ Verdict(s) \/ Stopped(s)

DaemonStep(d) ==
  \/ Unlink(d) \/ Bind(d) \/ BindFails(d) \/ Listen(d)
  \/ DaemonRemovesPid(d) \/ DaemonRemovesSocket(d)

Next ==
  \/ \E s \in Supervisors :
       \/ Construct(s)
       \/ EnsureStart(s) \/ StopRead(s) \/ CleanupStale(s)
       \/ InCall(s)
       \/ Exit(s)
  \/ \E d \in Daemons : DaemonStep(d) \/ BootFails(d) \/ ServeFails(d) \/ Die(d)

Spec == Init /\ [][Next]_vars

(* Calls and daemons that have begun go on; nobody has to make a call.     *)
Fairness ==
  /\ \A s \in Supervisors : WF_vars(InCall(s))
  /\ \A d \in Daemons : WF_vars(DaemonStep(d))

FairSpec == Spec /\ Fairness

---------------------------------------------------------------------------
SupervisorPcs ==
  {"out", "idle", "writeToken", "cleanup", "removeSocket", "removePid", "readLock",
   "breakLock", "takeLock", "await", "spawn", "writePid", "await ready", "release",
   "shutdown", "await exit", "verdict", "stopped", "gone"}
DaemonPcs ==
  {"unborn", "booting", "binding", "bound", "listening", "removePid", "removeSocket", "dead"}

(* Every variable has its type: the pid file and the endpoint lead to      *)
(* daemons, the lock and the token to supervisors.                         *)
TypeOK ==
  /\ {pidFile, socket} \subseteq Daemons \cup {NoFile}
  /\ {lock, tokenFile} \subseteq Supervisors \cup {NoFile}
  /\ pc \in [Supervisors -> SupervisorPcs]
  /\ token \in [Supervisors -> Supervisors \cup {NoFile}]
  /\ {pid, child} \subseteq [Supervisors -> Daemons \cup {NoFile}]
  /\ call \in [Supervisors -> {"start", "stop", "cleanup"}]
  /\ dpc \in [Daemons -> DaemonPcs]
  /\ dtoken \in [Daemons -> Supervisors \cup {NoFile}]
  /\ {calm, crowded} \subseteq BOOLEAN

Starting(s) == pc[s] \in {"spawn", "writePid", "await ready", "release"}

(* The start lock is what keeps two supervisors from starting a daemon at  *)
(* the same time: whoever is between taking and releasing it holds it.     *)
(* This survives the cleanups, timeouts and failed starts of the others,   *)
(* and processes that exit with the lock.  It takes two that have read the *)
(* same stale lock to lose it: the second removes the lock of whoever came  *)
(* after the first.                                                        *)
StarterHoldsLock == ~crowded => \A s \in Supervisors : Starting(s) => lock = s

(* No call that takes the lock leaves it behind, whatever becomes of the   *)
(* daemon: again and again the lock is free, or its holder's process has   *)
(* exited.                                                                 *)
LockIsReleased == []<>(lock = NoFile \/ Gone(lock))

(* A process that exits with the lock does not keep the others out: a      *)
(* supervisor that reads its lock goes on until that lock is no longer in  *)
(* the way.                                                                *)
LockOfGoneIsBroken == \A s \in Supervisors : (SAt(s, "readLock") /\ LockIsStale) ~> (Gone(s) \/ ~LockIsStale)

(* "One daemon per project root / state dir."                              *)
OneDaemon == \A c, d \in Daemons : Alive(c) /\ Alive(d) => c = d

(* One supervisor at a time keeps to it, whatever dies, fails to boot, is   *)
(* stopped or cannot be stopped: a second daemon needs two calls at once,   *)
(* a call that begins while a daemon is slow or at its end or knows        *)
(* another token, or a start that was left before its daemon was ready.     *)
OneDaemonWhileCalm == calm => OneDaemon

(* Until then a daemon that listens can be found and stopped: the endpoint *)
(* leads to it and the pid file names it, unless its supervisor is about   *)
(* to write that file.  So no cleanup, of a supervisor or of a daemon      *)
(* whose serve has failed, removes the files of a daemon that came after.  *)
ListenerIsFound ==
  calm => \A d \in Daemons : DAt(d, "listening") =>
    /\ socket = d
    /\ pidFile = d \/ \E s \in Supervisors : SAt(s, "writePid") /\ child[s] = d

(* And when stop() says that the daemon is stopped, none is alive: not one  *)
(* that outlived its SIGTERM, and not one whose pid file was gone when     *)
(* stop() read it.                                                         *)
StopStops ==
  calm => \A s \in Supervisors : SAt(s, "stopped") => \A d \in Daemons : ~Alive(d)

===========================================================================
