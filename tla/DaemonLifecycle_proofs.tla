----------------------- MODULE DaemonLifecycle_proofs -----------------------
(***************************************************************************)
(* Proofs about DaemonLifecycle for any number of supervisors and daemons,  *)
(* whatever is slow, dies, fails or exits: types, that the start lock       *)
(* excludes until two breakers meet, and what holds of the daemons while    *)
(* calm.                                                                   *)
(***************************************************************************)
EXTENDS DaemonLifecycle, TLAPS

LEMMA InitTypeOK == Init => TypeOK
<1> SUFFICES ASSUME Init PROVE TypeOK
  OBVIOUS
<1>1. {calm, crowded} \subseteq BOOLEAN
  BY Zenon DEF Init
<1>2. QED
  BY <1>1 DEF Init, TypeOK, SupervisorPcs, DaemonPcs

LEMMA AfterCleanupPc ==
  ASSUME TypeOK, NEW s \in Supervisors
  PROVE  AfterCleanup(s) \in {"verdict", "readLock", "idle"}
<1>1. call[s] \in {"start", "stop", "cleanup"}
  BY DEF TypeOK
<1>2. QED
  BY <1>1 DEF AfterCleanup

LEMMA NextTypeOK == TypeOK /\ [Next]_vars => TypeOK'
<1> SUFFICES ASSUME TypeOK, [Next]_vars PROVE TypeOK'
  OBVIOUS
<1> USE DEF TypeOK, SupervisorPcs, DaemonPcs, files, locals, daemons, history
<1>1. ASSUME NEW s \in Supervisors, Construct(s) PROVE TypeOK'
  BY <1>1 DEF Construct, SGoto
<1>2. ASSUME NEW s \in Supervisors, EnsureStart(s) PROVE TypeOK'
  BY <1>2 DEF EnsureStart, SGoto, Begins
<1>3. ASSUME NEW s \in Supervisors, StopRead(s) PROVE TypeOK'
  BY <1>3 DEF StopRead, SGoto, Begins
<1>4. ASSUME NEW s \in Supervisors, CleanupStale(s) PROVE TypeOK'
  BY <1>4 DEF CleanupStale, SGoto, Begins
<1>5. ASSUME NEW s \in Supervisors, WriteToken(s) PROVE TypeOK'
  BY <1>5 DEF WriteToken, SGoto
<1>6. ASSUME NEW s \in Supervisors, CleanupRead(s) PROVE TypeOK'
  BY <1>6, AfterCleanupPc DEF CleanupRead, SGoto
<1>7. ASSUME NEW s \in Supervisors, RemoveSocket(s) PROVE TypeOK'
  BY <1>7 DEF RemoveSocket, SGoto
<1>8. ASSUME NEW s \in Supervisors, RemovePid(s) PROVE TypeOK'
  BY <1>8, AfterCleanupPc DEF RemovePid, SGoto
<1>9. ASSUME NEW s \in Supervisors, ReadLock(s) PROVE TypeOK'
  BY <1>9 DEF ReadLock, SGoto
<1>10. ASSUME NEW s \in Supervisors, BreakLock(s) PROVE TypeOK'
  BY <1>10 DEF BreakLock, SGoto
<1>11. ASSUME NEW s \in Supervisors, TakeLock(s) PROVE TypeOK'
  BY <1>11 DEF TakeLock, SGoto
<1>12. ASSUME NEW s \in Supervisors, LockTaken(s) PROVE TypeOK'
  BY <1>12 DEF LockTaken, SGoto
<1>13. ASSUME NEW s \in Supervisors, AwaitOther(s) PROVE TypeOK'
  BY <1>13 DEF AwaitOther, SGoto
<1>14. ASSUME NEW s \in Supervisors, Spawn(s) PROVE TypeOK'
  <2>1. PICK d \in Daemons :
          /\ dpc' = [dpc EXCEPT ![d] = "booting"]
          /\ dtoken' = [dtoken EXCEPT ![d] = token[s]]
          /\ child' = [child EXCEPT ![s] = d]
    BY <1>14 DEF Spawn
  <2>2. token[s] \in Supervisors \cup {NoFile}
    OBVIOUS
  <2>3. child' \in [Supervisors -> Daemons \cup {NoFile}]
    BY <2>1
  <2>4. dpc' \in [Daemons -> DaemonPcs] /\ dtoken' \in [Daemons -> Supervisors \cup {NoFile}]
    BY <2>1, <2>2
  <2>5. pc' \in [Supervisors -> SupervisorPcs]
    BY <1>14 DEF Spawn, SGoto
  <2>6. UNCHANGED <<history, files, token, pid, call>>
    BY <1>14 DEF Spawn
  <2>7. QED
    BY <2>3, <2>4, <2>5, <2>6
<1>15. ASSUME NEW s \in Supervisors, SpawnFails(s) PROVE TypeOK'
  BY <1>15 DEF SpawnFails, SGoto
<1>16. ASSUME NEW s \in Supervisors, WritePid(s) PROVE TypeOK'
  <2>1. child \in [Supervisors -> Daemons \cup {NoFile}]
    OBVIOUS
  <2>2. child[s] \in Daemons \cup {NoFile}
    BY <2>1
  <2>3. QED
    BY <1>16, <2>2 DEF WritePid, SGoto
<1>17. ASSUME NEW s \in Supervisors, Ready(s) PROVE TypeOK'
  BY <1>17 DEF Ready, SGoto
<1>18. ASSUME NEW s \in Supervisors, NotReady(s) PROVE TypeOK'
  BY <1>18 DEF NotReady, SGoto
<1>19. ASSUME NEW s \in Supervisors, Release(s) PROVE TypeOK'
  BY <1>19 DEF Release, SGoto
<1>20. ASSUME NEW s \in Supervisors, Shutdown(s) PROVE TypeOK'
  BY <1>20 DEF Shutdown, SGoto, DGoto, Serves
<1>21. ASSUME NEW s \in Supervisors, Exited(s) PROVE TypeOK'
  BY <1>21 DEF Exited, SGoto
<1>22. ASSUME NEW s \in Supervisors, Terminate(s) PROVE TypeOK'
  BY <1>22 DEF Terminate, SGoto, DGoto
<1>23. ASSUME NEW s \in Supervisors, Stopped(s) PROVE TypeOK'
  BY <1>23 DEF Stopped, SGoto
<1>24. ASSUME NEW s \in Supervisors, Exit(s) PROVE TypeOK'
  BY <1>24 DEF Exit, SGoto
<1>25. ASSUME NEW d \in Daemons, Unlink(d) PROVE TypeOK'
  BY <1>25 DEF Unlink, DGoto
<1>26. ASSUME NEW d \in Daemons, Bind(d) PROVE TypeOK'
  BY <1>26 DEF Bind, DGoto
<1>27. ASSUME NEW d \in Daemons, BindFails(d) PROVE TypeOK'
  BY <1>27 DEF BindFails, DGoto
<1>28. ASSUME NEW d \in Daemons, DaemonRemovesPid(d) PROVE TypeOK'
  BY <1>28 DEF DaemonRemovesPid, DGoto
<1>29. ASSUME NEW d \in Daemons, DaemonRemovesSocket(d) PROVE TypeOK'
  BY <1>29 DEF DaemonRemovesSocket, DGoto
<1>30. ASSUME NEW d \in Daemons, BootFails(d) PROVE TypeOK'
  BY <1>30 DEF BootFails, DGoto
<1>31. ASSUME NEW d \in Daemons, Die(d) PROVE TypeOK'
  BY <1>31 DEF Die, DGoto
<1>32. ASSUME NEW s \in Supervisors, WritePidFails(s) PROVE TypeOK'
  BY <1>32 DEF WritePidFails, SGoto
<1>33. ASSUME NEW s \in Supervisors, TerminateFails(s) PROVE TypeOK'
  BY <1>33 DEF TerminateFails, SGoto
<1>34. ASSUME NEW s \in Supervisors, Verdict(s) PROVE TypeOK'
  BY <1>34 DEF Verdict, SGoto
<1>35. ASSUME NEW d \in Daemons, Listen(d) PROVE TypeOK'
  BY <1>35 DEF Listen, DGoto
<1>36. ASSUME NEW d \in Daemons, ServeFails(d) PROVE TypeOK'
  BY <1>36 DEF ServeFails, DGoto
<1>37. CASE UNCHANGED vars
  BY <1>37 DEF vars
<1>38. QED
  BY <1>1, <1>2, <1>3, <1>4, <1>5, <1>6, <1>7, <1>8, <1>9, <1>10, <1>11,
     <1>12, <1>13, <1>14, <1>15, <1>16, <1>17, <1>18, <1>19, <1>20,
     <1>21, <1>22, <1>23, <1>24, <1>25, <1>26, <1>27, <1>28, <1>29,
     <1>30, <1>31, <1>32, <1>33, <1>34, <1>35, <1>36, <1>37
     DEF Next, InCall, DaemonStep

(* Every variable has its type, whatever the processes do.                 *)
THEOREM TypeCorrect == Spec => []TypeOK
BY InitTypeOK, NextTypeOK, PTL DEF Spec

---------------------------------------------------------------------------
(* Until two breakers meet: whoever starts holds the lock, and whoever is   *)
(* about to break it is alone and has a stale one before it.               *)
Breaking(s) == SAt(s, "breakLock")
LockInv ==
  ~crowded =>
    /\ \A s \in Supervisors : Starting(s) => lock = s
    /\ \A s \in Supervisors : Breaking(s) => LockIsStale
    /\ \A s, t \in Supervisors : Breaking(s) /\ Breaking(t) => s = t

LEMMA InitLockInv == Init => LockInv
BY DEF Init, LockInv, Breaking, SAt, Starting

StarterPcs == {"spawn", "writePid", "await ready", "release"}

(* A step that leaves the lock alone and does not bring s among the        *)
(* starters or the breakers.                                               *)
LEMMA KeepsLock ==
  ASSUME TypeOK, LockInv, NEW s \in Supervisors, NEW v, SGoto(s, v), ~Gone(s),
         lock' = lock, crowded' = crowded, v # "breakLock", v \in StarterPcs => Starting(s)
  PROVE  LockInv'
<1>1. \A t \in Supervisors : pc'[t] = IF t = s THEN v ELSE pc[t]
  BY DEF TypeOK, SGoto
<1>2. \A t \in Supervisors : Starting(t)' => Starting(t)
  BY <1>1 DEF Starting, StarterPcs
<1>3. \A t \in Supervisors : Breaking(t)' => Breaking(t)
  BY <1>1 DEF Breaking, SAt
<1>4. LockIsStale => LockIsStale'
  BY <1>1 DEF LockIsStale, Gone, SAt, TypeOK
<1>5. QED
  BY <1>2, <1>3, <1>4 DEF LockInv

(* The same for a step that leaves pc alone.                               *)
LEMMA KeepsLockAndPc ==
  ASSUME LockInv, UNCHANGED <<lock, pc, crowded>>
  PROVE  LockInv'
BY DEF LockInv, Breaking, LockIsStale, Gone, SAt, Starting

(* Where the lock is stale or free nobody is starting.                     *)
LEMMA NobodyStarts ==
  ASSUME TypeOK, LockInv, ~crowded, lock = NoFile \/ LockIsStale
  PROVE  \A t \in Supervisors : ~Starting(t)
BY NoFileAssumption DEF LockInv, LockIsStale, Gone, SAt, Starting, TypeOK

(* A step of s leaves the lock of another starter alone: it takes the lock *)
(* only when there is none, breaks it only when it is stale, and releases   *)
(* it only when it is its own.                                             *)
LEMMA NextLockInv ==
  ASSUME TypeOK, LockInv, [Next]_vars
  PROVE  LockInv'
<1> USE DEF StarterPcs, files, history, Gone, SAt
<1>1. ASSUME NEW s \in Supervisors, Construct(s) PROVE LockInv'
  BY <1>1, KeepsLock DEF Construct
<1>2. ASSUME NEW s \in Supervisors, EnsureStart(s) PROVE LockInv'
  BY <1>2, KeepsLock DEF EnsureStart
<1>3. ASSUME NEW s \in Supervisors, StopRead(s) PROVE LockInv'
  BY <1>3, KeepsLock DEF StopRead
<1>4. ASSUME NEW s \in Supervisors, CleanupStale(s) PROVE LockInv'
  BY <1>4, KeepsLock DEF CleanupStale
<1>5. ASSUME NEW s \in Supervisors, WriteToken(s) PROVE LockInv'
  BY <1>5, KeepsLock DEF WriteToken
<1>6. ASSUME NEW s \in Supervisors, RemoveSocket(s) PROVE LockInv'
  BY <1>6, KeepsLock DEF RemoveSocket
<1>7. ASSUME NEW s \in Supervisors, LockTaken(s) PROVE LockInv'
  BY <1>7, KeepsLock DEF LockTaken
<1>8. ASSUME NEW s \in Supervisors, AwaitOther(s) PROVE LockInv'
  BY <1>8, KeepsLock DEF AwaitOther
<1>9. ASSUME NEW s \in Supervisors, Shutdown(s) PROVE LockInv'
  BY <1>9, KeepsLock DEF Shutdown
<1>10. ASSUME NEW s \in Supervisors, Exited(s) PROVE LockInv'
  BY <1>10, KeepsLock DEF Exited
<1>11. ASSUME NEW s \in Supervisors, Terminate(s) PROVE LockInv'
  BY <1>11, KeepsLock DEF Terminate
<1>12. ASSUME NEW s \in Supervisors, TerminateFails(s) PROVE LockInv'
  BY <1>12, KeepsLock DEF TerminateFails
<1>13. ASSUME NEW s \in Supervisors, Stopped(s) PROVE LockInv'
  BY <1>13, KeepsLock DEF Stopped
<1>14. ASSUME NEW s \in Supervisors, Spawn(s) PROVE LockInv'
  BY <1>14, KeepsLock DEF Spawn, Starting
<1>15. ASSUME NEW s \in Supervisors, SpawnFails(s) PROVE LockInv'
  BY <1>15, KeepsLock DEF SpawnFails, Starting
<1>16. ASSUME NEW s \in Supervisors, WritePid(s) PROVE LockInv'
  BY <1>16, KeepsLock DEF WritePid, Starting
<1>17. ASSUME NEW s \in Supervisors, WritePidFails(s) PROVE LockInv'
  BY <1>17, KeepsLock DEF WritePidFails, Starting
<1>18. ASSUME NEW s \in Supervisors, Ready(s) PROVE LockInv'
  BY <1>18, KeepsLock DEF Ready, Starting
<1>19. ASSUME NEW s \in Supervisors, NotReady(s) PROVE LockInv'
  BY <1>19, KeepsLock DEF NotReady, Starting
<1>20. ASSUME NEW s \in Supervisors, CleanupRead(s) PROVE LockInv'
  <2>1. PICK v \in {"verdict", "readLock", "idle", "removeSocket"} : SGoto(s, v)
    BY <1>20, AfterCleanupPc DEF CleanupRead
  <2>2. QED
    BY <1>20, <2>1, KeepsLock DEF CleanupRead
<1>21. ASSUME NEW s \in Supervisors, RemovePid(s) PROVE LockInv'
  <2>1. PICK v \in {"verdict", "readLock", "idle"} : SGoto(s, v)
    BY <1>21, AfterCleanupPc DEF RemovePid
  <2>2. QED
    BY <1>21, <2>1, KeepsLock DEF RemovePid
<1>22. ASSUME NEW s \in Supervisors, Verdict(s) PROVE LockInv'
  <2>1. PICK v \in {"idle", "stopped"} : SGoto(s, v)
    BY <1>22 DEF Verdict
  <2>2. QED
    BY <1>22, <2>1, KeepsLock DEF Verdict
<1>23. ASSUME NEW s \in Supervisors, Exit(s) PROVE LockInv'
  BY <1>23, KeepsLock DEF Exit
<1>24. ASSUME NEW s \in Supervisors, ReadLock(s) PROVE LockInv'
  <2>1. CASE ~LockIsStale
    <3>1. SGoto(s, "takeLock") /\ crowded' = crowded
      BY <1>24, <2>1 DEF ReadLock, TypeOK
    <3>2. QED
      BY <1>24, <3>1, KeepsLock DEF ReadLock
  <2>2. CASE LockIsStale
    <3>1. \A t \in Supervisors : pc'[t] = IF t = s THEN "breakLock" ELSE pc[t]
      BY <1>24, <2>2 DEF ReadLock, SGoto, TypeOK
    <3>2. SUFFICES ASSUME ~crowded' PROVE LockInv'
      BY DEF LockInv
    <3>3. ~crowded /\ \A t \in Supervisors : ~Breaking(t)
      BY <1>24, <2>2, <3>2 DEF ReadLock, Breaking
    <3>4. \A t \in Supervisors : ~Starting(t)'
      BY <2>2, <3>1, <3>3, NobodyStarts DEF Starting
    <3>5. \A t \in Supervisors : Breaking(t)' => t = s
      BY <3>1, <3>3 DEF Breaking
    <3>6. LockIsStale'
      BY <1>24, <2>2, <3>1 DEF ReadLock, LockIsStale, TypeOK
    <3>7. QED
      BY <3>4, <3>5, <3>6 DEF LockInv
  <2>3. QED
    BY <2>1, <2>2
<1>25. ASSUME NEW s \in Supervisors, BreakLock(s) PROVE LockInv'
  <2>1. lock' = NoFile /\ crowded' = crowded /\ \A t \in Supervisors : pc'[t] = IF t = s THEN "takeLock" ELSE pc[t]
    BY <1>25 DEF BreakLock, SGoto, TypeOK
  <2>2. SUFFICES ASSUME ~crowded PROVE LockInv'
    BY <2>1 DEF LockInv
  <2>3. LockIsStale /\ \A t \in Supervisors : Breaking(t) => t = s
    BY <1>25, <2>2 DEF BreakLock, Breaking, LockInv
  <2>4. \A t \in Supervisors : ~Starting(t)' /\ ~Breaking(t)'
    BY <2>1, <2>2, <2>3, NobodyStarts DEF Starting, Breaking
  <2>5. QED
    BY <2>4 DEF LockInv
<1>26. ASSUME NEW s \in Supervisors, TakeLock(s) PROVE LockInv'
  <2>1. lock = NoFile /\ lock' = s /\ crowded' = crowded /\ \A t \in Supervisors : pc'[t] = IF t = s THEN "spawn" ELSE pc[t]
    BY <1>26 DEF TakeLock, SGoto, TypeOK
  <2>2. SUFFICES ASSUME ~crowded PROVE LockInv'
    BY <2>1 DEF LockInv
  <2>3. \A t \in Supervisors : Starting(t)' => t = s
    BY <2>1, <2>2, NobodyStarts DEF Starting
  <2>4. \A t \in Supervisors : ~Breaking(t)'
    BY <2>1, <2>2 DEF LockInv, LockIsStale, Breaking
  <2>5. QED
    BY <2>1, <2>3, <2>4 DEF LockInv
<1>27. ASSUME NEW s \in Supervisors, Release(s) PROVE LockInv'
  <2>1. crowded' = crowded /\ \A t \in Supervisors : pc'[t] = IF t = s THEN "idle" ELSE pc[t]
    BY <1>27 DEF Release, SGoto, TypeOK
  <2>2. SUFFICES ASSUME ~crowded PROVE LockInv'
    BY <2>1 DEF LockInv
  <2>3. lock = s /\ ~LockIsStale
    BY <1>27, <2>2 DEF Release, Starting, LockInv, LockIsStale
  <2>4. \A t \in Supervisors : ~Starting(t)'
    BY <2>1, <2>2, <2>3 DEF Starting, LockInv
  <2>5. \A t \in Supervisors : ~Breaking(t)'
    BY <2>1, <2>2, <2>3 DEF Breaking, LockInv
  <2>6. QED
    BY <2>4, <2>5 DEF LockInv
<1>28. ASSUME NEW d \in Daemons, DaemonStep(d) \/ BootFails(d) \/ ServeFails(d) \/ Die(d) PROVE LockInv'
  BY <1>28, KeepsLockAndPc DEF DaemonStep, Unlink, Bind, BindFails, Listen, DaemonRemovesPid,
       DaemonRemovesSocket, BootFails, ServeFails, Die
<1>29. CASE UNCHANGED vars
  BY <1>29, KeepsLockAndPc DEF vars
<1>30. QED
  BY <1>1, <1>2, <1>3, <1>4, <1>5, <1>6, <1>7, <1>8, <1>9, <1>10, <1>11,
     <1>12, <1>13, <1>14, <1>15, <1>16, <1>17, <1>18, <1>19, <1>20, <1>21,
     <1>22, <1>23, <1>24, <1>25, <1>26, <1>27, <1>28, <1>29
     DEF Next, InCall

(* Whoever is between taking and releasing the start lock holds it, for any *)
(* number of supervisors that exit wherever they are, until two of them    *)
(* have been about to remove the same stale lock.                          *)
THEOREM StarterHoldsLockCorrect == Spec => []StarterHoldsLock
<1>1. TypeOK /\ LockInv /\ [Next]_vars => LockInv'
  BY NextLockInv
<1>2. LockInv => StarterHoldsLock
  BY DEF LockInv, StarterHoldsLock
<1>3. QED
  BY <1>1, <1>2, InitLockInv, TypeCorrect, PTL DEF Spec

---------------------------------------------------------------------------
(* While calm one call at a time is under way and there is one daemon.      *)
OneBusy == \A s, t \in Supervisors : Busy(s) /\ Busy(t) => s = t

Awaits(s, d) == pc[s] \in {"writePid", "await ready"} /\ child[s] = d

(* What the files say of a daemon, and who waits for one that is not ready. *)
Known(d) ==
  /\ dpc[d] = "binding" => socket = NoFile
  /\ dpc[d] \in {"bound", "listening"} => socket = d
  /\ dpc[d] = "removeSocket" \/ pidFile = d \/ \E s \in Supervisors : SAt(s, "writePid") /\ child[s] = d
  /\ dpc[d] \in {"booting", "binding", "bound"} => d \in Slow \/ \E s \in Supervisors : Awaits(s, d)

InStop(s) ==
  \/ pc[s] \in {"shutdown", "await exit", "verdict"}
  \/ pc[s] \in {"cleanup", "removeSocket", "removePid"} /\ call[s] = "stop"

(* Where a call may be while a daemon is alive: never between the removal   *)
(* of files and the spawn of a start, and it removes files only of a       *)
(* daemon that has removed its pid file itself.                            *)
Met(s, d) ==
  /\ pc[s] \notin {"writeToken", "readLock", "breakLock", "takeLock", "await", "spawn", "stopped"}
  /\ pc[s] \in {"writePid", "await ready"} => child[s] = d
  /\ pc[s] \in {"cleanup", "removeSocket", "removePid"} => call[s] # "start"
  /\ pc[s] \in {"removeSocket", "removePid"} => dpc[d] = "removeSocket"
  /\ pc[s] \in {"shutdown", "await exit", "verdict"} => call[s] = "stop"
  /\ InStop(s) => pid[s] = d

Orderly(d) == Known(d) /\ \A s \in Supervisors : Busy(s) => Met(s, d)

CalmInv == calm => OneBusy /\ OneDaemon /\ \A d \in Daemons : Alive(d) => Orderly(d)

LEMMA InitCalmInv == Init => CalmInv
BY DEF Init, CalmInv, OneBusy, OneDaemon, Busy, Alive

LEMMA CalmInvIsEnough ==
  CalmInv => OneDaemonWhileCalm /\ ListenerIsFound /\ StopStops
<1> SUFFICES ASSUME CalmInv, calm PROVE OneDaemon /\ ListenerIsFound /\ StopStops
  BY DEF OneDaemonWhileCalm, ListenerIsFound, StopStops
<1>1. OneDaemon
  BY DEF CalmInv
<1>2. ListenerIsFound
  BY DEF ListenerIsFound, CalmInv, Orderly, Known, Alive, DAt
<1>3. StopStops
  BY DEF StopStops, CalmInv, Orderly, Met, Busy, SAt
<1>4. QED
  BY <1>1, <1>2, <1>3

(* A step of the only busy supervisor leaves it the only one.              *)
LEMMA KeepsOneBusy ==
  ASSUME TypeOK, OneBusy, NEW s \in Supervisors, Busy(s), NEW v, SGoto(s, v)
  PROVE  OneBusy'
BY DEF TypeOK, OneBusy, Busy, SGoto

(* A call that begins calmly is alone and finds every daemon that is alive  *)
(* listening, with files that lead to it.                                  *)
LEMMA BeginsAlone ==
  ASSUME TypeOK, CalmInv, NEW s \in Supervisors, SAt(s, "idle"), Begins(s), calm', NEW v, SGoto(s, v)
  PROVE  /\ calm /\ OneBusy' /\ OneDaemon
         /\ \A t \in Supervisors : ~Busy(t)
         /\ \A d \in Daemons : Alive(d) => DAt(d, "listening") /\ socket = d /\ pidFile = d /\ ~HealthFails(s)
<1>1. calm /\ (\A t \in Supervisors \ {s} : ~Busy(t))
  BY Zenon DEF Begins
<1>2. \A d \in Daemons : Alive(d) => d \notin Slow /\ ~CleansUp(d) /\ dtoken[d] = token[s]
  BY Zenon DEF Begins
<1>3. \A t \in Supervisors : ~Busy(t)
  BY <1>1 DEF Busy, SAt
<1>4. OneBusy'
  BY <1>3 DEF OneBusy, Busy, SGoto, TypeOK
<1>5. ASSUME NEW d \in Daemons, Alive(d)
      PROVE  DAt(d, "listening") /\ socket = d /\ pidFile = d /\ ~HealthFails(s)
  <2>1. Known(d)
    BY <1>1, <1>5 DEF CalmInv, Orderly
  <2>2. \A t \in Supervisors : pc[t] \notin {"writePid", "await ready"}
    BY <1>3 DEF Busy
  <2>3. DAt(d, "listening")
    BY <1>2, <1>5, <2>1, <2>2 DEF Known, Awaits, Alive, CleansUp, DAt, TypeOK, DaemonPcs
  <2>4. socket = d /\ pidFile = d
    BY <2>1, <2>2, <2>3 DEF Known, DAt, SAt
  <2>5. QED
    BY <1>2, <1>5, <2>3, <2>4 DEF HealthFails, Serves
<1>6. QED
  BY <1>1, <1>3, <1>4, <1>5 DEF CalmInv

LEMMA NoneAlive ==
  ASSUME OneBusy', \A d \in Daemons : ~Alive(d), UNCHANGED daemons
  PROVE  CalmInv'
BY DEF CalmInv, OneDaemon, Alive, daemons

(* A step of a call under way that leaves the daemons alone.               *)
LEMMA KeepsCalmInv ==
  ASSUME TypeOK, calm, CalmInv, NEW s \in Supervisors, Busy(s), NEW v, SGoto(s, v), UNCHANGED daemons,
         \A d \in Daemons : Alive(d) /\ Orderly(d) => Known(d)' /\ (Busy(s)' => Met(s, d)')
  PROVE  CalmInv'
<1>1. OneBusy /\ OneBusy'
  BY KeepsOneBusy DEF CalmInv
<1>2. OneDaemon'
  BY DEF CalmInv, OneDaemon, Alive, daemons
<1>3. \A t \in Supervisors : Busy(t)' => t = s
  BY <1>1 DEF OneBusy, Busy, SGoto, TypeOK
<1>4. QED
  BY <1>1, <1>2, <1>3 DEF CalmInv, Orderly, Alive, daemons

LEMMA NextCalmInv ==
  ASSUME TypeOK, CalmInv, [Next]_vars
  PROVE  CalmInv'
<1> SUFFICES ASSUME calm' PROVE CalmInv'
  BY DEF CalmInv
<1> USE DEF files, locals, daemons, SAt, DAt, history
<1>1. ASSUME NEW s \in Supervisors, Construct(s) PROVE CalmInv'
  <2>1. \A t \in Supervisors : (Busy(t)' <=> Busy(t)) /\ pc[s] = "out" /\ (t = s \/ pc'[t] = pc[t])
    BY <1>1 DEF Construct, Busy, SGoto, TypeOK
  <2>2. OneBusy'
    BY <1>1, <2>1 DEF Construct, CalmInv, OneBusy
  <2>3. ASSUME NEW d \in Daemons, Alive(d) PROVE Orderly(d)'
    <3>1. Orderly(d)
      BY <1>1, <2>3 DEF Construct, CalmInv
    <3>2. Known(d)'
      BY <1>1, <2>1, <3>1 DEF Construct, Orderly, Known, Awaits
    <3>3. \A t \in Supervisors : Busy(t) => Met(t, d)'
      BY <1>1, <2>1, <3>1 DEF Construct, Orderly, Met, InStop, Busy
    <3>4. QED
      BY <2>1, <3>2, <3>3 DEF Orderly
  <2>4. QED
    BY <1>1, <2>2, <2>3 DEF Construct, CalmInv, OneDaemon, Alive
<1>2. ASSUME NEW s \in Supervisors, EnsureStart(s) PROVE CalmInv'
  <2>1. OneBusy' /\ \A d \in Daemons : ~Alive(d)
    BY <1>2, BeginsAlone DEF EnsureStart
  <2>2. QED
    BY <1>2, <2>1, NoneAlive DEF EnsureStart
<1>3. ASSUME NEW s \in Supervisors, StopRead(s) PROVE CalmInv'
  <2>1. SAt(s, "idle") /\ Begins(s) /\ SGoto(s, "shutdown")
    BY <1>3 DEF StopRead
  <2>2. /\ OneBusy' /\ OneDaemon
        /\ \A t \in Supervisors : ~Busy(t)
        /\ \A d \in Daemons : Alive(d) => DAt(d, "listening") /\ socket = d /\ pidFile = d
    BY <2>1, BeginsAlone
  <2>3. \A t \in Supervisors : Busy(t)' => t = s
    BY <2>1, <2>2 DEF Busy, SGoto, TypeOK
  <2>4. ASSUME NEW d \in Daemons, Alive(d) PROVE Known(d)' /\ Met(s, d)'
    BY <1>3, <2>2, <2>4 DEF StopRead, SGoto, Known, Met, InStop, TypeOK
  <2>5. QED
    BY <1>3, <2>2, <2>3, <2>4 DEF StopRead, CalmInv, Orderly, OneDaemon, Alive
<1>4. ASSUME NEW s \in Supervisors, CleanupStale(s) PROVE CalmInv'
  <2>1. SAt(s, "idle") /\ Begins(s) /\ SGoto(s, "cleanup")
    BY <1>4 DEF CleanupStale
  <2>2. /\ OneBusy' /\ OneDaemon
        /\ \A t \in Supervisors : ~Busy(t)
        /\ \A d \in Daemons : Alive(d) => DAt(d, "listening") /\ socket = d /\ pidFile = d
    BY <2>1, BeginsAlone
  <2>3. \A t \in Supervisors : Busy(t)' => t = s
    BY <2>1, <2>2 DEF Busy, SGoto, TypeOK
  <2>4. ASSUME NEW d \in Daemons, Alive(d) PROVE Known(d)' /\ Met(s, d)'
    BY <1>4, <2>2, <2>4 DEF CleanupStale, SGoto, Known, Met, InStop, TypeOK
  <2>5. QED
    BY <1>4, <2>2, <2>3, <2>4 DEF CleanupStale, CalmInv, Orderly, OneDaemon, Alive
<1>5. ASSUME NEW s \in Supervisors, WriteToken(s) PROVE CalmInv'
  <2>1. calm /\ Busy(s) /\ UNCHANGED daemons /\ \A d \in Daemons : ~Met(s, d)
    BY <1>5 DEF WriteToken, Busy, Met
  <2>2. PICK v : SGoto(s, v)
    BY <1>5 DEF WriteToken
  <2>3. OneBusy' /\ \A d \in Daemons : ~Alive(d)
    BY <2>1, <2>2, KeepsOneBusy DEF CalmInv, Orderly
  <2>4. QED
    BY <2>1, <2>3, NoneAlive
<1>6. ASSUME NEW s \in Supervisors, ReadLock(s) PROVE CalmInv'
  <2>1. calm /\ Busy(s) /\ UNCHANGED daemons /\ \A d \in Daemons : ~Met(s, d)
    BY <1>6 DEF ReadLock, Busy, Met
  <2>2. PICK v : SGoto(s, v)
    BY <1>6 DEF ReadLock
  <2>3. OneBusy' /\ \A d \in Daemons : ~Alive(d)
    BY <2>1, <2>2, KeepsOneBusy DEF CalmInv, Orderly
  <2>4. QED
    BY <2>1, <2>3, NoneAlive
<1>7. ASSUME NEW s \in Supervisors, BreakLock(s) PROVE CalmInv'
  <2>1. calm /\ Busy(s) /\ UNCHANGED daemons /\ \A d \in Daemons : ~Met(s, d)
    BY <1>7 DEF BreakLock, Busy, Met
  <2>2. PICK v : SGoto(s, v)
    BY <1>7 DEF BreakLock
  <2>3. OneBusy' /\ \A d \in Daemons : ~Alive(d)
    BY <2>1, <2>2, KeepsOneBusy DEF CalmInv, Orderly
  <2>4. QED
    BY <2>1, <2>3, NoneAlive
<1>8. ASSUME NEW s \in Supervisors, TakeLock(s) PROVE CalmInv'
  <2>1. calm /\ Busy(s) /\ UNCHANGED daemons /\ \A d \in Daemons : ~Met(s, d)
    BY <1>8 DEF TakeLock, Busy, Met
  <2>2. PICK v : SGoto(s, v)
    BY <1>8 DEF TakeLock
  <2>3. OneBusy' /\ \A d \in Daemons : ~Alive(d)
    BY <2>1, <2>2, KeepsOneBusy DEF CalmInv, Orderly
  <2>4. QED
    BY <2>1, <2>3, NoneAlive
<1>9. ASSUME NEW s \in Supervisors, LockTaken(s) PROVE CalmInv'
  <2>1. calm /\ Busy(s) /\ UNCHANGED daemons /\ \A d \in Daemons : ~Met(s, d)
    BY <1>9 DEF LockTaken, Busy, Met
  <2>2. PICK v : SGoto(s, v)
    BY <1>9 DEF LockTaken
  <2>3. OneBusy' /\ \A d \in Daemons : ~Alive(d)
    BY <2>1, <2>2, KeepsOneBusy DEF CalmInv, Orderly
  <2>4. QED
    BY <2>1, <2>3, NoneAlive
<1>10. ASSUME NEW s \in Supervisors, AwaitOther(s) PROVE CalmInv'
  <2>1. calm /\ Busy(s) /\ UNCHANGED daemons /\ \A d \in Daemons : ~Met(s, d)
    BY <1>10 DEF AwaitOther, Busy, Met
  <2>2. PICK v : SGoto(s, v)
    BY <1>10 DEF AwaitOther
  <2>3. OneBusy' /\ \A d \in Daemons : ~Alive(d)
    BY <2>1, <2>2, KeepsOneBusy DEF CalmInv, Orderly
  <2>4. QED
    BY <2>1, <2>3, NoneAlive
<1>11. ASSUME NEW s \in Supervisors, SpawnFails(s) PROVE CalmInv'
  <2>1. calm /\ Busy(s) /\ UNCHANGED daemons /\ \A d \in Daemons : ~Met(s, d)
    BY <1>11 DEF SpawnFails, Busy, Met
  <2>2. PICK v : SGoto(s, v)
    BY <1>11 DEF SpawnFails
  <2>3. OneBusy' /\ \A d \in Daemons : ~Alive(d)
    BY <2>1, <2>2, KeepsOneBusy DEF CalmInv, Orderly
  <2>4. QED
    BY <2>1, <2>3, NoneAlive
<1>12. ASSUME NEW s \in Supervisors, Stopped(s) PROVE CalmInv'
  <2>1. calm /\ Busy(s) /\ UNCHANGED daemons /\ \A d \in Daemons : ~Met(s, d)
    BY <1>12 DEF Stopped, Busy, Met
  <2>2. PICK v : SGoto(s, v)
    BY <1>12 DEF Stopped
  <2>3. OneBusy' /\ \A d \in Daemons : ~Alive(d)
    BY <2>1, <2>2, KeepsOneBusy DEF CalmInv, Orderly
  <2>4. QED
    BY <2>1, <2>3, NoneAlive
<1>13. ASSUME NEW s \in Supervisors, CleanupRead(s) PROVE CalmInv'
  <2>1. calm /\ Busy(s) /\ UNCHANGED daemons
    BY <1>13 DEF CleanupRead, Busy
  <2>2. PICK v : SGoto(s, v)
    BY <1>13 DEF CleanupRead
  <2>3. ASSUME NEW d \in Daemons, Alive(d), Orderly(d) PROVE Known(d)' /\ (Busy(s)' => Met(s, d)')
    <3>1. Known(d) /\ Met(s, d)
      BY <2>1, <2>3 DEF Orderly
    <3>2. Known(d)'
      BY <1>13, <3>1 DEF CleanupRead, SGoto, Known, Awaits, TypeOK
    <3>3. pc[s] = "cleanup" /\ call[s] \in {"stop", "cleanup"} /\ (call[s] = "stop" => pid[s] = d)
      BY <1>13, <3>1 DEF CleanupRead, Met, InStop, TypeOK
    <3>4. CASE Alive(pidFile)
      <4>1. AfterCleanup(s) = IF call[s] = "stop" THEN "verdict" ELSE "idle"
        BY <3>3 DEF AfterCleanup
      <4>2. pc'[s] = (IF call[s] = "stop" THEN "verdict" ELSE "idle") /\ UNCHANGED <<locals, daemons>>
        BY <1>13, <3>4, <4>1 DEF CleanupRead, SGoto, TypeOK
      <4>3. QED
        BY <3>2, <3>3, <4>2 DEF Met, InStop, Busy
    <3>5. CASE ~Alive(pidFile)
      <4>1. dpc[d] = "removeSocket"
        BY <2>1, <2>3, <3>1, <3>3, <3>5 DEF Known, OneBusy, CalmInv, Busy
      <4>2. pc'[s] = "removeSocket" /\ UNCHANGED <<locals, daemons>>
        BY <1>13, <3>5 DEF CleanupRead, SGoto, TypeOK
      <4>3. QED
        BY <3>2, <3>3, <4>1, <4>2 DEF Met, InStop
    <3>6. QED
      BY <3>2, <3>4, <3>5
  <2>4. QED
    BY <2>1, <2>2, <2>3, KeepsCalmInv
<1>14. ASSUME NEW s \in Supervisors, RemoveSocket(s) PROVE CalmInv'
  <2>1. calm /\ Busy(s) /\ UNCHANGED daemons
    BY <1>14 DEF RemoveSocket, Busy
  <2>2. PICK v : SGoto(s, v)
    BY <1>14 DEF RemoveSocket
  <2>3. ASSUME NEW d \in Daemons, Alive(d), Orderly(d) PROVE Known(d)' /\ (Busy(s)' => Met(s, d)')
    <3>1. Known(d) /\ Met(s, d)
      BY <2>1, <2>3 DEF Orderly
    <3>2. Known(d)'
      BY <1>14, <3>1 DEF RemoveSocket, SGoto, Known, Awaits, Met, TypeOK
    <3>3. Busy(s)' => Met(s, d)'
      BY <1>14, <2>3, <3>1 DEF RemoveSocket, SGoto, Met, InStop, Busy, TypeOK
    <3>4. QED
      BY <3>2, <3>3
  <2>4. QED
    BY <2>1, <2>2, <2>3, KeepsCalmInv
<1>15. ASSUME NEW s \in Supervisors, RemovePid(s) PROVE CalmInv'
  <2>1. calm /\ Busy(s) /\ UNCHANGED daemons
    BY <1>15 DEF RemovePid, Busy
  <2>2. PICK v : SGoto(s, v)
    BY <1>15 DEF RemovePid
  <2>3. ASSUME NEW d \in Daemons, Alive(d), Orderly(d) PROVE Known(d)' /\ (Busy(s)' => Met(s, d)')
    <3>1. Known(d) /\ Met(s, d)
      BY <2>1, <2>3 DEF Orderly
    <3>2. Known(d)'
      BY <1>15, <3>1 DEF RemovePid, SGoto, Known, Awaits, Met, TypeOK
    <3>3. pc[s] = "removePid" /\ call[s] \in {"stop", "cleanup"} /\ (call[s] = "stop" => pid[s] = d)
      BY <1>15, <3>1 DEF RemovePid, Met, InStop, TypeOK
    <3>4. Busy(s)' => Met(s, d)'
      <4>1. AfterCleanup(s) = IF call[s] = "stop" THEN "verdict" ELSE "idle"
        BY <3>3 DEF AfterCleanup
      <4>2. pc'[s] = (IF call[s] = "stop" THEN "verdict" ELSE "idle") /\ UNCHANGED <<locals, daemons>>
        BY <1>15, <4>1 DEF RemovePid, SGoto, TypeOK
      <4>3. QED
        BY <3>3, <4>2 DEF Met, InStop, Busy
    <3>5. QED
      BY <3>2, <3>4
  <2>4. QED
    BY <2>1, <2>2, <2>3, KeepsCalmInv
<1>16. ASSUME NEW s \in Supervisors, WritePid(s) PROVE CalmInv'
  <2>1. calm /\ Busy(s) /\ UNCHANGED daemons
    BY <1>16 DEF WritePid, Busy
  <2>2. PICK v : SGoto(s, v)
    BY <1>16 DEF WritePid
  <2>3. ASSUME NEW d \in Daemons, Alive(d), Orderly(d) PROVE Known(d)' /\ (Busy(s)' => Met(s, d)')
    <3>1. Known(d) /\ Met(s, d)
      BY <2>1, <2>3 DEF Orderly
    <3>2. child[s] = d /\ pidFile' = d /\ pc'[s] = "await ready" /\ UNCHANGED <<socket, child, dpc>>
      BY <1>16, <3>1 DEF WritePid, Met, SGoto, TypeOK
    <3>3. Known(d)'
      BY <3>1, <3>2 DEF Known, Awaits
    <3>4. Met(s, d)'
      BY <3>2 DEF Met, InStop
    <3>5. QED
      BY <3>3, <3>4
  <2>4. QED
    BY <2>1, <2>2, <2>3, KeepsCalmInv
<1>17. ASSUME NEW s \in Supervisors, Ready(s) PROVE CalmInv'
  <2>1. calm /\ Busy(s) /\ UNCHANGED daemons
    BY <1>17 DEF Ready, Busy
  <2>2. PICK v : SGoto(s, v)
    BY <1>17 DEF Ready
  <2>3. ASSUME NEW d \in Daemons, Alive(d), Orderly(d) PROVE Known(d)' /\ (Busy(s)' => Met(s, d)')
    <3>1. Known(d) /\ Met(s, d) /\ OneDaemon
      BY <2>1, <2>3 DEF Orderly, CalmInv
    <3>2. pc[s] = "await ready" /\ pc'[s] = "release" /\ UNCHANGED <<files, locals, daemons>>
      BY <1>17 DEF Ready, SGoto, TypeOK
    <3>3. dpc[d] \in {"booting", "binding", "bound"} => d \in Slow
      BY <1>17, <2>3, <3>1, <3>2 DEF Ready, Met, Serves, OneDaemon, Alive
    <3>4. \A t \in Supervisors : SAt(t, "writePid")' <=> SAt(t, "writePid")
      BY <1>17 DEF Ready, SGoto, TypeOK
    <3>5. Known(d)'
      BY <3>1, <3>2, <3>3, <3>4 DEF Known
    <3>6. Met(s, d)'
      BY <3>2 DEF Met, InStop
    <3>7. QED
      BY <3>5, <3>6
  <2>4. QED
    BY <2>1, <2>2, <2>3, KeepsCalmInv
<1>18. ASSUME NEW s \in Supervisors, NotReady(s) PROVE CalmInv'
  <2>1. calm /\ Busy(s) /\ UNCHANGED daemons
    BY <1>18 DEF NotReady, Busy
  <2>2. PICK v : SGoto(s, v)
    BY <1>18 DEF NotReady
  <2>3. ASSUME NEW d \in Daemons, Alive(d), Orderly(d) PROVE Known(d)' /\ (Busy(s)' => Met(s, d)')
    <3>1. Known(d) /\ Met(s, d) /\ OneDaemon
      BY <2>1, <2>3 DEF Orderly, CalmInv
    <3>2. pc[s] = "await ready" /\ pc'[s] = "release" /\ UNCHANGED <<files, locals, daemons>>
      BY <1>18 DEF NotReady, SGoto, TypeOK
    <3>3. dpc[d] \in {"booting", "binding", "bound"} => d \in Slow
      BY <1>18, <2>3, <3>1, <3>2 DEF NotReady, Met, Serves, OneDaemon, Alive
    <3>4. \A t \in Supervisors : SAt(t, "writePid")' <=> SAt(t, "writePid")
      BY <1>18 DEF NotReady, SGoto, TypeOK
    <3>5. Known(d)'
      BY <3>1, <3>2, <3>3, <3>4 DEF Known
    <3>6. Met(s, d)'
      BY <3>2 DEF Met, InStop
    <3>7. QED
      BY <3>5, <3>6
  <2>4. QED
    BY <2>1, <2>2, <2>3, KeepsCalmInv
<1>19. ASSUME NEW s \in Supervisors, Release(s) PROVE CalmInv'
  <2>1. calm /\ Busy(s) /\ UNCHANGED daemons
    BY <1>19 DEF Release, Busy
  <2>2. PICK v : SGoto(s, v)
    BY <1>19 DEF Release
  <2>3. ASSUME NEW d \in Daemons, Alive(d), Orderly(d) PROVE Known(d)' /\ (Busy(s)' => Met(s, d)')
    <3>1. Known(d) /\ Met(s, d)
      BY <2>1, <2>3 DEF Orderly
    <3>2. Known(d)'
      BY <1>19, <3>1 DEF Release, SGoto, Known, Awaits, Met, TypeOK
    <3>3. Busy(s)' => Met(s, d)'
      BY <1>19, <2>3, <3>1 DEF Release, SGoto, Met, InStop, Busy, TypeOK
    <3>4. QED
      BY <3>2, <3>3
  <2>4. QED
    BY <2>1, <2>2, <2>3, KeepsCalmInv
<1>20. ASSUME NEW s \in Supervisors, Exited(s) PROVE CalmInv'
  <2>1. calm /\ Busy(s) /\ UNCHANGED daemons
    BY <1>20 DEF Exited, Busy
  <2>2. PICK v : SGoto(s, v)
    BY <1>20 DEF Exited
  <2>3. ASSUME NEW d \in Daemons, Alive(d), Orderly(d) PROVE Known(d)' /\ (Busy(s)' => Met(s, d)')
    <3>1. Known(d) /\ Met(s, d)
      BY <2>1, <2>3 DEF Orderly
    <3>2. Known(d)'
      BY <1>20, <3>1 DEF Exited, SGoto, Known, Awaits, Met, TypeOK
    <3>3. Busy(s)' => Met(s, d)'
      BY <1>20, <2>3, <3>1 DEF Exited, SGoto, Met, InStop, Busy, TypeOK
    <3>4. QED
      BY <3>2, <3>3
  <2>4. QED
    BY <2>1, <2>2, <2>3, KeepsCalmInv
<1>21. ASSUME NEW s \in Supervisors, TerminateFails(s) PROVE CalmInv'
  <2>1. calm /\ Busy(s) /\ UNCHANGED daemons
    BY <1>21 DEF TerminateFails, Busy
  <2>2. PICK v : SGoto(s, v)
    BY <1>21 DEF TerminateFails
  <2>3. ASSUME NEW d \in Daemons, Alive(d), Orderly(d) PROVE Known(d)' /\ (Busy(s)' => Met(s, d)')
    <3>1. Known(d) /\ Met(s, d)
      BY <2>1, <2>3 DEF Orderly
    <3>2. Known(d)'
      BY <1>21, <3>1 DEF TerminateFails, SGoto, Known, Awaits, Met, TypeOK
    <3>3. Busy(s)' => Met(s, d)'
      BY <1>21, <2>3, <3>1 DEF TerminateFails, SGoto, Met, InStop, Busy, TypeOK
    <3>4. QED
      BY <3>2, <3>3
  <2>4. QED
    BY <2>1, <2>2, <2>3, KeepsCalmInv
<1>22. ASSUME NEW s \in Supervisors, Verdict(s) PROVE CalmInv'
  <2>1. calm /\ Busy(s) /\ UNCHANGED daemons
    BY <1>22 DEF Verdict, Busy
  <2>2. PICK v : SGoto(s, v)
    BY <1>22 DEF Verdict
  <2>3. ASSUME NEW d \in Daemons, Alive(d), Orderly(d) PROVE Known(d)' /\ (Busy(s)' => Met(s, d)')
    <3>1. Known(d) /\ Met(s, d)
      BY <2>1, <2>3 DEF Orderly
    <3>2. Known(d)'
      BY <1>22, <3>1 DEF Verdict, SGoto, Known, Awaits, TypeOK
    <3>3. ~Busy(s)'
      BY <1>22, <2>3, <3>1 DEF Verdict, SGoto, Met, InStop, Busy, TypeOK
    <3>4. QED
      BY <3>2, <3>3
  <2>4. QED
    BY <2>1, <2>2, <2>3, KeepsCalmInv
<1>23. ASSUME NEW s \in Supervisors, WritePidFails(s) PROVE CalmInv'
  BY <1>23 DEF WritePidFails
<1>24. ASSUME NEW s \in Supervisors, Spawn(s) PROVE CalmInv'
  <2>1. calm /\ Busy(s) /\ SGoto(s, "writePid") /\ UNCHANGED files
    BY <1>24 DEF Spawn, Busy
  <2>2. OneBusy /\ OneBusy' /\ \A d \in Daemons : ~Alive(d)
    BY <1>24, <2>1, KeepsOneBusy DEF Spawn, CalmInv, Orderly, Met
  <2>3. PICK d \in Daemons : dpc' = [dpc EXCEPT ![d] = "booting"] /\ child' = [child EXCEPT ![s] = d]
    BY <1>24 DEF Spawn
  <2>4. dpc'[d] = "booting" /\ \A e \in Daemons : Alive(e)' => e = d
    BY <2>2, <2>3 DEF Alive, TypeOK
  <2>5. pc'[s] = "writePid" /\ child'[s] = d
    BY <2>1, <2>3 DEF SGoto, TypeOK
  <2>6. \A t \in Supervisors : Busy(t)' => t = s
    BY <2>1, <2>2 DEF OneBusy, Busy, SGoto, TypeOK
  <2>7. Orderly(d)'
    BY <2>4, <2>5, <2>6 DEF Orderly, Known, Awaits, Met, InStop
  <2>8. QED
    BY <2>2, <2>4, <2>7 DEF CalmInv, OneDaemon
<1>25. ASSUME NEW s \in Supervisors, Exit(s) PROVE CalmInv'
  <2>1. calm /\ pc[s] \notin {"writePid", "await ready"} /\ pc'[s] = "gone"
    BY <1>25 DEF Exit, SGoto, TypeOK
  <2>2. \A t \in Supervisors \ {s} : pc'[t] = pc[t] /\ child'[t] = child[t] /\ call'[t] = call[t] /\ pid'[t] = pid[t]
    BY <1>25 DEF Exit, SGoto, TypeOK
  <2>3. OneBusy' /\ OneDaemon'
    BY <1>25, <2>1, <2>2 DEF Exit, CalmInv, OneBusy, Busy, OneDaemon, Alive
  <2>4. ASSUME NEW d \in Daemons, Alive(d) PROVE Orderly(d)'
    <3>1. Orderly(d)
      BY <2>1, <2>4 DEF CalmInv
    <3>2. Known(d)'
      BY <1>25, <2>1, <2>2, <3>1 DEF Exit, Orderly, Known, Awaits
    <3>3. ASSUME NEW t \in Supervisors, Busy(t)' PROVE Met(t, d)'
      <4>1. t # s /\ Busy(t) /\ Met(t, d)
        BY <2>1, <2>2, <3>1, <3>3 DEF Busy, Orderly
      <4>2. QED
        BY <1>25, <2>2, <4>1 DEF Exit, Met, InStop
    <3>4. QED
      BY <3>2, <3>3 DEF Orderly
  <2>5. QED
    BY <1>25, <2>3, <2>4 DEF Exit, CalmInv, Alive
<1>26. ASSUME NEW s \in Supervisors, Terminate(s) PROVE CalmInv'
  <2>1. calm /\ Busy(s) /\ SGoto(s, "cleanup") /\ pid[s] \in Daemons /\ Alive(pid[s])
    BY <1>26 DEF Terminate, Busy, Alive
  <2>2. OneBusy' /\ OneDaemon
    BY <2>1, KeepsOneBusy DEF CalmInv
  <2>3. \A d \in Daemons : ~Alive(d)'
    BY <1>26, <2>1, <2>2 DEF Terminate, DGoto, OneDaemon, Alive, TypeOK
  <2>4. QED
    BY <2>2, <2>3 DEF CalmInv, OneDaemon
<1>27. ASSUME NEW s \in Supervisors, Shutdown(s) PROVE CalmInv'
  <2>1. calm /\ Busy(s) /\ SGoto(s, "await exit") /\ UNCHANGED <<files, locals>>
    BY <1>27 DEF Shutdown, Busy
  <2>2. OneBusy /\ OneBusy' /\ OneDaemon
    BY <2>1, KeepsOneBusy DEF CalmInv
  <2>3. \A d \in Daemons : Alive(d)' => Alive(d) /\ (dpc'[d] = dpc[d] \/ dpc'[d] = "removePid")
    BY <1>27 DEF Shutdown, Serves, DGoto, Alive, TypeOK
  <2>4. ASSUME NEW d \in Daemons, Alive(d)' PROVE Orderly(d)'
    <3>1. Known(d) /\ Met(s, d) /\ pc[s] = "shutdown"
      BY <1>27, <2>1, <2>3, <2>4 DEF Shutdown, CalmInv, Orderly
    <3>2. \A t \in Supervisors : Busy(t)' => t = s
      BY <2>1, <2>2 DEF OneBusy, Busy, SGoto, TypeOK
    <3>3. Known(d)'
      <4>1. \A t \in Supervisors : pc[t] \notin {"writePid", "await ready"}
        BY <2>1, <2>2, <3>1 DEF OneBusy, Busy
      <4>2. dpc[d] \in {"booting", "binding", "bound"} => d \in Slow
        BY <3>1, <4>1 DEF Known, Awaits
      <4>3. dpc[d] = "removeSocket" \/ pidFile = d
        BY <3>1, <4>1 DEF Known
      <4>4. dpc[d] = "removeSocket" => dpc'[d] = "removeSocket"
        BY <1>27, <3>1 DEF Shutdown, Serves, DGoto, TypeOK
      <4>5. QED
        BY <2>1, <2>3, <2>4, <3>1, <4>2, <4>3, <4>4 DEF Known
    <3>4. Met(s, d)'
      BY <2>1, <3>1 DEF Met, InStop, SGoto, TypeOK
    <3>5. QED
      BY <3>2, <3>3, <3>4 DEF Orderly
  <2>5. QED
    BY <2>2, <2>3, <2>4 DEF CalmInv, OneDaemon
<1>28. ASSUME NEW d \in Daemons, DaemonStep(d) \/ BootFails(d) \/ ServeFails(d) \/ Die(d) PROVE CalmInv'
  <2>1. calm /\ UNCHANGED <<pc, locals>> /\ Alive(d) /\ \A e \in Daemons \ {d} : dpc'[e] = dpc[e]
    BY <1>28 DEF DaemonStep, Unlink, Bind, BindFails, Listen, DaemonRemovesPid, DaemonRemovesSocket,
         BootFails, ServeFails, Die, DGoto, Alive, TypeOK
  <2>2. OneBusy' /\ OneDaemon
    BY <2>1 DEF CalmInv, OneBusy, Busy
  <2>3. \A e \in Daemons : Alive(e)' => e = d
    BY <2>1, <2>2 DEF OneDaemon, Alive
  <2>4. Known(d) /\ \A s \in Supervisors : Busy(s) => Met(s, d)
    BY <2>1 DEF CalmInv, Orderly
  <2>5. dpc[d] = "removeSocket" => dpc'[d] \in {"removeSocket", "dead"}
    BY <1>28 DEF DaemonStep, Unlink, Bind, BindFails, Listen, DaemonRemovesPid, DaemonRemovesSocket,
         BootFails, ServeFails, Die, DGoto, TypeOK
  <2>6. Alive(d)' => \A s \in Supervisors : Busy(s)' => Met(s, d)'
    BY <2>1, <2>4, <2>5 DEF Met, InStop, Busy, Alive
  <2>7. Alive(d)' => Known(d)'
    <3>1. CASE Unlink(d)
      BY <2>1, <2>4, <3>1 DEF Unlink, DGoto, Known, Awaits, TypeOK
    <3>2. CASE Bind(d)
      BY <2>1, <2>4, <3>2 DEF Bind, DGoto, Known, Awaits, TypeOK
    <3>3. CASE BindFails(d) \/ ServeFails(d)
      BY <2>1, <2>4, <3>3 DEF BindFails, ServeFails, DGoto, Known, Awaits, TypeOK
    <3>4. CASE Listen(d)
      BY <2>1, <2>4, <3>4 DEF Listen, DGoto, Known, Awaits, TypeOK
    <3>5. CASE DaemonRemovesPid(d)
      BY <2>1, <2>4, <3>5 DEF DaemonRemovesPid, DGoto, Known, Awaits, TypeOK
    <3>6. CASE DaemonRemovesSocket(d) \/ BootFails(d) \/ Die(d)
      BY <3>6 DEF DaemonRemovesSocket, BootFails, Die, DGoto, Alive, TypeOK
    <3>7. QED
      BY <1>28, <3>1, <3>2, <3>3, <3>4, <3>5, <3>6 DEF DaemonStep
  <2>8. QED
    BY <2>2, <2>3, <2>6, <2>7 DEF CalmInv, OneDaemon, Orderly
<1>29. CASE UNCHANGED vars
  <2>1. OneBusy' = OneBusy /\ OneDaemon' = OneDaemon /\ calm' = calm
    BY <1>29 DEF vars, OneBusy, OneDaemon, Busy, Alive
  <2>2. ASSUME NEW d \in Daemons, Alive(d)', calm PROVE Orderly(d)'
    <3>1. Orderly(d)
      BY <1>29, <2>2 DEF vars, CalmInv, Alive
    <3>2. Known(d)'
      BY <1>29, <3>1 DEF vars, Orderly, Known, Awaits
    <3>3. \A s \in Supervisors : Busy(s)' => Met(s, d)'
      BY <1>29, <3>1 DEF vars, Orderly, Met, InStop, Busy
    <3>4. QED
      BY <3>2, <3>3 DEF Orderly
  <2>3. QED
    BY <2>1, <2>2 DEF CalmInv
<1>30. QED
  BY <1>1, <1>2, <1>3, <1>4, <1>5, <1>6, <1>7, <1>8, <1>9, <1>10, <1>11,
     <1>12, <1>13, <1>14, <1>15, <1>16, <1>17, <1>18, <1>19, <1>20, <1>21,
     <1>22, <1>23, <1>24, <1>25, <1>26, <1>27, <1>28, <1>29
     DEF Next, InCall

(* Any number of supervisors never have two daemons at a time, whatever      *)
(* dies, fails or exits, before two calls overlap, a call begins beside a   *)
(* daemon that is slow, ends or knows another token, or a start is left     *)
(* before its daemon is ready.                                             *)
THEOREM OneDaemonWhileCalmCorrect == Spec => []OneDaemonWhileCalm
<1>1. TypeOK /\ CalmInv /\ [Next]_vars => CalmInv'
  BY NextCalmInv
<1>2. CalmInv => OneDaemonWhileCalm
  BY CalmInvIsEnough
<1>3. QED
  BY <1>1, <1>2, InitCalmInv, TypeCorrect, PTL DEF Spec

(* Until then no cleanup takes the files of a daemon that listens.          *)
THEOREM ListenerIsFoundCorrect == Spec => []ListenerIsFound
<1>1. TypeOK /\ CalmInv /\ [Next]_vars => CalmInv'
  BY NextCalmInv
<1>2. CalmInv => ListenerIsFound
  BY CalmInvIsEnough
<1>3. QED
  BY <1>1, <1>2, InitCalmInv, TypeCorrect, PTL DEF Spec

(* And when stop() says so, no daemon is alive.                            *)
THEOREM StopStopsCorrect == Spec => []StopStops
<1>1. TypeOK /\ CalmInv /\ [Next]_vars => CalmInv'
  BY NextCalmInv
<1>2. CalmInv => StopStops
  BY CalmInvIsEnough
<1>3. QED
  BY <1>1, <1>2, InitCalmInv, TypeCorrect, PTL DEF Spec
===========================================================================
