------------------------ MODULE SnapshotBackupProofs ------------------------
(* What a backup from a snapshot guarantees for every set of requests and any *)
(* number of locks that earlier runs leaked.                                   *)
EXTENDS SnapshotBackup, TLAPS

\* The storage system has cut the snapshot.
IsCut == snapshot \in {"cut", "ready"}

\* Control points between a confirmed lock and the call of its release function.
Locked == {"create", "cut", "dropUncut", "unlock"}

\* Control points at which a Helm release of the run may exist.
Installed == {"wait", "uninstall", "releaseClone", "releaseSnapshot", "done", "killed"}

\* Control points a run under a lock reaches only past a confirmed release.
Prepared == {"ready", "clone", "resolve", "install", "wait", "uninstall"}

\* The lock count: only a pair is counted, and a run adds one lock at most.
Counting ==
    /\ req.mode # "pair" => ~mine /\ count = 0
    /\ pc = "start" => client = "none" /\ ~mine /\ count <= MaxLeaked
    /\ client = "sent" => count <= MaxLeaked

\* What the client in the database's pod may be doing, by control point.  From the
\* confirmation of a pair's lock to its unlock, either the server counts it or a
\* restart has emptied the count: that is why a last unlock proves the lock held.
ClientPhase ==
    /\ Locking /\ pc \in Locked =>
         client \in IF req.mode = "session" THEN {"held", "lost", "none"} ELSE {"ok"}
    /\ pc = "unlocking" => Locking /\ client \in {"releasing", "ok", "bad", "none"}
    /\ req.mode = "pair" =>
         \/ mine \/ count = 0
         \/ ~(\/ pc = "lock" /\ client = "ok"
              \/ pc \in Locked
              \/ pc = "unlocking" /\ client = "releasing")

\* The lock, while held, covers the cut; once its release was confirmed on a path
\* without an error, it did.
CutUnderLock ==
    Locking =>
        /\ pc \in {"start", "lock", "create"} => snapshot = "none"
        /\ pc = "dropUncut" => failed
        /\ pc \in {"cut", "unlock", "unlocking"} /\ ~failed /\ LockHeld /\ IsCut => cutLocked
        /\ pc \in {"unlock", "unlocking"} /\ ~failed => IsCut
        /\ pc = "unlocking" /\ client = "ok" => ~mine /\ count = 0 /\ (~failed => cutLocked)

\* Past the release of the lock nothing about it changes any more.
Secured ==
    /\ release => pc \in Installed
    /\ Locking /\ (release \/ pc \in Prepared) =>
         client = "ok" /\ ~mine /\ count = 0 /\ cutLocked /\ snapshot # "made"

\* A lock the run was told of stays its responsibility until the release function
\* has been answered.
Accounted ==
    confirmed =>
        /\ client # "sent"
        /\ pc \notin {"start", "lock", "abandon"}
        /\ req.mode = "pair" /\ pc \notin Locked \union {"unlocking", "killed"} =>
             ~mine \/ (failed /\ "unlockFailed" \in excuses)

\* The inductive invariant behind the properties of the lock.
LockInv == TypeOK /\ Counting /\ ClientPhase /\ CutUnderLock /\ Secured /\ Accounted

\* What a run has made is taken back by the deferred calls still ahead of it, and
\* it only goes on while nothing has failed.
TakenBack ==
    /\ pc \in {"start", "lock", "create", "cut", "ready", "clone", "resolve", "install", "wait"}
         => ~failed
    /\ req.source = "live" =>
         /\ ~clone
         /\ pc \in {"start", "install", "wait", "uninstall", "releaseClone", "done", "killed"}
    /\ excuses = {} =>
        /\ clone => \/ pc \in {"resolve", "rollbackClone", "install", "wait", "uninstall",
                               "releaseClone", "killed"}
                    \/ pc = "done" /\ SourceKept
        /\ RemoveSnapshot /\ snapshot # "none" =>
             \/ pc \notin {"start", "lock", "abandon", "create", "unlock", "unlocking", "done"}
             \/ pc \in {"unlock", "unlocking"} /\ ~failed
             \/ pc = "done" /\ SourceKept

\* A snapshot that is not the run's to remove stays once it is ready.
LeftAlone ==
    /\ pc \in {"abandon", "dropUncut", "rollbackClone", "rollbackSnapshot"} => failed
    /\ req.source = "existing" =>
         snapshot = "ready" /\ pc \notin Locked \union {"lock", "abandon", "unlocking"}
    /\ req.source = "new" /\ req.keep =>
         /\ pc \in {"clone", "resolve", "install", "wait", "uninstall", "releaseClone",
                    "releaseSnapshot"} => snapshot = "ready"
         /\ pc = "done" /\ ~failed => snapshot = "ready"

\* Helm has not failed on the run.
HelmFine == excuses \intersect {"installFailed", "uninstallFailed"} = {}

\* The clone is there as long as a release that reads it: the uninstall and the
\* removal of the clone are skipped under the same condition.
CloneBacksRelease ==
    req.source # "live" =>
        /\ pc \in {"resolve", "install", "wait", "uninstall", "releaseClone"} => clone
        /\ HelmFine => /\ pc = "releaseClone" => ~release \/ SourceKept
                       /\ release => clone

\* What validateSnapshotRequest guarantees of the request of a run.
LEMMA RequestFacts ==
    ASSUME TypeOK
    PROVE  /\ req \in RequestType
           /\ req.mode # "none" => req.source = "new"
  BY RequestsAssumption DEF TypeOK, Valid

\* Whether the lock is held is a truth value.
LEMMA LockHeldFacts ==
    ASSUME TypeOK
    PROVE  LockHeld \in BOOLEAN
<1>1. CASE req.mode = "session"
  BY <1>1 DEF LockHeld
<1>2. CASE req.mode # "session"
  BY <1>2 DEF LockHeld, TypeOK
<1> QED BY <1>1, <1>2

\* Every step keeps the types.
LEMMA NextType == TypeOK /\ Counting /\ [Next]_vars => TypeOK'
<1> SUFFICES ASSUME TypeOK, Counting, [Next]_vars PROVE TypeOK'
  OBVIOUS
<1>1. CASE Begin
  <2>1. pc' \in PCs /\ failed' \in BOOLEAN
    BY <1>1 DEF Begin, Fail, Continue, TypeOK, PCs
  <2>2. stream' \in BOOLEAN
    BY <1>1 DEF Begin, Fail, Continue, TypeOK
  <2>3. client' \in ClientStates
    BY <1>1 DEF Begin, Fail, Continue, TypeOK, ClientStates
  <2> QED BY <1>1, <2>1, <2>2, <2>3 DEF Begin, TypeOK, dbVars, storageVars, helmVars
<1>2. CASE LockConfirmed
  <2>1. pc' \in PCs /\ failed' \in BOOLEAN
    BY <1>2 DEF LockConfirmed, Continue, TypeOK, PCs
  <2>2. confirmed' \in BOOLEAN
    BY <1>2 DEF LockConfirmed, Continue, TypeOK
  <2> QED BY <1>2, <2>1, <2>2 DEF LockConfirmed, TypeOK, dbVars, storageVars, helmVars
<1>3. CASE LockGivenUp
  <2>1. pc' \in PCs /\ failed' \in BOOLEAN
    BY <1>3 DEF LockGivenUp, LockFails, Fail, TypeOK, PCs
  <2>2. stream' \in BOOLEAN
    BY <1>3 DEF LockGivenUp, LockFails, Fail, TypeOK
  <2>3. client' \in ClientStates
    BY <1>3 DEF LockGivenUp, LockFails, Fail, TypeOK, ClientStates
  <2> QED BY <1>3, <2>1, <2>2, <2>3 DEF LockGivenUp, TypeOK, dbVars, storageVars, helmVars
<1>4. CASE Abandon
  <2>1. pc' \in PCs
    BY <1>4 DEF Abandon, TypeOK, PCs
  <2> QED BY <1>4, <2>1 DEF Abandon, TypeOK, dbVars, storageVars, helmVars
<1>5. CASE CreateSnapshot
  <2>1. pc' \in PCs /\ failed' \in BOOLEAN
    BY <1>5 DEF CreateSnapshot, Fail, Continue, Excuse, TypeOK, PCs
  <2>2. snapshot' \in {"none", "made", "cut", "ready"}
    BY <1>5 DEF CreateSnapshot, Fail, Continue, Excuse, TypeOK
  <2>3. excuses' \in SUBSET Excuses
    BY <1>5 DEF CreateSnapshot, Fail, Continue, Excuse, TypeOK, Excuses
  <2> QED BY <1>5, <2>1, <2>2, <2>3 DEF CreateSnapshot, TypeOK, dbVars, storageVars, helmVars
<1>6. CASE WaitForCut
  <2>1. pc' \in PCs /\ failed' \in BOOLEAN
    BY <1>6 DEF WaitForCut, CutSeen, CutGivenUp, Fail, Continue, TypeOK, PCs
  <2> QED BY <1>6, <2>1 DEF WaitForCut, TypeOK, dbVars, storageVars, helmVars
<1>7. CASE DropUncut
  <2>1. pc' \in PCs /\ failed' \in BOOLEAN
    BY <1>7 DEF DropUncut, TryDelete, Continue, Excuse, TypeOK, PCs
  <2>2. snapshot' \in {"none", "made", "cut", "ready"}
    BY <1>7 DEF DropUncut, TryDelete, Continue, Excuse, TypeOK
  <2>3. excuses' \in SUBSET Excuses
    BY <1>7 DEF DropUncut, TryDelete, Continue, Excuse, TypeOK, Excuses
  <2> QED BY <1>7, <2>1, <2>2, <2>3 DEF DropUncut, TypeOK, dbVars, storageVars, helmVars
<1>8. CASE Unlock
  <2>1. pc' \in PCs /\ failed' \in BOOLEAN
    BY <1>8 DEF Unlock, AfterUnlock, Continue, Fail, Excuse, TypeOK, PCs
  <2>2. stream' \in BOOLEAN
    BY <1>8 DEF Unlock, AfterUnlock, Continue, Fail, Excuse, TypeOK
  <2>3. client' \in ClientStates
    BY <1>8 DEF Unlock, AfterUnlock, Continue, Fail, Excuse, TypeOK, ClientStates
  <2>4. excuses' \in SUBSET Excuses
    BY <1>8 DEF Unlock, AfterUnlock, Continue, Fail, Excuse, TypeOK, Excuses
  <2> QED BY <1>8, <2>1, <2>2, <2>3, <2>4 DEF Unlock, TypeOK, dbVars, storageVars, helmVars
<1>9. CASE UnlockAnswer
  <2>1. pc' \in PCs /\ failed' \in BOOLEAN
    BY <1>9 DEF UnlockAnswer, AfterUnlock, Continue, Fail, Excuse, TypeOK, PCs
  <2>2. excuses' \in SUBSET Excuses
    BY <1>9 DEF UnlockAnswer, AfterUnlock, Continue, Fail, Excuse, TypeOK, Excuses
  <2> QED BY <1>9, <2>1, <2>2 DEF UnlockAnswer, TypeOK, dbVars, storageVars, helmVars
<1>10. CASE WaitReady
  <2>1. pc' \in PCs /\ failed' \in BOOLEAN
    BY <1>10 DEF WaitReady, Continue, Fail, TypeOK, PCs
  <2> QED BY <1>10, <2>1 DEF WaitReady, TypeOK, dbVars, storageVars, helmVars
<1>11. CASE CloneSnapshot
  <2>1. pc' \in PCs /\ failed' \in BOOLEAN
    BY <1>11 DEF CloneSnapshot, Continue, Fail, Excuse, TypeOK, PCs
  <2>2. clone' \in BOOLEAN
    BY <1>11 DEF CloneSnapshot, Continue, Fail, Excuse, TypeOK
  <2>3. excuses' \in SUBSET Excuses
    BY <1>11 DEF CloneSnapshot, Continue, Fail, Excuse, TypeOK, Excuses
  <2> QED BY <1>11, <2>1, <2>2, <2>3 DEF CloneSnapshot, TypeOK, dbVars, storageVars, helmVars
<1>12. CASE ResolveClone
  <2>1. pc' \in PCs /\ failed' \in BOOLEAN
    BY <1>12 DEF ResolveClone, LookupFailed, Continue, Fail, TypeOK, PCs
  <2> QED BY <1>12, <2>1 DEF ResolveClone, TypeOK, dbVars, storageVars, helmVars
<1>13. CASE RollbackClone
  <2>1. pc' \in PCs /\ failed' \in BOOLEAN
    BY <1>13 DEF RollbackClone, TryDelete, Continue, Excuse, TypeOK, PCs
  <2>2. clone' \in BOOLEAN
    BY <1>13 DEF RollbackClone, TryDelete, Continue, Excuse, TypeOK
  <2>3. excuses' \in SUBSET Excuses
    BY <1>13 DEF RollbackClone, TryDelete, Continue, Excuse, TypeOK, Excuses
  <2> QED BY <1>13, <2>1, <2>2, <2>3 DEF RollbackClone, TypeOK, dbVars, storageVars, helmVars
<1>14. CASE RollbackSnapshot
  <2>1. pc' \in PCs /\ failed' \in BOOLEAN
    BY <1>14 DEF RollbackSnapshot, TryDelete, Continue, Excuse, TypeOK, PCs
  <2>2. snapshot' \in {"none", "made", "cut", "ready"}
    BY <1>14 DEF RollbackSnapshot, TryDelete, Continue, Excuse, TypeOK
  <2>3. excuses' \in SUBSET Excuses
    BY <1>14 DEF RollbackSnapshot, TryDelete, Continue, Excuse, TypeOK, Excuses
  <2> QED BY <1>14, <2>1, <2>2, <2>3 DEF RollbackSnapshot, TypeOK, dbVars, storageVars, helmVars
<1>15. CASE InstallHelmChart
  <2>1. pc' \in PCs /\ failed' \in BOOLEAN
    BY <1>15 DEF InstallHelmChart, Continue, Fail, Excuse, TypeOK, PCs, helmVars
  <2>2. release' \in BOOLEAN
    BY <1>15 DEF InstallHelmChart, Continue, Fail, Excuse, TypeOK, helmVars
  <2>3. job' \in {"none", "pending", "running", "succeeded", "failed"}
    BY <1>15 DEF InstallHelmChart, Continue, Fail, Excuse, TypeOK, helmVars
  <2>4. excuses' \in SUBSET Excuses
    BY <1>15 DEF InstallHelmChart, Continue, Fail, Excuse, TypeOK, Excuses, helmVars
  <2> QED BY <1>15, <2>1, <2>2, <2>3, <2>4 DEF InstallHelmChart, TypeOK, dbVars, storageVars,
     helmVars
<1>16. CASE WaitForJob
  <2>1. pc' \in PCs /\ failed' \in BOOLEAN
    BY <1>16 DEF WaitForJob, Continue, Fail, TypeOK, PCs
  <2> QED BY <1>16, <2>1 DEF WaitForJob, TypeOK, dbVars, storageVars, helmVars
<1>17. CASE Uninstall
  <2>1. pc' \in PCs /\ failed' \in BOOLEAN
    BY <1>17 DEF Uninstall, Continue, Excuse, TypeOK, PCs, helmVars
  <2>2. release' \in BOOLEAN
    BY <1>17 DEF Uninstall, Continue, Excuse, TypeOK, helmVars
  <2>3. job' \in {"none", "pending", "running", "succeeded", "failed"}
    BY <1>17 DEF Uninstall, Continue, Excuse, TypeOK, helmVars
  <2>4. excuses' \in SUBSET Excuses
    BY <1>17 DEF Uninstall, Continue, Excuse, TypeOK, Excuses, helmVars
  <2> QED BY <1>17, <2>1, <2>2, <2>3, <2>4 DEF Uninstall, TypeOK, dbVars, storageVars, helmVars
<1>18. CASE ReleaseClone
  <2>1. pc' \in PCs
    BY <1>18 DEF ReleaseClone, Excuse, TypeOK, PCs
  <2>2. clone' \in BOOLEAN
    BY <1>18 DEF ReleaseClone, Excuse, TypeOK
  <2>3. excuses' \in SUBSET Excuses
    BY <1>18 DEF ReleaseClone, Excuse, TypeOK, Excuses
  <2> QED BY <1>18, <2>1, <2>2, <2>3 DEF ReleaseClone, TypeOK, dbVars, storageVars, helmVars
<1>19. CASE ReleaseSnapshot
  <2>1. pc' \in PCs /\ failed' \in BOOLEAN
    BY <1>19 DEF ReleaseSnapshot, TryDelete, Continue, Excuse, TypeOK, PCs
  <2>2. snapshot' \in {"none", "made", "cut", "ready"}
    BY <1>19 DEF ReleaseSnapshot, TryDelete, Continue, Excuse, TypeOK
  <2>3. excuses' \in SUBSET Excuses
    BY <1>19 DEF ReleaseSnapshot, TryDelete, Continue, Excuse, TypeOK, Excuses
  <2> QED BY <1>19, <2>1, <2>2, <2>3 DEF ReleaseSnapshot, TypeOK, dbVars, storageVars, helmVars
<1>20. CASE WaitBreaks
  <2>1. pc' \in PCs /\ failed' \in BOOLEAN
    BY <1>20 DEF WaitBreaks, Fail, TypeOK, PCs
  <2> QED BY <1>20, <2>1 DEF WaitBreaks, TypeOK, dbVars, storageVars, helmVars
<1>21. CASE ServerLocks
  <2>1. client' \in ClientStates
    BY <1>21 DEF ServerLocks, TypeOK, ClientStates
  <2>2. count' \in 0..(MaxLeaked + 1)
    BY <1>21, MaxLeakedAssumption DEF ServerLocks, TypeOK, Counting
  <2>3. mine' \in BOOLEAN
    BY <1>21 DEF ServerLocks, TypeOK
  <2> QED BY <1>21, <2>1, <2>2, <2>3 DEF ServerLocks, TypeOK, dbVars, storageVars, helmVars
<1>22. CASE ServerUnlocks
  <2>1. client' \in ClientStates
    BY <1>22 DEF ServerUnlocks, TypeOK, ClientStates
  <2>2. count' \in 0..(MaxLeaked + 1)
    BY <1>22, MaxLeakedAssumption DEF ServerUnlocks, TypeOK, Counting
  <2>3. mine' \in BOOLEAN
    BY <1>22 DEF ServerUnlocks, TypeOK
  <2> QED BY <1>22, <2>1, <2>2, <2>3 DEF ServerUnlocks, TypeOK, dbVars, storageVars, helmVars
<1>23. CASE ClientExits
  <2>1. client' \in ClientStates
    BY <1>23 DEF ClientExits, TypeOK, ClientStates
  <2> QED BY <1>23, <2>1 DEF ClientExits, TypeOK, dbVars, storageVars, helmVars
<1>24. CASE ServerRestarts
  <2>1. client' \in ClientStates
    BY <1>24 DEF ServerRestarts, TypeOK, ClientStates
  <2>2. count' \in 0..(MaxLeaked + 1)
    BY <1>24, MaxLeakedAssumption DEF ServerRestarts, TypeOK, Counting
  <2>3. mine' \in BOOLEAN
    BY <1>24 DEF ServerRestarts, TypeOK
  <2> QED BY <1>24, <2>1, <2>2, <2>3 DEF ServerRestarts, TypeOK, dbVars, storageVars, helmVars
<1>25. CASE StreamBreaks
  <2>1. pc' \in PCs
    BY <1>25 DEF StreamBreaks, TypeOK, PCs
  <2>2. stream' \in BOOLEAN
    BY <1>25 DEF StreamBreaks, TypeOK
  <2> QED BY <1>25, <2>1, <2>2 DEF StreamBreaks, TypeOK, dbVars, storageVars, helmVars
<1>26. CASE StorageCuts
  <2>1. snapshot' \in {"none", "made", "cut", "ready"}
    BY <1>26 DEF StorageCuts, TypeOK
  <2>2. cutLocked' \in BOOLEAN
    BY <1>26, LockHeldFacts DEF StorageCuts
  <2> QED BY <1>26, <2>1, <2>2 DEF StorageCuts, TypeOK, dbVars, storageVars, helmVars
<1>27. CASE StorageFinishes
  <2>1. snapshot' \in {"none", "made", "cut", "ready"}
    BY <1>27 DEF StorageFinishes, TypeOK
  <2> QED BY <1>27, <2>1 DEF StorageFinishes, TypeOK, dbVars, storageVars, helmVars
<1>28. CASE PodChanges
  <2>1. job' \in {"none", "pending", "running", "succeeded", "failed"}
    BY <1>28 DEF PodChanges, TypeOK
  <2> QED BY <1>28, <2>1 DEF PodChanges, TypeOK, dbVars, storageVars, helmVars
<1>29. CASE Interrupt
  <2>1. cancelled' \in BOOLEAN
    BY <1>29 DEF Interrupt, TypeOK
  <2>2. stream' \in BOOLEAN
    BY <1>29 DEF Interrupt, TypeOK
  <2> QED BY <1>29, <2>1, <2>2 DEF Interrupt, TypeOK, dbVars, storageVars, helmVars
<1>30. CASE Kill
  <2>1. pc' \in PCs
    BY <1>30 DEF Kill, TypeOK, PCs
  <2>2. stream' \in BOOLEAN
    BY <1>30 DEF Kill, TypeOK
  <2> QED BY <1>30, <2>1, <2>2 DEF Kill, TypeOK, dbVars, storageVars, helmVars
<1>31. CASE UNCHANGED vars
  BY <1>31 DEF vars, TypeOK
<1> QED
  BY <1>1, <1>2, <1>3, <1>4, <1>5, <1>6, <1>7, <1>8, <1>9, <1>10, <1>11, <1>12, <1>13, <1>14,
     <1>15, <1>16, <1>17, <1>18, <1>19, <1>20, <1>21, <1>22, <1>23, <1>24, <1>25, <1>26, <1>27,
     <1>28, <1>29, <1>30, <1>31 DEF Next, Cli, Environment

\* A restart of the database as the client sees it.
LEMMA RestartFacts ==
    ASSUME ServerRestarts
    PROVE  /\ client = "held" => client' = "lost"
           /\ client \in {"sent", "releasing"} => client' = "bad"
           /\ client \notin {"held", "sent", "releasing"} => client' = client
  BY DEF ServerRestarts

\* Every step keeps the account of the locks.
LEMMA NextCounting == TypeOK /\ Counting /\ [Next]_vars => Counting'
<1> SUFFICES ASSUME TypeOK, Counting, [Next]_vars PROVE Counting'
  OBVIOUS
<1>0. /\ req \in RequestType
      /\ req.mode # "none" => req.source = "new"
  BY RequestFacts
<1> USE DEF Counting
<1>1. CASE Begin
  BY <1>0, <1>1 DEF Begin, Fail, Continue, dbVars, storageVars, helmVars
<1>2. CASE LockGivenUp
  BY <1>0, <1>2 DEF LockGivenUp, LockFails, Fail, dbVars, storageVars, helmVars
<1>3. CASE Unlock
  BY <1>0, <1>3 DEF Unlock, AfterUnlock, Continue, Fail, Excuse, dbVars, storageVars, helmVars
<1>4. CASE ServerLocks
  BY <1>0, <1>4 DEF ServerLocks, dbVars, storageVars, helmVars
<1>5. CASE ServerUnlocks
  BY <1>0, <1>5 DEF ServerUnlocks, dbVars, storageVars, helmVars
<1>6. CASE ServerRestarts
  BY MaxLeakedAssumption, RestartFacts, <1>0, <1>6 DEF ServerRestarts, dbVars, storageVars,
     helmVars
<1>7. CASE ClientExits
  BY <1>0, <1>7 DEF ClientExits, dbVars, storageVars, helmVars
<1>8. CASE LockConfirmed \/ Abandon \/ CreateSnapshot \/ WaitForCut \/ DropUncut \/
          UnlockAnswer
  BY <1>0, <1>8 DEF LockConfirmed, Continue, Abandon, CreateSnapshot, Fail, Excuse, WaitForCut,
     CutSeen, CutGivenUp, DropUncut, TryDelete, UnlockAnswer, AfterUnlock, dbVars, storageVars,
     helmVars
<1>9. CASE WaitReady \/ CloneSnapshot \/ ResolveClone \/ RollbackClone \/
          RollbackSnapshot \/ InstallHelmChart \/ WaitForJob \/ WaitBreaks \/
          Uninstall \/ ReleaseClone \/ ReleaseSnapshot \/ PodChanges
  BY <1>0, <1>9 DEF WaitReady, Continue, Fail, CloneSnapshot, Excuse, ResolveClone,
     LookupFailed, RollbackClone, TryDelete, RollbackSnapshot, InstallHelmChart, WaitForJob,
     WaitBreaks, Uninstall, ReleaseClone, ReleaseSnapshot, PodChanges, dbVars, storageVars,
     helmVars
<1>10. CASE StreamBreaks \/ StorageCuts \/ StorageFinishes \/ Interrupt \/ Kill
  BY <1>0, <1>10 DEF StreamBreaks, StorageCuts, StorageFinishes, Interrupt, Kill, dbVars,
     storageVars, helmVars
<1>11. CASE UNCHANGED vars
  BY <1>11 DEF vars
<1> QED
  BY <1>1, <1>2, <1>3, <1>4, <1>5, <1>6, <1>7, <1>8, <1>9, <1>10, <1>11 DEF Next, Cli,
     Environment

\* Every step keeps the client in step with the CLI.
LEMMA NextClientPhase == TypeOK /\ Counting /\ ClientPhase /\ [Next]_vars => ClientPhase'
<1> SUFFICES ASSUME TypeOK, Counting, ClientPhase, [Next]_vars PROVE ClientPhase'
  OBVIOUS
<1>0. /\ req \in RequestType
      /\ req.mode # "none" => req.source = "new"
  BY RequestFacts
<1> USE DEF Counting, ClientPhase, Locking, Locked
<1>1. CASE Begin
  BY <1>0, <1>1 DEF Begin, Fail, Continue, dbVars, storageVars, helmVars
<1>2. CASE LockConfirmed
  BY <1>0, <1>2 DEF LockConfirmed, Continue, dbVars, storageVars, helmVars
<1>3. CASE LockGivenUp
  BY <1>0, <1>3 DEF LockGivenUp, LockFails, Fail, dbVars, storageVars, helmVars
<1>4. CASE CreateSnapshot
  BY <1>0, <1>4 DEF CreateSnapshot, Fail, Continue, Excuse, dbVars, storageVars, helmVars
<1>5. CASE WaitForCut
  BY <1>0, <1>5 DEF WaitForCut, CutSeen, CutGivenUp, Fail, Continue, dbVars, storageVars,
     helmVars
<1>6. CASE DropUncut
  BY <1>0, <1>6 DEF DropUncut, TryDelete, Continue, Excuse, dbVars, storageVars, helmVars
<1>7. CASE Unlock
  BY <1>0, <1>7 DEF Unlock, AfterUnlock, Continue, Fail, Excuse, dbVars, storageVars, helmVars
<1>8. CASE UnlockAnswer
  BY <1>0, <1>8 DEF UnlockAnswer, AfterUnlock, Continue, Fail, Excuse, dbVars, storageVars,
     helmVars
<1>9. CASE ServerLocks
  BY <1>0, <1>9 DEF ServerLocks, dbVars, storageVars, helmVars
<1>10. CASE ServerUnlocks
  BY <1>0, <1>10 DEF ServerUnlocks, dbVars, storageVars, helmVars
<1>11. CASE ServerRestarts
  BY MaxLeakedAssumption, RestartFacts, <1>0, <1>11 DEF ServerRestarts, dbVars, storageVars,
     helmVars
<1>12. CASE ClientExits
  BY <1>0, <1>12 DEF ClientExits, dbVars, storageVars, helmVars
<1>13. CASE WaitReady \/ CloneSnapshot \/ ResolveClone \/ RollbackClone \/
          RollbackSnapshot \/ InstallHelmChart \/ WaitForJob \/ WaitBreaks \/
          Uninstall \/ ReleaseClone \/ ReleaseSnapshot \/ Abandon
  BY <1>0, <1>13 DEF WaitReady, Continue, Fail, CloneSnapshot, Excuse, ResolveClone,
     LookupFailed, RollbackClone, TryDelete, RollbackSnapshot, InstallHelmChart, WaitForJob,
     WaitBreaks, Uninstall, ReleaseClone, ReleaseSnapshot, Abandon, dbVars, storageVars,
     helmVars
<1>14. CASE StreamBreaks \/ Kill
  BY <1>0, <1>14 DEF StreamBreaks, Kill, dbVars, storageVars, helmVars
<1>15. CASE StorageCuts \/ StorageFinishes \/ PodChanges \/ Interrupt
  BY <1>0, <1>15 DEF StorageCuts, StorageFinishes, PodChanges, Interrupt, dbVars, storageVars,
     helmVars
<1>16. CASE UNCHANGED vars
  BY <1>16 DEF vars
<1> QED
  BY <1>1, <1>2, <1>3, <1>4, <1>5, <1>6, <1>7, <1>8, <1>9, <1>10, <1>11, <1>12, <1>13, <1>14,
     <1>15, <1>16 DEF Next, Cli, Environment

\* Every step keeps the cut under the lock.
LEMMA NextCutUnderLock == TypeOK /\ Counting /\ ClientPhase /\ CutUnderLock /\ [Next]_vars => CutUnderLock'
<1> SUFFICES ASSUME TypeOK, Counting, ClientPhase, CutUnderLock, [Next]_vars PROVE CutUnderLock'
  OBVIOUS
<1>0. /\ req \in RequestType
      /\ req.mode # "none" => req.source = "new"
  BY RequestFacts
<1> USE DEF Counting, ClientPhase, CutUnderLock, Locking, Locked, IsCut, LockHeld
<1>1. CASE Begin
  BY <1>0, <1>1 DEF Begin, Fail, Continue, dbVars, storageVars, helmVars
<1>2. CASE LockConfirmed
  BY <1>0, <1>2 DEF LockConfirmed, Continue, dbVars, storageVars, helmVars
<1>3. CASE LockGivenUp
  BY <1>0, <1>3 DEF LockGivenUp, LockFails, Fail, dbVars, storageVars, helmVars
<1>4. CASE CreateSnapshot
  BY <1>0, <1>4 DEF CreateSnapshot, Fail, Continue, Excuse, dbVars, storageVars, helmVars
<1>5. CASE WaitForCut
  BY <1>0, <1>5 DEF WaitForCut, CutSeen, CutGivenUp, Fail, Continue, dbVars, storageVars,
     helmVars
<1>6. CASE DropUncut
  BY <1>0, <1>6 DEF DropUncut, TryDelete, Continue, Excuse, dbVars, storageVars, helmVars
<1>7. CASE Unlock
  BY <1>0, <1>7 DEF Unlock, AfterUnlock, Continue, Fail, Excuse, dbVars, storageVars, helmVars
<1>8. CASE UnlockAnswer
  BY <1>0, <1>8 DEF UnlockAnswer, AfterUnlock, Continue, Fail, Excuse, dbVars, storageVars,
     helmVars
<1>9. CASE ServerLocks
  BY <1>0, <1>9 DEF ServerLocks, dbVars, storageVars, helmVars
<1>10. CASE ServerUnlocks
  BY <1>0, <1>10 DEF ServerUnlocks, dbVars, storageVars, helmVars
<1>11. CASE ServerRestarts
  BY MaxLeakedAssumption, RestartFacts, <1>0, <1>11 DEF ServerRestarts, dbVars, storageVars,
     helmVars
<1>12. CASE ClientExits
  BY <1>0, <1>12 DEF ClientExits, dbVars, storageVars, helmVars
<1>13. CASE StorageCuts
  BY <1>0, <1>13 DEF StorageCuts, dbVars, storageVars, helmVars
<1>14. CASE WaitReady \/ CloneSnapshot \/ ResolveClone \/ RollbackClone \/
          RollbackSnapshot \/ InstallHelmChart \/ WaitForJob \/ WaitBreaks \/
          Uninstall \/ ReleaseClone \/ ReleaseSnapshot \/ Abandon
  BY <1>0, <1>14 DEF WaitReady, Continue, Fail, CloneSnapshot, Excuse, ResolveClone,
     LookupFailed, RollbackClone, TryDelete, RollbackSnapshot, InstallHelmChart, WaitForJob,
     WaitBreaks, Uninstall, ReleaseClone, ReleaseSnapshot, Abandon, dbVars, storageVars,
     helmVars
<1>15. CASE StreamBreaks \/ Kill
  BY <1>0, <1>15 DEF StreamBreaks, Kill, dbVars, storageVars, helmVars
<1>16. CASE StorageFinishes \/ PodChanges \/ Interrupt
  BY <1>0, <1>16 DEF StorageFinishes, PodChanges, Interrupt, dbVars, storageVars, helmVars
<1>17. CASE UNCHANGED vars
  BY <1>17 DEF vars
<1> QED
  BY <1>1, <1>2, <1>3, <1>4, <1>5, <1>6, <1>7, <1>8, <1>9, <1>10, <1>11, <1>12, <1>13, <1>14,
     <1>15, <1>16, <1>17 DEF Next, Cli, Environment

\* Every step keeps a prepared backup prepared.
LEMMA NextSecured == TypeOK /\ Counting /\ ClientPhase /\ CutUnderLock /\ Secured /\ [Next]_vars => Secured'
<1> SUFFICES ASSUME TypeOK, Counting, ClientPhase, CutUnderLock, Secured, [Next]_vars PROVE Secured'
  OBVIOUS
<1>0. /\ req \in RequestType
      /\ req.mode # "none" => req.source = "new"
  BY RequestFacts
<1> USE DEF ClientPhase, CutUnderLock, Secured, Prepared, Installed, Locking, IsCut
<1>1. CASE Begin
  BY <1>0, <1>1 DEF Begin, Fail, Continue, dbVars, storageVars, helmVars
<1>2. CASE LockConfirmed
  BY <1>0, <1>2 DEF LockConfirmed, Continue, dbVars, storageVars, helmVars
<1>3. CASE LockGivenUp
  BY <1>0, <1>3 DEF LockGivenUp, LockFails, Fail, dbVars, storageVars, helmVars
<1>4. CASE CreateSnapshot
  BY <1>0, <1>4 DEF CreateSnapshot, Fail, Continue, Excuse, dbVars, storageVars, helmVars
<1>5. CASE WaitForCut
  BY <1>0, <1>5 DEF WaitForCut, CutSeen, CutGivenUp, Fail, Continue, dbVars, storageVars,
     helmVars
<1>6. CASE DropUncut
  BY <1>0, <1>6 DEF DropUncut, TryDelete, Continue, Excuse, dbVars, storageVars, helmVars
<1>7. CASE Unlock
  BY <1>0, <1>7 DEF Unlock, AfterUnlock, Continue, Fail, Excuse, dbVars, storageVars, helmVars
<1>8. CASE UnlockAnswer
  BY <1>0, <1>8 DEF UnlockAnswer, AfterUnlock, Continue, Fail, Excuse, ReleaseConfirmed,
     ReleaseRefused, dbVars, storageVars, helmVars
<1>9. CASE ServerLocks
  BY <1>0, <1>9 DEF ServerLocks, dbVars, storageVars, helmVars
<1>10. CASE ServerUnlocks
  BY <1>0, <1>10 DEF ServerUnlocks, dbVars, storageVars, helmVars
<1>11. CASE ServerRestarts
  BY MaxLeakedAssumption, RestartFacts, <1>0, <1>11 DEF ServerRestarts, dbVars, storageVars,
     helmVars
<1>12. CASE ClientExits
  BY <1>0, <1>12 DEF ClientExits, dbVars, storageVars, helmVars
<1>13. CASE WaitReady \/ CloneSnapshot \/ ResolveClone \/ RollbackClone \/
          RollbackSnapshot \/ InstallHelmChart \/ WaitForJob \/ WaitBreaks \/
          Uninstall \/ ReleaseClone \/ ReleaseSnapshot \/ Abandon
  BY <1>0, <1>13 DEF WaitReady, Continue, Fail, CloneSnapshot, Excuse, ResolveClone,
     LookupFailed, RollbackClone, TryDelete, RollbackSnapshot, InstallHelmChart, WaitForJob,
     WaitBreaks, Uninstall, ReleaseClone, ReleaseSnapshot, Abandon, dbVars, storageVars,
     helmVars
<1>14. CASE StreamBreaks \/ Kill
  BY <1>0, <1>14 DEF StreamBreaks, Kill, dbVars, storageVars, helmVars
<1>15. CASE StorageCuts \/ StorageFinishes \/ PodChanges \/ Interrupt
  BY <1>0, <1>15 DEF StorageCuts, StorageFinishes, PodChanges, Interrupt, dbVars, storageVars,
     helmVars
<1>16. CASE UNCHANGED vars
  BY <1>16 DEF vars
<1> QED
  BY <1>1, <1>2, <1>3, <1>4, <1>5, <1>6, <1>7, <1>8, <1>9, <1>10, <1>11, <1>12, <1>13, <1>14,
     <1>15, <1>16 DEF Next, Cli, Environment

\* Every step keeps a confirmed lock accounted for.
LEMMA NextAccounted == TypeOK /\ ClientPhase /\ CutUnderLock /\ Accounted /\ [Next]_vars => Accounted'
<1> SUFFICES ASSUME TypeOK, ClientPhase, CutUnderLock, Accounted, [Next]_vars PROVE Accounted'
  OBVIOUS
<1>0. /\ req \in RequestType
      /\ req.mode # "none" => req.source = "new"
  BY RequestFacts
<1> USE DEF ClientPhase, CutUnderLock, Accounted, Locking, Locked
<1>1. CASE Begin
  BY <1>0, <1>1 DEF Begin, Fail, Continue, dbVars, storageVars, helmVars
<1>2. CASE LockConfirmed
  BY <1>0, <1>2 DEF LockConfirmed, Continue, dbVars, storageVars, helmVars
<1>3. CASE LockGivenUp
  BY <1>0, <1>3 DEF LockGivenUp, LockFails, Fail, dbVars, storageVars, helmVars
<1>4. CASE CreateSnapshot
  BY <1>0, <1>4 DEF CreateSnapshot, Fail, Continue, Excuse, dbVars, storageVars, helmVars
<1>5. CASE WaitForCut
  BY <1>0, <1>5 DEF WaitForCut, CutSeen, CutGivenUp, Fail, Continue, dbVars, storageVars,
     helmVars
<1>6. CASE DropUncut
  BY <1>0, <1>6 DEF DropUncut, TryDelete, Continue, Excuse, dbVars, storageVars, helmVars
<1>7. CASE Unlock
  BY <1>0, <1>7 DEF Unlock, AfterUnlock, Continue, Fail, Excuse, dbVars, storageVars, helmVars
<1>8. CASE UnlockAnswer
  BY <1>0, <1>8 DEF UnlockAnswer, AfterUnlock, Continue, Fail, Excuse, ReleaseConfirmed,
     ReleaseRefused, dbVars, storageVars, helmVars
<1>9. CASE ServerLocks
  BY <1>0, <1>9 DEF ServerLocks, dbVars, storageVars, helmVars
<1>10. CASE ServerUnlocks
  BY <1>0, <1>10 DEF ServerUnlocks, dbVars, storageVars, helmVars
<1>11. CASE ServerRestarts
  BY MaxLeakedAssumption, RestartFacts, <1>0, <1>11 DEF ServerRestarts, dbVars, storageVars,
     helmVars
<1>12. CASE ClientExits
  BY <1>0, <1>12 DEF ClientExits, dbVars, storageVars, helmVars
<1>13. CASE WaitReady \/ CloneSnapshot \/ ResolveClone \/ RollbackClone \/
          RollbackSnapshot \/ InstallHelmChart \/ WaitForJob \/ WaitBreaks \/
          Uninstall \/ ReleaseClone \/ ReleaseSnapshot \/ Abandon
  BY <1>0, <1>13 DEF WaitReady, Continue, Fail, CloneSnapshot, Excuse, ResolveClone,
     LookupFailed, RollbackClone, TryDelete, RollbackSnapshot, InstallHelmChart, WaitForJob,
     WaitBreaks, Uninstall, ReleaseClone, ReleaseSnapshot, Abandon, dbVars, storageVars,
     helmVars
<1>14. CASE StreamBreaks \/ Kill
  BY <1>0, <1>14 DEF StreamBreaks, Kill, dbVars, storageVars, helmVars
<1>15. CASE StorageCuts \/ StorageFinishes \/ PodChanges \/ Interrupt
  BY <1>0, <1>15 DEF StorageCuts, StorageFinishes, PodChanges, Interrupt, dbVars, storageVars,
     helmVars
<1>16. CASE UNCHANGED vars
  BY <1>16 DEF vars
<1> QED
  BY <1>1, <1>2, <1>3, <1>4, <1>5, <1>6, <1>7, <1>8, <1>9, <1>10, <1>11, <1>12, <1>13, <1>14,
     <1>15, <1>16 DEF Next, Cli, Environment

\* Every step keeps what was made within reach of the deferred calls.
LEMMA NextTakenBack == TypeOK /\ TakenBack /\ [Next]_vars => TakenBack'
<1> SUFFICES ASSUME TypeOK, TakenBack, [Next]_vars PROVE TakenBack'
  OBVIOUS
<1>0. /\ req \in RequestType
      /\ req.mode # "none" => req.source = "new"
  BY RequestFacts
<1> USE DEF TakenBack, RemoveSnapshot, SourceKept
<1>1. CASE Begin
  BY <1>0, <1>1 DEF Begin, Fail, Continue, dbVars, storageVars, helmVars
<1>2. CASE LockConfirmed
  BY <1>0, <1>2 DEF LockConfirmed, Continue, dbVars, storageVars, helmVars
<1>3. CASE LockGivenUp
  BY <1>0, <1>3 DEF LockGivenUp, LockFails, Fail, dbVars, storageVars, helmVars
<1>4. CASE Abandon
  BY <1>0, <1>4 DEF Abandon, dbVars, storageVars, helmVars
<1>5. CASE CreateSnapshot
  BY <1>0, <1>5 DEF CreateSnapshot, Fail, Continue, Excuse, dbVars, storageVars, helmVars
<1>6. CASE WaitForCut
  BY <1>0, <1>6 DEF WaitForCut, CutSeen, CutGivenUp, Fail, Continue, dbVars, storageVars,
     helmVars
<1>7. CASE DropUncut
  BY <1>0, <1>7 DEF DropUncut, TryDelete, Continue, Excuse, dbVars, storageVars, helmVars
<1>8. CASE Unlock
  BY <1>0, <1>8 DEF Unlock, AfterUnlock, Continue, Fail, Excuse, dbVars, storageVars, helmVars
<1>9. CASE UnlockAnswer
  BY <1>0, <1>9 DEF UnlockAnswer, AfterUnlock, Continue, Fail, Excuse, dbVars, storageVars,
     helmVars
<1>10. CASE WaitReady
  BY <1>0, <1>10 DEF WaitReady, Continue, Fail, dbVars, storageVars, helmVars
<1>11. CASE CloneSnapshot
  BY <1>0, <1>11 DEF CloneSnapshot, Continue, Fail, Excuse, dbVars, storageVars, helmVars
<1>12. CASE ResolveClone
  BY <1>0, <1>12 DEF ResolveClone, LookupFailed, Continue, Fail, dbVars, storageVars, helmVars
<1>13. CASE RollbackClone
  BY <1>0, <1>13 DEF RollbackClone, TryDelete, Continue, Excuse, dbVars, storageVars, helmVars
<1>14. CASE RollbackSnapshot
  BY <1>0, <1>14 DEF RollbackSnapshot, TryDelete, Continue, Excuse, dbVars, storageVars,
     helmVars
<1>15. CASE InstallHelmChart
  BY <1>0, <1>15 DEF InstallHelmChart, Continue, Fail, Excuse, dbVars, storageVars, helmVars
<1>16. CASE Uninstall
  BY <1>0, <1>16 DEF Uninstall, Continue, Excuse, dbVars, storageVars, helmVars
<1>17. CASE ReleaseClone
  BY <1>0, <1>17 DEF ReleaseClone, Excuse, dbVars, storageVars, helmVars
<1>18. CASE ReleaseSnapshot
  BY <1>0, <1>18 DEF ReleaseSnapshot, TryDelete, Continue, Excuse, dbVars, storageVars, helmVars
<1>19. CASE WaitForJob \/ WaitBreaks
  BY <1>0, <1>19 DEF WaitForJob, Continue, Fail, WaitBreaks, dbVars, storageVars, helmVars
<1>20. CASE ServerLocks \/ ServerUnlocks \/ ServerRestarts \/ ClientExits \/
          PodChanges \/ Interrupt
  BY MaxLeakedAssumption, RestartFacts, <1>0, <1>20 DEF ServerLocks, ServerUnlocks,
     ServerRestarts, ClientExits, PodChanges, Interrupt, dbVars, storageVars, helmVars
<1>21. CASE StorageCuts \/ StorageFinishes
  BY <1>0, <1>21 DEF StorageCuts, StorageFinishes, dbVars, storageVars, helmVars
<1>22. CASE StreamBreaks \/ Kill
  BY <1>0, <1>22 DEF StreamBreaks, Kill, dbVars, storageVars, helmVars
<1>23. CASE UNCHANGED vars
  BY <1>23 DEF vars
<1> QED
  BY <1>1, <1>2, <1>3, <1>4, <1>5, <1>6, <1>7, <1>8, <1>9, <1>10, <1>11, <1>12, <1>13, <1>14,
     <1>15, <1>16, <1>17, <1>18, <1>19, <1>20, <1>21, <1>22, <1>23 DEF Next, Cli, Environment

\* Every step keeps a snapshot that is to stay.
LEMMA NextLeftAlone == TypeOK /\ LeftAlone /\ [Next]_vars => LeftAlone'
<1> SUFFICES ASSUME TypeOK, LeftAlone, [Next]_vars PROVE LeftAlone'
  OBVIOUS
<1>0. /\ req \in RequestType
      /\ req.mode # "none" => req.source = "new"
  BY RequestFacts
<1> USE DEF LeftAlone, Locked, RemoveSnapshot
<1>1. CASE Begin
  BY <1>0, <1>1 DEF Begin, Fail, Continue, dbVars, storageVars, helmVars
<1>2. CASE LockConfirmed
  BY <1>0, <1>2 DEF LockConfirmed, Continue, dbVars, storageVars, helmVars
<1>3. CASE LockGivenUp
  BY <1>0, <1>3 DEF LockGivenUp, LockFails, Fail, dbVars, storageVars, helmVars
<1>4. CASE Abandon
  BY <1>0, <1>4 DEF Abandon, dbVars, storageVars, helmVars
<1>5. CASE CreateSnapshot
  BY <1>0, <1>5 DEF CreateSnapshot, Fail, Continue, Excuse, dbVars, storageVars, helmVars
<1>6. CASE WaitForCut
  BY <1>0, <1>6 DEF WaitForCut, CutSeen, CutGivenUp, Fail, Continue, dbVars, storageVars,
     helmVars
<1>7. CASE DropUncut
  BY <1>0, <1>7 DEF DropUncut, TryDelete, Continue, Excuse, dbVars, storageVars, helmVars
<1>8. CASE Unlock
  BY <1>0, <1>8 DEF Unlock, AfterUnlock, Continue, Fail, Excuse, dbVars, storageVars, helmVars
<1>9. CASE UnlockAnswer
  BY <1>0, <1>9 DEF UnlockAnswer, AfterUnlock, Continue, Fail, Excuse, dbVars, storageVars,
     helmVars
<1>10. CASE WaitReady
  BY <1>0, <1>10 DEF WaitReady, Continue, Fail, dbVars, storageVars, helmVars
<1>11. CASE CloneSnapshot
  BY <1>0, <1>11 DEF CloneSnapshot, Continue, Fail, Excuse, dbVars, storageVars, helmVars
<1>12. CASE ResolveClone
  BY <1>0, <1>12 DEF ResolveClone, LookupFailed, Continue, Fail, dbVars, storageVars, helmVars
<1>13. CASE RollbackClone
  BY <1>0, <1>13 DEF RollbackClone, TryDelete, Continue, Excuse, dbVars, storageVars, helmVars
<1>14. CASE RollbackSnapshot
  BY <1>0, <1>14 DEF RollbackSnapshot, TryDelete, Continue, Excuse, dbVars, storageVars,
     helmVars
<1>15. CASE InstallHelmChart
  BY <1>0, <1>15 DEF InstallHelmChart, Continue, Fail, Excuse, dbVars, storageVars, helmVars
<1>16. CASE Uninstall
  BY <1>0, <1>16 DEF Uninstall, Continue, Excuse, dbVars, storageVars, helmVars
<1>17. CASE ReleaseClone
  BY <1>0, <1>17 DEF ReleaseClone, Excuse, dbVars, storageVars, helmVars
<1>18. CASE ReleaseSnapshot
  BY <1>0, <1>18 DEF ReleaseSnapshot, TryDelete, Continue, Excuse, dbVars, storageVars, helmVars
<1>19. CASE WaitForJob \/ WaitBreaks
  BY <1>0, <1>19 DEF WaitForJob, Continue, Fail, WaitBreaks, dbVars, storageVars, helmVars
<1>20. CASE ServerLocks \/ ServerUnlocks \/ ServerRestarts \/ ClientExits \/
          PodChanges \/ Interrupt
  BY MaxLeakedAssumption, RestartFacts, <1>0, <1>20 DEF ServerLocks, ServerUnlocks,
     ServerRestarts, ClientExits, PodChanges, Interrupt, dbVars, storageVars, helmVars
<1>21. CASE StorageCuts \/ StorageFinishes
  BY <1>0, <1>21 DEF StorageCuts, StorageFinishes, dbVars, storageVars, helmVars
<1>22. CASE StreamBreaks \/ Kill
  BY <1>0, <1>22 DEF StreamBreaks, Kill, dbVars, storageVars, helmVars
<1>23. CASE UNCHANGED vars
  BY <1>23 DEF vars
<1> QED
  BY <1>1, <1>2, <1>3, <1>4, <1>5, <1>6, <1>7, <1>8, <1>9, <1>10, <1>11, <1>12, <1>13, <1>14,
     <1>15, <1>16, <1>17, <1>18, <1>19, <1>20, <1>21, <1>22, <1>23 DEF Next, Cli, Environment

\* Every step keeps the clone of a release that is read from.
LEMMA NextCloneBacksRelease == TypeOK /\ Secured /\ CloneBacksRelease /\ [Next]_vars => CloneBacksRelease'
<1> SUFFICES ASSUME TypeOK, Secured, CloneBacksRelease, [Next]_vars PROVE CloneBacksRelease'
  OBVIOUS
<1>0. /\ req \in RequestType
      /\ req.mode # "none" => req.source = "new"
  BY RequestFacts
<1> USE DEF Secured, Installed, CloneBacksRelease, HelmFine, SourceKept
<1>1. CASE Begin
  BY <1>0, <1>1 DEF Begin, Fail, Continue, dbVars, storageVars, helmVars
<1>2. CASE LockConfirmed \/ LockGivenUp \/ Abandon \/ CreateSnapshot \/ WaitForCut \/
          DropUncut
  BY <1>0, <1>2 DEF LockConfirmed, Continue, LockGivenUp, LockFails, Fail, Abandon,
     CreateSnapshot, Excuse, WaitForCut, CutSeen, CutGivenUp, DropUncut, TryDelete, dbVars,
     storageVars, helmVars
<1>3. CASE Unlock \/ UnlockAnswer
  BY <1>0, <1>3 DEF Unlock, AfterUnlock, Continue, Fail, Excuse, UnlockAnswer, dbVars,
     storageVars, helmVars
<1>4. CASE WaitReady
  BY <1>0, <1>4 DEF WaitReady, Continue, Fail, dbVars, storageVars, helmVars
<1>5. CASE CloneSnapshot
  BY <1>0, <1>5 DEF CloneSnapshot, Continue, Fail, Excuse, dbVars, storageVars, helmVars
<1>6. CASE ResolveClone
  BY <1>0, <1>6 DEF ResolveClone, LookupFailed, Continue, Fail, dbVars, storageVars, helmVars
<1>7. CASE RollbackClone
  BY <1>0, <1>7 DEF RollbackClone, TryDelete, Continue, Excuse, dbVars, storageVars, helmVars
<1>8. CASE RollbackSnapshot
  BY <1>0, <1>8 DEF RollbackSnapshot, TryDelete, Continue, Excuse, dbVars, storageVars, helmVars
<1>9. CASE InstallHelmChart
  BY <1>0, <1>9 DEF InstallHelmChart, Continue, Fail, Excuse, dbVars, storageVars, helmVars
<1>10. CASE Uninstall
  BY <1>0, <1>10 DEF Uninstall, Continue, Excuse, ReleaseKept, dbVars, storageVars, helmVars
<1>11. CASE ReleaseClone
  BY <1>0, <1>11 DEF ReleaseClone, Excuse, dbVars, storageVars, helmVars
<1>12. CASE ReleaseSnapshot
  BY <1>0, <1>12 DEF ReleaseSnapshot, TryDelete, Continue, Excuse, dbVars, storageVars, helmVars
<1>13. CASE WaitForJob \/ WaitBreaks
  BY <1>0, <1>13 DEF WaitForJob, Continue, Fail, WaitBreaks, dbVars, storageVars, helmVars
<1>14. CASE ServerLocks \/ ServerUnlocks \/ ServerRestarts \/ ClientExits \/
          PodChanges \/ Interrupt \/ StorageCuts \/ StorageFinishes
  BY MaxLeakedAssumption, RestartFacts, <1>0, <1>14 DEF ServerLocks, ServerUnlocks,
     ServerRestarts, ClientExits, PodChanges, Interrupt, StorageCuts, StorageFinishes, dbVars,
     storageVars, helmVars
<1>15. CASE StreamBreaks \/ Kill
  BY <1>0, <1>15 DEF StreamBreaks, Kill, dbVars, storageVars, helmVars
<1>16. CASE UNCHANGED vars
  BY <1>16 DEF vars
<1> QED
  BY <1>1, <1>2, <1>3, <1>4, <1>5, <1>6, <1>7, <1>8, <1>9, <1>10, <1>11, <1>12, <1>13, <1>14,
     <1>15, <1>16 DEF Next, Cli, Environment

\* The whole invariant.
IInv == LockInv /\ TakenBack /\ LeftAlone /\ CloneBacksRelease

\* It holds when a run starts.
LEMMA InitIInv == Init => IInv
<1> SUFFICES ASSUME Init PROVE IInv
  OBVIOUS
<1> USE DEF Init
<1>1. TypeOK
  <2>1. count \in 0..(MaxLeaked + 1)
    BY MaxLeakedAssumption
  <2> QED BY <2>1 DEF TypeOK, PCs, ClientStates
<1>2. req \in RequestType /\ (req.mode # "none" => req.source = "new")
  BY <1>1, RequestFacts
<1>3. Counting
  BY MaxLeakedAssumption DEF Counting
<1>4. ClientPhase /\ CutUnderLock /\ Secured /\ Accounted
  BY <1>2 DEF ClientPhase, CutUnderLock, Secured, Accounted, Locking, Locked, Prepared
<1>5. TakenBack
  BY <1>2 DEF TakenBack, RemoveSnapshot
<1>6. CloneBacksRelease
  BY <1>2 DEF CloneBacksRelease
<1>7. LeftAlone
  BY <1>2 DEF LeftAlone, Locked
<1> QED BY <1>1, <1>3, <1>4, <1>5, <1>6, <1>7 DEF IInv, LockInv

\* It holds throughout a run.
LEMMA Invariance == Spec => []IInv
<1>1. IInv /\ [Next]_vars => IInv'
  BY NextType, NextCounting, NextClientPhase, NextCutUnderLock, NextSecured, NextAccounted,
     NextTakenBack, NextLeftAlone, NextCloneBacksRelease
  DEF IInv, LockInv
<1> QED BY <1>1, InitIInv, PTL DEF Spec

-----------------------------------------------------------------------------
\* Every reachable state is well typed; in particular a run adds at most one lock
\* to those the server counted before it.
THEOREM TypeCorrect == Spec => []TypeOK
<1>1. IInv => TypeOK
  BY DEF IInv, LockInv
<1> QED BY <1>1, Invariance, PTL

\* A backup under --flush reads only what was cut while this run's lock was held:
\* quiesce, the wait for the cut and the checked release make sure of it across
\* restarts of the database, dropped streams, signals and leaked locks.
THEOREM CutIsConsistent == Spec => []ConsistentCut
<1>1. IInv => ConsistentCut
  BY DEF IInv, LockInv, Secured, ConsistentCut
<1> QED BY <1>1, Invariance, PTL

\* No backup job exists while the database is locked by the run.
THEOREM NoLockDuringBackup == Spec => []LockGoneBeforeBackup
<1>1. IInv => LockGoneBeforeBackup
  BY DEF IInv, LockInv, Secured, LockGoneBeforeBackup, LockHeld
<1> QED BY <1>1, Invariance, PTL

\* A lock that quiescePair confirmed is released, or the run reports that it is not.
THEOREM ConfirmedReleased == Spec => []ConfirmedLockReleased
<1>1. IInv => ConfirmedLockReleased
  BY DEF IInv, LockInv, Accounted, ConfirmedLockReleased, Locked
<1> QED BY <1>1, Invariance, PTL

\* The deferred removals of prepareSnapshotSource and Run cover every way out: what
\* a run made is gone when it ends, unless a removal failed or a flag kept it.
THEOREM NothingLeft == Spec => []NoLeftovers
<1>1. IInv => NoLeftovers
  BY DEF IInv, TakenBack, NoLeftovers
<1> QED BY <1>1, Invariance, PTL

\* A snapshot given with --from-snapshot is never removed, and one to be kept is
\* there after a backup that succeeded.
THEOREM SnapshotStays == Spec => []SnapshotSurvives
<1>1. IInv => SnapshotSurvives
  BY DEF IInv, LeftAlone, SnapshotSurvives
<1> QED BY <1>1, Invariance, PTL

\* The clone outlives the job that reads it, since handleJobCompletion uninstalls
\* before releaseSnapshotSource deletes and both skip on the same flags.
THEOREM CloneOutlivesJob == Spec => []JobKeepsItsClone
<1>1. IInv => JobKeepsItsClone
  BY DEF IInv, CloneBacksRelease, JobKeepsItsClone, HelmFine
<1> QED BY <1>1, Invariance, PTL

-----------------------------------------------------------------------------
(* The wait for the backup job against the contract that JobWait is shown to  *)
(* keep                                                                       *)

\* What the wait has returned.
WaitVerdict == IF pc # "uninstall" THEN "none" ELSE IF failed THEN "error" ELSE "nil"

Job == INSTANCE JobVerdict WITH phase <- job, verdict <- WaitVerdict

\* While a backup that does not detach waits, its job, the context and the answer
\* move as the contract of the wait allows, and in no other way.
WaitsAsPromised == [][pc = "wait" /\ ~req.detach => [Job!Next]_(Job!vars)]_vars

\* handleJobCompletion assumes no more of the wait than WaitForJobCompletion
\* promises.
THEOREM AssumesThePromise == Spec => WaitsAsPromised
<1>1. ASSUME IInv, [Next]_vars, pc = "wait", ~req.detach PROVE [Job!Next]_(Job!vars)
  <2> USE <1>1 DEF Job!vars
  <2>1. CASE WaitForJob \/ WaitBreaks
    <3>1. /\ pc' = "uninstall" /\ UNCHANGED <<job, cancelled>>
          /\ failed' \/ job = "succeeded"
      BY <2>1 DEF WaitForJob, WaitBreaks, JobAnswered, Continue, Fail, helmVars
    <3> QED BY <3>1 DEF Job!Next, Job!Decide, WaitVerdict
  <2>2. CASE Interrupt \/ Kill
    <3>1. /\ UNCHANGED job /\ pc' \in {"wait", "killed"}
          /\ cancelled' = TRUE \/ UNCHANGED cancelled
      BY <2>2 DEF Interrupt, Kill, helmVars
    <3> QED BY <3>1 DEF Job!Next, Job!Interrupt, WaitVerdict
  <2>3. CASE PodChanges
    BY <2>3 DEF PodChanges, Job!Next, Job!PodChanges, WaitVerdict
  <2>4. CASE ServerLocks \/ ServerUnlocks \/ ClientExits \/ ServerRestarts \/ StreamBreaks
             \/ StorageCuts \/ StorageFinishes
    <3>1. UNCHANGED <<pc, job, cancelled, failed>>
      BY <2>4 DEF ServerLocks, ServerUnlocks, ClientExits, ServerRestarts, StreamBreaks,
         StorageCuts, StorageFinishes, helmVars
    <3> QED BY <3>1 DEF WaitVerdict
  <2>5. CASE UNCHANGED vars
    BY <2>5 DEF vars, WaitVerdict
  <2>6. ~(\/ Begin \/ LockConfirmed \/ LockGivenUp \/ Abandon \/ CreateSnapshot \/ WaitForCut
          \/ DropUncut \/ Unlock \/ UnlockAnswer \/ WaitReady \/ CloneSnapshot \/ ResolveClone
          \/ RollbackClone \/ RollbackSnapshot \/ InstallHelmChart \/ Uninstall \/ ReleaseClone
          \/ ReleaseSnapshot)
    BY DEF Begin, LockConfirmed, LockGivenUp, Abandon, CreateSnapshot, WaitForCut, DropUncut,
       Unlock, UnlockAnswer, WaitReady, CloneSnapshot, ResolveClone, RollbackClone,
       RollbackSnapshot, InstallHelmChart, Uninstall, ReleaseClone, ReleaseSnapshot
  <2> QED BY <2>1, <2>2, <2>3, <2>4, <2>5, <2>6 DEF Next, Cli, Environment
<1>2. IInv /\ [Next]_vars => [pc = "wait" /\ ~req.detach => [Job!Next]_(Job!vars)]_vars
  BY <1>1
<1> QED BY <1>2, Invariance, PTL DEF Spec, WaitsAsPromised

\* The backup is ready for every verdict the contract allows, success after an
\* interrupt included.
THEOREM TakesEveryVerdict ==
    ASSUME IInv, pc = "wait", ~req.detach,
           Job!Decide, pc' = "uninstall", failed' \in BOOLEAN,
           UNCHANGED <<req, dbVars, storageVars, clone, helmVars, confirmed, excuses>>
    PROVE  WaitForJob \/ WaitBreaks
<1>1. cancelled' = cancelled
  BY DEF Job!Decide
<1>2. CASE failed' = TRUE
  BY <1>1, <1>2 DEF WaitBreaks, Fail
<1>3. CASE failed' = FALSE
  <2>1. job = "succeeded"
    BY <1>3 DEF Job!Decide, WaitVerdict
  <2>2. failed = FALSE
    BY DEF IInv, LockInv, TypeOK, TakenBack
  <2> QED BY <1>1, <1>3, <2>1, <2>2 DEF WaitForJob, JobAnswered, Continue
<1> QED BY <1>2, <1>3

=============================================================================
