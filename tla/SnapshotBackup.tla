--------------------------- MODULE SnapshotBackup ---------------------------
(***************************************************************************)
(* `pv-migrate backup` of a claim, of a new snapshot of it, or of a        *)
(* snapshot that exists (internal/bucketstorage, internal/flush,           *)
(* internal/snapshot).  A new snapshot may be cut under a database lock    *)
(* taken by a client process in the database's pod:                        *)
(*                                                                         *)
(*   session  one client holds the lock in its connection (mysql, mariadb) *)
(*   pair     one command locks, another unlocks, and the server counts    *)
(*            (mongodb); a count an earlier run leaked may be there        *)
(*   oneshot  a command that holds nothing (postgres, scylladb)            *)
(*                                                                         *)
(* The CLI steps through the control points below.  Around it move the     *)
(* client process and the server it talks to, the storage system, the      *)
(* backup job, the exec stream, and the signals that interrupt or kill the *)
(* CLI.  What the run leaves in the cluster is state: the lock, the        *)
(* snapshot, the cloned claim, the Helm release and its job.               *)
(***************************************************************************)
EXTENDS Integers, FiniteSets

CONSTANTS
    Requests,   \* what the command line may ask for, see RequestType
    MaxLeaked   \* locks an earlier run may have left on the server (a bound)

Modes == {"none", "oneshot", "session", "pair"}

\* The fields of bucketstorage.Request that steer the sequence: what is backed
\* up, the mode of --flush, and the flags about what is left behind.
RequestType == [source : {"live", "new", "existing"}, mode : Modes, keep : BOOLEAN,
                detach : BOOLEAN, noCleanup : BOOLEAN, noCleanupOnFailure : BOOLEAN]

\* validateSnapshotRequest: a flush goes with a new snapshot only.
Valid(q) == q.mode # "none" => q.source = "new"

ASSUME RequestsAssumption ==
    Requests \subseteq RequestType /\ \A q \in Requests : Valid(q)

ASSUME MaxLeakedAssumption == MaxLeaked \in Nat

PCs == {"start", "lock", "abandon", "create", "cut", "dropUncut", "unlock", "unlocking",
        "ready", "clone", "resolve", "rollbackClone", "rollbackSnapshot", "install",
        "wait", "uninstall", "releaseClone", "releaseSnapshot", "done", "killed"}

\* The client process in the database's pod.  "sent": its command has not taken
\* effect.  "held": the session owns the lock.  "lost": the session's connection
\* is gone and it does not know.  "releasing": the unlock was sent.  "ok", "bad":
\* it exited, with a good or a bad answer.
ClientStates == {"none", "sent", "held", "lost", "releasing", "ok", "bad"}

VARIABLES
    req,        \* the request
    pc,         \* where the CLI is
    cancelled,  \* ctx.Err() # nil
    failed,     \* an error is being returned
    stream,     \* the exec stream to the client is up and its stdin open
    client,     \* the client process
    count,      \* the server's lock count (pair)
    snapshot,   \* the VolumeSnapshot the run works from
    clone,      \* the cloned claim exists
    release,    \* the Helm release exists
    job         \* phase of the pod of the backup job

\* History variables: they record facts and no action reads them.
VARIABLES
    mine,       \* the lock of this run is among those the server counts
    confirmed,  \* the run was told that its lock is taken
    cutLocked,  \* the snapshot was cut while the lock of this run was held
    excuses     \* what went wrong on the way to taking things back

dbVars == <<stream, client, count, mine>>
storageVars == <<snapshot, cutLocked>>
helmVars == <<release, job>>
vars == <<req, pc, cancelled, failed, stream, client, count, snapshot, clone, release, job,
          mine, confirmed, cutLocked, excuses>>

Locking == req.mode \in {"session", "pair"}

\* The lock of this run, as the server sees it.
LockHeld == IF req.mode = "session" THEN client \in {"held", "releasing"} ELSE mine

Ended == pc \in {"done", "killed"}

\* The function returns an error and the deferred calls start at control point p.
Fail(p) == pc' = p /\ failed' = TRUE

\* The next step is at p, with no error.
Continue(p) == pc' = p /\ UNCHANGED failed

Excuse(e) == excuses' = excuses \union {e}

-----------------------------------------------------------------------------
(* Taking the lock *)

\* Run up to resolveSource, prepareSnapshotSource up to quiesce: lookups, the
\* snapshot class, the flush plan, and the client started with its lock
\* command.  Nothing is left behind by a failure here.
Begin ==
    /\ pc = "start"
    /\ \/ Fail("done") /\ UNCHANGED <<stream, client>>
       \/ /\ ~cancelled
          /\ CASE req.source = "live" -> Continue("install") /\ UNCHANGED <<stream, client>>
               [] req.source = "existing" -> Continue("ready") /\ UNCHANGED <<stream, client>>
               [] req.source = "new" /\ req.mode = "none" ->
                     Continue("create") /\ UNCHANGED <<stream, client>>
               [] OTHER -> Continue("lock") /\ stream' = TRUE /\ client' = "sent"
    /\ UNCHANGED <<req, cancelled, count, mine, storageVars, clone, helmVars, confirmed, excuses>>

\* The answer quiesceSession, quiesceOneShot or quiescePair waits for: the
\* session's marker, or the exit of the command with its lock marker.
LockConfirmed ==
    /\ pc = "lock"
    /\ client \in IF req.mode = "session" THEN {"held", "lost"} ELSE {"ok"}
    /\ Continue("create")
    /\ confirmed' = TRUE
    /\ UNCHANGED <<req, cancelled, dbVars, storageVars, clone, helmVars, excuses>>

\* Mutant: a failed session is not closed.
LockFailsWithoutClose ==
    /\ Fail("done")
    /\ UNCHANGED <<stream, client>>

\* Mutant: a lock command that failed is tried once more.
LockFailsRetried ==
    /\ Continue("lock")
    /\ stream' = TRUE
    /\ client' = "sent"

\* What a lock that was not confirmed does: quiesceSession closes the session,
\* the others return.
LockFails ==
    IF req.mode = "session"
    THEN Fail("abandon") /\ stream' = FALSE /\ UNCHANGED client
    ELSE Fail("done") /\ UNCHANGED <<stream, client>>

\* The session's marker wait is bounded by markerTimeout; the commands have no
\* bound of their own, and end with a bad answer or a dropped stream.
LockGivenUp ==
    /\ pc = "lock"
    /\ req.mode = "session" \/ client = "bad" \/ ~stream
    /\ LockFails
    /\ UNCHANGED <<req, cancelled, count, mine, storageVars, clone, helmVars, confirmed, excuses>>

\* Session.Close: wait for the client to exit, or for the context.
Abandon ==
    /\ pc = "abandon"
    /\ client \in {"none", "bad"} \/ cancelled
    /\ pc' = "done"
    /\ UNCHANGED <<req, cancelled, failed, dbVars, storageVars, clone, helmVars, confirmed, excuses>>

-----------------------------------------------------------------------------
(* Cutting the snapshot *)

\* snapshot.Create.  The API server may create the object and its answer be
\* lost, and the removal of an uncut snapshot is only deferred after this.
CreateSnapshot ==
    /\ pc = "create"
    /\ \/ /\ ~cancelled
          /\ snapshot' = "made"
          /\ Continue("cut")
          /\ UNCHANGED excuses
       \/ /\ Fail("unlock")
          /\ UNCHANGED <<snapshot, excuses>>
       \/ /\ Fail("unlock")
          /\ snapshot' = "made"
          /\ Excuse("createReplyLost")
    /\ UNCHANGED <<req, cancelled, dbVars, cutLocked, clone, helmVars, confirmed>>

\* Mutant: a bound content object is taken for the cut.
CutSeenOnceBound == snapshot # "none"

\* The content object carries a handle.
CutSeen == snapshot \in {"cut", "ready"}

\* Mutant: the wait has no timeout.
CutGivenUpOnCancel == cancelled /\ Fail("dropUncut")

\* Mutant: the release of the lock is not deferred.
CutGivenUpWithoutUnlock == Fail("done")

\* An error, cutTimeout or the context ends the wait.  It does not look again
\* whether the cut happened.
CutGivenUp == Fail("dropUncut")

\* snapshot.WaitForCut.
WaitForCut ==
    /\ pc = "cut"
    /\ \/ CutSeen /\ Continue("unlock")
       \/ CutGivenUp
    /\ UNCHANGED <<req, cancelled, dbVars, storageVars, clone, helmVars, confirmed, excuses>>

\* One best-effort removal that goes on to p either way.
TryDelete(object, gone, p) ==
    /\ \/ object' = gone /\ UNCHANGED excuses
       \/ UNCHANGED object /\ Excuse("deleteFailed")
    /\ Continue(p)

\* The deferred removal of a snapshot that never cut, --keep-snapshot or not.
DropUncut ==
    /\ pc = "dropUncut"
    /\ TryDelete(snapshot, "none", "unlock")
    /\ UNCHANGED <<req, cancelled, dbVars, cutLocked, clone, helmVars, confirmed>>

\* The end of cutSnapshot: its own error, or else that of the unlock.  An error
\* leaves ensureSnapshot before the rollback is deferred.
AfterUnlock(ok) ==
    IF ok /\ ~failed
    THEN Continue("ready") /\ UNCHANGED excuses
    ELSE Fail("done") /\ IF ok THEN UNCHANGED excuses ELSE Excuse("unlockFailed")

\* The release function of quiesce is called, once.  A session whose stream
\* is gone cannot be written to.
Unlock ==
    /\ pc = "unlock"
    /\ \/ /\ ~Locking
          /\ AfterUnlock(TRUE)
          /\ UNCHANGED <<stream, client>>
       \/ /\ req.mode = "session" /\ ~stream
          /\ AfterUnlock(FALSE)
          /\ UNCHANGED <<stream, client>>
       \/ /\ req.mode = "session" /\ stream
          /\ Continue("unlocking")
          /\ client' = IF client = "held" THEN "releasing" ELSE "bad"
          /\ UNCHANGED <<stream, excuses>>
       \/ /\ req.mode = "pair"
          /\ Continue("unlocking")
          /\ client' = "releasing"
          /\ stream' = TRUE
          /\ UNCHANGED excuses
    /\ UNCHANGED <<req, cancelled, count, mine, storageVars, clone, helmVars, confirmed>>

\* Mutant: the release marker is not looked for.
ReleaseConfirmedOnExit == client \in {"ok", "bad"}

\* The session exited cleanly, or the unlock printed a lock count of zero.
ReleaseConfirmed == client = "ok"

ReleaseRefused == client = "bad" \/ ~stream

UnlockAnswer ==
    /\ pc = "unlocking"
    /\ \/ ReleaseConfirmed /\ AfterUnlock(TRUE)
       \/ ReleaseRefused /\ AfterUnlock(FALSE)
    /\ UNCHANGED <<req, cancelled, dbVars, storageVars, clone, helmVars, confirmed>>

-----------------------------------------------------------------------------
(* The clone, and the rollback of what a failed preparation made *)

\* Mutant: only the flag decides, not who made the snapshot.
RemoveSnapshotUnlessKept == ~req.keep

\* removeSnapshot := created && !req.KeepSnapshot
RemoveSnapshot == req.source = "new" /\ ~req.keep

\* snapshot.WaitReady, bounded by readyTimeout.
WaitReady ==
    /\ pc = "ready"
    /\ \/ ~cancelled /\ snapshot = "ready" /\ Continue("clone")
       \/ Fail("rollbackSnapshot")
    /\ UNCHANGED <<req, cancelled, dbVars, storageVars, clone, helmVars, confirmed, excuses>>

\* snapshot.Clone; an error reports the claim as not created.
CloneSnapshot ==
    /\ pc = "clone"
    /\ \/ ~cancelled /\ clone' = TRUE /\ Continue("resolve") /\ UNCHANGED excuses
       \/ Fail("rollbackSnapshot") /\ UNCHANGED <<clone, excuses>>
       \/ clone' = TRUE /\ Fail("rollbackSnapshot") /\ Excuse("cloneReplyLost")
    /\ UNCHANGED <<req, cancelled, dbVars, storageVars, helmVars, confirmed>>

\* Mutant: a claim whose lookup failed is reported as not created.
LookupFailedForgetsClone == "rollbackSnapshot"

\* cloneSnapshot reports a claim it could not look up as created.
LookupFailed == "rollbackClone"

\* pvc.New on the clone, and inheritTopology.
ResolveClone ==
    /\ pc = "resolve"
    /\ \/ ~cancelled /\ Continue("install")
       \/ Fail(LookupFailed)
    /\ UNCHANGED <<req, cancelled, dbVars, storageVars, clone, helmVars, confirmed, excuses>>

\* rollbackSnapshotSource: the clone first, each on a best-effort basis.
RollbackClone ==
    /\ pc = "rollbackClone"
    /\ TryDelete(clone, FALSE, "rollbackSnapshot")
    /\ UNCHANGED <<req, cancelled, dbVars, storageVars, helmVars, confirmed>>

RollbackSnapshot ==
    /\ pc = "rollbackSnapshot"
    /\ IF RemoveSnapshot THEN TryDelete(snapshot, "none", "done")
       ELSE Continue("done") /\ UNCHANGED <<snapshot, excuses>>
    /\ UNCHANGED <<req, cancelled, dbVars, cutLocked, clone, helmVars, confirmed>>

-----------------------------------------------------------------------------
(* The backup job *)

\* Run after resolveSource: the archive claim, the mover command, the values,
\* and Helm's install, which does not look at the context.  A failed install may
\* have created the release and its job, and is not uninstalled.
InstallHelmChart ==
    /\ pc = "install"
    /\ \/ /\ release' = TRUE /\ job' = "pending"
          /\ Continue("wait")
          /\ UNCHANGED excuses
       \/ /\ Fail("releaseClone")
          /\ UNCHANGED <<helmVars, excuses>>
       \/ /\ release' = TRUE
          /\ job' \in {"none", "pending"}
          /\ Fail("releaseClone")
          /\ Excuse("installFailed")
    /\ UNCHANGED <<req, cancelled, dbVars, storageVars, clone, confirmed>>

\* Mutant: the wait does not watch the context.
JobFailedOnly == ~req.detach /\ job = "failed"

\* The wait for the job gives up: the pod failed, stayed Pending past
\* podWatchTimeout, or the context is cancelled.
JobGivenUp == (~req.detach /\ job = "failed") \/ job = "pending" \/ cancelled

\* The wait answers: the pod has left Pending when detaching, or else succeeded,
\* be it just before an interrupt.
JobAnswered ==
    IF req.detach THEN ~cancelled /\ job \in {"running", "succeeded", "failed"}
    ELSE job = "succeeded"

\* handleJobCompletion up to its deferred cleanup: WaitForJobStart when
\* detaching, else WaitForJobCompletion.
WaitForJob ==
    /\ pc = "wait"
    /\ \/ JobAnswered /\ Continue("uninstall")
       \/ JobGivenUp /\ Fail("uninstall")
    /\ UNCHANGED <<req, cancelled, dbVars, storageVars, clone, helmVars, confirmed, excuses>>

\* The wait fails whatever the job is doing: an API call or the log follower.
WaitBreaks ==
    /\ pc = "wait"
    /\ Fail("uninstall")
    /\ UNCHANGED <<req, cancelled, dbVars, storageVars, clone, helmVars, confirmed, excuses>>

\* When the deferred cleanup of handleJobCompletion leaves the release alone.
ReleaseKept == req.noCleanup \/ (req.noCleanupOnFailure /\ failed) \/ req.detach

\* cleanupRelease; a failed uninstall may have removed the job already.
Uninstall ==
    /\ pc = "uninstall"
    /\ \/ ReleaseKept /\ UNCHANGED <<helmVars, excuses>>
       \/ ~ReleaseKept /\ release' = FALSE /\ job' = "none" /\ UNCHANGED excuses
       \/ /\ ~ReleaseKept
          /\ Excuse("uninstallFailed")
          /\ job' \in {job, "none"}
          /\ UNCHANGED release
    /\ Continue("releaseClone")
    /\ UNCHANGED <<req, cancelled, dbVars, storageVars, clone, confirmed>>

\* Mutant: a detached run tears its source down like any other.
SourceKeptByFlagsOnly == req.noCleanup \/ (failed /\ req.noCleanupOnFailure)

\* When releaseSnapshotSource leaves the clone and the snapshot alone.
SourceKept == req.detach \/ req.noCleanup \/ (failed /\ req.noCleanupOnFailure)

\* releaseSnapshotSource and removeSnapshotSource: the clone goes first, and an
\* error there leaves the snapshot too.
ReleaseClone ==
    /\ pc = "releaseClone"
    /\ \/ /\ req.source = "live" \/ SourceKept
          /\ pc' = "done"
          /\ UNCHANGED <<clone, excuses>>
       \/ /\ req.source # "live" /\ ~SourceKept
          /\ \/ clone' = FALSE /\ pc' = "releaseSnapshot" /\ UNCHANGED excuses
             \/ pc' = "done" /\ Excuse("deleteFailed") /\ UNCHANGED clone
    /\ UNCHANGED <<req, cancelled, failed, dbVars, storageVars, helmVars, confirmed>>

ReleaseSnapshot ==
    /\ pc = "releaseSnapshot"
    /\ IF RemoveSnapshot THEN TryDelete(snapshot, "none", "done")
       ELSE Continue("done") /\ UNCHANGED <<snapshot, excuses>>
    /\ UNCHANGED <<req, cancelled, dbVars, cutLocked, clone, helmVars, confirmed>>

-----------------------------------------------------------------------------
(* The environment *)

\* The server executes the command it was sent.  The lock is taken, or refused.
ServerLocks ==
    /\ client = "sent"
    /\ \/ client' = "bad" /\ UNCHANGED <<count, mine>>
       \/ req.mode = "session" /\ client' = "held" /\ UNCHANGED <<count, mine>>
       \/ req.mode = "oneshot" /\ client' = "ok" /\ UNCHANGED <<count, mine>>
       \/ req.mode = "pair" /\ client' = "ok" /\ count' = count + 1 /\ mine' = TRUE
    /\ UNCHANGED <<req, pc, cancelled, failed, stream, storageVars, clone, helmVars, confirmed, excuses>>

\* The server executes the unlock; fsyncUnlock on an unlocked server is an error.
ServerUnlocks ==
    /\ client = "releasing"
    /\ \/ req.mode = "session" /\ client' = "ok" /\ UNCHANGED <<count, mine>>
       \/ req.mode = "pair" /\ count = 0 /\ client' = "bad" /\ UNCHANGED <<count, mine>>
       \/ /\ req.mode = "pair" /\ count > 0
          /\ count' = count - 1
          /\ mine' = FALSE
          /\ client' = IF count = 1 THEN "ok" ELSE "bad"
    /\ UNCHANGED <<req, pc, cancelled, failed, stream, storageVars, clone, helmVars, confirmed, excuses>>

\* A session whose stdin is closed exits, and the lock goes with its connection.
ClientExits ==
    /\ req.mode = "session" /\ ~stream
    /\ client \in {"held", "lost", "releasing"}
    /\ client' = "none"
    /\ UNCHANGED <<req, pc, cancelled, failed, stream, count, mine, storageVars, clone,
                   helmVars, confirmed, excuses>>

\* The database restarts or drops its connections: every lock is gone.  The
\* session's client does not reconnect (--skip-reconnect).
ServerRestarts ==
    /\ Locking
    /\ count' = 0
    /\ mine' = FALSE
    /\ client' = CASE client = "held" -> "lost"
                   [] client \in {"sent", "releasing"} -> "bad"
                   [] OTHER -> client
    /\ UNCHANGED <<req, pc, cancelled, failed, stream, storageVars, clone, helmVars, confirmed, excuses>>

\* The exec stream drops.  A Session.Close that waits on it returns.
StreamBreaks ==
    /\ stream \/ pc = "abandon"
    /\ stream' = FALSE
    /\ pc' = IF pc = "abandon" THEN "done" ELSE pc
    /\ UNCHANGED <<req, cancelled, failed, client, count, mine, storageVars, clone, helmVars,
                   confirmed, excuses>>

\* The storage system cuts the snapshot, and later finishes it.
StorageCuts ==
    /\ snapshot = "made"
    /\ snapshot' = "cut"
    /\ cutLocked' = LockHeld
    /\ UNCHANGED <<req, pc, cancelled, failed, dbVars, clone, helmVars, confirmed, excuses>>

StorageFinishes ==
    /\ snapshot = "cut"
    /\ snapshot' = "ready"
    /\ UNCHANGED <<req, pc, cancelled, failed, dbVars, cutLocked, clone, helmVars, confirmed, excuses>>

\* The job's only pod (backoffLimit 0).
PodChanges ==
    /\ \/ job = "pending" /\ job' \in {"running", "failed"}
       \/ job = "running" /\ job' \in {"succeeded", "failed"}
    /\ UNCHANGED <<req, pc, cancelled, failed, dbVars, storageVars, clone, release, confirmed, excuses>>

\* The first SIGINT or SIGTERM cancels the context, and with it every exec
\* stream opened under it.  The unlock command of a pair is not under it.
Interrupt ==
    /\ ~Ended /\ ~cancelled
    /\ cancelled' = TRUE
    /\ stream' = (stream /\ req.mode = "pair" /\ pc = "unlocking")
    /\ UNCHANGED <<req, pc, failed, client, count, mine, storageVars, clone, helmVars,
                   confirmed, excuses>>

\* The process dies where it stands.
Kill ==
    /\ ~Ended
    /\ pc' = "killed"
    /\ stream' = FALSE
    /\ UNCHANGED <<req, cancelled, failed, client, count, mine, storageVars, clone, helmVars,
                   confirmed, excuses>>

-----------------------------------------------------------------------------
Init ==
    /\ req \in Requests
    /\ pc = "start"
    /\ cancelled = FALSE
    /\ failed = FALSE
    /\ stream = FALSE
    /\ client = "none"
    /\ count \in 0..(IF req.mode = "pair" THEN MaxLeaked ELSE 0)
    /\ snapshot = IF req.source = "existing" THEN "ready" ELSE "none"
    /\ clone = FALSE
    /\ release = FALSE
    /\ job = "none"
    /\ mine = FALSE
    /\ confirmed = FALSE
    /\ cutLocked = FALSE
    /\ excuses = {}

\* What the CLI does by itself.
Cli == \/ Begin \/ LockConfirmed \/ LockGivenUp \/ Abandon
       \/ CreateSnapshot \/ WaitForCut \/ DropUncut \/ Unlock \/ UnlockAnswer
       \/ WaitReady \/ CloneSnapshot \/ ResolveClone \/ RollbackClone \/ RollbackSnapshot
       \/ InstallHelmChart \/ WaitForJob \/ Uninstall \/ ReleaseClone \/ ReleaseSnapshot

Environment == \/ WaitBreaks \/ ServerLocks \/ ServerUnlocks \/ ClientExits \/ ServerRestarts
               \/ StreamBreaks \/ StorageCuts \/ StorageFinishes \/ PodChanges
               \/ Interrupt \/ Kill

Next == Cli \/ Environment

Spec == Init /\ [][Next]_vars

\* The process is scheduled, and a client whose stdin is closed exits.  Nothing
\* is assumed of the server, the storage system or the job.
FairSpec == Spec /\ WF_vars(Cli) /\ WF_vars(ClientExits)

-----------------------------------------------------------------------------
(* Properties *)

Excuses == {"createReplyLost", "cloneReplyLost", "deleteFailed", "unlockFailed",
            "installFailed", "uninstallFailed"}

\* The types of the backup's state; a run adds one lock at most to those leaked.
TypeOK ==
    /\ req \in Requests
    /\ pc \in PCs
    /\ cancelled \in BOOLEAN
    /\ failed \in BOOLEAN
    /\ stream \in BOOLEAN
    /\ client \in ClientStates
    /\ count \in 0..(MaxLeaked + 1)
    /\ snapshot \in {"none", "made", "cut", "ready"}
    /\ clone \in BOOLEAN
    /\ release \in BOOLEAN
    /\ job \in {"none", "pending", "running", "succeeded", "failed"}
    /\ mine \in BOOLEAN
    /\ confirmed \in BOOLEAN
    /\ cutLocked \in BOOLEAN
    /\ excuses \in SUBSET Excuses

\* A backup under --flush reads only what was cut under the lock: once a job is
\* installed, the snapshot behind its clone was cut while the lock of this run
\* was held, whatever restarts, drops or interrupts came in between.
ConsistentCut == release /\ Locking => cutLocked

\* The lock is held "for the snapshot cut only, and never for the backup": when
\* the job exists the database is free of this run's lock, and of one leaked
\* before it, or a restart has freed it.
LockGoneBeforeBackup == release /\ Locking => ~LockHeld /\ count = 0

\* A lock the run was told it has is released on every way out, or the run
\* reports that the release failed.
ConfirmedLockReleased ==
    pc = "done" /\ confirmed /\ req.mode = "pair" => ~mine \/ (failed /\ "unlockFailed" \in excuses)

\* A run that may clean up leaves no clone, and no snapshot it was not told to
\* keep: everything made is taken back on the way out, from wherever the run
\* failed, unless a step of taking it back failed itself.
NoLeftovers ==
    pc = "done" /\ excuses = {} /\ ~SourceKept =>
        ~clone /\ (RemoveSnapshot => snapshot = "none")

\* A snapshot that is not the run's to remove survives it: one that existed
\* before always, one to be kept when the backup succeeded.
SnapshotSurvives ==
    /\ req.source = "existing" => snapshot = "ready"
    /\ req.keep /\ pc = "done" /\ ~failed /\ req.source = "new" => snapshot = "ready"

\* The clone is not pulled out from under the job reading it: when the clone of
\* an installed job is gone, so is the job, unless Helm failed at its part.
JobKeepsItsClone ==
    release /\ req.source # "live" /\ job \in {"pending", "running"}
            /\ excuses \intersect {"installFailed", "uninstallFailed"} = {}
        => clone

\* What the CLI may wait for without a bound: a command in the database's pod,
\* or a job that runs.
ExecBlocks == /\ \/ pc = "lock" /\ req.mode # "session"
                 \/ pc \in {"abandon", "unlocking"}
              /\ client \in {"sent", "held", "lost", "releasing"}

\* Nothing else holds the CLI up.  The wait for the cut, in particular, ends, and
\* it is the one during which a database is locked.
NothingElseBlocks == []<>(Ended \/ ExecBlocks \/ (pc = "wait" /\ job = "running"))

\* An interrupt ends the run, unless the unlock command of a pair, which is
\* shielded from it, gets no answer.
InterruptEndsRun == cancelled ~> (Ended \/ (pc = "unlocking" /\ req.mode = "pair"))

\* A session never outlives its run: however the run ends, killed included, the
\* lock held in the session's connection goes away.
SessionLockFreed == (Ended /\ req.mode = "session") ~> ~LockHeld

-----------------------------------------------------------------------------
(* What the documentation says that the code does not keep *)

\* "The lock is released on every failure path after it is taken"
\* (docs/backup-restore.md:300).
LockReleasedOnEveryFailure ==
    pc = "done" /\ failed /\ mine => "unlockFailed" \in excuses

=============================================================================
