------------------------------ MODULE MoverJob ------------------------------
(***************************************************************************)
(* The data mover's job: the script its pod runs (templates/rsync/job.yaml *)
(* and templates/rclone/job.yaml of the chart), the commands the script is *)
(* given (internal/archive, internal/rclone, internal/rsync) and the exit  *)
(* policy that goes with them (internal/strategy/mover.go).                *)
(*                                                                         *)
(* A volume, a bucket prefix and an archive are all a function from file   *)
(* names to what is stored under the name.  A command is a preparation of  *)
(* the destination and a pipeline of up to two programs; what rsync, tar   *)
(* and rclone do and exit with is external and nondeterministic.  A        *)
(* workload may remove files from a live source at any time.  The job has  *)
(* backoffLimit 0 and restartPolicy Never, so a killed pod is a failed     *)
(* job.                                                                    *)
(***************************************************************************)
EXTENDS Integers, FiniteSets

CONSTANTS
    Files,      \* names a volume can hold
    LostFound,  \* the file system's own lost+found, at the root of a volume
    MaxRetries  \* maxRetries of the chart

ASSUME FilesAssumption == LostFound \notin Files

ASSUME MaxRetriesAssumption == MaxRetries \in Nat

-----------------------------------------------------------------------------
(* What is asked for *)

\* rsync and tar migrate, along one of the routes; a backup or a restore is
\* rclone with a bucket, tar with a file, or tar and rclone in a stream.  raw is
\* a destination given by --rclone-config, dry a --dry-run among the extra
\* arguments.
Job ==
    [mover : {"rsync", "tar", "rclone", "file", "stream"}, dir : {"migrate", "backup", "restore"},
     route : {"local", "push", "pull"}, delete : BOOLEAN, raw : BOOLEAN, dry : BOOLEAN]

MigrateJobs ==
    {j \in Job : j.dir = "migrate" /\ j.mover \in {"rsync", "tar"} /\ ~j.raw /\ ~j.dry}

BackupJobs ==
    {j \in Job :
        /\ j.dir = "backup" /\ j.mover \in {"rclone", "file", "stream"}
        /\ j.route = "local" /\ ~j.delete
        /\ j.raw => j.mover = "rclone"
        /\ j.dry => j.mover # "file"}

RestoreJobs ==
    {j \in Job :
        /\ j.dir = "restore" /\ j.mover \in {"rclone", "file", "stream"}
        /\ j.route = "local"
        /\ j.raw => j.mover = "rclone"
        /\ j.dry => j.mover # "file"}

Jobs == MigrateJobs \cup BackupJobs \cup RestoreJobs

\* Codes that count as a success with caveats.  The rclone component's script
\* knows none, whichever program it runs.
Tolerated(j) == IF j.mover = "rsync" THEN {24} ELSE IF j.mover = "tar" THEN {1} ELSE {}

\* Codes a retry cannot help.
NoRetry(j) == IF j.mover = "rsync" THEN {1} ELSE {}

\* A bucket the tool manages gets a sidecar, unless nothing is uploaded.
ShouldUploadMetadata(j) == j.dir = "backup" /\ ~j.raw /\ ~j.dry

\* The job is given a metadata sidecar to write.
WithMetadata(j) ==
    /\ j.dir = "backup"
    /\ \/ j.mover = "file"
       \/ j.mover = "stream" /\ ~j.dry
       \/ j.mover = "rclone" /\ ShouldUploadMetadata(j)

\* The command makes the directory it writes to, and empties it when a tar is to
\* replace what is there.
Prepares(j) == j.mover = "tar" \/ j.mover = "file" \/ (j.mover = "stream" /\ j.dir = "restore")

Empties(j) == Prepares(j) /\ j.delete

\* Whether a failed preparation keeps the pipeline from running.  tarCreate opens
\* with a printf and a semicolon, so where the creating tar runs in the same
\* shell as the preparation the && ends there.
PreparationGuards(j) == ~(j.mover = "tar" /\ j.route = "local")

\* Nothing is written.  A restore from a stream is given the flag and ignores it:
\* rclone cat writes nothing anyhow, and the clean and the tar are not rclone's.
DryRun(j) == j.dry /\ ~(j.mover = "stream" /\ j.dir = "restore")

\* Mutant: rclone always syncs, whether or not files may be deleted.
SyncsAlways(j) == j.delete \/ j.dir = "backup" \/ j.mover = "rclone"

\* What is at the destination beforehand does not survive a run without errors.
Replaces(j) == j.delete \/ j.dir = "backup"

-----------------------------------------------------------------------------

VARIABLES
    job,        \* what the release asked for
    src,        \* files at the source
    dest,       \* what the destination holds under each name
    sidecar,    \* the metadata next to the backup
    pc,         \* where the script is
    n,          \* its count of failed attempts
    rc,         \* its exit status variable
    planned,    \* files this attempt found at the source
    sent,       \* of these, the ones it has read and passed on
    marker,     \* the line of a tolerated exit is in the log
    verdict,    \* the phase of the pod, once it is over
    report      \* what the client says of the job

\* History: the last attempt could not prepare its destination.
VARIABLE unprepared

data == <<src, dest, sidecar>>
attempt == <<planned, sent, unprepared>>
vars == <<job, src, dest, sidecar, pc, n, rc, planned, sent, marker, verdict, report, unprepared>>

Contents == {"none", "old", "part", "new"}

Codes == {0, 1, 2, 23, 24, 255}

\* No report yet; of a success, a warning, nothing, or nothing because the log
\* could not be read; of a failure, the pod's own status or an exit code and the
\* program whose documentation it is explained from.
Reports == {"none", "warned", "quiet", "unread", "status", "rsync", "rclone", "tar"}

PCs == {"start", "copy", "exit", "sleep", "metadata", "end"}

TypeOK ==
    /\ job \in Jobs
    /\ src \in SUBSET Files
    /\ dest \in [Files \cup {LostFound} -> Contents]
    /\ sidecar \in Contents
    /\ pc \in PCs
    /\ n \in 0..(MaxRetries + 1)
    /\ rc \in Codes
    /\ planned \in SUBSET Files
    /\ sent \in SUBSET planned
    /\ marker \in BOOLEAN
    /\ verdict \in {"running", "succeeded", "failed"}
    /\ report \in Reports
    /\ unprepared \in BOOLEAN

\* Only a volume has a lost+found.
Init ==
    /\ job \in Jobs
    /\ src \in SUBSET Files
    /\ \E held \in [Files -> {"none", "old"}] :
        dest = [f \in Files \cup {LostFound} |->
                    IF f \in Files THEN held[f]
                    ELSE IF job.dir = "backup" THEN "none" ELSE "old"]
    /\ sidecar \in IF job.dir = "backup" THEN {"none", "old"} ELSE {"none"}
    /\ pc = "start" /\ n = 0 /\ rc = 1
    /\ planned = {} /\ sent = {} /\ unprepared = FALSE
    /\ marker = FALSE /\ verdict = "running" /\ report = "none"

-----------------------------------------------------------------------------
(* One attempt: the command *)

\* The destination with some names emptied.
Without(gone) == [f \in DOMAIN dest |-> IF f \in gone THEN "none" ELSE dest[f]]

\* What the clean deletes: lost+found and what is in it stay.
Emptied == Files

\* Mutant: the destination is emptied once, not for every attempt.
StartCleansOnce ==
    /\ pc = "start" /\ verdict = "running"
    /\ planned' = src /\ sent' = {}
    /\ unprepared' = FALSE
    /\ dest' = Without(IF n = 0 /\ (Empties(job) \/ (job.mover = "file" /\ job.dir = "backup"))
                       THEN Emptied ELSE {})
    /\ pc' = "copy"
    /\ UNCHANGED <<job, src, sidecar, n, rc, marker, verdict, report>>

\* The preparation went well, or there is none.  A tar that creates a file
\* truncates the one that is there.
Start ==
    /\ pc = "start" /\ verdict = "running"
    /\ planned' = src /\ sent' = {}
    /\ unprepared' = FALSE
    /\ dest' = Without(IF Empties(job) \/ (job.mover = "file" /\ job.dir = "backup")
                       THEN Emptied ELSE {})
    /\ pc' = "copy"
    /\ UNCHANGED <<job, src, sidecar, n, rc, marker, verdict, report>>

\* mkdir or find fails, with status 1.  find has deleted what it could reach.
PrepareFails ==
    /\ pc = "start" /\ verdict = "running"
    /\ Prepares(job)
    /\ planned' = src /\ sent' = {}
    /\ unprepared' = TRUE
    /\ \E gone \in SUBSET (IF Empties(job) THEN Emptied ELSE {}) : dest' = Without(gone)
    /\ IF PreparationGuards(job)
       THEN pc' = "exit" /\ rc' = 1
       ELSE pc' = "copy" /\ rc' = rc
    /\ UNCHANGED <<job, src, sidecar, n, marker, verdict, report>>

\* A stream shows at the destination when rcat has seen its end; a dry run never.
Buffered == DryRun(job) \/ (job.mover = "stream" /\ job.dir = "backup")

\* A file is read and passed on.
Carry ==
    /\ pc = "copy" /\ verdict = "running"
    /\ \E f \in (planned \cap src) \ sent :
        /\ sent' = sent \cup {f}
        /\ dest' = IF Buffered THEN dest ELSE [dest EXCEPT ![f] = "new"]
    /\ UNCHANGED <<job, src, sidecar, pc, n, rc, planned, marker, verdict, report, unprepared>>

\* The object rcat makes of what it was given.
Uploaded == [f \in DOMAIN dest |-> IF f \in sent THEN "new" ELSE "none"]

\* Mutant: no pipefail.
LastStatus(left, right) == right

\* The status of a pipeline under pipefail.
PipeStatus(left, right) == IF right # 0 THEN right ELSE left

\* What the two sides of a pipeline exit with that has carried all there was; a
\* single program is the right side.  missed: files it had found were gone when
\* it came to read them.  tar may also find that a file has changed.
FinishStatuses(j, missed) ==
    IF j.mover = "rsync" THEN {<<0, IF missed THEN 24 ELSE 0>>}
    ELSE IF j.mover = "rclone" THEN {<<0, IF missed THEN 1 ELSE 0>>}
    ELSE (IF missed THEN {1} ELSE IF j.dir = "restore" THEN {0} ELSE {0, 1}) \X {0}

\* What rsync --delete and rclone sync remove: all that the source does not have.
\* rclone knows no lost+found, rsync is told to exclude it.
Extraneous == (IF job.mover = "rclone" THEN Files \cup {LostFound} ELSE Files) \ planned

\* The mover has come to the end of the source, and removes what is extraneous
\* where it is to; after an error it may not.
Finish ==
    /\ pc = "copy" /\ verdict = "running"
    /\ planned \cap src \subseteq sent
    /\ \E s \in FinishStatuses(job, ~(planned \subseteq sent)) : rc' = PipeStatus(s[1], s[2])
    /\ IF ~DryRun(job) /\ job.mover \in {"rsync", "rclone"} /\ Replaces(job)
       THEN \/ dest' = Without(Extraneous)
            \/ rc' # 0 /\ dest' = dest
       ELSE dest' = IF ~DryRun(job) /\ job.mover = "stream" /\ job.dir = "backup"
                    THEN Uploaded ELSE dest
    /\ pc' = "exit"
    /\ UNCHANGED <<job, src, sidecar, n, planned, sent, marker, verdict, report, unprepared>>

\* What the two sides exit with when the mover breaks off.  The reading side may
\* die with the writing side content with a short stream, or the writing side
\* may, whatever becomes of the reading side.
BreakStatuses(j) ==
    IF j.mover = "rsync" THEN {0} \X {23, 255}
    ELSE IF j.mover = "rclone" THEN {0} \X {1}
    ELSE IF j.mover = "file" THEN {0} \X {2}
    ELSE IF j.mover = "tar"
    THEN ((IF j.route = "pull" THEN {2, 255} ELSE {2}) \X {0, 2})
         \cup ({0, 1, 2} \X (IF j.route = "push" THEN {2, 255} ELSE {2}))
    ELSE IF j.dir = "backup" THEN {<<2, 0>>} \cup ({0, 1, 2} \X {1})
    ELSE {<<1, 0>>} \cup ({0, 1} \X {2})

\* The destination when a mover stops where it is, in the middle of a file perhaps.
CutShort ==
    {dest} \cup IF Buffered THEN {} ELSE {[dest EXCEPT ![f] = "part"] : f \in planned \ sent}

\* The mover breaks off.  A short stream that rcat took for the whole replaces
\* the object.
Break ==
    /\ pc = "copy" /\ verdict = "running"
    /\ \E s \in BreakStatuses(job) :
        /\ rc' = PipeStatus(s[1], s[2])
        /\ IF job.mover = "stream" /\ job.dir = "backup" /\ ~DryRun(job) /\ s[2] = 0
           THEN dest' = Uploaded
           ELSE dest' \in CutShort
    /\ pc' = "exit"
    /\ UNCHANGED <<job, src, sidecar, n, planned, sent, marker, verdict, report, unprepared>>

\* rsync does not understand its arguments.
UsageError ==
    /\ pc = "copy" /\ verdict = "running"
    /\ job.mover = "rsync" /\ sent = {}
    /\ rc' = 1 /\ pc' = "exit"
    /\ UNCHANGED <<job, src, dest, sidecar, n, planned, sent, marker, verdict, report, unprepared>>

-----------------------------------------------------------------------------
(* The script *)

\* Where the script goes when its loop is left.
AfterLoop(code) == IF code = 0 /\ WithMetadata(job) THEN "metadata" ELSE "end"

\* n=$((n+1))
Incremented(k) == k + 1

\* Mutant: one attempt too many.
ExhaustedLate(k) == k > MaxRetries + 1

\* The loops are left when the retries are used up.
Exhausted(k) == k > MaxRetries

\* The loop looks at the status of the command: leave with success, turn a
\* tolerated status into one, leave at once, or wait for the next attempt.
Settle ==
    /\ pc = "exit" /\ verdict = "running"
    /\ \/ /\ rc = 0
          /\ pc' = AfterLoop(0)
          /\ n' = IF pc' = "metadata" THEN 0 ELSE n
          /\ UNCHANGED <<rc, marker>>
       \/ /\ rc # 0 /\ rc \in Tolerated(job)
          /\ rc' = 0 /\ marker' = TRUE /\ n' = n /\ pc' = AfterLoop(0)
       \/ /\ rc # 0 /\ rc \notin Tolerated(job)
          /\ IF rc \in NoRetry(job)
             THEN n' = n /\ pc' = AfterLoop(rc)
             ELSE n' = Incremented(n) /\ pc' = IF Exhausted(n') THEN AfterLoop(rc) ELSE "sleep"
          /\ UNCHANGED <<rc, marker>>
    /\ UNCHANGED <<job, data, attempt, verdict, report>>

Sleep ==
    /\ pc = "sleep" /\ verdict = "running"
    /\ pc' = "start"
    /\ UNCHANGED <<job, data, attempt, n, rc, marker, verdict, report>>

\* Mutant: the status of the upload is not the job's.
MetadataIgnored ==
    /\ pc = "metadata" /\ verdict = "running"
    /\ \/ sidecar' = "new" /\ pc' = "end" /\ UNCHANGED n
       \/ n' = n + 1 /\ sidecar' = sidecar /\ pc' = IF Exhausted(n') THEN "end" ELSE "metadata"
    /\ UNCHANGED <<job, src, dest, rc, attempt, marker, verdict, report>>

\* The sidecar is uploaded, with retries of its own, or copied next to the
\* archive, in one try.  Its failure is the job's.
Metadata ==
    /\ pc = "metadata" /\ verdict = "running"
    /\ \/ sidecar' = "new" /\ pc' = "end" /\ UNCHANGED <<n, rc>>
       \/ /\ job.mover = "file"
          /\ sidecar' \in {sidecar, "part"}
          /\ rc' = 1 /\ pc' = "end" /\ n' = n
       \/ /\ job.mover # "file"
          /\ n' = Incremented(n) /\ sidecar' = sidecar
          /\ IF Exhausted(n') THEN rc' = 1 /\ pc' = "end" ELSE rc' = rc /\ pc' = "metadata"
    /\ UNCHANGED <<job, src, dest, attempt, marker, verdict, report>>

\* exit $rc
Exit ==
    /\ pc = "end" /\ verdict = "running"
    /\ verdict' = IF rc = 0 THEN "succeeded" ELSE "failed"
    /\ UNCHANGED <<job, data, attempt, pc, n, rc, marker, report>>

\* The node is lost or the pod evicted.
Killed ==
    /\ verdict = "running"
    /\ verdict' = "failed"
    /\ dest' \in IF pc = "copy" THEN CutShort
                ELSE IF pc = "start" /\ Empties(job) THEN {Without(gone) : gone \in SUBSET Emptied}
                ELSE {dest}
    /\ sidecar' \in IF pc = "metadata" /\ job.mover = "file" THEN {sidecar, "part"} ELSE {sidecar}
    /\ UNCHANGED <<job, src, attempt, pc, n, rc, marker, report>>

\* The workload removes a file from a source that is live.
Vanish ==
    /\ verdict = "running" /\ job.dir # "restore"
    /\ \E f \in src : src' = src \ {f}
    /\ UNCHANGED <<job, dest, sidecar, attempt, pc, n, rc, marker, verdict, report>>

\* Mutant: the client goes by the status, which the script has made 0.
WarnsByExitCode ==
    /\ verdict = "succeeded" /\ report = "none"
    /\ report' \in {"unread", IF rc \in Tolerated(job) /\ job.mover = "rsync" THEN "warned" ELSE "quiet"}
    /\ UNCHANGED <<job, data, attempt, pc, n, rc, marker, verdict>>

\* The client fetches the log's tail of a job that succeeded, if it can, and
\* looks for the marker of rsync's tolerated exit.
WarnIfSourceFilesVanished ==
    /\ verdict = "succeeded" /\ report = "none"
    /\ report' \in {"unread", IF marker /\ job.mover = "rsync" THEN "warned" ELSE "quiet"}
    /\ UNCHANGED <<job, data, attempt, pc, n, rc, marker, verdict>>

\* The end of the job's name, which the table of exit codes is chosen by.  A
\* migration's job is called after the chart's rsync component, and an archive's
\* after tar, whose code may also be rclone's or that of the sidecar's copy.
JobSuffix(j) ==
    IF j.dir = "migrate" THEN "rsync" ELSE IF j.mover = "rclone" THEN "rclone" ELSE "tar"

\* The client explains a failure: the exit code where the pod has one.  A script
\* that ran to its end has, a killed pod may not.
ExplainFailure ==
    /\ verdict = "failed" /\ report = "none"
    /\ report' \in {JobSuffix(job)} \cup IF pc = "end" THEN {} ELSE {"status"}
    /\ UNCHANGED <<job, data, attempt, pc, n, rc, marker, verdict>>

Over == report # "none"

\* Lets a job that is over stutter, so that TLC reports every other stop.
Done == Over /\ UNCHANGED vars

ScriptStep == Start \/ PrepareFails \/ Settle \/ Sleep \/ Metadata \/ Exit

MoverStep == Carry \/ Finish \/ Break \/ UsageError

ClientStep == WarnIfSourceFilesVanished \/ ExplainFailure

Next == ScriptStep \/ MoverStep \/ ClientStep \/ Killed \/ Vanish \/ Done

Spec == Init /\ [][Next]_vars

-----------------------------------------------------------------------------
(* Properties *)

\* A job is reported as succeeded only when every file that was at the source
\* all the while is whole at the destination, over all attempts and whichever
\* side of a pipeline failed.  The exception is a migration by tar whose
\* destination could not be prepared, see FailedCleanStops.
SuccessMeansCopied ==
    verdict = "succeeded" /\ ~DryRun(job) /\ ~(unprepared /\ job.mover = "tar") =>
        \A f \in src : dest[f] = "new"

\* Where the destination is to be replaced, a job that succeeded and has missed
\* no file leaves nothing there but what its last attempt carried, however the
\* earlier attempts ended.
SuccessMeansExact ==
    verdict = "succeeded" /\ ~DryRun(job) /\ ~(unprepared /\ job.mover = "tar")
        /\ Replaces(job) /\ planned \subseteq sent =>
            \A f \in Files : dest[f] = IF f \in planned THEN "new" ELSE "none"

\* "Managed mode writes the metadata sidecar after the data upload succeeds": a
\* new sidecar stands next to the whole of the data it describes, and a backup
\* that is to have one does not succeed without.
SidecarFollowsData ==
    /\ sidecar = "new" => planned = sent /\ \A f \in planned : dest[f] = "new"
    /\ verdict = "succeeded" => (sidecar = "new" <=> WithMetadata(job))

\* What no step of a job may touch, cleaning, retrying, failing or killed: the
\* volume's own lost+found, where the mover is not rclone; any file at all that
\* the source does not have, where --delete-extraneous-files was not given
\* to a migration or a restore; and in a dry run anything, the sidecar included ("so
\* a dry run does not change the bucket").  A restore from a stream is no dry run,
\* see DryRun.
LeavesAlone ==
    [][/\ job.mover # "rclone" => dest'[LostFound] = dest[LostFound]
       /\ ~job.delete /\ job.dir # "backup" =>
              \A f \in (Files \cup {LostFound}) \ planned' : dest'[f] = dest[f]
       /\ DryRun(job) => UNCHANGED <<dest, sidecar>>]_vars

\* What the user is told of a migration by rsync that succeeded is so, where its
\* log could be read: there is a warning exactly when the attempt that succeeded
\* has skipped a file, though the exit status is 0 either way, an earlier attempt
\* may have failed and the progress parser has eaten the log.
HonestReport ==
    job.mover = "rsync" =>
        /\ report = "quiet" => planned = sent
        /\ report = "warned" => planned # sent

\* "It is chained with && by its callers on purpose [...] Stopping there reports
\* a failed restore; carrying on would extract over a half-emptied volume and
\* call it a success" (internal/archive/cmd.go): a job that could not empty its
\* destination does not succeed.
FailedCleanStops == verdict = "succeeded" /\ Empties(job) => ~unprepared

=============================================================================
