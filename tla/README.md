# Formal models of pv-migrate

`pv-migrate` copies the contents of Kubernetes PersistentVolumeClaims: from claim to
claim (`migrate`), or between a claim and a bucket (`backup`, `restore`), with helper
workloads it installs as Helm releases. This directory has TLA+ models of the parts where
order, failure and concurrency matter, the TLC configurations that check them, and proofs
for TLAPS.

    tlc -config ladder.cfg MCLadder        # one run, see the table of runs below
    tlapm LadderProofs.tla                 # one proof module

## 1. The system

| Component | State it keeps | Operations | Module |
|---|---|---|---|
| Strategy ladder, `internal/migrator` | rung, the attempt's release names, outcomes | `Run`, `runAttempt`, `cleanupAttempt` | `Ladder` |
| Strategies, `internal/strategy` | Helm releases on two sides, diagnostic targets | `Run` of mount, clusterip, loadbalancer, nodeport, local; `Cleanup` | `Ladder` |
| Session of the local strategy, `strategy/local.go` | two errgroups, SSH connection, tunnel, pipe | `runLocalMigration`, `runMoverOverSSH`, `runMoverSession`, `forwardTunnelConnections` | `LocalTunnel` |
| Job wait, `internal/k8s/job.go`, `internal/progresslog` | verdict, log stream, progress bar, retry delay | `WaitForJobCompletion`, `Logger.Start`, `tailLogs`, `handleLogs` | `JobWait`, `JobVerdict` |
| Backup and restore, `internal/bucketstorage` | snapshot, clone, release, job | `Run`, `handleJobCompletion` and deferred calls | `SnapshotBackup` |
| Database quiesce, `bucketstorage/snapshotsource.go`, `internal/flush` | client process, exec stream, lock | `quiesceSession`, `quiesceOneShot`, `quiescePair` and their releases | `SnapshotBackup` |
| Snapshots, `internal/snapshot` | VolumeSnapshot, cloned claim | `Create`, `WaitForCut`, `WaitReady`, `Clone`, `DeleteLabeled` | `SnapshotBackup`, `Cleanup` |
| cleanup command, `internal/app/cleanup.go` | nothing of its own; reads and removes releases, claims, snapshots | list, `checkNoActiveJobs`, `uninstallRelease`, `removeSnapshotLeftovers` | `Cleanup` |
| Data movers, `internal/strategy/mover.go`, `internal/archive`, `internal/rsync`, `internal/rclone`, the chart's job scripts | the script's counters, the volumes' files, the sidecar | prepare, copy, retry loop, metadata upload; `warnIfSourceFilesVanished`, `interpretExitCode` | `MoverJob` |
| PVC info and placement, `internal/pvc`, `strategy/mount.go`, `bucketstorage/archive.go` | what was read about each claim | `newInfo`, `findMountedPod`, `resolveTopology`, `inheritTopology`, `checkSchedulable`, `validatePVCs`, `determineTargetNode`, affinities | `Placement` |
| Signals, `cmd/pv-migrate/main.go` | one context | the first signal cancels it | `Interrupt` of each module |
| Status, service addresses, parsers, Helm values | see section 8 | | not yet, or not modelled |

How they interact. The ladder calls one strategy after another. A strategy installs
releases through Helm, waits for the mover (a job, or for `local` a command over SSH) and
returns; the ladder then has the strategy's releases removed, on both sides, by name. The
job wait runs a log follower beside itself and joins it before it prints. A backup may
first make a snapshot, under a lock held by a process in the database's pod, and a clone
of the snapshot for its job to read. Before anything is installed each claim is read once:
its pods, its volume and the nodes; refusals, the mount strategy's node and every pod's
affinity come from that reading. In the pod a script runs the mover, retries it and
decides which exit statuses count as success, and the client sees the script's status and
the tail of its log. The cleanup command meets all of this from a process
of its own: what it shares with the others is the cluster, release names and one label.

What is hard here:

* Partial failure. Helm may fail with the release created; an API reply may be lost after
  the object was made; one of several deletions may fail. What is left behind, and who
  still knows about it, depends on the exact order of deferred calls.
* Interrupts and death. Every context is cancelled by the first signal, except those that
  clean up. A kill stops the run between any two steps and leaves the cluster as it was.
* Two processes under one name: a detached run and a second one with the same `--id`, two
  cleanups, a cleanup beside a backup.
* Locks in another system. The lock may be lost, leaked or executed without a reply.
* Exit statuses that pass through a pipeline, a remote shell, a retry loop and a policy
  before anyone reads them, with attempts that broke off in the middle of their work.
* A cluster that moves between two reads: pods finish or get a node, claims are bound,
  nodes leave.
* Goroutines joined through pipes, channels of one token, and contexts derived from each
  other (the job wait and the local session).

What makes each component correct: the ladder leaves no release behind, says success only
of a finished copy, and can explain a failure; the backup reads only what was cut under its
lock, never runs while the database is locked, and takes back what it made; cleanup removes
all of what it lists and nothing that is in use; the wait gives one verdict, the right one,
and gives the terminal back; a job succeeds only with the data whole at its destination and
says so honestly; a pod is put where its claims can be mounted, and no run is refused when
there is such a place; the local session ends, and says success only of a transfer that
succeeded. `PROJECT.json` lists the hazards line by line with the property for each.

## 2. The modules

Each component's module has the state as variables, one action per operation, the
environment's actions, and the properties. `MC<module>` only gives the constants values.
Operators that come directly before a definition and are marked "Mutant" are variants of
it with a plausible bug; nothing uses them, they exist to show that each property notices.

**`Ladder`** One run of `Migrator.Run`: `Prepare` (validation up to the first rung), then
for each rung `BeginAttempt` (declines, values), `InstallHelmChart` (one step per release),
`ResolveTarget` (the address of a load balancer, or else of a node port), `StartSession` (local),
`WaitForMover`, `CleanupAttempt` (the flags), `Uninstall` (one step per name and side) and
`Advance` (success, interrupt, next rung). Releases record which run created them; mover
pods move by themselves. An uninstall deletes the workloads in the background: the pod of a
job stays in `leftovers` for its grace period, still copying, while the next rung or the
next run goes on. The wait finds pods by the job's name, so the one it has found (`watched`)
is this run's or such a leftover of an earlier run (`MoverPods`). `Rerun` starts the command
again with the same `--id`. History variables (`copied`, `inherited`, `kept`, `stuck`) record
what the properties need.

**`SnapshotBackup`** One backup, step by step as the deferred calls of `Run`,
`prepareSnapshotSource`, `ensureSnapshot` and `cutSnapshot` are unwound. The lock has the
three modes of `internal/flush`: held in a session (mysql, mariadb), taken and released by
two commands and counted by the server (mongodb), or a command that holds nothing. The
client, the server, the exec stream, the storage system and the job are separate actors.
`excuses` records the failures of calls that take things back.

**`Cleanup`** Any number of cleanup commands against any set of releases, with the
operations that own the releases reduced to what cleanup can meet. An id is a sequence of
segments, since ids may contain the hyphen that separates the parts of a release name.

**`JobWait`** The waiter, the follower, and the tail and renderer of the current stream as
four processes. The text of a line is a number: line n reports progress n. The verdict of
a job that finished and whose pods are gone already (`finishedJobWithoutPods`) is part of
`ResolvePod`. **`JobVerdict`** is the abstract specification: what a caller may rely on.
`KeepsContract` says that `JobWait` implements it, with the verdict visible once it is
returned. Its `Safety` is the part without fairness.

**`LocalTunnel`** The two errgroups of the local strategy: port-forwards, mover goroutine,
watcher, accept loop, runner, logger, and the SSH library's copy of the command's output
into the pipe. The pipe has no buffer; a write waits for a reader. `TearDown` closes the
tunnel's listener, which asks the SSH server to cancel the forward and waits for the answer
(`local.go:282`); like `Dial` and `StartMoverSession` the answer comes when it comes. That
`session.Run` waits for its output copy is taken from how the code relies on it. `Contract`
maps the session to `JobVerdict`: the remote command stands for the pod, absent until the
session is open and pending until the exec request is answered (`CommandPhase`), and the
session's result is the verdict.

**`MoverJob`** One job pod. What is asked for is one of the combinations the builders can
produce: rsync or tar between claims, mounted in one pod or over SSH in either direction;
rclone, a tar in a file or a tar in a stream to and from a bucket. `Start` and
`PrepareFails` are the `mkdir` and `find` in front of the pipeline, `Carry`, `Finish`,
`Break` and `UsageError` the movers themselves (external: what they exit with is taken from
the policies' comments and tables), `Settle`, `Sleep`, `Metadata` and `Exit` the scripts of
the chart. A volume, a bucket prefix and an archive are a function from names to none, old,
part or new. `Vanish` is the workload at the source, `Killed` an eviction, and
`WarnIfSourceFilesVanished` and `ExplainFailure` are the client after the verdict.
`--dry-run` among the extra arguments is rclone's: `DryRun` says where it keeps the job from
writing. A restore from a stream accepts it and restores all the same, since `mkdir`, `find
-delete` and `tar -x` never see it and `rclone cat` only reads.

**`Placement`** One run from its first read to the installation of its pods. A claim has
access modes, may be bound, and its volume may be limited to some nodes; the pods naming it
are a list, as the API returns it. `FindMountedPod` and `ResolveTopology` are the two
halves of `newInfo`; between them, and between the claims, `ClusterStep` may let a pod
finish, schedule one, bind a claim or remove a node. `NoLimit` is Go's nil list, which the
code tells from an empty one. `truth` keeps what was so at the moment of reading, which is
the best any answer can be about. The affinities are `kind` and `nodes` of what the Helm
values would hold.

`Ladder` and `SnapshotBackup` use the wait as `JobVerdict` promises it: an error at any
time, success for a job that succeeded (be it just before an interrupt), a verdict when the
pod ended or the context is cancelled. `Ladder` uses the local session in the same way. That
both sides meet in `JobVerdict` is proved as far as safety goes (section 6); `LocalTunnel`
shows where the promise of a verdict is optimistic (section 5).

## 3. The runs

| Run | What it shows |
|---|---|
| `ladder` | Whatever fails, whenever it is interrupted or killed: no release outlives its attempt without a reason (`NoOrphanRelease`), what a failed attempt got installed is in sight of its diagnostics (`DiagnosticsSeeInstalls`), success is said of a finished copy (`SuccessMeansCopied`), a detached job stays (`DetachLeavesJob`), an interrupt ends the run and only a running mover holds it up, the session of `local` apart |
| `snapshot_backup` | The cut is under the lock (`ConsistentCut`), the lock is gone before the job (`LockGoneBeforeBackup`), a confirmed lock is released or reported, nothing is left behind, what is not the run's survives, the clone outlives the job; the run ends on an interrupt, a session's lock ends with the run |
| `cleanup` | The job check covers the list before anything is removed, a success has removed everything listed, leftovers lose their release only to an error |
| `job_wait` | The follower is gone before anyone prints, the bar's line is ended once, and the wait implements `JobVerdict`, liveness included |
| `local_tunnel` | Success only of a transfer that succeeded, nothing left running, an interrupt ends the session (but see section 5), nothing but the remote side holds it up |
| `mover_job` | A job that succeeded has every file of the source whole at its destination, whichever side of a pipeline failed in which attempt (`SuccessMeansCopied`); where it is to replace the contents, nothing else is there (`SuccessMeansExact`); the sidecar describes data that is all there and no backup succeeds without it (`SidecarFollowsData`); lost+found, what was not to be deleted and dry runs are left alone (`LeavesAlone`); the user of an rsync migration is warned exactly when a file was skipped (`HonestReport`) |
| `placement` | No refusal and no required affinity shuts out a node that would do, whatever could be read (`NoNodeWronglyExcluded`); a pod is admitted only where it can mount its claims, once the topology could be read and the users were noticed (`PlacementSound`); the mount strategy's node is where each claim is attached (`MountNodeHoldsBoth`) |
| `snapshot_lock_leak`, `cleanup_other_namespace`, `local_signal_lost`, `mover_failed_clean`, `placement_hidden_mount` | One counterexample each, section 5 |

## 4. Bounds and fairness

* `ladder`: two runs under one id are needed for one to meet the other's releases; a third
  meets nothing new, since the second can already leave anything the first can. The five
  requests use every strategy, both directions, each flag and a repeated strategy; the
  three placements make mount possible, clusterip possible, and neither. Only one of the
  requests has a second rung; the proofs are for any ladder.
* `snapshot_backup`: every source and lock mode; one leaked lock is enough to tell a count
  of one from a count above one.
* `cleanup`: two cleanups and two releases: one with snapshot leftovers, one whose job is
  not in the release's namespace and whose id extends the other's. The cleanups are
  symmetric.
* `job_wait`: two lines, so that a stream can break after one and be opened again; the
  delays are those of the code (250 ms doubling to 5 s). Faults are not bounded.
* `local_tunnel`: two lines and one connection: a write nobody reads, with another line
  behind it, and a proxy that outlives the accept loop.
* `mover_job`: two files, so that one can be carried and the other cut short or vanish, two
  retries, and every kind of job. Only whether an attempt is the last one depends on the
  number of retries.
* `placement`: two nodes are enough for two claims held apart and for a volume limited to
  one of them; lists of up to two pods have one hide another. A claim asks for any
  one access mode. The cluster moves once in a run; the proofs
  lift this bound and the others. The nodes are symmetric.

Deadlock is not checked where a run ends: all of these are commands that stop.

Fairness is weak fairness of the steps the process takes by itself: the CLI's sequence, or
each goroutine. The Go scheduler justifies it, and timeouts in the code make the waits with
a bound into such steps. In `Ladder` these are `Bounded`; the steps of local's session
(`Session`) are not among them, since gossh's Dial, Listen and NewSession have no timeout
(`local.go:188`, `200`, `212`) and the end of the session may not come (section 5), so
`InterruptEndsRun` and `OnlyMoverBlocks` exempt them. In `SnapshotBackup` a client whose
stdin was closed exits; in `LocalTunnel` a connection whose forward has ended is noticed.
Nothing is assumed of pods, the network, remote commands, the storage system or the
database, which is why the liveness properties name what may hold a run up for ever: a
running mover, a command in the database's pod, an SSH server that does not answer.

## 5. What the code does not keep

Each of these is a run that TLC ends with a counterexample.

* `snapshot_lock_leak`. A lock command of a pair that was executed but whose reply was lost
  leaves the database locked: its release is only set up after the confirmation.
* `cleanup_other_namespace`. The job check looks in the release's namespace; a pushing
  clusterip migration has its job in the source's.
* `local_signal_lost`. The completion token can be taken by the renderer of a stream that
  has already ended; the follower then opens the closed pipe for ever, and a transfer that
  succeeded never returns.
* `mover_failed_clean`. A failed `mkdir` or `find` in front of a tar migration exits with 1,
  which the policy of `--mover tar` tolerates as files that changed: the job succeeds, with
  the destination half emptied or nothing copied. Where both claims are in one pod the
  chain of `&&` is also broken by the `printf` that opens the creating tar.
* `placement_hidden_mount`. `findMountedPod` stops at the first unfinished pod naming the
  claim. If that one has no node yet, the claim counts as not mounted, and neither
  `--ignore-mounted` nor the refusal of ReadWriteOncePod claims comes into play.

Seen while modelling and not given a run of their own:

* The cleanup of an attempt removes releases by name, including those of an earlier,
  detached run with the same `--id` (`migrator.go:259`).
* A rung that was given up may still be writing when the next one starts: the uninstall of
  its release returns with the pod terminating (`strategy.go:174`), and nothing waits for it
  (`migrator.go:77`). In the same way a rerun under one `--id` within the grace period can
  find the earlier run's pod by the name of the job (`k8s/job.go:409`) and take its verdict;
  `SuccessMeansCopied` says that the pod then did finish the copy.
* When the clusterip install fails, diagnostics do not look at the source's namespace, where
  the release put its sshd (`clusterip.go:29`).
* A run that dies before its install leaves a labelled snapshot that `cleanup` cannot find,
  since it looks for releases (`cleanup.go:116`).
* Ids are matched as a prefix: cleaning up `a` removes the releases of `a-b`
  (`cleanup.go:54`).
* A migration by tar gets no warning for files that changed, since only rsync's marker is
  looked for (`k8s/job.go:438`, against the comment at `archive/exitcode.go:7`), and its
  exit codes are explained from rsync's table (`k8s/exitcode.go:208`). `HonestReport` is
  about rsync for this reason.
* A backup to an archive runs in the rclone component, whose script tolerates no status, so
  tar's 1 fails it (`archive/exitcode.go:12` says it would not).
* A claim used alone whose node has left while its pod lingers reaches `RequireNodes` with
  an empty list, which its comment excludes (`pvc/info.go:426`); the mount strategy does not
  look at the destination volume's topology (`mount.go:61`).
* A pod that is force-deleted while running shows no terminal phase, and the wait for it is
  bounded by the context only (`k8s/pod.go:172`). `KeepsContract` promises nothing for it.
* With `--no-cleanup` a failed attempt may leave its mover running beside the next one's
  (`migrator.go:265`).
* A restore from a stream ignores `--rclone-extra-args --dry-run`: it empties and extracts
  (`archive/cmd.go:382`).
* The code of a job that archives to a bucket is read by tar's table though it may be
  rclone's, or the status of the sidecar's copy (`archive/exitcode.go:27`,
  `templates/rclone/job.yaml:82`); only the log says which. `HonestReport` says nothing of
  explanations for this reason.
* A restore that replaces the volume empties it before the archive is known to be readable
  (`archive/cmd.go:126`).
* Only the first signal is read (`main.go:45`), so a second Ctrl-C does not stop the cleanup
  that follows the first.

`LocalTunnel` has a second such case, named `OutputStranded`: an interrupt before the
follower has opened the pipe leaves the output copy in a write that nobody will read.
`InterruptEndsSession` excludes it by name. `InterruptEndsRun` and `OnlyMoverBlocks` of
`Ladder` promise nothing while `local` is in its session.

## 6. The proofs

The theorems hold for every value of the constants under the assumptions the modules state:
requests and placements of the declared types (a flush goes with a new snapshot only, as
`validateSnapshotRequest` ensures), at least one run, a natural number of leaked locks.
There is no bound on the length of the ladder or on the number of runs. `Placement` assumes
that the empty name is no node and that nil is no set of nodes; the lists of pods are any
sequences, and the cluster may move any number of times. `JobWait` and `LocalTunnel` assume
of the bounds on lines and on connections that they are positive, and of the first retry
delay that it is positive and not above its ceiling.

**`LadderProofs`**: all five invariants of `Ladder`. Types need `Control`:
an attempt in progress has a rung that exists, and its names are those of its strategy.
`NoOrphanRelease` is not inductive, since it does not say that a cleanup in progress will
still come to a release. `Ownership` does: a release nothing excuses belongs to the current
attempt, which has recorded its names, and during the cleanup it is `Ahead`, later in the
list on this side, or on the other side. `Uninstall` is the interesting step: the position
moves on only past a release that is gone, was reported as stuck, or lives on the other
side.

`InstallsAreSeen` needs `Diagnosed`, that the targets cover what is installed at every step
of an attempt and not only when it fails, and `Past`: the strategy of an attempt was not
tried before, so that no release of this run under its names is from a rung whose targets
were forgotten.

`SuccessIsCopied` and `DetachedJobStays` need `Tracked` on top: the release a wait looks at
was installed by this run, and the pod it has found is this run's or one that was there when
the run began (`OwnOrInherited`). That a leftover of this run's own is never found again is
what `Past` gives: leftovers made since the start are of strategies tried before. The step
that matters is `InstallHelmChart`, where the name in use is refused and the mover's release
is shown to be the one the wait will ask for (`MoverReleaseFacts`); `Rerun` keeps it because
`Ownership` knows of no release of a run yet to come. An attempt that succeeded by detaching
is then never in the cleanup.

**`SnapshotBackupProofs`**: all seven safety invariants of the module, from one invariant
`IInv`:

* `ClientPhase`, `CutUnderLock`: while the lock is held, it was held when the cut was made;
  a session's client cannot get from `lost` back to `held`. For a pair, from the
  confirmation on, either the server counts this run's lock or a restart has set the count
  to zero. So an unlock that reports "last lock released" shows that the lock was there all
  the time, a lock leaked by an earlier run included.
* `Secured`: past a confirmed release nothing about lock or cut changes any more. This gives
  `ConsistentCut` and `LockGoneBeforeBackup`.
* `Accounted`: a confirmed lock has its release function ahead, is gone, or was reported.
* `TakenBack`, `LeftAlone`: at each control point, which deferred calls are still ahead for
  the clone and the snapshot, and that none is for a snapshot that is to stay.
* `CloneBacksRelease`: the uninstall and the removal of the clone are skipped under the same
  condition, so a release that stays keeps its clone.

**`PlacementProofs`**: all four invariants of `Placement`, from `IInv`:

* `Order`: what has not been read is unread, and nothing is installed before the end.
* `Clone`: a clone's volume stays within its source's limits and nobody uses it, so that the
  source's nodes can stand in for those of a clone without a volume.
* `Read`: what is known of a claim agrees with `truth`: a mounted node holds the claim, and
  where one node may attach it there is only one holder. A bound claim keeps its volume, so
  this survives every move of the cluster.
* `Kept`: for each node of the cluster, if it could mount the claim it is among the nodes
  kept, and with an answer the nodes kept are only such. `ResolvedKept` shows this for
  `resolveTopology`, with and without inheriting; `KeptStays` that nodes leaving and pods
  changing cannot break it.

The three safety theorems then only look at the last step of a run (`HowItEnds`,
`WhatIsInstalled`) and use that an intersection admits what both constraints admit, nil
admitting everything (`IntersectAllows`). That the first unfinished pod of a list exists
uses the well-ordering of the naturals (`LeastPosition`).

**`MoverJobProofs`**: all five invariants of `MoverJob` and its action property
`LeavesAlone`, for any files and any number of retries. `MoverJob` assumes that `lost+found`
is none of the files and that the retries are a natural number. The invariant `IInv`:

* `Copying`: what an attempt finds at the destination while it copies. A file that was sent
  is there (unless the data is buffered until the upload ends), and after a preparation that
  succeeded nothing else is.
* `Copied`: what the status the script is about to look at says of the destination. It rests
  on two lemmas: `FinishStatus`, a mover that came to the end says 0 only when it missed
  nothing, and `BreakStatus`, a mover that broke off never exits with a status its own policy
  tolerates. Reading one mover's status by the other's table would break the second. A
  migration by tar whose destination could not be prepared is `Excused`; that is the finding
  of `mover_failed_clean`.
* `Left`: past the loop the status stays that of the data until the sidecar has its own, so a
  sidecar is written last; and the marker in the log is that of the attempt that succeeded.
* `Told`, `Counted`: what the client has said, and that an attempt begins only while retries
  are left.

`SuccessMeansExact` is not inductive since an earlier attempt may have left anything at the
destination; that every attempt prepares again (`Start`) is what re-establishes `Copying`.

**`CleanupProofs`**: all four invariants of `Cleanup`, for any number of cleanups and of
releases (there must be a command to run). `SuccessMeansGone` is not inductive: it needs
that nothing comes back, and where each cleanup is.

* `Once`: whatever a cleanup has heard of was installed, and an operation makes its source
  and installs its release once, so neither can be made again behind the cleanup's back.
* `Through`: of the list, everything is gone but what is still to do and the leftovers of the
  release in hand; after the claims only snapshots are left of that one.
* `Looked`: a job that has been active since the listing is still to be looked at, or is not
  in the namespace where the check looks.

`OperationKeeps` shows once for all operations that a step which installs nothing a cleanup
has heard of cannot disturb `Through` and `Looked`. `StrandedOnlyByError` is inductive with
these; its hard step is the removal of the snapshots, after which nobody is in charge of the
release any more.

**`JobWaitProofs`**: all invariants of `JobWait`. `BarTerminatedOnce` is far from inductive:
who ends the line depends on who took the completion signal, and a follower may open a new
stream after the bar is finished. `IInv`:

* `Lifetimes`: the tail and the renderer live inside a stream, the stream inside the
  follower, the follower between the start of the watch and the join.
* `Signalled`: the signal is given only for a pod that succeeded, at most once, and from
  then on the bar is not the waiter's to close. Without success nobody finishes the bar.
* `Lines`: once the bar is finished there is no line on its way. The pod has ended, so the
  log does not grow, and a stream opened again starts at its end since it is not the first
  (`followLogOptions`). Starting at the beginning again would break this.
* `Terminated`: what the terminal shows is a function of what the follower has drawn
  (`BarOf`), until the waiter takes over and adds the one newline that is missing.

`FinishedBarIsFinal` is an action property from the same invariant: no step of any goroutine
touches the bar after it is finished.

**`LocalTunnelProofs`**: all invariants of `LocalTunnel`. `IInv`:

* `SessionBounds`: no goroutine of the inner group exists before the session; when the mover
  goroutine has returned, the group has been joined and what was opened is closed.
* `InsideRun`: command and copier live inside `session.Run`, the proxies inside the
  forwarder unless its accept loop broke.
* `StatusCarried`: from the runner through the two error groups to the result, either the
  mover's status is one the policy tolerates or an error was raised.
* `ReaderLeft`: a logger that stopped without closing its end of the pipe had seen the
  signal, which is only given past `session.Run`, or a cancelled context. So
  `StrandingNeedsCancel`: `OutputStranded`, the exception in `InterruptEndsSession`, needs an
  interrupt or a failure.

**The contract of the wait.** `ImplementsContract` in both modules shows, action by action
(`StepRefines`), that `JobWait` and `LocalTunnel` implement `JobVerdict!Safety`. On the other
side, `LadderProofs` and `SnapshotBackupProofs` each have a pair of theorems about the wait of
a run that does not detach. `TakesEveryVerdict`: each decision `JobVerdict` allows is a step of
`WaitForMover` or `WaitBreaks` (`WaitForJob` or `WaitBreaks`), so nothing the detailed wait may
return is left out of the results about the ladder and the backup. `AssumesThePromise`: while
waiting, pod, context and answer make no step that `JobVerdict` does not allow. Together the
models need no run that composes them. `TakesEveryVerdict` is the reason why `WaitSucceeds` and
`JobAnswered` do not ask whether the context is cancelled: `MarkAsComplete`'s select and the
local session can return a success that an interrupt has just overtaken.

Only model-checked: the liveness properties, the fairness part of `KeepsContract` included,
since the prover does neither fairness nor `ENABLED`; and the five runs that show a
violation. Every invariant and action property of a passing run has a theorem.

## 7. Abstractions

Payloads, file names, Helm values and command lines are left out; what is kept of a request
are the fields that steer the control flow. Timeouts are choices: a bounded wait may give
up at any time. Errors of a call are one value unless the code tells them apart. Helm, the
API server, the kubelet, the database and the SSH library are external and modelled from
how the code uses them: an operation may fail before or after it took effect. Version
parsing and the choice between two equivalent MySQL locks are not distinguished.

## 8. Not modelled, and the plan

Not modelled: the flags of the commands, the rclone configuration and shell quoting, the
progress parsers, the Helm values beside affinity and node, SSH key generation, command
line flags and their validation, narration, and the text of diagnostics. They are pure or
formatting, and the repository's table tests cover them. `status` changes no state; its
matching of ids is that of `cleanup`. Service addresses (`internal/k8s/service.go`) are a
bounded wait that finds one or fails, in `Ladder`.

Next:

1. A composition of `Cleanup` with a running backup and with `status`, to replace the
   reduced operations of `Cleanup`, and the hazards of `PROJECT.json` that have no property
   yet.
2. An abstract specification of the quiesced cut (locked, cut, released, read) and the proof
   that `SnapshotBackup` implements it.
