------------------------------- MODULE Ladder -------------------------------
(***************************************************************************)
(* The strategy ladder of `pv-migrate`: Migrator.Run walks the requested   *)
(* strategies, each of which installs Helm releases that copy the data,    *)
(* waits for the mover, and removes what it installed before the next rung *)
(* is tried (internal/migrator, internal/strategy).                        *)
(*                                                                         *)
(* Two clusters' worth of state is kept: the Helm releases that exist, the *)
(* phase of the mover pod of each, and the job pods that are still going   *)
(* away after their release is gone.  The CLI process walks through the    *)
(* control points below.  The environment starts and ends pods, interrupts *)
(* the CLI (SIGINT/SIGTERM), kills it, and starts it again with the same   *)
(* --id, which is what gives two runs the same release names.              *)
(***************************************************************************)
EXTENDS Integers, Sequences, FiniteSets

CONSTANTS
    Requests,  \* what the command line may ask for, see RequestType
    Places,    \* how the two claims may relate, see PlaceType
    MaxRuns    \* how many times the command is run with one --id (a bound)

Strategies == {"mount", "clusterip", "loadbalancer", "nodeport", "local"}

Sides == {"source", "dest"}

Parts == {"only", "src", "dest"}

\* migration.Request: the ladder as typed (it may repeat a strategy) and the
\* flags that steer the attempt.
RequestType == [strategies : Seq(Strategies), detach : BOOLEAN, push : BOOLEAN,
                noCleanup : BOOLEAN, noCleanupOnFailure : BOOLEAN]

\* How the claims sit: clusters, namespaces, and whether one pod could mount
\* both (nodes and access modes, Mount.cannotDoReason).
PlaceType == [sameCluster : BOOLEAN, sameNamespace : BOOLEAN, mountable : BOOLEAN]

ASSUME RequestsAssumption == Requests \subseteq RequestType

ASSUME PlacesAssumption == Places \subseteq PlaceType

ASSUME MaxRunsAssumption == MaxRuns \in Nat \ {0}

\* A release name is pv-migrate-<id>-<strategy>[-src|-dest].
Releases == ({"mount", "clusterip"} \X {"only"})
            \union ({"loadbalancer", "nodeport", "local"} \X {"src", "dest"})

MoverPhases == {"none", "pending", "running", "succeeded", "failed"}

Errors == {"none", "declined", "failed"}

PCs == {"start", "begin", "first", "target", "second", "session", "wait",
        "ended", "cleanup", "advance", "done", "killed"}

Results == {"unknown", "refused", "succeeded", "detached", "exhausted"}

VARIABLES
    place,      \* the claims, fixed for the whole behaviour
    req,        \* the request of the current run
    run,        \* which run of the command this is
    pc,         \* where the CLI is
    rung,       \* index into req.strategies of the current attempt
    names,      \* attempt.ReleaseNames
    targets,    \* the sides in attempt.DiagnosticTargets
    detached,   \* attempt.Detached
    err,        \* what Strategy.Run returned
    watched,    \* the run whose mover pod the wait has found, 0 before it looks
    side, next, \* Cleanup's two loop indices
    outcomes,   \* statuses of the failed attempts, in ladder order
    cancelled,  \* ctx.Err() # nil
    result,     \* what Run returned
    release,    \* the run that installed each release, 0 when there is none
    mover,      \* phase of the mover pod of each release
    leftovers   \* <<release, run>>: job pods that outlive the release they came with

\* History variables: they record facts and no action reads them.
VARIABLES
    copied,     \* <<release, run>>: mover pods that finished the copy, of those that
                \* existed in this run
    inherited,  \* the leftovers there were when this run started
    kept,       \* strategies whose cleanup was skipped on request in this run
    stuck       \* releases the cleanup of this run failed to uninstall

attemptVars == <<names, targets, detached, err, watched>>
cleanupVars == <<side, next>>
clusterVars == <<release, mover, leftovers>>
historyVars == <<copied, inherited, kept, stuck>>
vars == <<place, req, run, pc, rung, names, targets, detached, err, watched, side, next,
          outcomes, cancelled, result, release, mover, leftovers, copied, inherited, kept,
          stuck>>

-----------------------------------------------------------------------------
(* Where releases and movers live *)

\* The index is that of a strategy not met earlier in the list (dedup).
Fresh(i) == \A j \in 1..(i - 1) : req.strategies[j] # req.strategies[i]

\* k is the next rung from index i on, or one past the end.
IsRung(i, k) ==
    /\ k \in i..(Len(req.strategies) + 1)
    /\ k <= Len(req.strategies) => Fresh(k)
    /\ \A j \in i..(k - 1) : ~Fresh(j)

Current == req.strategies[rung]

\* The strategies of the rungs already left behind.
Tried == {req.strategies[j] : j \in 1..(rung - 1)}

TwoReleases == {"loadbalancer", "nodeport"}

\* topology.releaseNames, and the single names the other strategies use: the
\* sshd release comes first, and the suffix is the side it goes to.
ReleaseNames(s) ==
    CASE s \in {"mount", "clusterip"} -> <<"only">>
      [] s \in TwoReleases -> IF req.push THEN <<"dest", "src">> ELSE <<"src", "dest">>
      [] s = "local" -> <<"src", "dest">>

\* The claim whose namespace a release is installed into.
SideOf(s, part) ==
    CASE part = "src" -> "source"
      [] part = "dest" -> "dest"
      [] part = "only" -> IF s = "mount" THEN "source" ELSE "dest"

\* Two sides are one place to Helm when cluster and namespace coincide.
SameStore(a, b) == a = b \/ (place.sameCluster /\ place.sameNamespace)

\* The release that holds the mover: its job, or for local the source pod the
\* session runs in.
MoverPart(s) ==
    CASE s \in {"mount", "clusterip"} -> "only"
      [] s \in TwoReleases -> IF req.push THEN "src" ELSE "dest"
      [] s = "local" -> "src"

MoverRelease(s) == <<s, MoverPart(s)>>

\* Does installing this release create the mover job?
HasJob(s, part) == s # "local" /\ part = MoverPart(s)

\* describeRelease waits for the sshd pod of every release that has one.
HasSshd(s, part) == s # "mount" /\ ~(s \in TwoReleases /\ part = MoverPart(s))

\* The sides whose namespace a release of the attempt puts workloads into: one
\* release spans both only for clusterip.
WorkloadSides(s, part) == IF s = "clusterip" THEN Sides ELSE {SideOf(s, part)}

-----------------------------------------------------------------------------
(* The command line: Migrator.Run and runAttempt *)

FreshAttempt ==
    /\ names' = <<>>
    /\ targets' = {}
    /\ detached' = FALSE
    /\ err' = "none"
    /\ watched' = 0

\* The strategy's Run returns with error e ("none" is success).
Return(e) == pc' = "ended" /\ err' = e

\* preflight, the clients and buildMigrationWithClients: nothing is installed
\* yet, and a failure is returned as it is.
Prepare ==
    /\ pc = "start"
    /\ \/ /\ pc' = "done"
          /\ result' = "refused"
          /\ UNCHANGED <<rung, attemptVars>>
       \/ \E k \in 1..(Len(req.strategies) + 1) :
            /\ IsRung(1, k)
            /\ rung' = k
            /\ FreshAttempt
            /\ IF k <= Len(req.strategies)
               THEN pc' = "begin" /\ UNCHANGED result
               ELSE pc' = "done" /\ result' = "exhausted"
    /\ UNCHANGED <<place, req, run, cleanupVars, outcomes, cancelled,
                   clusterVars, historyVars>>

\* cannotDoReason of the strategies, and local's refusal to detach.
Declines(s) ==
    CASE s = "mount" -> ~(place.sameCluster /\ place.sameNamespace /\ place.mountable)
      [] s = "clusterip" -> ~place.sameCluster
      [] s \in TwoReleases -> FALSE
      [] s = "local" -> req.detach

\* The part of Strategy.Run before the first install.  clusterip builds its
\* values after it names its release, the others fail before they name any.
BeginAttempt ==
    /\ pc = "begin"
    /\ \/ Declines(Current) /\ Return("declined") /\ UNCHANGED names
       \/ /\ ~Declines(Current)
          /\ \/ /\ pc' = "first"
                /\ names' = ReleaseNames(Current)
                /\ UNCHANGED err
             \/ /\ Return("failed")
                /\ names' = IF Current = "clusterip" THEN ReleaseNames(Current) ELSE <<>>
    /\ UNCHANGED <<place, req, run, rung, targets, detached, watched, cleanupVars, outcomes,
                   cancelled, result, clusterVars, historyVars>>

\* The part being installed at this control point.
Part == IF pc = "first" THEN names[1] ELSE names[2]

AfterInstall ==
    IF pc = "second"
    THEN IF Current = "local" THEN "session" ELSE "wait"
    ELSE CASE Current \in TwoReleases -> "target"
           [] Current = "local" -> "second"
           [] OTHER -> "wait"

\* Helm creates the release and its workloads.  A failed creation may stop
\* before the job.
Create(r, withJob) ==
    /\ release' = [release EXCEPT ![r] = run]
    /\ mover' = [mover EXCEPT ![r] = IF withJob THEN "pending" ELSE "none"]
    /\ UNCHANGED leftovers

\* Mutant: an install is recorded once it has succeeded.
RecordedOnSuccess(ok) ==
    IF ok THEN targets \union WorkloadSides(Current, Part) ELSE targets

\* The diagnostic targets after an install: its side is recorded before anything
\* is created, and the other side clusterip uses once its install has succeeded.
Recorded(ok) ==
    targets \union {SideOf(Current, Part)}
            \union (IF ok /\ Current = "clusterip" /\ ~place.sameNamespace
                    THEN {"source"} ELSE {})

\* The pods a wait for the job of strategy s may find: the selector is the job's
\* name, which a pod that an earlier run's cleanup left terminating still matches.
MoverPods(s) == {run} \union {n \in 1..run : <<MoverRelease(s), n>> \in leftovers}

\* installHelmChart.  Helm does not look at the context; the wait for the sshd
\* pod in describeRelease does.  A name in use is refused.
InstallHelmChart ==
    LET s == Current
        r == <<s, Part>>
    IN  /\ pc \in {"first", "second"}
        /\ \/ /\ Return("failed")
              /\ targets' = Recorded(FALSE)
              /\ UNCHANGED <<clusterVars, watched>>
           \/ /\ release[r] = 0
              /\ Return("failed")
              /\ targets' = Recorded(FALSE)
              /\ \E withJob \in {FALSE, HasJob(s, Part)} : Create(r, withJob)
              /\ UNCHANGED watched
           \/ /\ release[r] = 0
              /\ cancelled => ~HasSshd(s, Part)
              /\ pc' = AfterInstall
              /\ targets' = Recorded(TRUE)
              /\ Create(r, HasJob(s, Part))
              /\ IF AfterInstall = "wait" THEN watched' \in MoverPods(s) ELSE UNCHANGED watched
              /\ UNCHANGED err
        /\ UNCHANGED <<place, req, run, rung, names, detached, cleanupVars, outcomes,
                       cancelled, result, historyVars>>

\* GetServiceAddress, or GetNodePort and the address of a node: each looks and
\* watches under the context.
AddressFound == ~cancelled

\* resolveLBTarget or resolveNodePortTarget, and building the mover command for
\* the address found.  Both are bounded by --loadbalancer-timeout.
ResolveTarget ==
    /\ pc = "target"
    /\ \/ AddressFound /\ pc' = "second" /\ UNCHANGED err
       \/ Return("failed")
    /\ UNCHANGED <<place, req, run, rung, names, targets, detached, watched, cleanupVars,
                   outcomes, cancelled, result, clusterVars, historyVars>>

\* local: pod lookups, port-forwards, SSH, reverse tunnel, then the session.  The
\* SSH calls have no timeout: they may take for ever to come to either end.
StartSession ==
    /\ pc = "session"
    /\ \/ /\ ~cancelled
          /\ pc' = "wait"
          /\ mover' = [mover EXCEPT ![MoverRelease(Current)] = "running"]
          /\ watched' = run
          /\ UNCHANGED err
       \/ Return("failed") /\ UNCHANGED <<mover, watched>>
    /\ UNCHANGED <<place, req, run, rung, names, targets, detached, cleanupVars,
                   outcomes, cancelled, result, release, leftovers, historyVars>>

\* The pod the wait has found, and its phase.  A leftover runs until it has
\* finished or its grace period is over, and a pod that is gone counts as failed.
Watched == <<MoverRelease(Current), watched>>

WatchedPhase ==
    CASE watched = run -> mover[MoverRelease(Current)]
      [] watched # run /\ Watched \in copied -> "succeeded"
      [] watched # run /\ Watched \in leftovers \ copied -> "running"
      [] OTHER -> "failed"

\* Mutant: any pod that is done counts as a success.
WaitSucceedsOnAnyEnd(phase) ==
    ~cancelled /\ phase \in {"succeeded", "failed"}

\* The wait answers: a detaching run only needs the pod to have left Pending,
\* the others need it to have succeeded.  A success is not lost to an interrupt
\* that comes after it: MarkAsComplete's select may go either way.
WaitSucceeds(phase) ==
    IF req.detach THEN ~cancelled /\ phase \in {"running", "succeeded", "failed"}
    ELSE phase = "succeeded"

\* Mutant: the wait does not watch the context.
WaitFailsUninterrupted(phase) == phase \in {"failed", "pending"} /\ ~req.detach

\* Mutant: no limit on the time a pod may stay Pending.
WaitFailsWithoutTimeout(phase) == cancelled \/ (phase = "failed" /\ ~req.detach)

\* The wait gives up: the pod failed, or stayed Pending past podWatchTimeout, or
\* the context is cancelled.
WaitFails(phase) ==
    \/ phase = "failed" /\ ~req.detach
    \/ phase = "pending"
    \/ cancelled

\* waitForRsyncJob, or the end of the local session, when it returns by itself.
WaitForMover ==
    /\ pc = "wait"
    /\ \/ WaitSucceeds(WatchedPhase) /\ Return("none") /\ detached' = req.detach
       \/ WaitFails(WatchedPhase) /\ Return("failed") /\ UNCHANGED detached
    /\ UNCHANGED <<place, req, run, rung, names, targets, watched, cleanupVars, outcomes,
                   cancelled, result, clusterVars, historyVars>>

\* An API call of the wait fails, the log follower reports an error, or the
\* local tunnel drops, whatever the mover is doing.
WaitBreaks ==
    /\ pc = "wait"
    /\ Return("failed")
    /\ UNCHANGED <<place, req, run, rung, names, targets, detached, watched, cleanupVars,
                   outcomes, cancelled, result, clusterVars, historyVars>>

\* Mutant: a detached attempt is cleaned up like any other.
CleanupSkippedOnlyByFlags == req.noCleanup \/ (req.noCleanupOnFailure /\ err # "none")

\* What tells cleanupAttempt to leave the releases alone.
CleanupSkipped == \/ req.noCleanup \/ detached
                  \/ req.noCleanupOnFailure /\ err # "none"

\* cleanupAttempt decides, after the diagnostics of a failed attempt.
CleanupAttempt ==
    /\ pc = "ended"
    /\ pc' = IF names = <<>> \/ CleanupSkipped THEN "advance" ELSE "cleanup"
    /\ side' = "source"
    /\ next' = 1
    /\ kept' = IF names # <<>> /\ CleanupSkipped THEN kept \union {Current} ELSE kept
    /\ UNCHANGED <<place, req, run, rung, attemptVars, outcomes, cancelled, result,
                   clusterVars, copied, inherited, stuck>>

\* Mutant: a failed uninstall ends the loop.
NextUninstallStopsAtError ==
    IF stuck' # stuck /\ stuck' # {}
    THEN pc' = "advance" /\ UNCHANGED <<side, next>>
    ELSE IF next < Len(names)
    THEN next' = next + 1 /\ UNCHANGED <<side, pc>>
    ELSE /\ next' = 1
         /\ IF side = "source"
            THEN side' = "dest" /\ UNCHANGED pc
            ELSE pc' = "advance" /\ UNCHANGED side

\* Mutant: the index runs past the end when the loop is over.
NextUninstallNoReset ==
    IF next < Len(names)
    THEN next' = next + 1 /\ UNCHANGED <<side, pc>>
    ELSE IF side = "source"
         THEN next' = 1 /\ side' = "dest" /\ UNCHANGED pc
         ELSE next' = next + 1 /\ pc' = "advance" /\ UNCHANGED side

\* strategy.Cleanup's position after one release: names inside, sides outside.
NextUninstall ==
    IF next < Len(names)
    THEN next' = next + 1 /\ UNCHANGED <<side, pc>>
    ELSE /\ next' = 1
         /\ IF side = "source"
            THEN side' = "dest" /\ UNCHANGED pc
            ELSE pc' = "advance" /\ UNCHANGED side

\* Helm deletes the workloads of a release in the background: the job is gone, its
\* pod gets a signal it may ignore and runs on for its grace period.  The pods of
\* local hold an sshd, and what ran in its session lost its tunnel before this.
DeleteWorkloads(r) ==
    /\ mover' = [mover EXCEPT ![r] = "none"]
    /\ leftovers' = IF r[1] # "local" /\ mover[r] \in {"running", "succeeded"}
                    THEN leftovers \union {<<r, release[r]>>} ELSE leftovers

\* cleanupForPVC for one name on one side.  An error is remembered and the
\* loop goes on; a failed uninstall may have removed the workloads already.
Uninstall ==
    LET r == <<Current, names[next]>>
        here == release[r] # 0 /\ SameStore(side, SideOf(Current, names[next]))
    IN  /\ pc = "cleanup"
        /\ \/ /\ here
              /\ release' = [release EXCEPT ![r] = 0]
              /\ DeleteWorkloads(r)
              /\ stuck' = stuck \ {r}
           \/ /\ here
              /\ stuck' = stuck \union {r}
              /\ DeleteWorkloads(r) \/ UNCHANGED <<mover, leftovers>>
              /\ UNCHANGED release
           \/ /\ ~here
              /\ UNCHANGED <<clusterVars, stuck>>
        /\ NextUninstall
        /\ UNCHANGED <<place, req, run, rung, attemptVars, outcomes, cancelled, result,
                       copied, inherited, kept>>

\* ctx.Err() != nil after a failed attempt.
Interrupted == cancelled

\* The rest of the loop body of Run: success ends the run, an interrupted run
\* stops here, anything else moves to the next rung or reports the outcomes.
Advance ==
    /\ pc = "advance"
    /\ \/ /\ err = "none"
          /\ pc' = "done"
          /\ result' = IF req.detach THEN "detached" ELSE "succeeded"
          /\ UNCHANGED <<rung, outcomes, attemptVars>>
       \/ /\ err # "none"
          /\ outcomes' = Append(outcomes, err)
          /\ \/ /\ Interrupted
                /\ pc' = "done"
                /\ result' = "exhausted"
                /\ UNCHANGED <<rung, attemptVars>>
             \/ /\ ~Interrupted
                /\ \E k \in (rung + 1)..(Len(req.strategies) + 1) :
                     /\ IsRung(rung + 1, k)
                     /\ rung' = k
                     /\ FreshAttempt
                     /\ IF k <= Len(req.strategies)
                        THEN pc' = "begin" /\ UNCHANGED result
                        ELSE pc' = "done" /\ result' = "exhausted"
    /\ UNCHANGED <<place, req, run, cleanupVars, cancelled, clusterVars, historyVars>>

-----------------------------------------------------------------------------
(* The environment *)

Active == pc \notin {"done", "killed"}

\* The first SIGINT or SIGTERM cancels the context (cmd/pv-migrate/main.go).
Interrupt ==
    /\ Active /\ ~cancelled
    /\ cancelled' = TRUE
    /\ UNCHANGED <<place, req, run, pc, rung, attemptVars, cleanupVars, outcomes, result,
                   clusterVars, historyVars>>

\* The process dies where it stands: SIGKILL, a lost machine.
Kill ==
    /\ Active
    /\ pc' = "killed"
    /\ UNCHANGED <<place, req, run, rung, attemptVars, cleanupVars, outcomes, cancelled,
                   result, clusterVars, historyVars>>

\* The command is run again under the same --id, on the same claims.
Rerun ==
    /\ ~Active /\ run < MaxRuns
    /\ run' = run + 1
    /\ req' \in Requests
    /\ pc' = "start"
    /\ rung' = 1
    /\ FreshAttempt
    /\ side' = "source" /\ next' = 1
    /\ outcomes' = <<>>
    /\ cancelled' = FALSE
    /\ result' = "unknown"
    /\ copied' = {x \in copied : x \in leftovers \/ release[x[1]] = x[2]}
    /\ inherited' = leftovers
    /\ kept' = {} /\ stuck' = {}
    /\ UNCHANGED <<place, clusterVars>>

\* The kubelet runs the mover.  The job never retries a pod (backoffLimit 0).
PodChanges(r) ==
    /\ \/ mover[r] = "pending" /\ \E p \in {"running", "failed"} : mover' = [mover EXCEPT ![r] = p]
       \/ mover[r] = "running" /\ \E p \in {"succeeded", "failed"} : mover' = [mover EXCEPT ![r] = p]
    /\ copied' = IF mover'[r] = "succeeded" THEN copied \union {<<r, release[r]>>} ELSE copied
    /\ UNCHANGED <<place, req, run, pc, rung, attemptVars, cleanupVars, outcomes, cancelled,
                   result, release, leftovers, inherited, kept, stuck>>

\* A leftover finishes the copy in its grace period, or fails, or is removed.
LeftoverChanges(x) ==
    /\ \/ copied' = copied \union {x} /\ UNCHANGED leftovers
       \/ leftovers' = leftovers \ {x} /\ UNCHANGED copied
    /\ UNCHANGED <<place, req, run, pc, rung, attemptVars, cleanupVars, outcomes, cancelled,
                   result, release, mover, inherited, kept, stuck>>

-----------------------------------------------------------------------------
Init ==
    /\ place \in Places
    /\ req \in Requests
    /\ run = 1
    /\ pc = "start"
    /\ rung = 1
    /\ names = <<>>
    /\ targets = {}
    /\ detached = FALSE
    /\ err = "none"
    /\ watched = 0
    /\ side = "source"
    /\ next = 1
    /\ outcomes = <<>>
    /\ cancelled = FALSE
    /\ result = "unknown"
    /\ release = [r \in Releases |-> 0]
    /\ mover = [r \in Releases |-> "none"]
    /\ leftovers = {}
    /\ copied = {}
    /\ inherited = {}
    /\ kept = {}
    /\ stuck = {}

\* The steps that come to an end by themselves: what they wait for is bounded by a
\* timeout or by the context, and a wait for a mover that runs is not enabled.
Bounded == \/ Prepare \/ BeginAttempt \/ InstallHelmChart \/ ResolveTarget
           \/ pc = "wait" /\ Current # "local" /\ WaitForMover
           \/ CleanupAttempt \/ Uninstall \/ Advance

\* The steps of local's session, which nothing in Run bounds: gossh's Dial, Listen
\* and NewSession wait for the server, and the end of the session for its readers.
Session == \/ StartSession
           \/ pc = "wait" /\ Current = "local" /\ WaitForMover

Cli == Bounded \/ Session

Environment == \/ WaitBreaks \/ Interrupt \/ Kill \/ Rerun
               \/ \E r \in Releases : PodChanges(r)
               \/ \E x \in leftovers : LeftoverChanges(x)

Next == Cli \/ Environment

Spec == Init /\ [][Next]_vars

\* The process is scheduled: a bounded step is eventually taken.
FairSpec == Spec /\ WF_vars(Bounded)

-----------------------------------------------------------------------------
(* Properties *)

\* A mover pod, named by its release and the run that installed that.
Pods == Releases \X (0..MaxRuns)

\* The types of the ladder's state: a rung within the list or one past it, and
\* releases that belong to a run that was started.
TypeOK ==
    /\ place \in Places
    /\ req \in Requests
    /\ run \in 1..MaxRuns
    /\ pc \in PCs
    /\ rung \in 1..(Len(req.strategies) + 1)
    /\ names \in Seq(Parts)
    /\ targets \in SUBSET Sides
    /\ detached \in BOOLEAN
    /\ err \in Errors
    /\ watched \in 0..MaxRuns
    /\ side \in Sides
    /\ next \in 1..2
    /\ outcomes \in Seq(Errors)
    /\ cancelled \in BOOLEAN
    /\ result \in Results
    /\ release \in [Releases -> 0..MaxRuns]
    /\ mover \in [Releases -> MoverPhases]
    /\ leftovers \in SUBSET Pods
    /\ copied \in SUBSET Pods
    /\ inherited \in SUBSET Pods
    /\ kept \in SUBSET Strategies
    /\ stuck \in SUBSET Releases

\* The control points at which an attempt may have releases of its own.
InAttempt == {"begin", "first", "target", "second", "session", "wait", "ended", "cleanup"}

\* An attempt's releases do not outlive it: a release this run installed belongs
\* to the attempt in progress, or its cleanup was switched off by a flag or a
\* detach, or its uninstall failed and was reported.  Cleanup has to try every
\* name on both sides and go past an error for this to hold.
NoOrphanRelease ==
    pc # "killed" =>
        \A r \in Releases :
            release[r] = run =>
                \/ r \in stuck
                \/ r[1] \in kept
                \/ pc \in InAttempt /\ rung <= Len(req.strategies) /\ r[1] = Current

\* Whatever an attempt got installed before it failed can be explained: when Run
\* returns an error, the side of every release it created is one collectDiagnostics
\* looks at, and while it waits so is every side that has workloads of it.
DiagnosticsSeeInstalls ==
    \A r \in Releases :
        release[r] = run /\ rung <= Len(req.strategies) /\ r[1] = Current =>
            /\ pc = "ended" /\ err = "failed" => SideOf(r[1], r[2]) \in targets
            /\ pc = "wait" =>
                   \A s \in WorkloadSides(r[1], r[2]) : \E t \in targets : SameStore(s, t)

\* "Migration succeeded" is said only of a copy that was finished: by the mover of
\* this run and of the strategy it names, or by a pod that an earlier run's cleanup
\* had left terminating under the same job name and this run's wait found first.
SuccessMeansCopied ==
    result = "succeeded" =>
        /\ Watched \in copied
        /\ watched = run \/ Watched \in inherited

\* A detached run leaves the job it talks about: nothing of the same run removes
\* the release after the CLI has decided to detach.
DetachLeavesJob ==
    result = "detached" =>
        release[MoverRelease(Current)] = run /\ mover[MoverRelease(Current)] # "none"

\* local waits for its SSH server or for the end of its session.
InSession == pc = "session" \/ (pc = "wait" /\ Current = "local")

\* An interrupt ends the run, through the cleanup of the attempt in flight, unless
\* local's session never returns, which LocalTunnel looks into.
InterruptEndsRun == []<>(cancelled => ~Active \/ InSession)

\* The only things the CLI waits for without a bound are a mover pod that is
\* running and, for local, the SSH server and the end of the session.
OnlyMoverBlocks ==
    []<>(~Active \/ InSession \/ (pc = "wait" /\ WatchedPhase = "running"))

=============================================================================
