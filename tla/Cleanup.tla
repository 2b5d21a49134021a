------------------------------ MODULE Cleanup -------------------------------
(***************************************************************************)
(* `pv-migrate cleanup [id] [--all] [--force] [-n namespace]`              *)
(* (internal/app/cleanup.go, DeleteLabeled of internal/snapshot): list the *)
(* matching Helm releases, refuse while a job of one is active, then       *)
(* remove one release after the other with the snapshot leftovers that     *)
(* carry its label.                                                        *)
(*                                                                         *)
(* Several cleanups may run at once, while the operations that own the     *)
(* releases are still at work.  An operation is reduced to what cleanup    *)
(* can meet: it makes the labelled claim and snapshot, installs its        *)
(* release, its job runs, and it takes things back or leaves them.         *)
(***************************************************************************)
EXTENDS Integers, Sequences, FiniteSets, SequencesExt

CONSTANTS
    Cleaners,   \* the cleanup commands that run
    Releases,   \* the releases there can be, see ReleaseType
    Commands    \* the command lines of a cleanup, see CommandType

\* An operation id is a sequence of segments, which hyphens join in a name.
Ids == Seq(STRING)

\* A release: the id of its operation, the rest of its name, its namespace, the
\* namespace of its job ("none" when it has no job), and whether the operation
\* works from a snapshot.
ReleaseType == [id : Ids, suffix : Ids, ns : STRING, jobNs : STRING, snap : BOOLEAN]

\* "any" is every namespace; all is --all, with which id is not used.
CommandType == [id : Ids, all : BOOLEAN, ns : STRING, force : BOOLEAN]

ASSUME ReleasesAssumption == \A r \in Releases : r \in ReleaseType /\ r.suffix # <<>>

ASSUME CommandsAssumption == Commands # {} /\ \A q \in Commands : q \in CommandType

PCs == {"idle", "check", "next", "claims", "snapshots", "done"}

VARIABLES
    release,    \* the releases Helm knows
    job,        \* the job of each release
    left,       \* labelled claim and snapshot of each release
    owner,      \* how far the operation is with each release
    pc,         \* where each cleanup is
    cmd,        \* its command line, once it has started
    unchecked,  \* listed releases whose jobs it has not looked at
    todo,       \* listed releases it has not worked on
    current,    \* the one it works on, as a set of at most one
    failed      \* it returned an error

\* History variables: they record facts and no action reads them.
VARIABLES
    listed,     \* the releases each cleanup found
    busy,       \* of these, the ones whose job has been active ever since
    stranded    \* releases whose owner or whose cleanup gave up half way

cleanerVars == <<pc, cmd, unchecked, todo, current, failed, listed>>
vars == <<release, job, left, owner, pc, cmd, unchecked, todo, current, failed, listed,
          busy, stranded>>

-----------------------------------------------------------------------------
(* One cleanup *)

\* The name of a release starts with pv-migrate-<id>- (or pv-migrate- for all).
\* The filter is a prefix of the name, so it does not know where the id ends.
Matches(q, r) ==
    /\ q.all \/ IsStrictPrefix(q.id, r.id \o r.suffix)
    /\ q.ns \in {"any", r.ns}

\* The command starts, lists, and gives up when there is nothing to do; with
\* --all that is no error.
List(c) ==
    /\ pc[c] = "idle"
    /\ \E q \in Commands :
        LET found == {r \in release : Matches(q, r)}
        IN  /\ cmd' = [cmd EXCEPT ![c] = q]
            /\ \/ /\ found # {}
                  /\ pc' = [pc EXCEPT ![c] = IF q.force THEN "next" ELSE "check"]
                  /\ unchecked' = [unchecked EXCEPT ![c] = IF q.force THEN {} ELSE found]
                  /\ todo' = [todo EXCEPT ![c] = found]
                  /\ listed' = [listed EXCEPT ![c] = found]
                  /\ busy' = [busy EXCEPT ![c] = {r \in found : job[r] = "active"}]
                  /\ UNCHANGED failed
               \/ /\ found = {}
                  /\ pc' = [pc EXCEPT ![c] = "done"]
                  /\ failed' = [failed EXCEPT ![c] = ~q.all]
                  /\ UNCHANGED <<unchecked, todo, listed, busy>>
    /\ UNCHANGED <<release, job, left, owner, current, stranded>>

\* The command ends with an error; its local variables are gone.
GiveUp(c) ==
    /\ pc' = [pc EXCEPT ![c] = "done"]
    /\ failed' = [failed EXCEPT ![c] = TRUE]
    /\ unchecked' = [unchecked EXCEPT ![c] = {}]
    /\ todo' = [todo EXCEPT ![c] = {}]
    /\ current' = [current EXCEPT ![c] = {}]
    /\ listed' = [listed EXCEPT ![c] = {}]
    /\ busy' = [busy EXCEPT ![c] = {}]

\* Mutant: the loop ends after the first release that is free.
CheckedRestSkipped(c, r) == [unchecked EXCEPT ![c] = {}]

\* The releases still to be checked once r is.
CheckedRest(c, r) == [unchecked EXCEPT ![c] = @ \ {r}]

\* checkNoActiveJobs, one release: the jobs with its label in its namespace.  An
\* active one ends the command, and so does an error.
CheckJobs(c) ==
    /\ pc[c] = "check"
    /\ \/ /\ unchecked[c] = {}
          /\ pc' = [pc EXCEPT ![c] = "next"]
          /\ UNCHANGED <<unchecked, failed, todo, current, listed, busy>>
       \/ \E r \in unchecked[c] :
            /\ ~(job[r] = "active" /\ r.jobNs = r.ns)
            /\ unchecked' = CheckedRest(c, r)
            /\ UNCHANGED <<pc, failed, todo, current, listed, busy>>
       \/ unchecked[c] # {} /\ GiveUp(c)
    /\ UNCHANGED <<release, job, left, owner, cmd, stranded>>

\* A release that is gone has no job either.
DropRelease(r) ==
    /\ release' = release \ {r}
    /\ job' = [job EXCEPT ![r] = "none"]
    /\ busy' = [c \in Cleaners |-> busy[c] \ {r}]

\* Mutant: a release another cleanup removed is skipped with its leftovers.
AfterUninstallSkipsGone(r) == IF r \in release THEN "claims" ELSE "next"

\* The leftovers are removed whether the release was still there or not.
AfterUninstall(r) == "claims"

\* Mutant: the release of the round before stays in hand.
NowAlso(c, r) == [current EXCEPT ![c] = @ \union {r}]

\* The release a cleanup works on.
Now(c, r) == [current EXCEPT ![c] = {r}]

\* uninstallRelease of the next listed release.  One that is already gone is
\* not an error; any other error ends the command.
UninstallRelease(c) ==
    /\ pc[c] = "next"
    /\ \E r \in todo[c] :
        \/ /\ IF r \in release THEN DropRelease(r) ELSE UNCHANGED <<release, job, busy>>
           /\ todo' = [todo EXCEPT ![c] = @ \ {r}]
           /\ current' = Now(c, r)
           /\ pc' = [pc EXCEPT ![c] = AfterUninstall(r)]
           /\ UNCHANGED <<failed, unchecked, listed>>
        \/ /\ r \in release
           /\ GiveUp(c)
           /\ UNCHANGED <<release, job>>
    /\ UNCHANGED <<left, owner, cmd, stranded>>

\* Every listed release has been worked on.
Finish(c) ==
    /\ pc[c] = "next" /\ todo[c] = {}
    /\ pc' = [pc EXCEPT ![c] = "done"]
    /\ busy' = [busy EXCEPT ![c] = {}]
    /\ current' = [current EXCEPT ![c] = {}]
    /\ UNCHANGED <<release, job, left, owner, cmd, unchecked, todo, failed, listed, stranded>>

\* Mutant: the snapshots are left out.
AfterClaimsDone == "next"

\* DeleteLabeled goes on to the snapshots once the claims are gone.
AfterClaims == "snapshots"

\* DeleteLabeled, one kind of object: all of the label go, or an error ends the
\* command.
RemoveLabelled(c, at, kind, after) ==
    /\ pc[c] = at
    /\ \E r \in current[c] :
        \/ /\ left' = [left EXCEPT ![r] = @ \ {kind}]
           /\ pc' = [pc EXCEPT ![c] = after]
           /\ UNCHANGED <<failed, unchecked, todo, current, listed, busy, stranded>>
        \/ /\ GiveUp(c)
           /\ stranded' = IF left[r] = {} THEN stranded ELSE stranded \union {r}
           /\ UNCHANGED left
    /\ UNCHANGED <<release, job, owner, cmd>>

\* removeSnapshotLeftovers.
RemoveClaims(c) == RemoveLabelled(c, "claims", "claim", AfterClaims)

RemoveSnapshots(c) == RemoveLabelled(c, "snapshots", "snapshot", "next")

-----------------------------------------------------------------------------
(* The operations *)

\* prepareSnapshotSource: the labelled objects come before the release.  A
\* snapshot that is kept, or was there before, carries no label.
MakeSource(r) ==
    /\ owner[r] = "idle" /\ r.snap
    /\ owner' = [owner EXCEPT ![r] = "making"]
    /\ left' \in {[left EXCEPT ![r] = {"claim"}], [left EXCEPT ![r] = {"claim", "snapshot"}]}
    /\ UNCHANGED <<release, job, cleanerVars, busy, stranded>>

InstallRelease(r) ==
    /\ owner[r] = IF r.snap THEN "making" ELSE "idle"
    /\ owner' = [owner EXCEPT ![r] = "up"]
    /\ release' = release \union {r}
    /\ job' = [job EXCEPT ![r] = IF r.jobNs = "none" THEN "none" ELSE "created"]
    /\ UNCHANGED <<left, cleanerVars, busy, stranded>>

\* The job controller: a job counts as active once its pod
\* exists, and a finished one is to cleanup as if it were not there.
JobChanges(r) ==
    /\ \/ job[r] = "created" /\ job' = [job EXCEPT ![r] = "active"] /\ UNCHANGED busy
       \/ /\ job[r] = "active"
          /\ job' = [job EXCEPT ![r] = "none"]
          /\ busy' = [c \in Cleaners |-> busy[c] \ {r}]
    /\ UNCHANGED <<release, left, owner, cleanerVars, stranded>>

\* The operation's own cleanup: the release first, its error only a warning,
\* then what it made for the snapshot.
OwnerUninstalls(r) ==
    /\ owner[r] = "up"
    /\ owner' = [owner EXCEPT ![r] = IF r.snap THEN "releasing" ELSE "over"]
    /\ \/ r \in release /\ DropRelease(r)
       \/ UNCHANGED <<release, job, busy>>
    /\ UNCHANGED <<left, cleanerVars, stranded>>

OwnerRemovesSource(r) ==
    /\ owner[r] = "releasing"
    /\ owner' = [owner EXCEPT ![r] = "over"]
    /\ left' = [left EXCEPT ![r] = {}]
    /\ UNCHANGED <<release, job, cleanerVars, busy, stranded>>

\* The operation detaches, is told to leave things, fails at removing them, or
\* dies.
OwnerLeaves(r) ==
    /\ owner[r] \in {"making", "up", "releasing"}
    /\ owner' = [owner EXCEPT ![r] = "over"]
    /\ stranded' = IF owner[r] = "up" \/ left[r] = {} THEN stranded ELSE stranded \union {r}
    /\ UNCHANGED <<release, job, left, cleanerVars, busy>>

-----------------------------------------------------------------------------
Init ==
    /\ release = {}
    /\ job = [r \in Releases |-> "none"]
    /\ left = [r \in Releases |-> {}]
    /\ owner = [r \in Releases |-> "idle"]
    /\ pc = [c \in Cleaners |-> "idle"]
    /\ cmd = [c \in Cleaners |-> CHOOSE q \in Commands : TRUE]
    /\ unchecked = [c \in Cleaners |-> {}]
    /\ todo = [c \in Cleaners |-> {}]
    /\ current = [c \in Cleaners |-> {}]
    /\ failed = [c \in Cleaners |-> FALSE]
    /\ listed = [c \in Cleaners |-> {}]
    /\ busy = [c \in Cleaners |-> {}]
    /\ stranded = {}

Cleaner(c) == \/ List(c) \/ CheckJobs(c) \/ UninstallRelease(c) \/ Finish(c)
              \/ RemoveClaims(c) \/ RemoveSnapshots(c)

Operation(r) == \/ MakeSource(r) \/ InstallRelease(r) \/ JobChanges(r)
                \/ OwnerUninstalls(r) \/ OwnerRemovesSource(r) \/ OwnerLeaves(r)

Next == (\E c \in Cleaners : Cleaner(c)) \/ (\E r \in Releases : Operation(r))

Spec == Init /\ [][Next]_vars

-----------------------------------------------------------------------------
(* Properties *)

\* The types of the cleanups' state; a cleanup has one release in hand at most.
TypeOK ==
    /\ release \in SUBSET Releases
    /\ job \in [Releases -> {"none", "created", "active"}]
    /\ left \in [Releases -> SUBSET {"claim", "snapshot"}]
    /\ owner \in [Releases -> {"idle", "making", "up", "releasing", "over"}]
    /\ pc \in [Cleaners -> PCs]
    /\ cmd \in [Cleaners -> Commands]
    /\ unchecked \in [Cleaners -> SUBSET Releases]
    /\ todo \in [Cleaners -> SUBSET Releases]
    /\ current \in [Cleaners -> SUBSET Releases]
    /\ \A c \in Cleaners : \A r1, r2 \in current[c] : r1 = r2
    /\ failed \in [Cleaners -> BOOLEAN]
    /\ listed \in [Cleaners -> SUBSET Releases]
    /\ busy \in [Cleaners -> SUBSET Releases]
    /\ stranded \in SUBSET Releases

\* The check of an unforced cleanup covers the whole list before anything is
\* removed: no release whose job, in the release's namespace, has been active
\* since the listing is among those it goes on to remove.
CheckCoversList ==
    \A c \in Cleaners :
        pc[c] \in {"next", "claims", "snapshots"} /\ ~cmd[c].force =>
            \A r \in busy[c] : r.jobNs # r.ns

\* A cleanup that reports success has left nothing of what it listed, neither
\* releases nor labelled leftovers, whoever else was removing them.
SuccessMeansGone ==
    \A c \in Cleaners :
        pc[c] = "done" /\ ~failed[c] => \A r \in listed[c] : r \notin release /\ left[r] = {}

\* Labelled leftovers lose the release they are found through only while
\* someone is about to remove them, or where an owner or a cleanup gave up.
StrandedOnlyByError ==
    \A r \in Releases :
        left[r] # {} /\ r \notin release =>
            \/ owner[r] \in {"making", "releasing"}
            \/ r \in stranded
            \/ \E c \in Cleaners : r \in current[c] /\ pc[c] \in {"claims", "snapshots"}

-----------------------------------------------------------------------------
(* What documentation and messages say that the code does not keep *)

\* "no job is still running, so every release can go" (cleanup.go:154), said
\* when the check is passed.
CheckSeesEveryJob ==
    \A c \in Cleaners :
        pc[c] \in {"next", "claims", "snapshots"} /\ ~cmd[c].force => busy[c] = {}

=============================================================================
