------------------------------ MODULE Placement ------------------------------
(***************************************************************************)
(* Where a data mover may run: what is read about a claim before anything  *)
(* is installed (internal/pvc/info.go), the checks that refuse early       *)
(* (migrator.go, bucketstorage.go, archive.go), and the node and the node  *)
(* affinity the pods are installed with (mount.go, topology.go,            *)
(* archive.go, snapshotsource.go).                                         *)
(*                                                                         *)
(* The cluster moves while the tool reads it: a pod finishes or gets a     *)
(* node, a claim is bound, a node goes away.  What is read about a claim   *)
(* comes from one moment per call, and the two claims of a run are read at *)
(* different moments.  The variable truth keeps what was so when a claim   *)
(* was read, for the properties only.                                      *)
(***************************************************************************)
EXTENDS Integers, Sequences, FiniteSets

CONSTANTS
    Nodes,        \* names of nodes
    None,         \* the empty node name
    NoLimit,      \* a nil list of nodes: no constraint, or none known
    AccessModes,  \* sets of access modes a claim may ask for
    PodLists,     \* lists of the pods that name a claim, in the API's order
    MaxMoves      \* how often the cluster moves during a run

Modes == {"RWO", "RWOP", "ROX", "RWX"}

\* A pod that names a claim: without a node it has not been scheduled.
Pod == [node : Nodes \cup {None}, finished : BOOLEAN]

ASSUME NodesAssumption == None \notin Nodes /\ \A S \in SUBSET Nodes : NoLimit # S

ASSUME AccessModesAssumption == {"RWO"} \in AccessModes /\ AccessModes \subseteq SUBSET Modes

ASSUME PodListsAssumption == <<>> \in PodLists /\ PodLists \subseteq Seq(Pod)

ASSUME MaxMovesAssumption == MaxMoves \in Nat

Limits == {NoLimit} \cup SUBSET Nodes

\* A backup or a restore works on the claim "data" and, with an archive on a
\* claim, on "other".  With a snapshot, "data" is the clone of "live".  A
\* migration goes from "data" to "other".
Claims == {"live", "data", "other"}

Claim == [modes : AccessModes, bound : BOOLEAN, limit : Limits]

Request ==
    [op : {"backup", "migrate"}, snapshot : BOOLEAN, archive : BOOLEAN,
     together : BOOLEAN, ignoreMounted : BOOLEAN]

Requests ==
    {r \in Request :
        /\ r.op = "migrate" => ~r.snapshot /\ r.archive
        /\ r.op = "backup" => r.together
        /\ r.snapshot => ~r.ignoreMounted}

VARIABLES
    req,     \* the request
    claim,   \* claim -> access modes, whether bound, and where its volume may be used
    pods,    \* claim -> the pods that name it
    alive,   \* the nodes of the cluster
    step,    \* what the tool does next
    at,      \* the claim it is reading
    info,    \* claim -> pvc.Info: mounted node, allowed nodes, pinned nodes
    jobs,    \* the pods installed: claims mounted, node name, affinity
    outcome, \* how the run ended
    truth,   \* claim -> what was so when it was read
    moves    \* how often the cluster has moved

vars == <<req, claim, pods, alive, step, at, info, jobs, outcome, truth, moves>>

-----------------------------------------------------------------------------
(* The cluster *)

\* Only one node may attach the volume of such a claim.
OneNode(c) == claim[c].modes \cap {"ROX", "RWX"} = {}

\* The nodes where a pod has the claim mounted.
Holders(list) ==
    {list[i].node : i \in {k \in DOMAIN list : ~list[k].finished}} \ {None}

Within(n, limit) == limit # NoLimit => n \in limit

\* Where the pods that use a claim can be, given its modes and its volume.
Consistent(cl, list) ==
    /\ \A n \in Holders(list) : cl.bound /\ Within(n, cl.limit)
    /\ cl.modes \cap {"ROX", "RWX"} = {} =>
           \A m, n \in Holders(list) : m = n
    /\ "RWOP" \in cl.modes =>
           Cardinality({i \in DOMAIN list : ~list[i].finished /\ list[i].node # None}) <= 1

\* A claim in use.  One that is not bound yet has no volume.
Uses == {u \in [claim : Claim, pods : PodLists] : Consistent(u.claim, u.pods)}

NamedUses == {u \in Uses : u.claim.limit # {} /\ (~u.claim.bound => u.claim.limit = NoLimit)}

\* A clone is provisioned where the source of its snapshot could live, or on
\* part of that, at once or when its first pod is scheduled.
CloneUses(source) ==
    {u \in Uses :
        /\ u.pods = <<>>
        /\ u.claim.modes = source.modes
        /\ u.claim.limit # {}
        /\ source.limit # NoLimit =>
               u.claim.limit # NoLimit /\ u.claim.limit \subseteq source.limit
        /\ ~u.claim.bound => u.claim.limit = source.limit}

\* A claim the request does not name.
Unnamed == [claim |-> [modes |-> {"RWO"}, bound |-> FALSE, limit |-> NoLimit], pods |-> <<>>]

\* Where a pod using the volume may run, whoever holds it.
Reach(c) ==
    IF claim[c].limit = NoLimit \/ (~claim[c].bound /\ ~(c = "data" /\ req.snapshot))
    THEN Nodes
    ELSE claim[c].limit

Unread == [mounted |-> None, bound |-> FALSE, allowed |-> NoLimit, pinned |-> NoLimit]

Unknown == [reach |-> Nodes, holders |-> {}, answered |-> FALSE]

Init ==
    /\ req \in Requests
    /\ \E live \in IF req.snapshot THEN {u \in NamedUses : u.claim.bound} ELSE {Unnamed} :
       \E data \in IF req.snapshot THEN CloneUses(live.claim) ELSE NamedUses :
       \E other \in IF req.archive THEN NamedUses ELSE {Unnamed} :
           /\ claim = [live |-> live.claim, data |-> data.claim, other |-> other.claim]
           /\ pods = [live |-> live.pods, data |-> data.pods, other |-> other.pods]
    /\ alive = Nodes
    /\ step = "find"
    /\ at = IF req.snapshot THEN "live" ELSE "data"
    /\ info = [c \in Claims |-> Unread]
    /\ jobs = {}
    /\ outcome = "none"
    /\ truth = [c \in Claims |-> Unknown]
    /\ moves = 0

-----------------------------------------------------------------------------
(* The cluster moves on: external *)

\* A workload's pod finishes, its entry staying in the list.
PodFinishes(c) ==
    /\ \E i \in DOMAIN pods[c] :
           /\ ~pods[c][i].finished /\ pods[c][i].node # None
           /\ pods' = [pods EXCEPT ![c][i].finished = TRUE]
    /\ UNCHANGED <<req, claim, alive, step, at, info, jobs, outcome, truth>>

\* A pod is given a node its volume can be used on; a claim that waited for
\* its first pod is bound to a volume usable there.
PodScheduled(c) ==
    /\ \E i \in DOMAIN pods[c], n \in alive, limit \in Limits :
           /\ ~pods[c][i].finished /\ pods[c][i].node = None
           /\ Within(n, limit)
           /\ claim[c].bound => limit = claim[c].limit
           /\ pods' = [pods EXCEPT ![c][i].node = n]
           /\ claim' = [claim EXCEPT ![c].bound = TRUE, ![c].limit = limit]
           /\ Consistent(claim'[c], pods'[c])
    /\ UNCHANGED <<req, alive, step, at, info, jobs, outcome, truth>>

\* A node leaves the cluster; its pods linger in the API.
NodeRemoved ==
    /\ \E n \in alive : alive' = alive \ {n}
    /\ UNCHANGED <<req, claim, pods, step, at, info, jobs, outcome, truth>>

\* What happens after the installation is no longer the tool's concern.
ClusterStep ==
    /\ step # "done"
    /\ moves < MaxMoves /\ moves' = moves + 1
    /\ NodeRemoved \/ \E c \in Claims : PodFinishes(c) \/ PodScheduled(c)

-----------------------------------------------------------------------------
(* Reading a claim: newInfo *)

Refuse(why) ==
    /\ outcome' = why
    /\ step' = "done"
    /\ UNCHANGED <<req, claim, pods, alive, at, info, jobs, truth>>

\* The node of the first pod that has not finished and names the claim: the
\* empty name when that pod has no node.
MountedNode(list) ==
    LET unfinished == {i \in DOMAIN list : ~list[i].finished}
    IN  IF unfinished = {} THEN None
        ELSE list[CHOOSE i \in unfinished : \A k \in unfinished : i <= k].node

\* The source of a snapshot is not going to be mounted.
RejectsMountedRWOP(c) == c # "live"

\* The claim is fetched and the pods of its namespace are listed.
FindMountedPod ==
    LET mounted == MountedNode(pods[at]) IN
    /\ step = "find"
    /\ IF RejectsMountedRWOP(at) /\ "RWOP" \in claim[at].modes /\ mounted # None
       THEN Refuse("inUse")
       ELSE /\ truth' = [truth EXCEPT ![at] =
                 [reach |-> Reach(at), holders |-> Holders(pods[at]), answered |-> FALSE]]
            /\ info' = [info EXCEPT ![at].mounted = mounted, ![at].bound = claim[at].bound]
            /\ step' = "resolve"
            /\ UNCHANGED <<req, claim, pods, alive, at, jobs, outcome>>

\* What two constraints leave, nil being no constraint.
IntersectNodes(first, second) ==
    IF first = NoLimit THEN second
    ELSE IF second = NoLimit THEN first
    ELSE first \cap second

\* The nodes of the cluster that the volume's affinity selects.  An account
\* that may read neither volumes nor nodes, or a volume that is gone, leaves
\* the answer open.
AllowedNodesFor(c) ==
    IF ~info[c].bound \/ claim[c].limit = NoLimit THEN {NoLimit}
    ELSE {claim[c].limit \cap alive, NoLimit}

\* Mutant: a claim many nodes may attach is pinned to the node of one user.
PinnedWhateverMode(c, allowed) ==
    IF info[c].mounted # None THEN IntersectNodes(allowed, {info[c].mounted}) ELSE allowed

\* Where the volume is attached already narrows it when one node may attach it.
Pinned(c, allowed) ==
    IF info[c].mounted # None /\ OneNode(c)
    THEN IntersectNodes(allowed, {info[c].mounted})
    ELSE allowed

\* Mutant: a clone that is not provisioned yet goes anywhere.
InheritsNothing(c, allowed) == FALSE

\* A clone without a topology of its own takes the source's.
Inherits(c, allowed) ==
    c = "data" /\ req.snapshot /\ allowed = NoLimit /\ info["live"].allowed # NoLimit

ResolveTopology ==
    /\ step = "resolve"
    /\ \E allowed \in AllowedNodesFor(at) :
        IF allowed = {}
        THEN Refuse("gone")
        ELSE /\ info' = [info EXCEPT
                    ![at].allowed = IF Inherits(at, allowed) THEN info["live"].allowed ELSE allowed,
                    ![at].pinned = IF Inherits(at, allowed) THEN info["live"].allowed
                                   ELSE Pinned(at, allowed)]
             /\ truth' = [truth EXCEPT ![at].answered =
                            allowed # NoLimit \/ ~info[at].bound \/ claim[at].limit = NoLimit]
             /\ step' = "check"
             /\ UNCHANGED <<req, claim, pods, alive, at, jobs, outcome>>

\* Any of the calls may fail for another reason.
LookupFails ==
    /\ step \in {"find", "resolve"}
    /\ Refuse("failed")
   

-----------------------------------------------------------------------------
(* The checks between the reads *)

GoTo(next, c) ==
    /\ step' = next
    /\ at' = c
    /\ UNCHANGED <<req, claim, pods, alive, info, jobs, outcome, truth>>

\* A claim somebody has mounted needs --ignore-mounted.
HandleMounted(c) == info[c].mounted = None \/ req.ignoreMounted

\* The clone is made and read next.
CloneSnapshot ==
    /\ step = "check" /\ at = "live"
    /\ GoTo("find", "data")

\* resolveSource: only a claim read directly may not be in use.
ResolveSource ==
    /\ step = "check" /\ at = "data" /\ req.op = "backup"
    /\ IF ~req.snapshot /\ ~HandleMounted("data")
       THEN Refuse("mounted")
       ELSE IF req.archive THEN GoTo("find", "other") ELSE GoTo("install", "data")

\* The nodes a pod mounting both claims could run on.
PlacementNodes == IntersectNodes(info["data"].pinned, info["other"].pinned)

\* resolveArchiveClaim ends with checkSchedulable.
CheckSchedulable ==
    /\ step = "check" /\ at = "other" /\ req.op = "backup"
    /\ IF PlacementNodes = {}
       THEN Refuse("apart")
       ELSE GoTo("install", "other")

\* A migration reads its destination before it checks its source.
ReadDestination ==
    /\ step = "check" /\ at = "data" /\ req.op = "migrate"
    /\ GoTo("find", "other")

\* handleMountedPVCs, then validatePVCs, whose comparison of the sizes may
\* refuse too.
ValidatePVCs ==
    /\ step = "check" /\ at = "other" /\ req.op = "migrate"
    /\ IF ~HandleMounted("data") \/ ~HandleMounted("other")
       THEN Refuse("mounted")
       ELSE IF claim["other"].modes \cap {"RWO", "RWOP", "RWX"} = {}
       THEN Refuse("readonly")
       ELSE \/ GoTo("install", "other")
            \/ Refuse("tooSmall")

-----------------------------------------------------------------------------
(* What the pods are installed with *)

NoAffinity == [kind |-> "none", nodes |-> {}]

\* RequireNodes, and the preference for the node a claim is mounted on.
RequireNodes(nodes) == [kind |-> "require", nodes |-> nodes]
PreferNode(n) == [kind |-> "prefer", nodes |-> {n}]

\* Mutant: a nil list of nodes is not told from a list.
AffinityOfNil(c) == RequireNodes(info[c].pinned)

\* buildAffinityHelmValues for one claim.
Affinity(c) ==
    IF info[c].pinned # NoLimit THEN RequireNodes(info[c].pinned)
    ELSE IF info[c].mounted # None THEN PreferNode(info[c].mounted)
    ELSE NoAffinity

\* archiveAffinity for a pod that mounts both.
ArchiveAffinity ==
    IF PlacementNodes # NoLimit THEN RequireNodes(PlacementNodes)
    ELSE IF Affinity("data") # NoAffinity THEN Affinity("data")
    ELSE Affinity("other")

Job(mounts, node, affinity) == [mounts |-> mounts, node |-> node, affinity |-> affinity]

Installed(set) ==
    /\ jobs' = set
    /\ outcome' = "installed"
    /\ step' = "done"
    /\ UNCHANGED <<req, claim, pods, alive, at, info, truth>>

\* A backup's or a restore's one pod.
InstallMover ==
    /\ step = "install" /\ req.op = "backup"
    /\ Installed({IF req.archive THEN Job({"data", "other"}, None, ArchiveAffinity)
                                 ELSE Job({"data"}, None, Affinity("data"))})

\* cannotDoReason of the mount strategy.
CannotMount ==
    \/ ~req.together
    \/ /\ info["data"].mounted # info["other"].mounted
       /\ info["data"].mounted # None /\ info["other"].mounted # None
       /\ OneNode("data")
       /\ "RWX" \notin claim["other"].modes

\* Mutant: the source's node comes first whatever the access modes.
SourceNodeFirst ==
    IF info["data"].mounted # None THEN info["data"].mounted ELSE info["other"].mounted

\* The node of a claim that one node attaches, the source's first.
DetermineTargetNode ==
    IF info["data"].mounted # None /\ OneNode("data") THEN info["data"].mounted
    ELSE IF info["other"].mounted # None /\ OneNode("other") THEN info["other"].mounted
    ELSE IF info["data"].mounted # None THEN info["data"].mounted
    ELSE info["other"].mounted

\* The mount strategy, when the request lists it: one pod, or it is declined.
TryMount ==
    /\ step = "install" /\ req.op = "migrate"
    /\ IF CannotMount
       THEN GoTo("remote", at)
       ELSE Installed({Job({"data", "other"}, DetermineTargetNode, Affinity("data"))})

\* A strategy over the network: a pod on either side.
RunRemote ==
    /\ step \in {"install", "remote"} /\ req.op = "migrate"
    /\ Installed({Job({c}, None, Affinity(c)) : c \in {"data", "other"}})

ToolStep ==
    /\ UNCHANGED moves
    /\ \/ FindMountedPod \/ ResolveTopology \/ LookupFails
       \/ CloneSnapshot \/ ResolveSource \/ CheckSchedulable
       \/ ReadDestination \/ ValidatePVCs
       \/ InstallMover \/ TryMount \/ RunRemote

Next == ToolStep \/ ClusterStep

Spec == Init /\ [][Next]_vars

-----------------------------------------------------------------------------
(* Properties *)

Outcomes ==
    {"none", "failed", "inUse", "gone", "mounted", "apart", "readonly", "tooSmall", "installed"}

Affinities == [kind : {"none", "prefer", "require"}, nodes : Limits]

\* The type invariant.  A required set of nodes, unlike a list that was read,
\* is never nil.
TypeOK ==
    /\ req \in Requests
    /\ claim \in [Claims -> Claim]
    /\ pods \in [Claims -> Seq(Pod)]
    /\ alive \subseteq Nodes
    /\ step \in {"find", "resolve", "check", "install", "remote", "done"}
    /\ at \in Claims
    /\ info \in [Claims -> [mounted : Nodes \cup {None}, bound : BOOLEAN,
                            allowed : Limits, pinned : Limits]]
    /\ jobs \subseteq [mounts : SUBSET Claims, node : Nodes \cup {None}, affinity : Affinities]
    /\ \A j \in jobs : j.affinity.nodes # NoLimit
    /\ outcome \in Outcomes
    /\ truth \in [Claims -> [reach : SUBSET Nodes, holders : SUBSET Nodes, answered : BOOLEAN]]
    /\ moves \in 0 .. MaxMoves

\* Whether a pod on a node could mount a claim, as things were when it was read.
CanMount(n, c) ==
    /\ n \in truth[c].reach
    /\ OneNode(c) => truth[c].holders \subseteq {n}
    /\ "RWOP" \in claim[c].modes => truth[c].holders = {}

Admits(j, n) == j.affinity.kind = "require" => n \in j.affinity.nodes

\* A claim whose user findMountedPod reports.
Seen(c) == truth[c].holders # {} => info[c].mounted # None

\* What was read is the topology the volume has.
Answered(c) ==
    truth[c].answered /\ (c = "data" /\ req.snapshot => truth["live"].answered)

\* No refusal and no required affinity shuts out a node that would do: a run is
\* refused for its nodes only when none is left that could mount its claims, and
\* the pods of a run may go to every node that could (resolveTopology,
\* checkSchedulable, inheritTopology, archiveAffinity).  Holds whatever the
\* account may read and whichever pods go unnoticed.
NoNodeWronglyExcluded ==
    /\ outcome = "gone" => truth[at].reach \cap alive = {}
    /\ outcome = "apart" =>
           ~\E n \in alive : CanMount(n, "data") /\ CanMount(n, "other")
    /\ \A j \in jobs, n \in alive :
           j.node = None /\ (\A c \in j.mounts : CanMount(n, c)) => Admits(j, n)

\* A pod that is not the mount strategy's is admitted only on nodes where every
\* claim it mounts can be mounted, once the topology could be read and the
\* claims' users were noticed; so no such pod waits on a node for good.
PlacementSound ==
    \A j \in jobs, n \in alive :
        (/\ req.op = "backup" \/ Cardinality(j.mounts) = 1
         /\ \A c \in j.mounts : Answered(c) /\ Seen(c)
         /\ Admits(j, n))
        => \A c \in j.mounts : CanMount(n, c)

\* The pod of the mount strategy is put where each claim that one node attaches
\* is attached already (cannotDoReason with determineTargetNode).
MountNodeHoldsBoth ==
    \A j \in jobs :
        req.op = "migrate" /\ j.mounts = {"data", "other"} =>
            \A c \in j.mounts : OneNode(c) /\ Seen(c) => truth[c].holders \subseteq {j.node}

\* What the flag promises (docs/cli-reference.md, "--ignore-mounted"): without
\* it nothing is installed on a claim that a pod has mounted.
MountedClaimIsSeen ==
    outcome = "installed" /\ ~req.ignoreMounted =>
        /\ ~req.snapshot => truth["data"].holders = {}
        /\ req.op = "migrate" => truth["other"].holders = {}

=============================================================================
