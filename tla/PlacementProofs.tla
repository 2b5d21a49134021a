-------------------------- MODULE PlacementProofs --------------------------
(* The placement of the pods for every set of nodes, every list of pods and  *)
(* any number of moves of the cluster.                                       *)
EXTENDS Placement, TLAPS, SequenceTheorems, FiniteSetTheorems, WellFoundedInduction

-----------------------------------------------------------------------------
(* The inductive invariant *)

\* A claim not read yet is unread, and one being read has no nodes yet.
Order ==
    /\ at = "live" => req.snapshot /\ info["data"] = Unread /\ ~truth["data"].answered
    /\ at = "live" => step \notin {"install", "remote"}
    /\ at \in {"live", "data"} => info["other"] = Unread
    /\ step = "find" => info[at] = Unread
    /\ step = "resolve" => info[at].allowed = NoLimit /\ info[at].pinned = NoLimit
    /\ step # "done" => jobs = {} /\ outcome = "none"

\* The clone stays where its source allows, and nobody uses it.
Clone ==
    req.snapshot =>
        /\ pods["data"] = <<>> /\ truth["data"].holders = {} /\ claim["live"].bound
        /\ claim["live"].limit # NoLimit =>
               claim["data"].limit # NoLimit /\ claim["data"].limit \subseteq claim["live"].limit
        /\ ~claim["data"].bound => claim["data"].limit = claim["live"].limit
        /\ at # "live" \/ step \in {"resolve", "check"} => info["live"].bound
        /\ at = "data" /\ step = "resolve" =>
               truth["data"].reach = Reach("data") /\ info["data"].bound = claim["data"].bound

\* What was read about a volume and its users, and what was so.
Read ==
    \A c \in Claims :
        /\ info[c].bound => claim[c].bound /\ truth[c].reach = Reach(c)
        /\ ~info[c].bound /\ ~(c = "data" /\ req.snapshot) => truth[c].reach = Nodes
        /\ info[c].mounted # None => info[c].mounted \in truth[c].holders
        /\ OneNode(c) => \A m, n \in Holders(pods[c]) : m = n
        /\ OneNode(c) => \A m, n \in truth[c].holders : m = n
        /\ c # "live" /\ "RWOP" \in claim[c].modes => info[c].mounted = None

\* The nodes kept for a claim: all that could do, and with an answer only those.
Kept ==
    \A c \in Claims, n \in alive :
        /\ info[c].allowed # NoLimit /\ n \in truth[c].reach => n \in info[c].allowed
        /\ info[c].pinned # NoLimit /\ CanMount(n, c) => n \in info[c].pinned
        /\ Answered(c) /\ (info[c].allowed # NoLimit => n \in info[c].allowed)
               => n \in truth[c].reach
        /\ info[c].pinned # NoLimit /\ n \in info[c].pinned =>
               /\ info[c].allowed # NoLimit => n \in info[c].allowed
               /\ info[c].mounted # None /\ OneNode(c) => n = info[c].mounted
        /\ info[c].pinned = NoLimit /\ truth[c].answered =>
               info[c].allowed = NoLimit /\ (info[c].mounted = None \/ ~OneNode(c))

IInv == TypeOK /\ Order /\ Clone /\ Read /\ Kept

-----------------------------------------------------------------------------
(* Lemmas about the operators *)

\* A set of positions that is not empty has a least one.
LEMMA LeastPosition ==
    ASSUME NEW T, T \subseteq Nat, T # {}
    PROVE  \E i \in T : \A k \in T : i <= k
<1>1. PICK i \in T : \A k \in T : ~(<<k, i>> \in OpToRel(<, Nat))
  BY NatLessThanWellFounded, WFMin
<1>2. \A k \in T : ~(k < i)
  BY <1>1 DEF OpToRel
<1> QED BY <1>2

\* The node findMountedPod reports is empty or that of a pod using the claim.
LEMMA MountedNodeHolds ==
    ASSUME NEW list \in Seq(Pod)
    PROVE  /\ MountedNode(list) \in Nodes \cup {None}
           /\ MountedNode(list) # None => MountedNode(list) \in Holders(list)
<1> DEFINE U == {i \in DOMAIN list : ~list[i].finished}
<1>1. CASE U = {}
  BY <1>1 DEF MountedNode
<1>2. CASE U # {}
  <2>1. U \subseteq Nat
    OBVIOUS
  <2> DEFINE first == CHOOSE i \in U : \A k \in U : i <= k
  <2>2. first \in U
    <3>1. \E i \in U : \A k \in U : i <= k
      BY <1>2, <2>1, LeastPosition
    <3> QED BY <3>1
  <2>3. MountedNode(list) = list[first].node
    BY <1>2 DEF MountedNode
  <2>4. list[first] \in Pod
    BY <2>2
  <2> QED BY <2>2, <2>3, <2>4 DEF Pod, Holders
<1> QED BY <1>1, <1>2

\* The nodes where pods have a claim mounted are nodes.
LEMMA HoldersAreNodes ==
    ASSUME NEW list \in Seq(Pod)
    PROVE  Holders(list) \subseteq Nodes
<1>1. ASSUME NEW i \in DOMAIN list
      PROVE  list[i].node \in Nodes \cup {None}
  <2>1. list[i] \in Pod
    BY <1>1
  <2> QED BY <2>1 DEF Pod
<1> QED BY <1>1 DEF Holders

\* What two constraints leave is what both allow, nil allowing everything.
LEMMA IntersectAllows ==
    ASSUME NEW first \in Limits, NEW second \in Limits
    PROVE  /\ IntersectNodes(first, second) \in Limits
           /\ IntersectNodes(first, second) = NoLimit <=> first = NoLimit /\ second = NoLimit
           /\ \A n \in Nodes : Within(n, IntersectNodes(first, second)) <=>
                                   Within(n, first) /\ Within(n, second)
<1>1. CASE first = NoLimit
  BY <1>1 DEF IntersectNodes, Within
<1>2. CASE first # NoLimit /\ second = NoLimit
  BY <1>2 DEF IntersectNodes, Within
<1>3. CASE first # NoLimit /\ second # NoLimit
  <2>1. IntersectNodes(first, second) = first \cap second
    BY <1>3 DEF IntersectNodes
  <2>2. first \cap second \in SUBSET Nodes
    BY <1>3 DEF Limits
  <2>3. first \cap second # NoLimit
    BY <2>2, NodesAssumption
  <2> QED BY <1>3, <2>1, <2>2, <2>3 DEF Within, Limits
<1> QED BY <1>1, <1>2, <1>3

\* A list of pods keeps its type when one of them changes.
LEMMA PodChanges ==
    ASSUME NEW list \in Seq(Pod), NEW i \in DOMAIN list, NEW p \in Pod
    PROVE  [list EXCEPT ![i] = p] \in Seq(Pod)
BY ExceptSeq

-----------------------------------------------------------------------------
(* Types *)

\* The first state is well typed and nothing has been read.
LEMMA InitIInv == Init => IInv
<1> SUFFICES ASSUME Init PROVE IInv
  OBVIOUS
<1>0. PICK live \in IF req.snapshot THEN {u \in NamedUses : u.claim.bound} ELSE {Unnamed} :
      \E data \in IF req.snapshot THEN CloneUses(live.claim) ELSE NamedUses :
      \E other \in IF req.archive THEN NamedUses ELSE {Unnamed} :
          /\ claim = [live |-> live.claim, data |-> data.claim, other |-> other.claim]
          /\ pods = [live |-> live.pods, data |-> data.pods, other |-> other.pods]
  BY DEF Init
<1>1. PICK data \in IF req.snapshot THEN CloneUses(live.claim) ELSE NamedUses :
      \E other \in IF req.archive THEN NamedUses ELSE {Unnamed} :
          /\ claim = [live |-> live.claim, data |-> data.claim, other |-> other.claim]
          /\ pods = [live |-> live.pods, data |-> data.pods, other |-> other.pods]
  BY <1>0
<1>2. PICK other \in IF req.archive THEN NamedUses ELSE {Unnamed} :
          /\ claim = [live |-> live.claim, data |-> data.claim, other |-> other.claim]
          /\ pods = [live |-> live.pods, data |-> data.pods, other |-> other.pods]
  BY <1>1
<1>3. live \in Uses /\ data \in Uses /\ other \in Uses
  <2>1. Unnamed \in [claim : Claim, pods : PodLists]
    BY AccessModesAssumption, PodListsAssumption DEF Unnamed, Claim, Limits
  <2>2. Consistent(Unnamed.claim, Unnamed.pods)
    <3>1. Holders(<<>>) = {}
      BY DEF Holders
    <3> QED BY <3>1 DEF Consistent, Unnamed
  <2>3. Unnamed \in Uses
    BY <2>1, <2>2 DEF Uses
  <2> QED BY <2>3 DEF NamedUses, CloneUses
<1>4. \A u \in {live, data, other} :
          u.claim \in Claim /\ u.pods \in Seq(Pod) /\ Consistent(u.claim, u.pods)
  BY <1>3, PodListsAssumption DEF Uses
<1>5. /\ claim["live"] = live.claim /\ claim["data"] = data.claim /\ claim["other"] = other.claim
      /\ pods["live"] = live.pods /\ pods["data"] = data.pods /\ pods["other"] = other.pods
  BY <1>2
<1>6. TypeOK
  <2>1. claim \in [Claims -> Claim] /\ pods \in [Claims -> Seq(Pod)]
    BY <1>2, <1>4 DEF Claims
  <2>2. info \in [Claims -> [mounted : Nodes \cup {None}, bound : BOOLEAN,
                             allowed : Limits, pinned : Limits]]
    BY DEF Init, Unread, Limits
  <2>3. truth \in [Claims -> [reach : SUBSET Nodes, holders : SUBSET Nodes, answered : BOOLEAN]]
    BY DEF Init, Unknown
  <2>4. moves \in 0 .. MaxMoves
    BY MaxMovesAssumption DEF Init
  <2> QED BY <2>1, <2>2, <2>3, <2>4 DEF Init, TypeOK, Claims, Outcomes
<1>7. Order
  BY DEF Init, Order, Unread, Unknown, Claims
<1>8. Clone
  <2> SUFFICES ASSUME req.snapshot PROVE Clone
    BY DEF Clone
  <2>1. live \in NamedUses /\ live.claim.bound /\ data \in CloneUses(live.claim) /\ at = "live"
        /\ step = "find" /\ truth["data"].holders = {}
    BY <1>0, <1>1 DEF Init, Claims, Unknown
  <2> QED BY <2>1, <1>5 DEF Clone, CloneUses
<1>9. Read
  <2> SUFFICES ASSUME NEW c \in Claims, OneNode(c), NEW m \in Holders(pods[c]),
                      NEW n \in Holders(pods[c])
               PROVE  m = n
    BY DEF Read, Init, Unread, Unknown
  <2> QED BY <1>4, <1>5 DEF Claims, Consistent, OneNode
<1>10. Kept
  BY NodesAssumption DEF Kept, Init, Unread, Unknown, Answered
<1> QED BY <1>6, <1>7, <1>8, <1>9, <1>10 DEF IInv

-----------------------------------------------------------------------------
(* The cluster's steps *)

\* What was kept stays right while nodes leave and claims keep their modes.
LEMMA KeptStays ==
    ASSUME TypeOK, Kept, alive' \subseteq alive, UNCHANGED <<req, info, truth>>,
           \A c \in Claims : claim'[c].modes = claim[c].modes
    PROVE  Kept'
<1> SUFFICES ASSUME NEW c \in Claims, NEW n \in alive'
             PROVE  Kept!(c, n)'
  BY DEF Kept
<1>1. n \in alive /\ Kept!(c, n)
  BY DEF Kept
<1>2. OneNode(c)' = OneNode(c)
  BY DEF OneNode
<1>3. CanMount(n, c)' = CanMount(n, c)
  BY <1>2 DEF CanMount
<1>4. Answered(c)' = Answered(c)
  BY DEF Answered
<1> QED BY <1>1, <1>2, <1>3, <1>4

LEMMA NodeRemovedIInv == IInv /\ ClusterStep /\ NodeRemoved => IInv'
<1> SUFFICES ASSUME IInv, ClusterStep, NodeRemoved PROVE IInv'
  OBVIOUS
<1> USE DEF IInv
<1>1. alive' \subseteq alive /\ UNCHANGED <<req, claim, pods, step, at, info, jobs, outcome, truth>>
  BY DEF NodeRemoved
<1>2. moves' \in 0 .. MaxMoves
  BY MaxMovesAssumption DEF ClusterStep, TypeOK
<1>3. TypeOK'
  BY <1>1, <1>2 DEF TypeOK
<1>4. Order'
  BY <1>1 DEF Order
<1>5. \A c \in Claims : Reach(c)' = Reach(c) /\ OneNode(c)' = OneNode(c)
  BY <1>1 DEF Reach, OneNode
<1>6. Clone'
  BY <1>1, <1>5 DEF Clone, Claims
<1>7. Read'
  BY <1>1, <1>5 DEF Read
<1>8. Kept'
  BY <1>1, KeptStays
<1> QED BY <1>3, <1>4, <1>6, <1>7, <1>8

LEMMA PodFinishesIInv ==
    ASSUME IInv, ClusterStep, NEW c \in Claims, PodFinishes(c)
    PROVE  IInv'
<1> USE DEF IInv
<1>1. PICK i \in DOMAIN pods[c] :
          /\ ~pods[c][i].finished /\ pods[c][i].node # None
          /\ pods' = [pods EXCEPT ![c][i].finished = TRUE]
  BY DEF PodFinishes
<1>2. UNCHANGED <<req, claim, alive, step, at, info, jobs, outcome, truth>>
  BY DEF PodFinishes
<1>3. moves' \in 0 .. MaxMoves
  BY MaxMovesAssumption DEF ClusterStep, TypeOK
<1> DEFINE p == [pods[c][i] EXCEPT !.finished = TRUE]
           list == [pods[c] EXCEPT ![i] = p]
<1>4. pods[c] \in Seq(Pod) /\ pods[c][i] \in Pod
  BY DEF TypeOK
<1>5. p \in Pod
  BY <1>4 DEF Pod
<1>6. list \in Seq(Pod)
  BY <1>4, <1>5, PodChanges
<1>7. pods' = [pods EXCEPT ![c] = list]
  BY <1>1
<1>8. pods' \in [Claims -> Seq(Pod)]
  BY <1>6, <1>7 DEF TypeOK
<1>9. TypeOK'
  BY <1>2, <1>3, <1>8 DEF TypeOK
<1>10. Order'
  BY <1>2 DEF Order
<1>11. \A d \in Claims : Reach(d)' = Reach(d) /\ OneNode(d)' = OneNode(d)
  BY <1>2 DEF Reach, OneNode
<1>12. Clone'
  <2>1. req.snapshot => c # "data"
    BY <1>1 DEF Clone
  <2>2. req.snapshot => pods'["data"] = <<>>
    BY <2>1, <1>7 DEF Clone, TypeOK, Claims
  <2> QED BY <1>2, <1>11, <2>2 DEF Clone, Claims
<1>13. \A d \in Claims : Holders(pods'[d]) \subseteq Holders(pods[d])
  <2>1. Holders(list) \subseteq Holders(pods[c])
    <3>1. DOMAIN list = DOMAIN pods[c]
      OBVIOUS
    <3>2. ASSUME NEW k \in DOMAIN list, ~list[k].finished
          PROVE  k \in DOMAIN pods[c] /\ ~pods[c][k].finished /\ list[k].node = pods[c][k].node
      <4>1. CASE k = i
        BY <3>2, <4>1, <1>4, <1>5 DEF Pod
      <4>2. CASE k # i
        BY <3>2, <4>2
      <4> QED BY <4>1, <4>2
    <3> HIDE DEF list
    <3> QED BY <3>2 DEF Holders
  <2>2. pods'[c] = list /\ \A d \in Claims \ {c} : pods'[d] = pods[d]
    BY <1>7 DEF TypeOK
  <2> QED BY <2>1, <2>2
<1>14. Read'
  BY <1>2, <1>11, <1>13 DEF Read
<1>15. Kept'
  BY <1>2, KeptStays
<1> QED BY <1>9, <1>10, <1>12, <1>14, <1>15

LEMMA PodScheduledIInv ==
    ASSUME IInv, ClusterStep, NEW c \in Claims, PodScheduled(c)
    PROVE  IInv'
<1> USE DEF IInv
<1>1. PICK i \in DOMAIN pods[c], n \in alive, limit \in Limits :
          /\ ~pods[c][i].finished /\ pods[c][i].node = None
          /\ Within(n, limit)
          /\ claim[c].bound => limit = claim[c].limit
          /\ pods' = [pods EXCEPT ![c][i].node = n]
          /\ claim' = [claim EXCEPT ![c].bound = TRUE, ![c].limit = limit]
          /\ Consistent(claim'[c], pods'[c])
  BY DEF PodScheduled
<1>2. UNCHANGED <<req, alive, step, at, info, jobs, outcome, truth>>
  BY DEF PodScheduled
<1>3. moves' \in 0 .. MaxMoves
  BY MaxMovesAssumption DEF ClusterStep, TypeOK
<1> DEFINE p == [pods[c][i] EXCEPT !.node = n]
           list == [pods[c] EXCEPT ![i] = p]
<1>4. pods[c] \in Seq(Pod) /\ pods[c][i] \in Pod
  BY DEF TypeOK
<1>5. p \in Pod
  BY <1>4 DEF Pod, TypeOK
<1>6. list \in Seq(Pod)
  BY <1>4, <1>5, PodChanges
<1>7. pods' = [pods EXCEPT ![c] = list]
  BY <1>1
<1>8. pods' \in [Claims -> Seq(Pod)]
  BY <1>6, <1>7 DEF TypeOK
<1>9. /\ claim' \in [Claims -> Claim]
      /\ claim'[c].bound /\ claim'[c].limit = limit
      /\ \A d \in Claims : claim'[d].modes = claim[d].modes
      /\ \A d \in Claims : claim[d].bound => claim'[d] = claim[d]
      /\ \A d \in Claims \ {c} : claim'[d] = claim[d] /\ pods'[d] = pods[d]
  <2>1. claim[c] \in Claim
    BY DEF TypeOK
  <2>2. claim'[c] = [modes |-> claim[c].modes, bound |-> TRUE, limit |-> limit]
    BY <1>1, <2>1 DEF TypeOK, Claim
  <2>3. \A d \in Claims \ {c} : claim'[d] = claim[d] /\ pods'[d] = pods[d]
    BY <1>1, <1>7 DEF TypeOK
  <2>4. claim[c].bound => claim'[c] = claim[c]
    BY <1>1, <2>1, <2>2 DEF Claim
  <2>5. claim' \in [Claims -> Claim]
    BY <1>1, <2>1 DEF TypeOK, Claim
  <2>6. claim'[c].bound /\ claim'[c].limit = limit /\ claim'[c].modes = claim[c].modes
    BY <2>2
  <2>7. \A d \in Claims : claim'[d].modes = claim[d].modes
    BY <2>3, <2>6
  <2>8. \A d \in Claims : claim[d].bound => claim'[d] = claim[d]
    BY <2>3, <2>4
  <2> QED BY <2>3, <2>5, <2>6, <2>7, <2>8
<1>10. TypeOK'
  BY <1>2, <1>3, <1>8, <1>9 DEF TypeOK
<1>11. Order'
  BY <1>2 DEF Order
<1>12. /\ \A d \in Claims : OneNode(d)' = OneNode(d)
       /\ \A d \in Claims : claim[d].bound => claim'[d].bound /\ Reach(d)' = Reach(d)
       /\ \A d \in Claims \ {c} : Reach(d)' = Reach(d)
  BY <1>2, <1>9 DEF Reach, OneNode
<1>13. Clone'
  <2> SUFFICES ASSUME req.snapshot PROVE Clone'
    BY <1>2 DEF Clone
  <2>1. c # "data"
    BY <1>1 DEF Clone
  <2>2. claim["live"].bound /\ claim'["live"] = claim["live"] /\ claim'["data"] = claim["data"]
        /\ pods'["data"] = <<>> /\ Reach("data")' = Reach("data")
    BY <1>9, <1>12, <2>1 DEF Clone, Claims
  <2> QED BY <1>2, <2>2 DEF Clone
<1>14. Read'
  <2> SUFFICES ASSUME NEW d \in Claims PROVE Read!(d)'
    BY DEF Read
  <2>1. Read!(d)
    BY DEF Read
  <2>2. OneNode(d) => \A k, m \in Holders(pods'[d]) : k = m
    <3>1. CASE d = c
      BY <1>1, <3>1, <1>9 DEF Consistent, OneNode
    <3>2. CASE d # c
      BY <2>1, <3>2, <1>9
    <3> QED BY <3>1, <3>2
  <2> QED BY <1>2, <1>9, <1>12, <2>1, <2>2
<1>15. Kept'
  BY <1>2, <1>9, KeptStays
<1> QED BY <1>10, <1>11, <1>13, <1>14, <1>15

-----------------------------------------------------------------------------
(* The tool's steps *)

\* A step that ends the run, or that goes on to a claim not read yet, leaves what
\* was read as it is.
LEMMA QuietStep ==
    ASSUME IInv, UNCHANGED <<req, claim, pods, alive, info, truth, moves>>,
           step' \in {"find", "check", "install", "remote", "done"}, at' \in Claims,
           jobs' \subseteq [mounts : SUBSET Claims, node : Nodes \cup {None}, affinity : Affinities],
           \A j \in jobs' : j.affinity.nodes # NoLimit,
           outcome' \in Outcomes,
           step' # "done" => jobs' = {} /\ outcome' = "none",
           step' = "find" => info[at'] = Unread /\ at' # "live",
           at' \in {at, "data", "other"},
           at' = "data" => info["other"] = Unread,
           at' = "live" => step' = "done",
           at # at' => step = "check" /\ (at = "live" => at' = "data")
    PROVE  IInv'
<1> USE DEF IInv
<1>1. TypeOK'
  BY DEF TypeOK
<1>2. Order'
  BY DEF Order
<1>3. \A c \in Claims : Reach(c)' = Reach(c) /\ OneNode(c)' = OneNode(c)
  BY DEF Reach, OneNode
<1>4. Clone'
  BY <1>3 DEF Clone, Claims
<1>5. Read'
  BY <1>3 DEF Read
<1>6. Kept'
  BY KeptStays
<1> QED BY <1>1, <1>2, <1>4, <1>5, <1>6

LEMMA RefuseIInv ==
    ASSUME IInv, UNCHANGED moves, step # "done", NEW why \in Outcomes, Refuse(why)
    PROVE  IInv'
<1>1. /\ UNCHANGED <<req, claim, pods, alive, at, info, jobs, truth>>
      /\ step' = "done" /\ outcome' = why
  BY DEF Refuse
<1>2. jobs = {} /\ at \in Claims /\ (at = "data" => info["other"] = Unread)
  BY DEF IInv, Order, TypeOK
<1> QED BY <1>1, <1>2, QuietStep

LEMMA FindMountedPodIInv ==
    ASSUME IInv, UNCHANGED moves, FindMountedPod
    PROVE  IInv'
<1>1. CASE Refuse("inUse")
  BY <1>1, RefuseIInv DEF FindMountedPod, Outcomes
<1>2. CASE ~Refuse("inUse")
  <2> USE DEF IInv
  <2> DEFINE mounted == MountedNode(pods[at])
  <2>1. /\ step = "find" /\ step' = "resolve"
        /\ truth' = [truth EXCEPT ![at] =
               [reach |-> Reach(at), holders |-> Holders(pods[at]), answered |-> FALSE]]
        /\ info' = [info EXCEPT ![at].mounted = mounted, ![at].bound = claim[at].bound]
        /\ UNCHANGED <<req, claim, pods, alive, at, jobs, outcome>>
        /\ ~(RejectsMountedRWOP(at) /\ "RWOP" \in claim[at].modes /\ mounted # None)
    BY <1>2 DEF FindMountedPod
  <2>2. pods[at] \in Seq(Pod) /\ claim[at] \in Claim /\ at \in Claims
    BY DEF TypeOK
  <2>3. /\ mounted \in Nodes \cup {None}
        /\ mounted # None => mounted \in Holders(pods[at])
        /\ Holders(pods[at]) \subseteq Nodes
    BY <2>2, MountedNodeHolds, HoldersAreNodes
  <2>4. Reach(at) \subseteq Nodes
    BY <2>2 DEF Reach, Claim, Limits
  <2>5. /\ info[at] = Unread
        /\ info'[at].mounted = mounted /\ info'[at].bound = claim[at].bound
        /\ info'[at].allowed = NoLimit /\ info'[at].pinned = NoLimit
        /\ \A c \in Claims \ {at} : info'[c] = info[c] /\ truth'[c] = truth[c]
        /\ truth'[at] = [reach |-> Reach(at), holders |-> Holders(pods[at]), answered |-> FALSE]
    <3>1. info[at] = Unread
      BY <2>1 DEF Order
    <3>2. \A c \in Claims \ {at} : info'[c] = info[c] /\ truth'[c] = truth[c]
      BY <2>1 DEF TypeOK
    <3>3. truth'[at] = [reach |-> Reach(at), holders |-> Holders(pods[at]), answered |-> FALSE]
      BY <2>1, <2>2 DEF TypeOK
    <3>4. info'[at] = [info[at] EXCEPT !.mounted = mounted, !.bound = claim[at].bound]
      BY <2>1, <2>2 DEF TypeOK
    <3> HIDE DEF mounted
    <3>5. info[at] \in [mounted : Nodes \cup {None}, bound : BOOLEAN,
                       allowed : Limits, pinned : Limits]
      BY <2>2 DEF TypeOK
    <3>6. /\ info'[at].mounted = mounted /\ info'[at].bound = claim[at].bound
          /\ info'[at].allowed = info[at].allowed /\ info'[at].pinned = info[at].pinned
      BY <3>4, <3>5
    <3>7. info[at].allowed = NoLimit /\ info[at].pinned = NoLimit
      BY <3>1 DEF Unread
    <3> QED BY <3>1, <3>2, <3>3, <3>6, <3>7
  <2> HIDE DEF mounted
  <2>6. TypeOK'
    <3>1. info' \in [Claims -> [mounted : Nodes \cup {None}, bound : BOOLEAN,
                                allowed : Limits, pinned : Limits]]
      BY <2>1, <2>2, <2>3 DEF TypeOK, Claim
    <3>2. truth' \in [Claims -> [reach : SUBSET Nodes, holders : SUBSET Nodes, answered : BOOLEAN]]
      BY <2>1, <2>2, <2>3, <2>4 DEF TypeOK
    <3> QED BY <2>1, <3>1, <3>2 DEF TypeOK
  <2>7. Order'
    <3>1. at = "live" => info'["data"] = info["data"] /\ truth'["data"] = truth["data"]
      BY <2>5 DEF Claims
    <3>2. at \in {"live", "data"} => info'["other"] = info["other"]
      BY <2>5 DEF Claims
    <3>3. info'[at].allowed = NoLimit /\ info'[at].pinned = NoLimit
      BY <2>5
    <3> QED BY <2>1, <3>1, <3>2, <3>3 DEF Order
  <2>8. \A c \in Claims : Reach(c)' = Reach(c) /\ OneNode(c)' = OneNode(c)
    BY <2>1 DEF Reach, OneNode
  <2>9. Clone'
    <3>1. at # "live" => info'["live"] = info["live"]
      BY <2>5 DEF Claims
    <3>2. at = "data" => truth'["data"].reach = Reach("data")
                         /\ info'["data"].bound = claim["data"].bound
                         /\ truth'["data"].holders = Holders(pods["data"])
      BY <2>5
    <3>3. at # "data" => truth'["data"] = truth["data"]
      BY <2>5 DEF Claims
    <3>4. at = "live" => info'["live"].bound = claim["live"].bound
      BY <2>5
    <3>5. Holders(<<>>) = {}
      BY DEF Holders
    <3> QED BY <2>1, <2>2, <2>8, <3>1, <3>2, <3>3, <3>4, <3>5 DEF Clone, Claims
  <2>10. Read'
    <3> SUFFICES ASSUME NEW c \in Claims PROVE Read!(c)'
      BY DEF Read
    <3>1. CASE c # at
      <4>1. Read!(c)
        BY DEF Read
      <4>2. info'[c] = info[c] /\ truth'[c] = truth[c]
        BY <2>5, <3>1
      <4> QED BY <2>1, <2>8, <4>1, <4>2
    <3>2. CASE c = at
      <4>1. Read!(c)
        BY DEF Read
      <4>2. ~claim[c].bound /\ ~(c = "data" /\ req.snapshot) => Reach(c) = Nodes
        BY DEF Reach
      <4>3. c # "live" /\ "RWOP" \in claim[c].modes => mounted = None
        BY <2>1, <3>2 DEF RejectsMountedRWOP
      <4> QED BY <2>1, <2>3, <2>5, <2>8, <3>2, <4>1, <4>2, <4>3
    <3> QED BY <3>1, <3>2
  <2>11. Kept'
    <3> SUFFICES ASSUME NEW c \in Claims, NEW n \in alive PROVE Kept!(c, n)'
      BY <2>1 DEF Kept
    <3>1. CASE c = at
      BY <2>5, <3>1 DEF Answered
    <3>2. CASE c # at
      <4>1. Kept!(c, n)
        BY DEF Kept
      <4>2. CanMount(n, c)' = CanMount(n, c)
        BY <2>1, <2>5, <2>8, <3>2 DEF CanMount
      <4>3. Answered(c)' => Answered(c)
        BY <2>1, <2>2, <2>5, <3>2 DEF Answered, Claims
      <4> QED BY <2>5, <2>8, <3>2, <4>1, <4>2, <4>3
    <3> QED BY <3>1, <3>2
  <2> QED BY <2>6, <2>7, <2>9, <2>10, <2>11
<1> QED BY <1>1, <1>2

LEMMA AllowedTyped ==
    ASSUME TypeOK, NEW c \in Claims, NEW allowed \in AllowedNodesFor(c)
    PROVE  /\ allowed \in Limits
           /\ allowed # NoLimit =>
                  info[c].bound /\ claim[c].limit # NoLimit /\ allowed = claim[c].limit \cap alive
<1>1. claim[c].limit \in Limits
  BY DEF TypeOK, Claim
<1> QED BY <1>1 DEF AllowedNodesFor, Limits, TypeOK

\* What Pinned leaves: nodes that were allowed, and the one the claim is held on.
LEMMA PinnedAllows ==
    ASSUME TypeOK, NEW c \in Claims, NEW allowed \in Limits
    PROVE  /\ Pinned(c, allowed) \in Limits
           /\ Pinned(c, allowed) = NoLimit =>
                  allowed = NoLimit /\ (info[c].mounted = None \/ ~OneNode(c))
           /\ \A n \in Nodes : Within(n, Pinned(c, allowed)) <=>
                  Within(n, allowed) /\ (info[c].mounted # None /\ OneNode(c) => n = info[c].mounted)
<1>1. CASE info[c].mounted # None /\ OneNode(c)
  <2> DEFINE m == info[c].mounted
  <2>1. m \in Nodes
    BY <1>1 DEF TypeOK
  <2>2. {m} \in Limits /\ {m} # NoLimit
    BY <2>1, NodesAssumption DEF Limits
  <2>3. Pinned(c, allowed) = IntersectNodes(allowed, {m})
    BY <1>1 DEF Pinned
  <2>4. \A n \in Nodes : Within(n, {m}) <=> n = m
    BY <2>2 DEF Within
  <2> QED BY <1>1, <2>2, <2>3, <2>4, IntersectAllows
<1>2. CASE ~(info[c].mounted # None /\ OneNode(c))
  BY <1>2 DEF Pinned
<1> QED BY <1>1, <1>2

\* Where the clone may be used its source may be, and a clone that is not
\* provisioned may be used wherever its source may.
LEMMA CloneReach ==
    ASSUME TypeOK, Clone, req.snapshot
    PROVE  /\ Reach("data") \subseteq Reach("live")
           /\ ~claim["data"].bound => Reach("data") = Reach("live")
<1>1. claim["data"].limit \in Limits /\ claim["live"].limit \in Limits
  BY DEF TypeOK, Claim, Claims
<1>2. Reach("live") = IF claim["live"].limit = NoLimit THEN Nodes ELSE claim["live"].limit
  BY DEF Reach, Clone
<1>3. Reach("data") = IF claim["data"].limit = NoLimit THEN Nodes ELSE claim["data"].limit
  BY DEF Reach
<1> QED BY <1>1, <1>2, <1>3 DEF Clone, Limits

\* The nodes resolveTopology keeps for a claim, and whether that is an answer.
AllowedKept(c, allowed) == IF Inherits(c, allowed) THEN info["live"].allowed ELSE allowed

PinnedKept(c, allowed) ==
    IF Inherits(c, allowed) THEN info["live"].allowed ELSE Pinned(c, allowed)

Answers(c, allowed) == allowed # NoLimit \/ ~info[c].bound \/ claim[c].limit = NoLimit

\* They are those the invariant asks for.
LEMMA ResolvedKept ==
    ASSUME IInv, step = "resolve", NEW allowed \in AllowedNodesFor(at), NEW n \in alive
    PROVE  LET kept == AllowedKept(at, allowed)
               pin == PinnedKept(at, allowed)
           IN  /\ kept # NoLimit /\ n \in truth[at].reach => n \in kept
               /\ pin # NoLimit /\ CanMount(n, at) => n \in pin
               /\ Answers(at, allowed) /\ (at = "data" /\ req.snapshot => truth["live"].answered)
                      /\ (kept # NoLimit => n \in kept) => n \in truth[at].reach
               /\ pin # NoLimit /\ n \in pin =>
                      /\ kept # NoLimit => n \in kept
                      /\ info[at].mounted # None /\ OneNode(at) => n = info[at].mounted
               /\ pin = NoLimit /\ Answers(at, allowed) =>
                      kept = NoLimit /\ (info[at].mounted = None \/ ~OneNode(at))
<1> DEFINE kept == AllowedKept(at, allowed)
           pin == PinnedKept(at, allowed)
           answered == Answers(at, allowed)
<1> USE DEF IInv
<1>1. at \in Claims /\ n \in Nodes
  BY DEF TypeOK
<1>2. /\ allowed \in Limits
      /\ allowed # NoLimit =>
             info[at].bound /\ claim[at].limit # NoLimit /\ allowed = claim[at].limit \cap alive
  BY <1>1, AllowedTyped
<1>3. info[at].bound => claim[at].bound /\ truth[at].reach = Reach(at)
  BY <1>1 DEF Read
<1>4. claim[at].limit = NoLimit => Reach(at) = Nodes
  BY DEF Reach
<1>5. allowed # NoLimit => truth[at].reach = claim[at].limit
  BY <1>2, <1>3 DEF Reach
<1>6. info[at].mounted # None => info[at].mounted \in truth[at].holders
  BY <1>1 DEF Read
<1>7. at = "data" /\ req.snapshot =>
          /\ truth["data"].reach = Reach("data") /\ info["data"].bound = claim["data"].bound
          /\ truth["live"].reach = Reach("live") /\ info["data"].mounted = None
          /\ Reach("data") \subseteq Reach("live")
          /\ ~claim["data"].bound => Reach("data") = Reach("live")
  <2> SUFFICES ASSUME at = "data", req.snapshot
               PROVE  <1>7!2
    OBVIOUS
  <2>1. info["live"].bound /\ truth["data"].holders = {}
        /\ truth["data"].reach = Reach("data") /\ info["data"].bound = claim["data"].bound
    BY DEF Clone
  <2>2. truth["live"].reach = Reach("live")
    BY <2>1 DEF Read, Claims
  <2>3. info["data"].mounted = None
    BY <1>6, <2>1
  <2> QED BY <2>1, <2>2, <2>3, CloneReach
<1>8. /\ info["live"].allowed # NoLimit /\ n \in truth["live"].reach => n \in info["live"].allowed
      /\ truth["live"].answered /\ (info["live"].allowed # NoLimit => n \in info["live"].allowed)
             => n \in truth["live"].reach
  BY DEF Kept, Answered, Claims
<1>9. CASE Inherits(at, allowed)
  <2>1. at = "data" /\ req.snapshot /\ allowed = NoLimit /\ info["live"].allowed # NoLimit
    BY <1>9 DEF Inherits
  <2>2. kept = info["live"].allowed /\ pin = info["live"].allowed
    BY <1>9 DEF AllowedKept, PinnedKept
  <2>3. n \in truth[at].reach => n \in kept
    BY <1>7, <1>8, <2>1, <2>2
  <2>4. CanMount(n, at) => n \in pin
    BY <2>2, <2>3 DEF CanMount
  <2>5. answered /\ truth["live"].answered /\ n \in kept => n \in truth[at].reach
    <3>1. answered => ~claim["data"].bound \/ claim[at].limit = NoLimit
      BY <1>7, <2>1 DEF Answers
    <3> QED BY <1>1, <1>4, <1>7, <1>8, <2>1, <2>2, <3>1
  <2> QED BY <1>7, <2>1, <2>2, <2>3, <2>4, <2>5
<1>10. CASE ~Inherits(at, allowed)
  <2>1. kept = allowed /\ pin = Pinned(at, allowed)
    BY <1>10 DEF AllowedKept, PinnedKept
  <2>2. allowed # NoLimit /\ n \in truth[at].reach => n \in allowed
    BY <1>2, <1>5
  <2>3. /\ pin = NoLimit => allowed = NoLimit /\ (info[at].mounted = None \/ ~OneNode(at))
        /\ Within(n, pin) <=>
               Within(n, allowed) /\ (info[at].mounted # None /\ OneNode(at) => n = info[at].mounted)
    BY <1>1, <1>2, <2>1, PinnedAllows
  <2>4. CanMount(n, at) => Within(n, pin)
    BY <1>6, <2>2, <2>3 DEF CanMount, Within
  <2>5. answered /\ (at = "data" /\ req.snapshot => truth["live"].answered)
            /\ Within(n, allowed) => n \in truth[at].reach
    <3>1. CASE allowed # NoLimit
      BY <1>2, <1>5, <3>1 DEF Within
    <3>2. CASE allowed = NoLimit /\ info[at].bound
      BY <1>1, <1>3, <1>4, <3>2 DEF Answers
    <3>3. CASE allowed = NoLimit /\ ~info[at].bound /\ ~(at = "data" /\ req.snapshot)
      BY <1>1, <3>3 DEF Read
    <3>4. CASE allowed = NoLimit /\ ~info[at].bound /\ at = "data" /\ req.snapshot
      <4>1. info["live"].allowed = NoLimit
        BY <1>10, <3>4 DEF Inherits
      <4> QED BY <1>7, <1>8, <3>4, <4>1
    <3> QED BY <3>1, <3>2, <3>3, <3>4
  <2> QED BY <2>1, <2>2, <2>3, <2>4, <2>5 DEF Within
<1> QED BY <1>9, <1>10

LEMMA ResolveTopologyIInv ==
    ASSUME IInv, UNCHANGED moves, ResolveTopology
    PROVE  IInv'
<1> USE DEF IInv
<1>1. PICK allowed \in AllowedNodesFor(at) :
        IF allowed = {}
        THEN Refuse("gone")
        ELSE /\ info' = [info EXCEPT
                    ![at].allowed = IF Inherits(at, allowed) THEN info["live"].allowed ELSE allowed,
                    ![at].pinned = IF Inherits(at, allowed) THEN info["live"].allowed
                                   ELSE Pinned(at, allowed)]
             /\ truth' = [truth EXCEPT ![at].answered =
                            allowed # NoLimit \/ ~info[at].bound \/ claim[at].limit = NoLimit]
             /\ step' = "check"
             /\ UNCHANGED <<req, claim, pods, alive, at, jobs, outcome>>
  BY DEF ResolveTopology
<1>2. step = "resolve"
  BY DEF ResolveTopology
<1>3. CASE allowed = {}
  <2> HIDE DEF IInv
  <2> QED BY <1>1, <1>2, <1>3, RefuseIInv DEF Outcomes
<1>4. CASE allowed # {}
  <2> DEFINE kept == AllowedKept(at, allowed)
             pin == PinnedKept(at, allowed)
             answered == Answers(at, allowed)
  <2>1. /\ info' = [info EXCEPT ![at].allowed = kept, ![at].pinned = pin]
        /\ truth' = [truth EXCEPT ![at].answered = answered]
        /\ step' = "check"
        /\ UNCHANGED <<req, claim, pods, alive, at, jobs, outcome>>
    BY <1>1, <1>4 DEF AllowedKept, PinnedKept, Answers
  <2>2. at \in Claims /\ info["live"].allowed \in Limits /\ allowed \in Limits
    BY AllowedTyped DEF TypeOK, Claims
  <2>3. kept \in Limits /\ pin \in Limits /\ answered \in BOOLEAN
    BY <2>2, PinnedAllows DEF AllowedKept, PinnedKept, Answers
  <2>4. \A n \in alive :
           /\ kept # NoLimit /\ n \in truth[at].reach => n \in kept
           /\ pin # NoLimit /\ CanMount(n, at) => n \in pin
           /\ answered /\ (at = "data" /\ req.snapshot => truth["live"].answered)
                  /\ (kept # NoLimit => n \in kept) => n \in truth[at].reach
           /\ pin # NoLimit /\ n \in pin =>
                  /\ kept # NoLimit => n \in kept
                  /\ info[at].mounted # None /\ OneNode(at) => n = info[at].mounted
           /\ pin = NoLimit /\ answered =>
                  kept = NoLimit /\ (info[at].mounted = None \/ ~OneNode(at))
    BY <1>2, ResolvedKept
  <2> HIDE DEF kept, pin, answered
  <2>5. /\ info'[at].mounted = info[at].mounted /\ info'[at].bound = info[at].bound
        /\ info'[at].allowed = kept /\ info'[at].pinned = pin
    <3>1. info[at] \in [mounted : Nodes \cup {None}, bound : BOOLEAN,
                        allowed : Limits, pinned : Limits]
      BY <2>2 DEF TypeOK
    <3>2. info'[at] = [info[at] EXCEPT !.allowed = kept, !.pinned = pin]
      BY <2>1, <2>2 DEF TypeOK
    <3> QED BY <3>1, <3>2
  <2>6. /\ truth'[at].reach = truth[at].reach /\ truth'[at].holders = truth[at].holders
        /\ truth'[at].answered = answered
    <3>1. truth[at] \in [reach : SUBSET Nodes, holders : SUBSET Nodes, answered : BOOLEAN]
      BY <2>2 DEF TypeOK
    <3>2. truth'[at] = [truth[at] EXCEPT !.answered = answered]
      BY <2>1, <2>2 DEF TypeOK
    <3> QED BY <3>1, <3>2
  <2>7. \A c \in Claims \ {at} : info'[c] = info[c] /\ truth'[c] = truth[c]
    BY <2>1 DEF TypeOK
  <2>8. TypeOK'
    <3>1. info' \in [Claims -> [mounted : Nodes \cup {None}, bound : BOOLEAN,
                                allowed : Limits, pinned : Limits]]
      BY <2>1, <2>2, <2>3 DEF TypeOK
    <3>2. truth' \in [Claims -> [reach : SUBSET Nodes, holders : SUBSET Nodes, answered : BOOLEAN]]
      BY <2>1, <2>2, <2>3 DEF TypeOK
    <3> QED BY <2>1, <3>1, <3>2 DEF TypeOK
  <2>9. Order'
    <3>1. at = "live" => info'["data"] = info["data"] /\ truth'["data"] = truth["data"]
      BY <2>7 DEF Claims
    <3>2. at \in {"live", "data"} => info'["other"] = info["other"]
      BY <2>7 DEF Claims
    <3> QED BY <1>2, <2>1, <3>1, <3>2 DEF Order
  <2>10. \A c \in Claims : /\ Reach(c)' = Reach(c) /\ OneNode(c)' = OneNode(c)
                           /\ info'[c].mounted = info[c].mounted /\ info'[c].bound = info[c].bound
                           /\ truth'[c].reach = truth[c].reach
                           /\ truth'[c].holders = truth[c].holders
    BY <2>1, <2>5, <2>6, <2>7 DEF Reach, OneNode
  <2>11. Clone'
    BY <1>2, <2>1, <2>10 DEF Clone, Claims
  <2>12. Read'
    <3> SUFFICES ASSUME NEW c \in Claims PROVE Read!(c)'
      BY DEF Read
    <3>1. Read!(c)
      BY DEF Read
    <3> QED BY <2>1, <2>10, <3>1
  <2>13. Kept'
    <3> SUFFICES ASSUME NEW c \in Claims, NEW n \in alive PROVE Kept!(c, n)'
      BY <2>1 DEF Kept
    <3>1. CanMount(n, c)' = CanMount(n, c)
      BY <2>1, <2>10 DEF CanMount
    <3>2. CASE c = at
      <4>1. Answered(c)' => answered /\ (at = "data" /\ req.snapshot => truth["live"].answered)
        BY <2>1, <2>6, <2>7, <3>2 DEF Answered, Claims
      <4> QED BY <2>4, <2>5, <2>6, <2>10, <3>1, <3>2, <4>1
    <3>3. CASE c # at
      <4>1. Kept!(c, n)
        BY DEF Kept
      <4>2. Answered(c)' => Answered(c)
        BY <2>1, <2>2, <2>7, <3>3 DEF Answered, Claims, Order
      <4> QED BY <2>7, <2>10, <3>1, <3>3, <4>1, <4>2
    <3> QED BY <3>2, <3>3
  <2> QED BY <2>8, <2>9, <2>11, <2>12, <2>13
<1> QED BY <1>3, <1>4

\* Between two reads the run goes on to a claim it has not read.
LEMMA GoToIInv ==
    ASSUME IInv, UNCHANGED moves, step \in {"check", "install"},
           NEW next \in {"find", "install", "remote"}, NEW c \in {"data", "other"},
           GoTo(next, c), next = "find" => info[c] = Unread,
           c = "data" => info["other"] = Unread,
           at # c => step = "check", at = "live" => c = "data"
    PROVE  IInv'
<1>1. /\ UNCHANGED <<req, claim, pods, alive, info, jobs, outcome, truth>>
      /\ step' = next /\ at' = c
  BY DEF GoTo
<1>2. jobs = {} /\ outcome = "none" /\ at \in Claims
  BY DEF IInv, Order, TypeOK
<1>3. next \in {"find", "check", "install", "remote", "done"} /\ c \in Claims
  BY DEF Claims
<1> QED BY <1>1, <1>2, <1>3, QuietStep DEF Outcomes

\* The type of an affinity, and that a required one is not nil.
TypedAffinity(a) == a \in Affinities /\ a.nodes # NoLimit

LEMMA AffinityTyped ==
    ASSUME TypeOK
    PROVE  /\ \A c \in Claims : TypedAffinity(Affinity(c))
           /\ TypedAffinity(ArchiveAffinity)
<1>1. TypedAffinity(NoAffinity)
  BY NodesAssumption DEF TypedAffinity, NoAffinity, Affinities, Limits
<1>2. \A s \in Limits : s # NoLimit => TypedAffinity(RequireNodes(s))
  BY DEF TypedAffinity, RequireNodes, Affinities
<1>3. \A n \in Nodes : TypedAffinity(PreferNode(n))
  BY NodesAssumption DEF TypedAffinity, PreferNode, Affinities, Limits
<1>4. \A c \in Claims : info[c].pinned \in Limits /\ info[c].mounted \in Nodes \cup {None}
  BY DEF TypeOK
<1>5. \A c \in Claims : TypedAffinity(Affinity(c))
  BY <1>1, <1>2, <1>3, <1>4 DEF Affinity
<1>6. PlacementNodes \in Limits
  BY <1>4, IntersectAllows DEF PlacementNodes, Claims
<1> QED BY <1>2, <1>5, <1>6 DEF ArchiveAffinity, Claims

\* Installing well-typed pods keeps the invariant.
LEMMA InstalledIInv ==
    ASSUME IInv, UNCHANGED moves, step # "done", at = "data" => info["other"] = Unread,
           NEW set, Installed(set),
           \A j \in set : \E m \in SUBSET Claims, n \in Nodes \cup {None} :
                             \E a : TypedAffinity(a) /\ j = Job(m, n, a)
    PROVE  IInv'
<1>1. /\ jobs' = set /\ outcome' = "installed" /\ step' = "done"
      /\ UNCHANGED <<req, claim, pods, alive, at, info, truth>>
  BY DEF Installed
<1>2. ASSUME NEW j \in set
      PROVE  /\ j \in [mounts : SUBSET Claims, node : Nodes \cup {None}, affinity : Affinities]
             /\ j.affinity.nodes # NoLimit
  <2>0. PICK m \in SUBSET Claims, n \in Nodes \cup {None} : \E a : TypedAffinity(a) /\ j = Job(m, n, a)
    OBVIOUS
  <2>1. PICK a : TypedAffinity(a) /\ j = Job(m, n, a)
    BY <2>0
  <2> QED BY <2>1 DEF TypedAffinity, Job
<1>3. at \in Claims
  BY DEF IInv, TypeOK
<1> QED BY <1>1, <1>2, <1>3, QuietStep DEF Outcomes

LEMMA InstallIInv ==
    ASSUME IInv, UNCHANGED moves, InstallMover \/ TryMount \/ RunRemote
    PROVE  IInv'
<1>1. TypeOK /\ at \in Claims /\ (at \in {"live", "data"} => info["other"] = Unread)
  BY DEF IInv, TypeOK, Order
<1>2. /\ \A c \in Claims : TypedAffinity(Affinity(c))
      /\ TypedAffinity(ArchiveAffinity)
  BY <1>1, AffinityTyped
<1>3. DetermineTargetNode \in Nodes \cup {None}
  BY <1>1 DEF DetermineTargetNode, TypeOK, Claims
<1>4. CASE InstallMover
  <2> DEFINE j == IF req.archive THEN Job({"data", "other"}, None, ArchiveAffinity)
                                 ELSE Job({"data"}, None, Affinity("data"))
  <2>1. Installed({j}) /\ step = "install"
    BY <1>4 DEF InstallMover
  <2>2. \E m \in SUBSET Claims, n \in Nodes \cup {None} : \E a : TypedAffinity(a) /\ j = Job(m, n, a)
    <3>1. CASE req.archive
      <4>1. j = Job({"data", "other"}, None, ArchiveAffinity) /\ {"data", "other"} \in SUBSET Claims
        BY <3>1 DEF Claims
      <4> QED BY <1>2, <4>1
    <3>2. CASE ~req.archive
      <4>1. j = Job({"data"}, None, Affinity("data")) /\ {"data"} \in SUBSET Claims /\ "data" \in Claims
        BY <3>2 DEF Claims
      <4> QED BY <1>2, <4>1
    <3> QED BY <3>1, <3>2
  <2> HIDE DEF j
  <2> QED BY <1>1, <2>1, <2>2, InstalledIInv
<1>5. CASE TryMount /\ CannotMount
  <2>1. GoTo("remote", at) /\ step = "install"
    BY <1>5 DEF TryMount
  <2>2. at # "live"
    BY <2>1 DEF IInv, Order
  <2> QED BY <1>1, <2>1, <2>2, GoToIInv DEF Claims
<1>6. CASE TryMount /\ ~CannotMount
  <2> DEFINE j == Job({"data", "other"}, DetermineTargetNode, Affinity("data"))
  <2>1. Installed({j}) /\ step = "install"
    BY <1>6 DEF TryMount
  <2>2. \E m \in SUBSET Claims, n \in Nodes \cup {None} : \E a : TypedAffinity(a) /\ j = Job(m, n, a)
    <3>1. {"data", "other"} \in SUBSET Claims /\ "data" \in Claims
      BY DEF Claims
    <3> QED BY <1>2, <1>3, <3>1
  <2> HIDE DEF j
  <2> QED BY <1>1, <2>1, <2>2, InstalledIInv
<1>7. CASE RunRemote
  <2> DEFINE set == {Job({c}, None, Affinity(c)) : c \in {"data", "other"}}
  <2>1. Installed(set) /\ step # "done"
    BY <1>7 DEF RunRemote
  <2>2. ASSUME NEW j \in set
        PROVE  \E m \in SUBSET Claims, n \in Nodes \cup {None} : \E a : TypedAffinity(a) /\ j = Job(m, n, a)
    <3>1. PICK c \in {"data", "other"} : j = Job({c}, None, Affinity(c))
      OBVIOUS
    <3>2. c \in Claims /\ {c} \in SUBSET Claims
      BY DEF Claims
    <3> QED BY <1>2, <3>1, <3>2
  <2> HIDE DEF set
  <2> QED BY <1>1, <2>1, <2>2, InstalledIInv
<1> QED BY <1>4, <1>5, <1>6, <1>7

LEMMA NextIInv == IInv /\ [Next]_vars => IInv'
<1> SUFFICES ASSUME IInv, [Next]_vars PROVE IInv'
  OBVIOUS
<1>0. at \in Claims /\ (at = "live" => req.snapshot /\ info["data"] = Unread)
      /\ (at \in {"live", "data"} => info["other"] = Unread)
  BY DEF IInv, TypeOK, Order
<1>1. CASE UNCHANGED vars
  <2>1. TypeOK'
    BY <1>1 DEF IInv, TypeOK, vars
  <2>2. Order'
    BY <1>1 DEF IInv, Order, vars
  <2>3. \A c \in Claims : Reach(c)' = Reach(c) /\ OneNode(c)' = OneNode(c)
    BY <1>1 DEF Reach, OneNode, vars
  <2>4. Clone'
    BY <1>1, <2>3 DEF IInv, Clone, Claims, vars
  <2>5. Read'
    BY <1>1, <2>3 DEF IInv, Read, vars
  <2>6. Kept'
    BY <1>1, KeptStays DEF IInv, vars
  <2> QED BY <2>1, <2>2, <2>4, <2>5, <2>6 DEF IInv
<1>2. CASE ClusterStep
  <2>1. CASE NodeRemoved
    BY <1>2, <2>1, NodeRemovedIInv
  <2>2. ASSUME NEW c \in Claims, PodFinishes(c) PROVE IInv'
    BY <1>2, <2>2, PodFinishesIInv
  <2>3. ASSUME NEW c \in Claims, PodScheduled(c) PROVE IInv'
    BY <1>2, <2>3, PodScheduledIInv
  <2> QED BY <1>2, <2>1, <2>2, <2>3 DEF ClusterStep
<1>3. CASE ToolStep
  <2>0. UNCHANGED moves
    BY <1>3 DEF ToolStep
  <2>1. CASE FindMountedPod
    BY <2>0, <2>1, FindMountedPodIInv
  <2>2. CASE ResolveTopology
    BY <2>0, <2>2, ResolveTopologyIInv
  <2>3. CASE LookupFails
    BY <2>0, <2>3, RefuseIInv DEF LookupFails, Outcomes
  <2>4. CASE CloneSnapshot
    BY <1>0, <2>0, <2>4, GoToIInv DEF CloneSnapshot
  <2>5. CASE ResolveSource
    <3>1. step = "check" /\ at = "data"
          /\ (Refuse("mounted") \/ GoTo("find", "other") \/ GoTo("install", "data"))
      BY <2>5 DEF ResolveSource
    <3> QED BY <1>0, <2>0, <3>1, GoToIInv, RefuseIInv DEF Outcomes
  <2>6. CASE CheckSchedulable
    <3>1. step = "check" /\ at = "other" /\ (Refuse("apart") \/ GoTo("install", "other"))
      BY <2>6 DEF CheckSchedulable
    <3> QED BY <1>0, <2>0, <3>1, GoToIInv, RefuseIInv DEF Outcomes
  <2>7. CASE ReadDestination
    BY <1>0, <2>0, <2>7, GoToIInv DEF ReadDestination
  <2>8. CASE ValidatePVCs
    <3>1. step = "check" /\ at = "other"
          /\ (\/ Refuse("mounted") \/ Refuse("readonly") \/ Refuse("tooSmall")
              \/ GoTo("install", "other"))
      BY <2>8 DEF ValidatePVCs
    <3> QED BY <1>0, <2>0, <3>1, GoToIInv, RefuseIInv DEF Outcomes
  <2>9. CASE InstallMover \/ TryMount \/ RunRemote
    BY <2>0, <2>9, InstallIInv
  <2> QED BY <1>3, <2>1, <2>2, <2>3, <2>4, <2>5, <2>6, <2>7, <2>8, <2>9 DEF ToolStep
<1> QED BY <1>1, <1>2, <1>3 DEF Next

LEMMA Invariance == Spec => []IInv
BY InitIInv, NextIInv, PTL DEF Spec

\* The reads, the checks and the installation keep every variable in its type,
\* and no pod is installed with a required set of nodes that is nil.
THEOREM TypeCorrect == Spec => []TypeOK
<1>1. IInv => TypeOK
  BY DEF IInv
<1> QED BY <1>1, Invariance, PTL

-----------------------------------------------------------------------------
(* Where the pods are put *)

\* The run ends by a refusal or by installing; until then nothing is installed.
LEMMA HowItEnds ==
    ASSUME IInv, Next
    PROVE  \/ jobs' = {} /\ outcome' = "none"
           \/ jobs' = {} /\ outcome' \in Outcomes \ {"gone", "apart"}
           \/ ResolveTopology /\ Refuse("gone")
           \/ CheckSchedulable /\ Refuse("apart")
           \/ InstallMover
           \/ TryMount /\ ~CannotMount
           \/ RunRemote
<1>0. step # "done" => jobs = {} /\ outcome = "none"
  BY DEF IInv, Order
<1>1. CASE ClusterStep
  <2>1. step # "done" /\ UNCHANGED <<jobs, outcome>>
    BY <1>1 DEF ClusterStep, NodeRemoved, PodFinishes, PodScheduled
  <2> QED BY <1>0, <2>1
<1>2. CASE ToolStep
  <2>1. CASE FindMountedPod
    BY <1>0, <2>1 DEF FindMountedPod, Refuse, Outcomes
  <2>2. CASE ResolveTopology
    BY <1>0, <2>2 DEF ResolveTopology, Refuse
  <2>3. CASE LookupFails
    BY <1>0, <2>3 DEF LookupFails, Refuse, Outcomes
  <2>4. CASE CloneSnapshot \/ ReadDestination
    BY <1>0, <2>4 DEF CloneSnapshot, ReadDestination, GoTo
  <2>5. CASE ResolveSource
    BY <1>0, <2>5 DEF ResolveSource, GoTo, Refuse, Outcomes
  <2>6. CASE CheckSchedulable
    BY <1>0, <2>6 DEF CheckSchedulable, GoTo
  <2>7. CASE ValidatePVCs
    BY <1>0, <2>7 DEF ValidatePVCs, GoTo, Refuse, Outcomes
  <2>8. CASE TryMount /\ CannotMount
    BY <1>0, <2>8 DEF TryMount, GoTo
  <2> QED BY <1>2, <2>1, <2>2, <2>3, <2>4, <2>5, <2>6, <2>7, <2>8 DEF ToolStep
<1> QED BY <1>1, <1>2 DEF Next

\* What an installing step installs, all else staying as it was read.
LEMMA WhatIsInstalled ==
    ASSUME InstallMover \/ (TryMount /\ ~CannotMount) \/ RunRemote
    PROVE  /\ UNCHANGED <<req, claim, alive, info, truth>> /\ outcome' = "installed"
           /\ \A j \in jobs' :
                \/ req.op = "backup" /\ j = Job({"data", "other"}, None, ArchiveAffinity)
                \/ j = Job({"data"}, None, Affinity("data"))
                \/ j = Job({"other"}, None, Affinity("other"))
                \/ req.op = "migrate" /\ ~CannotMount
                   /\ j = Job({"data", "other"}, DetermineTargetNode, Affinity("data"))
<1>1. CASE InstallMover
  BY <1>1 DEF InstallMover, Installed
<1>2. CASE TryMount /\ ~CannotMount
  BY <1>2 DEF TryMount, Installed
<1>3. CASE RunRemote
  BY <1>3 DEF RunRemote, Installed
<1> QED BY <1>1, <1>2, <1>3

\* A node that would do is not shut out by a claim's nodes.
LEMMA WouldDo ==
    ASSUME IInv, NEW c \in Claims, NEW n \in alive, CanMount(n, c)
    PROVE  Within(n, info[c].pinned)
BY DEF IInv, Kept, Within

\* A node a claim's nodes admit will do, given an answer and its users noticed.
LEMMA WillDo ==
    ASSUME IInv, NEW c \in {"data", "other"}, NEW n \in alive, Within(n, info[c].pinned),
           Answered(c), Seen(c)
    PROVE  CanMount(n, c)
<1>0. c \in Claims /\ truth[c].answered
  BY DEF Claims, Answered
<1>1. Kept!(c, n)
  BY <1>0 DEF IInv, Kept
<1>2. Read!(c)
  BY <1>0 DEF IInv, Read
<1>3. n \in truth[c].reach
  BY <1>0, <1>1 DEF Within
<1>4. info[c].mounted = None => truth[c].holders = {}
  BY DEF Seen
<1>5. OneNode(c) => truth[c].holders \subseteq {n}
  BY <1>0, <1>1, <1>2, <1>4 DEF Within
<1>6. "RWOP" \in claim[c].modes => truth[c].holders = {}
  BY <1>2, <1>4
<1> QED BY <1>3, <1>5, <1>6 DEF CanMount

\* Which nodes the affinities of the pods admit.
LEMMA WhatIsAdmitted ==
    ASSUME IInv, NEW n \in alive, NEW node, NEW mounts
    PROVE  /\ \A c \in Claims : Admits(Job(mounts, node, Affinity(c)), n) <=> Within(n, info[c].pinned)
           /\ Within(n, info["data"].pinned) /\ Within(n, info["other"].pinned) =>
                  Admits(Job(mounts, node, ArchiveAffinity), n)
           /\ Admits(Job(mounts, node, ArchiveAffinity), n) =>
                  Within(n, info["data"].pinned) /\ Within(n, info["other"].pinned)
<1>1. ASSUME NEW c \in Claims
      PROVE  Admits(Job(mounts, node, Affinity(c)), n) <=> Within(n, info[c].pinned)
  BY DEF Admits, Job, Affinity, RequireNodes, PreferNode, NoAffinity, Within
<1>2. n \in Nodes /\ info["data"].pinned \in Limits /\ info["other"].pinned \in Limits
  BY DEF IInv, TypeOK, Claims
<1>3. /\ PlacementNodes = NoLimit <=> info["data"].pinned = NoLimit /\ info["other"].pinned = NoLimit
      /\ Within(n, PlacementNodes) <=>
             Within(n, info["data"].pinned) /\ Within(n, info["other"].pinned)
  BY <1>2, IntersectAllows DEF PlacementNodes
<1>4. CASE PlacementNodes # NoLimit
  BY <1>1, <1>3, <1>4 DEF ArchiveAffinity, Admits, Job, RequireNodes, Within
<1>5. CASE PlacementNodes = NoLimit
  <2>1. ArchiveAffinity.kind # "require"
    BY <1>3, <1>5 DEF ArchiveAffinity, Affinity, PreferNode, NoAffinity
  <2> QED BY <1>1, <1>3, <1>5, <2>1 DEF Admits, Job, Within
<1> QED BY <1>1, <1>4, <1>5

\* No refusal and no required affinity shuts out a node that would do, whatever
\* the account may read, whichever pods go unnoticed and however the cluster moves
\* (resolveTopology, checkSchedulable, inheritTopology, archiveAffinity).
THEOREM NothingWronglyExcluded == Spec => []NoNodeWronglyExcluded
<1>1. Init => NoNodeWronglyExcluded
  BY DEF Init, NoNodeWronglyExcluded
<1>2. IInv /\ IInv' /\ NoNodeWronglyExcluded /\ [Next]_vars => NoNodeWronglyExcluded'
  <2> SUFFICES ASSUME IInv, NoNodeWronglyExcluded, [Next]_vars PROVE NoNodeWronglyExcluded'
    OBVIOUS
  <2>1. CASE UNCHANGED vars
    BY <2>1 DEF NoNodeWronglyExcluded, CanMount, OneNode, vars
  <2>2. CASE jobs' = {} /\ outcome' \in Outcomes \ {"gone", "apart"}
    BY <2>2 DEF NoNodeWronglyExcluded
  <2>3. CASE ResolveTopology /\ Refuse("gone")
    <3>1. jobs' = {} /\ outcome' = "gone" /\ UNCHANGED <<claim, alive, at, truth>>
          /\ step = "resolve" /\ step' = "done"
      BY <2>3 DEF Refuse, ResolveTopology, IInv, Order
    <3>2. \E allowed \in AllowedNodesFor(at) : allowed = {}
      BY <2>3, <3>1 DEF ResolveTopology
    <3>3. at \in Claims /\ {} # NoLimit
      BY NodesAssumption DEF IInv, TypeOK
    <3>4. info[at].bound /\ claim[at].limit # NoLimit /\ {} = claim[at].limit \cap alive
      BY <3>2, <3>3, AllowedTyped DEF IInv
    <3>5. truth[at].reach = claim[at].limit
      BY <3>3, <3>4 DEF IInv, Read, Reach
    <3> QED BY <3>1, <3>4, <3>5 DEF NoNodeWronglyExcluded
  <2>4. CASE CheckSchedulable /\ Refuse("apart")
    <3>1. jobs' = {} /\ outcome' = "apart" /\ UNCHANGED <<claim, alive, at, truth>>
          /\ step = "check" /\ step' = "done"
      BY <2>4 DEF Refuse, CheckSchedulable, IInv, Order
    <3>2. PlacementNodes = {} /\ {} # NoLimit
      BY <2>4, <3>1, NodesAssumption DEF CheckSchedulable, GoTo
    <3>3. ASSUME NEW n \in alive, CanMount(n, "data"), CanMount(n, "other")
          PROVE  FALSE
      <4>1. Within(n, info["data"].pinned) /\ Within(n, info["other"].pinned)
        BY <3>3, WouldDo DEF Claims
      <4>2. n \in Nodes /\ info["data"].pinned \in Limits /\ info["other"].pinned \in Limits
        BY DEF IInv, TypeOK, Claims
      <4>3. Within(n, PlacementNodes)
        BY <4>1, <4>2, IntersectAllows DEF PlacementNodes
      <4> QED BY <3>2, <4>3 DEF Within
    <3>4. \A n, c : CanMount(n, c)' = CanMount(n, c)
      BY <3>1 DEF CanMount, OneNode
    <3> QED BY <3>1, <3>3, <3>4 DEF NoNodeWronglyExcluded
  <2>5. CASE InstallMover \/ (TryMount /\ ~CannotMount) \/ RunRemote
    <3>1. UNCHANGED <<req, claim, alive, info, truth>> /\ outcome' = "installed"
      BY <2>5, WhatIsInstalled
    <3>2. \A n, c : CanMount(n, c)' = CanMount(n, c)
      BY <3>1 DEF CanMount, OneNode
    <3> SUFFICES ASSUME NEW j \in jobs', NEW n \in alive, \A c \in j.mounts : CanMount(n, c)
                 PROVE  Admits(j, n)
      BY <3>1, <3>2 DEF NoNodeWronglyExcluded, Admits
    <3>3. \A c \in Claims \cap j.mounts : Within(n, info[c].pinned)
      BY WouldDo
    <3>4. CASE j = Job({"data", "other"}, None, ArchiveAffinity)
      <4>1. "data" \in Claims \cap j.mounts /\ "other" \in Claims \cap j.mounts
        BY <3>4 DEF Job, Claims
      <4> QED BY <3>3, <3>4, <4>1, WhatIsAdmitted
    <3>5. ASSUME NEW c \in {"data", "other"}, NEW m, NEW v, c \in m, j = Job(m, v, Affinity(c))
          PROVE  Admits(j, n)
      <4>1. c \in Claims \cap j.mounts
        BY <3>5 DEF Job, Claims
      <4> QED BY <3>3, <3>5, <4>1, WhatIsAdmitted
    <3> QED BY <2>5, <3>4, <3>5, WhatIsInstalled
  <2> QED BY <2>1, <2>2, <2>3, <2>4, <2>5, HowItEnds DEF Outcomes
<1> QED BY <1>1, <1>2, Invariance, PTL DEF Spec

\* The pod of the mount strategy is put where each claim that one node attaches is
\* attached already (cannotDoReason with determineTargetNode).
THEOREM MountNodeCorrect == Spec => []MountNodeHoldsBoth
<1>1. Init => MountNodeHoldsBoth
  BY DEF Init, MountNodeHoldsBoth
<1>2. IInv /\ IInv' /\ MountNodeHoldsBoth /\ [Next]_vars => MountNodeHoldsBoth'
  <2> SUFFICES ASSUME IInv, MountNodeHoldsBoth, [Next]_vars PROVE MountNodeHoldsBoth'
    OBVIOUS
  <2>1. CASE UNCHANGED vars
    BY <2>1 DEF MountNodeHoldsBoth, Seen, OneNode, vars
  <2>2. CASE jobs' = {}
    BY <2>2 DEF MountNodeHoldsBoth
  <2>3. CASE InstallMover \/ (TryMount /\ ~CannotMount) \/ RunRemote
    <3>1. UNCHANGED <<req, claim, alive, info, truth>>
      BY <2>3, WhatIsInstalled
    <3>2. \A c : Seen(c)' = Seen(c) /\ OneNode(c)' = OneNode(c)
      BY <3>1 DEF Seen, OneNode
    <3> SUFFICES ASSUME NEW j \in jobs', req.op = "migrate", j.mounts = {"data", "other"},
                        NEW c \in {"data", "other"}, OneNode(c), Seen(c)
                 PROVE  truth[c].holders \subseteq {j.node}
      BY <3>1, <3>2 DEF MountNodeHoldsBoth
    <3>3. ~CannotMount /\ j = Job({"data", "other"}, DetermineTargetNode, Affinity("data"))
      <4>1. {"data", "other"} # {"data"} /\ {"data", "other"} # {"other"}
        OBVIOUS
      <4>2. j # Job({"data"}, None, Affinity("data")) /\ j # Job({"other"}, None, Affinity("other"))
        BY <4>1 DEF Job
      <4> QED BY <2>3, <4>2, WhatIsInstalled
    <3>4. j.node = DetermineTargetNode
      BY <3>3 DEF Job
    <3>5. /\ info[c].mounted # None => info[c].mounted \in truth[c].holders
          /\ \A m, n \in truth[c].holders : m = n
      BY DEF IInv, Read, Claims
    <3>6. info[c].mounted # None => DetermineTargetNode = info[c].mounted
      <4>1. CASE c = "data"
        BY <4>1 DEF DetermineTargetNode
      <4>2. CASE c = "other"
        <5>1. "RWX" \notin claim["other"].modes
          BY <4>2 DEF OneNode
        <5> QED BY <3>3, <4>2, <5>1 DEF DetermineTargetNode, CannotMount
      <4> QED BY <4>1, <4>2
    <3> QED BY <3>4, <3>5, <3>6 DEF Seen
  <2>4. CASE (ResolveTopology /\ Refuse("gone")) \/ (CheckSchedulable /\ Refuse("apart"))
    <3>1. jobs' = {}
      BY <2>4 DEF ResolveTopology, CheckSchedulable, Refuse, IInv, Order
    <3> QED BY <2>2, <3>1
  <2> QED BY <2>1, <2>2, <2>3, <2>4, HowItEnds
<1> QED BY <1>1, <1>2, Invariance, PTL DEF Spec

\* A pod that is not the mount strategy's is admitted only on nodes where every
\* claim it mounts can be mounted, given that the topology could be read and that
\* the claims' users were noticed.
THEOREM PlacedWhereItMounts == Spec => []PlacementSound
<1>1. Init => PlacementSound
  BY DEF Init, PlacementSound
<1>2. IInv /\ IInv' /\ PlacementSound /\ [Next]_vars => PlacementSound'
  <2> SUFFICES ASSUME IInv, PlacementSound, [Next]_vars PROVE PlacementSound'
    OBVIOUS
  <2>1. CASE UNCHANGED vars
    BY <2>1 DEF PlacementSound, CanMount, OneNode, Answered, Seen, Admits, vars
  <2>2. CASE jobs' = {}
    BY <2>2 DEF PlacementSound
  <2>3. CASE InstallMover \/ (TryMount /\ ~CannotMount) \/ RunRemote
    <3>1. UNCHANGED <<req, claim, alive, info, truth>>
      BY <2>3, WhatIsInstalled
    <3>2. \A n, c : /\ CanMount(n, c)' = CanMount(n, c) /\ Seen(c)' = Seen(c)
                    /\ Answered(c)' = Answered(c)
      BY <3>1 DEF CanMount, OneNode, Seen, Answered
    <3> SUFFICES ASSUME NEW j \in jobs', NEW n \in alive, Admits(j, n),
                        req.op = "backup" \/ Cardinality(j.mounts) = 1,
                        \A c \in j.mounts : Answered(c) /\ Seen(c)
                 PROVE  \A c \in j.mounts : CanMount(n, c)
      BY <3>1, <3>2 DEF PlacementSound, Admits
    <3>3. \A c \in {"data", "other"} :
              c \in j.mounts /\ Within(n, info[c].pinned) => CanMount(n, c)
      BY WillDo
    <3>4. CASE j = Job({"data", "other"}, None, ArchiveAffinity)
      <4>1. j.mounts = {"data", "other"}
        BY <3>4 DEF Job
      <4> QED BY <3>3, <3>4, <4>1, WhatIsAdmitted
    <3>5. ASSUME NEW c \in {"data", "other"}, j = Job({c}, None, Affinity(c))
          PROVE  \A d \in j.mounts : CanMount(n, d)
      <4>1. j.mounts = {c} /\ c \in Claims
        BY <3>5 DEF Job, Claims
      <4> QED BY <3>3, <3>5, <4>1, WhatIsAdmitted
    <3>6. req.op = "migrate" => j # Job({"data", "other"}, DetermineTargetNode, Affinity("data"))
      <4> SUFFICES ASSUME req.op = "migrate", j.mounts = {"data", "other"} PROVE FALSE
        BY DEF Job
      <4>1. Cardinality({"data", "other"}) = 1
        OBVIOUS
      <4>2. IsFiniteSet({"data"}) /\ Cardinality({"data"}) = 1
        BY FS_Singleton
      <4>3. {"data"} \cup {"other"} = {"data", "other"} /\ "other" \notin {"data"}
        OBVIOUS
      <4>4. Cardinality({"data"} \cup {"other"}) = 2
        BY <4>2, <4>3, FS_AddElement
      <4> QED BY <4>1, <4>3, <4>4
    <3> QED BY <2>3, <3>4, <3>5, <3>6, WhatIsInstalled
  <2>4. CASE (ResolveTopology /\ Refuse("gone")) \/ (CheckSchedulable /\ Refuse("apart"))
    <3>1. jobs' = {}
      BY <2>4 DEF ResolveTopology, CheckSchedulable, Refuse, IInv, Order
    <3> QED BY <2>2, <3>1
  <2> QED BY <2>1, <2>2, <2>3, <2>4, HowItEnds
<1> QED BY <1>1, <1>2, Invariance, PTL DEF Spec

=============================================================================
