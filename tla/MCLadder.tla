------------------------------ MODULE MCLadder ------------------------------
(* The ladder on small instances: two runs under one id, the placements of   *)
(* the two claims, and requests that between them use every strategy, both   *)
(* directions, every flag, and a ladder that repeats a strategy.             *)
EXTENDS Ladder

Ask(ladder, flags) ==
    [strategies |-> ladder, detach |-> "detach" \in flags, push |-> "push" \in flags,
     noCleanup |-> "noCleanup" \in flags,
     noCleanupOnFailure |-> "noCleanupOnFailure" \in flags]

MCRequests ==
    {Ask(<<"clusterip", "clusterip", "mount">>, {}),
     Ask(<<"local">>, {}),
     Ask(<<"nodeport">>, {"push", "noCleanupOnFailure"}),
     Ask(<<"loadbalancer">>, {"detach"}),
     Ask(<<"mount">>, {"noCleanup"})}

MCPlaces ==
    {[sameCluster |-> TRUE, sameNamespace |-> TRUE, mountable |-> TRUE],
     [sameCluster |-> TRUE, sameNamespace |-> FALSE, mountable |-> FALSE],
     [sameCluster |-> FALSE, sameNamespace |-> FALSE, mountable |-> FALSE]}

=============================================================================
