----------------------------- MODULE MCCleanup ------------------------------
(* Two cleanups against two releases: a snapshot backup, and a clusterip      *)
(* migration that pushes into another namespace, so that its job is not where *)
(* its release is, and whose id extends that of the backup.                   *)
EXTENDS Cleanup, TLC

\* The cleanups are interchangeable.
Symmetry == Permutations(Cleaners)

Backup == [id |-> <<"a">>, suffix |-> <<"backup">>, ns |-> "n1", jobNs |-> "n1", snap |-> TRUE]

Push == [id |-> <<"a", "b">>, suffix |-> <<"clusterip">>, ns |-> "n2", jobNs |-> "n1",
         snap |-> FALSE]

MCReleases == {Backup, Push}

MCCommands ==
    {[id |-> <<"a">>, all |-> FALSE, ns |-> "any", force |-> FALSE],
     [id |-> <<"a">>, all |-> FALSE, ns |-> "n1", force |-> TRUE],
     [id |-> <<>>, all |-> TRUE, ns |-> "any", force |-> FALSE]}

=============================================================================
