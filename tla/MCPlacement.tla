----------------------------- MODULE MCPlacement -----------------------------
(* The placement of the pods for TLC: two nodes and lists of up to two pods, *)
(* one of which may be unscheduled.                                          *)
EXTENDS Placement, TLC

Running(n) == [node |-> n, finished |-> FALSE]
Pending == [node |-> None, finished |-> FALSE]

MCPodLists ==
    {<<>>, <<Pending>>}
    \cup {<<Running(n)>> : n \in Nodes}
    \cup {<<Pending, Running(n)>> : n \in Nodes}

MCAccessModes == {{"RWO"}, {"RWOP"}, {"ROX"}, {"RWX"}}

Symmetry == Permutations(Nodes)

=============================================================================
