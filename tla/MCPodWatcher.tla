---------------------------- MODULE MCPodWatcher ----------------------------
(***************************************************************************)
(* Instances of PodWatcher for TLC.  p1, p2, ... are pods, a1 and a2 IPv4  *)
(* addresses, c1 is an IPv6 address.                                       *)
(***************************************************************************)
EXTENDS PodWatcherRefinement, TLC

CONSTANTS a1, a2, c1

\* The keys are interchangeable.
PodSymmetry == Permutations(Pods)

\* Every address has a name of its own.
OwnName == [a \in Addr |-> a]

\* Pods of a single-stack cluster.
SingleStack == {<<a1>>, <<a2>>}

\* Pods of a dual-stack cluster, and one more to take the first address.
DualStack == {<<a1, c1>>, <<a1>>}
=============================================================================
