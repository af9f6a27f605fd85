------------------------------- MODULE MCPonad -------------------------------
(***************************************************************************)
(* Instances of Ponad for TLC.  e1 and e2 are egresses, s1 is an IPv4 and  *)
(* c1 an IPv6 ClusterIP, d4 and d6 are public prefixes, r4 is a private    *)
(* prefix, which an Egress may name as a destination too.                  *)
(***************************************************************************)
EXTENDS Ponad

CONSTANTS e1, e2, s1, c1, d4, d6, r4

\* Every address has a device name of its own.
OwnName == [a \in Addr |-> a]

\* The destinations of an Egress before and after a change.
TwoLists == {{d4, d6}, {d4, r4}}

\* The annotations of the pod: none, one egress or two.
NoOrOneOrTwo == {<<>>, <<e1>>, <<e1, e2>>}
One == {<<e1>>}
Two == {<<e1, e2>>}
=============================================================================
