---------------------------- MODULE MCEgressPath ----------------------------
(***************************************************************************)
(* An instance of EgressPath for TLC: the pod is the client of one Egress, *)
(* or of none, or its annotation lists two.  s1 is the ClusterIP of the    *)
(* Service, d4 a destination, r4 a private prefix, and i4 the address of   *)
(* the pod.                                                                *)
(***************************************************************************)
EXTENDS EgressPath, TLC

CONSTANTS s1, d4, r4, i4

OwnName == [a \in Addr |-> a]

Nat1 == <<"team", "nat1">>
Nat2 == <<"team", "nat2">>
Egresses == {Nat1, Nat2}

\* The other name of the list is of no Egress.
OnlyNat1 == {Nat1}

Lists == {<<>>, <<Nat1>>, <<Nat1, Nat2>>}
OneList == {{d4}}

OneIP == <<i4>>

\* No annotation, the one of a client, and a list.
NoOrOneOrList == {<<>>, "team" :> <<"nat1">>, "team" :> <<"nat1", "nat2">>}
=============================================================================
