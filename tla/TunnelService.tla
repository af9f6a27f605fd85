---------------------------- MODULE TunnelService ----------------------------
(***************************************************************************)
(* What a NAT gateway promises its client pods: the abstract specification *)
(* of the controller in internal/controller/pod_watcher.go, which module   *)
(* PodWatcher has in detail and implements.                                *)
(*                                                                         *)
(* A tunnel is here or not here: devices, routes, the two maps and the     *)
(* loops over addresses are gone.  What is left is who holds a tunnel      *)
(* (owners), which addresses have a working one (served), and for which    *)
(* keys the controller still owes a reconciliation (due).                  *)
(***************************************************************************)
EXTENDS Sequences, Functions

CONSTANTS
    Pods,           \* keys of client pods
    Addr,           \* addresses of client pods
    Serveable       \* the addresses of a family the gateway has

VARIABLES
    pod,            \* the object of each key, as the gateway sees it
    due,            \* keys whose reconciliation is running or to come
    owners,         \* address -> the pods its tunnel is kept for
    served          \* addresses with a working tunnel

vars == <<pod, due, owners, served>>

\* "running": exists, is not terminated and has no deletion timestamp.
Exists(k) == pod[k].phase \notin {"absent", "gone"}

Client(k) == pod[k].phase = "running" /\ pod[k].handled

Over(k) == ~Exists(k) \/ pod[k].phase \in {"terminated", "deleting"}

Needs(k) == Range(pod[k].ips) \cap Serveable

Init ==
    /\ pod = [k \in Pods |-> [phase |-> "absent", ips |-> <<>>, handled |-> FALSE]]
    /\ due = {}
    /\ owners = [a \in Addr |-> {}]
    /\ served = {}

-----------------------------------------------------------------------------
\* The object of k changes in any way, and the gateway is told.
PodEvent(k) ==
    /\ pod' = [pod EXCEPT ![k] = pod'[k]] /\ Range(pod'[k].ips) \subseteq Addr
    /\ due' = due \cup {k}
    /\ UNCHANGED <<owners, served>>

\* The tunnel to a is completed, for a pod that shows it or did so when its
\* reconciliation began.
SetUp(k, a) ==
    /\ k \in due /\ a \in Serveable
    /\ served' = served \cup {a}
    /\ UNCHANGED <<pod, due, owners>>

\* k becomes an owner of the tunnels of s, all of which are there.
Own(k, s) ==
    /\ s \cap Serveable \subseteq served
    /\ owners' = [a \in Addr |-> IF a \in s THEN owners[a] \cup {k} ELSE owners[a]]
    /\ UNCHANGED <<pod, served>>

\* Everything k asks for is there: its reconciliation is done.
Serve(k) ==
    /\ k \in due /\ Client(k)
    /\ Own(k, Range(pod[k].ips))
    /\ due' = due \ {k}

\* The object has changed since: the reconciliation is done and another due.
ServeOutdated(k) ==
    /\ k \in due
    /\ \E s \in SUBSET Addr : Own(k, s)
    /\ UNCHANGED due

\* k, which does not run any more, gives an address up, and the last owner
\* takes the tunnel with it.
Release(k, a) ==
    /\ k \in due /\ Over(k) /\ k \in owners[a]
    /\ owners' = [owners EXCEPT ![a] = @ \ {k}]
    /\ served' = IF owners[a] = {k} THEN served \ {a} ELSE served
    /\ UNCHANGED <<pod, due>>

\* k is over and owns nothing any more.
Forget(k) ==
    /\ k \in due /\ Over(k)
    /\ \A a \in Addr : k \notin owners[a]
    /\ due' = due \ {k}
    /\ UNCHANGED <<pod, owners, served>>

\* k is not a client of this gateway.  What it owns it keeps.
Ignore(k) ==
    /\ k \in due /\ Exists(k) /\ ~pod[k].handled
    /\ due' = due \ {k}
    /\ UNCHANGED <<pod, owners, served>>

\* The process starts again and has forgotten everything; the tunnels are
\* those of its network namespace, which is a new one if the pod of the
\* gateway was replaced.
Restart ==
    /\ due' = {k \in Pods : Exists(k)}
    /\ owners' = [a \in Addr |-> {}]
    /\ served' \in {served, {}}
    /\ UNCHANGED pod

Next ==
    \/ \E k \in Pods :
          \/ PodEvent(k) \/ Serve(k) \/ ServeOutdated(k) \/ Forget(k) \/ Ignore(k)
          \/ \E a \in Addr : SetUp(k, a) \/ Release(k, a)
    \/ Restart

Spec == Init /\ [][Next]_vars
-----------------------------------------------------------------------------
\* The promise to a client: a running client pod the gateway owes nothing has
\* a working tunnel for every address, and owns it, whatever the other pods
\* that show or showed one of its addresses do.
Promise ==
    \A k \in Pods : Client(k) /\ k \notin due =>
        /\ Needs(k) \subseteq served
        /\ \A a \in Range(pod[k].ips) : k \in owners[a]

\* A tunnel stays while it has an owner; and an owner the gateway owes nothing
\* exists, and is running unless it is not a client any more: the gateway keeps
\* no tunnel for the sake of a client that has ended.
OwnersLive ==
    /\ \A a \in Addr \cap Serveable : owners[a] # {} => a \in served
    /\ \A k \in Pods, a \in Addr : k \in owners[a] /\ k \notin due =>
          Exists(k) /\ (pod[k].handled => Client(k))
=============================================================================
