------------------------ MODULE PodWatcherRefinement ------------------------
(***************************************************************************)
(* PodWatcher implements TunnelService.  A tunnel is there when the        *)
(* device, its state and the route are; a key is due while it is queued    *)
(* or being reconciled; the owners of a tunnel are those podIPToPod has.   *)
(***************************************************************************)
EXTENDS PodWatcher

Due == queue \cup (IF pc = "idle" THEN {} ELSE {key})

Tunnels == {a \in Addr : HasTunnel(a)}

Service == INSTANCE TunnelService WITH
    Serveable <- {a \in Addr : Supported(a)},
    due <- Due, owners <- podIPToPod, served <- Tunnels

\* Step by step, with every netlink call on its own, failing or cut short, the
\* controller does nothing the abstract gateway could not do: no step takes a
\* tunnel away that another pod owns, a pod is recorded only once its tunnels
\* are there, and a reconciliation ends only when the current object has what
\* it asks for.
Implements == Service!Spec

\* A running client pod that is neither queued nor being reconciled has the
\* tunnels of all its addresses and is recorded for them, although other keys
\* are being reconciled and other pods of the same address come and go.
Promised == Service!Promise

\* podIPToPod names no pod for an address without a tunnel, and no ended pod,
\* unless it is queued or being reconciled.
Kept == Service!OwnersLive
=============================================================================
