------------------------- MODULE PodWatcherHistory -------------------------
(***************************************************************************)
(* PodWatcher with a history: the tunnel devices that an interruption left *)
(* without an owner.  handlePodRunning records a pod only after its last   *)
(* address, and the process that dies forgets every record, so an error or *)
(* a crash leaves devices that neither map knows of.  The history          *)
(* restricts nothing.                                                      *)
(***************************************************************************)
EXTENDS PodWatcherRefinement

VARIABLE orphans    \* addresses whose device an interruption left unowned

hvars == <<vars, orphans>>

\* Addresses with a device that podIPToPod has no pod for.
Unowned == {a \in Addr : remote[FouName[a]] = a /\ podIPToPod[a] = {}}

HInit == Init /\ orphans = {}

\* An orphan is one until it is recorded for a pod or deleted.
HNext ==
    \/ Operate /\ orphans' = orphans \cap Unowned'
    \/ Interrupt /\ orphans' = Unowned'

HSpec == HInit /\ [][HNext]_hvars

HFairSpec == HSpec /\ Fairness
-----------------------------------------------------------------------------
\* When no reconciliation is running or due, a tunnel device belongs to a pod
\* that exists, or was left behind when handlePodRunning failed or the process
\* died, and no pod has taken its address up since: the gateway removes what it
\* has recorded for a client that ended, although DelPeer failed or other pods
\* show the same address.  (A pod that lost its annotation keeps its tunnel
\* until it is removed.  handlePodRunning, handlePodDeletion,
\* existsOtherLiveTunnels.)
NoLeak ==
    Quiescent => \A n \in LinkName : remote[n] # None /\ remote[n] \notin orphans =>
        \E k \in Pods :
            /\ remote[n] \in Range(pod[k].ips)
            /\ pod[k].phase = "running" \/ (Exists(k) /\ ~pod[k].handled)

\* An address that no pod shows any more loses its tunnel, for good, unless an
\* error or a crash has left it without an owner: although DelPeer of a pod with
\* one address failed before, or the gateway died or was replaced, the retries of
\* Reconcile pick up the work (handlePodDeletion).
EventuallyRemoved ==
    FaultsCease =>
        \A a \in Addr :
            <>[](a \notin orphans /\ \A k \in Pods : Exists(k) => a \notin Range(pod[k].ips))
                => <>[](remote[FouName[a]] # a)
=============================================================================
