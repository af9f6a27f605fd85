----------------------------- MODULE PodWatcher -----------------------------
(***************************************************************************)
(* The controller of a NAT gateway pod                                     *)
(* (internal/controller/pod_watcher.go): it watches the client pods and    *)
(* keeps one FoU tunnel and one route per client address.                  *)
(*                                                                         *)
(* One worker reconciles one key at a time (controller-runtime's default). *)
(* A reconciliation is a sequence of steps, one per netlink call, and      *)
(* each of them may fail, which ends it and puts the key back in the       *)
(* queue.  The process may die between two steps: its two maps are lost    *)
(* and the devices and routes of the pod's network namespace are not.      *)
(*                                                                         *)
(* The variable pod is the informer's cache.  Its objects change in the    *)
(* order the API server changed them, and nothing else of the API server   *)
(* is visible to the watcher, so the lag between the two is left out.      *)
(***************************************************************************)
EXTENDS NatGateway

CONSTANTS
    Pods,           \* keys (namespace/name) of client pods
    IPLists,        \* what status.podIPs may hold once it is filled in
    Faults,         \* kinds of failure that happen, a subset of FaultKinds
    AddressChange   \* TRUE: a key may come to show other addresses, because
                    \* the name is used again (StatefulSet) or because the
                    \* sandbox of the pod is created anew

FaultKinds == {"addPeer", "setup", "addClient", "delPeer", "crash", "replace"}

\* status.podIPs holds each address once.
ASSUME PodWatcherAssumption ==
    /\ IPLists \subseteq Seq(Addr)
    /\ <<>> \notin IPLists
    /\ \A s \in IPLists : IsInjective(s)
    /\ Faults \subseteq FaultKinds
    /\ AddressChange \in BOOLEAN
    /\ None \notin Pods

VARIABLES
    pod,            \* the cached object of each key
    queue,          \* keys in the work queue
    podToPodIPs,    \* PodWatcher.podToPodIPs; a missing key is <<>>
    podIPToPod,     \* PodWatcher.podIPToPod; a missing address is {}
    pc,             \* the step the worker is at
    key,            \* the key it reconciles
    ips,            \* statusPodIPs of handlePodRunning
    i               \* index in the list the current loop ranges over

mapVars == <<podToPodIPs, podIPToPod>>
workerVars == <<pc, key, ips, i>>
vars == <<pod, queue, mapVars, workerVars, fouVars, natVars>>

\* "absent": never created; "gone": created and deleted; "running": exists,
\* not terminated and without a deletion timestamp.
Phase == {"absent", "running", "terminated", "deleting", "gone"}

\* handled is shouldHandle: not in the host network and annotated.
PodObject == [phase : Phase, ips : Seq(Addr), handled : BOOLEAN]

Step == {"idle", "addPeer", "setup", "addClient", "addRoute", "prune", "release"}

\* Types, and what each step may assume of the worker's local variables.
TypeOK ==
    /\ FouTypeOK
    /\ NatTypeOK
    /\ pod \in [Pods -> PodObject]
    /\ queue \subseteq Pods
    /\ podToPodIPs \in [Pods -> Seq(Addr)]
    /\ podIPToPod \in [Addr -> SUBSET Pods]
    /\ pc \in Step
    /\ IF pc = "idle" THEN key = None ELSE key \in Pods
    /\ ips \in Seq(Addr)
    /\ i \in Nat \ {0}
    /\ pc = "addPeer" => i <= Len(ips) + 1
    /\ pc \in {"setup", "addClient", "addRoute"} => i <= Len(ips)
    /\ pc \in {"prune", "release"} => i <= Len(podToPodIPs[key]) + 1

Init ==
    /\ FouInit
    /\ NatInit
    /\ pod = [k \in Pods |-> [phase |-> "absent", ips |-> <<>>, handled |-> FALSE]]
    /\ queue = {}
    /\ podToPodIPs = [k \in Pods |-> <<>>]
    /\ podIPToPod = [a \in Addr |-> {}]
    /\ pc = "idle" /\ key = None /\ ips = <<>> /\ i = 1

-----------------------------------------------------------------------------
(***************************************************************************)
(* The cluster: changes of a pod object.  Each is an event that queues the *)
(* key.                                                                    *)
(***************************************************************************)
Exists(k) == pod[k].phase \notin {"absent", "gone"}

PodEvent(k, object) ==
    /\ pod' = [pod EXCEPT ![k] = object]
    /\ queue' = queue \cup {k}
    /\ UNCHANGED <<mapVars, workerVars, fouVars, natVars>>

CreatePod(k) ==
    /\ pod[k].phase \in IF AddressChange THEN {"absent", "gone"} ELSE {"absent"}
    /\ \E h \in BOOLEAN :
          PodEvent(k, [phase |-> "running", ips |-> <<>>, handled |-> h])

\* An address is free once no other running pod shows it: a terminated or
\* deleted pod's sandbox has given it back, while its object still lists it.
AssignIPs(k) ==
    /\ pod[k].phase = "running"
    /\ AddressChange \/ pod[k].ips = <<>>
    /\ \E s \in IPLists \ {pod[k].ips} :
          /\ \A q \in Pods \ {k} :
                pod[q].phase = "running" => Range(pod[q].ips) \cap Range(s) = {}
          /\ PodEvent(k, [pod[k] EXCEPT !.ips = s])

TerminatePod(k) ==
    /\ pod[k].phase = "running"
    /\ PodEvent(k, [pod[k] EXCEPT !.phase = "terminated"])

DeletePod(k) ==
    /\ pod[k].phase \in {"running", "terminated"}
    /\ PodEvent(k, [pod[k] EXCEPT !.phase = "deleting"])

RemovePod(k) ==
    /\ Exists(k)
    /\ PodEvent(k, [phase |-> "gone", ips |-> <<>>, handled |-> FALSE])

AnnotatePod(k) ==
    /\ Exists(k)
    /\ PodEvent(k, [pod[k] EXCEPT !.handled = ~@])

Cluster(k) ==
    CreatePod(k) \/ AssignIPs(k) \/ TerminatePod(k) \/ DeletePod(k)
        \/ RemovePod(k) \/ AnnotatePod(k)

-----------------------------------------------------------------------------
(***************************************************************************)
(* The worker.                                                             *)
(***************************************************************************)
Goto(step, n) ==
    /\ pc' = step
    /\ i' = n
    /\ UNCHANGED <<key, ips>>

Return == pc' = "idle" /\ key' = None /\ ips' = <<>> /\ i' = 1

Start(k, step, list) ==
    /\ pc = "idle" /\ k \in queue
    /\ queue' = queue \ {k}
    /\ pc' = step /\ key' = k /\ ips' = list /\ i' = 1
    /\ UNCHANGED <<pod, mapVars, fouVars, natVars>>

\* Reconcile: the object is not handled by this gateway.  Nothing is undone.
ReconcileIgnored(k) ==
    /\ pc = "idle" /\ k \in queue
    /\ Exists(k) /\ ~pod[k].handled
    /\ queue' = queue \ {k}
    /\ UNCHANGED <<pod, mapVars, workerVars, fouVars, natVars>>

\* Reconcile: not found, or handled and terminated or being deleted.
ReconcileDeleted(k) ==
    /\ \/ ~Exists(k)
       \/ pod[k].handled /\ pod[k].phase \in {"terminated", "deleting"}
    /\ Start(k, "release", <<>>)

ReconcileRunning(k) ==
    /\ pod[k].phase = "running" /\ pod[k].handled
    /\ Start(k, "addPeer", pod[k].ips)

(***************************************************************************)
(* handlePodRunning, first loop: AddPeer and AddClient for each new        *)
(* address of the pod.                                                     *)
(***************************************************************************)
existing == podToPodIPs[key]

NeedsPeer ==
    /\ pc = "addPeer" /\ i <= Len(ips)
    /\ ips[i] \notin Range(existing)
    /\ Supported(ips[i])

\* The address is known already, or its family has no local address.
SkipAddr ==
    /\ pc = "addPeer" /\ i <= Len(ips) /\ ~NeedsPeer
    /\ Goto("addPeer", i + 1)
    /\ UNCHANGED <<pod, queue, mapVars, fouVars, natVars>>

AddPeerOld ==
    /\ NeedsPeer
    /\ LinkExists(ips[i])
    /\ Goto("addClient", i)
    /\ UNCHANGED <<pod, queue, mapVars, fouVars, natVars>>

AddPeerNew ==
    /\ NeedsPeer
    /\ AddPeerLink(ips[i])
    /\ Goto("setup", i)
    /\ UNCHANGED <<pod, queue, mapVars, natVars>>

AddPeerSetup ==
    /\ pc = "setup"
    /\ SetupFlowBased(ips[i])
    /\ Goto("addClient", i)
    /\ UNCHANGED <<pod, queue, mapVars, natVars>>

AddClientOld ==
    /\ pc = "addClient"
    /\ ClientRouted(ips[i])
    /\ Goto("addPeer", i + 1)
    /\ UNCHANGED <<pod, queue, mapVars, fouVars, natVars>>

AddClientUp ==
    /\ pc = "addClient"
    /\ ~ClientRouted(ips[i])
    /\ LinkSetUp(ips[i])
    /\ Goto("addRoute", i)
    /\ UNCHANGED <<pod, queue, mapVars, natVars>>

AddClientNew ==
    /\ pc = "addRoute"
    /\ AddClientRoute(ips[i])
    /\ Goto("addPeer", i + 1)
    /\ UNCHANGED <<pod, queue, mapVars, fouVars>>

(***************************************************************************)
(* handlePodRunning, second loop: DelPeer for each address the pod no      *)
(* longer shows; then both maps are written.                               *)
(***************************************************************************)
EndAdd ==
    /\ pc = "addPeer" /\ i > Len(ips)
    /\ Goto("prune", 1)
    /\ UNCHANGED <<pod, queue, mapVars, fouVars, natVars>>

Prunes == pc = "prune" /\ i <= Len(existing) /\ existing[i] \notin Range(ips)

\* Mutant of PruneKeep: the loop runs one address too far.
PruneKeepTooFar ==
    /\ pc = "prune" /\ i <= Len(existing) + 1 /\ ~Prunes
    /\ Goto("prune", i + 1)
    /\ UNCHANGED <<pod, queue, mapVars, fouVars, natVars>>

PruneKeep ==
    /\ pc = "prune" /\ i <= Len(existing) /\ ~Prunes
    /\ Goto("prune", i + 1)
    /\ UNCHANGED <<pod, queue, mapVars, fouVars, natVars>>

PruneDel ==
    /\ Prunes
    /\ DelPeer(existing[i]) /\ FlushRoutes(FouName[existing[i]])
    /\ Goto("prune", i + 1)
    /\ UNCHANGED <<pod, queue, mapVars>>

\* Mutant of Record: a pod is not added to an entry that is there already.
RecordFirst ==
    /\ pc = "prune" /\ i > Len(existing)
    /\ podToPodIPs' = [podToPodIPs EXCEPT ![key] = ips]
    /\ podIPToPod' = [a \in Addr |->
          IF a \in Range(ips) /\ podIPToPod[a] = {} THEN {key} ELSE podIPToPod[a]]
    /\ Return
    /\ UNCHANGED <<pod, queue, fouVars, natVars>>

Record ==
    /\ pc = "prune" /\ i > Len(existing)
    /\ podToPodIPs' = [podToPodIPs EXCEPT ![key] = ips]
    /\ podIPToPod' = [a \in Addr |->
          IF a \in Range(ips) THEN podIPToPod[a] \cup {key} ELSE podIPToPod[a]]
    /\ Return
    /\ UNCHANGED <<pod, queue, fouVars, natVars>>

(***************************************************************************)
(* handlePodDeletion: release each recorded address, and delete its tunnel *)
(* unless another pod is recorded for it (existsOtherLiveTunnels).         *)
(***************************************************************************)
Releases == pc = "release" /\ i <= Len(existing) /\ key \in podIPToPod[existing[i]]

\* Mutant of otherLiveTunnels: the other pods of the address are not looked at.
otherLiveTunnelsNever == FALSE

\* Mutant of otherLiveTunnels: the pod itself counts as one of the others.
otherLiveTunnelsSelf == podIPToPod[existing[i]] # {}

otherLiveTunnels == podIPToPod[existing[i]] # {key}

\* Mutant of Release: the pod stays in the entry of the address.
ReleaseKeep ==
    /\ Releases
    /\ IF otherLiveTunnels
         THEN UNCHANGED <<fouVars, natVars>>
         ELSE DelPeer(existing[i]) /\ FlushRoutes(FouName[existing[i]])
    /\ Goto("release", i + 1)
    /\ UNCHANGED <<pod, queue, mapVars>>

Release ==
    /\ Releases
    /\ IF otherLiveTunnels
         THEN UNCHANGED <<fouVars, natVars>>
         ELSE DelPeer(existing[i]) /\ FlushRoutes(FouName[existing[i]])
    /\ podIPToPod' = [podIPToPod EXCEPT ![existing[i]] = @ \ {key}]
    /\ Goto("release", i + 1)
    /\ UNCHANGED <<pod, queue, podToPodIPs>>

\* "podIPToPod doesn't contain my IP" or "doesn't contain my key".
IndexError == pc = "release" /\ i <= Len(existing) /\ key \notin podIPToPod[existing[i]]

ReleaseError ==
    /\ IndexError
    /\ queue' = queue \cup {key}
    /\ Return
    /\ UNCHANGED <<pod, mapVars, fouVars, natVars>>

Forget ==
    /\ pc = "release" /\ i > Len(existing)
    /\ podToPodIPs' = [podToPodIPs EXCEPT ![key] = <<>>]
    /\ Return
    /\ UNCHANGED <<pod, queue, podIPToPod, fouVars, natVars>>

-----------------------------------------------------------------------------
(***************************************************************************)
(* Failures.                                                               *)
(***************************************************************************)
\* The kinds of netlink failure the current step can meet.
Failing ==
    Faults \cap
        CASE pc = "setup" -> {"setup"}
          [] pc \in {"addClient", "addRoute"} -> {"addClient"}
          [] NeedsPeer -> {"addPeer"}
          [] Prunes -> {"delPeer"}
          [] Releases /\ ~otherLiveTunnels -> {"delPeer"}
          [] OTHER -> {}

\* Mutant of Fail: the error is logged and not returned.
FailSwallowed ==
    /\ Failing # {}
    /\ Return
    /\ IF pc = "setup" THEN SetupFlowBasedFailed(ips[i]) ELSE UNCHANGED fouVars
    /\ UNCHANGED <<pod, queue, mapVars, natVars>>

\* A call fails: Reconcile returns the error and the key is queued again.
Fail ==
    /\ Failing # {}
    /\ queue' = queue \cup {key}
    /\ Return
    /\ IF pc = "setup" THEN SetupFlowBasedFailed(ips[i]) ELSE UNCHANGED fouVars
    /\ UNCHANGED <<pod, mapVars, natVars>>

\* The container dies and starts again in the same network namespace, where
\* the dummy devices make both Init return at once; the informer then lists
\* every pod that exists.
Restart ==
    /\ "crash" \in Faults
    /\ podToPodIPs' = [k \in Pods |-> <<>>]
    /\ podIPToPod' = [a \in Addr |-> {}]
    /\ queue' = {k \in Pods : Exists(k)}
    /\ Return
    /\ UNCHANGED <<pod, fouVars, natVars>>

\* The pod of the gateway is replaced: a new process in an empty namespace.
Replace ==
    /\ "replace" \in Faults
    /\ podToPodIPs' = [k \in Pods |-> <<>>]
    /\ podIPToPod' = [a \in Addr |-> {}]
    /\ queue' = {k \in Pods : Exists(k)}
    /\ Return
    /\ remote' = [l \in LinkName |-> None] /\ up' = {} /\ decap' = {}
    /\ route' = [a \in Addr |-> None]
    /\ UNCHANGED pod

-----------------------------------------------------------------------------
Reconcile(k) == ReconcileIgnored(k) \/ ReconcileDeleted(k) \/ ReconcileRunning(k)

HandlePodRunning ==
    SkipAddr \/ AddPeerOld \/ AddPeerNew \/ AddPeerSetup \/ AddClientOld
        \/ AddClientUp \/ AddClientNew \/ EndAdd \/ PruneKeep \/ PruneDel \/ Record

HandlePodDeletion == Release \/ ReleaseError \/ Forget

\* What does not cut a reconciliation short in a namespace that stays.
Operate ==
    \/ \E k \in Pods : Cluster(k) \/ Reconcile(k)
    \/ HandlePodRunning
    \/ HandlePodDeletion
    \/ Replace

Interrupt == Fail \/ Restart

Next == Operate \/ Interrupt

Spec == Init /\ [][Next]_vars
-----------------------------------------------------------------------------
(***************************************************************************)
(* Safety.                                                                 *)
(***************************************************************************)
\* A route of the egress table leads to its own client: whatever failed or
\* crashed between AddPeer and AddClient, and whoever used the address
\* before, the route to an address uses an existing device that is up and
\* whose remote end is that address.
TunnelsMatch == \A a \in Addr : ClientRouted(a) => HasTunnel(a)

Quiescent == pc = "idle" /\ queue = {}

Wants(k, a) ==
    /\ pod[k].phase = "running" /\ pod[k].handled
    /\ a \in Range(pod[k].ips) /\ Supported(a)

\* Level-triggered convergence: when no reconciliation is running or due,
\* every address of every running client pod has its tunnel, whatever errors
\* and restarts happened on the way.
Converged == Quiescent => \A k \in Pods, a \in Addr : Wants(k, a) => HasTunnel(a)

\* Between reconciliations podIPToPod is the inverse of podToPodIPs.
InverseIndex ==
    pc = "idle" => \A k \in Pods, a \in Addr :
        k \in podIPToPod[a] <=> a \in Range(podToPodIPs[k])

\* handlePodDeletion never meets the inconsistency existsOtherLiveTunnels
\* reports as an error: a recorded address is indexed under its pod.
NoIndexError == ~IndexError

-----------------------------------------------------------------------------
(***************************************************************************)
(* Liveness.  The worker keeps running (weak fairness), and the work queue *)
(* is first-in first-out, so a queued key gets its turn although others    *)
(* keep coming back (strong fairness of Reconcile).                        *)
(***************************************************************************)
Fairness ==
    /\ WF_vars(HandlePodRunning \/ HandlePodDeletion)
    /\ \A k \in Pods : SF_vars(Reconcile(k))

\* Errors and crashes are transient: from some point on there are no more.
FaultsCease == <>[][~Fail /\ ~Restart /\ ~Replace]_vars

\* A client pod that stays gets its tunnels, for good, however its set-up
\* failed or was cut short before: the retries of Reconcile pick up the work.
EventuallyServed ==
    FaultsCease =>
        \A k \in Pods, a \in Addr : <>[]Wants(k, a) => <>[]HasTunnel(a)
=============================================================================
