-------------------------- MODULE PodWatcherProofs --------------------------
(***************************************************************************)
(* Proofs about the pod watcher, for any number of pods and addresses, any *)
(* kinds of failure and (except where a theorem says so) with or without   *)
(* a change of a pod's addresses:                                          *)
(*                                                                         *)
(*   TypeCorrect          the type invariant                               *)
(*   TunnelsMatchAlways   a route leads to its own client                  *)
(*   NoIndexErrorAlways   handlePodDeletion never finds its index broken,  *)
(*                        as long as DelPeer does not fail or a pod has    *)
(*                        one address                                      *)
(*   ConvergedAlways      when no work is left, every address of every     *)
(*                        running client pod has its tunnel                *)
(***************************************************************************)
EXTENDS PodWatcher, TLAPS

USE FouAssumption, PodWatcherAssumption, ZenonT(20)

\* A change of one pod object keeps the types: it touches the informer's
\* cache and the work queue, nothing of the watcher.
LEMMA PodEventType ==
  ASSUME TypeOK, NEW k \in Pods, NEW object \in PodObject, PodEvent(k, object)
  PROVE  TypeOK'
<1> USE DEF PodEvent, mapVars, workerVars, fouVars, natVars
<1>1. pod' \in [Pods -> PodObject] /\ queue' \subseteq Pods
  BY DEF TypeOK
<1> QED
  BY <1>1 DEF TypeOK, FouTypeOK, NatTypeOK

\* Each change the cluster makes writes a well-formed pod object.
LEMMA TypeCluster ==
  ASSUME TypeOK, NEW k \in Pods, Cluster(k)
  PROVE  TypeOK'
<1>0. pod[k] \in PodObject
  BY DEF TypeOK
<1>1. CASE CreatePod(k)
  <2>1. PICK h \in BOOLEAN :
            PodEvent(k, [phase |-> "running", ips |-> <<>>, handled |-> h])
    BY <1>1 DEF CreatePod
  <2>2. [phase |-> "running", ips |-> <<>>, handled |-> h] \in PodObject
    BY SMTT(20) DEF PodObject, Phase
  <2> QED
    BY <2>1, <2>2, PodEventType
<1>2. CASE AssignIPs(k)
  <2>1. PICK s \in IPLists : PodEvent(k, [pod[k] EXCEPT !.ips = s])
    BY <1>2 DEF AssignIPs
  <2>2. [pod[k] EXCEPT !.ips = s] \in PodObject
    BY <1>0 DEF PodObject
  <2> QED
    BY <2>1, <2>2, PodEventType
<1>3. CASE TerminatePod(k)
  <2>1. [pod[k] EXCEPT !.phase = "terminated"] \in PodObject
    BY <1>0 DEF PodObject, Phase
  <2> QED
    BY <1>3, <2>1, PodEventType DEF TerminatePod
<1>4. CASE DeletePod(k)
  <2>1. [pod[k] EXCEPT !.phase = "deleting"] \in PodObject
    BY <1>0 DEF PodObject, Phase
  <2> QED
    BY <1>4, <2>1, PodEventType DEF DeletePod
<1>5. CASE RemovePod(k)
  <2>1. [phase |-> "gone", ips |-> <<>>, handled |-> FALSE] \in PodObject
    BY SMTT(20) DEF PodObject, Phase
  <2> QED
    BY <1>5, <2>1, PodEventType DEF RemovePod
<1>6. CASE AnnotatePod(k)
  <2>1. [pod[k] EXCEPT !.handled = ~@] \in PodObject
    BY <1>0, ZenonT(20) DEF PodObject
  <2> QED
    BY <1>6, <2>1, PodEventType DEF AnnotatePod
<1> QED
  BY <1>1, <1>2, <1>3, <1>4, <1>5, <1>6 DEF Cluster

\* Reconcile starts a handler at the first address of its list.
LEMMA TypeReconcile ==
  ASSUME TypeOK, NEW k \in Pods, Reconcile(k)
  PROVE  TypeOK'
<1> USE DEF TypeOK, FouTypeOK, NatTypeOK, mapVars, workerVars, fouVars, natVars, Step
<1>0. pod[k].ips \in Seq(Addr)
  BY DEF PodObject
<1>1. CASE ReconcileIgnored(k)
  BY <1>1 DEF ReconcileIgnored
<1>2. CASE ReconcileDeleted(k)
  BY <1>2, SMTT(20) DEF ReconcileDeleted, Start
<1>3. CASE ReconcileRunning(k)
  BY <1>0, <1>3, SMTT(20) DEF ReconcileRunning, Start
<1> QED
  BY <1>1, <1>2, <1>3 DEF Reconcile

\* handlePodRunning keeps its index within the list each loop ranges over.
LEMMA TypeHandlePodRunning ==
  ASSUME TypeOK, HandlePodRunning
  PROVE  TypeOK'
<1> USE DEF TypeOK, FouTypeOK, NatTypeOK, mapVars, workerVars, fouVars, natVars,
            Step, Goto, Return, existing, NeedsPeer, Prunes, Family
<1>1. CASE SkipAddr
  BY <1>1, SMTT(20) DEF SkipAddr
<1>2. CASE AddPeerOld
  BY <1>2 DEF AddPeerOld
<1>3. CASE AddPeerNew
  BY <1>3, SMTT(20) DEF AddPeerNew, AddPeerLink
<1>4. CASE AddPeerSetup
  BY <1>4 DEF AddPeerSetup, SetupFlowBased, FamilyOf
<1>5. CASE AddClientOld
  BY <1>5, SMTT(20) DEF AddClientOld
<1>6. CASE AddClientUp
  BY <1>6, SMTT(20) DEF AddClientUp, LinkSetUp
<1>7. CASE AddClientNew
  BY <1>7, SMTT(20) DEF AddClientNew, AddClientRoute
<1>8. CASE EndAdd
  BY <1>8, SMTT(20) DEF EndAdd
<1>9. CASE PruneKeep
  BY <1>9, SMTT(20) DEF PruneKeep
<1>10. CASE PruneDel
  BY <1>10, SMTT(20) DEF PruneDel, DelPeer, FlushRoutes
<1>11. CASE Record
  BY <1>11, SMTT(20) DEF Record
<1> QED
  BY <1>1, <1>2, <1>3, <1>4, <1>5, <1>6, <1>7, <1>8, <1>9, <1>10, <1>11
     DEF HandlePodRunning

\* handlePodDeletion keeps its index within podToPodIPs[key], which only its
\* last step changes.
LEMMA TypeHandlePodDeletion ==
  ASSUME TypeOK, HandlePodDeletion
  PROVE  TypeOK'
<1> USE DEF TypeOK, FouTypeOK, NatTypeOK, mapVars, workerVars, fouVars, natVars,
            Step, Goto, Return, existing
<1>1. CASE Release
  <2>1. key \in Pods /\ podToPodIPs[key] \in Seq(Addr) /\ i \in 1 .. Len(podToPodIPs[key])
    BY <1>1, SMTT(20) DEF Release, Releases
  <2>2. podToPodIPs[key][i] \in Addr
    BY <2>1, SMTT(20)
  <2>3. podIPToPod' \in [Addr -> SUBSET Pods]
    BY <1>1, <2>1, <2>2 DEF Release
  <2>4. FouTypeOK' /\ NatTypeOK'
    <3>1. CASE otherLiveTunnels
      BY <1>1, <3>1 DEF Release
    <3>2. CASE ~otherLiveTunnels
      BY <1>1, <3>2, <2>2 DEF Release, DelPeer, FlushRoutes
    <3> QED
      BY <3>1, <3>2
  <2> QED
    BY <1>1, <2>1, <2>3, <2>4, SMTT(20) DEF Release
<1>2. CASE ReleaseError
  BY <1>2, SMTT(20) DEF ReleaseError, IndexError
<1>3. CASE Forget
  BY <1>3, SMTT(20) DEF Forget
<1> QED
  BY <1>1, <1>2, <1>3 DEF HandlePodDeletion

\* An error, a restart and a replacement leave the worker idle with well-formed
\* maps.
LEMMA TypeFailures ==
  ASSUME TypeOK, Fail \/ Restart \/ Replace
  PROVE  TypeOK'
<1> USE DEF TypeOK, FouTypeOK, NatTypeOK, mapVars, workerVars, fouVars, natVars,
            Step, Return
<1>1. CASE Fail
  <2>1. key \in Pods
    BY <1>1 DEF Fail, Failing, NeedsPeer, Prunes, Releases
  <2>2. FouTypeOK'
    BY <1>1, ZenonT(20) DEF Fail, SetupFlowBasedFailed, FamilyOf, Family
  <2> QED
    BY <1>1, <2>1, <2>2, SMTT(20) DEF Fail
<1>2. CASE Restart
  BY <1>2, SMTT(20) DEF Restart
<1>3. CASE Replace
  BY <1>3, SMTT(20) DEF Replace
<1> QED
  BY <1>1, <1>2, <1>3

\* Every reachable state of the pod watcher is well formed: in each loop of
\* handlePodRunning and handlePodDeletion the index stays within its list.
THEOREM TypeCorrect == Spec => []TypeOK
<1>1. Init => TypeOK
  BY SMTT(20) DEF Init, TypeOK, FouInit, FouTypeOK, NatInit, NatTypeOK, PodObject, Phase, Step
<1>2. TypeOK /\ [Next]_vars => TypeOK'
  <2> SUFFICES ASSUME TypeOK, [Next]_vars
               PROVE  TypeOK'
    OBVIOUS
  <2>1. CASE UNCHANGED vars
    BY <2>1 DEF TypeOK, FouTypeOK, NatTypeOK, vars, mapVars, workerVars, fouVars, natVars
  <2> QED
    BY <2>1, TypeCluster, TypeReconcile, TypeHandlePodRunning, TypeHandlePodDeletion,
       TypeFailures DEF Next, Operate, Interrupt
<1> QED
  BY <1>1, <1>2, PTL DEF Spec

-----------------------------------------------------------------------------
(***************************************************************************)
(* TunnelsMatch is not inductive: AddClient sets up and routes to the      *)
(* device AddPeer returned, so one must know that the device is still      *)
(* there, and that a device with the name of an address has that address   *)
(* as its remote end.                                                      *)
(***************************************************************************)
TunnelInv ==
    /\ \A n \in LinkName : remote[n] # None => FouName[remote[n]] = n
    /\ TunnelsMatch
    /\ pc \in {"setup", "addClient", "addRoute"} => LinkExists(ips[i])

\* Each step of handlePodRunning keeps TunnelInv: AddPeer names the device
\* after its remote end, AddClient adds the route last, and DelPeer takes
\* the routes of the device with it.
LEMMA TunnelRunning ==
  ASSUME DistinctNames, TypeOK, TunnelInv, HandlePodRunning
  PROVE  TunnelInv'
<1> USE DEF TunnelInv, TunnelsMatch, HasTunnel, ClientRouted, LinkExists,
            mapVars, workerVars, fouVars, natVars, Goto
<1>0. /\ remote \in [LinkName -> Addr \cup {None}]
      /\ up \subseteq LinkName
      /\ route \in [Addr -> LinkName \cup {None}]
      /\ pc \in {"addPeer", "setup", "addClient", "addRoute"} /\ i <= Len(ips) => ips[i] \in Addr
  BY SMTT(20) DEF TypeOK, FouTypeOK, NatTypeOK
<1>1. CASE SkipAddr
  BY <1>0, <1>1 DEF SkipAddr
<1>2. CASE AddPeerOld
  BY <1>0, <1>2 DEF AddPeerOld
<1>3. CASE AddPeerNew
  <2>1. ips[i] \in Addr
    BY <1>0, <1>3 DEF AddPeerNew, NeedsPeer
  <2> QED
    BY <1>0, <1>3, <2>1 DEF AddPeerNew, AddPeerLink, DistinctNames
<1>4. CASE AddPeerSetup
  BY <1>0, <1>4 DEF AddPeerSetup, SetupFlowBased
<1>5. CASE AddClientOld
  BY <1>0, <1>5 DEF AddClientOld
<1>6. CASE AddClientUp
  BY <1>0, <1>6 DEF AddClientUp, LinkSetUp
<1>7. CASE AddClientNew
  <2>1. ips[i] \in Addr
    BY <1>0, <1>7 DEF AddClientNew, TypeOK
  <2>2. remote[FouName[ips[i]]] = ips[i]
    BY <1>0, <1>7, <2>1, SMTT(20) DEF AddClientNew, DistinctNames
  <2> QED
    BY <1>0, <1>7, <2>1, <2>2 DEF AddClientNew, AddClientRoute
<1>8. CASE EndAdd
  BY <1>0, <1>8 DEF EndAdd
<1>9. CASE PruneKeep
  BY <1>0, <1>9 DEF PruneKeep
<1>10. CASE PruneDel
  <2>1. existing[i] \in Addr
    BY <1>10, SMTT(20) DEF PruneDel, Prunes, existing, TypeOK
  <2> QED
    BY <1>0, <1>10, <2>1 DEF PruneDel, DelPeer, FlushRoutes
<1>11. CASE Record
  BY <1>0, <1>11 DEF Record, Return
<1> QED
  BY <1>1, <1>2, <1>3, <1>4, <1>5, <1>6, <1>7, <1>8, <1>9, <1>10, <1>11
     DEF HandlePodRunning

\* The other steps keep TunnelInv: they change no device, except for DelPeer
\* in handlePodDeletion and a new namespace, which has none.
LEMMA TunnelOther ==
  ASSUME DistinctNames, TypeOK, TunnelInv,
         \/ \E k \in Pods : Cluster(k) \/ Reconcile(k)
         \/ HandlePodDeletion \/ Fail \/ Restart \/ Replace
  PROVE  TunnelInv'
<1> USE DEF TunnelInv, TunnelsMatch, HasTunnel, ClientRouted, LinkExists,
            mapVars, workerVars, fouVars, natVars, Return
<1>0. /\ remote \in [LinkName -> Addr \cup {None}]
      /\ up \subseteq LinkName
      /\ route \in [Addr -> LinkName \cup {None}]
  BY DEF TypeOK, FouTypeOK, NatTypeOK
<1>1. ASSUME NEW k \in Pods, Cluster(k) PROVE TunnelInv'
  <2>1. PICK object : PodEvent(k, object)
    BY <1>1, Zenon DEF Cluster, CreatePod, AssignIPs, TerminatePod, DeletePod,
       RemovePod, AnnotatePod
  <2> QED
    BY <2>1 DEF PodEvent
<1>2. ASSUME NEW k \in Pods, Reconcile(k) PROVE TunnelInv'
  BY <1>2, SMTT(20) DEF Reconcile, ReconcileIgnored, ReconcileDeleted, ReconcileRunning, Start
<1>3. CASE Release
  <2>1. existing[i] \in Addr
    BY <1>3, SMTT(20) DEF Release, Releases, existing, TypeOK
  <2>2. CASE otherLiveTunnels
    BY <1>3, <2>2 DEF Release, Releases, Goto
  <2>3. CASE ~otherLiveTunnels
    BY <1>0, <1>3, <2>1, <2>3, SMTT(20) DEF Release, Releases, DelPeer, FlushRoutes, Goto
  <2> QED
    BY <2>2, <2>3
<1>4. CASE ReleaseError
  BY <1>4 DEF ReleaseError
<1>5. CASE Forget
  BY <1>5 DEF Forget
<1>6. CASE Fail
  BY <1>6 DEF Fail, SetupFlowBasedFailed
<1>7. CASE Restart
  BY <1>7 DEF Restart
<1>8. CASE Replace
  BY <1>8 DEF Replace
<1> QED
  BY <1>1, <1>2, <1>3, <1>4, <1>5, <1>6, <1>7, <1>8 DEF HandlePodDeletion

\* TunnelInv holds in every reachable state, if no two addresses share an
\* interface name (fouName).
THEOREM TunnelInvariant ==
  ASSUME DistinctNames
  PROVE  Spec => []TunnelInv
<1>1. Init => TunnelInv
  BY DEF Init, FouInit, NatInit, TunnelInv, TunnelsMatch, ClientRouted
<1>2. TypeOK /\ TunnelInv /\ [Next]_vars => TunnelInv'
  <2> SUFFICES ASSUME TypeOK, TunnelInv, [Next]_vars
               PROVE  TunnelInv'
    OBVIOUS
  <2>1. CASE UNCHANGED vars
    BY <2>1 DEF vars, mapVars, workerVars, fouVars, natVars, TunnelInv, TunnelsMatch,
       HasTunnel, ClientRouted, LinkExists
  <2> QED
    BY <2>1, TunnelRunning, TunnelOther DEF Next, Operate, Interrupt
<1> QED
  BY <1>1, <1>2, TypeCorrect, PTL DEF Spec

\* A route of table 118 always leads to its own client, through a device that
\* is up and whose remote end is that client, whatever calls failed and
\* whenever the gateway was restarted between AddPeer and AddClient; this
\* needs that no two addresses share an interface name.
THEOREM TunnelsMatchAlways ==
  ASSUME DistinctNames
  PROVE  Spec => []TunnelsMatch
<1>1. TunnelInv => TunnelsMatch
  BY DEF TunnelInv
<1> QED
  BY <1>1, TunnelInvariant, PTL

-----------------------------------------------------------------------------
(***************************************************************************)
(* NoIndexError is not inductive: handlePodDeletion takes the pod out of   *)
(* podIPToPod address by address and out of podToPodIPs at the end, so the *)
(* addresses before its index are the ones not indexed any more, and they  *)
(* must not come up again (a list holds an address once).                  *)
(***************************************************************************)
\* What status.podIPs holds, before and after it is filled in.
Lists == IPLists \cup {<<>>}

\* The maps and the handler hold nothing but such lists.
ListsInv ==
    /\ \A k \in Pods : pod[k].ips \in Lists /\ podToPodIPs[k] \in Lists
    /\ ips \in Lists

\* A recorded address is indexed until handlePodDeletion has passed it.
IndexInv ==
    \A k \in Pods : \A j \in 1 .. Len(podToPodIPs[k]) :
        \/ k \in podIPToPod[podToPodIPs[k][j]]
        \/ pc = "release" /\ key = k /\ j < i

\* The cluster is single-stack: every pod has one address.
OneAddress == \A s \in IPLists : Len(s) = 1

\* A list repeats no address, and a pod of a single-stack cluster has one.
LEMMA ListsShort ==
  ASSUME NEW s \in Lists
  PROVE  IsInjective(s) /\ (OneAddress => Len(s) <= 1)
<1>1. CASE s = <<>>
  BY <1>1, SMTT(20) DEF IsInjective
<1>2. CASE s \in IPLists
  <2>1. ASSUME OneAddress PROVE Len(s) <= 1
    <3>1. Len(s) = 1
      BY <1>2, <2>1 DEF OneAddress
    <3> QED
      BY <3>1, SMTT(20)
  <2> QED
    BY <1>2, <2>1
<1> QED
  BY <1>1, <1>2 DEF Lists

\* A change of a pod object keeps ListsInv: the pod shows no addresses or one of
\* the lists it may have.
LEMMA ListsCluster ==
  ASSUME TypeOK, ListsInv, NEW k \in Pods, Cluster(k)
  PROVE  ListsInv'
<1> USE DEF ListsInv, mapVars, workerVars
<1>1. PICK object : PodEvent(k, object) /\ object.ips \in Lists
  <2>0. pod[k] \in PodObject
    BY DEF TypeOK
  <2>1. CASE CreatePod(k)
    <3>1. PICK h \in BOOLEAN :
              PodEvent(k, [phase |-> "running", ips |-> <<>>, handled |-> h])
      BY <2>1 DEF CreatePod
    <3>2. [phase |-> "running", ips |-> <<>>, handled |-> h].ips = <<>>
      OBVIOUS
    <3> QED
      BY <3>1, <3>2 DEF Lists
  <2>2. CASE AssignIPs(k)
    <3>1. PICK s \in IPLists : PodEvent(k, [pod[k] EXCEPT !.ips = s])
      BY <2>2 DEF AssignIPs
    <3>2. [pod[k] EXCEPT !.ips = s].ips = s
      BY <2>0 DEF PodObject
    <3> QED
      BY <3>1, <3>2 DEF Lists
  <2>3. CASE TerminatePod(k)
    <3>1. [pod[k] EXCEPT !.phase = "terminated"].ips = pod[k].ips
      BY <2>0 DEF PodObject
    <3> QED
      BY <2>3, <3>1, ZenonT(20) DEF TerminatePod
  <2>4. CASE DeletePod(k)
    <3>1. [pod[k] EXCEPT !.phase = "deleting"].ips = pod[k].ips
      BY <2>0 DEF PodObject
    <3> QED
      BY <2>4, <3>1, ZenonT(20) DEF DeletePod
  <2>5. CASE RemovePod(k)
    <3>1. [phase |-> "gone", ips |-> <<>>, handled |-> FALSE].ips = <<>>
      OBVIOUS
    <3> QED
      BY <2>5, <3>1, ZenonT(20) DEF RemovePod, Lists
  <2>6. CASE AnnotatePod(k)
    <3>1. [pod[k] EXCEPT !.handled = ~@].ips = pod[k].ips
      BY <2>0 DEF PodObject
    <3> QED
      BY <2>6, <3>1, ZenonT(20) DEF AnnotatePod
  <2> QED
    BY <2>1, <2>2, <2>3, <2>4, <2>5, <2>6 DEF Cluster
<1>2. \A q \in Pods : pod'[q].ips \in Lists
  BY <1>1 DEF PodEvent, TypeOK
<1> QED
  BY <1>1, <1>2 DEF PodEvent

\* The worker records the lists it was shown, or none.
LEMMA ListsWorker ==
  ASSUME TypeOK, ListsInv,
         (\E k \in Pods : Reconcile(k)) \/ HandlePodRunning \/ HandlePodDeletion
         \/ Fail \/ Restart \/ Replace
  PROVE  ListsInv'
<1> USE DEF ListsInv, mapVars, workerVars, Goto, Return
<1>0. <<>> \in Lists
  BY DEF Lists
<1>1. ASSUME NEW k \in Pods, Reconcile(k) PROVE ListsInv'
  BY <1>0, <1>1 DEF Reconcile, ReconcileIgnored, ReconcileDeleted, ReconcileRunning, Start
<1>2. CASE HandlePodRunning /\ ~Record
  BY <1>2 DEF HandlePodRunning, SkipAddr, AddPeerOld, AddPeerNew, AddPeerSetup,
     AddClientOld, AddClientUp, AddClientNew, EndAdd, PruneKeep, PruneDel
<1>3. CASE Record
  BY <1>0, <1>3 DEF Record, TypeOK
<1>4. CASE HandlePodDeletion \/ Fail
  BY <1>0, <1>4 DEF HandlePodDeletion, Release, ReleaseError, Forget, Fail, TypeOK
<1>5. CASE Restart \/ Replace
  BY <1>0, <1>5 DEF Restart, Replace
<1> QED
  BY <1>1, <1>2, <1>3, <1>4, <1>5

\* ListsInv holds in every reachable state.
THEOREM ListsInvariant == Spec => []ListsInv
<1>1. Init => ListsInv
  BY SMTT(20) DEF Init, ListsInv, Lists
<1>2. TypeOK /\ ListsInv /\ [Next]_vars => ListsInv'
  <2> SUFFICES ASSUME TypeOK, ListsInv, [Next]_vars
               PROVE  ListsInv'
    OBVIOUS
  <2>1. CASE UNCHANGED vars
    BY <2>1 DEF vars, mapVars, workerVars, ListsInv
  <2> QED
    BY <2>1, ListsCluster, ListsWorker DEF Next, Operate, Interrupt
<1> QED
  BY <1>1, <1>2, TypeCorrect, PTL DEF Spec

\* A change of a pod object keeps IndexInv: it changes neither map.
LEMMA IndexCluster ==
  ASSUME IndexInv, NEW k \in Pods, Cluster(k)
  PROVE  IndexInv'
<1>1. PICK object : PodEvent(k, object)
  BY Zenon DEF Cluster, CreatePod, AssignIPs, TerminatePod, DeletePod, RemovePod, AnnotatePod
<1> QED
  BY <1>1 DEF PodEvent, mapVars, workerVars, IndexInv

\* The steps of the worker keep IndexInv.  A DelPeer that fails for the second
\* address of a pod would not: it leaves handlePodDeletion with one released and
\* the other not.
LEMMA IndexWorker ==
  ASSUME TypeOK, ListsInv, IndexInv, "delPeer" \notin Faults \/ OneAddress,
         (\E k \in Pods : Reconcile(k)) \/ HandlePodRunning \/ HandlePodDeletion
         \/ Fail \/ Restart \/ Replace
  PROVE  IndexInv'
<1> USE DEF IndexInv, mapVars, workerVars, Goto, Return
<1>1. ASSUME NEW k \in Pods, Reconcile(k) PROVE IndexInv'
  BY <1>1 DEF Reconcile, ReconcileIgnored, ReconcileDeleted, ReconcileRunning, Start
<1>2. CASE HandlePodRunning /\ ~Record
  BY <1>2 DEF HandlePodRunning, SkipAddr, AddPeerOld, AddPeerNew, AddPeerSetup,
     AddClientOld, AddClientUp, AddClientNew, EndAdd, PruneKeep, PruneDel, Prunes, NeedsPeer
<1>3. CASE Record
  <2>1. key \in Pods /\ ips \in Seq(Addr) /\ pc = "prune"
    BY <1>3 DEF Record, TypeOK
  <2>2. /\ podToPodIPs' = [podToPodIPs EXCEPT ![key] = ips]
        /\ \A a \in Addr : podIPToPod[a] \subseteq podIPToPod'[a]
        /\ \A a \in Range(ips) : key \in podIPToPod'[a]
    BY <1>3, <2>1, SMTT(20) DEF Record, TypeOK, Range
  <2> SUFFICES ASSUME NEW k \in Pods, NEW j \in 1 .. Len(podToPodIPs'[k])
               PROVE  k \in podIPToPod'[podToPodIPs'[k][j]]
    BY <1>3 DEF Record
  <2>4. CASE k = key
    BY <2>1, <2>2, <2>4, SMTT(20) DEF TypeOK, Range
  <2>5. CASE k # key
    BY <2>1, <2>2, <2>5, SMTT(20) DEF TypeOK
  <2> QED
    BY <2>4, <2>5
<1>4. CASE Release
  <2>1. /\ key \in Pods /\ podToPodIPs[key] \in Seq(Addr)
        /\ i \in 1 .. Len(podToPodIPs[key]) /\ podToPodIPs[key][i] \in Addr
    BY <1>4, SMTT(20) DEF Release, Releases, existing, TypeOK
  <2>2. \A j \in 1 .. Len(podToPodIPs[key]) :
            j # i => podToPodIPs[key][j] # podToPodIPs[key][i]
    BY <2>1, ListsShort, SMTT(20) DEF ListsInv, IsInjective
  <2> SUFFICES ASSUME NEW k \in Pods, NEW j \in 1 .. Len(podToPodIPs[k])
               PROVE  \/ k \in podIPToPod'[podToPodIPs[k][j]]
                      \/ key = k /\ j < i + 1
    BY <1>4 DEF Release, Releases
  <2>3. podIPToPod \in [Addr -> SUBSET Pods] /\ podToPodIPs[k][j] \in Addr
    BY SMTT(20) DEF TypeOK
  <2>4. CASE k = key
    BY <1>4, <2>1, <2>2, <2>3, <2>4, SMTT(20) DEF Release, Releases, existing, TypeOK
  <2>5. CASE k # key
    BY <1>4, <2>1, <2>3, <2>5 DEF Release, Releases, existing
  <2> QED
    BY <2>4, <2>5
<1>5. CASE ReleaseError
  BY <1>5, SMTT(20) DEF ReleaseError, IndexError, existing, TypeOK
<1>6. CASE Forget
  BY <1>6, SMTT(20) DEF Forget, existing, TypeOK
<1>7. CASE Fail
  <2>1. pc # "release" \/ (Releases /\ "delPeer" \in Faults)
    BY <1>7, SMTT(20) DEF Fail, Failing, NeedsPeer, Prunes
  <2>2. ASSUME Releases, OneAddress
        PROVE  key \in Pods /\ \A j \in 1 .. Len(podToPodIPs[key]) : ~(j < i)
    <3>1. /\ key \in Pods /\ podToPodIPs[key] \in Seq(Addr) /\ i \in Nat \ {0}
          /\ i <= Len(podToPodIPs[key])
      BY <2>2, SMTT(20) DEF Releases, existing, TypeOK
    <3>2. Len(podToPodIPs[key]) <= 1
      BY <2>2, <3>1, ListsShort DEF ListsInv
    <3> QED
      BY <3>1, <3>2, SMTT(20)
  <2>3. \A k \in Pods : \A j \in 1 .. Len(podToPodIPs[k]) : k \in podIPToPod[podToPodIPs[k][j]]
    BY <2>1, <2>2
  <2> QED
    BY <1>7, <2>3 DEF Fail
<1>8. CASE Restart
  BY <1>8, SMTT(20) DEF Restart, TypeOK
<1>9. CASE Replace
  BY <1>9, SMTT(20) DEF Replace, TypeOK
<1> QED
  BY <1>1, <1>2, <1>3, <1>4, <1>5, <1>6, <1>7, <1>8, <1>9 DEF HandlePodDeletion

\* IndexInv holds in every reachable state, if DelPeer does not fail or every
\* pod has one address.
THEOREM IndexInvariant ==
  ASSUME "delPeer" \notin Faults \/ OneAddress
  PROVE  Spec => []IndexInv
<1>1. Init => IndexInv
  BY SMTT(20) DEF Init, IndexInv
<1>2. TypeOK /\ ListsInv /\ IndexInv /\ [Next]_vars => IndexInv'
  <2> SUFFICES ASSUME TypeOK, ListsInv, IndexInv, [Next]_vars
               PROVE  IndexInv'
    OBVIOUS
  <2>1. CASE UNCHANGED vars
    BY <2>1 DEF vars, mapVars, workerVars, IndexInv
  <2> QED
    BY <2>1, IndexCluster, IndexWorker DEF Next, Operate, Interrupt
<1> QED
  BY <1>1, <1>2, TypeCorrect, ListsInvariant, PTL DEF Spec

\* If DelPeer does not fail, or in a single-stack cluster, handlePodDeletion never meets an address that
\* podIPToPod does not hold or does not hold for the pod, whatever other
\* calls fail, whenever the gateway restarts, and also when the addresses of
\* a pod change: the error returns of existsOtherLiveTunnels are unreachable.
THEOREM NoIndexErrorAlways ==
  ASSUME "delPeer" \notin Faults \/ OneAddress
  PROVE  Spec => []NoIndexError
<1>1. TypeOK /\ IndexInv => NoIndexError
  <2> SUFFICES ASSUME TypeOK, IndexInv, IndexError
               PROVE  FALSE
    BY DEF NoIndexError
  <2>1. key \in Pods /\ i \in 1 .. Len(podToPodIPs[key]) /\ ~(i < i)
    BY SMTT(20) DEF TypeOK, IndexError, existing
  <2> QED
    BY <2>1 DEF IndexInv, IndexError, existing
<1> QED
  BY <1>1, IndexInvariant, TypeCorrect, PTL

-----------------------------------------------------------------------------
(***************************************************************************)
(* Convergence.  It needs that a pod keeps its addresses (~AddressChange;  *)
(* the run pw_v_change shows what happens otherwise) and that no two       *)
(* addresses share an interface name (DistinctNames).                      *)
(***************************************************************************)
\* The worker is in handlePodRunning.
Handling == pc \in {"addPeer", "setup", "addClient", "addRoute", "prune"}

\* podIPToPod holds the pod under each address recorded for it.
Indexed(k) == \A a \in Range(podToPodIPs[k]) : k \in podIPToPod[a]

\* What is recorded for a key: nothing before the pod exists; then nothing or
\* the addresses of the pod; all of them once its reconciliation is done.
KeyInv(k) ==
    /\ pod[k].phase = "absent" => podToPodIPs[k] = <<>> /\ k \notin queue /\ key # k
    /\ Exists(k) => podToPodIPs[k] \in {<<>>, pod[k].ips}
    /\ pod[k].phase = "running" => Indexed(k)
    /\ pod[k].phase = "running" /\ pod[k].handled /\ k \notin queue /\ key # k
          => podToPodIPs[k] = pod[k].ips

\* What handlePodRunning has achieved so far: the addresses before its index
\* have their tunnels, and its list is still the pod's or the key is queued.
HandlingInv ==
    /\ podToPodIPs[key] \in {<<>>, ips}
    /\ Exists(key) => ips \in {<<>>, pod[key].ips}
    /\ key \notin queue => ips = pod[key].ips
    /\ Indexed(key)
    /\ \A j \in 1 .. Len(ips) :
          (pc = "prune" \/ j < i) /\ Supported(ips[j]) => HasTunnel(ips[j])

\* What the two maps record is there: an address recorded for a pod in both
\* has its tunnel, so that handlePodRunning may skip it as existing and
\* handlePodDeletion may leave it to the other pods of the same address.
Served ==
    \A k \in Pods : \A a \in Range(podToPodIPs[k]) :
        k \in podIPToPod[a] /\ Supported(a) => HasTunnel(a)

(***************************************************************************)
(* The inductive invariant.  Served alone says nothing of the addresses    *)
(* that are not recorded yet, nor why a second pod's recorded address      *)
(* survives handlePodDeletion of the first.                                *)
(***************************************************************************)
ServedInv ==
    /\ Served
    /\ \A k \in Pods : KeyInv(k)
    /\ pc = "release" => pod[key].phase # "running"
    /\ Handling => HandlingInv

\* What the changes of a pod object have in common when addresses do not
\* change: a pod runs only once, and its addresses are set once.
LEMMA ClusterStep ==
  ASSUME TypeOK, ~AddressChange, NEW k \in Pods, Cluster(k)
  PROVE  \E object \in PodObject :
            /\ PodEvent(k, object)
            /\ object.phase # "absent"
            /\ object.phase = "running" => pod[k].phase \in {"absent", "running"}
            /\ pod[k].phase = "absent" => object.ips = <<>>
            /\ object.phase # "gone" /\ pod[k].phase # "absent" =>
                  Exists(k) /\ (object.ips = pod[k].ips \/ pod[k].ips = <<>>)
<1>0. pod[k] \in PodObject
  BY DEF TypeOK
<1> USE DEF Exists
<1>1. CASE CreatePod(k)
  <2>1. PICK h \in BOOLEAN :
            PodEvent(k, [phase |-> "running", ips |-> <<>>, handled |-> h])
    BY <1>1 DEF CreatePod
  <2> DEFINE o == [phase |-> "running", ips |-> <<>>, handled |-> h]
  <2>2. o \in PodObject /\ o.phase = "running" /\ o.ips = <<>> /\ pod[k].phase = "absent"
    BY <1>1, SMTT(20) DEF CreatePod, PodObject, Phase
  <2> HIDE DEF o
  <2> QED
    BY <2>1, <2>2 DEF o
<1>2. CASE AssignIPs(k)
  <2>1. PICK s \in IPLists : PodEvent(k, [pod[k] EXCEPT !.ips = s])
    BY <1>2 DEF AssignIPs
  <2> DEFINE o == [pod[k] EXCEPT !.ips = s]
  <2>2. o \in PodObject /\ o.phase = pod[k].phase
    BY <1>0 DEF PodObject
  <2>3. PodEvent(k, o)
    BY <2>1
  <2>4. pod[k].phase = "running" /\ pod[k].ips = <<>>
    BY <1>2 DEF AssignIPs
  <2> HIDE DEF o
  <2> QED
    BY <2>2, <2>3, <2>4
<1>3. CASE TerminatePod(k)
  <2> DEFINE o == [pod[k] EXCEPT !.phase = "terminated"]
  <2>1. /\ o \in PodObject /\ o.phase = "terminated" /\ o.ips = pod[k].ips
        /\ pod[k].phase = "running" /\ PodEvent(k, o)
    BY <1>0, <1>3, ZenonT(20) DEF TerminatePod, PodObject, Phase
  <2> HIDE DEF o
  <2> QED
    BY <2>1
<1>4. CASE DeletePod(k)
  <2> DEFINE o == [pod[k] EXCEPT !.phase = "deleting"]
  <2>1. /\ o \in PodObject /\ o.phase = "deleting" /\ o.ips = pod[k].ips
        /\ pod[k].phase \in {"running", "terminated"} /\ PodEvent(k, o)
    BY <1>0, <1>4 DEF DeletePod, PodObject, Phase
  <2> HIDE DEF o
  <2> QED
    BY <2>1
<1>5. CASE RemovePod(k)
  <2> DEFINE o == [phase |-> "gone", ips |-> <<>>, handled |-> FALSE]
  <2>1. /\ o \in PodObject /\ o.phase = "gone" /\ o.ips = <<>> /\ PodEvent(k, o)
    BY <1>0, <1>5, SMTT(20) DEF RemovePod, PodObject, Phase
  <2> HIDE DEF o
  <2> QED
    BY <2>1
<1>6. CASE AnnotatePod(k)
  <2> DEFINE o == [pod[k] EXCEPT !.handled = ~@]
  <2>1. /\ o \in PodObject /\ o.phase = pod[k].phase /\ o.ips = pod[k].ips
        /\ Exists(k) /\ PodEvent(k, o)
    BY <1>0, <1>6, ZenonT(20) DEF AnnotatePod, PodObject, Phase
  <2> HIDE DEF o
  <2> QED
    BY <2>1
<1> QED
  BY <1>1, <1>2, <1>3, <1>4, <1>5, <1>6 DEF Cluster

\* A change of a pod object keeps ServedInv: the key is queued by it.
LEMMA ServedCluster ==
  ASSUME TypeOK, ServedInv, ~AddressChange, NEW k \in Pods, Cluster(k)
  PROVE  ServedInv'
<1> USE DEF mapVars, workerVars, fouVars, natVars, Exists, Indexed
<1>1. PICK object \in PodObject :
         /\ PodEvent(k, object)
         /\ object.phase # "absent"
         /\ object.phase = "running" => pod[k].phase \in {"absent", "running"}
         /\ pod[k].phase = "absent" => object.ips = <<>>
         /\ object.phase # "gone" /\ pod[k].phase # "absent" =>
               Exists(k) /\ (object.ips = pod[k].ips \/ pod[k].ips = <<>>)
  BY ClusterStep
<1>2. /\ pod' = [pod EXCEPT ![k] = object] /\ pod'[k] = object
      /\ \A q \in Pods \ {k} : pod'[q] = pod[q]
      /\ queue' = queue \cup {k}
  BY <1>1 DEF PodEvent, TypeOK
<1>3. UNCHANGED <<podToPodIPs, podIPToPod, pc, key, ips, i, remote, up, decap, route>>
  BY <1>1 DEF PodEvent
<1>4. Served'
  BY <1>3 DEF ServedInv, Served, HasTunnel
<1>5. ASSUME NEW q \in Pods PROVE KeyInv(q)'
  <2>0. KeyInv(q)
    BY DEF ServedInv
  <2>1. CASE q = k
    <3>1. Indexed(q)' <=> Indexed(q)
      BY <1>3
    <3>2. pod[k].phase = "absent" => Indexed(q)
      BY <2>0, <2>1, SMTT(20) DEF KeyInv, Range
    <3> HIDE DEF Indexed
    <3> QED
      BY <1>1, <1>2, <1>3, <2>0, <2>1, <3>1, <3>2 DEF KeyInv
  <2>2. CASE q # k
    BY <1>2, <1>3, <2>0, <2>2 DEF KeyInv
  <2> QED
    BY <2>1, <2>2
<1>6. ASSUME pc = "release" PROVE pod'[key].phase # "running"
  <2>1. key \in Pods /\ pod[key].phase # "running" /\ pod[key].phase # "absent"
    BY <1>6 DEF TypeOK, ServedInv, KeyInv
  <2> QED
    BY <1>1, <1>2, <2>1
<1>7. ASSUME Handling PROVE HandlingInv'
  <2>1. key \in Pods /\ HandlingInv /\ pod[key].phase # "absent"
    BY <1>7 DEF Handling, TypeOK, ServedInv, KeyInv
  <2>2. Exists(key)' => ips \in {<<>>, pod'[key].ips}
    BY <1>1, <1>2, <1>3, <2>1 DEF HandlingInv
  <2>3. key \notin queue' => ips = pod'[key].ips
    BY <1>2, <2>1 DEF HandlingInv
  <2> QED
    BY <1>3, <2>1, <2>2, <2>3 DEF HandlingInv, HasTunnel
<1> QED
  BY <1>3, <1>4, <1>5, <1>6, <1>7 DEF ServedInv, Handling

\* Taking a key from the queue keeps ServedInv: its handler takes it over, or
\* the pod is not one this gateway handles.
LEMMA ServedReconcile ==
  ASSUME TypeOK, ServedInv, NEW k \in Pods, Reconcile(k)
  PROVE  ServedInv'
<1> USE DEF mapVars, workerVars, fouVars, natVars
<1>0. /\ UNCHANGED <<pod, podToPodIPs, podIPToPod, remote, up, decap, route>>
      /\ pc = "idle" /\ key = None /\ k \in queue /\ queue' = queue \ {k}
  BY DEF Reconcile, ReconcileIgnored, ReconcileDeleted, ReconcileRunning, Start, TypeOK
<1>1. Served'
  BY <1>0 DEF ServedInv, Served, HasTunnel
<1>2. KeyInv(k) /\ pod[k].phase # "absent"
  BY <1>0 DEF ServedInv, KeyInv
<1>3. CASE ReconcileIgnored(k)
  <2>1. ASSUME NEW q \in Pods PROVE KeyInv(q)'
    BY <1>0, <1>3, <2>1 DEF ServedInv, KeyInv, Indexed, Exists, ReconcileIgnored
  <2> QED
    BY <1>0, <1>1, <1>3, <2>1 DEF ServedInv, Handling, ReconcileIgnored
<1>4. CASE ReconcileDeleted(k)
  <2>0. key' = k /\ pc' = "release" /\ pod[k].phase # "running"
    BY <1>4 DEF ReconcileDeleted, Start, Exists
  <2>1. ASSUME NEW q \in Pods PROVE KeyInv(q)'
    BY <1>0, <1>2, <2>0, <2>1 DEF ServedInv, KeyInv, Indexed, Exists
  <2> QED
    BY <1>0, <1>1, <2>0, <2>1 DEF ServedInv, Handling
<1>5. CASE ReconcileRunning(k)
  <2>0. /\ key' = k /\ pc' = "addPeer" /\ ips' = pod[k].ips /\ i' = 1
        /\ pod[k].phase = "running"
    BY <1>5 DEF ReconcileRunning, Start
  <2>1. ASSUME NEW q \in Pods PROVE KeyInv(q)'
    BY <1>0, <1>2, <2>0, <2>1 DEF ServedInv, KeyInv, Indexed, Exists
  <2>2. HandlingInv'
    BY <1>0, <1>2, <2>0, SMTT(20) DEF HandlingInv, KeyInv, Indexed, Exists
  <2> QED
    BY <1>0, <1>1, <2>0, <2>1, <2>2 DEF ServedInv, Handling
<1> QED
  BY <1>3, <1>4, <1>5 DEF Reconcile

\* A step of handlePodRunning that deletes nothing and serves the addresses it
\* passes keeps ServedInv.
LEMMA ServedProgress ==
  ASSUME TypeOK, ServedInv, Handling, Handling',
         UNCHANGED <<pod, queue, mapVars, key, ips>>,
         \A a \in Addr : HasTunnel(a) => HasTunnel(a)',
         \A j \in 1 .. Len(ips) :
            (pc' = "prune" \/ j < i') /\ Supported(ips[j]) => HasTunnel(ips[j])'
  PROVE  ServedInv'
<1> USE DEF mapVars
<1>1. Served'
  BY SMTT(20) DEF ServedInv, Served, TypeOK, Range
<1>2. ASSUME NEW q \in Pods PROVE KeyInv(q)'
  BY <1>2 DEF ServedInv, KeyInv, Indexed, Exists
<1>3. HandlingInv'
  BY DEF ServedInv, HandlingInv, Indexed, Exists, HasTunnel
<1> QED
  BY <1>1, <1>2, <1>3 DEF ServedInv, Handling

\* Each step of handlePodRunning keeps ServedInv; the second loop deletes
\* nothing, because the addresses of the pod are the ones recorded.
LEMMA ServedRunning ==
  ASSUME DistinctNames, TypeOK, TunnelInv, TunnelInv', ServedInv, HandlePodRunning
  PROVE  ServedInv'
<1> USE DEF mapVars, workerVars, fouVars, natVars, Goto
<1>0. /\ Handling /\ HandlingInv /\ key \in Pods
      /\ ips \in Seq(Addr) /\ i \in Nat \ {0} /\ \A j \in 1 .. Len(ips) : ips[j] \in Addr
      /\ podToPodIPs[key] \in Seq(Addr)
  BY SMTT(20) DEF HandlePodRunning, SkipAddr, AddPeerOld, AddPeerNew, AddPeerSetup, NeedsPeer,
     Prunes,
     AddClientOld, AddClientUp, AddClientNew, EndAdd, PruneKeep, PruneDel, Record,
     Handling, ServedInv, TypeOK
<1>1. CASE SkipAddr
  <2>1. Supported(ips[i]) => HasTunnel(ips[i])
    BY <1>0, <1>1 DEF SkipAddr, NeedsPeer, existing, ServedInv, Served, HandlingInv, Indexed
  <2>2. \A j \in 1 .. Len(ips) :
            (pc' = "prune" \/ j < i') /\ Supported(ips[j]) => HasTunnel(ips[j])
    <3>1. pc = "addPeer" /\ pc' = "addPeer" /\ i' = i + 1
      BY <1>1 DEF SkipAddr
    <3>2. \A j \in 1 .. Len(ips) : j < i' => j < i \/ j = i
      BY <1>0, <3>1, SMTT(20)
    <3> QED
      BY <1>0, <2>1, <3>1, <3>2 DEF HandlingInv
  <2> QED
    BY <1>0, <1>1, <2>2, ServedProgress DEF SkipAddr, Handling, HasTunnel
<1>2. CASE AddPeerOld
  <2>1. pc = "addPeer" /\ pc' = "addClient" /\ i' = i
    BY <1>2 DEF AddPeerOld, NeedsPeer
  <2> QED
    BY <1>0, <1>2, <2>1, ServedProgress DEF AddPeerOld, HandlingInv, Handling, HasTunnel
<1>3. CASE AddPeerNew
  <2>1. pc = "addPeer" /\ pc' = "setup" /\ i' = i /\ i <= Len(ips)
    BY <1>3 DEF AddPeerNew, NeedsPeer
  <2>2. \A a \in Addr : HasTunnel(a) => HasTunnel(a)'
    BY <1>0, <1>3, <2>1 DEF AddPeerNew, AddPeerLink, LinkExists, HasTunnel, TypeOK, FouTypeOK
  <2> QED
    BY <1>0, <1>3, <2>1, <2>2, ServedProgress DEF AddPeerNew, HandlingInv, Handling
<1>4. CASE AddPeerSetup
  <2>1. \A a \in Addr : HasTunnel(a) => HasTunnel(a)'
    BY <1>4 DEF AddPeerSetup, SetupFlowBased, HasTunnel
  <2> QED
    BY <1>0, <1>4, <2>1, ServedProgress DEF AddPeerSetup, HandlingInv, Handling
<1>5. CASE AddClientOld
  <2>1. HasTunnel(ips[i])
    BY <1>0, <1>5, SMTT(20) DEF AddClientOld, TunnelInv, TunnelsMatch, TypeOK
  <2>2. \A j \in 1 .. Len(ips) :
            (pc' = "prune" \/ j < i') /\ Supported(ips[j]) => HasTunnel(ips[j])
    BY <1>0, <1>5, <2>1, SMTT(20) DEF AddClientOld, HandlingInv
  <2> QED
    BY <1>0, <1>5, <2>2, ServedProgress DEF AddClientOld, Handling, HasTunnel
<1>6. CASE AddClientUp
  <2>1. \A a \in Addr : HasTunnel(a) => HasTunnel(a)'
    BY <1>6 DEF AddClientUp, LinkSetUp, HasTunnel
  <2> QED
    BY <1>0, <1>6, <2>1, ServedProgress DEF AddClientUp, HandlingInv, Handling
<1>7. CASE AddClientNew
  <2>1. PICK a \in Addr : a = ips[i]
    BY <1>0, <1>7, SMTT(20) DEF AddClientNew, TypeOK
  <2>2. route'[a] = FouName[a] /\ route'[a] # None
    BY <1>7, <2>1, SMTT(20) DEF AddClientNew, AddClientRoute, TypeOK, NatTypeOK
  <2>3. HasTunnel(a)'
    BY <2>2 DEF TunnelInv, TunnelsMatch, ClientRouted
  <2>4. ASSUME NEW b \in Addr, HasTunnel(b) PROVE HasTunnel(b)'
    BY <1>7, <2>1, <2>4 DEF AddClientNew, AddClientRoute, HasTunnel, TypeOK, NatTypeOK
  <2>5. \A j \in 1 .. Len(ips) :
            (pc' = "prune" \/ j < i') /\ Supported(ips[j]) => HasTunnel(ips[j])'
    <3>1. pc = "addRoute" /\ pc' = "addPeer" /\ i' = i + 1 /\ ips' = ips
      BY <1>7 DEF AddClientNew
    <3>2. \A j \in 1 .. Len(ips) : j < i' => j < i \/ j = i
      BY <1>0, <3>1, SMTT(20)
    <3> SUFFICES ASSUME NEW j \in 1 .. Len(ips), j < i', Supported(ips[j])
                 PROVE  HasTunnel(ips[j])'
      BY <3>1
    <3>3. PICK b \in Addr : b = ips[j]
      BY <1>0
    <3>4. HasTunnel(b)'
      BY <1>0, <2>1, <2>3, <2>4, <3>2, <3>3 DEF HandlingInv
    <3> QED
      BY <3>1, <3>3, <3>4
  <2> QED
    BY <1>0, <1>7, <2>4, <2>5, ServedProgress DEF AddClientNew, Handling
<1>8. CASE EndAdd
  <2>1. \A j \in 1 .. Len(ips) : Supported(ips[j]) => HasTunnel(ips[j])
    BY <1>0, <1>8, SMTT(20) DEF EndAdd, HandlingInv
  <2> QED
    BY <1>0, <1>8, <2>1, ServedProgress DEF EndAdd, Handling, HasTunnel
<1>9. CASE PruneKeep
  BY <1>0, <1>9, ServedProgress DEF PruneKeep, HandlingInv, Handling, HasTunnel
<1>10. CASE PruneDel
  BY <1>0, <1>10, SMTT(20) DEF PruneDel, Prunes, existing, HandlingInv, Range
<1>11. CASE Record
  <2>1. /\ podToPodIPs' = [podToPodIPs EXCEPT ![key] = ips] /\ podToPodIPs'[key] = ips
        /\ \A a \in Addr : podIPToPod'[a] =
              IF a \in Range(ips) THEN podIPToPod[a] \cup {key} ELSE podIPToPod[a]
        /\ UNCHANGED <<pod, queue, remote, up, decap, route>>
        /\ pc = "prune" /\ pc' = "idle" /\ key' = None
    BY <1>0, <1>11 DEF Record, Return, TypeOK
  <2>2. \A a \in Range(ips) : a \in Addr /\ (Supported(a) => HasTunnel(a)) /\ key \in podIPToPod'[a]
    <3> SUFFICES ASSUME NEW j \in 1 .. Len(ips)
                 PROVE  /\ ips[j] \in Addr /\ (Supported(ips[j]) => HasTunnel(ips[j]))
                        /\ key \in podIPToPod'[ips[j]]
      BY <1>0, SMTT(20) DEF Range
    <3>1. ips[j] \in Addr /\ ips[j] \in Range(ips)
      BY <1>0, SMTT(20) DEF Range
    <3> QED
      BY <1>0, <2>1, <3>1, ZenonT(20) DEF HandlingInv
  <2>3. Served'
    <3> SUFFICES ASSUME NEW k \in Pods, NEW a \in Range(podToPodIPs'[k]),
                        k \in podIPToPod'[a], Supported(a)
                 PROVE  HasTunnel(a)
      BY <2>1 DEF Served, HasTunnel
    <3>1. CASE k = key
      BY <2>1, <2>2, <3>1
    <3>2. CASE k # key
      <4>1. a \in Range(podToPodIPs[k]) /\ a \in Addr
        BY <2>1, <3>2, SMTT(20) DEF TypeOK, Range
      <4> QED
        BY <2>1, <3>2, <4>1, ZenonT(20) DEF ServedInv, Served
    <3> QED
      BY <3>1, <3>2
  <2>4. ASSUME NEW q \in Pods PROVE KeyInv(q)'
    <3>0. KeyInv(q)
      BY DEF ServedInv
    <3>1. CASE q = key
      <4>1. Indexed(q)'
        BY <2>1, <2>2, <3>1 DEF Indexed
      <4> QED
        BY <1>0, <2>1, <3>0, <3>1, <4>1 DEF KeyInv, HandlingInv, Exists
    <3>2. CASE q # key
      <4>1. podToPodIPs'[q] = podToPodIPs[q] /\ \A a \in Range(podToPodIPs[q]) : a \in Addr
        BY <2>1, <3>2, SMTT(20) DEF TypeOK, Range
      <4>2. Indexed(q) => Indexed(q)'
        BY <2>1, <4>1, ZenonT(20) DEF Indexed
      <4> QED
        BY <2>1, <3>0, <3>2, <4>1, <4>2 DEF KeyInv, Exists
    <3> QED
      BY <3>1, <3>2
  <2> QED
    BY <2>1, <2>3, <2>4 DEF ServedInv, Handling
<1> QED
  BY <1>1, <1>2, <1>3, <1>4, <1>5, <1>6, <1>7, <1>8, <1>9, <1>10, <1>11
     DEF HandlePodRunning

\* handlePodDeletion keeps ServedInv: it deletes the tunnel of an address only
\* when no other pod is recorded for it (existsOtherLiveTunnels).
LEMMA ServedDeletion ==
  ASSUME DistinctNames, TypeOK, ServedInv, HandlePodDeletion
  PROVE  ServedInv'
<1> USE DEF mapVars, workerVars, fouVars, natVars, Goto, Return
<1>0. /\ pc = "release" /\ key \in Pods /\ pod[key].phase # "running" /\ pod[key].phase # "absent"
      /\ podToPodIPs[key] \in Seq(Addr) /\ pod' = pod
  BY DEF HandlePodDeletion, Release, Releases, ReleaseError, IndexError, Forget, TypeOK,
     ServedInv, KeyInv
<1>1. CASE Release
  <2>1. PICK a \in Addr : a = existing[i]
    BY <1>1, SMTT(20) DEF Release, Releases, existing, TypeOK
  <2>2. /\ podIPToPod' = [podIPToPod EXCEPT ![a] = @ \ {key}]
        /\ pc' = "release" /\ UNCHANGED <<queue, podToPodIPs, key, ips>>
    BY <1>0, <1>1, <2>1 DEF Release
  <2>3. /\ podIPToPod'[a] = podIPToPod[a] \ {key}
        /\ \A b \in Addr \ {a} : podIPToPod'[b] = podIPToPod[b]
    BY <2>2 DEF TypeOK
  <2>4. ASSUME NEW b \in Addr, HasTunnel(b), b # a \/ podIPToPod[a] # {key}
        PROVE  HasTunnel(b)'
    <3>1. CASE otherLiveTunnels
      BY <1>1, <2>4, <3>1 DEF Release, HasTunnel
    <3>2. CASE ~otherLiveTunnels
      <4>1. b # a /\ FouName[b] # FouName[a]
        BY <2>1, <2>4, <3>2 DEF otherLiveTunnels, DistinctNames
      <4>2. DelPeer(a) /\ FlushRoutes(FouName[a])
        BY <1>1, <2>1, <3>2 DEF Release
      <4> QED
        BY <2>4, <4>1, <4>2 DEF HasTunnel, DelPeer, FlushRoutes, TypeOK, FouTypeOK, NatTypeOK
    <3> QED
      BY <3>1, <3>2
  <2>5. Served'
    <3> SUFFICES ASSUME NEW k \in Pods, NEW b \in Range(podToPodIPs[k]),
                        k \in podIPToPod'[b], Supported(b)
                 PROVE  HasTunnel(b)'
      BY <2>2 DEF Served
    <3>1. b \in Addr
      BY SMTT(20) DEF TypeOK, Range
    <3>2. k \in podIPToPod[b] /\ (b # a \/ podIPToPod[a] # {key})
      BY <2>3, <3>1
    <3> QED
      BY <2>4, <3>1, <3>2 DEF ServedInv, Served
  <2>6. ASSUME NEW q \in Pods PROVE KeyInv(q)'
    <3>0. KeyInv(q)
      BY DEF ServedInv
    <3>1. pod[q].phase = "running" /\ Indexed(q) => Indexed(q)'
      <4>1. pod[q].phase = "running" => q # key
        BY <1>0
      <4>2. \A b \in Range(podToPodIPs[q]) : b \in Addr
        BY SMTT(20) DEF TypeOK, Range
      <4> QED
        BY <2>2, <2>3, <4>1, <4>2 DEF Indexed
    <3> QED
      BY <1>0, <2>2, <3>0, <3>1 DEF KeyInv, Exists
  <2> QED
    BY <1>0, <2>2, <2>5, <2>6 DEF ServedInv, Handling
<1>2. CASE ReleaseError
  <2>1. /\ UNCHANGED <<podToPodIPs, podIPToPod, remote, up, route>>
        /\ queue' = queue \cup {key} /\ pc' = "idle" /\ key' = None
    BY <1>2 DEF ReleaseError
  <2>2. ASSUME NEW q \in Pods PROVE KeyInv(q)'
    BY <1>0, <2>1, <2>2 DEF ServedInv, KeyInv, Indexed, Exists
  <2> QED
    BY <2>1, <2>2 DEF ServedInv, Served, HasTunnel, Handling
<1>3. CASE Forget
  <2>1. /\ podToPodIPs' = [podToPodIPs EXCEPT ![key] = <<>>]
        /\ UNCHANGED <<podIPToPod, remote, up, route, queue>>
        /\ pc' = "idle" /\ key' = None
    BY <1>3 DEF Forget
  <2>2. /\ podToPodIPs'[key] = <<>>
        /\ \A q \in Pods \ {key} : podToPodIPs'[q] = podToPodIPs[q]
    BY <1>0, <2>1 DEF TypeOK
  <2>3. ASSUME NEW q \in Pods PROVE KeyInv(q)'
    <3>0. KeyInv(q)
      BY DEF ServedInv
    <3> QED
      BY <1>0, <2>1, <2>2, <3>0 DEF KeyInv, Indexed, Exists
  <2>4. Served'
    BY <1>0, <2>1, <2>2, SMTT(20) DEF ServedInv, Served, HasTunnel, Range
  <2> QED
    BY <2>1, <2>3, <2>4 DEF ServedInv, Handling
<1> QED
  BY <1>1, <1>2, <1>3 DEF HandlePodDeletion

\* After an error the key is queued again, after a restart or a replacement
\* every pod that exists is, and nothing is recorded for it.
LEMMA ServedFailures ==
  ASSUME TypeOK, ServedInv, Fail \/ Restart \/ Replace
  PROVE  ServedInv'
<1> USE DEF mapVars, workerVars, fouVars, natVars, Return
<1>1. CASE Fail
  <2>1. /\ UNCHANGED <<pod, podToPodIPs, podIPToPod, remote, up, route>>
        /\ queue' = queue \cup {key} /\ pc' = "idle" /\ key' = None
    BY <1>1 DEF Fail, SetupFlowBasedFailed
  <2>2. pc # "idle"
    BY <1>1 DEF Fail, Failing, NeedsPeer, Prunes, Releases
  <2>3. ASSUME NEW q \in Pods PROVE KeyInv(q)'
    BY <2>1, <2>2, <2>3 DEF ServedInv, KeyInv, Indexed, Exists, TypeOK
  <2> QED
    BY <2>1, <2>3 DEF ServedInv, Served, HasTunnel, Handling
<1>2. CASE Restart \/ Replace
  <2>1. /\ \A k \in Pods : podToPodIPs'[k] = <<>>
        /\ queue' = {k \in Pods : Exists(k)} /\ pod' = pod /\ pc' = "idle" /\ key' = None
    BY <1>2 DEF Restart, Replace
  <2>2. ASSUME NEW q \in Pods PROVE KeyInv(q)'
    BY <2>1, <2>2, SMTT(20) DEF KeyInv, Indexed, Exists, Range
  <2>3. Served'
    BY <2>1, SMTT(20) DEF Served, Range
  <2> QED
    BY <2>1, <2>2, <2>3 DEF ServedInv, Handling
<1> QED
  BY <1>1, <1>2

\* ServedInv holds in every reachable state.
THEOREM ServedInvariant ==
  ASSUME DistinctNames, ~AddressChange
  PROVE  Spec => []ServedInv
<1>1. Init => ServedInv
  BY SMTT(20) DEF Init, ServedInv, Served, KeyInv, Indexed, Exists, Handling, Range
<1>2. TypeOK /\ TunnelInv /\ TunnelInv' /\ ServedInv /\ [Next]_vars => ServedInv'
  <2> SUFFICES ASSUME TypeOK, TunnelInv, TunnelInv', ServedInv, [Next]_vars
               PROVE  ServedInv'
    OBVIOUS
  <2>1. CASE UNCHANGED vars
    BY <2>1, SMTT(20) DEF vars, mapVars, workerVars, fouVars, natVars, ServedInv, Served, KeyInv,
       HandlingInv, Handling, Indexed, Exists, HasTunnel
  <2> QED
    BY <2>1, ServedCluster, ServedReconcile, ServedRunning, ServedDeletion, ServedFailures
       DEF Next, Operate, Interrupt
<1> QED
  BY <1>1, <1>2, TypeCorrect, TunnelInvariant, PTL DEF Spec

\* Level-triggered convergence of Reconcile: whenever no key is queued and the
\* worker is idle, every address of every running client pod has its tunnel
\* device, up, and its route, whatever failed or crashed before.
THEOREM ConvergedAlways ==
  ASSUME DistinctNames, ~AddressChange
  PROVE  Spec => []Converged
<1>1. TypeOK /\ ServedInv => Converged
  <2> SUFFICES ASSUME TypeOK, ServedInv, Quiescent,
                      NEW k \in Pods, NEW a \in Addr, Wants(k, a)
               PROVE  HasTunnel(a)
    BY DEF Converged
  <2>1. KeyInv(k) /\ key # k
    BY DEF TypeOK, ServedInv, Quiescent
  <2>2. a \in Range(podToPodIPs[k]) /\ k \in podIPToPod[a] /\ Supported(a)
    BY <2>1 DEF KeyInv, Quiescent, Wants, Indexed
  <2> QED
    BY <2>2 DEF ServedInv, Served
<1> QED
  BY <1>1, ServedInvariant, TypeCorrect, PTL
=============================================================================
