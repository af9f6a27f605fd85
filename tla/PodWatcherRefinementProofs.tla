--------------------- MODULE PodWatcherRefinementProofs ---------------------
(***************************************************************************)
(* Proof that the pod watcher implements TunnelService, for any number of  *)
(* pods and addresses and any failures, restarts and replacements.  Like   *)
(* convergence it needs that a pod keeps its addresses and that no two     *)
(* addresses share an interface name.  The invariants of that proof also   *)
(* give that the two maps stay inverse to each other (InverseIndexAlways)  *)
(* and that only an interruption leaves a tunnel behind (NoLeakAlways).    *)
(***************************************************************************)
EXTENDS PodWatcherProofs, PodWatcherHistory

USE FouAssumption, PodWatcherAssumption, ZenonT(20)

(***************************************************************************)
(* What the mapping needs beyond ServedInv: podIPToPod names a pod only    *)
(* for recorded addresses, and not for those handlePodDeletion has passed; *)
(* the object of a pod that is being set up is that of a running client,   *)
(* unless it is queued again; the address in work is of a local family.    *)
(***************************************************************************)
StepInv ==
    /\ \A k \in Pods, a \in Addr : k \in podIPToPod[a] => a \in Range(podToPodIPs[k])
    /\ pc = "release" => \A j \in 1 .. Len(podToPodIPs[key]) :
          j < i => key \notin podIPToPod[podToPodIPs[key][j]]
    /\ Handling /\ key \notin queue => pod[key].phase = "running" /\ pod[key].handled
    /\ pc \in {"setup", "addClient", "addRoute"} => Supported(ips[i])

\* Under TunnelInv the addresses with a tunnel are those with a route.
LEMMA TunnelsAreRoutes ==
  ASSUME TypeOK, TunnelInv
  PROVE  Tunnels = {a \in Addr : route[a] # None}
BY SMTT(20) DEF TypeOK, NatTypeOK, TunnelInv, TunnelsMatch, ClientRouted, HasTunnel, Tunnels

\* The same of the next state.
LEMMA TunnelsAreRoutesNext ==
  ASSUME TypeOK', TunnelInv'
  PROVE  Tunnels' = {a \in Addr : route'[a] # None}
BY SMTT(20) DEF TypeOK, NatTypeOK, TunnelInv, TunnelsMatch, ClientRouted, HasTunnel, Tunnels

\* A step of handlePodRunning keeps StepInv.
LEMMA StepRunning ==
  ASSUME TypeOK, ServedInv, StepInv, HandlePodRunning
  PROVE  StepInv'
<1> USE DEF StepInv, mapVars, workerVars, Goto, Handling
<1>1. CASE HandlePodRunning /\ ~Record
  BY <1>1 DEF HandlePodRunning, SkipAddr, AddPeerOld, AddPeerNew, AddPeerSetup,
     AddClientOld, AddClientUp, AddClientNew, EndAdd, PruneKeep, PruneDel, Prunes, NeedsPeer
<1>2. CASE Record
  <2>1. /\ key \in Pods /\ podToPodIPs[key] \in {<<>>, ips}
        /\ podToPodIPs' = [podToPodIPs EXCEPT ![key] = ips]
        /\ pc' = "idle"
    BY <1>2 DEF Record, Return, TypeOK, ServedInv, HandlingInv
  <2> SUFFICES ASSUME NEW k \in Pods, NEW a \in Addr, k \in podIPToPod'[a]
               PROVE  a \in Range(podToPodIPs'[k])
    BY <2>1
  <2>2. k \in podIPToPod[a] \/ (k = key /\ a \in Range(ips))
    BY <1>2 DEF Record
  <2>3. CASE k = key
    BY <2>1, <2>2, <2>3, SMTT(20) DEF TypeOK, Range
  <2>4. CASE k # key
    BY <2>1, <2>2, <2>4 DEF TypeOK
  <2> QED
    BY <2>3, <2>4
<1> QED
  BY <1>1, <1>2

\* A step of handlePodDeletion keeps StepInv: it forgets the addresses of the
\* pod once it has passed them all.
LEMMA StepDeletion ==
  ASSUME TypeOK, StepInv, HandlePodDeletion
  PROVE  StepInv'
<1> USE DEF StepInv, mapVars, workerVars, Goto, Handling, Return
<1>1. CASE Release
  <2>1. /\ key \in Pods /\ podToPodIPs[key] \in Seq(Addr) /\ pc = "release" /\ pc' = "release"
        /\ i \in 1 .. Len(podToPodIPs[key]) /\ podToPodIPs[key][i] \in Addr
        /\ i' = i + 1 /\ UNCHANGED <<podToPodIPs, key>>
    BY <1>1, SMTT(20) DEF Release, Releases, existing, TypeOK
  <2>2. podIPToPod' = [podIPToPod EXCEPT ![podToPodIPs[key][i]] = @ \ {key}]
    BY <1>1 DEF Release, existing
  <2>3. \A a \in Addr : podIPToPod'[a] \subseteq podIPToPod[a]
    BY <2>1, <2>2 DEF TypeOK
  <2>4. key \notin podIPToPod'[podToPodIPs[key][i]]
    BY <2>1, <2>2 DEF TypeOK
  <2>5. \A j \in 1 .. Len(podToPodIPs[key]) :
            j < i + 1 => key \notin podIPToPod'[podToPodIPs[key][j]]
    BY <2>1, <2>3, <2>4, SMTT(20)
  <2> QED
    BY <2>1, <2>3, <2>5
<1>2. CASE ReleaseError
  BY <1>2 DEF ReleaseError
<1>3. CASE Forget
  <2>1. /\ key \in Pods /\ podToPodIPs[key] \in Seq(Addr)
        /\ \A j \in 1 .. Len(podToPodIPs[key]) : key \notin podIPToPod[podToPodIPs[key][j]]
        /\ podToPodIPs' = [podToPodIPs EXCEPT ![key] = <<>>] /\ podIPToPod' = podIPToPod
        /\ pc' = "idle"
    BY <1>3, SMTT(20) DEF Forget, existing, TypeOK
  <2>2. \A a \in Range(podToPodIPs[key]) : key \notin podIPToPod[a]
    BY <2>1, SMTT(20) DEF Range
  <2> QED
    BY <2>1, <2>2, SMTT(20) DEF TypeOK
<1> QED
  BY <1>1, <1>2, <1>3 DEF HandlePodDeletion

\* The other steps keep StepInv: an event of the pod in work queues it again.
LEMMA StepOther ==
  ASSUME TypeOK, StepInv,
         \/ \E k \in Pods : Cluster(k) \/ Reconcile(k)
         \/ Fail \/ Restart \/ Replace
  PROVE  StepInv'
<1> USE DEF StepInv, mapVars, workerVars, Handling, Return
<1>1. ASSUME NEW k \in Pods, Cluster(k) PROVE StepInv'
  <2>1. PICK object : PodEvent(k, object)
    BY <1>1, Zenon DEF Cluster, CreatePod, AssignIPs, TerminatePod, DeletePod,
       RemovePod, AnnotatePod
  <2> QED
    BY <2>1 DEF PodEvent, TypeOK
<1>2. ASSUME NEW k \in Pods, Reconcile(k) PROVE StepInv'
  BY <1>2, SMTT(20) DEF Reconcile, ReconcileIgnored, ReconcileDeleted, ReconcileRunning, Start
<1>3. CASE Fail
  BY <1>3 DEF Fail
<1>4. CASE Restart \/ Replace
  BY <1>4 DEF Restart, Replace
<1> QED
  BY <1>1, <1>2, <1>3, <1>4

\* StepInv holds in every reachable state.
THEOREM StepInvariant ==
  ASSUME DistinctNames, ~AddressChange
  PROVE  Spec => []StepInv
<1>1. Init => StepInv
  BY DEF Init, StepInv, Handling
<1>2. TypeOK /\ ServedInv /\ StepInv /\ [Next]_vars => StepInv'
  <2> SUFFICES ASSUME TypeOK, ServedInv, StepInv, [Next]_vars
               PROVE  StepInv'
    OBVIOUS
  <2>1. CASE UNCHANGED vars
    BY <2>1 DEF vars, mapVars, workerVars, StepInv, Handling
  <2> QED
    BY <2>1, StepRunning, StepDeletion, StepOther DEF Next, Operate, Interrupt
<1> QED
  BY <1>1, <1>2, TypeCorrect, ServedInvariant, PTL DEF Spec

\* Between two reconciliations podIPToPod is the inverse of podToPodIPs, whatever
\* failed or crashed, as long as pods keep their addresses and DelPeer does not
\* fail between two addresses of one pod (handlePodDeletion updates the one map
\* address by address and the other at its end).
THEOREM InverseIndexAlways ==
  ASSUME DistinctNames, ~AddressChange, "delPeer" \notin Faults \/ OneAddress
  PROVE  Spec => []InverseIndex
<1>1. TypeOK /\ IndexInv /\ StepInv => InverseIndex
  <2> SUFFICES ASSUME TypeOK, IndexInv, StepInv, pc = "idle",
                      NEW k \in Pods, NEW a \in Range(podToPodIPs[k])
               PROVE  k \in podIPToPod[a]
    BY DEF InverseIndex, StepInv
  <2>1. PICK j \in 1 .. Len(podToPodIPs[k]) : a = podToPodIPs[k][j]
    BY SMTT(20) DEF TypeOK, Range
  <2> QED
    BY <2>1 DEF IndexInv
<1> QED
  BY <1>1, TypeCorrect, IndexInvariant, StepInvariant, PTL
-----------------------------------------------------------------------------
(***************************************************************************)
(* Each step of the pod watcher is a step of the abstract gateway or       *)
(* changes nothing the abstract gateway sees.                              *)
(***************************************************************************)
Mapped == Service!Next \/ UNCHANGED <<pod, Due, podIPToPod, Tunnels>>

\* A change of a pod object is an event of the abstract gateway.
LEMMA MapCluster ==
  ASSUME TypeOK, TypeOK', NEW k \in Pods, Cluster(k)
  PROVE  Mapped
<1>1. PICK object : PodEvent(k, object)
  BY Zenon DEF Cluster, CreatePod, AssignIPs, TerminatePod, DeletePod, RemovePod, AnnotatePod
<1>2. /\ pod' = [pod EXCEPT ![k] = object] /\ queue' = queue \cup {k}
      /\ UNCHANGED <<podToPodIPs, podIPToPod, pc, key, ips, i, remote, up, decap, route>>
  BY <1>1 DEF PodEvent, mapVars, workerVars, fouVars, natVars
<1>3. pod' = [pod EXCEPT ![k] = pod'[k]] /\ Range(pod'[k].ips) \subseteq Addr
  BY <1>2, SMTT(20) DEF TypeOK, PodObject, Range
<1>4. Due' = Due \cup {k} /\ Tunnels' = Tunnels
  BY <1>2 DEF Due, Tunnels, HasTunnel
<1>5. UNCHANGED <<podIPToPod, Tunnels>>
  BY <1>2, <1>4
<1>6. Service!PodEvent(k)
  BY <1>3, <1>4, <1>5, Zenon DEF Service!PodEvent, Service!Range, Range
<1> QED
  BY <1>6 DEF Mapped, Service!Next

\* Taking a key from the queue changes nothing, unless it is ignored.
LEMMA MapReconcile ==
  ASSUME TypeOK, NEW k \in Pods, Reconcile(k)
  PROVE  Mapped
<1> USE DEF mapVars, workerVars, fouVars, natVars
<1>1. /\ UNCHANGED <<pod, podIPToPod, remote, up, route>>
      /\ pc = "idle" /\ k \in queue /\ queue' = queue \ {k}
  BY DEF Reconcile, ReconcileIgnored, ReconcileDeleted, ReconcileRunning, Start
<1>2. Tunnels' = Tunnels
  BY <1>1 DEF Tunnels, HasTunnel
<1>3. CASE ReconcileIgnored(k)
  <2>1. Due' = Due \ {k} /\ k \in Due /\ Exists(k) /\ ~pod[k].handled
    BY <1>1, <1>3 DEF ReconcileIgnored, Due
  <2>2. Service!Ignore(k)
    BY <1>1, <1>2, <2>1 DEF Service!Ignore, Service!Exists, Exists
  <2> QED
    BY <2>2 DEF Mapped, Service!Next
<1>4. CASE ReconcileDeleted(k) \/ ReconcileRunning(k)
  <2>1. pc' # "idle" /\ key' = k
    BY <1>4 DEF ReconcileDeleted, ReconcileRunning, Start
  <2> QED
    BY <1>1, <1>2, <2>1 DEF Mapped, Due
<1> QED
  BY <1>3, <1>4 DEF Reconcile

\* handlePodRunning completes tunnels one by one and then owns them at once.
LEMMA MapRunning ==
  ASSUME TypeOK, TypeOK', TunnelInv, TunnelInv', ServedInv, StepInv, HandlePodRunning
  PROVE  Mapped
<1> USE DEF mapVars, workerVars, fouVars, natVars, Goto
<1>0. /\ Tunnels = {a \in Addr : route[a] # None}
      /\ Tunnels' = {a \in Addr : route'[a] # None}
  BY TunnelsAreRoutes, TunnelsAreRoutesNext
<1>1. CASE AddClientNew
  <2>1. /\ key \in Pods /\ ips[i] \in Addr /\ Supported(ips[i]) /\ key \in Due
        /\ UNCHANGED <<pod, queue, podIPToPod, key>> /\ pc' # "idle" /\ pc # "idle"
    BY <1>1, SMTT(20) DEF AddClientNew, TypeOK, StepInv, Due
  <2>2. Tunnels' = Tunnels \cup {ips[i]}
    BY <1>0, <1>1, <2>1, SMTT(20) DEF AddClientNew, AddClientRoute, TypeOK, NatTypeOK
  <2>3. Due' = Due
    BY <2>1 DEF Due
  <2>4. Service!SetUp(key, ips[i])
    BY <2>1, <2>2, <2>3 DEF Service!SetUp
  <2> QED
    BY <2>1, <2>4 DEF Mapped, Service!Next
<1>2. CASE Record
  <2>1. /\ key \in Pods /\ pc = "prune" /\ pc' = "idle" /\ UNCHANGED <<pod, queue, route>>
        /\ Due = queue \cup {key} /\ Due' = queue
        /\ podIPToPod' = [a \in Addr |->
              IF a \in Range(ips) THEN podIPToPod[a] \cup {key} ELSE podIPToPod[a]]
    BY <1>2 DEF Record, Return, TypeOK, Due
  <2>2. HandlingInv /\ ips \in Seq(Addr)
    BY <2>1 DEF ServedInv, Handling, TypeOK
  <2>3. Range(ips) \cap {a \in Addr : Supported(a)} \subseteq Tunnels /\ Range(ips) \subseteq Addr
    BY <2>1, <2>2, SMTT(20) DEF HandlingInv, Tunnels, Range
  <2>4. Tunnels' = Tunnels
    BY <1>0, <2>1
  <2>5. Service!Own(key, Range(ips))
    BY <2>1, <2>3, <2>4 DEF Service!Own
  <2>6. CASE key \in queue
    <3>1. Due' = Due /\ key \in Due
      BY <2>1, <2>6
    <3>2. Service!ServeOutdated(key)
      BY <2>3, <2>5, <3>1 DEF Service!ServeOutdated
    <3> QED
      BY <2>1, <3>2 DEF Mapped, Service!Next
  <2>7. CASE key \notin queue
    <3>1. Due' = Due \ {key} /\ key \in Due
      BY <2>1, <2>7
    <3>2. ips = pod[key].ips /\ pod[key].phase = "running" /\ pod[key].handled
      BY <2>1, <2>2, <2>7 DEF HandlingInv, StepInv, Handling
    <3>3. Service!Client(key)
      BY <3>2, Zenon DEF Service!Client
    <3>4. Service!Own(key, Range(pod[key].ips))
      BY <2>5, <3>2
    <3>5. Service!Serve(key)
      BY <3>1, <3>3, <3>4, Zenon DEF Service!Serve, Service!Range, Range
    <3> QED
      BY <2>1, <3>5 DEF Mapped, Service!Next
  <2> QED
    BY <2>6, <2>7
<1>3. CASE PruneDel
  <2>1. /\ HandlingInv /\ key \in Pods /\ podToPodIPs[key] \in Seq(Addr)
    BY <1>3 DEF PruneDel, Prunes, ServedInv, Handling, TypeOK
  <2> QED
    BY <1>3, <2>1, SMTT(20) DEF PruneDel, Prunes, existing, HandlingInv, Range, TypeOK
<1>4. CASE HandlePodRunning /\ ~AddClientNew /\ ~Record /\ ~PruneDel
  <2>1. UNCHANGED <<pod, queue, podIPToPod, key, route>> /\ pc # "idle" /\ pc' # "idle"
    BY <1>4 DEF HandlePodRunning, SkipAddr, AddPeerOld, AddPeerNew, AddPeerSetup,
       AddClientOld, AddClientUp, EndAdd, PruneKeep, NeedsPeer
  <2> QED
    BY <1>0, <2>1 DEF Mapped, Due
<1> QED
  BY <1>1, <1>2, <1>3, <1>4

\* handlePodDeletion releases address by address, and forgets the pod when it
\* owns nothing any more.
LEMMA MapDeletion ==
  ASSUME DistinctNames, TypeOK, TypeOK', TunnelInv, TunnelInv', ServedInv, StepInv,
         HandlePodDeletion
  PROVE  Mapped
<1> USE DEF mapVars, workerVars, fouVars, natVars, Goto, Return
<1>0. /\ Tunnels = {a \in Addr : route[a] # None}
      /\ Tunnels' = {a \in Addr : route'[a] # None}
  BY TunnelsAreRoutes, TunnelsAreRoutesNext
<1>1. /\ pc = "release" /\ key \in Pods /\ podToPodIPs[key] \in Seq(Addr) /\ pod' = pod
      /\ Due = queue \cup {key} /\ i \in Nat
  BY DEF HandlePodDeletion, Release, Releases, ReleaseError, IndexError, Forget, TypeOK, Due
<1>2. Service!Over(key)
  <2>1. pod[key].phase \in Phase /\ pod[key].phase # "running"
    BY <1>1 DEF TypeOK, PodObject, ServedInv
  <2> QED
    BY <2>1 DEF Service!Over, Service!Exists, Phase
<1>3. CASE Release
  <2>1. PICK a \in Addr : a = existing[i]
    BY <1>3, SMTT(20) DEF Release, Releases, existing, TypeOK
  <2>2. /\ podIPToPod' = [podIPToPod EXCEPT ![a] = @ \ {key}] /\ key \in podIPToPod[a]
        /\ pc' = "release" /\ UNCHANGED <<queue, key>>
    BY <1>1, <1>3, <2>1 DEF Release, Releases
  <2>3. Due' = Due /\ key \in Due
    BY <1>1, <2>2 DEF Due
  <2>4. Tunnels' = IF podIPToPod[a] = {key} THEN Tunnels \ {a} ELSE Tunnels
    <3>1. CASE otherLiveTunnels
      BY <1>0, <1>3, <2>1, <3>1 DEF Release, otherLiveTunnels
    <3>2. CASE ~otherLiveTunnels
      <4>1. podIPToPod[a] = {key} /\ FlushRoutes(FouName[a])
        BY <1>3, <2>1, <3>2 DEF Release, otherLiveTunnels
      <4>2. \A b \in Addr : route[b] # None => route[b] = FouName[b]
        BY DEF TunnelInv, TunnelsMatch, ClientRouted, HasTunnel
      <4>3. \A b \in Addr : route'[b] # None <=> route[b] # None /\ b # a
        BY <4>1, <4>2 DEF FlushRoutes, DistinctNames, TypeOK, NatTypeOK
      <4> QED
        BY <1>0, <4>1, <4>3
    <3> QED
      BY <3>1, <3>2
  <2>5. Service!Release(key, a)
    BY <1>1, <1>2, <2>2, <2>3, <2>4 DEF Service!Release
  <2> QED
    BY <1>1, <2>5 DEF Mapped, Service!Next
<1>4. CASE ReleaseError
  <2>1. Due' = Due /\ UNCHANGED <<podIPToPod, route>>
    BY <1>1, <1>4 DEF ReleaseError, Due
  <2> QED
    BY <1>0, <1>1, <2>1 DEF Mapped
<1>5. CASE Forget
  <2>1. Due' = queue /\ UNCHANGED <<podIPToPod, route>>
    BY <1>5 DEF Forget, Due
  <2>2. Tunnels' = Tunnels
    BY <1>0, <2>1
  <2>3. CASE key \in queue
    BY <1>1, <2>1, <2>2, <2>3 DEF Mapped
  <2>4. CASE key \notin queue
    <3>1. \A j \in 1 .. Len(podToPodIPs[key]) : key \notin podIPToPod[podToPodIPs[key][j]]
      BY <1>1, <1>5, SMTT(20) DEF Forget, existing, StepInv
    <3>2. \A b \in Addr : key \notin podIPToPod[b]
      BY <1>1, <3>1, SMTT(20) DEF StepInv, Range
    <3>3. Due' = Due \ {key} /\ key \in Due
      BY <1>1, <2>1, <2>4
    <3>4. Service!Forget(key)
      BY <1>1, <1>2, <2>1, <2>2, <3>2, <3>3 DEF Service!Forget
    <3> QED
      BY <1>1, <3>4 DEF Mapped, Service!Next
  <2> QED
    BY <2>3, <2>4
<1> QED
  BY <1>3, <1>4, <1>5 DEF HandlePodDeletion

\* An error leaves the key due; a restart keeps the tunnels and a replacement
\* loses them, and both make every pod that exists due.
LEMMA MapFailures ==
  ASSUME TypeOK, Fail \/ Restart \/ Replace
  PROVE  Mapped
<1> USE DEF mapVars, workerVars, fouVars, natVars, Return
<1>1. CASE Fail
  <2>1. pc # "idle"
    BY <1>1 DEF Fail, Failing, NeedsPeer, Prunes, Releases
  <2>2. Due' = Due /\ UNCHANGED <<pod, podIPToPod, remote, up, route>>
    BY <1>1, <2>1 DEF Fail, Due, SetupFlowBasedFailed
  <2> QED
    BY <2>2 DEF Mapped, Tunnels, HasTunnel
<1>2. CASE Restart \/ Replace
  <2>1. /\ podIPToPod' = [a \in Addr |-> {}] /\ pod' = pod
        /\ Due' = {k \in Pods : Service!Exists(k)}
    BY <1>2 DEF Restart, Replace, Due, Exists, Service!Exists
  <2>2. Tunnels' \in {Tunnels, {}}
    <3>1. CASE Restart
      BY <3>1 DEF Restart, Tunnels, HasTunnel
    <3>2. CASE Replace
      BY <3>2 DEF Replace, Tunnels, HasTunnel
    <3> QED
      BY <1>2, <3>1, <3>2
  <2>3. Service!Restart
    BY <2>1, <2>2 DEF Service!Restart
  <2> QED
    BY <2>3 DEF Mapped, Service!Next
<1> QED
  BY <1>1, <1>2

\* The pod watcher implements the abstract gateway: however its reconciliations
\* are cut into netlink calls, fail half way and start again, what a client can
\* see of it is what TunnelService allows.
THEOREM ImplementsAlways ==
  ASSUME DistinctNames, ~AddressChange
  PROVE  Spec => Implements
<1>1. Init => Service!Init
  BY DEF Init, Service!Init, FouInit, NatInit, Due, Tunnels, HasTunnel
<1>2. /\ TypeOK /\ TypeOK' /\ TunnelInv /\ TunnelInv' /\ ServedInv /\ StepInv
      /\ [Next]_vars
      => [Service!Next]_(Service!vars)
  <2> SUFFICES ASSUME TypeOK, TypeOK', TunnelInv, TunnelInv', ServedInv, StepInv, [Next]_vars
               PROVE  Mapped
    BY DEF Mapped, Service!vars
  <2>1. CASE UNCHANGED vars
    BY <2>1 DEF vars, mapVars, workerVars, fouVars, natVars, Mapped, Due, Tunnels, HasTunnel
  <2> QED
    BY <2>1, MapCluster, MapReconcile, MapRunning, MapDeletion, MapFailures DEF Next, Operate, Interrupt
<1> QED
  BY <1>1, <1>2, TypeCorrect, TunnelInvariant, ServedInvariant, StepInvariant, PTL
     DEF Spec, Implements, Service!Spec
-----------------------------------------------------------------------------
(***************************************************************************)
(* What is proved of the abstract gateway carries over to the pod watcher. *)
(***************************************************************************)
Abstract == INSTANCE TunnelServiceProofs WITH
    Serveable <- {a \in Addr : Supported(a)},
    due <- Due, owners <- podIPToPod, served <- Tunnels

\* The abstract gateway of the mapping and the one of the theorems are the same.
LEMMA SameGateway == Implements => Abstract!Spec
<1>1. Service!Init => Abstract!Init
  BY DEF Service!Init, Abstract!Init
<1>2. Service!Next => Abstract!Next
  BY Zenon DEF Service!Next, Abstract!Next, Service!PodEvent, Abstract!PodEvent, Service!Serve,
     Abstract!Serve, Service!ServeOutdated, Abstract!ServeOutdated, Service!Forget,
     Abstract!Forget, Service!Ignore, Abstract!Ignore, Service!SetUp, Abstract!SetUp,
     Service!Release, Abstract!Release, Service!Restart, Abstract!Restart, Service!Own,
     Abstract!Own, Service!Client, Abstract!Client, Service!Over, Abstract!Over,
     Service!Exists, Abstract!Exists, Service!Range, Abstract!Range
<1> QED
  BY <1>1, <1>2, PTL DEF Implements, Service!Spec, Abstract!Spec, Service!vars, Abstract!vars

\* A running client pod that is neither queued nor being reconciled has a
\* working tunnel for each of its addresses, whatever other pods of the same
\* address come and go, and whatever fails meanwhile.
THEOREM PromisedAlways ==
  ASSUME DistinctNames, ~AddressChange
  PROVE  Spec => []Promised
<1>1. Abstract!Promise => Promised
  BY DEF Abstract!Promise, Promised, Service!Promise, Service!Client, Abstract!Client,
     Service!Needs, Abstract!Needs, Service!Range, Abstract!Range
<1> QED
  BY <1>1, ImplementsAlways, SameGateway, Abstract!PromiseAlways, PTL

\* An owned tunnel is there, and the pods podIPToPod names for an address exist
\* and, as long as they are clients, run, unless they are queued or being
\* reconciled.
THEOREM KeptAlways ==
  ASSUME DistinctNames, ~AddressChange
  PROVE  Spec => []Kept
<1>1. Abstract!OwnersLive => Kept
  BY DEF Abstract!OwnersLive, Kept, Service!OwnersLive, Service!Client, Abstract!Client,
     Service!Exists, Abstract!Exists
<1> QED
  BY <1>1, ImplementsAlways, SameGateway, Abstract!OwnersLiveAlways, PTL
-----------------------------------------------------------------------------
(***************************************************************************)
(* NoLeak.  A device has an owner in podIPToPod from the end of the        *)
(* reconciliation that added it to the release that deletes it.  Before    *)
(* that only handlePodRunning minds it: what it has added when it fails,   *)
(* and all there is when the process dies, is in neither map.              *)
(***************************************************************************)
Owned(n) == podIPToPod[remote[n]] # {}

\* handlePodRunning has dealt with the address of the device.
Added(n) ==
    /\ Handling
    /\ \E j \in 1 .. Len(ips) :
          ips[j] = remote[n] /\ (pc = "prune" \/ j < i \/ (pc # "addPeer" /\ j = i))

Minded(n) == Owned(n) \/ Added(n)

\* Every device is minded, or an interruption has left it.
LeakInv == \A n \in LinkName : remote[n] # None => Minded(n) \/ remote[n] \in orphans

\* After each step of handlePodRunning a device is minded unless it was there
\* and not minded before: the device the step adds is that of the address at its
\* index, and Record makes the pod an owner of them all.
LEMMA LeakRunning ==
  ASSUME TypeOK, ServedInv, HandlePodRunning, NEW n \in LinkName, remote'[n] # None
  PROVE  Minded(n)' \/ (remote'[n] = remote[n] /\ ~Minded(n))
<1> USE DEF mapVars, workerVars, fouVars, natVars, Goto
<1>0. /\ remote \in [LinkName -> Addr \cup {None}] /\ i \in Nat \ {0} /\ ips \in Seq(Addr)
      /\ pc \in {"addPeer", "setup", "addClient", "addRoute"} /\ i <= Len(ips) => ips[i] \in Addr
  BY SMTT(20) DEF TypeOK, FouTypeOK
<1>1. CASE AddPeerNew
  <2>1. /\ ips[i] \in Addr /\ i \in 1 .. Len(ips) /\ pc = "addPeer" /\ pc' = "setup"
        /\ remote' = [remote EXCEPT ![FouName[ips[i]]] = ips[i]]
        /\ UNCHANGED <<podIPToPod, ips, i>>
    BY <1>0, <1>1, SMTT(20) DEF AddPeerNew, NeedsPeer, AddPeerLink
  <2>2. CASE n = FouName[ips[i]]
    <3>1. remote'[n] = ips[i]
      BY <1>0, <2>1, <2>2
    <3> QED
      BY <2>1, <3>1 DEF Minded, Added, Handling
  <2>3. CASE n # FouName[ips[i]]
    <3>1. remote'[n] = remote[n]
      BY <1>0, <2>1, <2>3
    <3> QED
      BY <2>1, <3>1 DEF Minded, Owned, Added, Handling
  <2> QED
    BY <2>2, <2>3
<1>2. CASE Record
  <2>1. /\ pc = "prune" /\ key \in Pods /\ remote' = remote
        /\ \A a \in Addr : podIPToPod'[a] =
              IF a \in Range(ips) THEN podIPToPod[a] \cup {key} ELSE podIPToPod[a]
    BY <1>2 DEF Record, TypeOK
  <2>2. remote[n] \in Addr
    BY <1>0, <2>1
  <2>3. CASE Owned(n)
    BY <2>1, <2>2, <2>3 DEF Minded, Owned
  <2>4. CASE Added(n)
    <3>1. remote[n] \in Range(ips)
      BY <1>0, <2>4, SMTT(20) DEF Added, Range
    <3> QED
      BY <2>1, <2>2, <3>1 DEF Minded, Owned
  <2> QED
    BY <2>1, <2>3, <2>4 DEF Minded
<1>3. CASE PruneDel
  <2>1. HandlingInv /\ key \in Pods /\ podToPodIPs[key] \in Seq(Addr)
    BY <1>3 DEF PruneDel, Prunes, ServedInv, Handling, TypeOK
  <2> QED
    BY <1>3, <2>1, SMTT(20) DEF PruneDel, Prunes, existing, HandlingInv, Range, TypeOK
<1>4. CASE SkipAddr \/ AddClientOld \/ AddClientNew
  <2>1. /\ UNCHANGED <<remote, podIPToPod, ips>> /\ Handling /\ Handling' /\ pc # "prune"
        /\ i' = i + 1
    BY <1>4 DEF SkipAddr, AddClientOld, AddClientNew, Handling
  <2>2. \A j \in 1 .. Len(ips) : j < i \/ j = i => j < i'
    BY <1>0, <2>1, SMTT(20)
  <2> QED
    BY <2>1, <2>2 DEF Minded, Owned, Added
<1>5. CASE AddPeerOld \/ AddPeerSetup \/ AddClientUp \/ EndAdd \/ PruneKeep
  <2>1. /\ UNCHANGED <<remote, podIPToPod, ips>> /\ Handling /\ Handling'
        /\ pc' = "prune" \/ (pc # "prune" /\ pc' # "addPeer" /\ i' = i)
    BY <1>5 DEF AddPeerOld, AddPeerSetup, AddClientUp, EndAdd, PruneKeep, NeedsPeer,
       SetupFlowBased, LinkSetUp, Handling
  <2> QED
    BY <2>1 DEF Minded, Owned, Added
<1> QED
  BY <1>1, <1>2, <1>3, <1>4, <1>5 DEF HandlePodRunning

\* The same of handlePodDeletion: it takes the last owner of an address away
\* together with the device.
LEMMA LeakDeletion ==
  ASSUME DistinctNames, TypeOK, TunnelInv, HandlePodDeletion,
         NEW n \in LinkName, remote'[n] # None
  PROVE  Minded(n)' \/ (remote'[n] = remote[n] /\ ~Minded(n))
<1> USE DEF mapVars, workerVars, fouVars, natVars, Goto, Return
<1>0. remote \in [LinkName -> Addr \cup {None}] /\ podIPToPod \in [Addr -> SUBSET Pods]
  BY DEF TypeOK, FouTypeOK
<1>1. Minded(n) => Owned(n)
  BY DEF HandlePodDeletion, Release, Releases, ReleaseError, IndexError, Forget, Minded,
     Added, Handling
<1> SUFFICES remote'[n] = remote[n] /\ (Owned(n) => Owned(n)')
  BY <1>1 DEF Minded
<1>2. CASE Release
  <2>1. PICK a \in Addr : a = existing[i]
    BY <1>2, SMTT(20) DEF Release, Releases, existing, TypeOK
  <2>2. /\ podIPToPod'[a] = podIPToPod[a] \ {key} /\ key \in podIPToPod[a]
        /\ \A b \in Addr \ {a} : podIPToPod'[b] = podIPToPod[b]
    BY <1>0, <1>2, <2>1 DEF Release, Releases
  <2>3. CASE otherLiveTunnels
    <3>1. remote' = remote /\ podIPToPod[a] # {key}
      BY <1>2, <2>1, <2>3 DEF Release, otherLiveTunnels
    <3>2. podIPToPod'[a] # {}
      BY <2>2, <3>1
    <3> QED
      BY <1>0, <2>2, <3>1, <3>2 DEF Owned
  <2>4. CASE ~otherLiveTunnels
    <3>1. remote' = [remote EXCEPT ![FouName[a]] = None]
      BY <1>2, <2>1, <2>4 DEF Release, DelPeer
    <3>2. n # FouName[a] /\ remote'[n] = remote[n]
      BY <1>0, <3>1
    <3>3. remote[n] \in Addr \ {a}
      BY <1>0, <3>2 DEF TunnelInv
    <3> QED
      BY <2>2, <3>2, <3>3 DEF Owned
  <2> QED
    BY <2>3, <2>4
<1>3. CASE ReleaseError \/ Forget
  BY <1>3 DEF ReleaseError, Forget, Owned
<1> QED
  BY <1>2, <1>3 DEF HandlePodDeletion

\* The same of the cluster, of the choice of a key and of the new gateway, which
\* has no device.
LEMMA LeakOther ==
  ASSUME (\E k \in Pods : Cluster(k) \/ Reconcile(k)) \/ Replace,
         NEW n \in LinkName, remote'[n] # None
  PROVE  Minded(n)' \/ (remote'[n] = remote[n] /\ ~Minded(n))
<1> USE DEF mapVars, workerVars, fouVars, natVars, Return
<1>1. ASSUME NEW k \in Pods, Cluster(k)
      PROVE  UNCHANGED <<podIPToPod, remote, pc, key, ips, i>>
  <2>1. PICK object : PodEvent(k, object)
    BY <1>1, Zenon DEF Cluster, CreatePod, AssignIPs, TerminatePod, DeletePod,
       RemovePod, AnnotatePod
  <2> QED
    BY <2>1 DEF PodEvent
<1>2. ASSUME NEW k \in Pods, Reconcile(k)
      PROVE  pc = "idle" /\ UNCHANGED <<remote, podIPToPod>>
  BY <1>2 DEF Reconcile, ReconcileIgnored, ReconcileDeleted, ReconcileRunning, Start
<1> QED
  BY <1>1, <1>2 DEF Replace, Minded, Owned, Added, Handling

\* What the model with the history does, the model does.
LEMMA HistorySpec ==
  HSpec => Spec
<1>1. HInit => Init
  BY DEF HInit
<1>2. [HNext]_hvars => [Next]_vars
  BY DEF HNext, hvars, Next
<1> QED
  BY <1>1, <1>2, PTL DEF HSpec, Spec

\* LeakInv holds in every reachable state.
THEOREM LeakInvariant ==
  ASSUME DistinctNames, ~AddressChange
  PROVE  HSpec => []LeakInv
<1>1. HInit => LeakInv
  BY DEF HInit, Init, FouInit, LeakInv
<1>2. ASSUME TypeOK, TunnelInv, ServedInv, LeakInv, TypeOK', TunnelInv', [HNext]_hvars
      PROVE  LeakInv'
  <2>1. CASE UNCHANGED hvars
    BY <1>2, <2>1 DEF hvars, vars, mapVars, workerVars, fouVars, LeakInv, Minded, Owned, Added,
       Handling
  <2> SUFFICES ASSUME HNext, NEW n \in LinkName, remote'[n] # None
               PROVE  Minded(n)' \/ remote'[n] \in orphans'
    BY <1>2, <2>1 DEF LeakInv
  <2>2. Owned(n)' \/ remote'[n] \in Unowned'
    <3>1. remote' \in [LinkName -> Addr \cup {None}]
      BY <1>2 DEF TypeOK, FouTypeOK
    <3>2. remote'[n] \in Addr /\ FouName[remote'[n]] = n
      BY <1>2, <3>1 DEF TunnelInv
    <3> QED
      BY <3>2 DEF Owned, Unowned
  <2>3. CASE Operate /\ orphans' = orphans \cap Unowned'
    <3>1. Minded(n)' \/ (remote'[n] = remote[n] /\ ~Minded(n))
      BY <1>2, <2>3, LeakRunning, LeakDeletion, LeakOther DEF Operate
    <3> QED
      BY <1>2, <2>2, <2>3, <3>1 DEF LeakInv, Minded
  <2>4. CASE Interrupt /\ orphans' = Unowned'
    BY <2>2, <2>4 DEF Minded
  <2> QED
    BY <2>3, <2>4 DEF HNext
<1> QED
  BY <1>1, <1>2, HistorySpec, TypeCorrect, TunnelInvariant, ServedInvariant, PTL DEF HSpec

\* When no reconciliation is running or due, a tunnel device belongs to a pod
\* that exists, or an interruption of handlePodRunning left it and no pod has
\* taken it up since: handlePodDeletion has removed what was recorded for the
\* others, whatever fails and whenever the process dies.  Pods keep their
\* addresses.
THEOREM NoLeakAlways ==
  ASSUME DistinctNames, ~AddressChange
  PROVE  HSpec => []NoLeak
<1>1. TypeOK /\ ServedInv /\ StepInv /\ LeakInv /\ Kept => NoLeak
  <2> SUFFICES ASSUME TypeOK, ServedInv, StepInv, LeakInv, Kept, Quiescent,
                      NEW n \in LinkName, remote[n] # None, remote[n] \notin orphans
               PROVE  \E k \in Pods :
                         /\ remote[n] \in Range(pod[k].ips)
                         /\ pod[k].phase = "running" \/ (Exists(k) /\ ~pod[k].handled)
    BY DEF NoLeak
  <2>1. remote[n] \in Addr /\ podIPToPod[remote[n]] \in SUBSET Pods
    BY DEF TypeOK, FouTypeOK
  <2>2. podIPToPod[remote[n]] # {}
    BY DEF LeakInv, Minded, Owned, Added, Handling, Quiescent
  <2>3. PICK k \in Pods : k \in podIPToPod[remote[n]]
    BY <2>1, <2>2
  <2>4. k \notin Due
    BY DEF Due, Quiescent
  <2>5. Exists(k) /\ (pod[k].handled => pod[k].phase = "running")
    BY <2>1, <2>3, <2>4 DEF Kept, Service!OwnersLive, Service!Exists, Service!Client, Exists
  <2>6. remote[n] \in Range(podToPodIPs[k])
    BY <2>1, <2>3 DEF StepInv
  <2>7. podToPodIPs[k] \in {<<>>, pod[k].ips}
    BY <2>5 DEF ServedInv, KeyInv
  <2>8. podToPodIPs[k] # <<>>
    BY <2>6, SMTT(20) DEF Range
  <2> QED
    BY <2>5, <2>6, <2>7, <2>8
<1> QED
  BY <1>1, HistorySpec, TypeCorrect, ServedInvariant, StepInvariant, LeakInvariant, KeptAlways, PTL
=============================================================================
