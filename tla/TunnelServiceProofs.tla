------------------------- MODULE TunnelServiceProofs -------------------------
(***************************************************************************)
(* The promise of the abstract gateway, for any number of pods and         *)
(* addresses.                                                              *)
(***************************************************************************)
EXTENDS TunnelService, TLAPS

\* The inductive invariant: owned tunnels are there, a client the gateway owes
\* nothing owns its tunnels, and who owns one without being owed something is
\* not over.
OwnerInv ==
    /\ DOMAIN pod = Pods
    /\ \A k \in Pods : Range(pod[k].ips) \subseteq Addr
    /\ owners \in [Addr -> SUBSET Pods]
    /\ \A a \in Addr \cap Serveable : owners[a] # {} => a \in served
    /\ \A k \in Pods : Client(k) /\ k \notin due =>
          \A a \in Range(pod[k].ips) : k \in owners[a]
    /\ \A k \in Pods, a \in Addr : k \in owners[a] /\ k \notin due =>
          Exists(k) /\ (pod[k].handled => Client(k))

\* The invariant holds before the gateway has seen a pod.
LEMMA OwnerInvInit == Init => OwnerInv
  BY DEF Init, OwnerInv, Client, Exists, Range

\* Every step of the abstract gateway keeps the invariant.
LEMMA OwnerInvNext == OwnerInv /\ [Next]_vars => OwnerInv'
  <1> SUFFICES ASSUME OwnerInv, [Next]_vars PROVE OwnerInv'
    OBVIOUS
  <1> USE DEF OwnerInv, Client, Exists
  <1>1. ASSUME NEW k \in Pods, PodEvent(k) PROVE OwnerInv'
    BY <1>1 DEF PodEvent
  <1>2. ASSUME NEW k \in Pods, Serve(k) PROVE OwnerInv'
    BY <1>2 DEF Serve, Own
  <1>3. ASSUME NEW k \in Pods, ServeOutdated(k) PROVE OwnerInv'
    BY <1>3 DEF ServeOutdated, Own
  <1>4. ASSUME NEW k \in Pods, Forget(k) PROVE OwnerInv'
    BY <1>4 DEF Forget, Over
  <1>5. ASSUME NEW k \in Pods, Ignore(k) PROVE OwnerInv'
    BY <1>5 DEF Ignore
  <1>6. ASSUME NEW k \in Pods, NEW a \in Addr, SetUp(k, a) PROVE OwnerInv'
    BY <1>6 DEF SetUp
  <1>7. ASSUME NEW k \in Pods, NEW a \in Addr, Release(k, a) PROVE OwnerInv'
    BY <1>7 DEF Release
  <1>8. CASE Restart
    BY <1>8 DEF Restart
  <1>9. CASE UNCHANGED vars
    BY <1>9 DEF vars
  <1> QED
    BY <1>1, <1>2, <1>3, <1>4, <1>5, <1>6, <1>7, <1>8, <1>9 DEF Next

\* The invariant is all it takes for the promise.
LEMMA OwnerInvPromise == OwnerInv => Promise /\ OwnersLive
  BY DEF OwnerInv, Promise, OwnersLive, Needs

\* The abstract gateway keeps its promise to its clients: a running client pod
\* it owes no reconciliation has, and owns, every tunnel it asks for.
THEOREM PromiseAlways == Spec => []Promise
  BY OwnerInvInit, OwnerInvNext, OwnerInvPromise, PTL DEF Spec

\* The abstract gateway keeps an owned tunnel, and lets no ended client own one.
THEOREM OwnersLiveAlways == Spec => []OwnersLive
  BY OwnerInvInit, OwnerInvNext, OwnerInvPromise, PTL DEF Spec
=============================================================================
