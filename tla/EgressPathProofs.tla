-------------------------- MODULE EgressPathProofs --------------------------
(***************************************************************************)
(* Proof that ponad's side and the gateway's side of a client's path fit   *)
(* together: the proofs of the parts, and what links them.  The proof of   *)
(* the installer on its own comes first: it never exposes an incomplete    *)
(* plugin, for any number of versions, failures, restarts and power        *)
(* losses.                                                                 *)
(***************************************************************************)
EXTENDS EgressPath, PonadProofs

\* Nothing is missing in a file, and a power loss takes nothing from it.
Complete(f) == f.whole /\ f.exec /\ f.synced

(***************************************************************************)
(* PluginWhole is not inductive: a power loss brings back any of the files *)
(* on disk, and Rename exposes the temporary one.  So those on disk must   *)
(* be synchronised, and the temporary one must be what the steps so far    *)
(* have made of it.                                                        *)
(***************************************************************************)
DiskInv ==
    /\ InsTypeOK
    /\ plugin = NoFile \/ Complete(plugin)
    /\ \A f \in ondisk : f = NoFile \/ Complete(f)
    /\ step \notin {"create", "done", "failed"} => temp \in File
    /\ step \in {"chmod", "sync", "rename"} => temp.whole
    /\ step \in {"sync", "rename"} => temp.exec
    /\ step = "rename" => temp.synced

\* DiskInv holds on a node without the plugin.
LEMMA DiskInvInit == InsInit => DiskInv
BY DEF InsInit, DiskInv, InsTypeOK

\* Every system call, failure, restart and power loss keeps DiskInv.
LEMMA DiskInvNext == DiskInv /\ [InsNext]_insVars => DiskInv'
<1> SUFFICES ASSUME DiskInv, [InsNext]_insVars PROVE DiskInv'
  OBVIOUS
<1> USE DEF DiskInv, InsTypeOK, File, Complete
<1>1. CASE CreateTemp
  BY <1>1 DEF CreateTemp, Writes
<1>2. CASE Copy
  BY <1>2 DEF Copy, Writes
<1>3. CASE Chmod
  BY <1>3 DEF Chmod, Writes
<1>4. CASE Sync
  BY <1>4 DEF Sync, Writes
<1>5. CASE Rename
  BY <1>5 DEF Rename
<1>6. CASE InstallFails
  BY <1>6 DEF InstallFails
<1>7. CASE InstallKilled
  BY <1>7 DEF InstallKilled
<1>8. CASE Deploy
  BY <1>8 DEF Deploy
<1>9. CASE PowerLoss
  <2>1. PICK f \in ondisk : \E g \in File \cup {f} :
            Survives(f, g) /\ plugin' = g /\ ondisk' = {g}
    BY <1>9, Zenon DEF PowerLoss
  <2>2. PICK g \in File \cup {f} : Survives(f, g) /\ plugin' = g /\ ondisk' = {g}
    BY <2>1
  <2>3. g = f
    BY <2>2, Zenon DEF Survives
  <2> QED
    BY <1>9, <2>2, <2>3 DEF PowerLoss
<1>10. CASE UNCHANGED insVars
  BY <1>10 DEF insVars
<1> QED
  BY <1>1, <1>2, <1>3, <1>4, <1>5, <1>6, <1>7, <1>8, <1>9, <1>10 DEF InsNext, InstallPona

\* The plugin kubelet finds is always complete and executable: installPona
\* synchronises the file before it renames it.
THEOREM PluginWholeAlways == InsSpec => []PluginWhole
<1>1. DiskInv => PluginWhole
  BY DEF DiskInv, Complete, PluginWhole
<1> QED
  BY <1>1, DiskInvInit, DiskInvNext, PTL DEF InsSpec

-----------------------------------------------------------------------------
\* The gateway judges a running pod by the annotation that it has now.
Linked ==
    /\ annotation \in PodAnnotations
    /\ PodRuns => pod[ClientPod].handled = hasEgressAnnotation(annotation)
    /\ pod[ClientPod].phase \in {"absent", "running", "terminated"}

-----------------------------------------------------------------------------
(***************************************************************************)
(* The installer, composed with the rest, is still the installer.          *)
(***************************************************************************)
\* A step of the whole is a step of the installer or none.
LEMMA InstallerSteps == [PathNext]_pathVars => [InsNext]_insVars
<1> SUFFICES ASSUME PathNext PROVE [InsNext]_insVars
  BY DEF pathVars
<1> QED
  BY DEF PathNext, Install, InstallStops, DeployPonad, StartPonad, PonadOther, AddClient, OnNode,
     NodeRestart, CreatePod, PostIPs, Annotate, TerminatePod, PodChanges, GatewayWorks,
     GatewayOutdated, GatewayRestarts, InGateway, InsNext

\* kubelet never finds an incomplete plugin, whatever the other parts do.
THEOREM PathPluginWhole == PathSpec => []PluginWhole
<1>1. PathSpec => InsSpec
  BY InstallerSteps, PTL DEF PathSpec, PathInit, InsSpec
<1> QED
  BY <1>1, PluginWholeAlways, PTL

-----------------------------------------------------------------------------
(***************************************************************************)
(* ponad: the node adds a restart and a missing plugin to its steps.       *)
(***************************************************************************)
\* AddInv and DecapInv hold throughout.
LEMMA PathAddNext ==
    ASSUME DistinctNames, ~RetryInPlace, AddInv, DecapInv, [PathNext]_pathVars
    PROVE  AddInv' /\ DecapInv'
<1>0. ASSUME [Next]_vars PROVE AddInv' /\ DecapInv'
  BY <1>0, AddInvNext, DecapInvNext
<1>1. CASE PluginMissing
  <2>1. TypeOK' /\ Left'
    BY <1>1 DEF AddInv, PluginMissing, Goto, TypeOK, Left, nodeVars, apiVars, netns,
       fouVars, ncVars, FouTypeOK, NcTypeOK, Running
  <2> QED
    BY <1>1, <2>1 DEF AddInv, PluginMissing, Goto, Opening, Round, Rounds, Looping, DecapInv
<1>2. CASE NodeRestart
  <2>1. NewNamespace /\ ponad' = "down"
    BY <1>2 DEF NodeRestart
  <2>2. socket' \in BOOLEAN /\ late' \in BOOLEAN
    BY <1>2, Zenon DEF NodeRestart
  <2> QED
    BY <2>1, <2>2, AddInvNewNamespace, DecapInvNewNamespace
<1>3. CASE StartPonad \/ PonadOther \/ (AddClient /\ ~PluginMissing)
  <2>1. listEgress(annotation) \subseteq Annotations /\ Created \subseteq Egress
    BY EgressPathAssumption DEF listEgress
  <2>2. Next
    BY <1>3, <2>1 DEF StartPonad, PonadOther, AddClient, Next, KubeletAdd, ChangeObject
  <2> QED
    BY <1>0, <2>2
<1>4. CASE UNCHANGED vars
  BY <1>0, <1>4
<1>5. CASE TerminatePod
  <2>1. NewNamespace /\ UNCHANGED nodeVars
    BY <1>5, Zenon DEF TerminatePod, NewSandbox
  <2>2. ponad' \in {"down", "listening", "stopping"} /\ socket' \in BOOLEAN /\ late' \in BOOLEAN
    BY <2>1 DEF AddInv, TypeOK, nodeVars
  <2> QED
    BY <2>1, <2>2, AddInvNewNamespace, DecapInvNewNamespace
<1>6. UNCHANGED vars \/ PluginMissing \/ NodeRestart \/ StartPonad \/ PonadOther
        \/ (AddClient /\ ~PluginMissing) \/ TerminatePod
  BY DEF pathVars, PathNext, Install, InstallStops, DeployPonad, CreatePod, PostIPs, Annotate,
     GatewayWorks, GatewayOutdated, GatewayRestarts, InGateway
<1> QED
  BY <1>1, <1>2, <1>3, <1>4, <1>5, <1>6

-----------------------------------------------------------------------------
(***************************************************************************)
(* The gateway: a step of the whole is a step of TunnelService or none.    *)
(***************************************************************************)
\* The pod events are those of the pod's object.
LEMMA GatewaySteps == [PathNext]_pathVars => [Gateway!Next]_(Gateway!vars)
<1> SUFFICES ASSUME PathNext PROVE Gateway!Next \/ UNCHANGED gatewayVars
  BY DEF pathVars, gatewayVars, Gateway!vars
<1>1. CreatePod \/ PostIPs \/ Annotate \/ TerminatePod => Gateway!PodEvent(ClientPod)
  BY DEF CreatePod, PostIPs, Annotate, TerminatePod, PodChanges
<1>2. ASSUME NEW a \in Gateway!Needs(ClientPod), Gateway!SetUp(ClientPod, a) PROVE Gateway!Next
  <2>1. a \in Range(ClientIPs)
    BY <1>2, EgressPathAssumption DEF Gateway!SetUp
  <2> QED
    BY <1>2, <2>1, Zenon DEF Gateway!Next
<1>3. GatewayWorks \/ GatewayOutdated \/ GatewayRestarts => Gateway!Next
  BY <1>2, Zenon DEF GatewayWorks, GatewayOutdated, GatewayRestarts, Gateway!Next
<1>4. Install \/ InstallStops \/ DeployPonad \/ StartPonad \/ PonadOther \/ AddClient \/ NodeRestart
      => UNCHANGED gatewayVars
  BY DEF Install, InstallStops, DeployPonad, StartPonad, PonadOther, AddClient, OnNode, NodeRestart
<1> QED
  BY <1>1, <1>3, <1>4 DEF PathNext, Gateway!Next

\* The theorems about TunnelService, for the one pod of this composition.
Abstract == INSTANCE TunnelServiceProofs WITH Pods <- {ClientPod}, Addr <- Range(ClientIPs)

\* The abstract gateway of the composition and the one of the theorems are the
\* same.
LEMMA PathGateway == PathSpec => Abstract!Spec
<1>1. Gateway!Init => Abstract!Init
  BY DEF Gateway!Init, Abstract!Init
<1>2. Gateway!Next => Abstract!Next
  BY Zenon DEF Gateway!Next, Abstract!Next, Gateway!PodEvent, Abstract!PodEvent, Gateway!Serve,
     Abstract!Serve, Gateway!ServeOutdated, Abstract!ServeOutdated, Gateway!Forget,
     Abstract!Forget, Gateway!Ignore, Abstract!Ignore, Gateway!SetUp, Abstract!SetUp,
     Gateway!Release, Abstract!Release, Gateway!Restart, Abstract!Restart, Gateway!Own,
     Abstract!Own, Gateway!Client, Abstract!Client, Gateway!Over, Abstract!Over,
     Gateway!Exists, Abstract!Exists, Gateway!Range, Abstract!Range
<1>3. PathInit => Gateway!Init
  BY DEF PathInit
<1> QED
  BY <1>1, <1>2, <1>3, GatewaySteps, PTL DEF PathSpec, Abstract!Spec, Gateway!vars, Abstract!vars

-----------------------------------------------------------------------------
(***************************************************************************)
(* What links the two.                                                     *)
(***************************************************************************)
\* Every change of the annotation is an event for the gateway.
LEMMA LinkedNext == Linked /\ [PathNext]_pathVars => Linked'
<1> SUFFICES ASSUME Linked, [PathNext]_pathVars PROVE Linked'
  OBVIOUS
<1>1. CASE UNCHANGED <<annotation, pod>>
  BY <1>1 DEF Linked, PodRuns, hasEgressAnnotation
<1>2. ASSUME NEW phase \in {"running", "terminated"}, NEW list, PodChanges(phase, list),
             annotation' \in PodAnnotations
      PROVE  Linked'
  <2>1. pod'[ClientPod] = [phase |-> phase, ips |-> list, handled |-> hasEgressAnnotation(annotation')]
    BY <1>2, Zenon DEF PodChanges
  <2>2. pod'[ClientPod].phase = phase
    BY <2>1
  <2>3. pod'[ClientPod].handled = hasEgressAnnotation(annotation')
    BY <2>1
  <2> QED
    BY <1>2, <2>2, <2>3 DEF Linked, PodRuns, hasEgressAnnotation
<1>3. CASE CreatePod \/ PostIPs \/ Annotate \/ TerminatePod
  BY <1>2, <1>3 DEF CreatePod, PostIPs, Annotate, TerminatePod, Linked
<1>4. CASE GatewayWorks \/ GatewayOutdated \/ GatewayRestarts
  BY <1>1, <1>4 DEF GatewayWorks, GatewayOutdated, GatewayRestarts, InGateway, Gateway!Serve,
     Gateway!ServeOutdated, Gateway!Own, Gateway!Forget, Gateway!Ignore, Gateway!SetUp,
     Gateway!Release, Gateway!Restart
<1>5. CASE UNCHANGED <<annotation, gatewayVars>>
  BY <1>1, <1>5 DEF gatewayVars
<1>6. CreatePod \/ PostIPs \/ Annotate \/ TerminatePod \/ GatewayWorks \/ GatewayOutdated
        \/ GatewayRestarts \/ UNCHANGED <<annotation, gatewayVars>>
  BY DEF pathVars, PathNext, Install, InstallStops, DeployPonad, StartPonad, PonadOther, AddClient,
     OnNode, NodeRestart
<1> QED
  BY <1>3, <1>4, <1>5, <1>6

\* What the two sides promise, and the link, make the round trip.
LEMMA RoundTripFollows ==
    ASSUME AddInv, DecapInv, Linked, Abstract!Promise
    PROVE  RoundTrip
<1> SUFFICES ASSUME pc = "ok", Uses(OwnEgress), PodRuns
             PROVE  /\ Forward(OwnEgress)
                    /\ ClientPod \notin due /\ Documented(annotation) => Back
  BY DEF RoundTrip
<1>1. OwnEgress \in Egress /\ names # <<>>
  BY EgressPathAssumption, FirstNamed DEF AddInv, Uses
<1>2. Forward(OwnEgress)
  BY <1>1, AddInvConfigured, DecapInvAddDecap DEF AddConfigured, AddDecap, Forward
<1>3. /\ pod[ClientPod].phase = "running"
      /\ pod[ClientPod].handled = hasEgressAnnotation(annotation)
  BY DEF Linked, PodRuns
<1>4. Documented(annotation) => hasEgressAnnotation(annotation)
  BY DEF Documented, hasEgressAnnotation
<1>5. ClientPod \notin due /\ Documented(annotation) => Abstract!Needs(ClientPod) \subseteq served
  BY <1>3, <1>4 DEF Abstract!Promise, Abstract!Client
<1> QED
  BY <1>2, <1>5 DEF Back, Gateway!Needs, Abstract!Needs, Gateway!Range, Abstract!Range

\* A running pod that Add has connected to the Egress has its way to the gateway
\* and, if its annotation now names the Egress as documented and the gateway has
\* looked at it, its way back, for any addresses, destinations, annotations (lists
\* too) and failures on either side, provided that device names are distinct and
\* that every attempt gets a new sandbox.
THEOREM RoundTripAlways ==
    ASSUME DistinctNames, ~RetryInPlace
    PROVE  PathSpec => []RoundTrip
<1>1. PathInit => AddInv /\ DecapInv /\ Linked
  BY AddInvInit DEF PathInit, Init, FouInit, DecapInv, NoDevice, Linked, PodRuns, Gateway!Init
<1>2. (AddInv /\ DecapInv /\ Linked) /\ [PathNext]_pathVars => (AddInv /\ DecapInv /\ Linked)'
  BY PathAddNext, LinkedNext
<1>3. (AddInv /\ DecapInv /\ Linked) /\ Abstract!Promise => RoundTrip
  BY RoundTripFollows
<1> QED
  BY <1>1, <1>2, <1>3, PathGateway, Abstract!PromiseAlways, PTL DEF PathSpec
=============================================================================
