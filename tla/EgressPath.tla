----------------------------- MODULE EgressPath -----------------------------
(***************************************************************************)
(* The whole path of one client pod: pona-installer puts the plugin on the *)
(* node, kubelet runs it, ponad configures the pod's namespace (module     *)
(* Ponad), and a NAT gateway sees the pod and sets up the tunnel back.     *)
(*                                                                         *)
(* The two sides never talk to each other.  They meet in the annotation of *)
(* the pod: ponad reads it once, in Add, and takes it apart (listEgress);  *)
(* the gateway reads it in every reconciliation, in its own way            *)
(* (hasEgressAnnotation).                                                  *)
(*                                                                         *)
(* The gateway is the abstract one of TunnelService, which PodWatcher      *)
(* implements; an egress with several replicas has several of them, and    *)
(* each of them is this one.                                               *)
(***************************************************************************)
EXTENDS Ponad, Installer

CONSTANTS
    ClientPod,      \* the key of the pod
    ClientIPs,      \* its status.podIPs
    Serveable,      \* those of them whose family the gateway has
    OwnEgress,      \* namespace and name of the Egress of the gateway
    Created,        \* the Egresses, of those a pod may name, that users create
    PodAnnotations  \* namespace -> names: what the annotations of the pod may say

\* An Egress is <<namespace, name>>.
Named(ann) == UNION {{<<ns, name>> : name \in Range(ann[ns])} : ns \in DOMAIN ann}

ASSUME EgressPathAssumption ==
    /\ OwnEgress \in Egress /\ Created \subseteq Egress
    /\ Serveable \subseteq Range(ClientIPs)
    /\ \A ann \in PodAnnotations : Named(ann) \subseteq Egress

VARIABLES
    annotation,     \* the annotations of the pod with the prefix of pona
    pod, due, owners, served    \* the gateway's side, as in TunnelService

gatewayVars == <<pod, due, owners, served>>
pathVars == <<vars, insVars, annotation, gatewayVars>>

Gateway == INSTANCE TunnelService WITH Pods <- {ClientPod}, Addr <- Range(ClientIPs)

PathInit ==
    /\ Init /\ InsInit /\ Gateway!Init
    /\ annotation \in PodAnnotations

-----------------------------------------------------------------------------
(***************************************************************************)
(* The two readings of the annotation.                                     *)
(***************************************************************************)
\* listEgress goes through a Go map: the namespaces come in any order, the names
\* of each in the order of its list.
listEgress(ann) ==
    {list \in Annotations :
        /\ \A j \in DOMAIN list : list[j][1] \in DOMAIN ann
        /\ \A ns \in DOMAIN ann :
              LET InNamespace(e) == e[1] = ns IN
              SelectSeq(list, InNamespace) = [j \in DOMAIN ann[ns] |-> <<ns, ann[ns][j]>>]}

\* Mutant of hasEgressAnnotation: without the "shortcut for the most typical
\* case".
hasEgressAnnotationList(ann) ==
    \E ns \in DOMAIN ann : ns = OwnEgress[1] /\ OwnEgress[1] \in Range(ann[ns])

\* The value is the name of the Egress, or the namespace is in the list.
hasEgressAnnotation(ann) ==
    \E ns \in DOMAIN ann :
        ns = OwnEgress[1] /\ (ann[ns] = <<OwnEgress[2]>> \/ OwnEgress[1] \in Range(ann[ns]))

-----------------------------------------------------------------------------
(***************************************************************************)
(* The node: the pod of the DaemonSet runs pona-installer and then ponad.  *)
(***************************************************************************)
OnNode == UNCHANGED <<insVars, annotation, gatewayVars>>

Install == InstallPona /\ UNCHANGED <<vars, annotation, gatewayVars>>

InstallStops == (InstallFails \/ InstallKilled) /\ UNCHANGED <<vars, annotation, gatewayVars>>

DeployPonad ==
    /\ ponad = "down" /\ Deploy
    /\ UNCHANGED <<vars, annotation, gatewayVars>>

StartPonad == Returned /\ PonadStart /\ OnNode

PonadOther ==
    /\ \/ \E e \in Created : ChangeEgress(e) \/ ChangeService(e)
       \/ PonadStop \/ PonadStopped \/ Add \/ LateReturns \/ Retry \/ Recreate
       \/ CallFails \/ CmdAddTimeout \/ PonadStopKilled \/ PonadKilled
    /\ OnNode

PodRuns == pod[ClientPod].phase = "running"

\* kubelet cannot set up the sandbox without the plugin.
PluginMissing ==
    /\ plugin = NoFile /\ pc = "idle"
    /\ Goto("error") /\ UNCHANGED <<apiVars, nodeVars, netns>>

AddClient ==
    /\ PodRuns
    /\ \/ PluginMissing
       \/ plugin # NoFile /\ (CmdAddRefused \/ \E list \in listEgress(annotation) : CmdAdd(list))
    /\ OnNode

\* The node loses power.  /run is in memory, so the socket is gone with it, and
\* so are all network namespaces.
NodeRestart ==
    /\ PowerLoss
    /\ NewNamespace /\ ponad' = "down" /\ socket' = FALSE /\ late' = FALSE
    /\ UNCHANGED <<annotation, gatewayVars>>

-----------------------------------------------------------------------------
(***************************************************************************)
(* The pod object, as the gateway sees it.  kubelet reports the addresses  *)
(* when the sandbox is there.  They stay when it is created anew, which is *)
(* a restriction: TunnelService promises nothing to a pod whose addresses  *)
(* change.                                                                 *)
(***************************************************************************)
PodChanges(phase, list) ==
    /\ pod' = [k \in {ClientPod} |->
          [phase |-> phase, ips |-> list, handled |-> hasEgressAnnotation(annotation')]]
    /\ Gateway!PodEvent(ClientPod)
    /\ UNCHANGED insVars

CreatePod ==
    /\ pod[ClientPod].phase = "absent" /\ UNCHANGED <<annotation, vars>>
    /\ PodChanges("running", <<>>)

PostIPs ==
    /\ PodRuns /\ pc = "ok" /\ pod[ClientPod].ips = <<>> /\ UNCHANGED <<annotation, vars>>
    /\ PodChanges("running", ClientIPs)

Annotate ==
    /\ PodRuns /\ annotation' \in PodAnnotations \ {annotation} /\ UNCHANGED vars
    /\ PodChanges("running", pod[ClientPod].ips)

\* kubelet works on a pod in one thread: it stops the sandbox after the call that
\* is running has returned or timed out.
TerminatePod ==
    /\ PodRuns /\ pc \notin Running /\ NewSandbox /\ UNCHANGED annotation
    /\ PodChanges("terminated", pod[ClientPod].ips)

-----------------------------------------------------------------------------
InGateway == UNCHANGED <<vars, insVars, annotation>>

\* What the gateway does until it owes the pod nothing.
GatewayWorks ==
    /\ \/ Gateway!Serve(ClientPod) \/ Gateway!Forget(ClientPod) \/ Gateway!Ignore(ClientPod)
       \/ \E a \in Gateway!Needs(ClientPod) \ served : Gateway!SetUp(ClientPod, a)
       \/ \E a \in Range(ClientIPs) : Gateway!Release(ClientPod, a)
    /\ InGateway

\* A reconciliation that has begun with an older object.
GatewayOutdated ==
    /\ \/ Gateway!ServeOutdated(ClientPod)
       \/ \E a \in Range(ClientIPs) : Gateway!SetUp(ClientPod, a)
    /\ InGateway

GatewayRestarts == Gateway!Restart /\ InGateway

PathNext ==
    \/ Install \/ InstallStops \/ DeployPonad \/ StartPonad \/ PonadOther \/ AddClient
    \/ NodeRestart
    \/ CreatePod \/ PostIPs \/ Annotate \/ TerminatePod
    \/ GatewayWorks \/ GatewayOutdated \/ GatewayRestarts

PathSpec == PathInit /\ [][PathNext]_pathVars

\* The containers are run and restarted, kubelet retries and reports, and the
\* gateway's worker runs (EventuallyServed of PodWatcher).
PathFairSpec ==
    /\ PathSpec
    /\ WF_pathVars(Install \/ StartPonad \/ (PonadStopped /\ OnNode))
    /\ WF_pathVars(Add /\ OnNode) /\ WF_pathVars(LateReturns /\ OnNode)
    /\ WF_pathVars(AddClient \/ PostIPs \/ (Retry /\ OnNode))
    /\ WF_pathVars(GatewayWorks)
-----------------------------------------------------------------------------
\* The way to the gateway: a device to the Service's address that is up, the
\* routes to the destinations, and what takes the answers off the tunnel.
Forward(e) ==
    LET g == plan[e].gateway IN
    /\ remote[FouName[g]] = g /\ FouName[g] \in up /\ FamilyOf(g) \in decap
    /\ \A p \in plan[e].subnets : via[p] = FouName[g]

Back == Gateway!Needs(ClientPod) \subseteq served

\* The annotation as docs/design.md:163 has it: the value for the namespace is the
\* name of the Egress.
Documented(ann) ==
    OwnEgress[1] \in DOMAIN ann /\ ann[OwnEgress[1]] = <<OwnEgress[2]>>

\* A running pod that Add has connected to the Egress has its way to the
\* gateway, whatever became of its annotation.  If the annotation now names the
\* Egress as documented, the gateway, unless it has yet to look at the pod, has
\* the tunnel back, also after either side was restarted or replaced and after
\* the annotation was another one, or a list, in between.  (With a list the pod is
\* a client to ponad and not to hasEgressAnnotation.)
RoundTrip ==
    pc = "ok" /\ PodRuns /\ Uses(OwnEgress) =>
        /\ Forward(OwnEgress)
        /\ ClientPod \notin due /\ Documented(annotation) => Back

-----------------------------------------------------------------------------
(***************************************************************************)
(* Liveness.                                                               *)
(***************************************************************************)
\* Failures and changes come to an end.
Settles ==
    <>[][/\ ~CallFails /\ ~CmdAddTimeout /\ ~PonadKilled /\ ~PonadStop /\ ~Recreate
         /\ ~NodeRestart /\ ~InstallKilled /\ ~Deploy /\ ~Annotate /\ ~GatewayRestarts]_pathVars

\* A client pod that stays, and that names one Egress at most, gets its network,
\* and a way there and back if Add has connected it to this gateway's Egress and
\* the annotation names it still, provided the Egress and Service come to exist
\* for good.  The plugin comes in time, however often its installation was killed
\* or undone by a power loss, unless a call of it fails on a node without one:
\* main logs the error, and nothing is tried again.
EventuallyConnected ==
    /\ Settles
    /\ <>[](PodRuns /\ (step = "failed" => plugin # NoFile))
    /\ <>[](Cardinality(Named(annotation)) <= 1 /\ \A e \in Named(annotation) : Usable(e))
    => <>[](/\ pc = "ok"
            /\ Uses(OwnEgress) /\ Documented(annotation) => Forward(OwnEgress) /\ Back)
=============================================================================
