-------------------------------- MODULE Ponad --------------------------------
(***************************************************************************)
(* How a NAT client pod is set up: kubelet calls the CNI plugin            *)
(* (cmd/pona), the plugin calls ponad on the node, and ponad's Add         *)
(* (internal/ponad/server.go) reads the Egress and Service objects from    *)
(* the API server and configures the network namespace of the pod.         *)
(*                                                                         *)
(* One pod is modelled: calls for other pods work on other namespaces.     *)
(* The objects change while Add is running, any call of it may fail, and   *)
(* ponad may be stopped or killed.  After an error kubelet tries again, in *)
(* a new sandbox and so in an empty namespace; with RetryInPlace, in the   *)
(* same namespace, which is what clear and the "already exists" branches   *)
(* of the code are for.  A call that timed out is still at work in its     *)
(* namespace, which is not used again.                                     *)
(***************************************************************************)
EXTENDS NatClient

CONSTANTS
    Egress,         \* names of Egress objects, and of their Services
    Annotations,    \* what listEgress may return for the pod
    Destinations,   \* what spec.destinations of an Egress may hold
    Faults,         \* kinds of failure that happen: "call", "kill", "timeout"
    RetryInPlace    \* TRUE: Add may be called again for the same namespace

ASSUME PonadAssumption ==
    /\ Annotations \subseteq Seq(Egress) /\ \A s \in Annotations : IsInjective(s)
    /\ Destinations \subseteq SUBSET Prefix
    /\ Faults \subseteq {"call", "kill", "timeout"}
    /\ RetryInPlace \in BOOLEAN

VARIABLES
    dests,      \* Egress -> set of its destinations, None if there is none
    service,    \* Egress -> ClusterIP of its Service, None if there is none
    ponad,      \* "down", "listening", or "stopping" (GracefulStop)
    socket,     \* the file of the UNIX domain socket exists
    late,       \* an Add nobody waits for is running, in a discarded namespace
    fouInit,    \* FouTunnelController.Init in the namespace: "no", "partial", "done"
    names,      \* egNames: what the last Add has read in the pod's annotations
    pc,         \* the step of Add
    n,          \* index in names
    todo,       \* families or prefixes the current loop has not handled
    diff,       \* adds and dels of UpdateRoutes
    subnets,    \* what collectDestinationsForEgress has collected
    plan        \* Egress -> gateway address and subnets Add has used for it

apiVars == <<dests, service>>
nodeVars == <<ponad, socket, late>>
netns == <<fouVars, ncVars, fouInit>>
addVars == <<names, pc, n, todo, diff, subnets, plan>>
vars == <<apiVars, nodeVars, netns, addVars>>

Running == {"fouInit", "clear", "getEgress", "getService", "addPeer", "setup",
            "linkUp", "throws", "routes"}

Nothing == [gateway |-> None, subnets |-> {}]

TypeOK ==
    /\ FouTypeOK /\ NcTypeOK
    /\ dests \in [Egress -> Destinations \cup {None}]
    /\ service \in [Egress -> Addr \cup {None}]
    /\ ponad \in {"down", "listening", "stopping"} /\ socket \in BOOLEAN /\ late \in BOOLEAN
    /\ fouInit \in {"no", "partial", "done"}
    /\ names \in Annotations \cup {<<>>}
    /\ pc \in Running \cup {"idle", "ok", "error"}
    /\ pc \in Running \ {"fouInit", "clear"} => n \in 1 .. Len(names) + 1
    /\ pc \in {"getService", "addPeer", "setup", "linkUp", "throws", "routes"} =>
          n <= Len(names)
    /\ IF pc = "clear" THEN todo \subseteq Local /\ todo # {} ELSE todo \subseteq Prefix
    /\ subnets \subseteq Prefix /\ diff \subseteq Prefix
    /\ plan \in [Egress -> [gateway : Addr \cup {None}, subnets : SUBSET Prefix]]

Init ==
    /\ FouInit /\ NcInit /\ fouInit = "no"
    /\ dests = [e \in Egress |-> None] /\ service = [e \in Egress |-> None]
    /\ ponad = "down" /\ socket = FALSE /\ late = FALSE
    /\ names = <<>>
    /\ pc = "idle" /\ n = 1 /\ todo = {} /\ diff = {} /\ subnets = {}
    /\ plan = [e \in Egress |-> Nothing]

-----------------------------------------------------------------------------
(***************************************************************************)
(* The API server.  The ClusterIP of a Service never changes; a Service    *)
(* that is created anew gets another one.                                  *)
(***************************************************************************)
ChangeEgress(e) ==
    /\ \E d \in (Destinations \cup {None}) \ {dests[e]} : dests' = [dests EXCEPT ![e] = d]
    /\ UNCHANGED <<service, nodeVars, netns, addVars>>

ChangeService(e) ==
    /\ \E a \in IF service[e] = None THEN Addr \ Range(service) ELSE {None} :
          service' = [service EXCEPT ![e] = a]
    /\ UNCHANGED <<dests, nodeVars, netns, addVars>>

ChangeObject == \E e \in Egress : ChangeEgress(e) \/ ChangeService(e)

-----------------------------------------------------------------------------
(***************************************************************************)
(* The process.  net.Listen creates the socket's file and fails if it is   *)
(* there; closing the listener removes it.                                 *)
(***************************************************************************)
PonadStart ==
    /\ ponad = "down" /\ ~socket
    /\ ponad' = "listening" /\ socket' = TRUE
    /\ UNCHANGED <<late, apiVars, netns, addVars>>

\* Mutant of PonadStop: the file of the socket is not removed.
PonadStopNoUnlink ==
    /\ ponad = "listening"
    /\ ponad' = "stopping"
    /\ UNCHANGED <<socket, late, apiVars, netns, addVars>>

\* SIGTERM: GracefulStop closes the listener and waits for a running Add.
PonadStop ==
    /\ ponad = "listening"
    /\ ponad' = "stopping" /\ socket' = FALSE
    /\ UNCHANGED <<late, apiVars, netns, addVars>>

PonadStopped ==
    /\ ponad = "stopping" /\ pc \notin Running /\ ~late
    /\ ponad' = "down"
    /\ UNCHANGED <<socket, late, apiVars, netns, addVars>>

-----------------------------------------------------------------------------
Goto(step) == pc' = step /\ UNCHANGED <<names, n, todo, diff, subnets, plan>>

\* Add returns an error.
Error ==
    /\ pc' = "error" /\ n' = 1 /\ todo' = {} /\ diff' = {} /\ subnets' = {}
    /\ UNCHANGED <<names, plan>>

\* cmdAdd cannot connect.
CmdAddRefused ==
    /\ pc = "idle" /\ ponad # "listening"
    /\ pc' = "error" /\ plan' = [e \in Egress |-> Nothing]
    /\ UNCHANGED <<names, n, todo, diff, subnets, apiVars, nodeVars, netns>>

\* cmdAdd, and Add up to the call of containerNS.Do.  The annotations may have
\* changed since an earlier attempt.
CmdAdd(list) ==
    /\ pc = "idle" /\ ponad = "listening"
    /\ names' = list
    /\ pc' = IF list = <<>> THEN "ok" ELSE "fouInit"
    /\ plan' = [e \in Egress |-> Nothing]
    /\ UNCHANGED <<n, todo, diff, subnets, apiVars, nodeVars, netns>>

KubeletAdd == CmdAddRefused \/ \E list \in Annotations : CmdAdd(list)

\* ft.Init (module GatewayInit has its steps): the port can be opened once, so
\* that an Init that was cut short after it can never be completed.
InitFou ==
    /\ pc = "fouInit"
    /\ IF fouInit = "partial"
         THEN Error /\ UNCHANGED fouInit
         ELSE /\ fouInit' = "done"
              /\ pc' = "clear" /\ todo' = Local /\ UNCHANGED <<names, n, diff, subnets, plan>>
    /\ UNCHANGED <<fouVars, ncVars, apiVars, nodeVars>>

\* nt.Init, IPv4 first.
family == IF "v4" \in todo THEN "v4" ELSE "v6"

InitNatClear ==
    /\ pc = "clear"
    /\ ClearRule(family) \/ ClearRoute(family)
    /\ UNCHANGED <<fouVars, fouInit, apiVars, nodeVars, addVars>>

InitNatRule ==
    /\ pc = "clear"
    /\ AddRule(family)
    /\ todo' = todo \ {family}
    /\ pc' = IF todo' = {} THEN "getEgress" ELSE "clear"
    /\ UNCHANGED <<names, n, diff, subnets, plan, fouVars, fouInit, apiVars, nodeVars>>

(***************************************************************************)
(* The loop over egNames: collectDestinationsForEgress reads the Egress    *)
(* and then the Service, and keeps the destinations of the Service's       *)
(* family; AddPeer; UpdateRoutes.                                          *)
(***************************************************************************)
egName == names[n]
gateway == plan[egName].gateway
link == FouName[gateway]

GetEgress ==
    /\ pc = "getEgress" /\ n <= Len(names)
    /\ IF dests[egName] = None
         THEN Error
         ELSE /\ subnets' = dests[egName] /\ pc' = "getService"
              /\ UNCHANGED <<names, n, todo, diff, plan>>
    /\ UNCHANGED <<apiVars, nodeVars, netns>>

OfFamily(ps, a) == {p \in ps : PrefixFamily(p) = FamilyOf(a)}

\* Then AddPeer rejects a gateway whose family the pod does not have.
GetService ==
    /\ pc = "getService"
    /\ IF service[egName] = None \/ ~Supported(service[egName])
         THEN Error
         ELSE /\ subnets' = OfFamily(subnets, service[egName])
              /\ plan' = [plan EXCEPT ![egName] =
                            [gateway |-> service[egName], subnets |-> subnets']]
              /\ pc' = "addPeer"
              /\ UNCHANGED <<names, n, todo, diff>>
    /\ UNCHANGED <<apiVars, nodeVars, netns>>

AddPeerOld ==
    /\ pc = "addPeer" /\ LinkExists(gateway)
    /\ Goto("linkUp")
    /\ UNCHANGED <<apiVars, nodeVars, netns>>

AddPeerNew ==
    /\ pc = "addPeer" /\ AddPeerLink(gateway)
    /\ Goto("setup")
    /\ UNCHANGED <<ncVars, fouInit, apiVars, nodeVars>>

AddPeerSetup ==
    /\ pc = "setup" /\ SetupFlowBased(gateway)
    /\ Goto("linkUp")
    /\ UNCHANGED <<ncVars, fouInit, apiVars, nodeVars>>

\* adds and dels come from the routes collectRoutes finds at the beginning.
UpdateRoutesUp ==
    /\ pc = "linkUp" /\ LinkSetUp(gateway)
    /\ diff' = (subnets \ Current(link)) \cup (Current(link) \ subnets)
    /\ pc' = "throws" /\ todo' = Private /\ UNCHANGED <<names, n, subnets, plan>>
    /\ UNCHANGED <<ncVars, fouInit, apiVars, nodeVars>>

UpdateRoutesThrow ==
    /\ pc = "throws"
    /\ \E p \in todo : addThrow(p) /\ todo' = todo \ {p}
    /\ UNCHANGED <<names, pc, n, diff, subnets, plan, fouVars, fouInit, apiVars, nodeVars>>

UpdateRoutesThrown ==
    /\ pc = "throws" /\ todo = {}
    /\ todo' = diff /\ diff' = {}
    /\ pc' = "routes"
    /\ UNCHANGED <<names, n, subnets, plan, apiVars, nodeVars, netns>>

\* The adds come before the dels.
UpdateRoutesRoute ==
    /\ pc = "routes"
    /\ \E p \in todo :
          /\ p \in subnets \/ todo \cap subnets = {}
          /\ IF p \in subnets THEN addRoute(link, p) ELSE delRoute(p)
          /\ todo' = todo \ {p}
    /\ UNCHANGED <<names, pc, n, diff, subnets, plan, fouVars, fouInit, apiVars, nodeVars>>

\* RouteAdd meets a route with the same destination and metric.
RouteExists ==
    /\ \/ pc = "throws" /\ todo \cap throws # {}
       \/ pc = "routes" /\ \E p \in todo \cap subnets : via[p] # None
    /\ Error
    /\ UNCHANGED <<apiVars, nodeVars, netns>>

\* Mutant of NextEgress: an egress is skipped.
NextEgressSkips ==
    /\ pc = "routes" /\ todo = {}
    /\ pc' = "getEgress" /\ n' = n + 2 /\ subnets' = {} /\ UNCHANGED <<names, todo, diff, plan>>
    /\ UNCHANGED <<apiVars, nodeVars, netns>>

NextEgress ==
    /\ pc = "routes" /\ todo = {}
    /\ pc' = "getEgress" /\ n' = n + 1 /\ subnets' = {} /\ UNCHANGED <<names, todo, diff, plan>>
    /\ UNCHANGED <<apiVars, nodeVars, netns>>

AddReturns ==
    /\ pc = "getEgress" /\ n > Len(names)
    /\ pc' = "ok" /\ n' = 1 /\ UNCHANGED <<names, todo, diff, subnets, plan>>
    /\ UNCHANGED <<apiVars, nodeVars, netns>>

-----------------------------------------------------------------------------
(***************************************************************************)
(* Failures and retries.                                                   *)
(***************************************************************************)
\* What a step leaves when it fails or is cut short.
Interrupted ==
    /\ fouInit' \in IF pc = "fouInit" /\ fouInit = "no" THEN {"no", "partial"} ELSE {fouInit}
    /\ IF pc = "setup" THEN SetupFlowBasedFailed(gateway) ELSE UNCHANGED fouVars
    /\ Error
    /\ UNCHANGED <<ncVars, apiVars>>

CallFails ==
    /\ "call" \in Faults /\ pc \in Running
    /\ Interrupted
    /\ UNCHANGED nodeVars

\* The pod is in an empty network namespace, and Add has not been called.
NewNamespace ==
    /\ pc' = "idle" /\ n' = 1 /\ todo' = {} /\ diff' = {} /\ subnets' = {}
    /\ remote' = [l \in LinkName |-> None] /\ up' = {} /\ decap' = {}
    /\ ncRule' = {} /\ throws' = {} /\ via' = [p \in Prefix |-> None]
    /\ fouInit' = "no"
    /\ plan' = [e \in Egress |-> Nothing]
    /\ UNCHANGED <<names, apiVars>>

\* The one minute of cmdAdd is over.  ponad's Add goes on, in a namespace that
\* kubelet discards for a new one.
CmdAddTimeout ==
    /\ "timeout" \in Faults /\ pc \in Running
    /\ NewNamespace /\ late' = TRUE
    /\ UNCHANGED <<ponad, socket>>

LateReturns ==
    /\ late /\ late' = FALSE
    /\ UNCHANGED <<ponad, socket, apiVars, netns, addVars>>

\* What becomes of the calls when the process ends.
CutOff ==
    /\ late' = FALSE
    /\ IF pc \in Running THEN Interrupted ELSE UNCHANGED <<netns, addVars, apiVars>>

\* The graceful stop takes too long: the process ends with a call running.
PonadStopKilled ==
    /\ ponad = "stopping" /\ (pc \in Running \/ late)
    /\ ponad' = "down" /\ UNCHANGED socket
    /\ CutOff

\* SIGKILL: nobody removes the file of the socket.
PonadKilled ==
    /\ "kill" \in Faults /\ ponad # "down"
    /\ ponad' = "down" /\ UNCHANGED socket
    /\ CutOff

NewSandbox == NewNamespace /\ UNCHANGED nodeVars

\* cmdDel and Del do nothing, so between two attempts nothing is undone.
Retry ==
    /\ pc = "error"
    /\ \/ NewSandbox
       \/ RetryInPlace /\ Goto("idle") /\ UNCHANGED <<apiVars, nodeVars, netns>>

\* The sandbox of a running pod has died and is created anew.
Recreate == pc = "ok" /\ NewSandbox

-----------------------------------------------------------------------------
Add ==
    InitFou \/ InitNatClear \/ InitNatRule \/ GetEgress \/ GetService \/ AddPeerOld
        \/ AddPeerNew \/ AddPeerSetup \/ UpdateRoutesUp \/ UpdateRoutesThrow
        \/ UpdateRoutesThrown \/ UpdateRoutesRoute \/ RouteExists \/ NextEgress \/ AddReturns

Next ==
    \/ ChangeObject
    \/ PonadStart \/ PonadStop \/ PonadStopped
    \/ KubeletAdd \/ Add
    \/ CallFails \/ CmdAddTimeout \/ LateReturns \/ PonadStopKilled \/ PonadKilled
    \/ Retry \/ Recreate

Spec == Init /\ [][Next]_vars

\* ponad runs, the DaemonSet's container is restarted when it has ended, and
\* kubelet calls the plugin and retries until the pod has its sandbox.
FairSpec ==
    /\ Spec
    /\ WF_vars(Add) /\ WF_vars(PonadStart) /\ WF_vars(PonadStopped)
    /\ WF_vars(KubeletAdd) /\ WF_vars(Retry) /\ WF_vars(LateReturns)
-----------------------------------------------------------------------------
(***************************************************************************)
(* Safety.                                                                 *)
(***************************************************************************)
Uses(e) == \E j \in 1 .. Len(names) : names[j] = e

\* When Add reports success, the namespace is what the objects it has read
\* ask for: the rules for both families, the throw routes, for each egress a
\* device that is up with the Service's address as its remote end, and exactly
\* the routes to the destinations, also when an earlier attempt for other
\* destinations was cut short in the same namespace.
AddConfigured ==
    pc = "ok" /\ names # <<>> =>
        /\ fouInit = "done" /\ ncRule = Local /\ throws = Private
        /\ \A e \in Egress : Uses(e) =>
              LET g == plan[e].gateway IN
              /\ remote[FouName[g]] = g /\ FouName[g] \in up
              /\ plan[e].subnets = {p \in Prefix : via[p] = FouName[g]}
        /\ \A p \in Prefix : via[p] # None =>
              \E e \in Egress : Uses(e) /\ via[p] = FouName[plan[e].gateway]

-----------------------------------------------------------------------------
(***************************************************************************)
(* Liveness.                                                               *)
(***************************************************************************)
\* Failures are transient and ponad is not stopped over and over again.
FaultsCease ==
    <>[][~CallFails /\ ~CmdAddTimeout /\ ~PonadKilled /\ ~PonadStop /\ ~Recreate]_vars

Usable(e) ==
    /\ dests[e] # None
    /\ service[e] # None /\ Supported(service[e])

\* The pod gets its network, if its Egress objects and their Services come to
\* exist for good: the retries of kubelet take care of an Egress that is
\* created later than the pod and of attempts that failed.
EventuallyAdded ==
    FaultsCease /\ <>[](\A e \in Egress : Uses(e) => Usable(e)) => <>(pc = "ok")
=============================================================================
