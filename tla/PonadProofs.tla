----------------------------- MODULE PonadProofs -----------------------------
(***************************************************************************)
(* Proofs about Add: what it reports as a success is one, for any pods'    *)
(* annotations, destinations, addresses and failures.                      *)
(***************************************************************************)
EXTENDS Ponad, TLAPS

USE ZenonT(20)

\* The steps of the loop over egNames.
Looping == {"getEgress", "getService", "addPeer", "setup", "linkUp", "throws", "routes"}

\* The egress that Add connects first, its gateway and the device to it.
First == names[1]
FirstGateway == plan[First].gateway
FirstLink == FouName[FirstGateway]

NoRoutes == \A p \in Prefix : via[p] = None

\* The routes of table 117 are those of the first egress.
FirstDone ==
    /\ FirstGateway \in Addr
    /\ remote[FirstLink] = FirstGateway /\ FirstLink \in up
    /\ throws = Private
    /\ plan[First].subnets \subseteq Prefix
    /\ \A p \in Prefix : via[p] = IF p \in plan[First].subnets THEN FirstLink ELSE None

(***************************************************************************)
(* AddConfigured says nothing about an Add that is running, and the        *)
(* namespace it starts from may be one where another Add was cut short.    *)
(* What holds at any time (Left) is little: a device bears the name of its *)
(* remote end, and rules and routes are of a family the pod has, so that   *)
(* clear finds them.  Then the loop starts without routes, and what it has *)
(* made of them so far is known at every step.  Its second round ends with *)
(* an error, because the throw routes of the first are there.              *)
(***************************************************************************)
Left ==
    /\ \A l \in LinkName : remote[l] # None => FouName[remote[l]] = l
    /\ ncRule \subseteq Local
    /\ throws \subseteq Private
    /\ \A p \in Prefix : via[p] # None => PrefixFamily(p) \in Local

\* Add up to the loop.
Opening ==
    /\ pc \in {"fouInit", "clear"} => names # <<>>
    /\ pc \notin Looping => n = 1
    /\ pc = "clear" =>
          /\ fouInit = "done"
          /\ Local \subseteq ncRule \cup todo
          /\ \A p \in Prefix : via[p] # None => PrefixFamily(p) \in todo

\* The first round.
Round ==
    pc \in Looping /\ n = 1 =>
        /\ pc \in {"getEgress", "getService", "addPeer", "setup", "linkUp", "throws"} => NoRoutes
        /\ pc \in {"addPeer", "setup", "linkUp", "throws", "routes"} =>
              /\ FirstGateway \in Addr /\ Supported(FirstGateway)
              /\ plan[First].subnets = subnets
              /\ subnets = OfFamily(subnets, FirstGateway)
        /\ pc \in {"setup", "linkUp", "throws", "routes"} => remote[FirstLink] = FirstGateway
        /\ pc \in {"throws", "routes"} => FirstLink \in up
        /\ pc = "throws" => diff = subnets /\ Private \subseteq throws \cup todo
        /\ pc = "routes" =>
              /\ diff = {} /\ todo \subseteq subnets /\ throws = Private
              /\ \A p \in Prefix : via[p] = IF p \in subnets \ todo THEN FirstLink ELSE None

\* The second round, and the end.
Rounds ==
    /\ pc \in Looping =>
          /\ names # <<>> /\ fouInit = "done" /\ ncRule = Local
          /\ n \in {1, 2}
    /\ pc \in {"addPeer", "setup", "linkUp"} => gateway \in Addr
    /\ pc = "throws" => todo \subseteq Private
    /\ pc \in Looping /\ n = 2 =>
          /\ throws = Private
          /\ pc # "routes" /\ (pc = "throws" => todo = Private)
          /\ pc = "getEgress" => FirstDone
    /\ pc = "ok" /\ names # <<>> =>
          Len(names) = 1 /\ fouInit = "done" /\ ncRule = Local /\ FirstDone

\* The inductive invariant.
AddInv == TypeOK /\ Left /\ Opening /\ Round /\ Rounds

-----------------------------------------------------------------------------
\* The assumptions about constants, as facts.
LEMMA PonadConstants ==
    /\ V6 \subseteq Addr /\ Local \subseteq Family /\ Local # {}
    /\ FouName \in [Addr -> LinkName] /\ None \notin Addr \cup LinkName
    /\ Private \subseteq Prefix /\ Private # {}
    /\ Annotations \subseteq Seq(Egress) /\ Destinations \subseteq SUBSET Prefix
BY FouAssumption, NatClientAssumption, PonadAssumption

\* Add has read at least one name when it is at work.
LEMMA FirstNamed ==
    ASSUME TypeOK
    PROVE  names \in Seq(Egress) /\ (names # <<>> => First \in Egress /\ Len(names) >= 1)
<1>1. names \in Annotations \cup {<<>>}
  BY DEF TypeOK
<1>2. <<>> \in Seq(Egress) /\ Annotations \subseteq Seq(Egress)
  BY PonadConstants, SMTT(20)
<1>3. names \in Seq(Egress)
  BY <1>1, <1>2, ZenonT(20)
<1> QED
  BY <1>3, SMTT(20) DEF First

\* A new sandbox, and a node that was restarted, start from nothing.
LEMMA AddInvNewNamespace ==
    ASSUME AddInv, NewNamespace, (ponad' \in {"down", "listening", "stopping"}),
           socket' \in BOOLEAN, late' \in BOOLEAN
    PROVE  AddInv'
BY PonadConstants DEF AddInv, TypeOK, Left, Opening, Round, Rounds, NewNamespace, FouTypeOK,
   NcTypeOK, apiVars, Looping, Running, Nothing, Family

\* AddInv holds before Add is called for the first time.
LEMMA AddInvInit == Init => AddInv
<1> SUFFICES ASSUME Init PROVE AddInv
  OBVIOUS
<1>1. socket \in BOOLEAN /\ late \in BOOLEAN
  BY Zenon DEF Init
<1>2. TypeOK
  BY <1>1, PonadConstants DEF Init, TypeOK, FouTypeOK, FouInit, NcTypeOK, NcInit, Running,
     Nothing, Family
<1>3. Left
  BY DEF Init, FouInit, NcInit, Left
<1> QED
  BY <1>2, <1>3 DEF Init, AddInv, Opening, Round, Rounds, Looping

-----------------------------------------------------------------------------
(***************************************************************************)
(* The steps that leave the namespace and Add alone.                       *)
(***************************************************************************)
AddState == <<netns, addVars>>

\* The objects and the process matter to AddInv only by their types.
LEMMA AddInvOutside ==
    ASSUME AddInv, UNCHANGED AddState,
           dests' \in [Egress -> Destinations \cup {None}],
           service' \in [Egress -> Addr \cup {None}],
           ponad' \in {"down", "listening", "stopping"},
           socket' \in BOOLEAN, late' \in BOOLEAN
    PROVE  AddInv'
<1>1. TypeOK'
  BY DEF AddInv, AddState, netns, addVars, TypeOK, fouVars, ncVars, FouTypeOK, NcTypeOK
<1>2. Left'
  BY DEF AddInv, AddState, netns, addVars, fouVars, ncVars, Left
<1>3. Opening' /\ Round' /\ Rounds'
  BY DEF AddInv, AddState, netns, addVars, fouVars, ncVars, Opening, Round, Rounds,
     NoRoutes, FirstDone, First, FirstGateway, FirstLink, gateway, egName
<1> QED
  BY <1>1, <1>2, <1>3 DEF AddInv

\* Users, the API server, and the start and stop of ponad.
LEMMA AddInvNode ==
    ASSUME AddInv, ChangeObject \/ PonadStart \/ PonadStop \/ PonadStopped \/ LateReturns
    PROVE  AddInv'
<1> USE DEF nodeVars, apiVars
<1>0. /\ dests \in [Egress -> Destinations \cup {None}] /\ service \in [Egress -> Addr \cup {None}]
      /\ ponad \in {"down", "listening", "stopping"} /\ socket \in BOOLEAN /\ late \in BOOLEAN
  BY DEF AddInv, TypeOK
<1>1. ASSUME NEW e \in Egress, ChangeEgress(e) PROVE AddInv'
  BY <1>0, <1>1, AddInvOutside DEF ChangeEgress, AddState
<1>2. ASSUME NEW e \in Egress, ChangeService(e) PROVE AddInv'
  BY <1>0, <1>2, AddInvOutside DEF ChangeService, AddState
<1>3. CASE PonadStart
  <2>1. socket' \in BOOLEAN /\ late' \in BOOLEAN
    BY <1>0, <1>3, Zenon DEF PonadStart
  <2> QED
    BY <1>0, <1>3, <2>1, AddInvOutside DEF PonadStart, AddState
<1>4. CASE PonadStop
  <2>1. socket' \in BOOLEAN /\ late' \in BOOLEAN
    BY <1>0, <1>4, Zenon DEF PonadStop
  <2> QED
    BY <1>0, <1>4, <2>1, AddInvOutside DEF PonadStop, AddState
<1>5. CASE PonadStopped
  BY <1>0, <1>5, AddInvOutside DEF PonadStopped, AddState
<1>6. CASE LateReturns
  <2>1. late' \in BOOLEAN
    BY <1>6, Zenon DEF LateReturns
  <2> QED
    BY <1>0, <1>6, <2>1, AddInvOutside DEF LateReturns, AddState
<1> QED
  BY <1>1, <1>2, <1>3, <1>4, <1>5, <1>6 DEF ChangeObject

-----------------------------------------------------------------------------
(***************************************************************************)
(* Errors, retries and the beginning of Add.                               *)
(***************************************************************************)
\* An error may leave anything behind that Left allows.
LEMMA AddInvError ==
    ASSUME AddInv, Error, UNCHANGED <<remote, up, ncVars, apiVars>>,
           decap' \subseteq Family, fouInit' \in {"no", "partial", "done"},
           ponad' \in {"down", "listening", "stopping"},
           socket' \in BOOLEAN, late' \in BOOLEAN
    PROVE  AddInv'
<1>1. TypeOK'
  BY DEF AddInv, Error, TypeOK, FouTypeOK, NcTypeOK, ncVars, apiVars, Running
<1>2. Left'
  BY DEF AddInv, Error, ncVars, Left
<1> QED
  BY <1>1, <1>2 DEF AddInv, Error, Opening, Round, Rounds, Looping

\* A failed call, a timeout, and the end of the process, with or without a call
\* that is cut short.
LEMMA AddInvFailures ==
    ASSUME AddInv, CallFails \/ CmdAddTimeout \/ PonadStopKilled \/ PonadKilled
    PROVE  AddInv'
<1> USE DEF nodeVars
<1>0. /\ dests \in [Egress -> Destinations \cup {None}] /\ service \in [Egress -> Addr \cup {None}]
      /\ ponad \in {"down", "listening", "stopping"} /\ socket \in BOOLEAN /\ late \in BOOLEAN
      /\ decap \subseteq Family /\ fouInit \in {"no", "partial", "done"}
  BY DEF AddInv, TypeOK, FouTypeOK
<1>1. ASSUME Interrupted
      PROVE  /\ Error /\ UNCHANGED <<remote, up, ncVars, apiVars>>
             /\ decap' \subseteq Family /\ fouInit' \in {"no", "partial", "done"}
  <2>1. fouInit' \in {"no", "partial", "done"}
    BY <1>0, <1>1 DEF Interrupted
  <2>2. UNCHANGED <<remote, up>> /\ decap' \subseteq Family
    BY <1>0, <1>1, ZenonT(20) DEF Interrupted, SetupFlowBasedFailed, fouVars, FamilyOf, Family
  <2> QED
    BY <1>1, <2>1, <2>2 DEF Interrupted
<1>2. CASE CallFails
  BY <1>0, <1>1, <1>2, AddInvError DEF CallFails
<1>3. CASE CmdAddTimeout
  <2>1. late' \in BOOLEAN /\ socket' \in BOOLEAN
    BY <1>0, <1>3, Zenon DEF CmdAddTimeout
  <2> QED
    BY <1>0, <1>3, <2>1, AddInvNewNamespace DEF CmdAddTimeout
<1>4. ASSUME CutOff, ponad' = "down", UNCHANGED socket
      PROVE  AddInv'
  <2>1. late' \in BOOLEAN /\ socket' \in BOOLEAN
    BY <1>0, <1>4, Zenon DEF CutOff
  <2>2. CASE pc \in Running
    BY <1>0, <1>1, <1>4, <2>1, <2>2, AddInvError DEF CutOff
  <2>3. CASE pc \notin Running
    BY <1>0, <1>4, <2>1, <2>3, AddInvOutside DEF CutOff, AddState, apiVars
  <2> QED
    BY <2>2, <2>3
<1>5. CASE PonadStopKilled
  BY <1>4, <1>5 DEF PonadStopKilled
<1>6. CASE PonadKilled
  BY <1>4, <1>6 DEF PonadKilled
<1> QED
  BY <1>2, <1>3, <1>5, <1>6

\* kubelet calls the plugin, and calls it again in a new sandbox or in the old one.
LEMMA AddInvKubelet ==
    ASSUME AddInv, KubeletAdd \/ Retry \/ Recreate
    PROVE  AddInv'
<1>0. NewSandbox => AddInv'
  BY AddInvNewNamespace DEF NewSandbox, nodeVars, AddInv, TypeOK
<1>1. CASE CmdAddRefused
  <2>1. TypeOK' /\ Left'
    BY <1>1, PonadConstants DEF AddInv, CmdAddRefused, TypeOK, Left, nodeVars, apiVars, netns,
       fouVars, ncVars, FouTypeOK, NcTypeOK, Running, Nothing
  <2> QED
    BY <1>1, <2>1 DEF AddInv, CmdAddRefused, Opening, Round, Rounds, Looping
<1>2. ASSUME NEW list \in Annotations, CmdAdd(list) PROVE AddInv'
  <2>1. TypeOK' /\ Left'
    BY <1>2, PonadConstants DEF AddInv, CmdAdd, TypeOK, Left, nodeVars, apiVars, netns,
       fouVars, ncVars, FouTypeOK, NcTypeOK, Running, Nothing
  <2> QED
    BY <1>2, <2>1 DEF AddInv, CmdAdd, Opening, Round, Rounds, Looping
<1>3. CASE Retry /\ ~NewSandbox
  <2>1. pc = "error" /\ Goto("idle") /\ UNCHANGED <<apiVars, nodeVars, netns>>
    BY <1>3 DEF Retry
  <2>2. TypeOK' /\ Left'
    BY <2>1 DEF AddInv, Goto, TypeOK, Left, nodeVars, apiVars, netns,
       fouVars, ncVars, FouTypeOK, NcTypeOK, Running
  <2> QED
    BY <2>1, <2>2 DEF AddInv, Goto, Opening, Round, Rounds, Looping
<1> QED
  BY <1>0, <1>1, <1>2, <1>3 DEF KubeletAdd, Recreate

-----------------------------------------------------------------------------
(***************************************************************************)
(* The steps of Add before the loop.                                       *)
(***************************************************************************)
\* ft.Init leaves devices and routes alone.
LEMMA AddInvInitFou == ASSUME AddInv, InitFou PROVE AddInv'
<1>1. CASE fouInit = "partial"
  BY <1>1, AddInvError DEF AddInv, TypeOK, FouTypeOK, InitFou, fouVars, nodeVars
<1>2. CASE fouInit # "partial"
  <2>1. TypeOK'
    BY <1>2, PonadConstants DEF AddInv, InitFou, TypeOK, FouTypeOK, NcTypeOK, fouVars, ncVars,
       apiVars, nodeVars, Running
  <2>2. Left' /\ Opening'
    BY <1>2 DEF AddInv, InitFou, Left, Opening, fouVars, ncVars, Looping
  <2> QED
    BY <1>2, <2>1, <2>2 DEF AddInv, InitFou, Round, Rounds, Looping
<1> QED
  BY <1>1, <1>2

\* clear only takes rules and routes away.
LEMMA AddInvInitNatClear == ASSUME AddInv, InitNatClear PROVE AddInv'
<1>1. /\ ncRule' \subseteq ncRule /\ ncRule \subseteq ncRule' \cup {family}
      /\ throws' \subseteq throws
      /\ via' \in [Prefix -> LinkName \cup {None}]
      /\ \A p \in Prefix : via'[p] # None => via'[p] = via[p]
  BY PonadConstants DEF AddInv, TypeOK, NcTypeOK, InitNatClear, ClearRule, ClearRoute, Leftover
<1>2. family \in todo
  <2>1. todo \subseteq Local /\ todo # {}
    BY DEF AddInv, TypeOK, InitNatClear
  <2> QED
    BY <2>1, PonadConstants DEF family, Family
<1>3. TypeOK'
  BY <1>1 DEF AddInv, InitNatClear, TypeOK, FouTypeOK, NcTypeOK, fouVars, apiVars, nodeVars,
     addVars
<1>4. Left' /\ Opening'
  BY <1>1, <1>2 DEF AddInv, InitNatClear, Left, Opening, fouVars, addVars
<1> QED
  BY <1>3, <1>4 DEF AddInv, InitNatClear, Round, Rounds, Looping, addVars

\* The rule of a family is added when it has no routes any more; after the last
\* family the loop starts without any.
LEMMA AddInvInitNatRule == ASSUME AddInv, InitNatRule PROVE AddInv'
<1>0. todo \subseteq Local /\ todo # {}
  BY DEF AddInv, TypeOK, InitNatRule
<1>1. family \in todo /\ todo \subseteq Local
  BY <1>0, PonadConstants, ZenonT(20) DEF family, Family
<1>2. \A p \in Prefix : via[p] # None => PrefixFamily(p) # family
  BY DEF InitNatRule, AddRule, Leftover
<1>3. names # <<>> /\ n = 1 /\ Len(names) \in Nat
  BY FirstNamed, SMTT(20) DEF AddInv, InitNatRule, Opening, Looping
<1>4. /\ pc' = IF todo' = {} THEN "getEgress" ELSE "clear"
      /\ todo' = todo \ {family} /\ ncRule' = ncRule \cup {family} /\ n' = n
      /\ UNCHANGED <<names, diff, subnets, plan, throws, via, remote, up, decap, fouInit>>
      /\ UNCHANGED <<dests, service, ponad, socket, late>>
  BY DEF InitNatRule, AddRule, fouVars, apiVars, nodeVars
<1>5. TypeOK'
  BY <1>1, <1>3, <1>4, PonadConstants, FirstNamed, SMTT(20) DEF AddInv, TypeOK, FouTypeOK, NcTypeOK, Running
<1>6. Left' /\ Opening'
  BY <1>1, <1>2, <1>3, <1>4 DEF AddInv, InitNatRule, Left, Opening, Looping
<1>7. Round'
  <2>1. \A p \in Prefix : via[p] # None => PrefixFamily(p) \in todo'
    BY <1>2, <1>4 DEF AddInv, InitNatRule, Opening
  <2>2. pc' = "getEgress" => NoRoutes'
    BY <1>4, <2>1 DEF NoRoutes
  <2> QED
    BY <1>4, <2>2 DEF Round, Looping
<1>8. Rounds'
  <2>1. pc' = "getEgress" => ncRule' = Local
    BY <1>1, <1>4 DEF AddInv, InitNatRule, Left, Opening
  <2>2. fouInit = "done"
    BY DEF AddInv, InitNatRule, Opening
  <2> QED
    BY <1>3, <1>4, <2>1, <2>2, SMTT(20) DEF Rounds, Looping
<1> QED
  BY <1>5, <1>6, <1>7, <1>8 DEF AddInv

-----------------------------------------------------------------------------
(***************************************************************************)
(* The loop over egNames.                                                  *)
(***************************************************************************)
\* In the first round the egress at hand is the first.
LEMMA LoopFacts ==
    ASSUME AddInv, pc \in Looping
    PROVE  /\ n \in {1, 2} /\ First \in Egress /\ Len(names) \in Nat /\ Len(names) >= 1
           /\ n <= Len(names) => egName \in Egress
           /\ pc # "getEgress" => n <= Len(names)
           /\ n = 1 => egName = First /\ gateway = FirstGateway /\ link = FirstLink
<1>1. names # <<>> /\ n \in {1, 2}
  BY DEF AddInv, Rounds
<1>2. names \in Seq(Egress) /\ First \in Egress /\ Len(names) \in Nat /\ Len(names) >= 1
  BY <1>1, FirstNamed, SMTT(20) DEF AddInv
<1>3. pc # "getEgress" => n <= Len(names)
  BY DEF AddInv, TypeOK, Looping
<1>4. n <= Len(names) => egName \in Egress
  BY <1>1, <1>2, SMTT(20) DEF egName
<1> QED
  BY <1>1, <1>2, <1>3, <1>4 DEF egName, gateway, link, First, FirstGateway, FirstLink

\* A step that returns an error without touching the namespace.
LEMMA AddInvLoopError == ASSUME AddInv, Error, UNCHANGED <<apiVars, nodeVars, netns>> PROVE AddInv'
BY AddInvError DEF AddInv, TypeOK, FouTypeOK, nodeVars, netns, fouVars

\* The Egress is read.
LEMMA AddInvGetEgress == ASSUME AddInv, GetEgress PROVE AddInv'
<1>0. pc = "getEgress" /\ n <= Len(names) /\ UNCHANGED <<apiVars, nodeVars, netns>>
  BY DEF GetEgress
<1>1. CASE dests[egName] = None
  BY <1>1, AddInvLoopError DEF GetEgress
<1>2. CASE dests[egName] # None
  <2>1. /\ subnets' = dests[egName] /\ pc' = "getService"
        /\ UNCHANGED <<names, n, todo, diff, plan>>
    BY <1>2 DEF GetEgress
  <2>2. subnets' \subseteq Prefix
    BY <1>0, <1>2, <2>1, LoopFacts, PonadConstants DEF AddInv, TypeOK, Looping
  <2>3. TypeOK' /\ Left'
    BY <1>0, <2>1, <2>2 DEF AddInv, TypeOK, Left, FouTypeOK, NcTypeOK, netns, fouVars, ncVars,
       apiVars, nodeVars, Running
  <2>4. Opening' /\ Round' /\ Rounds'
    BY <1>0, <2>1 DEF AddInv, Opening, Round, Rounds, Looping, NoRoutes, netns, ncVars
  <2> QED
    BY <2>3, <2>4 DEF AddInv
<1> QED
  BY <1>1, <1>2

\* The Service is read, and the destinations of its family are chosen.
LEMMA AddInvGetService == ASSUME AddInv, GetService PROVE AddInv'
<1>0. pc = "getService" /\ UNCHANGED <<apiVars, nodeVars, netns>>
  BY DEF GetService
<1>1. CASE service[egName] = None \/ ~Supported(service[egName])
  BY <1>1, AddInvLoopError DEF GetService
<1>2. CASE ~(service[egName] = None \/ ~Supported(service[egName]))
  <2>1. /\ subnets' = OfFamily(subnets, service[egName]) /\ pc' = "addPeer"
        /\ plan' = [plan EXCEPT ![egName] = [gateway |-> service[egName], subnets |-> subnets']]
        /\ UNCHANGED <<names, n, todo, diff>>
    BY <1>2 DEF GetService
  <2>2. egName \in Egress /\ n \in {1, 2}
    BY <1>0, LoopFacts DEF Looping
  <2>3. service[egName] \in Addr /\ Supported(service[egName])
    BY <1>2, <2>2 DEF AddInv, TypeOK
  <2>4. subnets' \subseteq Prefix /\ subnets' = OfFamily(subnets', service[egName])
    BY <2>1 DEF AddInv, TypeOK, OfFamily
  <2>5. /\ plan' \in [Egress -> [gateway : Addr \cup {None}, subnets : SUBSET Prefix]]
        /\ plan'[egName] = [gateway |-> service[egName], subnets |-> subnets']
    BY <2>1, <2>2, <2>3, <2>4 DEF AddInv, TypeOK
  <2>6. TypeOK' /\ Left'
    BY <1>0, <2>1, <2>4, <2>5 DEF AddInv, TypeOK, Left, FouTypeOK, NcTypeOK, netns, fouVars,
       ncVars, apiVars, nodeVars, Running
  <2>7. Opening'
    BY <1>0, <2>1 DEF Opening, Looping
  <2>8. Round'
    <3>1. n = 1 => egName = First /\ First' = egName
      BY <1>0, <2>1, LoopFacts DEF Looping, First
    <3> QED
      BY <1>0, <2>1, <2>3, <2>4, <2>5, <3>1, SMTT(20) DEF AddInv, Round, Looping, NoRoutes, netns,
         ncVars, FirstGateway
  <2>9. Rounds'
    <3>1. gateway' = service[egName]
      BY <2>1, <2>5, SMTT(20) DEF gateway, egName
    <3> QED
      BY <1>0, <2>1, <2>3, <3>1 DEF AddInv, Rounds, Looping, netns, ncVars
  <2> QED
    BY <2>6, <2>7, <2>8, <2>9 DEF AddInv
<1> QED
  BY <1>1, <1>2

\* AddPeer: the device found or made has the gateway as its remote end.
LEMMA AddInvAddPeer ==
    ASSUME DistinctNames, AddInv, AddPeerOld \/ AddPeerNew \/ AddPeerSetup PROVE AddInv'
<1> USE DEF Goto
<1>0. pc \in {"addPeer", "setup"} /\ gateway \in Addr /\ FouName[gateway] \in LinkName
  BY PonadConstants DEF AddInv, Rounds, AddPeerOld, AddPeerNew, AddPeerSetup
<1>1. /\ UNCHANGED <<names, n, todo, diff, subnets, plan, up, ncVars, fouInit, apiVars, nodeVars>>
      /\ pc' \in {"setup", "linkUp"}
  BY DEF AddPeerOld, AddPeerNew, AddPeerSetup, AddPeerLink, SetupFlowBased, netns, fouVars
<1>2. /\ remote'[FouName[gateway]] = gateway \/ (pc = "setup" /\ remote' = remote)
      /\ remote' \in [LinkName -> Addr \cup {None}]
      /\ \A l \in LinkName : remote'[l] # None => FouName[remote'[l]] = l
  <2>1. CASE AddPeerOld
    <3>1. remote' = remote /\ remote[FouName[gateway]] # None
      BY <2>1 DEF AddPeerOld, LinkExists, netns, fouVars
    <3>2. remote[FouName[gateway]] \in Addr /\ FouName[remote[FouName[gateway]]] = FouName[gateway]
      BY <1>0, <3>1 DEF AddInv, Left, TypeOK, FouTypeOK
    <3>3. remote[FouName[gateway]] = gateway
      BY <1>0, <3>2 DEF DistinctNames
    <3> QED
      BY <3>1, <3>3 DEF AddInv, Left, TypeOK, FouTypeOK
  <2>2. CASE AddPeerNew
    <3>1. remote' = [remote EXCEPT ![FouName[gateway]] = gateway]
      BY <2>2 DEF AddPeerNew, AddPeerLink
    <3>2. remote \in [LinkName -> Addr \cup {None}]
      BY DEF AddInv, TypeOK, FouTypeOK
    <3> QED
      BY <1>0, <3>1, <3>2 DEF AddInv, Left
  <2>3. CASE AddPeerSetup
    BY <2>3 DEF AddPeerSetup, SetupFlowBased, AddInv, Left, TypeOK, FouTypeOK
  <2> QED
    BY <2>1, <2>2, <2>3
<1>3. remote' \in [LinkName -> Addr \cup {None}] /\ decap' \subseteq Family
  BY <1>2, ZenonT(20) DEF AddInv, TypeOK, FouTypeOK, AddPeerOld, AddPeerNew, AddPeerSetup,
     AddPeerLink, SetupFlowBased, netns, fouVars, FamilyOf, Family
<1>4. TypeOK'
  BY <1>0, <1>1, <1>3 DEF AddInv, TypeOK, FouTypeOK, NcTypeOK, ncVars, apiVars, nodeVars, Running
<1>5. Left' /\ Opening'
  BY <1>1, <1>2 DEF AddInv, Left, Opening, ncVars, Looping
<1>6. Round'
  <2> SUFFICES ASSUME n = 1 PROVE Round'
    BY <1>1 DEF Round
  <2>1. gateway = FirstGateway /\ FouName[gateway] = FirstLink
    BY <1>0, LoopFacts DEF Looping, FirstLink
  <2>2. First' = First /\ FirstGateway' = FirstGateway /\ FirstLink' = FirstLink
    BY <1>1 DEF First, FirstGateway, FirstLink
  <2>3. remote'[FirstLink] = FirstGateway
    BY <1>0, <1>2, <2>1 DEF AddInv, Round, Looping
  <2> QED
    BY <1>0, <1>1, <2>2, <2>3 DEF AddInv, Round, Looping, NoRoutes, ncVars, OfFamily
<1>7. Rounds'
  BY <1>0, <1>1 DEF AddInv, Rounds, Looping, ncVars, gateway, egName
<1> QED
  BY <1>4, <1>5, <1>6, <1>7 DEF AddInv

\* collectRoutes finds no routes of the device in the first round.
LEMMA AddInvUpdateRoutesUp == ASSUME AddInv, UpdateRoutesUp PROVE AddInv'
<1>0. /\ pc = "linkUp" /\ pc' = "throws" /\ todo' = Private
      /\ diff' = (subnets \ Current(link)) \cup (Current(link) \ subnets)
      /\ up' = up \cup {FouName[gateway]}
      /\ UNCHANGED <<names, n, subnets, plan, remote, decap, ncVars, fouInit, apiVars, nodeVars>>
  BY DEF UpdateRoutesUp, LinkSetUp
<1>1. gateway \in Addr /\ FouName[gateway] \in LinkName
  BY <1>0, PonadConstants DEF AddInv, Rounds
<1>2. TypeOK'
  BY <1>0, <1>1, PonadConstants DEF AddInv, TypeOK, FouTypeOK, NcTypeOK, ncVars, apiVars, nodeVars,
     Running, Current
<1>3. Left' /\ Opening'
  BY <1>0 DEF AddInv, Left, Opening, ncVars, Looping
<1>4. Round'
  <2> SUFFICES ASSUME n = 1 PROVE Round'
    BY <1>0 DEF Round
  <2>1. gateway = FirstGateway /\ FouName[gateway] = FirstLink /\ link = FirstLink
    BY <1>0, LoopFacts DEF Looping, FirstLink
  <2>2. First' = First /\ FirstGateway' = FirstGateway /\ FirstLink' = FirstLink
    BY <1>0 DEF First, FirstGateway, FirstLink
  <2>3. FirstLink # None
    BY <1>1, <2>1, PonadConstants
  <2>4. Current(link) = {}
    BY <1>0, <2>1, <2>3 DEF AddInv, Round, Looping, NoRoutes, Current
  <2>5. diff' = subnets'
    BY <1>0, <2>4
  <2> QED
    BY <1>0, <2>1, <2>2, <2>5 DEF AddInv, Round, Looping, NoRoutes, ncVars, OfFamily
<1>5. Rounds'
  BY <1>0 DEF AddInv, Rounds, Looping, ncVars
<1> QED
  BY <1>2, <1>3, <1>4, <1>5 DEF AddInv

\* The throw routes are added in the first round, and none can be in the second.
LEMMA AddInvThrows == ASSUME AddInv, UpdateRoutesThrow \/ UpdateRoutesThrown PROVE AddInv'
<1>0. /\ pc = "throws" /\ n \in {1, 2} /\ todo \subseteq Private
      /\ UNCHANGED <<names, n, subnets, plan, remote, up, decap, ncRule, via, fouInit>>
      /\ UNCHANGED <<dests, service, ponad, socket, late>>
  BY LoopFacts DEF AddInv, Rounds, Looping, UpdateRoutesThrow, UpdateRoutesThrown, addThrow,
     fouVars, ncVars, netns, apiVars, nodeVars
<1>1. n = 1
  <2> SUFFICES ASSUME n = 2 PROVE FALSE
    BY <1>0
  <2>1. throws = Private /\ todo = Private /\ Private # {}
    BY <1>0, PonadConstants DEF AddInv, Rounds, Looping
  <2> QED
    BY <2>1 DEF UpdateRoutesThrow, UpdateRoutesThrown, addThrow
<1>2. First' = First /\ FirstGateway' = FirstGateway /\ FirstLink' = FirstLink
  BY <1>0 DEF First, FirstGateway, FirstLink
<1>3. CASE UpdateRoutesThrow
  <2>1. PICK p \in todo : throws' = throws \cup {p} /\ todo' = todo \ {p}
    BY <1>3 DEF UpdateRoutesThrow, addThrow
  <2>2. pc' = pc /\ diff' = diff
    BY <1>3 DEF UpdateRoutesThrow
  <2>3. TypeOK'
    BY <1>0, <2>1, <2>2 DEF AddInv, TypeOK, FouTypeOK, NcTypeOK, Running
  <2>4. Left' /\ Opening'
    BY <1>0, <2>1, <2>2 DEF AddInv, Left, Opening, Looping
  <2>5. Round'
    BY <1>0, <1>2, <2>1, <2>2 DEF AddInv, Round, Looping, NoRoutes, OfFamily
  <2>6. Rounds'
    BY <1>0, <1>1, <2>1, <2>2, SMTT(20) DEF AddInv, Rounds, Looping
  <2> QED
    BY <2>3, <2>4, <2>5, <2>6 DEF AddInv
<1>4. CASE UpdateRoutesThrown
  <2>1. todo = {} /\ todo' = diff /\ diff' = {} /\ pc' = "routes" /\ throws' = throws
    BY <1>4 DEF UpdateRoutesThrown, netns, ncVars
  <2>2. TypeOK'
    BY <1>0, <2>1 DEF AddInv, TypeOK, FouTypeOK, NcTypeOK, Running
  <2>3. Left' /\ Opening'
    BY <1>0, <2>1 DEF AddInv, Left, Opening, Looping
  <2>4. diff = subnets /\ throws = Private /\ NoRoutes
    BY <1>0, <1>1, <2>1, ZenonT(20) DEF AddInv, Round, Left, Looping
  <2>5. \A p \in Prefix : via'[p] = IF p \in subnets' \ todo' THEN FirstLink' ELSE None
    BY <1>0, <2>1, <2>4 DEF NoRoutes
  <2>6. Round'
    BY <1>0, <1>1, <1>2, <2>1, <2>4, <2>5 DEF AddInv, Round, Looping, OfFamily
  <2>7. Rounds'
    BY <1>0, <1>1, <2>1, SMTT(20) DEF AddInv, Rounds, Looping
  <2> QED
    BY <2>2, <2>3, <2>6, <2>7 DEF AddInv
<1> QED
  BY <1>3, <1>4

\* The routes are added over the device, one by one; there are none to delete.
LEMMA AddInvRoute == ASSUME AddInv, UpdateRoutesRoute PROVE AddInv'
<1>0. /\ pc = "routes" /\ pc' = pc /\ n \in {1, 2} /\ link = FouName[gateway]
      /\ UNCHANGED <<names, n, diff, subnets, plan, remote, up, decap, ncRule, throws, fouInit>>
      /\ UNCHANGED <<dests, service, ponad, socket, late>>
  BY LoopFacts DEF Looping, UpdateRoutesRoute, addRoute, delRoute, fouVars, apiVars, nodeVars, link
<1>1. n = 1
  BY <1>0 DEF AddInv, Rounds, Looping
<1>2. link = FirstLink /\ gateway = FirstGateway
  BY <1>0, <1>1, LoopFacts DEF Looping
<1>3. First' = First /\ FirstGateway' = FirstGateway /\ FirstLink' = FirstLink
  BY <1>0 DEF First, FirstGateway, FirstLink
<1>4. todo \subseteq subnets /\ subnets \subseteq Prefix
  BY <1>0, <1>1 DEF AddInv, Round, TypeOK, Looping
<1>5. PICK p \in todo : via' = [via EXCEPT ![p] = FirstLink] /\ todo' = todo \ {p}
  BY <1>2, <1>4 DEF UpdateRoutesRoute, addRoute
<1>6. FirstLink \in LinkName /\ via \in [Prefix -> LinkName \cup {None}]
  BY <1>0, <1>1, PonadConstants DEF AddInv, Round, Looping, FirstLink, TypeOK, NcTypeOK
<1>7. TypeOK'
  BY <1>0, <1>4, <1>5, <1>6 DEF AddInv, TypeOK, FouTypeOK, NcTypeOK, Running
<1>8. Left' /\ Opening'
  <2>1. PrefixFamily(p) \in Local
    BY <1>0, <1>1, <1>4, <1>5 DEF AddInv, Round, Looping, OfFamily, Supported
  <2> QED
    BY <1>0, <1>4, <1>5, <1>6, <2>1 DEF AddInv, Left, Opening, Looping
<1>9. Round'
  <2>1. \A q \in Prefix : via'[q] = IF q \in subnets \ todo' THEN FirstLink ELSE None
    BY <1>0, <1>1, <1>4, <1>5, <1>6 DEF AddInv, Round, Looping
  <2> QED
    BY <1>0, <1>1, <1>3, <1>4, <1>5, <2>1 DEF AddInv, Round, Looping, OfFamily
<1>10. Rounds'
  BY <1>0, <1>1 DEF AddInv, Rounds, Looping
<1> QED
  BY <1>7, <1>8, <1>9, <1>10 DEF AddInv

\* The end of a round, and of Add.
LEMMA AddInvReturn == ASSUME AddInv, NextEgress \/ AddReturns PROVE AddInv'
<1>0. pc \in Looping /\ UNCHANGED <<names, todo, diff, plan, apiVars, nodeVars, netns>>
  BY DEF Looping, NextEgress, AddReturns
<1>1. First' = First /\ FirstGateway' = FirstGateway /\ FirstLink' = FirstLink
  BY <1>0 DEF First, FirstGateway, FirstLink
<1>2. Left'
  BY <1>0 DEF AddInv, Left, netns, fouVars, ncVars
<1>3. FirstDone => FirstDone'
  BY <1>0, <1>1 DEF FirstDone, netns, fouVars, ncVars
<1>4. CASE NextEgress
  <2>1. pc = "routes" /\ todo = {} /\ pc' = "getEgress" /\ n' = n + 1 /\ subnets' = {}
    BY <1>4 DEF NextEgress
  <2>2. n = 1 /\ n <= Len(names) /\ Len(names) \in Nat
    BY <1>0, <2>1, LoopFacts DEF AddInv, Rounds, Looping
  <2>3. FirstDone /\ throws = Private
    BY <2>1, <2>2 DEF AddInv, Round, Looping, FirstDone, TypeOK
  <2>4. TypeOK'
    BY <1>0, <2>1, <2>2, SMTT(20) DEF AddInv, TypeOK, FouTypeOK, NcTypeOK, netns, fouVars, ncVars,
       apiVars, nodeVars, Running
  <2>5. n' = 2 /\ Opening' /\ Round'
    BY <2>1, <2>2, SMTT(20) DEF Opening, Round, Looping
  <2>6. names # <<>> /\ fouInit = "done" /\ ncRule = Local
    BY <1>0 DEF AddInv, Rounds
  <2>7. UNCHANGED <<names, fouInit, ncRule, throws>>
    BY <1>0 DEF netns, ncVars
  <2>8. Rounds'
    BY <1>3, <2>1, <2>3, <2>5, <2>6, <2>7 DEF Rounds, Looping
  <2> QED
    BY <1>2, <2>4, <2>5, <2>8 DEF AddInv
<1>5. CASE AddReturns
  <2>1. /\ pc = "getEgress" /\ n > Len(names) /\ pc' = "ok" /\ n' = 1 /\ subnets' = subnets
    BY <1>5 DEF AddReturns
  <2>2. n = 2 /\ Len(names) = 1
    <3>1. n \in {1, 2} /\ Len(names) \in Nat /\ Len(names) >= 1
      BY <1>0, LoopFacts
    <3>2. n \in Int /\ n > Len(names)
      BY <2>1, <3>1, SMTT(20)
    <3> QED
      BY <3>1, <3>2, SMTT(20)
  <2>3. FirstDone /\ fouInit = "done" /\ ncRule = Local
    BY <1>0, <2>1, <2>2 DEF AddInv, Rounds
  <2>4. TypeOK'
    BY <1>0, <2>1 DEF AddInv, TypeOK, FouTypeOK, NcTypeOK, netns, fouVars, ncVars,
       apiVars, nodeVars, Running
  <2>5. fouInit' = "done" /\ ncRule' = Local /\ FirstDone' /\ Len(names') = 1
    BY <1>0, <1>3, <2>2, <2>3 DEF netns, ncVars
  <2>6. Opening' /\ Round'
    BY <2>1 DEF Opening, Round, Looping
  <2>7. Rounds'
    BY <2>1, <2>5 DEF Rounds, Looping
  <2> QED
    BY <1>2, <2>4, <2>6, <2>7 DEF AddInv
<1> QED
  BY <1>4, <1>5

\* Every step of Add keeps AddInv.
LEMMA AddInvAdd == ASSUME DistinctNames, AddInv, Add PROVE AddInv'
<1>1. RouteExists => AddInv'
  BY AddInvLoopError DEF RouteExists
<1> QED
  BY <1>1, AddInvInitFou, AddInvInitNatClear, AddInvInitNatRule, AddInvGetEgress, AddInvGetService,
     AddInvAddPeer, AddInvUpdateRoutesUp, AddInvThrows, AddInvRoute, AddInvReturn DEF Add

\* Every step keeps AddInv.
LEMMA AddInvNext == ASSUME DistinctNames, AddInv, [Next]_vars PROVE AddInv'
<1>1. CASE UNCHANGED vars
  BY <1>1, AddInvOutside DEF AddInv, TypeOK, vars, AddState, apiVars, nodeVars
<1> QED
  BY <1>1, AddInvNode, AddInvFailures, AddInvKubelet, AddInvAdd DEF Next

\* The only name Add has connected is the first.
LEMMA AddInvConfigured == AddInv => AddConfigured
<1> SUFFICES ASSUME AddInv, pc = "ok", names # <<>> PROVE AddConfigured
  BY DEF AddConfigured
<1>1. Len(names) = 1 /\ fouInit = "done" /\ ncRule = Local /\ FirstDone
  BY DEF AddInv, Rounds
<1>2. First \in Egress /\ Uses(First) /\ \A e \in Egress : Uses(e) => e = First
  BY <1>1, FirstNamed, SMTT(20) DEF AddInv, Uses, First
<1>3. FirstLink # None
  BY <1>1, PonadConstants, SMTT(20) DEF FirstDone, FirstLink
<1>4. plan[First].subnets = {p \in Prefix : via[p] = FirstLink}
  BY <1>1, <1>3 DEF FirstDone
<1> QED
  BY <1>1, <1>2, <1>3, <1>4 DEF AddConfigured, FirstDone, FirstLink, FirstGateway

\* The state of Add keeps its types, and the index stays within the list of
\* names: egNames[n] exists whenever the loop uses it.
THEOREM AddTyped == ASSUME DistinctNames PROVE Spec => []TypeOK
<1>1. AddInv /\ [Next]_vars => AddInv'
  BY AddInvNext
<1>2. AddInv => TypeOK
  BY DEF AddInv
<1> QED
  BY <1>1, <1>2, AddInvInit, PTL DEF Spec

\* Add reports success only for a namespace that is what it has read, for any
\* destinations and annotations, however often and wherever earlier attempts
\* were cut short, in the same namespace or in others, provided no two gateways
\* share a device name.
THEOREM AddConfiguredAlways == ASSUME DistinctNames PROVE Spec => []AddConfigured
<1>1. AddInv /\ [Next]_vars => AddInv'
  BY AddInvNext
<1> QED
  BY <1>1, AddInvInit, AddInvConfigured, PTL DEF Spec

-----------------------------------------------------------------------------
(***************************************************************************)
(* The flow based device is set up after the tunnel device, whose presence *)
(* makes AddPeer return early.  If every attempt gets a new sandbox, the   *)
(* first round finds no device, so it does not take that branch.           *)
(***************************************************************************)
NoDevice == \A l \in LinkName : remote[l] = None

FirstDecap == FamilyOf(FirstGateway) \in decap

\* From the end of AddPeer on the device that decapsulates is there.
DecapInv ==
    /\ pc \in {"idle", "fouInit", "clear"} => NoDevice
    /\ pc \in {"getEgress", "getService", "addPeer"} /\ n = 1 => NoDevice
    /\ pc \in {"linkUp", "throws", "routes"} /\ n = 1 => FirstDecap
    /\ pc = "getEgress" /\ n = 2 => FirstDecap
    /\ pc = "ok" /\ names # <<>> => FirstDecap

\* A new sandbox has no devices.
LEMMA DecapInvNewNamespace == NewNamespace => DecapInv'
BY DEF NewNamespace, DecapInv, NoDevice

\* An error ends the attempt.
LEMMA DecapInvError == Error => DecapInv'
BY DEF Error, DecapInv

\* Steps that leave the devices, and Add, as they are.
LEMMA DecapInvSame ==
    ASSUME DecapInv, UNCHANGED <<pc, n, names, plan, remote, decap>> PROVE DecapInv'
BY DEF DecapInv, NoDevice, FirstDecap, FirstGateway, First

\* The steps of Add.
LEMMA DecapInvAdd == ASSUME AddInv, DecapInv, Add PROVE DecapInv'
<1> USE DEF netns, fouVars
<1>0. pc \in Looping => n \in {1, 2}
  BY LoopFacts
<1>1. CASE InitFou \/ InitNatClear \/ InitNatRule
  <2>1. CASE InitFou
    BY <2>1, DecapInvError DEF InitFou, DecapInv, NoDevice
  <2>2. CASE InitNatClear
    BY <2>2, DecapInvSame DEF InitNatClear, addVars
  <2>3. CASE InitNatRule
    <3>1. n = 1
      BY <2>3 DEF InitNatRule, AddInv, Opening, Looping
    <3> QED
      BY <2>3, <3>1, SMTT(20) DEF InitNatRule, DecapInv, NoDevice
  <2> QED
    BY <1>1, <2>1, <2>2, <2>3
<1>2. CASE GetEgress \/ GetService
  BY <1>0, <1>2, DecapInvError DEF GetEgress, GetService, DecapInv, NoDevice
<1>3. CASE AddPeerOld
  <2>1. gateway \in Addr /\ LinkExists(gateway) /\ pc = "addPeer"
    BY <1>3 DEF AddPeerOld, AddInv, Rounds
  <2>2. n # 1
    BY <2>1, PonadConstants DEF LinkExists, DecapInv, NoDevice
  <2> QED
    BY <1>3, <2>2 DEF AddPeerOld, Goto, DecapInv
<1>4. CASE AddPeerNew
  BY <1>4 DEF AddPeerNew, Goto, DecapInv
<1>5. CASE AddPeerSetup
  <2>1. pc = "setup" /\ pc' = "linkUp" /\ UNCHANGED <<names, n, plan>>
        /\ FamilyOf(gateway) \in decap'
    BY <1>5 DEF AddPeerSetup, SetupFlowBased, Goto
  <2>2. n = 1 => gateway = FirstGateway
    BY <2>1, LoopFacts DEF Looping
  <2>3. FirstGateway' = FirstGateway
    BY <2>1 DEF FirstGateway, First
  <2> QED
    BY <2>1, <2>2, <2>3 DEF DecapInv, FirstDecap
<1>6. CASE UpdateRoutesUp \/ UpdateRoutesThrow \/ UpdateRoutesThrown \/ UpdateRoutesRoute
  BY <1>6 DEF UpdateRoutesUp, UpdateRoutesThrow, UpdateRoutesThrown, UpdateRoutesRoute, LinkSetUp,
     DecapInv, FirstDecap, FirstGateway, First
<1>7. CASE RouteExists
  BY <1>7, DecapInvError DEF RouteExists
<1>8. CASE NextEgress
  <2>1. n = 1
    BY <1>0, <1>8 DEF NextEgress, AddInv, Rounds, Looping
  <2> QED
    BY <1>8, <2>1, SMTT(20) DEF NextEgress, DecapInv, FirstDecap, FirstGateway, First
<1>9. CASE AddReturns
  <2>1. n = 2
    BY <1>0, <1>9, LoopFacts, SMTT(20) DEF AddReturns, Looping
  <2> QED
    BY <1>9, <2>1 DEF AddReturns, DecapInv, FirstDecap, FirstGateway, First
<1> QED
  BY <1>1, <1>2, <1>3, <1>4, <1>5, <1>6, <1>7, <1>8, <1>9 DEF Add

\* kubelet, the failures, and everything else.
LEMMA DecapInvNext == ASSUME ~RetryInPlace, AddInv, DecapInv, [Next]_vars PROVE DecapInv'
<1> USE DEF nodeVars, netns, fouVars, addVars
<1>1. CASE UNCHANGED vars \/ ChangeObject \/ PonadStart \/ PonadStop \/ PonadStopped \/ LateReturns
  BY <1>1, DecapInvSame DEF vars, ChangeObject, ChangeEgress, ChangeService, PonadStart, PonadStop,
     PonadStopped, LateReturns
<1>2. CASE KubeletAdd
  BY <1>2 DEF KubeletAdd, CmdAddRefused, CmdAdd, DecapInv, NoDevice
<1>3. CASE CallFails \/ CmdAddTimeout \/ PonadStopKilled \/ PonadKilled
  BY <1>3, DecapInvError, DecapInvSame, DecapInvNewNamespace DEF CallFails, CmdAddTimeout,
     PonadStopKilled, PonadKilled, CutOff, Interrupted
<1>4. CASE Retry \/ Recreate
  BY <1>4, DecapInvNewNamespace DEF Retry, Recreate, NewSandbox
<1> QED
  BY <1>1, <1>2, <1>3, <1>4, DecapInvAdd DEF Next

\* The device that decapsulates what comes back from the gateway is there when
\* Add reports success.
AddDecap ==
    pc = "ok" => \A e \in Egress : Uses(e) => FamilyOf(plan[e].gateway) \in decap

\* In AddDecap's words.
LEMMA DecapInvAddDecap == AddInv /\ DecapInv => AddDecap
<1> SUFFICES ASSUME AddInv, DecapInv, pc = "ok", NEW e \in Egress, Uses(e)
             PROVE  FamilyOf(plan[e].gateway) \in decap
  BY DEF AddDecap
<1>1. names # <<>>
  BY FirstNamed, SMTT(20) DEF AddInv, Uses
<1>2. Len(names) = 1
  BY <1>1 DEF AddInv, Rounds
<1>3. e = First
  BY <1>2, SMTT(20) DEF Uses, First
<1> QED
  BY <1>1, <1>3 DEF DecapInv, FirstDecap, FirstGateway

\* If kubelet gives every attempt a new sandbox, Add reports success only when
\* the device is there that decapsulates what comes back from the gateway.
THEOREM AddDecapAlways == ASSUME DistinctNames, ~RetryInPlace PROVE Spec => []AddDecap
<1>1. Init => AddInv /\ DecapInv
  BY AddInvInit DEF Init, FouInit, DecapInv, NoDevice
<1>2. (AddInv /\ DecapInv) /\ [Next]_vars => (AddInv /\ DecapInv)'
  BY AddInvNext, DecapInvNext
<1> QED
  BY <1>1, <1>2, DecapInvAddDecap, PTL DEF Spec
=============================================================================
