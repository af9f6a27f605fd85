----------------------------- MODULE GatewayInit -----------------------------
(***************************************************************************)
(* The start of a NAT gateway (cmd/nat-gateway/main.go): FouTunnel's Init, *)
(* then Gateway's Init, then the pod watcher.  Both Init set up the        *)
(* network namespace of the pod, which outlives the container: when the    *)
(* process dies or gives up (os.Exit), kubelet starts the container again  *)
(* in the same namespace.  A dummy device added last marks a finished      *)
(* Init.                                                                   *)
(***************************************************************************)
EXTENDS Integers

CONSTANTS
    Local,      \* the IP families of the gateway's own addresses
    MaxDeaths   \* bound: how often a call fails or the process is killed

Family == {"v4", "v6"}

\* NewFoUTunnelController rejects a gateway without an address.
ASSUME GatewayInitAssumption ==
    /\ Local \subseteq Family /\ Local # {}
    /\ MaxDeaths \in Nat

VARIABLES
    forward,    \* families with forwarding on (and, for v4, rp_filter off)
    fouPort,    \* families whose FoU port is open
    checksum,   \* family -> number of CHECKSUM rules, 2 for two or more
    masquerade, \* family -> number of MASQUERADE rules, 2 for two or more
    rule,       \* families with the policy rule for table 118
    dummy,      \* marker devices
    pc,         \* the step the process is at; "down": it is not running
    todo,       \* families the current Init has not finished with
    deaths      \* deaths so far that were not the code's own doing

kernel == <<forward, fouPort, checksum, masquerade, rule, dummy>>
vars == <<kernel, pc, todo, deaths>>

Step == {"down", "fouInit", "forward", "fouAdd", "checksum", "fouDummy",
         "natInit", "masquerade", "rule", "natDummy", "watch", "serving"}

\* Types; and the dummies are added in the order of main.
TypeOK ==
    /\ forward \subseteq Family /\ fouPort \subseteq Family /\ rule \subseteq Family
    /\ checksum \in [Family -> 0 .. 2] /\ masquerade \in [Family -> 0 .. 2]
    /\ dummy \in {{}, {"fou-dummy"}, {"fou-dummy", "nat-dummy"}}
    /\ pc \in Step
    /\ todo \subseteq Local
    /\ deaths \in 0 .. MaxDeaths

Init ==
    /\ forward = {} /\ fouPort = {} /\ rule = {} /\ dummy = {}
    /\ checksum = [f \in Family |-> 0] /\ masquerade = [f \in Family |-> 0]
    /\ pc = "down" /\ todo = {} /\ deaths = 0

-----------------------------------------------------------------------------
\* The family an Init is at: IPv4 comes first.
current == IF "v4" \in todo THEN "v4" ELSE "v6"

More(n) == IF n = 0 THEN 1 ELSE 2

Goto(step) == pc' = step /\ UNCHANGED <<todo, deaths>>

\* From one family to the next, or out of the two if blocks.
NextFamily(first, last) ==
    /\ todo' = todo \ {current}
    /\ pc' = IF todo' = {} THEN last ELSE first
    /\ UNCHANGED deaths

\* main gives up: os.Exit(1).
Exit == pc' = "down" /\ todo' = {} /\ UNCHANGED deaths

Start == pc = "down" /\ Goto("fouInit") /\ UNCHANGED kernel

(***************************************************************************)
(* FouTunnelController.Init                                                *)
(***************************************************************************)

\* Mutant of FouInit: the marker is not looked for.
FouInitAgain ==
    /\ pc = "fouInit"
    /\ pc' = "forward" /\ todo' = Local
    /\ UNCHANGED <<kernel, deaths>>

FouInit ==
    /\ pc = "fouInit"
    /\ IF "fou-dummy" \in dummy
         THEN Goto("natInit")
         ELSE pc' = "forward" /\ todo' = Local /\ UNCHANGED deaths
    /\ UNCHANGED kernel

\* Mutant of EnableForward: forwarding is not switched on for IPv6.
EnableForwardV4 ==
    /\ pc = "forward"
    /\ forward' = forward \cup ({current} \cap {"v4"})
    /\ Goto("fouAdd")
    /\ UNCHANGED <<fouPort, checksum, masquerade, rule, dummy>>

\* disableRPFilter, EnableIP4Forward or EnableIP6Forward, modProbe.
EnableForward ==
    /\ pc = "forward"
    /\ forward' = forward \cup {current}
    /\ Goto("fouAdd")
    /\ UNCHANGED <<fouPort, checksum, masquerade, rule, dummy>>

\* The kernel refuses to open a port twice.
FouAdd ==
    /\ pc = "fouAdd"
    /\ IF current \in fouPort THEN Exit ELSE Goto("checksum")
    /\ fouPort' = fouPort \cup {current}
    /\ UNCHANGED <<forward, checksum, masquerade, rule, dummy>>

initIPTables ==
    /\ pc = "checksum"
    /\ checksum' = [checksum EXCEPT ![current] = More(@)]
    /\ NextFamily("forward", "fouDummy")
    /\ UNCHANGED <<forward, fouPort, masquerade, rule, dummy>>

\* Mutant of FouDummy: the marker is forgotten.
FouDummyForgotten ==
    /\ pc = "fouDummy"
    /\ Goto("natInit")
    /\ UNCHANGED kernel

FouDummy ==
    /\ pc = "fouDummy"
    /\ dummy' = dummy \cup {"fou-dummy"}
    /\ Goto("natInit")
    /\ UNCHANGED <<forward, fouPort, checksum, masquerade, rule>>

(***************************************************************************)
(* gateway.Init                                                            *)
(***************************************************************************)

\* Mutant of NatInit: the marker is not looked for.
NatInitAgain ==
    /\ pc = "natInit"
    /\ pc' = "masquerade" /\ todo' = Local
    /\ UNCHANGED <<kernel, deaths>>

NatInit ==
    /\ pc = "natInit"
    /\ IF "nat-dummy" \in dummy
         THEN Goto("watch")
         ELSE pc' = "masquerade" /\ todo' = Local /\ UNCHANGED deaths
    /\ UNCHANGED kernel

\* ipt.Append does not look for an equal rule.
AppendMasquerade ==
    /\ pc = "masquerade"
    /\ masquerade' = [masquerade EXCEPT ![current] = More(@)]
    /\ Goto("rule")
    /\ UNCHANGED <<forward, fouPort, checksum, rule, dummy>>

\* The kernel refuses to add an equal rule.
RuleAdd ==
    /\ pc = "rule"
    /\ IF current \in rule THEN Exit ELSE NextFamily("masquerade", "natDummy")
    /\ rule' = rule \cup {current}
    /\ UNCHANGED <<forward, fouPort, checksum, masquerade, dummy>>

NatDummy ==
    /\ pc = "natDummy"
    /\ dummy' = dummy \cup {"nat-dummy"}
    /\ Goto("watch")
    /\ UNCHANGED <<forward, fouPort, checksum, masquerade, rule>>

\* NewPodWatcher, SetupWithManager, mgr.Start.
Watch == pc = "watch" /\ Goto("serving") /\ UNCHANGED kernel

-----------------------------------------------------------------------------
\* A call fails and main exits, or the process is killed.
Die ==
    /\ pc # "down" /\ deaths < MaxDeaths
    /\ pc' = "down" /\ todo' = {} /\ deaths' = deaths + 1
    /\ UNCHANGED kernel

Main ==
    Start \/ FouInit \/ EnableForward \/ FouAdd \/ initIPTables \/ FouDummy
        \/ NatInit \/ AppendMasquerade \/ RuleAdd \/ NatDummy \/ Watch

Next == Main \/ Die

Spec == Init /\ [][Next]_vars

\* The process runs, and kubelet restarts the container when it has ended
\* (restartPolicy Always, the only one a Deployment allows).
FairSpec == Spec /\ WF_vars(Main)
-----------------------------------------------------------------------------
\* The pod watcher starts only on a gateway that is set up: whenever and how
\* often the process died before, forwarding is on, the FoU port is open,
\* packets are masqueraded and table 118 is consulted for every family.
ServingReady ==
    pc = "serving" => \A f \in Local :
        /\ f \in forward /\ f \in fouPort /\ checksum[f] > 0
        /\ masquerade[f] > 0 /\ f \in rule

\* The marker devices do their work: once an Init has finished, no restart
\* changes what it set up.
InitOnce ==
    [][/\ "fou-dummy" \in dummy => UNCHANGED <<forward, fouPort, checksum>>
       /\ "nat-dummy" \in dummy => UNCHANGED <<masquerade, rule>>]_vars

\* A gateway that was set up once serves again after every restart.
ServesAgain == "nat-dummy" \in dummy ~> pc = "serving"
=============================================================================
