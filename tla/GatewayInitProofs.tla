-------------------------- MODULE GatewayInitProofs --------------------------
(***************************************************************************)
(* Proofs about the start of a NAT gateway, for every set of families and  *)
(* any number of deaths: the pod watcher only ever runs on a gateway that  *)
(* is completely set up, and a finished Init is never repeated.            *)
(***************************************************************************)
EXTENDS GatewayInit, TLAPS

USE GatewayInitAssumption DEF Family

\* What FouTunnelController.Init does for a family.
FouDone(f) == f \in forward /\ f \in fouPort /\ checksum[f] > 0

\* What gateway.Init does for a family.
NatDone(f) == masquerade[f] > 0 /\ f \in rule

InFou == pc \in {"forward", "fouAdd", "checksum"}
InNat == pc \in {"masquerade", "rule"}

(***************************************************************************)
(* The inductive invariant: a marker device, and the step that adds it,    *)
(* come after everything it stands for; while an Init is running, the      *)
(* families that are not left in todo are done, and the marker is not      *)
(* there.                                                                  *)
(***************************************************************************)
ReadyInv ==
    /\ "fou-dummy" \in dummy \/ pc = "fouDummy" => \A f \in Local : FouDone(f)
    /\ "nat-dummy" \in dummy \/ pc = "natDummy" => \A f \in Local : NatDone(f)
    /\ InFou => todo # {} /\ \A f \in Local \ todo : FouDone(f)
    /\ InNat => todo # {} /\ \A f \in Local \ todo : NatDone(f)
    /\ pc \in {"fouAdd", "checksum"} => current \in forward
    /\ pc = "checksum" => current \in fouPort
    /\ pc = "rule" => masquerade[current] > 0
    /\ InFou \/ pc = "fouDummy" => "fou-dummy" \notin dummy
    /\ InNat \/ pc = "natDummy" => "nat-dummy" \notin dummy
    /\ InNat \/ pc \in {"natInit", "natDummy", "watch", "serving"} => "fou-dummy" \in dummy
    /\ pc \in {"watch", "serving"} => "nat-dummy" \in dummy

\* The family an Init is at is one of those left.
LEMMA CurrentLeft ==
  ASSUME TypeOK, todo # {}
  PROVE  current \in todo /\ current \in Local /\ current \in Family
BY DEF TypeOK, current

\* Each step of main, and each death, keeps the types and ReadyInv.
LEMMA ReadyStep ==
  ASSUME TypeOK, ReadyInv, [Next]_vars
  PROVE  TypeOK' /\ ReadyInv'
<1> USE DEF TypeOK, ReadyInv, FouDone, NatDone, InFou, InNat, Step, kernel, Goto, Exit
<1>1. CASE Start
  BY <1>1 DEF Start
<1>2. CASE FouInit
  BY <1>2 DEF FouInit, current
<1>3. CASE EnableForward
  BY <1>3 DEF EnableForward, current
<1>4. CASE FouAdd
  BY <1>4, CurrentLeft DEF FouAdd, current
<1>5. CASE initIPTables
  <2>1. /\ current \in todo /\ current \in Local
        /\ todo' = todo \ {current}
        /\ pc' = IF todo' = {} THEN "fouDummy" ELSE "forward"
        /\ checksum' = [checksum EXCEPT ![current] = More(@)]
        /\ UNCHANGED <<forward, fouPort, masquerade, rule, dummy, deaths>>
    BY <1>5, CurrentLeft DEF initIPTables, NextFamily
  <2>2. checksum' \in [Family -> 0 .. 2] /\ checksum'[current] > 0
        /\ \A f \in Local : checksum[f] > 0 => checksum'[f] > 0
    BY <2>1, CurrentLeft DEF More
  <2>3. \A f \in Local \ todo' : FouDone(f)'
    BY <1>5, <2>1, <2>2 DEF initIPTables
  <2> QED
    BY <1>5, <2>1, <2>2, <2>3 DEF initIPTables
<1>6. CASE FouDummy
  BY <1>6 DEF FouDummy
<1>7. CASE NatInit
  BY <1>7 DEF NatInit, current
<1>8. CASE AppendMasquerade
  <2>1. masquerade' \in [Family -> 0 .. 2] /\ masquerade'[current] > 0
        /\ \A f \in Local : masquerade[f] > 0 => masquerade'[f] > 0
    BY <1>8, CurrentLeft DEF AppendMasquerade, More
  <2>2. current' = current
    BY <1>8 DEF AppendMasquerade, current
  <2> QED
    BY <1>8, <2>1, <2>2 DEF AppendMasquerade
<1>9. CASE RuleAdd
  BY <1>9, CurrentLeft DEF RuleAdd, NextFamily
<1>10. CASE NatDummy
  BY <1>10 DEF NatDummy
<1>11. CASE Watch
  BY <1>11 DEF Watch
<1>12. CASE Die
  BY <1>12 DEF Die
<1>13. CASE UNCHANGED vars
  BY <1>13 DEF vars, current
<1> QED
  BY <1>1, <1>2, <1>3, <1>4, <1>5, <1>6, <1>7, <1>8, <1>9, <1>10, <1>11, <1>12, <1>13
     DEF Next, Main

\* ReadyInv holds in every reachable state.
THEOREM ReadyInvariant == Spec => [](TypeOK /\ ReadyInv)
<1>1. Init => TypeOK /\ ReadyInv
  BY DEF Init, TypeOK, ReadyInv, FouDone, NatDone, InFou, InNat, Step
<1> QED
  BY <1>1, ReadyStep, PTL DEF Spec

\* Every reachable state of the gateway's start is well formed: both Init only
\* work on the families the gateway has addresses of, and nat-dummy is never
\* there without fou-dummy.
THEOREM TypeAlways == Spec => []TypeOK
BY ReadyInvariant, PTL

\* The pod watcher starts only after every step of both Init has been applied
\* for every family, however often the process died on the way.
THEOREM ServingReadyAlways == Spec => []ServingReady
<1>1. TypeOK /\ ReadyInv => ServingReady
  BY DEF ReadyInv, FouDone, NatDone, ServingReady
<1> QED
  BY <1>1, ReadyInvariant, PTL

\* Once fou-dummy or nat-dummy exists, no restart of the gateway changes what
\* the Init it stands for has set up.
THEOREM InitOnceAlways == Spec => InitOnce
<1>1. /\ TypeOK /\ ReadyInv
      /\ [Next]_vars
      => [/\ "fou-dummy" \in dummy => UNCHANGED <<forward, fouPort, checksum>>
          /\ "nat-dummy" \in dummy => UNCHANGED <<masquerade, rule>>]_vars
  BY DEF ReadyInv, InFou, InNat, Next, Main, kernel, vars, Start, FouInit, EnableForward,
     FouAdd, initIPTables, FouDummy, NatInit, AppendMasquerade, RuleAdd, NatDummy, Watch, Die
<1> QED
  BY <1>1, ReadyInvariant, PTL DEF Spec, InitOnce
=============================================================================
