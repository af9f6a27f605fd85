-------------------------- MODULE PodTemplateProofs --------------------------
(***************************************************************************)
(* Proofs about the pod template of the gateway's Deployment, for any      *)
(* names of containers, volumes and keys and templates of any length.      *)
(***************************************************************************)
EXTENDS PodTemplate, TLAPS

USE ZenonT(20)

\* To build a template on what was built from it gives the same: only the
\* annotations depend on the Deployment, and they are a union.
LEMMA BuildTwice ==
  ASSUME NEW desired, NEW old
  PROVE  Build(desired, Build(desired, old)) = Build(desired, old)
<1> DEFINE spec == IF desired = None THEN NewDeployment ELSE desired
           new == Build(desired, old)
<1>1. new.annotations = old.annotations \cup spec.annotations
  BY DEF Build
<1>2. new.annotations \cup spec.annotations = old.annotations \cup spec.annotations
  BY <1>1
<1> QED
  BY <1>2 DEF Build

\* Reconciling an unchanged template again never changes the Deployment, whatever
\* templates it had before: reconcilePodTemplate appends nothing twice.
THEOREM IdempotentAlways == Spec => []Idempotent
<1>1. Init => Idempotent
  BY DEF Init, Idempotent, Built
<1>2. Idempotent /\ [Next]_vars => Idempotent'
  <2> SUFFICES ASSUME Idempotent, [Next]_vars PROVE Idempotent'
    OBVIOUS
  <2>1. CASE reconcilePodTemplate
    BY <2>1, BuildTwice DEF reconcilePodTemplate, Idempotent
  <2>2. CASE SetTemplate \/ UNCHANGED vars
    BY <2>2 DEF SetTemplate, vars, Idempotent, Built
  <2> QED
    BY <2>1, <2>2 DEF Next
<1> QED
  BY <1>1, <1>2, PTL DEF Spec

-----------------------------------------------------------------------------
(***************************************************************************)
(* One gateway container.  Names are distinct, so a template without       *)
(* sidecars has at most one container, which egressContainer finds.        *)
(***************************************************************************)
\* A function on 1 .. n is a sequence of length n.
LEMMA FunctionIsSequence ==
  ASSUME NEW S, NEW n \in Nat, NEW s \in [1 .. n -> S]
  PROVE  s \in Seq(S) /\ Len(s) = n
BY SMTT(20)

\* To append a new name repeats none.
LEMMA AppendNew ==
  ASSUME NEW S, NEW s \in Seq(S), NEW x \in S, IsInjective(s), x \notin ToSet(s)
  PROVE  /\ Append(s, x) \in Seq(S) /\ IsInjective(Append(s, x))
         /\ ToSet(Append(s, x)) = ToSet(s) \cup {x}
<1> DEFINE t == Append(s, x)
<1>1. /\ t \in Seq(S) /\ Len(s) \in Nat /\ DOMAIN s = 1 .. Len(s) /\ DOMAIN t = 1 .. Len(s) + 1
      /\ \A j \in 1 .. Len(s) : t[j] = s[j]
      /\ t[Len(s) + 1] = x
  BY SMTT(20)
<1>2. \A j \in DOMAIN t : j \in DOMAIN s \/ j = Len(s) + 1
  BY <1>1, SMTT(20)
<1>3. \A j \in DOMAIN s : j \in DOMAIN t /\ t[j] = s[j] /\ s[j] # x
  BY <1>1, SMTT(20) DEF ToSet
<1>4. Len(s) + 1 \in DOMAIN t
  BY <1>1, SMTT(20)
<1> HIDE DEF t
<1>5. IsInjective(t)
  BY <1>1, <1>2, <1>3 DEF IsInjective
<1>6. ToSet(t) = ToSet(s) \cup {x}
  BY <1>1, <1>2, <1>3, <1>4, Zenon DEF ToSet
<1> QED
  BY <1>1, <1>5, <1>6 DEF t

\* The mounts (and the volumes) of a user who has no volume named "modules" are
\* completed without a duplicate.
LEMMA Completed ==
  ASSUME "modules" \notin Volume, NEW vs \in Volumes
  PROVE  /\ IsInjective(Append(WithRun(vs), "modules"))
         /\ {"run", "modules"} \subseteq ToSet(Append(WithRun(vs), "modules"))
<1> DEFINE S == Volume \cup {"run", "modules"}
<1>1. vs \in Seq(S) /\ IsInjective(vs) /\ ToSet(vs) \subseteq Volume
  <2>1. CASE vs = <<>>
    BY <2>1, SMTT(20) DEF IsInjective, ToSet
  <2>2. ASSUME NEW v \in Volume, vs = <<v>>
        PROVE  vs \in Seq(S) /\ IsInjective(vs) /\ ToSet(vs) \subseteq Volume
    BY <2>2, SMTT(20) DEF IsInjective, ToSet
  <2> QED
    BY <2>1, <2>2 DEF Volumes
<1>2. Contains(vs, "run") <=> "run" \in ToSet(vs)
  BY <1>1, SMTT(20) DEF Contains, ToSet
<1> HIDE DEF S
<1>3. "run" \in S /\ "modules" \in S
  BY DEF S
<1>4. /\ WithRun(vs) \in Seq(S) /\ IsInjective(WithRun(vs))
      /\ ToSet(WithRun(vs)) = ToSet(vs) \cup {"run"}
  <2>1. CASE Contains(vs, "run")
    BY <1>1, <1>2, <2>1 DEF WithRun
  <2>2. CASE ~Contains(vs, "run")
    BY <1>1, <1>2, <1>3, <2>2, AppendNew, SMTT(20) DEF WithRun
  <2> QED
    BY <2>1, <2>2
<1>5. "modules" \notin ToSet(WithRun(vs))
  BY <1>1, <1>4
<1> QED
  BY <1>3, <1>4, <1>5, AppendNew, SMTT(20)

\* With no sidecar the gateway becomes the only container: the one named
\* "egress", or the one put in front.
LEMMA SingleContainer ==
  ASSUME NEW cs \in Containers, \A i \in DOMAIN cs : cs[i].name = "egress"
  PROVE  LET ds == WithEgress(cs)
         IN  /\ ds \in Seq({Blank} \cup {Container(x, b, v) : x \in Name, b \in BOOLEAN, v \in Volumes})
             /\ Len(ds) = 1 /\ egressContainer(ds) = 1
<1> DEFINE C == {Container(x, b, v) : x \in Name, b \in BOOLEAN, v \in Volumes}
<1>0. cs \in UNION {[1 .. n -> C] : n \in 0 .. MaxLen}
  BY SMTT(20) DEF Containers
<1>1. PICK n \in 0 .. MaxLen : cs \in [1 .. n -> C]
  BY <1>0, SMTT(20)
<1>2. n \in Nat
  <2>1. MaxLen \in Nat
    BY PodTemplateAssumption
  <2> HIDE DEF C
  <2> QED
    BY <2>1, SMTT(20)
<1>3. cs \in Seq(C) /\ Len(cs) = n /\ DOMAIN cs = 1 .. n
  BY <1>1, <1>2, FunctionIsSequence, SMTT(20)
<1>4. n = 0 \/ n = 1
  <2>1. \A i, j \in DOMAIN cs : i = j
    BY SMTT(20) DEF Containers
  <2> QED
    BY <1>2, <1>3, <2>1, SMTT(20)
<1> HIDE DEF C
<1>5. CASE n = 0
  <2>1. cs = <<>>
    BY <1>3, <1>5, SMTT(20)
  <2>2. WithEgress(cs) = <<Blank>>
    BY <2>1, SMTT(20) DEF WithEgress
  <2>3. Blank.name # "egress"
    BY DEF Blank
  <2>4. {j \in 1 .. Len(<<Blank>>) : <<Blank>>[j].name # "egress"} = {1}
    BY <2>3, SMTT(20)
  <2>5. egressContainer(<<Blank>>) = 1
    BY <2>4, SMTT(20) DEF egressContainer, SelectLastInSeq, Max
  <2> QED
    BY <2>2, <2>5, SMTT(20) DEF C
<1>6. CASE n = 1
  <2>1. cs[1].name = "egress" /\ 1 \in DOMAIN cs
    BY <1>3, <1>6, SMTT(20)
  <2>2. WithEgress(cs) = cs
    BY <2>1 DEF WithEgress
  <2>3. {j \in 1 .. Len(cs) : cs[j].name # "egress"} = {}
    BY <1>3, <1>6, <2>1
  <2>4. {j \in 1 .. Len(cs) : cs[j].name = "egress"} = {1}
    BY <1>3, <1>6, <2>1, SMTT(20)
  <2>5. egressContainer(cs) = 1
    BY <2>3, <2>4, SMTT(20) DEF egressContainer, SelectLastInSeq, Max
  <2> QED
    BY <1>3, <1>6, <2>2, <2>5, SMTT(20) DEF C
<1> QED
  BY <1>4, <1>5, <1>6, SMTT(20)

\* What is built from a template without sidecars.
LEMMA BuildOne ==
  ASSUME "modules" \notin Volume, NEW desired \in Templates, NoSidecar(desired), NEW old
  PROVE  LET t == Build(desired, old)
             c == t.containers[1]
         IN  /\ DOMAIN t.containers = {1}
             /\ c.name = "egress" /\ c.image /\ c.env = 1 /\ c.configured
             /\ IsInjective(c.mounts) /\ IsInjective(t.volumes)
             /\ {"run", "modules"} \subseteq ToSet(c.mounts) \cap ToSet(t.volumes)
<1> DEFINE spec == IF desired = None THEN NewDeployment ELSE desired
           t == Build(desired, old)
           cs == WithEgress(spec.containers)
<1>1. spec.volumes \in Volumes
  BY DEF Templates, NewDeployment, Volumes
<1>2. /\ Len(cs) = 1 /\ DOMAIN cs = {1} /\ egressContainer(cs) = 1
      /\ cs[1].env = 0 /\ cs[1].mounts \in Volumes
  <2>1. spec.containers \in Containers
    <3>1. CASE desired = None
      <4>0. MaxLen \in Nat
        BY PodTemplateAssumption
      <4>1. 0 \in 0 .. MaxLen
        BY <4>0, SMTT(20)
      <4> QED
        BY <3>1, <4>1, SMTT(20) DEF Containers, NewDeployment
    <3>2. CASE desired # None
      BY <3>2 DEF Templates
    <3> QED
      BY <3>1, <3>2
  <2>2. \A i \in DOMAIN spec.containers : spec.containers[i].name = "egress"
    BY SMTT(20) DEF NoSidecar, NewDeployment
  <2>3. /\ cs \in Seq({Blank} \cup {Container(x, b, v) : x \in Name, b \in BOOLEAN, v \in Volumes})
        /\ Len(cs) = 1 /\ egressContainer(cs) = 1
    BY <2>1, <2>2, SingleContainer, SMTT(20)
  <2> HIDE DEF cs
  <2>4. DOMAIN cs = {1}
    BY <2>3, SMTT(20)
  <2>5. cs[1] \in {Blank} \cup {Container(x, b, v) : x \in Name, b \in BOOLEAN, v \in Volumes}
    BY <2>3, <2>4, SMTT(20)
  <2>6. cs[1].env = 0 /\ cs[1].mounts \in Volumes
    <3>1. Blank.env = 0 /\ Blank.mounts = <<>> /\ <<>> \in Volumes
      BY DEF Blank, Volumes
    <3>2. ASSUME NEW x, NEW b, NEW v
          PROVE  Container(x, b, v).env = 0 /\ Container(x, b, v).mounts = v
      BY DEF Blank, Container
    <3>3. CASE cs[1] = Blank
      BY <3>1, <3>3
    <3>4. CASE cs[1] # Blank
      <4>1. PICK x \in Name, b \in BOOLEAN, v \in Volumes : cs[1] = Container(x, b, v)
        BY <2>5, <3>4, SMTT(20)
      <4> QED
        BY <3>2, <4>1, SMTT(20)
    <3> QED
      BY <3>3, <3>4
  <2> QED
    BY <2>3, <2>4, <2>6
<1>3. t.containers = [cs EXCEPT ![1] = Configure(cs[1])] /\ t.volumes = addVolumes(spec.volumes)
  BY <1>2 DEF Build
<1> HIDE DEF cs, spec, t
<1>4. DOMAIN t.containers = {1} /\ t.containers[1] = Configure(cs[1])
  BY <1>2, <1>3
<1>5. /\ IsInjective(addVolumeMounts(cs[1].mounts)) /\ IsInjective(t.volumes)
      /\ {"run", "modules"} \subseteq ToSet(addVolumeMounts(cs[1].mounts)) \cap ToSet(t.volumes)
  BY <1>1, <1>2, <1>3, Completed DEF addVolumes, addVolumeMounts
<1>6. cs[1].env + 1 = 1
  BY <1>2, SMTT(20)
<1> QED
  BY <1>4, <1>5, <1>6, SMTT(20) DEF Configure, t

\* If the Egress names no container but "egress", and no volume "modules", its
\* pods have exactly one such container, configured once and with the volumes
\* "run" and "modules" once each, whatever templates the Deployment had before
\* (reconcilePodTemplate, addVolumes, addVolumeMounts).
THEOREM OneGatewayAlways ==
  ASSUME "modules" \notin Volume
  PROVE  Spec => []OneGateway
<1> DEFINE Inv == template \in Templates /\ OneGateway
<1>1. Init => Inv
  BY DEF Init, OneGateway, Built
<1>2. Inv /\ [Next]_vars => Inv'
  <2> SUFFICES ASSUME Inv, [Next]_vars PROVE Inv'
    OBVIOUS
  <2>1. CASE reconcilePodTemplate
    <3>1. SUFFICES ASSUME NoSidecar(template)
                   PROVE  OneGateway'
      BY <2>1 DEF reconcilePodTemplate, OneGateway, NoSidecar
    <3>2. target' = Build(template, target)
      BY <2>1 DEF reconcilePodTemplate
    <3>3. /\ DOMAIN target'.containers = {1} /\ target'.containers[1].name = "egress"
          /\ target'.containers[1].image /\ target'.containers[1].env = 1
          /\ target'.containers[1].configured
          /\ IsInjective(target'.containers[1].mounts) /\ IsInjective(target'.volumes)
          /\ {"run", "modules"} \subseteq ToSet(target'.containers[1].mounts) \cap ToSet(target'.volumes)
      BY <3>1, <3>2, BuildOne
    <3>4. Mains(target') = {1}
      BY <3>3 DEF Mains
    <3> QED
      BY <3>3, <3>4 DEF OneGateway, Mains
  <2>2. CASE SetTemplate
    BY <2>2 DEF SetTemplate, OneGateway, Built, NoSidecar, Mains
  <2>3. CASE UNCHANGED vars
    BY <2>3 DEF vars, OneGateway, Built, NoSidecar, Mains
  <2> QED
    BY <2>1, <2>2, <2>3 DEF Next
<1> QED
  BY <1>1, <1>2, PTL DEF Spec
=============================================================================
