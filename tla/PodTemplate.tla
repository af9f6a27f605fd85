----------------------------- MODULE PodTemplate -----------------------------
(***************************************************************************)
(* The pod template of the gateway's Deployment, which the Egress          *)
(* controller builds from the template of the Egress and from the template *)
(* the Deployment already has (internal/controller/egress_controller.go,   *)
(* reconcilePodTemplate, addVolumes, addVolumeMounts).                     *)
(*                                                                         *)
(* A container is its name, whether it has an image, how often the         *)
(* environment of the gateway was appended to its own, the volumes it      *)
(* mounts, and whether security context, requests, ports and probes are    *)
(* set.                                                                    *)
(***************************************************************************)
EXTENDS Naturals, Sequences, SequencesExt

CONSTANTS
    Name,        \* names of containers, "egress" among them
    Volume,      \* names of volumes of the user
    Key,         \* keys of annotations and labels
    MaxLen,      \* bound: containers of a template
    None         \* eg.Spec.Template is nil; no Deployment yet

ASSUME PodTemplateAssumption ==
    /\ "egress" \in Name /\ "" \notin Name
    /\ MaxLen \in Nat

VARIABLES
    template,    \* eg.Spec.Template
    target,      \* deploy.Spec.Template
    applied      \* the template that target was last built from

vars == <<template, target, applied>>

Blank == [name |-> "", image |-> FALSE, env |-> 0, mounts |-> <<>>, configured |-> FALSE]

\* What a user writes: containers with names of their own.
Container(name, image, volumes) ==
    [Blank EXCEPT !.name = name, !.image = image, !.mounts = volumes]

Volumes == {<<>>} \cup {<<v>> : v \in Volume}

Containers ==
    {cs \in UNION {[1 .. n -> {Container(x, i, v) : x \in Name, i \in BOOLEAN, v \in Volumes}]
                     : n \in 0 .. MaxLen} :
        \A i, j \in DOMAIN cs : cs[i].name = cs[j].name => i = j}

Templates ==
    {None} \cup [containers : Containers, volumes : Volumes, annotations : SUBSET Key,
                 labels : SUBSET Key]

NewDeployment == [containers |-> <<>>, volumes |-> <<>>, annotations |-> {}, labels |-> {}]

\* Mutant of WithRun: a volume of that name is not looked for.
WithRunAlways(names) == Append(names, "run")

\* No duplicates are looked for but those of "run".
WithRun(names) == IF Contains(names, "run") THEN names ELSE Append(names, "run")

addVolumes(vols) == Append(WithRun(vols), "modules")

addVolumeMounts(mounts) == Append(WithRun(mounts), "modules")

\* The last container named "egress", or a new one in front; and then, by the
\* second loop, the last container of another name if there is one.
WithEgress(cs) ==
    IF \E i \in DOMAIN cs : cs[i].name = "egress" THEN cs ELSE <<Blank>> \o cs

egressContainer(cs) ==
    LET other == SelectLastInSeq(cs, LAMBDA c : c.name # "egress")
    IN  IF other # 0 THEN other ELSE SelectLastInSeq(cs, LAMBDA c : c.name = "egress")

Configure(c) ==
    [name |-> "egress", image |-> TRUE, env |-> c.env + 1,
     mounts |-> addVolumeMounts(c.mounts), configured |-> TRUE]

\* Mutant of Build: without a template it goes on from the Deployment's own.
BuildOnOld(desired, old) ==
    LET spec == IF desired = None THEN old ELSE desired
        cs == WithEgress(spec.containers)
    IN  [containers |-> [cs EXCEPT ![egressContainer(cs)] = Configure(@)],
         volumes |-> addVolumes(spec.volumes),
         annotations |-> old.annotations \cup spec.annotations,
         labels |-> spec.labels]

\* Annotations are added to those the Deployment has; labels start anew.
Build(desired, old) ==
    LET spec == IF desired = None THEN NewDeployment ELSE desired
        cs == WithEgress(spec.containers)
    IN  [containers |-> [cs EXCEPT ![egressContainer(cs)] = Configure(@)],
         volumes |-> addVolumes(spec.volumes),
         annotations |-> old.annotations \cup spec.annotations,
         labels |-> spec.labels]

Init == template \in Templates /\ target = NewDeployment /\ applied = NewDeployment

SetTemplate ==
    /\ template' \in Templates \ {template}
    /\ UNCHANGED <<target, applied>>

reconcilePodTemplate ==
    /\ target' = Build(template, target)
    /\ applied' = template
    /\ UNCHANGED template

Next == SetTemplate \/ reconcilePodTemplate

Spec == Init /\ [][Next]_vars
-----------------------------------------------------------------------------
Mains(t) == {i \in DOMAIN t.containers : t.containers[i].name = "egress"}

Built == target # NewDeployment

\* To reconcile an unchanged template again changes nothing: nothing is
\* appended twice, whatever templates the Deployment had before
\* (reconcilePodTemplate builds on the template of the Egress).
Idempotent == Built => Build(applied, target) = target

NoSidecar(desired) ==
    desired # None => \A i \in DOMAIN desired.containers : desired.containers[i].name = "egress"

\* If the Egress names no container but "egress", the pods have one container
\* of that name, it runs the gateway, and its volumes exist once each, whatever
\* templates the Deployment had before (reconcilePodTemplate, addVolumes,
\* addVolumeMounts).
OneGateway ==
    Built /\ NoSidecar(applied) =>
        \E i \in DOMAIN target.containers :
            LET c == target.containers[i] IN
            /\ Mains(target) = {i}
            /\ c.image /\ c.env = 1 /\ c.configured
            /\ IsInjective(c.mounts) /\ IsInjective(target.volumes)
            /\ {"run", "modules"} \subseteq ToSet(c.mounts) \cap ToSet(target.volumes)
=============================================================================
