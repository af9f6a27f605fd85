---------------------------- MODULE EgressHistory ----------------------------
(***************************************************************************)
(* EgressReconciler with a history: which specs the present Egress of a    *)
(* name has had, and for which keys the last update of the status failed.  *)
(* The history restricts nothing; it is what the properties need that tell *)
(* what CreateOrUpdate leaves behind and what updateStatus does not        *)
(* repeat.                                                                 *)
(***************************************************************************)
EXTENDS EgressReconciler

VARIABLES
    given,      \* Egress -> the specs it has had since it was created
    missed      \* keys whose last reconciliation failed to update the status

hvars == <<vars, given, missed>>

HTypeOK == TypeOK /\ given \in [Egress -> SUBSET Specs] /\ missed \subseteq Egress

HInit == Init /\ given = [e \in Egress |-> {}] /\ missed = {}

RecordSpecs ==
    given' = [e \in Egress |->
        IF eg'[e] = None THEN {}
        ELSE (IF eg[e] = None THEN {} ELSE given[e]) \cup {eg'[e].spec}]

HNext ==
    /\ \/ Operate /\ missed' = missed \ {key'}
       \/ StatusFails /\ missed' = missed \cup {key}
    /\ RecordSpecs

HSpec == HInit /\ [][HNext]_hvars
-----------------------------------------------------------------------------
\* The value of a field that is copied only if it is given: an API default, or
\* one that the same Egress gave, now or before.
Inherited(e, k, f, default) ==
    obj[k][e].fields[f] \in {default} \cup ({s[f] : s \in given[e]} \ {0})

\* What the spec leaves open.
Leftovers(e) ==
    /\ Inherited(e, "deployment", "strategy", 1)
    /\ Inherited(e, "deployment", "note", 0)
    /\ IF eg[e].spec.affinity THEN Inherited(e, "service", "config", 1)
                              ELSE obj["service"][e].fields.config = 0

\* Once Reconcile has nothing left to do, every Egress has its Deployment, its
\* Service and its budget, with everything its spec gives, and its
\* ServiceAccount; whatever the order in which stale reads, conflicts, failed
\* calls, restarts, and the deletion and re-creation of an Egress under its old
\* name fell.  A strategy, an annotation or a sessionAffinityConfig that the spec
\* does not give is not reset, but it is one of the same Egress and never of an
\* earlier one of that name (egress_controller.go, Reconcile, reconcileDeployment,
\* reconcilePodTemplate, reconcileService).
ObjectsConverged ==
    Quiescent => \A e \in Egress : Live(e) => Matches(e) /\ Leftovers(e) /\ NS[e] \in sa /\ cr

\* Once Reconcile has nothing left to do, the status of an Egress has the number
\* of available pods of its Deployment, unless the last reconciliation failed to
\* write it: that error is only logged, and nothing else makes a status stay out
\* of date, neither a conflict nor an earlier failure (updateStatus and the
\* deferred call of Reconcile).  The number is status.availableReplicas, which
\* egress_controller.go:548 copies, and not status.replicas, which the comment
\* on the field names (egress_types.go:99).
StatusConverged ==
    Quiescent =>
        \A e \in Egress : Live(e) /\ e \notin missed =>
            eg[e].status = obj["deployment"][e].report
=============================================================================
