------------------------- MODULE MCEgressReconciler -------------------------
(***************************************************************************)
(* Small instances of EgressReconciler: one Egress that is updated, deleted *)
(* and created again, or two of them in namespaces of their own.            *)
(***************************************************************************)
EXTENDS EgressReconciler, TLC

Of(rev, strategy, note, affinity, config, min, max) ==
    [rev |-> rev, strategy |-> strategy, note |-> note, affinity |-> affinity,
     config |-> config, min |-> min, max |-> max]

\* One spec only.
Fixed == {Of(1, 0, 0, FALSE, 0, FALSE, FALSE)}

\* A spec with everything, and one that gives another template only.
Sparse == {Of(1, 2, 1, TRUE, 2, TRUE, FALSE), Of(2, 0, 0, TRUE, 0, FALSE, FALSE)}

\* Two revisions of a spec with an affinity and without a budget.
Revised == {Of(rev, 2, 1, TRUE, 2, FALSE, FALSE) : rev \in {1, 2}}

\* Every Egress in a namespace of its own, which is named like it.
OwnNamespace == [e \in Egress |-> e]

EgressSymmetry == Permutations(Egress)

\* The Deployment never has a pod, or its pod is available or not.
Silent == {0}
Reporting == {0, 1}
=============================================================================
