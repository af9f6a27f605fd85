-------------------------- MODULE EgressReconciler --------------------------
(***************************************************************************)
(* The Egress controller (internal/controller/egress_controller.go): for   *)
(* each Egress it keeps a Deployment, a Service and, if asked to, a        *)
(* PodDisruptionBudget, all of them owned by the Egress and named after    *)
(* it, the ServiceAccount of its namespace, and the ClusterRole and        *)
(* ClusterRoleBinding that all gateways share.                             *)
(*                                                                         *)
(* Reads come from informer caches that lag behind the API server; writes  *)
(* go to the API server, which is external: it refuses to create what      *)
(* exists, to update from an outdated copy, and to store what is not       *)
(* valid; and its garbage collector deletes what an Egress owned.          *)
(***************************************************************************)
EXTENDS Integers, FiniteSets

CONSTANTS
    Egress,     \* keys of Egress objects
    Namespace,  \* namespaces
    NS,         \* Egress -> its namespace
    Specs,      \* what the spec of an Egress may hold, see Fields
    Reports,    \* what status.availableReplicas of a Deployment may be
    MaxUid,     \* bound: how often an Egress of one name is created
    Foreground, \* deletions in the foreground happen
    Lag,        \* the kinds whose cache may lag behind
    Faults,     \* kinds of failure that happen: "call", "status", "crash"
    None        \* "no such object"

Kind == {"deployment", "service", "pdb"}

\* rev stands for the replicas and the template, which are always copied to the
\* Deployment; strategy for its strategy and note for an annotation of the
\* template, both copied if they are given; affinity for sessionAffinity =
\* ClientIP; config for a sessionAffinityConfig; min and max tell whether
\* minAvailable and maxUnavailable are given, and a budget with neither is left
\* out.  0 is "not given", and 1 the API server's default of strategy and config.
Fields ==
    [rev : Nat, strategy : Nat, note : Nat, affinity : BOOLEAN, config : Nat,
     min : BOOLEAN, max : BOOLEAN]

\* An Egress, and an object that it owns.
EgressObject ==
    [uid : 1 .. MaxUid, spec : Specs, status : Reports \cup {None}, deleting : BOOLEAN]
Object == [owner : 1 .. MaxUid, fields : Fields, report : Reports, deleting : BOOLEAN]

ASSUME EgressAssumption ==
    /\ NS \in [Egress -> Namespace]
    /\ Specs \subseteq Fields
    /\ Reports \subseteq Nat /\ 0 \in Reports
    /\ MaxUid \in Nat
    /\ Foreground \in BOOLEAN
    /\ Lag \subseteq Kind \cup {"egress", "crb"}
    /\ Faults \subseteq {"call", "status", "crash"}
    /\ None \notin Egress /\ None \notin EgressObject /\ None \notin Object
    /\ \A subjects \in SUBSET Namespace : subjects # None

VARIABLES
    eg, egCache,    \* Egress -> object or None: API server, cache
    obj, cache,     \* Kind -> Egress -> object or None: API server, cache
    crb, crbCache,  \* namespaces of the ClusterRoleBinding's subjects, or None
    sa, cr,         \* namespaces with the ServiceAccount; ClusterRole exists
    stale,          \* <<kind, key>>: objects newer than their copy in the cache
    uid,            \* Egress -> how often it was created
    queue, pc, key, \* work queue; step and key of the worker
    cur,            \* eg of Reconcile: the Egress it has read
    base,           \* crb of reconcileCRB: the binding it has read or created
    curStale,       \* the Egress is newer than cur
    err             \* Reconcile is going to return an error

api == <<eg, obj, crb, sa, cr, uid>>
caches == <<egCache, cache, crbCache, stale>>
worker == <<pc, key, cur, curStale, base, err>>
vars == <<api, caches, queue, worker>>

Step == {"idle", "sa", "cr", "crb", "patch", "deployment", "service", "pdb", "status"}

TypeOK ==
    /\ eg \in [Egress -> EgressObject \cup {None}]
    /\ egCache \in [Egress -> EgressObject \cup {None}]
    /\ obj \in [Kind -> [Egress -> Object \cup {None}]]
    /\ cache \in [Kind -> [Egress -> Object \cup {None}]]
    /\ crb \in {None} \cup SUBSET Namespace /\ crbCache \in {None} \cup SUBSET Namespace
    /\ sa \subseteq Namespace /\ cr \in BOOLEAN
    /\ uid \in [Egress -> 0 .. MaxUid]
    /\ queue \subseteq Egress
    /\ stale \subseteq (Lag \ {"crb"}) \X Egress
    /\ curStale \in BOOLEAN
    /\ pc \in Step /\ err \in BOOLEAN
    /\ IF pc = "patch" THEN base \in SUBSET Namespace ELSE base = None
    /\ IF pc = "idle" THEN key = None /\ cur = None /\ ~err
                      ELSE key \in Egress /\ cur \in EgressObject /\ ~cur.deleting

\* The object exists and is not being deleted.
Alive(o) == o # None /\ ~o.deleting

Nowhere == [e \in Egress |-> None]

Init ==
    /\ eg = Nowhere /\ egCache = Nowhere
    /\ obj = [k \in Kind |-> Nowhere] /\ cache = [k \in Kind |-> Nowhere]
    /\ crb = None /\ crbCache = None /\ sa = {} /\ cr = FALSE
    /\ uid = [e \in Egress |-> 0]
    /\ queue = {} /\ pc = "idle" /\ key = None /\ cur = None /\ base = None
    /\ stale = {} /\ curStale = FALSE /\ err = FALSE

-----------------------------------------------------------------------------
(***************************************************************************)
(* The API server, its users and its garbage collector.  A cache that does *)
(* not lag follows in the same step, with the event that queues the key.   *)
(***************************************************************************)
SetEgress(e, o) ==
    /\ eg' = [eg EXCEPT ![e] = o]
    /\ IF "egress" \in Lag
         THEN stale' = stale \cup {<<"egress", e>>} /\ UNCHANGED <<egCache, queue>>
         ELSE egCache' = eg' /\ queue' = queue \cup {e} /\ UNCHANGED stale

SetObject(k, e, o) ==
    /\ obj' = [obj EXCEPT ![k][e] = o]
    /\ IF k \in Lag
         THEN stale' = stale \cup {<<k, e>>} /\ UNCHANGED <<cache, queue>>
         ELSE cache' = [cache EXCEPT ![k][e] = o] /\ queue' = queue \cup {e} /\ UNCHANGED stale

\* A change by someone else makes the copy that Reconcile works on outdated.
ChangeEgress(e, o) ==
    /\ SetEgress(e, o)
    /\ curStale' = (curStale \/ e = key)
    /\ UNCHANGED <<obj, crb, sa, cr, cache, crbCache, pc, key, cur, base, err>>

CreateEgress(e) ==
    /\ eg[e] = None /\ uid[e] < MaxUid
    /\ uid' = [uid EXCEPT ![e] = @ + 1]
    /\ \E s \in Specs :
          ChangeEgress(e, [uid |-> uid'[e], spec |-> s, status |-> None, deleting |-> FALSE])

UpdateEgress(e) ==
    /\ eg[e] # None
    /\ \E s \in Specs \ {eg[e].spec} : ChangeEgress(e, [eg[e] EXCEPT !.spec = s])
    /\ UNCHANGED uid

\* Deletion in the background removes the object at once; in the foreground,
\* once the objects it owns are gone.
Owns(e, k) == obj[k][e] # None /\ obj[k][e].owner = eg[e].uid

DeleteEgress(e) ==
    /\ eg[e] # None
    /\ \/ ~eg[e].deleting /\ ChangeEgress(e, None)
       \/ Foreground /\ ~eg[e].deleting /\ ChangeEgress(e, [eg[e] EXCEPT !.deleting = TRUE])
       \/ eg[e].deleting /\ (\A k \in Kind : ~Owns(e, k)) /\ ChangeEgress(e, None)
    /\ UNCHANGED uid

CollectGarbage(k, e) ==
    /\ obj[k][e] # None
    /\ ~(Alive(eg[e]) /\ Owns(e, k))
    /\ \/ SetObject(k, e, None)
       \/ Foreground /\ ~obj[k][e].deleting /\ SetObject(k, e, [obj[k][e] EXCEPT !.deleting = TRUE])
    /\ UNCHANGED <<eg, crb, sa, cr, uid, egCache, crbCache, worker>>

\* The Deployment controller reports how many pods there are.
ReportStatus(e) ==
    /\ obj["deployment"][e] # None
    /\ \E r \in Reports \ {obj["deployment"][e].report} :
          SetObject("deployment", e, [obj["deployment"][e] EXCEPT !.report = r])
    /\ UNCHANGED <<eg, crb, sa, cr, uid, egCache, crbCache, worker>>

Cluster(e) ==
    CreateEgress(e) \/ UpdateEgress(e) \/ DeleteEgress(e) \/ ReportStatus(e)
        \/ \E k \in Kind : CollectGarbage(k, e)

-----------------------------------------------------------------------------
(***************************************************************************)
(* Watches.  An event of an owned object queues its owner, which has the   *)
(* same name.  The ClusterRoleBinding has no owner, so that its events     *)
(* queue nothing although the controller watches it.                       *)
(***************************************************************************)
WatchEgress(e) ==
    /\ <<"egress", e>> \in stale /\ stale' = stale \ {<<"egress", e>>}
    /\ egCache' = [egCache EXCEPT ![e] = eg[e]]
    /\ queue' = queue \cup {e}
    /\ UNCHANGED <<api, cache, crbCache, worker>>

\* Mutant of WatchObject: the controller does not own the kind.
WatchObjectUnowned(k, e) ==
    /\ <<k, e>> \in stale /\ stale' = stale \ {<<k, e>>}
    /\ cache' = [cache EXCEPT ![k][e] = obj[k][e]]
    /\ UNCHANGED <<api, egCache, crbCache, queue, worker>>

WatchObject(k, e) ==
    /\ <<k, e>> \in stale /\ stale' = stale \ {<<k, e>>}
    /\ cache' = [cache EXCEPT ![k][e] = obj[k][e]]
    /\ queue' = queue \cup {e}
    /\ UNCHANGED <<api, egCache, crbCache, worker>>

WatchCRB ==
    /\ crbCache # crb
    /\ crbCache' = crb
    /\ UNCHANGED <<api, egCache, cache, stale, queue, worker>>

Watch == WatchCRB \/ \E e \in Egress : WatchEgress(e) \/ \E k \in Kind : WatchObject(k, e)

-----------------------------------------------------------------------------
(***************************************************************************)
(* Reconcile.                                                              *)
(***************************************************************************)
\* Not found, or being deleted: nothing is done.
ReconcileIgnored(e) ==
    /\ pc = "idle" /\ e \in queue
    /\ ~Alive(egCache[e])
    /\ queue' = queue \ {e}
    /\ UNCHANGED <<api, caches, worker>>

\* Mutant of ReconcileStart: DeletionTimestamp is not looked at.
ReconcileStartDeleted(e) ==
    /\ pc = "idle" /\ e \in queue
    /\ egCache[e] # None
    /\ queue' = queue \ {e}
    /\ pc' = "sa" /\ key' = e /\ cur' = egCache[e]
    /\ curStale' = (<<"egress", e>> \in stale)
    /\ UNCHANGED <<api, caches, base, err>>

ReconcileStart(e) ==
    /\ pc = "idle" /\ e \in queue
    /\ Alive(egCache[e])
    /\ queue' = queue \ {e}
    /\ pc' = "sa" /\ key' = e /\ cur' = egCache[e]
    /\ curStale' = (<<"egress", e>> \in stale)
    /\ UNCHANGED <<base, err>>
    /\ UNCHANGED <<api, caches>>

Goto(step) == pc' = step /\ base' = None /\ UNCHANGED <<key, cur, curStale, err>>

\* An error ends Reconcile; the deferred updateStatus runs all the same.
ReturnError == pc' = "status" /\ err' = TRUE /\ base' = None /\ UNCHANGED <<key, cur, curStale>>

reconcileServiceAccount ==
    /\ pc = "sa"
    /\ sa' = sa \cup {NS[key]}
    /\ Goto("cr")
    /\ UNCHANGED <<eg, obj, crb, cr, uid, caches, queue>>

reconcileCR ==
    /\ pc = "cr"
    /\ cr' = TRUE
    /\ Goto("crb")
    /\ UNCHANGED <<eg, obj, crb, sa, uid, caches, queue>>

\* Mutant of getNamespaces: the namespace of the Egress at hand only.
getNamespacesOwn == {NS[key]}

getNamespaces == {NS[e] : e \in {x \in Egress : egCache[x] # None}}

\* The binding is created, without subjects, if the cache has none.
SetCRB(subjects) ==
    /\ crb' = subjects
    /\ crbCache' = IF "crb" \in Lag THEN crbCache ELSE crb'

reconcileCRB ==
    /\ pc = "crb"
    /\ \/ crbCache # None /\ base' = crbCache /\ UNCHANGED <<crb, crbCache, err>> /\ pc' = "patch"
       \/ crbCache = None /\ crb = None /\ base' = {} /\ SetCRB({}) /\ pc' = "patch" /\ UNCHANGED err
       \/ crbCache = None /\ crb # None /\ ReturnError /\ UNCHANGED <<crb, crbCache>>
    /\ UNCHANGED <<key, cur, curStale, eg, obj, sa, cr, uid, egCache, cache, stale, queue>>

\* The patch is the difference between the copy at hand and the subjects that
\* are due, empty if there is none; it carries no resource version.
patchCRB ==
    /\ pc = "patch"
    /\ IF base = getNamespaces THEN UNCHANGED <<crb, crbCache>> ELSE SetCRB(getNamespaces)
    /\ Goto("deployment")
    /\ UNCHANGED <<eg, obj, sa, cr, uid, egCache, cache, stale, queue>>

(***************************************************************************)
(* CreateOrUpdate of an owned object: a copy from the cache, or a new      *)
(* object, is mutated and written if that changes it.                      *)
(***************************************************************************)
Empty ==
    [rev |-> 0, strategy |-> 0, note |-> 0, affinity |-> FALSE, config |-> 0,
     min |-> FALSE, max |-> FALSE]

\* What is not given in the spec stays as it is in the object.
Given(value, old) == IF value = 0 THEN old ELSE value

Mutate(k, fields) ==
    CASE k = "deployment" -> [fields EXCEPT !.rev = cur.spec.rev,
                                            !.strategy = Given(cur.spec.strategy, @),
                                            !.note = Given(cur.spec.note, @)]
      [] k = "service" -> [fields EXCEPT !.affinity = cur.spec.affinity,
                                         !.config = Given(cur.spec.config, @)]
      [] k = "pdb" -> [fields EXCEPT !.min = @ \/ cur.spec.min,
                                     !.max = @ \/ cur.spec.max]

\* API validation: a budget has one of minAvailable and maxUnavailable.
Valid(fields) == ~(fields.min /\ fields.max)

\* API defaults: a Deployment has a strategy, and there is a
\* sessionAffinityConfig if and only if there is affinity.
Stored(k, fields) ==
    CASE k = "deployment" -> [fields EXCEPT !.strategy = Given(@, 1)]
      [] k = "service" -> [fields EXCEPT !.config = IF fields.affinity THEN Given(@, 1) ELSE 0]
      [] k = "pdb" -> fields

After(k) == CASE k = "deployment" -> "service" [] k = "service" -> "pdb" [] k = "pdb" -> "status"

\* Mutant of Mutated: an object of an earlier Egress of the name is taken over.
MutatedAdopts(k, old) ==
    IF old = None
      THEN [owner |-> cur.uid, fields |-> Mutate(k, Empty), report |-> 0,
            deleting |-> FALSE]
      ELSE IF old.deleting THEN old ELSE [old EXCEPT !.owner = cur.uid, !.fields = Mutate(k, @)]

\* The owner is set on creation only, and an object that is being deleted is
\* left alone.
Mutated(k, old) ==
    IF old = None
      THEN [owner |-> cur.uid, fields |-> Mutate(k, Empty), report |-> 0,
            deleting |-> FALSE]
      ELSE IF old.deleting THEN old ELSE [old EXCEPT !.fields = Mutate(k, @)]

\* The template of a Deployment always differs from the stored one, which the
\* API server has completed with its defaults.
Differs(k, old, new) == ~(new = old /\ (k = "deployment" => old.deleting))

CreateOrUpdate(k) ==
    LET old == cache[k][key]
        new == Mutated(k, old)
        stored == [new EXCEPT !.fields = Stored(k, @)]
        current == IF old = None THEN obj[k][key] = None ELSE <<k, key>> \notin stale
        accepted == current /\ Valid(new.fields)
    IN  \/ /\ ~Differs(k, old, new)
           /\ Goto(After(k)) /\ UNCHANGED <<obj, cache, stale, queue>>
        \/ /\ Differs(k, old, new) /\ accepted
           /\ IF stored = old THEN UNCHANGED <<obj, cache, stale, queue>>
                             ELSE SetObject(k, key, stored)
           /\ Goto(After(k))
        \/ /\ Differs(k, old, new) /\ ~accepted
           /\ ReturnError
           /\ UNCHANGED <<obj, cache, stale, queue>>

reconcileDeployment ==
    /\ pc = "deployment" /\ CreateOrUpdate("deployment")
    /\ UNCHANGED <<eg, crb, sa, cr, uid, egCache, crbCache>>

reconcileService ==
    /\ pc = "service" /\ CreateOrUpdate("service")
    /\ UNCHANGED <<eg, crb, sa, cr, uid, egCache, crbCache>>

reconcilePDB ==
    /\ pc = "pdb"
    /\ IF cur.spec.min \/ cur.spec.max
         THEN CreateOrUpdate("pdb")
         ELSE Goto("status") /\ UNCHANGED <<obj, cache, stale, queue>>
    /\ UNCHANGED <<eg, crb, sa, cr, uid, egCache, crbCache>>

\* updateStatus, on the copy Reconcile has read; its error is only logged.
Return(requeue) ==
    /\ pc' = "idle" /\ key' = None /\ cur' = None /\ base' = None
    /\ curStale' = FALSE /\ err' = FALSE
    /\ queue' = IF err THEN requeue \cup {key} ELSE requeue

updateStatus ==
    /\ pc = "status"
    /\ LET dep == cache["deployment"][key] IN
       IF dep = None \/ dep.report = cur.status \/ curStale
         THEN Return(queue) /\ UNCHANGED <<eg, egCache, stale>>
         ELSE /\ eg' = [eg EXCEPT ![key].status = dep.report]
              /\ IF "egress" \in Lag
                   THEN /\ stale' = stale \cup {<<"egress", key>>}
                        /\ Return(queue) /\ UNCHANGED egCache
                   ELSE Return(queue \cup {key}) /\ egCache' = eg' /\ UNCHANGED stale
    /\ UNCHANGED <<obj, crb, sa, cr, uid, cache, crbCache>>

Reconcile ==
    reconcileServiceAccount \/ reconcileCR \/ reconcileCRB \/ patchCRB \/ reconcileDeployment
        \/ reconcileService \/ reconcilePDB \/ updateStatus

-----------------------------------------------------------------------------
(***************************************************************************)
(* Failures.                                                               *)
(***************************************************************************)
CallFails ==
    /\ "call" \in Faults /\ pc \notin {"idle", "status"}
    /\ ReturnError
    /\ UNCHANGED <<api, caches, queue>>

StatusFails ==
    /\ "status" \in Faults /\ pc = "status"
    /\ Return(queue)
    /\ UNCHANGED <<api, caches>>

\* The controller dies; its successor lists everything.
Restart ==
    /\ "crash" \in Faults
    /\ egCache' = eg /\ cache' = obj /\ crbCache' = crb /\ stale' = {}
    /\ queue' = {e \in Egress : eg[e] # None \/ \E k \in Kind : obj[k][e] # None}
    /\ pc' = "idle" /\ key' = None /\ cur' = None /\ base' = None
    /\ curStale' = FALSE /\ err' = FALSE
    /\ UNCHANGED api

\* Every step but the one that leaves a status as it was.
Operate ==
    \/ \E e \in Egress : Cluster(e) \/ ReconcileIgnored(e) \/ ReconcileStart(e)
    \/ Watch \/ Reconcile
    \/ CallFails \/ Restart

Next == Operate \/ StatusFails

Spec == Init /\ [][Next]_vars

\* The worker, the watches and the garbage collector keep running; the queue is
\* first-in first-out.
FairSpec ==
    /\ Spec
    /\ WF_vars(Reconcile) /\ WF_vars(Watch)
    /\ \A e \in Egress :
          /\ SF_vars(ReconcileIgnored(e) \/ ReconcileStart(e))
          /\ WF_vars(\E k \in Kind : CollectGarbage(k, e) /\ obj'[k][e] = None)
-----------------------------------------------------------------------------
(***************************************************************************)
(* Properties.                                                             *)
(***************************************************************************)
Live(e) == Alive(eg[e])

\* The worker has nothing to do, the caches are up to date, and nothing is left
\* for the garbage collector.
Quiescent ==
    /\ pc = "idle" /\ queue = {}
    /\ stale = {} /\ crbCache = crb
    /\ \A k \in Kind, e \in Egress : obj[k][e] # None => Live(e) /\ Owns(e, k)

\* The owned objects of an Egress exist, are its own and have what it gives.
Holds(k, e) ==
    /\ Alive(obj[k][e]) /\ Owns(e, k)
    /\ LET o == obj[k][e].fields
           s == eg[e].spec
       IN  CASE k = "deployment" -> o.rev = s.rev /\ o.strategy = Given(s.strategy, o.strategy)
                                      /\ o.note = Given(s.note, o.note)
             [] k = "service" -> o.affinity = s.affinity
                                   /\ (s.affinity => o.config = Given(s.config, o.config))
             [] k = "pdb" -> o.min = s.min /\ o.max = s.max

Wanted(e) == {"deployment", "service"} \cup {k \in {"pdb"} : eg[e].spec.min \/ eg[e].spec.max}

Matches(e) == \A k \in Wanted(e) : Holds(k, e)

\* No Egress of the namespace has been deleted.
Steady(n) == \A e \in Egress : NS[e] = n => uid[e] = 0 \/ (uid[e] = 1 /\ eg[e] # None)

\* Once Reconcile has nothing left to do, the shared ClusterRoleBinding has the
\* namespace of every Egress among its subjects, although reconcileCRB patches
\* it from a copy that may be outdated, by a patch without a resource version,
\* and no event of the binding queues an Egress.  While the copy lags that is so
\* for the namespaces that have not lost an Egress, whatever happens to those of
\* other namespaces (egress_controller.go, reconcileCRB and getNamespaces).
BindingConverged ==
    Quiescent =>
        \A e \in Egress : Live(e) /\ ("crb" \in Lag => Steady(NS[e])) =>
            crb # None /\ NS[e] \in crb

\* Users, the Deployment controller and failures leave the system alone.
Disturbance ==
    \/ \E e \in Egress :
          CreateEgress(e) \/ UpdateEgress(e) \/ DeleteEgress(e) \/ ReportStatus(e)
    \/ CallFails \/ StatusFails \/ Restart

Calm == <>[][~Disturbance]_vars

\* If the disturbances cease, the objects of every Egress come to match its spec
\* for good: conflicts and objects of an earlier Egress do not keep Reconcile
\* from its goal (Reconcile, CreateOrUpdate).
EventuallyConverged == Calm => <>[](\A e \in Egress : Live(e) => Matches(e))
=============================================================================
