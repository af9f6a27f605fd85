----------------------- MODULE EgressReconcilerProofs -----------------------
(***************************************************************************)
(* Proofs about EgressReconciler and its history, for any set of Egresses, *)
(* specs and reports, any kinds that lag and any failures: what the worker *)
(* has not brought up to date yet is queued, at hand, or about to be       *)
(* queued by the watch of a stale copy.                                    *)
(***************************************************************************)
EXTENDS EgressHistory, TLAPS

USE ZenonT(20)

(***************************************************************************)
(* The inductive invariant.                                                *)
(***************************************************************************)
\* A copy that is not known to be stale is the object itself.
CacheInv ==
    /\ \A e \in Egress : <<"egress", e>> \notin stale => egCache[e] = eg[e]
    /\ \A k \in Kind, e \in Egress : <<k, e>> \notin stale => cache[k][e] = obj[k][e]

\* What Reconcile works on is the cached Egress unless its key is queued again,
\* and is the Egress itself unless the key is queued or about to be.
CurInv ==
    pc # "idle" =>
        /\ key \notin queue => egCache[key] = cur
        /\ ~curStale => eg[key] = cur
        /\ curStale => key \in queue \/ <<"egress", key>> \in stale

\* No copy of an Egress and no owner of an object is younger than the Egress of
\* that name that was created last.
UidInv ==
    \A e \in Egress :
        /\ eg[e] # None => eg[e].uid <= uid[e]
        /\ egCache[e] # None => egCache[e].uid <= uid[e]
        /\ pc # "idle" /\ key = e => cur.uid <= uid[e]

\* No object is owned by an Egress that is yet to be created.
OwnerInv == \A k \in Kind, e \in Egress : obj[k][e] # None => obj[k][e].owner <= uid[e]

\* The garbage collector only deletes what no living Egress owns.
DeletingInv ==
    \A k \in Kind, e \in Egress :
        obj[k][e] # None /\ obj[k][e].deleting => ~(Alive(eg[e]) /\ Owns(e, k))

\* An object is never owned by an Egress that Reconcile has not seen yet, and
\* what it works on is no younger than the copy it would read now.
SeenInv ==
    \A e \in Egress :
        /\ eg[e] # None => eg[e].uid = uid[e]
        /\ pc # "idle" /\ key = e /\ egCache[e] # None => cur.uid <= egCache[e].uid
        /\ \A k \in Kind : obj[k][e] # None =>
              /\ egCache[e] # None => obj[k][e].owner <= egCache[e].uid
              /\ pc # "idle" /\ key = e => obj[k][e].owner <= cur.uid

\* The API server has accepted every object, and every copy of one.
FieldsInv ==
    \A k \in Kind, e \in Egress :
        /\ obj[k][e] # None => Valid(obj[k][e].fields)
        /\ cache[k][e] # None => Valid(cache[k][e].fields)

\* The steps of Reconcile at which the object of kind k has been seen to.
Past(k) ==
    CASE k = "deployment" -> {"service", "pdb", "status"}
      [] k = "service" -> {"pdb", "status"}
      [] k = "pdb" -> {"status"}

\* Reconcile has seen to e and has no reason to come back to it, if the steps
\* where it is done with e are those.
Done(e, steps) ==
    /\ Alive(egCache[e]) /\ e \notin queue
    /\ key = e => ~err /\ pc \in steps

\* The fields have what the spec gives for an object of kind k.
Fits(k, f, s) ==
    CASE k = "deployment" -> f.rev = s.rev /\ f.strategy = Given(s.strategy, f.strategy)
                               /\ f.note = Given(s.note, f.note)
      [] k = "service" -> f.affinity = s.affinity
                            /\ (s.affinity => f.config = Given(s.config, f.config))
      [] k = "pdb" -> s.min \/ s.max => f.min = s.min /\ f.max = s.max

\* An object that Reconcile is done with exists and fits, unless it is deleted.
Fit(k, e) ==
    Done(e, Past(k)) /\ <<k, e>> \notin stale =>
        \/ k = "pdb" /\ ~egCache[e].spec.min /\ ~egCache[e].spec.max
        \/ /\ obj[k][e] # None
           /\ obj[k][e].deleting \/ Fits(k, obj[k][e].fields, egCache[e].spec)

\* So it is with every object.
FitInv == \A k \in Kind, e \in Egress : Fit(k, e)

\* Once Reconcile is past them, ServiceAccount and ClusterRole exist.
RolesInv ==
    \A e \in Egress :
        /\ Done(e, Step \ {"sa"}) => NS[e] \in sa
        /\ Done(e, Step \ {"sa", "cr"}) => cr

\* If the copy of the binding is never behind, Reconcile patches the binding as
\* it is, and once it has, the binding names the namespace of the Egress.
BindingInv ==
    "crb" \notin Lag =>
        /\ crbCache = crb
        /\ pc = "patch" => base = crb
        /\ \A e \in Egress :
              Done(e, Step \ {"sa", "cr", "crb", "patch"}) => crb # None /\ NS[e] \in crb

\* A namespace with an Egress that has been seen.
Seen(n) == \E e \in Egress : NS[e] = n /\ egCache[e] # None

\* If a namespace has lost no Egress, it stays in the binding from when it first
\* got there, so that no copy of the binding has it in vain.
SteadyInv ==
    \A e \in Egress : Steady(NS[e]) =>
        /\ \A subjects \in {crb, crbCache, base} : subjects # None /\ NS[e] \in subjects =>
              crb # None /\ NS[e] \in crb /\ Seen(NS[e])
        /\ Done(e, Step \ {"sa", "cr", "crb", "patch"}) => crb # None /\ NS[e] \in crb

\* The inductive invariant of EgressReconciler.
IInv ==
    /\ TypeOK /\ CacheInv /\ CurInv /\ UidInv /\ OwnerInv /\ DeletingInv /\ SeenInv
    /\ FieldsInv /\ FitInv /\ RolesInv /\ BindingInv /\ SteadyInv

\* The fields that are copied only if they are given come from these specs.
From(k, f, specs) ==
    /\ k = "deployment" =>
          /\ f.strategy \in {1} \cup ({s.strategy : s \in specs} \ {0})
          /\ f.note \in {0} \cup ({s.note : s \in specs} \ {0})
    /\ k = "service" =>
          IF f.affinity THEN f.config \in {1} \cup ({s.config : s \in specs} \ {0}) ELSE f.config = 0

\* The copies of an Egress that exists, and the objects it owns, have come from
\* the specs it has had.
GivenInv ==
    \A e \in Egress : eg[e] # None =>
        /\ eg[e].spec \in given[e]
        /\ egCache[e] # None /\ egCache[e].uid = uid[e] => egCache[e].spec \in given[e]
        /\ pc # "idle" /\ key = e /\ cur.uid = uid[e] => cur.spec \in given[e]
        /\ \A k \in Kind : obj[k][e] # None /\ obj[k][e].owner = uid[e] =>
              From(k, obj[k][e].fields, given[e])

\* The status tells what the Deployment reports, if it exists.
Reported(e) ==
    Done(e, {}) /\ <<"egress", e>> \notin stale /\ <<"deployment", e>> \notin stale =>
        obj["deployment"][e] = None \/ eg[e].status = obj["deployment"][e].report

\* So it is with every Egress whose status was not missed.
StatusInv == \A e \in Egress \ missed : Reported(e)

\* The inductive invariant with the history.
HInv == IInv /\ HTypeOK /\ GivenInv /\ StatusInv

-----------------------------------------------------------------------------
(***************************************************************************)
(* Types.                                                                  *)
(***************************************************************************)
\* Empty is of the type of fields.
LEMMA EmptyType == Empty \in Fields
BY DEF Empty, Fields

\* Mutate gives fields.
LEMMA MutateType ==
    ASSUME cur \in EgressObject, NEW k \in Kind, NEW f \in Fields
    PROVE  Mutate(k, f) \in Fields
<1>1. cur.spec \in Fields  BY EgressAssumption DEF EgressObject
<1>2. CASE k = "deployment"  BY <1>1, <1>2 DEF Mutate, Given, Fields
<1>3. CASE k = "service"  BY <1>1, <1>3 DEF Mutate, Given, Fields
<1>4. CASE k = "pdb"  BY <1>1, <1>4 DEF Mutate, Fields
<1> QED  BY <1>2, <1>3, <1>4 DEF Kind

\* Stored gives fields.
LEMMA StoredType ==
    ASSUME NEW k \in Kind, NEW f \in Fields
    PROVE  Stored(k, f) \in Fields
BY DEF Stored, Given, Fields, Kind

\* What CreateOrUpdate writes is an object.
LEMMA MutatedType ==
    ASSUME cur \in EgressObject, NEW k \in Kind, NEW old \in Object \cup {None}
    PROVE  /\ Mutated(k, old) \in Object
           /\ [Mutated(k, old) EXCEPT !.fields = Stored(k, @)] \in Object
<1>1. Mutated(k, old) \in Object
  <2>1. CASE old = None
    BY <2>1, EmptyType, MutateType, EgressAssumption DEF Mutated, Object, EgressObject
  <2>2. CASE old # None /\ old.deleting  BY <2>2 DEF Mutated
  <2>3. CASE old # None /\ ~old.deleting
    <3>1. old \in Object /\ old.fields \in Fields  BY <2>3 DEF Object
    <3>2. Mutate(k, old.fields) \in Fields  BY <3>1, MutateType
    <3> QED  BY <2>3, <3>1, <3>2 DEF Mutated, Object
  <2> QED  BY <2>1, <2>2, <2>3
<1>2. Stored(k, Mutated(k, old).fields) \in Fields  BY <1>1, StoredType DEF Object
<1> QED  BY <1>1, <1>2 DEF Object

\* SetEgress keeps the types of what it changes.
LEMMA SetEgressType ==
    ASSUME TypeOK, NEW e \in Egress, NEW o \in EgressObject \cup {None}, SetEgress(e, o)
    PROVE  /\ eg' \in [Egress -> EgressObject \cup {None}]
           /\ egCache' \in [Egress -> EgressObject \cup {None}]
           /\ queue' \subseteq Egress /\ stale' \subseteq (Lag \ {"crb"}) \X Egress
BY SMTT(20) DEF TypeOK, SetEgress

\* The same for SetObject.
LEMMA SetObjectType ==
    ASSUME TypeOK, NEW k \in Kind, NEW e \in Egress, NEW o \in Object \cup {None},
           SetObject(k, e, o)
    PROVE  /\ obj' \in [Kind -> [Egress -> Object \cup {None}]]
           /\ cache' \in [Kind -> [Egress -> Object \cup {None}]]
           /\ queue' \subseteq Egress /\ stale' \subseteq (Lag \ {"crb"}) \X Egress
BY SMTT(20) DEF TypeOK, SetObject, Kind

\* The outcomes of CreateOrUpdate: nothing to write, a write, or an error.
LEMMA CreateOrUpdateOutcome ==
    ASSUME TypeOK, NEW k \in Kind, pc # "idle", CreateOrUpdate(k)
    PROVE  \/ Goto(After(k)) /\ UNCHANGED <<obj, cache, stale, queue>>
           \/ /\ Goto(After(k))
              /\ \E o \in Object :
                    /\ o = [Mutated(k, cache[k][key]) EXCEPT !.fields = Stored(k, @)]
                    /\ SetObject(k, key, o)
           \/ ReturnError /\ UNCHANGED <<obj, cache, stale, queue>>
<1>1. /\ key \in Egress /\ cur \in EgressObject
      /\ cache[k][key] \in Object \cup {None}
  BY SMTT(20) DEF TypeOK
<1>2. [Mutated(k, cache[k][key]) EXCEPT !.fields = Stored(k, @)] \in Object
  BY <1>1, MutatedType
<1> QED  BY <1>2 DEF CreateOrUpdate

\* CreateOrUpdate preserves TypeOK.
LEMMA CreateOrUpdateType ==
    ASSUME TypeOK, NEW k \in Kind, pc = k, CreateOrUpdate(k),
           UNCHANGED <<eg, crb, sa, cr, uid, egCache, crbCache>>
    PROVE  TypeOK'
<1> USE DEF Kind
<1>1. /\ key \in Egress /\ cur \in EgressObject /\ ~cur.deleting /\ pc # "idle"
  BY DEF TypeOK
<1>2. After(k) \in Step \ {"idle", "patch"}  BY DEF After, Step
<1>3. ASSUME Goto(After(k)), UNCHANGED <<obj, cache, stale, queue>>
      PROVE  TypeOK'
  BY <1>1, <1>2, <1>3 DEF TypeOK, Goto
<1>4. ASSUME Goto(After(k)), NEW o \in Object, SetObject(k, key, o)
      PROVE  TypeOK'
  <2>1. /\ obj' \in [Kind -> [Egress -> Object \cup {None}]]
        /\ cache' \in [Kind -> [Egress -> Object \cup {None}]]
        /\ queue' \subseteq Egress /\ stale' \subseteq (Lag \ {"crb"}) \X Egress
    BY <1>1, <1>4, SetObjectType
  <2> QED  BY <1>1, <1>2, <1>4, <2>1 DEF TypeOK, Goto
<1>5. ASSUME ReturnError, UNCHANGED <<obj, cache, stale, queue>>
      PROVE  TypeOK'
  BY <1>1, <1>5 DEF TypeOK, ReturnError, Step
<1> QED  BY <1>1, <1>3, <1>4, <1>5, CreateOrUpdateOutcome

\* So does a change of an Egress by its user.
LEMMA ChangeEgressType ==
    ASSUME TypeOK, NEW e \in Egress, NEW o \in EgressObject \cup {None}, ChangeEgress(e, o),
           uid' \in [Egress -> 0 .. MaxUid]
    PROVE  TypeOK'
<1>1. /\ eg' \in [Egress -> EgressObject \cup {None}]
      /\ egCache' \in [Egress -> EgressObject \cup {None}]
      /\ queue' \subseteq Egress /\ stale' \subseteq (Lag \ {"crb"}) \X Egress
  BY SetEgressType DEF ChangeEgress
<1>2. curStale' \in BOOLEAN  BY DEF ChangeEgress, TypeOK
<1> QED  BY <1>1, <1>2 DEF ChangeEgress, TypeOK

\* So does a change of an object by others.
LEMMA ChangeObjectType ==
    ASSUME TypeOK, NEW k \in Kind, NEW e \in Egress, NEW o \in Object \cup {None},
           SetObject(k, e, o), UNCHANGED <<eg, crb, sa, cr, uid, egCache, crbCache, worker>>
    PROVE  TypeOK'
<1>1. /\ obj' \in [Kind -> [Egress -> Object \cup {None}]]
      /\ cache' \in [Kind -> [Egress -> Object \cup {None}]]
      /\ queue' \subseteq Egress /\ stale' \subseteq (Lag \ {"crb"}) \X Egress
  BY SetObjectType
<1> QED  BY <1>1 DEF TypeOK, worker

\* TypeOK is preserved; CurInv is needed for the status that is written.
LEMMA TypeStep == TypeOK /\ CurInv /\ [Next]_vars => TypeOK'
<1> SUFFICES ASSUME TypeOK, CurInv, [Next]_vars PROVE TypeOK'  OBVIOUS
<1> USE EgressAssumption
<1>1. ASSUME NEW e \in Egress, CreateEgress(e) PROVE TypeOK'
  <2>1. uid' \in [Egress -> 0 .. MaxUid] /\ uid'[e] \in 1 .. MaxUid
    BY <1>1, SMTT(20) DEF TypeOK, CreateEgress
  <2>2. PICK s \in Specs :
          ChangeEgress(e, [uid |-> uid'[e], spec |-> s, status |-> None, deleting |-> FALSE])
    BY <1>1 DEF CreateEgress
  <2>3. [uid |-> uid'[e], spec |-> s, status |-> None, deleting |-> FALSE] \in EgressObject
    BY <2>1 DEF EgressObject
  <2> QED  BY <2>1, <2>2, <2>3, ChangeEgressType
<1>2. ASSUME NEW e \in Egress, UpdateEgress(e) PROVE TypeOK'
  <2>1. eg[e] \in EgressObject /\ uid' \in [Egress -> 0 .. MaxUid]
    BY <1>2 DEF TypeOK, UpdateEgress
  <2>2. PICK s \in Specs : ChangeEgress(e, [eg[e] EXCEPT !.spec = s])
    BY <1>2 DEF UpdateEgress
  <2>3. [eg[e] EXCEPT !.spec = s] \in EgressObject  BY <2>1 DEF EgressObject
  <2> QED  BY <2>1, <2>2, <2>3, ChangeEgressType
<1>3. ASSUME NEW e \in Egress, DeleteEgress(e) PROVE TypeOK'
  <2>1. eg[e] \in EgressObject /\ uid' \in [Egress -> 0 .. MaxUid]
    BY <1>3 DEF TypeOK, DeleteEgress
  <2>2. [eg[e] EXCEPT !.deleting = TRUE] \in EgressObject  BY <2>1 DEF EgressObject
  <2>3. ChangeEgress(e, None) \/ ChangeEgress(e, [eg[e] EXCEPT !.deleting = TRUE])
    BY <1>3 DEF DeleteEgress
  <2> QED  BY <2>1, <2>2, <2>3, ChangeEgressType
<1>4. ASSUME NEW e \in Egress, ReportStatus(e) PROVE TypeOK'
  <2>1. obj["deployment"][e] \in Object  BY <1>4, SMTT(20) DEF TypeOK, ReportStatus, Kind
  <2>2. PICK r \in Reports :
          SetObject("deployment", e, [obj["deployment"][e] EXCEPT !.report = r])
    BY <1>4 DEF ReportStatus
  <2>3. [obj["deployment"][e] EXCEPT !.report = r] \in Object  BY <2>1 DEF Object
  <2> QED  BY <1>4, <2>2, <2>3, ChangeObjectType DEF ReportStatus, Kind
<1>5. ASSUME NEW e \in Egress, NEW k \in Kind, CollectGarbage(k, e) PROVE TypeOK'
  <2>1. obj[k][e] \in Object  BY <1>5, SMTT(20) DEF TypeOK, CollectGarbage
  <2>2. [obj[k][e] EXCEPT !.deleting = TRUE] \in Object  BY <2>1 DEF Object
  <2> QED  BY <1>5, <2>2, ChangeObjectType DEF CollectGarbage
<1>6. ASSUME NEW e \in Egress, ReconcileIgnored(e) PROVE TypeOK'
  BY <1>6 DEF ReconcileIgnored, TypeOK, api, caches, worker
<1>7. ASSUME NEW e \in Egress, ReconcileStart(e) PROVE TypeOK'
  BY <1>7, SMTT(20) DEF ReconcileStart, TypeOK, Alive, Step, api, caches
<1>8. CASE Watch
  <2>1. CASE WatchCRB  BY <2>1 DEF WatchCRB, TypeOK, api, worker
  <2>2. ASSUME NEW e \in Egress, WatchEgress(e) PROVE TypeOK'
    BY <2>2 DEF WatchEgress, TypeOK, api, worker
  <2>3. ASSUME NEW e \in Egress, NEW k \in Kind, WatchObject(k, e) PROVE TypeOK'
    BY <2>3, SMTT(20) DEF WatchObject, TypeOK, api, worker
  <2> QED  BY <1>8, <2>1, <2>2, <2>3 DEF Watch
<1>9. CASE reconcileServiceAccount
  BY <1>9, SMTT(20) DEF reconcileServiceAccount, Goto, TypeOK, Step, caches
<1>10. CASE reconcileCR
  BY <1>10 DEF reconcileCR, Goto, TypeOK, Step, caches
<1>11. CASE reconcileCRB
  BY <1>11 DEF reconcileCRB, SetCRB, ReturnError, TypeOK, Step
<1>12. CASE patchCRB
  <2>1. getNamespaces \in SUBSET Namespace  BY SMTT(20) DEF getNamespaces
  <2> QED  BY <1>12, <2>1 DEF patchCRB, SetCRB, Goto, TypeOK, Step
<1>13. CASE reconcileDeployment
  BY <1>13, CreateOrUpdateType DEF reconcileDeployment, Kind
<1>14. CASE reconcileService
  BY <1>14, CreateOrUpdateType DEF reconcileService, Kind
<1>15. CASE reconcilePDB
  <2>1. CASE cur.spec.min \/ cur.spec.max
    BY <1>15, <2>1, CreateOrUpdateType DEF reconcilePDB, Kind
  <2>2. CASE ~(cur.spec.min \/ cur.spec.max)
    BY <1>15, <2>2 DEF reconcilePDB, Goto, TypeOK, Step
  <2> QED  BY <2>1, <2>2
<1>16. CASE updateStatus
  <2>1. /\ pc = "status" /\ key \in Egress /\ cur \in EgressObject
        /\ cache["deployment"][key] \in Object \cup {None}
    BY <1>16, SMTT(20) DEF updateStatus, TypeOK, Kind
  <2>2. CASE Return(queue) /\ UNCHANGED <<eg, egCache, stale>>
    BY <1>16, <2>1, <2>2 DEF updateStatus, Return, TypeOK, Step
  <2>3. CASE ~(Return(queue) /\ UNCHANGED <<eg, egCache, stale>>)
    <3>1. /\ cache["deployment"][key].report \in Reports /\ ~curStale
          /\ eg' = [eg EXCEPT ![key].status = cache["deployment"][key].report]
          /\ IF "egress" \in Lag
               THEN /\ stale' = stale \cup {<<"egress", key>>}
                    /\ Return(queue) /\ UNCHANGED egCache
               ELSE Return(queue \cup {key}) /\ egCache' = eg' /\ UNCHANGED stale
      BY <1>16, <2>1, <2>3 DEF updateStatus, Object
    <3>2. eg' \in [Egress -> EgressObject \cup {None}]
      <4>1. eg[key] \in EgressObject  BY <2>1, <3>1 DEF CurInv
      <4> QED  BY <2>1, <3>1, <4>1 DEF TypeOK, EgressObject
    <3>3. /\ egCache' \in [Egress -> EgressObject \cup {None}]
          /\ queue' \subseteq Egress /\ stale' \subseteq (Lag \ {"crb"}) \X Egress
      <4>1. CASE "egress" \in Lag
        <5>1. Return(queue) /\ UNCHANGED egCache /\ stale' = stale \cup {<<"egress", key>>}
          BY <3>1, <4>1
        <5>2. queue' \subseteq Egress  BY <2>1, <5>1 DEF Return, TypeOK
        <5>3. stale' \subseteq (Lag \ {"crb"}) \X Egress  BY <2>1, <4>1, <5>1, SMTT(20) DEF TypeOK
        <5> QED  BY <5>1, <5>2, <5>3 DEF TypeOK
      <4>2. CASE "egress" \notin Lag
        <5>1. Return(queue \cup {key}) /\ egCache' = eg' /\ UNCHANGED stale  BY <3>1, <4>2
        <5>2. queue' \subseteq Egress  BY <2>1, <5>1 DEF Return, TypeOK
        <5> QED  BY <3>2, <5>1, <5>2 DEF TypeOK
      <4> QED  BY <4>1, <4>2
    <3>4. /\ pc' = "idle" /\ key' = None /\ cur' = None /\ base' = None
          /\ err' = FALSE /\ curStale' = FALSE
      BY <3>1 DEF Return
    <3> QED  BY <1>16, <3>2, <3>3, <3>4 DEF updateStatus, TypeOK, Step
  <2> QED  BY <2>2, <2>3
<1>17. CASE CallFails
  BY <1>17 DEF CallFails, ReturnError, TypeOK, Step, api, caches
<1>18. CASE StatusFails
  BY <1>18 DEF StatusFails, Return, TypeOK, Step, api, caches
<1>19. CASE Restart
  BY <1>19 DEF Restart, TypeOK, Step, api
<1>20. CASE UNCHANGED vars
  BY <1>20 DEF TypeOK, vars, api, caches, worker
<1> QED
  BY <1>1, <1>2, <1>3, <1>4, <1>5, <1>6, <1>7, <1>8, <1>9, <1>10, <1>11, <1>12, <1>13,
     <1>14, <1>15, <1>16, <1>17, <1>18, <1>19, <1>20
  DEF Next, Operate, Cluster, Reconcile

\* TypeOK holds at the start.
LEMMA TypeInit == Init => TypeOK
<1> SUFFICES ASSUME Init PROVE TypeOK  OBVIOUS
<1>1. /\ eg \in [Egress -> EgressObject \cup {None}]
      /\ egCache \in [Egress -> EgressObject \cup {None}]
  BY DEF Init, Nowhere
<1>2. /\ obj \in [Kind -> [Egress -> Object \cup {None}]]
      /\ cache \in [Kind -> [Egress -> Object \cup {None}]]
  BY DEF Init, Nowhere
<1>3. uid \in [Egress -> 0 .. MaxUid]  BY EgressAssumption, SMTT(20) DEF Init
<1> QED  BY <1>1, <1>2, <1>3 DEF Init, TypeOK, Step

-----------------------------------------------------------------------------
(***************************************************************************)
(* What a step does, by what it changes.                                   *)
(***************************************************************************)
\* A user changes an Egress: a new one has a new uid, and a deletion is final.
EgressChanged(e, o) ==
    /\ ChangeEgress(e, o)
    /\ \/ /\ eg[e] = None /\ o # None
          /\ uid' = [uid EXCEPT ![e] = @ + 1] /\ o.uid = uid[e] + 1
       \/ /\ eg[e] # None /\ UNCHANGED uid
          /\ o # None => o.uid = eg[e].uid /\ (eg[e].deleting => o.deleting)

\* The cluster changes an owned object.
ObjectChanged(k, e, o) ==
    /\ SetObject(k, e, o)
    /\ UNCHANGED <<eg, crb, sa, cr, uid, egCache, crbCache, worker>>
    /\ obj[k][e] # None
    /\ o # None => /\ o.owner = obj[k][e].owner /\ o.fields = obj[k][e].fields
                   /\ o.deleting => obj[k][e].deleting \/ ~(Alive(eg[e]) /\ Owns(e, k))

\* CreateOrUpdate has nothing to write, or a budget is not asked for.
Left(k) ==
    /\ pc = k /\ Goto(After(k)) /\ UNCHANGED <<api, caches, queue>>
    /\ LET old == cache[k][key]
           new == Mutated(k, old)
       IN  \/ k = "pdb" /\ ~cur.spec.min /\ ~cur.spec.max
           \/ old # None /\ new = old
           \/ old # None /\ Valid(new.fields) /\ [new EXCEPT !.fields = Stored(k, @)] = old

\* CreateOrUpdate creates an object, or updates one from an up-to-date copy.
Wrote(k, o) ==
    /\ pc = k /\ Goto(After(k)) /\ SetObject(k, key, o)
    /\ UNCHANGED <<eg, crb, sa, cr, uid, egCache, crbCache>>
    /\ LET old == cache[k][key]
           new == Mutated(k, old)
       IN  /\ o = [new EXCEPT !.fields = Stored(k, @)] /\ Valid(new.fields)
           /\ IF old = None THEN obj[k][key] = None ELSE ~old.deleting /\ <<k, key>> \notin stale

\* Reconcile gets an error, and goes on to updateStatus.
Failed == pc # "idle" /\ ReturnError /\ UNCHANGED <<api, caches, queue>>

\* Reconcile returns without writing the status.
Returned ==
    /\ pc = "status" /\ Return(queue) /\ UNCHANGED <<api, caches>>
    /\ \/ "status" \in Faults \/ curStale
       \/ LET dep == cache["deployment"][key] IN dep = None \/ dep.report = cur.status

\* updateStatus writes what the Deployment reports.
StatusWritten(r) ==
    /\ pc = "status" /\ ~curStale
    /\ eg' = [eg EXCEPT ![key].status = r]
    /\ IF "egress" \in Lag
         THEN stale' = stale \cup {<<"egress", key>>} /\ Return(queue) /\ UNCHANGED egCache
         ELSE Return(queue \cup {key}) /\ egCache' = eg' /\ UNCHANGED stale
    /\ UNCHANGED <<obj, crb, sa, cr, uid, cache, crbCache>>

\* The binding is read from the cache or created.
BindingRead ==
    /\ pc = "crb" /\ pc' = "patch"
    /\ \/ crbCache # None /\ base' = crbCache /\ UNCHANGED <<crb, crbCache>>
       \/ crbCache = None /\ crb = None /\ base' = {} /\ SetCRB({})
    /\ UNCHANGED <<key, cur, curStale, err, eg, obj, sa, cr, uid, egCache, cache, stale, queue>>

\* CreateOrUpdate leaves the object, fails, or writes it.
LEMMA CreateOrUpdateCases ==
    ASSUME TypeOK, NEW k \in Kind, pc = k, CreateOrUpdate(k),
           UNCHANGED <<eg, crb, sa, cr, uid, egCache, crbCache>>
    PROVE  Left(k) \/ Failed \/ \E o \in Object : Wrote(k, o)
<1> DEFINE old == cache[k][key]
           new == Mutated(k, old)
           stored == [new EXCEPT !.fields = Stored(k, @)]
           current == IF old = None THEN obj[k][key] = None ELSE <<k, key>> \notin stale
<1>1. /\ key \in Egress /\ cur \in EgressObject /\ pc # "idle" /\ old \in Object \cup {None}
  BY DEF TypeOK, Kind
<1>2. new \in Object /\ stored \in Object  BY <1>1, MutatedType
<1>3. CASE ~Differs(k, old, new) /\ Goto(After(k)) /\ UNCHANGED <<obj, cache, stale, queue>>
  BY <1>2, <1>3, EgressAssumption DEF Left, Differs, api, caches
<1>4. CASE Differs(k, old, new) /\ ~(current /\ Valid(new.fields))
           /\ ReturnError /\ UNCHANGED <<obj, cache, stale, queue>>
  BY <1>1, <1>4 DEF Failed, api, caches
<1>5. CASE /\ Differs(k, old, new) /\ current /\ Valid(new.fields)
           /\ Goto(After(k)) /\ stored = old /\ UNCHANGED <<obj, cache, stale, queue>>
  BY <1>2, <1>5, EgressAssumption DEF Left, api, caches
<1>6. CASE /\ Differs(k, old, new) /\ current /\ Valid(new.fields)
           /\ Goto(After(k)) /\ SetObject(k, key, stored)
  <2>1. old # None => ~old.deleting  BY <1>6 DEF Differs, Mutated
  <2>2. Wrote(k, stored)  BY <1>6, <2>1 DEF Wrote
  <2> QED  BY <1>2, <2>2
<1> QED  BY <1>3, <1>4, <1>5, <1>6 DEF CreateOrUpdate

\* The kinds of steps that the proofs tell apart.
Summary ==
    \/ \E e \in Egress, o \in EgressObject \cup {None} : EgressChanged(e, o)
    \/ \E k \in Kind, e \in Egress, o \in Object \cup {None} : ObjectChanged(k, e, o)
    \/ \E e \in Egress : WatchEgress(e) \/ \E k \in Kind : WatchObject(k, e)
    \/ \E e \in Egress : ReconcileIgnored(e) \/ ReconcileStart(e)
    \/ WatchCRB \/ reconcileServiceAccount \/ reconcileCR \/ BindingRead \/ patchCRB
    \/ \E k \in Kind : Left(k) \/ \E o \in Object : Wrote(k, o)
    \/ Failed \/ Returned \/ \E r \in Reports : StatusWritten(r)
    \/ Restart \/ UNCHANGED vars

\* Every step is one of these.
LEMMA StepSummary ==
    ASSUME TypeOK, [Next]_vars
    PROVE  Summary
<1> USE EgressAssumption
<1>1. ASSUME NEW e \in Egress, CreateEgress(e) PROVE Summary
  <2>1. /\ uid[e] \in Nat /\ eg[e] = None /\ uid' = [uid EXCEPT ![e] = @ + 1]
        /\ uid'[e] = uid[e] + 1 /\ uid'[e] \in 1 .. MaxUid
    BY <1>1, SMTT(20) DEF TypeOK, CreateEgress
  <2>2. PICK s \in Specs :
          ChangeEgress(e, [uid |-> uid'[e], spec |-> s, status |-> None, deleting |-> FALSE])
    BY <1>1 DEF CreateEgress
  <2> DEFINE o == [uid |-> uid'[e], spec |-> s, status |-> None, deleting |-> FALSE]
  <2>3. o \in EgressObject /\ o # None /\ o.uid = uid[e] + 1
    <3>1. o \in EgressObject  BY <2>1 DEF EgressObject
    <3> QED  BY <2>1, <3>1
  <2>4. EgressChanged(e, o)
    <3> HIDE DEF o
    <3> QED  BY <2>1, <2>2, <2>3 DEF EgressChanged, o
  <2> QED  BY <2>3, <2>4 DEF Summary
<1>2. ASSUME NEW e \in Egress, UpdateEgress(e) PROVE Summary
  <2>1. eg[e] \in EgressObject /\ eg[e] # None /\ UNCHANGED uid
    BY <1>2 DEF TypeOK, UpdateEgress
  <2>2. PICK s \in Specs : ChangeEgress(e, [eg[e] EXCEPT !.spec = s])
    BY <1>2 DEF UpdateEgress
  <2> DEFINE o == [eg[e] EXCEPT !.spec = s]
  <2>3. o \in EgressObject /\ o.uid = eg[e].uid /\ o.deleting = eg[e].deleting
    BY <2>1 DEF EgressObject
  <2>4. EgressChanged(e, o)
    <3> HIDE DEF o
    <3> QED  BY <2>1, <2>2, <2>3 DEF EgressChanged, o
  <2> QED  BY <2>3, <2>4 DEF Summary
<1>3. ASSUME NEW e \in Egress, DeleteEgress(e) PROVE Summary
  <2>1. eg[e] \in EgressObject /\ eg[e] # None /\ UNCHANGED uid
    BY <1>3 DEF TypeOK, DeleteEgress
  <2> DEFINE o == [eg[e] EXCEPT !.deleting = TRUE]
  <2>2. o \in EgressObject /\ o.uid = eg[e].uid /\ o.deleting  BY <2>1 DEF EgressObject
  <2>3. ChangeEgress(e, None) \/ ChangeEgress(e, o)
    BY <1>3 DEF DeleteEgress
  <2>4. EgressChanged(e, None) \/ EgressChanged(e, o)
    <3> HIDE DEF o
    <3> QED  BY <2>1, <2>2, <2>3 DEF EgressChanged
  <2> QED  BY <2>2, <2>4 DEF Summary
<1>4. ASSUME NEW e \in Egress, ReportStatus(e) PROVE Summary
  <2>1. obj["deployment"][e] \in Object  BY <1>4, SMTT(20) DEF TypeOK, ReportStatus, Kind
  <2>2. PICK r \in Reports :
          SetObject("deployment", e, [obj["deployment"][e] EXCEPT !.report = r])
    BY <1>4 DEF ReportStatus
  <2> DEFINE o == [obj["deployment"][e] EXCEPT !.report = r]
  <2>3. /\ o \in Object /\ o.owner = obj["deployment"][e].owner
        /\ o.fields = obj["deployment"][e].fields /\ o.deleting = obj["deployment"][e].deleting
    BY <2>1 DEF Object
  <2>4. ObjectChanged("deployment", e, o)
    <3> HIDE DEF o
    <3> QED  BY <1>4, <2>2, <2>3 DEF ObjectChanged, ReportStatus, o
  <2> QED  BY <2>3, <2>4 DEF Summary, Kind
<1>5. ASSUME NEW e \in Egress, NEW k \in Kind, CollectGarbage(k, e) PROVE Summary
  <2>1. obj[k][e] \in Object  BY <1>5, SMTT(20) DEF TypeOK, CollectGarbage
  <2> DEFINE o == [obj[k][e] EXCEPT !.deleting = TRUE]
  <2>2. o \in Object /\ o.owner = obj[k][e].owner /\ o.fields = obj[k][e].fields
    BY <2>1 DEF Object
  <2>3. ObjectChanged(k, e, None) \/ ObjectChanged(k, e, o)
    <3> HIDE DEF o
    <3> QED  BY <1>5, <2>2 DEF ObjectChanged, CollectGarbage, o
  <2> QED  BY <2>2, <2>3 DEF Summary
<1>6. CASE reconcileCRB
  <2>1. CASE ReturnError
    <3>1. pc = "crb" /\ UNCHANGED <<crb, crbCache>>
      BY <1>6, <2>1 DEF reconcileCRB, ReturnError
    <3>2. Failed  BY <1>6, <2>1, <3>1 DEF reconcileCRB, Failed, api, caches
    <3> QED  BY <3>2 DEF Summary
  <2>2. CASE ~ReturnError
    BY <1>6, <2>2 DEF reconcileCRB, BindingRead, Summary
  <2> QED  BY <2>1, <2>2
<1>7. CASE reconcileDeployment
  BY <1>7, CreateOrUpdateCases DEF reconcileDeployment, Kind, Summary
<1>8. CASE reconcileService
  BY <1>8, CreateOrUpdateCases DEF reconcileService, Kind, Summary
<1>9. CASE reconcilePDB
  <2>1. CASE cur.spec.min \/ cur.spec.max
    BY <1>9, <2>1, CreateOrUpdateCases DEF reconcilePDB, Kind, Summary
  <2>2. CASE ~(cur.spec.min \/ cur.spec.max)
    <3>1. Left("pdb")  BY <1>9, <2>2 DEF reconcilePDB, Left, After, api, caches
    <3> QED  BY <3>1 DEF Summary, Kind
  <2> QED  BY <2>1, <2>2
<1>10. CASE updateStatus
  <2> DEFINE dep == cache["deployment"][key]
  <2>1. dep \in Object \cup {None}  BY <1>10, SMTT(20) DEF updateStatus, TypeOK, Kind
  <2>2. CASE dep = None \/ dep.report = cur.status \/ curStale
    <3>1. Returned  BY <1>10, <2>2 DEF updateStatus, Returned, api, caches
    <3> QED  BY <3>1 DEF Summary
  <2>3. CASE ~(dep = None \/ dep.report = cur.status \/ curStale)
    <3>1. dep.report \in Reports  BY <2>1, <2>3 DEF Object
    <3>2. StatusWritten(dep.report)  BY <1>10, <2>3 DEF updateStatus, StatusWritten
    <3> QED  BY <3>1, <3>2 DEF Summary
  <2> QED  BY <2>2, <2>3
<1>11. CASE CallFails  BY <1>11 DEF CallFails, Failed, Summary
<1>12. CASE StatusFails  BY <1>12 DEF StatusFails, Returned, Summary
<1>13. CASE Watch \/ Restart \/ UNCHANGED vars  BY <1>13 DEF Watch, Summary
<1>14. CASE reconcileServiceAccount \/ reconcileCR \/ patchCRB  BY <1>14 DEF Summary
<1>15. ASSUME NEW e \in Egress, ReconcileIgnored(e) \/ ReconcileStart(e) PROVE Summary
  BY <1>15 DEF Summary
<1> QED
  BY <1>1, <1>2, <1>3, <1>4, <1>5, <1>6, <1>7, <1>8, <1>9, <1>10, <1>11, <1>12, <1>13,
     <1>14, <1>15
  DEF Next, Operate, Cluster, Reconcile

-----------------------------------------------------------------------------
(***************************************************************************)
(* What a step does to Egresses, objects and their copies.                 *)
(***************************************************************************)
\* Reconcile takes a step, with an error or without.
Advanced ==
    /\ pc # "idle" /\ pc' # "idle" /\ UNCHANGED <<queue, key, cur, curStale>>
    /\ \/ err' = TRUE
       \/ UNCHANGED err /\ (pc' \in {"cr", "crb", "patch", "deployment"} \/ \E k \in Kind : Left(k))

\* A step that leaves Egresses, objects and their copies alone.
Worked ==
    /\ UNCHANGED <<eg, obj, uid, egCache, cache, stale>>
    /\ \/ UNCHANGED <<queue, pc, key, cur, curStale, err>>
       \/ \E e \in Egress : ReconcileIgnored(e) \/ ReconcileStart(e)
       \/ Advanced \/ Returned

\* The kinds of steps as far as Egresses, objects, their copies and the queue go.
StoreStep ==
    \/ \E e \in Egress, o \in EgressObject \cup {None} : EgressChanged(e, o)
    \/ \E k \in Kind, e \in Egress, o \in Object \cup {None} : ObjectChanged(k, e, o)
    \/ \E e \in Egress : WatchEgress(e)
    \/ \E k \in Kind, e \in Egress : WatchObject(k, e)
    \/ \E k \in Kind, o \in Object : Wrote(k, o)
    \/ \E r \in Reports : StatusWritten(r)
    \/ Restart \/ Worked

\* Every step is one of these.
LEMMA StepStore ==
    ASSUME TypeOK, [Next]_vars
    PROVE  StoreStep
<1>1. CASE WatchCRB \/ UNCHANGED vars
  <2>1. Worked  BY <1>1 DEF WatchCRB, Worked, vars, api, caches, worker
  <2> QED  BY <2>1 DEF StoreStep
<1>2. ASSUME NEW e \in Egress, ReconcileIgnored(e) \/ ReconcileStart(e) PROVE StoreStep
  <2>1. UNCHANGED <<eg, obj, uid, egCache, cache, stale>>
    BY <1>2 DEF ReconcileIgnored, ReconcileStart, api, caches
  <2>2. Worked  BY <1>2, <2>1 DEF Worked
  <2> QED  BY <2>2 DEF StoreStep
<1>3. CASE reconcileServiceAccount \/ reconcileCR \/ patchCRB
  <2>1. Advanced
    BY <1>3 DEF reconcileServiceAccount, reconcileCR, patchCRB, Advanced, Goto
  <2>2. UNCHANGED <<eg, obj, uid, egCache, cache, stale>>
    BY <1>3 DEF reconcileServiceAccount, reconcileCR, patchCRB, caches
  <2>3. Worked  BY <2>1, <2>2 DEF Worked
  <2> QED  BY <2>3 DEF StoreStep
<1>4. CASE BindingRead
  <2>1. Advanced  BY <1>4 DEF BindingRead, Advanced
  <2>2. Worked  BY <1>4, <2>1 DEF Worked, BindingRead
  <2> QED  BY <2>2 DEF StoreStep
<1>5. ASSUME NEW k \in Kind, Left(k) PROVE StoreStep
  <2>1. Advanced  BY <1>5 DEF Left, Advanced, Goto, After, Kind
  <2>2. Worked  BY <1>5, <2>1 DEF Worked, Left, api, caches
  <2> QED  BY <2>2 DEF StoreStep
<1>6. CASE Failed
  <2>1. Advanced  BY <1>6 DEF Failed, Advanced, ReturnError
  <2>2. Worked  BY <1>6, <2>1 DEF Worked, Failed, api, caches
  <2> QED  BY <2>2 DEF StoreStep
<1>7. CASE Returned
  <2>1. Worked  BY <1>7 DEF Worked, Returned, api, caches
  <2> QED  BY <2>1 DEF StoreStep
<1> QED
  BY <1>1, <1>2, <1>3, <1>4, <1>5, <1>6, <1>7, StepSummary DEF Summary, StoreStep

\* None is neither a name nor an object.
LEMMA NoneApart == None \notin Egress /\ None \notin EgressObject /\ None \notin Object
BY EgressAssumption

\* The type of one Egress and its copy.
LEMMA EgressType ==
    ASSUME TypeOK, NEW x \in Egress
    PROVE  /\ eg[x] \in EgressObject \cup {None} /\ egCache[x] \in EgressObject \cup {None}
           /\ uid[x] \in Nat
BY SMTT(20) DEF TypeOK

\* The type of one object and its copy.
LEMMA ObjectType ==
    ASSUME TypeOK, NEW k \in Kind, NEW x \in Egress
    PROVE  obj[k][x] \in Object \cup {None} /\ cache[k][x] \in Object \cup {None}
BY SMTT(20) DEF TypeOK

\* The type of what Reconcile works on.
LEMMA WorkerType ==
    ASSUME TypeOK, pc # "idle"
    PROVE  key \in Egress /\ cur \in EgressObject
BY DEF TypeOK

\* UIDs are numbers.
LEMMA UidType ==
    /\ \A o \in EgressObject : o.uid \in Nat
    /\ \A o \in Object : o.owner \in Nat
BY SMTT(20) DEF EgressObject, Object

\* SetEgress changes one Egress, and its copy only with an event.
LEMMA SetEgressAt ==
    ASSUME TypeOK, NEW e \in Egress, NEW o, SetEgress(e, o), NEW x \in Egress
    PROVE  /\ eg'[x] = IF x = e THEN o ELSE eg[x]
           /\ UNCHANGED egCache \/ egCache' = eg'
BY DEF TypeOK, SetEgress

\* A change of an Egress is followed by an event, or has caused one.
LEMMA SetEgressNoticed ==
    ASSUME NEW e \in Egress, NEW o, SetEgress(e, o)
    PROVE  /\ <<"egress", e>> \in stale' \/ e \in queue'
           /\ stale \subseteq stale' /\ queue \subseteq queue'
BY DEF SetEgress

\* SetObject changes one object, and its copy only with an event.
LEMMA SetObjectAt ==
    ASSUME TypeOK, NEW k \in Kind, NEW e \in Egress, NEW o, SetObject(k, e, o),
           NEW kk \in Kind, NEW x \in Egress
    PROVE  /\ obj'[kk][x] = IF kk = k /\ x = e THEN o ELSE obj[kk][x]
           /\ cache'[kk][x] = cache[kk][x] \/ cache'[kk][x] = obj'[kk][x]
BY SMTT(20) DEF TypeOK, SetObject

\* A change of an object is followed by an event, or has caused one.
LEMMA SetObjectNoticed ==
    ASSUME NEW k \in Kind, NEW e \in Egress, NEW o, SetObject(k, e, o)
    PROVE  /\ <<k, e>> \in stale' \/ e \in queue'
           /\ stale \subseteq stale' /\ queue \subseteq queue'
BY DEF SetObject

\* The status is written into the Egress at hand.
LEMMA StatusWrittenAt ==
    ASSUME TypeOK, CurInv, NEW r \in Reports, StatusWritten(r), NEW x \in Egress
    PROVE  /\ x # key => eg'[x] = eg[x]
           /\ key \in Egress /\ eg[key] \in EgressObject
           /\ eg'[key] \in EgressObject
           /\ eg'[key].uid = eg[key].uid /\ eg'[key].deleting = eg[key].deleting
<1>1. key \in Egress /\ eg[key] \in EgressObject  BY WorkerType DEF StatusWritten, CurInv
<1>2. eg' = [eg EXCEPT ![key] = [@ EXCEPT !.status = r]]  BY DEF StatusWritten
<1>3. [eg[key] EXCEPT !.status = r] \in EgressObject  BY <1>1 DEF EgressObject
<1>4. /\ [eg[key] EXCEPT !.status = r].uid = eg[key].uid
      /\ [eg[key] EXCEPT !.status = r].deleting = eg[key].deleting
  BY <1>1 DEF EgressObject
<1>5. eg'[key] = [eg[key] EXCEPT !.status = r] /\ (x # key => eg'[x] = eg[x])
  BY <1>1, <1>2 DEF TypeOK
<1> QED  BY <1>1, <1>3, <1>4, <1>5

\* An Egress is created with a new uid, keeps it, and is deleted for good.
LEMMA EgressSteps ==
    ASSUME TypeOK, CurInv, [Next]_vars, NEW x \in Egress
    PROVE  \/ uid'[x] = uid[x] /\ eg'[x] \in {eg[x], None}
           \/ /\ uid'[x] = uid[x] /\ eg[x] # None /\ eg'[x].uid = eg[x].uid
              /\ eg[x].deleting => eg'[x].deleting
           \/ uid'[x] = uid[x] + 1 /\ eg[x] = None /\ eg'[x].uid = uid[x] + 1
<1> DEFINE P == \/ uid'[x] = uid[x] /\ eg'[x] \in {eg[x], None}
                \/ /\ uid'[x] = uid[x] /\ eg[x] # None /\ eg'[x].uid = eg[x].uid
                   /\ eg[x].deleting => eg'[x].deleting
                \/ uid'[x] = uid[x] + 1 /\ eg[x] = None /\ eg'[x].uid = uid[x] + 1
<1>1. ASSUME NEW e \in Egress, NEW o \in EgressObject \cup {None}, EgressChanged(e, o) PROVE P
  <2>1. eg'[x] = IF x = e THEN o ELSE eg[x]
    BY <1>1, SetEgressAt DEF EgressChanged, ChangeEgress
  <2>2. CASE eg[e] # None
    <3>1. UNCHANGED uid /\ (o # None => o.uid = eg[e].uid /\ (eg[e].deleting => o.deleting))
      BY <1>1, <2>2 DEF EgressChanged
    <3> QED  BY <2>1, <2>2, <3>1
  <2>3. CASE eg[e] = None /\ uid' = [uid EXCEPT ![e] = @ + 1] /\ o.uid = uid[e] + 1
    <3>1. uid'[x] = IF x = e THEN uid[e] + 1 ELSE uid[x]  BY <2>3 DEF TypeOK
    <3> QED  BY <2>1, <2>3, <3>1
  <2> QED  BY <1>1, <2>2, <2>3 DEF EgressChanged
<1>2. ASSUME NEW k \in Kind, NEW e \in Egress, NEW o \in Object \cup {None}, ObjectChanged(k, e, o)
      PROVE  P
  BY <1>2 DEF ObjectChanged
<1>3. ASSUME NEW e \in Egress, WatchEgress(e) PROVE P  BY <1>3 DEF WatchEgress, api
<1>4. ASSUME NEW k \in Kind, NEW e \in Egress, WatchObject(k, e) PROVE P
  BY <1>4 DEF WatchObject, api
<1>5. ASSUME NEW k \in Kind, NEW o \in Object, Wrote(k, o) PROVE P  BY <1>5 DEF Wrote
<1>6. ASSUME NEW r \in Reports, StatusWritten(r) PROVE P
  <2>1. UNCHANGED uid  BY <1>6 DEF StatusWritten
  <2> QED  BY <1>6, <2>1, StatusWrittenAt, NoneApart
<1>7. CASE Restart  BY <1>7 DEF Restart, api
<1>8. CASE Worked  BY <1>8 DEF Worked
<1> QED  BY <1>1, <1>2, <1>3, <1>4, <1>5, <1>6, <1>7, <1>8, StepStore DEF StoreStep

\* A copy changes to what the Egress is or becomes.
LEMMA CopySteps ==
    ASSUME TypeOK, [Next]_vars, NEW x \in Egress
    PROVE  egCache'[x] \in {egCache[x], eg[x], eg'[x]}
<1> DEFINE P == egCache'[x] \in {egCache[x], eg[x], eg'[x]}
<1>1. ASSUME NEW e \in Egress, NEW o \in EgressObject \cup {None}, EgressChanged(e, o) PROVE P
  BY <1>1, SetEgressAt DEF EgressChanged, ChangeEgress
<1>2. ASSUME NEW k \in Kind, NEW e \in Egress, NEW o \in Object \cup {None}, ObjectChanged(k, e, o)
      PROVE  P
  BY <1>2 DEF ObjectChanged
<1>3. ASSUME NEW e \in Egress, WatchEgress(e) PROVE P
  <2>1. egCache' = [egCache EXCEPT ![e] = eg[e]]  BY <1>3 DEF WatchEgress
  <2> QED  BY <2>1 DEF TypeOK
<1>4. ASSUME NEW k \in Kind, NEW e \in Egress, WatchObject(k, e) PROVE P
  BY <1>4 DEF WatchObject
<1>5. ASSUME NEW k \in Kind, NEW o \in Object, Wrote(k, o) PROVE P  BY <1>5 DEF Wrote
<1>6. ASSUME NEW r \in Reports, StatusWritten(r) PROVE P  BY <1>6 DEF StatusWritten
<1>7. CASE Restart  BY <1>7 DEF Restart
<1>8. CASE Worked  BY <1>8 DEF Worked
<1> QED  BY <1>1, <1>2, <1>3, <1>4, <1>5, <1>6, <1>7, <1>8, StepStore DEF StoreStep

\* An object is changed by the cluster, or by Reconcile for its own key.
LEMMA ObjectSteps ==
    ASSUME TypeOK, [Next]_vars, NEW k \in Kind, NEW x \in Egress
    PROVE  \/ obj'[k][x] = obj[k][x]
           \/ \E o \in Object \cup {None} : ObjectChanged(k, x, o) /\ obj'[k][x] = o
           \/ key = x /\ \E o \in Object : Wrote(k, o) /\ obj'[k][x] = o
<1> DEFINE P == \/ obj'[k][x] = obj[k][x]
                \/ \E o \in Object \cup {None} : ObjectChanged(k, x, o) /\ obj'[k][x] = o
                \/ key = x /\ \E o \in Object : Wrote(k, o) /\ obj'[k][x] = o
<1>1. ASSUME NEW e \in Egress, NEW o \in EgressObject \cup {None}, EgressChanged(e, o) PROVE P
  BY <1>1 DEF EgressChanged, ChangeEgress
<1>2. ASSUME NEW kk \in Kind, NEW e \in Egress, NEW o \in Object \cup {None},
             ObjectChanged(kk, e, o)
      PROVE  P
  <2>1. obj'[k][x] = IF k = kk /\ x = e THEN o ELSE obj[k][x]
    BY <1>2, SetObjectAt, SMTT(20) DEF ObjectChanged
  <2> QED  BY <1>2, <2>1
<1>3. ASSUME NEW e \in Egress, WatchEgress(e) PROVE P  BY <1>3 DEF WatchEgress, api
<1>4. ASSUME NEW kk \in Kind, NEW e \in Egress, WatchObject(kk, e) PROVE P
  BY <1>4 DEF WatchObject, api
<1>5. ASSUME NEW kk \in Kind, NEW o \in Object, Wrote(kk, o) PROVE P
  <2>1. SetObject(kk, key, o) /\ key \in Egress  BY <1>5, WorkerType DEF Wrote, Kind
  <2>2. obj'[k][x] = IF k = kk /\ x = key THEN o ELSE obj[k][x]  BY <2>1, SetObjectAt, SMTT(20)
  <2> QED  BY <1>5, <2>2
<1>6. ASSUME NEW r \in Reports, StatusWritten(r) PROVE P  BY <1>6 DEF StatusWritten
<1>7. CASE Restart  BY <1>7 DEF Restart, api
<1>8. CASE Worked  BY <1>8 DEF Worked
<1> QED  BY <1>1, <1>2, <1>3, <1>4, <1>5, <1>6, <1>7, <1>8, StepStore DEF StoreStep

\* A copy of an object only becomes what the object is.
LEMMA ObjectCopySteps ==
    ASSUME TypeOK, [Next]_vars, NEW k \in Kind, NEW x \in Egress
    PROVE  cache'[k][x] \in {cache[k][x], obj[k][x], obj'[k][x]}
<1> DEFINE P == cache'[k][x] \in {cache[k][x], obj[k][x], obj'[k][x]}
<1>1. ASSUME NEW e \in Egress, NEW o \in EgressObject \cup {None}, EgressChanged(e, o) PROVE P
  BY <1>1 DEF EgressChanged, ChangeEgress
<1>2. ASSUME NEW kk \in Kind, NEW e \in Egress, NEW o \in Object \cup {None},
             ObjectChanged(kk, e, o)
      PROVE  P
  BY <1>2, SetObjectAt, SMTT(20) DEF ObjectChanged
<1>3. ASSUME NEW e \in Egress, WatchEgress(e) PROVE P  BY <1>3 DEF WatchEgress
<1>4. ASSUME NEW kk \in Kind, NEW e \in Egress, WatchObject(kk, e) PROVE P
  <2>1. cache' = [cache EXCEPT ![kk][e] = obj[kk][e]]  BY <1>4 DEF WatchObject
  <2> QED  BY <2>1 DEF TypeOK
<1>5. ASSUME NEW kk \in Kind, NEW o \in Object, Wrote(kk, o) PROVE P
  <2>1. SetObject(kk, key, o) /\ key \in Egress  BY <1>5, WorkerType DEF Wrote, Kind
  <2> QED  BY <2>1, SetObjectAt, SMTT(20)
<1>6. ASSUME NEW r \in Reports, StatusWritten(r) PROVE P  BY <1>6 DEF StatusWritten
<1>7. CASE Restart  BY <1>7 DEF Restart
<1>8. CASE Worked  BY <1>8 DEF Worked
<1> QED  BY <1>1, <1>2, <1>3, <1>4, <1>5, <1>6, <1>7, <1>8, StepStore DEF StoreStep

\* Reconcile works on the copy that it has read.
LEMMA CurSteps ==
    ASSUME TypeOK, [Next]_vars, pc' # "idle"
    PROVE  \/ pc # "idle" /\ key' = key /\ cur' = cur
           \/ key' \in Egress /\ cur' = egCache[key'] /\ Alive(cur')
<1> DEFINE P == \/ pc # "idle" /\ key' = key /\ cur' = cur
                \/ key' \in Egress /\ cur' = egCache[key'] /\ Alive(cur')
<1>1. ASSUME NEW e \in Egress, NEW o \in EgressObject \cup {None}, EgressChanged(e, o) PROVE P
  BY <1>1 DEF EgressChanged, ChangeEgress
<1>2. ASSUME NEW k \in Kind, NEW e \in Egress, NEW o \in Object \cup {None}, ObjectChanged(k, e, o)
      PROVE  P
  BY <1>2 DEF ObjectChanged, worker
<1>3. ASSUME NEW e \in Egress, WatchEgress(e) PROVE P  BY <1>3 DEF WatchEgress, worker
<1>4. ASSUME NEW k \in Kind, NEW e \in Egress, WatchObject(k, e) PROVE P
  BY <1>4 DEF WatchObject, worker
<1>5. ASSUME NEW k \in Kind, NEW o \in Object, Wrote(k, o) PROVE P
  BY <1>5 DEF Wrote, Goto, Kind
<1>6. ASSUME NEW r \in Reports, StatusWritten(r) PROVE P  BY <1>6 DEF StatusWritten, Return
<1>7. CASE Restart  BY <1>7 DEF Restart
<1>8. CASE Worked
  BY <1>8 DEF Worked, ReconcileIgnored, ReconcileStart, Advanced, Returned, Return, worker
<1> QED  BY <1>1, <1>2, <1>3, <1>4, <1>5, <1>6, <1>7, <1>8, StepStore DEF StoreStep

-----------------------------------------------------------------------------
(***************************************************************************)
(* The copies and the owners.                                              *)
(***************************************************************************)
LEMMA EgressCopyStep ==
    ASSUME TypeOK, CacheInv, [Next]_vars, NEW x \in Egress, <<"egress", x>> \notin stale'
    PROVE  egCache'[x] = eg'[x]
<1> DEFINE P == egCache'[x] = eg'[x]
<1>a. <<"egress", x>> \notin stale => egCache[x] = eg[x]  BY DEF CacheInv
<1>1. ASSUME NEW e \in Egress, NEW o \in EgressObject \cup {None}, EgressChanged(e, o) PROVE P
  <2>1. SetEgress(e, o)  BY <1>1 DEF EgressChanged, ChangeEgress
  <2>2. eg'[x] = IF x = e THEN o ELSE eg[x]  BY <2>1, SetEgressAt
  <2>3. CASE "egress" \in Lag
    <3>1. UNCHANGED egCache /\ stale' = stale \cup {<<"egress", e>>}
      BY <2>1, <2>3 DEF SetEgress
    <3> QED  BY <1>a, <2>2, <3>1
  <2>4. CASE "egress" \notin Lag  BY <2>1, <2>4 DEF SetEgress
  <2> QED  BY <2>3, <2>4
<1>2. ASSUME NEW k \in Kind, NEW e \in Egress, NEW o \in Object \cup {None}, ObjectChanged(k, e, o)
      PROVE  P
  BY <1>2, <1>a, SetObjectNoticed DEF ObjectChanged
<1>3. ASSUME NEW e \in Egress, WatchEgress(e) PROVE P
  <2>1. /\ stale' = stale \ {<<"egress", e>>} /\ UNCHANGED eg
        /\ egCache' = [egCache EXCEPT ![e] = eg[e]]
    BY <1>3 DEF WatchEgress, api
  <2> QED  BY <1>a, <2>1 DEF TypeOK
<1>4. ASSUME NEW k \in Kind, NEW e \in Egress, WatchObject(k, e) PROVE P
  <2>1. stale' = stale \ {<<k, e>>} /\ UNCHANGED <<eg, egCache>> /\ k # "egress"
    BY <1>4 DEF WatchObject, api, Kind
  <2> QED  BY <1>a, <2>1
<1>5. ASSUME NEW k \in Kind, NEW o \in Object, Wrote(k, o) PROVE P
  <2>1. SetObject(k, key, o) /\ key \in Egress /\ UNCHANGED <<eg, egCache>>
    BY <1>5, WorkerType DEF Wrote, Kind
  <2> QED  BY <1>a, <2>1, SetObjectNoticed
<1>6. ASSUME NEW r \in Reports, StatusWritten(r) PROVE P
  <2>1. eg' = [eg EXCEPT ![key].status = r]  BY <1>6 DEF StatusWritten
  <2>2. \/ stale' = stale \cup {<<"egress", key>>} /\ UNCHANGED egCache
        \/ egCache' = eg'
    BY <1>6 DEF StatusWritten
  <2> QED  BY <1>a, <2>1, <2>2 DEF TypeOK
<1>7. CASE Restart  BY <1>7 DEF Restart, api
<1>8. CASE Worked  BY <1>8, <1>a DEF Worked
<1> QED  BY <1>1, <1>2, <1>3, <1>4, <1>5, <1>6, <1>7, <1>8, StepStore DEF StoreStep

\* SetObject leaves no copy behind that is not known to be stale.
LEMMA SetObjectCopy ==
    ASSUME TypeOK, CacheInv, NEW kk \in Kind, NEW e \in Egress, NEW o, SetObject(kk, e, o),
           NEW k \in Kind, NEW x \in Egress, <<k, x>> \notin stale'
    PROVE  cache'[k][x] = obj'[k][x]
<1>1. <<k, x>> \notin stale => cache[k][x] = obj[k][x]  BY DEF CacheInv
<1>2. CASE k = kk /\ x = e  BY <1>2, SMTT(20) DEF SetObject, TypeOK
<1>3. CASE ~(k = kk /\ x = e)
  <2>1. <<k, x>> \notin stale  BY SetObjectNoticed
  <2>2. obj'[k][x] = obj[k][x]  BY <1>3, SetObjectAt, SMTT(20)
  <2>3. cache'[k][x] = cache[k][x]  BY <1>3, SMTT(20) DEF SetObject, TypeOK
  <2> QED  BY <1>1, <2>1, <2>2, <2>3
<1> QED  BY <1>2, <1>3

\* A copy of an object that is not known to be stale stays up to date.
LEMMA ObjectCopyStep ==
    ASSUME TypeOK, CacheInv, [Next]_vars, NEW k \in Kind, NEW x \in Egress, <<k, x>> \notin stale'
    PROVE  cache'[k][x] = obj'[k][x]
<1> DEFINE P == cache'[k][x] = obj'[k][x]
<1>a. <<k, x>> \notin stale => cache[k][x] = obj[k][x]  BY DEF CacheInv
<1>1. ASSUME NEW e \in Egress, NEW o \in EgressObject \cup {None}, EgressChanged(e, o) PROVE P
  BY <1>1, <1>a, SetEgressNoticed DEF EgressChanged, ChangeEgress
<1>2. ASSUME NEW kk \in Kind, NEW e \in Egress, NEW o \in Object \cup {None},
             ObjectChanged(kk, e, o)
      PROVE  P
  BY <1>2, SetObjectCopy DEF ObjectChanged
<1>3. ASSUME NEW e \in Egress, WatchEgress(e) PROVE P
  <2>1. stale' = stale \ {<<"egress", e>>} /\ UNCHANGED <<obj, cache>> /\ k # "egress"
    BY <1>3 DEF WatchEgress, api, Kind
  <2> QED  BY <1>a, <2>1
<1>4. ASSUME NEW kk \in Kind, NEW e \in Egress, WatchObject(kk, e) PROVE P
  <2>1. /\ stale' = stale \ {<<kk, e>>} /\ UNCHANGED obj
        /\ cache' = [cache EXCEPT ![kk][e] = obj[kk][e]]
    BY <1>4 DEF WatchObject, api
  <2>2. CASE k = kk /\ x = e  BY <2>1, <2>2 DEF TypeOK
  <2>3. CASE ~(k = kk /\ x = e)
    <3>1. <<k, x>> \notin stale  BY <2>1, <2>3
    <3>2. cache'[k][x] = cache[k][x]  BY <2>1, <2>3 DEF TypeOK
    <3> QED  BY <1>a, <2>1, <3>1, <3>2
  <2> QED  BY <2>2, <2>3
<1>5. ASSUME NEW kk \in Kind, NEW o \in Object, Wrote(kk, o) PROVE P
  <2>1. SetObject(kk, key, o) /\ key \in Egress  BY <1>5, WorkerType DEF Wrote, Kind
  <2> QED  BY <2>1, SetObjectCopy
<1>6. ASSUME NEW r \in Reports, StatusWritten(r) PROVE P
  <2>1. stale \subseteq stale' /\ UNCHANGED <<obj, cache>>  BY <1>6 DEF StatusWritten
  <2> QED  BY <1>a, <2>1
<1>7. CASE Restart  BY <1>7 DEF Restart, api
<1>8. CASE Worked  BY <1>8, <1>a DEF Worked
<1> QED  BY <1>1, <1>2, <1>3, <1>4, <1>5, <1>6, <1>7, <1>8, StepStore DEF StoreStep

\* CacheInv is preserved.
LEMMA CacheStep == TypeOK /\ CacheInv /\ [Next]_vars => CacheInv'
BY EgressCopyStep, ObjectCopyStep DEF CacheInv

\* CurInv is preserved: a change of the Egress at hand marks it, or queues its key.
LEMMA CurStep == TypeOK /\ TypeOK' /\ CacheInv /\ CurInv /\ [Next]_vars => CurInv'
<1> SUFFICES ASSUME TypeOK, TypeOK', CacheInv, CurInv, [Next]_vars, pc' # "idle"
             PROVE  /\ key' \notin queue' => egCache'[key'] = cur'
                    /\ ~curStale' => eg'[key'] = cur'
                    /\ curStale' => key' \in queue' \/ <<"egress", key'>> \in stale'
  BY DEF CurInv
<1> DEFINE P == /\ key' \notin queue' => egCache'[key'] = cur'
                /\ ~curStale' => eg'[key'] = cur'
                /\ curStale' => key' \in queue' \/ <<"egress", key'>> \in stale'
<1>a. ASSUME pc # "idle", UNCHANGED <<eg, egCache, key, cur, curStale>>, queue \subseteq queue',
             <<"egress", key>> \in stale => <<"egress", key>> \in stale'
      PROVE  P
  BY <1>a DEF CurInv
<1>1. ASSUME NEW e \in Egress, NEW o \in EgressObject \cup {None}, EgressChanged(e, o) PROVE P
  <2>1. /\ pc # "idle" /\ key' = key /\ cur' = cur /\ SetEgress(e, o)
        /\ curStale' = (curStale \/ e = key)
    BY <1>1 DEF EgressChanged, ChangeEgress
  <2>2. key \in Egress  BY <2>1, WorkerType
  <2>3. CASE e = key
    <3>1. curStale' = TRUE  BY <2>1, <2>3
    <3>2. <<"egress", e>> \in stale' \/ e \in queue'  BY <2>1, SetEgressNoticed
    <3>3. e \notin queue' => egCache' = egCache /\ queue' = queue  BY <2>1 DEF SetEgress
    <3> QED  BY <2>1, <2>3, <3>1, <3>2, <3>3 DEF CurInv
  <2>4. CASE e # key
    <3>1. eg'[key] = eg[key]  BY <2>1, <2>2, <2>4, SetEgressAt
    <3>2. curStale' = curStale  BY <2>1, <2>4 DEF TypeOK
    <3>3. stale \subseteq stale' /\ queue \subseteq queue'  BY <2>1, SetEgressNoticed
    <3>4. egCache'[key] = egCache[key]
      <4>1. CASE "egress" \in Lag  BY <2>1, <4>1 DEF SetEgress
      <4>2. CASE "egress" \notin Lag
        <5>1. <<"egress", key>> \notin stale  BY <4>2 DEF TypeOK
        <5> QED  BY <2>1, <2>2, <3>1, <4>2, <5>1 DEF SetEgress, CacheInv
      <4> QED  BY <4>1, <4>2
    <3> QED  BY <2>1, <3>1, <3>2, <3>3, <3>4, SMTT(20) DEF CurInv
  <2> QED  BY <2>3, <2>4
<1>2. ASSUME NEW k \in Kind, NEW e \in Egress, NEW o \in Object \cup {None}, ObjectChanged(k, e, o)
      PROVE  P
  <2>1. SetObject(k, e, o) /\ UNCHANGED <<eg, egCache, pc, key, cur, curStale>>
    BY <1>2 DEF ObjectChanged, worker
  <2> QED  BY <1>a, <2>1, SetObjectNoticed
<1>3. ASSUME NEW e \in Egress, WatchEgress(e) PROVE P
  <2>1. /\ pc # "idle" /\ UNCHANGED <<eg, key, cur, curStale>> /\ queue' = queue \cup {e}
        /\ stale' = stale \ {<<"egress", e>>} /\ egCache' = [egCache EXCEPT ![e] = eg[e]]
    BY <1>3 DEF WatchEgress, api, worker
  <2>2. key # e => egCache'[key] = egCache[key]  BY <2>1, WorkerType DEF TypeOK
  <2> QED  BY <2>1, <2>2 DEF CurInv
<1>4. ASSUME NEW k \in Kind, NEW e \in Egress, WatchObject(k, e) PROVE P
  <2>1. /\ pc # "idle" /\ UNCHANGED <<eg, egCache, key, cur, curStale>> /\ queue' = queue \cup {e}
        /\ stale' = stale \ {<<k, e>>} /\ k # "egress"
    BY <1>4 DEF WatchObject, api, worker, Kind
  <2> QED  BY <1>a, <2>1
<1>5. ASSUME NEW k \in Kind, NEW o \in Object, Wrote(k, o) PROVE P
  <2>1. /\ SetObject(k, key, o) /\ key \in Egress /\ pc # "idle"
        /\ UNCHANGED <<eg, egCache, key, cur, curStale>>
    BY <1>5, WorkerType DEF Wrote, Goto, Kind
  <2> QED  BY <1>a, <2>1, SetObjectNoticed
<1>6. ASSUME NEW r \in Reports, StatusWritten(r) PROVE P  BY <1>6 DEF StatusWritten, Return
<1>7. CASE Restart  BY <1>7 DEF Restart
<1>8. CASE Worked
  <2>1. CASE UNCHANGED <<queue, pc, key, cur, curStale, err>>  BY <1>a, <1>8, <2>1 DEF Worked
  <2>2. ASSUME NEW e \in Egress, ReconcileIgnored(e) PROVE P
    BY <2>2 DEF ReconcileIgnored, worker
  <2>3. ASSUME NEW e \in Egress, ReconcileStart(e) PROVE P
    BY <1>8, <2>3 DEF Worked, ReconcileStart, CacheInv
  <2>4. CASE Advanced  BY <1>a, <1>8, <2>4 DEF Worked, Advanced
  <2>5. CASE Returned  BY <2>5 DEF Returned, Return
  <2> QED  BY <1>8, <2>1, <2>2, <2>3, <2>4, <2>5 DEF Worked
<1> QED  BY <1>1, <1>2, <1>3, <1>4, <1>5, <1>6, <1>7, <1>8, StepStore DEF StoreStep

\* What CreateOrUpdate writes has the owner of the object that is there, or the
\* Egress at hand if there is none.
LEMMA WroteObject ==
    ASSUME TypeOK, CacheInv, NEW k \in Kind, NEW o \in Object, Wrote(k, o)
    PROVE  /\ key \in Egress /\ cur \in EgressObject /\ pc # "idle" /\ pc' # "idle"
           /\ o.deleting = FALSE
           /\ \/ obj[k][key] = None /\ o.owner = cur.uid /\ o.fields = Stored(k, Mutate(k, Empty))
                 /\ Valid(Mutate(k, Empty))
              \/ /\ obj[k][key] \in Object /\ ~obj[k][key].deleting
                 /\ o.owner = obj[k][key].owner
                 /\ o.fields = Stored(k, Mutate(k, obj[k][key].fields))
                 /\ Valid(Mutate(k, obj[k][key].fields))
<1> USE NoneApart
<1> DEFINE old == cache[k][key]
<1>1. /\ key \in Egress /\ cur \in EgressObject /\ pc # "idle" /\ pc' # "idle"
      /\ old \in Object \cup {None}
  BY DEF Wrote, TypeOK, Kind, Goto, After
<1>2. /\ o = [Mutated(k, old) EXCEPT !.fields = Stored(k, @)] /\ Valid(Mutated(k, old).fields)
      /\ IF old = None THEN obj[k][key] = None ELSE ~old.deleting /\ <<k, key>> \notin stale
  BY DEF Wrote
<1>3. CASE old = None
  <2>1. Mutated(k, old) =
          [owner |-> cur.uid, fields |-> Mutate(k, Empty), report |-> 0, deleting |-> FALSE]
    BY <1>3 DEF Mutated
  <2> QED  BY <1>1, <1>2, <1>3, <2>1, SMTT(20)
<1>4. CASE old # None
  <2>1. old = obj[k][key] /\ old \in Object /\ ~old.deleting
    BY <1>1, <1>2, <1>4 DEF CacheInv
  <2>2. Mutated(k, old) = [old EXCEPT !.fields = Mutate(k, @)]  BY <1>4, <2>1 DEF Mutated
  <2>3. /\ Mutated(k, old).fields = Mutate(k, old.fields) /\ Mutated(k, old).owner = old.owner
        /\ Mutated(k, old).deleting = FALSE /\ Mutated(k, old) \in Object
    BY <1>1, <2>1, <2>2, MutatedType DEF Object
  <2>4. /\ o.fields = Stored(k, Mutate(k, old.fields)) /\ o.owner = old.owner
        /\ o.deleting = FALSE
    BY <1>2, <2>3 DEF Object
  <2> QED  BY <1>1, <1>2, <2>1, <2>3, <2>4
<1> QED  BY <1>3, <1>4


\* No Egress is younger than the last one created.
LEMMA UidStep ==
    TypeOK /\ TypeOK' /\ CurInv /\ UidInv /\ [Next]_vars => UidInv'
<1> SUFFICES ASSUME TypeOK, TypeOK', CurInv, UidInv, [Next]_vars, NEW x \in Egress
             PROVE  /\ eg'[x] # None => eg'[x].uid <= uid'[x]
                    /\ egCache'[x] # None => egCache'[x].uid <= uid'[x]
                    /\ pc' # "idle" /\ key' = x => cur'.uid <= uid'[x]
  BY DEF UidInv
<1>1. /\ eg[x] # None => eg[x].uid <= uid[x] /\ eg[x].uid \in Nat
      /\ egCache[x] # None => egCache[x].uid <= uid[x] /\ egCache[x].uid \in Nat
      /\ uid[x] \in Nat
  BY EgressType, UidType DEF UidInv
<1>2. pc # "idle" /\ key = x => cur.uid <= uid[x] /\ cur.uid \in Nat
  BY WorkerType, UidType DEF UidInv
<1>3. /\ uid'[x] = uid[x] \/ uid'[x] = uid[x] + 1
      /\ eg'[x] # None => eg'[x].uid <= uid'[x]
  BY <1>1, EgressSteps, SMTT(20)
<1>4. egCache'[x] # None => egCache'[x].uid <= uid'[x]  BY <1>1, <1>3, CopySteps, SMTT(20)
<1>5. ASSUME pc' # "idle", key' = x PROVE cur'.uid <= uid'[x]
  <2>1. CASE pc # "idle" /\ key' = key /\ cur' = cur  BY <1>1, <1>2, <1>3, <1>5, <2>1, SMTT(20)
  <2>2. CASE cur' = egCache[key'] /\ Alive(cur')
    <3>1. egCache[x] # None /\ cur' = egCache[x]  BY <1>5, <2>2 DEF Alive
    <3> QED  BY <1>1, <1>3, <3>1, SMTT(20)
  <2> QED  BY <1>5, <2>1, <2>2, CurSteps
<1> QED  BY <1>3, <1>4, <1>5

\* OwnerInv is preserved: CreateOrUpdate makes the Egress at hand the owner.
LEMMA OwnerStep ==
    TypeOK /\ TypeOK' /\ CacheInv /\ CurInv /\ UidInv /\ OwnerInv /\ [Next]_vars => OwnerInv'
<1> SUFFICES ASSUME TypeOK, TypeOK', CacheInv, CurInv, UidInv, OwnerInv, [Next]_vars,
                    NEW k \in Kind, NEW x \in Egress, obj'[k][x] # None
             PROVE  obj'[k][x].owner <= uid'[x]
  BY DEF OwnerInv
<1>1. obj[k][x] # None => obj[k][x].owner <= uid[x] /\ obj[k][x].owner \in Nat
  BY ObjectType, UidType DEF OwnerInv
<1>2. uid[x] \in Nat  BY EgressType
<1>3. uid'[x] = uid[x] \/ uid'[x] = uid[x] + 1  BY EgressSteps
<1>4. CASE obj'[k][x] = obj[k][x]  BY <1>1, <1>2, <1>3, <1>4, SMTT(20)
<1>5. ASSUME NEW o \in Object \cup {None}, ObjectChanged(k, x, o), obj'[k][x] = o
      PROVE  obj'[k][x].owner <= uid'[x]
  <2>1. obj[k][x] # None /\ o.owner = obj[k][x].owner  BY <1>5 DEF ObjectChanged
  <2> QED  BY <1>1, <1>2, <1>3, <1>5, <2>1, SMTT(20)
<1>6. ASSUME key = x, NEW o \in Object, Wrote(k, o), obj'[k][x] = o
      PROVE  obj'[k][x].owner <= uid'[x]
  <2>1. /\ pc # "idle" /\ cur \in EgressObject
        /\ o.owner = cur.uid \/ (obj[k][key] \in Object /\ o.owner = obj[k][key].owner)
    BY <1>6, WroteObject
  <2>2. cur.uid <= uid[x] /\ cur.uid \in Nat  BY <1>6, <2>1, UidType DEF UidInv
  <2>3. obj[k][x] \in Object => obj[k][x] # None  BY NoneApart
  <2> QED  BY <1>1, <1>2, <1>3, <1>6, <2>1, <2>2, <2>3, SMTT(20)
<1> QED  BY <1>4, <1>5, <1>6, ObjectSteps

\* The owner of an object is the one it had, or the Egress at hand.
LEMMA OwnerFrom ==
    ASSUME TypeOK, CacheInv, [Next]_vars, NEW k \in Kind, NEW x \in Egress, obj'[k][x] # None
    PROVE  \/ obj[k][x] # None /\ obj'[k][x].owner = obj[k][x].owner
           \/ pc # "idle" /\ key = x /\ obj'[k][x].owner = cur.uid
<1> DEFINE P == \/ obj[k][x] # None /\ obj'[k][x].owner = obj[k][x].owner
                \/ pc # "idle" /\ key = x /\ obj'[k][x].owner = cur.uid
<1>1. ASSUME NEW o \in Object \cup {None}, ObjectChanged(k, x, o), obj'[k][x] = o PROVE P
  BY <1>1 DEF ObjectChanged
<1>2. ASSUME key = x, NEW o \in Object, Wrote(k, o), obj'[k][x] = o PROVE P
  BY <1>2, WroteObject, NoneApart
<1> QED  BY <1>1, <1>2, ObjectSteps

\* SeenInv is preserved: a copy is replaced by a younger one only.
LEMMA SeenStep ==
    TypeOK /\ TypeOK' /\ CacheInv /\ CurInv /\ UidInv /\ OwnerInv /\ SeenInv /\ [Next]_vars
        => SeenInv'
<1> SUFFICES ASSUME TypeOK, TypeOK', CacheInv, CurInv, UidInv, OwnerInv, SeenInv, [Next]_vars,
                    NEW x \in Egress
             PROVE  /\ eg'[x] # None => eg'[x].uid = uid'[x]
                    /\ pc' # "idle" /\ key' = x /\ egCache'[x] # None => cur'.uid <= egCache'[x].uid
                    /\ \A k \in Kind : obj'[k][x] # None =>
                          /\ egCache'[x] # None => obj'[k][x].owner <= egCache'[x].uid
                          /\ pc' # "idle" /\ key' = x => obj'[k][x].owner <= cur'.uid
  BY DEF SeenInv
<1>1. /\ eg[x] # None => eg[x].uid = uid[x]
      /\ egCache[x] # None => egCache[x].uid <= uid[x] /\ egCache[x].uid \in Nat
      /\ uid[x] \in Nat
  BY EgressType, UidType DEF UidInv, SeenInv
<1>2. /\ uid'[x] \in {uid[x], uid[x] + 1}
      /\ eg'[x] # None => eg'[x].uid = uid'[x]
  BY <1>1, EgressSteps, SMTT(20)
<1>3. ASSUME NEW u \in Nat, u <= uid[x], egCache[x] # None => u <= egCache[x].uid, egCache'[x] # None
      PROVE  u <= egCache'[x].uid
  BY <1>1, <1>2, <1>3, CopySteps, SMTT(20)
<1>4. pc # "idle" /\ key = x =>
        /\ cur.uid \in Nat /\ cur.uid <= uid[x]
        /\ egCache[x] # None => cur.uid <= egCache[x].uid
  BY WorkerType, UidType DEF UidInv, SeenInv
<1>5. ASSUME pc' # "idle", key' = x
      PROVE  \/ pc # "idle" /\ key = x /\ cur' = cur
             \/ egCache[x] # None /\ cur' = egCache[x]
  BY <1>5, CurSteps DEF Alive
<1>6. ASSUME pc' # "idle", key' = x, egCache'[x] # None PROVE cur'.uid <= egCache'[x].uid
  <2>1. cur'.uid \in Nat /\ cur'.uid <= uid[x] /\ (egCache[x] # None => cur'.uid <= egCache[x].uid)
    BY <1>1, <1>4, <1>5, <1>6, SMTT(20)
  <2> QED  BY <1>3, <1>6, <2>1
<1>7. ASSUME NEW k \in Kind, obj'[k][x] # None
      PROVE  /\ egCache'[x] # None => obj'[k][x].owner <= egCache'[x].uid
             /\ pc' # "idle" /\ key' = x => obj'[k][x].owner <= cur'.uid
  <2> DEFINE u == obj'[k][x].owner
  <2>1. \/ obj[k][x] # None /\ u = obj[k][x].owner
        \/ pc # "idle" /\ key = x /\ u = cur.uid
    BY <1>7, OwnerFrom
  <2>2. obj[k][x] # None =>
          /\ obj[k][x].owner \in Nat /\ obj[k][x].owner <= uid[x]
          /\ egCache[x] # None => obj[k][x].owner <= egCache[x].uid
          /\ pc # "idle" /\ key = x => obj[k][x].owner <= cur.uid
    BY ObjectType, UidType DEF OwnerInv, SeenInv
  <2>3. /\ u \in Nat /\ u <= uid[x] /\ (egCache[x] # None => u <= egCache[x].uid)
        /\ pc # "idle" /\ key = x => u <= cur.uid
    <3> HIDE DEF u
    <3> QED  BY <1>4, <2>1, <2>2, SMTT(20)
  <2>4. egCache'[x] # None => u <= egCache'[x].uid  BY <1>3, <2>3
  <2>5. pc' # "idle" /\ key' = x => u <= cur'.uid
    <3> HIDE DEF u
    <3> QED  BY <1>5, <2>3
  <2> QED  BY <2>4, <2>5
<1> QED  BY <1>2, <1>6, <1>7

\* DeletingInv is preserved: the Egress that is created next has a new UID.
LEMMA DeletingStep ==
    TypeOK /\ CacheInv /\ CurInv /\ OwnerInv /\ DeletingInv /\ [Next]_vars => DeletingInv'
<1> SUFFICES ASSUME TypeOK, CacheInv, CurInv, OwnerInv, DeletingInv, [Next]_vars,
                    NEW k \in Kind, NEW x \in Egress, obj'[k][x] # None, obj'[k][x].deleting,
                    Alive(eg'[x]), obj'[k][x].owner = eg'[x].uid
             PROVE  FALSE
  BY DEF DeletingInv, Owns
<1>1. obj[k][x] # None /\ obj[k][x].deleting => ~(Alive(eg[x]) /\ obj[k][x].owner = eg[x].uid)
  BY DEF DeletingInv, Owns
<1>2. CASE obj'[k][x] = obj[k][x]
  <2>1. obj[k][x].owner <= uid[x] /\ obj[k][x].owner \in Nat /\ uid[x] \in Nat
    BY <1>2, ObjectType, EgressType, UidType DEF OwnerInv
  <2>2. CASE uid'[x] = uid[x] + 1 /\ eg[x] = None /\ eg'[x].uid = uid[x] + 1
    BY <1>2, <2>1, <2>2, SMTT(20)
  <2>3. CASE eg'[x] \in {eg[x], None}  BY <1>1, <1>2, <2>3 DEF Alive
  <2>4. CASE /\ eg[x] # None /\ eg'[x].uid = eg[x].uid
             /\ eg[x].deleting => eg'[x].deleting
    BY <1>1, <1>2, <2>4 DEF Alive
  <2> QED  BY <2>2, <2>3, <2>4, EgressSteps
<1>3. ASSUME NEW o \in Object \cup {None}, ObjectChanged(k, x, o), obj'[k][x] = o PROVE FALSE
  <2>1. /\ UNCHANGED eg /\ obj[k][x] # None /\ o.owner = obj[k][x].owner
        /\ obj[k][x].deleting \/ ~(Alive(eg[x]) /\ Owns(x, k))
    BY <1>3 DEF ObjectChanged
  <2> QED  BY <1>1, <1>3, <2>1 DEF Owns
<1>4. ASSUME key = x, NEW o \in Object, Wrote(k, o), obj'[k][x] = o PROVE FALSE
  BY <1>4, WroteObject
<1> QED  BY <1>2, <1>3, <1>4, ObjectSteps

-----------------------------------------------------------------------------
(***************************************************************************)
(* What CreateOrUpdate makes of the fields of an object.                   *)
(***************************************************************************)
\* What CreateOrUpdate and the API server make of the fields of a Deployment.
LEMMA DeploymentFields ==
    ASSUME cur \in EgressObject, NEW f \in Fields
    PROVE  LET m == Mutate("deployment", f)
               g == Stored("deployment", m)
           IN  /\ m.rev = cur.spec.rev /\ g.rev = m.rev
               /\ m.strategy = Given(cur.spec.strategy, f.strategy) /\ g.strategy = Given(m.strategy, 1)
               /\ m.note = Given(cur.spec.note, f.note) /\ g.note = m.note
               /\ g.min = m.min /\ g.max = m.max
<1>1. Mutate("deployment", f) =
        [f EXCEPT !.rev = cur.spec.rev, !.strategy = Given(cur.spec.strategy, @),
                  !.note = Given(cur.spec.note, @)]
  BY DEF Mutate
<1>2. \A m \in Fields : Stored("deployment", m) = [m EXCEPT !.strategy = Given(@, 1)]
  BY DEF Stored
<1>3. Mutate("deployment", f) \in Fields  BY MutateType DEF Kind
<1> QED  BY <1>1, <1>2, <1>3 DEF Fields

\* The same for a Service.
LEMMA ServiceFields ==
    ASSUME cur \in EgressObject, NEW f \in Fields
    PROVE  LET m == Mutate("service", f)
               g == Stored("service", m)
           IN  /\ m.affinity = cur.spec.affinity /\ g.affinity = m.affinity
               /\ m.config = Given(cur.spec.config, f.config)
               /\ g.config = IF m.affinity THEN Given(m.config, 1) ELSE 0
               /\ g.min = m.min /\ g.max = m.max
<1>1. Mutate("service", f) =
        [f EXCEPT !.affinity = cur.spec.affinity, !.config = Given(cur.spec.config, @)]
  BY DEF Mutate
<1>2. \A m \in Fields :
        Stored("service", m) = [m EXCEPT !.config = IF m.affinity THEN Given(@, 1) ELSE 0]
  BY DEF Stored
<1>3. Mutate("service", f) \in Fields  BY MutateType DEF Kind
<1> QED  BY <1>1, <1>2, <1>3 DEF Fields

\* And for a PodDisruptionBudget.
LEMMA BudgetFields ==
    ASSUME cur \in EgressObject, NEW f \in Fields
    PROVE  LET m == Mutate("pdb", f)
           IN  /\ m.min = (f.min \/ cur.spec.min) /\ m.max = (f.max \/ cur.spec.max)
               /\ Stored("pdb", m) = m
BY DEF Mutate, Stored, Fields

\* The API server's defaults keep fields valid.
LEMMA StoredValid ==
    ASSUME cur \in EgressObject, NEW k \in Kind, NEW f \in Fields, Valid(Mutate(k, f))
    PROVE  Valid(Stored(k, Mutate(k, f)))
<1>1. CASE k = "deployment"  BY <1>1, DeploymentFields DEF Valid
<1>2. CASE k = "service"  BY <1>2, ServiceFields DEF Valid
<1>3. CASE k = "pdb"  BY <1>3, BudgetFields DEF Valid
<1> QED  BY <1>1, <1>2, <1>3 DEF Kind

\* Valid fields that CreateOrUpdate leaves as they are fit the spec.
LEMMA LeftFits ==
    ASSUME cur \in EgressObject, NEW k \in Kind, NEW f \in Fields, Valid(f),
           f = Mutate(k, f) \/ f = Stored(k, Mutate(k, f))
    PROVE  Fits(k, f, cur.spec)
<1> DEFINE s == cur.spec
<1>1. s \in Fields  BY EgressAssumption DEF EgressObject
<1>2. CASE k = "deployment"
  <2> DEFINE m == Mutate("deployment", f)
             g == Stored("deployment", m)
  <2>1. /\ m.rev = s.rev /\ g.rev = m.rev
        /\ m.strategy = Given(s.strategy, f.strategy) /\ g.strategy = Given(m.strategy, 1)
        /\ m.note = Given(s.note, f.note) /\ g.note = m.note
    BY DeploymentFields
  <2>2. f = m \/ f = g  BY <1>2
  <2>3. f.rev = s.rev /\ f.note = Given(s.note, f.note)  BY <2>1, <2>2
  <2>4. f.strategy = Given(s.strategy, f.strategy)  BY <2>1, <2>2 DEF Given
  <2> QED  BY <1>2, <2>3, <2>4 DEF Fits
<1>3. CASE k = "service"
  <2> DEFINE m == Mutate("service", f)
             g == Stored("service", m)
  <2>1. /\ m.affinity = s.affinity /\ g.affinity = m.affinity
        /\ m.config = Given(s.config, f.config)
        /\ g.config = IF m.affinity THEN Given(m.config, 1) ELSE 0
    BY ServiceFields
  <2>2. f = m \/ f = g  BY <1>3
  <2>3. f.affinity = s.affinity  BY <2>1, <2>2
  <2>4. s.affinity => f.config = Given(s.config, f.config)  BY <2>1, <2>2 DEF Given
  <2> QED  BY <1>3, <2>3, <2>4 DEF Fits
<1>4. CASE k = "pdb"
  <2> DEFINE m == Mutate("pdb", f)
  <2>1. /\ m.min = (f.min \/ s.min) /\ m.max = (f.max \/ s.max)
        /\ Stored("pdb", m) = m
    BY BudgetFields
  <2>2. f = m  BY <1>4, <2>1
  <2>3. f.min \in BOOLEAN /\ f.max \in BOOLEAN /\ s.min \in BOOLEAN /\ s.max \in BOOLEAN
    BY <1>1 DEF Fields
  <2>4. f.min = (f.min \/ s.min) /\ f.max = (f.max \/ s.max)  BY <2>1, <2>2
  <2>5. s.min \/ s.max => f.min = s.min /\ f.max = s.max  BY <2>3, <2>4 DEF Valid
  <2> QED  BY <1>4, <2>5 DEF Fits
<1> QED  BY <1>2, <1>3, <1>4 DEF Kind

\* What is copied comes from the spec at hand, or stays what it was.
LEMMA MutateFrom ==
    ASSUME cur \in EgressObject, NEW k \in Kind, NEW f \in Fields, NEW specs \in SUBSET Specs,
           cur.spec \in specs, f = Empty \/ From(k, f, specs)
    PROVE  From(k, Stored(k, Mutate(k, f)), specs)
<1> DEFINE s == cur.spec
<1>1. f = Empty => f.strategy = 0 /\ f.note = 0 /\ f.affinity = FALSE /\ f.config = 0
  BY SMTT(20) DEF Empty
<1>2. CASE k = "deployment"
  <2> DEFINE m == Mutate("deployment", f)
             g == Stored("deployment", m)
  <2>1. /\ m.strategy = Given(s.strategy, f.strategy) /\ g.strategy = Given(m.strategy, 1)
        /\ m.note = Given(s.note, f.note) /\ g.note = m.note
    BY DeploymentFields
  <2>2. /\ f.strategy \in {0, 1} \cup ({t.strategy : t \in specs} \ {0})
        /\ f.note \in {0} \cup ({t.note : t \in specs} \ {0})
    BY <1>1, <1>2 DEF From
  <2>3. s.strategy \in {t.strategy : t \in specs} /\ s.note \in {t.note : t \in specs}
    OBVIOUS
  <2>4. g.strategy \in {1} \cup ({t.strategy : t \in specs} \ {0})
    BY <2>1, <2>2, <2>3 DEF Given
  <2>5. g.note \in {0} \cup ({t.note : t \in specs} \ {0})
    BY <2>1, <2>2, <2>3 DEF Given
  <2> QED  BY <1>2, <2>4, <2>5 DEF From
<1>3. CASE k = "service"
  <2> DEFINE m == Mutate("service", f)
             g == Stored("service", m)
  <2>1. /\ m.affinity = s.affinity /\ g.affinity = m.affinity
        /\ m.config = Given(s.config, f.config)
        /\ g.config = IF m.affinity THEN Given(m.config, 1) ELSE 0
    BY ServiceFields
  <2>2. f.config \in {0, 1} \cup ({t.config : t \in specs} \ {0})
    BY <1>1, <1>3 DEF From
  <2>3. s.config \in {t.config : t \in specs}  OBVIOUS
  <2>4. IF g.affinity THEN g.config \in {1} \cup ({t.config : t \in specs} \ {0}) ELSE g.config = 0
    BY <2>1, <2>2, <2>3 DEF Given
  <2> QED  BY <1>3, <2>4 DEF From
<1>4. CASE k = "pdb"  BY <1>4 DEF From
<1> QED  BY <1>2, <1>3, <1>4 DEF Kind

\* More specs, more that may come from them.
LEMMA FromMore ==
    ASSUME NEW k, NEW f, NEW few, NEW more, few \subseteq more, From(k, f, few)
    PROVE  From(k, f, more)
BY DEF From

\* FieldsInv is preserved.
LEMMA FieldsStep ==
    TypeOK /\ CacheInv /\ FieldsInv /\ [Next]_vars => FieldsInv'
<1> SUFFICES ASSUME TypeOK, CacheInv, FieldsInv, [Next]_vars, NEW k \in Kind, NEW x \in Egress
             PROVE  /\ obj'[k][x] # None => Valid(obj'[k][x].fields)
                    /\ cache'[k][x] # None => Valid(cache'[k][x].fields)
  BY DEF FieldsInv
<1>1. /\ obj[k][x] # None => Valid(obj[k][x].fields)
      /\ cache[k][x] # None => Valid(cache[k][x].fields)
  BY DEF FieldsInv
<1>2. obj'[k][x] # None => Valid(obj'[k][x].fields)
  <2>1. CASE obj'[k][x] = obj[k][x]  BY <1>1, <2>1
  <2>2. ASSUME NEW o \in Object \cup {None}, ObjectChanged(k, x, o), obj'[k][x] = o
        PROVE  obj'[k][x] # None => Valid(obj'[k][x].fields)
    BY <1>1, <2>2 DEF ObjectChanged
  <2>3. ASSUME key = x, NEW o \in Object, Wrote(k, o), obj'[k][x] = o
        PROVE  Valid(obj'[k][x].fields)
    <3>1. cur \in EgressObject  BY <2>3, WroteObject
    <3>2. CASE o.fields = Stored(k, Mutate(k, Empty)) /\ Valid(Mutate(k, Empty))
      BY <2>3, <3>1, <3>2, EmptyType, StoredValid
    <3>3. CASE /\ obj[k][x] \in Object /\ o.fields = Stored(k, Mutate(k, obj[k][x].fields))
               /\ Valid(Mutate(k, obj[k][x].fields))
      <4>1. obj[k][x].fields \in Fields /\ Valid(obj[k][x].fields)
        BY <1>1, <3>3, NoneApart DEF Object
      <4> QED  BY <2>3, <3>1, <3>3, <4>1, StoredValid
    <3> QED  BY <2>3, <3>2, <3>3, WroteObject
  <2> QED  BY <2>1, <2>2, <2>3, ObjectSteps
<1> QED  BY <1>1, <1>2, ObjectCopySteps

-----------------------------------------------------------------------------
(***************************************************************************)
(* What Reconcile is done with.                                            *)
(***************************************************************************)
\* After a restart, the key of every Egress is queued.
LEMMA RestartQueues ==
    ASSUME Restart, NEW x \in Egress, Alive(egCache'[x])
    PROVE  x \in queue'
BY DEF Restart, Alive

\* A copy of an Egress, an Egress or an object changes only with an event or the
\* prospect of one.
LEMMA CopyNoticed ==
    ASSUME TypeOK, CacheInv, CurInv, [Next]_vars,
           NEW x \in Egress, x \notin queue', Alive(egCache'[x])
    PROVE  egCache'[x] = egCache[x]
<1> DEFINE P == egCache'[x] = egCache[x]
<1>a. "egress" \notin Lag => egCache[x] = eg[x]  BY DEF TypeOK, CacheInv
<1>1. ASSUME NEW e \in Egress, NEW o \in EgressObject \cup {None}, EgressChanged(e, o) PROVE P
  <2>1. SetEgress(e, o)  BY <1>1 DEF EgressChanged, ChangeEgress
  <2>2. eg'[x] = IF x = e THEN o ELSE eg[x]  BY <2>1, SetEgressAt
  <2>3. CASE "egress" \in Lag  BY <2>1, <2>3 DEF SetEgress
  <2>4. CASE "egress" \notin Lag
    <3>1. x # e /\ egCache' = eg'  BY <2>1, <2>4 DEF SetEgress
    <3> QED  BY <1>a, <2>2, <2>4, <3>1
  <2> QED  BY <2>3, <2>4
<1>2. ASSUME NEW k \in Kind, NEW e \in Egress, NEW o \in Object \cup {None}, ObjectChanged(k, e, o)
      PROVE  P
  BY <1>2 DEF ObjectChanged
<1>3. ASSUME NEW e \in Egress, WatchEgress(e) PROVE P
  <2>1. x # e /\ egCache' = [egCache EXCEPT ![e] = eg[e]]  BY <1>3 DEF WatchEgress
  <2> QED  BY <2>1 DEF TypeOK
<1>4. ASSUME NEW k \in Kind, NEW e \in Egress, WatchObject(k, e) PROVE P
  BY <1>4 DEF WatchObject
<1>5. ASSUME NEW k \in Kind, NEW o \in Object, Wrote(k, o) PROVE P  BY <1>5 DEF Wrote
<1>6. ASSUME NEW r \in Reports, StatusWritten(r) PROVE P
  <2>1. CASE "egress" \in Lag  BY <1>6, <2>1 DEF StatusWritten
  <2>2. CASE "egress" \notin Lag
    <3>1. egCache' = eg' /\ x # key  BY <1>6, <2>2 DEF StatusWritten, Return
    <3>2. eg'[x] = eg[x]  BY <1>6, <3>1, StatusWrittenAt
    <3> QED  BY <1>a, <2>2, <3>1, <3>2
  <2> QED  BY <2>1, <2>2
<1>7. CASE Restart  BY <1>7, RestartQueues
<1>8. CASE Worked  BY <1>8 DEF Worked
<1> QED  BY <1>1, <1>2, <1>3, <1>4, <1>5, <1>6, <1>7, <1>8, StepStore DEF StoreStep

\* An Egress whose key a step leaves unqueued and whose copy is up to date after
\* it has not been changed by the step.
LEMMA EgressNoticed ==
    ASSUME TypeOK, CurInv, [Next]_vars, NEW x \in Egress, x \notin queue', Alive(egCache'[x]),
           <<"egress", x>> \notin stale'
    PROVE  eg'[x] = eg[x] /\ <<"egress", x>> \notin stale
<1> DEFINE P == eg'[x] = eg[x] /\ <<"egress", x>> \notin stale
<1>1. ASSUME NEW e \in Egress, NEW o \in EgressObject \cup {None}, EgressChanged(e, o) PROVE P
  <2>1. SetEgress(e, o)  BY <1>1 DEF EgressChanged, ChangeEgress
  <2>2. x # e /\ <<"egress", x>> \notin stale  BY <2>1, SetEgressNoticed
  <2>3. eg'[x] = eg[x]  BY <2>1, <2>2, SetEgressAt
  <2> QED  BY <2>2, <2>3
<1>2. ASSUME NEW k \in Kind, NEW e \in Egress, NEW o \in Object \cup {None}, ObjectChanged(k, e, o)
      PROVE  P
  BY <1>2, SetObjectNoticed DEF ObjectChanged
<1>3. ASSUME NEW e \in Egress, WatchEgress(e) PROVE P
  <2>1. /\ UNCHANGED eg /\ stale' = stale \ {<<"egress", e>>} /\ x # e
    BY <1>3 DEF WatchEgress, api
  <2> QED  BY <2>1
<1>4. ASSUME NEW k \in Kind, NEW e \in Egress, WatchObject(k, e) PROVE P
  <2>1. /\ UNCHANGED eg /\ stale' = stale \ {<<k, e>>} /\ x # e
    BY <1>4 DEF WatchObject, api
  <2> QED  BY <2>1
<1>5. ASSUME NEW k \in Kind, NEW o \in Object, Wrote(k, o) PROVE P
  <2>1. SetObject(k, key, o) /\ key \in Egress /\ UNCHANGED eg
    BY <1>5, WorkerType DEF Wrote, Kind
  <2> QED  BY <2>1, SetObjectNoticed
<1>6. ASSUME NEW r \in Reports, StatusWritten(r) PROVE P
  <2>1. stale \subseteq stale' /\ x # key  BY <1>6 DEF StatusWritten, Return
  <2>2. eg'[x] = eg[x]  BY <1>6, <2>1, StatusWrittenAt
  <2> QED  BY <2>1, <2>2
<1>7. CASE Restart  BY <1>7, RestartQueues
<1>8. CASE Worked  BY <1>8 DEF Worked
<1> QED  BY <1>1, <1>2, <1>3, <1>4, <1>5, <1>6, <1>7, <1>8, StepStore DEF StoreStep

\* The same for an object of the Egress.
LEMMA ObjectNoticed ==
    ASSUME TypeOK, [Next]_vars, NEW x \in Egress, x \notin queue', Alive(egCache'[x]),
           NEW k \in Kind, <<k, x>> \notin stale'
    PROVE  obj'[k][x] = obj[k][x] /\ <<k, x>> \notin stale
<1> DEFINE P == obj'[k][x] = obj[k][x] /\ <<k, x>> \notin stale
<1>1. ASSUME NEW e \in Egress, NEW o \in EgressObject \cup {None}, EgressChanged(e, o) PROVE P
  BY <1>1, SetEgressNoticed DEF EgressChanged, ChangeEgress
<1>2. ASSUME NEW kk \in Kind, NEW e \in Egress, NEW o \in Object \cup {None},
             ObjectChanged(kk, e, o)
      PROVE  P
  <2>1. SetObject(kk, e, o)  BY <1>2 DEF ObjectChanged
  <2>2. ~(k = kk /\ x = e) /\ <<k, x>> \notin stale  BY <2>1, SetObjectNoticed
  <2>3. obj'[k][x] = obj[k][x]  BY <2>1, <2>2, SetObjectAt, SMTT(20)
  <2> QED  BY <2>2, <2>3
<1>3. ASSUME NEW e \in Egress, WatchEgress(e) PROVE P
  <2>1. /\ UNCHANGED obj /\ stale' = stale \ {<<"egress", e>>} /\ x # e
    BY <1>3 DEF WatchEgress, api
  <2> QED  BY <2>1
<1>4. ASSUME NEW kk \in Kind, NEW e \in Egress, WatchObject(kk, e) PROVE P
  <2>1. /\ UNCHANGED obj /\ stale' = stale \ {<<kk, e>>} /\ x # e
    BY <1>4 DEF WatchObject, api
  <2> QED  BY <2>1
<1>5. ASSUME NEW kk \in Kind, NEW o \in Object, Wrote(kk, o) PROVE P
  <2>1. SetObject(kk, key, o) /\ key \in Egress  BY <1>5, WorkerType DEF Wrote, Kind
  <2>2. ~(k = kk /\ x = key) /\ <<k, x>> \notin stale  BY <2>1, SetObjectNoticed
  <2>3. obj'[k][x] = obj[k][x]  BY <2>1, <2>2, SetObjectAt, SMTT(20)
  <2> QED  BY <2>2, <2>3
<1>6. ASSUME NEW r \in Reports, StatusWritten(r) PROVE P
  <2>1. stale \subseteq stale' /\ UNCHANGED obj  BY <1>6 DEF StatusWritten
  <2> QED  BY <2>1
<1>7. CASE Restart  BY <1>7, RestartQueues
<1>8. CASE Worked  BY <1>8 DEF Worked
<1> QED  BY <1>1, <1>2, <1>3, <1>4, <1>5, <1>6, <1>7, <1>8, StepStore DEF StoreStep

\* Reconcile becomes done with an Egress only by working on it.
LEMMA DoneBegins ==
    ASSUME TypeOK, CacheInv, CurInv, [Next]_vars,
           NEW x \in Egress, NEW steps, "sa" \notin steps, Done(x, steps)'
    PROVE  \/ Done(x, steps)
           \/ key = x /\ key' = x /\ pc \notin steps /\ pc' \in steps /\ ~err'
           \/ key = x /\ pc = "status" /\ pc \notin steps
              /\ (Returned \/ \E r \in Reports : StatusWritten(r))
<1> DEFINE P == \/ Done(x, steps)
                \/ key = x /\ key' = x /\ pc \notin steps /\ pc' \in steps /\ ~err'
                \/ key = x /\ pc = "status" /\ pc \notin steps
                   /\ (Returned \/ \E r \in Reports : StatusWritten(r))
<1>a. Alive(egCache'[x]) /\ x \notin queue' /\ (key' = x => ~err' /\ pc' \in steps)
  BY DEF Done
<1>b. Alive(egCache[x])  BY <1>a, CopyNoticed
<1>c. ASSUME queue \subseteq queue', UNCHANGED <<key, err>> PROVE P
  BY <1>a, <1>b, <1>c DEF Done
<1>1. ASSUME NEW e \in Egress, NEW o \in EgressObject \cup {None}, EgressChanged(e, o) PROVE P
  BY <1>1, <1>c, SetEgressNoticed DEF EgressChanged, ChangeEgress
<1>2. ASSUME NEW k \in Kind, NEW e \in Egress, NEW o \in Object \cup {None}, ObjectChanged(k, e, o)
      PROVE  P
  BY <1>2, <1>c, SetObjectNoticed DEF ObjectChanged, worker
<1>3. ASSUME NEW e \in Egress, WatchEgress(e) PROVE P  BY <1>3, <1>c DEF WatchEgress, worker
<1>4. ASSUME NEW k \in Kind, NEW e \in Egress, WatchObject(k, e) PROVE P
  BY <1>4, <1>c DEF WatchObject, worker
<1>5. ASSUME NEW k \in Kind, NEW o \in Object, Wrote(k, o) PROVE P
  <2>1. SetObject(k, key, o) /\ key \in Egress /\ UNCHANGED <<key, err>>
    BY <1>5, WorkerType DEF Wrote, Goto, Kind
  <2> QED  BY <1>c, <2>1, SetObjectNoticed
<1>6. ASSUME Returned \/ \E r \in Reports : StatusWritten(r) PROVE P
  <2>1. pc = "status" /\ queue \subseteq queue' /\ (err => key \in queue')
    BY <1>6 DEF Returned, StatusWritten, Return
  <2> QED  BY <1>6, <1>a, <1>b, <2>1 DEF Done
<1>7. CASE Restart  BY <1>7, <1>a, RestartQueues
<1>8. CASE Worked
  <2>1. CASE UNCHANGED <<queue, pc, key, cur, curStale, err>>  BY <1>c, <2>1
  <2>2. ASSUME NEW e \in Egress, ReconcileIgnored(e) PROVE P
    BY <1>a, <1>b, <2>2 DEF ReconcileIgnored, Done, worker
  <2>3. ASSUME NEW e \in Egress, ReconcileStart(e) PROVE P
    <3>1. key # x  BY <2>3, NoneApart DEF ReconcileStart, TypeOK
    <3> QED  BY <1>a, <1>b, <2>3, <3>1 DEF ReconcileStart, Done
  <2>4. CASE Advanced  BY <1>a, <1>b, <2>4 DEF Advanced, Done
  <2> QED  BY <1>6, <1>8, <2>1, <2>2, <2>3, <2>4 DEF Worked
<1> QED  BY <1>1, <1>2, <1>3, <1>4, <1>5, <1>6, <1>7, <1>8, StepStore DEF StoreStep

\* When CreateOrUpdate leaves an object alone although it may be changed, the
\* object is up to date.
LEMMA LeftIsFit ==
    ASSUME TypeOK, CacheInv, CurInv, FieldsInv, NEW k \in Kind, Left(k),
           key \notin queue, <<k, key>> \notin stale
    PROVE  \/ k = "pdb" /\ ~egCache[key].spec.min /\ ~egCache[key].spec.max
           \/ /\ obj[k][key] # None
              /\ obj[k][key].deleting \/ Fits(k, obj[k][key].fields, egCache[key].spec)
<1> USE NoneApart
<1> DEFINE old == cache[k][key]
           new == Mutated(k, old)
<1>1. /\ key \in Egress /\ cur \in EgressObject /\ egCache[key] = cur
      /\ old \in Object \cup {None}
  BY DEF Left, TypeOK, Kind, CurInv
<1>2. old = obj[k][key]  BY <1>1 DEF CacheInv
<1>3. CASE k = "pdb" /\ ~cur.spec.min /\ ~cur.spec.max  BY <1>1, <1>3
<1>4. CASE old # None /\ \/ new = old
                         \/ Valid(new.fields) /\ [new EXCEPT !.fields = Stored(k, @)] = old
  <2>1. old \in Object /\ old.fields \in Fields /\ Valid(old.fields)
    BY <1>1, <1>4 DEF FieldsInv, Object
  <2>2. CASE old.deleting  BY <1>2, <1>4, <2>2
  <2>3. CASE ~old.deleting
    <3>1. new = [old EXCEPT !.fields = Mutate(k, @)]  BY <1>4, <2>3 DEF Mutated
    <3>2. new.fields = Mutate(k, old.fields) /\ new \in Object  BY <1>1, <2>1, <3>1, MutatedType DEF Object
    <3>3. old.fields = Mutate(k, old.fields) \/ old.fields = Stored(k, Mutate(k, old.fields))
      <4>1. CASE new = old  BY <3>2, <4>1
      <4>2. CASE Valid(new.fields) /\ [new EXCEPT !.fields = Stored(k, @)] = old
        BY <3>2, <4>2 DEF Object
      <4> QED  BY <1>4, <4>1, <4>2
    <3>4. Fits(k, old.fields, cur.spec)  BY <1>1, <2>1, <3>3, LeftFits
    <3> QED  BY <1>1, <1>2, <1>4, <3>4
  <2> QED  BY <2>2, <2>3
<1> QED  BY <1>3, <1>4 DEF Left

\* The order of the steps.
LEMMA PastSteps ==
    ASSUME NEW k \in Kind
    PROVE  /\ {"idle", "sa", "cr", "crb", "patch", "deployment"} \cap Past(k) = {}
           /\ "status" \in Past(k) /\ k \notin Past(k)
           /\ \A kk \in Kind : kk # k /\ After(kk) \in Past(k) => kk \in Past(k)
BY DEF Past, After, Kind

\* Reconcile becomes done with an object by CreateOrUpdate.
LEMMA FitBegins ==
    ASSUME TypeOK, [Next]_vars, NEW k \in Kind, NEW x \in Egress,
           key = x, key' = x, pc \notin Past(k), pc' \in Past(k), ~err'
    PROVE  Left(k) \/ \E o \in Object : Wrote(k, o)
<1> DEFINE P == Left(k) \/ \E o \in Object : Wrote(k, o)
<1>a. /\ {"idle", "sa", "cr", "crb", "patch", "deployment"} \cap Past(k) = {}
      /\ "status" \in Past(k)
      /\ \A kk \in Kind : kk # k /\ After(kk) \in Past(k) => kk \in Past(k)
  BY PastSteps
<1>1. ASSUME NEW e \in Egress, NEW o \in EgressObject \cup {None}, EgressChanged(e, o) PROVE P
  BY <1>1 DEF EgressChanged, ChangeEgress
<1>2. ASSUME NEW kk \in Kind, NEW e \in Egress, NEW o \in Object \cup {None},
             ObjectChanged(kk, e, o)
      PROVE  P
  BY <1>2 DEF ObjectChanged, worker
<1>3. ASSUME NEW e \in Egress, WatchEgress(e) PROVE P  BY <1>3 DEF WatchEgress, worker
<1>4. ASSUME NEW kk \in Kind, NEW e \in Egress, WatchObject(kk, e) PROVE P
  BY <1>4 DEF WatchObject, worker
<1>5. ASSUME NEW kk \in Kind, NEW o \in Object, Wrote(kk, o) PROVE P
  <2>1. pc = kk /\ pc' = After(kk)  BY <1>5 DEF Wrote, Goto
  <2> QED  BY <1>5, <1>a, <2>1
<1>6. CASE Returned \/ \E r \in Reports : StatusWritten(r)
  BY <1>6, <1>a DEF Returned, StatusWritten
<1>7. CASE Restart  BY <1>7, <1>a DEF Restart
<1>8. CASE Worked
  <2>1. CASE UNCHANGED <<queue, pc, key, cur, curStale, err>>  BY <2>1
  <2>2. ASSUME NEW e \in Egress, ReconcileIgnored(e) PROVE P
    BY <2>2 DEF ReconcileIgnored, worker
  <2>3. ASSUME NEW e \in Egress, ReconcileStart(e) PROVE P  BY <1>a, <2>3 DEF ReconcileStart
  <2>4. CASE Advanced
    <3>1. PICK kk \in Kind : Left(kk)  BY <1>a, <2>4 DEF Advanced
    <3>2. pc = kk /\ pc' = After(kk)  BY <3>1 DEF Left, Goto
    <3> QED  BY <1>a, <3>1, <3>2
  <2> QED  BY <1>6, <1>8, <2>1, <2>2, <2>3, <2>4 DEF Worked
<1> QED  BY <1>1, <1>2, <1>3, <1>4, <1>5, <1>6, <1>7, <1>8, StepStore DEF StoreStep

\* FitInv is preserved: what Reconcile is done with either was so before, or has
\* just been left or written.
LEMMA FitStep ==
    ASSUME TypeOK, CacheInv, CurInv, FieldsInv, [Next]_vars,
           NEW k \in Kind, NEW x \in Egress, Fit(k, x)
    PROVE  Fit(k, x)'
<1> DEFINE Fine == \/ k = "pdb" /\ ~egCache[x].spec.min /\ ~egCache[x].spec.max
                   \/ /\ obj[k][x] # None
                      /\ obj[k][x].deleting \/ Fits(k, obj[k][x].fields, egCache[x].spec)
<1> SUFFICES ASSUME Done(x, Past(k))', <<k, x>> \notin stale'
             PROVE  Fine'
  BY DEF Fit
<1>1. x \notin queue' /\ Alive(egCache'[x])  BY DEF Done
<1>2. egCache'[x] = egCache[x]  BY <1>1, CopyNoticed
<1>3. obj'[k][x] = obj[k][x] /\ <<k, x>> \notin stale  BY <1>1, ObjectNoticed
<1>4. Fine
  <2>1. CASE Done(x, Past(k))  BY <1>3, <2>1 DEF Fit
  <2>2. CASE key = x /\ key' = x /\ pc \notin Past(k) /\ pc' \in Past(k) /\ ~err'
    <3>1. CASE Left(k)
      <4>1. x \notin queue  BY <1>1, <3>1 DEF Left
      <4> QED  BY <1>3, <2>2, <3>1, <4>1, LeftIsFit
    <3>2. ASSUME NEW o \in Object, Wrote(k, o) PROVE Fine
      <4>1. SetObject(k, x, o)  BY <2>2, <3>2 DEF Wrote
      <4> QED  BY <1>1, <4>1, SetObjectNoticed
    <3> QED  BY <2>2, <3>1, <3>2, FitBegins
  <2>3. "sa" \notin Past(k) /\ "status" \in Past(k)  BY PastSteps
  <2> QED  BY <2>1, <2>2, <2>3, DoneBegins
<1> QED  BY <1>2, <1>3, <1>4

\* Unless it fails or the process dies, Reconcile returns from updateStatus.
LEMMA OperateReturns ==
    ASSUME TypeOK, Operate, pc = "status", pc' = "idle", key \notin queue', Alive(egCache'[key])
    PROVE  updateStatus
<1>1. ~Restart  BY RestartQueues, WorkerType
<1>2. ~Watch  BY DEF Watch, WatchCRB, WatchEgress, WatchObject, worker
<1>3. ~\E e \in Egress : Cluster(e)
  BY DEF Cluster, CreateEgress, UpdateEgress, DeleteEgress, ReportStatus, CollectGarbage,
         ChangeEgress, worker
<1>4. ~\E e \in Egress : ReconcileIgnored(e) \/ ReconcileStart(e)
  BY DEF ReconcileIgnored, ReconcileStart
<1>5. ~CallFails  BY DEF CallFails
<1>6. Reconcile  BY <1>1, <1>2, <1>3, <1>4, <1>5 DEF Operate
<1> QED
  BY <1>6
  DEF Reconcile, reconcileServiceAccount, reconcileCR, reconcileCRB, patchCRB,
      reconcileDeployment, reconcileService, reconcilePDB

\* The status is what the Deployment reports once updateStatus has found it to
\* be; a key that was missed is one no longer when it is reconciled again.
LEMMA StatusStep ==
    ASSUME TypeOK, CacheInv, CurInv, HNext, NEW x \in Egress \ missed', x \notin missed => Reported(x)
    PROVE  Reported(x)'
<1> DEFINE Told == obj["deployment"][x] = None \/ eg[x].status = obj["deployment"][x].report
<1> SUFFICES ASSUME Done(x, {})', <<"egress", x>> \notin stale', <<"deployment", x>> \notin stale'
             PROVE  Told'
  BY DEF Reported
<1>1. x \notin queue' /\ Alive(egCache'[x]) /\ key' # x  BY DEF Done
<1>2. [Next]_vars  BY DEF HNext, Next
<1>3. eg'[x] = eg[x] /\ <<"egress", x>> \notin stale  BY <1>1, <1>2, EgressNoticed
<1>4. obj'["deployment"][x] = obj["deployment"][x] /\ <<"deployment", x>> \notin stale
  BY <1>1, <1>2, ObjectNoticed DEF Kind
<1>5. x \notin missed /\ (key = x => Operate)  BY <1>1 DEF HNext
<1>6. Told
  <2>1. CASE Done(x, {})  BY <1>3, <1>4, <1>5, <2>1 DEF Reported
  <2>2. CASE key = x /\ Returned
    <3>1. cache["deployment"][x] = obj["deployment"][x]  BY <1>4 DEF CacheInv, Kind
    <3>2. x \notin queue /\ pc = "status" /\ pc' = "idle" /\ UNCHANGED eg
      BY <1>1, <2>2 DEF Returned, Return, api
    <3>3. ~curStale /\ eg[x] = cur  BY <1>3, <2>2, <3>2 DEF CurInv
    <3>4. updateStatus  BY <1>1, <1>5, <2>2, <3>2, OperateReturns
    <3>5. CASE cache["deployment"][key] = None \/ cache["deployment"][key].report = cur.status
      BY <2>2, <3>1, <3>3, <3>5
    <3>6. CASE ~(cache["deployment"][key] = None \/ cache["deployment"][key].report = cur.status)
      <4>1. \/ stale' = stale \cup {<<"egress", key>>}
            \/ Return(queue \cup {key})
        BY <3>3, <3>4, <3>6 DEF updateStatus
      <4> QED  BY <1>1, <2>2, <4>1 DEF Return
    <3> QED  BY <3>5, <3>6
  <2>3. ASSUME key = x, NEW r \in Reports, StatusWritten(r) PROVE Told
    BY <1>1, <2>3 DEF StatusWritten, Return
  <2> QED  BY <1>2, <2>1, <2>2, <2>3, DoneBegins
<1> QED  BY <1>3, <1>4, <1>6

-----------------------------------------------------------------------------
(***************************************************************************)
(* The ServiceAccounts, the ClusterRole and the ClusterRoleBinding.        *)
(***************************************************************************)
\* Steps that leave them alone do not take Reconcile past them.
Apart ==
    /\ UNCHANGED <<sa, cr, crb, crbCache>>
    /\ pc' = "patch" => pc = "patch" /\ UNCHANGED base
    /\ pc \in {"sa", "cr", "crb", "patch"} /\ key' = key /\ err' = FALSE => pc' = pc

\* The steps that change what the Egresses share.
LEMMA SharedSteps ==
    ASSUME TypeOK, [Next]_vars
    PROVE  \/ Apart \/ WatchCRB \/ reconcileServiceAccount \/ reconcileCR \/ BindingRead
           \/ patchCRB \/ Restart
<1>1. ASSUME NEW e \in Egress, NEW o \in EgressObject \cup {None}, EgressChanged(e, o) PROVE Apart
  BY <1>1 DEF EgressChanged, ChangeEgress, Apart
<1>2. ASSUME NEW k \in Kind, NEW e \in Egress, NEW o \in Object \cup {None}, ObjectChanged(k, e, o)
      PROVE  Apart
  BY <1>2 DEF ObjectChanged, Apart, worker
<1>3. ASSUME NEW e \in Egress, WatchEgress(e) PROVE Apart
  BY <1>3 DEF WatchEgress, Apart, api, worker
<1>4. ASSUME NEW k \in Kind, NEW e \in Egress, WatchObject(k, e) PROVE Apart
  BY <1>4 DEF WatchObject, Apart, api, worker
<1>5. ASSUME NEW e \in Egress, ReconcileIgnored(e) PROVE Apart
  BY <1>5 DEF ReconcileIgnored, Apart, api, caches, worker
<1>6. ASSUME NEW e \in Egress, ReconcileStart(e) PROVE Apart
  BY <1>6 DEF ReconcileStart, Apart, api, caches
<1>7. ASSUME NEW k \in Kind, Left(k) PROVE Apart
  BY <1>7 DEF Left, Apart, Goto, After, Kind, api, caches
<1>8. ASSUME NEW k \in Kind, NEW o \in Object, Wrote(k, o) PROVE Apart
  BY <1>8 DEF Wrote, Apart, Goto, After, Kind
<1>9. CASE Failed  BY <1>9 DEF Failed, ReturnError, Apart, api, caches
<1>10. CASE Returned  BY <1>10 DEF Returned, Return, Apart, api, caches
<1>11. ASSUME NEW r \in Reports, StatusWritten(r) PROVE Apart
  BY <1>11 DEF StatusWritten, Return, Apart
<1>12. CASE UNCHANGED vars  BY <1>12 DEF Apart, vars, api, caches, worker
<1> QED
  BY <1>1, <1>2, <1>3, <1>4, <1>5, <1>6, <1>7, <1>8, <1>9, <1>10, <1>11, <1>12, StepSummary
  DEF Summary

\* RolesInv is preserved.
LEMMA RolesStep ==
    TypeOK /\ TypeOK' /\ CacheInv /\ CurInv /\ RolesInv /\ [Next]_vars => RolesInv'
<1> SUFFICES ASSUME TypeOK, TypeOK', CacheInv, CurInv, RolesInv, [Next]_vars, NEW x \in Egress
             PROVE  /\ Done(x, Step \ {"sa"})' => NS[x] \in sa'
                    /\ Done(x, Step \ {"sa", "cr"})' => cr'
  BY DEF RolesInv
<1>1. sa \subseteq sa' /\ (cr => cr')
  <2>1. \/ sa' = sa /\ cr' = cr
        \/ sa' = sa \cup {NS[key]} /\ cr' = cr
        \/ sa' = sa /\ cr' = TRUE
    BY SharedSteps
    DEF Apart, WatchCRB, reconcileServiceAccount, reconcileCR, BindingRead, patchCRB, Restart, api
  <2> QED  BY <2>1, SMTT(20)
<1>2. pc \in Step /\ pc' \in Step /\ err' \in BOOLEAN  BY DEF TypeOK
<1>3. ASSUME key' = key, pc \in {"sa", "cr"}, pc' # pc, ~err'
      PROVE  \/ pc = "sa" /\ pc' = "cr" /\ NS[key] \in sa'
             \/ pc = "cr" /\ cr'
  <2>1. ~Apart  BY <1>2, <1>3 DEF Apart
  <2> QED
    BY <1>3, <2>1, SharedSteps, NoneApart, WorkerType
    DEF WatchCRB, worker, reconcileServiceAccount, reconcileCR, BindingRead, patchCRB, Restart, Goto
<1>4. ASSUME Done(x, Step \ {"sa"})' PROVE NS[x] \in sa'
  <2>1. CASE Done(x, Step \ {"sa"})  BY <1>1, <2>1 DEF RolesInv
  <2>2. CASE key = x /\ key' = x /\ pc \notin Step \ {"sa"} /\ pc' \in Step \ {"sa"} /\ ~err'
    BY <1>2, <1>3, <2>2
  <2> QED  BY <1>4, <2>1, <2>2, DoneBegins, SMTT(20) DEF Step
<1>5. ASSUME Done(x, Step \ {"sa", "cr"})' PROVE cr'
  <2>1. CASE Done(x, Step \ {"sa", "cr"})  BY <1>1, <2>1 DEF RolesInv
  <2>2. CASE /\ key = x /\ key' = x /\ ~err'
             /\ pc \notin Step \ {"sa", "cr"} /\ pc' \in Step \ {"sa", "cr"}
    BY <1>2, <1>3, <2>2
  <2> QED  BY <1>5, <2>1, <2>2, DoneBegins, SMTT(20) DEF Step
<1> QED  BY <1>4, <1>5

\* BindingInv is preserved.
LEMMA BindingStep ==
    TypeOK /\ TypeOK' /\ CacheInv /\ CurInv /\ BindingInv /\ [Next]_vars => BindingInv'
<1> DEFINE S == Step \ {"sa", "cr", "crb", "patch"}
<1> SUFFICES ASSUME TypeOK, TypeOK', CacheInv, CurInv, BindingInv, [Next]_vars, "crb" \notin Lag
             PROVE  /\ crbCache' = crb'
                    /\ pc' = "patch" => base' = crb'
                    /\ \A x \in Egress : Done(x, S)' => crb' # None /\ NS[x] \in crb'
  BY DEF BindingInv
<1>1. crbCache = crb /\ (pc = "patch" => base = crb)  BY DEF BindingInv
<1>2. crbCache' = crb' /\ (pc' = "patch" => base' = crb')
  <2>1. CASE Apart  BY <1>1, <2>1 DEF Apart
  <2>2. CASE WatchCRB  BY <1>1, <2>2 DEF WatchCRB
  <2>3. CASE reconcileServiceAccount \/ reconcileCR
    BY <1>1, <2>3 DEF reconcileServiceAccount, reconcileCR, Goto, caches
  <2>4. CASE BindingRead  BY <1>1, <2>4 DEF BindingRead, SetCRB
  <2>5. CASE patchCRB  BY <1>1, <2>5 DEF patchCRB, SetCRB, Goto
  <2>6. CASE Restart  BY <2>6 DEF Restart, api
  <2> QED  BY <2>1, <2>2, <2>3, <2>4, <2>5, <2>6, SharedSteps
<1> SUFFICES ASSUME NEW x \in Egress, Done(x, S)' PROVE crb' # None /\ NS[x] \in crb'
  BY <1>2
<1>3. ASSUME patchCRB PROVE crb' # None /\ NS[x] \in crb'
  <2>1. crb' = getNamespaces  BY <1>1, <1>3 DEF patchCRB, SetCRB
  <2>2. getNamespaces \in SUBSET Namespace  BY EgressAssumption, SMTT(20) DEF getNamespaces
  <2>3. egCache[x] # None  BY <1>3 DEF Done, Alive, patchCRB
  <2>4. NS[x] \in getNamespaces  BY <2>3 DEF getNamespaces
  <2> QED  BY <2>1, <2>2, <2>4, EgressAssumption
<1>4. CASE Done(x, S)
  <2>1. crb # None /\ NS[x] \in crb  BY <1>4 DEF BindingInv
  <2>2. UNCHANGED crb \/ patchCRB
    BY <1>1, <2>1, SharedSteps
    DEF Apart, WatchCRB, reconcileServiceAccount, reconcileCR, BindingRead, Restart, api
  <2> QED  BY <1>3, <2>1, <2>2
<1>5. CASE key = x /\ key' = x /\ pc \notin S /\ pc' \in S /\ ~err'
  <2>1. /\ pc \in {"sa", "cr", "crb", "patch"} /\ pc' \notin {"sa", "cr", "crb", "patch"}
        /\ err' = FALSE
    BY <1>5 DEF TypeOK
  <2>2. patchCRB
    BY <1>5, <2>1, SharedSteps, NoneApart
    DEF Apart, WatchCRB, worker, reconcileServiceAccount, reconcileCR, BindingRead, Restart, Goto
  <2> QED  BY <1>3, <2>2
<1> QED  BY <1>4, <1>5, DoneBegins, SMTT(20) DEF Step

\* Reconcile patches the binding with the namespaces of the Egresses it sees.
LEMMA NamespacesSeen ==
    /\ getNamespaces # None
    /\ \A n \in Namespace : n \in getNamespaces <=> Seen(n)
<1>1. getNamespaces \in SUBSET Namespace  BY EgressAssumption, SMTT(20) DEF getNamespaces
<1>2. \A n \in Namespace : n \in getNamespaces <=> Seen(n)  BY DEF getNamespaces, Seen
<1> QED  BY <1>1, <1>2, EgressAssumption

\* A namespace that has lost no Egress had lost none before, and the Egress that
\* is seen in it is seen for good.
LEMMA SteadySeen ==
    ASSUME TypeOK, CurInv, UidInv, [Next]_vars, NEW n \in Namespace, Steady(n)'
    PROVE  Steady(n) /\ (Seen(n) => Seen(n)')
<1>1. ASSUME NEW e \in Egress, NS[e] = n
      PROVE  /\ uid[e] = 0 \/ (uid[e] = 1 /\ eg[e] # None)
             /\ uid[e] # 0 => eg'[e] # None
  <2>1. uid[e] \in Nat  BY EgressType
  <2>2. uid'[e] = 0 \/ (uid'[e] = 1 /\ eg'[e] # None)  BY <1>1 DEF Steady
  <2> QED  BY <2>1, <2>2, EgressSteps, SMTT(20)
<1>2. ASSUME NEW e \in Egress, NS[e] = n, egCache[e] # None PROVE egCache'[e] # None
  <2>1. egCache[e] \in EgressObject /\ egCache[e].uid <= uid[e] /\ uid[e] \in Nat
    BY <1>2, EgressType DEF UidInv
  <2>2. uid[e] # 0
    <3>1. egCache[e].uid \in 1 .. MaxUid  BY <2>1 DEF EgressObject
    <3> QED  BY <2>1, <3>1, EgressAssumption, SMTT(20)
  <2> QED  BY <1>1, <1>2, <2>2, CopySteps
<1> QED  BY <1>1, <1>2 DEF Steady, Seen

\* SteadyInv is preserved.
LEMMA SteadyStep ==
    TypeOK /\ TypeOK' /\ CacheInv /\ CurInv /\ UidInv /\ SteadyInv /\ [Next]_vars => SteadyInv'
<1> DEFINE S == Step \ {"sa", "cr", "crb", "patch"}
           In(subjects, e) == subjects # None /\ NS[e] \in subjects
<1> SUFFICES ASSUME TypeOK, TypeOK', CacheInv, CurInv, UidInv, SteadyInv, [Next]_vars,
                    NEW x \in Egress, Steady(NS[x])'
             PROVE  /\ In(crb', x) \/ In(crbCache', x) \/ In(base', x) =>
                          In(crb', x) /\ Seen(NS[x])'
                    /\ Done(x, S)' => In(crb', x)
  BY DEF SteadyInv
<1>1. Steady(NS[x]) /\ (Seen(NS[x]) => Seen(NS[x])') /\ NS[x] \in Namespace
  BY SteadySeen, EgressAssumption
<1>2. /\ In(crb, x) \/ In(crbCache, x) \/ In(base, x) => In(crb, x) /\ Seen(NS[x])
      /\ Done(x, S) => In(crb, x)
  BY <1>1 DEF SteadyInv
<1>3. getNamespaces # None /\ (NS[x] \in getNamespaces <=> Seen(NS[x]))  BY <1>1, NamespacesSeen
<1>4. ASSUME patchCRB
      PROVE  /\ Seen(NS[x]) => In(crb', x)
             /\ In(crb', x) => In(crb, x) \/ Seen(NS[x])
             /\ base' = None /\ crbCache' \in {crbCache, crb'}
  <2>1. base' = None  BY <1>4 DEF patchCRB, Goto
  <2>2. CASE base = getNamespaces /\ UNCHANGED <<crb, crbCache>>
    <3>1. Seen(NS[x]) => In(base, x)  BY <1>3, <2>2
    <3>2. Seen(NS[x]) => In(crb, x)  BY <1>2, <3>1
    <3> QED  BY <2>1, <2>2, <3>2
  <2>3. CASE crb' = getNamespaces /\ crbCache' \in {crbCache, crb'}
    <3>1. In(crb', x) <=> Seen(NS[x])  BY <1>3, <2>3
    <3> QED  BY <2>1, <2>3, <3>1
  <2> QED  BY <1>4, <2>2, <2>3 DEF patchCRB, SetCRB
<1>5. In(crb, x) => In(crb', x)
  <2>1. UNCHANGED crb \/ crb = None \/ patchCRB
    BY SharedSteps
    DEF Apart, WatchCRB, reconcileServiceAccount, reconcileCR, BindingRead, Restart, api
  <2> QED  BY <1>2, <1>4, <2>1
<1>6. In(crb', x) \/ In(crbCache', x) \/ In(base', x) => In(crb', x) /\ Seen(NS[x])'
  <2>1. CASE Apart
    <3>1. base' = base \/ base' = None  BY <2>1 DEF Apart, TypeOK
    <3> QED  BY <1>1, <1>2, <2>1, <3>1 DEF Apart
  <2>2. CASE WatchCRB  BY <1>1, <1>2, <2>2 DEF WatchCRB, api, worker
  <2>3. CASE reconcileServiceAccount \/ reconcileCR
    BY <1>1, <1>2, <2>3 DEF reconcileServiceAccount, reconcileCR, Goto, caches
  <2>4. CASE BindingRead
    <3>1. CASE base' = crbCache /\ UNCHANGED <<crb, crbCache>>  BY <1>1, <1>2, <3>1
    <3>2. CASE crbCache = None /\ base' = {} /\ crb' = {} /\ crbCache' \in {crbCache, {}}
      BY <3>2
    <3> QED  BY <2>4, <3>1, <3>2 DEF BindingRead, SetCRB
  <2>5. CASE patchCRB  BY <1>1, <1>2, <1>4, <2>5
  <2>6. CASE Restart  BY <1>1, <1>2, <2>6 DEF Restart, api
  <2> QED  BY <2>1, <2>2, <2>3, <2>4, <2>5, <2>6, SharedSteps
<1>7. ASSUME Done(x, S)' PROVE In(crb', x)
  <2>1. CASE Done(x, S)  BY <1>2, <1>5, <2>1
  <2>2. CASE key = x /\ key' = x /\ pc \notin S /\ pc' \in S /\ ~err'
    <3>1. /\ pc \in {"sa", "cr", "crb", "patch"} /\ pc' \notin {"sa", "cr", "crb", "patch"}
          /\ err' = FALSE
      BY <2>2 DEF TypeOK
    <3>2. patchCRB
      BY <2>2, <3>1, SharedSteps, NoneApart
      DEF Apart, WatchCRB, worker, reconcileServiceAccount, reconcileCR, BindingRead, Restart, Goto
    <3>3. Seen(NS[x])  BY <1>7, <3>2 DEF Done, Alive, patchCRB, Seen
    <3> QED  BY <1>4, <3>2, <3>3
  <2> QED  BY <1>7, <2>1, <2>2, DoneBegins, SMTT(20) DEF Step
<1> QED  BY <1>6, <1>7

-----------------------------------------------------------------------------
(***************************************************************************)
(* The history.                                                            *)
(***************************************************************************)
\* What CreateOrUpdate writes for the present Egress comes from its specs.
LEMMA WroteFrom ==
    ASSUME TypeOK, CacheInv, UidInv, SeenInv, GivenInv, given \in [Egress -> SUBSET Specs],
           NEW k \in Kind, NEW x \in Egress, eg[x] # None, key = x,
           NEW o \in Object, Wrote(k, o), o.owner = uid[x]
    PROVE  From(k, o.fields, given[x])
<1>1. pc # "idle" /\ cur \in EgressObject  BY WroteObject
<1>2. cur.uid = uid[x]
  <2>1. CASE o.owner = cur.uid  BY <2>1
  <2>2. CASE obj[k][x] \in Object /\ o.owner = obj[k][x].owner
    <3>1. cur.uid <= uid[x] /\ cur.uid \in Nat /\ uid[x] \in Nat
      BY <1>1, UidType, EgressType DEF UidInv
    <3>2. obj[k][x].owner <= cur.uid  BY <1>1, <2>2, NoneApart DEF SeenInv
    <3> QED  BY <2>2, <3>1, <3>2, SMTT(20)
  <2> QED  BY <2>1, <2>2, WroteObject
<1>3. cur.spec \in given[x] /\ given[x] \in SUBSET Specs  BY <1>1, <1>2 DEF GivenInv
<1>4. CASE o.fields = Stored(k, Mutate(k, Empty))
  BY <1>1, <1>3, <1>4, EmptyType, MutateFrom
<1>5. CASE /\ obj[k][x] \in Object /\ o.owner = obj[k][x].owner
           /\ o.fields = Stored(k, Mutate(k, obj[k][x].fields))
  <2>1. obj[k][x].fields \in Fields  BY <1>5 DEF Object
  <2>2. From(k, obj[k][x].fields, given[x])  BY <1>5, NoneApart DEF GivenInv
  <2> QED  BY <1>1, <1>3, <1>5, <2>1, <2>2, MutateFrom
<1> QED  BY <1>4, <1>5, WroteObject

\* GivenInv is preserved: what is older than the present Egress has another uid.
LEMMA GivenStep ==
    ASSUME TypeOK, TypeOK', CacheInv, CurInv, UidInv, OwnerInv, SeenInv, GivenInv,
           given \in [Egress -> SUBSET Specs], HNext
    PROVE  GivenInv'
<1> SUFFICES ASSUME NEW x \in Egress, eg'[x] # None
             PROVE  /\ eg'[x].spec \in given'[x]
                    /\ egCache'[x] # None /\ egCache'[x].uid = uid'[x] =>
                          egCache'[x].spec \in given'[x]
                    /\ pc' # "idle" /\ key' = x /\ cur'.uid = uid'[x] => cur'.spec \in given'[x]
                    /\ \A k \in Kind : obj'[k][x] # None /\ obj'[k][x].owner = uid'[x] =>
                          From(k, obj'[k][x].fields, given'[x])
  BY DEF GivenInv
<1>1. [Next]_vars  BY DEF HNext, Next
<1>2. given'[x] = (IF eg[x] = None THEN {} ELSE given[x]) \cup {eg'[x].spec}
  BY DEF HNext, RecordSpecs
<1>3. ASSUME pc' # "idle", key' = x
      PROVE  \/ pc # "idle" /\ key = x /\ cur' = cur
             \/ egCache[x] # None /\ cur' = egCache[x]
  BY <1>1, <1>3, CurSteps DEF Alive
<1>4. egCache'[x] \in {egCache[x], eg[x], eg'[x]}  BY <1>1, CopySteps
<1>5. CASE eg[x] = None
  <2>1. uid[x] \in Nat /\ uid'[x] = uid[x] + 1  BY <1>1, <1>5, EgressSteps, EgressType
  <2>2. \A u : u <= uid[x] /\ u \in Nat => u # uid'[x]  BY <2>1, SMTT(20)
  <2>3. /\ egCache[x] # None => egCache[x].uid # uid'[x]
        /\ pc # "idle" /\ key = x => cur.uid # uid'[x]
        /\ \A k \in Kind : obj[k][x] # None => obj[k][x].owner # uid'[x]
    BY <2>2, UidType, EgressType, WorkerType, ObjectType DEF UidInv, OwnerInv
  <2>4. ASSUME NEW k \in Kind, obj'[k][x] # None PROVE obj'[k][x].owner # uid'[x]
    BY <1>1, <2>3, <2>4, OwnerFrom
  <2> QED  BY <1>2, <1>3, <1>4, <1>5, <2>3, <2>4
<1>6. CASE eg[x] # None
  <2>1. uid'[x] = uid[x]  BY <1>1, <1>6, EgressSteps
  <2>2. given[x] \subseteq given'[x] /\ eg'[x].spec \in given'[x] /\ eg[x].spec \in given'[x]
    BY <1>2, <1>6 DEF GivenInv
  <2>3. egCache[x] # None /\ egCache[x].uid = uid'[x] => egCache[x].spec \in given'[x]
    BY <1>6, <2>1, <2>2 DEF GivenInv
  <2>4. pc # "idle" /\ key = x /\ cur.uid = uid'[x] => cur.spec \in given'[x]
    BY <1>6, <2>1, <2>2 DEF GivenInv
  <2>5. ASSUME NEW k \in Kind, obj'[k][x] # None, obj'[k][x].owner = uid'[x]
        PROVE  From(k, obj'[k][x].fields, given'[x])
    <3>1. obj[k][x] # None /\ obj[k][x].owner = uid[x] => From(k, obj[k][x].fields, given'[x])
      BY <1>6, <2>2, FromMore DEF GivenInv
    <3>2. CASE obj'[k][x] = obj[k][x]  BY <2>1, <2>5, <3>1, <3>2
    <3>3. ASSUME NEW o \in Object \cup {None}, ObjectChanged(k, x, o), obj'[k][x] = o
          PROVE  From(k, obj'[k][x].fields, given'[x])
      <4>1. obj[k][x] # None /\ o.owner = obj[k][x].owner /\ o.fields = obj[k][x].fields
        BY <2>5, <3>3 DEF ObjectChanged
      <4> QED  BY <2>1, <2>5, <3>1, <3>3, <4>1
    <3>4. ASSUME key = x, NEW o \in Object, Wrote(k, o), obj'[k][x] = o
          PROVE  From(k, obj'[k][x].fields, given'[x])
      <4>1. From(k, o.fields, given[x])  BY <1>6, <2>1, <2>5, <3>4, WroteFrom
      <4> QED  BY <2>2, <3>4, <4>1, FromMore
    <3> QED  BY <1>1, <3>2, <3>3, <3>4, ObjectSteps
  <2> QED  BY <1>3, <1>4, <2>2, <2>3, <2>4, <2>5
<1> QED  BY <1>5, <1>6

-----------------------------------------------------------------------------
(***************************************************************************)
(* The theorems.                                                           *)
(***************************************************************************)
\* IInv is an invariant of EgressReconciler.
LEMMA InvariantInit == Init => IInv
<1> SUFFICES ASSUME Init PROVE IInv  OBVIOUS
<1>1. TypeOK  BY TypeInit
<1>2. \A e \in Egress : eg[e] = None /\ egCache[e] = None /\ \A steps : ~Done(e, steps)
  BY DEF Init, Nowhere, Done, Alive
<1>3. \A k \in Kind, e \in Egress : obj[k][e] = None /\ cache[k][e] = None
  BY DEF Init, Nowhere
<1>4. pc = "idle" /\ crb = None /\ crbCache = None /\ base = None  BY DEF Init
<1>5. CacheInv /\ CurInv /\ UidInv /\ OwnerInv /\ DeletingInv /\ SeenInv /\ FieldsInv
  BY <1>2, <1>3, <1>4
  DEF CacheInv, CurInv, UidInv, OwnerInv, DeletingInv, SeenInv, FieldsInv
<1>6. FitInv /\ RolesInv /\ BindingInv /\ SteadyInv
  BY <1>2, <1>4 DEF FitInv, Fit, RolesInv, BindingInv, SteadyInv
<1> QED  BY <1>1, <1>5, <1>6 DEF IInv

\* Every step keeps it.
LEMMA InvariantStep == IInv /\ [Next]_vars => IInv'
<1> SUFFICES ASSUME IInv, [Next]_vars PROVE IInv'  OBVIOUS
<1>1. /\ TypeOK /\ CacheInv /\ CurInv /\ UidInv /\ OwnerInv /\ DeletingInv /\ SeenInv
      /\ FieldsInv /\ FitInv /\ RolesInv /\ BindingInv /\ SteadyInv
  BY DEF IInv
<1>2. TypeOK'  BY <1>1, TypeStep
<1>3. CacheInv' /\ CurInv'  BY <1>1, <1>2, CacheStep, CurStep
<1>4. UidInv' /\ OwnerInv' /\ SeenInv'  BY <1>1, <1>2, UidStep, OwnerStep, SeenStep
<1>5. DeletingInv' /\ FieldsInv'  BY <1>1, DeletingStep, FieldsStep
<1>6. FitInv'  BY <1>1, FitStep DEF FitInv
<1>7. RolesInv' /\ BindingInv' /\ SteadyInv'
  BY <1>1, <1>2, RolesStep, BindingStep, SteadyStep
<1> QED  BY <1>2, <1>3, <1>4, <1>5, <1>6, <1>7 DEF IInv

\* So it always holds.
LEMMA Invariance == Spec => []IInv
<1> QED  BY InvariantInit, InvariantStep, PTL DEF Spec

\* HInv is an invariant of EgressReconciler with its history.
LEMMA HistoryInvariance == HSpec => []HInv
<1>1. HInit => HInv
  <2> SUFFICES ASSUME HInit PROVE HInv  OBVIOUS
  <2>1. Init /\ given = [e \in Egress |-> {}] /\ missed = {}  BY DEF HInit
  <2>2. IInv /\ TypeOK  BY <2>1, InvariantInit DEF IInv
  <2>3. \A e \in Egress : eg[e] = None /\ ~Done(e, {})
    BY <2>1 DEF Init, Nowhere, Done, Alive
  <2> QED  BY <2>1, <2>2, <2>3 DEF HInv, HTypeOK, GivenInv, StatusInv, Reported
<1>2. HInv /\ [HNext]_hvars => HInv'
  <2> SUFFICES ASSUME HInv, [HNext]_hvars PROVE HInv'  OBVIOUS
  <2>1. /\ TypeOK /\ CacheInv /\ CurInv /\ UidInv /\ OwnerInv /\ SeenInv
        /\ IInv /\ HTypeOK /\ GivenInv /\ StatusInv
    BY DEF HInv, IInv
  <2>2. [Next]_vars  BY DEF HNext, Next, hvars
  <2>3. IInv' /\ TypeOK'  BY <2>1, <2>2, InvariantStep DEF IInv
  <2>4. CASE HNext
    <3>1. given' \in [Egress -> SUBSET Specs]
      <4>1. \A e \in Egress : eg'[e] # None => eg'[e].spec \in Specs
        BY <2>3, EgressType DEF TypeOK, EgressObject
      <4>2. \A e \in Egress : given[e] \in SUBSET Specs  BY <2>1 DEF HTypeOK
      <4> QED  BY <2>4, <4>1, <4>2 DEF HNext, RecordSpecs
    <3>2. missed' \subseteq Egress
      <4>1. StatusFails => key \in Egress  BY <2>1, WorkerType DEF StatusFails
      <4> QED  BY <2>1, <2>4, <4>1 DEF HNext, HTypeOK
    <3>3. GivenInv'  BY <2>1, <2>3, <2>4, GivenStep DEF HTypeOK
    <3>4. StatusInv'  BY <2>1, <2>4, StatusStep DEF StatusInv
    <3> QED  BY <2>3, <3>1, <3>2, <3>3, <3>4 DEF HInv, HTypeOK
  <2>5. CASE UNCHANGED hvars
    <3>1. GivenInv'
      BY <2>1, <2>5 DEF GivenInv, hvars, vars, api, caches, worker
    <3>2. StatusInv'
      BY <2>1, <2>5 DEF StatusInv, Reported, Done, hvars, vars, api, caches, worker
    <3>3. HTypeOK'  BY <2>1, <2>3, <2>5 DEF HTypeOK, hvars
    <3> QED  BY <2>3, <3>1, <3>2, <3>3 DEF HInv
  <2> QED  BY <2>4, <2>5
<1> QED  BY <1>1, <1>2, PTL DEF HSpec

\* Objects, copies and the worker's variables are what they should be: what
\* Reconcile works on exists and is not being deleted, and is dropped when it
\* returns; a status is only written into an Egress that exists (Reconcile,
\* updateStatus).
THEOREM TypeAlways == Spec => []TypeOK
<1>1. IInv => TypeOK  BY DEF IInv
<1> QED  BY <1>1, Invariance, PTL

\* When nothing is left to do, Reconcile is done with every living Egress, and
\* the copies are the objects.
LEMMA QuiescentDone ==
    ASSUME IInv, Quiescent, NEW e \in Egress, Live(e)
    PROVE  egCache[e] = eg[e] /\ \A steps : Done(e, steps)
<1>1. egCache[e] = eg[e]  BY DEF IInv, CacheInv, Quiescent
<1>2. queue = {} /\ key # e  BY NoneApart DEF Quiescent, IInv, TypeOK
<1> QED  BY <1>1, <1>2 DEF Done, Live

\* Once Reconcile has nothing left to do, every Egress has its Deployment, its
\* Service, its budget and its ServiceAccount with all that its spec gives, and
\* what the spec leaves open is a default or was given by the same Egress before,
\* for any number of Egresses, any specs, any kinds that lag and any failures
\* (egress_controller.go, Reconcile).
THEOREM ObjectsAlwaysConverge == HSpec => []ObjectsConverged
<1>1. HInv => ObjectsConverged
  <2> SUFFICES ASSUME HInv, Quiescent, NEW e \in Egress, Live(e)
               PROVE  Matches(e) /\ Leftovers(e) /\ NS[e] \in sa /\ cr
    BY DEF ObjectsConverged
  <2> USE DEF HInv
  <2>1. egCache[e] = eg[e] /\ \A steps : Done(e, steps)  BY QuiescentDone
  <2>2. NS[e] \in sa /\ cr  BY <2>1 DEF IInv, RolesInv
  <2>3. ASSUME NEW k \in Wanted(e) PROVE Holds(k, e)
    <3>1. k \in Kind /\ (k = "pdb" => eg[e].spec.min \/ eg[e].spec.max)  BY DEF Wanted, Kind
    <3>2. Fit(k, e) /\ <<k, e>> \notin stale  BY <3>1 DEF IInv, FitInv, Quiescent
    <3>3. /\ obj[k][e] # None
          /\ obj[k][e].deleting \/ Fits(k, obj[k][e].fields, eg[e].spec)
      BY <2>1, <3>1, <3>2 DEF Fit
    <3>4. Owns(e, k)  BY <3>1, <3>3 DEF Quiescent
    <3>5. ~obj[k][e].deleting  BY <3>1, <3>3, <3>4 DEF IInv, DeletingInv, Live
    <3>6. Fits(k, obj[k][e].fields, eg[e].spec)  BY <3>3, <3>5
    <3>7. CASE k = "deployment"  BY <3>3, <3>4, <3>5, <3>6, <3>7 DEF Holds, Fits, Alive
    <3>8. CASE k = "service"  BY <3>3, <3>4, <3>5, <3>6, <3>8 DEF Holds, Fits, Alive
    <3>9. CASE k = "pdb"  BY <3>1, <3>3, <3>4, <3>5, <3>6, <3>9 DEF Holds, Fits, Alive
    <3> QED  BY <3>1, <3>7, <3>8, <3>9 DEF Kind
  <2>4. Leftovers(e)
    <3>1. eg[e] # None /\ eg[e].uid = uid[e]  BY DEF IInv, SeenInv, Live, Alive
    <3>2. \A k \in {"deployment", "service"} : obj[k][e] # None /\ obj[k][e].owner = uid[e]
      BY <2>3, <3>1 DEF Wanted, Holds, Owns
    <3>3. \A k \in {"deployment", "service"} : From(k, obj[k][e].fields, given[e])
      BY <3>1, <3>2 DEF GivenInv, Kind
    <3>4. obj["service"][e].fields.affinity = eg[e].spec.affinity
      BY <2>3 DEF Wanted, Holds
    <3> QED  BY <3>3, <3>4 DEF From, Leftovers, Inherited
  <2> QED  BY <2>2, <2>3, <2>4 DEF Matches
<1> QED  BY <1>1, HistoryInvariance, PTL

\* Once Reconcile has nothing left to do, the shared ClusterRoleBinding has the
\* namespace of every Egress among its subjects, for any number of Egresses and
\* namespaces and any failures; while the copy of the binding lags behind, the
\* namespaces that have lost no Egress (reconcileCRB, getNamespaces).
THEOREM BindingAlwaysConverges == Spec => []BindingConverged
<1>1. IInv => BindingConverged
  <2> SUFFICES ASSUME IInv, Quiescent, NEW e \in Egress, Live(e), "crb" \in Lag => Steady(NS[e])
               PROVE  crb # None /\ NS[e] \in crb
    BY DEF BindingConverged
  <2>1. \A steps : Done(e, steps)  BY QuiescentDone
  <2>2. CASE "crb" \notin Lag  BY <2>1, <2>2 DEF IInv, BindingInv
  <2>3. CASE "crb" \in Lag  BY <2>1, <2>3 DEF IInv, SteadyInv
  <2> QED  BY <2>2, <2>3
<1> QED  BY <1>1, Invariance, PTL

\* Once Reconcile has nothing left to do, the status of an Egress has the number
\* of available pods of its Deployment unless the last reconciliation failed to
\* write it, whatever failed before (updateStatus and the deferred call of
\* Reconcile).
THEOREM StatusAlwaysConverges == HSpec => []StatusConverged
<1>1. HInv => StatusConverged
  <2> SUFFICES ASSUME HInv, Quiescent, NEW e \in Egress, Live(e), e \notin missed
               PROVE  eg[e].status = obj["deployment"][e].report
    BY DEF StatusConverged
  <2>1. \A steps : Done(e, steps)  BY QuiescentDone DEF HInv
  <2>2. Fit("deployment", e) /\ Reported(e)  BY DEF HInv, IInv, FitInv, StatusInv, Kind
  <2>3. stale = {}  BY DEF Quiescent
  <2>4. obj["deployment"][e] # None  BY <2>1, <2>2, <2>3 DEF Fit
  <2> QED  BY <2>1, <2>2, <2>3, <2>4 DEF Reported
<1> QED  BY <1>1, HistoryInvariance, PTL
=============================================================================
