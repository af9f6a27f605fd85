# A TLA+ model of Pona

Pona gives Kubernetes pods network address translation (NAT) on demand. A user
creates an *Egress*; the Egress controller runs NAT gateways for it behind a
Service; a pod that names the Egress in an annotation gets a tunnel to that
Service and routes into it, and every gateway gets a tunnel back to the pod.

This directory has TLA+ modules of the parts of Pona that keep state, TLC
configurations that check them on small instances, and proofs, checked by TLAPS,
of the properties that matter most for every instance. `PROJECT.json` lists the
components, the runs, the lines of source each definition stands for, the
disagreements between code and documentation that were met, and the hazards the
properties are aimed at.

## The system and its parts

| Part | State | Operations | What is hard about it | Modules |
| --- | --- | --- | --- | --- |
| Pod watcher of a gateway (`internal/controller/pod_watcher.go`) | maps `podToPodIPs`, `podIPToPod`; devices and routes in the gateway's namespace | `Reconcile`, `handlePodRunning`, `handlePodDeletion` | each of several netlink calls may fail; a restart loses the maps and keeps the devices; old and new pods share addresses | `PodWatcher`, `FouTunnel`, `NatGateway`; what it promises: `TunnelService`, `PodWatcherRefinement`; `PodWatcherHistory` |
| FoU tunnels (`pkg/tunnel/fou/fou.go`) | tunnel devices by name, decapsulating devices, ports, iptables rules | `Init`, `AddPeer`, `DelPeer` | two devices per call; early return if the first exists; hashed names; `Init` is not idempotent | `FouTunnel`, `GatewayInit` |
| Gateway NAT (`pkg/nat/gateway.go`) | routes, MASQUERADE and policy rules | `Init`, `AddClient` | same | `NatGateway`, `GatewayInit` |
| Gateway process (`cmd/nat-gateway`) | none of its own | start-up | dies anywhere, starts again in the same namespace | `GatewayInit` |
| Client routing (`pkg/nat/client.go`) | table 117: rule, throw routes, routes | `Init` (with `clear`), `UpdateRoutes` | run again over what an earlier attempt left | `NatClient` |
| ponad and the CNI plugin (`internal/ponad`, `cmd/ponad`, `cmd/pona`) | the socket; the namespace of the pod | `Add`, `Del`, `Check`; start and stop | kubelet's retries, the plugin's timeout, objects that change between two reads, stops and kills | `Ponad` |
| Egress controller (`internal/controller/egress_controller.go`) | objects of the API server, caches, work queue | `Reconcile` with its six parts and `updateStatus` | lagging caches, conflicts, an Egress created again under its old name, a shared binding | `EgressReconciler`, `EgressHistory`, `PodTemplate` |
| `pona-installer` (`cmd/pona-installer`) | the plugin and a temporary file | copy, mode, sync, rename | a kill or a power loss between any two; kubelet runs whatever file it finds | `Installer` |
| The client's path | all of the above on one node, and a gateway | | two sides that never talk read the same annotation, each in its own way | `EgressPath` |
| RPC stubs, deep copies, mocks, address conversion | none | | | not modelled |

ponad reads the Egress and the Service that the Egress controller writes, and
sets up the client's end of a tunnel; the watcher of each gateway sets up the
other end on its own, from the same annotation. No part waits for another: all of
them but the installer retry until their own work is done. Each component is modelled on its own
first, with the others' effects on it as actions of its environment; `EgressPath`
then puts the parts of a node and a gateway together.

## Modules

`FouTunnel` and `NatGateway` are the network namespace as the gateway changes
it: `remote` (the device of a name and its remote end), `up`, `decap` (families
with the decapsulating device) and the routes of table 118. Their operators are
the halves of `AddPeer`, `DelPeer` and `AddClient` between which a failure can
fall. `FouName` is a constant function, so that both distinct names and
collisions can be studied.

`PodWatcher` composes them with the worker. An action is the code between two
netlink calls; `pc`, `key`, `ips` and `i` are where the worker is. `Fail` is a
failing call, `Restart` a dead container. `pod` is the informer's cache. One
worker runs, as controller-runtime has it by default, so that `linkMutex` is
never contended. `Replace` is a gateway pod that makes way for another: the new
one starts with empty maps in a new namespace, and its informer tells it of every
pod that exists.

`TunnelService` is what a gateway promises, without devices, routes, maps or
loops: `served` (addresses with a working tunnel), `owners` (the pods a tunnel is
kept for) and `due` (keys the controller owes a reconciliation).
`PodWatcherRefinement` maps the detailed state to it: a tunnel is served when
device, state and route are there, the owners are `podIPToPod`, and a key is due
while it is queued or being reconciled. Netlink calls and loop steps that complete
no tunnel stutter; `SetUp` is the step that completes one; `Serve` is the last
step of `handlePodRunning`.

`PodWatcherHistory` adds one history variable, `orphans`: the addresses whose device
an error or a death of the process has left without an owner, and that no pod has
taken up since. It restricts no step. `NoLeak` needs it to tell what the gateway
must have removed from what it cannot know of any more.

`GatewayInit` is the start of the gateway, one action per call that changes the
namespace, and `Die` between any two. It is the one place where both `Init` are
modelled in full.

`NatClient` is the routing of a client pod; `Ponad` composes it with
`FouTunnel` to `Add`, one action per netlink call or read of the API server,
with the life of the process and its socket. `CmdAddTimeout` is the plugin giving
up after a minute: kubelet makes a new sandbox while ponad is still at work on the
old one, which is `late` until it returns. A graceful stop lets a running `Add`
finish or, at the end of the grace period, cuts it off. `ft.Init` is one step there, whose
interruption may leave it half done (`fouInit`), as `GatewayInit` shows. `names`
is what `listEgress` returns; the order in which Go visits several annotations
is fixed within a behaviour, and every order is an element of `Annotations`.

`Installer` is `installPona`, one action per system call. `whole`, `exec` and
`synced` are what matters of a file. The file system is external: a rename is
atomic for whoever looks, and a power loss may leave the old or the new file under
the name (`ondisk`), and any part of a file that was not synchronised. A call that
fails ends in `"failed"`: `main` only prints the error, so that the init container
succeeds and is not run again.

`EgressPath` composes `Installer`, `Ponad` and one `TunnelService` for one client
pod. The pod's annotation is the variable both sides read: `listEgress` when
kubelet calls the plugin, `hasEgressAnnotation` in each event of the pod. A power
loss of the node takes the network namespaces, ponad and its socket with it.
Because `PodWatcher` implements `TunnelService`, the gateway's devices do not have
to be part of the composition. Two restrictions come with this. The pod keeps its
addresses when kubelet makes it a new sandbox: a pod whose addresses change is
outside what `TunnelService` promises, as `pw_v_change` shows. And of the Egresses
that a pod may name, only those in `Created` come to exist; the others are names
in its list.

`EgressReconciler` is `Reconcile`, one action per write to the API server. The
API server itself is external: it refuses to create what exists, to update from
an outdated copy, and to store a budget with both bounds; it completes a
session affinity with a default configuration. `Lag` names the kinds whose
cache may be behind; `stale` holds the objects that are newer than their cached
copies, which is all that is needed of resource versions. Caches of the kinds
outside `Lag` follow at once. A spec is a revision (everything that is copied as it
is) and the fields that are treated otherwise: strategy and annotations of the
template are copied if they are given and stay if they are not, as does the
configuration of an affinity; the bounds of the budget are set and never cleared.

`EgressHistory` adds two history variables: `given`, the specs an Egress has had
since it was created, and `missed`, the keys whose last update of the status
failed. They restrict no step.

`PodTemplate` is `reconcilePodTemplate` as a function, `Build`, in a small state
machine that changes the template and reconciles in any order.

The `MC...` modules hold the instances' constants. Operators introduced as
"Mutant of" another are faulty variants of it; each property is violated when
the variant takes the place of the original.

## Runs

`pw_` is `MCPodWatcher` (`pw_live`: `MCPodWatcherHistory`), `gi_` `MCGatewayInit`, `pd_` `MCPonad`, `ep_`
`MCEgressPath`, `er_` `MCEgressReconciler` (`er_objects`: `MCEgressHistory`), `pt_`
`PodTemplate`.

| Run | Checks | Instance |
| --- | --- | --- |
| `pw_faults` | `TypeOK`, `TunnelsMatch`, `Promised`, `Kept`, `Implements` | 2 pods, addresses of both families, every kind of failure, restarts and replacements |
| `pw_change` | `TunnelsMatch`, `NoIndexError` | 2 names whose addresses change, restarts |
| `pw_live` | `InverseIndex`, `NoLeak`, `EventuallyServed`, `EventuallyRemoved` | 2 single-stack pods, every kind of failure, restarts and replacements |
| `gi_restart` | `TypeOK`, `ServingReady`, `InitOnce`, `ServesAgain` | dual stack, up to 4 deaths |
| `pd_retry` | `TypeOK`, `AddConfigured` | up to 2 egresses, failures, timeouts and kills, retries in the same namespace |
| `ep_path` | `RoundTrip`, `PluginWhole`, `EventuallyConnected` | 1 node, 1 pod, 1 egress, 1 gateway; failing calls, timeouts, stops of ponad, failing and killed installers, power losses, new sandboxes, an annotation that comes, goes and becomes a list, restarts of the gateway |
| `er_objects` | `ObjectsConverged`, `StatusConverged` | 1 Egress, a spec that gives everything and one that leaves out what can be left out, lagging Egress and Deployment, failing updates of the status, restarts |
| `er_binding` | `BindingConverged` | 2 Egresses in 2 namespaces, lagging Egresses and binding, restarts |
| `er_live` | `TypeOK`, `EventuallyConverged` | 1 Egress, 2 revisions of a spec without a budget, lagging Service, foreground deletion, reports of the Deployment, failures |
| `pt_template` | `Idempotent`, `OneGateway` | templates with up to 2 containers |

Two more runs each check a property that the documentation states and the code
does not keep:

- `pw_v_change` (`Converged`): with names that are used again, a pod that moved
  to another address deletes the tunnel of the running pod that got its old one.
  The second loop of `handlePodRunning` does not ask `existsOtherLiveTunnels`.
- `pd_v_two` (`EventuallyAdded`): a pod with two egresses never gets its network.
  `UpdateRoutes` adds the throw routes once per egress, and the second time they
  exist.

What the less obvious properties say:

- `NoLeak`: when nothing is running or due, a device belongs to a pod that exists or
  is an orphan of an interruption. What was recorded is removed, whatever failed.
  `EventuallyRemoved` makes the same exception.
- `RoundTrip`: what `Add` has connected has its way to the gateway; and its way back
  if the annotation is now the one `docs/design.md` describes, one name, and the
  gateway has looked at the pod. The annotation may have been anything in between.
- `EventuallyConnected`: the premises are that failures and changes cease, that the
  pod stays and names at most one Egress, which exists, and that no installation
  has failed on a node without a plugin. A plugin that was killed half way, or lost
  with the power, is part of what has to come right.
- `ObjectsConverged`: the objects have all that the spec gives; a field it leaves
  open has its default or what the *same* Egress gave before, never what an
  earlier one of that name gave.
- `StatusConverged`: nothing but a failure of the last update leaves a status
  out of date.
- `BindingConverged`: with an up-to-date copy of the binding, for all living
  Egresses; with a lagging one, for the namespaces that have lost none.

### Where the properties stop

Several properties hold only within the instance their run is given, and the
next larger one breaks them. Each line names what to change in a configuration
to see it.

| Change | What breaks |
| --- | --- |
| dual-stack addresses in `pw_live` | `EventuallyRemoved`, `InverseIndex`, and `NoIndexError` with a failing `DelPeer`: after a failure at the second address every retry stops at the first, which is no longer in `podIPToPod` |
| `NoLeak` or `EventuallyRemoved` without `orphans` | a pod removed while the gateway is down keeps its tunnel, because the maps are rebuilt from the pods that exist; so does one removed after `AddClient`, or `AddPeer` at the second address, failed |
| `AddressChange = TRUE` in `pw_live` | `InverseIndex`, `NoLeak`: `handlePodRunning` leaves the pod in `podIPToPod` of the addresses it lost. Both liveness properties, and `Promised` in `pw_faults`, for the reason `pw_v_change` shows |
| a `FouName` that gives two IPv6 addresses one name | `TunnelsMatch`: `AddPeer` returns the device of the other client |
| `"kill"` in the `Faults` of `ep_path` | `EventuallyConnected`: the socket's file outlives a killed ponad, and `net.Listen` fails on it |
| `OwnEgress \in Named(annotation)` in place of `Documented(annotation)` in `RoundTrip` | a list with the gateway's Egress: `listEgress` splits the value at commas, while `hasEgressAnnotation` accepts either the bare name or a list that contains its *namespace* (`pod_watcher.go:252`); the pod is a client to ponad, and a gateway that is restarted ignores it. In `config/samples/nat-client.yaml` namespace and name are both "egress", where the two readings agree |
| `EventuallyConnected` without `step = "failed" => plugin # NoFile` | an error of `installPona` ends the init container with success, and nothing tries again before the next pod of the DaemonSet |
| `RetryInPlace = TRUE` in `ep_path` | `RoundTrip`: `AddPeer` finds the tunnel device of the attempt that was cut short and returns before the decapsulating one |
| `BindingConverged` without `Steady` | an Egress is deleted, and the reconciliation of another takes its namespace out of the binding; it is created again while the copy of the binding still has the namespace, so that the patch of `reconcileCRB` is empty |
| `StatusConverged` without `missed` | the error of a status update is logged and not returned |
| `ObjectsConverged` with `Leftovers` replaced by "open fields have their defaults" | `reconcileDeployment` copies a strategy only if there is one, `reconcilePodTemplate` only adds annotations, and a `sessionAffinityConfig` is never cleared, while `docs/design.md` (112-113) says that strategy and template are copied |
| specs with `min` in one and `max` in the other, in `er_live` | `EventuallyConverged`: `reconcilePDB` never clears the other bound, and the API server refuses both |
| `"modules"` in the `Volume` of `pt_template` | `OneGateway`: `addVolumes` and `addVolumeMounts` append `modules` to a list that has it |
| `OneGateway` without `NoSidecar` | the second loop of `reconcilePodTemplate` takes the last container that is not named "egress" for the gateway's |

`GatewayInit` shows two more in its states. A gateway that dies between
`AppendMasquerade` and `NatDummy` gets a second MASQUERADE rule. One that dies
between `FouAdd` and `FouDummy` never gets past `FouAdd` again; this is why
`ServesAgain` speaks of gateways that were set up once. And `Ponad` has no action
that brings a later change of an Egress to a pod, as the code has none, while
`docs/design.md` says that ponad watches Egress resources. The same goes for the
annotation: the gateway follows a later change of it, ponad does not, so
`RoundTrip` and `EventuallyConnected` speak of pods that `Add` has connected and
that name the Egress now. Neither says anything of a pod with two egresses, which
never gets that far (`pd_v_two`), nor `EventuallyConnected` of a ponad that was
killed once.

Two things in the source that no property can tell, because the models do not have
what would show them:

- The comment on `status.replicas` of an Egress (`egress_types.go:99`), and with it
  the CRD, says that it is copied from the Deployment's `status.replicas`;
  `updateStatus` copies `status.availableReplicas` (`egress_controller.go:548`).
  `report`, and with it `StatusConverged`, is the number that is copied.
- `addPeer6` makes its tunnel with an `Iptun` (`fou.go:244`), while the device that
  decapsulates IPv6 is an `Ip6tnl` (`fou.go:323`). Types of devices are not
  modelled. That device (`decap`) is for what comes *from* the gateways
  (`fou.go:283`), so that it matters in the namespace of a client, which is where
  `RoundTrip` asks for it.

These are statements about the models. None of them was reproduced on a cluster;
those that rest on the kernel or the API server (refused ports, routes and
budgets, default values) rest on the external definitions named in
`PROJECT.json`. What concerns the binding and the status lasts until the next
event of the Egress or the informers' periodic resync, which is left out.

### Bounds

Two pods are what it takes for one to use the address of another; two addresses
are what it takes for a loop to stop half way and for both families to matter. Two Egresses share a binding; two
creations of one Egress (`MaxUid`) make an object of the first outlive it. Four
deaths (`MaxDeaths`) reach each marker device in each family; more only repeat
what the namespace already refuses. `ep_path` has one of everything but the
prefixes: one pod has one gateway to get its answers from, and what other pods do
to its tunnel is in `pw_faults`. The second name of its list is of no Egress, since
`Add` fails for two anyway. It has one version of the plugin: `PluginWhole` says
that a plugin is complete, not which one it is, and is proved for any versions;
that an older one may stay after a failed installation is not something a
property forbids. `er_binding` has one spec, since the binding does not depend on it,
and the two of `er_live` are without a budget: a third kind of object that is deleted
in the foreground multiplies the states by four, and it is written in the way
the other two are, last of all. `er_objects` has it. `MaxLen` is two containers: the gateway's
and another. Counters of iptables rules stop at 2, "two or more". The pods are
symmetric in the runs of `PodWatcher` without liveness; no symmetry is used with
liveness.

Deadlock is checked for `Ponad`, `EgressPath` and `PodTemplate`. The other systems come to
rest when every pod or Egress of the instance has been created and removed, or
when the gateway serves.

### Fairness

- `PodWatcher`, `EgressReconciler`: a step of the worker that can be taken is
  taken (weak fairness); a queued key is reconciled although others keep coming
  back (strong fairness), because the work queue is first-in first-out. Of the
  watches some event that is under way arrives, and the garbage collector removes
  some object it has to; no order among them is assumed. Failures have no fairness, and the
  properties assume that they cease.
- `GatewayInit`: kubelet starts the container again (`restartPolicy: Always`).
- `Ponad`: a DaemonSet's container is started again, kubelet calls the plugin
  again after an error. Nothing makes objects appear; the properties assume that
  they do.
- `EgressPath`: in addition, kubelet runs the init container before ponad and
  again after a kill or a power loss, a call that timed out returns some day
  (its own calls are finite), kubelet reports the addresses, and the gateway works
  as long as it owes the pod something. The last is what `EventuallyServed` of
  `pw_live` shows of the detailed watcher. Steps that are never possible at the same
  time share one condition (`Install`, `StartPonad` and the end of a stop;
  `AddClient`, `PostIPs` and `Retry`). Outdated reconciliations, failures,
  restarts, new images and changes of the pod have no fairness.

## Proofs

All of them hold for every set of pods, addresses, families, Egresses, specs,
failures and restarts; what they assume is stated in the theorem. That kinds of
failure are excluded, that pods keep their addresses, and what is asked of specs,
annotations and volumes is needed: the table above has what breaks without it. An
invariant was checked by TLC on instances of the runs' size before it was proved.

The larger modules begin with `USE ZenonT(20)`: a leaf is left to Zenon for up to
20 seconds, and the leaves that need arithmetic, sequences or nested updates cite
`SMTT(20)`. The SMT translation gets slower with every leaf it has seen, so that
leaves Zenon can do are better left to it.

`PodWatcherProofs`:

- `TypeCorrect`: `TypeOK` is inductive as it stands, since it bounds the loop
  indices step by step.
- `TunnelsMatchAlways`, if device names are distinct. `TunnelInv` adds that a
  device is named after its remote end, and that between `AddPeer` and the end
  of `AddClient` the device exists: a device can only be deleted by the worker
  itself, which is elsewhere then.
- `NoIndexErrorAlways`, if `DelPeer` does not fail or the cluster is single-stack
  (`OneAddress`). `IndexInv` relates the two maps during each loop: while addresses
  are released, those from `i` on are still indexed. `ListsInv` says that every list
  of addresses at hand is one a pod may have, so that none is repeated and, in a
  single-stack cluster, no release is followed by another.
- `ConvergedAlways`, if device names are distinct and pods keep their addresses, from
  `ServedInv`: for each key (`KeyInv`), a
  running client is queued, being handled, or recorded with its addresses; and
  while a pod is being handled (`HandlingInv`), the addresses the loop has passed
  have their tunnels. Without the second assumption the property is false, as
  `pw_v_change` shows.

`TunnelServiceProofs`:

- `PromiseAlways` from `OwnerInv`: whoever owns an address that can be served has
  it served, and a running client that nothing is due for owns its addresses.

`PodWatcherRefinementProofs`, if device names are distinct and pods keep their
addresses:

- `ImplementsAlways`: every step of `PodWatcher` is a step of `TunnelService` or
  changes nothing it sees. `ServedInv` gives that recorded addresses have their
  tunnels; `StepInv` adds what single steps need: `podIPToPod` names no pod that
  `podToPodIPs` does not have, the addresses the deletion loop has passed are
  released, and a pod that is handled as running still is a running client unless
  its key is queued again.
- `PromisedAlways` and `KeptAlways` follow for the detailed watcher. Neither is
  proved about its devices and loops again: they are theorems of `TunnelService`
  that the refinement carries over.
- `InverseIndexAlways`, with the further assumption of `NoIndexErrorAlways`:
  `IndexInv` is one direction and `StepInv` the other.
- `NoLeakAlways`, whatever fails or dies. `LeakInv`: a device has an owner in
  `podIPToPod`, or is an orphan, or `handlePodRunning` is at work on the list its
  address is in and has come as far. An owner exists or is about to be removed, which
  is `Kept`: here the theorem about `TunnelService` serves a property of the devices.

`GatewayInitProofs`:

- `TypeAlways`.
- `ServingReadyAlways`, `InitOnceAlways` from `ReadyInv`: a marker device, and
  the step that adds it, come after everything it stands for, and while an
  `Init` runs the families it has left behind are done.

`PonadProofs`:

- `AddTyped`.
- `AddConfiguredAlways`, if device names are distinct. `AddInv` describes the
  namespace at every step of `Add`: what earlier attempts may have left (`Left`),
  how much of it `clear` has removed and `Init` has added (`Opening`), how far the
  first egress is (`Round`), and that a second one ends with an error, because the
  throw routes exist, so that success means one egress (`Rounds`). It is needed
  because a retry starts from what any of these steps has left.
- `AddDecapAlways`, if device names are distinct and every attempt gets a new
  sandbox: there is no tunnel device when `AddPeer` begins, so that it does not
  return early, and from its end on the decapsulating device exists (`DecapInv`).

`EgressPathProofs`:

- `PluginWholeAlways`, of the installer on its own, from `DiskInv`: the temporary
  file has by each step what the steps before it have done, so that what is renamed
  is whole, executable and synchronised, and so is everything a power loss may leave
  under the name.
- `PathPluginWhole`: the installer keeps its promise within the composition.
- `RoundTripAlways`, if device names are distinct and every attempt gets a new
  sandbox. The proof puts the others together: the composition's steps are steps of
  `Ponad` (`AddInv`, `DecapInv`) and of `TunnelService` (`Promise`), and `Linked`
  says that the gateway judges the pod by its present annotation, which
  `hasEgressAnnotation` accepts if it is the documented one.

`EgressReconcilerProofs`, all from one inductive invariant, `IInv`:

- `TypeAlways`.
- `BindingAlwaysConverges`. `BindingInv` is for a copy of the binding that is never
  behind; for one that lags `SteadyInv` says that a namespace, once bound, is not
  taken out before one of its Egresses is deleted.

and, with `HInv`, which adds the history to it,

- `ObjectsAlwaysConverge`. `GivenInv` says that the fields of an object were given by
  the Egress that owns it, or are defaults.
- `StatusAlwaysConverges`. `StatusInv` excepts the keys in `missed`.

None of them assumes anything of specs, lagging caches or failures.

The argument is that of a level-triggered controller. `Done(e, steps)` says that
Reconcile has seen to `e` as far as `steps` and has no reason to come back: the key
is not queued and, if it is at hand, no call has failed. `FitInv`, `RolesInv`,
`BindingInv` and `StatusInv` say that then the object, the roles, the binding and
the status are as the *copy* of the Egress says. A step can only disturb them by
changing an Egress, its copy or an object, and each of these either queues the key or
leaves the copy known to be stale (`EgressNoticed`, `ObjectNoticed`, `CopyNoticed`),
which in turn queues it later; a step that makes an Egress done has just written the
object, or found nothing to write (`DoneBegins`). What this rests on:

- `CacheInv`: a copy not known to be stale is the object. An update from a stale
  copy is refused, so what is written was computed from the object itself.
- `CurInv`: Reconcile works on the present copy of the Egress, unless the key is
  queued again.
- `UidInv`, `OwnerInv`, `DeletingInv`: an object that is being deleted is not owned
  by a living Egress, as one that is created again gets a new UID. This is why
  an object that is there when all is quiet stays.
- `FieldsInv`: the API server has completed what it stores, so that what is written
  and then read back does not differ from the spec for ever.

At rest nothing is stale and nothing is queued, and the copies are the objects.

The proof first sums up the actions (`StepSummary`, `StepStore`): user, garbage
collector and Deployment controller change one Egress or one object; a watch updates
one copy; `CreateOrUpdate` leaves, fails or writes. The invariants are then proved
for these kinds of steps.

`PodTemplateProofs`:

- `IdempotentAlways`, from `BuildTwice`: only the annotations depend on what the
  Deployment has, and they are a union.
- `OneGatewayAlways`, if no user's volume is named `modules`; `addVolumes` looks for
  `run` only. A template without sidecars has at most one container, as names are
  distinct, so that both loops of `reconcilePodTemplate` agree on it, and `env`
  starts from the user's own.

Only model-checked: every liveness property (`EventuallyServed`, `EventuallyRemoved`,
`ServesAgain`, `EventuallyConnected`, `EventuallyConverged`),
because fairness is outside the prover's reach. Every invariant and the refinement
that a passing run checks are also proved.

## What is not modelled

- Packets. The properties speak of devices, routes and rules, not of traffic.
- Parsing and the errors of malformed input (one more failing call), logging,
  metrics, probes, flags. This is what is left of the gateway's process and of the
  Egress API, whose types have no behaviour of their own.
- Two calls of `Add` in the same namespace at once. kubelet makes a new sandbox
  for every attempt. ponad itself would not keep them apart.
- Temporary files that a killed installer leaves behind: nothing reads them.
- More than one gateway (each of them is alone with the pods it sees), more than
  one worker, two Egress controllers at once (leader election is the manager's).
- `natClient.IsInitialized`, which nothing calls and which changes nothing.
- Generated code (RPC stubs, deep copies), mocks and test utilities, and the
  conversion between two address types, which has no state.
