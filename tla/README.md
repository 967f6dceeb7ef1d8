# Verification of the NVIDIA GPU add-on operator

TLA+ models of the operator in this repository, the TLC configurations that
check them on small instances, and proofs that TLAPS checks. Paths below are
relative to the root of the repository.

## 1. The system

The operator is an OpenShift add-on. It installs the NVIDIA GPU operator with
what that needs (node feature discovery, an OLM subscription, a ClusterPolicy,
a console plugin), removes all of it, itself included, when asked to, and keeps
a monitoring stack beside it.

| component | source | state it keeps | operations |
|---|---|---|---|
| GPUAddon controller | `controllers/gpuaddon/gpuaddon_controller.go` | finalizer and status of GPUAddon resources | `Reconcile` (install branch, removal branch), `patchStatus` |
| NFD reconciler | `nfd_resource_reconciler.go` | the NodeFeatureDiscovery resource | `Reconcile`, `Delete` |
| Subscription reconciler | `subscription_resource_reconciler.go`, `defaults.go`, `metrics.go` | the OLM Subscription, the GPU operator's CSV, the gauge | `Reconcile`, `Delete` |
| ClusterPolicy reconciler | `clusterpolicy_resource_reconciler.go` | the ClusterPolicy | `Reconcile`, `Delete` |
| ConsolePlugin reconciler | `consoleplugin_resource_reconciler.go` | Deployment, Service, ConsolePlugin, the Console's plugin list | `Reconcile`, `Delete`, `patchClusterConsole` |
| OpenShift version | `internal/common/common.go` | none | `GetOpenShiftVersion`, `IsOpenShiftVersionAtLeast` |
| ConfigMap controller | `controllers/configmap` | none | lists the GPUAddons and deletes one when the ConfigMap of the add-on appears |
| Monitoring controller | `controllers/monitoring` | ConfigMap, Service, Prometheus, Alertmanager, AlertmanagerConfig | `Reconcile` in that order, `removeOwnedResources` in the other |
| start-up | `main.go` | none | `jumpstartAddon`, `jumpstartMonitoring`, the ClusterPolicy watch |
| controller-runtime | `vendor/sigs.k8s.io/controller-runtime` | work queue, caches | one worker per controller, retry on error, watch handlers |

The components share no memory. They interact through objects of the API
server: a write becomes a watch event, the event reaches a cache some time
later, and its handler puts a request on a queue. Everything `Reconcile` reads
comes from a cache; everything it writes goes to the API server. The ConfigMap
controller and the GPUAddon controller meet in the GPUAddon resource, which one
deletes and the other cleans up after. The Monitoring controller meets neither.

What is hard in this code:

* **Interleaving.** A pass is up to a dozen API calls. Users, OLM, other
  operators and a second GPUAddon act between any two of them.
* **Stale copies.** A pass may begin with a copy of the GPUAddon from before its
  deletion request; a status patch sends only the difference to an old copy; the
  list of console plugins is replaced as a whole; an object of the monitoring
  stack may be an earlier Monitoring resource's, whose name is the same.
* **Ordering on removal.** Operands in reverse order, then the operator's own
  CSV, then the finalizer; objects that linger on finalizers of others must be
  waited for by failing and being retried.
* **A kind that comes late.** The ClusterPolicy CRD is brought by the GPU operator
  that the Subscription installs; until then calls on a ClusterPolicy fail.
* **Partial failure.** A call that fails may have had its effect.
* **Crashes.** Queue, caches, the pass and the gauge are lost; start-up creates
  the GPUAddon and the Monitoring resource again.
* **Lost wake-ups.** Only certain events of certain kinds wake a controller;
  Secrets, the ClusterVersion and the Console wake none.

What makes it correct: nothing is left on the cluster once a GPUAddon is gone;
the operator removes itself last, and only when asked to; a pass never creates
operands for a GPUAddon that can vanish under it; whatever others do, the
controllers come to rest only with their objects, the status and the metric
right; installation and removal get done; the alerting configuration never goes
out without the address entry of the Secret (the code checks that it is there, not
that it is not empty), and in the end has the one in the Secret. `PROJECT.json` lists each
hazard at its line of code, with the properties that cover it or the reason why
none does.

## 2. Modules

| module | models |
|---|---|
| `KubeObjects` | an object as the API server keeps it; deletion; `CreateOrPatch` and `SetControllerReference` on a possibly outdated copy |
| `AddonStatus` | conditions of the reconcilers and the phase `patchStatus` derives from them |
| `ClusterVersion` | version history, first completed entry, compatibility matrix |
| `GPUAddonController` | the controller, its work queue and caches, the process, OLM and the users: Init, one action per API call, Next, Spec, FairSpec, PatientSpec |
| `GPUAddonProperties` | type invariant, safety, properties at rest, liveness, the claims the code does not keep, the inductive invariants |
| `ConsoleEntry` | `GPUAddonController` with a history variable for the add-on's entry in the list of the Console, which others may drop |
| `AddonLifecycle` | abstract specification: what the add-on promises, with no queue, caches, passes or failures |
| `LifecycleRefinement` | the refinement mapping from `GPUAddonController` to it |
| `ConfigMapController` | ConfigMaps, their events, the List and the Delete call; works on the variables of `GPUAddonController` |
| `AddonOperator` | both controllers in one process |
| `MonitoringController` | the Monitoring controller, its stack, Secrets, garbage collection |
| `MonitoringProperties` | its type invariant, safety, properties at rest, liveness, inductive invariant |
| `MCGPUAddon`, `MCConsoleEntry`, `MCAddonOperator` | values for TLC |
| `GPUAddonProofs` | proof of the type invariant, what each action does to the types |
| `GPUAddonSafetyProofs` | proof of the inductive invariant and of what follows from it |
| `OperandProofs` | owners of operands, the version gate of the plugin, plugins of others |
| `LifecycleProofs` | proof of the refinement |
| `RestProofs` | the properties at rest: no wake-up is lost |
| `EntryProofs` | the entry in the list of the Console |
| `AddonOperatorProofs` | refinement and properties at rest with the ConfigMap controller, and its own safety |
| `MonitoringProofs` | safety of the Monitoring controller, and its properties at rest |

Definitions named `...Without...`, `...Forgotten`, `...Alone` and the like, each
under a comment that begins with "Mutant", are wrong variants of the definition
that follows. They are not used by the specification. Substituting one for its
definition must make a property fail.

### The GPUAddon controller: state

| variable | in the code |
|---|---|
| `cr`, `obj`, `console`, `history` | GPUAddons, operands and CSVs, the list in the Console, the ClusterVersion, as the API server has them |
| `policyKind` | the CRD of the ClusterPolicy exists |
| `crSeen`, `seen`, `consoleSeen` | the same resources in the caches of the manager's client |
| `stale` | GPUAddons whose cached copy has an old resource version |
| `news` | requests the handlers will add when the undelivered events of an object arrive |
| `queue` | the deduplicating work queue |
| `pass` | the `Reconcile` call under way: which call is next (`mode`, `step`), the in-memory GPUAddon (`loc`) and whether its resource version is old (`stale`), the conditions collected, the error (`failed`), the `deleted` slices (`left`) |
| `installed` | the gauge `nvidia_gpuaddon_gpu_operator_subscription_installed` |
| `pod` | the operator process |
| `plan` | an OLM install plan under way |
| `edits`, `faults`, `crashes` | counters of the bounds |

An object is reduced to four fields: absent, live or terminating (`st`); its owner; which
desired state it carries; and whether its own controller reported it as done. A
GPUAddon keeps its finalizer, `console_plugin_enabled`, phase and conditions.

### The GPUAddon controller: actions

* The worker: `StartReconcile`, `StartRemoval`, `NothingToDo`, `GetFails` are the
  ways `Reconcile` begins.
* The install branch: `RegisterFinalizer`, `ReconcileOperand(k)` for each object,
  `ReconcileSubscription`, `SubscriptionPanics`, `EnterConsolePlugin`,
  `DisableOperand(k)` for the disabled plugin, `PatchClusterConsole`,
  `PatchStatus`.
* The removal branch: `RemoveOperand(k)`, `RemoveGpuCsv`, `RemoveSelfCsv`,
  `RemoveFinalizer`.
* Each has, besides its outcome in the code, the outcomes of a failing call: with
  and without effect.
* Caches and handlers: `SyncAddon`, `SyncObject`, `SyncConsole`, `Resync`.
* The process: `Jumpstart`, `StartManager`, `Crash`, `OperatorRemoved`.
* The cluster: `PlanInstall`, `InstallGpuOperator` (which also brings the kind
  ClusterPolicy), `FinishTermination`, `UpgradeCompletes`.
* Users and others: create, delete, toggle, touch a GPUAddon; edit or delete an
  operand; start an upgrade. Another operator that adds its console plugin replaces
  the list of the Console as this one does, by a copy that may be late: any entry
  that is missing from the copy, the add-on's among them, is lost.

Simplifications, all stated in the header of the module: the cached reads before
a `CreateOrPatch` and the write are one step; a resource version is abstracted to
whether a copy is the newest; the ClusterVersion is read without lag; the events
of one object that are under way arrive together, but every request they cause is
kept. Back-off times are left out, so a retry may come at any time. Polling for
the CRD is not a step of its own: the watch on the ClusterPolicy begins with the
kind.

### The ConfigMap controller

`configMaps` are the ConfigMaps of the namespace, `request` the queue (all requests
have one name), `todo` the GPUAddons a call of `Reconcile` has listed. The event
filter is `isAddonConfigMap`; `ListAddons` reads the cache that the GPUAddon
controller also reads. `deleteGpuAddonCr` leaves its loop when
`err != nil || !k8serrors.IsNotFound(err)`, which holds for every `err`, so
`DeleteAddon` ends the call after one Delete, and a NotFound, which a late cache
can cause, is an error that is retried. `asked` is a history variable. `AddonOperator`
lets a step of the GPUAddon controller that ends or starts the process take
`request` and `todo` with it (`FollowProcess`).

### The Monitoring controller

`mon` is the Monitoring resource, `obj` its stack, `secrets` what the Secrets of
PagerDuty and of the dead man's snitch hold together: a URL, or nothing usable.
`pass.url` is the URL read by the pass. The code gives the resource no finalizer: deleted
in the background it is gone at once, in the foreground it terminates until its
dependents are gone, and only then does `removeOwnedResources` see a deletion
timestamp. Kubernetes collects objects by the UID of their owner, while
`SetControllerReference` compares names; a resource has its UID as a number that
grows with each creation. Secrets are not watched.

Simplifications: objects of the stack do not linger; the two Secrets are read in
one step; the desired contents of an object are one value, but for the URL.

### AddonLifecycle

Each GPUAddon is absent, live or terminating (`life`), and possibly `registered`
(it has the finalizer); operands are `deployed` or not; the add-on itself is
`installed`. It promises: operands are deployed only while some GPUAddon is
registered; a deletion of a registered GPUAddon is a request to be granted; the
add-on removes itself only for a registered GPUAddon whose deletion was requested,
when nothing is deployed; it releases the GPUAddon after that. The mapping forgets
passes, queue, caches and status, and reads the rest off the cluster.

## 3. What is checked

The sizes are of the complete state space.

| run | instance | distinct states | properties |
|---|---|---|---|
| `Uninstall` | NFD and Subscription linger; late copies of the GPUAddon and the add-on's CSV; ClusterPolicy kind known or not at first; 1 edit, 1 fault, 1 crash | 1.2 M | `TypeOK` `NoOrphans` `OwnersHold` `PassIsProtected` `IInv` `StatusAtRest` `SelfCsvLast` `ImplementsLifecycle` |
| `TwoAddons` | two GPUAddons; late copies of one and of NFD; 2 edits | 1.3 M | `RemovalJustified` `OwnersHold` `NoOrphans` `OwnerNotStolen` `ImplementsLifecycle` |
| `Restore` | fair; NFD and Subscription edited or deleted by others; late copy of NFD; ClusterPolicy lingers, its kind comes late; 1 edit, 1 fault, 1 crash | 0.08 M | `OwnedOperandsRestored` `GaugeAtRest` `SteadyInv` `UninstallProgresses` `EventuallyReady` |
| `ConsolePlugin` | plugin switched off and on; another operator replaces the list; late copies of Service and Console; 3 edits, 1 crash | 1.8 M | `DisabledPluginGone` `PluginRegistered` `OwnedOperandsRestored` `SteadyInv` `EntryInv` `OnlyUnseenPluginsLost` |
| `Upgrade` | fair, with resyncs; empty history, installing, 4.9, 4.10, 4.11; upgrades; ClusterPolicy and ConsolePlugin edited or deleted, the plugin list of the Console replaced by another operator; kind unknown at first; late copy of the Console; 2 edits | 0.09 M | `PluginNeedsVersion` `StatusAtRest` `RestInv` `EventuallyRestored` |
| `Operator` | both controllers; fairness for the ConfigMap controller and the restart only; another ConfigMap; late copy of the GPUAddon; 2 edits, 1 fault, 1 crash | 0.2 M | `CMTypeOK` `DeletedOnlyIfAsked` `ImplementsLifecycle` `RequestKept` `RequestHonoured` |
| `Monitoring` | two URLs; the alerting configuration edited or deleted; late copies of it and of the Monitoring resource; 2 edits, 1 fault, 1 crash | 0.4 M | `SnitchHasURL` `IInv` `StackRestored` `NothingLeft` `OwnerNeverGoesBack` `MetricsComeUp` `AlertsFollowSecrets` |

`IInv`, `RestInv`, `SteadyInv` and `EntryInv` are the inductive invariants of section 4. They are
checked so that the proofs do not rest on a formula TLC could refute, and they say more
than the properties derived from them: what is true of the controller in each state
between two rests.

`CHECK_DEADLOCK` is off because the system does stop: once the operator is
removed, or at rest with every bound used up, nothing happens any more.

### Bounds

* `MaxEdits` = 2 or 3 lets one actor undo or overtake what another did (delete and
  re-create, toggle twice, edit during the pass that repairs an earlier edit). The
  properties at rest relate a last edit to the pass that misses it; one more edit
  only repeats the situation from another start. In `Uninstall` and `Restore` the one
  edit meets a fault and a crash instead; what several edits do to the operands at
  rest is in `ConsolePlugin`, and in the proofs for any number of them.
* `MaxFaults` = 1 and `MaxCrashes` = 1: each pass starts over, so a second failure
  finds the controller in a situation the first one already reached.
* `Lagging` names what the caches may be late about. For everything else the cache
  catches up before the next step (`Prompt`). Being late about all of nine objects
  at once is out of reach; each run lags what its question is about. The proofs have
  no such limit: they hold for every `Lagging`.
* In `Operator` the cluster reports no version, so that the installation ends at the
  Subscription: the question is about the ConfigMap controller, and its steps, the
  deletions and the deaths of the process interleave with the passes all the same.
* `Resyncs` lets the informers repeat their events at rest, as they do each ten
  hours. It is off where a property at rest would be repaired by it.
* `Lingering`, `Contended`, `Histories`, `Versions`, `PolicyKinds`, `OtherPlugins`,
  `ConfigMaps`, `URLs` choose which of the environment's behaviours a run includes.

### Fairness

`FairSpec` assumes: the worker does not stop inside a pass; a request in the queue
is taken in the end (strong fairness, since the worker is busy now and then; the
queue is first in, first out); watches deliver; the pod is restarted when it died
(its Deployment) and removed when its CSV is gone (OLM); other controllers finish
terminations, install plans and upgrades they have begun (strong, since the bound
`Prompt` disables them for a step now and then). `PatientSpec` adds that informers
resync again and again. `FairOperatorSpec` assumes only that the worker of the
ConfigMap controller goes on and that a dead process is restarted: that a request is
honoured does not depend on the GPUAddon controller. `FairSpec` of the
Monitoring controller is the same as that of the GPUAddon controller: passes go on,
requests are taken, watches deliver, the informer resyncs, the process is restarted,
garbage is collected. Nothing is assumed of users, faults or crashes.

### Where the code does not do what the repository says

| run | property | what happens |
|---|---|---|
| `FinalizerStuck` | `FinalizerReleased` | The operator deletes its own CSV before it removes the finalizer. If OLM is faster, or the update of the GPUAddon fails, the finalizer stays: each retry fails because the CSV is not found, and then there is no operator. |
| `MissingKind` | `CsvDeletedInTheEnd` | A GPUAddon deleted before the GPU operator brought the kind ClusterPolicy: each removal pass fails on the Delete of the ClusterPolicy with an error that is not a NotFound, before it gets to anything else, and nothing installs the GPU operator any more if its Subscription was not created yet. |
| `SpecKept` | `SpecChangedByEditsOnly` | Adding the finalizer to a GPUAddon with the console plugin disabled enables it: false is not serialised and the default of the CRD is true. |
| `PolicyDrift` | `ClusterPolicyRestored` | An edited or deleted ClusterPolicy is not restored: its watch enqueues the ClusterPolicy's own name. `EventuallyRestored` shows that the next resync repairs it. |
| `UnknownVersion` | `EventuallyReported` | On a version that is not in the compatibility matrix the index -1 panics in every pass, before the status is written: the GPUAddon is never Ready and never Failed. |

Other points met on the way are in the notes of the hazards.

## 4. What is proved

For all GPUAddons, ConfigMaps, URLs, lingering and contended objects, histories,
versions, cache lag and bounds, from the named assumptions of the modules only
(`ObjectsAssumption`, `ControllerAssumption`, `ConfigMapAssumption`,
`MonitoringAssumption`: finite set of names, names that do not clash, constants
of the right type). Two hypotheses occur besides: `OwnersStay` assumes that no owned
operand is contended, and the theorems on `SteadyInv` and `EntryInv` assume `NoUpgrade`, that the version of the
cluster stays as it is; both are explained below.

| module | theorem | statement |
|---|---|---|
| `GPUAddonProofs` | `TypeCorrect` | `Spec => []TypeOK` |
| `GPUAddonSafetyProofs` | `IInvInvariant` | `Spec => []IInv` |
| | `NothingOrphaned` | `Spec => []NoOrphans` |
| | `OwnersOutliveOperands` | `Spec => []OwnersHold` |
| | `PassesProtected` | `Spec => []PassIsProtected` |
| | `SelfCsvGoesLast` | `Spec => SelfCsvLast` |
| `OperandProofs` | `OwnersStay` | `Spec => OwnerNotStolen`, if no owned operand is contended |
| | `PluginOnSuitedVersion` | `Spec => []PluginNeedsVersion` |
| | `OnlyUnseenLost` | `Spec => OnlyUnseenPluginsLost` |
| `RestProofs` | `RestInvariant` | `Spec => []RestInv` |
| | `StatusTellsOutcome` | `Spec => []StatusAtRest` |
| | `GaugeTellsSubscription` | `Spec => []GaugeAtRest` |
| | `SteadyInvariant` | `Spec /\ NoUpgrade => []SteadyInv` |
| | `OperandsRestored` | `Spec /\ NoUpgrade => []OwnedOperandsRestored` |
| | `DisabledPluginGoes` | `Spec /\ NoUpgrade => []DisabledPluginGone` |
| `EntryProofs` | `EntryInvariant` | `EntrySpec /\ NoUpgrade => []EntryInv` |
| | `PluginIsRegistered` | `EntrySpec /\ NoUpgrade => []PluginRegistered` |
| `LifecycleProofs` | `RemovalsJustified` | `Spec => []RemovalJustified` |
| | `LifecycleImplemented` | `Spec => ImplementsLifecycle` |
| `AddonOperatorProofs` | `OperatorImplementsLifecycle` | `OperatorSpec => ImplementsLifecycle` |
| | `OperatorTypeCorrect` | `OperatorSpec => []CMTypeOK` |
| | `OperatorDeletesOnlyIfAsked` | `OperatorSpec => DeletedOnlyIfAsked` |
| | `OperatorKeepsRequests` | `OperatorSpec => RequestKept` |
| | `OperatorStatusTellsOutcome` | `OperatorSpec => []StatusAtRest` |
| | `OperatorSteadyInvariant` | `OperatorSpec /\ NoUpgrade => []SteadyInv` |
| | `OperatorOperandsRestored` | `OperatorSpec /\ NoUpgrade => [](OwnedOperandsRestored /\ DisabledPluginGone)` |
| | `OperatorInvariant` | `OperatorSpec => []IInv` |
| | `OperatorCsvGoesLast` | `OperatorSpec => SelfCsvLast` |
| `MonitoringProofs` | `MonitoringInvariant` | `Spec => []IInv` |
| | `SnitchAlwaysHasURL` | `Spec => []SnitchHasURL` |
| | `OwnersGoForward` | `Spec => OwnerNeverGoesBack` |
| | `StackAlwaysRestored` | `Spec => []StackRestored` |
| | `NothingStays` | `Spec => []NothingLeft` |

**Nothing orphaned.** `NoOrphans` is not inductive. It says that an operand implies
a finalizer, but the finalizer is removed by a pass whose decision is many calls
old. The argument:

1. *Copies* (`CopiesCurrent`): a cached or in-memory copy not marked stale is the
   newest one; `RemoveFinalizer` and `RegisterFinalizer` write only with such a copy.
2. *What an old copy still says* (`CacheBoundsFinalizer`): a finalizer seen on a
   live GPUAddon is still there, because only a removal pass removes it, there is one
   worker, and that pass ends as it does so. Conversely, a GPUAddon seen as
   terminating is not live with the finalizer now: to be that it would have to be
   created anew and registered by a pass, which would have needed a newer copy.
3. So an installing pass past its finalizer step works for a GPUAddon that still has
   it (`PassIsProtected`), and no removal pass works for one that is live with a
   finalizer (`RemovalIsExclusive`).
4. *Accounting* (`RemovalAccounted`): every object a removal pass has been through is
   gone, or noted in `left`, or held by a finalizer of another controller. Nothing
   re-creates it meanwhile, because the only worker is the one removing. At the last
   step `left` is empty, so every awaited operand is gone.
5. Hence `NoOrphans` and `OwnersHold` survive `RemoveFinalizer`, and `RemoveSelfCsv`
   finds nothing awaited (`SelfCsvLast`).

`IInv` is the conjunction of `TypeOK`, `ResourcesOK`, `ObjectsOK` and
`RemovalAccounted`, and an invariant of the run `Uninstall`. The proof modules have one
lemma for each action, or each group of actions that change the same variables.

`Awaited` leaves out a Subscription that lingers: `Delete` of the Subscription
reconciler reports it as deleted when the cache has no CSV of the GPU operator, even
if it is still terminating.

**The refinement.** Most of `StepMaps` is `IInv` read through the mapping. What it
needs besides is that the add-on removes itself for a GPUAddon whose deletion still
stands. `Leaving(a)`: a GPUAddon that was deleted keeps its finalizer until the add-on's
own CSV goes, so the removal that an old copy asks for is still justified
(`RemovalJustified`). With the ConfigMap controller every step is one of the GPUAddon
controller or changes of the mapped state only the life of one GPUAddon, by a deletion:
a `Request` step. `IInv` holds of the composition by the same lemmas.

**Operands.** A pass gives an object an owner only if its copy had none or the same one
(`AlreadyOwnedError`), and the copy may be old. `OwnersKnown` says that an owned operand
that is there, and any copy of one, names a GPUAddon: so a copy without an owner is a
copy of nothing, and the Create is refused where the object exists by now. This is false
once somebody drops an owner reference, whence the assumption that no operand the
controller owns is contended. For `PluginNeedsVersion` a deployed plugin, and a pass about to deploy
it, imply that some entry of the history is completed and suited; that
`GetOpenShiftVersion` finds the first such entry needs a least index, which the
well-founded order of the naturals gives.

**At rest.** The properties at rest say that no wake-up is lost. They are not inductive
for an obvious reason: they speak of moments when nothing is under way, and every step
of the controller is taken when something is. The invariant is about one GPUAddon at a
time. `Awake(a)`: another pass for `a` is on its way, because `a` is in the queue, an
undelivered event will put it there, or the pass under way is going to return an error.
A live GPUAddon that is not awake, while the operator runs, is asleep. `RestInv` says what
holds of a GPUAddon that is asleep, and which of it the pass under way may still have to
come to (`Before`). The steps of the argument:

1. *Sleep begins only with the start of a pass* (`AsleepSteps`). A step of anybody
   that writes `a` or an object owned by `a`, before or after the write, leaves an event for
   `a` (`WritesWake`, `ChangesAnnounced`), the end of a pass with an error puts it back
   into the queue, and a start of the process finds it as a create event. So in every other
   step `a` was asleep before, and it and its objects are what they were (`Undisturbed`).
2. *What the controller knows of a sleeper is true* (`AsleepKnown`). Copies that
   differ are announced (`EventsKept`), so for `a` they do not; a pass with an old copy of `a`
   would be followed by another (`PassInformed`).
3. *A write for the owner it gives either wakes the controller or has found everything in
   place* (`AcceptedSettles`). `CreateOrPatch` changed nothing, since a change would have
   waked `a`; so the object is `a`'s and as desired. This holds for the owned kinds and not for
   the ConsolePlugin or the ClusterPolicy, which is why those are only in
   `EventuallyRestored`.
4. *A pass that ends without an error has been through all reconcilers* (`PassReports`),
   and its status patch leaves Ready (`StatusConcludes`): sent as a difference to its copy,
   and the copy is the newest. If the patch changes anything, `a` is awake again.
5. *Two GPUAddons.* The pass for another one must not undo what `a` rests with. It
   cannot get past the NFD resource that `a` owns (`HasTheFloor`): that reconciler is
   the first of the list, so it fails there with `AlreadyOwnedError`, and nothing
   further down the list is touched, the gauge included. A removal pass for another one
   deletes what `a` owns, and by that wakes `a`.

`RestInv` has the consequences that need no hypothesis: status and gauge. `SteadyInv` adds
the contents of the operands and the disabled plugin. What is
wanted there depends on the version of the cluster, of whose change no event tells the
controller; right after an upgrade it is at rest with an old channel and no plugin. So
these theorems assume `NoUpgrade`: `GetOpenShiftVersion` returns the same as before in
each step, from any history, also one with an upgrade under way. With upgrades the
promise is `EventuallyRestored`, by the resync. `SteadyInv` holds by the same
steps; for `DisabledPluginGone` it follows the disabled branch object by object, as a Delete
of something that is gone wakes nobody and its failure is returned to nobody.

**The list of the Console.** An enabled plugin also needs its entry in the list of the
Console, and there the argument above ends: other operators replace the list too,
possibly by a copy from before the entry was added, and the Console is not watched. The
controller can rest without the entry. `ConsoleEntry` adds the history variable
`overlooked`, which is true from a step that takes the entry out until a pass meets a
copy of the list without it. `EntryKept`: a copy that shows the entry is right, or the
entry was dropped. `EntrySettled`: a GPUAddon that is asleep has its entry, or lost it
since, or its pass has the Console still to come. So nothing this operator does, no
late copy, lost call or crash, leaves the entry out for good (`PluginRegistered`); what
others drop after the last look is back with the next pass, at the latest with the
resync (`EventuallyRestored` in `Upgrade`).

**Both controllers.** With the ConfigMap controller, `Audible` is all that has to be known of it: it changes
nothing but GPUAddons, each with an event. Of its own requests, `RequestKept` says that
while the ConfigMap is there none is dropped but with an empty list or a deletion that
is accepted: by cases on its steps, and because a death of the process leaves it
`Wanted`, the start being a create event of the ConfigMap.

**The Monitoring controller.** There is one worker, and it takes its UID from the cache
when a pass begins; the UIDs of the cache only grow. So no object is owned by a later
UID than the one worked for now (`ErasOK`), and a write never hands
an object back. A pass past the Secrets has a URL (`URLChecked`). At rest: an object of
the stack that is not as desired implies a request, an event, or a pass for the present
resource that has the object still `ToCome` (`NoneForgotten`); a write that does change
something makes an event for the owner it sets, and one that changes nothing has found
the object in place, provided the copy was late only as `CopiesKnown` allows. For
`NothingLeft`, an object without an owner was cut loose by somebody
(`LooseByOthers`). Its first version said that such an object has contents of somebody
else. TLC found that true on the run's bounds; the proof attempt did not go through,
and with three edits TLC has the reason: a late copy shows the object edited but still owned, the owner reference is
dropped meanwhile, and `CreateOrPatch` sends the contents, which differ from the copy, and
not the owner reference, which does not. If the Monitoring resource is deleted now,
the object stays.

**Only model-checked.** The liveness properties (`UninstallProgresses`,
`EventuallyReady`, `EventuallyRestored`, `RequestHonoured`, `MetricsComeUp`,
`AlertsFollowSecrets`): they need fairness and `ENABLED`, which are out of the prover's
reach. Every invariant and every action property of a passing run is a theorem.

## 5. What is not modelled

* Time: back-off, resync periods, transition times of conditions (a status patch
  may or may not differ by the time alone).
* Contents of specifications, labels, reasons and messages of conditions; health
  probes; leader election (one process is running at a time); version strings that
  do not parse.
* The end of the polling for the ClusterPolicy CRD on an error of List other than a
  missing kind: the watch it would start has no effect on GPUAddons, see
  `PolicyDrift`.
* `internal/common.ProcessConfig`, the slice helpers and the build version: values
  read once at start-up.
* The lookup of the ClusterPolicy under the name configured for the NFD resource. By
  default both have the same name, so it reads the object the pass reads anyway.
* Lingering objects of the monitoring stack; nothing waits for them.
* Generated code, manifests and the bundle script, where nothing happens at run time.

## 6. Plan

1. Done: the GPUAddon controller with its reconcilers, and the proofs of its safety.
2. Done: `AddonLifecycle` and the refinement, checked and proved.
3. Done: `ConfigMapController` and the composition `AddonOperator`.
4. Done: `MonitoringController`, and the proofs of its safety.
5. Done: `OwnerNotStolen`, `OnlyUnseenPluginsLost` and `PluginNeedsVersion` proved; the
   ClusterPolicy kind that comes late.
6. Done: the properties at rest, of both controllers and of the composition, as
   theorems; `NothingLeft` corrected on the way.
7. Done: the entry in the list of the Console under other operators that replace the
   list; the requests of the ConfigMap controller through late copies and crashes.
8. Left: the safety half of progress, which fairness would turn into liveness: a
   pass comes closer to its end with each of its steps.
