------------------------- MODULE GPUAddonProperties -------------------------
(***************************************************************************)
(* What the GPUAddon controller should guarantee.  Invariants and action   *)
(* properties first, then what must hold whenever the controller has come  *)
(* to rest, then liveness.                                                 *)
(***************************************************************************)
EXTENDS GPUAddonController

PassType == [mode: {"idle", "reconcile", "disable", "remove"},
             step: ReconcileSteps \cup RemoveSteps \cup {"none"},
             req: Addons \cup {NoAddon}, loc: AddonResource, stale: BOOLEAN,
             conds: SUBSET Condition, failed: BOOLEAN,
             left: SUBSET Objects]

\* Every variable of the controller and of the cluster has its type.
TypeOK ==
    /\ cr \in [Addons -> AddonResource]
    /\ crSeen \in [Addons -> AddonResource]
    /\ stale \in SUBSET Addons
    /\ obj \in [Objects -> ObjectType] /\ seen \in [Objects -> ObjectType]
    /\ console \subseteq OtherPlugins \cup {OurPlugin}
    /\ consoleSeen \subseteq OtherPlugins \cup {OurPlugin}
    /\ news \in [Objects -> SUBSET (Addons \cup {PolicyKey})]
    /\ history \in Seq(HistoryEntry)
    /\ plan \in BOOLEAN /\ policyKind \in BOOLEAN
    /\ queue \subseteq Addons \cup {PolicyKey}
    /\ pass \in PassType
    /\ installed \in {"unset", "no", "yes"}
    /\ pod \in {"down", "starting", "running", "removed"}
    /\ edits \in 0..MaxEdits
    /\ faults \in 0..MaxFaults
    /\ crashes \in 0..MaxCrashes

-----------------------------------------------------------------------------
(* Nothing is left behind                                                   *)

\* The operands whose disappearance a removal pass waits for.  A Subscription
\* that lingers is not waited for once the CSV is gone from the cache.
Awaited == Operands \ ({"Subscription"} \cap Lingering)

\* An operand exists only while some GPUAddon carries the finalizer, so a
\* deletion request is never completed with operands left on the cluster
\* (removeOwnedResources before RemoveFinalizer, registerFinilizerIfNeeded
\* before anything is created).
NoOrphans ==
    (\E k \in Awaited : Present(obj[k])) => \E a \in Addons : cr[a].fin

\* The owner of an operand still carries the finalizer, so it is never gone
\* with its operands left to Kubernetes garbage collection: they go in the
\* order of the Delete methods, or, where the owner is deleted in the
\* foreground, before it.
OwnersHold ==
    \A k \in Owned \cap Awaited :
        obj[k].owner \in Addons => cr[obj[k].owner].fin

\* The add-on's own CSV, and with it the operator, is deleted only at an
\* instant when every operand is gone (removeSelfCsv comes last).
SelfCsvLast ==
    [][obj["AddonCsv"].st = "live" /\ obj'["AddonCsv"].st # "live"
         => \A k \in Awaited : ~Present(obj[k])]_vars

\* A GPUAddon never disappears under a reconciling pass that is past its
\* finalizer step, however late that pass learns of the deletion.
PassIsProtected ==
    pass.mode \in {"reconcile", "disable"}
      /\ pass.step \notin {"Finalizer", "Status"}
    => cr[pass.req].fin

\* The controller reference of an operand passes from one GPUAddon to another
\* only through an absent object (AlreadyOwnedError).
OwnerNotStolen ==
    [][\A k \in Objects :
         obj[k].owner \in Addons /\ Present(obj'[k])
         => obj'[k].owner \in {obj[k].owner, NoAddon}]_vars

\* This operator takes the plugin of another one out of the console only if it
\* was not in the cached copy the patch was built from (patchClusterConsole).
OnlyUnseenPluginsLost ==
    [][edits' = edits =>
         \A p \in OtherPlugins : p \in console \ console' => p \notin consoleSeen]_vars

-----------------------------------------------------------------------------
(* At rest: the operator runs, nothing is queued, the caches are current,   *)
(* and no other controller is about to change something                     *)

AtRest ==
    /\ pod = "running" /\ Idle /\ queue = {}
    /\ stale = {} /\ consoleSeen = console /\ \A k \in Objects : ~Behind(k)
    /\ ~plan /\ \A k \in Objects : obj[k].st # "terminating"

OwnedFor(a) ==
    {"NFD", "Subscription"} \cup
    (IF cr[a].plugin /\ IsOpenShiftVersionAtLeast(history, ConsolePluginVersion)
     THEN {"Deployment", "Service"} ELSE {})

WantedFor(a) ==
    OwnedFor(a) \cup {"ClusterPolicy"} \cup
    (IF "Deployment" \in OwnedFor(a) THEN {"ConsolePlugin"} ELSE {})

\* No wake-up is lost: at rest, every operand the controller owns is as the
\* GPUAddon asks for, whatever was edited, deleted, crashed or failed before.
OwnedOperandsRestored ==
    AtRest => \A a \in Addons : cr[a].st = "live" =>
        \A k \in OwnedFor(a) :
            /\ obj[k].st = "live" /\ obj[k].owner = a
            /\ obj[k].spec = Desired(k)

ReadyStatus(a) ==
    /\ cr[a].phase = "Ready"
    /\ cr[a].conds = {[type |-> t, status |-> "True"] : t \in ConditionTypes}

\* At rest the status tells the outcome of the last pass: a live GPUAddon is
\* Ready with every condition True, although a status patch sends only what
\* differs from a copy that may be out of date.
StatusAtRest ==
    AtRest => \A a \in Addons : cr[a].st = "live" => ReadyStatus(a)

\* At rest a disabled console plugin has no live operand (the reconciler's
\* Delete, whose result is ignored).
DisabledPluginGone ==
    AtRest => \A a \in Addons :
        cr[a].st = "live" /\ ~cr[a].plugin
          /\ IsOpenShiftVersionAtLeast(history, ConsolePluginVersion)
        => \A k \in PluginOperands : obj[k].st # "live"

\* The console plugin is deployed only on a cluster that has completed the
\* installation of a version it works with, also while an upgrade to one is
\* under way (GetOpenShiftVersion skips Partial entries).
PluginNeedsVersion ==
    Present(obj["Deployment"]) =>
        \E i \in DOMAIN history :
            /\ history[i].state = "Completed"
            /\ AtLeast(history[i].version, ConsolePluginVersion)

\* At rest the SubscriptionInstalled gauge agrees with the Subscription.
GaugeAtRest ==
    AtRest /\ (\E a \in Addons : cr[a].st = "live")
    => (installed = "yes" <=> obj["Subscription"].ready)

-----------------------------------------------------------------------------
(* Liveness                                                                 *)

\* A deleted GPUAddon gets as far as the deletion of the add-on's own CSV, if
\* the cluster knows the ClusterPolicy by then or a Subscription will bring it.
UninstallProgresses ==
    \A a \in Addons :
        cr[a].st = "terminating"
          /\ (policyKind \/ obj["Subscription"].st = "live")
        ~> ~Present(obj["AddonCsv"])

\* What is desired of a live GPUAddon on a supported version is there in the
\* end, also where no event tells the controller: the ClusterPolicy, the
\* ConsolePlugin and its entry in the Console, which another operator may have
\* taken out, the channel after an upgrade.
EventuallyRestored ==
    <>[](\A a \in Addons :
            /\ Present(obj["AddonCsv"]) /\ cr[a].st = "live"
            /\ OpenShift # NoVersion /\ HasChannel(OpenShift)
            => \A k \in WantedFor(a) :
                 /\ obj[k].st = "live" /\ obj[k].spec = Desired(k)
                 /\ k = "ConsolePlugin" => OurPlugin \in console)

\* What the operator makes of a live GPUAddon is in its status in the end: it
\* is Ready, or Failed where the operator cannot do what is asked of it.
EventuallyReported ==
    <>[](\A a \in Addons :
            Present(obj["AddonCsv"]) /\ cr[a].st = "live"
            => cr[a].phase \in {"Ready", "Failed"})

\* Unless the add-on is removed, every live GPUAddon becomes Ready for good.
EventuallyReady ==
    <>[](\A a \in Addons :
            Present(obj["AddonCsv"]) /\ cr[a].st = "live" => cr[a].phase = "Ready")

-----------------------------------------------------------------------------
(* Claims of the repository that the code does not keep                     *)

\* The deletion of a GPUAddon always gets as far as the add-on's own CSV.
CsvDeletedInTheEnd ==
    \A a \in Addons : cr[a].st = "terminating" ~> ~Present(obj["AddonCsv"])

\* The finalizer of a deleted GPUAddon is removed in the end: once the add-on's
\* CSV is deleted, nothing keeps the pass from the finalizer for good.
FinalizerReleased ==
    \A a \in Addons : cr[a].st = "terminating" ~> cr[a].st # "terminating"

\* At rest the ClusterPolicy, which the operator lists among the resources it
\* manages and watches as its own, is there as desired.
ClusterPolicyRestored ==
    AtRest /\ (\E a \in Addons : cr[a].st = "live")
    => obj["ClusterPolicy"].st = "live" /\ obj["ClusterPolicy"].spec = "desired"

\* Whether the console plugin is enabled is for the user to say: the operator
\* never changes it.
SpecChangedByEditsOnly ==
    [][\A a \in Addons :
         Present(cr[a]) /\ Present(cr'[a]) /\ cr'[a].plugin # cr[a].plugin
         => edits' > edits]_vars

-----------------------------------------------------------------------------
(* The inductive invariant behind NoOrphans, OwnersHold, PassIsProtected    *)
(* and SelfCsvLast: what the copies a pass works on still say about the     *)
(* resources, and what a removal pass has established so far                *)

\* A resource with the finalizer exists.
FinalizerIsHeld == \A a \in Addons : cr[a].fin => Present(cr[a])

\* An object that does not exist has no owner.
AbsentIsUnowned == \A k \in Objects : ~Present(obj[k]) => obj[k].owner = NoAddon

\* A pass is under way only in a running process.
PassNeedsProcess == ~Idle => pod = "running"

LiveFin(r) == r.st = "live" /\ r.fin

\* A copy not marked as stale is the newest one.
CopiesCurrent ==
    /\ \A a \in Addons : a \notin stale => crSeen[a] = cr[a]
    /\ ~Idle => pass.req \in Addons
    /\ ~Idle /\ ~pass.stale => pass.loc = cr[pass.req]
    /\ At("reconcile", "Finalizer") =>
         /\ pass.loc.st = "live"
         /\ ~pass.stale => crSeen[pass.req] = cr[pass.req]

\* A cached copy may be old, but a finalizer it shows on a live resource is
\* still there, and one it shows on a terminating resource is not on a live
\* resource of the same name.
CacheBoundsFinalizer ==
    \A a \in Addons :
        /\ LiveFin(crSeen[a]) => cr[a].fin
        /\ crSeen[a].st = "terminating" => ~LiveFin(cr[a])

RemovalIsExclusive ==
    pass.mode = "remove" => ~LiveFin(cr[pass.req]) /\ ~LiveFin(crSeen[pass.req])

RemovePosition ==
    [ConsolePlugin |-> 1, Service |-> 2, Deployment |-> 3, ClusterPolicy |-> 4,
     Subscription |-> 5, GpuCsv |-> 6, NFD |-> 7, SelfCsv |-> 8,
     CrFinalizer |-> 9]

\* What a removal pass has been through is gone, or noted as left, or held by
\* the finalizer of another controller.
RemovalAccounted ==
    pass.mode = "remove" =>
        /\ pass.step \in RemoveSteps
        /\ \A k \in Awaited :
             RemovePosition[k] < RemovePosition[pass.step]
               /\ (k \notin pass.left \/ k \notin Lingering)
             => ~Present(obj[k])
        /\ pass.step = "CrFinalizer" =>
             pass.left = {} /\ obj["AddonCsv"].st # "live"

\* What the copies of GPUAddons say, and what the objects.
ResourcesOK ==
    /\ FinalizerIsHeld /\ PassNeedsProcess /\ CopiesCurrent
    /\ CacheBoundsFinalizer /\ RemovalIsExclusive /\ PassIsProtected

ObjectsOK == AbsentIsUnowned /\ OwnersHold /\ NoOrphans

IInv == TypeOK /\ ResourcesOK /\ ObjectsOK /\ RemovalAccounted

-----------------------------------------------------------------------------
(* The invariant behind the properties at rest: what is not as a live       *)
(* GPUAddon asks for is awaited by another pass for it, or by what the pass *)
(* under way has still to come to                                           *)

\* The pass under way installs for a.
Installs(a) == pass.req = a /\ pass.mode \in {"reconcile", "disable"}

\* Another pass for a will come: it is requested, an event under way asks for
\* it, or the pass under way is going to end with an error.
Awake(a) ==
    \/ a \in queue \/ a \in stale
    \/ \E k \in Objects : a \in news[k]
    \/ Installs(a) /\ pass.failed

\* The live GPUAddons for which no other pass is on its way.
Asleep == {a \in Addons : pod = "running" /\ cr[a].st = "live" /\ ~Awake(a)}

\* The order of the calls of an installing pass.
Position ==
    [Finalizer |-> 0, NFD |-> 1, Subscription |-> 2, ClusterPolicy |-> 3,
     EnterConsolePlugin |-> 4, Deployment |-> 5, Service |-> 6,
     ConsolePlugin |-> 7, Console |-> 8, Status |-> 9]

\* An installing pass for a is not past step k.
Before(a, k) ==
    pass.req = a /\ pass.mode = "reconcile" /\ Position[pass.step] <= Position[k]

\* A late copy comes with an event for the owner it shows and the present one.
EventsKept ==
    pod = "running" =>
        \A k \in OwnsKinds : seen[k] # obj[k] =>
            {seen[k].owner, obj[k].owner} \ {NoAddon} \subseteq news[k]

\* A pass whose copy of the GPUAddon is out of date is followed by another.
PassInformed ==
    ~Idle => /\ pass.stale => Awake(pass.req)
             /\ pass.mode = "remove" => pass.loc.st = "terminating"

\* What the reconcilers that are through by some step have reported.
Reported(step) ==
    {Success(k) : k \in {j \in {"NFD", "Subscription", "ClusterPolicy", "Console"} :
                            Position[j] < Position[step]}}

\* A pass without an error has the conditions of all of them, and deploys or
\* removes the console plugin as its copy of the GPUAddon says.
PassReports ==
    pass.mode \in {"reconcile", "disable"} =>
        /\ pass.step \in DOMAIN Position
        /\ ~pass.failed => pass.conds = Reported(pass.step)
        /\ pass.mode = "disable" =>
             ~pass.loc.plugin /\ pass.step \in PluginOperands
        /\ pass.mode = "reconcile" /\ pass.step \in PluginOperands \cup {"Console"}
             => pass.loc.plugin

StatusSettled(a) == ReadyStatus(a) \/ Installs(a)

\* What every GPUAddon needs, and the gauge about one of them.
OwnersSettled(a) ==
    \A k \in {"NFD", "Subscription"} : obj[k].owner = a \/ Before(a, k)

GaugeSettled(a) ==
    (installed = "yes" <=> obj["Subscription"].ready) \/ Before(a, "Subscription")

\* While the pass for another GPUAddon deploys, a awaits its own: they cannot
\* both have the NFD resource.
HasTheFloor(a) ==
    pass.mode \in {"reconcile", "disable"}
      /\ pass.step \notin {"Finalizer", "NFD", "Status"} => pass.req = a

RestInv ==
    /\ EventsKept /\ PassInformed /\ PassReports
    /\ \A a \in Asleep : /\ StatusSettled(a) /\ OwnersSettled(a)
                         /\ GaugeSettled(a) /\ HasTheFloor(a)

\* The rest holds as long as the cluster does not complete an upgrade, of
\* which no event tells the controller.
NoUpgrade == [][UNCHANGED OpenShift]_vars

OperandsSettled(a) ==
    \A k \in OwnedFor(a) :
        \/ obj[k].owner = a /\ (obj[k].st = "live" => obj[k].spec = Desired(k))
        \/ Before(a, k)

SupportsPlugin == IsOpenShiftVersionAtLeast(history, ConsolePluginVersion)

DisabledSettled(a) ==
    \A k \in PluginOperands :
        ~cr[a].plugin /\ SupportsPlugin =>
            \/ obj[k].st # "live"
            \/ Before(a, "EnterConsolePlugin")
            \/ /\ pass.req = a /\ pass.mode = "disable"
               /\ Position[k] <= Position[pass.step]

SteadyInv ==
    /\ RestInv
    /\ \A a \in Asleep : OperandsSettled(a) /\ DisabledSettled(a)
=============================================================================
