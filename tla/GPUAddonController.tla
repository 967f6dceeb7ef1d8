------------------------- MODULE GPUAddonController -------------------------
(***************************************************************************)
(* The GPUAddon controller of the add-on operator: GPUAddonReconciler, its *)
(* four resource reconcilers, the work queue and caches controller-runtime *)
(* gives it, and the cluster it acts on.                                   *)
(*                                                                         *)
(* One worker takes requests off a deduplicating queue and runs Reconcile  *)
(* on each: a pass.  A pass is a sequence of API calls; every call is an   *)
(* action here, so anything else may happen between two of them: a watch   *)
(* event reaches a cache, a user edits or deletes something, OLM acts, a   *)
(* call fails, the process dies.  The manager's client reads from caches   *)
(* (crSeen, seen, consoleSeen) and writes to the API server (cr, obj,      *)
(* console), so what a pass decides on may be out of date.                 *)
(*                                                                         *)
(* Simplifications.  The two cached Gets before a CreateOrPatch and the    *)
(* write that follows are one step: a cache that changes between them only *)
(* gives the outcome of an earlier or later read.  A resource version is   *)
(* abstracted to whether a copy is the newest one (stale, pass.stale).     *)
(* The ClusterVersion is read as it is, without cache lag.                 *)
(***************************************************************************)
EXTENDS KubeObjects, AddonStatus, ClusterVersion

CONSTANTS
    AddonID,      \* the GPUAddon that jumpstartAddon creates at start-up
    OtherPlugins, \* console plugins of other operators
    Versions,     \* OpenShift versions the cluster may be upgraded to
    Histories,    \* histories the ClusterVersion may start with
    Contended,    \* operands that others edit or delete
    PolicyKinds,  \* whether an earlier GPU operator left the ClusterPolicy CRD
    Lagging,      \* bound: what the caches may be late about
    Resyncs,      \* bound: whether informers repeat their events at rest
    MaxEdits,     \* bound: edits by users and other actors
    MaxFaults,    \* bound: failing API calls
    MaxCrashes    \* bound: crashes of the operator process

OurPlugin == "console-plugin-nvidia-gpu"

\* The request of the ClusterPolicy watch: it names the ClusterPolicy, which
\* no GPUAddon is named after.
PolicyKey == "ClusterPolicyRequest"

ASSUME ControllerAssumption ==
    /\ AddonID \in Addons
    /\ PolicyKey \notin Addons
    /\ OurPlugin \notin OtherPlugins
    /\ Histories \subseteq Seq(HistoryEntry)
    /\ Versions \subseteq Nat \X Nat
    /\ Contended \subseteq Operands
    /\ PolicyKinds \subseteq BOOLEAN /\ Resyncs \in BOOLEAN
    /\ Lagging \subseteq Objects \cup Addons \cup {"Console"}
    /\ MaxEdits \in Nat /\ MaxFaults \in Nat /\ MaxCrashes \in Nat

VARIABLES
    cr,          \* the GPUAddon resources
    crSeen,      \* their copies in the cache of the operator
    stale,       \* the GPUAddons whose cached copy is not the newest
    obj,         \* operands and CSVs
    seen,        \* their copies in the cache
    console,     \* spec.plugins of the Console "cluster"
    consoleSeen, \* its copy in the cache
    news,        \* requests that undelivered events of each object will add
    history,     \* status.history of the ClusterVersion
    plan,        \* an OLM install plan for the GPU operator is under way
    policyKind,  \* the cluster knows the kind ClusterPolicy: its CRD exists
    queue,       \* requests waiting for the worker
    pass,        \* the Reconcile call the worker is in
    installed,   \* the SubscriptionInstalled gauge
    pod,         \* the operator process
    edits, faults, crashes

objects == <<obj, news>>
olm == <<plan, policyKind>>
api == <<cr, objects, console, history, olm>>
caches == <<crSeen, seen, consoleSeen>>
bounds == <<edits, faults, crashes>>
vars == <<cr, crSeen, stale, obj, seen, console, consoleSeen, news,
          history, plan, policyKind, queue, pass, installed, pod,
          edits, faults, crashes>>

-----------------------------------------------------------------------------
(* GPUAddon resources and passes                                            *)

AddonResource == [st: {"absent", "live", "terminating"}, fin: BOOLEAN,
                  plugin: BOOLEAN, phase: Phases, conds: SUBSET Condition]

NoResource == [st |-> "absent", fin |-> FALSE, plugin |-> FALSE,
               phase |-> "", conds |-> {}]

NewResource(plugin) == [NoResource EXCEPT !.st = "live", !.plugin = plugin]

\* The objects CreateOrPatch is called for, in the order of the reconcilers.
Created == Operands

ReconcileSteps == {"Finalizer", "EnterConsolePlugin", "Console", "Status"}
                    \cup Created
RemoveSteps == Operands \cup {"GpuCsv", "SelfCsv", "CrFinalizer"}

\* Mutant: the Service of the console plugin is left out.
AfterCreateWithoutService ==
    [NFD |-> "Subscription", Subscription |-> "ClusterPolicy",
     ClusterPolicy |-> "EnterConsolePlugin", Deployment |-> "ConsolePlugin",
     ConsolePlugin |-> "Console"]

\* resourceOrderedReconcilers, with the calls of the console plugin.
AfterCreate ==
    [NFD |-> "Subscription", Subscription |-> "ClusterPolicy",
     ClusterPolicy |-> "EnterConsolePlugin", Deployment |-> "Service",
     Service |-> "ConsolePlugin", ConsolePlugin |-> "Console"]

\* Mutant: the NFD reconciler is left out.
AfterDeleteWithoutNfd ==
    [ConsolePlugin |-> "Service", Service |-> "Deployment",
     Deployment |-> "ClusterPolicy", ClusterPolicy |-> "Subscription",
     Subscription |-> "GpuCsv", GpuCsv |-> "SelfCsv"]

\* Mutant: the Service of the console plugin is left out.
AfterDeleteWithoutService ==
    [ConsolePlugin |-> "Deployment", Deployment |-> "ClusterPolicy",
     ClusterPolicy |-> "Subscription", Subscription |-> "GpuCsv",
     GpuCsv |-> "NFD", NFD |-> "SelfCsv"]

\* Mutant: the finalizer goes before the add-on's own CSV.
AfterDeleteWithoutSelf ==
    [ConsolePlugin |-> "Service", Service |-> "Deployment",
     Deployment |-> "ClusterPolicy", ClusterPolicy |-> "Subscription",
     Subscription |-> "GpuCsv", GpuCsv |-> "NFD", NFD |-> "CrFinalizer"]

\* The reverse, as removeOwnedResources and the Delete methods go through it.
AfterDelete ==
    [ConsolePlugin |-> "Service", Service |-> "Deployment",
     Deployment |-> "ClusterPolicy", ClusterPolicy |-> "Subscription",
     Subscription |-> "GpuCsv", GpuCsv |-> "NFD", NFD |-> "SelfCsv"]

\* The objects ConsolePluginResourceReconciler.Delete deletes, first to last.
PluginOperands == {"ConsolePlugin", "Service", "Deployment"}

IdlePass == [mode |-> "idle", step |-> "none", req |-> NoAddon,
             loc |-> NoResource, stale |-> FALSE, conds |-> {},
             failed |-> FALSE, left |-> {}]

Idle == pass.mode = "idle"

At(mode, step) == pass.mode = mode /\ pass.step = step

\* loc is the pass's copy of the GPUAddon, stale whether it is out of date,
\* left the objects a Delete method reported as not deleted yet.
StartPass(a, mode, step) ==
    pass' = [IdlePass EXCEPT !.mode = mode, !.step = step, !.req = a,
                             !.loc = crSeen[a], !.stale = a \in stale]

Goto(step) == pass' = [pass EXCEPT !.step = step]

\* A reconciler returned its condition and the next one is called.
Report(k, step) ==
    pass' = [pass EXCEPT !.step = step, !.conds = @ \cup {Success(k)}]

\* A reconciler returned an error: Reconcile goes to patchStatus with it.
FailWith(conds) ==
    pass' = [pass EXCEPT !.mode = "reconcile", !.step = "Status",
                         !.conds = @ \cup conds, !.failed = TRUE]

Fail(k) == FailWith({Failure(k)})

\* Reconcile returned: with an error the request goes back to the queue.
Return == pass' = IdlePass /\ UNCHANGED queue
ReturnError == pass' = IdlePass /\ queue' = queue \cup {pass.req}

\* A write to GPUAddon a by anyone but the pass under way.
WriteAddon(a, new) ==
    /\ cr' = [cr EXCEPT ![a] = new]
    /\ stale' = stale \cup {a}

PassSees(a) == [pass EXCEPT !.stale = @ \/ pass.req = a]

\* Mutant: Owns is called for the console plugin kinds only.
OwnsKindsOfConsole == {"ConsolePlugin", "Deployment", "Service"}

\* Kinds given to Owns.
OwnsKinds == {"Subscription", "NFD", "ConsolePlugin", "Deployment", "Service"}

\* Their events become requests for the owners of the object before and
\* after; those of a ClusterPolicy become requests in its own name.
Requests(k, old, new) ==
    IF k \in OwnsKinds THEN {old.owner, new.owner} \ {NoAddon}
    ELSE IF k = "ClusterPolicy" THEN {PolicyKey}
    ELSE {}

\* Each change of an object is an event.  Events reach the cache one by one;
\* here they arrive together, and the requests of all of them are kept.
Notify ==
    news' = [k \in Objects |->
               IF pod = "running" /\ obj'[k] # obj[k]
               THEN news[k] \cup Requests(k, obj[k], obj'[k]) ELSE news[k]]

Behind(k) == seen[k] # obj[k] \/ news[k] # {}

\* The bound on the caches: what is not in Lagging is brought up to date
\* before anything else happens.
Prompt ==
    pod = "running" =>
        /\ stale \subseteq Lagging
        /\ \A k \in Objects \ Lagging : ~Behind(k)
        /\ "Console" \in Lagging \/ consoleSeen = console

\* An API call fails: the effect may have taken place or not.
Fault == faults < MaxFaults /\ faults' = faults + 1
NoFault == UNCHANGED faults

OpenShift == GetOpenShiftVersion(history)

Desired(k) == IF k = "Subscription" THEN Channel(OpenShift) ELSE "desired"

-----------------------------------------------------------------------------
Init ==
    /\ cr = [a \in Addons |-> NoResource] /\ crSeen = cr /\ stale = {}
    /\ obj = [[k \in Objects |-> Absent] EXCEPT
                !["AddonCsv"] = Live(NoAddon, "desired")]
    /\ seen = obj /\ news = [k \in Objects |-> {}]
    /\ console \in SUBSET OtherPlugins /\ consoleSeen = console
    /\ history \in Histories
    /\ plan = FALSE /\ policyKind \in PolicyKinds
    /\ queue = {} /\ pass = IdlePass
    /\ installed = "unset" /\ pod = "down"
    /\ edits = 0 /\ faults = 0 /\ crashes = 0

-----------------------------------------------------------------------------
(* The worker: Reconcile is called                                          *)

Take(r) ==
    /\ pod = "running" /\ Idle /\ Prompt
    /\ r \in queue /\ queue' = queue \ {r}
    /\ UNCHANGED <<api, caches, stale, installed, pod, bounds>>

\* Mutant: nothing waits for the finalizer.
FirstStepUnregistered(r) == "NFD"

FirstStep(r) == IF r.fin THEN "NFD" ELSE "Finalizer"

StartReconcile(a) ==
    /\ Take(a)
    /\ crSeen[a].st = "live"
    /\ StartPass(a, "reconcile", FirstStep(crSeen[a]))

StartRemoval(a) ==
    /\ Take(a)
    /\ crSeen[a].st = "terminating" /\ crSeen[a].fin
    /\ StartPass(a, "remove", "ConsolePlugin")

\* The GPUAddon is not found: deleted, or the request names a ClusterPolicy.
NothingToDo(r) ==
    /\ Take(r)
    /\ r \in Addons => crSeen[r].st = "absent"
    /\ UNCHANGED pass

\* Get fails otherwise: Reconcile goes on with an empty object, for which
\* neither the Update nor the status patch can succeed, and is retried.
GetFails(a) ==
    /\ pod = "running" /\ Idle /\ a \in queue
    /\ Fault /\ Prompt
    /\ UNCHANGED <<api, caches, stale, queue, pass, installed, pod,
                   edits, crashes>>

-----------------------------------------------------------------------------
(* A reconciling pass                                                       *)

\* Mutant: the finalizer is added to the copy in memory only.
WithFinalizerForgotten(r) == [r EXCEPT !.plugin = TRUE]

\* Update writes the whole resource with the finalizer added.  A disabled
\* console plugin is not serialised (omitempty), and the default of the CRD
\* is to enable it.
WithFinalizer(r) == [r EXCEPT !.fin = TRUE, !.plugin = TRUE]

RegisterFinalizer ==
    /\ At("reconcile", "Finalizer") /\ Prompt
    /\ \/ /\ ~pass.stale
          /\ WriteAddon(pass.req, WithFinalizer(cr[pass.req]))
          /\ pass' = [pass EXCEPT !.step = "NFD", !.loc = cr'[pass.req]]
          /\ NoFault
       \/ /\ pass.stale
          /\ FailWith({})
          /\ UNCHANGED <<cr, stale>> /\ NoFault
       \/ /\ Fault
          /\ UNCHANGED <<cr, stale>>
          /\ FailWith({})
       \/ /\ Fault /\ ~pass.stale
          /\ WriteAddon(pass.req, WithFinalizer(cr[pass.req]))
          /\ pass' = [pass EXCEPT !.step = "Status", !.failed = TRUE,
                                  !.stale = TRUE]
    /\ UNCHANGED <<objects, console, history, olm, caches, queue, installed, pod,
                   edits, crashes>>

\* Without its CRD every call for the ClusterPolicy fails with a NoKindMatch
\* error, which is not a NotFound.
KindKnown(k) == k = "ClusterPolicy" => policyKind

\* What CreateOrPatch makes of operand k in this pass.
Acceptable(k) == KindKnown(k) /\ Accepted(k, pass.req, seen[k], obj[k], Desired(k))
Written(k) ==
    [obj EXCEPT ![k] = Applied(k, pass.req, seen[k], @, Desired(k))]

AfterOperand(k) ==
    IF k \in PluginOperands THEN Goto(AfterCreate[k])
                            ELSE Report(k, AfterCreate[k])

CreateOrPatch(k) ==
    \/ Acceptable(k) /\ obj' = Written(k) /\ AfterOperand(k) /\ NoFault
    \/ ~Acceptable(k) /\ Fail(k) /\ UNCHANGED obj /\ NoFault
    \/ Fault /\ Fail(k) /\ UNCHANGED obj
    \/ Fault /\ Fail(k) /\ Acceptable(k) /\ obj' = Written(k)

ReconcileOperand(k) ==
    /\ k # "Subscription"
    /\ At("reconcile", k) /\ Prompt
    /\ CreateOrPatch(k)
    /\ Notify
    /\ UNCHANGED <<cr, console, history, olm, caches, stale, queue,
                   installed, pod, edits, crashes>>

\* Mutant: the gauge is set once and never taken back.
ReportInstalledOnce ==
    installed' = IF Present(seen["Subscription"]) /\ seen["Subscription"].ready
                 THEN "yes" ELSE installed

\* The gauge follows the cached Subscription, before anything is written.
ReportInstalled ==
    installed' = IF ~Present(seen["Subscription"]) THEN installed
                 ELSE IF seen["Subscription"].ready THEN "yes" ELSE "no"

ReconcileSubscription ==
    /\ At("reconcile", "Subscription") /\ Prompt
    /\ ReportInstalled
    /\ \/ OpenShift = NoVersion /\ Fail("Subscription")
          /\ UNCHANGED obj /\ NoFault
       \/ OpenShift # NoVersion /\ HasChannel(OpenShift)
          /\ CreateOrPatch("Subscription")
    /\ Notify
    /\ UNCHANGED <<cr, console, history, olm, caches, stale, queue, pod,
                   edits, crashes>>

\* Everything the process holds in memory is gone.
Die ==
    /\ pod' = "down" /\ pass' = IdlePass /\ queue' = {}
    /\ installed' = "unset"

\* The version is not in the compatibility matrix: the index is -1 and the
\* panic takes the process down.
SubscriptionPanics ==
    /\ At("reconcile", "Subscription") /\ Prompt
    /\ OpenShift # NoVersion /\ ~HasChannel(OpenShift)
    /\ Die
    /\ UNCHANGED <<api, caches, stale, bounds>>

EnterConsolePlugin ==
    /\ At("reconcile", "EnterConsolePlugin") /\ Prompt
    /\ \/ /\ OpenShift = NoVersion
          /\ Fail("ConsolePlugin") /\ NoFault
       \/ /\ OpenShift # NoVersion
          /\ ~IsOpenShiftVersionAtLeast(history, ConsolePluginVersion)
          /\ Report("ConsolePlugin", "Status") /\ NoFault
       \/ /\ IsOpenShiftVersionAtLeast(history, ConsolePluginVersion)
          /\ pass' = IF pass.loc.plugin
                     THEN [pass EXCEPT !.step = "Deployment"]
                     ELSE [pass EXCEPT !.mode = "disable",
                                       !.step = "ConsolePlugin"]
          /\ NoFault
       \/ Fault /\ Fail("ConsolePlugin")
    /\ UNCHANGED <<api, caches, stale, queue, installed, pod, edits, crashes>>

\* Mutant: the list is sent with our plugin alone.
PatchedPluginsAlone == {OurPlugin}

\* Mutant: the entry is looked for, and added when it is there already.
PatchedPluginsInverted ==
    IF OurPlugin \in consoleSeen THEN consoleSeen \cup {OurPlugin} ELSE console

\* The merge patch replaces the whole list by the cached one with ours added.
PatchedPlugins ==
    IF OurPlugin \in consoleSeen THEN console ELSE consoleSeen \cup {OurPlugin}

PatchClusterConsole ==
    /\ At("reconcile", "Console") /\ Prompt
    /\ \/ /\ console' = PatchedPlugins
          /\ Report("ConsolePlugin", "Status") /\ NoFault
       \/ Fault /\ Fail("ConsolePlugin") /\ UNCHANGED console
       \/ Fault /\ Fail("ConsolePlugin") /\ console' = PatchedPlugins
    /\ UNCHANGED <<cr, objects, history, olm, caches, stale, queue, installed,
                   pod, edits, crashes>>

\* Mutant: the error is swallowed once it is in the status.
AfterStatusSwallowed == Return

\* patchStatus returns the error of the pass, if there was one.
AfterStatus == IF pass.failed THEN ReturnError ELSE Return

\* The conditions carry the time they were built, so they differ (restamped)
\* from earlier ones unless that is the same second.
Restamped == IF pass.conds = {} THEN {FALSE} ELSE BOOLEAN

\* A merge patch of the status against the pass's copy: fields equal in that
\* copy are not sent.
PatchStatus ==
    /\ At("reconcile", "Status") /\ Prompt
    /\ LET a     == pass.req
           phase == PhaseOf(pass.conds, pass.failed, pass.loc.phase)
           status(restamped) ==
             [cr[a] EXCEPT
                !.phase = IF phase # pass.loc.phase THEN phase ELSE @,
                !.conds = IF pass.conds # pass.loc.conds \/ restamped
                          THEN pass.conds ELSE @]
           write(restamped) ==
             /\ Present(cr[a])
             /\ IF restamped \/ status(restamped) # cr[a]
                THEN WriteAddon(a, status(restamped))
                ELSE UNCHANGED <<cr, stale>>
       IN \/ /\ \E restamped \in Restamped : write(restamped)
             /\ AfterStatus /\ NoFault
          \/ /\ ~Present(cr[a])
             /\ UNCHANGED <<cr, stale>> /\ ReturnError /\ NoFault
          \/ Fault /\ UNCHANGED <<cr, stale>> /\ ReturnError
          \/ Fault /\ (\E restamped \in Restamped : write(restamped))
             /\ ReturnError
    /\ UNCHANGED <<objects, console, history, olm, caches, installed, pod,
                   edits, crashes>>

-----------------------------------------------------------------------------
(* Deleting operands: in a pass with the console plugin disabled, and in a  *)
(* pass that removes everything                                             *)

Erased(k) == [obj EXCEPT ![k] = Deleted(k, @)]

\* Whether each object is gone already does not matter here.
DisableOperand(k) ==
    /\ At("disable", k) /\ Prompt
    /\ \/ /\ obj' = Erased(k)
          /\ pass' = IF k = "Deployment"
                     THEN [pass EXCEPT !.mode = "reconcile", !.step = "Status",
                                       !.conds = @ \cup {Success(k)}]
                     ELSE [pass EXCEPT !.step = AfterDelete[k]]
          /\ NoFault
       \/ Fault /\ Fail(k) /\ UNCHANGED obj
       \/ Fault /\ Fail(k) /\ obj' = Erased(k)
    /\ Notify
    /\ UNCHANGED <<cr, console, history, olm, caches, stale, queue,
                   installed, pod, edits, crashes>>

\* A Delete method reports its object as deleted only when it was not found.
RemoveOperand(k) ==
    /\ At("remove", k) /\ Prompt
    /\ \/ /\ KindKnown(k)
          /\ obj' = Erased(k)
          /\ pass' = [pass EXCEPT !.step = AfterDelete[k],
                                  !.left = IF Present(obj[k]) THEN @ \cup {k}
                                                              ELSE @]
          /\ UNCHANGED queue /\ NoFault
       \/ ~KindKnown(k) /\ ReturnError /\ UNCHANGED obj /\ NoFault
       \/ Fault /\ ReturnError /\ UNCHANGED obj
       \/ Fault /\ ReturnError /\ obj' = Erased(k)
    /\ Notify
    /\ UNCHANGED <<cr, console, history, olm, caches, stale, installed, pod,
                   edits, crashes>>

\* The second half of SubscriptionResourceReconciler.Delete: with no CSV in
\* the cache the Subscription counts as deleted as well.
RemoveGpuCsv ==
    /\ At("remove", "GpuCsv") /\ Prompt
    /\ \/ /\ ~Present(seen["GpuCsv"])
          /\ pass' = [pass EXCEPT !.step = AfterDelete["GpuCsv"],
                                  !.left = @ \ {"Subscription"}]
          /\ UNCHANGED <<obj, queue>> /\ NoFault
       \/ /\ Present(seen["GpuCsv"])
          /\ obj' = Erased("GpuCsv")
          /\ pass' = [pass EXCEPT !.step = AfterDelete["GpuCsv"],
                                  !.left = IF Present(obj["GpuCsv"])
                                           THEN @ \cup {"GpuCsv"} ELSE @]
          /\ UNCHANGED queue /\ NoFault
       \/ Fault /\ ReturnError /\ UNCHANGED obj
       \/ Fault /\ ReturnError /\ Present(seen["GpuCsv"])
          /\ obj' = Erased("GpuCsv")
    /\ Notify
    /\ UNCHANGED <<cr, console, history, olm, caches, stale, installed, pod,
                   edits, crashes>>

\* Mutant: what is left is not an error, so nothing asks for another pass.
RetryRemovalForgotten == Return

RetryRemoval == ReturnError

\* Mutant: the results of the Delete methods are ignored.
SelfCsvDueUnchecked == Present(seen["AddonCsv"])

\* removeOwnedResources goes on to the add-on's CSV only when nothing is
\* left, and fails when the cache has no such CSV any more.
SelfCsvDue == pass.left = {} /\ Present(seen["AddonCsv"])

RemoveSelfCsv ==
    /\ At("remove", "SelfCsv") /\ Prompt
    /\ \/ ~SelfCsvDue /\ RetryRemoval /\ UNCHANGED obj /\ NoFault
       \/ /\ SelfCsvDue
          /\ obj' = Erased("AddonCsv")
          /\ Goto("CrFinalizer") /\ UNCHANGED queue /\ NoFault
       \/ Fault /\ ReturnError /\ UNCHANGED obj
       \/ Fault /\ SelfCsvDue /\ ReturnError /\ obj' = Erased("AddonCsv")
    /\ Notify
    /\ UNCHANGED <<cr, console, history, olm, caches, stale, installed, pod,
                   edits, crashes>>

\* Update without the finalizer: a terminating resource without finalizers
\* is deleted.  A copy that is not the newest is refused.
RemoveFinalizer ==
    /\ At("remove", "CrFinalizer") /\ Prompt
    /\ \/ ~pass.stale /\ WriteAddon(pass.req, NoResource) /\ Return /\ NoFault
       \/ pass.stale /\ UNCHANGED <<cr, stale>> /\ ReturnError /\ NoFault
       \/ Fault /\ UNCHANGED <<cr, stale>> /\ ReturnError
       \/ Fault /\ ~pass.stale /\ WriteAddon(pass.req, NoResource)
          /\ ReturnError
    /\ UNCHANGED <<objects, console, history, olm, caches, installed, pod,
                   edits, crashes>>

-----------------------------------------------------------------------------
(* Watch events: a cache catches up and the handlers add requests           *)

SyncAddon(a) ==
    /\ pod = "running" /\ a \in stale
    /\ crSeen' = [crSeen EXCEPT ![a] = cr[a]]
    /\ stale' = stale \ {a}
    /\ queue' = queue \cup {a}
    /\ UNCHANGED <<api, seen, consoleSeen, pass, installed, pod, bounds>>

SyncObject(k) ==
    /\ pod = "running" /\ Behind(k)
    /\ seen' = [seen EXCEPT ![k] = obj[k]]
    /\ queue' = queue \cup news[k]
    /\ news' = [news EXCEPT ![k] = {}]
    /\ UNCHANGED <<cr, obj, console, history, olm, crSeen, stale, consoleSeen,
                   pass, installed, pod, bounds>>

SyncConsole ==
    /\ pod = "running" /\ consoleSeen # console
    /\ consoleSeen' = console
    /\ UNCHANGED <<api, crSeen, stale, seen, queue, pass, installed, pod,
                   bounds>>

\* The informers repeat an update event for every GPUAddon in the cache (each
\* ten hours by default).
Resync ==
    /\ Resyncs /\ pod = "running" /\ Idle /\ queue = {} /\ Prompt
    /\ queue' = {a \in Addons : Present(crSeen[a])}
    /\ UNCHANGED <<api, caches, stale, pass, installed, pod, bounds>>

-----------------------------------------------------------------------------
(* The operator process                                                     *)

\* main creates the GPUAddon before it starts the manager.  The version label
\* it patches into one that exists makes no difference: the caches are filled
\* afterwards.
Jumpstart ==
    /\ pod = "down" /\ pod' = "starting"
    /\ IF Present(cr[AddonID]) THEN UNCHANGED <<cr, stale>>
                               ELSE WriteAddon(AddonID, NewResource(TRUE))
    /\ UNCHANGED <<objects, console, history, olm, caches, queue, pass,
                   installed, bounds>>

\* The caches are filled; every object in them is a create event.
StartManager ==
    /\ pod = "starting" /\ pod' = "running"
    /\ crSeen' = cr /\ stale' = {} /\ seen' = obj /\ consoleSeen' = console
    /\ news' = [k \in Objects |-> {}]
    /\ queue' = {a \in Addons : Present(cr[a])} \cup
                UNION {Requests(k, obj[k], obj[k]) :
                         k \in {j \in Objects : Present(obj[j])}}
    /\ UNCHANGED <<cr, obj, console, history, olm, pass, installed, bounds>>

Crash ==
    /\ pod \in {"starting", "running"}
    /\ Prompt /\ crashes < MaxCrashes /\ crashes' = crashes + 1
    /\ Die
    /\ UNCHANGED <<api, caches, stale, edits, faults>>

\* OLM removes the deployment of the operator once its CSV is deleted.
OperatorRemoved ==
    /\ ~Present(obj["AddonCsv"]) /\ Prompt
    /\ pod # "removed" /\ pod' = "removed"
    /\ pass' = IdlePass /\ queue' = {} /\ installed' = "unset"
    /\ UNCHANGED <<api, caches, stale, bounds>>

-----------------------------------------------------------------------------
(* OLM and other controllers of the cluster                                 *)

PlanInstall ==
    /\ obj["Subscription"].st = "live" /\ ~obj["Subscription"].ready
    /\ ~plan /\ plan' = TRUE /\ Prompt
    /\ UNCHANGED <<cr, objects, console, history, policyKind, caches, stale,
                   queue, pass, installed, pod, bounds>>

\* The plan is carried out, also when the Subscription is gone by then.  The
\* CRD of the ClusterPolicy comes with the GPU operator and outlives it.
InstallGpuOperator ==
    /\ plan /\ plan' = FALSE /\ policyKind' = TRUE /\ Prompt
    /\ obj["GpuCsv"].st # "terminating"
    /\ LET withCsv == [obj EXCEPT !["GpuCsv"] = Live(NoAddon, "desired")]
       IN obj' = IF obj["Subscription"].st = "live"
                 THEN [withCsv EXCEPT !["Subscription"].ready = TRUE]
                 ELSE withCsv
    /\ Notify
    /\ UNCHANGED <<cr, console, history, caches, stale, queue, pass,
                   installed, pod, bounds>>

FinishTermination(k) ==
    /\ obj[k].st = "terminating" /\ Prompt
    /\ obj' = [obj EXCEPT ![k] = Absent]
    /\ Notify
    /\ UNCHANGED <<cr, console, history, olm, caches, stale, queue, pass,
                   installed, pod, bounds>>

-----------------------------------------------------------------------------
(* Users and other actors, at most MaxEdits times                           *)

Edit ==
    /\ edits < MaxEdits /\ edits' = edits + 1 /\ Prompt
    /\ UNCHANGED <<olm, caches, installed, pod, faults, crashes>>

ChangeAddon(a, new) ==
    /\ WriteAddon(a, new) /\ pass' = PassSees(a)
    /\ UNCHANGED <<objects, console, history, queue>>

EditAddon(a, new) == Edit /\ ChangeAddon(a, new)

UserCreates(a) ==
    /\ ~Present(cr[a])
    /\ \E plugin \in BOOLEAN : EditAddon(a, NewResource(plugin))

\* A GPUAddon whose deletion is requested stays while it has the finalizer.
DeletionOf(r) == IF r.fin THEN [r EXCEPT !.st = "terminating"] ELSE NoResource

UserDeletes(a) == cr[a].st = "live" /\ EditAddon(a, DeletionOf(cr[a]))

UserToggles(a) ==
    /\ cr[a].st = "live"
    /\ EditAddon(a, [cr[a] EXCEPT !.plugin = ~@])

\* Metadata nobody here reads: a new resource version all the same.
UserTouches(a) == Present(cr[a]) /\ EditAddon(a, cr[a])

EditObject(k, new) ==
    /\ Edit
    /\ obj' = [obj EXCEPT ![k] = new]
    /\ Notify
    /\ UNCHANGED <<cr, stale, console, history, queue, pass>>

\* The specification changes, and possibly the owner reference is dropped.
Drift(k) ==
    /\ obj[k].st = "live"
    /\ \E o \in {obj[k].owner, NoAddon} :
         EditObject(k, [obj[k] EXCEPT !.spec = "other", !.owner = o])

ExternalDelete(k) ==
    /\ obj[k].st = "live"
    /\ EditObject(k, Deleted(k, obj[k]))

\* Another operator adds its entry as this one does: it replaces the list by
\* its own copy with the entry added.  The copy may be from before other
\* entries came, ours among them, which are lost.
OtherPluginAdded(p) ==
    /\ Edit
    /\ \E copy \in SUBSET console :
         p \notin copy /\ console' = copy \cup {p}
    /\ UNCHANGED <<cr, stale, objects, history, queue, pass>>

\* An upgrade is first a Partial entry at the head of the history.
UpgradeStarts(v) ==
    /\ Edit
    /\ OpenShift # NoVersion /\ OpenShift # v /\ AtLeast(v, OpenShift)
    /\ history[1].state = "Completed"
    /\ history' = <<[state |-> "Partial", version |-> v]>> \o history
    /\ UNCHANGED <<cr, stale, objects, console, queue, pass>>

UpgradeCompletes ==
    /\ history # <<>> /\ history[1].state = "Partial" /\ Prompt
    /\ history' = [history EXCEPT ![1].state = "Completed"]
    /\ UNCHANGED <<cr, objects, console, olm, caches, stale, queue, pass,
                   installed, pod, bounds>>

-----------------------------------------------------------------------------
PassStep ==
    \/ RegisterFinalizer
    \/ \E k \in Created : ReconcileOperand(k)
    \/ ReconcileSubscription \/ SubscriptionPanics
    \/ EnterConsolePlugin \/ PatchClusterConsole \/ PatchStatus
    \/ \E k \in PluginOperands : DisableOperand(k)
    \/ \E k \in Operands : RemoveOperand(k)
    \/ RemoveGpuCsv \/ RemoveSelfCsv \/ RemoveFinalizer

Dequeue(r) ==
    NothingToDo(r) \/ (r \in Addons /\ (StartReconcile(r) \/ StartRemoval(r)))

Worker ==
    \/ PassStep
    \/ \E a \in Addons : StartReconcile(a) \/ StartRemoval(a) \/ GetFails(a)
    \/ \E r \in Addons \cup {PolicyKey} : NothingToDo(r)

Sync == (\E a \in Addons : SyncAddon(a)) \/ (\E k \in Objects : SyncObject(k))
        \/ SyncConsole \/ Resync

Process == Jumpstart \/ StartManager \/ Crash \/ OperatorRemoved

Cluster == PlanInstall \/ InstallGpuOperator \/ UpgradeCompletes
           \/ \E k \in Lingering : FinishTermination(k)

Users ==
    \/ \E a \in Addons : UserCreates(a) \/ UserDeletes(a) \/ UserToggles(a)
                         \/ UserTouches(a)
    \/ \E k \in Contended : Drift(k) \/ ExternalDelete(k)
    \/ \E p \in OtherPlugins : OtherPluginAdded(p)
    \/ \E v \in Versions : UpgradeStarts(v)

Next == Sync \/ Worker \/ Process \/ Cluster \/ Users

Spec == Init /\ [][Next]_vars

\* The worker never stops in a pass; the queue is first in, first out, so a
\* request in it is taken in the end; watches deliver; a dead process is
\* restarted; other controllers finish what they began.  Fairness is strong
\* where only the bound Prompt disables a step now and then.
Fairness ==
    /\ WF_vars(PassStep)
    /\ \A r \in Addons \cup {PolicyKey} : SF_vars(Dequeue(r))
    /\ \A a \in Addons : WF_vars(SyncAddon(a))
    /\ \A k \in Objects : WF_vars(SyncObject(k))
    /\ WF_vars(SyncConsole)
    /\ WF_vars(Jumpstart) /\ WF_vars(StartManager) /\ WF_vars(OperatorRemoved)
    /\ SF_vars(PlanInstall) /\ SF_vars(InstallGpuOperator)
    /\ SF_vars(UpgradeCompletes)
    /\ \A k \in Lingering : SF_vars(FinishTermination(k))

FairSpec == Spec /\ Fairness

\* What happens after a long time: the informers resync again and again.
PatientSpec == FairSpec /\ WF_vars(Resync)
=============================================================================
