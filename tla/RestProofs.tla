----------------------------- MODULE RestProofs -----------------------------
(***************************************************************************)
(* What holds whenever the GPUAddon controller has come to rest: no wake-  *)
(* up is lost.  RestInv is inductive relative to IInv, and SteadyInv as    *)
(* long as no upgrade is completed.  For any set of GPUAddons, any lag of  *)
(* the caches and any number of edits, failures and crashes.               *)
(***************************************************************************)
EXTENDS GPUAddonSafetyProofs

-----------------------------------------------------------------------------
(* Events: no change of an owned object goes unannounced                    *)

LEMMA OwnsKindsAre ==
    /\ OwnsKinds \subseteq Objects /\ OwnsKinds \subseteq Operands
    /\ Owned \subseteq OwnsKinds /\ PluginOperands \subseteq OwnsKinds
    /\ \A a \in Addons : a # NoAddon
  BY ObjectsAssumption DEF OwnsKinds, Objects, Operands, Owned, PluginOperands

\* The owners of an owned object before and after a change will be asked for.
Announced ==
    \A k \in OwnsKinds :
        obj'[k] # obj[k]
          => {obj[k].owner, obj'[k].owner} \ {NoAddon} \subseteq news'[k]

LEMMA ObjectsChangeLoudly ==
    ASSUME TypeInv, [Next]_vars
    PROVE  UNCHANGED obj \/ Notify
<1>1. CASE Sync
  BY <1>1 DEF Sync, SyncAddon, SyncObject, SyncConsole, Resync, api, objects
<1>2. CASE PassStep
  BY <1>2 DEF PassStep, RegisterFinalizer, ReconcileOperand, ReconcileSubscription,
     SubscriptionPanics, EnterConsolePlugin, PatchClusterConsole, PatchStatus,
     DisableOperand, RemoveOperand, RemoveGpuCsv, RemoveSelfCsv, RemoveFinalizer,
     api, objects
<1>3. ASSUME NEW r, Dequeue(r) \/ GetFails(r) PROVE UNCHANGED obj
  BY <1>3 DEF Dequeue, NothingToDo, StartReconcile, StartRemoval, Take, GetFails,
     api, objects
<1>4. CASE Process
  BY <1>4 DEF Process, Jumpstart, StartManager, Crash, OperatorRemoved, api, objects
<1>5. CASE Cluster
  BY <1>5 DEF Cluster, PlanInstall, InstallGpuOperator, UpgradeCompletes,
     FinishTermination, objects
<1>6. CASE Users
  BY <1>6 DEF Users, UserCreates, UserDeletes, UserToggles, UserTouches, EditAddon,
     ChangeAddon, Drift, ExternalDelete, EditObject, OtherPluginAdded,
     UpgradeStarts, objects
<1>7. CASE UNCHANGED vars
  BY <1>7 DEF vars
<1>. QED
  BY <1>1, <1>2, <1>3, <1>4, <1>5, <1>6, <1>7 DEF Next, Worker, Dequeue

LEMMA ChangesAnnounced ==
    ASSUME TypeInv, [Next]_vars, pod = "running"
    PROVE  Announced
<1>1. CASE UNCHANGED obj
  BY <1>1 DEF Announced
<1>2. CASE Notify
  BY <1>2, OwnsKindsAre DEF Announced, Notify, Requests
<1>. QED  BY <1>1, <1>2, ObjectsChangeLoudly

\* A request never gets lost on its way from an event to the queue.
LEMMA NewsTravel ==
    ASSUME TypeInv, [Next]_vars, pod = "running", pod' = "running"
    PROVE  /\ \A k \in Objects : news[k] \subseteq news'[k] \cup queue'
           /\ \A k \in Objects : seen'[k] = seen[k] \/ seen'[k] = obj'[k]
           /\ \A k \in Objects : seen'[k] # obj'[k] => news[k] \subseteq news'[k]
<1>1. ASSUME NEW k \in Objects, SyncObject(k)
      PROVE  /\ \A j \in Objects : news[j] \subseteq news'[j] \cup queue'
             /\ \A j \in Objects \ {k} : seen'[j] = seen[j] /\ news'[j] = news[j]
             /\ seen'[k] = obj'[k]
  BY <1>1 DEF SyncObject, TypeInv, TypeOK
<1>2. CASE UNCHANGED <<seen, news>>
  BY <1>2
<1>3. CASE UNCHANGED seen /\ Notify
  BY <1>3 DEF Notify
<1>4. \/ \E k \in Objects : SyncObject(k)
      \/ UNCHANGED seen /\ (UNCHANGED news \/ Notify)
  <2>1. CASE Sync
    BY <2>1 DEF Sync, SyncAddon, SyncConsole, Resync, api, objects, caches
  <2>2. CASE PassStep
    BY <2>2 DEF PassStep, RegisterFinalizer, ReconcileOperand, ReconcileSubscription,
       SubscriptionPanics, EnterConsolePlugin, PatchClusterConsole, PatchStatus,
       DisableOperand, RemoveOperand, RemoveGpuCsv, RemoveSelfCsv, RemoveFinalizer,
       api, objects, caches
  <2>3. ASSUME NEW r, Dequeue(r) \/ GetFails(r) PROVE UNCHANGED <<seen, news>>
    BY <2>3 DEF Dequeue, NothingToDo, StartReconcile, StartRemoval, Take, GetFails,
       api, objects, caches
  <2>4. CASE Process
    BY <2>4 DEF Process, Jumpstart, StartManager, Crash, Die, OperatorRemoved, api,
       objects, caches
  <2>5. CASE Cluster
    BY <2>5 DEF Cluster, PlanInstall, InstallGpuOperator, UpgradeCompletes,
       FinishTermination, objects, caches
  <2>6. CASE Users
    BY <2>6 DEF Users, UserCreates, UserDeletes, UserToggles, UserTouches, EditAddon,
       ChangeAddon, Drift, ExternalDelete, EditObject, OtherPluginAdded,
       UpgradeStarts, Edit, objects, caches
  <2>7. CASE UNCHANGED vars
    BY <2>7 DEF vars
  <2>. QED
    BY <2>1, <2>2, <2>3, <2>4, <2>5, <2>6, <2>7 DEF Next, Worker, Dequeue
<1>. QED  BY <1>1, <1>2, <1>3, <1>4

LEMMA ManagerStarts ==
    ASSUME [Next]_vars, pod # "running", pod' = "running"
    PROVE  StartManager
  BY DEF Next, Sync, SyncAddon, SyncObject, SyncConsole, Resync, Worker, PassStep,
     RegisterFinalizer, ReconcileOperand, ReconcileSubscription, SubscriptionPanics,
     Die, EnterConsolePlugin, PatchClusterConsole, PatchStatus, DisableOperand,
     RemoveOperand, RemoveGpuCsv, RemoveSelfCsv, RemoveFinalizer, StartReconcile,
     StartRemoval, NothingToDo, Take, GetFails, Process, Jumpstart, Crash,
     OperatorRemoved, Cluster, PlanInstall, InstallGpuOperator, UpgradeCompletes,
     FinishTermination, Users, UserCreates, UserDeletes, UserToggles, UserTouches,
     EditAddon, Drift, ExternalDelete, EditObject, OtherPluginAdded, UpgradeStarts,
     Edit, vars

LEMMA EventsKeptStep ==
    ASSUME TypeInv, EventsKept, [Next]_vars
    PROVE  EventsKept'
<1>1. CASE pod = "running" /\ pod' = "running"
  <2>1. Announced
    BY <1>1, ChangesAnnounced
  <2>. SUFFICES ASSUME NEW k \in OwnsKinds, seen'[k] # obj'[k]
                PROVE  {seen'[k].owner, obj'[k].owner} \ {NoAddon} \subseteq news'[k]
    BY DEF EventsKept
  <2>2. k \in Objects /\ seen'[k] = seen[k] /\ news[k] \subseteq news'[k]
    BY <1>1, NewsTravel, OwnsKindsAre
  <2>3. CASE obj'[k] = obj[k]
    BY <1>1, <2>2, <2>3 DEF EventsKept
  <2>4. CASE obj'[k] # obj[k]
    BY <1>1, <2>1, <2>2, <2>4 DEF EventsKept, Announced
  <2>. QED  BY <2>3, <2>4
<1>2. CASE pod # "running" /\ pod' = "running"
  BY <1>2, ManagerStarts, OwnsKindsAre DEF StartManager, EventsKept
<1>3. CASE pod' # "running"
  BY <1>3 DEF EventsKept
<1>. QED  BY <1>1, <1>2, <1>3

-----------------------------------------------------------------------------
(* What wakes the controller stays until a pass starts                      *)

\* The steps of a pass but its start: one of an installing pass hands the
\* request back when it ends with an error, and a failed one stays failed.
LEMMA PassStepWakes ==
    ASSUME TypeInv, Safe, PassStep, pod' = "running"
    PROVE  /\ queue \subseteq queue' /\ stale \subseteq stale'
           /\ ~Idle
           /\ \A a \in Addons :
                Installs(a) /\ pass.failed
                  => Awake(a)'
<1>1. pass \in PassType /\ ~Idle /\ pass.req \in Addons
  BY DEF PassStep, RegisterFinalizer, ReconcileOperand, ReconcileSubscription,
     SubscriptionPanics, EnterConsolePlugin, PatchClusterConsole, PatchStatus,
     DisableOperand, RemoveOperand, RemoveGpuCsv, RemoveSelfCsv, RemoveFinalizer,
     At, Idle, TypeInv, TypeOK, PassHasAddon
<1>2. queue \subseteq queue'
  BY DEF PassStep, RegisterFinalizer, ReconcileOperand, ReconcileSubscription,
     SubscriptionPanics, Die, EnterConsolePlugin, PatchClusterConsole, PatchStatus,
     AfterStatus, DisableOperand, RemoveOperand, RemoveGpuCsv, RemoveSelfCsv,
     RetryRemoval, RemoveFinalizer, Return, ReturnError
<1>3. stale \subseteq stale'
  BY DEF PassStep, RegisterFinalizer, ReconcileOperand, ReconcileSubscription,
     SubscriptionPanics, Die, EnterConsolePlugin, PatchClusterConsole, PatchStatus,
     DisableOperand, RemoveOperand, RemoveGpuCsv, RemoveSelfCsv, RemoveFinalizer,
     WriteAddon
<1>4. ASSUME NEW a \in Addons, Installs(a), pass.failed
      PROVE  Awake(a)'
  <2>1. ASSUME pass'.req = a, pass'.mode \in {"reconcile", "disable"}, pass'.failed
        PROVE  Awake(a)'
    BY <2>1 DEF Awake, Installs
  <2>2. CASE RegisterFinalizer
    BY <1>1, <1>4, <2>1, <2>2 DEF RegisterFinalizer, FailWith, PassType, Installs, At
  <2>3. ASSUME NEW k, CreateOrPatch(k), At("reconcile", k) PROVE Awake(a)'
    BY <1>1, <1>4, <2>1, <2>3 DEF CreateOrPatch, AfterOperand, Fail, FailWith, Goto,
       Report, PassType, Installs, At
  <2>4. CASE ReconcileSubscription
    <3>1. CASE Fail("Subscription")
      BY <1>1, <1>4, <2>1, <3>1 DEF Fail, FailWith, PassType, Installs
    <3>. QED  BY <2>3, <2>4, <3>1 DEF ReconcileSubscription
  <2>5. CASE EnterConsolePlugin
    BY <1>1, <1>4, <2>1, <2>5 DEF EnterConsolePlugin, Fail, FailWith, Report,
       PassType, Installs, At
  <2>6. CASE PatchClusterConsole
    BY <1>1, <1>4, <2>1, <2>6 DEF PatchClusterConsole, Fail, FailWith, Report,
       PassType, Installs, At
  <2>7. CASE PatchStatus
    BY <1>1, <1>4, <2>7 DEF PatchStatus, AfterStatus, ReturnError, Installs, Awake
  <2>8. ASSUME NEW k \in PluginOperands, DisableOperand(k) PROVE Awake(a)'
    BY <1>1, <1>4, <2>1, <2>8 DEF DisableOperand, Fail, FailWith, PassType,
       Installs, At
  <2>9. ~SubscriptionPanics
    BY DEF SubscriptionPanics, Die
  <2>. QED
    BY <1>4, <2>2, <2>3, <2>4, <2>5, <2>6, <2>7, <2>8, <2>9
       DEF PassStep, ReconcileOperand, Installs, At, RemoveOperand, RemoveGpuCsv,
           RemoveSelfCsv, RemoveFinalizer
<1>. QED  BY <1>1, <1>2, <1>3, <1>4

\* The other steps leave the pass as it is, but for how old its copy is.
SamePass ==
    /\ pass'.mode = pass.mode /\ pass'.step = pass.step
    /\ pass'.req = pass.req /\ pass'.loc = pass.loc
    /\ pass'.conds = pass.conds /\ pass'.failed = pass.failed
    /\ pass'.stale => pass.stale \/ pass.req \in stale'

LEMMA OtherSteps ==
    ASSUME TypeInv, Safe, [Next]_vars, pod = "running", pod' = "running"
    PROVE  \/ PassStep
           \/ \E r \in Addons : StartReconcile(r) \/ StartRemoval(r)
           \/ /\ SamePass /\ installed' = installed
              /\ stale \subseteq stale' \cup queue'
              /\ \/ queue \subseteq queue'
                 \/ \E r \in Addons \cup {PolicyKey} :
                      NothingToDo(r) /\ queue \subseteq queue' \cup {r}
<1>1. CASE Sync
  BY <1>1 DEF Sync, SyncAddon, SyncObject, SyncConsole, Resync, SamePass, caches
<1>2. ASSUME NEW r, NothingToDo(r) \/ GetFails(r)
      PROVE  /\ SamePass /\ installed' = installed /\ UNCHANGED stale
             /\ queue \subseteq queue' \/ (NothingToDo(r) /\ queue \subseteq queue' \cup {r})
  BY <1>2 DEF NothingToDo, Take, GetFails, SamePass
<1>3. CASE Process
  BY <1>3 DEF Process, Jumpstart, StartManager, Crash, Die, OperatorRemoved
<1>4. CASE Cluster
  BY <1>4 DEF Cluster, PlanInstall, InstallGpuOperator, UpgradeCompletes,
     FinishTermination, SamePass, bounds
<1>5. CASE Users
  <2>1. ASSUME NEW a, pass' = PassSees(a), stale' = stale \cup {a}
        PROVE  SamePass
    BY <2>1 DEF PassSees, SamePass, TypeInv, TypeOK, PassType
  <2>2. ASSUME NEW a, NEW r, EditAddon(a, r)
        PROVE  SamePass /\ installed' = installed /\ UNCHANGED queue
                 /\ stale \subseteq stale'
    BY <2>1, <2>2 DEF EditAddon, ChangeAddon, WriteAddon, Edit
  <2>. QED
    BY <1>5, <2>2 DEF Users, UserCreates, UserDeletes, UserToggles, UserTouches,
       Drift, ExternalDelete, EditObject, OtherPluginAdded, UpgradeStarts, Edit,
       SamePass
<1>6. CASE UNCHANGED vars
  BY <1>6 DEF vars, SamePass
<1>. QED
  BY <1>1, <1>2, <1>3, <1>4, <1>5, <1>6 DEF Next, Worker

LEMMA AwakeKept ==
    ASSUME TypeInv, Safe, [Next]_vars, pod = "running", pod' = "running",
           NEW a \in Addons, Awake(a)
    PROVE  \/ Awake(a)'
           \/ StartReconcile(a) \/ StartRemoval(a) \/ NothingToDo(a)
<1>1. ASSUME a \in queue' \/ a \in stale' PROVE Awake(a)'
  BY <1>1 DEF Awake
<1>2. ASSUME NEW k \in Objects, a \in news[k] PROVE Awake(a)'
  BY <1>2, NewsTravel DEF Awake
<1>3. CASE PassStep
  BY <1>1, <1>2, <1>3, PassStepWakes DEF Awake
<1>4. ASSUME NEW r \in Addons, StartReconcile(r) \/ StartRemoval(r)
      PROVE  Awake(a)' \/ r = a
  BY <1>1, <1>2, <1>4 DEF StartReconcile, StartRemoval, Take, Awake, Installs, Idle
<1>5. CASE /\ SamePass
           /\ stale \subseteq stale' \cup queue'
           /\ \/ queue \subseteq queue'
              \/ \E r \in Addons \cup {PolicyKey} :
                   NothingToDo(r) /\ queue \subseteq queue' \cup {r}
  BY <1>1, <1>2, <1>5 DEF Awake, Installs, SamePass
<1>. QED  BY <1>3, <1>4, <1>5, OtherSteps

-----------------------------------------------------------------------------
(* What a pass knows and has reported                                       *)

\* How a step of an installing pass leaves the pass: it has failed, it has
\* come to an end, or it is one call further.
LEMMA InstallingPass ==
    ASSUME TypeInv, Safe, PassStep, pass.mode \in {"reconcile", "disable"},
           pod' = "running"
    PROVE  /\ pass \in PassType /\ pass.req \in Addons /\ ~Idle
           /\ pass'.mode # "idle" => pass'.mode # "remove" /\ pass'.req = pass.req
           /\ pass'.stale => pass.stale \/ pass.req \in stale'
<1>1. pass \in PassType /\ ~Idle /\ pass.req \in Addons
  BY DEF Idle, TypeInv, TypeOK, PassHasAddon
<1>2. ASSUME NEW c, FailWith(c)
      PROVE  pass'.mode # "remove" /\ pass'.req = pass.req /\ pass'.stale = pass.stale
  BY <1>1, <1>2, FailFields
<1>3. ASSUME NEW k, NEW s, Report(k, s) \/ Goto(s)
      PROVE  pass'.mode = pass.mode /\ pass'.req = pass.req /\ pass'.stale = pass.stale
  BY <1>1, <1>3 DEF Report, Goto, PassType
<1>4. ASSUME NEW k, CreateOrPatch(k)
      PROVE  pass'.mode # "remove" /\ pass'.req = pass.req /\ pass'.stale = pass.stale
  BY <1>2, <1>3, <1>4 DEF CreateOrPatch, AfterOperand, Fail
<1>5. CASE RegisterFinalizer
  BY <1>1, <1>2, <1>5 DEF RegisterFinalizer, WriteAddon, PassType
<1>6. CASE EnterConsolePlugin
  BY <1>1, <1>2, <1>3, <1>6 DEF EnterConsolePlugin, Fail, PassType
<1>7. ASSUME NEW k \in PluginOperands, DisableOperand(k)
      PROVE  pass'.mode # "remove" /\ pass'.req = pass.req /\ pass'.stale = pass.stale
  BY <1>1, <1>2, <1>7 DEF DisableOperand, Fail, PassType
<1>8. CASE PatchStatus
  <2>1. pass' = IdlePass
    BY <1>8 DEF PatchStatus, AfterStatus, Return, ReturnError
  <2>. QED  BY <1>1, <2>1 DEF IdlePass
<1>9. CASE ReconcileSubscription
  BY <1>1, <1>2, <1>4, <1>9 DEF ReconcileSubscription, Fail
<1>10. CASE PatchClusterConsole
  BY <1>1, <1>10 DEF PatchClusterConsole, Fail, FailWith, Report, PassType
<1>11. ASSUME NEW k, ReconcileOperand(k)
       PROVE  pass'.mode # "remove" /\ pass'.req = pass.req /\ pass'.stale = pass.stale
  BY <1>4, <1>11 DEF ReconcileOperand
<1>. QED
  BY <1>1, <1>5, <1>6, <1>7, <1>8, <1>9, <1>10, <1>11
     DEF PassStep, SubscriptionPanics, Die, RemoveOperand, RemoveGpuCsv,
         RemoveSelfCsv, RemoveFinalizer, At

\* A removing pass goes on or ends.
LEMMA RemovingPass ==
    ASSUME TypeInv, PassStep, pass.mode = "remove"
    PROVE  \/ pass' = IdlePass
           \/ /\ pass'.mode = "remove" /\ pass'.req = pass.req
              /\ pass'.loc = pass.loc /\ pass'.stale = pass.stale
<1>1. pass \in PassType
  BY DEF TypeInv, TypeOK
<1>2. ASSUME NEW s, NEW l, pass' = [pass EXCEPT !.step = s, !.left = l]
      PROVE  /\ pass'.mode = "remove" /\ pass'.req = pass.req
             /\ pass'.loc = pass.loc /\ pass'.stale = pass.stale
  BY <1>1, <1>2 DEF PassType
<1>3. ASSUME NEW k, RemoveOperand(k) PROVE pass' = IdlePass
                  \/ /\ pass'.mode = "remove" /\ pass'.req = pass.req
                     /\ pass'.loc = pass.loc /\ pass'.stale = pass.stale
  BY <1>2, <1>3 DEF RemoveOperand, ReturnError
<1>4. CASE RemoveGpuCsv
  BY <1>2, <1>4 DEF RemoveGpuCsv, ReturnError
<1>5. CASE RemoveSelfCsv
  BY <1>1, <1>5 DEF RemoveSelfCsv, RetryRemoval, ReturnError, Goto, PassType
<1>6. CASE RemoveFinalizer
  BY <1>6 DEF RemoveFinalizer, Return, ReturnError
<1>. QED
  BY <1>3, <1>4, <1>5, <1>6
     DEF PassStep, RegisterFinalizer, ReconcileOperand, ReconcileSubscription,
         SubscriptionPanics, EnterConsolePlugin, PatchClusterConsole, PatchStatus,
         DisableOperand, At

\* What StartPass makes of an idle pass.
LEMMA PassStarts ==
    ASSUME NEW r, StartReconcile(r) \/ StartRemoval(r)
    PROVE  /\ pass'.req = r /\ pass'.loc = crSeen[r] /\ pass'.stale = (r \in stale)
           /\ pass'.conds = {} /\ ~pass'.failed
           /\ stale' = stale /\ news' = news /\ Idle
           /\ StartReconcile(r) => /\ pass'.mode = "reconcile"
                                   /\ pass'.step = FirstStep(crSeen[r])
           /\ StartRemoval(r) => /\ pass'.mode = "remove"
                                 /\ crSeen[r].st = "terminating"
  BY DEF StartReconcile, StartRemoval, Take, StartPass, IdlePass, api, objects

LEMMA PassInformedStep ==
    ASSUME TypeInv, Safe, PassInformed, [Next]_vars
    PROVE  PassInformed'
<1>1. CASE pod' # "running"
  <2>1. Safe'
    BY TypeStep, SafeStep
  <2>. QED  BY <1>1, <2>1 DEF Safe, ResourcesOK, PassNeedsProcess, PassInformed
<1>2. CASE pod # "running" /\ pod' = "running"
  <2>1. pass' = pass /\ Idle
    BY <1>2, ManagerStarts DEF StartManager, Safe, ResourcesOK, PassNeedsProcess
  <2>. QED  BY <2>1 DEF PassInformed, Idle
<1>3. CASE pod = "running" /\ pod' = "running"
  <2>1. ASSUME NEW r \in Addons, StartReconcile(r) \/ StartRemoval(r)
        PROVE  PassInformed'
    BY <2>1, PassStarts DEF PassInformed, Awake
  <2>2. ASSUME ~Idle, ~Idle', pass'.req = pass.req,
               pass'.stale => pass.stale \/ pass.req \in stale'
        PROVE  pass'.stale => (\E a \in Addons : a = pass'.req /\ Awake(a)')
    <3>. SUFFICES ASSUME pass'.stale
                  PROVE  \E a \in Addons : a = pass'.req /\ Awake(a)'
      OBVIOUS
    <3>1. pass.req \in Addons
      BY <2>2 DEF TypeInv, PassHasAddon
    <3>2. CASE pass.req \in stale'
      BY <2>2, <3>1, <3>2 DEF Awake
    <3>3. CASE pass.stale
      <4>1. PICK a \in Addons : a = pass.req
        BY <3>1
      <4>2. Awake(a)
        BY <2>2, <3>3, <4>1 DEF PassInformed
      <4>3. ~StartReconcile(a) /\ ~StartRemoval(a) /\ ~NothingToDo(a)
        BY <2>2 DEF StartReconcile, StartRemoval, NothingToDo, Take
      <4>. QED  BY <1>3, <2>2, <4>1, <4>2, <4>3, AwakeKept
    <3>. QED  BY <2>2, <3>2, <3>3
  <2>3. ASSUME NEW a \in Addons, a = pass'.req, Awake(a)'
        PROVE  Awake(pass.req)'
    BY <2>3 DEF Awake, Installs
  <2>4. CASE PassStep
    <3>1. CASE pass.mode = "remove"
      BY <2>2, <2>3, <2>4, <3>1, RemovingPass DEF PassInformed, Idle, IdlePass
    <3>2. CASE pass.mode # "remove"
      <4>1. pass.mode \in {"reconcile", "disable"}
        BY <1>3, <2>4, <3>2, PassStepWakes DEF Idle, TypeInv, TypeOK, PassType
      <4>2. /\ ~Idle
            /\ ~Idle' => pass'.mode # "remove" /\ pass'.req = pass.req
            /\ pass'.stale => pass.stale \/ pass.req \in stale'
        BY <1>3, <2>4, <4>1, InstallingPass DEF Idle
      <4>. QED  BY <2>2, <2>3, <4>2 DEF PassInformed
    <3>. QED  BY <3>1, <3>2
  <2>5. CASE SamePass
    BY <2>2, <2>3, <2>5 DEF SamePass, PassInformed, Idle
  <2>. QED  BY <1>3, <2>1, <2>4, <2>5, OtherSteps
<1>. QED  BY <1>1, <1>2, <1>3

\* What has been reported before each step, and that Position is the order of
\* the calls.
LEMMA PositionsAre ==
    /\ DOMAIN Position = {"Finalizer", "NFD", "Subscription", "ClusterPolicy",
                          "EnterConsolePlugin", "Deployment", "Service",
                          "ConsolePlugin", "Console", "Status"}
    /\ Position["Finalizer"] = 0 /\ Position["NFD"] = 1
    /\ Position["Subscription"] = 2 /\ Position["ClusterPolicy"] = 3
    /\ Position["EnterConsolePlugin"] = 4 /\ Position["Deployment"] = 5
    /\ Position["Service"] = 6 /\ Position["ConsolePlugin"] = 7
    /\ Position["Console"] = 8 /\ Position["Status"] = 9
  BY DEF Position

LEMMA ReportedAre ==
    /\ Reported("Finalizer") = {} /\ Reported("NFD") = {}
    /\ Reported("Subscription") = {Success("NFD")}
    /\ Reported("ClusterPolicy") = {Success("NFD"), Success("Subscription")}
    /\ \A s \in {"EnterConsolePlugin", "Deployment", "Service", "ConsolePlugin",
                 "Console"} :
         Reported(s) =
           {Success("NFD"), Success("Subscription"), Success("ClusterPolicy")}
    /\ Reported("Status") =
         {Success("NFD"), Success("Subscription"), Success("ClusterPolicy"),
          Success("Console")}
    /\ \A k \in PluginOperands : Success(k) = Success("Console")
<1>. DEFINE Reporters == {"NFD", "Subscription", "ClusterPolicy", "Console"}
            By(s) == {j \in Reporters : Position[j] < Position[s]}
<1>1. /\ By("Finalizer") = {} /\ By("NFD") = {} /\ By("Subscription") = {"NFD"}
      /\ By("ClusterPolicy") = {"NFD", "Subscription"}
      /\ \A s \in {"EnterConsolePlugin", "Deployment", "Service", "ConsolePlugin",
                   "Console"} : By(s) = {"NFD", "Subscription", "ClusterPolicy"}
      /\ By("Status") = Reporters
  BY PositionsAre
<1>2. \A s : Reported(s) = {Success(k) : k \in By(s)}
  BY DEF Reported
<1>3. \A k \in PluginOperands : Success(k) = Success("Console")
  BY DEF PluginOperands, Success, ConditionOf
<1>. HIDE DEF By
<1>. QED  BY <1>1, <1>2, <1>3

LEMMA FailReports ==
    ASSUME pass \in PassType, NEW c, FailWith(c)
    PROVE  /\ PassReports' /\ pass'.failed
           /\ pass'.req = pass.req /\ pass'.mode = "reconcile"
  BY PositionsAre DEF FailWith, PassType, PassReports, PluginOperands

LEMMA CreateReports ==
    ASSUME TypeInv, Safe, PassReports, NEW k \in Operands, At("reconcile", k),
           CreateOrPatch(k)
    PROVE  PassReports'
<1>1. pass \in PassType /\ pass.mode = "reconcile" /\ pass.step = k
  BY DEF TypeInv, TypeOK, At
<1>2. CASE Fail(k)
  BY <1>1, <1>2, FailReports DEF Fail
<1>3. CASE AfterOperand(k) /\ k \in PluginOperands
  <2>1. /\ pass'.mode = "reconcile" /\ pass'.step = AfterCreate[k]
        /\ pass'.conds = pass.conds /\ pass'.failed = pass.failed
        /\ pass'.loc = pass.loc
    BY <1>1, <1>3 DEF AfterOperand, Goto, PassType
  <2>2. /\ k \in {"Deployment", "Service", "ConsolePlugin"}
        /\ AfterCreate[k] \in {"Service", "ConsolePlugin", "Console"}
    BY <1>3 DEF PluginOperands, AfterCreate
  <2>3. Reported(AfterCreate[k]) = Reported(k)
    BY <2>2, ReportedAre
  <2>4. pass.loc.plugin
    BY <1>1, <1>3 DEF PassReports
  <2>. QED  BY <1>1, <2>1, <2>2, <2>3, <2>4, PositionsAre DEF PassReports
<1>4. CASE AfterOperand(k) /\ k \notin PluginOperands
  <2>1. /\ pass'.mode = "reconcile" /\ pass'.step = AfterCreate[k]
        /\ pass'.conds = pass.conds \cup {Success(k)} /\ pass'.failed = pass.failed
    BY <1>1, <1>4 DEF AfterOperand, Report, PassType
  <2>2. /\ k \in {"NFD", "Subscription", "ClusterPolicy"}
        /\ AfterCreate[k] =
             IF k = "NFD" THEN "Subscription"
             ELSE IF k = "Subscription" THEN "ClusterPolicy" ELSE "EnterConsolePlugin"
    BY <1>4 DEF PluginOperands, AfterCreate, Operands
  <2>3. Reported(AfterCreate[k]) = Reported(k) \cup {Success(k)}
    BY <2>2, ReportedAre
  <2>4. /\ AfterCreate[k] \in DOMAIN Position
        /\ AfterCreate[k] \notin PluginOperands \cup {"Console"}
    BY <2>2, PositionsAre DEF PluginOperands
  <2>. QED  BY <1>1, <2>1, <2>3, <2>4 DEF PassReports
<1>. QED  BY <1>2, <1>3, <1>4 DEF CreateOrPatch

LEMMA InstallingPassReports ==
    ASSUME TypeInv, Safe, PassReports, PassStep,
           pass.mode \in {"reconcile", "disable"}, pod' = "running"
    PROVE  PassReports'
<1>1. pass \in PassType /\ pass.req \in Addons
  BY InstallingPass
<1>2. ASSUME NEW c, FailWith(c) PROVE PassReports'
  BY <1>1, <1>2, FailReports
<1>3. ASSUME NEW k, Fail(k) PROVE PassReports'
  BY <1>2, <1>3 DEF Fail
<1>4. ASSUME pass'.mode = "idle" PROVE PassReports'
  BY <1>4 DEF PassReports
<1>5. CASE RegisterFinalizer
  <2>1. CASE pass' = [pass EXCEPT !.step = "NFD", !.loc = cr'[pass.req]]
    BY <1>1, <1>5, <2>1, ReportedAre, PositionsAre
       DEF PassReports, RegisterFinalizer, At, PassType, PluginOperands
  <2>2. CASE pass' = [pass EXCEPT !.step = "Status", !.failed = TRUE, !.stale = TRUE]
    BY <1>1, <1>5, <2>2, PositionsAre
       DEF PassReports, RegisterFinalizer, At, PassType, PluginOperands
  <2>. QED  BY <1>2, <1>5, <2>1, <2>2 DEF RegisterFinalizer
<1>6. ASSUME NEW k \in Operands, ReconcileOperand(k) PROVE PassReports'
  BY <1>6, CreateReports DEF ReconcileOperand
<1>7. CASE ReconcileSubscription
  BY <1>3, <1>7, CreateReports DEF ReconcileSubscription, Operands
<1>8. CASE EnterConsolePlugin
  <2>1. CASE Report("ConsolePlugin", "Status")
    BY <1>1, <1>8, <2>1, ReportedAre, PositionsAre
       DEF Report, PassReports, EnterConsolePlugin, At, PassType, PluginOperands
  <2>2. CASE /\ pass.loc.plugin
             /\ pass' = [pass EXCEPT !.step = "Deployment"]
    BY <1>1, <1>8, <2>2, ReportedAre, PositionsAre
       DEF PassReports, EnterConsolePlugin, At, PassType, PluginOperands
  <2>3. CASE /\ ~pass.loc.plugin
             /\ pass' = [pass EXCEPT !.mode = "disable", !.step = "ConsolePlugin"]
    BY <1>1, <1>8, <2>3, ReportedAre, PositionsAre
       DEF PassReports, EnterConsolePlugin, At, PassType, PluginOperands
  <2>. QED  BY <1>3, <1>8, <2>1, <2>2, <2>3 DEF EnterConsolePlugin
<1>9. CASE PatchClusterConsole
  <2>1. CASE Report("ConsolePlugin", "Status")
    BY <1>1, <1>9, <2>1, ReportedAre, PositionsAre
       DEF Report, PassReports, PatchClusterConsole, At, PassType, PluginOperands
  <2>. QED  BY <1>3, <1>9, <2>1 DEF PatchClusterConsole
<1>10. CASE PatchStatus
  <2>1. pass' = IdlePass
    BY <1>10 DEF PatchStatus, AfterStatus, Return, ReturnError
  <2>. QED  BY <1>4, <2>1 DEF IdlePass
<1>11. ASSUME NEW k \in PluginOperands, DisableOperand(k) PROVE PassReports'
  <2>0. pass.step = k /\ pass.mode = "disable" /\ ~pass.loc.plugin
    BY <1>11 DEF DisableOperand, At, PassReports
  <2>1. CASE k = "Deployment"
             /\ pass' = [pass EXCEPT !.mode = "reconcile", !.step = "Status",
                                     !.conds = @ \cup {Success(k)}]
    BY <1>1, <2>0, <2>1, ReportedAre, PositionsAre
       DEF PassReports, PassType, PluginOperands
  <2>2. CASE k # "Deployment" /\ pass' = [pass EXCEPT !.step = AfterDelete[k]]
    <3>1. /\ k \in {"ConsolePlugin", "Service"}
          /\ AfterDelete[k] \in {"Service", "Deployment"}
      BY <2>2 DEF PluginOperands, AfterDelete
    <3>2. Reported(AfterDelete[k]) = Reported(k)
      BY <3>1, ReportedAre
    <3>. QED  BY <1>1, <2>0, <2>2, <3>1, <3>2, PositionsAre
       DEF PassReports, PassType, PluginOperands
  <2>. QED  BY <1>3, <1>11, <2>1, <2>2 DEF DisableOperand
<1>. QED
  BY <1>5, <1>6, <1>7, <1>8, <1>9, <1>10, <1>11
     DEF PassStep, Created, SubscriptionPanics, Die, RemoveOperand, RemoveGpuCsv,
         RemoveSelfCsv, RemoveFinalizer, At

LEMMA PassReportsStep ==
    ASSUME TypeInv, Safe, PassReports, [Next]_vars
    PROVE  PassReports'
<1>1. ASSUME pass'.mode \in {"idle", "remove"} PROVE PassReports'
  BY <1>1 DEF PassReports
<1>2. CASE pod' # "running"
  <2>1. Safe'
    BY TypeStep, SafeStep
  <2>. QED  BY <1>1, <1>2, <2>1 DEF Safe, ResourcesOK, PassNeedsProcess, Idle
<1>3. CASE pod # "running" /\ pod' = "running"
  <2>1. pass' = pass /\ Idle
    BY <1>3, ManagerStarts DEF StartManager, Safe, ResourcesOK, PassNeedsProcess
  <2>. QED  BY <1>1, <2>1 DEF Idle
<1>4. CASE pod = "running" /\ pod' = "running"
  <2>1. ASSUME NEW r \in Addons, StartReconcile(r) PROVE PassReports'
    BY <2>1, PassStarts, ReportedAre, PositionsAre
       DEF PassReports, FirstStep, PluginOperands
  <2>2. ASSUME NEW r \in Addons, StartRemoval(r) PROVE PassReports'
    BY <1>1, <2>2, PassStarts
  <2>3. CASE PassStep
    <3>1. pass.mode \in {"reconcile", "disable"} \/ pass.mode = "remove"
      BY <1>4, <2>3, PassStepWakes DEF Idle, TypeInv, TypeOK, PassType
    <3>2. CASE pass.mode = "remove"
      BY <1>1, <2>3, <3>2, RemovingPass DEF IdlePass
    <3>. QED  BY <1>4, <2>3, <3>1, <3>2, InstallingPassReports
  <2>4. CASE SamePass
    BY <2>4 DEF SamePass, PassReports
  <2>. QED  BY <1>4, <2>1, <2>2, <2>3, <2>4, OtherSteps
<1>. QED  BY <1>2, <1>3, <1>4

-----------------------------------------------------------------------------
(* A GPUAddon for which no other pass is on its way after a step            *)

\* A GPUAddon is written with an event under way for it.
LEMMA WritesWake ==
    ASSUME TypeInv, [Next]_vars, NEW a \in Addons, a \notin stale'
    PROVE  cr'[a] = cr[a]
<1>1. ASSUME NEW b, NEW r, WriteAddon(b, r) PROVE cr'[a] = cr[a]
  BY <1>1 DEF WriteAddon, TypeInv, TypeOK
<1>2. CASE Sync
  BY <1>2 DEF Sync, SyncAddon, SyncObject, SyncConsole, Resync, api
<1>3. CASE PassStep
  <2>1. CASE PatchStatus
    <3>. DEFINE phase == PhaseOf(pass.conds, pass.failed, pass.loc.phase)
                status(restamped) ==
                  [cr[pass.req] EXCEPT
                     !.phase = IF phase # pass.loc.phase THEN phase ELSE @,
                     !.conds = IF pass.conds # pass.loc.conds \/ restamped
                               THEN pass.conds ELSE @]
    <3>1. \/ UNCHANGED cr
          \/ \E restamped \in Restamped : WriteAddon(pass.req, status(restamped))
      BY <2>1 DEF PatchStatus
    <3>. QED  BY <1>1, <3>1
  <2>. QED
    BY <1>1, <1>3, <2>1 DEF PassStep, RegisterFinalizer, ReconcileOperand,
       ReconcileSubscription, SubscriptionPanics, EnterConsolePlugin,
       PatchClusterConsole, DisableOperand, RemoveOperand, RemoveGpuCsv,
       RemoveSelfCsv, RemoveFinalizer, api
<1>4. ASSUME NEW r, Dequeue(r) \/ GetFails(r) PROVE UNCHANGED cr
  BY <1>4 DEF Dequeue, NothingToDo, StartReconcile, StartRemoval, Take, GetFails, api
<1>5. CASE Process
  BY <1>1, <1>5 DEF Process, Jumpstart, StartManager, Crash, OperatorRemoved, api
<1>6. CASE Cluster
  BY <1>6 DEF Cluster, PlanInstall, InstallGpuOperator, UpgradeCompletes,
     FinishTermination
<1>7. CASE Users
  BY <1>1, <1>7 DEF Users, UserCreates, UserDeletes, UserToggles, UserTouches,
     EditAddon, ChangeAddon, Drift, ExternalDelete, EditObject, OtherPluginAdded,
     UpgradeStarts
<1>8. CASE UNCHANGED vars
  BY <1>8 DEF vars
<1>. QED
  BY <1>2, <1>3, <1>4, <1>5, <1>6, <1>7, <1>8 DEF Next, Worker, Dequeue

\* The step disturbs neither a nor what a owns.
Undisturbed(a) ==
    /\ a \in Asleep /\ a \in Asleep' /\ pod = "running" /\ pod' = "running"
    /\ cr'[a] = cr[a]
    /\ \A k \in OwnsKinds :
         obj[k].owner = a \/ obj'[k].owner = a => obj'[k] = obj[k]

\* Sleep begins with the start of a pass, and with nothing else.
LEMMA AsleepSteps ==
    ASSUME TypeInv, Safe, [Next]_vars, NEW a \in Addons, a \in Asleep'
    PROVE  pod = "running" /\ (StartReconcile(a) \/ Undisturbed(a))
<1>1. pod' = "running" /\ ~Awake(a)' /\ cr'[a].st = "live"
  BY DEF Asleep
<1>2. a \notin stale' /\ a \notin queue' /\ \A k \in Objects : a \notin news'[k]
  BY <1>1 DEF Awake
<1>3. cr'[a] = cr[a]
  BY <1>2, WritesWake
<1>4. pod = "running"
  <2>1. SUFFICES ASSUME pod # "running" PROVE FALSE
    OBVIOUS
  <2>2. StartManager
    BY <1>1, <2>1, ManagerStarts
  <2>3. Present(cr[a])
    BY <1>1, <1>3 DEF Present
  <2>. QED  BY <1>2, <2>2, <2>3 DEF StartManager
<1>5. CASE Awake(a)
  <2>1. StartReconcile(a) \/ StartRemoval(a) \/ NothingToDo(a)
    BY <1>1, <1>4, <1>5, AwakeKept
  <2>2. ASSUME StartRemoval(a) \/ NothingToDo(a) PROVE FALSE
    <3>1. crSeen[a].st # "live" /\ stale' = stale
      BY <2>2 DEF StartRemoval, NothingToDo, Take
    <3>2. crSeen[a] = cr[a]
      BY <1>2, <3>1 DEF Safe, ResourcesOK, CopiesCurrent
    <3>. QED  BY <1>1, <1>3, <3>1, <3>2
  <2>. QED  BY <1>4, <2>1, <2>2
<1>6. CASE ~Awake(a)
  <2>1. a \in Asleep
    BY <1>1, <1>3, <1>4, <1>6 DEF Asleep
  <2>2. Announced
    BY <1>4, ChangesAnnounced
  <2>3. \A k \in OwnsKinds :
          obj[k].owner = a \/ obj'[k].owner = a => obj'[k] = obj[k]
    BY <1>2, <2>2, OwnsKindsAre DEF Announced
  <2>. QED  BY <1>1, <1>3, <1>4, <2>1, <2>3 DEF Undisturbed
<1>. QED  BY <1>5, <1>6

\* What the controller knows about a GPUAddon that is asleep is true.
LEMMA AsleepKnown ==
    ASSUME TypeInv, Safe, RestInv, NEW a \in Addons, a \in Asleep
    PROVE  /\ Installs(a) => ~pass.failed /\ ~pass.stale /\ pass.loc = cr[a]
                               /\ pass.conds = Reported(pass.step)
           /\ \A k \in OwnsKinds :
                obj[k].owner = a => seen[k] = obj[k] /\ Present(obj[k])
<1>1. ~Awake(a) /\ pod = "running"
  BY DEF Asleep
<1>2. ASSUME Installs(a)
      PROVE  ~pass.failed /\ ~pass.stale /\ pass.loc = cr[a]
               /\ pass.conds = Reported(pass.step)
  <2>1. ~Idle /\ pass.req = a /\ ~pass.failed
    BY <1>1, <1>2 DEF Installs, Idle, Awake
  <2>2. ~pass.stale
    BY <1>1, <2>1 DEF RestInv, PassInformed
  <2>3. pass.loc = cr[a]
    BY <2>1, <2>2 DEF Safe, ResourcesOK, CopiesCurrent
  <2>. QED  BY <1>2, <2>1, <2>2, <2>3 DEF RestInv, PassReports, Installs
<1>3. ASSUME NEW k \in OwnsKinds, obj[k].owner = a
      PROVE  seen[k] = obj[k] /\ Present(obj[k])
  <2>1. a # NoAddon /\ k \in Objects /\ a \notin news[k]
    BY <1>1, OwnsKindsAre DEF Awake
  <2>2. seen[k] = obj[k]
    BY <1>1, <1>3, <2>1 DEF RestInv, EventsKept
  <2>3. Present(obj[k])
    BY <1>3, <2>1 DEF Safe, ObjectsOK, AbsentIsUnowned
  <2>. QED  BY <2>2, <2>3
<1>. QED  BY <1>2, <1>3

\* A write for the owner it gives an object either wakes the controller or has
\* found everything in place.
LEMMA AcceptedSettles ==
    ASSUME TypeInv, Safe, RestInv, NEW a \in Addons, Undisturbed(a),
           NEW k \in Owned, pass.req = a, Acceptable(k), obj' = Written(k)
    PROVE  /\ obj'[k] = obj[k] /\ seen[k] = obj[k] /\ Present(obj[k])
           /\ obj[k].owner = a /\ obj[k].spec = Desired(k)
<1>. DEFINE new == Applied(k, a, seen[k], obj[k], Desired(k))
<1>1. /\ k \in OwnsKinds /\ k \in Objects /\ a # NoAddon
      /\ obj[k] \in ObjectType /\ seen[k] \in ObjectType
  BY OwnsKindsAre DEF TypeInv, TypeOK
<1>2. obj'[k] = new /\ Accepted(k, a, seen[k], obj[k], Desired(k))
  BY <1>1 DEF Written, Acceptable, TypeInv, TypeOK
<1>3. obj[k].owner = a \/ new.owner = a => new = obj[k]
  BY <1>1, <1>2 DEF Undisturbed
<1>4. obj[k].owner = a => seen[k] = obj[k] /\ Present(obj[k])
  BY <1>1, AsleepKnown DEF Undisturbed
<1>5. \A c \in ObjectType : seen[k] = c /\ obj[k] # c => obj[k].owner # a /\ c.owner # a
  <2>1. a \notin news[k] /\ pod = "running"
    BY <1>1 DEF Undisturbed, Asleep, Awake
  <2>. QED  BY <1>1, <2>1 DEF RestInv, EventsKept
<1>6. Present(seen[k])
  BY <1>2, <1>3, <1>1 DEF Applied, Accepted, Live, Present
<1>7. Present(obj[k])
  BY <1>1, <1>2, <1>5, <1>6 DEF Accepted, Patched
<1>8. obj[k].owner = a
  <2>1. new.owner = IF seen[k].owner # a THEN a ELSE obj[k].owner
    BY <1>1, <1>6, <1>7 DEF Applied, ObjectType
  <2>. QED  BY <1>1, <1>3, <1>5, <2>1
<1>9. seen[k] = obj[k] /\ new = obj[k]
  BY <1>3, <1>4, <1>8
<1>10. obj[k].spec = Desired(k)
  <2>1. new.spec = IF seen[k].spec # Desired(k) THEN Desired(k) ELSE obj[k].spec
    BY <1>1, <1>6, <1>7 DEF Applied, ObjectType
  <2>. QED  BY <1>9, <2>1
<1>. QED  BY <1>2, <1>7, <1>8, <1>9, <1>10

-----------------------------------------------------------------------------
(* The steps of a pass for a GPUAddon that stays asleep: nothing fails      *)

Creates(k) ==
    /\ At("reconcile", k) /\ Acceptable(k) /\ obj' = Written(k) /\ AfterOperand(k)
    /\ IF k = "Subscription" THEN ReportInstalled ELSE UNCHANGED installed

Enters ==
    /\ At("reconcile", "EnterConsolePlugin") /\ UNCHANGED <<obj, console, installed>>
    /\ IF SupportsPlugin
       THEN pass' = IF pass.loc.plugin
                    THEN [pass EXCEPT !.step = "Deployment"]
                    ELSE [pass EXCEPT !.mode = "disable", !.step = "ConsolePlugin"]
       ELSE Report("ConsolePlugin", "Status")

Lists ==
    /\ At("reconcile", "Console") /\ UNCHANGED <<obj, installed>>
    /\ console' = PatchedPlugins /\ Report("ConsolePlugin", "Status")

Disables(k) ==
    /\ At("disable", k) /\ obj' = Erased(k) /\ UNCHANGED <<console, installed>>
    /\ pass' = IF k = "Deployment"
               THEN [pass EXCEPT !.mode = "reconcile", !.step = "Status",
                                 !.conds = @ \cup {Success(k)}]
               ELSE [pass EXCEPT !.step = AfterDelete[k]]

Concludes(a) ==
    /\ At("reconcile", "Status") /\ pass' = IdlePass
    /\ ReadyStatus(a) /\ UNCHANGED <<obj, console, installed>>

LEMMA AllReported ==
    Reported("Status") = {[type |-> t, status |-> "True"] : t \in ConditionTypes}
<1>1. Reported("Status") =
        {Success("NFD"), Success("Subscription"), Success("ClusterPolicy"),
         Success("Console")}
  BY ReportedAre
<1>2. /\ Success("NFD") = [type |-> "NodeFeatureDiscoveryDeployed", status |-> "True"]
      /\ Success("Subscription") = [type |-> "SubscriptionDeployed", status |-> "True"]
      /\ Success("ClusterPolicy") = [type |-> "ClusterPolicyDeployed", status |-> "True"]
      /\ Success("Console") = [type |-> "ConsolePluginDeployed", status |-> "True"]
  BY DEF Success, ConditionOf
<1>. QED  BY <1>1, <1>2 DEF ConditionTypes

\* The status patch of a pass whose copy is current leaves a Ready status when
\* it finds nothing to send.
LEMMA StatusConcludes ==
    ASSUME TypeInv, Safe, RestInv, NEW a \in Addons, Undisturbed(a), Installs(a),
           PatchStatus
    PROVE  Concludes(a)
<1>1. /\ At("reconcile", "Status") /\ pass' = IdlePass
      /\ UNCHANGED <<obj, console, installed>>
  BY DEF PatchStatus, AfterStatus, Return, ReturnError, objects
<1>2. /\ pass.req = a /\ ~pass.failed /\ pass.loc = cr[a]
      /\ pass.conds = Reported("Status")
  BY <1>1, AsleepKnown DEF Undisturbed, Installs, At
<1>3. a \notin stale' /\ a \notin queue' /\ cr'[a] = cr[a]
  BY DEF Undisturbed, Asleep, Awake
<1>4. pass.conds = {[type |-> t, status |-> "True"] : t \in ConditionTypes}
  BY <1>2, AllReported
<1>5. PhaseOf(pass.conds, pass.failed, pass.loc.phase) = "Ready"
  <2>1. ASSUME NEW c \in pass.conds
        PROVE  c.status = "True" /\ c.type \in ConditionTypes
    BY <1>4
  <2>2. \A t \in ConditionTypes : ~UpdateHasSuffix(t)
    BY DEF ConditionTypes, UpdateHasSuffix
  <2>3. [type |-> "SubscriptionDeployed", status |-> "True"] \in pass.conds
    BY <1>4 DEF ConditionTypes
  <2>. QED  BY <1>2, <2>1, <2>2, <2>3 DEF PhaseOf
<1>. DEFINE status(restamped) ==
       [cr[a] EXCEPT
          !.phase = IF "Ready" # pass.loc.phase THEN "Ready" ELSE @,
          !.conds = IF pass.conds # pass.loc.conds \/ restamped
                    THEN pass.conds ELSE @]
<1>6. \E restamped \in Restamped :
        IF restamped \/ status(restamped) # cr[a]
        THEN WriteAddon(a, status(restamped)) ELSE UNCHANGED <<cr, stale>>
  BY <1>2, <1>3, <1>5 DEF PatchStatus, ReturnError
<1>7. \A r : ~WriteAddon(a, r)
  BY <1>3 DEF WriteAddon
<1>8. PICK restamped \in Restamped : ~restamped /\ status(restamped) = cr[a]
  BY <1>6, <1>7
<1>9. cr[a] \in AddonResource
  BY DEF TypeInv, TypeOK
<1>10. cr[a].phase = "Ready" /\ cr[a].conds = pass.conds
  BY <1>2, <1>8, <1>9 DEF AddonResource
<1>. QED  BY <1>1, <1>4, <1>10 DEF Concludes, ReadyStatus

LEMMA OwnPass ==
    ASSUME TypeInv, Safe, RestInv, PassStep, NEW a \in Addons, Undisturbed(a),
           Installs(a)
    PROVE  \/ \E k \in Operands : Creates(k)
           \/ Enters \/ Lists \/ Concludes(a)
           \/ \E k \in PluginOperands : Disables(k)
<1>1. /\ pass \in PassType /\ pass.req = a
      /\ pod' = "running" /\ a \notin stale' /\ ~Awake(a)'
  BY DEF TypeInv, TypeOK, Installs, Undisturbed, Asleep, Awake
<1>2. ASSUME NEW c, FailWith(c) PROVE FALSE
  <2>1. pass'.failed /\ Installs(a)'
    BY <1>1, <1>2, FailReports DEF Installs
  <2>. QED  BY <1>1, <2>1 DEF Awake
<1>3. ASSUME NEW k, Fail(k) PROVE FALSE
  BY <1>2, <1>3 DEF Fail
<1>4. ~RegisterFinalizer
  <2>1. ASSUME NEW r, WriteAddon(pass.req, r) PROVE FALSE
    BY <1>1, <2>1 DEF WriteAddon
  <2>. QED  BY <1>2, <2>1 DEF RegisterFinalizer
<1>5. ASSUME NEW k \in Operands, ReconcileOperand(k) PROVE Creates(k)
  BY <1>3, <1>5 DEF ReconcileOperand, CreateOrPatch, Creates
<1>6. ReconcileSubscription => Creates("Subscription")
  BY <1>3 DEF ReconcileSubscription, CreateOrPatch, Creates
<1>7. EnterConsolePlugin => Enters
  <2>1. SupportsPlugin => OpenShift # NoVersion
    BY DEF SupportsPlugin, IsOpenShiftVersionAtLeast, OpenShift
  <2>. QED
    BY <1>3, <2>1 DEF EnterConsolePlugin, Enters, SupportsPlugin, api, objects
<1>8. PatchClusterConsole => Lists
  BY <1>3 DEF PatchClusterConsole, Lists, objects
<1>9. PatchStatus => Concludes(a)
  BY StatusConcludes
<1>10. ASSUME NEW k \in PluginOperands, DisableOperand(k) PROVE Disables(k)
  BY <1>3, <1>10 DEF DisableOperand, Disables
<1>11. ~SubscriptionPanics
  BY <1>1 DEF SubscriptionPanics, Die
<1>12. "Subscription" \in Operands
  BY DEF Operands
<1>. QED
  BY <1>4, <1>5, <1>6, <1>7, <1>8, <1>9, <1>10, <1>11, <1>12
     DEF PassStep, Created, Installs, RemoveOperand, RemoveGpuCsv, RemoveSelfCsv,
         RemoveFinalizer, At

-----------------------------------------------------------------------------
(* RestInv is inductive                                                     *)

SettledHere(a) ==
    StatusSettled(a) /\ OwnersSettled(a) /\ GaugeSettled(a) /\ HasTheFloor(a)

LEMMA StartSettles ==
    ASSUME NEW a \in Addons, StartReconcile(a)
    PROVE  SettledHere(a)' /\ \A k \in DOMAIN Position \ {"Finalizer"} : Before(a, k)'
<1>1. /\ pass'.req = a /\ pass'.mode = "reconcile"
      /\ pass'.step \in {"Finalizer", "NFD"}
  BY PassStarts DEF FirstStep
<1>2. \A k \in DOMAIN Position \ {"Finalizer"} : Before(a, k)'
  BY <1>1, PositionsAre DEF Before
<1>3. Before(a, "NFD")' /\ Before(a, "Subscription")'
  BY <1>2, PositionsAre
<1>. QED
  BY <1>1, <1>2, <1>3 DEF SettledHere, StatusSettled, Installs, OwnersSettled,
     GaugeSettled, HasTheFloor

\* A pass that does not get past what a needs leaves it in place.
LEMMA SettledKept ==
    ASSUME TypeInv, Safe, RestInv, NEW a \in Addons, Undisturbed(a),
           Installs(a) => Installs(a)' \/ ReadyStatus(a),
           \A k \in {"NFD", "Subscription"} : Before(a, k) => Before(a, k)',
           installed' = installed \/ ReportInstalled
    PROVE  StatusSettled(a)' /\ OwnersSettled(a)' /\ GaugeSettled(a)'
<1>1. /\ StatusSettled(a) /\ OwnersSettled(a) /\ GaugeSettled(a)
      /\ cr'[a] = cr[a]
  BY DEF RestInv, Undisturbed
<1>2. StatusSettled(a)'
  BY <1>1 DEF StatusSettled, ReadyStatus
<1>3. "NFD" \in OwnsKinds /\ "Subscription" \in OwnsKinds
  BY DEF OwnsKinds
<1>4. OwnersSettled(a)'
  BY <1>1, <1>3 DEF OwnersSettled, Undisturbed
<1>5. GaugeSettled(a)'
  <2>1. CASE Before(a, "Subscription")
    BY <2>1 DEF GaugeSettled
  <2>2. CASE ~Before(a, "Subscription")
    <3>1. obj["Subscription"].owner = a
      BY <1>1, <2>2 DEF OwnersSettled
    <3>2. /\ obj'["Subscription"] = obj["Subscription"]
          /\ seen["Subscription"] = obj["Subscription"]
          /\ Present(obj["Subscription"])
      BY <1>3, <3>1, AsleepKnown DEF Undisturbed
    <3>. QED  BY <1>1, <2>2, <3>2 DEF GaugeSettled, ReportInstalled
  <2>. QED  BY <2>1, <2>2
<1>. QED  BY <1>2, <1>4, <1>5

LEMMA OwnPassSettles ==
    ASSUME TypeInv, Safe, RestInv, PassStep, NEW a \in Addons, Undisturbed(a),
           Installs(a)
    PROVE  SettledHere(a)'
<1>1. /\ pass \in PassType /\ pass.req = a /\ pass.step \in DOMAIN Position
      /\ OwnersSettled(a) /\ GaugeSettled(a)
  BY DEF TypeInv, TypeOK, Installs, RestInv, PassReports, Undisturbed
<1>2. ASSUME NEW k \in Operands, Creates(k)
      PROVE  SettledHere(a)'
  <2>1. /\ pass.mode = "reconcile" /\ pass.step = k
        /\ pass'.mode = "reconcile" /\ pass'.req = a /\ pass'.step = AfterCreate[k]
    BY <1>1, <1>2 DEF Creates, At, AfterOperand, Goto, Report, PassType
  <2>2. HasTheFloor(a)' /\ Installs(a)'
    BY <2>1 DEF HasTheFloor, Installs
  <2>3. \A j \in {"NFD", "Subscription"} : Before(a, j) /\ j # k => Before(a, j)'
    BY <2>1, PositionsAre DEF Before, AfterCreate, Operands
  <2>4. installed' = installed \/ ReportInstalled
    BY <1>2 DEF Creates
  <2>5. CASE k \notin {"NFD", "Subscription"}
    BY <2>2, <2>3, <2>4, <2>5, SettledKept DEF SettledHere
  <2>6. CASE k \in {"NFD", "Subscription"}
    <3>1. k \in Owned
      BY <2>6 DEF Owned
    <3>2. /\ obj'[k] = obj[k] /\ seen[k] = obj[k] /\ Present(obj[k])
          /\ obj[k].owner = a
      BY <1>1, <1>2, <3>1, AcceptedSettles DEF Creates
    <3>3. OwnersSettled(a)'
      <4>1. ASSUME NEW j \in {"NFD", "Subscription"}
            PROVE  obj'[j].owner = a \/ Before(a, j)'
        <5>1. j \in OwnsKinds
          BY DEF OwnsKinds
        <5>. QED  BY <1>1, <2>3, <3>2, <5>1 DEF OwnersSettled, Undisturbed
      <4>. QED  BY <4>1 DEF OwnersSettled
    <3>4. GaugeSettled(a)'
      <4>1. CASE k = "NFD"
        BY <2>1, <4>1, PositionsAre DEF GaugeSettled, Before, AfterCreate
      <4>2. CASE k = "Subscription"
        BY <1>2, <3>2, <4>2 DEF Creates, ReportInstalled, GaugeSettled
      <4>. QED  BY <2>6, <4>1, <4>2
    <3>. QED  BY <2>2, <3>3, <3>4 DEF SettledHere, StatusSettled
  <2>. QED  BY <2>5, <2>6
<1>3. ASSUME Position[pass.step] > 2, installed' = installed,
             \/ pass' = IdlePass /\ ReadyStatus(a)
             \/ pass'.req = a /\ pass'.mode \in {"reconcile", "disable"}
      PROVE  SettledHere(a)'
  <2>1. \A k \in {"NFD", "Subscription"} : ~Before(a, k)
    BY <1>1, <1>3, PositionsAre DEF Before
  <2>2. Installs(a) => Installs(a)' \/ ReadyStatus(a)
    BY <1>3 DEF Installs
  <2>3. HasTheFloor(a)'
    BY <1>3 DEF HasTheFloor, IdlePass
  <2>. QED  BY <1>3, <2>1, <2>2, <2>3, SettledKept DEF SettledHere
<1>4. CASE Enters
  <2>1. Position[pass.step] > 2
    BY <1>4, PositionsAre DEF Enters, At
  <2>2. pass'.req = a /\ pass'.mode \in {"reconcile", "disable"}
    BY <1>1, <1>4 DEF Enters, At, Report, PassType
  <2>. QED  BY <1>3, <1>4, <2>1, <2>2 DEF Enters
<1>5. CASE Lists
  BY <1>1, <1>3, <1>5, PositionsAre DEF Lists, At, Report, PassType
<1>6. CASE Concludes(a)
  BY <1>1, <1>3, <1>6, PositionsAre DEF Concludes, At
<1>7. ASSUME NEW k \in PluginOperands, Disables(k)
      PROVE  SettledHere(a)'
  <2>1. Position[pass.step] > 2
    BY <1>7, PositionsAre DEF Disables, At, PluginOperands
  <2>2. pass'.req = a /\ pass'.mode \in {"reconcile", "disable"}
    BY <1>1, <1>7 DEF Disables, At, PassType
  <2>. QED  BY <1>3, <1>7, <2>1, <2>2 DEF Disables
<1>. QED  BY <1>2, <1>4, <1>5, <1>6, <1>7, OwnPass

\* The gauge is touched by the Subscription reconciler alone.
LEMMA GaugeSteps ==
    ASSUME PassStep, pod' = "running"
    PROVE  installed' = installed \/ ReportInstalled
  BY DEF PassStep, RegisterFinalizer, ReconcileOperand, ReconcileSubscription,
     SubscriptionPanics, Die, EnterConsolePlugin, PatchClusterConsole, PatchStatus,
     DisableOperand, RemoveOperand, RemoveGpuCsv, RemoveSelfCsv, RemoveFinalizer

\* A pass for another GPUAddon gets no further than the NFD resource a owns.
LEMMA OthersPassStops ==
    ASSUME TypeInv, Safe, RestInv, PassStep, NEW a \in Addons, Undisturbed(a),
           ~Installs(a)
    PROVE  ~Installs(a)' /\ HasTheFloor(a)'
<1>1. /\ pass \in PassType /\ HasTheFloor(a) /\ OwnersSettled(a)
      /\ pod' = "running" /\ ~Idle
  BY PassStepWakes DEF TypeInv, TypeOK, RestInv, Undisturbed
<1>2. ASSUME pass'.mode \in {"idle", "remove"} PROVE ~Installs(a)' /\ HasTheFloor(a)'
  BY <1>2 DEF Installs, HasTheFloor
<1>3. CASE pass.mode = "remove"
  BY <1>2, <1>3, RemovingPass DEF IdlePass
<1>4. CASE pass.mode \in {"reconcile", "disable"}
  <2>1. pass.req # a
    BY <1>1, <1>4 DEF Installs
  <2>2. pass.step \in {"Finalizer", "NFD", "Status"}
    BY <1>1, <1>4, <2>1 DEF HasTheFloor
  <2>3. pass'.mode # "idle" => pass'.req = pass.req
    BY <1>1, <1>4, InstallingPass
  <2>4. ~Installs(a)'
    BY <2>1, <2>3 DEF Installs
  <2>5. ASSUME NEW c, FailWith(c) PROVE HasTheFloor(a)'
    BY <1>1, <2>5, FailFields DEF HasTheFloor
  <2>6. CASE RegisterFinalizer
    BY <1>1, <2>4, <2>5, <2>6 DEF RegisterFinalizer, HasTheFloor, PassType
  <2>7. CASE ReconcileOperand("NFD")
    <3>1. obj["NFD"].owner = a
      BY <2>1 DEF OwnersSettled, Before, RestInv, Undisturbed
    <3>2. seen["NFD"] = obj["NFD"] /\ Present(seen["NFD"])
      BY <3>1, AsleepKnown DEF OwnsKinds, Undisturbed
    <3>3. ~Acceptable("NFD")
      BY <2>1, <3>1, <3>2, OwnsKindsAre
         DEF Acceptable, Accepted, Controllable, Owned
    <3>4. FailWith({Failure("NFD")})
      BY <2>7, <3>3 DEF ReconcileOperand, CreateOrPatch, Fail
    <3>. QED  BY <2>4, <2>5, <3>4
  <2>8. CASE PatchStatus
    <3>1. pass' = IdlePass
      BY <2>8 DEF PatchStatus, AfterStatus, Return, ReturnError
    <3>. QED  BY <1>2, <3>1 DEF IdlePass
  <2>9. RegisterFinalizer \/ ReconcileOperand("NFD") \/ PatchStatus
    BY <1>1, <1>4, <2>2, PositionsAre
       DEF PassStep, Created, Operands, ReconcileOperand, ReconcileSubscription,
           SubscriptionPanics, EnterConsolePlugin, PatchClusterConsole,
           DisableOperand, PluginOperands, RemoveOperand, RemoveGpuCsv,
           RemoveSelfCsv, RemoveFinalizer, At
  <2>. QED  BY <2>4, <2>6, <2>7, <2>8, <2>9
<1>. QED  BY <1>1, <1>3, <1>4 DEF Idle, PassType

LEMMA RestStep == TypeInv /\ Safe /\ RestInv /\ [Next]_vars => RestInv'
<1>. SUFFICES ASSUME TypeInv, Safe, RestInv, [Next]_vars PROVE RestInv'
  OBVIOUS
<1>1. EventsKept' /\ PassInformed' /\ PassReports'
  BY EventsKeptStep, PassInformedStep, PassReportsStep DEF RestInv
<1>2. ASSUME NEW a \in Asleep' PROVE SettledHere(a)'
  <2>1. a \in Addons
    BY DEF Asleep
  <2>2. CASE StartReconcile(a)
    BY <2>1, <2>2, StartSettles
  <2>3. CASE Undisturbed(a)
    <3>1. /\ pod = "running" /\ pod' = "running"
          /\ HasTheFloor(a) /\ StatusSettled(a)
      BY <2>3 DEF Undisturbed, RestInv
    <3>2. CASE PassStep /\ Installs(a)
      BY <2>1, <2>3, <3>2, OwnPassSettles
    <3>3. ASSUME ~Installs(a), ~Installs(a)', HasTheFloor(a)',
                 installed' = installed \/ ReportInstalled
          PROVE  SettledHere(a)'
      <4>1. \A k \in {"NFD", "Subscription"} : ~Before(a, k)
        BY <3>3 DEF Before, Installs
      <4>. QED  BY <2>1, <2>3, <3>3, <4>1, SettledKept DEF SettledHere
    <3>4. CASE PassStep /\ ~Installs(a)
      BY <2>1, <2>3, <3>1, <3>3, <3>4, OthersPassStops, GaugeSteps
    <3>5. ASSUME NEW r \in Addons, StartReconcile(r) \/ StartRemoval(r)
          PROVE  SettledHere(a)'
      <4>1. CASE r = a /\ StartReconcile(r)
        BY <2>1, <4>1, StartSettles
      <4>2. CASE ~(r = a /\ StartReconcile(r))
        <5>1. ~Installs(a) /\ ~Installs(a)' /\ HasTheFloor(a)'
          BY <3>5, <4>2, PassStarts DEF Installs, Idle, HasTheFloor, FirstStep
        <5>2. installed' = installed
          BY <3>5 DEF StartReconcile, StartRemoval, Take
        <5>. QED  BY <3>3, <5>1, <5>2
      <4>. QED  BY <4>1, <4>2
    <3>6. CASE SamePass /\ installed' = installed
      <4>1. /\ Installs(a) => Installs(a)'
            /\ \A k \in {"NFD", "Subscription"} : Before(a, k) => Before(a, k)'
            /\ HasTheFloor(a)'
        BY <3>1, <3>6 DEF SamePass, Installs, Before, HasTheFloor
      <4>. QED  BY <2>1, <2>3, <3>6, <4>1, SettledKept DEF SettledHere
    <3>. QED  BY <3>1, <3>2, <3>4, <3>5, <3>6, OtherSteps
  <2>. QED  BY <2>1, <2>2, <2>3, AsleepSteps
<1>. QED  BY <1>1, <1>2 DEF RestInv, SettledHere

LEMMA RestInit == Init => RestInv
  BY DEF Init, RestInv, EventsKept, PassInformed, PassReports, Idle,
     IdlePass, Asleep

-----------------------------------------------------------------------------
(* The theorems that need no assumption                                     *)

\* A GPUAddon that the controller has no reason to look at again has what
\* every GPUAddon needs, a Ready status and a gauge that tells the truth.
THEOREM RestInvariant == Spec => []RestInv
<1>1. IInv => TypeInv /\ Safe
  BY SafeIsIInv
<1>. QED  BY <1>1, RestInit, RestStep, IInvInvariant, PTL DEF Spec

\* At rest nothing is on its way for any GPUAddon.
LEMMA RestIsAsleep ==
    ASSUME AtRest, NEW a \in Addons, cr[a].st = "live"
    PROVE  a \in Asleep /\ ~Installs(a) /\ \A k : ~Before(a, k)
<1>1. \A k \in Objects : news[k] = {}
  BY DEF AtRest, Behind
<1>. QED  BY <1>1 DEF AtRest, Asleep, Awake, Installs, Before, Idle

\* No error is forgotten and no status patch leaves an old value behind: at
\* rest every live GPUAddon is Ready with every condition True.
THEOREM StatusTellsOutcome == Spec => []StatusAtRest
<1>1. RestInv => StatusAtRest
  BY RestIsAsleep DEF StatusAtRest, RestInv, StatusSettled
<1>. QED  BY <1>1, RestInvariant, PTL

\* The gauge is written only in a pass and read off a cached Subscription, yet
\* at rest it agrees with the Subscription.
THEOREM GaugeTellsSubscription == Spec => []GaugeAtRest
<1>1. RestInv => GaugeAtRest
  BY RestIsAsleep DEF GaugeAtRest, RestInv, GaugeSettled
<1>. QED  BY <1>1, RestInvariant, PTL

-----------------------------------------------------------------------------
(* SteadyInv is inductive as long as no upgrade is completed                *)

SteadyHere(a) == OperandsSettled(a) /\ DisabledSettled(a)

\* A disabling pass for a still has to come to k.
Withdraws(a, k) ==
    pass.req = a /\ pass.mode = "disable" /\ Position[k] <= Position[pass.step]

\* What is asked for depends on the version and on the resource alone.
LEMMA WantsKept ==
    ASSUME UNCHANGED OpenShift, NEW a \in Addons, cr'[a] = cr[a]
    PROVE  /\ OwnedFor(a)' = OwnedFor(a)
           /\ SupportsPlugin' = SupportsPlugin
           /\ \A k : Desired(k)' = Desired(k)
<1>1. SupportsPlugin' = SupportsPlugin
  BY DEF SupportsPlugin, IsOpenShiftVersionAtLeast, OpenShift
<1>. QED  BY <1>1 DEF SupportsPlugin, OwnedFor, Desired

LEMMA OwnedForIs ==
    ASSUME NEW a \in Addons
    PROVE  /\ OwnedFor(a) \subseteq Owned
           /\ OwnedFor(a) \subseteq {"NFD", "Subscription"} \/ (cr[a].plugin /\ SupportsPlugin)
  BY DEF OwnedFor, Owned, SupportsPlugin

\* Nothing but a reconciling pass brings an operand of the console plugin to
\* life.
LEMMA PluginRevived ==
    ASSUME TypeInv, [Next]_vars, NEW k \in PluginOperands,
           obj[k].st # "live", obj'[k].st = "live"
    PROVE  ReconcileOperand(k)
<1>1. /\ k \in Objects /\ k \in Operands /\ obj[k] \in ObjectType
      /\ k \notin {"GpuCsv", "AddonCsv", "Subscription"}
  BY DEF PluginOperands, Objects, Operands, TypeInv, TypeOK
<1>2. ASSUME NEW j, NEW o, obj' = [obj EXCEPT ![j] = o] PROVE j = k /\ o.st = "live"
  BY <1>1, <1>2 DEF TypeInv, TypeOK
<1>3. ASSUME NEW j \in Objects, obj' = Erased(j) PROVE FALSE
  <2>1. obj' = [obj EXCEPT ![j] = Deleted(j, obj[j])]
    BY <1>3 DEF Erased, TypeInv, TypeOK
  <2>2. Deleted(j, obj[j]).st # "live"
    BY DEF Deleted, Absent, TypeInv, TypeOK, ObjectType
  <2>. QED  BY <1>2, <2>1, <2>2
<1>4. obj' # obj
  OBVIOUS
<1>5. CASE PassStep
  <2>1. ASSUME NEW j \in Operands, obj' = Written(j) PROVE j = k
    BY <1>1, <2>1 DEF Written, TypeInv, TypeOK
  <2>2. ASSUME NEW j \in Operands, ReconcileOperand(j) PROVE j = k
    BY <1>4, <2>1, <2>2 DEF ReconcileOperand, CreateOrPatch
  <2>3. ~ReconcileSubscription
    BY <1>1, <1>4, <2>1 DEF ReconcileSubscription, CreateOrPatch, Operands
  <2>4. ASSUME NEW j \in Operands, RemoveOperand(j) \/ DisableOperand(j) PROVE FALSE
    BY <1>3, <1>4, <2>4 DEF RemoveOperand, DisableOperand, Objects
  <2>5. ~RemoveGpuCsv /\ ~RemoveSelfCsv
    BY <1>3, <1>4 DEF RemoveGpuCsv, RemoveSelfCsv, Objects
  <2>. QED
    BY <1>4, <1>5, <2>2, <2>3, <2>4, <2>5
       DEF PassStep, Created, PluginOperands, Operands, RegisterFinalizer,
           SubscriptionPanics, EnterConsolePlugin, PatchClusterConsole, PatchStatus,
           RemoveFinalizer, api, objects
<1>6. ~Cluster
  <2>1. ASSUME NEW j \in Lingering, FinishTermination(j) PROVE FALSE
    BY <1>2, <2>1 DEF FinishTermination, Absent
  <2>2. ~InstallGpuOperator
    BY <1>1 DEF InstallGpuOperator, TypeInv, TypeOK
  <2>. QED  BY <1>4, <2>1, <2>2 DEF Cluster, PlanInstall, UpgradeCompletes, objects
<1>7. ~Users
  <2>1. ASSUME NEW j \in Contended, Drift(j) \/ ExternalDelete(j) PROVE FALSE
    <3>1. j \in Objects /\ obj[j].st = "live"
      BY <2>1, ControllerAssumption DEF Drift, ExternalDelete, Objects
    <3>2. j # k
      BY <3>1
    <3>. QED  BY <1>2, <2>1, <3>2 DEF Drift, ExternalDelete, EditObject
  <2>. QED
    BY <1>4, <2>1 DEF Users, UserCreates, UserDeletes, UserToggles, UserTouches,
       EditAddon, ChangeAddon, OtherPluginAdded, UpgradeStarts, objects
<1>. QED
  BY <1>4, <1>5, <1>6, <1>7
     DEF Next, vars, Worker, Sync, SyncAddon, SyncObject, SyncConsole, Resync,
         NothingToDo, StartReconcile, StartRemoval, Take, GetFails, Process,
         Jumpstart, StartManager, Crash, OperatorRemoved, api, objects

LEMMA SteadyKept ==
    ASSUME TypeInv, Safe, SteadyInv, [Next]_vars, UNCHANGED OpenShift,
           NEW a \in Addons, Undisturbed(a), ~(PassStep /\ Installs(a)),
           \A k \in DOMAIN Position : /\ Before(a, k) => Before(a, k)'
                                      /\ Withdraws(a, k) => Withdraws(a, k)'
    PROVE  SteadyHere(a)'
<1>1. /\ OperandsSettled(a) /\ DisabledSettled(a)
      /\ cr'[a] = cr[a] /\ RestInv /\ HasTheFloor(a)
  BY DEF SteadyInv, RestInv, Undisturbed
<1>2. /\ OwnedFor(a)' = OwnedFor(a) /\ SupportsPlugin' = SupportsPlugin
      /\ \A k : Desired(k)' = Desired(k)
  BY <1>1, WantsKept
<1>3. OperandsSettled(a)'
  <2>1. \A k \in OwnedFor(a) : k \in OwnsKinds /\ k \in DOMAIN Position
    BY OwnedForIs, PositionsAre, OwnsKindsAre DEF Owned
  <2>. QED  BY <1>1, <1>2, <2>1 DEF OperandsSettled, Undisturbed
<1>4. DisabledSettled(a)'
  <2>1. \A k \in PluginOperands : ~ReconcileOperand(k)
    <3>1. ASSUME NEW k \in PluginOperands, ReconcileOperand(k) PROVE FALSE
      <4>1. PassStep
        BY <3>1, OwnsKindsAre DEF PassStep, Created
      <4>2. Installs(a)
        BY <1>1, <3>1
           DEF HasTheFloor, Installs, ReconcileOperand, At, PluginOperands
      <4>. QED  BY <4>1, <4>2
    <3>. QED  BY <3>1
  <2>2. \A k \in PluginOperands : obj'[k].st = "live" => obj[k].st = "live"
    BY <2>1, PluginRevived
  <2>3. \A k \in PluginOperands \cup {"EnterConsolePlugin"} : k \in DOMAIN Position
    BY PositionsAre DEF PluginOperands
  <2>. QED  BY <1>1, <1>2, <2>2, <2>3 DEF DisabledSettled, Withdraws
<1>. QED  BY <1>3, <1>4 DEF SteadyHere

\* Each call of a pass is followed by the next one.
LEMMA NextPosition ==
    \A k \in Operands : Position[AfterCreate[k]] = Position[k] + 1
  BY PositionsAre DEF AfterCreate, Operands

LEMMA OwnPassSteady ==
    ASSUME TypeInv, Safe, SteadyInv, [Next]_vars, UNCHANGED OpenShift, PassStep,
           NEW a \in Addons, Undisturbed(a), Installs(a)
    PROVE  SteadyHere(a)'
<1>1. /\ OperandsSettled(a) /\ DisabledSettled(a)
      /\ cr'[a] = cr[a] /\ RestInv /\ PassReports
  BY DEF SteadyInv, RestInv, Undisturbed
<1>2. /\ OwnedFor(a)' = OwnedFor(a) /\ SupportsPlugin' = SupportsPlugin
      /\ \A k : Desired(k)' = Desired(k)
  BY <1>1, WantsKept
<1>3. /\ pass \in PassType /\ pass.req = a /\ pass.step \in DOMAIN Position
      /\ pass.loc.plugin = cr[a].plugin
      /\ pass.mode = "disable" => ~cr[a].plugin
      /\ pass.step \in PluginOperands \cup {"Console"} /\ pass.mode = "reconcile"
           => cr[a].plugin
  <2>1. pass.loc = cr[a]
    BY <1>1, AsleepKnown DEF Undisturbed
  <2>. QED  BY <1>1, <2>1 DEF TypeInv, TypeOK, Installs, PassReports
<1>4. \A k \in OwnedFor(a) : k \in Owned /\ k \in OwnsKinds /\ k \in Operands
  BY OwnedForIs, OwnsKindsAre
<1>5. ASSUME NEW k \in OwnedFor(a), ~Before(a, k)
      PROVE  obj'[k].owner = a /\ (obj'[k].st = "live" => obj'[k].spec = Desired(k))
  BY <1>1, <1>4, <1>5 DEF OperandsSettled, Undisturbed
<1>6. ASSUME \A k \in OwnedFor(a) : Before(a, k) => Before(a, k)'
      PROVE  OperandsSettled(a)'
  BY <1>2, <1>5, <1>6 DEF OperandsSettled
<1>7. \A k \in PluginOperands : obj'[k].st = "live" /\ obj[k].st # "live"
        => At("reconcile", k)
  BY PluginRevived DEF ReconcileOperand
<1>8. ASSUME NEW k \in Operands, Creates(k) PROVE SteadyHere(a)'
  <2>1. /\ pass.mode = "reconcile" /\ pass.step = k
        /\ pass'.mode = "reconcile" /\ pass'.req = a
        /\ Position[pass'.step] = Position[pass.step] + 1
    BY <1>3, <1>8, NextPosition DEF Creates, At, AfterOperand, Goto, Report, PassType
  <2>2. \A j \in DOMAIN Position : Position[j] \in Nat
                                     /\ (Position[j] = Position[k] => j = k)
    BY PositionsAre DEF Operands
  <2>3. \A j \in DOMAIN Position : Before(a, j) /\ j # k => Before(a, j)'
    BY <1>3, <2>1, <2>2 DEF Before
  <2>4. OperandsSettled(a)'
    <3>1. ASSUME NEW j \in OwnedFor(a)
          PROVE  \/ obj'[j].owner = a /\ (obj'[j].st = "live" => obj'[j].spec = Desired(j))
                 \/ Before(a, j)'
      <4>1. j \in DOMAIN Position
        BY <1>4, PositionsAre DEF Owned
      <4>2. CASE j = k
        BY <1>1, <1>3, <1>4, <1>8, <4>2, AcceptedSettles DEF Creates
      <4>. QED  BY <1>5, <2>3, <4>1, <4>2
    <3>. QED  BY <1>2, <3>1 DEF OperandsSettled
  <2>5. DisabledSettled(a)'
    <3>1. SUFFICES ASSUME ~cr[a].plugin, SupportsPlugin, NEW j \in PluginOperands
                   PROVE  obj'[j].st # "live" \/ Before(a, "EnterConsolePlugin")'
      BY <1>1, <1>2 DEF DisabledSettled
    <3>2. k \notin PluginOperands /\ k # "EnterConsolePlugin"
      BY <1>3, <2>1, <3>1 DEF Operands
    <3>3. obj[j].st # "live" \/ Before(a, "EnterConsolePlugin")
      BY <1>1, <2>1, <3>1 DEF DisabledSettled
    <3>. QED  BY <1>7, <2>1, <2>3, <3>2, <3>3, PositionsAre DEF At
  <2>. QED  BY <2>4, <2>5 DEF SteadyHere
<1>9. CASE Enters
  <2>1. /\ pass.mode = "reconcile" /\ pass.step = "EnterConsolePlugin"
        /\ UNCHANGED <<obj, console>>
    BY <1>9 DEF Enters, At
  <2>2. cr[a].plugin /\ SupportsPlugin =>
          pass'.mode = "reconcile" /\ pass'.req = a /\ pass'.step = "Deployment"
    BY <1>3, <1>9, <2>1 DEF Enters, PassType
  <2>3. ~cr[a].plugin /\ SupportsPlugin =>
          pass'.mode = "disable" /\ pass'.req = a /\ pass'.step = "ConsolePlugin"
    BY <1>3, <1>9, <2>1 DEF Enters, PassType
  <2>4. \A k \in OwnedFor(a) : Before(a, k) => Before(a, k)'
    <3>1. ASSUME NEW k \in OwnedFor(a), Before(a, k) PROVE Before(a, k)'
      <4>1. k \in {"Deployment", "Service"}
        BY <1>4, <2>1, <3>1, PositionsAre DEF Before, Owned
      <4>2. cr[a].plugin /\ SupportsPlugin
        BY <3>1, <4>1, OwnedForIs
      <4>. QED  BY <2>2, <4>1, <4>2, PositionsAre DEF Before
    <3>. QED  BY <3>1
  <2>5. DisabledSettled(a)'
    BY <1>1, <1>2, <2>3, PositionsAre DEF DisabledSettled, PluginOperands
  <2>. QED  BY <1>6, <2>4, <2>5 DEF SteadyHere
<1>10. CASE Lists
  <2>1. /\ pass.mode = "reconcile" /\ pass.step = "Console" /\ cr[a].plugin
        /\ console' = PatchedPlugins
    BY <1>3, <1>10 DEF Lists, At
  <2>2. \A k \in OwnedFor(a) : ~Before(a, k)
    BY <1>4, <2>1, PositionsAre DEF Before, Owned
  <2>. QED
    BY <1>1, <1>6, <2>1, <2>2 DEF SteadyHere, DisabledSettled
<1>11. CASE Concludes(a)
  <2>1. pass.mode = "reconcile" /\ pass.step = "Status" /\ UNCHANGED <<obj, console>>
    BY <1>11 DEF Concludes, At
  <2>2. \A k \in Operands \cup {"EnterConsolePlugin", "Console"} : ~Before(a, k)
    BY <2>1, PositionsAre DEF Before, Operands
  <2>. QED
    BY <1>1, <1>2, <1>4, <1>6, <2>1, <2>2
       DEF SteadyHere, DisabledSettled
<1>12. ASSUME NEW k \in PluginOperands, Disables(k) PROVE SteadyHere(a)'
  <2>1. /\ pass.mode = "disable" /\ pass.step = k /\ ~cr[a].plugin
        /\ k \in Objects
    BY <1>3, <1>12, OwnsKindsAre DEF Disables, At
  <2>2. \A j \in OwnedFor(a) : ~Before(a, j)
    BY <2>1 DEF Before
  <2>3. obj'[k].st # "live"
    BY <1>12, <2>1 DEF Disables, Erased, Deleted, Absent, TypeInv, TypeOK, ObjectType
  <2>4. \A j \in PluginOperands : obj'[j].st = "live" => obj[j].st = "live" /\ j # k
    BY <1>7, <2>1, <2>3 DEF At
  <2>5. DisabledSettled(a)'
    <3>1. SUFFICES ASSUME SupportsPlugin, NEW j \in PluginOperands, obj'[j].st = "live"
                   PROVE  Withdraws(a, j)'
      BY <1>1, <1>2 DEF DisabledSettled, Withdraws
    <3>2. Position[j] <= Position[k] /\ j # k
      BY <1>1, <2>1, <2>4, <3>1 DEF DisabledSettled, Before
    <3>3. k # "Deployment" /\ Position[j] <= Position[AfterDelete[k]]
      BY <3>1, <3>2, PositionsAre DEF PluginOperands, AfterDelete
    <3>4. pass'.req = a /\ pass'.mode = "disable" /\ pass'.step = AfterDelete[k]
      BY <1>3, <1>12, <2>1, <3>3 DEF Disables, PassType
    <3>. QED  BY <3>3, <3>4 DEF Withdraws
  <2>. QED  BY <1>6, <2>2, <2>5 DEF SteadyHere
<1>. QED  BY <1>1, <1>8, <1>9, <1>10, <1>11, <1>12, OwnPass

LEMMA SteadyStep ==
    TypeInv /\ Safe /\ SteadyInv /\ [Next]_vars /\ UNCHANGED OpenShift => SteadyInv'
<1>. SUFFICES ASSUME TypeInv, Safe, SteadyInv, [Next]_vars, UNCHANGED OpenShift
              PROVE  SteadyInv'
  OBVIOUS
<1>1. RestInv /\ RestInv'
  BY RestStep DEF SteadyInv
<1>2. ASSUME NEW a \in Asleep' PROVE SteadyHere(a)'
  <2>1. a \in Addons
    BY DEF Asleep
  <2>2. CASE StartReconcile(a)
    <3>1. \A k \in DOMAIN Position \ {"Finalizer"} : Before(a, k)'
      BY <2>1, <2>2, StartSettles
    <3>2. Before(a, "EnterConsolePlugin")' /\ Before(a, "Console")'
      BY <3>1, PositionsAre
    <3>3. \A k \in OwnedFor(a)' : Before(a, k)'
      BY <3>1, PositionsAre DEF OwnedFor
    <3>. QED
      BY <3>2, <3>3 DEF SteadyHere, OperandsSettled, DisabledSettled
  <2>3. CASE Undisturbed(a)
    <3>1. pod = "running" /\ pod' = "running"
      BY <2>3 DEF Undisturbed
    <3>2. CASE PassStep /\ Installs(a)
      BY <2>1, <2>3, <3>2, OwnPassSteady
    <3>3. ASSUME ~(PassStep /\ Installs(a)),
                 \A k \in DOMAIN Position : /\ Before(a, k) => Before(a, k)'
                                            /\ Withdraws(a, k) => Withdraws(a, k)'
          PROVE  SteadyHere(a)'
      BY <2>1, <2>3, <3>3, SteadyKept
    <3>4. ASSUME ~Installs(a) PROVE SteadyHere(a)'
      BY <3>3, <3>4 DEF Before, Withdraws, Installs
    <3>5. ASSUME NEW r \in Addons, StartReconcile(r) \/ StartRemoval(r)
          PROVE  ~Installs(a)
      BY <3>5, PassStarts DEF Installs, Idle
    <3>6. CASE SamePass /\ ~PassStep
      BY <3>3, <3>6 DEF SamePass, Before, Withdraws
    <3>. QED  BY <1>1, <3>1, <3>2, <3>4, <3>5, <3>6, OtherSteps
  <2>. QED  BY <1>1, <2>1, <2>2, <2>3, AsleepSteps
<1>. QED  BY <1>1, <1>2 DEF SteadyInv, SteadyHere

LEMMA SteadyInit == Init => SteadyInv
  BY RestInit DEF Init, SteadyInv, Asleep

-----------------------------------------------------------------------------
(* The theorems about a cluster that completes no upgrade                   *)

\* A GPUAddon that the controller has no reason to look at again has all it
\* asks for, as long as the version of the cluster stays the same.
THEOREM SteadyInvariant == Spec /\ NoUpgrade => []SteadyInv
<1>1. IInv => TypeInv /\ Safe
  BY SafeIsIInv
<1>2. NoUpgrade => [][UNCHANGED OpenShift]_vars
  BY DEF NoUpgrade
<1>3. IInv /\ SteadyInv /\ [Next]_vars /\ [UNCHANGED OpenShift]_vars => SteadyInv'
  <2>1. ASSUME IInv, SteadyInv, UNCHANGED vars PROVE UNCHANGED OpenShift
    BY <2>1 DEF vars, OpenShift
  <2>. QED  BY <1>1, <2>1, SteadyStep
<1>. QED  BY <1>2, <1>3, SteadyInit, IInvInvariant, PTL DEF Spec

LEMMA SteadyAtRest ==
    ASSUME IInv, SteadyInv
    PROVE  OwnedOperandsRestored /\ DisabledPluginGone
<1>1. OwnedOperandsRestored
  <2>. SUFFICES ASSUME AtRest, NEW a \in Addons, cr[a].st = "live",
                       NEW k \in OwnedFor(a)
                PROVE  obj[k].st = "live" /\ obj[k].owner = a /\ obj[k].spec = Desired(k)
    BY DEF OwnedOperandsRestored
  <2>1. /\ k \in Objects /\ a # NoAddon
        /\ obj[k].owner = a /\ (obj[k].st = "live" => obj[k].spec = Desired(k))
    BY RestIsAsleep, OwnedForIs, OwnsKindsAre DEF SteadyInv, OperandsSettled
  <2>2. obj[k].st = "live"
    <3>1. Present(obj[k]) /\ obj[k] \in ObjectType
      BY <2>1 DEF IInv, ObjectsOK, AbsentIsUnowned, TypeOK
    <3>. QED  BY <2>1, <3>1 DEF AtRest, Present, ObjectType
  <2>. QED  BY <2>1, <2>2
<1>2. DisabledPluginGone
  BY RestIsAsleep
     DEF DisabledPluginGone, SteadyInv, DisabledSettled, SupportsPlugin, Installs
<1>. QED  BY <1>1, <1>2

\* No wake-up is lost: at rest every operand the controller owns is there as
\* the GPUAddon asks for.
THEOREM OperandsRestored == Spec /\ NoUpgrade => []OwnedOperandsRestored
  BY SteadyAtRest, SteadyInvariant, IInvInvariant, PTL

\* At rest a disabled console plugin has no live operand, although the result
\* of the reconciler's Delete is ignored.
THEOREM DisabledPluginGoes == Spec /\ NoUpgrade => []DisabledPluginGone
  BY SteadyAtRest, SteadyInvariant, IInvInvariant, PTL
=============================================================================
