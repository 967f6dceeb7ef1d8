-------------------------- MODULE LifecycleProofs --------------------------
(***************************************************************************)
(* The GPUAddon controller implements AddonLifecycle, for any set of       *)
(* GPUAddons, any lag of the caches and any number of edits, failures and  *)
(* crashes: each of its steps is a step of the promised life, or none.     *)
(***************************************************************************)
EXTENDS GPUAddonSafetyProofs, LifecycleRefinement

-----------------------------------------------------------------------------
(* What a step of the controller can be to the abstract life                *)

LEMMA StutterStep ==
    ASSUME \A a \in Addons : cr'[a].st = cr[a].st /\ cr'[a].fin = cr[a].fin,
           \A k \in Awaited : Present(obj'[k]) <=> Present(obj[k]),
           obj'["AddonCsv"].st = "live" <=> obj["AddonCsv"].st = "live"
    PROVE  [Lifecycle!Next]_Lifecycle!vars
<1>1. Life' = Life
  BY DEF Life
<1>2. Registered' = Registered
  BY DEF Registered
<1>3. Deployed' = Deployed
  BY DEF Deployed, Present
<1>4. AddonInstalled' = AddonInstalled
  BY DEF AddonInstalled
<1>. QED  BY <1>1, <1>2, <1>3, <1>4 DEF Lifecycle!vars

\* One operand appears, while some GPUAddon is registered, or disappears.
LEMMA OperandStep ==
    ASSUME UNCHANGED cr, NEW k \in Objects \ {"AddonCsv"},
           \A j \in Objects \ {k} : obj'[j] = obj[j],
           Present(obj'[k]) => Present(obj[k]) \/ Registered # {}
    PROVE  [Lifecycle!Next]_Lifecycle!vars
<1>1. UNCHANGED <<Life, Registered, AddonInstalled>>
  BY DEF Life, Registered, AddonInstalled, Objects
<1>2. \A j \in Awaited : j \in Objects
  BY DEF Awaited, Objects
<1>3. CASE k \notin Awaited \/ (Present(obj'[k]) <=> Present(obj[k]))
  <2>1. Deployed' = Deployed
    BY <1>2, <1>3 DEF Deployed, Present
  <2>. QED  BY <1>1, <2>1 DEF Lifecycle!vars
<1>4. CASE k \in Awaited /\ Present(obj'[k]) /\ ~Present(obj[k])
  <2>1. Deployed' = Deployed \cup {k}
    BY <1>2, <1>4 DEF Deployed, Present
  <2>2. Lifecycle!Deploy(k)
    BY <1>1, <1>4, <2>1 DEF Lifecycle!Deploy
  <2>. QED  BY <1>4, <2>2 DEF Lifecycle!Next
<1>5. CASE k \in Awaited /\ ~Present(obj'[k]) /\ Present(obj[k])
  <2>1. Deployed' = Deployed \ {k}
    BY <1>2, <1>5 DEF Deployed, Present
  <2>2. Lifecycle!Withdraw(k)
    BY <1>1, <2>1 DEF Lifecycle!Withdraw
  <2>. QED  BY <1>5, <2>2 DEF Lifecycle!Next
<1>. QED  BY <1>3, <1>4, <1>5

\* The resource of one GPUAddon is written.
LEMMA ResourceStep ==
    ASSUME TypeInv, UNCHANGED obj, NEW a \in Addons, NEW r \in AddonResource,
           cr' = [cr EXCEPT ![a] = r],
           \/ r.st = cr[a].st /\ r.fin = cr[a].fin
           \/ cr[a].st = "absent" /\ r.st = "live" /\ r.fin = cr[a].fin
           \/ cr[a].st = "live" /\ r.st = "live" /\ r.fin
           \/ cr[a].st = "live" /\ r = DeletionOf(cr[a])
           \/ /\ cr[a].st = "terminating" /\ r = NoResource
              /\ ~AddonInstalled /\ Deployed = {}
    PROVE  [Lifecycle!Next]_Lifecycle!vars
<1>1. /\ cr'[a] = r /\ \A b \in Addons \ {a} : cr'[b] = cr[b]
      /\ cr[a] \in AddonResource
  BY DEF TypeInv, TypeOK
<1>2. UNCHANGED <<Deployed, AddonInstalled>>
  BY DEF Deployed, AddonInstalled
<1>3. Life' = [Life EXCEPT ![a] = r.st] /\ Life[a] = cr[a].st
  <2>1. Life' = [b \in Addons |-> cr'[b].st]
    BY DEF Life
  <2>2. [Life EXCEPT ![a] = r.st]
          = [b \in Addons |-> IF b = a THEN r.st ELSE cr[b].st]
    BY DEF Life
  <2>3. \A b \in Addons : cr'[b].st = IF b = a THEN r.st ELSE cr[b].st
    BY <1>1
  <2>4. Life[a] = cr[a].st
    BY DEF Life
  <2>. QED  BY <2>1, <2>2, <2>3, <2>4
<1>4. Registered' = IF r.fin THEN Registered \cup {a} ELSE Registered \ {a}
  BY <1>1 DEF Registered
<1>5. a \in Registered <=> cr[a].fin
  BY DEF Registered
<1>6. CASE r.st = cr[a].st /\ r.fin = cr[a].fin
  BY <1>1, <1>6, StutterStep
<1>7. CASE cr[a].st = "absent" /\ r.st = "live" /\ r.fin = cr[a].fin
  <2>1. Registered' = Registered
    BY <1>4, <1>5, <1>7
  <2>. QED
    BY <1>2, <1>3, <1>7, <2>1 DEF Lifecycle!Next, Lifecycle!Create, Lifecycle!Become
<1>8. CASE cr[a].st = "live" /\ r.st = "live" /\ r.fin
  <2>1. Life' = Life
    BY <1>3, <1>8 DEF Life
  <2>2. Registered' = Registered \cup {a}
    BY <1>4, <1>8
  <2>. QED
    BY <1>2, <1>3, <1>8, <2>1, <2>2 DEF Lifecycle!Next, Lifecycle!Register
<1>9. CASE cr[a].st = "live" /\ r = DeletionOf(cr[a])
  <2>1. /\ r.fin = cr[a].fin
        /\ r.st = IF a \in Registered THEN "terminating" ELSE "absent"
    BY <1>1, <1>5, <1>9 DEF DeletionOf, NoResource, AddonResource
  <2>2. Registered' = Registered
    BY <1>4, <1>5, <2>1
  <2>. QED
    BY <1>2, <1>3, <1>9, <2>1, <2>2
       DEF Lifecycle!Next, Lifecycle!Request, Lifecycle!Become
<1>10. CASE /\ cr[a].st = "terminating" /\ r = NoResource
            /\ ~AddonInstalled /\ Deployed = {}
  <2>1. r.st = "absent" /\ Registered' = Registered \ {a}
    BY <1>4, <1>10 DEF NoResource
  <2>. QED
    BY <1>2, <1>3, <1>10, <2>1
       DEF Lifecycle!Next, Lifecycle!Release, Lifecycle!Become
<1>. QED  BY <1>6, <1>7, <1>8, <1>9, <1>10

LEMMA UnchangedStep ==
    ASSUME UNCHANGED <<cr, obj>> PROVE [Lifecycle!Next]_Lifecycle!vars
  BY StutterStep

-----------------------------------------------------------------------------
(* The steps of a pass                                                      *)

LEMMA CreateMaps ==
    ASSUME TypeInv, Safe, NEW k \in Operands, At("reconcile", k),
           CreateOrPatch(k), UNCHANGED cr
    PROVE  [Lifecycle!Next]_Lifecycle!vars
<1>1. /\ pass.mode = "reconcile" /\ pass.req \in Addons
      /\ pass.step \notin {"Finalizer", "Status"}
      /\ k \in Objects \ {"AddonCsv"}
  BY DEF TypeInv, PassHasAddon, At, Idle, Operands, Objects
<1>2. Registered # {}
  BY <1>1 DEF Safe, ResourcesOK, PassIsProtected, Registered
<1>3. \A j \in Objects \ {k} : obj'[j] = obj[j]
  BY DEF CreateOrPatch, Written, TypeInv, TypeOK
<1>. QED  BY <1>1, <1>2, <1>3, OperandStep

LEMMA EraseMaps ==
    ASSUME TypeInv, Safe, UNCHANGED cr, NEW k \in Objects \ {"AddonCsv"},
           obj' = Erased(k) \/ UNCHANGED obj
    PROVE  [Lifecycle!Next]_Lifecycle!vars
<1>1. CASE UNCHANGED obj
  BY <1>1, UnchangedStep
<1>2. CASE obj' = Erased(k)
  <2>1. /\ ObjectsShrink /\ \A j \in Objects \ {k} : obj'[j] = obj[j]
    BY <1>2, DeletedShrinks DEF Safe, ObjectsOK
  <2>. QED  BY <2>1, OperandStep DEF ObjectsShrink
<1>. QED  BY <1>1, <1>2

LEMMA RegisterFinalizerMaps ==
    ASSUME TypeInv, Safe, RegisterFinalizer
    PROVE  [Lifecycle!Next]_Lifecycle!vars
<1>1. UNCHANGED obj
  BY DEF RegisterFinalizer, objects
<1>2. CASE UNCHANGED cr
  BY <1>1, <1>2, UnchangedStep
<1>3. CASE ~pass.stale /\ WriteAddon(pass.req, WithFinalizer(cr[pass.req]))
  <2>1. /\ pass.req \in Addons /\ cr[pass.req] \in AddonResource
        /\ cr[pass.req].st = "live"
    BY <1>3 DEF RegisterFinalizer, At, Idle, TypeInv, TypeOK, PassHasAddon, Safe,
       ResourcesOK, CopiesCurrent
  <2>2. /\ WithFinalizer(cr[pass.req]) \in AddonResource
        /\ WithFinalizer(cr[pass.req]).st = "live"
        /\ WithFinalizer(cr[pass.req]).fin
    BY <2>1 DEF WithFinalizer, AddonResource
  <2>. QED  BY <1>1, <1>3, <2>1, <2>2, ResourceStep DEF WriteAddon
<1>. QED  BY <1>2, <1>3 DEF RegisterFinalizer

LEMMA PatchStatusMaps ==
    ASSUME TypeInv, TypeInv', PatchStatus
    PROVE  [Lifecycle!Next]_Lifecycle!vars
<1>1. pass.req \in Addons /\ cr[pass.req] \in AddonResource /\ UNCHANGED obj
  BY DEF TypeInv, TypeOK, PassHasAddon, PatchStatus, At, Idle, objects
<1>2. CASE UNCHANGED cr
  BY <1>1, <1>2, UnchangedStep
<1>3. CASE ~UNCHANGED cr
  <2>. DEFINE phase == PhaseOf(pass.conds, pass.failed, pass.loc.phase)
              status(restamped) ==
                [cr[pass.req] EXCEPT
                   !.phase = IF phase # pass.loc.phase THEN phase ELSE @,
                   !.conds = IF pass.conds # pass.loc.conds \/ restamped
                             THEN pass.conds ELSE @]
  <2>1. PICK restamped \in BOOLEAN : WriteAddon(pass.req, status(restamped))
    BY <1>3 DEF PatchStatus, Restamped
  <2>2. /\ status(restamped).fin = cr[pass.req].fin
        /\ status(restamped).st = cr[pass.req].st
    BY <1>1 DEF AddonResource
  <2>3. status(restamped) \in AddonResource
    <3>1. cr'[pass.req] = status(restamped)
      BY <1>1, <2>1 DEF WriteAddon, TypeInv, TypeOK
    <3>. QED  BY <1>1, <3>1 DEF TypeInv, TypeOK
  <2>. HIDE DEF status
  <2>. QED  BY <1>1, <2>1, <2>2, <2>3, ResourceStep DEF WriteAddon
<1>. QED  BY <1>2, <1>3

\* The add-on's CSV is deleted once nothing is left that is waited for, for a
\* GPUAddon that is there and being deleted.
LEMMA RemoveSelfCsvMaps ==
    ASSUME TypeInv, Safe, RemovalJustified, RemoveSelfCsv
    PROVE  [Lifecycle!Next]_Lifecycle!vars
<1>1. /\ pass.mode = "remove" /\ pass.step = "SelfCsv" /\ pass.req \in Addons
      /\ UNCHANGED cr /\ "AddonCsv" \in Objects /\ "AddonCsv" \notin Awaited
  BY DEF RemoveSelfCsv, At, TypeInv, PassHasAddon, Idle, Objects, Awaited, Operands
<1>2. CASE UNCHANGED obj
  BY <1>1, <1>2, UnchangedStep
<1>3. CASE SelfCsvDue /\ obj' = Erased("AddonCsv")
  <2>1. /\ \A k \in Objects \ {"AddonCsv"} : obj'[k] = obj[k]
        /\ obj'["AddonCsv"].st # "live"
    BY <1>1, <1>3 DEF Erased, Deleted, Absent, TypeInv, TypeOK, ObjectType
  <2>2. \A k \in Awaited : k \in Objects \ {"AddonCsv"}
    BY <1>1 DEF Awaited, Objects
  <2>3. CASE obj["AddonCsv"].st # "live"
    BY <1>1, <2>1, <2>2, <2>3, StutterStep
  <2>4. CASE obj["AddonCsv"].st = "live"
    <3>1. Deployed = {}
      BY <1>1, <1>3, AllRemoved DEF SelfCsvDue, Deployed
    <3>2. pass.req \in Registered /\ Life[pass.req] = "terminating"
      BY <1>1, <2>4 DEF RemovalJustified, Leaving, Registered, Life
    <3>3. UNCHANGED <<Life, Registered>> /\ AddonInstalled' = FALSE
      BY <1>1, <2>1 DEF Life, Registered, AddonInstalled
    <3>4. Deployed' = Deployed
      BY <2>1, <2>2 DEF Deployed
    <3>. QED
      BY <3>1, <3>2, <3>3, <3>4 DEF Lifecycle!Next, Lifecycle!RemoveSelf
  <2>. QED  BY <2>3, <2>4
<1>. QED  BY <1>2, <1>3 DEF RemoveSelfCsv

LEMMA RemoveFinalizerMaps ==
    ASSUME TypeInv, Safe, RemovalJustified, RemoveFinalizer
    PROVE  [Lifecycle!Next]_Lifecycle!vars
<1>1. /\ pass.mode = "remove" /\ pass.step = "CrFinalizer"
      /\ pass.req \in Addons /\ ~Idle /\ UNCHANGED obj
  BY DEF RemoveFinalizer, At, TypeInv, PassHasAddon, Idle, objects
<1>2. CASE UNCHANGED cr
  BY <1>1, <1>2, UnchangedStep
<1>3. CASE ~pass.stale /\ WriteAddon(pass.req, NoResource)
  <2>1. cr[pass.req].st = "terminating"
    BY <1>1, <1>3 DEF RemovalJustified, Safe, ResourcesOK, CopiesCurrent
  <2>2. ~AddonInstalled /\ Deployed = {}
    BY <1>1, AllRemoved DEF Safe, RemovalAccounted, AddonInstalled, Deployed
  <2>3. NoResource \in AddonResource
    BY DEF NoResource, AddonResource, Phases
  <2>. QED  BY <1>1, <1>3, <2>1, <2>2, <2>3, ResourceStep DEF WriteAddon
<1>. QED  BY <1>2, <1>3 DEF RemoveFinalizer

LEMMA PassMaps ==
    ASSUME TypeInv, TypeInv', Safe, RemovalJustified, PassStep
    PROVE  [Lifecycle!Next]_Lifecycle!vars
<1>. DEFINE Maps == [Lifecycle!Next]_Lifecycle!vars
<1>1. ASSUME NEW k \in Created, ReconcileOperand(k) PROVE Maps
  BY <1>1, CreateMaps DEF ReconcileOperand, Created
<1>2. ASSUME ReconcileSubscription PROVE Maps
  <2>1. "Subscription" \in Operands /\ UNCHANGED cr
    BY <1>2 DEF ReconcileSubscription, Operands
  <2>2. CASE UNCHANGED obj
    BY <2>1, <2>2, UnchangedStep
  <2>3. CASE CreateOrPatch("Subscription")
    BY <1>2, <2>1, <2>3, CreateMaps DEF ReconcileSubscription
  <2>. QED  BY <1>2, <2>2, <2>3 DEF ReconcileSubscription
<1>3. ASSUME SubscriptionPanics \/ EnterConsolePlugin \/ PatchClusterConsole
      PROVE  Maps
  BY <1>3, UnchangedStep
     DEF SubscriptionPanics, EnterConsolePlugin, PatchClusterConsole, api, objects
<1>4. ASSUME NEW k \in PluginOperands, DisableOperand(k) PROVE Maps
  BY <1>4, EraseMaps DEF DisableOperand, PluginOperands, Objects, Operands
<1>5. ASSUME NEW k \in Operands, RemoveOperand(k) PROVE Maps
  BY <1>5, EraseMaps DEF RemoveOperand, Objects, Operands
<1>6. ASSUME RemoveGpuCsv PROVE Maps
  BY <1>6, EraseMaps DEF RemoveGpuCsv, Objects
<1>. HIDE DEF Maps
<1>. QED
  BY <1>1, <1>2, <1>3, <1>4, <1>5, <1>6, RegisterFinalizerMaps, PatchStatusMaps,
     RemoveSelfCsvMaps, RemoveFinalizerMaps
  DEF PassStep, Maps

-----------------------------------------------------------------------------
(* The other steps                                                          *)

LEMMA ClusterMaps ==
    ASSUME TypeInv, Safe, Cluster
    PROVE  [Lifecycle!Next]_Lifecycle!vars
<1>. DEFINE Maps == [Lifecycle!Next]_Lifecycle!vars
<1>1. ASSUME PlanInstall \/ UpgradeCompletes PROVE Maps
  BY <1>1, UnchangedStep DEF PlanInstall, UpgradeCompletes, objects
<1>2. ASSUME InstallGpuOperator PROVE Maps
  <2>1. /\ "Subscription" \in Objects /\ "GpuCsv" \in Objects
        /\ obj["Subscription"] \in ObjectType /\ UNCHANGED cr
    BY <1>2 DEF InstallGpuOperator, Objects, Operands, TypeInv, TypeOK
  <2>2. \A k \in Objects \ {"GpuCsv"} : obj'[k].st = obj[k].st
    BY <1>2, <2>1 DEF InstallGpuOperator, TypeInv, TypeOK, ObjectType
  <2>3. \A k \in Awaited \cup {"AddonCsv"} : k \in Objects \ {"GpuCsv"}
    BY DEF Awaited, Objects, Operands
  <2>. QED  BY <2>1, <2>2, <2>3, StutterStep DEF Present
<1>3. ASSUME NEW k \in Lingering, FinishTermination(k) PROVE Maps
  <2>1. /\ k \in Objects /\ obj' = [obj EXCEPT ![k] = Absent] /\ UNCHANGED cr
        /\ obj[k].st = "terminating" /\ Absent.st = "absent"
    BY <1>3, ObjectsAssumption DEF FinishTermination, Absent
  <2>2. /\ obj'[k].st = "absent" /\ \A j \in Objects \ {k} : obj'[j] = obj[j]
    BY <2>1 DEF TypeInv, TypeOK
  <2>3. CASE k = "AddonCsv"
    <3>1. \A j \in Awaited : j \in Objects \ {"AddonCsv"}
      BY DEF Awaited, Objects, Operands
    <3>. QED  BY <2>1, <2>2, <2>3, <3>1, StutterStep
  <2>4. CASE k # "AddonCsv"
    BY <2>1, <2>2, <2>4, OperandStep DEF Present
  <2>. QED  BY <2>3, <2>4
<1>. HIDE DEF Maps
<1>. QED  BY <1>1, <1>2, <1>3 DEF Cluster, Maps

LEMMA UsersMaps ==
    ASSUME TypeInv, TypeInv', Safe, Users
    PROVE  [Lifecycle!Next]_Lifecycle!vars
<1>. DEFINE Maps == [Lifecycle!Next]_Lifecycle!vars
<1>1. ASSUME NEW a \in Addons,
             UserCreates(a) \/ UserDeletes(a) \/ UserToggles(a) \/ UserTouches(a)
      PROVE  Maps
  <2>1. /\ cr[a] \in AddonResource /\ NoResource \in AddonResource
        /\ cr[a].fin => Present(cr[a])
    BY DEF TypeInv, TypeOK, NoResource, AddonResource, Phases, Safe, ResourcesOK,
       FinalizerIsHeld
  <2>2. ASSUME NEW r \in AddonResource, EditAddon(a, r),
               \/ r.st = cr[a].st /\ r.fin = cr[a].fin
               \/ cr[a].st = "absent" /\ r.st = "live" /\ r.fin = cr[a].fin
               \/ cr[a].st = "live" /\ r = DeletionOf(cr[a])
        PROVE  Maps
    BY <2>2, ResourceStep DEF EditAddon, ChangeAddon, WriteAddon, objects
  <2>. HIDE DEF Maps
  <2>3. CASE UserCreates(a)
    <3>1. PICK plugin \in BOOLEAN : EditAddon(a, NewResource(plugin))
      BY <2>3 DEF UserCreates
    <3>2. /\ NewResource(plugin) \in AddonResource
          /\ NewResource(plugin).st = "live" /\ ~NewResource(plugin).fin
          /\ cr[a].st = "absent" /\ ~cr[a].fin
      BY <2>1, <2>3, NewResourceType
         DEF UserCreates, NewResource, NoResource, Present
    <3>. HIDE DEF NewResource
    <3>3. cr[a].fin \in BOOLEAN /\ NewResource(plugin).fin \in BOOLEAN
      BY <2>1, <3>2 DEF AddonResource
    <3>. QED  BY <2>2, <3>1, <3>2, <3>3
  <2>4. CASE UserDeletes(a)
    <3>1. DeletionOf(cr[a]) \in AddonResource
      BY <2>1 DEF DeletionOf, AddonResource
    <3>. QED  BY <2>2, <2>4, <3>1 DEF UserDeletes
  <2>5. CASE UserToggles(a)
    <3>. DEFINE r == [cr[a] EXCEPT !.plugin = ~@]
    <3>1. r \in AddonResource /\ r.st = cr[a].st /\ r.fin = cr[a].fin
      BY <2>1 DEF AddonResource
    <3>2. EditAddon(a, r)
      BY <2>5 DEF UserToggles
    <3>. HIDE DEF r
    <3>. QED  BY <2>2, <3>1, <3>2
  <2>6. CASE UserTouches(a)
    BY <2>1, <2>2, <2>6 DEF UserTouches
  <2>. QED  BY <1>1, <2>3, <2>4, <2>5, <2>6
<1>2. ASSUME NEW k \in Contended, Drift(k) \/ ExternalDelete(k) PROVE Maps
  <2>1. /\ k \in Objects \ {"AddonCsv"} /\ Present(obj[k])
        /\ obj \in [Objects -> ObjectType]
    BY <1>2, ControllerAssumption DEF Drift, ExternalDelete, Objects, Operands,
       Present, TypeInv, TypeOK
  <2>2. UNCHANGED cr /\ \E o : obj' = [obj EXCEPT ![k] = o]
    BY <1>2 DEF Drift, ExternalDelete, EditObject
  <2>3. \A j \in Objects \ {k} : obj'[j] = obj[j]
    BY <2>1, <2>2
  <2>. QED  BY <2>1, <2>2, <2>3, OperandStep
<1>3. ASSUME NEW p \in OtherPlugins, OtherPluginAdded(p) PROVE Maps
  BY <1>3, UnchangedStep DEF OtherPluginAdded, objects
<1>4. ASSUME NEW v \in Versions, UpgradeStarts(v) PROVE Maps
  BY <1>4, UnchangedStep DEF UpgradeStarts, objects
<1>. HIDE DEF Maps
<1>. QED  BY <1>1, <1>2, <1>3, <1>4 DEF Users, Maps

LEMMA OtherStepsMap ==
    ASSUME TypeInv, Safe,
           Sync \/ Process \/ \E r : Dequeue(r) \/ GetFails(r)
    PROVE  [Lifecycle!Next]_Lifecycle!vars
<1>1. CASE Sync
  BY <1>1, UnchangedStep DEF Sync, SyncAddon, SyncObject, SyncConsole, Resync, api,
     objects
<1>2. CASE \E r : Dequeue(r) \/ GetFails(r)
  BY <1>2, UnchangedStep DEF Dequeue, NothingToDo, StartReconcile, StartRemoval,
     Take, GetFails, api, objects
<1>3. CASE StartManager \/ Crash \/ OperatorRemoved
  BY <1>3, UnchangedStep DEF StartManager, Crash, OperatorRemoved, api, objects
<1>4. CASE Jumpstart
  <2>1. UNCHANGED obj
    BY <1>4 DEF Jumpstart, objects
  <2>2. CASE UNCHANGED cr
    BY <2>1, <2>2, UnchangedStep
  <2>3. CASE ~Present(cr[AddonID]) /\ WriteAddon(AddonID, NewResource(TRUE))
    <3>1. /\ AddonID \in Addons /\ cr[AddonID] \in AddonResource
          /\ cr[AddonID].st = "absent" /\ ~cr[AddonID].fin
      BY <2>3, ControllerAssumption DEF Present, TypeInv, TypeOK, Safe,
         ResourcesOK, FinalizerIsHeld
    <3>2. /\ NewResource(TRUE) \in AddonResource
          /\ NewResource(TRUE).st = "live" /\ NewResource(TRUE).fin = FALSE
      BY NewResourceType DEF NewResource, NoResource
    <3>3. cr[AddonID].fin = FALSE
      BY <3>1 DEF AddonResource
    <3>. HIDE DEF NewResource
    <3>. QED  BY <2>1, <2>3, <3>1, <3>2, <3>3, ResourceStep DEF WriteAddon
  <2>. QED  BY <1>4, <2>2, <2>3 DEF Jumpstart
<1>. QED  BY <1>1, <1>2, <1>3, <1>4 DEF Process

LEMMA StepMaps ==
    ASSUME TypeInv, TypeInv', Safe, RemovalJustified, Next
    PROVE  [Lifecycle!Next]_Lifecycle!vars
<1>1. CASE PassStep
  BY <1>1, PassMaps
<1>2. CASE Cluster
  BY <1>2, ClusterMaps
<1>3. CASE Users
  BY <1>3, UsersMaps
<1>4. CASE Sync \/ Process \/ \E r : Dequeue(r) \/ GetFails(r)
  BY <1>4, OtherStepsMap
<1>. QED  BY <1>1, <1>2, <1>3, <1>4 DEF Next, Worker, Dequeue

-----------------------------------------------------------------------------
(* RemovalJustified is invariant                                            *)

\* Only a release ends the removal of a GPUAddon, and the add-on's CSV does
\* not come back.
LEMMA LeavingKept ==
    ASSUME [Lifecycle!Next]_Lifecycle!vars, NEW a \in Addons, Leaving(a)
    PROVE  Leaving(a)'
<1>1. Leaving(a) <=> (Life[a] = "terminating" /\ a \in Registered) \/ ~AddonInstalled
  BY DEF Leaving, Life, Registered, AddonInstalled
<1>2. Leaving(a)' <=> \/ Life'[a] = "terminating" /\ a \in Registered'
                      \/ ~AddonInstalled'
  BY DEF Leaving, Life, Registered, AddonInstalled
<1>3. Life \in [Addons -> {cr[b].st : b \in Addons}]
  BY DEF Life
<1>. HIDE DEF Life, Registered, AddonInstalled, Leaving
<1>4. ASSUME NEW b \in Addons,
             Lifecycle!Create(b) \/ Lifecycle!Register(b) \/ Lifecycle!Request(b)
               \/ Lifecycle!Release(b)
      PROVE  Leaving(a)'
  BY <1>1, <1>2, <1>3, <1>4 DEF Lifecycle!Create, Lifecycle!Register,
     Lifecycle!Request, Lifecycle!Release, Lifecycle!Become
<1>5. ASSUME NEW k \in Awaited, Lifecycle!Deploy(k) \/ Lifecycle!Withdraw(k)
      PROVE  Leaving(a)'
  BY <1>1, <1>2, <1>5 DEF Lifecycle!Deploy, Lifecycle!Withdraw
<1>6. ASSUME Lifecycle!RemoveSelf PROVE Leaving(a)'
  BY <1>2, <1>6 DEF Lifecycle!RemoveSelf
<1>7. ASSUME UNCHANGED Lifecycle!vars PROVE Leaving(a)'
  BY <1>1, <1>2, <1>7 DEF Lifecycle!vars
<1>. QED  BY <1>4, <1>5, <1>6, <1>7 DEF Lifecycle!Next

\* A removing pass keeps its GPUAddon and its copy of it, and only the worker
\* starts one.
LEMMA RemovalContinues ==
    ASSUME TypeInv, Next, ~\E r : Dequeue(r), pass'.mode = "remove"
    PROVE  /\ pass.mode = "remove"
           /\ pass'.req = pass.req /\ pass'.loc = pass.loc
<1>. DEFINE Continues == /\ pass.mode = "remove"
                         /\ pass'.req = pass.req /\ pass'.loc = pass.loc
<1>1. pass \in PassType /\ pass' # IdlePass
  BY DEF TypeInv, TypeOK, IdlePass
<1>2. ASSUME NEW c, FailWith(c) PROVE FALSE
  BY <1>1, <1>2, FailFields
<1>3. ASSUME pass.mode # "remove", PassStep PROVE FALSE
  <2>1. CASE RegisterFinalizer
    BY <1>1, <1>2, <2>1 DEF RegisterFinalizer, At, PassType
  <2>2. ASSUME NEW k, At("reconcile", k), CreateOrPatch(k) PROVE FALSE
    BY <1>1, <1>2, <2>2
       DEF CreateOrPatch, AfterOperand, Goto, Report, Fail, At, PassType
  <2>3. CASE \E k \in Created : ReconcileOperand(k)
    BY <2>2, <2>3 DEF ReconcileOperand
  <2>4. CASE ReconcileSubscription
    BY <1>2, <2>2, <2>4 DEF ReconcileSubscription, Fail
  <2>5. CASE SubscriptionPanics \/ PatchStatus
    BY <1>1, <2>5 DEF SubscriptionPanics, Die, PatchStatus, AfterStatus, Return,
       ReturnError
  <2>6. CASE EnterConsolePlugin
    BY <1>1, <1>2, <2>6 DEF EnterConsolePlugin, Fail, Report, At, PassType
  <2>7. CASE PatchClusterConsole
    BY <1>1, <1>2, <2>7 DEF PatchClusterConsole, Fail, Report, At, PassType
  <2>8. CASE \E k \in PluginOperands : DisableOperand(k)
    BY <1>1, <1>2, <2>8 DEF DisableOperand, Fail, At, PassType
  <2>. QED
    BY <1>3, <2>1, <2>3, <2>4, <2>5, <2>6, <2>7, <2>8
       DEF PassStep, RemoveOperand, RemoveGpuCsv, RemoveSelfCsv, RemoveFinalizer, At
<1>4. ASSUME pass.mode = "remove", PassStep PROVE Continues
  <2>1. CASE \E k \in Operands : RemoveOperand(k)
    BY <1>1, <1>4, <2>1 DEF RemoveOperand, ReturnError, PassType
  <2>2. CASE RemoveGpuCsv
    BY <1>1, <1>4, <2>2 DEF RemoveGpuCsv, ReturnError, PassType
  <2>3. CASE RemoveSelfCsv
    BY <1>1, <1>4, <2>3 DEF RemoveSelfCsv, RetryRemoval, ReturnError, Goto, PassType
  <2>4. CASE RemoveFinalizer
    BY <1>1, <2>4 DEF RemoveFinalizer, Return, ReturnError
  <2>. QED
    BY <1>4, <2>1, <2>2, <2>3, <2>4
       DEF PassStep, RegisterFinalizer, ReconcileOperand, ReconcileSubscription,
           SubscriptionPanics, EnterConsolePlugin, PatchClusterConsole, PatchStatus,
           DisableOperand, At
<1>5. ASSUME Sync \/ Process \/ Cluster \/ \E a : GetFails(a) PROVE Continues
  BY <1>1, <1>5 DEF Sync, SyncAddon, SyncObject, SyncConsole, Resync, Process,
     Jumpstart, StartManager, Crash, Die, OperatorRemoved, Cluster, PlanInstall,
     InstallGpuOperator, UpgradeCompletes, FinishTermination, GetFails
<1>6. ASSUME NEW a, NEW r, EditAddon(a, r) PROVE Continues
  BY <1>1, <1>6 DEF EditAddon, ChangeAddon, PassSees, PassType
<1>7. ASSUME Users PROVE Continues
  BY <1>6, <1>7 DEF Users, UserCreates, UserDeletes, UserToggles, UserTouches,
     Drift, ExternalDelete, EditObject, OtherPluginAdded, UpgradeStarts
<1>. QED  BY <1>3, <1>4, <1>5, <1>7 DEF Next, Worker, Dequeue

LEMMA JustifiedStep ==
    ASSUME TypeInv, TypeInv', Safe, RemovalJustified, Next
    PROVE  RemovalJustified'
<1>1. [Lifecycle!Next]_Lifecycle!vars
  BY StepMaps
<1>2. \A a \in Addons : Leaving(a) => Leaving(a)'
  BY <1>1, LeavingKept
<1>3. pass.mode = "remove" => pass.req \in Addons
  BY DEF TypeInv, PassHasAddon, Idle
<1>4. CASE \E r : Dequeue(r)
  <2>1. PICK r : Dequeue(r)
    BY <1>4
  <2>2. crSeen' = crSeen
    BY <2>1 DEF Dequeue, NothingToDo, StartReconcile, StartRemoval, Take, caches
  <2>3. CASE NothingToDo(r)
    BY <1>2, <1>3, <2>2, <2>3 DEF NothingToDo, RemovalJustified
  <2>4. CASE r \in Addons /\ StartReconcile(r)
    BY <1>2, <2>2, <2>4
       DEF StartReconcile, StartPass, IdlePass, RemovalJustified
  <2>5. CASE r \in Addons /\ StartRemoval(r)
    <3>1. /\ pass'.mode = "remove" /\ pass'.req = r /\ pass'.loc = crSeen[r]
          /\ crSeen[r].st = "terminating" /\ crSeen[r].fin
      BY <2>5 DEF StartRemoval, StartPass, IdlePass
    <3>. QED  BY <1>2, <2>2, <2>5, <3>1 DEF RemovalJustified
  <2>. QED  BY <2>1, <2>3, <2>4, <2>5 DEF Dequeue
<1>5. CASE ~\E r : Dequeue(r)
  <2>1. pass'.mode = "remove" =>
          pass'.loc.st = "terminating" /\ Leaving(pass.req)'
    BY <1>2, <1>3, <1>5, RemovalContinues DEF RemovalJustified
  <2>2. ASSUME NEW a \in Addons, crSeen'[a].st = "terminating", crSeen'[a].fin
        PROVE  Leaving(a)'
    <3>1. CASE crSeen'[a] = crSeen[a]
      BY <1>2, <2>2, <3>1 DEF RemovalJustified
    <3>2. CASE crSeen'[a] = cr[a] /\ cr' = cr
      BY <2>2, <3>2 DEF Leaving
    <3>3. ASSUME NEW b \in Addons, SyncAddon(b)
          PROVE  crSeen'[a] = crSeen[a] \/ (crSeen'[a] = cr[a] /\ cr' = cr)
      BY <3>3 DEF SyncAddon, api, TypeInv, TypeOK
    <3>4. CASE StartManager
      BY <3>2, <3>4 DEF StartManager
    <3>5. crSeen' = crSeen \/ StartManager \/ \E b \in Addons : SyncAddon(b)
      <4>1. CASE PassStep
        BY <4>1 DEF PassStep, RegisterFinalizer, ReconcileOperand,
           ReconcileSubscription, SubscriptionPanics, EnterConsolePlugin,
           PatchClusterConsole, PatchStatus, DisableOperand, RemoveOperand,
           RemoveGpuCsv, RemoveSelfCsv, RemoveFinalizer, caches
      <4>2. CASE Sync \/ Process \/ Cluster \/ \E r : GetFails(r)
        BY <4>2 DEF Sync, SyncObject, SyncConsole, Resync, Process, Jumpstart,
           Crash, OperatorRemoved, Cluster, PlanInstall, InstallGpuOperator,
           UpgradeCompletes, FinishTermination, GetFails, caches
      <4>3. CASE Users
        BY <4>3 DEF Users, UserCreates, UserDeletes, UserToggles, UserTouches,
           EditAddon, Drift, ExternalDelete, EditObject, OtherPluginAdded,
           UpgradeStarts, Edit, caches
      <4>. QED  BY <1>5, <4>1, <4>2, <4>3 DEF Next, Worker, Dequeue
    <3>. QED  BY <3>1, <3>2, <3>3, <3>4, <3>5
  <2>. QED  BY <2>1, <2>2 DEF RemovalJustified, Leaving
<1>. QED  BY <1>4, <1>5

\* The invariant of the proof, as one formula.
RefinementInv == TypeInv /\ Safe /\ RemovalJustified

LEMMA RefinementInvStep == RefinementInv /\ [Next]_vars => RefinementInv'
<1>. SUFFICES ASSUME RefinementInv, [Next]_vars PROVE RefinementInv'
  OBVIOUS
<1>1. TypeInv' /\ Safe'
  BY TypeStep, SafeStep DEF RefinementInv
<1>2. CASE Next
  BY <1>1, <1>2, JustifiedStep DEF RefinementInv
<1>3. CASE UNCHANGED vars
  BY <1>1, <1>3 DEF vars, RefinementInv, RemovalJustified, Leaving
<1>. QED  BY <1>1, <1>2, <1>3 DEF RefinementInv

LEMMA RefinementInvInit == Init => RefinementInv
<1>. SUFFICES ASSUME Init PROVE RefinementInv
  OBVIOUS
<1>1. TypeInv /\ Safe
  BY InitType, InitSafe DEF TypeInv, PassHasAddon, Init, Idle, IdlePass
<1>2. RemovalJustified
  BY DEF Init, NoResource, IdlePass, RemovalJustified
<1>. QED  BY <1>1, <1>2 DEF RefinementInv

\* A removal is carried out for a GPUAddon whose deletion was requested and is
\* still waited for, however old the copy the pass works on, or after the
\* add-on's CSV is gone: a new GPUAddon of the same name is never let go of.
THEOREM RemovalsJustified == Spec => []RemovalJustified
<1>1. RefinementInv => RemovalJustified
  BY DEF RefinementInv
<1>. QED  BY <1>1, RefinementInvInit, RefinementInvStep, PTL DEF Spec

LEMMA InitMaps == Init => Lifecycle!Init
<1>. SUFFICES ASSUME Init PROVE Lifecycle!Init
  OBVIOUS
<1>1. Life = [a \in Addons |-> "absent"] /\ Registered = {}
  BY DEF Init, NoResource, Life, Registered
<1>2. Deployed = {}
  BY DEF Init, Absent, Present, Deployed, Awaited, Operands, Objects
<1>3. AddonInstalled = TRUE
  BY DEF Init, Live, Objects, AddonInstalled
<1>. QED  BY <1>1, <1>2, <1>3 DEF Lifecycle!Init

\* The GPUAddon controller implements the life the add-on promises: GPUAddons
\* are registered before anything is deployed for them, operands are there only
\* for registered ones, the add-on's CSV goes after the last operand and the
\* finalizer after the CSV.
THEOREM LifecycleImplemented == Spec => ImplementsLifecycle
<1>1. RefinementInv /\ [Next]_vars => [Lifecycle!Next]_Lifecycle!vars
  <2>. SUFFICES ASSUME RefinementInv, [Next]_vars
                PROVE  [Lifecycle!Next]_Lifecycle!vars
    OBVIOUS
  <2>1. CASE Next
    BY <2>1, RefinementInvStep, StepMaps DEF RefinementInv
  <2>2. CASE UNCHANGED vars
    BY <2>2, UnchangedStep DEF vars
  <2>. QED  BY <2>1, <2>2
<1>. QED
  BY <1>1, RefinementInvInit, RefinementInvStep, InitMaps, PTL
     DEF Spec, ImplementsLifecycle, Lifecycle!Spec
=============================================================================
