--------------------------- MODULE OperandProofs ---------------------------
(***************************************************************************)
(* Whose an operand is, when the console plugin is deployed, and what      *)
(* becomes of the console plugins of others: proofs about the GPUAddon     *)
(* controller, for any lag of the caches and any number of edits, failures *)
(* and crashes.                                                            *)
(***************************************************************************)
EXTENDS GPUAddonSafetyProofs, WellFoundedInduction

-----------------------------------------------------------------------------
(* What a step may do to one object, to its copy, and to the console        *)

\* One object goes, is written by the pass, is completed by OLM, or is edited
\* by someone who may.
ObjectStep(k) ==
    \/ obj'[k] = obj[k]
    \/ obj'[k] = Absent
    \/ obj'[k] = Deleted(k, obj[k])
    \/ /\ k \in Operands /\ At("reconcile", k)
       /\ Acceptable(k)
       /\ obj'[k] = Applied(k, pass.req, seen[k], obj[k], Desired(k))
    \/ k = "GpuCsv" /\ obj'[k].owner = NoAddon
    \/ obj'[k].st = obj[k].st /\ obj'[k].owner = obj[k].owner
    \/ /\ k \in Contended
       /\ obj'[k].st = obj[k].st /\ obj'[k].owner \in {obj[k].owner, NoAddon}

LEMMA WrittenStep ==
    ASSUME TypeInv, NEW j \in Operands, At("reconcile", j), CreateOrPatch(j),
           NEW k \in Objects
    PROVE  ObjectStep(k)
<1>1. CASE UNCHANGED obj
  BY <1>1 DEF ObjectStep
<1>2. CASE Acceptable(j) /\ obj' = Written(j)
  <2>1. obj' = [obj EXCEPT ![j] =
                  Applied(j, pass.req, seen[j], obj[j], Desired(j))]
    BY <1>2 DEF Written
  <2>2. CASE k = j
    BY <1>2, <2>1, <2>2 DEF ObjectStep, TypeInv, TypeOK
  <2>3. CASE k # j
    BY <2>1, <2>3 DEF ObjectStep, TypeInv, TypeOK
  <2>. QED  BY <2>2, <2>3
<1>. QED  BY <1>1, <1>2 DEF CreateOrPatch

LEMMA ErasedStep ==
    ASSUME TypeInv, NEW j \in Objects, obj' = obj \/ obj' = Erased(j),
           NEW k \in Objects
    PROVE  ObjectStep(k)
<1>1. CASE k = j
  BY <1>1 DEF ObjectStep, Erased, TypeInv, TypeOK
<1>2. CASE k # j
  BY <1>2 DEF ObjectStep, Erased, TypeInv, TypeOK
<1>. QED  BY <1>1, <1>2

LEMMA PassWrites ==
    ASSUME TypeInv, PassStep, NEW k \in Objects
    PROVE  ObjectStep(k)
<1>0. Operands \subseteq Objects /\ PluginOperands \subseteq Objects
  BY DEF Operands, PluginOperands, Objects
<1>1. ASSUME NEW j \in Created, ReconcileOperand(j) PROVE ObjectStep(k)
  BY <1>1, WrittenStep DEF ReconcileOperand, Created
<1>2. CASE ReconcileSubscription
  <2>1. CASE CreateOrPatch("Subscription")
    BY <1>2, <2>1, WrittenStep DEF ReconcileSubscription, Operands
  <2>2. CASE UNCHANGED obj
    BY <2>2 DEF ObjectStep
  <2>. QED  BY <1>2, <2>1, <2>2 DEF ReconcileSubscription
<1>3. ASSUME NEW j \in PluginOperands, DisableOperand(j) PROVE ObjectStep(k)
  BY <1>0, <1>3, ErasedStep DEF DisableOperand
<1>4. ASSUME NEW j \in Operands, RemoveOperand(j) PROVE ObjectStep(k)
  BY <1>0, <1>4, ErasedStep DEF RemoveOperand
<1>5. CASE RemoveGpuCsv
  BY <1>5, ErasedStep DEF RemoveGpuCsv, Objects
<1>6. CASE RemoveSelfCsv
  BY <1>6, ErasedStep DEF RemoveSelfCsv, Objects
<1>7. CASE \/ RegisterFinalizer \/ SubscriptionPanics \/ EnterConsolePlugin
           \/ PatchClusterConsole \/ PatchStatus \/ RemoveFinalizer
  BY <1>7 DEF RegisterFinalizer, SubscriptionPanics, EnterConsolePlugin,
     PatchClusterConsole, PatchStatus, RemoveFinalizer, api, objects, ObjectStep
<1>. QED
  BY <1>1, <1>2, <1>3, <1>4, <1>5, <1>6, <1>7 DEF PassStep

LEMMA OthersWrite ==
    ASSUME TypeInv, Cluster \/ Users, NEW k \in Objects
    PROVE  ObjectStep(k)
<1>1. CASE \/ PlanInstall \/ UpgradeCompletes
           \/ \E p \in OtherPlugins : OtherPluginAdded(p)
           \/ \E v \in Versions : UpgradeStarts(v)
  BY <1>1 DEF PlanInstall, UpgradeCompletes, OtherPluginAdded, UpgradeStarts,
     objects, ObjectStep
<1>2. CASE InstallGpuOperator
  <2>1. obj \in [Objects -> ObjectType] /\ "GpuCsv" \in Objects
        /\ Live(NoAddon, "desired").owner = NoAddon
    BY DEF TypeInv, TypeOK, Objects, Live
  <2>2. CASE k = "GpuCsv"
    <3>1. obj'[k] = Live(NoAddon, "desired")
      BY <1>2, <2>1, <2>2 DEF InstallGpuOperator
    <3>. QED  BY <2>1, <2>2, <3>1 DEF ObjectStep
  <2>3. CASE k # "GpuCsv"
    <3>1. obj[k] \in ObjectType
      BY <2>1
    <3>2. obj'[k] = obj[k] \/ obj'[k] = [obj[k] EXCEPT !.ready = TRUE]
      BY <1>2, <2>1, <2>3 DEF InstallGpuOperator
    <3>. QED  BY <3>1, <3>2 DEF ObjectStep, ObjectType
  <2>. QED  BY <2>2, <2>3
<1>3. ASSUME NEW j \in Lingering, FinishTermination(j) PROVE ObjectStep(k)
  <2>1. obj' = [obj EXCEPT ![j] = Absent] /\ j \in Objects
    BY <1>3, ObjectsAssumption DEF FinishTermination
  <2>. QED  BY <2>1 DEF ObjectStep, TypeInv, TypeOK
<1>4. CASE \E a \in Addons :
             \/ UserCreates(a) \/ UserDeletes(a) \/ UserToggles(a)
             \/ UserTouches(a)
  <2>1. UNCHANGED obj
    BY <1>4 DEF UserCreates, UserDeletes, UserToggles, UserTouches, EditAddon,
       ChangeAddon, objects
  <2>. QED  BY <2>1 DEF ObjectStep
<1>5. ASSUME NEW j \in Contended, Drift(j) \/ ExternalDelete(j)
      PROVE  ObjectStep(k)
  <2>1. j \in Objects /\ obj \in [Objects -> ObjectType]
    BY ControllerAssumption DEF Objects, TypeInv, TypeOK
  <2>2. CASE ExternalDelete(j)
    BY <2>1, <2>2, ErasedStep DEF ExternalDelete, EditObject, Erased
  <2>3. CASE Drift(j)
    <3>1. PICK o \in {obj[j].owner, NoAddon} :
            obj' = [obj EXCEPT ![j] = [obj[j] EXCEPT !.spec = "other", !.owner = o]]
      BY <2>3 DEF Drift, EditObject
    <3>. QED  BY <2>1, <3>1 DEF ObjectStep, ObjectType
  <2>. QED  BY <1>5, <2>2, <2>3
<1>. QED
  BY <1>1, <1>2, <1>3, <1>4, <1>5 DEF Cluster, Users

LEMMA WhoWrites ==
    ASSUME TypeInv, [Next]_vars, NEW k \in Objects
    PROVE  ObjectStep(k)
<1>1. CASE Sync \/ Process \/ UNCHANGED vars
  BY <1>1 DEF Sync, SyncAddon, SyncObject, SyncConsole, Resync, Process,
     Jumpstart, StartManager, Crash, OperatorRemoved, api, objects, vars,
     ObjectStep
<1>2. CASE Worker
  <2>1. CASE UNCHANGED obj
    BY <2>1 DEF ObjectStep
  <2>. QED
    BY <1>2, <2>1, PassWrites
       DEF Worker, StartReconcile, StartRemoval, NothingToDo, GetFails, Take,
           api, objects
<1>. QED  BY <1>1, <1>2, OthersWrite DEF Next

\* The cache takes over what the API server has.
LEMMA CopiesFollow ==
    ASSUME TypeInv, [Next]_vars, NEW k \in Objects
    PROVE  seen'[k] = seen[k] \/ (seen'[k] = obj[k] /\ UNCHANGED obj)
<1>1. CASE Sync
  BY <1>1 DEF Sync, SyncAddon, SyncObject, SyncConsole, Resync, api, caches,
     objects, TypeInv, TypeOK
<1>2. CASE Process
  BY <1>2 DEF Process, Jumpstart, StartManager, Crash, OperatorRemoved, api,
     caches, objects
<1>3. CASE PassStep
  BY <1>3 DEF PassStep, RegisterFinalizer, ReconcileOperand,
     ReconcileSubscription, SubscriptionPanics, EnterConsolePlugin,
     PatchClusterConsole, PatchStatus, DisableOperand, RemoveOperand,
     RemoveGpuCsv, RemoveSelfCsv, RemoveFinalizer, caches
<1>4. CASE Worker
  BY <1>3, <1>4 DEF Worker, StartReconcile, StartRemoval, NothingToDo, GetFails,
     Take, caches
<1>5. CASE Cluster
  BY <1>5 DEF Cluster, PlanInstall, InstallGpuOperator, UpgradeCompletes,
     FinishTermination, caches
<1>6. CASE Users
  BY <1>6 DEF Users, UserCreates, UserDeletes, UserToggles, UserTouches,
     EditAddon, Drift, ExternalDelete, EditObject, OtherPluginAdded,
     UpgradeStarts, Edit, caches
<1>7. CASE UNCHANGED vars
  BY <1>7 DEF vars
<1>. QED  BY <1>1, <1>2, <1>4, <1>5, <1>6, <1>7 DEF Next

\* This operator writes the list of console plugins only in a pass.
LEMMA ConsoleStep ==
    ASSUME TypeInv, [Next]_vars, edits' = edits
    PROVE  console' = console \/ console' = PatchedPlugins
<1>1. CASE Sync
  BY <1>1 DEF Sync, SyncAddon, SyncObject, SyncConsole, Resync, api
<1>2. CASE Process
  BY <1>2 DEF Process, Jumpstart, StartManager, Crash, OperatorRemoved, api
<1>3. CASE PassStep
  BY <1>3 DEF PassStep, RegisterFinalizer, ReconcileOperand,
     ReconcileSubscription, SubscriptionPanics, EnterConsolePlugin,
     PatchClusterConsole, PatchStatus, DisableOperand, RemoveOperand,
     RemoveGpuCsv, RemoveSelfCsv, RemoveFinalizer, api
<1>4. CASE Worker
  BY <1>3, <1>4 DEF Worker, StartReconcile, StartRemoval, NothingToDo, GetFails,
     Take, api
<1>5. CASE Cluster
  BY <1>5 DEF Cluster, PlanInstall, InstallGpuOperator, UpgradeCompletes,
     FinishTermination
<1>6. CASE Users
  <2>1. Edit
    BY <1>6 DEF Users, UserCreates, UserDeletes, UserToggles, UserTouches,
       EditAddon, Drift, ExternalDelete, EditObject, OtherPluginAdded, UpgradeStarts
  <2>. QED  BY <2>1 DEF Edit, TypeInv, TypeOK
<1>7. CASE UNCHANGED vars
  BY <1>7 DEF vars
<1>. QED  BY <1>1, <1>2, <1>4, <1>5, <1>6, <1>7 DEF Next

\* This operator takes out the plugin of another one only if the copy in the
\* cache does not have it: what is written is the copy, or changes nothing.
THEOREM OnlyUnseenLost == Spec => OnlyUnseenPluginsLost
<1>1. ASSUME TypeInv, [Next]_vars, edits' = edits
      PROVE  \A p \in OtherPlugins : p \in console \ console' => p \notin consoleSeen
  BY <1>1, ConsoleStep DEF PatchedPlugins
<1>2. Init => TypeInv
  BY InitType DEF TypeInv, PassHasAddon, Init, Idle, IdlePass
<1>. QED  BY <1>1, <1>2, TypeStep, PTL DEF Spec, OnlyUnseenPluginsLost

-----------------------------------------------------------------------------
(* Controller references                                                    *)

\* While nobody else edits them, the operands the controller owns always have
\* an owner, also in the cache.
OwnersKnown ==
    \A k \in Owned :
        /\ Present(obj[k]) => obj[k].owner \in Addons
        /\ Present(seen[k]) => seen[k].owner \in Addons

\* What a CreateOrPatch that is accepted makes of the owner.
LEMMA AcceptedOwner ==
    ASSUME TypeInv, NEW k \in Objects, NEW a \in Addons, NEW s,
           Accepted(k, a, seen[k], obj[k], s), AbsentIsUnowned,
           k \in Owned => OwnersKnown
    PROVE  LET o == Applied(k, a, seen[k], obj[k], s)
           IN /\ obj[k].owner \in Addons /\ Present(o) => o.owner = obj[k].owner
              /\ k \in Owned /\ Present(o) => o.owner \in Addons
<1>1. obj[k] \in ObjectType /\ seen[k] \in ObjectType
  BY DEF TypeInv, TypeOK
<1>2. CASE ~Present(seen[k])
  <2>1. ~Present(obj[k]) /\ obj[k].owner = NoAddon
    BY <1>2 DEF Accepted, AbsentIsUnowned
  <2>. QED
    BY <1>2, <2>1, ObjectsAssumption DEF Applied, Live
<1>3. CASE Present(seen[k]) /\ ~Present(obj[k])
  BY <1>3 DEF Applied
<1>4. CASE Present(seen[k]) /\ Present(obj[k]) /\ k \notin Owned
  BY <1>1, <1>4 DEF Applied, ObjectType
<1>5. CASE Present(seen[k]) /\ Present(obj[k]) /\ k \in Owned
  <2>1. seen[k].owner = a
    BY <1>5, ObjectsAssumption DEF Accepted, Controllable, OwnersKnown
  <2>2. Applied(k, a, seen[k], obj[k], s).owner = obj[k].owner
    BY <1>1, <1>5, <2>1 DEF Applied, ObjectType
  <2>. QED  BY <1>5, <2>2 DEF OwnersKnown
<1>. QED  BY <1>2, <1>3, <1>4, <1>5

LEMMA OwnerStep ==
    ASSUME Contended \cap Owned = {}, IInv, OwnersKnown, [Next]_vars,
           NEW k \in Objects
    PROVE  /\ obj[k].owner \in Addons /\ Present(obj'[k])
                => obj'[k].owner \in {obj[k].owner, NoAddon}
           /\ k \in Owned /\ Present(obj'[k]) => obj'[k].owner \in Addons
<1>1. TypeInv /\ AbsentIsUnowned
  BY SafeIsIInv DEF Safe, ObjectsOK
<1>2. ObjectStep(k) /\ obj[k] \in ObjectType
  BY <1>1, WhoWrites DEF TypeInv, TypeOK
<1>3. "GpuCsv" \notin Owned
  BY DEF Owned
<1>4. CASE obj'[k] = Absent
  BY <1>4 DEF Absent, Present
<1>5. CASE obj'[k] = Deleted(k, obj[k])
  BY <1>2, <1>5 DEF Deleted, Absent, Present, ObjectType, OwnersKnown
<1>6. CASE /\ At("reconcile", k) /\ Acceptable(k)
           /\ obj'[k] = Applied(k, pass.req, seen[k], obj[k], Desired(k))
  <2>1. pass.req \in Addons
    BY <1>1, <1>6 DEF TypeInv, PassHasAddon, At, Idle
  <2>. QED  BY <1>1, <1>6, <2>1, AcceptedOwner DEF Acceptable
<1>7. CASE obj'[k].owner = NoAddon /\ k \notin Owned
  BY <1>7
<1>8. CASE obj'[k].st = obj[k].st /\ obj'[k].owner = obj[k].owner
  BY <1>8 DEF OwnersKnown, Present
<1>9. CASE /\ k \in Contended
           /\ obj'[k].st = obj[k].st /\ obj'[k].owner \in {obj[k].owner, NoAddon}
  BY <1>9
<1>. QED
  BY <1>2, <1>3, <1>4, <1>5, <1>6, <1>7, <1>8, <1>9
     DEF ObjectStep, OwnersKnown, Present

LEMMA OwnersKnownStep ==
    ASSUME Contended \cap Owned = {}, IInv, OwnersKnown, [Next]_vars
    PROVE  OwnersKnown'
<1>1. TypeInv /\ Owned \subseteq Objects
  BY SafeIsIInv DEF Owned, Objects, Operands
<1>2. ASSUME NEW k \in Owned
      PROVE  /\ Present(obj'[k]) => obj'[k].owner \in Addons
             /\ Present(seen'[k]) => seen'[k].owner \in Addons
  BY <1>1, <1>2, OwnerStep, CopiesFollow DEF OwnersKnown
<1>. QED  BY <1>2 DEF OwnersKnown, Present

\* As long as others leave the owned operands alone, an operand passes from one
\* GPUAddon to another only through its deletion, however late the copy is that
\* SetControllerReference looked at.
THEOREM OwnersStay ==
    ASSUME Contended \cap Owned = {}
    PROVE  Spec => OwnerNotStolen
<1>1. Init => OwnersKnown
  BY DEF Init, OwnersKnown, Owned, Objects, Operands, Absent, Live, Present
<1>2. IInv /\ OwnersKnown /\ [Next]_vars => OwnersKnown'
  BY OwnersKnownStep
<1>3. ASSUME IInv, OwnersKnown, [Next]_vars
      PROVE  \A k \in Objects :
               obj[k].owner \in Addons /\ Present(obj'[k])
               => obj'[k].owner \in {obj[k].owner, NoAddon}
  BY <1>3, OwnerStep
<1>. QED
  BY <1>1, <1>2, <1>3, IInvInvariant, PTL DEF Spec, OwnerNotStolen

-----------------------------------------------------------------------------
(* Versions                                                                 *)

\* Some completed entry of the history is a version for the console plugin.
VersionSuits ==
    \E i \in DOMAIN history :
        /\ history[i].state = "Completed"
        /\ AtLeast(history[i].version, ConsolePluginVersion)

LEMMA FirstEntry ==
    ASSUME NEW S \in SUBSET Nat, S # {}
    PROVE  \E i \in S : \A j \in S : i <= j
<1>1. PICK i \in S : \A j \in S : <<j, i>> \notin OpToRel(<, Nat)
  BY NatLessThanWellFounded, WFMin
<1>2. \A j \in S : ~(j < i)
  BY <1>1 DEF OpToRel
<1>. QED  BY <1>2

\* A version the operator finds suitable is one of a completed entry.
LEMMA SuitableVersion ==
    ASSUME TypeOK, IsOpenShiftVersionAtLeast(history, ConsolePluginVersion)
    PROVE  VersionSuits
<1>. DEFINE S == Completed(history)
            i == CHOOSE i \in S : \A j \in S : i <= j
<1>1. history \in Seq(HistoryEntry) /\ DOMAIN history = 1..Len(history)
      /\ Len(history) \in Nat
  BY DEF TypeOK
<1>2. S \in SUBSET Nat
  BY <1>1 DEF Completed
<1>3. S # {}
  BY DEF IsOpenShiftVersionAtLeast, GetOpenShiftVersion
<1>4. i \in S
  BY <1>2, <1>3, FirstEntry
<1>5. GetOpenShiftVersion(history) = history[i].version
  BY <1>3 DEF GetOpenShiftVersion
<1>6. i \in DOMAIN history /\ history[i].state = "Completed"
  BY <1>4 DEF Completed
<1>. HIDE DEF i
<1>. QED  BY <1>5, <1>6 DEF IsOpenShiftVersionAtLeast, VersionSuits

\* An upgrade puts an entry before the others or completes the first one.
LEMMA HistoryGrows ==
    ASSUME TypeOK, [Next]_vars, VersionSuits
    PROVE  VersionSuits'
<1>0. history \in Seq(HistoryEntry)
  BY DEF TypeOK
<1>1. PICK i \in DOMAIN history :
        /\ history[i].state = "Completed"
        /\ AtLeast(history[i].version, ConsolePluginVersion)
  BY DEF VersionSuits
<1>2. CASE UNCHANGED history
  BY <1>1, <1>2 DEF VersionSuits
<1>3. ASSUME NEW v \in Versions, UpgradeStarts(v) PROVE VersionSuits'
  <2>. DEFINE entry == [state |-> "Partial", version |-> v]
  <2>1. history' = <<entry>> \o history /\ entry \in HistoryEntry
    BY <1>3, ControllerAssumption DEF UpgradeStarts, HistoryEntry
  <2>. HIDE DEF entry
  <2>2. i + 1 \in DOMAIN history' /\ history'[i + 1] = history[i]
    BY <1>0, <2>1
  <2>. QED  BY <1>1, <2>2 DEF VersionSuits
<1>4. CASE UpgradeCompletes
  <2>1. history' = [history EXCEPT ![1].state = "Completed"]
    BY <1>4 DEF UpgradeCompletes
  <2>2. DOMAIN history' = DOMAIN history /\ history[i] \in HistoryEntry
    BY <1>0, <2>1
  <2>3. history'[i].state = "Completed" /\ history'[i].version = history[i].version
    <3>1. CASE i = 1
      <4>1. history'[i] = [history[i] EXCEPT !.state = "Completed"]
        BY <2>1, <3>1
      <4>. QED  BY <2>2, <4>1 DEF HistoryEntry
    <3>2. CASE i # 1
      BY <1>1, <2>1, <3>2
    <3>. QED  BY <3>1, <3>2
  <2>. QED  BY <1>1, <2>2, <2>3 DEF VersionSuits
<1>5. \/ UNCHANGED history \/ UpgradeCompletes
      \/ \E v \in Versions : UpgradeStarts(v)
  <2>1. CASE Sync \/ Process \/ UNCHANGED vars
    BY <2>1 DEF Sync, SyncAddon, SyncObject, SyncConsole, Resync, Process,
       Jumpstart, StartManager, Crash, OperatorRemoved, api, vars
  <2>2. CASE PassStep
    BY <2>2 DEF PassStep, RegisterFinalizer, ReconcileOperand,
       ReconcileSubscription, SubscriptionPanics, EnterConsolePlugin,
       PatchClusterConsole, PatchStatus, DisableOperand, RemoveOperand,
       RemoveGpuCsv, RemoveSelfCsv, RemoveFinalizer, api
  <2>3. CASE Worker
    BY <2>2, <2>3 DEF Worker, StartReconcile, StartRemoval, NothingToDo, GetFails,
       Take, api
  <2>4. CASE Cluster
    BY <2>4 DEF Cluster, PlanInstall, InstallGpuOperator, FinishTermination
  <2>5. CASE Users
    BY <2>5 DEF Users, UserCreates, UserDeletes, UserToggles, UserTouches,
       EditAddon, ChangeAddon, Drift, ExternalDelete, EditObject, OtherPluginAdded
  <2>. QED  BY <2>1, <2>3, <2>4, <2>5 DEF Next
<1>. QED  BY <1>2, <1>3, <1>4, <1>5

\* A pass comes to the Deployment of the console plugin only by way of the
\* check of the version.
LEMMA WhoDeploys ==
    ASSUME TypeInv, [Next]_vars, At("reconcile", "Deployment")'
    PROVE  \/ At("reconcile", "Deployment")
           \/ IsOpenShiftVersionAtLeast(history, ConsolePluginVersion)
<1>0. pass \in PassType
  BY DEF TypeInv, TypeOK
<1>1. ASSUME NEW k, Fail(k) \/ pass' = IdlePass \/ FailWith({}) PROVE FALSE
  <2>1. CASE Fail(k)
    BY <1>0, <2>1, FailFields DEF Fail, At
  <2>2. CASE FailWith({})
    BY <1>0, <2>2, FailFields DEF At
  <2>3. CASE pass' = IdlePass
    BY <2>3 DEF IdlePass, At
  <2>. QED  BY <1>1, <2>1, <2>2, <2>3
<1>2. ASSUME NEW k \in Operands, AfterOperand(k) PROVE FALSE
  <2>1. AfterCreate[k] # "Deployment"
    BY DEF AfterCreate, Operands
  <2>. QED  BY <1>0, <1>2, <2>1 DEF AfterOperand, Goto, Report, At, PassType
<1>3. ASSUME NEW k \in Operands, CreateOrPatch(k) PROVE FALSE
  BY <1>1, <1>2, <1>3 DEF CreateOrPatch
<1>4. CASE EnterConsolePlugin
  BY <1>0, <1>1, <1>4 DEF EnterConsolePlugin, Report, At, PassType
<1>5. CASE RegisterFinalizer
  BY <1>0, <1>1, <1>5 DEF RegisterFinalizer, At, PassType
<1>6. CASE PatchClusterConsole
  BY <1>0, <1>1, <1>6 DEF PatchClusterConsole, Report, At, PassType
<1>7. ASSUME NEW k \in PluginOperands, DisableOperand(k) PROVE FALSE
  BY <1>0, <1>1, <1>7 DEF DisableOperand, At, PassType
<1>8. CASE SubscriptionPanics \/ PatchStatus \/ RemoveFinalizer
  BY <1>1, <1>8 DEF SubscriptionPanics, Die, PatchStatus, AfterStatus,
     RemoveFinalizer, Return, ReturnError
<1>9. CASE \/ RemoveGpuCsv \/ RemoveSelfCsv \/ \E k \in Operands : RemoveOperand(k)
  BY <1>0, <1>1, <1>9 DEF RemoveGpuCsv, RemoveSelfCsv, RemoveOperand,
     RetryRemoval, ReturnError, Goto, At, PassType
<1>10. CASE PassStep
  BY <1>1, <1>3, <1>4, <1>5, <1>6, <1>7, <1>8, <1>9, <1>10
     DEF PassStep, ReconcileOperand, ReconcileSubscription, Created, Operands
<1>11. CASE Worker
  <2>1. ASSUME NEW a \in Addons, StartReconcile(a) \/ StartRemoval(a) PROVE FALSE
    BY <2>1 DEF StartReconcile, StartRemoval, StartPass, FirstStep, IdlePass, At
  <2>. QED
    BY <1>10, <1>11, <2>1 DEF Worker, NothingToDo, GetFails, At
<1>12. CASE Sync \/ Process \/ Cluster \/ UNCHANGED vars
  BY <1>1, <1>12 DEF Sync, SyncAddon, SyncObject, SyncConsole, Resync, Process,
     Jumpstart, StartManager, Crash, Die, OperatorRemoved, Cluster, PlanInstall,
     InstallGpuOperator, UpgradeCompletes, FinishTermination, vars, At
<1>13. CASE Users
  BY <1>0, <1>13 DEF Users, UserCreates, UserDeletes, UserToggles, UserTouches,
     EditAddon, ChangeAddon, PassSees, Drift, ExternalDelete, EditObject,
     OtherPluginAdded, UpgradeStarts, At, PassType
<1>. QED  BY <1>11, <1>12, <1>13 DEF Next

DeployedWhereSuited ==
    Present(obj["Deployment"]) \/ At("reconcile", "Deployment") => VersionSuits

LEMMA SuitedStep ==
    ASSUME TypeInv, DeployedWhereSuited, [Next]_vars
    PROVE  DeployedWhereSuited'
<1>. DEFINE k == "Deployment"
<1>1. k \in Objects /\ k # "GpuCsv" /\ TypeOK /\ obj[k] \in ObjectType
  BY DEF Objects, Operands, TypeInv, TypeOK
<1>2. Present(obj'[k]) => Present(obj[k]) \/ At("reconcile", k)
  <2>1. ObjectStep(k)
    BY <1>1, WhoWrites
  <2>2. ~Present(Absent) /\ (Present(Deleted(k, obj[k])) => Present(obj[k]))
    BY DEF Deleted, Absent, Present
  <2>. HIDE DEF k
  <2>. QED  BY <1>1, <2>1, <2>2 DEF ObjectStep, Present
<1>3. At("reconcile", k)' => At("reconcile", k) \/ VersionSuits
  BY <1>1, WhoDeploys, SuitableVersion
<1>4. VersionSuits => VersionSuits'
  BY <1>1, HistoryGrows
<1>. QED  BY <1>2, <1>3, <1>4 DEF DeployedWhereSuited, Present

\* The console plugin is deployed only on a cluster that has completed the
\* installation of a version it works with, through all upgrades.
THEOREM PluginOnSuitedVersion == Spec => []PluginNeedsVersion
<1>1. Init => TypeInv
  BY InitType DEF TypeInv, PassHasAddon, Init, Idle, IdlePass
<1>2. Init => DeployedWhereSuited
  BY DEF Init, DeployedWhereSuited, Objects, Operands, Absent, Present, At,
     IdlePass
<1>3. TypeInv /\ DeployedWhereSuited /\ [Next]_vars => DeployedWhereSuited'
  BY SuitedStep
<1>4. DeployedWhereSuited => PluginNeedsVersion
  BY DEF DeployedWhereSuited, PluginNeedsVersion, VersionSuits
<1>. QED  BY <1>1, <1>2, <1>3, <1>4, TypeStep, PTL DEF Spec
=============================================================================
