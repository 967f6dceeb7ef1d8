--------------------------- MODULE GPUAddonProofs ---------------------------
(***************************************************************************)
(* Proofs about the GPUAddon controller, for any set of GPUAddons, any     *)
(* lag of the caches and any number of edits, failures and crashes.        *)
(***************************************************************************)
EXTENDS GPUAddonProperties, TLAPS

-----------------------------------------------------------------------------
(* The operators the actions are built from return what they should         *)

LEMMA DeletedType ==
    ASSUME NEW k \in Objects, NEW o \in ObjectType
    PROVE  Deleted(k, o) \in ObjectType
  BY DEF Deleted, ObjectType, Absent, Present, Specs

LEMMA AppliedType ==
    ASSUME NEW k \in Operands, NEW a \in Addons,
           NEW c \in ObjectType, NEW o \in ObjectType, NEW s \in Specs
    PROVE  Applied(k, a, c, o, s) \in ObjectType
  BY DEF Applied, ObjectType, Live, Present

LEMMA ChannelType ==
    ASSUME NEW v, HasChannel(v)
    PROVE  Channel(v) \in Specs
<1>1. v = <<4, 9>> \/ v = <<4, 10>>
  BY DEF HasChannel, CompatibilityMatrix
<1>2. CASE v = <<4, 9>>
  <2>1. CompatibilityMatrix(v) = <<"v1.9.0", "v1.10">>
    BY <1>2 DEF CompatibilityMatrix
  <2>. QED  BY <2>1 DEF Channel, Specs
<1>3. CASE v = <<4, 10>>
  <2>1. CompatibilityMatrix(v) = <<"v1.10">>
    BY <1>3 DEF CompatibilityMatrix
  <2>. QED  BY <2>1 DEF Channel, Specs
<1>. QED  BY <1>1, <1>2, <1>3

LEMMA DesiredType ==
    ASSUME NEW k \in Operands, k = "Subscription" => HasChannel(OpenShift)
    PROVE  Desired(k) \in Specs
  BY ChannelType DEF Desired, Specs

LEMMA ConditionType ==
    ASSUME NEW k
    PROVE  Success(k) \in Condition /\ Failure(k) \in Condition
  BY DEF Success, Failure, Condition, ConditionOf, ConditionTypes

LEMMA PhaseType ==
    ASSUME NEW conds, NEW failed, NEW old \in Phases
    PROVE  PhaseOf(conds, failed, old) \in Phases
  BY DEF PhaseOf, Phases

LEMMA RequestsType ==
    ASSUME NEW k \in Objects, NEW o \in ObjectType, NEW n \in ObjectType
    PROVE  Requests(k, o, n) \subseteq Addons \cup {PolicyKey}
  BY DEF Requests, ObjectType

LEMMA NotifyType ==
    ASSUME obj \in [Objects -> ObjectType], obj' \in [Objects -> ObjectType],
           news \in [Objects -> SUBSET (Addons \cup {PolicyKey})],
           Notify
    PROVE  news' \in [Objects -> SUBSET (Addons \cup {PolicyKey})]
  BY RequestsType DEF Notify

LEMMA ErasedType ==
    ASSUME obj \in [Objects -> ObjectType], NEW k \in Objects
    PROVE  Erased(k) \in [Objects -> ObjectType]
  BY DeletedType DEF Erased

LEMMA NextStepType ==
    /\ \A k \in Operands : AfterCreate[k] \in ReconcileSteps
    /\ \A k \in Operands : AfterDelete[k] \in RemoveSteps
  BY DEF AfterCreate, AfterDelete, ReconcileSteps, RemoveSteps, Created, Operands

-----------------------------------------------------------------------------
(* Type correctness                                                         *)

LEMMA IdlePassType == IdlePass \in PassType
  BY DEF IdlePass, PassType, NoResource, AddonResource, Phases, NoAddon

LEMMA InitType == Init => TypeOK
<1>. SUFFICES ASSUME Init PROVE TypeOK
  OBVIOUS
<1>1. Absent \in ObjectType /\ Live(NoAddon, "desired") \in ObjectType
  BY DEF Absent, Live, ObjectType, Specs
<1>2. NoResource \in AddonResource
  BY DEF NoResource, AddonResource, Phases
<1>3. cr \in [Addons -> AddonResource] /\ crSeen \in [Addons -> AddonResource]
  BY <1>2 DEF Init
<1>4. obj \in [Objects -> ObjectType] /\ seen \in [Objects -> ObjectType]
  BY <1>1 DEF Init
<1>5. news \in [Objects -> SUBSET (Addons \cup {PolicyKey})]
  BY DEF Init
<1>6. history \in Seq(HistoryEntry)
  BY ControllerAssumption DEF Init
<1>7. pass \in PassType
  BY IdlePassType DEF Init
<1>8. /\ edits \in 0..MaxEdits /\ faults \in 0..MaxFaults
      /\ crashes \in 0..MaxCrashes
  BY ControllerAssumption DEF Init
<1>9. policyKind \in BOOLEAN
  BY ControllerAssumption DEF Init
<1>. QED
  BY <1>3, <1>4, <1>5, <1>6, <1>7, <1>8, <1>9 DEF Init, TypeOK

LEMMA FailType ==
    ASSUME pass \in PassType, NEW c \in SUBSET Condition, FailWith(c)
    PROVE  pass' \in PassType
  BY DEF FailWith, PassType, ReconcileSteps

LEMMA FailFields ==
    ASSUME pass \in PassType, NEW c, FailWith(c)
    PROVE  /\ pass'.mode = "reconcile" /\ pass'.step = "Status"
           /\ pass'.req = pass.req /\ pass'.loc = pass.loc
           /\ pass'.stale = pass.stale
  BY DEF FailWith, PassType

LEMMA FailOfType ==
    ASSUME pass \in PassType, NEW k, Fail(k)
    PROVE  pass' \in PassType /\ pass'.req = pass.req
<1>1. {Failure(k)} \in SUBSET Condition /\ FailWith({Failure(k)})
  BY ConditionType DEF Fail
<1>2. pass' \in PassType
  BY <1>1, FailType
<1>. QED  BY <1>1, <1>2, FailFields

LEMMA ReportType ==
    ASSUME pass \in PassType, NEW k,
           NEW s \in ReconcileSteps \cup RemoveSteps, Report(k, s)
    PROVE  pass' \in PassType
  BY ConditionType DEF Report, PassType

LEMMA GotoType ==
    ASSUME pass \in PassType, NEW s \in ReconcileSteps \cup RemoveSteps, Goto(s)
    PROVE  pass' \in PassType
  BY DEF Goto, PassType

LEMMA StartType ==
    ASSUME TypeOK, NEW a \in Addons, NEW m \in {"reconcile", "remove"},
           NEW s \in ReconcileSteps \cup RemoveSteps, StartPass(a, m, s)
    PROVE  pass' \in PassType
<1>1. crSeen[a] \in AddonResource /\ (a \in stale) \in BOOLEAN
  BY DEF TypeOK
<1>2. pass' = [mode |-> m, step |-> s, req |-> a, loc |-> crSeen[a],
               stale |-> a \in stale, conds |-> {}, failed |-> FALSE,
               left |-> {}]
  BY DEF StartPass, IdlePass
<1>. QED  BY <1>1, <1>2 DEF PassType

LEMMA WriteType ==
    ASSUME TypeOK, NEW a \in Addons, NEW r \in AddonResource, WriteAddon(a, r)
    PROVE  cr' \in [Addons -> AddonResource] /\ stale' \in SUBSET Addons
  BY DEF WriteAddon, TypeOK

LEMMA ReturnType ==
    ASSUME TypeOK, pass.req \in Addons, Return \/ ReturnError
    PROVE  pass' \in PassType /\ queue' \subseteq Addons \cup {PolicyKey}
  BY IdlePassType DEF Return, ReturnError, TypeOK

LEMMA FaultType ==
    ASSUME TypeOK, Fault \/ NoFault
    PROVE  faults' \in 0..MaxFaults
  BY ControllerAssumption DEF Fault, NoFault, TypeOK

\* The requests of a pass are for GPUAddons: the ClusterPolicy's own name
\* never gets past the Get.
PassHasAddon == ~Idle => pass.req \in Addons

TypeInv == TypeOK /\ PassHasAddon

LEMMA RegisterFinalizerType ==
    ASSUME TypeInv, RegisterFinalizer
    PROVE  TypeInv'
<1>1. pass \in PassType /\ pass.mode = "reconcile" /\ pass.req \in Addons
  BY DEF TypeInv, TypeOK, PassHasAddon, RegisterFinalizer, At, Idle
<1>2. WithFinalizer(cr[pass.req]) \in AddonResource
  <2>1. cr[pass.req] \in AddonResource
    BY <1>1 DEF TypeInv, TypeOK
  <2>. QED  BY <2>1 DEF WithFinalizer, AddonResource
<1>3. cr' \in [Addons -> AddonResource] /\ stale' \in SUBSET Addons
  <2>1. CASE WriteAddon(pass.req, WithFinalizer(cr[pass.req]))
    BY <1>1, <1>2, <2>1, WriteType DEF TypeInv
  <2>2. CASE UNCHANGED <<cr, stale>>
    BY <2>2 DEF TypeInv, TypeOK
  <2>. QED  BY <2>1, <2>2 DEF RegisterFinalizer
<1>4. pass' \in PassType /\ pass'.mode = "reconcile" /\ pass'.req = pass.req
  <2>1. cr'[pass.req] \in AddonResource
    BY <1>1, <1>3
  <2>2. CASE pass' = [pass EXCEPT !.step = "NFD", !.loc = cr'[pass.req]]
    BY <1>1, <2>1, <2>2 DEF PassType, ReconcileSteps, Created, Operands
  <2>3. CASE FailWith({})
    <3>1. pass' \in PassType
      BY <1>1, <2>3, FailType
    <3>. QED  BY <1>1, <2>3, <3>1, FailFields
  <2>4. CASE pass' = [pass EXCEPT !.step = "Status", !.failed = TRUE,
                                  !.stale = TRUE]
    BY <1>1, <2>4 DEF PassType, ReconcileSteps
  <2>. QED  BY <2>2, <2>3, <2>4 DEF RegisterFinalizer
<1>5. faults' \in 0..MaxFaults
  BY FaultType DEF TypeInv, RegisterFinalizer
<1>. QED
  BY <1>1, <1>3, <1>4, <1>5
     DEF RegisterFinalizer, TypeInv, TypeOK, PassHasAddon, Idle, objects, caches, olm

LEMMA WrittenType ==
    ASSUME TypeInv, ~Idle, NEW k \in Operands,
           k = "Subscription" => HasChannel(OpenShift)
    PROVE  Written(k) \in [Objects -> ObjectType]
<1>1. Desired(k) \in Specs
  BY DesiredType
<1>2. k \in Objects
  BY DEF Objects
<1>3. Applied(k, pass.req, seen[k], obj[k], Desired(k)) \in ObjectType
  BY <1>1, <1>2, AppliedType DEF TypeInv, TypeOK, PassHasAddon
<1>. QED  BY <1>2, <1>3 DEF Written, TypeInv, TypeOK

LEMMA CreateOrPatchType ==
    ASSUME TypeInv, NEW k \in Operands, At("reconcile", k), CreateOrPatch(k),
           k = "Subscription" => HasChannel(OpenShift)
    PROVE  /\ obj' \in [Objects -> ObjectType]
           /\ pass' \in PassType /\ pass'.req \in Addons
           /\ faults' \in 0..MaxFaults
<1>1. pass \in PassType /\ pass.mode = "reconcile" /\ pass.req \in Addons
  BY DEF TypeInv, TypeOK, PassHasAddon, At, Idle
<1>2. obj' \in [Objects -> ObjectType]
  <2>1. Written(k) \in [Objects -> ObjectType]
    BY <1>1, WrittenType DEF Idle
  <2>2. obj' = Written(k) \/ UNCHANGED obj
    BY DEF CreateOrPatch
  <2>. QED  BY <2>1, <2>2 DEF TypeInv, TypeOK
<1>3. pass' \in PassType /\ pass'.req \in Addons
  <2>1. AfterCreate[k] \in ReconcileSteps
    BY NextStepType
  <2>2. CASE Goto(AfterCreate[k])
    BY <1>1, <2>1, <2>2, GotoType DEF Goto, PassType
  <2>3. CASE Report(k, AfterCreate[k])
    BY <1>1, <2>1, <2>3, ReportType DEF Report, PassType
  <2>4. CASE Fail(k)
    BY <1>1, <2>4, FailOfType
  <2>. QED  BY <2>2, <2>3, <2>4 DEF CreateOrPatch, AfterOperand
<1>4. faults' \in 0..MaxFaults
  BY FaultType DEF CreateOrPatch, TypeInv
<1>. QED  BY <1>2, <1>3, <1>4

LEMMA ReconcileOperandType ==
    ASSUME TypeInv, NEW k \in Operands, ReconcileOperand(k)
    PROVE  TypeInv'
<1>1. /\ obj' \in [Objects -> ObjectType]
      /\ pass' \in PassType /\ pass'.req \in Addons
      /\ faults' \in 0..MaxFaults
  BY CreateOrPatchType DEF ReconcileOperand
<1>2. news' \in [Objects -> SUBSET (Addons \cup {PolicyKey})]
  BY <1>1, NotifyType DEF ReconcileOperand, TypeInv, TypeOK
<1>. QED
  BY <1>1, <1>2 DEF ReconcileOperand, TypeInv, TypeOK, PassHasAddon, caches, olm

LEMMA ReconcileSubscriptionType ==
    ASSUME TypeInv, ReconcileSubscription
    PROVE  TypeInv'
<1>1. "Subscription" \in Operands
  BY DEF Operands
<1>2. /\ obj' \in [Objects -> ObjectType]
      /\ pass' \in PassType /\ pass'.req \in Addons
      /\ faults' \in 0..MaxFaults
  <2>1. CASE HasChannel(OpenShift) /\ CreateOrPatch("Subscription")
    BY <1>1, <2>1, CreateOrPatchType DEF ReconcileSubscription
  <2>2. CASE Fail("Subscription") /\ UNCHANGED obj /\ NoFault
    <3>1. pass \in PassType /\ pass.req \in Addons
      BY DEF TypeInv, TypeOK, PassHasAddon, ReconcileSubscription, At, Idle
    <3>2. pass' \in PassType /\ pass'.req = pass.req
      BY <2>2, <3>1, FailOfType
    <3>. QED  BY <2>2, <3>1, <3>2, FaultType DEF TypeInv, TypeOK
  <2>. QED  BY <2>1, <2>2 DEF ReconcileSubscription
<1>3. news' \in [Objects -> SUBSET (Addons \cup {PolicyKey})]
  BY <1>2, NotifyType DEF ReconcileSubscription, TypeInv, TypeOK
<1>4. installed' \in {"unset", "no", "yes"}
  BY DEF ReconcileSubscription, ReportInstalled, TypeInv, TypeOK
<1>. QED
  BY <1>2, <1>3, <1>4
     DEF ReconcileSubscription, TypeInv, TypeOK, PassHasAddon, caches, olm

LEMMA SubscriptionPanicsType ==
    ASSUME TypeInv, SubscriptionPanics
    PROVE  TypeInv'
  BY IdlePassType DEF SubscriptionPanics, Die, TypeInv, TypeOK, PassHasAddon,
     Idle, IdlePass, api, objects, caches, olm, bounds

LEMMA EnterConsolePluginType ==
    ASSUME TypeInv, EnterConsolePlugin
    PROVE  TypeInv'
<1>1. pass \in PassType /\ pass.mode = "reconcile" /\ pass.req \in Addons
  BY DEF TypeInv, TypeOK, PassHasAddon, EnterConsolePlugin, At, Idle
<1>2. pass' \in PassType /\ pass'.req = pass.req
  <2>1. CASE Fail("ConsolePlugin")
    BY <1>1, <2>1, FailOfType
  <2>2. CASE Report("ConsolePlugin", "Status")
    BY <1>1, <2>2, ReportType DEF Report, PassType, ReconcileSteps
  <2>3. CASE pass' = IF pass.loc.plugin
                     THEN [pass EXCEPT !.step = "Deployment"]
                     ELSE [pass EXCEPT !.mode = "disable",
                                       !.step = "ConsolePlugin"]
    BY <1>1, <2>3 DEF PassType, ReconcileSteps, Created, Operands
  <2>. QED  BY <2>1, <2>2, <2>3 DEF EnterConsolePlugin
<1>3. faults' \in 0..MaxFaults
  BY FaultType DEF EnterConsolePlugin, TypeInv
<1>. QED
  BY <1>1, <1>2, <1>3 DEF EnterConsolePlugin, TypeInv, TypeOK, PassHasAddon,
     api, objects, caches, olm

LEMMA PatchClusterConsoleType ==
    ASSUME TypeInv, PatchClusterConsole
    PROVE  TypeInv'
<1>1. pass \in PassType /\ pass.mode = "reconcile" /\ pass.req \in Addons
  BY DEF TypeInv, TypeOK, PassHasAddon, PatchClusterConsole, At, Idle
<1>2. pass' \in PassType /\ pass'.req = pass.req
  <2>1. CASE Fail("ConsolePlugin")
    BY <1>1, <2>1, FailOfType
  <2>2. CASE Report("ConsolePlugin", "Status")
    BY <1>1, <2>2, ReportType DEF Report, PassType, ReconcileSteps
  <2>. QED  BY <2>1, <2>2 DEF PatchClusterConsole
<1>3. faults' \in 0..MaxFaults
  BY FaultType DEF PatchClusterConsole, TypeInv
<1>4. console' \subseteq OtherPlugins \cup {OurPlugin}
  BY DEF PatchClusterConsole, PatchedPlugins, TypeInv, TypeOK
<1>. QED
  BY <1>1, <1>2, <1>3, <1>4 DEF PatchClusterConsole, TypeInv, TypeOK,
     PassHasAddon, objects, caches, olm

LEMMA PatchStatusType ==
    ASSUME TypeInv, PatchStatus
    PROVE  TypeInv'
<1>1. pass \in PassType /\ pass.mode = "reconcile" /\ pass.req \in Addons
  BY DEF TypeInv, TypeOK, PassHasAddon, PatchStatus, At, Idle
<1>2. cr' \in [Addons -> AddonResource] /\ stale' \in SUBSET Addons
  <2>. DEFINE phase == PhaseOf(pass.conds, pass.failed, pass.loc.phase)
              status(restamped) ==
                [cr[pass.req] EXCEPT
                   !.phase = IF phase # pass.loc.phase THEN phase ELSE @,
                   !.conds = IF pass.conds # pass.loc.conds \/ restamped
                             THEN pass.conds ELSE @]
  <2>1. phase \in Phases /\ cr[pass.req] \in AddonResource
    BY <1>1, PhaseType DEF TypeInv, TypeOK, PassType, AddonResource
  <2>2. pass.conds \in SUBSET Condition
    BY <1>1 DEF PassType
  <2>. HIDE DEF phase
  <2>3. \A restamped : status(restamped) \in AddonResource
    BY <2>1, <2>2 DEF AddonResource
  <2>4. \/ UNCHANGED <<cr, stale>>
        \/ \E restamped \in BOOLEAN : WriteAddon(pass.req, status(restamped))
    BY DEF PatchStatus, Restamped, phase
  <2>5. CASE UNCHANGED <<cr, stale>>
    BY <2>5 DEF TypeInv, TypeOK
  <2>6. ASSUME NEW restamped \in BOOLEAN,
               WriteAddon(pass.req, status(restamped))
        PROVE  cr' \in [Addons -> AddonResource] /\ stale' \in SUBSET Addons
    <3>1. status(restamped) \in AddonResource
      BY <2>3
    <3>. HIDE DEF status
    <3>. QED  BY <1>1, <2>6, <3>1, WriteType DEF TypeInv
  <2>. QED  BY <2>4, <2>5, <2>6
<1>3. Return \/ ReturnError
  BY DEF PatchStatus, AfterStatus
<1>4. /\ pass' \in PassType /\ pass' = IdlePass
      /\ queue' \subseteq Addons \cup {PolicyKey}
  BY <1>1, <1>3, ReturnType DEF TypeInv, Return, ReturnError
<1>5. faults' \in 0..MaxFaults
  BY FaultType DEF PatchStatus, TypeInv
<1>. QED
  BY <1>2, <1>4, <1>5 DEF PatchStatus, TypeInv, TypeOK, PassHasAddon, Idle,
     IdlePass, objects, caches, olm

LEMMA DisableOperandType ==
    ASSUME TypeInv, NEW k \in PluginOperands, DisableOperand(k)
    PROVE  TypeInv'
<1>1. pass \in PassType /\ pass.mode = "disable" /\ pass.req \in Addons
  BY DEF TypeInv, TypeOK, PassHasAddon, DisableOperand, At, Idle
<1>2. k \in Operands /\ k \in Objects
  BY DEF PluginOperands, Operands, Objects
<1>3. obj' \in [Objects -> ObjectType]
  BY <1>2, ErasedType DEF DisableOperand, TypeInv, TypeOK
<1>4. news' \in [Objects -> SUBSET (Addons \cup {PolicyKey})]
  BY <1>3, NotifyType DEF DisableOperand, TypeInv, TypeOK
<1>5. pass' \in PassType /\ pass'.req \in Addons
  <2>1. CASE Fail(k)
    BY <1>1, <2>1, FailOfType
  <2>2. CASE pass' = [pass EXCEPT !.mode = "reconcile", !.step = "Status",
                                  !.conds = @ \cup {Success(k)}]
    BY <1>1, <2>2, ConditionType DEF PassType, ReconcileSteps
  <2>3. CASE pass' = [pass EXCEPT !.step = AfterDelete[k]]
    BY <1>1, <1>2, <2>3, NextStepType DEF PassType
  <2>. QED  BY <2>1, <2>2, <2>3 DEF DisableOperand
<1>6. faults' \in 0..MaxFaults
  BY FaultType DEF DisableOperand, TypeInv
<1>. QED
  BY <1>3, <1>4, <1>5, <1>6
     DEF DisableOperand, TypeInv, TypeOK, PassHasAddon, caches, olm

\* What the steps of a removing pass may do to the pass and the queue.
LEMMA RemoveStepType ==
    ASSUME TypeInv, pass.mode = "remove",
           NEW s \in RemoveSteps, NEW l \in SUBSET Objects,
           \/ pass' = [pass EXCEPT !.step = s, !.left = l] /\ UNCHANGED queue
           \/ Return \/ ReturnError
    PROVE  /\ pass' \in PassType
           /\ pass'.mode # "idle" => pass'.req \in Addons
           /\ queue' \subseteq Addons \cup {PolicyKey}
<1>1. pass \in PassType /\ pass.req \in Addons
  BY DEF TypeInv, TypeOK, PassHasAddon, Idle
<1>2. CASE pass' = [pass EXCEPT !.step = s, !.left = l] /\ UNCHANGED queue
  BY <1>1, <1>2 DEF PassType, TypeInv, TypeOK
<1>3. CASE Return \/ ReturnError
  BY <1>1, <1>3, ReturnType DEF TypeInv, Return, ReturnError, IdlePass
<1>. QED  BY <1>2, <1>3

LEMMA RemoveOperandType ==
    ASSUME TypeInv, NEW k \in Operands, RemoveOperand(k)
    PROVE  TypeInv'
<1>1. pass \in PassType /\ pass.mode = "remove" /\ k \in Objects
  BY DEF TypeInv, TypeOK, RemoveOperand, At, Objects
<1>2. obj' \in [Objects -> ObjectType]
  BY <1>1, ErasedType DEF RemoveOperand, TypeInv, TypeOK
<1>3. news' \in [Objects -> SUBSET (Addons \cup {PolicyKey})]
  BY <1>2, NotifyType DEF RemoveOperand, TypeInv, TypeOK
<1>4. /\ pass' \in PassType
      /\ pass'.mode # "idle" => pass'.req \in Addons
      /\ queue' \subseteq Addons \cup {PolicyKey}
  <2>. DEFINE l == IF Present(obj[k]) THEN pass.left \cup {k} ELSE pass.left
  <2>1. AfterDelete[k] \in RemoveSteps /\ l \in SUBSET Objects
    BY <1>1, NextStepType DEF PassType
  <2>2. \/ pass' = [pass EXCEPT !.step = AfterDelete[k], !.left = l]
           /\ UNCHANGED queue
        \/ Return \/ ReturnError
    BY DEF RemoveOperand
  <2>. HIDE DEF l
  <2>. QED  BY <1>1, <2>1, <2>2, RemoveStepType
<1>5. faults' \in 0..MaxFaults
  BY FaultType DEF RemoveOperand, TypeInv
<1>. QED
  BY <1>2, <1>3, <1>4, <1>5
     DEF RemoveOperand, TypeInv, TypeOK, PassHasAddon, Idle, caches, olm

LEMMA AfterGpuCsv == AfterDelete["GpuCsv"] = "NFD"
  BY DEF AfterDelete

LEMMA RemoveGpuCsvType ==
    ASSUME TypeInv, RemoveGpuCsv
    PROVE  TypeInv'
<1>1. pass \in PassType /\ pass.mode = "remove" /\ "GpuCsv" \in Objects
  BY DEF TypeInv, TypeOK, RemoveGpuCsv, At, Objects
<1>2. obj' \in [Objects -> ObjectType]
  BY <1>1, ErasedType DEF RemoveGpuCsv, TypeInv, TypeOK
<1>3. news' \in [Objects -> SUBSET (Addons \cup {PolicyKey})]
  BY <1>2, NotifyType DEF RemoveGpuCsv, TypeInv, TypeOK
<1>4. /\ pass' \in PassType
      /\ pass'.mode # "idle" => pass'.req \in Addons
      /\ queue' \subseteq Addons \cup {PolicyKey}
  <2>1. "NFD" \in RemoveSteps /\ pass.left \in SUBSET Objects
    BY <1>1 DEF RemoveSteps, Operands, PassType
  <2>2. \/ \E l \in SUBSET Objects :
             pass' = [pass EXCEPT !.step = "NFD", !.left = l] /\ UNCHANGED queue
        \/ ReturnError
    <3>1. CASE pass' = [pass EXCEPT !.step = "NFD",
                                    !.left = @ \ {"Subscription"}]
               /\ UNCHANGED queue
      BY <2>1, <3>1
    <3>2. CASE pass' = [pass EXCEPT !.step = "NFD",
                                    !.left = IF Present(obj["GpuCsv"])
                                             THEN @ \cup {"GpuCsv"} ELSE @]
               /\ UNCHANGED queue
      <4>. DEFINE l == IF Present(obj["GpuCsv"]) THEN pass.left \cup {"GpuCsv"}
                                                ELSE pass.left
      <4>1. l \in SUBSET Objects
        BY <1>1, <2>1
      <4>2. pass' = [pass EXCEPT !.step = "NFD", !.left = l]
        BY <3>2
      <4>. HIDE DEF l
      <4>. QED  BY <3>2, <4>1, <4>2
    <3>. QED  BY <3>1, <3>2, AfterGpuCsv DEF RemoveGpuCsv
  <2>. QED  BY <1>1, <2>1, <2>2, RemoveStepType
<1>5. faults' \in 0..MaxFaults
  BY FaultType DEF RemoveGpuCsv, TypeInv
<1>. QED
  BY <1>2, <1>3, <1>4, <1>5
     DEF RemoveGpuCsv, TypeInv, TypeOK, PassHasAddon, Idle, caches, olm

LEMMA RemoveSelfCsvType ==
    ASSUME TypeInv, RemoveSelfCsv
    PROVE  TypeInv'
<1>1. pass \in PassType /\ pass.mode = "remove" /\ "AddonCsv" \in Objects
  BY DEF TypeInv, TypeOK, RemoveSelfCsv, At, Objects
<1>2. obj' \in [Objects -> ObjectType]
  BY <1>1, ErasedType DEF RemoveSelfCsv, TypeInv, TypeOK
<1>3. news' \in [Objects -> SUBSET (Addons \cup {PolicyKey})]
  BY <1>2, NotifyType DEF RemoveSelfCsv, TypeInv, TypeOK
<1>4. /\ pass' \in PassType
      /\ pass'.mode # "idle" => pass'.req \in Addons
      /\ queue' \subseteq Addons \cup {PolicyKey}
  <2>1. "CrFinalizer" \in RemoveSteps /\ pass.left \in SUBSET Objects
    BY <1>1 DEF RemoveSteps, PassType
  <2>2. \/ pass' = [pass EXCEPT !.step = "CrFinalizer", !.left = pass.left]
           /\ UNCHANGED queue
        \/ ReturnError
    <3>1. [pass EXCEPT !.step = "CrFinalizer"]
            = [pass EXCEPT !.step = "CrFinalizer", !.left = pass.left]
      BY <1>1 DEF PassType
    <3>. QED  BY <3>1 DEF RemoveSelfCsv, Goto, RetryRemoval
  <2>. QED  BY <1>1, <2>1, <2>2, RemoveStepType
<1>5. faults' \in 0..MaxFaults
  BY FaultType DEF RemoveSelfCsv, TypeInv
<1>. QED
  BY <1>2, <1>3, <1>4, <1>5
     DEF RemoveSelfCsv, TypeInv, TypeOK, PassHasAddon, Idle, caches, olm

LEMMA RemoveFinalizerType ==
    ASSUME TypeInv, RemoveFinalizer
    PROVE  TypeInv'
<1>1. pass.mode = "remove" /\ pass.req \in Addons
  BY DEF TypeInv, TypeOK, PassHasAddon, RemoveFinalizer, At, Idle
<1>2. cr' \in [Addons -> AddonResource] /\ stale' \in SUBSET Addons
  <2>1. NoResource \in AddonResource
    BY DEF NoResource, AddonResource, Phases
  <2>2. CASE WriteAddon(pass.req, NoResource)
    BY <1>1, <2>1, <2>2, WriteType DEF TypeInv
  <2>3. CASE UNCHANGED <<cr, stale>>
    BY <2>3 DEF TypeInv, TypeOK
  <2>. QED  BY <2>2, <2>3 DEF RemoveFinalizer
<1>3. Return \/ ReturnError
  BY DEF RemoveFinalizer
<1>4. /\ pass' \in PassType /\ pass' = IdlePass
      /\ queue' \subseteq Addons \cup {PolicyKey}
  BY <1>1, <1>3, ReturnType DEF TypeInv, Return, ReturnError
<1>5. faults' \in 0..MaxFaults
  BY FaultType DEF RemoveFinalizer, TypeInv
<1>. QED
  BY <1>2, <1>4, <1>5 DEF RemoveFinalizer, TypeInv, TypeOK, PassHasAddon, Idle,
     IdlePass, objects, caches, olm

\* The worker takes a request.
LEMMA DequeueType ==
    ASSUME TypeInv, NEW r, Dequeue(r)
    PROVE  TypeInv'
<1>1. /\ queue' \subseteq Addons \cup {PolicyKey}
      /\ UNCHANGED <<api, caches, stale, installed, pod, bounds>>
  BY DEF Dequeue, NothingToDo, StartReconcile, StartRemoval, Take, TypeInv, TypeOK
<1>2. pass' \in PassType /\ (pass'.mode # "idle" => pass'.req \in Addons)
  <2>1. CASE NothingToDo(r)
    BY <2>1 DEF NothingToDo, TypeInv, TypeOK, PassHasAddon, Idle
  <2>2. CASE r \in Addons /\ StartReconcile(r)
    <3>1. FirstStep(crSeen[r]) \in ReconcileSteps
      BY DEF FirstStep, ReconcileSteps, Created, Operands
    <3>. QED
      BY <2>2, <3>1, StartType DEF StartReconcile, StartPass, IdlePass, TypeInv
  <2>3. CASE r \in Addons /\ StartRemoval(r)
    <3>1. "ConsolePlugin" \in RemoveSteps
      BY DEF RemoveSteps, Operands
    <3>. QED
      BY <2>3, <3>1, StartType DEF StartRemoval, StartPass, IdlePass, TypeInv
  <2>. QED  BY <2>1, <2>2, <2>3 DEF Dequeue
<1>. QED
  BY <1>1, <1>2 DEF TypeInv, TypeOK, PassHasAddon, Idle, api, objects, caches, olm,
     bounds

LEMMA GetFailsType ==
    ASSUME TypeInv, NEW a, GetFails(a)
    PROVE  TypeInv'
<1>1. faults' \in 0..MaxFaults
  BY FaultType DEF GetFails, TypeInv
<1>. QED
  BY <1>1 DEF GetFails, TypeInv, TypeOK, PassHasAddon, Idle, api, objects, caches, olm

LEMMA SyncType ==
    ASSUME TypeInv, Sync
    PROVE  TypeInv'
<1>1. ASSUME NEW a \in Addons, SyncAddon(a) PROVE TypeInv'
  BY <1>1 DEF SyncAddon, TypeInv, TypeOK, PassHasAddon, Idle, api, objects, olm, bounds
<1>2. ASSUME NEW k \in Objects, SyncObject(k) PROVE TypeInv'
  <2>1. /\ seen' \in [Objects -> ObjectType]
        /\ queue' \subseteq Addons \cup {PolicyKey}
        /\ news' \in [Objects -> SUBSET (Addons \cup {PolicyKey})]
    BY <1>2 DEF SyncObject, TypeInv, TypeOK
  <2>. QED
    BY <1>2, <2>1 DEF SyncObject, olm, TypeInv, TypeOK, PassHasAddon, Idle, bounds
<1>3. ASSUME SyncConsole PROVE TypeInv'
  BY <1>3 DEF SyncConsole, TypeInv, TypeOK, PassHasAddon, Idle, api, objects, olm, bounds
<1>4. ASSUME Resync PROVE TypeInv'
  BY <1>4 DEF Resync, TypeInv, TypeOK, PassHasAddon, Idle, api, objects, caches,
     olm, bounds
<1>. QED  BY <1>1, <1>2, <1>3, <1>4 DEF Sync

LEMMA NewResourceType ==
    ASSUME NEW plugin \in BOOLEAN
    PROVE  NewResource(plugin) \in AddonResource
  BY DEF NewResource, NoResource, AddonResource, Phases

LEMMA ProcessType ==
    ASSUME TypeInv, Process
    PROVE  TypeInv'
<1>1. ASSUME Jumpstart PROVE TypeInv'
  <2>1. cr' \in [Addons -> AddonResource] /\ stale' \in SUBSET Addons
    <3>1. CASE UNCHANGED <<cr, stale>>
      BY <3>1 DEF TypeInv, TypeOK
    <3>2. CASE WriteAddon(AddonID, NewResource(TRUE))
      BY <3>2, WriteType, NewResourceType, ControllerAssumption DEF TypeInv
    <3>. QED  BY <1>1, <3>1, <3>2 DEF Jumpstart
  <2>. QED
    BY <1>1, <2>1 DEF Jumpstart, TypeInv, TypeOK, PassHasAddon, Idle, objects,
       caches, olm, bounds
<1>2. ASSUME StartManager PROVE TypeInv'
  <2>1. queue' \subseteq Addons \cup {PolicyKey}
    <3>1. \A k \in Objects :
            Requests(k, obj[k], obj[k]) \subseteq Addons \cup {PolicyKey}
      BY RequestsType DEF TypeInv, TypeOK
    <3>. QED  BY <1>2, <3>1 DEF StartManager
  <2>2. news' \in [Objects -> SUBSET (Addons \cup {PolicyKey})]
    BY <1>2 DEF StartManager
  <2>. QED
    BY <1>2, <2>1, <2>2 DEF StartManager, olm, TypeInv, TypeOK, PassHasAddon, Idle,
       bounds
<1>3. ASSUME Crash PROVE TypeInv'
  <2>1. crashes' \in 0..MaxCrashes
    BY <1>3, ControllerAssumption DEF Crash, TypeInv, TypeOK
  <2>. QED
    BY <1>3, <2>1, IdlePassType DEF Crash, Die, TypeInv, TypeOK, PassHasAddon,
       Idle, IdlePass, api, objects, caches, olm
<1>4. ASSUME OperatorRemoved PROVE TypeInv'
  BY <1>4, IdlePassType DEF OperatorRemoved, TypeInv, TypeOK, PassHasAddon,
     Idle, IdlePass, api, objects, caches, olm, bounds
<1>. QED  BY <1>1, <1>2, <1>3, <1>4 DEF Process

LEMMA ClusterType ==
    ASSUME TypeInv, Cluster
    PROVE  TypeInv'
<1>1. ASSUME PlanInstall PROVE TypeInv'
  BY <1>1 DEF PlanInstall, TypeInv, TypeOK, PassHasAddon, Idle, objects, caches, olm,
     bounds
<1>2. ASSUME InstallGpuOperator PROVE TypeInv'
  <2>1. obj' \in [Objects -> ObjectType]
    <3>1. Live(NoAddon, "desired") \in ObjectType
      BY DEF Live, ObjectType, Specs
    <3>2. /\ "Subscription" \in Objects /\ "GpuCsv" \in Objects
          /\ obj["Subscription"] \in ObjectType
      BY DEF Objects, Operands, TypeInv, TypeOK
    <3>3. [obj["Subscription"] EXCEPT !.ready = TRUE] \in ObjectType
      BY <3>2 DEF ObjectType
    <3>4. \/ obj' = [obj EXCEPT !["GpuCsv"] = Live(NoAddon, "desired")]
          \/ obj' = [obj EXCEPT
                       !["GpuCsv"] = Live(NoAddon, "desired"),
                       !["Subscription"] = [obj["Subscription"] EXCEPT !.ready = TRUE]]
      BY <1>2, <3>2 DEF InstallGpuOperator, TypeInv, TypeOK
    <3>. QED  BY <3>1, <3>2, <3>3, <3>4 DEF TypeInv, TypeOK
  <2>2. news' \in [Objects -> SUBSET (Addons \cup {PolicyKey})]
    BY <1>2, <2>1, NotifyType DEF InstallGpuOperator, TypeInv, TypeOK
  <2>. QED
    BY <1>2, <2>1, <2>2 DEF InstallGpuOperator, TypeInv, TypeOK, PassHasAddon,
       Idle, caches, olm, bounds
<1>3. ASSUME UpgradeCompletes PROVE TypeInv'
  <2>1. history' \in Seq(HistoryEntry)
    <3>1. history \in Seq(HistoryEntry) /\ 1 \in DOMAIN history
      BY <1>3 DEF UpgradeCompletes, TypeInv, TypeOK
    <3>2. history[1] \in HistoryEntry
      BY <3>1
    <3>3. [history[1] EXCEPT !.state = "Completed"] \in HistoryEntry
      BY <3>2 DEF HistoryEntry
    <3>4. history' = [history EXCEPT ![1] = [@ EXCEPT !.state = "Completed"]]
      BY <1>3 DEF UpgradeCompletes
    <3>. QED  BY <3>1, <3>3, <3>4
  <2>. QED
    BY <1>3, <2>1 DEF UpgradeCompletes, TypeInv, TypeOK, PassHasAddon, Idle,
       objects, caches, olm, bounds
<1>4. ASSUME NEW k \in Lingering, FinishTermination(k) PROVE TypeInv'
  <2>1. Absent \in ObjectType
    BY DEF Absent, ObjectType, Specs
  <2>2. obj' \in [Objects -> ObjectType]
    BY <1>4, <2>1 DEF FinishTermination, TypeInv, TypeOK
  <2>3. news' \in [Objects -> SUBSET (Addons \cup {PolicyKey})]
    BY <1>4, <2>2, NotifyType DEF FinishTermination, TypeInv, TypeOK
  <2>. QED
    BY <1>4, <2>2, <2>3 DEF FinishTermination, TypeInv, TypeOK, PassHasAddon,
       Idle, caches, olm, bounds
<1>. QED  BY <1>1, <1>2, <1>3, <1>4 DEF Cluster

LEMMA EditType ==
    ASSUME TypeInv, Edit
    PROVE  edits' \in 0..MaxEdits
  BY ControllerAssumption DEF Edit, TypeInv, TypeOK

LEMMA EditAddonType ==
    ASSUME TypeInv, NEW a \in Addons, NEW r \in AddonResource, EditAddon(a, r)
    PROVE  TypeInv'
<1>1. cr' \in [Addons -> AddonResource] /\ stale' \in SUBSET Addons
  BY WriteType DEF EditAddon, ChangeAddon, TypeInv
<1>2. edits' \in 0..MaxEdits
  BY EditType DEF EditAddon
<1>3. pass' \in PassType /\ pass'.mode = pass.mode /\ pass'.req = pass.req
  <2>1. pass \in PassType /\ (pass.stale \/ pass.req = a) \in BOOLEAN
    BY DEF TypeInv, TypeOK, PassType
  <2>2. pass' = [pass EXCEPT !.stale = (pass.stale \/ pass.req = a)]
    BY DEF EditAddon, ChangeAddon, PassSees
  <2>. QED  BY <2>1, <2>2 DEF PassType
<1>. QED
  BY <1>1, <1>2, <1>3 DEF EditAddon, ChangeAddon, Edit, TypeInv, TypeOK, PassHasAddon,
     Idle, objects, caches, olm

LEMMA EditObjectType ==
    ASSUME TypeInv, NEW k \in Objects, NEW o \in ObjectType, EditObject(k, o)
    PROVE  TypeInv'
<1>1. obj' \in [Objects -> ObjectType]
  BY DEF EditObject, TypeInv, TypeOK
<1>2. news' \in [Objects -> SUBSET (Addons \cup {PolicyKey})]
  BY <1>1, NotifyType DEF EditObject, TypeInv, TypeOK
<1>3. edits' \in 0..MaxEdits
  BY EditType DEF EditObject
<1>. QED
  BY <1>1, <1>2, <1>3 DEF EditObject, Edit, TypeInv, TypeOK, PassHasAddon, Idle,
     caches, olm

LEMMA UsersType ==
    ASSUME TypeInv, Users
    PROVE  TypeInv'
<1>1. ASSUME NEW a \in Addons,
             UserCreates(a) \/ UserDeletes(a) \/ UserToggles(a) \/ UserTouches(a)
      PROVE  TypeInv'
  <2>1. cr[a] \in AddonResource /\ NoResource \in AddonResource
    BY DEF TypeInv, TypeOK, NoResource, AddonResource, Phases
  <2>2. /\ [cr[a] EXCEPT !.st = "terminating"] \in AddonResource
        /\ [cr[a] EXCEPT !.plugin = ~@] \in AddonResource
    BY <2>1 DEF AddonResource
  <2>3. CASE UserCreates(a)
    BY <2>3, NewResourceType, EditAddonType DEF UserCreates
  <2>4. CASE UserDeletes(a)
    BY <2>1, <2>2, <2>4, EditAddonType DEF UserDeletes, DeletionOf
  <2>5. CASE UserToggles(a)
    BY <2>2, <2>5, EditAddonType DEF UserToggles
  <2>6. CASE UserTouches(a)
    BY <2>1, <2>6, EditAddonType DEF UserTouches
  <2>. QED  BY <1>1, <2>3, <2>4, <2>5, <2>6
<1>2. ASSUME NEW k \in Contended, Drift(k) \/ ExternalDelete(k)
      PROVE  TypeInv'
  <2>1. k \in Objects /\ obj[k] \in ObjectType
    BY ControllerAssumption DEF Objects, TypeInv, TypeOK
  <2>2. CASE Drift(k)
    <3>1. \A o \in {obj[k].owner, NoAddon} :
            [obj[k] EXCEPT !.spec = "other", !.owner = o] \in ObjectType
      BY <2>1 DEF ObjectType, Specs
    <3>. QED  BY <2>1, <2>2, <3>1, EditObjectType DEF Drift
  <2>3. CASE ExternalDelete(k)
    BY <2>1, <2>3, DeletedType, EditObjectType DEF ExternalDelete
  <2>. QED  BY <1>2, <2>2, <2>3
<1>3. ASSUME NEW p \in OtherPlugins, OtherPluginAdded(p) PROVE TypeInv'
  <2>1. edits' \in 0..MaxEdits
    BY <1>3, EditType DEF OtherPluginAdded
  <2>. QED
    BY <1>3, <2>1 DEF OtherPluginAdded, Edit, TypeInv, TypeOK, PassHasAddon,
       Idle, objects, caches, olm
<1>4. ASSUME NEW v \in Versions, UpgradeStarts(v) PROVE TypeInv'
  <2>1. edits' \in 0..MaxEdits
    BY <1>4, EditType DEF UpgradeStarts
  <2>2. history' \in Seq(HistoryEntry)
    <3>1. [state |-> "Partial", version |-> v] \in HistoryEntry
      BY ControllerAssumption DEF HistoryEntry
    <3>2. history \in Seq(HistoryEntry)
      BY DEF TypeInv, TypeOK
    <3>. QED  BY <1>4, <3>1, <3>2 DEF UpgradeStarts
  <2>. QED
    BY <1>4, <2>1, <2>2 DEF UpgradeStarts, Edit, TypeInv, TypeOK, PassHasAddon,
       Idle, objects, caches, olm
<1>. QED  BY <1>1, <1>2, <1>3, <1>4 DEF Users

LEMMA TypeStep == TypeInv /\ [Next]_vars => TypeInv'
<1>. SUFFICES ASSUME TypeInv, [Next]_vars PROVE TypeInv'
  OBVIOUS
<1>1. CASE Sync
  BY <1>1, SyncType
<1>2. CASE Worker
  <2>1. ASSUME NEW k \in Created, ReconcileOperand(k) PROVE TypeInv'
    BY <2>1, ReconcileOperandType DEF Created
  <2>2. CASE PassStep
    BY <2>1, <2>2, RegisterFinalizerType, ReconcileSubscriptionType,
       SubscriptionPanicsType, EnterConsolePluginType, PatchClusterConsoleType,
       PatchStatusType, DisableOperandType, RemoveOperandType,
       RemoveGpuCsvType, RemoveSelfCsvType, RemoveFinalizerType
    DEF PassStep
  <2>. QED  BY <1>2, <2>2, DequeueType, GetFailsType DEF Worker, Dequeue
<1>3. CASE Process
  BY <1>3, ProcessType
<1>4. CASE Cluster
  BY <1>4, ClusterType
<1>5. CASE Users
  BY <1>5, UsersType
<1>6. CASE UNCHANGED vars
  BY <1>6 DEF vars, TypeInv, TypeOK, PassHasAddon, Idle
<1>. QED  BY <1>1, <1>2, <1>3, <1>4, <1>5, <1>6 DEF Next

\* Every variable of the controller and its cluster keeps its type, and the
\* request of a pass is a GPUAddon, in every behaviour.
THEOREM TypeCorrect == Spec => []TypeOK
<1>1. Init => TypeInv
  BY InitType DEF TypeInv, PassHasAddon, Init, Idle, IdlePass
<1>2. TypeInv => TypeOK
  BY DEF TypeInv
<1>. QED  BY <1>1, <1>2, TypeStep, PTL DEF Spec
=============================================================================
