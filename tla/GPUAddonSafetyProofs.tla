------------------------ MODULE GPUAddonSafetyProofs ------------------------
(***************************************************************************)
(* The inductive invariant IInv of the GPUAddon controller and what        *)
(* follows from it: nothing the controller created outlives the last       *)
(* finalizer, and its own CSV goes last.  As in GPUAddonProofs, for any    *)
(* set of GPUAddons, any lag of the caches and any number of edits,        *)
(* failures and crashes.                                                   *)
(***************************************************************************)
EXTENDS GPUAddonProofs

-----------------------------------------------------------------------------
(* The kinds of steps                                                       *)

\* The pass under way goes on for the same copy of the same GPUAddon.
PassAdvances ==
    /\ ~Idle
    /\ pass'.req = pass.req /\ pass'.loc = pass.loc /\ pass'.stale = pass.stale
    /\ pass'.mode = "remove" <=> pass.mode = "remove"
    /\ pass'.step # "Finalizer"
    /\ \/ pass.mode = "remove"
       \/ pass.step \notin {"Finalizer", "Status"}
       \/ pass'.step = "Status"

\* Objects go or lose their owner; none appears or comes back to life.
ObjectsShrink ==
    \A k \in Objects :
        /\ Present(obj'[k]) => Present(obj[k])
        /\ obj'[k].st = "live" => obj[k].st = "live"
        /\ obj'[k].owner \in {obj[k].owner, NoAddon}
        /\ ~Present(obj'[k]) => obj'[k].owner = NoAddon

LEMMA ResourcesKept ==
    ASSUME TypeInv, TypeInv', ResourcesOK, UNCHANGED <<cr, crSeen, stale>>,
           pass' = pass \/ PassAdvances \/ pass'.mode = "idle",
           pod' = pod \/ pass'.mode = "idle"
    PROVE  ResourcesOK'
<1>1. FinalizerIsHeld' /\ CacheBoundsFinalizer'
  BY DEF ResourcesOK, FinalizerIsHeld, CacheBoundsFinalizer, LiveFin, Present
<1>2. PassNeedsProcess'
  BY DEF ResourcesOK, PassNeedsProcess, PassAdvances, Idle
<1>3. CopiesCurrent'
  BY DEF ResourcesOK, CopiesCurrent, PassAdvances, Idle, At
<1>4. RemovalIsExclusive'
  BY DEF ResourcesOK, RemovalIsExclusive, LiveFin, PassAdvances
<1>5. PassIsProtected'
  BY DEF ResourcesOK, PassIsProtected, PassAdvances, TypeInv, TypeOK, PassType,
     Idle
<1>. QED  BY <1>1, <1>2, <1>3, <1>4, <1>5 DEF ResourcesOK

LEMMA ObjectsKept ==
    ASSUME ObjectsOK, ObjectsShrink \/ UNCHANGED obj,
           \A a \in Addons : cr[a].fin => cr'[a].fin
    PROVE  ObjectsOK'
<1>1. AbsentIsUnowned'
  BY DEF ObjectsOK, AbsentIsUnowned, ObjectsShrink, Present
<1>2. \A k \in Objects :
        /\ Present(obj'[k]) => Present(obj[k])
        /\ obj'[k].owner \in {obj[k].owner, NoAddon}
  BY DEF ObjectsShrink, Present
<1>3. OwnersHold'
  BY <1>2, ObjectsAssumption DEF ObjectsOK, OwnersHold, Owned, Objects, Operands
<1>4. NoOrphans'
  BY <1>2 DEF ObjectsOK, NoOrphans, Awaited, Objects, Present
<1>. QED  BY <1>1, <1>3, <1>4 DEF ObjectsOK

LEMMA AccountKept ==
    ASSUME RemovalAccounted,
           pass'.mode # "remove"
             \/ (/\ pass'.mode = pass.mode /\ pass'.step = pass.step
                 /\ pass'.left = pass.left
                 /\ \A k \in Awaited : Present(obj'[k]) => Present(obj[k])
                 /\ obj'["AddonCsv"].st = "live" => obj["AddonCsv"].st = "live")
    PROVE  RemovalAccounted'
  BY DEF RemovalAccounted, Present

LEMMA DeletedShrinks ==
    ASSUME TypeInv, NEW k \in Objects, obj' = Erased(k), AbsentIsUnowned
    PROVE  /\ ObjectsShrink
           /\ k \notin Lingering \/ ~Present(obj[k]) => ~Present(obj'[k])
           /\ \A j \in Objects \ {k} : obj'[j] = obj[j]
<1>1. obj' = [obj EXCEPT ![k] = Deleted(k, obj[k])] /\ obj[k] \in ObjectType
  BY DEF Erased, TypeInv, TypeOK
<1>2. /\ Deleted(k, obj[k]).st # "live"
      /\ Present(Deleted(k, obj[k])) =>
           Present(obj[k]) /\ k \in Lingering
             /\ Deleted(k, obj[k]).owner = obj[k].owner
      /\ ~Present(Deleted(k, obj[k])) => Deleted(k, obj[k]).owner = NoAddon
  BY <1>1 DEF Deleted, Present, Absent, ObjectType
<1>. QED
  BY <1>1, <1>2 DEF ObjectsShrink, AbsentIsUnowned, TypeInv, TypeOK, Present

Safe == ResourcesOK /\ ObjectsOK /\ RemovalAccounted

LEMMA SafeIsIInv == IInv <=> TypeInv /\ Safe
  BY DEF IInv, TypeInv, Safe, ResourcesOK, CopiesCurrent, PassHasAddon

-----------------------------------------------------------------------------
(* Steps that change neither a GPUAddon nor a copy of one                   *)

LEMMA FrameStep ==
    ASSUME TypeInv, TypeInv', Safe, pod' = pod,
           UNCHANGED <<cr, crSeen, stale, obj, pass>>
    PROVE  Safe'
<1>1. ResourcesOK'
  BY ResourcesKept DEF Safe
<1>2. ObjectsOK'
  BY ObjectsKept DEF Safe
<1>3. RemovalAccounted'
  BY AccountKept DEF Safe
<1>. QED  BY <1>1, <1>2, <1>3 DEF Safe

LEMMA IdleStep ==
    ASSUME TypeInv, TypeInv', Safe, pass' = IdlePass,
           UNCHANGED <<cr, crSeen, stale>>, ObjectsShrink \/ UNCHANGED obj
    PROVE  Safe'
<1>1. pass'.mode = "idle"
  BY DEF IdlePass
<1>2. ResourcesOK'
  BY <1>1, ResourcesKept DEF Safe
<1>3. ObjectsOK'
  BY ObjectsKept DEF Safe
<1>4. RemovalAccounted'
  BY <1>1, AccountKept DEF Safe
<1>. QED  BY <1>2, <1>3, <1>4 DEF Safe

\* A pass past its finalizer step creates what it likes: the GPUAddon it is
\* for holds the finalizer.
LEMMA CreateStep ==
    ASSUME TypeInv, TypeInv', Safe, NEW k \in Operands, At("reconcile", k),
           CreateOrPatch(k), UNCHANGED <<cr, crSeen, stale, pod>>
    PROVE  Safe'
<1>1. /\ pass \in PassType /\ pass.mode = "reconcile" /\ pass.step = k
      /\ pass.req \in Addons /\ k \in Objects
      /\ pass.step \notin {"Finalizer", "Status"}
  BY DEF TypeInv, TypeOK, PassHasAddon, At, Idle, Operands, Objects
<1>2. cr[pass.req].fin
  BY <1>1 DEF Safe, ResourcesOK, PassIsProtected
<1>3. PassAdvances /\ pass'.mode = "reconcile"
  <2>1. AfterCreate[k] # "Finalizer"
    BY DEF AfterCreate, Operands
  <2>2. CASE Fail(k)
    BY <1>1, <2>2 DEF Fail, FailWith, PassAdvances, PassType, Idle
  <2>3. CASE AfterOperand(k)
    BY <1>1, <2>1, <2>3
       DEF AfterOperand, Goto, Report, PassAdvances, PassType, Idle
  <2>. QED  BY <2>2, <2>3 DEF CreateOrPatch
<1>4. ResourcesOK'
  BY <1>3, ResourcesKept DEF Safe
<1>5. ObjectsOK'
  <2>1. /\ \A j \in Objects \ {k} : obj'[j] = obj[j]
        /\ \/ obj'[k] = obj[k]
           \/ Present(obj'[k]) /\ obj'[k].owner \in {obj[k].owner, pass.req, NoAddon}
    <3>1. CASE UNCHANGED obj
      BY <3>1
    <3>2. CASE obj' = Written(k)
      <4>1. /\ obj' = [obj EXCEPT ![k] =
                         Applied(k, pass.req, seen[k], obj[k], Desired(k))]
            /\ obj[k] \in ObjectType
        BY <1>1, <3>2 DEF Written, TypeInv, TypeOK
      <4>. DEFINE new == Applied(k, pass.req, seen[k], obj[k], Desired(k))
      <4>2. \/ new = obj[k]
            \/ Present(new) /\ new.owner \in {obj[k].owner, pass.req, NoAddon}
        BY <4>1 DEF Applied, Live, Present, ObjectType
      <4>. HIDE DEF new
      <4>. QED  BY <1>1, <4>1, <4>2 DEF new, TypeInv, TypeOK
    <3>. QED  BY <3>1, <3>2 DEF CreateOrPatch
  <2>2. AbsentIsUnowned'
    BY <1>1, <2>1 DEF Safe, ObjectsOK, AbsentIsUnowned, Present
  <2>3. OwnersHold'
    BY <1>1, <1>2, <2>1, ObjectsAssumption
       DEF Safe, ObjectsOK, OwnersHold, Owned, Objects, Operands
  <2>4. NoOrphans'
    BY <1>1, <1>2 DEF NoOrphans
  <2>. QED  BY <2>2, <2>3, <2>4 DEF ObjectsOK
<1>6. RemovalAccounted'
  BY <1>3 DEF RemovalAccounted
<1>. QED  BY <1>4, <1>5, <1>6 DEF Safe

LEMMA ReconcileOperandSafe ==
    ASSUME TypeInv, TypeInv', Safe, NEW k \in Operands, ReconcileOperand(k)
    PROVE  Safe'
  BY CreateStep DEF ReconcileOperand, caches

LEMMA PassOnlyStep ==
    ASSUME TypeInv, TypeInv', Safe, PassAdvances, pass'.mode # "remove",
           UNCHANGED <<cr, crSeen, stale, obj, pod>>
    PROVE  Safe'
<1>1. ResourcesOK'
  BY ResourcesKept DEF Safe
<1>2. ObjectsOK'
  BY ObjectsKept DEF Safe
<1>3. RemovalAccounted'
  BY DEF RemovalAccounted
<1>. QED  BY <1>1, <1>2, <1>3 DEF Safe

LEMMA ReconcileSubscriptionSafe ==
    ASSUME TypeInv, TypeInv', Safe, ReconcileSubscription
    PROVE  Safe'
<1>1. CASE CreateOrPatch("Subscription")
  BY <1>1, CreateStep DEF ReconcileSubscription, caches, Operands
<1>2. CASE Fail("Subscription") /\ UNCHANGED obj
  <2>1. pass \in PassType /\ pass.mode = "reconcile" /\ pass.step = "Subscription"
    BY DEF TypeInv, TypeOK, ReconcileSubscription, At
  <2>2. PassAdvances /\ pass'.mode = "reconcile"
    BY <1>2, <2>1 DEF Fail, FailWith, PassAdvances, PassType, Idle
  <2>. QED  BY <1>2, <2>2, PassOnlyStep DEF ReconcileSubscription, caches
<1>. QED  BY <1>1, <1>2 DEF ReconcileSubscription

LEMMA SubscriptionPanicsSafe ==
    ASSUME TypeInv, TypeInv', Safe, SubscriptionPanics
    PROVE  Safe'
  BY IdleStep DEF SubscriptionPanics, Die, api, objects, caches

LEMMA EnterConsolePluginSafe ==
    ASSUME TypeInv, TypeInv', Safe, EnterConsolePlugin
    PROVE  Safe'
<1>1. /\ pass \in PassType /\ pass.mode = "reconcile"
      /\ pass.step = "EnterConsolePlugin"
  BY DEF TypeInv, TypeOK, EnterConsolePlugin, At
<1>2. PassAdvances /\ pass'.mode # "remove"
  <2>1. CASE Fail("ConsolePlugin")
    BY <1>1, <2>1, FailFields DEF Fail, PassAdvances, Idle
  <2>2. CASE Report("ConsolePlugin", "Status")
    BY <1>1, <2>2 DEF Report, PassAdvances, PassType, Idle
  <2>3. CASE pass' = [pass EXCEPT !.step = "Deployment"]
    BY <1>1, <2>3 DEF PassAdvances, PassType, Idle
  <2>4. CASE pass' = [pass EXCEPT !.mode = "disable", !.step = "ConsolePlugin"]
    BY <1>1, <2>4 DEF PassAdvances, PassType, Idle
  <2>. QED  BY <2>1, <2>2, <2>3, <2>4 DEF EnterConsolePlugin
<1>. QED  BY <1>2, PassOnlyStep DEF EnterConsolePlugin, api, objects, caches

LEMMA PatchClusterConsoleSafe ==
    ASSUME TypeInv, TypeInv', Safe, PatchClusterConsole
    PROVE  Safe'
<1>1. pass \in PassType /\ pass.mode = "reconcile" /\ pass.step = "Console"
  BY DEF TypeInv, TypeOK, PatchClusterConsole, At
<1>2. PassAdvances /\ pass'.mode # "remove"
  BY <1>1 DEF PatchClusterConsole, Fail, FailWith, Report, PassAdvances,
     PassType, Idle
<1>. QED  BY <1>2, PassOnlyStep DEF PatchClusterConsole, objects, caches

LEMMA DisableOperandSafe ==
    ASSUME TypeInv, TypeInv', Safe, NEW k \in PluginOperands, DisableOperand(k)
    PROVE  Safe'
<1>1. pass \in PassType /\ pass.mode = "disable" /\ pass.step = k /\ k \in Objects
  BY DEF TypeInv, TypeOK, DisableOperand, At, PluginOperands, Objects, Operands
<1>2. PassAdvances /\ pass'.mode # "remove"
  <2>1. k # "Finalizer" /\ k # "Status" /\ k # "Deployment" => AfterDelete[k] # "Finalizer"
    BY DEF PluginOperands, AfterDelete
  <2>2. k # "Finalizer" /\ k # "Status"
    BY DEF PluginOperands
  <2>3. CASE Fail(k)
    BY <1>1, <2>2, <2>3 DEF Fail, FailWith, PassAdvances, PassType, Idle
  <2>4. CASE k = "Deployment"
             /\ pass' = [pass EXCEPT !.mode = "reconcile", !.step = "Status",
                                     !.conds = @ \cup {Success(k)}]
    BY <1>1, <2>2, <2>4 DEF PassAdvances, PassType, Idle
  <2>5. CASE k # "Deployment" /\ pass' = [pass EXCEPT !.step = AfterDelete[k]]
    BY <1>1, <2>1, <2>2, <2>5 DEF PassAdvances, PassType, Idle
  <2>. QED  BY <2>3, <2>4, <2>5 DEF DisableOperand
<1>3. ResourcesOK'
  BY <1>2, ResourcesKept DEF Safe, DisableOperand, caches
<1>4. ObjectsShrink \/ UNCHANGED obj
  BY <1>1, DeletedShrinks DEF Safe, ObjectsOK, DisableOperand
<1>5. ObjectsOK'
  BY <1>4, ObjectsKept DEF Safe, DisableOperand
<1>6. RemovalAccounted'
  BY <1>2 DEF RemovalAccounted
<1>. QED  BY <1>3, <1>5, <1>6 DEF Safe

-----------------------------------------------------------------------------
(* The steps of a removing pass                                             *)

\* Each Delete is one position further, and its object is gone, or noted as
\* left, or held by a finalizer of another controller.
LEMMA RemoveOperandSafe ==
    ASSUME TypeInv, TypeInv', Safe, NEW k \in Operands, RemoveOperand(k)
    PROVE  Safe'
<1>1. /\ pass \in PassType /\ pass.mode = "remove" /\ pass.step = k
      /\ k \in Objects
  BY DEF TypeInv, TypeOK, RemoveOperand, At, Objects
<1>2. CASE pass' = IdlePass
  <2>1. ObjectsShrink \/ UNCHANGED obj
    BY <1>1, DeletedShrinks DEF Safe, ObjectsOK, RemoveOperand
  <2>. QED  BY <1>2, <2>1, IdleStep DEF RemoveOperand, caches
<1>3. CASE /\ obj' = Erased(k)
           /\ pass' = [pass EXCEPT !.step = AfterDelete[k],
                                   !.left = IF Present(obj[k]) THEN @ \cup {k}
                                                               ELSE @]
  <2>1. /\ RemovePosition[AfterDelete[k]] = RemovePosition[k] + 1
        /\ AfterDelete[k] \in RemoveSteps
        /\ AfterDelete[k] \notin {"Finalizer", "CrFinalizer"}
        /\ \A j \in Operands : /\ RemovePosition[j] \in Nat
                               /\ RemovePosition[j] = RemovePosition[k] => j = k
    BY DEF RemovePosition, AfterDelete, RemoveSteps, Operands
  <2>2. /\ pass'.mode = "remove" /\ pass'.step = AfterDelete[k]
        /\ pass'.left = IF Present(obj[k]) THEN pass.left \cup {k} ELSE pass.left
        /\ pass'.req = pass.req /\ pass'.loc = pass.loc
        /\ pass'.stale = pass.stale
    BY <1>1, <1>3 DEF PassType
  <2>3. /\ ObjectsShrink
        /\ k \notin Lingering \/ ~Present(obj[k]) => ~Present(obj'[k])
        /\ \A j \in Objects \ {k} : obj'[j] = obj[j]
    BY <1>1, <1>3, DeletedShrinks DEF Safe, ObjectsOK
  <2>4. ResourcesOK'
    <3>1. PassAdvances
      BY <1>1, <2>1, <2>2 DEF PassAdvances, Idle
    <3>. QED  BY <3>1, ResourcesKept DEF Safe, RemoveOperand, caches
  <2>5. ObjectsOK'
    BY <2>3, ObjectsKept DEF Safe, RemoveOperand
  <2>6. ASSUME NEW j \in Awaited,
               RemovePosition[j] < RemovePosition[AfterDelete[k]],
               j \notin pass'.left \/ j \notin Lingering
        PROVE  ~Present(obj'[j])
    <3>1. j \in Operands /\ j \in Objects
      BY DEF Awaited, Objects
    <3>2. CASE j = k
      BY <2>2, <2>3, <2>6, <3>2
    <3>3. CASE j # k
      <4>1. RemovePosition[j] < RemovePosition[pass.step]
        BY <1>1, <2>1, <2>6, <3>1, <3>3
      <4>2. ~Present(obj[j])
        BY <1>1, <2>2, <2>6, <4>1 DEF Safe, RemovalAccounted
      <4>. QED  BY <2>3, <3>1, <3>3, <4>2 DEF Present
    <3>. QED  BY <3>2, <3>3
  <2>7. RemovalAccounted'
    BY <2>1, <2>2, <2>6 DEF RemovalAccounted, Awaited, Present
  <2>. QED  BY <2>4, <2>5, <2>7 DEF Safe
<1>. QED  BY <1>2, <1>3 DEF RemoveOperand, ReturnError

LEMMA RemoveGpuCsvSafe ==
    ASSUME TypeInv, TypeInv', Safe, RemoveGpuCsv
    PROVE  Safe'
<1>1. /\ pass \in PassType /\ pass.mode = "remove" /\ pass.step = "GpuCsv"
      /\ "GpuCsv" \in Objects /\ "GpuCsv" \notin Operands
  BY DEF TypeInv, TypeOK, RemoveGpuCsv, At, Objects, Operands
<1>2. ObjectsShrink \/ UNCHANGED obj
  BY <1>1, DeletedShrinks DEF Safe, ObjectsOK, RemoveGpuCsv
<1>3. CASE pass' = IdlePass
  BY <1>2, <1>3, IdleStep DEF RemoveGpuCsv, caches
<1>4. CASE \E l \in {pass.left \ {"Subscription"}, pass.left \cup {"GpuCsv"},
                   pass.left} :
             pass' = [pass EXCEPT !.step = "NFD", !.left = l]
  <2>1. /\ pass'.mode = "remove" /\ pass'.step = "NFD"
        /\ pass'.req = pass.req /\ pass'.loc = pass.loc
        /\ pass'.stale = pass.stale
        /\ pass.left \ {"Subscription"} \subseteq pass'.left
    BY <1>1, <1>4 DEF PassType
  <2>2. ResourcesOK'
    <3>1. PassAdvances
      BY <1>1, <2>1 DEF PassAdvances, Idle
    <3>. QED  BY <3>1, ResourcesKept DEF Safe, RemoveGpuCsv, caches
  <2>3. ObjectsOK'
    BY <1>2, ObjectsKept DEF Safe, RemoveGpuCsv
  <2>4. \A k \in Operands :
          RemovePosition[k] < RemovePosition["NFD"]
            => RemovePosition[k] < RemovePosition["GpuCsv"]
    BY DEF RemovePosition, Operands
  <2>5. ASSUME NEW k \in Awaited, RemovePosition[k] < RemovePosition["NFD"],
               k \notin pass'.left \/ k \notin Lingering
        PROVE  ~Present(obj'[k])
    <3>1. k \in Operands /\ k \in Objects
      BY DEF Awaited, Objects
    <3>2. k \notin pass.left \/ k \notin Lingering
      BY <2>1, <2>5 DEF Awaited
    <3>3. ~Present(obj[k])
      BY <1>1, <2>4, <2>5, <3>1, <3>2 DEF Safe, RemovalAccounted
    <3>. QED  BY <1>2, <3>1, <3>3 DEF ObjectsShrink, Present
  <2>6. RemovalAccounted'
    BY <2>1, <2>5 DEF RemovalAccounted, Awaited, Present, RemoveSteps, Operands
  <2>. QED  BY <2>2, <2>3, <2>6 DEF Safe
<1>. QED  BY <1>3, <1>4, AfterGpuCsv DEF RemoveGpuCsv, ReturnError

\* What RemovalAccounted says at the end of a removing pass.
LEMMA AllRemoved ==
    ASSUME TypeInv, Safe, pass.mode = "remove", pass.left = {},
           pass.step \in {"SelfCsv", "CrFinalizer"}
    PROVE  \A k \in Awaited : ~Present(obj[k])
<1>1. \A k \in Awaited : RemovePosition[k] < RemovePosition[pass.step]
  BY DEF Awaited, RemovePosition, Operands
<1>. QED  BY <1>1 DEF Safe, RemovalAccounted

LEMMA RemoveSelfCsvSafe ==
    ASSUME TypeInv, TypeInv', Safe, RemoveSelfCsv
    PROVE  Safe'
<1>1. /\ pass \in PassType /\ pass.mode = "remove" /\ pass.step = "SelfCsv"
      /\ "AddonCsv" \in Objects
  BY DEF TypeInv, TypeOK, RemoveSelfCsv, At, Objects
<1>2. ObjectsShrink \/ UNCHANGED obj
  BY <1>1, DeletedShrinks DEF Safe, ObjectsOK, RemoveSelfCsv
<1>3. CASE pass' = IdlePass
  BY <1>2, <1>3, IdleStep DEF RemoveSelfCsv, caches
<1>4. CASE SelfCsvDue /\ Goto("CrFinalizer") /\ obj' = Erased("AddonCsv")
  <2>1. /\ pass'.mode = "remove" /\ pass'.step = "CrFinalizer"
        /\ pass'.req = pass.req /\ pass'.loc = pass.loc
        /\ pass'.stale = pass.stale /\ pass'.left = pass.left /\ pass.left = {}
    BY <1>1, <1>4 DEF Goto, SelfCsvDue, PassType
  <2>2. ResourcesOK'
    <3>1. PassAdvances
      BY <1>1, <2>1 DEF PassAdvances, Idle
    <3>. QED  BY <3>1, ResourcesKept DEF Safe, RemoveSelfCsv, caches
  <2>3. ObjectsOK'
    BY <1>2, ObjectsKept DEF Safe, RemoveSelfCsv
  <2>4. \A k \in Awaited : ~Present(obj'[k])
    <3>1. \A k \in Awaited : k \in Objects /\ ~Present(obj[k])
      BY <1>1, <2>1, AllRemoved DEF Awaited, Objects
    <3>. QED  BY <1>2, <3>1 DEF ObjectsShrink, Present
  <2>5. obj'["AddonCsv"].st # "live"
    <3>1. obj' = [obj EXCEPT !["AddonCsv"] = Deleted("AddonCsv", obj["AddonCsv"])]
      BY <1>4 DEF Erased
    <3>. QED  BY <1>1, <3>1 DEF Deleted, Absent, ObjectType, TypeInv, TypeOK
  <2>6. RemovalAccounted'
    BY <2>1, <2>4, <2>5 DEF RemovalAccounted, Awaited, Present, RemoveSteps
  <2>. QED  BY <2>2, <2>3, <2>6 DEF Safe
<1>. QED
  BY <1>3, <1>4 DEF RemoveSelfCsv, ReturnError, RetryRemoval

-----------------------------------------------------------------------------
(* Steps that write a GPUAddon                                              *)

\* A write that takes no finalizer away and does not give one to a live
\* GPUAddon, by anyone: a pass under way for it no longer has the newest copy.
LEMMA WriteStep ==
    ASSUME TypeInv, TypeInv', Safe, NEW a \in Addons, NEW r \in AddonResource,
           WriteAddon(a, r), UNCHANGED <<crSeen, obj>>,
           cr[a].fin => r.fin, r.fin => Present(r), LiveFin(r) => LiveFin(cr[a]),
           \/ pass' = PassSees(a) /\ pod' = pod
           \/ pass'.mode = "idle"
    PROVE  Safe'
<1>1. /\ cr'[a] = r /\ a \in stale'
      /\ \A b \in Addons : b # a => cr'[b] = cr[b] /\ (b \in stale => b \in stale')
      /\ \A b \in Addons : b \notin stale' => b # a /\ b \notin stale
  BY DEF WriteAddon, TypeInv, TypeOK
<1>2. \A b \in Addons :
        /\ cr[b].fin => cr'[b].fin
        /\ LiveFin(cr'[b]) => LiveFin(cr[b])
        /\ crSeen'[b] = crSeen[b]
  BY <1>1 DEF LiveFin
<1>3. CASE pass'.mode = "idle"
  <2>1. FinalizerIsHeld'
    BY <1>1 DEF Safe, ResourcesOK, FinalizerIsHeld, Present
  <2>2. CopiesCurrent'
    BY <1>1, <1>3 DEF Safe, ResourcesOK, CopiesCurrent, Idle, At
  <2>3. CacheBoundsFinalizer'
    BY <1>2 DEF Safe, ResourcesOK, CacheBoundsFinalizer
  <2>. QED
    BY <1>2, <1>3, <2>1, <2>2, <2>3, ObjectsKept
       DEF Safe, ResourcesOK, PassNeedsProcess, RemovalIsExclusive,
           PassIsProtected, RemovalAccounted, Idle
<1>4. CASE pass' = PassSees(a) /\ pod' = pod
  <2>1. /\ pass'.mode = pass.mode /\ pass'.step = pass.step
        /\ pass'.req = pass.req /\ pass'.loc = pass.loc
        /\ pass'.left = pass.left
        /\ ~pass'.stale => ~pass.stale /\ pass.req # a
    <3>1. pass \in PassType /\ pass' = [pass EXCEPT !.stale = @ \/ pass.req = a]
      BY <1>4 DEF TypeInv, TypeOK, PassSees
    <3>. QED  BY <3>1 DEF PassType
  <2>2. FinalizerIsHeld'
    BY <1>1 DEF Safe, ResourcesOK, FinalizerIsHeld, Present
  <2>3. CopiesCurrent'
    BY <1>1, <2>1 DEF Safe, ResourcesOK, CopiesCurrent, Idle, At
  <2>4. CacheBoundsFinalizer'
    BY <1>2 DEF Safe, ResourcesOK, CacheBoundsFinalizer
  <2>5. RemovalIsExclusive' /\ PassIsProtected' /\ PassNeedsProcess'
    <3>1. pass.mode # "idle" => pass.req \in Addons
      BY DEF TypeInv, PassHasAddon, Idle
    <3>. QED
      BY <1>2, <1>4, <2>1, <3>1
         DEF Safe, ResourcesOK, RemovalIsExclusive, PassIsProtected,
             PassNeedsProcess, Idle
  <2>6. RemovalAccounted'
    BY <2>1, AccountKept DEF Safe, Present
  <2>. QED
    BY <1>2, <2>2, <2>3, <2>4, <2>5, <2>6, ObjectsKept DEF Safe, ResourcesOK
<1>. QED  BY <1>3, <1>4

\* A live copy that is not stale is the resource itself: the finalizer goes to
\* a live GPUAddon, and the cache does not show it as terminating.
LEMMA RegisterFinalizerSafe ==
    ASSUME TypeInv, TypeInv', Safe, RegisterFinalizer
    PROVE  Safe'
<1>1. /\ pass \in PassType /\ pass.mode = "reconcile" /\ pass.step = "Finalizer"
      /\ pass.req \in Addons /\ ~Idle
  BY DEF TypeInv, TypeOK, PassHasAddon, RegisterFinalizer, At, Idle
<1>2. CASE FailWith({}) /\ UNCHANGED <<cr, stale>>
  <2>1. PassAdvances /\ pass'.mode # "remove"
    BY <1>1, <1>2 DEF FailWith, PassAdvances, PassType
  <2>. QED  BY <1>2, <2>1, PassOnlyStep DEF RegisterFinalizer, objects, caches
<1>3. CASE /\ ~pass.stale /\ WriteAddon(pass.req, WithFinalizer(cr[pass.req]))
           /\ \/ pass' = [pass EXCEPT !.step = "NFD", !.loc = cr'[pass.req]]
              \/ pass' = [pass EXCEPT !.step = "Status", !.failed = TRUE,
                                      !.stale = TRUE]
  <2>1. /\ cr[pass.req].st = "live" /\ crSeen[pass.req] = cr[pass.req]
        /\ cr[pass.req] \in AddonResource
    BY <1>1, <1>3 DEF Safe, ResourcesOK, CopiesCurrent, At, TypeInv, TypeOK
  <2>2. cr'[pass.req].st = "live" /\ cr'[pass.req].fin
    BY <1>1, <1>3, <2>1 DEF WriteAddon, WithFinalizer, AddonResource, TypeInv,
       TypeOK
  <2>3. /\ pass.req \in stale'
        /\ \A b \in Addons : b # pass.req => cr'[b] = cr[b]
        /\ \A b \in Addons : b \notin stale' => b # pass.req /\ b \notin stale
    BY <1>1, <1>3 DEF WriteAddon, TypeInv, TypeOK
  <2>4. /\ pass'.mode = "reconcile" /\ pass'.req = pass.req
        /\ pass'.step # "Finalizer"
        /\ ~pass'.stale => pass'.loc = cr'[pass.req]
    BY <1>1, <1>3 DEF PassType
  <2>5. FinalizerIsHeld'
    BY <2>2, <2>3 DEF Safe, ResourcesOK, FinalizerIsHeld, Present
  <2>6. CopiesCurrent'
    BY <1>1, <2>3, <2>4 DEF Safe, ResourcesOK, CopiesCurrent, Idle, At,
       RegisterFinalizer, caches
  <2>7. CacheBoundsFinalizer'
    BY <2>1, <2>2, <2>3 DEF Safe, ResourcesOK, CacheBoundsFinalizer, LiveFin,
       RegisterFinalizer, caches
  <2>8. RemovalIsExclusive' /\ PassIsProtected' /\ PassNeedsProcess'
    BY <1>1, <2>2, <2>4 DEF Safe, ResourcesOK, RemovalIsExclusive,
       PassIsProtected, PassNeedsProcess, Idle, RegisterFinalizer
  <2>9. ObjectsOK'
    BY <2>2, <2>3, ObjectsKept DEF Safe, RegisterFinalizer, objects
  <2>10. RemovalAccounted'
    BY <2>4 DEF RemovalAccounted
  <2>. QED  BY <2>5, <2>6, <2>7, <2>8, <2>9, <2>10 DEF Safe, ResourcesOK
<1>. QED  BY <1>2, <1>3 DEF RegisterFinalizer

LEMMA PatchStatusSafe ==
    ASSUME TypeInv, TypeInv', Safe, PatchStatus
    PROVE  Safe'
<1>1. pass.req \in Addons /\ cr[pass.req] \in AddonResource
  BY DEF TypeInv, TypeOK, PassHasAddon, PatchStatus, At, Idle
<1>2. pass' = IdlePass
  BY DEF PatchStatus, AfterStatus, Return, ReturnError
<1>3. CASE UNCHANGED <<cr, stale>>
  BY <1>2, <1>3, IdleStep DEF PatchStatus, objects, caches
<1>4. CASE ~UNCHANGED <<cr, stale>>
  <2>. DEFINE phase == PhaseOf(pass.conds, pass.failed, pass.loc.phase)
              status(restamped) ==
                [cr[pass.req] EXCEPT
                   !.phase = IF phase # pass.loc.phase THEN phase ELSE @,
                   !.conds = IF pass.conds # pass.loc.conds \/ restamped
                             THEN pass.conds ELSE @]
  <2>1. PICK restamped \in BOOLEAN : WriteAddon(pass.req, status(restamped))
    BY <1>4 DEF PatchStatus, Restamped
  <2>2. /\ status(restamped).fin = cr[pass.req].fin
        /\ status(restamped).st = cr[pass.req].st
    BY <1>1 DEF AddonResource
  <2>3. status(restamped) \in AddonResource
    <3>1. cr'[pass.req] = status(restamped)
      BY <1>1, <2>1 DEF WriteAddon, TypeInv, TypeOK
    <3>. QED  BY <1>1, <3>1 DEF TypeInv, TypeOK
  <2>. HIDE DEF status
  <2>4. cr[pass.req].fin => Present(cr[pass.req])
    BY <1>1 DEF Safe, ResourcesOK, FinalizerIsHeld
  <2>. QED
    BY <1>1, <1>2, <2>1, <2>2, <2>3, <2>4, WriteStep
       DEF PatchStatus, objects, caches, LiveFin, Present, IdlePass
<1>. QED  BY <1>3, <1>4

\* The finalizer is taken away when nothing is left that it held.
LEMMA RemoveFinalizerSafe ==
    ASSUME TypeInv, TypeInv', Safe, RemoveFinalizer
    PROVE  Safe'
<1>1. /\ pass.mode = "remove" /\ pass.step = "CrFinalizer"
      /\ pass.req \in Addons
  BY DEF TypeInv, TypeOK, PassHasAddon, RemoveFinalizer, At, Idle
<1>2. pass' = IdlePass /\ pass'.mode = "idle"
  BY DEF RemoveFinalizer, Return, ReturnError, IdlePass
<1>3. CASE UNCHANGED <<cr, stale>>
  BY <1>2, <1>3, IdleStep DEF RemoveFinalizer, objects, caches
<1>4. CASE WriteAddon(pass.req, NoResource)
  <2>1. \A k \in Awaited : ~Present(obj[k]) /\ k \in Objects
    BY <1>1, AllRemoved DEF Safe, RemovalAccounted, Awaited, Objects
  <2>2. /\ cr'[pass.req] = NoResource /\ pass.req \in stale'
        /\ \A b \in Addons : b # pass.req => cr'[b] = cr[b]
        /\ \A b \in Addons : b \notin stale' => b # pass.req /\ b \notin stale
    BY <1>1, <1>4 DEF WriteAddon, TypeInv, TypeOK
  <2>3. /\ UNCHANGED <<crSeen, obj>>
        /\ ~NoResource.fin /\ ~LiveFin(NoResource)
    BY DEF RemoveFinalizer, objects, caches, NoResource, LiveFin
  <2>4. FinalizerIsHeld'
    BY <2>2, <2>3 DEF Safe, ResourcesOK, FinalizerIsHeld, Present
  <2>5. CopiesCurrent'
    BY <1>2, <2>2, <2>3 DEF Safe, ResourcesOK, CopiesCurrent, Idle, At
  <2>6. CacheBoundsFinalizer'
    BY <1>1, <2>2, <2>3 DEF Safe, ResourcesOK, CacheBoundsFinalizer,
       RemovalIsExclusive
  <2>7. AbsentIsUnowned'
    BY <2>3 DEF Safe, ObjectsOK, AbsentIsUnowned, Present
  <2>8. OwnersHold' /\ NoOrphans'
    BY <2>1, <2>3, ObjectsAssumption
       DEF Safe, ObjectsOK, AbsentIsUnowned, OwnersHold, NoOrphans, Present
  <2>. QED
    BY <1>2, <2>4, <2>5, <2>6, <2>7, <2>8
       DEF Safe, ResourcesOK, ObjectsOK, RemovalAccounted, RemovalIsExclusive,
           PassIsProtected, PassNeedsProcess, Idle
<1>. QED  BY <1>3, <1>4 DEF RemoveFinalizer

-----------------------------------------------------------------------------
(* The other steps                                                          *)

LEMMA DequeueSafe ==
    ASSUME TypeInv, TypeInv', Safe, NEW r, Dequeue(r)
    PROVE  Safe'
<1>1. UNCHANGED <<cr, crSeen, stale, obj, pod>> /\ Idle /\ pod = "running"
  BY DEF Dequeue, NothingToDo, StartReconcile, StartRemoval, Take, api, objects,
     caches
<1>2. CASE NothingToDo(r)
  BY <1>1, <1>2, FrameStep DEF NothingToDo
<1>3. ASSUME NEW m \in {"reconcile", "remove"},
             NEW s \in {"Finalizer", "NFD", "ConsolePlugin"},
             r \in Addons, StartPass(r, m, s),
             m = "reconcile" => /\ crSeen[r].st = "live"
                                /\ s = FirstStep(crSeen[r]),
             m = "remove" => /\ crSeen[r].st = "terminating"
                             /\ s = "ConsolePlugin"
      PROVE  Safe'
  <2>1. /\ pass'.mode = m /\ pass'.step = s /\ pass'.req = r
        /\ pass'.loc = crSeen[r] /\ pass'.stale = (r \in stale)
        /\ pass'.left = {}
    BY <1>3 DEF StartPass, IdlePass
  <2>2. FinalizerIsHeld' /\ CacheBoundsFinalizer' /\ PassNeedsProcess'
    BY <1>1 DEF Safe, ResourcesOK, FinalizerIsHeld, CacheBoundsFinalizer,
       PassNeedsProcess, LiveFin, Present
  <2>3. CopiesCurrent'
    BY <1>1, <1>3, <2>1 DEF Safe, ResourcesOK, CopiesCurrent, Idle, At
  <2>4. RemovalIsExclusive'
    BY <1>1, <1>3, <2>1 DEF Safe, ResourcesOK, CacheBoundsFinalizer,
       RemovalIsExclusive, LiveFin
  <2>5. PassIsProtected'
    BY <1>1, <1>3, <2>1 DEF Safe, ResourcesOK, CacheBoundsFinalizer,
       PassIsProtected, LiveFin, FirstStep
  <2>6. ObjectsOK'
    BY <1>1, ObjectsKept DEF Safe
  <2>7. RemovalAccounted'
    <3>1. \A k \in Awaited : ~(RemovePosition[k] < RemovePosition["ConsolePlugin"])
      BY DEF Awaited, Operands, RemovePosition
    <3>. QED  BY <1>3, <2>1, <3>1 DEF RemovalAccounted, RemoveSteps, Operands
  <2>. QED  BY <2>2, <2>3, <2>4, <2>5, <2>6, <2>7 DEF Safe, ResourcesOK
<1>4. CASE r \in Addons /\ StartReconcile(r)
  BY <1>3, <1>4 DEF StartReconcile, FirstStep
<1>5. CASE r \in Addons /\ StartRemoval(r)
  BY <1>3, <1>5 DEF StartRemoval
<1>. QED  BY <1>2, <1>4, <1>5 DEF Dequeue

LEMMA SyncSafe ==
    ASSUME TypeInv, TypeInv', Safe, Sync
    PROVE  Safe'
<1>1. ASSUME NEW a \in Addons, SyncAddon(a) PROVE Safe'
  <2>1. /\ UNCHANGED <<cr, obj, pass, pod>>
        /\ crSeen'[a] = cr[a]
        /\ \A b \in Addons : b # a => crSeen'[b] = crSeen[b]
        /\ \A b \in Addons : b \notin stale' <=> b = a \/ b \notin stale
    BY <1>1 DEF SyncAddon, api, objects, TypeInv, TypeOK
  <2>2. FinalizerIsHeld' /\ PassNeedsProcess' /\ PassIsProtected'
    BY <2>1 DEF Safe, ResourcesOK, FinalizerIsHeld, PassNeedsProcess,
       PassIsProtected, Idle, Present
  <2>3. CopiesCurrent'
    BY <2>1 DEF Safe, ResourcesOK, CopiesCurrent, Idle, At
  <2>4. CacheBoundsFinalizer'
    BY <2>1 DEF Safe, ResourcesOK, CacheBoundsFinalizer, LiveFin
  <2>5. RemovalIsExclusive'
    BY <2>1 DEF Safe, ResourcesOK, CopiesCurrent, RemovalIsExclusive, Idle,
       LiveFin
  <2>6. ObjectsOK' /\ RemovalAccounted'
    BY <2>1, ObjectsKept, AccountKept DEF Safe
  <2>. QED  BY <2>2, <2>3, <2>4, <2>5, <2>6 DEF Safe, ResourcesOK
<1>2. ASSUME NEW k \in Objects, SyncObject(k) PROVE Safe'
  BY <1>2, FrameStep DEF SyncObject
<1>3. ASSUME SyncConsole PROVE Safe'
  BY <1>3, FrameStep DEF SyncConsole, api, objects
<1>4. ASSUME Resync PROVE Safe'
  BY <1>4, FrameStep DEF Resync, api, objects, caches
<1>. QED  BY <1>1, <1>2, <1>3, <1>4 DEF Sync

LEMMA ProcessSafe ==
    ASSUME TypeInv, TypeInv', Safe, Process
    PROVE  Safe'
<1>1. ASSUME Jumpstart PROVE Safe'
  <2>1. pass' = pass /\ pass.mode = "idle" /\ UNCHANGED <<crSeen, obj>>
    BY <1>1 DEF Jumpstart, Safe, ResourcesOK, PassNeedsProcess, Idle, objects,
       caches
  <2>2. CASE UNCHANGED <<cr, stale>>
    <3>1. ResourcesOK'
      BY <2>1, <2>2, ResourcesKept DEF Safe
    <3>2. ObjectsOK' /\ RemovalAccounted'
      BY <2>1, <2>2, ObjectsKept, AccountKept DEF Safe
    <3>. QED  BY <3>1, <3>2 DEF Safe
  <2>3. CASE ~Present(cr[AddonID]) /\ WriteAddon(AddonID, NewResource(TRUE))
    <3>1. AddonID \in Addons /\ ~cr[AddonID].fin
      BY <2>3, ControllerAssumption DEF Safe, ResourcesOK, FinalizerIsHeld
    <3>2. ~NewResource(TRUE).fin
      BY DEF NewResource, NoResource
    <3>3. NewResource(TRUE) \in AddonResource
      BY NewResourceType
    <3>. HIDE DEF WriteAddon
    <3>. QED  BY <2>1, <2>3, <3>1, <3>2, <3>3, WriteStep DEF LiveFin
  <2>. QED  BY <1>1, <2>2, <2>3 DEF Jumpstart
<1>2. ASSUME StartManager PROVE Safe'
  <2>1. /\ UNCHANGED <<cr, obj, pass>> /\ crSeen' = cr /\ stale' = {}
        /\ pod' = "running" /\ Idle
    BY <1>2 DEF StartManager, Safe, ResourcesOK, PassNeedsProcess
  <2>2. FinalizerIsHeld' /\ PassNeedsProcess' /\ PassIsProtected'
    BY <2>1 DEF Safe, ResourcesOK, FinalizerIsHeld, PassNeedsProcess,
       PassIsProtected, Idle, Present
  <2>3. CopiesCurrent' /\ RemovalIsExclusive'
    BY <2>1 DEF CopiesCurrent, RemovalIsExclusive, Idle, At
  <2>4. CacheBoundsFinalizer'
    BY <2>1 DEF CacheBoundsFinalizer, LiveFin
  <2>5. ObjectsOK' /\ RemovalAccounted'
    BY <2>1, ObjectsKept, AccountKept DEF Safe
  <2>. QED  BY <2>2, <2>3, <2>4, <2>5 DEF Safe, ResourcesOK
<1>3. ASSUME Crash PROVE Safe'
  BY <1>3, IdleStep DEF Crash, Die, api, objects, caches
<1>4. ASSUME OperatorRemoved PROVE Safe'
  BY <1>4, IdleStep DEF OperatorRemoved, api, objects, caches
<1>. QED  BY <1>1, <1>2, <1>3, <1>4 DEF Process

\* Others only take away what the controller created.
LEMMA ShrinkStep ==
    ASSUME TypeInv, TypeInv', Safe, ObjectsShrink, pod' = pod,
           UNCHANGED <<cr, crSeen, stale, pass>>
    PROVE  Safe'
<1>1. ResourcesOK'
  BY ResourcesKept DEF Safe
<1>2. ObjectsOK'
  BY ObjectsKept DEF Safe
<1>3. /\ \A k \in Awaited : Present(obj'[k]) => Present(obj[k])
      /\ obj'["AddonCsv"].st = "live" => obj["AddonCsv"].st = "live"
  BY DEF ObjectsShrink, Awaited, Objects
<1>4. RemovalAccounted'
  BY <1>3, AccountKept DEF Safe
<1>. QED  BY <1>1, <1>2, <1>4 DEF Safe

LEMMA ClusterSafe ==
    ASSUME TypeInv, TypeInv', Safe, Cluster
    PROVE  Safe'
<1>1. ASSUME PlanInstall PROVE Safe'
  BY <1>1, FrameStep DEF PlanInstall, objects, caches
<1>2. ASSUME InstallGpuOperator PROVE Safe'
  <2>1. /\ UNCHANGED <<cr, crSeen, stale, pass, pod>>
        /\ "Subscription" \in Objects /\ "GpuCsv" \in Objects
        /\ obj["Subscription"] \in ObjectType
    BY <1>2 DEF InstallGpuOperator, caches, Objects, Operands, TypeInv, TypeOK
  <2>2. \/ obj' = [obj EXCEPT !["GpuCsv"] = Live(NoAddon, "desired")]
        \/ obj' = [obj EXCEPT
                     !["GpuCsv"] = Live(NoAddon, "desired"),
                     !["Subscription"] = [obj["Subscription"] EXCEPT !.ready = TRUE]]
    BY <1>2, <2>1 DEF InstallGpuOperator, TypeInv, TypeOK
  <2>3. \A k \in Objects \ {"GpuCsv"} :
          obj'[k].st = obj[k].st /\ obj'[k].owner = obj[k].owner
    BY <2>1, <2>2 DEF TypeInv, TypeOK, ObjectType
  <2>4. Present(obj'["GpuCsv"])
    BY <2>1, <2>2 DEF TypeInv, TypeOK, Live, Present
  <2>5. ResourcesOK'
    BY <2>1, ResourcesKept DEF Safe
  <2>6. AbsentIsUnowned'
    BY <2>3, <2>4 DEF Safe, ObjectsOK, AbsentIsUnowned, Present
  <2>7. \A k \in Operands : k \in Objects \ {"GpuCsv"}
    BY DEF Operands, Objects
  <2>8. OwnersHold' /\ NoOrphans' /\ RemovalAccounted'
    <3>1. \A k \in Awaited : k \in Operands
      BY DEF Awaited
    <3>2. OwnersHold'
      BY <2>1, <2>3, <2>7, <3>1 DEF Safe, ObjectsOK, OwnersHold
    <3>3. NoOrphans'
      BY <2>1, <2>3, <2>7, <3>1 DEF Safe, ObjectsOK, NoOrphans, Present
    <3>4. RemovalAccounted'
      <4>1. obj'["AddonCsv"].st = obj["AddonCsv"].st
        BY <2>3 DEF Objects
      <4>. QED  BY <2>1, <2>3, <2>7, <3>1, <4>1, AccountKept DEF Safe, Present
    <3>. QED  BY <3>2, <3>3, <3>4
  <2>. QED  BY <2>5, <2>6, <2>8 DEF Safe, ObjectsOK
<1>3. ASSUME UpgradeCompletes PROVE Safe'
  BY <1>3, FrameStep DEF UpgradeCompletes, objects, caches
<1>4. ASSUME NEW k \in Lingering, FinishTermination(k) PROVE Safe'
  <2>1. k \in Objects /\ obj' = [obj EXCEPT ![k] = Absent] /\ Present(obj[k])
    BY <1>4, ObjectsAssumption DEF FinishTermination, Present
  <2>2. ObjectsShrink
    BY <2>1 DEF ObjectsShrink, Absent, Present, Safe, ObjectsOK, AbsentIsUnowned,
       TypeInv, TypeOK
  <2>. QED  BY <1>4, <2>2, ShrinkStep DEF FinishTermination, caches
<1>. QED  BY <1>1, <1>2, <1>3, <1>4 DEF Cluster

LEMMA UsersSafe ==
    ASSUME TypeInv, TypeInv', Safe, Users
    PROVE  Safe'
<1>1. ASSUME NEW a \in Addons, NEW r \in AddonResource, EditAddon(a, r),
             cr[a].fin => r.fin, r.fin => Present(r), LiveFin(r) => LiveFin(cr[a])
      PROVE  Safe'
  BY <1>1, WriteStep DEF EditAddon, ChangeAddon, Edit, objects, caches
<1>2. ASSUME NEW a \in Addons,
             UserCreates(a) \/ UserDeletes(a) \/ UserToggles(a) \/ UserTouches(a)
      PROVE  Safe'
  <2>1. /\ cr[a] \in AddonResource /\ NoResource \in AddonResource
        /\ cr[a].fin => Present(cr[a])
    BY DEF TypeInv, TypeOK, NoResource, AddonResource, Phases, Safe, ResourcesOK,
       FinalizerIsHeld
  <2>2. CASE UserCreates(a)
    <3>1. PICK plugin \in BOOLEAN : EditAddon(a, NewResource(plugin))
      BY <2>2 DEF UserCreates
    <3>2. /\ NewResource(plugin) \in AddonResource /\ ~NewResource(plugin).fin
          /\ ~cr[a].fin
      BY <2>1, <2>2, NewResourceType DEF UserCreates, NewResource, NoResource
    <3>. QED  BY <1>1, <3>1, <3>2 DEF LiveFin
  <2>3. CASE UserDeletes(a)
    <3>1. CASE cr[a].fin
      <4>. DEFINE r == [cr[a] EXCEPT !.st = "terminating"]
      <4>1. /\ r \in AddonResource /\ r.st = "terminating"
            /\ r.fin = cr[a].fin
        BY <2>1 DEF AddonResource
      <4>2. EditAddon(a, r)
        BY <2>3, <3>1 DEF UserDeletes, DeletionOf
      <4>. HIDE DEF r
      <4>. QED  BY <1>1, <4>1, <4>2 DEF LiveFin, Present
    <3>2. CASE ~cr[a].fin
      <4>1. EditAddon(a, NoResource) /\ ~NoResource.fin
        BY <2>3, <3>2 DEF UserDeletes, DeletionOf, NoResource
      <4>. QED  BY <1>1, <2>1, <3>2, <4>1 DEF LiveFin
    <3>. QED  BY <3>1, <3>2
  <2>4. CASE UserToggles(a)
    <3>. DEFINE r == [cr[a] EXCEPT !.plugin = ~@]
    <3>1. r \in AddonResource /\ r.st = cr[a].st /\ r.fin = cr[a].fin
      BY <2>1 DEF AddonResource
    <3>2. EditAddon(a, r)
      BY <2>4 DEF UserToggles
    <3>. HIDE DEF r
    <3>. QED  BY <1>1, <2>1, <3>1, <3>2 DEF LiveFin, Present
  <2>5. CASE UserTouches(a)
    BY <1>1, <2>1, <2>5 DEF UserTouches
  <2>. QED  BY <1>2, <2>2, <2>3, <2>4, <2>5
<1>3. ASSUME NEW k \in Contended, Drift(k) \/ ExternalDelete(k)
      PROVE  Safe'
  <2>1. /\ k \in Objects /\ obj[k] \in ObjectType /\ obj[k].st = "live"
    BY <1>3, ControllerAssumption DEF Drift, ExternalDelete, Objects, TypeInv,
       TypeOK
  <2>2. PICK o : /\ EditObject(k, o) /\ o.owner \in {obj[k].owner, NoAddon}
                 /\ ~Present(o) => o.owner = NoAddon
    <3>1. CASE Drift(k)
      <4>1. PICK w \in {obj[k].owner, NoAddon} :
              EditObject(k, [obj[k] EXCEPT !.spec = "other", !.owner = w])
        BY <3>1 DEF Drift
      <4>2. /\ [obj[k] EXCEPT !.spec = "other", !.owner = w].owner = w
            /\ [obj[k] EXCEPT !.spec = "other", !.owner = w].st = "live"
        BY <2>1 DEF ObjectType
      <4>. QED  BY <4>1, <4>2 DEF Present
    <3>2. CASE ExternalDelete(k)
      <4>1. EditObject(k, Deleted(k, obj[k]))
        BY <3>2 DEF ExternalDelete
      <4>2. /\ Deleted(k, obj[k]).owner \in {obj[k].owner, NoAddon}
            /\ ~Present(Deleted(k, obj[k])) => Deleted(k, obj[k]).owner = NoAddon
        BY <2>1 DEF Deleted, Absent, Present, ObjectType
      <4>. QED  BY <4>1, <4>2
    <3>. QED  BY <1>3, <3>1, <3>2
  <2>3. ObjectsShrink
    BY <2>1, <2>2 DEF EditObject, ObjectsShrink, Present, Safe, ObjectsOK,
       AbsentIsUnowned, TypeInv, TypeOK
  <2>. QED  BY <2>2, <2>3, ShrinkStep DEF EditObject, Edit, caches
<1>4. ASSUME NEW p \in OtherPlugins, OtherPluginAdded(p) PROVE Safe'
  BY <1>4, FrameStep DEF OtherPluginAdded, Edit, objects, caches
<1>5. ASSUME NEW v \in Versions, UpgradeStarts(v) PROVE Safe'
  BY <1>5, FrameStep DEF UpgradeStarts, Edit, objects, caches
<1>. QED  BY <1>2, <1>3, <1>4, <1>5 DEF Users

-----------------------------------------------------------------------------
(* The theorems                                                             *)

LEMMA InitSafe == Init => Safe
<1>. SUFFICES ASSUME Init PROVE Safe
  OBVIOUS
<1>1. /\ pass.mode = "idle" /\ stale = {} /\ crSeen = cr
      /\ \A a \in Addons : cr[a].st = "absent" /\ ~cr[a].fin
  BY DEF Init, IdlePass, NoResource
<1>2. \A k \in Objects : /\ obj[k].owner = NoAddon
                         /\ k # "AddonCsv" => ~Present(obj[k])
  BY DEF Init, Absent, Live, Present, Objects
<1>3. \A k \in Awaited : k \in Objects /\ k # "AddonCsv"
  BY DEF Awaited, Operands, Objects
<1>4. ResourcesOK
  BY <1>1 DEF ResourcesOK, FinalizerIsHeld, PassNeedsProcess, CopiesCurrent,
     CacheBoundsFinalizer, RemovalIsExclusive, PassIsProtected, LiveFin, Idle, At
<1>5. ObjectsOK
  BY <1>2, <1>3, ObjectsAssumption
     DEF ObjectsOK, AbsentIsUnowned, OwnersHold, NoOrphans
<1>. QED  BY <1>1, <1>4, <1>5 DEF Safe, RemovalAccounted

LEMMA SafeStep == TypeInv /\ Safe /\ [Next]_vars => Safe'
<1>. SUFFICES ASSUME TypeInv, Safe, [Next]_vars PROVE Safe'
  OBVIOUS
<1>1. TypeInv'
  BY TypeStep
<1>2. CASE Sync
  BY <1>1, <1>2, SyncSafe
<1>3. CASE PassStep
  <2>1. ASSUME NEW k \in Created, ReconcileOperand(k) PROVE Safe'
    BY <1>1, <2>1, ReconcileOperandSafe DEF Created
  <2>. QED
    BY <1>1, <1>3, <2>1, RegisterFinalizerSafe, ReconcileSubscriptionSafe,
       SubscriptionPanicsSafe, EnterConsolePluginSafe, PatchClusterConsoleSafe,
       PatchStatusSafe, DisableOperandSafe, RemoveOperandSafe, RemoveGpuCsvSafe,
       RemoveSelfCsvSafe, RemoveFinalizerSafe
    DEF PassStep
<1>4. ASSUME NEW r, Dequeue(r) \/ GetFails(r) PROVE Safe'
  <2>1. CASE Dequeue(r)
    BY <1>1, <2>1, DequeueSafe
  <2>2. CASE GetFails(r)
    BY <1>1, <2>2, FrameStep DEF GetFails, api, objects, caches
  <2>. QED  BY <1>4, <2>1, <2>2
<1>5. CASE Process
  BY <1>1, <1>5, ProcessSafe
<1>6. CASE Cluster
  BY <1>1, <1>6, ClusterSafe
<1>7. CASE Users
  BY <1>1, <1>7, UsersSafe
<1>8. CASE UNCHANGED vars
  BY <1>1, <1>8, FrameStep DEF vars
<1>. QED
  BY <1>2, <1>3, <1>4, <1>5, <1>6, <1>7, <1>8 DEF Next, Worker, Dequeue

\* IInv is an inductive invariant of the controller and its cluster.
THEOREM IInvInvariant == Spec => []IInv
<1>1. Init => TypeInv /\ Safe
  BY InitType, InitSafe DEF TypeInv, PassHasAddon, Init, Idle, IdlePass
<1>2. TypeInv /\ Safe /\ [Next]_vars => TypeInv' /\ Safe'
  BY TypeStep, SafeStep
<1>3. TypeInv /\ Safe => IInv
  BY SafeIsIInv
<1>. QED  BY <1>1, <1>2, <1>3, PTL DEF Spec

\* However late the caches are and whatever fails, an operand whose removal
\* is waited for is there only while some GPUAddon carries the finalizer.
THEOREM NothingOrphaned == Spec => []NoOrphans
<1>1. IInv => NoOrphans
  BY DEF IInv, ObjectsOK
<1>. QED  BY <1>1, IInvInvariant, PTL

\* An operand that is there has an owner that still carries the finalizer: none
\* is gone with its operands left to the garbage collection of Kubernetes.
THEOREM OwnersOutliveOperands == Spec => []OwnersHold
<1>1. IInv => OwnersHold
  BY DEF IInv, ObjectsOK
<1>. QED  BY <1>1, IInvInvariant, PTL

\* A reconciling pass never works for a GPUAddon that is gone.
THEOREM PassesProtected == Spec => []PassIsProtected
<1>1. IInv => PassIsProtected
  BY DEF IInv, ResourcesOK
<1>. QED  BY <1>1, IInvInvariant, PTL

\* One step alone touches a live AddonCsv.
LEMMA OnlySelfCsvStep ==
    ASSUME TypeInv, Safe, Next, obj["AddonCsv"].st = "live",
           obj'["AddonCsv"].st # "live"
    PROVE  RemoveSelfCsv /\ SelfCsvDue
<1>1. "AddonCsv" \in Objects /\ "AddonCsv" \notin Operands
  BY DEF Objects, Operands
<1>2. ASSUME NEW k \in Objects \ {"AddonCsv"}, NEW o,
             obj' = [obj EXCEPT ![k] = o]
      PROVE  FALSE
  BY <1>1, <1>2 DEF TypeInv, TypeOK
<1>3. obj' # obj
  OBVIOUS
<1>4. CASE PassStep
  <2>1. ASSUME NEW k \in Operands, ReconcileOperand(k) \/ RemoveOperand(k)
                                     \/ DisableOperand(k)
        PROVE  FALSE
    BY <1>1, <1>2, <1>3, <2>1 DEF ReconcileOperand, RemoveOperand,
       DisableOperand, CreateOrPatch, Written, Erased, Objects
  <2>2. ~ReconcileSubscription
    BY <1>1, <1>2, <1>3 DEF ReconcileSubscription, CreateOrPatch, Written,
       Objects, Operands
  <2>3. ~RemoveGpuCsv
    BY <1>1, <1>2, <1>3 DEF RemoveGpuCsv, Erased, Objects
  <2>4. RemoveSelfCsv
    BY <1>3, <1>4, <2>1, <2>2, <2>3 DEF PassStep, Created, PluginOperands,
       Operands, RegisterFinalizer, SubscriptionPanics, EnterConsolePlugin,
       PatchClusterConsole, PatchStatus, RemoveFinalizer, api, objects
  <2>. QED  BY <1>3, <2>4 DEF RemoveSelfCsv
<1>5. ~Cluster
  <2>1. ~InstallGpuOperator
    BY <1>1 DEF InstallGpuOperator, TypeInv, TypeOK, Objects
  <2>2. ASSUME NEW k \in Lingering, FinishTermination(k) PROVE FALSE
    BY <1>1, <1>2, <2>2, ObjectsAssumption DEF FinishTermination
  <2>. QED  BY <1>3, <2>1, <2>2 DEF Cluster, PlanInstall, UpgradeCompletes, objects
<1>6. ~Users
  <2>1. ASSUME NEW k \in Contended, Drift(k) \/ ExternalDelete(k) PROVE FALSE
    BY <1>1, <1>2, <2>1, ControllerAssumption
       DEF Drift, ExternalDelete, EditObject, Objects
  <2>. QED
    BY <1>3, <2>1 DEF Users, UserCreates, UserDeletes, UserToggles, UserTouches,
       EditAddon, ChangeAddon, OtherPluginAdded, UpgradeStarts, Edit, objects
<1>. QED
  BY <1>3, <1>4, <1>5, <1>6
     DEF Next, Worker, Sync, SyncAddon, SyncObject, SyncConsole, Resync, Dequeue,
         NothingToDo, StartReconcile, StartRemoval, Take, GetFails, Process,
         Jumpstart, StartManager, Crash, OperatorRemoved, api, objects

LEMMA SelfCsvStep ==
    ASSUME TypeInv, Safe, Next, obj["AddonCsv"].st = "live",
           obj'["AddonCsv"].st # "live"
    PROVE  \A k \in Awaited : ~Present(obj[k])
<1>1. RemoveSelfCsv /\ SelfCsvDue
  BY OnlySelfCsvStep
<1>. QED  BY <1>1, AllRemoved DEF RemoveSelfCsv, SelfCsvDue, At

\* removeSelfCsv deletes the add-on's CSV only when every operand is gone: it
\* is the one step that touches a live AddonCsv, and RemovalAccounted holds
\* before it.
THEOREM SelfCsvGoesLast == Spec => SelfCsvLast
<1>. DEFINE Last == obj["AddonCsv"].st = "live" /\ obj'["AddonCsv"].st # "live"
                      => \A k \in Awaited : ~Present(obj[k])
<1>1. TypeInv /\ Safe /\ [Next]_vars => [Last]_vars
  BY SelfCsvStep
<1>2. IInv => TypeInv /\ Safe
  BY SafeIsIInv
<1>3. [][Last]_vars => SelfCsvLast
  BY PTL DEF SelfCsvLast
<1>. QED  BY <1>1, <1>2, <1>3, IInvInvariant, PTL DEF Spec
=============================================================================
