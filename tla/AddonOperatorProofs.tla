------------------------ MODULE AddonOperatorProofs ------------------------
(***************************************************************************)
(* The two controllers together keep what the GPUAddon controller alone    *)
(* guarantees, for any number of GPUAddons, ConfigMaps, failures, crashes  *)
(* and edits: to the GPUAddon controller the ConfigMap controller is one   *)
(* more user that deletes a GPUAddon.                                      *)
(***************************************************************************)
EXTENDS LifecycleProofs, RestProofs, AddonOperator

\* What holds of the requests of the ConfigMap controller.
AskedInv ==
    /\ CMTypeOK
    /\ AddonID \in configMaps \/ request \/ todo # {} => asked

OperatorInv == RefinementInv /\ AskedInv

-----------------------------------------------------------------------------
(* The steps of the ConfigMap controller, seen by the GPUAddon controller   *)

\* Nothing but a bounded counter changes.
LEMMA BystanderStep ==
    ASSUME RefinementInv,
           UNCHANGED <<cr, crSeen, stale, obj, seen, console, consoleSeen, news,
                       history, plan, policyKind, queue, pass, installed, pod,
                       crashes>>,
           edits' \in 0..MaxEdits, faults' \in 0..MaxFaults
    PROVE  RefinementInv'
<1>1. TypeInv'
  BY DEF RefinementInv, TypeInv, TypeOK, PassHasAddon, Idle
<1>2. Safe'
  BY <1>1, FrameStep DEF RefinementInv
<1>3. RemovalJustified'
  BY DEF RefinementInv, RemovalJustified, Leaving
<1>. QED  BY <1>1, <1>2, <1>3 DEF RefinementInv

\* A Delete call for a GPUAddon that is there: the one effect of the ConfigMap
\* controller on what the two share.
LEMMA DeletionMaps ==
    ASSUME RefinementInv, NEW a \in Addons, cr[a].st = "live",
           ChangeAddon(a, DeletionOf(cr[a]))
    PROVE  [Lifecycle!Next]_Lifecycle!vars
<1>1. cr[a] \in AddonResource /\ NoResource \in AddonResource
  BY DEF RefinementInv, TypeInv, TypeOK, NoResource, AddonResource, Phases
<1>2. DeletionOf(cr[a]) \in AddonResource
  BY <1>1 DEF DeletionOf, AddonResource
<1>. QED
  BY <1>2, ResourceStep DEF RefinementInv, ChangeAddon, WriteAddon, objects

LEMMA DeletionStep ==
    ASSUME RefinementInv, NEW a \in Addons, cr[a].st = "live",
           ChangeAddon(a, DeletionOf(cr[a])),
           UNCHANGED <<crSeen, seen, consoleSeen, plan, policyKind, installed, pod,
                       edits, crashes>>,
           faults' \in 0..MaxFaults
    PROVE  RefinementInv'
<1>1. /\ cr[a] \in AddonResource /\ NoResource \in AddonResource
      /\ cr[a].fin => Present(cr[a])
  BY DEF RefinementInv, TypeInv, TypeOK, NoResource, AddonResource, Phases, Safe,
     ResourcesOK, FinalizerIsHeld
<1>2. PICK r \in AddonResource :
        /\ r = DeletionOf(cr[a])
        /\ cr[a].fin => r.fin
        /\ r.fin => Present(r)
        /\ ~LiveFin(r)
  <2>. DEFINE r == DeletionOf(cr[a])
  <2>1. CASE cr[a].fin
    <3>1. r = [cr[a] EXCEPT !.st = "terminating"]
      BY <2>1 DEF DeletionOf
    <3>. QED  BY <1>1, <3>1 DEF AddonResource, Present, LiveFin
  <2>2. CASE ~cr[a].fin
    <3>1. r = NoResource /\ ~NoResource.fin
      BY <2>2 DEF DeletionOf, NoResource
    <3>. QED  BY <1>1, <2>2, <3>1 DEF LiveFin
  <2>. QED  BY <2>1, <2>2
<1>3. /\ WriteAddon(a, r) /\ pass' = PassSees(a)
      /\ UNCHANGED <<crSeen, seen, consoleSeen, obj, news, console, history, queue,
                     plan, policyKind>>
  BY <1>2 DEF ChangeAddon, objects
<1>4. /\ pass' \in PassType /\ pass'.mode = pass.mode /\ pass'.req = pass.req
      /\ pass'.loc = pass.loc
  <2>1. pass \in PassType /\ (pass.stale \/ pass.req = a) \in BOOLEAN
    BY DEF RefinementInv, TypeInv, TypeOK, PassType
  <2>2. pass' = [pass EXCEPT !.stale = (pass.stale \/ pass.req = a)]
    BY <1>3 DEF PassSees
  <2>. QED  BY <2>1, <2>2 DEF PassType
<1>5. cr' \in [Addons -> AddonResource] /\ stale' \in SUBSET Addons
  BY <1>2, <1>3, WriteType DEF RefinementInv, TypeInv
<1>6. TypeInv'
  BY <1>3, <1>4, <1>5 DEF RefinementInv, TypeInv, TypeOK, PassHasAddon, Idle
<1>7. Safe'
  <2>1. UNCHANGED <<crSeen, obj>> /\ pod' = pod /\ pass' = PassSees(a)
    BY <1>3
  <2>2. WriteAddon(a, r) /\ TypeInv /\ Safe
    BY <1>3 DEF RefinementInv
  <2>. QED  BY <1>2, <1>6, <2>1, <2>2, WriteStep
<1>8. \A b \in Addons : Leaving(b) => Leaving(b)'
  <2>1. [Lifecycle!Next]_Lifecycle!vars
    BY DeletionMaps
  <2>. QED  BY <2>1, LeavingKept
<1>9. RemovalJustified'
  <2>1. pass.mode = "remove" => pass.req \in Addons
    BY DEF RefinementInv, TypeInv, PassHasAddon, Idle
  <2>. QED  BY <1>3, <1>4, <1>8, <2>1 DEF RefinementInv, RemovalJustified
<1>. QED  BY <1>6, <1>7, <1>9 DEF RefinementInv

LEMMA FaultBound ==
    ASSUME RefinementInv, Fault \/ NoFault
    PROVE  faults' \in 0..MaxFaults
  BY FaultType DEF RefinementInv, TypeInv

LEMMA ConfigMapStep ==
    ASSUME RefinementInv, CMTypeOK, CMNext
    PROVE  RefinementInv' /\ [Lifecycle!Next]_Lifecycle!vars
<1>. DEFINE Good == RefinementInv' /\ [Lifecycle!Next]_Lifecycle!vars
<1>1. edits \in 0..MaxEdits /\ faults \in 0..MaxFaults
  BY DEF RefinementInv, TypeInv, TypeOK
<1>2. ASSUME NEW new, EditConfigMap(new) PROVE Good
  <2>1. edits' \in 0..MaxEdits
    BY <1>2, EditType DEF EditConfigMap, RefinementInv
  <2>2. /\ UNCHANGED <<cr, crSeen, stale, obj, seen, console, consoleSeen, news,
                       history, plan, policyKind, queue, pass, installed, pod,
                       faults, crashes>>
    BY <1>2 DEF EditConfigMap, Edit, objects, olm, caches
  <2>. QED  BY <1>1, <2>1, <2>2, BystanderStep, UnchangedStep
<1>3. CASE ResyncConfigMaps
  <2>1. UNCHANGED <<cr, crSeen, stale, obj, seen, console, consoleSeen, news,
                    history, plan, policyKind, queue, pass, installed, pod,
                    edits, faults, crashes>>
    BY <1>3 DEF ResyncConfigMaps, addonVars, api, objects, olm, caches, bounds
  <2>. QED  BY <1>1, <2>1, BystanderStep, UnchangedStep
<1>4. CASE ListAddons \/ DeleteAddonFails
  <2>1. faults' \in 0..MaxFaults
    BY <1>4, FaultBound DEF ListAddons, DeleteAddonFails
  <2>2. UNCHANGED <<cr, crSeen, stale, obj, seen, console, consoleSeen, news,
                    history, plan, policyKind, queue, pass, installed, pod,
                    edits, crashes>>
    BY <1>4 DEF ListAddons, DeleteAddonFails, api, objects, olm, caches
  <2>. QED  BY <1>1, <2>1, <2>2, BystanderStep, UnchangedStep
<1>5. ASSUME NEW a \in Addons, DeleteAddon(a) PROVE Good
  <2>1. /\ faults' \in 0..MaxFaults
        /\ UNCHANGED <<crSeen, seen, consoleSeen, plan, policyKind, installed,
                       pod, edits, crashes>>
    BY <1>5, FaultBound DEF DeleteAddon, olm, caches
  <2>2. CASE cr[a].st = "live"
    <3>1. ChangeAddon(a, DeletionOf(cr[a]))
      BY <1>5, <2>2 DEF DeleteAddon, Grant
    <3>. QED  BY <2>1, <2>2, <3>1, DeletionStep, DeletionMaps
  <2>3. CASE cr[a].st # "live"
    <3>1. UNCHANGED <<cr, crSeen, stale, obj, seen, console, consoleSeen, news,
                      history, plan, policyKind, queue, pass, installed, pod,
                      edits, crashes>>
      BY <1>5, <2>1, <2>3 DEF DeleteAddon, Grant, objects
    <3>. QED  BY <1>1, <2>1, <3>1, BystanderStep, UnchangedStep
  <2>. QED  BY <2>2, <2>3
<1>6. CASE \E n \in ConfigMaps :
             CreateConfigMap(n) \/ TouchConfigMap(n) \/ RemoveConfigMap(n)
  <2>1. PICK new : EditConfigMap(new)
    BY <1>6 DEF CreateConfigMap, TouchConfigMap, RemoveConfigMap
  <2>. QED  BY <1>2, <2>1
<1>. HIDE DEF Good
<1>. QED
  BY <1>3, <1>4, <1>5, <1>6 DEF CMNext, CMWorker, Good

-----------------------------------------------------------------------------
(* Requests                                                                 *)

LEMMA AskedStep ==
    ASSUME RefinementInv, AskedInv, OperatorNext
    PROVE  AskedInv'
<1>1. CASE FollowProcess
  BY <1>1 DEF FollowProcess, AskedInv, CMTypeOK, isAddonConfigMap
<1>2. ASSUME NEW n \in ConfigMaps, CreateConfigMap(n) PROVE AskedInv'
  BY <1>2 DEF CreateConfigMap, EditConfigMap, Announce, isAddonConfigMap, AskedInv,
     CMTypeOK
<1>3. ASSUME NEW n \in ConfigMaps, TouchConfigMap(n) PROVE AskedInv'
  BY <1>3 DEF TouchConfigMap, EditConfigMap, Announce, isAddonConfigMap, AskedInv,
     CMTypeOK
<1>4. ASSUME NEW n \in ConfigMaps, RemoveConfigMap(n) PROVE AskedInv'
  BY <1>4 DEF RemoveConfigMap, EditConfigMap, AskedInv, CMTypeOK
<1>5. CASE ResyncConfigMaps
  BY <1>5 DEF ResyncConfigMaps, Announce, isAddonConfigMap, AskedInv, CMTypeOK
<1>6. CASE ListAddons
  BY <1>6 DEF ListAddons, Listed, AskedInv, CMTypeOK
<1>7. CASE DeleteAddonFails
  BY <1>7 DEF DeleteAddonFails, ReturnDeleteError, AskedInv, CMTypeOK
<1>8. ASSUME NEW a \in Addons, DeleteAddon(a) PROVE AskedInv'
  BY <1>8 DEF DeleteAddon, ReturnDeleteError, AskedInv, CMTypeOK
<1>. QED
  BY <1>1, <1>2, <1>3, <1>4, <1>5, <1>6, <1>7, <1>8
     DEF OperatorNext, CMNext, CMWorker

LEMMA OperatorInvInit == OperatorInit => OperatorInv
<1>1. Init => RefinementInv
  BY RefinementInvInit
<1>2. CMInit => AskedInv
  <2>. SUFFICES ASSUME CMInit PROVE AskedInv
    OBVIOUS
  <2>1. /\ configMaps \subseteq ConfigMaps /\ request = FALSE /\ todo = {}
        /\ asked \in BOOLEAN
    BY ConfigMapAssumption DEF CMInit
  <2>2. AddonID \in configMaps => asked
    BY Zenon DEF CMInit
  <2>. QED  BY <2>1, <2>2 DEF AskedInv, CMTypeOK
<1>. QED  BY <1>1, <1>2 DEF OperatorInit, OperatorInv

LEMMA OperatorInvStep ==
    OperatorInv /\ [OperatorNext]_operatorVars
      => OperatorInv' /\ [Lifecycle!Next]_Lifecycle!vars
<1>. SUFFICES ASSUME OperatorInv, [OperatorNext]_operatorVars
              PROVE  OperatorInv' /\ [Lifecycle!Next]_Lifecycle!vars
  OBVIOUS
<1>1. RefinementInv /\ AskedInv /\ CMTypeOK
  BY DEF OperatorInv, AskedInv
<1>2. CASE OperatorNext
  <2>1. AskedInv'
    BY <1>1, <1>2, AskedStep
  <2>2. CASE Next
    <3>1. RefinementInv'
      BY <1>1, <2>2, RefinementInvStep
    <3>2. [Lifecycle!Next]_Lifecycle!vars
      BY <1>1, <2>2, <3>1, StepMaps DEF RefinementInv
    <3>. QED  BY <2>1, <3>1, <3>2 DEF OperatorInv
  <2>3. CASE CMNext
    BY <1>1, <2>1, <2>3, ConfigMapStep DEF OperatorInv
  <2>. QED  BY <1>2, <2>2, <2>3 DEF OperatorNext
<1>3. CASE UNCHANGED operatorVars
  <2>1. UNCHANGED vars /\ UNCHANGED cmVars
    BY <1>3 DEF operatorVars
  <2>2. RefinementInv'
    BY <1>1, <2>1, RefinementInvStep
  <2>3. AskedInv'
    BY <1>1, <2>1 DEF cmVars, AskedInv, CMTypeOK
  <2>4. [Lifecycle!Next]_Lifecycle!vars
    BY <2>1, UnchangedStep DEF vars
  <2>. QED  BY <2>2, <2>3, <2>4 DEF OperatorInv
<1>. QED  BY <1>2, <1>3

\* Only a user, or the ConfigMap controller, deletes a live GPUAddon.
LEMMA LiveUntilEdit ==
    ASSUME RefinementInv, Next, NEW a \in Addons,
           cr[a].st = "live", cr'[a].st # "live"
    PROVE  edits' > edits
<1>1. /\ \A b \in Addons : cr[b] \in AddonResource
      /\ cr \in [Addons -> AddonResource] /\ edits \in Nat
      /\ pass.mode # "idle" => pass.req \in Addons
  BY ControllerAssumption DEF RefinementInv, TypeInv, TypeOK, PassHasAddon, Idle
<1>2. cr' # cr
  OBVIOUS
<1>3. ~PassStep
  <2>1. ~RegisterFinalizer
    <3>1. SUFFICES ASSUME RegisterFinalizer,
                          WriteAddon(pass.req, WithFinalizer(cr[pass.req]))
                   PROVE  FALSE
      BY <1>2 DEF RegisterFinalizer
    <3>2. pass.req \in Addons
      BY <1>1, <3>1 DEF RegisterFinalizer, At
    <3>3. WithFinalizer(cr[pass.req]).st = cr[pass.req].st
      BY <1>1, <3>2 DEF WithFinalizer, AddonResource
    <3>. QED  BY <1>1, <3>1, <3>2, <3>3 DEF WriteAddon
  <2>2. ~PatchStatus
    <3>1. SUFFICES ASSUME PatchStatus PROVE FALSE
      OBVIOUS
    <3>2. pass.req \in Addons
      BY <1>1, <3>1 DEF PatchStatus, At
    <3>. DEFINE phase == PhaseOf(pass.conds, pass.failed, pass.loc.phase)
                status(restamped) ==
                  [cr[pass.req] EXCEPT
                     !.phase = IF phase # pass.loc.phase THEN phase ELSE @,
                     !.conds = IF pass.conds # pass.loc.conds \/ restamped
                               THEN pass.conds ELSE @]
    <3>3. PICK restamped \in BOOLEAN : WriteAddon(pass.req, status(restamped))
      BY <1>2, <3>1 DEF PatchStatus, Restamped
    <3>4. status(restamped).st = cr[pass.req].st
      BY <1>1, <3>2 DEF AddonResource
    <3>. HIDE DEF status
    <3>. QED  BY <1>1, <3>2, <3>3, <3>4 DEF WriteAddon
  <2>3. ~RemoveFinalizer
    <3>1. SUFFICES ASSUME RemoveFinalizer, ~pass.stale,
                          WriteAddon(pass.req, NoResource)
                   PROVE  FALSE
      BY <1>2 DEF RemoveFinalizer
    <3>2. cr[pass.req].st = "terminating" /\ pass.req \in Addons
      BY <1>1, <3>1 DEF RemoveFinalizer, At, RefinementInv, RemovalJustified, Safe,
         ResourcesOK, CopiesCurrent, Idle
    <3>. QED  BY <1>1, <3>1, <3>2 DEF WriteAddon
  <2>. QED
    BY <1>2, <2>1, <2>2, <2>3 DEF PassStep, ReconcileOperand,
       ReconcileSubscription, SubscriptionPanics, EnterConsolePlugin,
       PatchClusterConsole, DisableOperand, RemoveOperand, RemoveGpuCsv,
       RemoveSelfCsv, api
<1>4. ~Jumpstart
  BY <1>1, <1>2, ControllerAssumption DEF Jumpstart, WriteAddon, Present
<1>5. ~(Sync \/ Cluster \/ StartManager \/ Crash \/ OperatorRemoved
          \/ \E r : Dequeue(r) \/ GetFails(r))
  BY <1>2 DEF Sync, SyncAddon, SyncObject, SyncConsole, Resync, Cluster,
     PlanInstall, InstallGpuOperator, UpgradeCompletes, FinishTermination,
     StartManager, Crash, OperatorRemoved, Dequeue, NothingToDo, StartReconcile,
     StartRemoval, Take, GetFails, api
<1>6. Users
  BY <1>3, <1>4, <1>5 DEF Next, Worker, Dequeue, Process
<1>7. Edit
  BY <1>6 DEF Users, UserCreates, UserDeletes, UserToggles, UserTouches, EditAddon,
     Drift, ExternalDelete, EditObject, OtherPluginAdded, UpgradeStarts
<1>. QED  BY <1>1, <1>7 DEF Edit

-----------------------------------------------------------------------------
(* At rest                                                                  *)

\* The ConfigMap controller and its users change nothing but GPUAddons, and
\* each of those with an event under way for it.
Audible ==
    /\ UNCHANGED <<obj, seen, console, consoleSeen, news, history, queue,
                   installed, pod>>
    /\ stale \subseteq stale'
    /\ \A a \in Addons : a \notin stale' => cr'[a] = cr[a]
    /\ pass'.mode = pass.mode /\ pass'.req = pass.req /\ pass'.step = pass.step
    /\ pass'.loc = pass.loc /\ pass'.conds = pass.conds
    /\ pass'.failed = pass.failed
    /\ pass'.stale => pass.stale \/ pass.req \in stale'

LEMMA ConfigMapStepsAudible ==
    ASSUME TypeInv, CMNext
    PROVE  Audible
<1>1. CASE UNCHANGED <<cr, stale, obj, seen, console, consoleSeen, news, history,
                       queue, pass, installed, pod>>
  BY <1>1 DEF Audible
<1>2. ASSUME NEW a \in Addons, DeleteAddon(a), cr[a].st = "live" PROVE Audible
  <2>1. /\ UNCHANGED <<obj, seen, console, consoleSeen, news, history, queue,
                       installed, pod>>
        /\ WriteAddon(a, DeletionOf(cr[a])) /\ pass' = PassSees(a)
    BY <1>2 DEF DeleteAddon, Grant, ChangeAddon, objects, olm, caches
  <2>2. \A b \in Addons : b \notin stale' => cr'[b] = cr[b]
    BY <2>1 DEF WriteAddon, TypeInv, TypeOK
  <2>3. stale' = stale \cup {a}
    BY <2>1 DEF WriteAddon
  <2>4. pass' = [pass EXCEPT !.stale = (pass.stale \/ pass.req = a)]
    BY <2>1 DEF PassSees
  <2>. QED  BY <2>1, <2>2, <2>3, <2>4 DEF Audible, TypeInv, TypeOK, PassType
<1>3. ASSUME NEW a \in Addons, DeleteAddon(a), cr[a].st # "live" PROVE Audible
  BY <1>1, <1>3 DEF DeleteAddon, Grant, objects, olm, caches
<1>. QED
  BY <1>1, <1>2, <1>3 DEF CMNext, CMWorker, ListAddons, DeleteAddonFails,
     ResyncConfigMaps, CreateConfigMap, TouchConfigMap, RemoveConfigMap,
     EditConfigMap, Edit, addonVars, api, objects, olm, caches

LEMMA AudibleStep ==
    ASSUME RestInv, Audible
    PROVE  RestInv' /\ (SteadyInv => SteadyInv')
<1>1. /\ \A a : Installs(a)' <=> Installs(a)
      /\ \A a, k : Before(a, k)' <=> Before(a, k)
      /\ \A a : HasTheFloor(a)' <=> HasTheFloor(a)
  BY DEF Audible, Installs, Before, HasTheFloor
<1>2. \A a : Awake(a) => Awake(a)'
  BY <1>1 DEF Audible, Awake
<1>3. \A a \in Asleep' : a \in Asleep /\ cr'[a] = cr[a]
  BY <1>2 DEF Asleep, Awake, Audible
<1>4. EventsKept'
  BY DEF Audible, RestInv, EventsKept
<1>5. PassInformed'
  BY <1>2 DEF Audible, RestInv, PassInformed, Idle, Awake
<1>6. PassReports'
  BY DEF Audible, RestInv, PassReports
<1>7. ASSUME NEW a \in Asleep'
      PROVE  StatusSettled(a)' /\ OwnersSettled(a)' /\ GaugeSettled(a)' /\ HasTheFloor(a)'
  BY <1>1, <1>3
     DEF Audible, RestInv, StatusSettled, ReadyStatus, OwnersSettled, GaugeSettled
<1>8. RestInv'
  BY <1>4, <1>5, <1>6, <1>7 DEF RestInv
<1>9. ASSUME SteadyInv, NEW a \in Asleep'
      PROVE  OperandsSettled(a)' /\ DisabledSettled(a)'
  <2>1. /\ OperandsSettled(a) /\ DisabledSettled(a)
        /\ cr'[a] = cr[a] /\ history' = history /\ obj' = obj /\ console' = console
    BY <1>3, <1>9 DEF SteadyInv, Audible
  <2>2. /\ OwnedFor(a)' = OwnedFor(a) /\ SupportsPlugin' = SupportsPlugin
        /\ \A k : Desired(k)' = Desired(k)
    BY <2>1 DEF OwnedFor, SupportsPlugin, Desired, OpenShift
  <2>. QED
    BY <1>1, <2>1, <2>2
       DEF OperandsSettled, DisabledSettled, Audible
<1>. QED  BY <1>8, <1>9 DEF SteadyInv

-----------------------------------------------------------------------------
(* The theorems                                                             *)

\* The two controllers in one process still implement the life the add-on
\* promises.
THEOREM OperatorImplementsLifecycle == OperatorSpec => ImplementsLifecycle
<1>1. OperatorInv => RefinementInv
  BY DEF OperatorInv
<1>2. OperatorInit => Lifecycle!Init
  BY InitMaps DEF OperatorInit
<1>. QED
  BY <1>1, <1>2, OperatorInvInit, OperatorInvStep, PTL
     DEF OperatorSpec, ImplementsLifecycle, Lifecycle!Spec

\* What stale copies still guarantee about finalizers, and what a removal pass
\* has established, holds in the composition: nothing is orphaned there, and
\* no pass works for a GPUAddon that can vanish under it.
THEOREM OperatorInvariant == OperatorSpec => []IInv
<1>1. OperatorInv => IInv
  BY SafeIsIInv DEF OperatorInv, RefinementInv
<1>. QED  BY <1>1, OperatorInvInit, OperatorInvStep, PTL DEF OperatorSpec

\* Types of the ConfigMap controller.
THEOREM OperatorTypeCorrect == OperatorSpec => []CMTypeOK
<1>1. OperatorInv => CMTypeOK
  BY DEF OperatorInv, AskedInv
<1>. QED  BY <1>1, OperatorInvInit, OperatorInvStep, PTL DEF OperatorSpec

\* No GPUAddon is deleted by the operator itself unless the ConfigMap of the
\* add-on was created: no other ConfigMap, crash or repeated event does.
THEOREM OperatorDeletesOnlyIfAsked == OperatorSpec => DeletedOnlyIfAsked
<1>. DEFINE Asked == \A a \in Addons :
                       cr[a].st = "live" /\ cr'[a].st # "live"
                         => edits' > edits \/ asked
<1>1. OperatorInv /\ [OperatorNext]_operatorVars => [Asked]_operatorVars
  <2>. SUFFICES ASSUME OperatorInv, OperatorNext, NEW a \in Addons,
                       cr[a].st = "live", cr'[a].st # "live"
                PROVE  edits' > edits \/ asked
    OBVIOUS
  <2>1. CASE Next
    BY <2>1, LiveUntilEdit DEF OperatorInv
  <2>2. CASE CMNext
    <3>1. ASSUME NEW b \in Addons, DeleteAddon(b) PROVE asked
      BY <3>1 DEF DeleteAddon, OperatorInv, AskedInv
    <3>2. ASSUME NEW new, EditConfigMap(new) PROVE FALSE
      BY <3>2 DEF EditConfigMap
    <3>. QED
      BY <2>2, <3>1, <3>2 DEF CMNext, CMWorker, ResyncConfigMaps, ListAddons,
         DeleteAddonFails, CreateConfigMap, TouchConfigMap, RemoveConfigMap,
         addonVars, api
  <2>. QED  BY <2>1, <2>2 DEF OperatorNext
<1>2. [][Asked]_operatorVars => DeletedOnlyIfAsked
  BY PTL DEF DeletedOnlyIfAsked
<1>. QED  BY <1>1, <1>2, OperatorInvInit, OperatorInvStep, PTL DEF OperatorSpec

\* The requests of the ConfigMap controller survive failing calls, late copies
\* and the death of the process: one is dropped only when there is nothing to
\* delete or a deletion was accepted.
THEOREM OperatorKeepsRequests == OperatorSpec => RequestKept
<1>. DEFINE Kept == Dropped => NothingToDelete \/ DeletionAccepted
<1>1. OperatorInv /\ [OperatorNext]_operatorVars => [Kept]_operatorVars
  <2>. SUFFICES ASSUME OperatorInv, OperatorNext, Dropped
                PROVE  NothingToDelete \/ DeletionAccepted
    OBVIOUS
  <2>1. /\ AddonID \in configMaps' /\ Wanted
        /\ pod' = "running" /\ ~request' /\ todo' = {}
    BY DEF Dropped, Wanted
  <2>2. CASE FollowProcess
    BY <2>1, <2>2 DEF FollowProcess, Wanted, isAddonConfigMap
  <2>3. CASE ListAddons
    BY <2>1, <2>3 DEF ListAddons, Listed, NothingToDelete
  <2>4. ASSUME NEW a \in Addons, DeleteAddon(a) PROVE DeletionAccepted
    <3>1. /\ a \in todo /\ Present(cr[a]) /\ Grant(a)
      BY <2>1, <2>4 DEF DeleteAddon, ReturnDeleteError
    <3>2. cr'[a].st # "live"
      <4>1. cr \in [Addons -> AddonResource]
        BY DEF OperatorInv, RefinementInv, TypeInv, TypeOK
      <4>2. DeletionOf(cr[a]).st # "live"
        BY <4>1 DEF DeletionOf, NoResource, AddonResource
      <4>. QED  BY <3>1, <4>1, <4>2 DEF Grant, ChangeAddon, WriteAddon
    <3>. QED  BY <3>1, <3>2 DEF DeletionAccepted
  <2>5. CASE DeleteAddonFails
    BY <2>1, <2>5 DEF DeleteAddonFails, ReturnDeleteError
  <2>6. CASE \/ ResyncConfigMaps
            \/ \E n \in ConfigMaps :
                 CreateConfigMap(n) \/ TouchConfigMap(n) \/ RemoveConfigMap(n)
    BY <2>1, <2>6 DEF ResyncConfigMaps, CreateConfigMap, TouchConfigMap,
       RemoveConfigMap, EditConfigMap, Edit, Announce, addonVars, Wanted
  <2>. QED
    BY <2>2, <2>3, <2>4, <2>5, <2>6 DEF OperatorNext, CMNext, CMWorker
<1>2. [][Kept]_operatorVars => RequestKept
  BY PTL DEF RequestKept
<1>. QED  BY <1>1, <1>2, OperatorInvInit, OperatorInvStep, PTL DEF OperatorSpec

LEMMA OperatorRests ==
    OperatorInv /\ RestInv /\ [OperatorNext]_operatorVars => RestInv'
<1>1. ASSUME OperatorInv, RestInv, [Next]_vars PROVE RestInv'
  BY <1>1, RestStep DEF OperatorInv, RefinementInv
<1>2. ASSUME OperatorInv, RestInv, CMNext PROVE RestInv'
  BY <1>2, ConfigMapStepsAudible, AudibleStep DEF OperatorInv, RefinementInv
<1>. QED  BY <1>1, <1>2 DEF OperatorNext, operatorVars

LEMMA OperatorSteady ==
    OperatorInv /\ SteadyInv /\ [OperatorNext]_operatorVars /\ UNCHANGED OpenShift
      => SteadyInv'
<1>1. ASSUME OperatorInv, SteadyInv, [Next]_vars, UNCHANGED OpenShift PROVE SteadyInv'
  BY <1>1, SteadyStep DEF OperatorInv, RefinementInv
<1>2. ASSUME OperatorInv, SteadyInv, CMNext PROVE SteadyInv'
  BY <1>2, ConfigMapStepsAudible, AudibleStep DEF OperatorInv, RefinementInv, SteadyInv
<1>. QED  BY <1>1, <1>2 DEF OperatorNext, operatorVars

\* No wake-up is lost in the operator as a whole either: what the ConfigMap
\* controller does to a GPUAddon, the GPUAddon controller hears of.
THEOREM OperatorStatusTellsOutcome == OperatorSpec => []StatusAtRest
<1>1. RestInv => StatusAtRest
  BY RestIsAsleep DEF StatusAtRest, RestInv, StatusSettled
<1>2. OperatorInit => RestInv
  BY RestInit DEF OperatorInit
<1>. QED
  BY <1>1, <1>2, OperatorInvInit, OperatorInvStep, OperatorRests, PTL DEF OperatorSpec

\* As long as the cluster stays on its version, the operator rests only with
\* its operands as asked for and the ones of a disabled plugin gone.
THEOREM OperatorSteadyInvariant == OperatorSpec /\ NoUpgrade => []SteadyInv
<1>1. OperatorInit => SteadyInv
  BY SteadyInit DEF OperatorInit
<1>2. NoUpgrade => [][UNCHANGED OpenShift]_vars
  BY DEF NoUpgrade
<1>3. OperatorInv /\ SteadyInv /\ [OperatorNext]_operatorVars
        /\ [UNCHANGED OpenShift]_vars => SteadyInv'
  <2>1. ASSUME UNCHANGED vars PROVE UNCHANGED OpenShift
    BY <2>1 DEF vars, OpenShift
  <2>. QED  BY <2>1, OperatorSteady
<1>. QED
  BY <1>1, <1>2, <1>3, OperatorInvInit, OperatorInvStep, PTL DEF OperatorSpec

\* So at rest it has restored what others edited or deleted, and removed what
\* is left of a disabled plugin.
THEOREM OperatorOperandsRestored ==
    OperatorSpec /\ NoUpgrade
      => [](OwnedOperandsRestored /\ DisabledPluginGone)
  BY SteadyAtRest, OperatorInvariant, OperatorSteadyInvariant, PTL

\* removeSelfCsv alone deletes the add-on's CSV, and only when every operand
\* is gone: the ConfigMap controller touches no object.
THEOREM OperatorCsvGoesLast == OperatorSpec => SelfCsvLast
<1>. DEFINE Last == obj["AddonCsv"].st = "live" /\ obj'["AddonCsv"].st # "live"
                      => \A k \in Awaited : ~Present(obj[k])
<1>1. OperatorInv /\ [OperatorNext]_operatorVars => [Last]_vars
  <2>1. ASSUME OperatorInv, Next PROVE Last
    BY <2>1, SelfCsvStep DEF OperatorInv, RefinementInv
  <2>2. ASSUME OperatorInv, CMNext PROVE Last
    BY <2>2, ConfigMapStepsAudible DEF OperatorInv, RefinementInv, Audible
  <2>. HIDE DEF Last
  <2>. QED  BY <2>1, <2>2 DEF OperatorNext, operatorVars
<1>2. [][Last]_vars => SelfCsvLast
  BY PTL DEF SelfCsvLast
<1>. QED  BY <1>1, <1>2, OperatorInvInit, OperatorInvStep, PTL DEF OperatorSpec
=============================================================================
