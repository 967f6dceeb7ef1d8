----------------------------- MODULE EntryProofs -----------------------------
(***************************************************************************)
(* The entry of the add-on in the plugin list of the Console: EntryInv is  *)
(* inductive relative to IInv and RestInv as long as no upgrade is         *)
(* completed, whatever copies other operators replace the list from.       *)
(***************************************************************************)
EXTENDS ConsoleEntry, RestProofs

\* The cached list is kept, or brought up to date.
LEMMA CopySteps ==
    ASSUME [Next]_vars
    PROVE  consoleSeen' = consoleSeen \/ consoleSeen' = console'
<1>1. CASE Sync
  BY <1>1 DEF Sync, SyncAddon, SyncObject, SyncConsole, Resync, api, caches
<1>2. CASE PassStep
  BY <1>2 DEF PassStep, RegisterFinalizer, ReconcileOperand,
     ReconcileSubscription, SubscriptionPanics, EnterConsolePlugin,
     PatchClusterConsole, PatchStatus, DisableOperand, RemoveOperand, RemoveGpuCsv,
     RemoveSelfCsv, RemoveFinalizer, caches
<1>3. ASSUME NEW r, Dequeue(r) \/ GetFails(r) PROVE UNCHANGED consoleSeen
  BY <1>3 DEF Dequeue, NothingToDo, StartReconcile, StartRemoval, Take, GetFails,
     caches
<1>4. CASE Process
  BY <1>4 DEF Process, Jumpstart, StartManager, Crash, OperatorRemoved, caches
<1>5. CASE Cluster
  BY <1>5 DEF Cluster, PlanInstall, InstallGpuOperator, UpgradeCompletes,
     FinishTermination, caches
<1>6. CASE Users
  BY <1>6 DEF Users, UserCreates, UserDeletes, UserToggles, UserTouches, EditAddon,
     Drift, ExternalDelete, EditObject, OtherPluginAdded, UpgradeStarts, Edit, caches
<1>7. CASE UNCHANGED vars
  BY <1>7 DEF vars
<1>. QED
  BY <1>1, <1>2, <1>3, <1>4, <1>5, <1>6, <1>7 DEF Next, Worker, Dequeue

LEMMA EntryStepIsStep == [EntryNext]_entryVars => [Next]_vars
  BY DEF EntryNext, entryVars

\* The entry is not lost without a trace, but where a pass finds it missing.
LEMMA LossNoted ==
    ASSUME [EntryNext]_entryVars, OurPlugin \in console \/ overlooked
    PROVE  OurPlugin \in console' \/ overlooked' \/ MeetsLoss
<1>1. CASE EntryNext
  BY <1>1 DEF EntryNext
<1>2. CASE UNCHANGED entryVars
  BY <1>2 DEF entryVars, vars
<1>. QED  BY <1>1, <1>2

LEMMA EntryKeptStep ==
    ASSUME EntryKept, [EntryNext]_entryVars
    PROVE  EntryKept'
<1>. SUFFICES ASSUME OurPlugin \in consoleSeen'
              PROVE  OurPlugin \in console' \/ overlooked'
  BY DEF EntryKept
<1>1. consoleSeen' = consoleSeen \/ consoleSeen' = console'
  BY EntryStepIsStep, CopySteps
<1>2. CASE consoleSeen' = consoleSeen
  BY <1>2, LossNoted DEF EntryKept, MeetsLoss
<1>. QED  BY <1>1, <1>2

\* The pass of a GPUAddon that stays asleep comes to the Console and leaves the
\* entry there.
LEMMA OwnPassEnters ==
    ASSUME TypeInv, Safe, RestInv, EntryInv, [EntryNext]_entryVars,
           UNCHANGED OpenShift, PassStep, NEW a \in Addons, Undisturbed(a), Installs(a)
    PROVE  EntrySettled(a)'
<1>1. /\ cr'[a] = cr[a] /\ SupportsPlugin' = SupportsPlugin /\ pass \in PassType
      /\ pass.req = a /\ pass.loc = cr[a] /\ EntrySettled(a) /\ PassReports
  BY AsleepKnown, WantsKept DEF Undisturbed, EntryInv, RestInv, TypeInv, TypeOK, Installs
<1>. SUFFICES ASSUME cr[a].plugin, SupportsPlugin
              PROVE  OurPlugin \in console' \/ overlooked' \/ Before(a, "Console")'
  BY <1>1 DEF EntrySettled
<1>2. OurPlugin \in console \/ overlooked \/ Before(a, "Console")
  BY <1>1 DEF EntrySettled
<1>3. pass.mode = "reconcile"
  BY <1>1 DEF PassReports, Installs
<1>4. ASSUME NEW k \in Operands, Creates(k) PROVE Before(a, "Console")'
  <2>1. /\ pass.step = k /\ pass'.mode = "reconcile" /\ pass'.req = a
        /\ Position[pass'.step] = Position[k] + 1
    BY <1>1, <1>3, <1>4, NextPosition
       DEF Creates, At, AfterOperand, Goto, Report, PassType
  <2>. QED  BY <1>4, <2>1, PositionsAre DEF Before, Operands
<1>5. CASE Enters
  BY <1>1, <1>3, <1>5, PositionsAre DEF Enters, At, Before, PassType
<1>6. CASE Lists
  <2>1. CASE OurPlugin \in consoleSeen
    BY <2>1, LossNoted DEF EntryInv, EntryKept, MeetsLoss
  <2>2. CASE OurPlugin \notin consoleSeen
    BY <1>6, <2>2 DEF Lists, PatchedPlugins
  <2>. QED  BY <2>1, <2>2
<1>7. CASE Concludes(a)
  <2>1. ~Before(a, "Console") /\ ~MeetsLoss
    BY <1>7, PositionsAre DEF Concludes, At, Before, MeetsLoss, PatchClusterConsole
  <2>. QED  BY <1>2, <2>1, LossNoted
<1>8. ASSUME NEW k \in PluginOperands, Disables(k) PROVE FALSE
  BY <1>3, <1>8 DEF Disables, At
<1>. QED  BY <1>1, <1>4, <1>5, <1>6, <1>7, <1>8, OwnPass

LEMMA EntryStep ==
    ASSUME TypeInv, Safe, RestInv, EntryInv, [EntryNext]_entryVars, UNCHANGED OpenShift
    PROVE  EntryInv'
<1>1. EntryKept' /\ [Next]_vars
  BY EntryKeptStep, EntryStepIsStep DEF EntryInv
<1>2. ASSUME NEW a \in Asleep' PROVE EntrySettled(a)'
  <2>1. a \in Addons
    BY DEF Asleep
  <2>2. CASE StartReconcile(a)
    BY <2>1, <2>2, StartSettles, PositionsAre DEF EntrySettled
  <2>3. CASE Undisturbed(a)
    <3>1. /\ pod = "running" /\ pod' = "running" /\ cr'[a] = cr[a]
          /\ SupportsPlugin' = SupportsPlugin /\ EntrySettled(a) /\ HasTheFloor(a)
      BY <2>1, <2>3, WantsKept DEF Undisturbed, EntryInv, RestInv
    <3>2. CASE PassStep /\ Installs(a)
      BY <2>1, <2>3, <3>2, OwnPassEnters
    <3>3. ASSUME ~(PassStep /\ Installs(a)),
                 Before(a, "Console") => Before(a, "Console")'
          PROVE  EntrySettled(a)'
      <4>1. ~MeetsLoss
        BY <3>1, <3>3
           DEF MeetsLoss, PassStep, PatchClusterConsole, At, HasTheFloor, Installs
      <4>. QED  BY <3>1, <3>3, <4>1, LossNoted DEF EntrySettled
    <3>4. ASSUME ~Installs(a) PROVE EntrySettled(a)'
      BY <3>3, <3>4 DEF Before, Installs
    <3>5. ASSUME NEW r \in Addons, StartReconcile(r) \/ StartRemoval(r)
          PROVE  ~Installs(a)
      BY <3>5, PassStarts DEF Installs, Idle
    <3>6. CASE SamePass /\ ~PassStep
      BY <3>3, <3>6 DEF SamePass, Before
    <3>. QED  BY <1>1, <3>1, <3>2, <3>4, <3>5, <3>6, OtherSteps
  <2>. QED  BY <1>1, <2>1, <2>2, <2>3, AsleepSteps
<1>. QED  BY <1>1, <1>2 DEF EntryInv

LEMMA EntryStart == EntryInit => Init /\ EntryInv
  BY DEF EntryInit, Init, EntryInv, EntryKept, Asleep

\* The history variable observes the controller and does not hold it up.
LEMMA EntrySpecIsSpec == EntrySpec => Spec
  BY EntryStart, EntryStepIsStep, PTL DEF EntrySpec, Spec

\* A copy of the list that has the entry is wrong only after a loss, and a
\* GPUAddon with no other pass on its way has its entry, or has lost it since.
THEOREM EntryInvariant == EntrySpec /\ NoUpgrade => []EntryInv
<1>1. IInv => TypeInv /\ Safe
  BY SafeIsIInv
<1>2. NoUpgrade => [][UNCHANGED OpenShift]_vars
  BY DEF NoUpgrade
<1>3. IInv /\ RestInv /\ EntryInv /\ [EntryNext]_entryVars /\ [UNCHANGED OpenShift]_vars
        => EntryInv'
  <2>1. ASSUME UNCHANGED vars PROVE UNCHANGED OpenShift
    BY <2>1 DEF vars, OpenShift
  <2>. QED  BY <1>1, <2>1, EntryStep
<1>. QED
  BY <1>2, <1>3, EntryStart, EntrySpecIsSpec, IInvInvariant, RestInvariant, PTL
     DEF EntrySpec

\* At rest an enabled console plugin is in the list of the Console, but for an
\* entry another operator has dropped since the last pass that had to write it.
THEOREM PluginIsRegistered == EntrySpec /\ NoUpgrade => []PluginRegistered
<1>1. EntryInv => PluginRegistered
  BY RestIsAsleep DEF PluginRegistered, EntryInv, EntrySettled
<1>. QED  BY <1>1, EntryInvariant, PTL
=============================================================================
