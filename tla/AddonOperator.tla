--------------------------- MODULE AddonOperator ---------------------------
(***************************************************************************)
(* The GPUAddon and the ConfigMap controller in one process: the ConfigMap *)
(* controller deletes the GPUAddon whose deletion the GPUAddon controller  *)
(* then carries out, each from its own view of the cache.                  *)
(***************************************************************************)
EXTENDS ConfigMapController, LifecycleRefinement

operatorVars == <<vars, cmVars>>

OperatorInit == Init /\ CMInit

OperatorNext == (Next /\ FollowProcess) \/ CMNext

OperatorSpec == OperatorInit /\ [][OperatorNext]_operatorVars

\* The worker of the ConfigMap controller goes on, and a dead process is
\* restarted: nothing is asked of the other controller.
FairOperatorSpec ==
    /\ OperatorSpec /\ WF_vars(Jumpstart) /\ WF_vars(StartManager)
    /\ WF_operatorVars(CMWorker)

-----------------------------------------------------------------------------

CMTypeOK ==
    /\ configMaps \subseteq ConfigMaps
    /\ request \in BOOLEAN /\ asked \in BOOLEAN
    /\ todo \subseteq Addons

\* The operator deletes a GPUAddon on its own only after the ConfigMap of the
\* add-on was created, although the namespace has other ConfigMaps, one of
\* them written by the operator itself (configMapFilter).
DeletedOnlyIfAsked ==
    [][\A a \in Addons :
         cr[a].st = "live" /\ cr'[a].st # "live" => edits' > edits \/ asked]_operatorVars

\* The removal of the add-on is asked for, or will be when the process starts
\* while the ConfigMap is there.
Wanted == pod # "running" \/ request \/ todo # {}

Dropped == AddonID \in configMaps' /\ Wanted /\ ~Wanted'

NothingToDelete == \A a \in Addons : ~Present(crSeen[a])

DeletionAccepted == \E a \in todo : Present(cr[a]) /\ cr'[a].st # "live"

\* As long as the ConfigMap of the add-on is there, a request for its removal
\* is not dropped by a failing call, a NotFound for a GPUAddon the cache still
\* had, or a death of the process between the List and the Delete: only with
\* a list that was empty, or a GPUAddon of the list that is deleted by then.
RequestKept == [][Dropped => NothingToDelete \/ DeletionAccepted]_operatorVars

\* A request that waits when a GPUAddon is known is honoured, whatever
\* fails, crashes or comes late meanwhile, even if the GPUAddon controller
\* never gets to work: the GPUAddon is deleted, unless the ConfigMap is
\* withdrawn or the add-on gone by then.
RequestHonoured ==
    \A a \in Addons :
        request /\ crSeen[a].st = "live"
        ~> \/ cr[a].st # "live"
           \/ AddonID \notin configMaps \/ ~Present(obj["AddonCsv"])
=============================================================================
