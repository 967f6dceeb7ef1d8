---------------------------- MODULE AddonStatus ----------------------------
(***************************************************************************)
(* The status of a GPUAddon: the conditions the resource reconcilers       *)
(* return and the phase patchStatus derives from them.  A condition is     *)
(* reduced to its type and status; reasons, messages and times are left    *)
(* out.                                                                    *)
(***************************************************************************)

ConditionTypes == {"NodeFeatureDiscoveryDeployed", "SubscriptionDeployed",
                   "ClusterPolicyDeployed", "ConsolePluginDeployed"}

Condition == [type: ConditionTypes, status: {"True", "False"}]

Phases == {"", "Failed", "Idle", "Installing", "Ready", "Updating",
           "Uninstalling"}

\* Mutant: a reconciler reports under a type nobody declared.
ConditionOfMisnamed(k) ==
    IF k = "ClusterPolicy" THEN "PolicyDeployed" ELSE "NodeFeatureDiscoveryDeployed"

\* The condition type each step of a pass reports under.
ConditionOf(k) ==
    CASE k = "NFD"           -> "NodeFeatureDiscoveryDeployed"
      [] k = "Subscription"  -> "SubscriptionDeployed"
      [] k = "ClusterPolicy" -> "ClusterPolicyDeployed"
      [] OTHER               -> "ConsolePluginDeployed"

Success(k) == [type |-> ConditionOf(k), status |-> "True"]

\* getDeployedConditionFailed of the console plugin sets ConditionTrue.
Failure(k) ==
    [type   |-> ConditionOf(k),
     status |-> IF ConditionOf(k) = "ConsolePluginDeployed" THEN "True"
                                                            ELSE "False"]

\* strings.HasSuffix("Update", t): t is a suffix of the literal, not the
\* other way round.
UpdateHasSuffix(t) == t \in {"", "e", "te", "ate", "date", "pdate", "Update"}

\* The phase patchStatus computes; old is the phase of the copy it was given.
PhaseOf(conds, failed, old) ==
    IF failed THEN "Failed"
    ELSE IF \E c \in conds : UpdateHasSuffix(c.type) THEN "Updating"
    ELSE IF conds = {} THEN old
    ELSE IF \E c \in conds : c.status = "False" THEN "Installing"
    ELSE "Ready"
=============================================================================
