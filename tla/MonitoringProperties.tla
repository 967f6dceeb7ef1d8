------------------------ MODULE MonitoringProperties ------------------------
(***************************************************************************)
(* What the Monitoring controller should guarantee.                        *)
(***************************************************************************)
EXTENDS MonitoringController

ResourceType == [st: {"absent", "live", "terminating"}, uid: Nat]

StackType == [Kinds -> [st: {"absent", "live"}, owner: Nat,
                        spec: URLs \cup {"none", "desired", "other"}]]

\* Every variable has its type.
TypeOK ==
    /\ mon \in ResourceType /\ monSeen \in ResourceType /\ monNews \in BOOLEAN
    /\ obj \in StackType /\ seen \in StackType /\ news \subseteq Kinds
    /\ secrets \in URLs \cup {NoEntry}
    /\ queue \in BOOLEAN
    /\ pass \in [mode: {"idle", "reconcile", "remove"},
                 step: Kinds \cup {"Secrets", "none"}, uid: Nat,
                 url: URLs \cup {NoEntry}]
    /\ pod \in {"down", "starting", "running"}
    /\ edits \in 0..MaxEdits /\ faults \in 0..MaxFaults
    /\ crashes \in 0..MaxCrashes

\* The alerting configuration never goes out without what the Secret has as its
\* URL, whatever becomes of the Secrets between the check and the write.  Only
\* the presence of the entry is checked: one that is empty goes out as it is.
SnitchHasURL ==
    LET config == obj["AlertmanagerConfig"]
    IN Present(config) => config.spec \in URLs \cup {"other"}

\* An object adopted by a Monitoring resource that was created again is never
\* handed back to its predecessor, for which it would be collected: no pass
\* still works for the predecessor by then, and no late copy of the object
\* counts (SetControllerReference compares names only).
OwnerNeverGoesBack ==
    [][\A k \in Kinds :
         obj'[k].owner # 0 /\ Present(obj[k]) => obj'[k].owner >= obj[k].owner]_vars

-----------------------------------------------------------------------------
(* At rest: the operator runs, nothing is queued, the caches are current,   *)
(* and nothing is being deleted or collected                                *)

AtRest ==
    /\ pod = "running" /\ Idle /\ ~queue
    /\ ~monNews /\ news = {} /\ seen = obj
    /\ mon.st # "terminating" /\ \A k \in Kinds : ~Garbage(k)

\* An object is as the present Monitoring resource asks for.
Settled(k) ==
    /\ Present(obj[k]) /\ obj[k].owner = mon.uid
    /\ obj[k].spec \in (IF k = "AlertmanagerConfig" THEN URLs ELSE {"desired"})

\* No wake-up is lost: at rest every object of the stack is as desired and
\* owned by the present Monitoring resource, also when that was deleted and
\* created again while its predecessor's objects were being collected.
StackRestored ==
    AtRest /\ mon.st = "live" => \A k \in Kinds : Settled(k)

\* At rest without a Monitoring resource nothing of the stack is left, although
\* no Delete call may have been made, but what someone cut loose by dropping the
\* owner reference.  A late cache may then have had the contents restored
\* without it (CreateOrPatch sends what differs from the cached copy).
NothingLeft ==
    AtRest /\ mon.st = "absent" =>
        \A k \in Kinds : Present(obj[k]) =>
            k \in Contended /\ (obj[k].spec = "other" \/ k \in Lagging)

-----------------------------------------------------------------------------
(* Liveness                                                                 *)

\* Metrics do not wait for alerting: all but the alerting configuration comes
\* up, also when a Secret is never completed.
MetricsComeUp ==
    <>[](mon.st = "live" =>
           \A k \in Kinds \ {"AlertmanagerConfig"} :
               Present(obj[k]) /\ obj[k].spec = "desired")

\* Once the Secrets are complete and stay so, alerts go to the URL they have,
\* although no event tells the controller of a change.
AlertsFollowSecrets ==
    <>[](mon.st = "live" /\ secrets # NoEntry =>
           obj["AlertmanagerConfig"].spec = secrets)

-----------------------------------------------------------------------------
(* The inductive invariant behind SnitchHasURL, OwnerNeverGoesBack,         *)
(* StackRestored and NothingLeft                                            *)

\* What the controller works for now, and no object is owned by a later one.
Era == IF Idle THEN monSeen.uid ELSE pass.uid

ErasOK ==
    /\ monSeen.uid <= mon.uid
    /\ pass.uid <= monSeen.uid
    /\ \A k \in Kinds : obj[k].owner <= Era

\* A pass that got past the Secrets has a URL to write.
URLChecked == At("reconcile", "AlertmanagerConfig") => pass.url \in URLs

\* Zero is the UID of nothing.
UIDsPositive ==
    /\ Present(mon) => mon.uid # 0
    /\ Present(monSeen) => monSeen.uid # 0
    /\ ~Idle => pass.uid # 0 /\ pod = "running"

\* A late copy comes with an event under way, unless the change is nothing to
\* the controller: the object had no owner and has none.
CopiesKnown ==
    pod = "running" =>
        /\ monSeen # mon => monNews
        /\ \A k \in Kinds : seen[k] # obj[k] =>
             /\ k \in Lagging
             /\ k \in news \/ (seen[k].owner = 0 /\ obj[k].owner = 0)

\* What a reconciling pass at some step has still to come to.
ToCome ==
    [ConfigMap |-> Kinds, Service |-> Kinds \ {"ConfigMap"},
     Prometheus |-> Kinds \ {"ConfigMap", "Service"},
     Alertmanager |-> {"Alertmanager", "AlertmanagerConfig"},
     Secrets |-> {"AlertmanagerConfig"},
     AlertmanagerConfig |-> {"AlertmanagerConfig"}]

\* An object that is not as it should be is on the way to be: by a request that
\* waits, by an event that becomes one, or by the pass under way.
NoneForgotten ==
    pod = "running" /\ mon.st = "live" =>
        \A k \in Kinds :
            \/ Settled(k)
            \/ queue \/ monNews \/ k \in news
            \/ /\ pass.mode = "reconcile" /\ pass.uid = mon.uid
               /\ k \in ToCome[pass.step]

\* Without an owner an object is never of the controller's making, except that
\* a late cache may have had its contents restored.
LooseByOthers ==
    \A k \in Kinds : Present(obj[k]) /\ obj[k].owner = 0 =>
        k \in Contended /\ (obj[k].spec = "other" \/ k \in Lagging)

IInv ==
    /\ TypeOK /\ ErasOK /\ URLChecked /\ SnitchHasURL
    /\ UIDsPositive /\ CopiesKnown /\ NoneForgotten /\ LooseByOthers
=============================================================================
