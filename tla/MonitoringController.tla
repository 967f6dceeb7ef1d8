------------------------ MODULE MonitoringController ------------------------
(***************************************************************************)
(* The Monitoring controller: MonitoringReconciler and the five objects of *)
(* the monitoring stack it keeps for the one Monitoring resource that main *)
(* creates.  It shares the process with the other controllers and nothing  *)
(* else.                                                                   *)
(*                                                                         *)
(* The Monitoring resource has no finalizer of the operator.  Deleted in   *)
(* the background it is gone at once, and Kubernetes collects the objects  *)
(* whose owner references name its UID; deleted in the foreground it stays *)
(* as terminating until they are gone, and the controller sees it so.  A   *)
(* resource created again has the same name and another UID.               *)
(*                                                                         *)
(* A pass is a sequence of API calls, each one an action.  The caches may  *)
(* be late about what is in Lagging; other copies are always current.      *)
(***************************************************************************)
EXTENDS Naturals

CONSTANTS
    URLs,       \* values the Secret of the dead man's snitch may have
    Contended,  \* kinds whose objects others edit or delete
    Lagging,    \* bound: what the caches may be late about
    MaxEdits,   \* bound: edits by users and other actors
    MaxFaults,  \* bound: failing API calls
    MaxCrashes  \* bound: crashes of the operator process

Kinds == {"ConfigMap", "Service", "Prometheus", "Alertmanager",
          "AlertmanagerConfig"}

\* One of the two Secrets, or the entry that is read from it, is missing.
NoEntry == "none"

ASSUME MonitoringAssumption ==
    /\ NoEntry \notin URLs /\ {"desired", "other"} \cap URLs = {}
    /\ Contended \subseteq Kinds
    /\ Lagging \subseteq Kinds \cup {"Monitoring"}
    /\ MaxEdits \in Nat /\ MaxFaults \in Nat /\ MaxCrashes \in Nat

VARIABLES
    mon,         \* the Monitoring resource; its last UID when absent
    monSeen,     \* its copy in the cache
    monNews,     \* whether it has an undelivered event
    obj,         \* the objects of the stack
    seen,        \* their copies in the cache
    news,        \* the kinds with an undelivered event of ours
    secrets,     \* the URL in the Secrets of PagerDuty and of the snitch
    queue,       \* the request of the Monitoring waits for the worker
    pass,        \* the Reconcile call the worker is in
    pod,         \* the operator process
    edits, faults, crashes

resource == <<mon, monSeen, monNews>>
stack == <<obj, seen, news>>
bounds == <<edits, faults, crashes>>
vars == <<resource, stack, secrets, queue, pass, pod, bounds>>

-----------------------------------------------------------------------------

Absent == [st |-> "absent", owner |-> 0, spec |-> "none"]

Present(o) == o.st # "absent"

IdlePass == [mode |-> "idle", step |-> "none", uid |-> 0, url |-> NoEntry]

Idle == pass.mode = "idle"

At(mode, step) == pass.mode = mode /\ pass.step = step

\* Mutant: alerting is configured before the objects that do without it.
AfterSecretsFirst ==
    [ConfigMap |-> "Secrets", AlertmanagerConfig |-> "Service",
     Service |-> "Prometheus", Prometheus |-> "Alertmanager",
     Alertmanager |-> "end"]

\* The order of Reconcile; the Secrets are read before the AlertmanagerConfig
\* that depends on them is written.
After == [ConfigMap |-> "Service", Service |-> "Prometheus",
          Prometheus |-> "Alertmanager", Alertmanager |-> "Secrets",
          AlertmanagerConfig |-> "end"]

\* The order of removeOwnedResources.
AfterRemoved ==
    [AlertmanagerConfig |-> "Alertmanager", Alertmanager |-> "Prometheus",
     Prometheus |-> "Service", Service |-> "ConfigMap", ConfigMap |-> "end"]

Goto(step) ==
    pass' = IF step = "end" THEN IdlePass ELSE [pass EXCEPT !.step = step]

Fault == faults < MaxFaults /\ faults' = faults + 1
NoFault == UNCHANGED faults

\* Mutant: Owns is not called for the alerting configuration.
OwnsKindsWithoutConfig == Kinds \ {"AlertmanagerConfig"}

\* The kinds given to Owns, as far as the stack has objects of them.
OwnsKinds == Kinds

\* An event makes a request if the object before or after is ours.  Requests
\* name the owner, which has one name whatever its UID.
Wakes(k, new) ==
    k \in OwnsKinds /\ obj[k] # new[k] /\ {obj[k].owner, new[k].owner} # {0}

\* The objects change: what the cache is prompt about is seen at once.
Write(new, retry) ==
    /\ obj' = new
    /\ IF pod = "running"
       THEN /\ seen' = [k \in Kinds |-> IF k \in Lagging THEN seen[k] ELSE new[k]]
            /\ news' = news \cup {k \in Lagging \cap Kinds : Wakes(k, new)}
            /\ queue' = (queue \/ retry \/ \E k \in Kinds \ Lagging : Wakes(k, new))
       ELSE UNCHANGED <<seen, news>> /\ queue' = (queue \/ retry)

\* The same for the Monitoring resource.
WriteMonitoring(new) ==
    /\ mon' = new
    /\ IF pod # "running" THEN UNCHANGED <<monSeen, monNews, queue>>
       ELSE IF "Monitoring" \in Lagging
       THEN monNews' = TRUE /\ UNCHANGED <<monSeen, queue>>
       ELSE monSeen' = new /\ queue' = TRUE /\ UNCHANGED monNews

Init ==
    /\ mon = [st |-> "absent", uid |-> 0] /\ monSeen = mon /\ monNews = FALSE
    /\ obj = [k \in Kinds |-> Absent] /\ seen = obj /\ news = {}
    /\ secrets \in URLs \cup {NoEntry}
    /\ queue = FALSE /\ pass = IdlePass /\ pod = "down"
    /\ edits = 0 /\ faults = 0 /\ crashes = 0

-----------------------------------------------------------------------------
(* Reconcile                                                                *)

Take ==
    /\ pod = "running" /\ Idle /\ queue /\ queue' = FALSE
    /\ UNCHANGED <<resource, stack, secrets, pod, edits, faults, crashes>>

FirstStep == [live |-> "ConfigMap", terminating |-> "AlertmanagerConfig"]

Start ==
    /\ Take
    /\ Present(monSeen)
    /\ pass' = [mode |-> IF monSeen.st = "live" THEN "reconcile" ELSE "remove",
                step |-> FirstStep[monSeen.st], uid |-> monSeen.uid,
                url |-> NoEntry]

NotFound == Take /\ ~Present(monSeen) /\ UNCHANGED pass

\* Get fails otherwise: the request is tried again.
GetFails ==
    /\ pod = "running" /\ Idle /\ queue /\ Fault
    /\ UNCHANGED <<resource, stack, secrets, queue, pass, pod, edits,
                   crashes>>

\* Mutant: a configuration that is there keeps its URL.
DesiredOnce(k) ==
    IF k # "AlertmanagerConfig" THEN "desired"
    ELSE IF seen[k].spec \in URLs THEN seen[k].spec ELSE pass.url

\* What setDesired makes of an object; the alerting configuration has the URL
\* of the snitch in it.
Desired(k) == IF k = "AlertmanagerConfig" THEN pass.url ELSE "desired"

\* Mutant: no controller reference is set.
OwnerForgotten == 0

Owner == pass.uid

Differs(k) == seen[k].spec # Desired(k) \/ seen[k].owner # Owner

\* The server completes these with defaults or another order of keys, so a
\* patch without an effect may be sent for them all the same.
Rewritten == {"Prometheus", "Alertmanager", "AlertmanagerConfig"}

\* Mutant: a new specification is sent with the owner reference of the copy.
AppliedFromCache(k) ==
    IF ~Present(seen[k]) THEN [st |-> "live", owner |-> Owner, spec |-> Desired(k)]
    ELSE IF ~Present(obj[k]) THEN obj[k]
    ELSE IF seen[k].spec # Desired(k) THEN [seen[k] EXCEPT !.spec = Desired(k)]
    ELSE [obj[k] EXCEPT !.owner = Owner]

\* CreateOrPatch: the object as the cache has it is set to what is desired,
\* and created or patched where it is out of date.  The controller reference
\* of another UID is replaced: SetControllerReference compares names.
Applied(k) ==
    IF ~Present(seen[k]) THEN [st |-> "live", owner |-> Owner, spec |-> Desired(k)]
    ELSE IF ~Present(obj[k]) THEN obj[k]
    ELSE [obj[k] EXCEPT
            !.spec  = IF seen[k].spec # Desired(k) THEN Desired(k) ELSE @,
            !.owner = IF seen[k].owner # Owner THEN Owner ELSE @]

\* Create fails on an object that exists, Patch on one that does not.
Accepted(k) ==
    IF Present(seen[k]) THEN Present(obj[k]) \/ ~Differs(k) ELSE ~Present(obj[k])

Refused(k) ==
    IF Present(seen[k])
    THEN ~Present(obj[k]) /\ (Differs(k) \/ k \in Rewritten)
    ELSE Present(obj[k])

Applying(k) == [obj EXCEPT ![k] = Applied(k)]

ReconcileObject(k) ==
    /\ At("reconcile", k)
    /\ \/ Accepted(k) /\ Write(Applying(k), FALSE) /\ Goto(After[k]) /\ NoFault
       \/ Refused(k) /\ Write(obj, TRUE) /\ Goto("end") /\ NoFault
       \/ Fault /\ Write(obj, TRUE) /\ Goto("end")
       \/ Fault /\ Accepted(k) /\ Write(Applying(k), TRUE) /\ Goto("end")
    /\ UNCHANGED <<resource, secrets, pod, edits, crashes>>

\* Mutant: what was read is not checked.
UsableUnchecked(url) == TRUE

Usable(url) == url # NoEntry

\* checkPagerDutyServiceKey and getDeadMansSnitchURL.  Secrets are read from
\* a cache nothing else looks at: a late copy is as good as a later change.
ReadSecrets ==
    /\ At("reconcile", "Secrets")
    /\ \/ /\ Usable(secrets)
          /\ pass' = [pass EXCEPT !.step = "AlertmanagerConfig", !.url = secrets]
          /\ UNCHANGED queue /\ NoFault
       \/ ~Usable(secrets) /\ Goto("end") /\ queue' = TRUE /\ NoFault
       \/ Fault /\ Goto("end") /\ queue' = TRUE
    /\ UNCHANGED <<resource, stack, secrets, pod, edits, crashes>>

Erasing(k) == [obj EXCEPT ![k] = Absent]

\* The Delete calls of a pass for a terminating resource; what is not found
\* is not an error, and nothing is waited for.
RemoveObject(k) ==
    /\ At("remove", k)
    /\ \/ Write(Erasing(k), FALSE) /\ Goto(AfterRemoved[k]) /\ NoFault
       \/ Fault /\ Write(obj, TRUE) /\ Goto("end")
       \/ Fault /\ Write(Erasing(k), TRUE) /\ Goto("end")
    /\ UNCHANGED <<resource, secrets, pod, edits, crashes>>

-----------------------------------------------------------------------------
(* Late events                                                              *)

SyncMonitoring ==
    /\ pod = "running" /\ monNews
    /\ monSeen' = mon /\ monNews' = FALSE /\ queue' = TRUE
    /\ UNCHANGED <<mon, stack, secrets, pass, pod, bounds>>

SyncObject(k) ==
    /\ pod = "running" /\ (seen[k] # obj[k] \/ k \in news)
    /\ seen' = [seen EXCEPT ![k] = obj[k]] /\ news' = news \ {k}
    /\ queue' = (queue \/ k \in news)
    /\ UNCHANGED <<resource, obj, secrets, pass, pod, bounds>>

\* The informer repeats its events each ten hours by default; bounded to when
\* the worker is idle.
Resync ==
    /\ pod = "running" /\ Idle /\ ~queue
    /\ Present(monSeen) /\ queue' = TRUE
    /\ UNCHANGED <<resource, stack, secrets, pass, pod, bounds>>

-----------------------------------------------------------------------------
(* The process                                                              *)

Created == [st |-> "live", uid |-> mon.uid + 1]

\* jumpstartMonitoring; a resource that exists is left as it is.
Jumpstart ==
    /\ pod = "down" /\ pod' = "starting"
    /\ mon' = IF Present(mon) THEN mon ELSE Created
    /\ UNCHANGED <<monSeen, monNews, stack, secrets, queue, pass, bounds>>

\* Each object in the caches is a create event.
StartManager ==
    /\ pod = "starting" /\ pod' = "running"
    /\ monSeen' = mon /\ seen' = obj
    /\ monNews' = FALSE /\ news' = {}
    /\ queue' = (Present(mon) \/ \E k \in OwnsKinds : obj[k].owner # 0)
    /\ UNCHANGED <<mon, obj, secrets, pass, bounds>>

Crash ==
    /\ pod \in {"starting", "running"} /\ pod' = "down"
    /\ crashes < MaxCrashes /\ crashes' = crashes + 1
    /\ queue' = FALSE /\ pass' = IdlePass
    /\ UNCHANGED <<resource, stack, secrets, edits, faults>>

-----------------------------------------------------------------------------
(* Kubernetes garbage collection, users and other actors                    *)

\* The owner named by the reference is gone, or is deleted in the foreground.
Garbage(k) ==
    /\ obj[k].owner # 0
    /\ mon.st # "live" \/ obj[k].owner # mon.uid

Collect(k) ==
    /\ Garbage(k) /\ Write(Erasing(k), FALSE)
    /\ UNCHANGED <<resource, secrets, pass, pod, bounds>>

FinishDeletion ==
    /\ mon.st = "terminating" /\ \A k \in Kinds : obj[k].owner # mon.uid
    /\ WriteMonitoring([mon EXCEPT !.st = "absent"])
    /\ UNCHANGED <<stack, secrets, pass, pod, bounds>>

Edit == edits < MaxEdits /\ edits' = edits + 1
        /\ UNCHANGED <<pass, pod, faults, crashes>>

UserDeletes ==
    /\ Edit /\ mon.st = "live"
    /\ \E st \in {"absent", "terminating"} :
         WriteMonitoring([mon EXCEPT !.st = st])
    /\ UNCHANGED <<stack, secrets>>

UserCreates ==
    /\ Edit /\ ~Present(mon) /\ WriteMonitoring(Created)
    /\ UNCHANGED <<stack, secrets>>

\* The specification changes, and possibly the owner reference is dropped.
Drift(k) ==
    /\ Edit /\ Present(obj[k])
    /\ \E o \in {obj[k].owner, 0} :
         Write([obj EXCEPT ![k] = [st |-> "live", owner |-> o, spec |-> "other"]],
               FALSE)
    /\ UNCHANGED <<resource, secrets>>

ExternalDelete(k) ==
    /\ Edit /\ Present(obj[k]) /\ Write(Erasing(k), FALSE)
    /\ UNCHANGED <<resource, secrets>>

\* Secrets are not watched: a change makes no request.
SecretsChange ==
    /\ Edit /\ secrets' \in (URLs \cup {NoEntry}) \ {secrets}
    /\ UNCHANGED <<resource, stack, queue>>

-----------------------------------------------------------------------------
PassStep ==
    \/ \E k \in Kinds : ReconcileObject(k) \/ RemoveObject(k)
    \/ ReadSecrets

Worker == PassStep \/ Start \/ NotFound \/ GetFails

Informers == SyncMonitoring \/ (\E k \in Kinds : SyncObject(k)) \/ Resync

Process == Jumpstart \/ StartManager \/ Crash

Cluster == (\E k \in Kinds : Collect(k)) \/ FinishDeletion

Users == UserDeletes \/ UserCreates \/ SecretsChange
         \/ \E k \in Contended : Drift(k) \/ ExternalDelete(k)

Next == Worker \/ Informers \/ Process \/ Cluster \/ Users

Spec == Init /\ [][Next]_vars

\* The worker and the informers go on, a dead process is restarted, and the
\* garbage collector and the resyncs come round in the end.
Fairness ==
    /\ WF_vars(PassStep) /\ WF_vars(Start \/ NotFound)
    /\ WF_vars(SyncMonitoring)
    /\ \A k \in Lagging \cap Kinds : WF_vars(SyncObject(k))
    /\ WF_vars(Resync)
    /\ WF_vars(Jumpstart) /\ WF_vars(StartManager)
    /\ \A k \in Kinds : WF_vars(Collect(k))
    /\ WF_vars(FinishDeletion)

FairSpec == Spec /\ Fairness
=============================================================================
