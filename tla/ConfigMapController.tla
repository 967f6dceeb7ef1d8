------------------------ MODULE ConfigMapController ------------------------
(***************************************************************************)
(* The ConfigMap controller: a ConfigMap with the name of the add-on asks  *)
(* for its removal, and the controller lists the GPUAddons and deletes the *)
(* first one.                                                              *)
(*                                                                         *)
(* It shares the process, the cache of GPUAddons and the API server with   *)
(* the GPUAddon controller, whose variables it works on.  Its requests all *)
(* have one name, so its queue is one flag.                                *)
(***************************************************************************)
EXTENDS GPUAddonController

CONSTANT ConfigMaps  \* names of ConfigMaps in the namespace of the add-on

ASSUME ConfigMapAssumption == AddonID \in ConfigMaps

VARIABLES
    configMaps, \* the ConfigMaps there are
    request,    \* a request waits for the worker of this controller
    todo,       \* the GPUAddons listed by the Reconcile call under way
    asked       \* history: the ConfigMap of the add-on has been created

cmVars == <<configMaps, request, todo, asked>>
addonVars == <<api, caches, stale, queue, pass, installed, pod, bounds>>

CMInit ==
    /\ configMaps \in {{}, {AddonID}} /\ asked = (AddonID \in configMaps)
    /\ request = FALSE /\ todo = {}

-----------------------------------------------------------------------------
(* Events of ConfigMaps                                                     *)

\* Mutant: the filter lets every ConfigMap of the namespace through.
isAnyConfigMap(n) == n \in ConfigMaps

isAddonConfigMap(n) == n = AddonID

\* Create and update events are filtered by name, delete events dropped.  The
\* copies in the cache are never read, so an event on its way is as good as
\* the request it becomes.
Announce(names) ==
    request' = (request \/ (pod = "running" /\ \E n \in names : isAddonConfigMap(n)))

EditConfigMap(new) ==
    /\ Edit /\ configMaps' = new
    /\ UNCHANGED <<todo, cr, stale, objects, console, history, queue, pass>>

CreateConfigMap(n) ==
    /\ n \notin configMaps
    /\ EditConfigMap(configMaps \cup {n}) /\ Announce({n})
    /\ asked' = (asked \/ n = AddonID)

TouchConfigMap(n) ==
    /\ n \in configMaps
    /\ EditConfigMap(configMaps) /\ Announce({n}) /\ UNCHANGED asked

RemoveConfigMap(n) ==
    /\ n \in configMaps
    /\ EditConfigMap(configMaps \ {n}) /\ UNCHANGED <<request, asked>>

\* The informer repeats an update event for every ConfigMap; bounded to when
\* both workers are idle.
ResyncConfigMaps ==
    /\ pod = "running" /\ Idle /\ queue = {}
    /\ ~request /\ todo = {}
    /\ Announce(configMaps)
    /\ UNCHANGED <<configMaps, todo, asked, addonVars>>

-----------------------------------------------------------------------------
(* Reconcile                                                                *)

\* Mutant: a GPUAddon is looked up by the name of the ConfigMap.
ListedByConfigMap == configMaps

\* The GPUAddons of the cache, in any order.
Listed == {a \in Addons : Present(crSeen[a])}

\* Reconcile returns at once when there are none.
ListAddons ==
    /\ pod = "running" /\ request /\ todo = {}
    /\ \/ /\ request' = FALSE
          /\ todo' = Listed
          /\ NoFault
       \/ Fault /\ UNCHANGED <<request, todo>>
    /\ UNCHANGED <<configMaps, asked, api, caches, stale, queue, pass,
                   installed, pod, edits, crashes>>

\* What the API server makes of a Delete call for GPUAddon a; one that is
\* terminating already stays as it is, and the call succeeds.
Grant(a) ==
    IF cr[a].st = "live" THEN ChangeAddon(a, DeletionOf(cr[a]))
    ELSE UNCHANGED <<cr, stale, objects, console, history, queue, pass>>

\* Mutant: an error of Delete is lost.
ReturnDeleteErrorLost == todo' = {} /\ UNCHANGED request

ReturnDeleteError == todo' = {} /\ request' = TRUE

\* The condition to return in the loop holds whatever Delete returns, so there
\* is no second Delete: a NotFound is returned as any other error.
DeleteAddon(a) ==
    /\ pod = "running" /\ a \in todo
    /\ Grant(a)
    /\ \/ Present(cr[a]) /\ todo' = {} /\ UNCHANGED request /\ NoFault
       \/ ~Present(cr[a]) /\ ReturnDeleteError /\ NoFault
       \/ Fault /\ ReturnDeleteError
    /\ UNCHANGED <<configMaps, asked, olm, caches, installed, pod,
                   edits, crashes>>

\* Delete fails without an effect.
DeleteAddonFails ==
    /\ pod = "running" /\ todo # {}
    /\ Fault /\ ReturnDeleteError
    /\ UNCHANGED <<configMaps, asked, api, caches, stale, queue, pass,
                   installed, pod, edits, crashes>>

-----------------------------------------------------------------------------
(* The process                                                              *)

\* Mutant: the ConfigMaps that are there at the start are not announced.
FollowProcessSilently ==
    /\ IF pod' = pod THEN UNCHANGED <<request, todo>>
       ELSE request' = FALSE /\ todo' = {}
    /\ UNCHANGED <<configMaps, asked>>

\* What is in memory goes with the process; at its start every ConfigMap is a
\* create event.
FollowProcess ==
    /\ IF pod' = pod THEN UNCHANGED <<request, todo>>
       ELSE /\ request' = (pod' = "running" /\ \E n \in configMaps : isAddonConfigMap(n))
            /\ todo' = {}
    /\ UNCHANGED <<configMaps, asked>>

CMWorker ==
    ListAddons \/ DeleteAddonFails \/ \E a \in Addons : DeleteAddon(a)

CMNext ==
    \/ CMWorker \/ ResyncConfigMaps
    \/ \E n \in ConfigMaps :
          CreateConfigMap(n) \/ TouchConfigMap(n) \/ RemoveConfigMap(n)
=============================================================================
