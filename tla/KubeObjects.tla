---------------------------- MODULE KubeObjects ----------------------------
(***************************************************************************)
(* The Kubernetes objects the add-on operator manages, as the API server   *)
(* keeps them, and what the client calls of the operator do to one object. *)
(*                                                                         *)
(* An object is reduced to what the operator reads or writes of it:        *)
(*   st     absent, live, or terminating (a deletion timestamp is set and  *)
(*          some finalizer of another controller holds the object)         *)
(*   owner  the GPUAddon named by its controller owner reference           *)
(*   spec   which desired state it carries ("other": edited by someone)    *)
(*   ready  what its own controller reported; only the Subscription's      *)
(*          status.installedCSV is ever read                               *)
(*                                                                         *)
(* The API server and OLM are not part of the repository; the state here   *)
(* is read off the calls of the operator and of controllerutil.            *)
(***************************************************************************)
EXTENDS FiniteSets

CONSTANTS
    Addons,     \* names of GPUAddon custom resources
    Lingering   \* objects held by finalizers of other controllers once deleted

Operands == {"NFD", "Subscription", "ClusterPolicy",
             "Deployment", "Service", "ConsolePlugin"}

Objects == Operands \cup {"GpuCsv", "AddonCsv"}

\* Operands whose setDesired calls SetControllerReference.
Owned == {"NFD", "Subscription", "Deployment", "Service"}

\* The desired state built by setDesired replaces server-defaulted fields of
\* these two, so CreateOrPatch finds a difference each time.
AlwaysPatched == {"Deployment", "Service"}

NoAddon == "none"

ASSUME ObjectsAssumption ==
    /\ IsFiniteSet(Addons)
    /\ NoAddon \notin Addons
    /\ Lingering \subseteq Objects

Specs == {"none", "desired", "other", "v1.9.0", "v1.10"}

ObjectType == [st: {"absent", "live", "terminating"},
               owner: Addons \cup {NoAddon},
               spec: Specs,
               ready: BOOLEAN]

Absent == [st |-> "absent", owner |-> NoAddon, spec |-> "none", ready |-> FALSE]

Live(o, s) == [st |-> "live", owner |-> o, spec |-> s, ready |-> FALSE]

Present(o) == o.st # "absent"

\* A Delete call on object k when the API server holds it as o: it goes at
\* once, or stays terminating until its finalizers are removed.
Deleted(k, o) ==
    IF Present(o) /\ k \in Lingering THEN [o EXCEPT !.st = "terminating"]
                                     ELSE Absent

-----------------------------------------------------------------------------
(* controllerutil.CreateOrPatch for the operand k of addon a, which reads   *)
(* the object from the cache (c), sets it to the desired state s and then   *)
(* writes to the API server, which holds o.                                 *)

\* Mutant: another controller's reference is overwritten.
ControllableAlways(k, a, c) == TRUE

\* SetControllerReference: the object must not be controlled by another.
Controllable(k, a, c) == k \in Owned => c.owner \in {a, NoAddon}

Patched(k, a, c, s) == c.spec # s \/ (k \in Owned /\ c.owner # a)

\* Create fails with AlreadyExists and Patch with NotFound when the cache is
\* out of date; a Patch that would change nothing is not sent.
Accepted(k, a, c, o, s) ==
    IF Present(c)
    THEN /\ Controllable(k, a, c)
         /\ Present(o) \/ ~(Patched(k, a, c, s) \/ k \in AlwaysPatched)
    ELSE ~Present(o)

\* A merge patch sends only the fields that differ from the cached copy.
Applied(k, a, c, o, s) ==
    IF ~Present(c) THEN Live(IF k \in Owned THEN a ELSE NoAddon, s)
    ELSE IF ~Present(o) THEN o
    ELSE [o EXCEPT !.spec  = IF c.spec # s THEN s ELSE @,
                   !.owner = IF k \in Owned /\ c.owner # a THEN a ELSE @]
=============================================================================
