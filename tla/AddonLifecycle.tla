--------------------------- MODULE AddonLifecycle ---------------------------
(***************************************************************************)
(* What the add-on promises, without queue, caches, passes or failures:    *)
(* operands are on the cluster only while some GPUAddon is registered, and *)
(* the add-on removes itself, and then lets go of a deleted GPUAddon, only *)
(* once they are gone.                                                     *)
(*                                                                         *)
(* A GPUAddon is registered once it carries the finalizer of the add-on.   *)
(***************************************************************************)
CONSTANTS
    Addons,   \* names of GPUAddons
    Operands  \* what is deployed for them

VARIABLES
    life,       \* of each GPUAddon: absent, live or terminating
    registered, \* the GPUAddons with the finalizer
    deployed,   \* the operands on the cluster
    installed   \* the add-on's own CSV is there and not being deleted

vars == <<life, registered, deployed, installed>>

Init ==
    /\ life = [a \in Addons |-> "absent"]
    /\ registered = {}
    /\ deployed = {}
    /\ installed = TRUE

Become(a, state) == life' = [life EXCEPT ![a] = state]

Create(a) ==
    /\ life[a] = "absent" /\ Become(a, "live")
    /\ UNCHANGED <<registered, deployed, installed>>

Register(a) ==
    /\ life[a] = "live"
    /\ registered' = registered \cup {a}
    /\ UNCHANGED <<life, deployed, installed>>

\* A deletion is granted at once where nothing was registered.
Request(a) ==
    /\ life[a] = "live"
    /\ Become(a, IF a \in registered THEN "terminating" ELSE "absent")
    /\ UNCHANGED <<registered, deployed, installed>>

\* One operand is deployed, also while its GPUAddon is being deleted.
Deploy(k) ==
    /\ registered # {}
    /\ deployed' = deployed \cup {k}
    /\ UNCHANGED <<life, registered, installed>>

\* By the add-on, or by anyone.
Withdraw(k) ==
    /\ deployed' = deployed \ {k}
    /\ UNCHANGED <<life, registered, installed>>

RemoveSelf ==
    /\ deployed = {} /\ installed' = FALSE
    /\ \E a \in registered : life[a] = "terminating"
    /\ UNCHANGED <<life, registered, deployed>>

\* Unless another GPUAddon is registered, nothing is left for this one.
Release(a) ==
    /\ life[a] = "terminating" /\ ~installed
    /\ deployed # {} => registered # {a}
    /\ Become(a, "absent")
    /\ registered' = registered \ {a}
    /\ UNCHANGED <<deployed, installed>>

Next ==
    \/ \E a \in Addons : Create(a) \/ Register(a) \/ Request(a) \/ Release(a)
    \/ \E k \in Operands : Deploy(k) \/ Withdraw(k)
    \/ RemoveSelf

Spec == Init /\ [][Next]_vars
=============================================================================
