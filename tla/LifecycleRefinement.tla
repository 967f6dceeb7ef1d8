------------------------ MODULE LifecycleRefinement ------------------------
(***************************************************************************)
(* The GPUAddon controller implements AddonLifecycle: what it promises     *)
(* read off the resources and objects of the cluster.  The passes, the     *)
(* queue, the caches and the status are forgotten.                         *)
(***************************************************************************)
EXTENDS GPUAddonProperties

Life == [a \in Addons |-> cr[a].st]
Registered == {a \in Addons : cr[a].fin}
Deployed == {k \in Awaited : Present(obj[k])}
AddonInstalled == obj["AddonCsv"].st = "live"

Lifecycle == INSTANCE AddonLifecycle WITH
    Operands   <- Awaited,
    life       <- Life,
    registered <- Registered,
    deployed   <- Deployed,
    installed  <- AddonInstalled

\* Every step of the controller, of the cluster and of the users is a step of
\* the promised life of the add-on, or none: registration before anything is
\* deployed, the add-on's CSV after the last operand, the finalizer after it.
ImplementsLifecycle == Lifecycle!Spec

-----------------------------------------------------------------------------
(* What the refinement needs besides IInv                                   *)

\* The finalizer of a deleted GPUAddon is kept until the add-on's CSV goes.
Leaving(a) ==
    (cr[a].st = "terminating" /\ cr[a].fin) \/ obj["AddonCsv"].st # "live"

\* A removal that the cache asks for, or a pass carries out, was requested, and
\* the request still stands or has been carried out.
RemovalJustified ==
    /\ \A a \in Addons :
         crSeen[a].st = "terminating" /\ crSeen[a].fin => Leaving(a)
    /\ pass.mode = "remove" => pass.loc.st = "terminating" /\ Leaving(pass.req)
=============================================================================
