----------------------------- MODULE MCGPUAddon -----------------------------
(* Values for the constants of the GPUAddon controller under TLC.           *)
EXTENDS LifecycleRefinement

Running(v) == <<[state |-> "Completed", version |-> v]>>

On409 == {Running(<<4, 9>>)}
On410 == {Running(<<4, 10>>)}
On411 == {Running(<<4, 11>>)}
NoVersions == {}

\* Supported, supported with console plugins, unknown to the compatibility
\* matrix, still installing, and not reported yet.
AnyHistory ==
    On409 \cup On410 \cup On411
      \cup {<<[state |-> "Partial", version |-> <<4, 10>>]>>, <<>>}
Newer == {<<4, 10>>, <<4, 11>>}
=============================================================================
