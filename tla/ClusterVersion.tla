--------------------------- MODULE ClusterVersion ---------------------------
(***************************************************************************)
(* What the operator reads of the OpenShift version: the history of the    *)
(* ClusterVersion, newest entry first, of which the first Completed entry  *)
(* counts.  A version is <<major, minor>>; the patch level is dropped by   *)
(* GetOpenShiftVersion and never decides IsOpenShiftVersionAtLeast for a   *)
(* two-component argument.                                                 *)
(***************************************************************************)
EXTENDS Naturals, Sequences

HistoryEntry == [state: {"Completed", "Partial"}, version: Nat \X Nat]

NoVersion == <<>>

Completed(history) ==
    {i \in DOMAIN history : history[i].state = "Completed"}

\* Mutant: the newest entry counts, whatever its state.
GetOpenShiftVersionNewest(history) ==
    IF history = <<>> THEN NoVersion ELSE history[1].version

\* The first Completed version, or NoVersion: an error in the code.
GetOpenShiftVersion(history) ==
    IF Completed(history) = {} THEN NoVersion
    ELSE history[CHOOSE i \in Completed(history) :
                    \A j \in Completed(history) : i <= j].version

AtLeast(v, w) == v[1] > w[1] \/ (v[1] = w[1] /\ v[2] >= w[2])

\* IsOpenShiftVersionAtLeast, where it returns no error.
IsOpenShiftVersionAtLeast(history, w) ==
    LET v == GetOpenShiftVersion(history) IN v # NoVersion /\ AtLeast(v, w)

ConsolePluginVersion == <<4, 10>>

-----------------------------------------------------------------------------
\* OpenShiftGPUOperatorCompatibilityMatrix: the channels for each version.
\* A version that is not a key has the empty list of channels.
CompatibilityMatrix(v) ==
    CASE v = <<4, 9>>  -> <<"v1.9.0", "v1.10">>
      [] v = <<4, 10>> -> <<"v1.10">>
      [] OTHER         -> <<>>

\* The index setDesiredSubscription computes is -1 for an unknown version.
HasChannel(v) == Len(CompatibilityMatrix(v)) > 0

Channel(v) == CompatibilityMatrix(v)[Len(CompatibilityMatrix(v))]
=============================================================================
