---------------------------- MODULE ConsoleEntry ----------------------------
(***************************************************************************)
(* The entry of the add-on in the plugin list of the Console, which every  *)
(* operator that has a console plugin replaces as a whole.  The controller *)
(* does not watch the Console, so an entry that another operator drops is  *)
(* put back by the next pass, but does not cause one.  A history variable  *)
(* tells such a loss from one the controller would answer for.             *)
(***************************************************************************)
EXTENDS GPUAddonProperties

VARIABLE overlooked \* history: the entry was dropped, and no pass has since
                    \* met a copy of the list without it

entryVars == <<vars, overlooked>>

EntryInit == Init /\ overlooked = FALSE

\* The controller meets a copy without its entry.
MeetsLoss == PatchClusterConsole /\ OurPlugin \notin consoleSeen

EntryNext ==
    /\ Next
    /\ overlooked' = IF MeetsLoss THEN FALSE
                     ELSE overlooked \/ OurPlugin \in console \ console'

EntrySpec == EntryInit /\ [][EntryNext]_entryVars

-----------------------------------------------------------------------------

\* At rest an enabled console plugin is in the list of the Console, but for an
\* entry that another operator dropped after the last pass that had to write
\* it: no lost call, late copy or crash of this operator leaves it out.
PluginRegistered ==
    AtRest => \A a \in Addons :
        cr[a].st = "live" /\ cr[a].plugin /\ SupportsPlugin
        => OurPlugin \in console \/ overlooked

-----------------------------------------------------------------------------
(* The invariant behind it, relative to RestInv                             *)

\* A copy that has the entry is wrong only after a loss.
EntryKept == OurPlugin \in consoleSeen => OurPlugin \in console \/ overlooked

EntrySettled(a) ==
    cr[a].plugin /\ SupportsPlugin
    => OurPlugin \in console \/ overlooked \/ Before(a, "Console")

EntryInv == EntryKept /\ \A a \in Asleep : EntrySettled(a)
=============================================================================
