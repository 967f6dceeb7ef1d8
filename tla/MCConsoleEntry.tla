--------------------------- MODULE MCConsoleEntry ---------------------------
(* Values for the constants of the Console entry under TLC.                 *)
EXTENDS ConsoleEntry

On410 == {<<[state |-> "Completed", version |-> <<4, 10>>]>>}
NoVersions == {}
=============================================================================
