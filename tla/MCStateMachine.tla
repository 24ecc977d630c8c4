--------------------------- MODULE MCStateMachine ---------------------------
(* StateMachine on a small network, for TLC.                               *)
EXTENDS StateMachine

CONSTANT MaxEntries   \* bound on the length of the entry list

FewEntries == Len(stateEntryList) <= MaxEntries
=============================================================================
