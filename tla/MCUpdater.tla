------------------------------ MODULE MCUpdater ------------------------------
(***************************************************************************)
(* Small instances of the updater: the sets its cfg files choose from.     *)
(***************************************************************************)
EXTENDS Updater

None == {}
Second == {2}
Third == {3}
BetweenWrites == {"boot", "run"}
Everywhere == Points
Running == {"run"}
Installing == {"run", "replace"}
FilesFault == {"state", "backup"}
AllFaults == FaultKinds
ReplaceFault == {"replace"}
=============================================================================
