--------------------------- MODULE MCBackupService ---------------------------
(* A small instance of BackupService for TLC: a call in the server and one  *)
(* in the command line tool, one site, one database, three seconds.         *)
EXTENDS BackupService

CONSTANTS web, cmd, d1, db1

MCSlots == {web, cmd}
MCProcesses == {"server", "cli"}
MCOwner == [c \in MCSlots |-> IF c = web THEN "server" ELSE "cli"]
MCDomains == {d1}
MCNames == {db1}
AllFaults == FaultKinds
=============================================================================
