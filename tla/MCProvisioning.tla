---------------------------- MODULE MCProvisioning ----------------------------
(* A small instance of Provisioning for TLC: one call of CreateSite in each *)
(* process and one of CreateDatabase, on one domain and two names.          *)
EXTENDS Provisioning

CONSTANTS web, cmd, t1, d1, wp, db

MCJobs == {web, cmd}
MCTasks == {t1}
MCProcesses == {"server", "cli"}
MCOwner == [s \in MCJobs |-> IF s = web THEN "server" ELSE "cli"]
MCDomains == {d1}
MCNames == {wp, db}
MCDbName == [d \in MCDomains |-> wp]
MCSiteBase == [d \in MCDomains |-> db]

\* A user may ask for the very name that the site service derives.
MCCandidates == [b \in MCNames |-> IF b = wp THEN <<wp, db>> ELSE <<db>>]

MCVersions == {"8.3"}
MCRequests == {[php |-> "8.3", redis |-> TRUE]}
MCFaults == {"crash"}
=============================================================================
