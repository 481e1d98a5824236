--------------------------- MODULE MCAuthBootstrap ---------------------------
(* A small instance of AuthBootstrap for TLC: the server, one command of    *)
(* the tool that finds another address in its environment, and a server     *)
(* that finds a secret in it.  There is a random value for each process     *)
(* that may hold one of its own.                                            *)
EXTENDS AuthBootstrap, TLC

CONSTANTS server, cli, configured, s1, s2, s3, p1, p2, p3, env, admin, other

MCProcesses == {server, cli, configured}
MCConfigured == [p \in MCProcesses |-> IF p = configured THEN env ELSE None]
MCEmail == [p \in MCProcesses |-> IF p = cli THEN other ELSE admin]
RandomSecrets == {s1, s2, s3}
MCSecrets == RandomSecrets \cup {env}
MCPasswords == {p1, p2, p3}
AllFaults == FaultKinds

\* Random values are interchangeable.
Alike == Permutations(RandomSecrets) \cup Permutations(MCPasswords)
=============================================================================
