---------------------------- MODULE MCSiteService ----------------------------
(* Small instances of SiteService for TLC, with the names that the code      *)
(* derives from two domains.                                                 *)
EXTENDS SiteService, Sequences, TLC

CONSTANTS web, cmd, a_b, a_dot_b, a_b_co_wp

Derived == INSTANCE Naming WITH
  BaseLimit <- 24, NameLimit <- 32, UserLimit <- 24,
  UserPrefix <- <<"k", "b", "_">>, SiteUser <- <<"s", "i", "t", "e">>,
  DatabaseSuffix <- <<"_", "w", "p">>, DefaultSuffix <- <<"_", "d", "b">>,
  Suffix <- <<>>, Allowed <- {"a", "b", "c", "o", "_"}

MCSlots == {web, cmd}
MCProcesses == {"server", "cli"}
MCOwner == [s \in MCSlots |-> IF s = web THEN "server" ELSE "cli"]

\* The domains a-b.co and a.b.co derive one name.
MCDomains == {a_b, a_dot_b}
MCNames == {a_b_co_wp}
MCDbName == [d \in MCDomains |-> a_b_co_wp]

Spelling ==
  a_b :> <<"a", "-", "b", ".", "c", "o">> @@ a_dot_b :> <<"a", ".", "b", ".", "c", "o">> @@
  a_b_co_wp :> <<"a", "_", "b", "_", "c", "o", "_", "w", "p">>
ASSUME NamesAreDerived ==
  /\ \A d \in MCDomains : Spelling[MCDbName[d]] = Derived!DeriveDatabaseName(Spelling[d])
  \* The two sites have one system user, too, and nothing in the code objects.
  /\ \A d \in MCDomains :
       Derived!BuildSystemUser(Spelling[d]) =
         <<"k", "b", "_", "a", "_", "b", "_", "c", "o">>

MCVersions == {"8.3", "5.6"}
MCSupported == {"8.3"}

\* Two requests that differ in everything the properties look at.
MCRequests == {[php |-> "8.3", redis |-> TRUE], [php |-> "5.6", redis |-> FALSE]}

AllFaults == FaultKinds
=============================================================================
