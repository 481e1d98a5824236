-------------------------- MODULE MCDatabaseService --------------------------
(* Small instances of DatabaseService for TLC, with the names that the code  *)
(* tries when names may have three characters instead of 32.               *)
EXTENDS DatabaseService, TLC

CONSTANTS t1, t2, d1, name, name_1

Derived == INSTANCE Naming WITH
  BaseLimit <- 2, NameLimit <- 3, UserLimit <- 3,
  UserPrefix <- <<>>, SiteUser <- <<>>,
  DatabaseSuffix <- <<>>, DefaultSuffix <- <<"_", "d", "b">>,
  Suffix <- <<<<"1">>>>, Allowed <- {"b", "c", "o", "1", "_"}

MCSlots == {t1, t2}

\* The domain b.1.co gives the default name b_1_co_db, cut to b_1, which the base b has
\* for its second candidate too; a base as long as the limit is cut back to itself, so
\* that all its candidates are one name.  The code tries 999 candidates, the model two.
MCDomains == {d1}
MCNames == {name, name_1}
MCSiteBase == [d \in MCDomains |-> name_1]
MCCandidates == [n \in MCNames |-> <<n, name_1>>]

Spelling ==
  d1 :> <<"b", ".", "1", ".", "c", "o">> @@ name :> <<"b">> @@ name_1 :> <<"b", "_", "1">>
ASSUME NamesAreDerived ==
  /\ \A d \in MCDomains : Spelling[MCSiteBase[d]] = Derived!DefaultName(Spelling[d])
  /\ \A n \in MCNames : \A i \in 1..2 :
       Spelling[MCCandidates[n][i]] = Derived!CandidateName(Spelling[n], i - 1)

AllFaults == FaultKinds
=============================================================================
