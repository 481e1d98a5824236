----------------------------- MODULE MCOperations -----------------------------
(* A small instance of Operations for TLC: two requests, a site with two     *)
(* files that are scanned and one with a file too large for it, two seconds, *)
(* and one change around the requests.                                       *)
EXTENDS Operations

CONSTANTS t1, t2, d1, d2, f1, f2, f3

MCSlots == {t1, t2}
MCDomains == {d1, d2}
MCScopes == [t \in MCSlots |-> IF t = t1 THEN {NoDomain} ELSE {d2}]
MCFiles == {f1, f2, f3}
MCSiteOf == [f \in MCFiles |-> IF f = f3 THEN d2 ELSE d1]
MCScannable == {f1, f2}
MCWritable == {f2, f3}
MCServices == {"panel", "redis"}
MCRestarts == [t \in MCSlots |-> IF t = t1 THEN MCServices ELSE {"panel"}]
MCOverviews == {t2}
MCPresent == {d1}
MCStored == [f \in MCFiles |-> IF f = f2 THEN "infected" ELSE "clean"]
MCCommands == [s \in MCServices |-> 2]
AllFaults == {"statement", "read", "write", "inherited"}
=============================================================================
