---------------------------- MODULE MCAuthSessions ----------------------------
(* A small instance of AuthSessions for TLC: two concurrent requests over   *)
(* three seconds, with sessions that last one second.                       *)
EXTENDS AuthSessions, TLC

CONSTANTS t1, t2

MCSlots == {t1, t2}
AllFaults == FaultKinds

\* Requests are interchangeable.
Alike == Permutations(MCSlots)
=============================================================================
