------------------------------ MODULE MCBrowser ------------------------------
(* A small instance of Browser for TLC: two tabs, two requests under way,   *)
(* two logins, an action that refreshes the page and one that does not.     *)
EXTENDS Browser, TLC

CONSTANTS b1, b2, t1, t2, k1, k2

MCTabs == {b1, b2}
MCSlots == {t1, t2}
MCTokens == {k1, k2}
MCActions == {"backup-now", "restart-services"}
MCRefreshing == {"backup-now"}
AllFaults == {"network", "server"}

\* Requests are interchangeable, and so are tokens.
Alike == Permutations(MCSlots) \cup Permutations(MCTokens)
=============================================================================
