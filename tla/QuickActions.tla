----------------------------- MODULE QuickActions -----------------------------
(***************************************************************************)
(* The quick actions of the dashboard (components/QuickActionsPanel.vue,   *)
(* pages/DashboardPage.vue, services/panelApi.ts).  An action is pending   *)
(* from its submission to its answer; there is one place for the key of a  *)
(* pending action, and a button is disabled only while its own key is in   *)
(* it.  An action that succeeds asks the page for a refresh, which fetches *)
(* the overview and the sites by two requests; whatever is answered last   *)
(* is shown.  The state behind the dashboard is the number of changes that *)
(* actions have made to it since the page was opened.                      *)
(***************************************************************************)
EXTENDS Naturals

CONSTANTS
  Slots,       \* the requests under way at once
  Actions,     \* ActionKey
  NoAction,
  Refreshing,  \* the actions that ask for a refresh: all but restart-services
  Unread       \* what a fetch has not answered yet

ConstantsOK ==
  /\ NoAction \notin Actions
  /\ Refreshing \subseteq Actions
  /\ Unread \notin Nat

VARIABLES
  mounted,    \* the dashboard is open
  rows,       \* how many changes actions have made on the server
  op,         \* the actions and refreshes under way
  pending,    \* pendingAction
  shown,      \* what the page shows: the changes in overview and in sites
  news,       \* history: the last change that a success message was about
  overlaps,   \* history: actions that were under way beside another one
  doubtful    \* history: the last refresh failed, or ran beside another one

page == <<mounted, pending, shown>>
history == <<news, overlaps, doubtful>>
vars == <<rows, op, page, history>>

-----------------------------------------------------------------------------
Kinds == {"none", "action", "refresh"}
Replies == {"none", "ok", "error"}

Free == [kind |-> "none", key |-> NoAction, reply |-> "none",
         change |-> 0, overview |-> Unread, sites |-> Unread]
Action(key) == [Free EXCEPT !.kind = "action", !.key = key]
Refresh == [Free EXCEPT !.kind = "refresh"]

Acting(t) == op[t].kind = "action"
Fetching(t) == op[t].kind = "refresh"
Answered(t) == op[t].overview # Unread /\ op[t].sites # Unread

\* refreshDashboard is called while no other call of it is under way.
RefreshesAlone(t) == \A u \in Slots \ {t} : ~Fetching(u)

-----------------------------------------------------------------------------
(* Faulty variants of single actions, each the code with one plausible bug. *)

\* ResubmittedOnlyAfterOverlap: the answer to a refresh ends the pending action.
RefreshEndsPending(t) ==
  /\ Fetching(t) /\ op[t].reply = "none" /\ Answered(t)
  /\ shown' = [overview |-> op[t].overview, sites |-> op[t].sites]
  /\ pending' = NoAction
  /\ op' = [op EXCEPT ![t] = Free]
  /\ UNCHANGED <<mounted, rows, history>>

\* ShownIsFresh: an action announces its success without emit("refresh").
ActionSucceedsSilently(t) ==
  /\ Acting(t) /\ op[t].reply = "ok"
  /\ pending' = NoAction
  /\ op' = [op EXCEPT ![t] = Free]
  /\ news' = IF op[t].change > news THEN op[t].change ELSE news
  /\ UNCHANGED <<mounted, rows, shown, overlaps, doubtful>>

-----------------------------------------------------------------------------
Init ==
  /\ mounted = FALSE
  /\ rows = 0
  /\ op = [t \in Slots |-> Free]
  /\ pending = NoAction
  /\ shown = [overview |-> 0, sites |-> 0]
  /\ news = 0
  /\ overlaps = {}
  /\ doubtful = FALSE

\* runAction, up to the await.
Submit(t, key) ==
  /\ mounted /\ op[t] = Free
  /\ pending # key
  /\ op' = [op EXCEPT ![t] = Action(key)]
  /\ pending' = key
  /\ overlaps' = LET beside == {op[u].key : u \in {v \in Slots : Acting(v)}} IN
                 IF beside \ {key} # {} THEN overlaps \cup beside \cup {key} ELSE overlaps
  /\ UNCHANGED <<mounted, rows, shown, news, doubtful>>

\* The server has carried the action out, whether it succeeds then or not.
CarryOut(t, outcome) ==
  /\ Acting(t) /\ op[t].reply = "none"
  /\ IF op[t].key \in Refreshing
     THEN /\ rows' = rows + 1
          /\ op' = [op EXCEPT ![t].reply = outcome, ![t].change = rows + 1]
     ELSE /\ rows' = rows
          /\ op' = [op EXCEPT ![t].reply = outcome]
  /\ UNCHANGED <<page, history>>

\* It is refused, or the connection breaks.
Refuse(t) ==
  /\ op[t].kind # "none" /\ op[t].reply = "none"
  /\ op' = [op EXCEPT ![t].reply = "error"]
  /\ UNCHANGED <<rows, page, history>>

ReadOverview(t) ==
  /\ Fetching(t) /\ op[t].overview = Unread
  /\ op' = [op EXCEPT ![t].overview = rows]
  /\ UNCHANGED <<rows, page, history>>

ReadSites(t) ==
  /\ Fetching(t) /\ op[t].sites = Unread
  /\ op' = [op EXCEPT ![t].sites = rows]
  /\ UNCHANGED <<rows, page, history>>

\* The callback of runAction: emit("refresh") calls refreshDashboard at once.  The
\* button of whatever action is pending is enabled.
ActionSucceeds(t) ==
  /\ Acting(t) /\ op[t].reply = "ok"
  /\ pending' = NoAction
  /\ IF op[t].key \in Refreshing
     THEN /\ op' = [op EXCEPT ![t] = Refresh]
          /\ news' = IF op[t].change > news THEN op[t].change ELSE news
          /\ doubtful' = ~RefreshesAlone(t)
     ELSE /\ op' = [op EXCEPT ![t] = Free]
          /\ UNCHANGED <<news, doubtful>>
  /\ UNCHANGED <<mounted, rows, shown, overlaps>>

ActionFails(t) ==
  /\ Acting(t) /\ op[t].reply = "error"
  /\ pending' = NoAction
  /\ op' = [op EXCEPT ![t] = Free]
  /\ UNCHANGED <<mounted, rows, shown, history>>

RefreshSucceeds(t) ==
  /\ Fetching(t) /\ op[t].reply = "none" /\ Answered(t)
  /\ shown' = [overview |-> op[t].overview, sites |-> op[t].sites]
  /\ op' = [op EXCEPT ![t] = Free]
  /\ UNCHANGED <<mounted, rows, pending, history>>

\* One of the two fetches fails: the page keeps what it shows.
RefreshFails(t) ==
  /\ Fetching(t) /\ op[t].reply = "error"
  /\ op' = [op EXCEPT ![t] = Free]
  /\ doubtful' = TRUE
  /\ UNCHANGED <<rows, page, news, overlaps>>

\* The page is opened, with onMounted, or left: nothing of what is under way then has
\* an effect on a page that is opened later.
Mount(t) ==
  /\ ~mounted /\ mounted' = TRUE
  /\ op' = [op EXCEPT ![t] = Refresh]
  /\ UNCHANGED <<rows, pending, shown, history>>

Unmount ==
  /\ mounted /\ mounted' = FALSE
  /\ rows' = 0 /\ op' = [t \in Slots |-> Free]
  /\ pending' = NoAction /\ shown' = [overview |-> 0, sites |-> 0]
  /\ news' = 0 /\ overlaps' = {} /\ doubtful' = FALSE

Step(t) ==
  \/ \E outcome \in {"ok", "error"} : CarryOut(t, outcome)
  \/ Refuse(t) \/ ReadOverview(t) \/ ReadSites(t)
  \/ ActionSucceeds(t) \/ ActionFails(t) \/ RefreshSucceeds(t) \/ RefreshFails(t)

Next ==
  \/ \E t \in Slots :
       \/ Mount(t) \/ Step(t)
       \/ \E key \in Actions : Submit(t, key)
  \/ Unmount

Spec == Init /\ [][Next]_vars

-----------------------------------------------------------------------------
Operation ==
  [kind : Kinds, key : Actions \cup {NoAction}, reply : Replies,
   change : Nat, overview : Nat \cup {Unread}, sites : Nat \cup {Unread}]

\* The types of the variables; nothing shown or answered is newer than the server.
TypeOK ==
  /\ mounted \in BOOLEAN
  /\ rows \in Nat /\ news \in 0 .. rows
  /\ op \in [Slots -> Operation]
  /\ pending \in Actions \cup {NoAction}
  /\ shown \in [overview : 0 .. rows, sites : 0 .. rows]
  /\ overlaps \subseteq Actions /\ doubtful \in BOOLEAN

\* An action is under way twice only after it was under way beside another one, the
\* end of which enabled its button: no double click does it.
ResubmittedOnlyAfterOverlap ==
  \A t, u \in Slots :
    t # u /\ Acting(t) /\ Acting(u) /\ op[t].key = op[u].key => op[t].key \in overlaps

\* Once no refresh is under way, the page shows every change it has announced, in the
\* overview and in the sites, unless the last refresh failed or ran beside another
\* one, whose older answer may have come later.
ShownIsFresh ==
  (\A t \in Slots : ~Fetching(t)) /\ ~doubtful =>
    shown.overview >= news /\ shown.sites >= news
=============================================================================
