-------------------------------- MODULE Browser --------------------------------
(***************************************************************************)
(* A browser with the panel open in its tabs: BrowserSession, and the      *)
(* dashboard with its QuickActions in one of the tabs, which is there only *)
(* while the tab shows a protected page.  The requests of both share the   *)
(* connections of the browser.                                             *)
(***************************************************************************)
EXTENDS Naturals

CONSTANTS
  Tabs, NoTab, Desk,                   \* Desk is the tab with the dashboard
  Slots, Tokens, NoToken,
  Actions, NoAction, Refreshing, Unread,
  Changes,                             \* bound of the model: changes seen by one page
  Faults

VARIABLES
  storage, tab, req, live, call, issued, lost,                     \* of BrowserSession
  mounted, rows, op, pending, shown, news, overlaps, doubtful      \* of QuickActions

sessionVars == <<storage, tab, req, live, call, issued, lost>>
panelVars == <<mounted, rows, op, pending, shown, news, overlaps, doubtful>>
vars == <<sessionVars, panelVars>>

Session == INSTANCE BrowserSession
Panel == INSTANCE QuickActions

ASSUME ConstantsOK ==
  /\ Session!ConstantsOK /\ Panel!ConstantsOK
  /\ Desk \in Tabs /\ Changes \in Nat

-----------------------------------------------------------------------------
Available(t) == req[t] = Session!Free /\ op[t] = Panel!Free

Init == Session!Init /\ Panel!Init

\* A tab that is reloaded, or is shown the login page, loses its dashboard; while it
\* keeps its protected page the dashboard stays.
Keeps == mounted /\ tab'[Desk].page = "app"
Consequence == IF mounted /\ ~Keeps THEN Panel!Unmount ELSE UNCHANGED panelVars

SessionRequest ==
  /\ \E t \in Slots :
       /\ Available(t)
       /\ \E b \in Tabs :
            Session!LoadWithToken(b, t) \/ Session!SubmitLogin(b, t) \/ Session!SignOut(b, t)
  /\ Consequence

SessionStep ==
  /\ \/ \E b \in Tabs : Session!LoadWithoutToken(b) \/ Session!Navigate(b)
     \/ \E t \in Slots : Session!Receive(t) \/ Session!ConnectionBreaks(t)
                         \/ Session!Vanish(t) \/ Session!ServerStep(t)
     \/ Session!ServerRestarts
     \/ Session!SessionExpires
  /\ Consequence

\* The dashboard is opened on a protected page, and left for another one.
PanelRequest ==
  /\ \E t \in Slots :
       /\ Available(t)
       /\ \/ tab[Desk].page = "app" /\ Panel!Mount(t)
          \/ \E key \in Actions : rows < Changes /\ Panel!Submit(t, key)
  /\ UNCHANGED sessionVars

PanelStep ==
  /\ \/ \E t \in Slots : Panel!Step(t)
     \/ Panel!Unmount
  /\ rows' <= Changes
  /\ UNCHANGED sessionVars

Next == SessionRequest \/ SessionStep \/ PanelRequest \/ PanelStep

Spec == Init /\ [][Next]_vars

-----------------------------------------------------------------------------
\* The types of both parts; the dashboard is on a protected page.
TypeOK ==
  /\ Session!TypeOK
  /\ Panel!TypeOK
  /\ mounted => tab[Desk].page = "app"

\* See the modules of the parts.
SessionsAccountedFor == Session!SessionsAccountedFor
ResubmittedOnlyAfterOverlap == Panel!ResubmittedOnlyAfterOverlap
ShownIsFresh == Panel!ShownIsFresh
=============================================================================
