---------------------------- MODULE BrowserSession ----------------------------
(***************************************************************************)
(* The session of the panel's frontend (services/auth.ts, services/http.ts,*)
(* router/index.ts, LoginPage, AppShell) against a server that keeps the   *)
(* promises of SessionService.                                             *)
(*                                                                         *)
(* The tabs of a browser share the token in localStorage, which a request  *)
(* takes along when it is sent; each tab keeps a token and an administrator*)
(* of its own in authState, which the router decides by.  A request stays  *)
(* in its slot until the server is done with it, although its tab may have *)
(* been told of a network error, or may be gone.                           *)
(***************************************************************************)
CONSTANTS
  Tabs, NoTab,
  Slots,            \* the requests under way at once
  Tokens, NoToken,
  Faults            \* the kinds of failure that may happen

FaultKinds == {"network", "server"}

ConstantsOK ==
  /\ NoTab \notin Tabs /\ NoToken \notin Tokens
  /\ Faults \subseteq FaultKinds

VARIABLES
  storage,     \* the token in localStorage
  tab,         \* authState of each tab and the page that it shows
  req,         \* the requests under way
  live, call,  \* of the server, see SessionService
  issued,      \* the tokens that logins were given: those of different seconds differ
  lost         \* history: tokens of sessions that a browser gave up, see Clear

Server == INSTANCE SessionService

sessions == <<live, call>>
vars == <<storage, tab, req, sessions, issued, lost>>

-----------------------------------------------------------------------------
Phases == {"closed", "loading", "ready"}
Pages == {"none", "login", "app"}
Kinds == {"none", "me", "login", "logout"}
Replies == {"none", "ok", "refused", "error"}

Closed == [phase |-> "closed", token |-> NoToken, admin |-> FALSE, page |-> "none"]
SignedOut(page) == [phase |-> "ready", token |-> NoToken, admin |-> FALSE, page |-> page]
SignedIn(token) == [phase |-> "ready", token |-> token, admin |-> TRUE, page |-> "app"]

Free == [kind |-> "none", tab |-> NoTab, token |-> NoToken, reply |-> "none"]
Waiting(b, kind) == \E t \in Slots : req[t].tab = b /\ req[t].kind = kind

\* A login whose token is still to reach the tab that asked for it.
Delivering(token) ==
  \E t \in Slots :
    req[t].kind = "login" /\ req[t].tab # NoTab /\ req[t].token = token

\* The request that the interceptor sends along with the token of the storage.
Send(t, b, kind, token) ==
  /\ req[t] = Free
  /\ req' = [req EXCEPT ![t] = [kind |-> kind, tab |-> b, token |-> token, reply |-> "none"]]

\* The server is done with a request.
Reply(t, outcome) == req' = [req EXCEPT ![t].reply = outcome]

-----------------------------------------------------------------------------
(* Faulty variants of single actions, each the code with one plausible bug. *)

\* TypeOK: initializeAuth does not set initialized on an error.
LoadedOnlyIfOk(t, b, outcome) ==
  IF outcome = "ok"
  THEN /\ tab' = [tab EXCEPT ![b] = SignedIn(tab[b].token)]
       /\ UNCHANGED <<storage, lost>>
  ELSE UNCHANGED <<tab, storage, lost>>

\* SessionsAccountedFor: the session is cleared before the request is sent.
SignOutClearsFirst(b, t) ==
  /\ tab[b].page = "app"
  /\ Send(t, b, "logout", NoToken)
  /\ storage' = NoToken
  /\ UNCHANGED <<tab, sessions, issued, lost>>

-----------------------------------------------------------------------------
(* What a tab does with the answer to a request, or with an error. *)

\* setStoredToken and clearStoredToken.  The session in the storage is given up when
\* another one takes its place, on an error, or on an answer about another session.
Store(token) ==
  /\ storage' = token
  /\ lost' = lost \cup ({storage} \ {token, NoToken})

Clear(t, outcome) ==
  /\ storage' = NoToken
  /\ lost' = IF outcome = "error" \/ storage # req[t].token
             THEN lost \cup ({storage} \ {NoToken}) ELSE lost

\* initializeAuth, login with submitLogin, and logout with handleLogout, which does
\* not leave the page when the request has failed.
Loaded(t, b, outcome) ==
  IF outcome = "ok"
  THEN /\ tab' = [tab EXCEPT ![b] = SignedIn(tab[b].token)]
       /\ UNCHANGED <<storage, lost>>
  ELSE /\ tab' = [tab EXCEPT ![b] = SignedOut("login")]
       /\ Clear(t, outcome)

LoggedIn(t, b, outcome) ==
  IF outcome = "ok"
  THEN /\ tab' = [tab EXCEPT ![b] = SignedIn(req[t].token)]
       /\ Store(req[t].token)
  ELSE /\ UNCHANGED <<tab, storage>>
       /\ lost' = lost \cup ({req[t].token} \ {NoToken})

LoggedOut(t, b, outcome) ==
  /\ tab' = [tab EXCEPT ![b] = SignedOut(IF outcome = "ok" THEN "login" ELSE tab[b].page)]
  /\ Clear(t, outcome)

Handle(t, outcome) ==
  LET b == req[t].tab IN
  CASE req[t].kind = "me" -> Loaded(t, b, outcome)
    [] req[t].kind = "login" -> LoggedIn(t, b, outcome)
    [] req[t].kind = "logout" -> LoggedOut(t, b, outcome)

-----------------------------------------------------------------------------
Init ==
  /\ storage = NoToken
  /\ tab = [b \in Tabs |-> Closed]
  /\ req = [t \in Slots |-> Free]
  /\ Server!Init
  /\ issued = {}
  /\ lost = {}

\* A tab is opened or reloaded: bootstrap waits for initializeAuth, and nobody waits
\* for what the tab had asked before.  A token that was on its way is given up.
Abandoned(b) == [t \in Slots |-> IF req[t].tab = b THEN [req[t] EXCEPT !.tab = NoTab] ELSE req[t]]
OnTheirWay(b) ==
  {req[t].token : t \in {u \in Slots : req[u].tab = b /\ req[u].kind = "login"}} \ {NoToken}

LoadWithoutToken(b) ==
  /\ storage = NoToken
  /\ tab' = [tab EXCEPT ![b] = SignedOut("login")]
  /\ req' = Abandoned(b)
  /\ lost' = lost \cup OnTheirWay(b)
  /\ UNCHANGED <<storage, sessions, issued>>

LoadWithToken(b, t) ==
  /\ storage # NoToken
  /\ req[t] = Free
  /\ tab' = [tab EXCEPT ![b] = [Closed EXCEPT !.phase = "loading", !.token = storage]]
  /\ req' = [Abandoned(b) EXCEPT ![t] =
               [kind |-> "me", tab |-> b, token |-> storage, reply |-> "none"]]
  /\ lost' = lost \cup OnTheirWay(b)
  /\ UNCHANGED <<storage, sessions, issued>>

\* LoginPage disables its button while it waits.
SubmitLogin(b, t) ==
  /\ tab[b].page = "login" /\ ~Waiting(b, "login")
  /\ Send(t, b, "login", NoToken)
  /\ UNCHANGED <<storage, tab, sessions, issued, lost>>

\* AppShell does not: a user may ask to be signed out again.
SignOut(b, t) ==
  /\ tab[b].page = "app"
  /\ Send(t, b, "logout", storage)
  /\ UNCHANGED <<storage, tab, sessions, issued, lost>>

\* router.beforeEach on a click on any link: the administrator decides.
Navigate(b) ==
  /\ tab[b].phase = "ready"
  /\ tab' = [tab EXCEPT ![b].page = IF tab[b].admin THEN "app" ELSE "login"]
  /\ UNCHANGED <<storage, req, sessions, issued, lost>>

Receive(t) ==
  /\ req[t].reply # "none" /\ req[t].tab # NoTab
  /\ Handle(t, req[t].reply)
  /\ req' = [req EXCEPT ![t] = Free]
  /\ UNCHANGED <<sessions, issued>>

\* The connection breaks: the tab gets an error, and the server may go on or may
\* even get the request later.
ConnectionBreaks(t) ==
  /\ "network" \in Faults
  /\ req[t].tab # NoTab
  /\ Handle(t, "error")
  /\ req' = [req EXCEPT ![t].tab = NoTab]
  /\ UNCHANGED <<sessions, issued>>

\* Nobody waits for the request any more, and it is answered or never arrived.
Vanish(t) ==
  /\ req[t].kind # "none" /\ req[t].tab = NoTab
  /\ call[t] = Server!Idle
  /\ req' = [req EXCEPT ![t] = Free]
  /\ UNCHANGED <<storage, tab, sessions, issued, lost>>

-----------------------------------------------------------------------------
(* The server. *)

Arriving(t) == req[t].kind # "none" /\ req[t].reply = "none" /\ call[t] = Server!Idle

\* A login with the right password, another one, and a request without a token.
AcceptLogin(t, token) ==
  /\ Arriving(t) /\ req[t].kind = "login"
  /\ token \notin issued
  /\ Server!Issue(t, token)
  /\ issued' = issued \cup {token}
  /\ UNCHANGED <<storage, tab, req, lost>>

RefuseAtOnce(t) ==
  /\ Arriving(t)
  /\ req[t].kind = "login" \/ req[t].token = NoToken
  /\ Reply(t, "refused")
  /\ UNCHANGED <<storage, tab, sessions, issued, lost>>

Ask(t) ==
  /\ Arriving(t) /\ req[t].token # NoToken
  /\ Server!Ask(t, req[t].token)
  /\ UNCHANGED <<storage, tab, req, issued, lost>>

OpenSession(t) ==
  /\ Server!Open(t)
  /\ req' = [req EXCEPT ![t].reply = "ok", ![t].token = call[t].token]
  /\ lost' = IF req[t].tab = NoTab THEN lost \cup {call[t].token} ELSE lost
  /\ UNCHANGED <<storage, tab, issued>>

Grant(t) ==
  /\ Server!Grant(t)
  /\ UNCHANGED <<storage, tab, req, issued, lost>>

\* A token that is not good, or that runs out in this very second.
Refuse(t) ==
  /\ Server!Refuse(t)
  /\ req[t].token \notin live'
  /\ Reply(t, "refused")
  /\ UNCHANGED <<storage, tab, issued, lost>>

AnswerMe(t) ==
  /\ req[t].kind = "me" /\ Server!At(t, "granted")
  /\ Server!Finish(t)
  /\ Reply(t, "ok")
  /\ UNCHANGED <<storage, tab, issued, lost>>

CloseSession(t) ==
  /\ req[t].kind = "logout"
  /\ Server!Close(t)
  /\ Reply(t, "ok")
  /\ UNCHANGED <<storage, tab, issued, lost>>

\* A statement fails: the session of the request may be as good as before.
ServerFails(t) ==
  /\ "server" \in Faults
  /\ Server!Finish(t)
  /\ Reply(t, "error")
  /\ UNCHANGED <<storage, tab, issued, lost>>

ServerRestarts ==
  /\ "server" \in Faults
  /\ Server!Restart
  /\ req' = [t \in Slots |->
       IF call[t] # Server!Idle THEN [req[t] EXCEPT !.reply = "error"] ELSE req[t]]
  /\ UNCHANGED <<storage, tab, issued, lost>>

SessionExpires ==
  /\ \E token \in live : live' = live \ {token}
  /\ UNCHANGED <<storage, tab, req, call, issued, lost>>

ServerStep(t) ==
  \/ \E token \in Tokens : AcceptLogin(t, token)
  \/ RefuseAtOnce(t) \/ Ask(t) \/ OpenSession(t) \/ Grant(t) \/ Refuse(t)
  \/ AnswerMe(t) \/ CloseSession(t) \/ ServerFails(t)

Next ==
  \/ \E b \in Tabs :
       \/ LoadWithoutToken(b)
       \/ \E t \in Slots : LoadWithToken(b, t) \/ SubmitLogin(b, t) \/ SignOut(b, t)
       \/ Navigate(b)
  \/ \E t \in Slots : Receive(t) \/ ConnectionBreaks(t) \/ Vanish(t) \/ ServerStep(t)
  \/ ServerRestarts
  \/ SessionExpires

Spec == Init /\ [][Next]_vars

-----------------------------------------------------------------------------
TabState ==
  [phase : Phases, token : Tokens \cup {NoToken}, admin : BOOLEAN, page : Pages]

RequestState ==
  [kind : Kinds, tab : Tabs \cup {NoTab}, token : Tokens \cup {NoToken}, reply : Replies]

\* The types of the variables; the server is at work on requests only, and each tab
\* that loads waits for one.
TypeOK ==
  /\ storage \in issued \cup {NoToken}
  /\ tab \in [Tabs -> TabState]
  /\ req \in [Slots -> RequestState]
  /\ live \subseteq issued /\ issued \subseteq Tokens /\ lost \subseteq issued
  /\ \A t \in Slots : call[t] # Server!Idle => req[t].kind # "none" /\ req[t].reply = "none"
  /\ \A b \in Tabs : tab[b].phase = "loading" <=> Waiting(b, "me")

\* A session that is good has a browser that can use it or end it, or it was given up
\* in one of the ways that are counted as lost: its login never reached the tab, it
\* was replaced, or cleared on an error or on an answer about another session.  So a
\* sign-out that is answered ends the session, whatever the other tabs do meanwhile.
SessionsAccountedFor ==
  \A token \in live : token = storage \/ Delivering(token) \/ token \in lost
=============================================================================
