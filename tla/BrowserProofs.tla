----------------------------- MODULE BrowserProofs -----------------------------
(***************************************************************************)
(* Proofs about Browser, for any number of tabs, requests, tokens and      *)
(* actions.  First, the two parts of a browser do what their modules allow *)
(* although they meet in one tab; then what holds of each part, and of the *)
(* tab.                                                                    *)
(***************************************************************************)
EXTENDS Browser, TLAPS

-----------------------------------------------------------------------------
(* The session: what is known of every request, call and tab. *)

CallState ==
  {Session!Server!Idle} \cup [pc : {"opening", "asked", "granted"}, token : Tokens]

\* An answer after which the session that the request was about is over.
EndedBy(r) ==
  \/ r.kind \in {"me", "logout"} /\ r.reply = "refused"
  \/ r.kind = "logout" /\ r.reply = "ok"

\* A login has no token before it is answered; the others keep the one they were sent with,
\* which is no good any more once they have been told so.
RequestOK(t) ==
  /\ req[t].kind = "none" => req[t] = Session!Free
  /\ req[t].token \in issued \cup {NoToken}
  /\ req[t].kind = "login" /\ req[t].reply = "none" => req[t].token = NoToken
  /\ req[t].kind = "login" /\ req[t].reply = "ok" => req[t].token # NoToken
  /\ EndedBy(req[t]) => req[t].token \notin live

\* The token of a session that is being opened is nowhere else, so that nobody can have
\* ended the session or stored another one in its place; any other call has its request's.
CallOK(t) ==
  /\ call[t] # Session!Server!Idle => req[t].kind # "none" /\ req[t].reply = "none"
  /\ call[t].pc = "opening" =>
       /\ req[t].kind = "login" /\ call[t].token \in issued \ {storage}
       /\ \A u \in Slots : req[u].token # call[t].token
       /\ \A u \in Slots \ {t} : call[u].pc = "opening" => call[u].token # call[t].token
  /\ call[t].pc \in {"asked", "granted"} =>
       req[t].kind \in {"me", "logout"} /\ call[t].token = req[t].token

\* A tab that loads waits for one request and has no other.
TabOK(b) ==
  /\ tab[b].phase = "loading" <=> \E t \in Slots : req[t].tab = b /\ req[t].kind = "me"
  /\ tab[b].phase = "loading" => tab[b].page = "none"
  /\ \A t, u \in Slots :
       req[t].tab = b /\ req[u].tab = b /\ req[t].kind = "me" => t = u

SessionInv ==
  /\ storage \in issued \cup {NoToken}
  /\ live \subseteq issued /\ issued \subseteq Tokens /\ lost \subseteq issued
  /\ tab \in [Tabs -> Session!TabState]
  /\ req \in [Slots -> Session!RequestState]
  /\ call \in [Slots -> CallState]
  /\ \A t \in Slots : RequestOK(t) /\ CallOK(t)
  /\ \A b \in Tabs : TabOK(b)
  /\ Session!SessionsAccountedFor

-----------------------------------------------------------------------------
(* The quick actions: what is known of every operation, and of the page. *)

OpOK(t) ==
  /\ op[t].kind = "none" => op[t] = Panel!Free
  /\ op[t].kind = "action" =>
       op[t].key \in Actions /\ op[t].overview = Unread /\ op[t].sites = Unread
  /\ op[t].change \in 0 .. rows
  /\ op[t].overview \in 0 .. rows \cup {Unread} /\ op[t].sites \in 0 .. rows \cup {Unread}

\* Two actions under way have overlapped, and so has one whose button is enabled: its key
\* was displaced or dropped by another one.
OverlapsOK ==
  \A t \in Slots : Panel!Acting(t) =>
    /\ pending # op[t].key => op[t].key \in overlaps
    /\ \A u \in Slots \ {t} : Panel!Acting(u) => op[t].key \in overlaps

\* Without a doubt, a refresh is alone, and what it has read is no older than the news.
Certain ==
  /\ \A t, u \in Slots : Panel!Fetching(t) /\ Panel!Fetching(u) => t = u
  /\ \A t \in Slots : Panel!Fetching(t) =>
       /\ op[t].overview # Unread => op[t].overview >= news
       /\ op[t].sites # Unread => op[t].sites >= news
  /\ (\A t \in Slots : ~Panel!Fetching(t)) => shown.overview >= news /\ shown.sites >= news

PanelInv ==
  /\ Panel!TypeOK
  /\ \A t \in Slots : OpOK(t)
  /\ ~mounted => \A t \in Slots : op[t] = Panel!Free
  /\ OverlapsOK
  /\ ~doubtful => Certain

-----------------------------------------------------------------------------
(* The steps of the session. *)

LEMMA Constants ==
  /\ NoTab \notin Tabs /\ NoToken \notin Tokens /\ NoAction \notin Actions
  /\ Refreshing \subseteq Actions /\ Unread \notin Nat /\ Desk \in Tabs
BY ConstantsOK DEF Session!ConstantsOK, Panel!ConstantsOK

\* What a slot holds, one field at a time.
LEMMA SlotParts ==
  ASSUME SessionInv, NEW t \in Slots
  PROVE  /\ req[t] \in Session!RequestState /\ RequestOK(t) /\ CallOK(t)
         /\ call[t] \in CallState
         /\ call[t].pc = "idle" => call[t] = Session!Server!Idle
         /\ call[t] # Session!Server!Idle =>
              call[t].pc \in {"opening", "asked", "granted"} /\ call[t].token \in Tokens
BY DEF SessionInv, CallState, Session!Server!Idle

\* The server has an answer for a request, or its end.
LEMMA ReplyStep ==
  ASSUME SessionInv, NEW t \in Slots, NEW o \in {"ok", "refused", "error"},
         req' = [req EXCEPT ![t] = [req[t] EXCEPT !.reply = o]],
         req[t].kind # "none", req[t].reply = "none",
         call' = [call EXCEPT ![t] = Session!Server!Idle],
         live' \subseteq live,
         req[t].kind = "login" => o # "ok",
         EndedBy([req[t] EXCEPT !.reply = o]) => req[t].token \notin live',
         UNCHANGED <<storage, tab, issued, lost>>
  PROVE  SessionInv'
<1>1. req' \in [Slots -> Session!RequestState]
  BY DEF SessionInv, Session!RequestState, Session!Replies
<1>2. call' \in [Slots -> CallState]  BY DEF SessionInv, CallState
<1>3. ASSUME NEW u \in Slots PROVE RequestOK(u)'
  BY <1>3 DEF SessionInv, RequestOK, EndedBy, Session!RequestState
<1>4. ASSUME NEW u \in Slots PROVE CallOK(u)'
  BY <1>4 DEF SessionInv, CallOK, CallState, Session!Server!Idle, Session!RequestState
<1>5. ASSUME NEW b \in Tabs PROVE TabOK(b)'
  BY <1>5 DEF SessionInv, TabOK, Session!RequestState
<1>6. Session!SessionsAccountedFor'
  BY DEF SessionInv, Session!SessionsAccountedFor, Session!Delivering, Session!RequestState
<1> QED  BY <1>1, <1>2, <1>3, <1>4, <1>5, <1>6 DEF SessionInv

LEMMA ServerReplies ==
  ASSUME SessionInv, NEW t \in Slots,
         \/ Session!RefuseAtOnce(t) \/ Session!Refuse(t) \/ Session!AnswerMe(t)
         \/ Session!CloseSession(t) \/ Session!ServerFails(t)
  PROVE  SessionInv'
<1> USE DEF Session!Reply, Session!Server!At, Session!Server!Leave
<1>0. /\ req[t] \in Session!RequestState /\ RequestOK(t) /\ CallOK(t)
      /\ call[t].pc = "idle" => call[t] = Session!Server!Idle
      /\ live \subseteq Tokens /\ NoToken \notin Tokens
      /\ call \in [Slots -> CallState] /\ req \in [Slots -> Session!RequestState]
  BY SlotParts, Constants DEF SessionInv
<1>1. CASE Session!RefuseAtOnce(t)
  <2>1. /\ req' = [req EXCEPT ![t] = [req[t] EXCEPT !.reply = "refused"]]
        /\ req[t].kind # "none" /\ req[t].reply = "none"
    BY <1>0, <1>1 DEF Session!RefuseAtOnce, Session!Arriving
  <2>2. call' = [call EXCEPT ![t] = Session!Server!Idle] /\ live' = live
    BY <1>0, <1>1 DEF Session!RefuseAtOnce, Session!Arriving, Session!sessions
  <2>3. req[t].token \notin live
    BY <1>0, <1>1, <2>1 DEF Session!RefuseAtOnce, RequestOK
  <2> QED  BY <1>1, <2>1, <2>2, <2>3, ReplyStep DEF Session!RefuseAtOnce
<1>2. CASE Session!Refuse(t)
  <2>1. /\ req' = [req EXCEPT ![t] = [req[t] EXCEPT !.reply = "refused"]]
        /\ call' = [call EXCEPT ![t] = Session!Server!Idle]
        /\ live' \subseteq live /\ req[t].token \notin live'
    BY <1>0, <1>2 DEF Session!Refuse, Session!Server!Refuse
  <2>2. req[t].kind # "none" /\ req[t].reply = "none"
    BY <1>0, <1>2 DEF Session!Refuse, Session!Server!Refuse, CallOK, Session!Server!Idle
  <2> QED  BY <1>2, <2>1, <2>2, ReplyStep DEF Session!Refuse
<1>3. CASE Session!AnswerMe(t)
  <2>1. /\ req' = [req EXCEPT ![t] = [req[t] EXCEPT !.reply = "ok"]]
        /\ call' = [call EXCEPT ![t] = Session!Server!Idle] /\ live' = live
        /\ req[t].kind = "me"
    BY <1>0, <1>3 DEF Session!AnswerMe, Session!Server!Finish
  <2>2. req[t].reply = "none"
    BY <1>0, <1>3 DEF Session!AnswerMe, CallOK, Session!Server!Idle
  <2>3. ~EndedBy([req[t] EXCEPT !.reply = "ok"])
    BY <1>0, <2>1 DEF EndedBy, Session!RequestState
  <2> QED  BY <1>3, <2>1, <2>2, <2>3, ReplyStep DEF Session!AnswerMe
<1>4. CASE Session!CloseSession(t)
  <2>1. /\ req' = [req EXCEPT ![t] = [req[t] EXCEPT !.reply = "ok"]]
        /\ call' = [call EXCEPT ![t] = Session!Server!Idle]
        /\ live' = live \ {call[t].token} /\ req[t].kind = "logout"
    BY <1>0, <1>4 DEF Session!CloseSession, Session!Server!Close
  <2>2. req[t].reply = "none" /\ call[t].token = req[t].token
    BY <1>0, <1>4 DEF Session!CloseSession, Session!Server!Close, CallOK, Session!Server!Idle
  <2> QED  BY <1>4, <2>1, <2>2, ReplyStep DEF Session!CloseSession
<1>5. CASE Session!ServerFails(t)
  <2>1. /\ req' = [req EXCEPT ![t] = [req[t] EXCEPT !.reply = "error"]]
        /\ call' = [call EXCEPT ![t] = Session!Server!Idle] /\ live' = live
        /\ req[t].kind # "none" /\ req[t].reply = "none"
    BY <1>0, <1>5 DEF Session!ServerFails, Session!Server!Finish, CallOK, Session!Server!Idle
  <2>2. ~EndedBy([req[t] EXCEPT !.reply = "error"])
    BY <1>0 DEF EndedBy, Session!RequestState
  <2> QED  BY <1>5, <2>1, <2>2, ReplyStep DEF Session!ServerFails
<1> QED  BY <1>1, <1>2, <1>3, <1>4, <1>5

\* The server takes a request on, and grants it; the tabs see nothing of it.
LEMMA CallFrame ==
  ASSUME SessionInv, NEW t \in Slots, NEW c \in CallState,
         call' = [call EXCEPT ![t] = c],
         UNCHANGED <<storage, tab, req, live, lost>>,
         issued \subseteq issued', issued' \subseteq Tokens,
         CallOK(t)',
         c.pc = "opening" => \A u \in Slots \ {t} : call[u].token # c.token
  PROVE  SessionInv'
<1>1. call' \in [Slots -> CallState]  BY DEF SessionInv
<1>2. ASSUME NEW u \in Slots PROVE RequestOK(u)'
  BY <1>2 DEF SessionInv, RequestOK
<1>3. ASSUME NEW u \in Slots PROVE CallOK(u)'
  BY <1>3 DEF SessionInv, CallOK
<1>4. ASSUME NEW b \in Tabs PROVE TabOK(b)'
  BY <1>4 DEF SessionInv, TabOK
<1>5. Session!SessionsAccountedFor'
  BY DEF SessionInv, Session!SessionsAccountedFor, Session!Delivering
<1> QED  BY <1>1, <1>2, <1>3, <1>4, <1>5 DEF SessionInv

LEMMA ServerGoesOn ==
  ASSUME SessionInv, NEW t \in Slots,
         \/ \E token \in Tokens : Session!AcceptLogin(t, token)
         \/ Session!Ask(t) \/ Session!Grant(t)
  PROVE  SessionInv'
<1> USE DEF Session!Server!At, Session!Server!Idle
<1>0. /\ req[t] \in Session!RequestState /\ RequestOK(t) /\ CallOK(t)
      /\ issued \subseteq Tokens /\ NoToken \notin Tokens
      /\ call \in [Slots -> CallState]
      /\ \A u \in Slots : req[u].token \in issued \cup {NoToken}
      /\ storage \in issued \cup {NoToken}
  BY SlotParts, Constants DEF SessionInv, RequestOK
<1>1. ASSUME NEW token \in Tokens, Session!AcceptLogin(t, token) PROVE SessionInv'
  <2> DEFINE c == [pc |-> "opening", token |-> token]
  <2>1. /\ call' = [call EXCEPT ![t] = c] /\ c \in CallState
        /\ UNCHANGED <<storage, tab, req, live, lost>>
        /\ token \notin issued /\ issued' = issued \cup {token}
        /\ req[t].kind = "login" /\ req[t].reply = "none"
    BY <1>0, <1>1 DEF Session!AcceptLogin, Session!Arriving, Session!Server!Issue, CallState
  <2>2. ASSUME NEW u \in Slots \ {t} PROVE call[u].token # token
    <3>1. call[u].pc = "opening" => call[u].token \in issued  BY DEF SessionInv, CallOK
    <3>2. call[u].pc \in {"asked", "granted"} => call[u].token \in issued \cup {NoToken}
      BY <1>0 DEF SessionInv, CallOK
    <3>3. call[u].pc \notin {"opening", "asked", "granted"} => call[u].token = NoToken
      BY <1>0 DEF CallState
    <3> QED  BY <1>0, <2>1, <3>1, <3>2, <3>3
  <2>3. CallOK(t)'  BY <1>0, <2>1, <2>2 DEF CallOK
  <2> QED  BY <1>0, <2>1, <2>2, <2>3, CallFrame
<1>2. CASE Session!Ask(t)
  <2> DEFINE c == [pc |-> "asked", token |-> req[t].token]
  <2>1. /\ call' = [call EXCEPT ![t] = c]
        /\ UNCHANGED <<storage, tab, req, live, issued, lost>>
        /\ req[t].token # NoToken /\ req[t].kind # "none" /\ req[t].reply = "none"
    BY <1>0, <1>2 DEF Session!Ask, Session!Arriving, Session!Server!Ask
  <2>2. c \in CallState  BY <1>0, <2>1 DEF CallState
  <2>3. req[t].kind \in {"me", "logout"}
    BY <1>0, <2>1 DEF RequestOK, Session!RequestState, Session!Kinds
  <2>4. CallOK(t)'  BY <1>0, <2>1, <2>3 DEF CallOK
  <2> QED  BY <1>0, <2>1, <2>2, <2>4, CallFrame
<1>3. CASE Session!Grant(t)
  <2> DEFINE c == [pc |-> "granted", token |-> call[t].token]
  <2>1. call[t].pc = "asked" /\ call[t] \in [pc : {"asked"}, token : Tokens]
    BY <1>0, <1>3 DEF Session!Grant, Session!Server!Grant, CallState
  <2>2. [call[t] EXCEPT !.pc = "granted"] = c /\ c \in CallState
    BY <2>1 DEF CallState
  <2>3. /\ call' = [call EXCEPT ![t] = c]
        /\ UNCHANGED <<storage, tab, req, live, issued, lost>>
    BY <1>3, <2>2 DEF Session!Grant, Session!Server!Grant
  <2>4. CallOK(t)'  BY <1>0, <2>1, <2>3 DEF CallOK
  <2> QED  BY <1>0, <2>2, <2>3, <2>4, CallFrame
<1> QED  BY <1>1, <1>2, <1>3

\* A login is answered with the session that it opens: its token is nowhere else yet.
LEMMA OpenStep ==
  ASSUME SessionInv, NEW t \in Slots, Session!OpenSession(t)
  PROVE  SessionInv'
<1> DEFINE k == call[t].token
           r == [req[t] EXCEPT !.reply = "ok", !.token = k]
<1>0. /\ req[t] \in Session!RequestState /\ CallOK(t)
      /\ call[t].pc = "opening" /\ call[t] # Session!Server!Idle
      /\ call \in [Slots -> CallState] /\ req \in [Slots -> Session!RequestState]
      /\ issued \subseteq Tokens /\ NoToken \notin Tokens
  BY SlotParts, Constants
     DEF SessionInv, Session!OpenSession, Session!Server!Open, Session!Server!At,
     Session!Server!Idle
<1>1. /\ req[t].kind = "login" /\ req[t].reply = "none"
      /\ k \in issued /\ k # storage /\ k # NoToken /\ k \in Tokens
      /\ \A u \in Slots : req[u].token # k
      /\ \A u \in Slots \ {t} : call[u].pc = "opening" => call[u].token # k
  BY <1>0 DEF CallOK
<1>2. /\ req' = [req EXCEPT ![t] = r]
      /\ call' = [call EXCEPT ![t] = Session!Server!Idle]
      /\ live' = live \cup {k}
      /\ lost' = IF req[t].tab = NoTab THEN lost \cup {k} ELSE lost
      /\ UNCHANGED <<storage, tab, issued>>
  BY <1>0 DEF Session!OpenSession, Session!Server!Open, Session!Server!Leave
<1>3. /\ r \in Session!RequestState
      /\ r.kind = "login" /\ r.tab = req[t].tab /\ r.token = k /\ r.reply = "ok"
  BY <1>0, <1>1 DEF Session!RequestState, Session!Replies
<1> HIDE DEF k, r
<1>4. req' \in [Slots -> Session!RequestState]  BY <1>0, <1>2, <1>3
<1>5. call' \in [Slots -> CallState]  BY <1>0, <1>2 DEF CallState
<1>6. ASSUME NEW u \in Slots PROVE RequestOK(u)'
  BY <1>0, <1>1, <1>2, <1>3, <1>6 DEF SessionInv, RequestOK, EndedBy
<1>7. ASSUME NEW u \in Slots PROVE CallOK(u)'
  BY <1>0, <1>1, <1>2, <1>3, <1>7 DEF SessionInv, CallOK, Session!Server!Idle
<1>8. ASSUME NEW b \in Tabs PROVE TabOK(b)'
  BY <1>0, <1>1, <1>2, <1>3, <1>8 DEF SessionInv, TabOK
<1>9. Session!SessionsAccountedFor'
  <2> SUFFICES ASSUME NEW token \in live \cup {k}
               PROVE  token = storage \/ token \in lost' \/
                      \E u \in Slots : /\ req'[u].kind = "login" /\ req'[u].tab # NoTab
                                       /\ req'[u].token = token
    BY <1>2 DEF Session!SessionsAccountedFor, Session!Delivering
  <2>1. req'[t] = r /\ \A u \in Slots \ {t} : req'[u] = req[u]  BY <1>0, <1>2
  <2>2. CASE token = k
    BY <1>2, <1>3, <2>1, <2>2
  <2>3. CASE token # k
    <3>1. token = storage \/ token \in lost \/
          \E u \in Slots : req[u].kind = "login" /\ req[u].tab # NoTab /\ req[u].token = token
      BY <2>3 DEF SessionInv, Session!SessionsAccountedFor, Session!Delivering
    <3>2. req[t].token = NoToken /\ token # NoToken
      BY <1>0, <1>1, <2>3 DEF SessionInv, RequestOK
    <3> QED  BY <1>2, <1>3, <2>1, <3>1, <3>2
  <2> QED  BY <2>2, <2>3
<1> QED  BY <1>0, <1>1, <1>2, <1>4, <1>5, <1>6, <1>7, <1>8, <1>9 DEF SessionInv

LEMMA RestartStep ==
  ASSUME SessionInv, Session!ServerRestarts
  PROVE  SessionInv'
<1> DEFINE r(t) == IF call[t] # Session!Server!Idle
                   THEN [req[t] EXCEPT !.reply = "error"] ELSE req[t]
<1>1. /\ req' = [t \in Slots |-> r(t)]
      /\ call' = [t \in Slots |-> Session!Server!Idle]
      /\ UNCHANGED <<live, storage, tab, issued, lost>>
  BY DEF Session!ServerRestarts, Session!Server!Restart
<1>2. ASSUME NEW t \in Slots
      PROVE  /\ r(t) \in Session!RequestState
             /\ r(t).kind = req[t].kind /\ r(t).tab = req[t].tab /\ r(t).token = req[t].token
             /\ r(t) = req[t] \/ (r(t).reply = "error" /\ req[t].kind # "none")
  BY <1>2 DEF SessionInv, CallOK, Session!RequestState, Session!Replies
<1> HIDE DEF r
<1>3. req' \in [Slots -> Session!RequestState]  BY <1>1, <1>2
<1>4. call' \in [Slots -> CallState]  BY <1>1 DEF CallState
<1>5. ASSUME NEW u \in Slots PROVE RequestOK(u)'
  BY <1>1, <1>2, <1>5 DEF SessionInv, RequestOK, EndedBy
<1>6. ASSUME NEW u \in Slots PROVE CallOK(u)'
  BY <1>1, <1>6 DEF CallOK, Session!Server!Idle
<1>7. ASSUME NEW b \in Tabs PROVE TabOK(b)'
  BY <1>1, <1>2, <1>7 DEF SessionInv, TabOK
<1>8. Session!SessionsAccountedFor'
  BY <1>1, <1>2 DEF SessionInv, Session!SessionsAccountedFor, Session!Delivering
<1> QED  BY <1>1, <1>3, <1>4, <1>5, <1>6, <1>7, <1>8 DEF SessionInv

LEMMA ExpiryStep ==
  ASSUME SessionInv, Session!SessionExpires
  PROVE  SessionInv'
<1>1. live' \subseteq live /\ UNCHANGED <<storage, tab, req, call, issued, lost>>
  BY DEF Session!SessionExpires
<1>2. ASSUME NEW u \in Slots PROVE RequestOK(u)' /\ CallOK(u)'
  BY <1>1, <1>2 DEF SessionInv, RequestOK, CallOK
<1>3. ASSUME NEW b \in Tabs PROVE TabOK(b)'
  BY <1>1, <1>3 DEF SessionInv, TabOK
<1>4. Session!SessionsAccountedFor'
  BY <1>1 DEF SessionInv, Session!SessionsAccountedFor, Session!Delivering
<1> QED  BY <1>1, <1>2, <1>3, <1>4 DEF SessionInv

LEMMA NavigateStep ==
  ASSUME SessionInv, NEW b \in Tabs, Session!Navigate(b)
  PROVE  SessionInv'
<1>1. PICK page \in {"app", "login"} : tab' = [tab EXCEPT ![b] = [tab[b] EXCEPT !.page = page]]
  BY DEF Session!Navigate
<1>2. tab[b].phase = "ready" /\ UNCHANGED <<storage, req, live, call, issued, lost>>
  BY DEF Session!Navigate, Session!sessions
<1>3. tab' \in [Tabs -> Session!TabState]
  BY <1>1 DEF SessionInv, Session!TabState, Session!Pages
<1>4. ASSUME NEW u \in Slots PROVE RequestOK(u)' /\ CallOK(u)'
  BY <1>2, <1>4 DEF SessionInv, RequestOK, CallOK
<1>5. ASSUME NEW a \in Tabs PROVE TabOK(a)'
  BY <1>1, <1>2, <1>5 DEF SessionInv, TabOK, Session!TabState
<1>6. Session!SessionsAccountedFor'
  BY <1>2 DEF SessionInv, Session!SessionsAccountedFor, Session!Delivering
<1> QED  BY <1>2, <1>3, <1>4, <1>5, <1>6 DEF SessionInv

\* A request leaves its tab, or its slot: what it was about to deliver is kept or counted.
LEMMA LeavingStep ==
  ASSUME SessionInv, NEW t \in Slots, NEW r \in {Session!Free, [req[t] EXCEPT !.tab = NoTab]},
         req' = [req EXCEPT ![t] = r],
         r = Session!Free => call[t] = Session!Server!Idle,
         storage' \in {storage, NoToken, req[t].token},
         tab' \in [Tabs -> Session!TabState],
         \A b \in Tabs : tab'[b] = tab[b] \/ (req[t].tab = b /\ tab'[b].phase = "ready"),
         req[t].kind = "me" => \A b \in Tabs : req[t].tab = b => tab'[b].phase = "ready",
         lost \subseteq lost', lost' \subseteq issued,
         storage \in {storage', NoToken} \cup lost' \/ storage \notin live,
         req[t].kind = "login" /\ req[t].tab # NoTab =>
           req[t].token \in {storage', NoToken} \cup lost',
         UNCHANGED <<live, call, issued>>
  PROVE  SessionInv'
<1>0. /\ req[t] \in Session!RequestState /\ RequestOK(t) /\ CallOK(t)
      /\ NoTab \notin Tabs /\ NoToken \notin Tokens
      /\ live \subseteq issued /\ issued \subseteq Tokens
      /\ req \in [Slots -> Session!RequestState] /\ call \in [Slots -> CallState]
  BY SlotParts, Constants DEF SessionInv
<1>1. /\ r \in Session!RequestState /\ r.tab = NoTab
      /\ r = Session!Free \/
           (r.kind = req[t].kind /\ r.token = req[t].token /\ r.reply = req[t].reply)
      /\ r.kind = "none" => r = Session!Free
      /\ Session!Free.kind = "none" /\ Session!Free.token = NoToken
      /\ Session!Free.reply = "none"
  BY <1>0 DEF Session!Free, Session!RequestState, Session!Kinds, Session!Replies, RequestOK
<1>2. req' \in [Slots -> Session!RequestState] /\ req'[t] = r
      /\ \A u \in Slots \ {t} : req'[u] = req[u]
  BY <1>0, <1>1
<1>3. storage' \in issued \cup {NoToken}
  BY <1>0 DEF SessionInv, RequestOK
<1>4. ASSUME NEW u \in Slots PROVE RequestOK(u)'
  <2>1. CASE u = t
    BY <1>0, <1>1, <1>2, <2>1 DEF RequestOK, EndedBy
  <2>2. CASE u # t
    BY <1>2, <2>2 DEF SessionInv, RequestOK
  <2> QED  BY <2>1, <2>2
<1>5. ASSUME NEW u \in Slots PROVE CallOK(u)'
  <2>1. CallOK(u) /\ CallOK(t)  BY <1>5 DEF SessionInv
  <2>2. call[u].pc = "opening" => call[u].token \in Tokens \ {storage'}
    BY <1>0, <2>1 DEF CallOK
  <2>3. call[u].pc = "opening" =>
          call[u].token \in issued /\ \A s \in Slots : req'[s].token # call[u].token
    BY <1>0, <1>1, <1>2, <2>1, <2>2 DEF CallOK
  <2>4. CASE u = t
    BY <1>0, <1>1, <1>2, <2>1, <2>2, <2>3, <2>4 DEF CallOK, Session!Server!Idle
  <2>5. CASE u # t
    BY <1>0, <1>2, <2>1, <2>2, <2>3, <2>5 DEF CallOK
  <2> QED  BY <2>4, <2>5
<1>6. ASSUME NEW b \in Tabs PROVE TabOK(b)'
  <2>1. TabOK(b) /\ b # NoTab  BY <1>0, <1>6 DEF SessionInv
  <2>2. \A u \in Slots : req'[u].tab = b => u # t /\ req'[u] = req[u]
    BY <1>1, <1>2, <2>1
  <2>3. CASE req[t].tab = b /\ req[t].kind = "me"
    <3>1. ~\E u \in Slots : req'[u].tab = b /\ req'[u].kind = "me"
      BY <2>1, <2>2, <2>3 DEF TabOK
    <3> QED  BY <2>3, <3>1 DEF TabOK
  <2>4. CASE ~(req[t].tab = b /\ req[t].kind = "me")
    <3>1. (\E u \in Slots : req'[u].tab = b /\ req'[u].kind = "me") <=>
            tab[b].phase = "loading"
      BY <1>2, <2>1, <2>2, <2>4 DEF TabOK
    <3>2. req[t].tab = b => tab[b].phase # "loading"
      BY <2>1, <2>4 DEF TabOK
    <3> QED  BY <2>1, <2>2, <3>1, <3>2 DEF TabOK
  <2> QED  BY <2>3, <2>4
<1>7. Session!SessionsAccountedFor'
  <2> SUFFICES ASSUME NEW k \in live
               PROVE  k = storage' \/ k \in lost' \/
                      \E u \in Slots : /\ req'[u].kind = "login" /\ req'[u].tab # NoTab
                                       /\ req'[u].token = k
    BY DEF Session!SessionsAccountedFor, Session!Delivering
  <2>1. k # NoToken  BY <1>0
  <2>2. \/ k = storage \/ k \in lost
        \/ \E u \in Slots : req[u].kind = "login" /\ req[u].tab # NoTab /\ req[u].token = k
    BY DEF SessionInv, Session!SessionsAccountedFor, Session!Delivering
  <2> QED  BY <1>2, <2>1, <2>2
<1> QED  BY <1>0, <1>2, <1>3, <1>4, <1>5, <1>6, <1>7 DEF SessionInv

\* What the browser makes of an answer, or of an error in its place.
LEMMA HandleStep ==
  ASSUME SessionInv, NEW t \in Slots, NEW o \in {"ok", "refused", "error"},
         NEW r \in {Session!Free, [req[t] EXCEPT !.tab = NoTab]},
         req[t].tab # NoTab, o \in {req[t].reply, "error"},
         Session!Handle(t, o),
         req' = [req EXCEPT ![t] = r],
         r = Session!Free => call[t] = Session!Server!Idle,
         UNCHANGED <<live, call, issued>>
  PROVE  SessionInv'
<1> DEFINE b == req[t].tab
<1> USE DEF Session!Clear, Session!Store
<1>0. /\ req[t] \in Session!RequestState /\ RequestOK(t)
      /\ b \in Tabs /\ NoTab \notin Tabs /\ NoToken \notin Tokens
      /\ tab \in [Tabs -> Session!TabState] /\ tab[b] \in Session!TabState
      /\ storage \in issued \cup {NoToken} /\ req[t].token \in issued \cup {NoToken}
      /\ live \subseteq issued /\ issued \subseteq Tokens /\ lost \subseteq issued
  BY SlotParts, Constants DEF SessionInv, Session!RequestState, RequestOK
<1>1. req[t].kind \in {"me", "login", "logout"}
  BY <1>0 DEF RequestOK, Session!Free, Session!RequestState, Session!Kinds
<1>a. ASSUME NEW x \in Session!TabState, x.phase = "ready", tab' = [tab EXCEPT ![b] = x]
      PROVE  /\ tab' \in [Tabs -> Session!TabState] /\ tab'[b].phase = "ready"
             /\ \A a \in Tabs : tab'[a] = tab[a] \/ (a = b /\ tab'[a].phase = "ready")
  BY <1>0, <1>a
<1>b. /\ \A page \in Session!Pages : Session!SignedOut(page) \in Session!TabState
      /\ \A page : Session!SignedOut(page).phase = "ready"
      /\ \A k \in Tokens \cup {NoToken} :
           Session!SignedIn(k) \in Session!TabState /\ Session!SignedIn(k).phase = "ready"
  BY DEF Session!SignedOut, Session!SignedIn, Session!TabState, Session!Phases, Session!Pages
<1>c. tab[b].token \in Tokens \cup {NoToken} /\ tab[b].page \in Session!Pages
      /\ "login" \in Session!Pages
  BY <1>0 DEF Session!TabState, Session!Pages
<1>d. ASSUME Session!Clear(t, o),
             o # "error" /\ storage = req[t].token => storage \notin live
      PROVE  /\ storage' = NoToken /\ lost \subseteq lost' /\ lost' \subseteq issued
             /\ storage \in {storage', NoToken} \cup lost' \/ storage \notin live
  BY <1>0, <1>d
<1>2. CASE req[t].kind = "me"
  <2>1. Session!Loaded(t, b, o)  BY <1>2 DEF Session!Handle
  <2>2. CASE o = "ok"
    <3>1. tab' = [tab EXCEPT ![b] = Session!SignedIn(tab[b].token)]
          /\ UNCHANGED <<storage, lost>>
      BY <2>1, <2>2 DEF Session!Loaded
    <3> QED  BY <1>0, <1>2, <1>a, <1>b, <1>c, <3>1, LeavingStep
  <2>3. CASE o # "ok"
    <3>1. tab' = [tab EXCEPT ![b] = Session!SignedOut("login")] /\ Session!Clear(t, o)
      BY <2>1, <2>3 DEF Session!Loaded
    <3>2. o # "error" => req[t].token \notin live
      BY <1>0, <1>2, <2>3 DEF RequestOK, EndedBy
    <3>3. /\ tab' \in [Tabs -> Session!TabState] /\ tab'[b].phase = "ready"
          /\ \A a \in Tabs : tab'[a] = tab[a] \/ (a = b /\ tab'[a].phase = "ready")
      BY <1>a, <1>b, <1>c, <3>1
    <3>4. /\ storage' = NoToken /\ lost \subseteq lost' /\ lost' \subseteq issued
          /\ storage \in {storage', NoToken} \cup lost' \/ storage \notin live
      BY <1>d, <3>1, <3>2
    <3> QED  BY <1>0, <1>2, <3>3, <3>4, LeavingStep
  <2> QED  BY <2>2, <2>3
<1>3. CASE req[t].kind = "login"
  <2>1. Session!LoggedIn(t, b, o)  BY <1>3 DEF Session!Handle
  <2>2. CASE o = "ok"
    <3>1. /\ tab' = [tab EXCEPT ![b] = Session!SignedIn(req[t].token)]
          /\ storage' = req[t].token
          /\ lost' = lost \cup ({storage} \ {req[t].token, NoToken})
      BY <2>1, <2>2 DEF Session!LoggedIn
    <3>2. /\ tab' \in [Tabs -> Session!TabState] /\ tab'[b].phase = "ready"
          /\ \A a \in Tabs : tab'[a] = tab[a] \/ (a = b /\ tab'[a].phase = "ready")
      BY <1>0, <1>a, <1>b, <3>1
    <3> QED  BY <1>0, <1>3, <3>1, <3>2, LeavingStep
  <2>3. CASE o # "ok"
    <3>1. /\ UNCHANGED <<tab, storage>>
          /\ lost' = lost \cup ({req[t].token} \ {NoToken})
      BY <2>1, <2>3 DEF Session!LoggedIn
    <3> QED  BY <1>0, <1>3, <3>1, LeavingStep
  <2> QED  BY <2>2, <2>3
<1>4. CASE req[t].kind = "logout"
  <2>1. PICK page \in {"login", tab[b].page} :
          tab' = [tab EXCEPT ![b] = Session!SignedOut(page)]
    BY <1>4 DEF Session!Handle, Session!LoggedOut
  <2>2. Session!Clear(t, o)  BY <1>4 DEF Session!Handle, Session!LoggedOut
  <2>3. o # "error" => req[t].token \notin live
    BY <1>0, <1>4 DEF RequestOK, EndedBy
  <2>4. /\ tab' \in [Tabs -> Session!TabState] /\ tab'[b].phase = "ready"
        /\ \A a \in Tabs : tab'[a] = tab[a] \/ (a = b /\ tab'[a].phase = "ready")
    BY <1>a, <1>b, <1>c, <2>1
  <2>5. /\ storage' = NoToken /\ lost \subseteq lost' /\ lost' \subseteq issued
        /\ storage \in {storage', NoToken} \cup lost' \/ storage \notin live
    BY <1>d, <2>2, <2>3
  <2> QED  BY <1>0, <1>4, <2>4, <2>5, LeavingStep
<1> QED  BY <1>1, <1>2, <1>3, <1>4

LEMMA AnswerStep ==
  ASSUME SessionInv, NEW t \in Slots,
         Session!Receive(t) \/ Session!ConnectionBreaks(t) \/ Session!Vanish(t)
  PROVE  SessionInv'
<1>0. /\ req[t] \in Session!RequestState /\ CallOK(t) /\ lost \subseteq issued
      /\ req \in [Slots -> Session!RequestState]
  BY SlotParts DEF SessionInv
<1>1. CASE Session!Receive(t)
  <2>1. req[t].reply \in {"ok", "refused", "error"} /\ call[t] = Session!Server!Idle
    BY <1>0, <1>1 DEF Session!Receive, Session!RequestState, Session!Replies, CallOK
  <2> QED  BY <1>1, <2>1, HandleStep DEF Session!Receive, Session!sessions
<1>2. CASE Session!ConnectionBreaks(t)
  <2> DEFINE r == [req[t] EXCEPT !.tab = NoTab]
  <2>1. req' = [req EXCEPT ![t] = r] /\ req[t].tab # NoTab /\ Session!Handle(t, "error")
        /\ UNCHANGED <<live, call, issued>>
    BY <1>2 DEF Session!ConnectionBreaks, Session!sessions
  <2>2. req[t].kind # "none"
    BY <2>1, SlotParts DEF RequestOK, Session!Free
  <2>3. r # Session!Free
    BY <1>0, <2>2 DEF Session!Free, Session!RequestState
  <2> QED  BY <2>1, <2>3, HandleStep
<1>3. CASE Session!Vanish(t)
  <2>1. /\ req[t].tab = NoTab /\ call[t] = Session!Server!Idle
        /\ req' = [req EXCEPT ![t] = Session!Free]
        /\ UNCHANGED <<storage, tab, live, call, issued, lost>>
    BY <1>3 DEF Session!Vanish, Session!sessions
  <2>2. tab \in [Tabs -> Session!TabState] /\ \A b \in Tabs : b # NoTab
    BY Constants DEF SessionInv
  <2> QED  BY <1>0, <2>1, <2>2, LeavingStep
<1> QED  BY <1>1, <1>2, <1>3

\* A tab that is opened or reloaded leaves what it had asked before, and counts it.
LEMMA LeftSlots ==
  ASSUME SessionInv, NEW b \in Tabs, NEW t \in Slots
  PROVE  LET left == Session!Abandoned(b)[t] IN
         /\ left \in Session!RequestState
         /\ left.kind = req[t].kind /\ left.token = req[t].token /\ left.reply = req[t].reply
         /\ left.tab = IF req[t].tab = b THEN NoTab ELSE req[t].tab
         /\ req[t] = Session!Free => left = Session!Free
<1>1. req[t] \in Session!RequestState /\ b # NoTab  BY SlotParts, Constants
<1> QED  BY <1>1 DEF Session!Abandoned, Session!RequestState, Session!Free

LEMMA LeftTokens ==
  ASSUME SessionInv, NEW b \in Tabs
  PROVE  /\ Session!OnTheirWay(b) \subseteq issued
         /\ \A t \in Slots :
              req[t].tab = b /\ req[t].kind = "login" /\ req[t].token # NoToken =>
                req[t].token \in Session!OnTheirWay(b)
BY DEF SessionInv, RequestOK, Session!OnTheirWay

LEMMA LoadWithoutTokenStep ==
  ASSUME SessionInv, NEW b \in Tabs, Session!LoadWithoutToken(b)
  PROVE  SessionInv'
<1> DEFINE left == Session!Abandoned(b)
           way == Session!OnTheirWay(b)
<1>0. /\ NoTab \notin Tabs /\ NoToken \notin Tokens /\ b # NoTab
      /\ tab \in [Tabs -> Session!TabState] /\ live \subseteq Tokens
  BY Constants DEF SessionInv
<1>1. /\ tab' = [tab EXCEPT ![b] = Session!SignedOut("login")]
      /\ req' = left /\ lost' = lost \cup way
      /\ UNCHANGED <<storage, live, call, issued>>
  BY DEF Session!LoadWithoutToken, Session!sessions
<1>2. /\ Session!SignedOut("login") \in Session!TabState
      /\ Session!SignedOut("login").phase = "ready"
  BY DEF Session!SignedOut, Session!TabState, Session!Phases, Session!Pages
<1>3. left \in [Slots -> Session!RequestState]
  BY LeftSlots DEF Session!Abandoned
<1>4. ASSUME NEW u \in Slots
      PROVE  /\ left[u].kind = req[u].kind /\ left[u].token = req[u].token
             /\ left[u].reply = req[u].reply
             /\ left[u].tab = IF req[u].tab = b THEN NoTab ELSE req[u].tab
             /\ req[u] = Session!Free => left[u] = Session!Free
  BY <1>4, LeftSlots
<1>5. way \subseteq issued /\ \A u \in Slots :
        req[u].tab = b /\ req[u].kind = "login" /\ req[u].token # NoToken =>
          req[u].token \in way
  BY LeftTokens
<1> HIDE DEF left, way
<1>6. ASSUME NEW u \in Slots PROVE RequestOK(u)'
  BY <1>1, <1>4, <1>6 DEF SessionInv, RequestOK, EndedBy
<1>7. ASSUME NEW u \in Slots PROVE CallOK(u)'
  BY <1>1, <1>4, <1>7 DEF SessionInv, CallOK
<1>8. ASSUME NEW a \in Tabs PROVE TabOK(a)'
  BY <1>0, <1>1, <1>2, <1>4, <1>8 DEF SessionInv, TabOK
<1>9. Session!SessionsAccountedFor'
  BY <1>0, <1>1, <1>4, <1>5 DEF SessionInv, Session!SessionsAccountedFor, Session!Delivering
<1> QED
  BY <1>0, <1>1, <1>2, <1>3, <1>5, <1>6, <1>7, <1>8, <1>9 DEF SessionInv

LEMMA LoadWithTokenStep ==
  ASSUME SessionInv, NEW b \in Tabs, NEW t \in Slots, Session!LoadWithToken(b, t)
  PROVE  SessionInv'
<1> DEFINE left == Session!Abandoned(b)
           way == Session!OnTheirWay(b)
           n == [kind |-> "me", tab |-> b, token |-> storage, reply |-> "none"]
           x == [Session!Closed EXCEPT !.phase = "loading", !.token = storage]
<1>0. /\ NoTab \notin Tabs /\ NoToken \notin Tokens /\ b # NoTab
      /\ tab \in [Tabs -> Session!TabState] /\ live \subseteq Tokens
      /\ storage \in issued \cup {NoToken} /\ storage \in Tokens \cup {NoToken}
  BY Constants DEF SessionInv
<1>1. /\ tab' = [tab EXCEPT ![b] = x] /\ req[t] = Session!Free
      /\ req' = [left EXCEPT ![t] = n] /\ lost' = lost \cup way
      /\ UNCHANGED <<storage, live, call, issued>>
  BY DEF Session!LoadWithToken, Session!sessions
<1>2. x \in Session!TabState /\ x.phase = "loading" /\ x.page = "none"
  BY <1>0 DEF Session!Closed, Session!TabState, Session!Phases, Session!Pages
<1>3. left \in [Slots -> Session!RequestState] /\ n \in Session!RequestState
  BY <1>0, LeftSlots
     DEF Session!Abandoned, Session!RequestState, Session!Kinds, Session!Replies
<1>4. ASSUME NEW u \in Slots
      PROVE  /\ left[u].kind = req[u].kind /\ left[u].token = req[u].token
             /\ left[u].reply = req[u].reply
             /\ left[u].tab = IF req[u].tab = b THEN NoTab ELSE req[u].tab
             /\ req[u] = Session!Free => left[u] = Session!Free
  BY <1>4, LeftSlots
<1>5. way \subseteq issued /\ \A u \in Slots :
        req[u].tab = b /\ req[u].kind = "login" /\ req[u].token # NoToken =>
          req[u].token \in way
  BY LeftTokens
<1>6. /\ req'[t].kind = "me" /\ req'[t].tab = b /\ req'[t].token = storage
      /\ req'[t].reply = "none" /\ \A u \in Slots \ {t} : req'[u] = left[u]
  BY <1>1, <1>3
<1>7. req[t].kind = "none" /\ req[t].tab = NoTab  BY <1>1 DEF Session!Free
<1> HIDE DEF left, way, n, x
<1>8. ASSUME NEW u \in Slots PROVE RequestOK(u)'
  BY <1>0, <1>1, <1>4, <1>6, <1>8 DEF SessionInv, RequestOK, EndedBy
<1>9. ASSUME NEW u \in Slots PROVE CallOK(u)'
  BY <1>1, <1>4, <1>6, <1>7, <1>9 DEF SessionInv, CallOK, Session!Server!Idle
<1>10. ASSUME NEW a \in Tabs PROVE TabOK(a)'
  <2>1. TabOK(a) /\ a # NoTab  BY <1>0, <1>10 DEF SessionInv
  <2>2. CASE a = b
    <3>1. tab'[a].phase = "loading" /\ tab'[a].page = "none"  BY <1>0, <1>1, <1>2, <2>2
    <3>2. \A u \in Slots : req'[u].tab = a => u = t  BY <1>0, <1>4, <1>6, <2>2
    <3> QED  BY <1>6, <2>2, <3>1, <3>2 DEF TabOK
  <2>3. CASE a # b
    <3>1. tab'[a] = tab[a]  BY <1>0, <1>1, <2>3
    <3>2. \A u \in Slots :
            /\ req'[u].tab = a <=> req[u].tab = a
            /\ req'[u].tab = a => req'[u].kind = req[u].kind
      BY <1>4, <1>6, <1>7, <2>1, <2>3
    <3> QED  BY <2>1, <3>1, <3>2 DEF TabOK
  <2> QED  BY <2>2, <2>3
<1>11. Session!SessionsAccountedFor'
  BY <1>0, <1>1, <1>4, <1>5, <1>6, <1>7
     DEF SessionInv, Session!SessionsAccountedFor, Session!Delivering
<1> QED
  BY <1>0, <1>1, <1>2, <1>3, <1>5, <1>8, <1>9, <1>10, <1>11 DEF SessionInv

\* A login, and a logout with the session of the storage.
LEMMA SendStep ==
  ASSUME SessionInv, NEW b \in Tabs, NEW t \in Slots,
         Session!SubmitLogin(b, t) \/ Session!SignOut(b, t)
  PROVE  SessionInv'
<1>0. /\ storage \in issued \cup {NoToken} /\ issued \subseteq Tokens
      /\ req \in [Slots -> Session!RequestState]
  BY DEF SessionInv
<1>1. PICK kind \in {"login", "logout"}, token \in {NoToken, storage} :
        /\ req' = [req EXCEPT ![t] =
                     [kind |-> kind, tab |-> b, token |-> token, reply |-> "none"]]
        /\ kind = "login" => token = NoToken
  BY DEF Session!SubmitLogin, Session!SignOut, Session!Send
<1> DEFINE n == [kind |-> kind, tab |-> b, token |-> token, reply |-> "none"]
<1>2. /\ req[t] = Session!Free /\ tab[b].page \in {"login", "app"}
      /\ UNCHANGED <<storage, tab, live, call, issued, lost>>
  BY DEF Session!SubmitLogin, Session!SignOut, Session!Send, Session!sessions
<1>3. n \in Session!RequestState
  BY <1>0 DEF Session!RequestState, Session!Kinds, Session!Replies
<1>4. req' \in [Slots -> Session!RequestState]  BY <1>0, <1>1, <1>3
<1>5. /\ req'[t].kind = kind /\ req'[t].tab = b /\ req'[t].token = token
      /\ req'[t].reply = "none" /\ \A u \in Slots \ {t} : req'[u] = req[u]
  BY <1>0, <1>1
<1>6. req[t].kind = "none" /\ req[t].tab = NoTab /\ tab[b].phase # "loading"
  BY <1>2 DEF Session!Free, SessionInv, TabOK
<1> HIDE DEF n
<1>7. ASSUME NEW u \in Slots PROVE RequestOK(u)'
  BY <1>0, <1>1, <1>2, <1>5, <1>7 DEF SessionInv, RequestOK, EndedBy
<1>8. ASSUME NEW u \in Slots PROVE CallOK(u)'
  <2>1. CallOK(u) /\ NoToken \notin Tokens  BY <1>8, Constants DEF SessionInv
  <2>2. call[u].pc = "opening" => call[u].token # token
    BY <1>0, <2>1 DEF CallOK
  <2> QED  BY <1>2, <1>5, <1>6, <2>1, <2>2 DEF CallOK, Session!Server!Idle
<1>9. ASSUME NEW a \in Tabs PROVE TabOK(a)'
  <2>1. TabOK(a) /\ a # NoTab  BY <1>9, Constants DEF SessionInv
  <2>2. CASE a = b
    <3>1. ~\E u \in Slots : req[u].tab = b /\ req[u].kind = "me"  BY <1>6, <2>1, <2>2 DEF TabOK
    <3> QED  BY <1>1, <1>2, <1>5, <1>6, <2>2, <3>1 DEF TabOK
  <2>3. CASE a # b
    BY <1>2, <1>5, <1>6, <2>1, <2>3 DEF TabOK
  <2> QED  BY <2>2, <2>3
<1>10. Session!SessionsAccountedFor'
  BY <1>2, <1>5, <1>6 DEF SessionInv, Session!SessionsAccountedFor, Session!Delivering
<1> QED  BY <1>2, <1>4, <1>7, <1>8, <1>9, <1>10 DEF SessionInv

LEMMA SessionStepKeeps == SessionInv /\ [Session!Next]_(Session!vars) => SessionInv'
<1> SUFFICES ASSUME SessionInv, [Session!Next]_(Session!vars) PROVE SessionInv'
  OBVIOUS
<1>1. CASE Session!Next
  BY <1>1, LoadWithoutTokenStep, LoadWithTokenStep, SendStep, NavigateStep, AnswerStep,
     ServerReplies, ServerGoesOn, OpenStep, RestartStep, ExpiryStep
     DEF Session!Next, Session!ServerStep
<1>2. CASE UNCHANGED Session!vars
  <2>1. ASSUME NEW u \in Slots PROVE RequestOK(u)' /\ CallOK(u)'
    BY <1>2, <2>1 DEF SessionInv, RequestOK, CallOK, Session!vars, Session!sessions
  <2>2. ASSUME NEW b \in Tabs PROVE TabOK(b)'
    BY <1>2, <2>2 DEF SessionInv, TabOK, Session!vars
  <2> QED
    BY <1>2, <2>1, <2>2 DEF SessionInv, Session!vars, Session!sessions,
       Session!SessionsAccountedFor, Session!Delivering
<1> QED  BY <1>1, <1>2

LEMMA SessionStart == Session!Init => SessionInv
<1> SUFFICES ASSUME Session!Init PROVE SessionInv
  OBVIOUS
<1>1. /\ storage = NoToken /\ tab = [b \in Tabs |-> Session!Closed]
      /\ req = [t \in Slots |-> Session!Free] /\ live = {}
      /\ call = [t \in Slots |-> Session!Server!Idle] /\ issued = {} /\ lost = {}
  BY DEF Session!Init, Session!Server!Init
<1>2. Session!Closed \in Session!TabState /\ Session!Closed.phase = "closed"
  BY DEF Session!Closed, Session!TabState, Session!Phases, Session!Pages
<1>3. /\ Session!Free \in Session!RequestState
      /\ Session!Free.kind = "none" /\ Session!Free.tab = NoTab
      /\ Session!Free.token = NoToken
  BY DEF Session!Free, Session!RequestState, Session!Kinds, Session!Replies
<1>4. ASSUME NEW t \in Slots PROVE RequestOK(t) /\ CallOK(t)
  BY <1>1, <1>3, <1>4 DEF RequestOK, CallOK, EndedBy, Session!Server!Idle
<1>5. ASSUME NEW b \in Tabs PROVE TabOK(b)
  BY <1>1, <1>2, <1>3, <1>5 DEF TabOK
<1>6. call \in [Slots -> CallState]  BY <1>1 DEF CallState
<1> QED
  BY <1>1, <1>2, <1>3, <1>4, <1>5, <1>6 DEF SessionInv, Session!SessionsAccountedFor

-----------------------------------------------------------------------------
(* The steps of the quick actions. *)

LEMMA Counted ==
  ASSUME PanelInv, NEW t \in Slots
  PROVE  /\ op[t] \in Panel!Operation /\ OpOK(t)
         /\ rows \in Nat /\ news \in 0 .. rows
         /\ op[t].overview # Unread => op[t].overview \in 0 .. rows
         /\ op[t].sites # Unread => op[t].sites \in 0 .. rows
BY Constants DEF PanelInv, Panel!TypeOK, OpOK

LEMMA FreeOp ==
  /\ Panel!Free \in Panel!Operation
  /\ Panel!Free.kind = "none" /\ Panel!Free.change = 0
  /\ Panel!Free.overview = Unread /\ Panel!Free.sites = Unread
BY Constants DEF Panel!Free, Panel!Operation, Panel!Kinds, Panel!Replies

LEMMA RefreshOp ==
  /\ Panel!Refresh \in Panel!Operation
  /\ Panel!Refresh.kind = "refresh" /\ Panel!Refresh.change = 0
  /\ Panel!Refresh.overview = Unread /\ Panel!Refresh.sites = Unread
BY Constants DEF Panel!Free, Panel!Refresh, Panel!Operation, Panel!Kinds, Panel!Replies

LEMMA ActionOp ==
  ASSUME NEW key \in Actions
  PROVE  /\ Panel!Action(key) \in Panel!Operation
         /\ Panel!Action(key).kind = "action" /\ Panel!Action(key).key = key
         /\ Panel!Action(key).change = 0
         /\ Panel!Action(key).overview = Unread /\ Panel!Action(key).sites = Unread
BY Constants DEF Panel!Free, Panel!Action, Panel!Operation, Panel!Kinds, Panel!Replies

\* An operation goes on, or is answered, and keeps its kind and key; what it reads is as
\* new as the server.
Onward(t, r) ==
  /\ r \in Panel!Operation
  /\ r.kind = op[t].kind /\ r.key = op[t].key /\ r.kind # "none"
  /\ r.change \in {op[t].change, rows'}
  /\ r.overview = op[t].overview \/ (r.kind = "refresh" /\ r.overview = rows)
  /\ r.sites = op[t].sites \/ (r.kind = "refresh" /\ r.sites = rows)

LEMMA OnwardStep ==
  ASSUME PanelInv, NEW t \in Slots, NEW r, Onward(t, r), op' = [op EXCEPT ![t] = r],
         rows' \in {rows, rows + 1},
         UNCHANGED <<mounted, pending, shown, news, overlaps, doubtful>>
  PROVE  PanelInv'
<1>0. /\ rows \in Nat /\ news \in 0 .. rows /\ rows' \in Nat /\ rows <= rows'
      /\ op \in [Slots -> Panel!Operation] /\ Unread \notin Nat
      /\ shown \in [overview : 0 .. rows, sites : 0 .. rows]
      /\ r \in Panel!Operation
  BY Constants DEF PanelInv, Panel!TypeOK, Onward
<1>1. op' \in [Slots -> Panel!Operation] /\ op'[t] = r /\ \A u \in Slots \ {t} : op'[u] = op[u]
  BY <1>0
<1>2. news \in 0 .. rows' /\ shown \in [overview : 0 .. rows', sites : 0 .. rows']
  BY <1>0
<1>3. Panel!TypeOK'  BY <1>0, <1>1, <1>2 DEF PanelInv, Panel!TypeOK
<1>4. ASSUME NEW u \in Slots PROVE OpOK(u)'
  <2>1. OpOK(u) /\ OpOK(t)  BY <1>4, Counted
  <2>2. CASE u = t
    BY <1>0, <1>1, <2>1, <2>2 DEF OpOK, Onward
  <2>3. CASE u # t
    BY <1>0, <1>1, <2>1, <2>3 DEF OpOK
  <2> QED  BY <2>2, <2>3
<1>5. mounted
  BY FreeOp DEF PanelInv, Onward
<1>6. OverlapsOK'
  BY <1>1 DEF PanelInv, OverlapsOK, Panel!Acting, Onward
<1>7. ASSUME ~doubtful PROVE Certain'
  <2>1. Certain  BY <1>7 DEF PanelInv
  <2> QED  BY <1>0, <1>1, <2>1 DEF Certain, Panel!Fetching, Onward
<1> QED  BY <1>3, <1>4, <1>5, <1>6, <1>7 DEF PanelInv

LEMMA WaitingStep ==
  ASSUME PanelInv, NEW t \in Slots,
         \/ \E outcome \in {"ok", "error"} : Panel!CarryOut(t, outcome)
         \/ Panel!Refuse(t) \/ Panel!ReadOverview(t) \/ Panel!ReadSites(t)
  PROVE  PanelInv'
<1> USE DEF Panel!page, Panel!history, Panel!Acting, Panel!Fetching
<1>0. op[t] \in Panel!Operation /\ rows \in Nat /\ op \in [Slots -> Panel!Operation]
  BY Counted DEF PanelInv, Panel!TypeOK
<1>1. ASSUME NEW o \in {"ok", "error"}, Panel!CarryOut(t, o) PROVE PanelInv'
  <2> DEFINE r == [op[t] EXCEPT !.reply = o, !.change = rows + 1]
             s == [op[t] EXCEPT !.reply = o]
  <2>1. CASE op[t].key \in Refreshing
    <3>1. op' = [op EXCEPT ![t] = r] /\ rows' = rows + 1
      BY <1>0, <1>1, <2>1 DEF Panel!CarryOut
    <3>2. Onward(t, r)
      BY <1>0, <1>1, <3>1 DEF Onward, Panel!CarryOut, Panel!Operation, Panel!Replies
    <3> QED  BY <1>1, <3>1, <3>2, OnwardStep DEF Panel!CarryOut
  <2>2. CASE op[t].key \notin Refreshing
    <3>1. op' = [op EXCEPT ![t] = s] /\ rows' = rows
      BY <1>0, <1>1, <2>2 DEF Panel!CarryOut
    <3>2. Onward(t, s)
      BY <1>0, <1>1, <3>1 DEF Onward, Panel!CarryOut, Panel!Operation, Panel!Replies
    <3> QED  BY <1>1, <3>1, <3>2, OnwardStep DEF Panel!CarryOut
  <2> QED  BY <2>1, <2>2
<1>2. CASE Panel!Refuse(t)
  <2> DEFINE r == [op[t] EXCEPT !.reply = "error"]
  <2>1. op' = [op EXCEPT ![t] = r]  BY <1>2 DEF Panel!Refuse
  <2>2. Onward(t, r)
    BY <1>0, <1>2 DEF Onward, Panel!Refuse, Panel!Operation, Panel!Replies
  <2> QED  BY <1>2, <2>1, <2>2, OnwardStep DEF Panel!Refuse
<1>3. CASE Panel!ReadOverview(t)
  <2> DEFINE r == [op[t] EXCEPT !.overview = rows]
  <2>1. op' = [op EXCEPT ![t] = r]  BY <1>3 DEF Panel!ReadOverview
  <2>2. Onward(t, r)  BY <1>0, <1>3 DEF Onward, Panel!ReadOverview, Panel!Operation
  <2> QED  BY <1>3, <2>1, <2>2, OnwardStep DEF Panel!ReadOverview
<1>4. CASE Panel!ReadSites(t)
  <2> DEFINE r == [op[t] EXCEPT !.sites = rows]
  <2>1. op' = [op EXCEPT ![t] = r]  BY <1>4 DEF Panel!ReadSites
  <2>2. Onward(t, r)  BY <1>0, <1>4 DEF Onward, Panel!ReadSites, Panel!Operation
  <2> QED  BY <1>4, <2>1, <2>2, OnwardStep DEF Panel!ReadSites
<1> QED  BY <1>1, <1>2, <1>3, <1>4

\* An operation begins, or is over: what the other slots hold is what it was.
LEMMA TurnStep ==
  ASSUME PanelInv, NEW t \in Slots, NEW r \in Panel!Operation, op' = [op EXCEPT ![t] = r],
         rows' = rows, pending' \in Actions \cup {NoAction},
         r.kind = "none" => r = Panel!Free,
         r.kind = "action" => r.key \in Actions,
         r.change = 0 /\ r.overview = Unread /\ r.sites = Unread,
         mounted' \in BOOLEAN, mounted',
         news' \in 0 .. rows, shown' \in [overview : 0 .. rows, sites : 0 .. rows],
         overlaps' \subseteq Actions, doubtful' \in BOOLEAN,
         OverlapsOK', ~doubtful' => Certain'
  PROVE  PanelInv'
<1>1. op' \in [Slots -> Panel!Operation] /\ op'[t] = r /\ \A u \in Slots \ {t} : op'[u] = op[u]
  BY DEF PanelInv, Panel!TypeOK
<1>2. Panel!TypeOK'  BY <1>1 DEF PanelInv, Panel!TypeOK
<1>3. ASSUME NEW u \in Slots PROVE OpOK(u)'
  <2>1. OpOK(u) /\ rows \in Nat  BY <1>3, Counted
  <2>2. CASE u = t
    BY <1>1, <2>1, <2>2 DEF OpOK
  <2>3. CASE u # t
    BY <1>1, <2>1, <2>3 DEF OpOK
  <2> QED  BY <2>2, <2>3
<1> QED  BY <1>2, <1>3 DEF PanelInv

\* Whoever finds the button of an action enabled although the action is under way does
\* so because another one has been under way beside it.
LEMMA SubmitStep ==
  ASSUME PanelInv, NEW t \in Slots, NEW key \in Actions, Panel!Submit(t, key)
  PROVE  PanelInv'
<1> DEFINE r == Panel!Action(key)
           beside == {op[u].key : u \in {v \in Slots : Panel!Acting(v)}}
<1>0. /\ mounted /\ op[t] = Panel!Free /\ pending # key
      /\ op' = [op EXCEPT ![t] = r] /\ pending' = key
      /\ overlaps' = IF beside \ {key} # {} THEN overlaps \cup beside \cup {key} ELSE overlaps
      /\ UNCHANGED <<mounted, rows, shown, news, doubtful>>
  BY DEF Panel!Submit
<1>1. /\ r \in Panel!Operation /\ r.kind = "action" /\ r.key = key
      /\ r.change = 0 /\ r.overview = Unread /\ r.sites = Unread
  BY ActionOp
<1>2. op[t].kind = "none" /\ op'[t] = r /\ \A u \in Slots \ {t} : op'[u] = op[u]
  BY <1>0, FreeOp DEF PanelInv, Panel!TypeOK
<1>3. beside \subseteq Actions
  BY Counted DEF OpOK, Panel!Acting
<1>4. overlaps' \subseteq Actions  BY <1>0, <1>3 DEF PanelInv, Panel!TypeOK
<1>5. \A u \in Slots \ {t} : Panel!Acting(u)' => Panel!Acting(u) /\ op[u].key \in beside
  BY <1>2 DEF Panel!Acting
<1> HIDE DEF r
<1>6. OverlapsOK'
  <2>1. ASSUME NEW u \in Slots \ {t}, Panel!Acting(u)'
        PROVE  op[u].key \in overlaps' /\ (op[u].key = key => key \in overlaps')
    <3>1. Panel!Acting(u) /\ op[u].key \in beside  BY <1>5, <2>1
    <3>2. CASE beside \ {key} # {}
      BY <1>0, <3>1, <3>2
    <3>3. CASE beside \ {key} = {}
      <4>1. op[u].key = key  BY <3>1, <3>3
      <4> QED  BY <1>0, <3>1, <3>3, <4>1 DEF PanelInv, OverlapsOK
    <3> QED  BY <3>2, <3>3
  <2>2. ASSUME NEW u \in Slots \ {t}, Panel!Acting(u)' PROVE key \in overlaps'
    <3>1. CASE op[u].key = key
      BY <2>1, <2>2, <3>1
    <3>2. CASE op[u].key # key
      <4>1. beside \ {key} # {}  BY <1>5, <2>2, <3>2
      <4> QED  BY <1>0, <4>1
    <3> QED  BY <3>1, <3>2
  <2> HIDE DEF beside
  <2> QED  BY <1>0, <1>1, <1>2, <2>1, <2>2 DEF OverlapsOK, Panel!Acting
<1>7. ASSUME ~doubtful PROVE Certain'
  <2>1. Certain  BY <1>7 DEF PanelInv
  <2> QED  BY <1>0, <1>1, <1>2, <2>1 DEF Certain, Panel!Fetching
<1> QED  BY <1>0, <1>1, <1>4, <1>6, <1>7, TurnStep DEF PanelInv, Panel!TypeOK

\* The end of an action leaves the overlaps that its submission found.
LEMMA ActionEnds ==
  ASSUME PanelInv, NEW t \in Slots, Panel!Acting(t),
         NEW r \in Panel!Operation, r.kind # "action", op' = [op EXCEPT ![t] = r],
         pending' = NoAction, overlaps' = overlaps
  PROVE  OverlapsOK'
<1>1. op'[t] = r /\ \A u \in Slots \ {t} : op'[u] = op[u]
  BY DEF PanelInv, Panel!TypeOK
<1>2. ASSUME NEW u \in Slots, Panel!Acting(u)' PROVE op'[u].key \in overlaps
  <2>1. u # t /\ Panel!Acting(u) /\ op'[u] = op[u]  BY <1>1, <1>2 DEF Panel!Acting
  <2> QED  BY <2>1 DEF PanelInv, OverlapsOK
<1> QED  BY <1>2 DEF OverlapsOK

LEMMA EndStep ==
  ASSUME PanelInv, NEW t \in Slots,
         \/ Panel!ActionSucceeds(t) \/ Panel!ActionFails(t)
         \/ Panel!RefreshSucceeds(t) \/ Panel!RefreshFails(t)
  PROVE  PanelInv'
<1> USE DEF Panel!page, Panel!history
<1>0. /\ op \in [Slots -> Panel!Operation] /\ rows \in Nat /\ news \in 0 .. rows
      /\ pending \in Actions \cup {NoAction} /\ overlaps \subseteq Actions
      /\ shown \in [overview : 0 .. rows, sites : 0 .. rows]
      /\ mounted \in BOOLEAN /\ doubtful \in BOOLEAN
      /\ OverlapsOK /\ (~doubtful => Certain)
      /\ op[t].kind # "none" => mounted
  BY FreeOp DEF PanelInv, Panel!TypeOK
<1>1. CASE Panel!ActionSucceeds(t) /\ op[t].key \in Refreshing
  <2>1. /\ Panel!Acting(t) /\ pending' = NoAction
        /\ op' = [op EXCEPT ![t] = Panel!Refresh]
        /\ news' = IF op[t].change > news THEN op[t].change ELSE news
        /\ doubtful' = ~Panel!RefreshesAlone(t)
        /\ UNCHANGED <<mounted, rows, shown, overlaps>>
    BY <1>1 DEF Panel!ActionSucceeds
  <2>2. news' \in 0 .. rows  BY <1>0, <2>1, Counted DEF OpOK
  <2>3. OverlapsOK'  BY <2>1, RefreshOp, ActionEnds
  <2>4. op'[t] = Panel!Refresh /\ \A u \in Slots \ {t} : op'[u] = op[u]  BY <1>0, <2>1
  <2>5. ASSUME ~doubtful' PROVE Certain'
    <3>1. \A u \in Slots \ {t} : ~Panel!Fetching(u)
      BY <2>1, <2>5 DEF Panel!RefreshesAlone
    <3> QED  BY <2>4, <3>1, RefreshOp DEF Certain, Panel!Fetching
  <2>6. doubtful' \in BOOLEAN  BY <2>1
  <2> QED
    BY <1>0, <2>1, <2>2, <2>3, <2>5, <2>6, RefreshOp, TurnStep DEF Panel!Acting
<1>2. CASE \/ Panel!ActionSucceeds(t) /\ op[t].key \notin Refreshing
           \/ Panel!ActionFails(t)
  <2>1. /\ Panel!Acting(t) /\ pending' = NoAction
        /\ op' = [op EXCEPT ![t] = Panel!Free]
        /\ UNCHANGED <<mounted, rows, shown, news, overlaps, doubtful>>
    BY <1>2 DEF Panel!ActionSucceeds, Panel!ActionFails
  <2>2. OverlapsOK'  BY <2>1, FreeOp, ActionEnds
  <2>3. op'[t] = Panel!Free /\ \A u \in Slots \ {t} : op'[u] = op[u]  BY <1>0, <2>1
  <2>4. ASSUME ~doubtful PROVE Certain'
    BY <1>0, <2>1, <2>3, <2>4, FreeOp DEF Certain, Panel!Fetching, Panel!Acting
  <2> QED  BY <1>0, <2>1, <2>2, <2>4, FreeOp, TurnStep DEF Panel!Acting
<1>3. CASE Panel!RefreshSucceeds(t) \/ Panel!RefreshFails(t)
  <2>1. /\ Panel!Fetching(t) /\ op' = [op EXCEPT ![t] = Panel!Free]
        /\ UNCHANGED <<mounted, rows, pending, news, overlaps>>
    BY <1>3 DEF Panel!RefreshSucceeds, Panel!RefreshFails
  <2>2. op'[t] = Panel!Free /\ \A u \in Slots \ {t} : op'[u] = op[u]  BY <1>0, <2>1
  <2>3. OverlapsOK'
    BY <1>0, <2>1, <2>2, FreeOp DEF OverlapsOK, Panel!Acting, Panel!Fetching
  <2>4. CASE Panel!RefreshSucceeds(t)
    <3>1. /\ Panel!Answered(t) /\ doubtful' = doubtful
          /\ shown' = [overview |-> op[t].overview, sites |-> op[t].sites]
      BY <2>4 DEF Panel!RefreshSucceeds
    <3>2. /\ op[t].overview \in 0 .. rows /\ op[t].sites \in 0 .. rows
          /\ op[t].overview # Unread /\ op[t].sites # Unread
      BY <3>1, Counted DEF Panel!Answered
    <3>3. ASSUME ~doubtful PROVE Certain'
      <4>1. /\ op[t].overview >= news /\ op[t].sites >= news
            /\ \A u \in Slots \ {t} : ~Panel!Fetching(u)
        BY <1>0, <2>1, <3>2, <3>3 DEF Certain
      <4> QED  BY <2>1, <2>2, <3>1, <4>1, FreeOp DEF Certain, Panel!Fetching
    <3> QED
      BY <1>0, <2>1, <2>3, <3>1, <3>2, <3>3, FreeOp, TurnStep DEF Panel!Fetching
  <2>5. CASE Panel!RefreshFails(t)
    <3>1. doubtful' = TRUE /\ shown' = shown  BY <2>5 DEF Panel!RefreshFails
    <3> QED  BY <1>0, <2>1, <2>3, <3>1, FreeOp, TurnStep DEF Panel!Fetching
  <2> QED  BY <1>3, <2>4, <2>5
<1> QED  BY <1>1, <1>2, <1>3

\* The dashboard is opened: its first refresh is alone.
LEMMA MountStep ==
  ASSUME PanelInv, NEW t \in Slots, Panel!Mount(t)
  PROVE  PanelInv'
<1>1. /\ mounted' /\ \A u \in Slots : op[u] = Panel!Free
      /\ op' = [op EXCEPT ![t] = Panel!Refresh]
      /\ UNCHANGED <<rows, pending, shown, news, overlaps, doubtful>>
  BY DEF Panel!Mount, PanelInv, Panel!history
<1>2. op'[t] = Panel!Refresh /\ \A u \in Slots \ {t} : op'[u] = Panel!Free
  BY <1>1 DEF PanelInv, Panel!TypeOK
<1>3. OverlapsOK'  BY <1>2, FreeOp, RefreshOp DEF OverlapsOK, Panel!Acting
<1>4. Certain'  BY <1>2, FreeOp, RefreshOp DEF Certain, Panel!Fetching
<1>5. mounted' \in BOOLEAN  BY DEF Panel!Mount
<1> QED  BY <1>1, <1>3, <1>4, <1>5, RefreshOp, TurnStep DEF PanelInv, Panel!TypeOK

\* A page with nothing under way and nothing to show.
Fresh ==
  /\ mounted = FALSE /\ rows = 0 /\ op = [t \in Slots |-> Panel!Free] /\ pending = NoAction
  /\ shown = [overview |-> 0, sites |-> 0] /\ news = 0 /\ overlaps = {} /\ doubtful = FALSE

LEMMA PanelStart == Fresh => PanelInv
<1> SUFFICES ASSUME Fresh PROVE PanelInv
  OBVIOUS
<1> USE DEF Fresh
<1>1. Panel!TypeOK
  <2>1. op \in [Slots -> Panel!Operation]  BY FreeOp
  <2>2. 0 .. rows = {0} /\ shown \in [overview : {0}, sites : {0}]  OBVIOUS
  <2> QED  BY <2>1, <2>2 DEF Panel!TypeOK
<1>2. ASSUME NEW t \in Slots PROVE OpOK(t)  BY <1>2, FreeOp DEF OpOK
<1>3. OverlapsOK  BY FreeOp DEF OverlapsOK, Panel!Acting
<1>4. Certain  BY FreeOp DEF Certain, Panel!Fetching
<1> QED  BY <1>1, <1>2, <1>3, <1>4 DEF PanelInv

LEMMA PanelStepKeeps == PanelInv /\ [Panel!Next]_(Panel!vars) => PanelInv'
<1> SUFFICES ASSUME PanelInv, [Panel!Next]_(Panel!vars) PROVE PanelInv'
  OBVIOUS
<1>1. CASE Panel!Unmount
  <2>1. Fresh'  BY <1>1 DEF Panel!Unmount, Fresh
  <2> QED  BY <2>1, PanelStart, PTL
<1>2. CASE UNCHANGED Panel!vars
  BY <1>2 DEF Panel!vars, Panel!page, Panel!history, PanelInv, Panel!TypeOK, OpOK, OverlapsOK,
     Certain, Panel!Acting, Panel!Fetching
<1> QED
  BY <1>1, <1>2, WaitingStep, SubmitStep, EndStep, MountStep DEF Panel!Next, Panel!Step

-----------------------------------------------------------------------------
(* The browser. *)

\* What happens in a tab is, for each of the two parts, a step of its own or nothing: a tab
\* that loses its page unmounts the dashboard, and the dashboard leaves the session alone.
LEMMA PartsAllow ==
  [Next]_vars => [Session!Next]_(Session!vars) /\ [Panel!Next]_(Panel!vars)
<1> SUFFICES ASSUME [Next]_vars
             PROVE  [Session!Next]_(Session!vars) /\ [Panel!Next]_(Panel!vars)
  OBVIOUS
<1> USE DEF Session!vars, Session!sessions, Panel!vars, Panel!page, Panel!history
<1>1. Consequence => [Panel!Next]_(Panel!vars)
  BY DEF Consequence, Panel!Next, panelVars
<1>2. CASE SessionRequest
  <2>1. Session!Next  BY <1>2 DEF SessionRequest, Session!Next
  <2> QED  BY <1>1, <1>2, <2>1 DEF SessionRequest
<1>3. CASE SessionStep
  <2>1. Session!Next  BY <1>3 DEF SessionStep, Session!Next
  <2> QED  BY <1>1, <1>3, <2>1 DEF SessionStep
<1>4. CASE PanelRequest
  BY <1>4 DEF PanelRequest, Panel!Next, sessionVars
<1>5. CASE PanelStep
  BY <1>5 DEF PanelStep, Panel!Next, sessionVars
<1>6. CASE UNCHANGED vars
  BY <1>6 DEF vars, sessionVars, panelVars
<1> QED  BY <1>2, <1>3, <1>4, <1>5, <1>6 DEF Next

\* The session of a browser is the one of BrowserSession, whatever the dashboard does.
THEOREM ImplementsSession == Spec => Session!Spec
<1>1. Init => Session!Init  BY DEF Init
<1> QED  BY <1>1, PartsAllow, PTL DEF Spec, Session!Spec

\* The dashboard is the one of QuickActions, whenever its tab comes and goes.
THEOREM ImplementsPanel == Spec => Panel!Spec
<1>1. Init => Panel!Init  BY DEF Init
<1> QED  BY <1>1, PartsAllow, PTL DEF Spec, Panel!Spec

LEMMA SessionHolds == Spec => []SessionInv
BY SessionStart, SessionStepKeeps, ImplementsSession, PTL DEF Session!Spec

LEMMA PanelHolds == Spec => []PanelInv
<1>1. Panel!Init => PanelInv  BY PanelStart DEF Panel!Init, Fresh
<1> QED  BY <1>1, PanelStepKeeps, ImplementsPanel, PTL DEF Panel!Spec

\* Of the server, a browser needs no more than SessionService promises: every step of the
\* session is a step of the service, or none, and AuthSessions implements the service.
THEOREM ImplementsService == Spec => Session!Server!Spec
<1>1. Session!Init => Session!Server!Init  BY DEF Session!Init
<1>2. SessionInv /\ [Session!Next]_(Session!vars) => [Session!Server!Next]_(Session!Server!vars)
  <2> SUFFICES ASSUME SessionInv, [Session!Next]_(Session!vars)
               PROVE  [Session!Server!Next]_(Session!Server!vars)
    OBVIOUS
  <2> USE DEF Session!sessions, Session!Server!vars
  <2>1. ASSUME NEW t \in Slots, Session!ServerStep(t)
        PROVE  [Session!Server!Next]_(Session!Server!vars)
    <3>1. req[t].token \in Tokens \cup {NoToken}  BY <2>1, SlotParts DEF Session!RequestState
    <3> QED
      BY <2>1, <3>1
         DEF Session!ServerStep, Session!AcceptLogin, Session!RefuseAtOnce, Session!Ask,
         Session!OpenSession, Session!Grant, Session!Refuse, Session!AnswerMe,
         Session!CloseSession, Session!ServerFails, Session!Server!Next
  <2>2. ASSUME NEW t \in Slots,
               Session!Receive(t) \/ Session!ConnectionBreaks(t) \/ Session!Vanish(t)
        PROVE  UNCHANGED Session!Server!vars
    BY <2>2 DEF Session!Receive, Session!ConnectionBreaks, Session!Vanish
  <2>3. ASSUME NEW b \in Tabs,
               \/ Session!LoadWithoutToken(b) \/ Session!Navigate(b)
               \/ \E t \in Slots : \/ Session!LoadWithToken(b, t) \/ Session!SubmitLogin(b, t)
                                  \/ Session!SignOut(b, t)
        PROVE  UNCHANGED Session!Server!vars
    BY <2>3 DEF Session!LoadWithoutToken, Session!Navigate, Session!LoadWithToken,
       Session!SubmitLogin, Session!SignOut
  <2>4. CASE Session!ServerRestarts
    BY <2>4 DEF Session!ServerRestarts, Session!Server!Next
  <2>5. CASE Session!SessionExpires
    BY <2>5 DEF Session!SessionExpires, Session!Server!Next, Session!Server!Expire
  <2>6. CASE UNCHANGED Session!vars
    BY <2>6 DEF Session!vars
  <2> QED  BY <2>1, <2>2, <2>3, <2>4, <2>5, <2>6 DEF Session!Next
<1> QED
  BY <1>1, <1>2, SessionHolds, ImplementsSession, PTL DEF Session!Spec, Session!Server!Spec

\* Every session that is good can be used or ended by the browser, or was given up in one of
\* the ways that are counted.
THEOREM Accounted == Spec => []SessionsAccountedFor
<1>1. SessionInv => SessionsAccountedFor  BY DEF SessionInv, SessionsAccountedFor
<1> QED  BY <1>1, SessionHolds, PTL

\* No action is under way twice, unless another one was under way beside it.
THEOREM NoDoubleClick == Spec => []ResubmittedOnlyAfterOverlap
<1>1. PanelInv => ResubmittedOnlyAfterOverlap
  BY DEF PanelInv, OverlapsOK, ResubmittedOnlyAfterOverlap, Panel!ResubmittedOnlyAfterOverlap
<1> QED  BY <1>1, PanelHolds, PTL

\* What the dashboard shows once it is at rest includes what it has announced.
THEOREM FreshShown == Spec => []ShownIsFresh
<1>1. PanelInv => ShownIsFresh
  BY DEF PanelInv, Certain, ShownIsFresh, Panel!ShownIsFresh
<1> QED  BY <1>1, PanelHolds, PTL

\* The dashboard is there only while its tab shows a protected page.
OnItsPage == mounted => tab[Desk].page = "app"

LEMMA PageStep == OnItsPage /\ [Next]_vars => OnItsPage'
<1> SUFFICES ASSUME OnItsPage, [Next]_vars PROVE OnItsPage'
  OBVIOUS
<1>1. CASE SessionRequest \/ SessionStep
  <2>1. Consequence  BY <1>1 DEF SessionRequest, SessionStep
  <2>2. CASE mounted /\ ~Keeps
    BY <2>1, <2>2 DEF Consequence, Panel!Unmount, OnItsPage
  <2>3. CASE ~(mounted /\ ~Keeps)
    BY <2>1, <2>3 DEF Consequence, Keeps, panelVars, OnItsPage
  <2> QED  BY <2>2, <2>3
<1>2. CASE PanelRequest
  BY <1>2 DEF PanelRequest, Panel!Submit, sessionVars, OnItsPage
<1>3. CASE PanelStep
  BY <1>3 DEF PanelStep, Panel!Unmount, Panel!Step, Panel!CarryOut, Panel!Refuse,
     Panel!ReadOverview, Panel!ReadSites, Panel!ActionSucceeds, Panel!ActionFails,
     Panel!RefreshSucceeds, Panel!RefreshFails, Panel!page, sessionVars, OnItsPage
<1>4. CASE UNCHANGED vars
  BY <1>4 DEF vars, sessionVars, panelVars, OnItsPage
<1> QED  BY <1>1, <1>2, <1>3, <1>4 DEF Next

\* The variables of both parts keep their types: the server is at work on requests of the
\* browser only, a tab that loads waits for one, nothing on the page is newer than the
\* server, and the dashboard is on a protected page.
THEOREM TypeCorrect == Spec => []TypeOK
<1>1. Init => OnItsPage  BY DEF Init, Panel!Init, OnItsPage
<1>2. SessionInv => Session!TypeOK
  BY DEF SessionInv, CallOK, TabOK, Session!TypeOK, Session!Waiting
<1>3. PanelInv => Panel!TypeOK  BY DEF PanelInv
<1>4. Session!TypeOK /\ Panel!TypeOK /\ OnItsPage => TypeOK  BY DEF TypeOK, OnItsPage
<1> QED  BY <1>1, <1>2, <1>3, <1>4, PageStep, SessionHolds, PanelHolds, PTL DEF Spec
=============================================================================
