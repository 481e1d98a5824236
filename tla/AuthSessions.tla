----------------------------- MODULE AuthSessions -----------------------------
(***************************************************************************)
(* Login, requireAuth and logout (services/auth_service.go, api/auth.go)   *)
(* for the one administrator, in a server that handles requests            *)
(* concurrently.  A session is a signed token and a row of api_tokens with *)
(* its fingerprint, and both carry the expiry.  Each statement on the      *)
(* panel database is a step; time passes between any two.                  *)
(*                                                                         *)
(* A token is made of the administrator, the second it was issued in and   *)
(* an expiry that follows from it, so a token is the second it was issued  *)
(* in, and two logins within one second get the same token.  Rows with one *)
(* fingerprint agree in all that is ever read of them and are deleted      *)
(* together: the table is the set of the tokens that have a row.           *)
(***************************************************************************)
EXTENDS Naturals

CONSTANTS
  Slots,     \* the requests the server handles at once
  Duration,  \* sessionDuration, in seconds
  Horizon,   \* bound of the model: the last second
  NoToken,
  Faults     \* the kinds of failure that may happen

FaultKinds == {"statement", "crash"}
Seconds == 0 .. Horizon

ASSUME ConstantsOK ==
  /\ Duration \in Nat /\ Horizon \in Nat
  /\ NoToken \notin Nat
  /\ Faults \subseteq FaultKinds

VARIABLES
  now,     \* time.Now().Unix()
  tokens,  \* the table api_tokens
  work,    \* what each request is about to do
  held,    \* the tokens that logins have answered with
  ended,   \* history: tokens that a logout has deleted
  shared   \* history: tokens issued by more than one login

vars == <<now, tokens, work, held, ended, shared>>
History == <<held, ended, shared>>

-----------------------------------------------------------------------------
LoginLabels == {"compare", "issue", "persist"}
GuardLabels == {"select", "purge", "touch", "parse", "admin"}
ServedLabels == {"serve", "delete"}
Labels == {"idle"} \cup LoginLabels \cup GuardLabels \cup ServedLabels

\* What a request is for: logging in, logging out, or any other protected route.
Kinds == {"login", "logout", "call"}

AtRest == [pc |-> "idle", kind |-> "call", token |-> NoToken, doomed |-> FALSE]

\* Unix() > claims.Exp in parseToken.
Expired(token) == now > token + Duration

\* time.Now().After(expires_at) in ensureSessionToken: in the very second of the
\* expiry the fraction of the clock decides.
RowMayBeExpired(token) == now >= token + Duration
RowMayBeValid(token) == now <= token + Duration

Issuing(t, token) == work[t].pc = "persist" /\ work[t].token = token

\* No step can make this token good again: it has run out, or has no row and no
\* login of its second can still insert one.
Dead(token) ==
  \/ Expired(token)
  \/ token \notin tokens /\ now > token /\ \A t \in Slots : ~Issuing(t, token)

GoTo(t, label) == work' = [work EXCEPT ![t].pc = label]
Return(t) == work' = [work EXCEPT ![t] = AtRest]

-----------------------------------------------------------------------------
(* Faulty variants of single actions, each the code with one plausible bug. *)

\* TypeOK: the fingerprint is taken before the token is issued.
IssueNothing(t) ==
  /\ work[t].pc = "issue"
  /\ GoTo(t, "persist")
  /\ UNCHANGED <<now, tokens, History>>

\* LogoutSticks: the time of last use is written with an upsert.
TouchUpserts(t) ==
  /\ work[t].pc = "touch"
  /\ tokens' = tokens \cup {work[t].token}
  /\ GoTo(t, "parse")
  /\ UNCHANGED <<now, History>>

\* DoomedRequestsAreRefused: a token is good as long as its signature is.
RowMissingAccepted(t) ==
  /\ work[t].pc = "select" /\ work[t].token \notin tokens
  /\ GoTo(t, "parse")
  /\ UNCHANGED <<now, tokens, History>>

\* AnsweredSessionLives: the client is answered before the row is inserted.
IssueAnswers(t) ==
  /\ work[t].pc = "issue"
  /\ work' = [work EXCEPT ![t].pc = "persist", ![t].token = now]
  /\ held' = held \cup {now}
  /\ shared' = shared
  /\ UNCHANGED <<now, tokens, ended>>

-----------------------------------------------------------------------------
Init ==
  /\ now = 0
  /\ tokens = {}
  /\ work = [t \in Slots |-> AtRest]
  /\ held = {}
  /\ ended = {}
  /\ shared = {}

\* A login whose address is found, and one refused for its address or its password.
BeginLogin(t) ==
  /\ work[t].pc = "idle"
  /\ work' = [work EXCEPT ![t].pc = "compare", ![t].kind = "login"]
  /\ UNCHANGED <<now, tokens, History>>

RefuseLogin(t) ==
  /\ work[t].pc = "compare"
  /\ Return(t)
  /\ UNCHANGED <<now, tokens, History>>

AcceptLogin(t) ==
  /\ work[t].pc = "compare"
  /\ GoTo(t, "issue")
  /\ UNCHANGED <<now, tokens, History>>

IssueToken(t) ==
  /\ work[t].pc = "issue"
  /\ work' = [work EXCEPT ![t].pc = "persist", ![t].token = now]
  /\ shared' = IF now \in held \cup tokens \/ \E u \in Slots : Issuing(u, now)
               THEN shared \cup {now} ELSE shared
  /\ UNCHANGED <<now, tokens, held, ended>>

PersistSession(t) ==
  /\ work[t].pc = "persist"
  /\ tokens' = tokens \cup {work[t].token}
  /\ held' = held \cup {work[t].token}
  /\ Return(t)
  /\ UNCHANGED <<now, ended, shared>>

\* A protected request with a token some login answered with, good or not any more.
BeginCall(t, kind, token) ==
  /\ work[t].pc = "idle"
  /\ work' = [work EXCEPT ![t] =
       [pc |-> "select", kind |-> kind, token |-> token, doomed |-> Dead(token)]]
  /\ UNCHANGED <<now, tokens, History>>

RowMissing(t) ==
  /\ work[t].pc = "select"
  /\ work[t].token \notin tokens
  /\ Return(t)
  /\ UNCHANGED <<now, tokens, History>>

RowExpired(t) ==
  /\ work[t].pc = "select"
  /\ work[t].token \in tokens
  /\ RowMayBeExpired(work[t].token)
  /\ GoTo(t, "purge")
  /\ UNCHANGED <<now, tokens, History>>

RowValid(t) ==
  /\ work[t].pc = "select"
  /\ work[t].token \in tokens
  /\ RowMayBeValid(work[t].token)
  /\ GoTo(t, "touch")
  /\ UNCHANGED <<now, tokens, History>>

\* The DELETE of the expired row; its error is dropped.
Purge(t) ==
  /\ work[t].pc = "purge"
  /\ \/ tokens' = tokens \ {work[t].token}
     \/ "statement" \in Faults /\ UNCHANGED tokens
  /\ Return(t)
  /\ UNCHANGED <<now, History>>

\* UPDATE ... SET last_used_at: nothing to update when the row has gone meanwhile.
Touch(t) ==
  /\ work[t].pc = "touch"
  /\ GoTo(t, "parse")
  /\ UNCHANGED <<now, tokens, History>>

ParseToken(t) ==
  /\ work[t].pc = "parse"
  /\ IF Expired(work[t].token) THEN Return(t) ELSE GoTo(t, "admin")
  /\ UNCHANGED <<now, tokens, History>>

\* getAdminByID; administrators are never deleted.
FindAdmin(t) ==
  /\ work[t].pc = "admin"
  /\ GoTo(t, "serve")
  /\ UNCHANGED <<now, tokens, History>>

\* requireAuth has let the request pass: its handler runs.
Serve(t) ==
  /\ work[t].pc = "serve"
  /\ IF work[t].kind = "logout" THEN GoTo(t, "delete") ELSE Return(t)
  /\ UNCHANGED <<now, tokens, History>>

DeleteSession(t) ==
  /\ work[t].pc = "delete"
  /\ tokens' = tokens \ {work[t].token}
  /\ ended' = ended \cup {work[t].token}
  /\ Return(t)
  /\ UNCHANGED <<now, held, shared>>

\* A statement fails: requireAuth answers 401 to that as well.
RequestFails(t) ==
  /\ "statement" \in Faults
  /\ work[t].pc \notin {"idle", "issue", "purge", "parse", "serve"}
  /\ Return(t)
  /\ UNCHANGED <<now, tokens, History>>

Crash ==
  /\ "crash" \in Faults
  /\ work' = [t \in Slots |-> AtRest]
  /\ UNCHANGED <<now, tokens, History>>

Tick ==
  /\ now < Horizon
  /\ now' = now + 1
  /\ UNCHANGED <<tokens, work, History>>

Step(t) ==
  \/ RefuseLogin(t) \/ AcceptLogin(t) \/ IssueToken(t) \/ PersistSession(t)
  \/ RowMissing(t) \/ RowExpired(t) \/ RowValid(t)
  \/ Purge(t) \/ Touch(t) \/ ParseToken(t) \/ FindAdmin(t)
  \/ Serve(t) \/ DeleteSession(t)
  \/ RequestFails(t)

Next ==
  \/ \E t \in Slots : BeginLogin(t) \/ Step(t)
  \/ \E t \in Slots, kind \in {"call", "logout"}, token \in held : BeginCall(t, kind, token)
  \/ Crash
  \/ Tick

Spec == Init /\ [][Next]_vars

-----------------------------------------------------------------------------
\* The request that a client of the sessions sees: one that carries a token is
\* granted once its row has been found good.
SeenAs(t) ==
  CASE work[t].pc = "persist" -> [pc |-> "opening", token |-> work[t].token]
    [] work[t].pc \in {"select", "purge"} -> [pc |-> "asked", token |-> work[t].token]
    [] work[t].pc \in {"touch", "parse", "admin"} \cup ServedLabels ->
         [pc |-> "granted", token |-> work[t].token]
    [] OTHER -> [pc |-> "idle", token |-> NoToken]

Sessions == INSTANCE SessionService WITH
  Tokens <- Seconds,
  live <- {token \in tokens : ~Expired(token)},
  call <- [t \in Slots |-> SeenAs(t)]

\* Clients see sessions that are opened by logins, grant requests while they live
\* and never come back, although the row is checked, dated and read in statements of
\* their own, two checks of the expiry disagree, and a token can be issued twice.
SessionServiceSpec == Sessions!Spec

Request == [pc : Labels, kind : Kinds, token : Nat \cup {NoToken}, doomed : BOOLEAN]

\* The types of the variables; a login carries the token it has issued, any other
\* request one that some login has answered with.
TypeOK ==
  /\ now \in Nat
  /\ tokens \subseteq 0 .. now
  /\ held \subseteq 0 .. now
  /\ ended \subseteq held
  /\ shared \subseteq 0 .. now
  /\ work \in [Slots -> Request]
  /\ \A t \in Slots :
       /\ work[t].pc = "persist" => work[t].token \in 0 .. now
       /\ work[t].pc \in GuardLabels \cup ServedLabels => work[t].token \in held

\* A request that was sent with a dead token is never served, whatever runs beside
\* it: no check is made on a state that a later step can undo.
DoomedRequestsAreRefused ==
  \A t \in Slots : work[t].pc \in ServedLabels => ~work[t].doomed

\* A logout ends the session for good: no request in flight brings the row back.
\* Only a second login of the same second, which got the same token, can.
LogoutSticks == \A token \in ended \ shared : token \notin tokens

\* The token a login has answered with stays good until it runs out or is logged
\* out: no request, failing or not, ends another one's session.
AnsweredSessionLives ==
  \A token \in held \ ended : token \in tokens \/ RowMayBeExpired(token)
=============================================================================
