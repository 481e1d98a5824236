-------------------------- MODULE AuthSessionsProofs --------------------------
(***************************************************************************)
(* Proofs about AuthSessions, for any number of requests, any length of    *)
(* sessions, any horizon and any faults.                                   *)
(***************************************************************************)
EXTENDS AuthSessions, TLAPS

\* What GoTo(t, label) and Return(t) do to the requests, field by field.
LEMMA GoToEffect ==
  ASSUME TypeOK, NEW t \in Slots, NEW label \in Labels, GoTo(t, label)
  PROVE  /\ work' \in [Slots -> Request]
         /\ \A u \in Slots \ {t} : work'[u] = work[u]
         /\ work'[t].pc = label
         /\ work'[t].kind = work[t].kind
         /\ work'[t].token = work[t].token
         /\ work'[t].doomed = work[t].doomed
BY DEF TypeOK, GoTo, Request

LEMMA ReturnEffect ==
  ASSUME TypeOK, NEW t \in Slots, Return(t)
  PROVE  /\ work' \in [Slots -> Request]
         /\ \A u \in Slots \ {t} : work'[u] = work[u]
         /\ work'[t].pc = "idle"
         /\ work'[t].doomed = FALSE
<1>1. AtRest \in Request  BY DEF AtRest, Request, Labels, Kinds
<1> QED  BY <1>1 DEF TypeOK, Return, AtRest

LEMMA BeginLoginEffect ==
  ASSUME TypeOK, NEW t \in Slots, BeginLogin(t)
  PROVE  /\ work' \in [Slots -> Request]
         /\ \A u \in Slots \ {t} : work'[u] = work[u]
         /\ work'[t].pc = "compare"
         /\ work'[t].doomed = work[t].doomed
BY DEF TypeOK, BeginLogin, Request, Labels, LoginLabels, Kinds

LEMMA IssueEffect ==
  ASSUME TypeOK, NEW t \in Slots, IssueToken(t)
  PROVE  /\ work' \in [Slots -> Request]
         /\ \A u \in Slots \ {t} : work'[u] = work[u]
         /\ work'[t].pc = "persist"
         /\ work'[t].token = now
         /\ work'[t].doomed = work[t].doomed
BY DEF TypeOK, IssueToken, Request, Labels, LoginLabels

LEMMA BeginCallEffect ==
  ASSUME TypeOK, NEW t \in Slots, NEW kind \in {"call", "logout"}, NEW token \in held,
         BeginCall(t, kind, token)
  PROVE  /\ work' \in [Slots -> Request]
         /\ \A u \in Slots \ {t} : work'[u] = work[u]
         /\ work'[t].pc = "select"
         /\ work'[t].token = token
         /\ work'[t].doomed = Dead(token)
<1>1. Dead(token) \in BOOLEAN  BY DEF Dead, Expired
<1>2. token \in Nat  BY DEF TypeOK
<1>3. [pc |-> "select", kind |-> kind, token |-> token, doomed |-> Dead(token)] \in Request
  BY <1>1, <1>2 DEF Request, Labels, GuardLabels, Kinds
<1> QED  BY <1>3 DEF TypeOK, BeginCall

-----------------------------------------------------------------------------
\* The two parts of TypeOK: the clock and the sets, and what a request carries.
SetsOK ==
  /\ now \in Nat
  /\ tokens \subseteq 0 .. now
  /\ held \subseteq 0 .. now
  /\ ended \subseteq held
  /\ shared \subseteq 0 .. now

CarryingLabels == GuardLabels \cup ServedLabels
Carries(t) ==
  /\ work[t].pc = "persist" => work[t].token \in 0 .. now
  /\ work[t].pc \in CarryingLabels => work[t].token \in held

LEMMA TypeParts ==
  TypeOK <=> SetsOK /\ work \in [Slots -> Request] /\ \A t \in Slots : Carries(t)
BY DEF TypeOK, SetsOK, Carries, CarryingLabels

\* A step of one request in which no time passes.
LEMMA TypeFrame ==
  ASSUME TypeOK, SetsOK', UNCHANGED now, held \subseteq held', work' \in [Slots -> Request],
         NEW t \in Slots, \A u \in Slots \ {t} : work'[u] = work[u], Carries(t)'
  PROVE  TypeOK'
<1>1. \A u \in Slots : Carries(u)'
  <2> TAKE u \in Slots
  <2>1. CASE u = t  BY <2>1
  <2>2. CASE u # t  BY <2>2, TypeParts DEF Carries
  <2> QED  BY <2>1, <2>2
<1> QED  BY <1>1 DEF TypeOK, SetsOK, Carries, CarryingLabels

LEMMA TypeStep == TypeOK /\ [Next]_vars => TypeOK'
<1> SUFFICES ASSUME TypeOK, [Next]_vars PROVE TypeOK'
  OBVIOUS
<1> USE DEF Labels, LoginLabels, GuardLabels, ServedLabels, CarryingLabels
<1>0. SetsOK /\ work \in [Slots -> Request] /\ \A t \in Slots : Carries(t)
  BY TypeParts
<1>a. ASSUME UNCHANGED <<now, tokens, History>> PROVE SetsOK'
  BY <1>0, <1>a DEF SetsOK, History
<1>b. ASSUME NEW t \in Slots, Return(t), SetsOK', UNCHANGED now, held \subseteq held'
      PROVE  TypeOK'
  BY <1>b, ReturnEffect, TypeFrame DEF Carries
<1>c. ASSUME NEW t \in Slots, NEW label \in Labels, GoTo(t, label), SetsOK', UNCHANGED now,
             UNCHANGED held, label # "persist",
             label \in CarryingLabels => work[t].pc \in CarryingLabels
      PROVE  TypeOK'
  BY <1>0, <1>c, GoToEffect, TypeFrame DEF Carries
<1>1. ASSUME NEW t \in Slots, BeginLogin(t) PROVE TypeOK'
  <2>1. Carries(t)'  BY <1>1, BeginLoginEffect DEF Carries
  <2> QED  BY <1>1, <2>1, <1>a, BeginLoginEffect, TypeFrame DEF BeginLogin, History
<1>2. ASSUME NEW t \in Slots, NEW kind \in {"call", "logout"}, NEW token \in held,
             BeginCall(t, kind, token)
      PROVE  TypeOK'
  <2>1. now' = now /\ held' = held  BY <1>2 DEF BeginCall, History
  <2>2. Carries(t)'  BY <1>2, <2>1, BeginCallEffect DEF Carries
  <2> QED  BY <1>2, <2>1, <2>2, <1>a, BeginCallEffect, TypeFrame DEF BeginCall
<1>3. ASSUME NEW t \in Slots, Step(t) PROVE TypeOK'
  <2>1. CASE RefuseLogin(t) \/ RowMissing(t) \/ RequestFails(t)
    BY <2>1, <1>a, <1>b DEF RefuseLogin, RowMissing, RequestFails, History
  <2>2. CASE AcceptLogin(t) \/ RowExpired(t) \/ RowValid(t) \/ Touch(t) \/ FindAdmin(t)
    BY <2>2, <1>a, <1>c DEF AcceptLogin, RowExpired, RowValid, Touch, FindAdmin, History
  <2>3. CASE IssueToken(t)
    <3>1. now' = now /\ now \in 0 .. now  BY <2>3, <1>0 DEF IssueToken, SetsOK
    <3>2. Carries(t)'  BY <2>3, <3>1, IssueEffect DEF Carries
    <3>3. SetsOK'  BY <2>3, <3>1, <1>0 DEF IssueToken, SetsOK
    <3> QED  BY <2>3, <3>1, <3>2, <3>3, IssueEffect, TypeFrame DEF IssueToken
  <2>4. CASE PersistSession(t)
    <3>1. work[t].token \in 0 .. now  BY <2>4, <1>0 DEF PersistSession, Carries
    <3>2. SetsOK'  BY <2>4, <3>1, <1>0 DEF PersistSession, SetsOK
    <3> QED  BY <2>4, <3>2, <1>b DEF PersistSession
  <2>5. CASE Purge(t)
    <3>1. SetsOK'  BY <2>5, <1>0 DEF Purge, SetsOK, History
    <3> QED  BY <2>5, <3>1, <1>b DEF Purge, History
  <2>6. CASE ParseToken(t)  BY <2>6, <1>a, <1>b, <1>c DEF ParseToken, History
  <2>7. CASE Serve(t)  BY <2>7, <1>a, <1>b, <1>c DEF Serve, History
  <2>8. CASE DeleteSession(t)
    <3>1. work[t].token \in held  BY <2>8, <1>0 DEF DeleteSession, Carries
    <3>2. SetsOK'  BY <2>8, <3>1, <1>0 DEF DeleteSession, SetsOK
    <3> QED  BY <2>8, <3>2, <1>b DEF DeleteSession
  <2> QED  BY <1>3, <2>1, <2>2, <2>3, <2>4, <2>5, <2>6, <2>7, <2>8 DEF Step
<1>4. CASE Crash
  <2>1. work' = [t \in Slots |-> AtRest]  BY <1>4 DEF Crash
  <2>2. AtRest \in Request  BY DEF AtRest, Request, Kinds
  <2>3. work' \in [Slots -> Request] /\ \A t \in Slots : Carries(t)'
    BY <2>1, <2>2 DEF AtRest, Carries
  <2>4. SetsOK'  BY <1>4, <1>a DEF Crash
  <2> QED  BY <2>3, <2>4 DEF TypeOK, SetsOK, Carries
<1>5. CASE Tick
  <2>1. now' \in Nat /\ now < now'  BY <1>5, <1>0 DEF Tick, SetsOK
  <2>2. 0 .. now \subseteq 0 .. now'  BY <2>1, <1>0 DEF SetsOK
  <2>3. SetsOK'  BY <1>5, <2>1, <2>2, <1>0 DEF Tick, SetsOK, History
  <2>4. work' = work /\ \A t \in Slots : Carries(t)'  BY <1>5, <2>2, <1>0 DEF Tick, Carries, History
  <2> QED  BY <2>3, <2>4, <1>0 DEF TypeOK, SetsOK, Carries
<1>6. CASE UNCHANGED vars  BY <1>6 DEF TypeOK, vars
<1> QED  BY <1>1, <1>2, <1>3, <1>4, <1>5, <1>6 DEF Next

\* Type correctness.
THEOREM TypeCorrect == Spec => []TypeOK
<1>1. ASSUME Init PROVE TypeOK
  <2>1. AtRest \in Request  BY DEF AtRest, Request, Labels, Kinds
  <2>2. work \in [Slots -> Request] /\ \A t \in Slots : work[t].pc = "idle"
    BY <1>1, <2>1 DEF Init, AtRest
  <2> QED  BY <1>1, <2>2 DEF Init, TypeOK, GuardLabels, ServedLabels
<1> QED  BY <1>1, TypeStep, PTL DEF Spec

-----------------------------------------------------------------------------
\* How the clock, the table and the labels may change in one step.
LEMMA ClockStep ==
  ASSUME TypeOK, [Next]_vars
  PROVE  now \in Nat /\ now' \in Nat /\ now <= now'
<1>1. now \in Nat  BY DEF TypeOK
<1>2. now' = now \/ now' = now + 1
  BY DEF Next, vars, Step, BeginLogin, RefuseLogin, AcceptLogin, IssueToken, PersistSession,
     BeginCall, RowMissing, RowExpired, RowValid, Purge, Touch, ParseToken, FindAdmin, Serve,
     DeleteSession, RequestFails, Crash, Tick
<1> QED  BY <1>1, <1>2

LEMMA TokensStep ==
  ASSUME TypeOK, [Next]_vars, NEW k
  PROVE  /\ k \in tokens' \ tokens => \E t \in Slots : PersistSession(t) /\ Issuing(t, k)
         /\ k \in tokens \ tokens' =>
              \E t \in Slots : (Purge(t) \/ DeleteSession(t)) /\ k = work[t].token
<1>1. ASSUME NEW t \in Slots, PersistSession(t)
      PROVE  tokens' = tokens \cup {work[t].token} /\ work[t].pc = "persist"
  BY <1>1 DEF PersistSession
<1>2. ASSUME NEW t \in Slots, Purge(t) \/ DeleteSession(t)
      PROVE  tokens' \subseteq tokens /\ tokens \subseteq tokens' \cup {work[t].token}
  BY <1>2 DEF Purge, DeleteSession
<1>3. \/ tokens' = tokens
      \/ \E t \in Slots : PersistSession(t) \/ Purge(t) \/ DeleteSession(t)
  BY DEF Next, vars, Step, BeginLogin, RefuseLogin, AcceptLogin, IssueToken,
     BeginCall, RowMissing, RowExpired, RowValid, Touch, ParseToken, FindAdmin, Serve,
     RequestFails, Crash, Tick
<1> QED  BY <1>1, <1>2, <1>3 DEF Issuing

\* A request whose record changes takes a step of its own, or dies with the server.
LEMMA MovesItself ==
  ASSUME TypeOK, [Next]_vars, NEW t \in Slots, work'[t] # work[t]
  PROVE  \/ BeginLogin(t) \/ Step(t)
         \/ \E kind \in {"call", "logout"}, token \in held : BeginCall(t, kind, token)
         \/ work'[t] = AtRest
<1>1. ASSUME NEW u \in Slots, BeginLogin(u), u # t PROVE FALSE
  BY <1>1, BeginLoginEffect
<1>2. ASSUME NEW u \in Slots, NEW kind \in {"call", "logout"}, NEW token \in held,
             BeginCall(u, kind, token), u # t
      PROVE  FALSE
  BY <1>2, BeginCallEffect
<1>3. ASSUME NEW u \in Slots, Step(u), u # t PROVE FALSE
  <2>1. CASE IssueToken(u)  BY <2>1, <1>3, IssueEffect
  <2>2. CASE ~IssueToken(u)
    <3>1. Return(u) \/ \E label \in Labels : GoTo(u, label)
      BY <2>2, <1>3 DEF Step, RefuseLogin, AcceptLogin, PersistSession, RowMissing, RowExpired,
         RowValid, Purge, Touch, ParseToken, FindAdmin, Serve, DeleteSession, RequestFails,
         Labels, LoginLabels, GuardLabels, ServedLabels
    <3> QED  BY <3>1, <1>3, GoToEffect, ReturnEffect
  <2> QED  BY <2>1, <2>2
<1>4. ~Tick /\ ~UNCHANGED vars  BY DEF Tick, vars
<1>5. CASE Crash  BY <1>5 DEF Crash
<1> QED  BY <1>1, <1>2, <1>3, <1>4, <1>5 DEF Next

LEMMA IssuingStep ==
  ASSUME TypeOK, [Next]_vars, NEW t \in Slots, NEW k, Issuing(t, k)'
  PROVE  Issuing(t, k) \/ (IssueToken(t) /\ k = now)
<1> USE DEF Labels, LoginLabels, GuardLabels, ServedLabels
<1>0. work'[t].pc = "persist" /\ work'[t].token = k  BY DEF Issuing
<1>1. CASE work'[t] = work[t]  BY <1>0, <1>1 DEF Issuing
<1>2. ~BeginLogin(t)  BY <1>0, BeginLoginEffect
<1>3. ASSUME NEW kind \in {"call", "logout"}, NEW token \in held PROVE ~BeginCall(t, kind, token)
  BY <1>0, BeginCallEffect
<1>4. work'[t] # AtRest  BY <1>0 DEF AtRest
<1>5. ~Return(t)  BY <1>0, ReturnEffect
<1>6. \A label \in Labels : GoTo(t, label) => label = "persist"  BY <1>0, GoToEffect
<1>7. CASE Step(t)
  <2>1. IssueToken(t)
    BY <1>5, <1>6, <1>7 DEF Step, RefuseLogin, AcceptLogin, PersistSession, RowMissing, RowExpired,
       RowValid, Purge, Touch, ParseToken, FindAdmin, Serve, DeleteSession, RequestFails
  <2> QED  BY <2>1, <1>0, IssueEffect
<1> QED  BY <1>1, <1>2, <1>3, <1>4, <1>7, MovesItself

LEMMA HistoryStep ==
  ASSUME TypeOK, [Next]_vars
  PROVE  /\ held \subseteq held' /\ shared \subseteq shared' /\ ended \subseteq ended'
         /\ \A k \in held' \ held : \E t \in Slots : PersistSession(t) /\ Issuing(t, k)
         /\ \A k \in ended' \ ended : \E t \in Slots : DeleteSession(t) /\ k = work[t].token
<1>1. ASSUME NEW t \in Slots, PersistSession(t)
      PROVE  /\ held' = held \cup {work[t].token} /\ Issuing(t, work[t].token)
             /\ UNCHANGED <<ended, shared>>
  BY <1>1 DEF PersistSession, Issuing
<1>2. ASSUME NEW t \in Slots, DeleteSession(t)
      PROVE  ended' = ended \cup {work[t].token} /\ UNCHANGED <<held, shared>>
  BY <1>2 DEF DeleteSession
<1>3. ASSUME NEW t \in Slots, IssueToken(t)
      PROVE  shared \subseteq shared' /\ UNCHANGED <<held, ended>>
  BY <1>3 DEF IssueToken
<1>4. \/ UNCHANGED History
      \/ \E t \in Slots : PersistSession(t) \/ DeleteSession(t) \/ IssueToken(t)
  BY DEF Next, vars, Step, BeginLogin, RefuseLogin, AcceptLogin, BeginCall, RowMissing,
     RowExpired, RowValid, Purge, Touch, ParseToken, FindAdmin, Serve, RequestFails,
     Crash, Tick, History
<1> QED  BY <1>1, <1>2, <1>3, <1>4 DEF History

-----------------------------------------------------------------------------
\* A dead token stays dead: the stability that DoomedRequestsAreRefused rests on.
LEMMA DeadStays ==
  ASSUME TypeOK, [Next]_vars, NEW k \in Nat, Dead(k)
  PROVE  Dead(k)'
<1>0. now \in Nat /\ now' \in Nat /\ now <= now'  BY ClockStep
<1>1. CASE Expired(k)
  <2>1. Duration \in Nat  BY ConstantsOK
  <2> QED  BY <1>0, <1>1, <2>1 DEF Dead, Expired
<1>2. CASE k \notin tokens /\ now > k /\ \A t \in Slots : ~Issuing(t, k)
  <2>1. k \notin tokens'  BY <1>2, TokensStep
  <2>2. now' > k  BY <1>0, <1>2
  <2>3. now # k  BY <1>0, <1>2
  <2>4. \A t \in Slots : ~Issuing(t, k)'  BY <1>2, <2>3, IssuingStep
  <2> QED  BY <2>1, <2>2, <2>4 DEF Dead
<1> QED  BY <1>1, <1>2 DEF Dead

\* A doomed request gets as far as the check of its row, and its token is dead.
Doom(t) == work[t].doomed => work[t].pc \in {"select", "purge"} /\ Dead(work[t].token)

LEMMA DoomStep ==
  ASSUME TypeOK, [Next]_vars, NEW t \in Slots, Doom(t)
  PROVE  Doom(t)'
<1> USE DEF Labels, LoginLabels, GuardLabels, ServedLabels
<1> SUFFICES ASSUME work'[t].doomed
             PROVE  work'[t].pc \in {"select", "purge"} /\ Dead(work[t].token)'
  BY DEF Doom
<1>a. ASSUME NEW k \in Nat, work'[t].token = k, Dead(k) PROVE Dead(work[t].token)'
  <2>1. Dead(k)'  BY <1>a, DeadStays
  <2> QED  BY <1>a, <2>1 DEF Dead, Expired, Issuing
<1>b. ASSUME work[t].doomed
      PROVE  work[t].pc \in {"select", "purge"} /\ work[t].token \in Nat /\ Dead(work[t].token)
  <2>1. work[t].pc \in {"select", "purge"} /\ Dead(work[t].token)  BY <1>b DEF Doom
  <2>2. work[t].token \in held /\ held \subseteq 0 .. now /\ now \in Nat
    BY <2>1, TypeParts DEF Carries, CarryingLabels, SetsOK
  <2>3. work[t].token \in 0 .. now  BY <2>2
  <2> QED  BY <2>1, <2>2, <2>3
<1>1. CASE work'[t] = work[t]
  <2>1. PICK k \in Nat : k = work[t].token  BY <1>1, <1>b
  <2> QED  BY <1>1, <2>1, <1>a, <1>b
<1>2. work'[t] # AtRest /\ ~Return(t)
  <2>1. ~AtRest.doomed  BY DEF AtRest
  <2>2. ASSUME Return(t) PROVE work'[t].doomed = FALSE  BY <2>2, ReturnEffect
  <2> QED  BY <2>1, <2>2
<1>3. ASSUME NEW kind \in {"call", "logout"}, NEW token \in held, BeginCall(t, kind, token)
      PROVE  work'[t].pc \in {"select", "purge"} /\ Dead(work[t].token)'
  <2>1. work'[t].pc = "select" /\ work'[t].token = token /\ Dead(token)
    BY <1>3, BeginCallEffect
  <2>2. token \in 0 .. now /\ now \in Nat  BY TypeParts DEF SetsOK
  <2>3. token \in Nat  BY <2>2
  <2> QED  BY <2>1, <2>3, <1>a
<1>4. ~BeginLogin(t)
  <2> SUFFICES ASSUME BeginLogin(t) PROVE FALSE
    OBVIOUS
  <2>1. work[t].pc = "idle" /\ work[t].doomed  BY BeginLoginEffect DEF BeginLogin
  <2> QED  BY <2>1, <1>b
<1>5. CASE Step(t)
  <2>1. ~IssueToken(t)
    <3> SUFFICES ASSUME IssueToken(t) PROVE FALSE
      OBVIOUS
    <3>1. work[t].pc = "issue" /\ work[t].doomed  BY IssueEffect DEF IssueToken
    <3> QED  BY <3>1, <1>b
  <2>2. PICK label \in Labels : GoTo(t, label)
    BY <1>2, <1>5, <2>1 DEF Step, RefuseLogin, AcceptLogin, PersistSession, RowMissing, RowExpired,
       RowValid, Purge, Touch, ParseToken, FindAdmin, Serve, DeleteSession, RequestFails
  <2>3. work'[t].pc = label /\ work'[t].token = work[t].token /\ work[t].doomed
    BY <2>2, GoToEffect
  <2>4. work[t].pc \in {"select", "purge"} /\ work[t].token \in Nat /\ Dead(work[t].token)
    BY <2>3, <1>b
  <2>5. ~RowValid(t)
    <3>1. now \in Nat /\ Duration \in Nat  BY ConstantsOK DEF TypeOK
    <3>2. PICK k \in Nat : k = work[t].token  BY <2>4
    <3> QED  BY <3>1, <3>2, <2>4 DEF RowValid, RowMayBeValid, Dead, Expired
  <2>6. RowExpired(t)
    BY <1>2, <1>5, <2>1, <2>4, <2>5 DEF Step, RefuseLogin, AcceptLogin, PersistSession, RowMissing,
       Purge, Touch, ParseToken, FindAdmin, Serve, DeleteSession, RequestFails
  <2>7. work'[t].pc = "purge"  BY <2>6, GoToEffect DEF RowExpired
  <2>8. PICK k \in Nat : k = work[t].token  BY <2>4
  <2> QED  BY <2>3, <2>4, <2>7, <2>8, <1>a
<1> QED  BY <1>1, <1>2, <1>3, <1>4, <1>5, MovesItself

\* Requests sent with a dead token are refused.
THEOREM DeadTokensAreRefused == Spec => []DoomedRequestsAreRefused
<1>1. Init => \A t \in Slots : Doom(t)  BY DEF Init, AtRest, Doom
<1>2. TypeOK /\ (\A t \in Slots : Doom(t)) /\ [Next]_vars => (\A t \in Slots : Doom(t))'
  BY DoomStep
<1>3. (\A t \in Slots : Doom(t)) => DoomedRequestsAreRefused
  BY DEF Doom, DoomedRequestsAreRefused, ServedLabels
<1> QED  BY <1>1, <1>2, <1>3, TypeCorrect, PTL DEF Spec

-----------------------------------------------------------------------------
\* LogoutSticks strengthened: two logins share a token when one of them is about to
\* insert its row and the other one is, too, or has done so.
IssuedTwice(t, k) ==
  Issuing(t, k) =>
    /\ k \in held \cup tokens => k \in shared
    /\ \A u \in Slots \ {t} : Issuing(u, k) => k \in shared

SharedInv == LogoutSticks /\ \A t \in Slots, k \in Nat : IssuedTwice(t, k)

LEMMA SharedStep == TypeOK /\ SharedInv /\ [Next]_vars => SharedInv'
<1> SUFFICES ASSUME TypeOK, SharedInv, [Next]_vars PROVE SharedInv'
  OBVIOUS
<1>0. /\ shared \subseteq shared' /\ held \subseteq held'
      /\ ended \subseteq held /\ held \subseteq Nat
  <2>1. now \in Nat /\ held \subseteq 0 .. now  BY DEF TypeOK
  <2>2. held \subseteq Nat  BY <2>1
  <2> QED  BY <2>2, HistoryStep DEF TypeOK
<1>1. ASSUME NEW k \in ended' \ shared', k \in tokens' PROVE FALSE
  <2>1. CASE k \notin ended
    <3>1. PICK t \in Slots : DeleteSession(t) /\ k = work[t].token  BY <1>1, <2>1, HistoryStep
    <3> QED  BY <1>1, <3>1 DEF DeleteSession
  <2>2. CASE k \in ended
    <3>1. k \notin tokens  BY <1>0, <1>1, <2>2 DEF SharedInv, LogoutSticks
    <3>2. PICK t \in Slots : Issuing(t, k)  BY <1>1, <3>1, TokensStep
    <3>3. k \in Nat /\ k \in held  BY <1>0, <2>2
    <3> QED  BY <1>0, <1>1, <3>2, <3>3 DEF SharedInv, IssuedTwice
  <2> QED  BY <2>1, <2>2
<1>2. ASSUME NEW t \in Slots, NEW k \in Nat, Issuing(t, k)' PROVE IssuedTwice(t, k)'
  <2>0. Issuing(t, k) \/ (IssueToken(t) /\ k = now)  BY <1>2, IssuingStep
  <2>1. ASSUME k \in held' \cup tokens' PROVE k \in shared'
    <3>1. CASE IssueToken(t) /\ k = now  BY <2>1, <3>1 DEF IssueToken
    <3>2. CASE Issuing(t, k) /\ k \in held \cup tokens
      BY <1>0, <3>2 DEF SharedInv, IssuedTwice
    <3>3. CASE Issuing(t, k) /\ k \notin held \cup tokens
      <4>1. PICK u \in Slots : PersistSession(u) /\ Issuing(u, k)
        BY <2>1, <3>3, TokensStep, HistoryStep
      <4>2. u # t  BY <1>2, <4>1, ReturnEffect DEF PersistSession, Issuing
      <4> QED  BY <1>0, <3>3, <4>1, <4>2 DEF SharedInv, IssuedTwice
    <3> QED  BY <2>0, <3>1, <3>2, <3>3
  <2>2. ASSUME NEW u \in Slots \ {t}, Issuing(u, k)' PROVE k \in shared'
    <3>1. Issuing(u, k) \/ (IssueToken(u) /\ k = now)  BY <2>2, IssuingStep
    <3>2. CASE Issuing(t, k) /\ Issuing(u, k)  BY <1>0, <2>2, <3>2 DEF SharedInv, IssuedTwice
    <3>3. CASE Issuing(t, k) /\ IssueToken(u) /\ k = now  BY <3>3 DEF IssueToken
    <3>4. CASE Issuing(u, k) /\ IssueToken(t) /\ k = now  BY <3>4 DEF IssueToken
    <3>5. ~(IssueToken(t) /\ IssueToken(u))
      <4> SUFFICES ASSUME IssueToken(t), IssueToken(u) PROVE FALSE
        OBVIOUS
      <4>1. work[u].pc = "issue" /\ work'[u] = work[u] /\ work'[u].pc = "persist"
        BY <2>2, IssueEffect DEF IssueToken
      <4> QED  BY <4>1
    <3> QED  BY <2>0, <3>1, <3>2, <3>3, <3>4, <3>5
  <2> QED  BY <2>1, <2>2 DEF IssuedTwice
<1> QED  BY <1>1, <1>2 DEF SharedInv, LogoutSticks, IssuedTwice

\* A logout ends a session for good, unless two logins shared its token.
THEOREM LogoutIsFinal == Spec => []LogoutSticks
<1>1. Init => SharedInv  BY DEF Init, SharedInv, LogoutSticks, IssuedTwice, Issuing, AtRest
<1>2. SharedInv => LogoutSticks  BY DEF SharedInv
<1> QED  BY <1>1, <1>2, SharedStep, TypeCorrect, PTL DEF Spec

-----------------------------------------------------------------------------
\* AnsweredSessionLives strengthened: a row about to be purged may have expired.
PurgesExpired(t) == work[t].pc = "purge" => RowMayBeExpired(work[t].token)

LEMMA PurgeStep ==
  ASSUME TypeOK, [Next]_vars, NEW t \in Slots, PurgesExpired(t)
  PROVE  PurgesExpired(t)'
<1> USE DEF Labels, LoginLabels, GuardLabels, ServedLabels
<1> SUFFICES ASSUME work'[t].pc = "purge" PROVE RowMayBeExpired(work[t].token)'
  BY DEF PurgesExpired
<1>0. now \in Nat /\ now' \in Nat /\ now <= now' /\ Duration \in Nat
  BY ClockStep, ConstantsOK
<1>a. ASSUME work[t].pc \in GuardLabels, work'[t].token = work[t].token,
             RowMayBeExpired(work[t].token)
      PROVE  RowMayBeExpired(work[t].token)'
  <2>1. work[t].token \in 0 .. now  BY <1>a DEF TypeOK
  <2>2. PICK k \in Nat : k = work[t].token  BY <2>1, <1>0
  <2> QED  BY <1>0, <1>a, <2>2 DEF RowMayBeExpired
<1>1. CASE work'[t] = work[t]  BY <1>1, <1>a DEF PurgesExpired
<1>2. work'[t] # AtRest /\ ~Return(t) /\ ~BeginLogin(t)
  <2>1. AtRest.pc = "idle"  BY DEF AtRest
  <2>2. ASSUME Return(t) PROVE work'[t].pc = "idle"  BY <2>2, ReturnEffect
  <2>3. ASSUME BeginLogin(t) PROVE work'[t].pc = "compare"  BY <2>3, BeginLoginEffect
  <2> QED  BY <2>1, <2>2, <2>3
<1>3. ASSUME NEW kind \in {"call", "logout"}, NEW token \in held PROVE ~BeginCall(t, kind, token)
  BY BeginCallEffect
<1>4. CASE Step(t)
  <2>1. ~IssueToken(t)  BY IssueEffect
  <2>2. \A label \in Labels : GoTo(t, label) => label = "purge"  BY GoToEffect
  <2>3. RowExpired(t)
    BY <1>2, <1>4, <2>1, <2>2 DEF Step, RefuseLogin, AcceptLogin, PersistSession, RowMissing,
       RowValid, Purge, Touch, ParseToken, FindAdmin, Serve, DeleteSession, RequestFails
  <2>4. work'[t].token = work[t].token  BY <2>3, GoToEffect DEF RowExpired
  <2> QED  BY <2>3, <2>4, <1>a DEF RowExpired
<1> QED  BY <1>1, <1>2, <1>3, <1>4, MovesItself

LifeInv == AnsweredSessionLives /\ \A t \in Slots : PurgesExpired(t)

LEMMA LifeStep == TypeOK /\ LifeInv /\ [Next]_vars => LifeInv'
<1> SUFFICES ASSUME TypeOK, LifeInv, [Next]_vars PROVE LifeInv'
  OBVIOUS
<1>0. now \in Nat /\ now' \in Nat /\ now <= now' /\ Duration \in Nat
  BY ClockStep, ConstantsOK
<1>1. ASSUME NEW k \in held' \ ended', k \notin tokens' PROVE RowMayBeExpired(k)'
  <2>0. k \in held
    <3> SUFFICES ASSUME k \notin held PROVE FALSE
      OBVIOUS
    <3>1. PICK t \in Slots : PersistSession(t) /\ Issuing(t, k)  BY <1>1, HistoryStep
    <3> QED  BY <1>1, <3>1 DEF PersistSession, Issuing
  <2>1. k \in 0 .. now  BY <2>0 DEF TypeOK
  <2>a. ASSUME RowMayBeExpired(k) PROVE RowMayBeExpired(k)'
    BY <2>a, <2>1, <1>0 DEF RowMayBeExpired
  <2>2. CASE k \in tokens
    <3>1. PICK t \in Slots : (Purge(t) \/ DeleteSession(t)) /\ k = work[t].token
      BY <1>1, <2>2, TokensStep
    <3>2. ~DeleteSession(t)  BY <1>1, <3>1 DEF DeleteSession
    <3>3. RowMayBeExpired(k)  BY <3>1, <3>2 DEF LifeInv, PurgesExpired, Purge
    <3> QED  BY <3>3, <2>a
  <2>3. CASE k \notin tokens
    <3>1. k \notin ended  BY <1>1, HistoryStep
    <3> QED  BY <2>0, <2>3, <3>1, <2>a DEF LifeInv, AnsweredSessionLives
  <2> QED  BY <2>2, <2>3
<1> QED  BY <1>1, PurgeStep DEF LifeInv, AnsweredSessionLives

\* A session a login has answered with lives until it runs out or is logged out.
THEOREM SessionsLive == Spec => []AnsweredSessionLives
<1>1. Init => LifeInv  BY DEF Init, LifeInv, AnsweredSessionLives, PurgesExpired, AtRest
<1>2. LifeInv => AnsweredSessionLives  BY DEF LifeInv
<1> QED  BY <1>1, <1>2, LifeStep, TypeCorrect, PTL DEF Spec
-----------------------------------------------------------------------------
(* AuthSessions implements SessionService. *)
Live == {token \in tokens : ~Expired(token)}
Calls == [t \in Slots |-> SeenAs(t)]
Unseen == [pc |-> "idle", token |-> NoToken]

\* The clock stays within its bound, so every token is one of SessionService.
Bounded == now \in Seconds

LEMMA BoundedStep == TypeOK /\ Bounded /\ [Next]_vars => Bounded'
<1> SUFFICES ASSUME TypeOK, Bounded, [Next]_vars PROVE Bounded'
  OBVIOUS
<1>1. now' = now \/ (now < Horizon /\ now' = now + 1)
  BY DEF Next, vars, Step, BeginLogin, RefuseLogin, AcceptLogin, IssueToken, PersistSession,
     BeginCall, RowMissing, RowExpired, RowValid, Purge, Touch, ParseToken, FindAdmin, Serve,
     DeleteSession, RequestFails, Crash, Tick
<1>2. Horizon \in Nat  BY ConstantsOK
<1> QED  BY <1>1, <1>2 DEF Bounded, Seconds

\* What a client sees of a request, by the label it is at.
LEMMA SeenByLabel ==
  ASSUME NEW t \in Slots
  PROVE  /\ work[t].pc = "persist" => SeenAs(t) = [pc |-> "opening", token |-> work[t].token]
         /\ work[t].pc \in {"select", "purge"} =>
              SeenAs(t) = [pc |-> "asked", token |-> work[t].token]
         /\ work[t].pc \in {"touch", "parse", "admin", "serve", "delete"} =>
              SeenAs(t) = [pc |-> "granted", token |-> work[t].token]
         /\ work[t].pc \in {"idle", "compare", "issue"} => SeenAs(t) = Unseen
BY DEF SeenAs, ServedLabels, Unseen

LEMMA SeenByLabelNext ==
  ASSUME NEW t \in Slots
  PROVE  /\ work'[t].pc = "persist" => SeenAs(t)' = [pc |-> "opening", token |-> work'[t].token]
         /\ work'[t].pc \in {"select", "purge"} =>
              SeenAs(t)' = [pc |-> "asked", token |-> work'[t].token]
         /\ work'[t].pc \in {"touch", "parse", "admin", "serve", "delete"} =>
              SeenAs(t)' = [pc |-> "granted", token |-> work'[t].token]
         /\ work'[t].pc \in {"idle", "compare", "issue"} => SeenAs(t)' = Unseen
BY DEF SeenAs, ServedLabels, Unseen

\* A step of one request changes what clients see of that request only.
LEMMA SeenFrame ==
  ASSUME NEW t \in Slots, \A u \in Slots \ {t} : work'[u] = work[u], NEW r, SeenAs(t)' = r
  PROVE  Calls' = [Calls EXCEPT ![t] = r]
<1>1. \A u \in Slots \ {t} : SeenAs(u)' = SeenAs(u)  BY DEF SeenAs
<1> QED  BY <1>1 DEF Calls

LEMMA SeenStutter ==
  ASSUME NEW t \in Slots, \A u \in Slots \ {t} : work'[u] = work[u], SeenAs(t)' = SeenAs(t)
  PROVE  Calls' = Calls
<1>1. \A u \in Slots : SeenAs(u)' = SeenAs(u)
  <2> TAKE u \in Slots
  <2>1. CASE u = t  BY <2>1
  <2>2. CASE u # t  BY <2>2 DEF SeenAs
  <2> QED  BY <2>1, <2>2
<1> QED  BY <1>1 DEF Calls

LEMMA LiveFrame ==
  ASSUME UNCHANGED <<now, tokens>>
  PROVE  Live' = Live
BY DEF Live, Expired

\* One step of one request, as clients see it.
LEMMA SeenStep ==
  ASSUME TypeOK, Bounded, NEW t \in Slots, BeginLogin(t) \/ Step(t)
  PROVE  \/ Live' = Live /\ Calls' = Calls
         \/ \E token \in Seconds :
              /\ Calls[t].pc = "idle"
              /\ Calls' = [Calls EXCEPT ![t] = [pc |-> "opening", token |-> token]]
              /\ Live' = Live
         \/ /\ Calls[t].pc = "opening"
            /\ Live' = Live \cup {Calls[t].token}
            /\ Calls' = [Calls EXCEPT ![t] = Unseen]
         \/ /\ Calls[t].pc = "asked" /\ Calls[t].token \in Live
            /\ Calls' = [Calls EXCEPT ![t].pc = "granted"]
            /\ Live' = Live
         \/ /\ Calls[t].pc = "asked"
            /\ Live' \in {Live, Live \ {Calls[t].token}}
            /\ Calls' = [Calls EXCEPT ![t] = Unseen]
         \/ /\ Calls[t].pc # "idle"
            /\ Calls' = [Calls EXCEPT ![t] = Unseen]
            /\ Live' = Live
         \/ /\ Calls[t].pc = "granted"
            /\ Live' = Live \ {Calls[t].token}
            /\ Calls' = [Calls EXCEPT ![t] = Unseen]
<1> USE DEF Labels, LoginLabels, GuardLabels, ServedLabels
<1>0. Calls[t] = SeenAs(t)  BY DEF Calls
<1>a. ASSUME Return(t) PROVE Calls' = [Calls EXCEPT ![t] = Unseen]
  BY <1>a, ReturnEffect, SeenByLabelNext, SeenFrame
<1>b. ASSUME Return(t), UNCHANGED <<now, tokens>>
      PROVE  \/ Live' = Live /\ Calls' = Calls
             \/ Calls[t].pc # "idle" /\ Calls' = [Calls EXCEPT ![t] = Unseen] /\ Live' = Live
  <2>1. SeenAs(t) = Unseen \/ SeenAs(t).pc # "idle"
    <3>1. work[t].pc \in Labels  BY DEF TypeOK, Request
    <3> QED  BY <3>1, SeenByLabel
  <2>2. CASE SeenAs(t) = Unseen
    <3>1. Calls' = Calls  BY <1>b, <2>2, ReturnEffect, SeenByLabelNext, SeenStutter
    <3> QED  BY <1>b, <3>1, LiveFrame
  <2> QED  BY <1>0, <1>a, <1>b, <2>1, <2>2, LiveFrame
<1>1. CASE BeginLogin(t)
  <2>1. SeenAs(t)' = SeenAs(t)
    BY <1>1, BeginLoginEffect, SeenByLabel, SeenByLabelNext DEF BeginLogin
  <2> QED  BY <1>1, <2>1, BeginLoginEffect, SeenStutter, LiveFrame DEF BeginLogin
<1>2. CASE RefuseLogin(t) \/ RowMissing(t) \/ RequestFails(t)
  <2>1. Return(t) /\ UNCHANGED <<now, tokens>>  BY <1>2 DEF RefuseLogin, RowMissing, RequestFails
  <2> QED  BY <1>b, <2>1
<1>3. CASE AcceptLogin(t) \/ RowExpired(t) \/ Touch(t) \/ FindAdmin(t)
  <2>1. /\ \A u \in Slots \ {t} : work'[u] = work[u]
        /\ UNCHANGED <<now, tokens>>
        /\ SeenAs(t)' = SeenAs(t)
    BY <1>3, GoToEffect, SeenByLabel, SeenByLabelNext DEF AcceptLogin, RowExpired, Touch, FindAdmin
  <2> QED  BY <2>1, SeenStutter, LiveFrame
<1>4. CASE IssueToken(t)
  <2>1. /\ SeenAs(t) = Unseen
        /\ SeenAs(t)' = [pc |-> "opening", token |-> now]
        /\ UNCHANGED <<now, tokens>>
    BY <1>4, IssueEffect, SeenByLabel, SeenByLabelNext DEF IssueToken
  <2>2. Calls' = [Calls EXCEPT ![t] = [pc |-> "opening", token |-> now]]
    BY <1>4, <2>1, IssueEffect, SeenFrame
  <2>3. Calls[t].pc = "idle"  BY <1>0, <2>1 DEF Unseen
  <2>4. Live' = Live  BY <2>1, LiveFrame
  <2>5. \E token \in Seconds : Calls' = [Calls EXCEPT ![t] = [pc |-> "opening", token |-> token]]
    BY <2>2 DEF Bounded
  <2> QED  BY <2>3, <2>4, <2>5
<1>5. CASE PersistSession(t)
  <2>1. SeenAs(t) = [pc |-> "opening", token |-> work[t].token]
    BY <1>5, SeenByLabel DEF PersistSession
  <2>2. tokens' = tokens \cup {work[t].token} /\ now' = now  BY <1>5 DEF PersistSession
  <2>3. Live' = Live \/ Live' = Live \cup {work[t].token}  BY <2>2 DEF Live, Expired
  <2> QED  BY <1>0, <1>5, <1>a, <2>1, <2>3 DEF PersistSession
<1>6. CASE RowValid(t)
  <2>1. /\ SeenAs(t) = [pc |-> "asked", token |-> work[t].token]
        /\ SeenAs(t)' = [pc |-> "granted", token |-> work[t].token]
        /\ \A u \in Slots \ {t} : work'[u] = work[u]
        /\ UNCHANGED <<now, tokens>>
    BY <1>6, GoToEffect, SeenByLabel, SeenByLabelNext DEF RowValid
  <2>2. work[t].token \in Live
    <3>1. now \in Nat /\ Duration \in Nat /\ tokens \subseteq 0 .. now  BY ConstantsOK DEF TypeOK
    <3>2. PICK k \in tokens : k = work[t].token /\ RowMayBeValid(k)  BY <1>6 DEF RowValid
    <3>3. k \in Nat  BY <3>1, <3>2
    <3>4. ~Expired(k)  BY <3>1, <3>2, <3>3 DEF Expired, RowMayBeValid
    <3> QED  BY <3>2, <3>4 DEF Live
  <2>3. Calls' = [Calls EXCEPT ![t] = [pc |-> "granted", token |-> work[t].token]]
    BY <2>1, SeenFrame
  <2>4. [Calls[t] EXCEPT !.pc = "granted"] = [pc |-> "granted", token |-> work[t].token]
    BY <1>0, <2>1
  <2>5. Calls' = [Calls EXCEPT ![t].pc = "granted"]  BY <2>3, <2>4
  <2>6. Calls[t].pc = "asked" /\ Calls[t].token \in Live  BY <1>0, <2>1, <2>2
  <2>7. Live' = Live  BY <2>1, LiveFrame
  <2> QED  BY <2>5, <2>6, <2>7
<1>7. CASE Purge(t)
  <2>1. SeenAs(t) = [pc |-> "asked", token |-> work[t].token]  BY <1>7, SeenByLabel DEF Purge
  <2>2. now' = now /\ (tokens' = tokens \/ tokens' = tokens \ {work[t].token})
    BY <1>7 DEF Purge
  <2>3. Live' = Live \/ Live' = Live \ {work[t].token}  BY <2>2 DEF Live, Expired
  <2> QED  BY <1>0, <1>7, <1>a, <2>1, <2>3 DEF Purge
<1>8. CASE ParseToken(t) \/ Serve(t)
  <2>1. UNCHANGED <<now, tokens>>  BY <1>8 DEF ParseToken, Serve
  <2>2. CASE Return(t)  BY <1>b, <2>1, <2>2
  <2>3. CASE ~Return(t)
    <3>1. /\ \A u \in Slots \ {t} : work'[u] = work[u]
          /\ SeenAs(t)' = SeenAs(t)
      BY <1>8, <2>3, GoToEffect, SeenByLabel, SeenByLabelNext DEF ParseToken, Serve
    <3> QED  BY <2>1, <3>1, SeenStutter, LiveFrame
  <2> QED  BY <2>2, <2>3
<1>9. CASE DeleteSession(t)
  <2>1. SeenAs(t) = [pc |-> "granted", token |-> work[t].token]
    BY <1>9, SeenByLabel DEF DeleteSession
  <2>2. Live' = Live \ {work[t].token}  BY <1>9 DEF DeleteSession, Live, Expired
  <2> QED  BY <1>0, <1>9, <1>a, <2>1, <2>2 DEF DeleteSession
<1> QED  BY <1>1, <1>2, <1>3, <1>4, <1>5, <1>6, <1>7, <1>8, <1>9 DEF Step

LEMMA SessionStep ==
  ASSUME TypeOK, Bounded, [Next]_vars
  PROVE  [Sessions!Next]_(Sessions!vars)
<1> USE DEF Sessions!vars, Sessions!Next
<1>a. ASSUME Live' = Live, Calls' = Calls PROVE UNCHANGED Sessions!vars
  BY <1>a DEF Live, Calls
<1>1. ASSUME NEW t \in Slots, BeginLogin(t) \/ Step(t) PROVE [Sessions!Next]_(Sessions!vars)
  BY <1>1, <1>a, SeenStep DEF Live, Calls, Unseen, Sessions!Issue, Sessions!Open, Sessions!Grant,
     Sessions!Refuse, Sessions!Finish, Sessions!Close, Sessions!At, Sessions!Leave, Sessions!Idle
<1>2. ASSUME NEW t \in Slots, NEW kind \in {"call", "logout"}, NEW token \in held,
             BeginCall(t, kind, token)
      PROVE  Sessions!Ask(t, token) /\ token \in Seconds
  <2>1. token \in Seconds
    <3>1. held \subseteq 0 .. now /\ now \in 0 .. Horizon /\ Horizon \in Nat
      BY ConstantsOK DEF TypeOK, Bounded, Seconds
    <3> QED  BY <3>1 DEF Seconds
  <2>2. /\ Calls[t] = Unseen
        /\ SeenAs(t)' = [pc |-> "asked", token |-> token]
        /\ UNCHANGED <<now, tokens>>
    BY <1>2, BeginCallEffect, SeenByLabel, SeenByLabelNext DEF BeginCall, Calls
  <2>3. Calls' = [Calls EXCEPT ![t] = [pc |-> "asked", token |-> token]]
    BY <1>2, <2>2, BeginCallEffect, SeenFrame
  <2> QED  BY <2>1, <2>2, <2>3, LiveFrame DEF Live, Calls, Unseen, Sessions!Ask, Sessions!At
<1>3. CASE Crash
  <2>1. \A t \in Slots : SeenAs(t)' = Unseen
    BY <1>3, SeenByLabelNext DEF Crash, AtRest
  <2>2. Calls' = [t \in Slots |-> Unseen] /\ Live' = Live
    BY <1>3, <2>1, LiveFrame DEF Crash, Calls
  <2> QED  BY <2>2 DEF Live, Calls, Unseen, Sessions!Restart, Sessions!Idle
<1>4. CASE Tick
  <2>1. tokens' = tokens /\ work' = work /\ now \in Nat /\ now' = now + 1 /\ tokens \subseteq Nat
    <3>1. now \in Nat /\ tokens \subseteq 0 .. now  BY DEF TypeOK
    <3> QED  BY <1>4, <3>1 DEF Tick
  <2>2. Duration \in Nat  BY ConstantsOK
  <2>3. \A token \in Nat : Expired(token) => Expired(token)'  BY <2>1, <2>2 DEF Expired
  <2>4. Live' \subseteq Live  BY <2>1, <2>3 DEF Live
  <2>5. Calls' = Calls  BY <2>1 DEF Calls, SeenAs
  <2> QED  BY <2>4, <2>5 DEF Live, Calls, Sessions!Expire
<1>5. CASE UNCHANGED vars
  <2>1. Live' = Live /\ Calls' = Calls  BY <1>5 DEF vars, Live, Calls, Expired, SeenAs
  <2> QED  BY <1>a, <2>1
<1> QED  BY <1>1, <1>2, <1>3, <1>4, <1>5 DEF Next

\* The sessions that clients see are those of SessionService: opened by a login,
\* granting while they live, and never brought back.
THEOREM ImplementsSessionService == Spec => SessionServiceSpec
<1>1. Init => Bounded  BY ConstantsOK DEF Init, Bounded, Seconds
<1>2. Init => Sessions!Init
  <2> SUFFICES ASSUME Init PROVE Sessions!Init
    OBVIOUS
  <2>1. \A t \in Slots : SeenAs(t) = Unseen  BY SeenByLabel DEF Init, AtRest
  <2> QED  BY <2>1 DEF Init, Unseen, Sessions!Init, Sessions!Idle
<1>3. Spec => []Bounded  BY <1>1, BoundedStep, TypeCorrect, PTL DEF Spec
<1>4. TypeOK /\ Bounded /\ [Next]_vars => [Sessions!Next]_(Sessions!vars)  BY SessionStep
<1> QED  BY <1>2, <1>3, <1>4, TypeCorrect, PTL DEF Spec, SessionServiceSpec, Sessions!Spec
=============================================================================
