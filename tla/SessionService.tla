---------------------------- MODULE SessionService ----------------------------
(***************************************************************************)
(* What AuthService and requireAuth promise to whoever signs in: a session *)
(* is opened by a login, grants requests while it lives, and ends when it  *)
(* is closed or runs out; nothing brings it back.  AuthSessions implements *)
(* this, and the browser relies on no more than this.                      *)
(***************************************************************************)

CONSTANTS Slots, Tokens, NoToken

VARIABLES
  live,  \* the tokens that are good
  call   \* each request in the server, with its token

vars == <<live, call>>

Idle == [pc |-> "idle", token |-> NoToken]
At(t, label) == call[t].pc = label
Leave(t) == call' = [call EXCEPT ![t] = Idle]

Init == live = {} /\ call = [t \in Slots |-> Idle]

\* A login: a token is issued, and is good once it is stored.
Issue(t, token) ==
  /\ At(t, "idle")
  /\ call' = [call EXCEPT ![t] = [pc |-> "opening", token |-> token]]
  /\ UNCHANGED live

Open(t) ==
  /\ At(t, "opening")
  /\ live' = live \cup {call[t].token}
  /\ Leave(t)

\* Any other request: it is granted by a good token only, and may be refused with
\* any, for the token is running out or the server fails.
Ask(t, token) ==
  /\ At(t, "idle")
  /\ call' = [call EXCEPT ![t] = [pc |-> "asked", token |-> token]]
  /\ UNCHANGED live

Grant(t) ==
  /\ At(t, "asked")
  /\ call[t].token \in live
  /\ call' = [call EXCEPT ![t].pc = "granted"]
  /\ UNCHANGED live

Refuse(t) ==
  /\ At(t, "asked")
  /\ live' \in {live, live \ {call[t].token}}
  /\ Leave(t)

\* A request is over, granted or not.
Finish(t) ==
  /\ ~At(t, "idle")
  /\ Leave(t)
  /\ UNCHANGED live

\* A logout that was granted ends the session, for whoever else uses it.
Close(t) ==
  /\ At(t, "granted")
  /\ live' = live \ {call[t].token}
  /\ Leave(t)

Expire ==
  /\ live' \subseteq live
  /\ UNCHANGED call

Restart ==
  /\ call' = [t \in Slots |-> Idle]
  /\ UNCHANGED live

Next ==
  \/ \E t \in Slots, token \in Tokens : Issue(t, token) \/ Ask(t, token)
  \/ \E t \in Slots : Open(t) \/ Grant(t) \/ Refuse(t) \/ Finish(t) \/ Close(t)
  \/ Expire
  \/ Restart

Spec == Init /\ [][Next]_vars
=============================================================================
