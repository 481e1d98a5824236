----------------------------- MODULE AuthBootstrap -----------------------------
(***************************************************************************)
(* AuthService.Initialize (services/auth_service.go) as app.Bootstrap runs *)
(* it in every process that starts: the server, and each command of the    *)
(* command line tool.  It makes sure of the signing secret and of the      *)
(* first administrator, whose generated password exists in clear only in   *)
(* the memory of the process until it is written to the credentials file   *)
(* and printed.  No transaction spans the steps, and nothing keeps two     *)
(* processes from starting on an empty panel database at the same time.    *)
(***************************************************************************)
EXTENDS FiniteSets

CONSTANTS
  Processes,  \* the server and the commands of the tool
  Configured, \* KLOUDBOY_AUTH_SECRET in the environment of each process, or None
  Email,      \* the administrator's address in the environment of each process
  Secrets,    \* what randomToken(48) may return, and what may be configured
  Passwords,  \* what randomToken(18) may return
  None,       \* no value
  Torn,       \* a credentials file truncated and not yet written
  Faults      \* the kinds of failure that may happen

FaultKinds == {"statement", "crash"}
Emails == {Email[p] : p \in Processes}

ASSUME ConstantsOK ==
  /\ None \notin Secrets \cup Passwords /\ Torn \notin Passwords /\ Torn # None
  /\ Configured \in [Processes -> Secrets \cup {None}]
  /\ Faults \subseteq FaultKinds

VARIABLES
  stored,       \* server_settings: the value of auth_secret
  admins,       \* the table admins: for each address the password of its row, if any
  credentials,  \* the file initial-admin.txt: the password it names
  printed,      \* the passwords in the log
  proc,         \* each process: where it is, its secret, its generated password
  contested,    \* history: the processes that got their secret in a contest for it
  cutOff        \* history: a boot ended between its INSERT and its last log line

vars == <<stored, admins, credentials, printed, proc, contested, cutOff>>
Stores == <<stored, admins, credentials, printed>>
History == <<contested, cutOff>>

-----------------------------------------------------------------------------
Labels == {"down", "read", "store", "count", "insert", "truncate", "write", "print", "up"}

\* The administrator is recorded and nothing but the process knows the password.
PublishingLabels == {"truncate", "write", "print"}

Down == [pc |-> "down", secret |-> None, password |-> None]

\* A random value is one that exists nowhere else.
FreshSecrets ==
  Secrets \ ({stored} \cup {proc[q].secret : q \in Processes}
                     \cup {Configured[q] : q \in Processes})
FreshPasswords ==
  Passwords \ ({admins[e] : e \in Emails} \cup {credentials} \cup printed
                       \cup {proc[q].password : q \in Processes})
NoAdmins == \A e \in Emails : admins[e] = None
Registered(p) == admins[Email[p]] # None

\* The processes with a generated secret that the database does not hold yet.
Storing == {q \in Processes : proc[q].pc = "store"}

GoTo(p, label) == proc' = [proc EXCEPT ![p].pc = label]
Stop(p) == proc' = [proc EXCEPT ![p] = Down] /\ contested' = contested \ {p}

-----------------------------------------------------------------------------
(* Faulty variants of single actions, each the code with one plausible bug. *)

\* CredentialsAreTrue: the credentials are written before the INSERT decides.
NoAdminWritesFirst(p) ==
  /\ proc[p].pc = "count" /\ NoAdmins
  /\ \E new \in FreshPasswords :
       /\ proc' = [proc EXCEPT ![p].pc = "insert", ![p].password = new]
       /\ credentials' = new
  /\ UNCHANGED <<stored, admins, printed, History>>

\* ServingIsInitialised: the count is read the wrong way round.
NoAdminServes(p) ==
  /\ proc[p].pc = "count" /\ NoAdmins
  /\ GoTo(p, "up")
  /\ UNCHANGED <<Stores, History>>

\* PublishedUnlessCutOff: the result of writing the file is not looked at.
TruncateThenPrint(p) ==
  /\ proc[p].pc = "truncate"
  /\ credentials' = Torn
  /\ GoTo(p, "print")
  /\ UNCHANGED <<stored, admins, printed, History>>

\* SecretAgreement: a process that finds a secret generates its own all the same.
SecretFoundUnused(p) ==
  /\ proc[p].pc = "read" /\ Configured[p] = None /\ stored # None
  /\ \E new \in FreshSecrets : proc' = [proc EXCEPT ![p].pc = "count", ![p].secret = new]
  /\ UNCHANGED <<Stores, History>>

\* TypeOK: the log line is printed before the password is generated.
EmailTakenPrints(p) ==
  /\ proc[p].pc = "insert" /\ Registered(p)
  /\ printed' = printed \cup {None}
  /\ Stop(p)
  /\ UNCHANGED <<stored, admins, credentials, cutOff>>

-----------------------------------------------------------------------------
Init ==
  /\ stored = None
  /\ admins = [e \in Emails |-> None]
  /\ credentials = None
  /\ printed = {}
  /\ proc = [p \in Processes |-> Down]
  /\ contested = {}
  /\ cutOff = FALSE

\* A process starts; opening the database and seeding settings changes nothing here.
Start(p) ==
  /\ proc[p].pc = "down"
  /\ GoTo(p, "read")
  /\ UNCHANGED <<Stores, History>>

\* The configured secret is used as it is and never stored.
SecretConfigured(p) ==
  /\ proc[p].pc = "read"
  /\ Configured[p] # None
  /\ proc' = [proc EXCEPT ![p].pc = "count", ![p].secret = Configured[p]]
  /\ UNCHANGED <<Stores, History>>

SecretFound(p) ==
  /\ proc[p].pc = "read"
  /\ Configured[p] = None
  /\ stored # None
  /\ proc' = [proc EXCEPT ![p].pc = "count", ![p].secret = stored]
  /\ contested' = IF Storing = {} THEN contested ELSE contested \cup {p}
  /\ UNCHANGED <<Stores, cutOff>>

SecretMissing(p) ==
  /\ proc[p].pc = "read"
  /\ Configured[p] = None
  /\ stored = None
  /\ \E new \in FreshSecrets : proc' = [proc EXCEPT ![p].pc = "store", ![p].secret = new]
  /\ contested' = IF Storing = {} THEN contested ELSE contested \cup Storing \cup {p}
  /\ UNCHANGED <<Stores, cutOff>>

\* INSERT ... ON CONFLICT DO UPDATE: the last process to store wins.
StoreSecret(p) ==
  /\ proc[p].pc = "store"
  /\ stored' = proc[p].secret
  /\ GoTo(p, "count")
  /\ UNCHANGED <<admins, credentials, printed, History>>

AdminExists(p) ==
  /\ proc[p].pc = "count"
  /\ ~NoAdmins
  /\ GoTo(p, "up")
  /\ UNCHANGED <<Stores, History>>

NoAdmin(p) ==
  /\ proc[p].pc = "count"
  /\ NoAdmins
  /\ \E new \in FreshPasswords :
       proc' = [proc EXCEPT ![p].pc = "insert", ![p].password = new]
  /\ UNCHANGED <<Stores, History>>

InsertAdmin(p) ==
  /\ proc[p].pc = "insert"
  /\ ~Registered(p)
  /\ admins' = [admins EXCEPT ![Email[p]] = proc[p].password]
  /\ GoTo(p, "truncate")
  /\ UNCHANGED <<stored, credentials, printed, History>>

\* The address is UNIQUE: the slower of two first boots with one address exits.
EmailTaken(p) ==
  /\ proc[p].pc = "insert"
  /\ Registered(p)
  /\ Stop(p)
  /\ UNCHANGED <<Stores, cutOff>>

\* os.WriteFile empties the credentials file, then fills it.
TruncateCredentials(p) ==
  /\ proc[p].pc = "truncate"
  /\ credentials' = Torn
  /\ GoTo(p, "write")
  /\ UNCHANGED <<stored, admins, printed, History>>

WriteCredentials(p) ==
  /\ proc[p].pc = "write"
  /\ credentials' = proc[p].password
  /\ GoTo(p, "print")
  /\ UNCHANGED <<stored, admins, printed, History>>

PrintCredentials(p) ==
  /\ proc[p].pc = "print"
  /\ printed' = printed \cup {proc[p].password}
  /\ proc' = [proc EXCEPT ![p].pc = "up", ![p].password = None]
  /\ UNCHANGED <<stored, admins, credentials, History>>

\* A statement or a file operation fails, and the process exits with the error.
BootFails(p) ==
  /\ "statement" \in Faults
  /\ proc[p].pc \in Labels \ {"down", "print", "up"}
  /\ Stop(p)
  /\ cutOff' = (cutOff \/ proc[p].pc \in PublishingLabels)
  /\ UNCHANGED Stores

Crash(p) ==
  /\ "crash" \in Faults
  /\ proc[p].pc \notin {"down", "up"}
  /\ Stop(p)
  /\ cutOff' = (cutOff \/ proc[p].pc \in PublishingLabels)
  /\ UNCHANGED Stores

\* A command of the tool ends, or the server is stopped.
Exit(p) ==
  /\ proc[p].pc = "up"
  /\ Stop(p)
  /\ UNCHANGED <<Stores, cutOff>>

Step(p) ==
  \/ SecretConfigured(p) \/ SecretFound(p) \/ SecretMissing(p) \/ StoreSecret(p)
  \/ AdminExists(p) \/ NoAdmin(p) \/ InsertAdmin(p) \/ EmailTaken(p)
  \/ TruncateCredentials(p) \/ WriteCredentials(p) \/ PrintCredentials(p)

Next == \E p \in Processes : Start(p) \/ Step(p) \/ BootFails(p) \/ Crash(p) \/ Exit(p)

Spec == Init /\ [][Next]_vars

-----------------------------------------------------------------------------
Proc == [pc : Labels, secret : Secrets \cup {None}, password : Passwords \cup {None}]

\* The types of the variables; a process past the steps that get them has a secret
\* and a password.
TypeOK ==
  /\ stored \in Secrets \cup {None}
  /\ admins \in [Emails -> Passwords \cup {None}]
  /\ credentials \in Passwords \cup {None, Torn}
  /\ printed \subseteq Passwords
  /\ proc \in [Processes -> Proc]
  /\ \A p \in Processes :
       /\ proc[p].pc \notin {"down", "read"} => proc[p].secret \in Secrets
       /\ proc[p].pc \in {"insert"} \cup PublishingLabels => proc[p].password \in Passwords
  /\ contested \subseteq Processes
  /\ cutOff \in BOOLEAN

\* Neither the file nor the log ever names a password that opens no account, whoever
\* won the race of first boots and wherever a boot was cut off.
CredentialsAreTrue ==
  \A w \in printed \cup ({credentials} \cap Passwords) : \E e \in Emails : admins[e] = w

\* A process that serves has an administrator who can log in, and the very secret that
\* a restart with its environment will find again: the configured one, or the one in
\* the database.  The exception is a process that generated or read its secret while
\* another one was about to store its own: something is stored then, but the token of
\* a login at this process may be void after its next restart.
ServingIsInitialised ==
  \A p \in Processes : proc[p].pc = "up" =>
    /\ ~NoAdmins
    /\ Configured[p] # None => proc[p].secret = Configured[p]
    /\ Configured[p] = None =>
         stored # None /\ (proc[p].secret = stored \/ p \in contested)

\* Boots never replace an administrator.
AdminForGood == [][\A e \in Emails : admins[e] # None => admins'[e] = admins[e]]_vars

AllQuiet == \A p \in Processes : proc[p].pc \notin PublishingLabels

\* Once no process is publishing, the password of every administrator is in the log
\* and one is in the file, unless a boot that had inserted one was cut off.
PublishedUnlessCutOff ==
  AllQuiet /\ ~NoAdmins => \/ cutOff
                           \/ /\ credentials \in Passwords
                              /\ \A e \in Emails : admins[e] \in printed \cup {None}

\* Tokens signed by one process are valid in the next: any two processes without a
\* configured secret sign with the same one, from the moment they have it, unless one
\* of them met another first boot in getting it.
SecretAgreement ==
  \A p, q \in Processes :
    LET Signing(r) == /\ Configured[r] = None /\ r \notin contested
                      /\ proc[r].pc \notin {"down", "read"}
    IN  Signing(p) /\ Signing(q) => proc[p].secret = proc[q].secret

-----------------------------------------------------------------------------
\* README.md: on the first boot the panel generates an administrator, prints the
\* credentials and leaves them in a file.  A boot cut off after its INSERT leaves a
\* panel whose only administrator has a password nobody knows.
CredentialsPublished ==
  AllQuiet => \A e \in Emails : admins[e] \in printed \cup {credentials, None}
=============================================================================
