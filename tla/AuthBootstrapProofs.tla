------------------------- MODULE AuthBootstrapProofs -------------------------
(***************************************************************************)
(* Proofs about AuthBootstrap, for any number of processes, whatever their *)
(* environments say, and any faults.                                       *)
(***************************************************************************)
EXTENDS AuthBootstrap, TLAPS

\* What GoTo(p, label) and Stop(p) do to the processes, field by field.
LEMMA GoToEffect ==
  ASSUME TypeOK, NEW p \in Processes, NEW label \in Labels, GoTo(p, label)
  PROVE  /\ proc' \in [Processes -> Proc]
         /\ \A q \in Processes \ {p} : proc'[q] = proc[q]
         /\ proc'[p].pc = label
         /\ proc'[p].secret = proc[p].secret
         /\ proc'[p].password = proc[p].password
BY DEF TypeOK, GoTo, Proc

LEMMA StopEffect ==
  ASSUME TypeOK, NEW p \in Processes, Stop(p)
  PROVE  /\ proc' \in [Processes -> Proc]
         /\ \A q \in Processes \ {p} : proc'[q] = proc[q]
         /\ proc'[p].pc = "down"
BY DEF TypeOK, Stop, Down, Proc, Labels

\* An administrator inserted by p: the row of p's address, and no other one.
LEMMA InsertEffect ==
  ASSUME TypeOK, NEW p \in Processes, InsertAdmin(p)
  PROVE  /\ admins' \in [Emails -> Passwords \cup {None}]
         /\ Email[p] \in Emails
         /\ admins'[Email[p]] = proc[p].password
         /\ \A e \in Emails \ {Email[p]} : admins'[e] = admins[e]
<1>1. Email[p] \in Emails  BY DEF Emails
<1>2. proc[p].password \in Passwords \cup {None}  BY DEF TypeOK, Proc
<1> QED  BY <1>1, <1>2 DEF TypeOK, InsertAdmin

-----------------------------------------------------------------------------
\* The two parts of TypeOK: the stores, and what a process holds.
StoresOK ==
  /\ stored \in Secrets \cup {None}
  /\ admins \in [Emails -> Passwords \cup {None}]
  /\ credentials \in Passwords \cup {None, Torn}
  /\ printed \subseteq Passwords
  /\ contested \subseteq Processes
  /\ cutOff \in BOOLEAN

Holds(p) ==
  /\ proc[p].pc \notin {"down", "read"} => proc[p].secret \in Secrets
  /\ proc[p].pc \in {"insert"} \cup PublishingLabels => proc[p].password \in Passwords

LEMMA TypeParts ==
  TypeOK <=> StoresOK /\ proc \in [Processes -> Proc] /\ \A p \in Processes : Holds(p)
BY DEF TypeOK, StoresOK, Holds

LEMMA TypeFrame ==
  ASSUME TypeOK, StoresOK', proc' \in [Processes -> Proc],
         NEW p \in Processes, \A q \in Processes \ {p} : proc'[q] = proc[q], Holds(p)'
  PROVE  TypeOK'
<1>1. \A q \in Processes : Holds(q)  BY TypeParts
<1>2. \A q \in Processes : Holds(q)'
  <2> TAKE q \in Processes
  <2>1. CASE q = p  BY <2>1
  <2>2. CASE q # p  BY <2>2, <1>1 DEF Holds
  <2> QED  BY <2>1, <2>2
<1> QED  BY <1>2 DEF TypeOK, StoresOK, Holds

\* What the actions that change more than the label do to the processes.
LEMMA SecretEffect ==
  ASSUME TypeOK, NEW p \in Processes, NEW label \in Labels, NEW value \in Secrets,
         proc' = [proc EXCEPT ![p].pc = label, ![p].secret = value]
  PROVE  /\ proc' \in [Processes -> Proc]
         /\ \A q \in Processes \ {p} : proc'[q] = proc[q]
         /\ proc'[p].pc = label
         /\ proc'[p].secret = value
         /\ proc'[p].password = proc[p].password
BY DEF TypeOK, Proc

LEMMA PasswordEffect ==
  ASSUME TypeOK, NEW p \in Processes, NEW label \in Labels, NEW value \in Passwords \cup {None},
         proc' = [proc EXCEPT ![p].pc = label, ![p].password = value]
  PROVE  /\ proc' \in [Processes -> Proc]
         /\ \A q \in Processes \ {p} : proc'[q] = proc[q]
         /\ proc'[p].pc = label
         /\ proc'[p].secret = proc[p].secret
         /\ proc'[p].password = value
BY DEF TypeOK, Proc

LEMMA TypeStep == TypeOK /\ [Next]_vars => TypeOK'
<1> SUFFICES ASSUME TypeOK, [Next]_vars PROVE TypeOK'
  OBVIOUS
<1>0. StoresOK /\ proc \in [Processes -> Proc] /\ \A p \in Processes : Holds(p)
  BY TypeParts
<1>a. ASSUME UNCHANGED <<Stores, History>> PROVE StoresOK'
  BY <1>0, <1>a DEF StoresOK, Stores, History
<1>b. ASSUME NEW p \in Processes, Stop(p), UNCHANGED Stores, cutOff' \in BOOLEAN
      PROVE  TypeOK'
  <2>1. StoresOK'  BY <1>0, <1>b DEF StoresOK, Stores, Stop
  <2> QED  BY <1>b, <2>1, StopEffect, TypeFrame DEF Holds, PublishingLabels
<1>1. ASSUME NEW p \in Processes, Start(p) PROVE TypeOK'
  <2>1. "read" \in Labels  BY DEF Labels
  <2> QED  BY <1>1, <2>1, <1>a, GoToEffect, TypeFrame DEF Start, Holds, PublishingLabels
<1>2. ASSUME NEW p \in Processes, Step(p) PROVE TypeOK'
  <2> USE DEF Labels
  <2>0. Holds(p)  BY <1>0
  <2>1. CASE SecretConfigured(p)
    <3>0. Configured[p] # None  BY <2>1 DEF SecretConfigured
    <3>1. Configured[p] \in Secrets
      <4>1. Configured \in [Processes -> Secrets \cup {None}]  BY ConstantsOK
      <4> QED  BY <3>0, <4>1
    <3>2. Holds(p)'  BY <2>1, <3>1, SecretEffect DEF SecretConfigured, Holds, PublishingLabels
    <3> QED  BY <2>1, <3>1, <3>2, <1>a, SecretEffect, TypeFrame DEF SecretConfigured
  <2>2. CASE SecretFound(p)
    <3>1. stored \in Secrets  BY <2>2, <1>0 DEF SecretFound, StoresOK
    <3>2. /\ proc' \in [Processes -> Proc]
          /\ \A q \in Processes \ {p} : proc'[q] = proc[q]
          /\ proc'[p].pc = "count" /\ proc'[p].secret = stored
      BY <2>2, <3>1, SecretEffect DEF SecretFound
    <3>3. Holds(p)'  BY <3>1, <3>2 DEF Holds, PublishingLabels
    <3>4. StoresOK'  BY <2>2, <1>0 DEF SecretFound, StoresOK, Stores
    <3> QED  BY <3>2, <3>3, <3>4, TypeFrame
  <2>3. CASE SecretMissing(p)
    <3>1. PICK new \in Secrets : proc' = [proc EXCEPT ![p].pc = "store", ![p].secret = new]
      BY <2>3 DEF SecretMissing, FreshSecrets
    <3>2. proc'[p].pc = "store" /\ proc'[p].secret = new  BY <3>1, SecretEffect
    <3>4. Holds(p)'  BY <3>2 DEF Holds, PublishingLabels
    <3>3. StoresOK'  BY <2>3, <1>0 DEF SecretMissing, StoresOK, Stores, Storing
    <3> QED  BY <3>1, <3>3, <3>4, SecretEffect, TypeFrame
  <2>4. CASE StoreSecret(p)
    <3>1. GoTo(p, "count") /\ proc[p].pc = "store"  BY <2>4 DEF StoreSecret
    <3>2. StoresOK'  BY <2>4, <2>0, <1>0 DEF StoreSecret, StoresOK, Holds, History
    <3>3. Holds(p)'  BY <3>1, <2>0, GoToEffect DEF Holds, PublishingLabels
    <3> QED  BY <3>1, <3>2, <3>3, GoToEffect, TypeFrame
  <2>5. CASE AdminExists(p)
    <3>1. Holds(p)'  BY <2>5, <2>0, GoToEffect DEF AdminExists, Holds, PublishingLabels
    <3> QED  BY <2>5, <3>1, <1>a, GoToEffect, TypeFrame DEF AdminExists
  <2>6. CASE NoAdmin(p)
    <3>1. PICK new \in Passwords : proc' = [proc EXCEPT ![p].pc = "insert", ![p].password = new]
      BY <2>6 DEF NoAdmin, FreshPasswords
    <3>2. /\ proc[p].pc = "count" /\ proc'[p].pc = "insert"
          /\ proc'[p].password = new /\ proc'[p].secret = proc[p].secret
      BY <2>6, <3>1, PasswordEffect DEF NoAdmin
    <3>3. Holds(p)'  BY <3>2, <2>0 DEF Holds, PublishingLabels
    <3> QED  BY <2>6, <3>1, <3>3, <1>a, PasswordEffect, TypeFrame DEF NoAdmin
  <2>7. CASE InsertAdmin(p)
    <3>1. GoTo(p, "truncate") /\ proc[p].pc = "insert"  BY <2>7 DEF InsertAdmin
    <3>2. StoresOK'  BY <2>7, <1>0, InsertEffect DEF InsertAdmin, StoresOK, History
    <3>3. Holds(p)'  BY <3>1, <2>0, GoToEffect DEF Holds, PublishingLabels
    <3> QED  BY <3>1, <3>2, <3>3, GoToEffect, TypeFrame
  <2>8. CASE EmailTaken(p)  BY <2>8, <1>0, <1>b DEF EmailTaken, StoresOK
  <2>9. CASE TruncateCredentials(p)
    <3>1. GoTo(p, "write") /\ proc[p].pc = "truncate"  BY <2>9 DEF TruncateCredentials
    <3>2. StoresOK'  BY <2>9, <1>0 DEF TruncateCredentials, StoresOK, History
    <3>3. Holds(p)'  BY <3>1, <2>0, GoToEffect DEF Holds, PublishingLabels
    <3> QED  BY <3>1, <3>2, <3>3, GoToEffect, TypeFrame
  <2>10. CASE WriteCredentials(p)
    <3>1. GoTo(p, "print") /\ proc[p].pc = "write"  BY <2>10 DEF WriteCredentials
    <3>2. StoresOK'
      BY <2>10, <3>1, <2>0, <1>0 DEF WriteCredentials, StoresOK, History, Holds, PublishingLabels
    <3>3. Holds(p)'  BY <3>1, <2>0, GoToEffect DEF Holds, PublishingLabels
    <3> QED  BY <3>1, <3>2, <3>3, GoToEffect, TypeFrame
  <2>11. CASE PrintCredentials(p)
    <3>1. /\ proc' = [proc EXCEPT ![p].pc = "up", ![p].password = None]
          /\ proc[p].pc = "print"
      BY <2>11 DEF PrintCredentials
    <3>2. StoresOK'
      BY <2>11, <3>1, <2>0, <1>0 DEF PrintCredentials, StoresOK, History, Holds, PublishingLabels
    <3>3. Holds(p)'  BY <3>1, <2>0, PasswordEffect DEF Holds, PublishingLabels
    <3> QED  BY <3>1, <3>2, <3>3, PasswordEffect, TypeFrame
  <2> QED  BY <1>2, <2>1, <2>2, <2>3, <2>4, <2>5, <2>6, <2>7, <2>8, <2>9, <2>10, <2>11 DEF Step
<1>3. ASSUME NEW p \in Processes, BootFails(p) \/ Crash(p) \/ Exit(p) PROVE TypeOK'
  <2>1. cutOff' \in BOOLEAN  BY <1>3, <1>0 DEF BootFails, Crash, Exit, StoresOK
  <2> QED  BY <1>3, <2>1, <1>b DEF BootFails, Crash, Exit
<1>4. CASE UNCHANGED vars  BY <1>4 DEF TypeOK, vars, Stores, History
<1> QED  BY <1>1, <1>2, <1>3, <1>4 DEF Next

\* Type correctness.
THEOREM TypeCorrect == Spec => []TypeOK
<1>1. ASSUME Init PROVE TypeOK
  <2>1. Down \in Proc  BY DEF Down, Proc, Labels
  <2>2. proc = [p \in Processes |-> Down]  BY <1>1 DEF Init
  <2>3. proc \in [Processes -> Proc]  BY <2>1, <2>2
  <2>4. \A p \in Processes : proc[p].pc = "down"  BY <2>2 DEF Down
  <2>5. admins \in [Emails -> Passwords \cup {None}]  BY <1>1 DEF Init
  <2>6. \A p \in Processes : Holds(p)  BY <2>4 DEF Holds, PublishingLabels
  <2>7. StoresOK  BY <1>1, <2>5 DEF Init, StoresOK
  <2> QED  BY <2>3, <2>6, <2>7, TypeParts
<1> QED  BY <1>1, TypeStep, PTL DEF Spec

-----------------------------------------------------------------------------
\* Every step is one process's, and what it does to that process and to the stores
\* is in the next lemmas; all the proofs below are about these effects.
Moves(p) == \A q \in Processes \ {p} : proc'[q] = proc[q]

LEMMA OneMoves ==
  ASSUME TypeOK, Next
  PROVE  \E p \in Processes : Moves(p)
<1>1. ASSUME NEW p \in Processes, Start(p) \/ Step(p) \/ BootFails(p) \/ Crash(p) \/ Exit(p)
      PROVE  Moves(p)
  BY <1>1 DEF TypeOK, Moves, Start, Step, BootFails, Crash, Exit, GoTo, Stop,
              SecretConfigured, SecretFound, SecretMissing, StoreSecret, AdminExists, NoAdmin,
              InsertAdmin, EmailTaken, TruncateCredentials, WriteCredentials, PrintCredentials
<1> QED  BY <1>1 DEF Next

\* Only InsertAdmin changes the table of administrators.
LEMMA AdminsStep ==
  ASSUME TypeOK, [Next]_vars, NEW e \in Emails, admins'[e] # admins[e]
  PROVE  \E p \in Processes : InsertAdmin(p) /\ e = Email[p]
<1>1. CASE UNCHANGED vars  BY <1>1 DEF vars
<1>2. ASSUME NEW p \in Processes, Start(p) \/ BootFails(p) \/ Crash(p) \/ Exit(p) PROVE FALSE
  BY <1>2 DEF Start, BootFails, Crash, Exit, Stores
<1>3. ASSUME NEW p \in Processes, Step(p) PROVE InsertAdmin(p)
  BY <1>3 DEF Step, SecretConfigured, SecretFound, SecretMissing, StoreSecret, AdminExists,
              NoAdmin, EmailTaken, TruncateCredentials, WriteCredentials, PrintCredentials, Stores
<1>4. ASSUME NEW p \in Processes, InsertAdmin(p) PROVE e = Email[p]
  BY <1>4, InsertEffect
<1> QED  BY <1>1, <1>2, <1>3, <1>4 DEF Next

LEMMA AdminStays ==
  ASSUME TypeOK, [Next]_vars, NEW e \in Emails, admins[e] # None
  PROVE  admins'[e] = admins[e]
BY AdminsStep DEF InsertAdmin, Registered

\* Boots never replace an administrator.
THEOREM AdministratorsStay == Spec => AdminForGood
<1>1. TypeOK /\ [Next]_vars => [\A e \in Emails : admins[e] # None => admins'[e] = admins[e]]_vars
  BY AdminStays
<1> QED  BY <1>1, TypeCorrect, PTL DEF Spec, AdminForGood

-----------------------------------------------------------------------------
\* The inductive invariant.  The first two parts say what a process relies on at its
\* place in Initialize; FileWritten and LogWritten are PublishedUnlessCutOff with the
\* process named that still has to publish.
Served(p) ==
  /\ proc[p].pc \notin {"down", "read", "store"} /\ Configured[p] = None => stored # None
  /\ proc[p].pc = "up" => ~NoAdmins

Publishes(p) == proc[p].pc \in PublishingLabels => admins[Email[p]] = proc[p].password

FileWritten ==
  NoAdmins \/ cutOff \/ credentials \in Passwords
           \/ \E p \in Processes : proc[p].pc \in {"truncate", "write"}

LogWritten ==
  \A e \in Emails :
    \/ admins[e] \in printed \cup {None}
    \/ cutOff
    \/ \E p \in Processes : proc[p].pc \in PublishingLabels /\ Email[p] = e

BootInv ==
  /\ \A p \in Processes : Served(p) /\ Publishes(p)
  /\ CredentialsAreTrue
  /\ FileWritten
  /\ LogWritten

\* A process whose record changes takes a step of its own.
LEMMA MovesItself ==
  ASSUME TypeOK, [Next]_vars, NEW p \in Processes, proc'[p] # proc[p]
  PROVE  Start(p) \/ Step(p) \/ BootFails(p) \/ Crash(p) \/ Exit(p)
<1>1. ASSUME NEW q \in Processes, Start(q) \/ Step(q) \/ BootFails(q) \/ Crash(q) \/ Exit(q)
      PROVE  Moves(q)
  BY <1>1 DEF TypeOK, Moves, Start, Step, BootFails, Crash, Exit, GoTo, Stop,
              SecretConfigured, SecretFound, SecretMissing, StoreSecret, AdminExists, NoAdmin,
              InsertAdmin, EmailTaken, TruncateCredentials, WriteCredentials, PrintCredentials
<1>2. CASE UNCHANGED vars  BY <1>2 DEF vars
<1> QED  BY <1>1, <1>2 DEF Next, Moves

\* A stored secret is replaced, never removed.
LEMMA SecretStays ==
  ASSUME TypeOK, [Next]_vars, stored # None
  PROVE  stored' # None
<1>1. ASSUME NEW p \in Processes, StoreSecret(p) PROVE stored' # None
  <2>1. proc[p].secret \in Secrets  BY <1>1, TypeParts DEF StoreSecret, Holds
  <2> QED  BY <1>1, <2>1, ConstantsOK DEF StoreSecret
<1>2. ASSUME NEW p \in Processes, Start(p) \/ Step(p) \/ BootFails(p) \/ Crash(p) \/ Exit(p),
             ~StoreSecret(p)
      PROVE  stored' = stored
  BY <1>2 DEF Start, Step, BootFails, Crash, Exit, Stores,
              SecretConfigured, SecretFound, SecretMissing, AdminExists, NoAdmin,
              InsertAdmin, EmailTaken, TruncateCredentials, WriteCredentials, PrintCredentials
<1>3. CASE UNCHANGED vars  BY <1>3 DEF vars
<1> QED  BY <1>1, <1>2, <1>3 DEF Next

LEMMA ServedStep ==
  ASSUME TypeOK, [Next]_vars, NEW p \in Processes, Served(p), Publishes(p)
  PROVE  Served(p)'
<1>1. ~NoAdmins => ~NoAdmins'  BY AdminStays, ConstantsOK DEF NoAdmins
<1>2. stored # None => stored' # None  BY SecretStays
<1>3. CASE proc'[p] = proc[p]  BY <1>1, <1>2, <1>3 DEF Served
<1>4. CASE Start(p) \/ BootFails(p) \/ Crash(p) \/ Exit(p)
  <2>1. proc'[p].pc \in {"down", "read"}
    BY <1>4, GoToEffect, StopEffect DEF Start, BootFails, Crash, Exit, Labels
  <2> QED  BY <2>1 DEF Served
<1>5. CASE Step(p)
  <2> USE DEF Labels
  <2>0. TypeOK /\ Holds(p)  BY TypeParts
  <2>a. ASSUME NEW label \in Labels \ {"up"}, GoTo(p, label),
               proc[p].pc \notin {"down", "read", "store"}
        PROVE  Served(p)'
    BY <2>a, <1>2, GoToEffect DEF Served
  <2>1. CASE SecretConfigured(p)
    <3>1. Configured[p] \in Secrets
      BY <2>1, ConstantsOK DEF SecretConfigured
    <3>2. proc'[p].pc = "count"  BY <2>1, <3>1, SecretEffect DEF SecretConfigured
    <3> QED  BY <2>1, <3>2 DEF SecretConfigured, Served
  <2>2. CASE SecretFound(p)
    <3>1. stored \in Secrets  BY <2>2 DEF SecretFound, TypeOK
    <3>2. proc'[p].pc = "count"  BY <2>2, <3>1, SecretEffect DEF SecretFound
    <3> QED  BY <2>2, <3>2, <1>2 DEF SecretFound, Served
  <2>3. CASE SecretMissing(p)
    <3>1. PICK new \in Secrets : proc' = [proc EXCEPT ![p].pc = "store", ![p].secret = new]
      BY <2>3 DEF SecretMissing, FreshSecrets
    <3>2. proc'[p].pc = "store"  BY <3>1, SecretEffect
    <3> QED  BY <3>2 DEF Served
  <2>4. CASE StoreSecret(p)
    <3>1. stored' # None  BY <2>4, <2>0, ConstantsOK DEF StoreSecret, Holds
    <3>2. proc'[p].pc = "count"  BY <2>4, GoToEffect DEF StoreSecret
    <3> QED  BY <3>1, <3>2 DEF Served
  <2>5. CASE AdminExists(p)
    <3>1. proc'[p].pc = "up" /\ proc[p].pc = "count"  BY <2>5, GoToEffect DEF AdminExists
    <3> QED  BY <2>5, <3>1, <1>1, <1>2 DEF AdminExists, Served
  <2>6. CASE NoAdmin(p)
    <3>1. PICK new \in Passwords : proc' = [proc EXCEPT ![p].pc = "insert", ![p].password = new]
      BY <2>6 DEF NoAdmin, FreshPasswords
    <3>2. proc[p].pc = "count" /\ proc'[p].pc = "insert"
      BY <2>6, <3>1, PasswordEffect DEF NoAdmin
    <3> QED  BY <3>2, <1>2 DEF Served
  <2>7. CASE InsertAdmin(p)  BY <2>7, <2>a DEF InsertAdmin
  <2>8. CASE EmailTaken(p)
    <3>1. proc'[p].pc = "down"  BY <2>8, StopEffect DEF EmailTaken
    <3> QED  BY <3>1 DEF Served
  <2>9. CASE TruncateCredentials(p)  BY <2>9, <2>a DEF TruncateCredentials
  <2>10. CASE WriteCredentials(p)  BY <2>10, <2>a DEF WriteCredentials
  <2>11. CASE PrintCredentials(p)
    <3>1. proc[p].pc = "print" /\ proc'[p].pc = "up"
      BY <2>11, PasswordEffect DEF PrintCredentials
    <3>2. admins[Email[p]] \in Passwords /\ Email[p] \in Emails
      BY <3>1, <2>0 DEF Publishes, Holds, PublishingLabels, Emails
    <3>3. ~NoAdmins  BY <3>2, ConstantsOK DEF NoAdmins
    <3> QED  BY <3>1, <3>3, <1>1, <1>2 DEF Served
  <2> QED  BY <1>5, <2>1, <2>2, <2>3, <2>4, <2>5, <2>6, <2>7, <2>8, <2>9, <2>10, <2>11 DEF Step
<1> QED  BY <1>3, <1>4, <1>5, MovesItself

\* The steps that lead to a publishing label, and those that leave one.
LEMMA PublishingStep ==
  ASSUME TypeOK, [Next]_vars, NEW p \in Processes, proc'[p] # proc[p],
         proc'[p].pc \in PublishingLabels
  PROVE  InsertAdmin(p) \/ TruncateCredentials(p) \/ WriteCredentials(p)
<1>1. ASSUME Start(p) \/ BootFails(p) \/ Crash(p) \/ Exit(p) \/ EmailTaken(p) PROVE FALSE
  BY <1>1, GoToEffect, StopEffect
     DEF Start, BootFails, Crash, Exit, EmailTaken, Labels, PublishingLabels
<1>2. ASSUME SecretConfigured(p) \/ SecretFound(p) \/ SecretMissing(p) \/ NoAdmin(p)
              \/ PrintCredentials(p)
      PROVE  FALSE
  BY <1>2 DEF TypeOK, Proc, SecretConfigured, SecretFound, SecretMissing, NoAdmin,
              PrintCredentials, PublishingLabels
<1>3. ASSUME StoreSecret(p) \/ AdminExists(p) PROVE FALSE
  BY <1>3, GoToEffect DEF StoreSecret, AdminExists, Labels, PublishingLabels
<1> QED  BY <1>1, <1>2, <1>3, MovesItself DEF Step

LEMMA LeavingStep ==
  ASSUME TypeOK, [Next]_vars, NEW p \in Processes, proc[p].pc \in PublishingLabels,
         proc'[p] # proc[p]
  PROVE  \/ TruncateCredentials(p) \/ WriteCredentials(p) \/ PrintCredentials(p)
         \/ cutOff'
BY MovesItself DEF Start, BootFails, Crash, Exit, Step, PublishingLabels,
   SecretConfigured, SecretFound, SecretMissing, StoreSecret, AdminExists, NoAdmin,
   InsertAdmin, EmailTaken

LEMMA PublishesStep ==
  ASSUME TypeOK, [Next]_vars, NEW p \in Processes, Publishes(p)
  PROVE  Publishes(p)'
<1> SUFFICES ASSUME proc'[p].pc \in PublishingLabels
             PROVE  admins'[Email[p]] = proc'[p].password
  BY DEF Publishes
<1>0. TypeOK /\ Holds(p) /\ Email[p] \in Emails  BY TypeParts DEF Emails
<1>a. ASSUME proc[p].pc \in PublishingLabels, proc'[p].password = proc[p].password
      PROVE  admins'[Email[p]] = proc'[p].password
  BY <1>a, <1>0, AdminStays, ConstantsOK DEF Publishes, Holds
<1>1. CASE proc'[p] = proc[p]  BY <1>1, <1>a
<1>2. CASE InsertAdmin(p)
  <2>1. proc'[p].password = proc[p].password
    BY <1>2, GoToEffect DEF InsertAdmin, Labels
  <2> QED  BY <1>2, <2>1, InsertEffect
<1>3. CASE TruncateCredentials(p) \/ WriteCredentials(p)
  BY <1>3, <1>a, GoToEffect DEF TruncateCredentials, WriteCredentials, Labels, PublishingLabels
<1> QED  BY <1>1, <1>2, <1>3, PublishingStep

\* The file and the log change in three steps only.
LEMMA FileAndLogStep ==
  ASSUME TypeOK, [Next]_vars
  PROVE  \/ credentials' = credentials /\ printed' = printed
         \/ \E p \in Processes : \/ TruncateCredentials(p) \/ WriteCredentials(p)
                                 \/ PrintCredentials(p)
BY DEF Next, vars, Start, BootFails, Crash, Exit, Step, SecretConfigured, SecretFound,
   SecretMissing, StoreSecret, AdminExists, NoAdmin, InsertAdmin, EmailTaken, Stores

LEMMA TrueStep ==
  ASSUME TypeOK, [Next]_vars, CredentialsAreTrue, \A p \in Processes : Publishes(p)
  PROVE  CredentialsAreTrue'
<1>1. ASSUME NEW w \in printed \cup ({credentials} \cap Passwords)
      PROVE  \E e \in Emails : admins'[e] = w
  <2>1. PICK e \in Emails : admins[e] = w  BY <1>1 DEF CredentialsAreTrue
  <2>2. w # None  BY <1>1, ConstantsOK DEF TypeOK
  <2> QED  BY <2>1, <2>2, AdminStays
<1>2. ASSUME NEW p \in Processes, proc[p].pc \in PublishingLabels
      PROVE  \E e \in Emails : admins'[e] = proc[p].password
  <2>1. admins[Email[p]] = proc[p].password /\ Email[p] \in Emails  BY <1>2 DEF Publishes, Emails
  <2>2. proc[p].password # None  BY <1>2, TypeParts, ConstantsOK DEF Holds
  <2> QED  BY <2>1, <2>2, AdminStays
<1>3. ASSUME NEW w \in printed' \cup ({credentials'} \cap Passwords)
      PROVE  \/ w \in printed \cup ({credentials} \cap Passwords)
             \/ \E p \in Processes : proc[p].pc \in PublishingLabels /\ w = proc[p].password
  BY <1>3, FileAndLogStep, ConstantsOK
     DEF TruncateCredentials, WriteCredentials, PrintCredentials, PublishingLabels
<1> QED  BY <1>1, <1>2, <1>3 DEF CredentialsAreTrue

\* A boot that was cut off is never forgotten.
LEMMA CutOffStays == ASSUME [Next]_vars, cutOff PROVE cutOff'
BY DEF Next, vars, Start, BootFails, Crash, Exit, Step, SecretConfigured, SecretFound,
   SecretMissing, StoreSecret, AdminExists, NoAdmin, InsertAdmin, EmailTaken,
   TruncateCredentials, WriteCredentials, PrintCredentials, History

LEMMA FileStep ==
  ASSUME TypeOK, [Next]_vars, FileWritten
  PROVE  FileWritten'
<1> USE DEF Labels
<1>a. ASSUME NEW p \in Processes, proc'[p].pc \in {"truncate", "write"} PROVE FileWritten'
  BY <1>a DEF FileWritten
<1>1. CASE NoAdmins /\ ~NoAdmins'
  <2>1. PICK e \in Emails : admins'[e] # admins[e]  BY <1>1 DEF NoAdmins
  <2>2. PICK p \in Processes : InsertAdmin(p)  BY <2>1, AdminsStep
  <2> QED  BY <2>2, <1>a, GoToEffect DEF InsertAdmin
<1>2. CASE cutOff  BY <1>2, CutOffStays DEF FileWritten
<1>3. CASE credentials \in Passwords /\ credentials' \notin Passwords
  <2>1. PICK p \in Processes : TruncateCredentials(p) \/ WriteCredentials(p)
    BY <1>3, FileAndLogStep DEF PrintCredentials
  <2>2. ~WriteCredentials(p)  BY <1>3, TypeParts DEF WriteCredentials, Holds, PublishingLabels
  <2> QED  BY <2>1, <2>2, <1>a, GoToEffect DEF TruncateCredentials
<1>4. CASE \E p \in Processes : proc[p].pc \in {"truncate", "write"}
  <2>1. PICK p \in Processes : proc[p].pc \in {"truncate", "write"}  BY <1>4
  <2>2. CASE proc'[p] = proc[p]  BY <2>1, <2>2, <1>a
  <2>3. CASE TruncateCredentials(p)  BY <2>3, <1>a, GoToEffect DEF TruncateCredentials
  <2>4. CASE WriteCredentials(p)
    <3>1. credentials' \in Passwords
      BY <2>4, TypeParts DEF WriteCredentials, Holds, PublishingLabels
    <3> QED  BY <3>1 DEF FileWritten
  <2>5. ~PrintCredentials(p)  BY <2>1 DEF PrintCredentials
  <2>6. CASE cutOff'  BY <2>6 DEF FileWritten
  <2> QED  BY <2>1, <2>2, <2>3, <2>4, <2>5, <2>6, LeavingStep DEF PublishingLabels
<1> QED  BY <1>1, <1>2, <1>3, <1>4 DEF FileWritten

LEMMA LogStep ==
  ASSUME TypeOK, [Next]_vars, LogWritten, \A p \in Processes : Publishes(p)
  PROVE  LogWritten'
<1> USE DEF Labels
<1> SUFFICES ASSUME NEW e \in Emails, ~cutOff'
             PROVE  \/ admins'[e] \in printed' \cup {None}
                    \/ \E p \in Processes : proc'[p].pc \in PublishingLabels /\ Email[p] = e
  BY DEF LogWritten
<1>0. ~cutOff  BY CutOffStays
<1>a. ASSUME NEW w \in printed PROVE w \in printed'
  BY <1>a, FileAndLogStep DEF TruncateCredentials, WriteCredentials, PrintCredentials
<1>1. CASE admins'[e] # admins[e]
  <2>1. PICK p \in Processes : InsertAdmin(p) /\ e = Email[p]  BY <1>1, AdminsStep
  <2>2. proc'[p].pc \in PublishingLabels
    BY <2>1, GoToEffect DEF InsertAdmin, PublishingLabels
  <2> QED  BY <2>1, <2>2
<1>2. CASE admins'[e] = admins[e] /\ admins[e] \in printed \cup {None}  BY <1>2, <1>a
<1>3. CASE /\ admins'[e] = admins[e]
           /\ \E p \in Processes : proc[p].pc \in PublishingLabels /\ Email[p] = e
  <2>1. PICK p \in Processes : proc[p].pc \in PublishingLabels /\ Email[p] = e  BY <1>3
  <2>2. CASE proc'[p] = proc[p]  BY <2>1, <2>2
  <2>3. CASE TruncateCredentials(p) \/ WriteCredentials(p)
    <3>1. proc'[p].pc \in PublishingLabels
      BY <2>3, GoToEffect DEF TruncateCredentials, WriteCredentials, PublishingLabels
    <3> QED  BY <2>1, <3>1
  <2>4. CASE PrintCredentials(p)
    <3>1. admins[e] = proc[p].password  BY <2>1 DEF Publishes
    <3> QED  BY <2>4, <3>1, <1>3 DEF PrintCredentials
  <2> QED  BY <2>1, <2>2, <2>3, <2>4, LeavingStep
<1> QED  BY <1>0, <1>1, <1>2, <1>3 DEF LogWritten

LEMMA BootStep == TypeOK /\ BootInv /\ [Next]_vars => BootInv'
BY ServedStep, PublishesStep, TrueStep, FileStep, LogStep DEF BootInv

LEMMA BootInvariant == Spec => []BootInv
<1>1. ASSUME Init PROVE BootInv
  <2>1. \A p \in Processes : proc[p].pc = "down"  BY <1>1 DEF Init, Down
  <2>2. NoAdmins  BY <1>1 DEF Init, NoAdmins
  <2>3. CredentialsAreTrue  BY <1>1, ConstantsOK DEF Init, CredentialsAreTrue
  <2>4. FileWritten /\ LogWritten  BY <2>2 DEF FileWritten, LogWritten, NoAdmins
  <2>5. \A p \in Processes : Served(p) /\ Publishes(p)
    BY <2>1 DEF Served, Publishes, PublishingLabels
  <2> QED  BY <2>3, <2>4, <2>5 DEF BootInv
<1> QED  BY <1>1, BootStep, TypeCorrect, PTL DEF Spec

\* The file and the log never name a password that opens no account.
THEOREM PublishedCredentialsAreTrue == Spec => []CredentialsAreTrue
<1>1. BootInv => CredentialsAreTrue  BY DEF BootInv
<1> QED  BY <1>1, BootInvariant, PTL

\* Credentials get lost only in a boot that is cut off.
THEOREM CredentialsAreLostOnlyWhenCutOff == Spec => []PublishedUnlessCutOff
<1>1. ASSUME BootInv PROVE PublishedUnlessCutOff
  <2> SUFFICES ASSUME AllQuiet, ~NoAdmins, ~cutOff
               PROVE  /\ credentials \in Passwords
                      /\ \A e \in Emails : admins[e] \in printed \cup {None}
    BY DEF PublishedUnlessCutOff
  <2>1. FileWritten /\ LogWritten  BY <1>1 DEF BootInv
  <2> QED  BY <2>1 DEF FileWritten, LogWritten, AllQuiet, PublishingLabels
<1> QED  BY <1>1, BootInvariant, PTL

-----------------------------------------------------------------------------
\* SecretAgreement strengthened.  A process that is about to store its secret, and met
\* nobody in getting it, is the only one, and nothing is stored yet; one that is past
\* that signs with what is stored, and nobody is about to replace it.
Agrees(p) ==
  /\ Configured[p] = None /\ p \notin contested
  /\ proc[p].pc \notin {"down", "read", "store"}
  => stored # None /\ proc[p].secret = stored /\ Storing = {}

Alone(p) == proc[p].pc = "store" /\ p \notin contested => stored = None /\ Storing = {p}

AsConfigured(p) ==
  Configured[p] # None /\ proc[p].pc \notin {"down", "read"} => proc[p].secret = Configured[p]

SecretInv == \A p \in Processes : Agrees(p) /\ Alone(p) /\ AsConfigured(p)

\* Who is about to store a secret after a step of p.
LEMMA StoringStep ==
  ASSUME NEW p \in Processes, Moves(p)
  PROVE  Storing' = IF proc'[p].pc = "store" THEN Storing \cup {p} ELSE Storing \ {p}
BY DEF Storing, Moves

\* A step of p that neither stores a secret nor makes one disturbs nobody else.
LEMMA SecretFrame ==
  ASSUME SecretInv, NEW p \in Processes, Moves(p), UNCHANGED stored,
         proc'[p].pc # "store", contested \ {p} \subseteq contested',
         Agrees(p)', AsConfigured(p)'
  PROVE  SecretInv'
<1> SUFFICES ASSUME NEW q \in Processes PROVE Agrees(q)' /\ Alone(q)' /\ AsConfigured(q)'
  BY DEF SecretInv
<1>1. Storing' = Storing \ {p}  BY StoringStep
<1>2. CASE q = p  BY <1>2 DEF Alone
<1>3. CASE q # p
  <2>1. proc'[q] = proc[q] /\ (q \notin contested' => q \notin contested)  BY <1>3 DEF Moves
  <2>2. Agrees(q) /\ Alone(q) /\ AsConfigured(q)  BY DEF SecretInv
  <2>3. Agrees(q)'  BY <1>1, <2>1, <2>2 DEF Agrees
  <2>4. Alone(q)'  BY <1>1, <1>3, <2>1, <2>2 DEF Alone
  <2>5. AsConfigured(q)'  BY <2>1, <2>2 DEF AsConfigured
  <2> QED  BY <2>3, <2>4, <2>5
<1> QED  BY <1>2, <1>3

\* Past the store, a step of p that keeps its secret and the stored one.
LEMMA KeptSecret ==
  ASSUME SecretInv, NEW p \in Processes, Moves(p), UNCHANGED <<stored, contested>>,
         proc'[p].secret = proc[p].secret, proc'[p].pc # "store",
         proc[p].pc \notin {"down", "read", "store"}
  PROVE  SecretInv'
<1>1. Storing' = Storing \ {p}  BY StoringStep
<1>2. Agrees(p) /\ AsConfigured(p)  BY DEF SecretInv
<1>3. Agrees(p)'  BY <1>1, <1>2 DEF Agrees
<1>4. AsConfigured(p)'  BY <1>2 DEF AsConfigured
<1> QED  BY <1>3, <1>4, SecretFrame

\* A first boot at which p generates a secret: whoever holds one already is contested,
\* or relies on the stored one, and there is none.
LEMMA MissingStep ==
  ASSUME TypeOK, SecretInv, NEW p \in Processes, SecretMissing(p)
  PROVE  SecretInv'
<1>1. PICK new \in Secrets : proc' = [proc EXCEPT ![p].pc = "store", ![p].secret = new]
  BY DEF SecretMissing, FreshSecrets
<1>2. proc'[p].pc = "store" /\ Moves(p)
  BY <1>1, SecretEffect DEF Moves, Labels
<1>3. /\ stored = None /\ stored' = None /\ Configured[p] = None /\ contested \subseteq contested'
      /\ Storing # {} => Storing \cup {p} \subseteq contested'
  BY DEF SecretMissing, Stores
<1>4. Storing' = Storing \cup {p}  BY <1>2, StoringStep
<1> SUFFICES ASSUME NEW q \in Processes PROVE Agrees(q)' /\ Alone(q)' /\ AsConfigured(q)'
  BY DEF SecretInv
<1>5. Agrees(q) /\ Alone(q) /\ AsConfigured(q)  BY DEF SecretInv
<1>6. CASE q = p
  BY <1>2, <1>3, <1>4, <1>6 DEF Agrees, Alone, AsConfigured
<1>7. CASE q # p
  <2>1. proc'[q] = proc[q] /\ (q \notin contested' => q \notin contested)
    BY <1>2, <1>3, <1>7 DEF Moves
  <2>2. Agrees(q)'  BY <1>3, <1>5, <2>1 DEF Agrees
  <2>3. Alone(q)'  BY <1>3, <2>1 DEF Alone, Storing
  <2>4. AsConfigured(q)'  BY <1>5, <2>1 DEF AsConfigured
  <2> QED  BY <2>2, <2>3, <2>4
<1> QED  BY <1>6, <1>7

\* When p stores its secret, nobody uncontested is past that step or at it.
LEMMA StoreStep ==
  ASSUME TypeOK, SecretInv, NEW p \in Processes, StoreSecret(p)
  PROVE  SecretInv'
<1>1. /\ proc[p].pc = "store" /\ proc'[p].pc = "count" /\ proc'[p].secret = proc[p].secret
      /\ stored' = proc[p].secret /\ contested' = contested /\ Moves(p)
  BY GoToEffect DEF StoreSecret, Moves, History, Labels
<1>2. Storing' = Storing \ {p} /\ p \in Storing  BY <1>1, StoringStep DEF Storing
<1>3. stored' # None
  <2>1. Holds(p)  BY TypeParts
  <2> QED  BY <1>1, <2>1, ConstantsOK DEF Holds
<1> SUFFICES ASSUME NEW q \in Processes PROVE Agrees(q)' /\ Alone(q)' /\ AsConfigured(q)'
  BY DEF SecretInv
<1>4. Agrees(q) /\ Alone(q) /\ AsConfigured(q)  BY DEF SecretInv
<1>5. CASE q = p
  <2>1. Agrees(p)'  BY <1>1, <1>2, <1>3, <1>4, <1>5 DEF Agrees, Alone
  <2>2. Alone(p)'  BY <1>1 DEF Alone
  <2>3. AsConfigured(p)'  BY <1>1, <1>4, <1>5 DEF AsConfigured
  <2> QED  BY <1>5, <2>1, <2>2, <2>3
<1>6. CASE q # p
  <2>1. proc'[q] = proc[q]  BY <1>1, <1>6 DEF Moves
  <2>2. Agrees(q)'  BY <1>1, <1>2, <1>4, <2>1 DEF Agrees
  <2>3. Alone(q)'  BY <1>1, <1>2, <1>4, <1>6, <2>1 DEF Alone
  <2>4. AsConfigured(q)'  BY <1>4, <2>1 DEF AsConfigured
  <2> QED  BY <2>2, <2>3, <2>4
<1> QED  BY <1>5, <1>6

LEMMA SecretStep == TypeOK /\ SecretInv /\ [Next]_vars => SecretInv'
<1> SUFFICES ASSUME TypeOK, SecretInv, [Next]_vars PROVE SecretInv'
  OBVIOUS
<1> USE DEF Labels
<1>a. ASSUME NEW p \in Processes, UNCHANGED <<stored, contested>>,
             NEW label \in Labels \ {"store"}, GoTo(p, label),
             label = "read" \/ proc[p].pc \notin {"down", "read", "store"}
      PROVE  SecretInv'
  <2>1. proc'[p].pc = label /\ proc'[p].secret = proc[p].secret /\ Moves(p)
    BY <1>a, GoToEffect DEF Moves
  <2>2. CASE label = "read"  BY <1>a, <2>1, <2>2, SecretFrame DEF Agrees, AsConfigured
  <2> QED  BY <1>a, <2>1, <2>2, KeptSecret
<1>b. ASSUME NEW p \in Processes, UNCHANGED stored, Stop(p) PROVE SecretInv'
  <2>1. proc'[p].pc = "down" /\ Moves(p) /\ contested' = contested \ {p}
    BY <1>b, StopEffect DEF Stop, Moves
  <2> QED  BY <1>b, <2>1, SecretFrame DEF Agrees, AsConfigured
<1>1. ASSUME NEW p \in Processes, Start(p) \/ BootFails(p) \/ Crash(p) \/ Exit(p)
      PROVE  SecretInv'
  BY <1>1, <1>a, <1>b DEF Start, BootFails, Crash, Exit, Stores, History
<1>2. ASSUME NEW p \in Processes, Step(p) PROVE SecretInv'
  <2>1. CASE SecretConfigured(p)
    <3>1. Configured[p] \in Secrets  BY <2>1, ConstantsOK DEF SecretConfigured
    <3>2. /\ proc'[p].pc = "count" /\ proc'[p].secret = Configured[p] /\ Moves(p)
          /\ UNCHANGED <<stored, contested>>
      BY <2>1, <3>1, SecretEffect DEF SecretConfigured, Moves, Stores, History
    <3>3. Agrees(p)' /\ AsConfigured(p)'  BY <2>1, <3>2 DEF SecretConfigured, Agrees, AsConfigured
    <3> QED  BY <3>2, <3>3, SecretFrame
  <2>2. CASE SecretFound(p)
    <3>1. stored \in Secrets  BY <2>2 DEF SecretFound, TypeOK
    <3>2. /\ proc'[p].pc = "count" /\ proc'[p].secret = stored /\ Moves(p)
          /\ stored' = stored /\ stored # None /\ Configured[p] = None
      BY <2>2, <3>1, SecretEffect DEF SecretFound, Moves, Stores
    <3>3. contested \subseteq contested' /\ (p \notin contested' => Storing = {})
      BY <2>2 DEF SecretFound
    <3>4. Storing' = Storing \ {p}  BY <3>2, StoringStep
    <3>5. Agrees(p)'  BY <3>2, <3>3, <3>4 DEF Agrees
    <3>6. AsConfigured(p)'  BY <3>2 DEF AsConfigured
    <3> QED  BY <3>2, <3>3, <3>5, <3>6, SecretFrame
  <2>3. CASE SecretMissing(p)  BY <2>3, MissingStep
  <2>4. CASE StoreSecret(p)  BY <2>4, StoreStep
  <2>5. CASE AdminExists(p)  BY <2>5, <1>a DEF AdminExists, Stores, History
  <2>6. CASE NoAdmin(p)
    <3>1. PICK new \in Passwords : proc' = [proc EXCEPT ![p].pc = "insert", ![p].password = new]
      BY <2>6 DEF NoAdmin, FreshPasswords
    <3>2. /\ proc[p].pc = "count" /\ proc'[p].pc = "insert"
          /\ proc'[p].secret = proc[p].secret /\ Moves(p) /\ UNCHANGED <<stored, contested>>
      BY <2>6, <3>1, PasswordEffect DEF NoAdmin, Moves, Stores, History
    <3> QED  BY <3>2, KeptSecret
  <2>7. CASE InsertAdmin(p)  BY <2>7, <1>a DEF InsertAdmin, History
  <2>8. CASE EmailTaken(p)  BY <2>8, <1>b DEF EmailTaken, Stores
  <2>9. CASE TruncateCredentials(p)  BY <2>9, <1>a DEF TruncateCredentials, History
  <2>10. CASE WriteCredentials(p)  BY <2>10, <1>a DEF WriteCredentials, History
  <2>11. CASE PrintCredentials(p)
    <3>1. /\ proc[p].pc = "print" /\ proc'[p].pc = "up"
          /\ proc'[p].secret = proc[p].secret /\ Moves(p) /\ UNCHANGED <<stored, contested>>
      BY <2>11, PasswordEffect DEF PrintCredentials, Moves, History
    <3> QED  BY <3>1, KeptSecret
  <2> QED  BY <1>2, <2>1, <2>2, <2>3, <2>4, <2>5, <2>6, <2>7, <2>8, <2>9, <2>10, <2>11 DEF Step
<1>3. CASE UNCHANGED vars
  BY <1>3 DEF vars, SecretInv, Agrees, Alone, AsConfigured, Storing
<1> QED  BY <1>1, <1>2, <1>3 DEF Next

LEMMA Secret == Spec => []SecretInv
<1>1. Init => SecretInv  BY DEF Init, SecretInv, Agrees, Alone, AsConfigured, Down
<1> QED  BY <1>1, SecretStep, TypeCorrect, PTL DEF Spec

\* Two processes disagree about the secret only if one met another first boot.
THEOREM ProcessesAgreeOnTheSecret == Spec => []SecretAgreement
<1>1. ASSUME SecretInv PROVE SecretAgreement
  <2> SUFFICES ASSUME NEW p \in Processes, NEW q \in Processes,
                      Configured[p] = None, p \notin contested,
                      proc[p].pc \notin {"down", "read"},
                      Configured[q] = None, q \notin contested,
                      proc[q].pc \notin {"down", "read"}
               PROVE  proc[p].secret = proc[q].secret
    BY DEF SecretAgreement
  <2>1. /\ Agrees(p) /\ Alone(p)
        /\ Agrees(q) /\ Alone(q)
    BY <1>1 DEF SecretInv
  <2>2. CASE proc[p].pc = "store"
    <3>1. stored = None /\ Storing = {p}  BY <2>1, <2>2 DEF Alone
    <3> QED  BY <2>1, <3>1 DEF Agrees, Alone
  <2>3. CASE proc[q].pc = "store"
    <3>1. stored = None /\ Storing = {q}  BY <2>1, <2>3 DEF Alone
    <3> QED  BY <2>1, <3>1 DEF Agrees, Alone
  <2> QED  BY <2>1, <2>2, <2>3 DEF Agrees
<1> QED  BY <1>1, Secret, PTL

\* Whatever serves has an administrator, and a secret that its next restart finds again
\* unless it met another first boot.
THEOREM EveryServerIsInitialised == Spec => []ServingIsInitialised
<1>1. ASSUME BootInv, SecretInv PROVE ServingIsInitialised
  <2> SUFFICES ASSUME NEW p \in Processes, proc[p].pc = "up"
               PROVE  /\ ~NoAdmins
                      /\ Configured[p] # None => proc[p].secret = Configured[p]
                      /\ Configured[p] = None =>
                           stored # None /\ (proc[p].secret = stored \/ p \in contested)
    BY DEF ServingIsInitialised
  <2>1. Served(p) /\ Agrees(p) /\ AsConfigured(p)  BY <1>1 DEF BootInv, SecretInv
  <2> QED  BY <2>1 DEF Served, Agrees, AsConfigured
<1> QED  BY <1>1, Secret, BootInvariant, PTL
=============================================================================
