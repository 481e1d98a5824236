-------------------------- MODULE ProvisioningProofs --------------------------
(***************************************************************************)
(* Proofs about Provisioning: each service is what the other one expects   *)
(* around it, so that what is proved of each alone holds of both together; *)
(* and what holds of the two tables that they share.                       *)
(***************************************************************************)
EXTENDS Provisioning, TLAPS

\* The proofs about each service, over the variables of Provisioning.
Sites == INSTANCE SiteServiceProofs
           WITH Slots <- Jobs, Faults <- Faults \cap {"statement", "crash"}
Bases == INSTANCE DatabaseServiceProofs WITH Slots <- Tasks, known <- Registered

-----------------------------------------------------------------------------
\* Sites and Bases bring copies of the two services with them: they are those of Provisioning.
LEMMA SameAssumptions == Sites!ConstantsOK /\ Bases!ConstantsOK
<1>1. Sites!ConstantsOK
  BY ConstantsOK DEF Sites!ConstantsOK, Sites!FaultKinds, Sites!Config, Sites!SiteRow,
     Sites!DatabaseRow, S!ConstantsOK, S!FaultKinds, S!Config, S!SiteRow, S!DatabaseRow
<1>2. Bases!ConstantsOK
  BY ConstantsOK DEF Bases!ConstantsOK, Bases!FaultKinds, Bases!Row,
     D!ConstantsOK, D!FaultKinds, D!Row
<1> QED  BY <1>1, <1>2

LEMMA SameSites ==
  /\ S!Init <=> Sites!Init
  /\ \A s \in Jobs : S!Step(s) <=> Sites!Step(s)
  /\ \A s \in Jobs, d \in Domains, config \in Requests :
       S!Begin(s, d, config) <=> Sites!Begin(s, d, config)
  /\ \A p \in Processes : S!Crash(p) <=> Sites!Crash(p)
  /\ \A d \in Domains : S!DeleteSite(d) <=> Sites!DeleteSite(d)
  /\ \A d \in Domains, v \in Versions : S!ChangeVersion(d, v) <=> Sites!ChangeVersion(d, v)
  /\ \A n \in Names, d \in Domains \cup {NoSite} :
       S!OtherDatabase(n, d) <=> Sites!OtherDatabase(n, d)
  /\ S!vars = Sites!vars
BY DEF S!Init, S!AtRest, S!NoDomain, S!Step, S!SiteExists, S!SiteIsNew, S!MakeDirectories,
   S!TruncatePlan, S!WritePlan, S!InsertSite, S!DomainTaken, S!ReadBack, S!InsertDatabase,
   S!NameTaken, S!StepFails, S!Begin, S!Crash, S!DeleteSite, S!ChangeVersion,
   S!OtherDatabase, S!GoTo, S!Return, S!PlannedRow, S!Claiming, S!ClaimingLabels, S!Files,
   S!History, S!vars,
   Sites!Init, Sites!AtRest, Sites!NoDomain, Sites!Step, Sites!SiteExists, Sites!SiteIsNew,
   Sites!MakeDirectories, Sites!TruncatePlan, Sites!WritePlan, Sites!InsertSite,
   Sites!DomainTaken, Sites!ReadBack, Sites!InsertDatabase, Sites!NameTaken, Sites!StepFails,
   Sites!Begin, Sites!Crash, Sites!DeleteSite, Sites!ChangeVersion, Sites!OtherDatabase,
   Sites!GoTo, Sites!Return, Sites!PlannedRow, Sites!Claiming, Sites!ClaimingLabels,
   Sites!Files, Sites!History, Sites!vars

LEMMA SameBases ==
  /\ D!Init <=> Bases!Init
  /\ \A t \in Tasks : D!Step(t) <=> Bases!Step(t)
  /\ \A t \in Tasks, d \in Domains \cup {NoSite}, n \in Names \cup {NoName} :
       D!Begin(t, d, n) <=> Bases!Begin(t, d, n)
  /\ D!Crash <=> Bases!Crash
  /\ \A d \in Domains : D!RegisterSite(d) <=> Bases!RegisterSite(d)
  /\ \A n \in Names, d \in Domains : D!PlanDatabase(n, d) <=> Bases!PlanDatabase(n, d)
  /\ D!vars = Bases!vars
BY DEF D!Init, D!AtRest, D!Step, D!ResolveSite, D!UnknownSite, D!NameFree, D!NameTaken,
   D!FileExists, D!NoFile, D!OpenFile, D!Setup, D!InsertRow, D!UniqueViolation,
   D!StatementFails, D!Cleanup, D!CloseFile, D!Begin, D!Crash, D!RegisterSite,
   D!PlanDatabase, D!GoTo,
   D!Return, D!Candidate, D!Creating, D!CreatingLabels, D!Rivalled, D!Contended, D!Connected,
   D!ConnectedLabels, D!SqliteRow, D!Stores, D!History, D!vars,
   Bases!Init, Bases!AtRest, Bases!Step, Bases!ResolveSite, Bases!UnknownSite, Bases!NameFree,
   Bases!NameTaken, Bases!FileExists, Bases!NoFile, Bases!OpenFile, Bases!Setup,
   Bases!InsertRow, Bases!UniqueViolation, Bases!StatementFails, Bases!Cleanup,
   Bases!CloseFile, Bases!Begin,
   Bases!Crash, Bases!RegisterSite, Bases!PlanDatabase, Bases!GoTo, Bases!Return,
   Bases!Candidate, Bases!Creating, Bases!CreatingLabels, Bases!Rivalled, Bases!Contended,
   Bases!Connected, Bases!ConnectedLabels, Bases!SqliteRow, Bases!Stores, Bases!History,
   Bases!vars

-----------------------------------------------------------------------------
\* A request that is past the resolution of its site holds a recorded site or none.
TaskSites ==
  \A t \in Tasks : task[t].pc # "resolve" /\ task[t].site # NoSite =>
    task[t].site \in Registered

\* What the two services rely on when they are run together.
SharedInv == Sites!TypeOK /\ Sites!OwnInv /\ Bases!TypeOK /\ TaskSites

\* Of the steps of DatabaseService only the one that records a database touches what
\* SiteService looks at.
LEMMA DatabaseStepsKeepSites ==
  ASSUME Bases!TypeOK, TaskSites, NEW t \in Tasks, DatabaseStep(t)
  PROVE  \/ UNCHANGED Sites!vars
         \/ \E n \in Names, d \in Domains \cup {NoSite} : Sites!OtherDatabase(n, d)
<1>1. UNCHANGED siteVars /\ Bases!Step(t)  BY SameBases DEF DatabaseStep
<1>2. CASE Bases!InsertRow(t)
  <2>1. /\ task[t].pc = "insert"
        /\ databases[Bases!Candidate(t)] = NoRow
        /\ databases' = [databases EXCEPT ![Bases!Candidate(t)] =
                           [site |-> task[t].site, engine |-> "sqlite"]]
    BY <1>2 DEF Bases!InsertRow
  <2>2. Bases!Candidate(t) \in Names
    BY <2>1, SameAssumptions, Bases!CandidateIsName
  <2>3. task[t].site \in Domains \cup {NoSite}
    BY DEF Bases!TypeOK, Bases!Task
  <2>4. task[t].site # NoSite => sites[task[t].site] # NoRow
    BY <2>1 DEF TaskSites, Registered
  <2>5. Sites!OtherDatabase(Bases!Candidate(t), task[t].site)
    BY <1>1, <2>1, <2>4 DEF Sites!OtherDatabase, Sites!Files, Sites!History, siteVars
  <2> QED  BY <2>2, <2>3, <2>5
<1>3. CASE databases' = databases
  BY <1>1, <1>3 DEF siteVars, Sites!vars
<1> QED
  BY <1>1, <1>2, <1>3 DEF Bases!Step, Bases!ResolveSite, Bases!UnknownSite, Bases!NameFree,
     Bases!NameTaken, Bases!FileExists, Bases!NoFile, Bases!OpenFile, Bases!Setup,
     Bases!UniqueViolation, Bases!StatementFails, Bases!Cleanup, Bases!CloseFile, Bases!Stores

\* A step of both services is, for SiteService, one of its own, one of its
\* environment, or none.
LEMMA SitesAllow ==
  Bases!TypeOK /\ TaskSites /\ [Next]_vars => [Sites!Next]_(Sites!vars)
<1> SUFFICES ASSUME Bases!TypeOK, TaskSites, [Next]_vars PROVE [Sites!Next]_(Sites!vars)
  OBVIOUS
<1>1. ASSUME NEW s \in Jobs, SiteStep(s) PROVE Sites!Next
  BY <1>1, SameSites DEF SiteStep, Sites!Next
<1>2. ASSUME NEW t \in Tasks, DatabaseStep(t) PROVE [Sites!Next]_(Sites!vars)
  BY <1>2, DatabaseStepsKeepSites DEF Sites!Next
<1>3. ASSUME NEW p \in Processes, Crash(p) PROVE Sites!Next
  BY <1>3, SameSites DEF Crash, Sites!Next
<1>4. CASE SiteRequest
  BY <1>4, SameSites DEF SiteRequest, Sites!Next
<1>5. CASE DatabaseRequest
  BY <1>5 DEF DatabaseRequest, D!Begin, D!Stores, siteVars, Sites!vars
<1>6. CASE UNCHANGED vars
  BY <1>6 DEF vars, siteVars, Sites!vars
<1> QED  BY <1>1, <1>2, <1>3, <1>4, <1>5, <1>6 DEF Next

\* Of the steps of SiteService only the two INSERTs touch what DatabaseService looks at.
LEMMA SiteStepsKeepDatabases ==
  ASSUME Sites!TypeOK, Sites!OwnInv, NEW s \in Jobs, Sites!Step(s), UNCHANGED databaseVars
  PROVE  \/ UNCHANGED Bases!vars
         \/ \E d \in Domains : Bases!RegisterSite(d)
         \/ \E n \in Names, d \in Domains : Bases!PlanDatabase(n, d)
<1>1. CASE Sites!InsertSite(s)
  <2>1. job[s].domain \in Domains /\ job[s].config \in Sites!Config
    BY <1>1 DEF Sites!InsertSite, Sites!TypeOK
  <2> DEFINE row == [php |-> job[s].config.php, redis |-> job[s].config.redis,
                     status |-> "provisioned"]
  <2>2. row # NoRow
    BY <2>1, SameAssumptions DEF Sites!ConstantsOK, Sites!Config, Sites!SiteRow
  <2>3. sites' = [sites EXCEPT ![job[s].domain] = row]
    BY <1>1 DEF Sites!InsertSite
  <2>4. Registered' = Registered \cup {job[s].domain}
    BY <2>1, <2>2, <2>3 DEF Registered, Sites!TypeOK
  <2> QED
    BY <1>1, <2>1, <2>4 DEF Sites!InsertSite, Bases!RegisterSite, Bases!History,
       databaseVars
<1>2. CASE Sites!InsertDatabase(s)
  <2>1. job[s].domain \in Domains /\ Sites!Completing(s, job[s].domain)
    BY <1>2 DEF Sites!InsertDatabase, Sites!TypeOK, Sites!Completing, Sites!CompletingLabels
  <2>2. job[s].domain \in Registered
    BY <2>1 DEF Sites!OwnInv, Sites!OneCompletes, Registered
  <2>3. DbName[job[s].domain] \in Names
    BY <2>1, SameAssumptions DEF Sites!ConstantsOK
  <2>4. Registered' = Registered
    BY <1>2 DEF Sites!InsertDatabase, Registered
  <2>5. Bases!PlanDatabase(DbName[job[s].domain], job[s].domain)
    BY <1>2, <2>2, <2>4 DEF Sites!InsertDatabase, Sites!PlannedRow, Bases!PlanDatabase,
       Bases!History, databaseVars
  <2> QED  BY <2>1, <2>3, <2>5
<1>3. CASE sites' = sites /\ databases' = databases
  BY <1>3 DEF databaseVars, Bases!vars, Bases!Stores, Bases!History, Registered
<1> QED
  BY <1>1, <1>2, <1>3 DEF Sites!Step, Sites!SiteExists, Sites!SiteIsNew,
     Sites!MakeDirectories, Sites!TruncatePlan, Sites!WritePlan, Sites!DomainTaken,
     Sites!ReadBack, Sites!NameTaken, Sites!StepFails

\* A step of both services is, for DatabaseService, one of its own, one of its
\* environment, or none.
LEMMA BasesAllow ==
  Sites!TypeOK /\ Sites!OwnInv /\ [Next]_vars => [Bases!Next]_(Bases!vars)
<1> SUFFICES ASSUME Sites!TypeOK, Sites!OwnInv, [Next]_vars PROVE [Bases!Next]_(Bases!vars)
  OBVIOUS
<1>1. ASSUME NEW s \in Jobs, SiteStep(s) PROVE [Bases!Next]_(Bases!vars)
  BY <1>1, SameSites, SiteStepsKeepDatabases DEF SiteStep, Bases!Next, Bases!Environment
<1>2. ASSUME NEW t \in Tasks, DatabaseStep(t) PROVE Bases!Next
  BY <1>2, SameBases DEF DatabaseStep, Bases!Next
<1>3. ASSUME NEW p \in Processes, Crash(p) PROVE [Bases!Next]_(Bases!vars)
  <2>1. CASE p = Server
    BY <1>3, <2>1, SameBases DEF Crash, Bases!Next
  <2>2. CASE p # Server
    BY <1>3, <2>2 DEF Crash, S!Crash, databaseVars, Bases!vars, Bases!Stores, Bases!History,
       Registered
  <2> QED  BY <2>1, <2>2
<1>4. ASSUME SiteRequest PROVE UNCHANGED Bases!vars
  <2>1. UNCHANGED databaseVars /\ databases' = databases
    BY <1>4 DEF SiteRequest, S!Begin, S!DeleteSite, S!ChangeVersion
  <2>2. \A d \in Domains : sites'[d] # NoRow <=> sites[d] # NoRow
    <3>1. ASSUME NEW s \in Jobs, NEW d \in Domains, NEW config \in Requests,
                 S!Begin(s, d, config)
          PROVE  sites' = sites
      BY <3>1 DEF S!Begin
    <3>2. ASSUME NEW d \in Domains, S!DeleteSite(d)
          PROVE  \A e \in Domains : sites'[e] # NoRow <=> sites[e] # NoRow
      <4>1. sites[d] \in Sites!SiteRow /\ sites[d] # NoRow
        BY <3>2 DEF S!DeleteSite, Sites!TypeOK
      <4>2. [sites[d] EXCEPT !.status = "deleted"] \in Sites!SiteRow
        BY <4>1 DEF Sites!SiteRow
      <4>3. sites' = [sites EXCEPT ![d] = [sites[d] EXCEPT !.status = "deleted"]]
        BY <3>2 DEF S!DeleteSite, Sites!TypeOK
      <4> QED
        BY <4>1, <4>2, <4>3, SameAssumptions DEF Sites!ConstantsOK, Sites!TypeOK
    <3>3. ASSUME NEW d \in Domains, NEW v \in Versions, S!ChangeVersion(d, v)
          PROVE  \A e \in Domains : sites'[e] # NoRow <=> sites[e] # NoRow
      <4>1. sites[d] \in Sites!SiteRow /\ sites[d] # NoRow
        BY <3>3 DEF S!ChangeVersion, Sites!TypeOK
      <4>2. [sites[d] EXCEPT !.php = v] \in Sites!SiteRow
        BY <4>1 DEF Sites!SiteRow
      <4>3. sites' = [sites EXCEPT ![d] = [sites[d] EXCEPT !.php = v]]
        BY <3>3 DEF S!ChangeVersion, Sites!TypeOK
      <4> QED
        BY <4>1, <4>2, <4>3, SameAssumptions DEF Sites!ConstantsOK, Sites!TypeOK
    <3> QED  BY <1>4, <3>1, <3>2, <3>3 DEF SiteRequest
  <2> QED  BY <2>1, <2>2 DEF databaseVars, Bases!vars, Bases!Stores, Bases!History, Registered
<1>5. CASE DatabaseRequest
  BY <1>5, SameBases DEF DatabaseRequest, Bases!Next
<1>6. CASE UNCHANGED vars
  BY <1>6 DEF vars, siteVars, databaseVars, Bases!vars, Bases!Stores, Bases!History, Registered
<1> QED  BY <1>1, <1>2, <1>3, <1>4, <1>5, <1>6 DEF Next

-----------------------------------------------------------------------------
\* Recorded sites stay recorded.
LEMMA RegisteredGrows ==
  ASSUME Sites!TypeOK, [Sites!Next]_(Sites!vars) PROVE Registered \subseteq Registered'
<1>1. \A d \in Domains : Sites!Recorded(d)
  BY SameAssumptions, Sites!RecordedStep
<1> QED  BY <1>1 DEF Sites!Recorded, Registered

\* A request gets past its resolution only with a site that it has found.
LEMMA TaskSitesStep ==
  ASSUME SharedInv, [Next]_vars, Registered \subseteq Registered' PROVE TaskSites'
<1> USE DEF SharedInv
<1>1. ASSUME NEW t \in Tasks, DatabaseStep(t) PROVE TaskSites'
  <2>1. Bases!Step(t)  BY <1>1, SameBases DEF DatabaseStep
  <2>2. /\ task[t].pc \in Bases!Labels
        /\ \A u \in Tasks \ {t} : task'[u] = task[u]
        /\ \/ task'[t].site = NoSite
           \/ task'[t].site = task[t].site /\ task[t].pc # "resolve"
           \/ task'[t].site \in Registered
    <3>1. ASSUME NEW label \in Bases!Labels, Bases!GoTo(t, label)
          PROVE  task'[t].site = task[t].site
      BY <3>1, SameAssumptions, Bases!GoToEffect
    <3> QED
      BY <2>1 DEF Bases!Step, Bases!ResolveSite, Bases!UnknownSite, Bases!NameFree,
         Bases!NameTaken, Bases!FileExists, Bases!NoFile, Bases!OpenFile, Bases!Setup,
         Bases!InsertRow, Bases!UniqueViolation, Bases!StatementFails, Bases!Cleanup,
         Bases!CloseFile, Bases!GoTo, Bases!Return, Bases!AtRest, Bases!TypeOK, Bases!Task,
         Bases!Labels
  <2> QED  BY <2>2 DEF TaskSites
<1>2. CASE task' = task
  BY <1>2 DEF TaskSites
<1>3. ASSUME NEW p \in Processes, Crash(p) PROVE TaskSites'
  BY <1>2, <1>3 DEF Crash, D!Crash, D!AtRest, databaseVars, TaskSites
<1>4. ASSUME NEW t \in Tasks, NEW d \in Domains \cup {NoSite}, NEW n \in Names \cup {NoName},
             D!Begin(t, d, n)
      PROVE  TaskSites'
  <2>1. /\ \A u \in Tasks \ {t} : task'[u] = task[u]
        /\ task'[t].site = d /\ (d # NoSite => task'[t].pc = "resolve")
    BY <1>4 DEF D!Begin, Bases!TypeOK
  <2> QED  BY <2>1 DEF TaskSites
<1> QED
  BY <1>1, <1>2, <1>3, <1>4 DEF Next, SiteStep, SiteRequest, DatabaseRequest, vars,
     databaseVars

LEMMA SharedStep == SharedInv /\ [Next]_vars =>
  [Sites!Next]_(Sites!vars) /\ [Bases!Next]_(Bases!vars) /\ SharedInv'
<1> SUFFICES ASSUME SharedInv, [Next]_vars
             PROVE  [Sites!Next]_(Sites!vars) /\ [Bases!Next]_(Bases!vars) /\ SharedInv'
  OBVIOUS
<1>1. [Sites!Next]_(Sites!vars) /\ [Bases!Next]_(Bases!vars)
  BY SitesAllow, BasesAllow DEF SharedInv
<1>2. Sites!TypeOK'  BY <1>1, SameAssumptions, Sites!TypeStep DEF SharedInv
<1>3. Sites!OwnInv'  BY <1>1, SameAssumptions, Sites!OwnStep DEF SharedInv
<1>4. Bases!TypeOK'  BY <1>1, SameAssumptions, Bases!TypeStep DEF SharedInv
<1>5. TaskSites'  BY <1>1, RegisteredGrows, TaskSitesStep DEF SharedInv
<1> QED  BY <1>1, <1>2, <1>3, <1>4, <1>5 DEF SharedInv

LEMMA SharedInit == Init => SharedInv
<1> SUFFICES ASSUME Init PROVE SharedInv
  OBVIOUS
<1>1. Sites!Init /\ Bases!Init
  BY SameSites, SameBases DEF Init
<1>2. Sites!TypeOK
  BY <1>1, SameAssumptions DEF Sites!Init, Sites!TypeOK, Sites!Job, Sites!Labels, Sites!AtRest,
     Sites!NoDomain
<1>3. Sites!OwnInv
  BY <1>1, SameAssumptions DEF Sites!Init, Sites!OwnInv, Sites!OneCompletes, Sites!AtRest,
     Sites!PlannedDatabasesBelong, Sites!Completing, Sites!CompletingLabels
<1>4. Bases!TypeOK
  BY <1>1, SameAssumptions DEF Bases!Init, Bases!TypeOK, Bases!Task, Bases!Labels, Bases!AtRest
<1>5. TaskSites
  BY <1>1 DEF Bases!Init, Bases!AtRest, TaskSites
<1> QED  BY <1>2, <1>3, <1>4, <1>5 DEF SharedInv

LEMMA Shared == Spec => []SharedInv
BY SharedInit, SharedStep, PTL DEF Spec

-----------------------------------------------------------------------------
\* Whatever CreateDatabase does beside it, SiteService behaves as its own
\* specification says: what is proved of SiteService alone holds in Provisioning.
THEOREM ImplementsSiteService == Spec => SiteServiceSpec
<1>1. [Sites!Next]_(Sites!vars) => [S!Next]_(S!vars)
  <2>1. Sites!Next => S!Next
    <3> SUFFICES ASSUME Sites!Next PROVE S!Next
      OBVIOUS
    <3>1. ASSUME NEW s \in Jobs, NEW d \in Domains, NEW config \in Requests,
                 Sites!Begin(s, d, config)
          PROVE  S!Next
      BY <3>1, SameSites DEF S!Next
    <3>2. ASSUME NEW s \in Jobs, Sites!Step(s) PROVE S!Next
      BY <3>2, SameSites DEF S!Next
    <3>3. ASSUME NEW p \in Processes, Sites!Crash(p) PROVE S!Next
      BY <3>3, SameSites DEF S!Next
    <3>4. ASSUME NEW d \in Domains, Sites!DeleteSite(d) PROVE S!Next
      BY <3>4, SameSites DEF S!Next
    <3>5. ASSUME NEW d \in Domains, NEW v \in Versions, Sites!ChangeVersion(d, v) PROVE S!Next
      BY <3>5, SameSites DEF S!Next
    <3>6. ASSUME NEW n \in Names, NEW d \in Domains \cup {NoSite}, Sites!OtherDatabase(n, d)
          PROVE  S!Next
      BY <3>6, SameSites DEF S!Next
    <3> QED  BY <3>1, <3>2, <3>3, <3>4, <3>5, <3>6 DEF Sites!Next
  <2> QED  BY <2>1 DEF Sites!vars, Sites!Files, Sites!History, S!vars, S!Files, S!History
<1>2. SharedInv /\ [Next]_vars => [S!Next]_(S!vars)  BY <1>1, SharedStep
<1>3. Init => S!Init  BY DEF Init
<1> QED  BY <1>2, <1>3, Shared, PTL DEF Spec, SiteServiceSpec, S!Spec

\* Whatever CreateSite does beside it, DatabaseService behaves as its own
\* specification says: what is proved of DatabaseService alone holds in Provisioning.
THEOREM ImplementsDatabaseService == Spec => D!Spec
<1>1. [Bases!Next]_(Bases!vars) => [D!Next]_(D!vars)
  <2>1. Bases!Next => D!Next
    <3> SUFFICES ASSUME Bases!Next PROVE D!Next
      OBVIOUS
    <3>1. ASSUME NEW t \in Tasks, NEW d \in Domains \cup {NoSite},
                 NEW n \in Names \cup {NoName}, Bases!Begin(t, d, n)
          PROVE  D!Next
      BY <3>1, SameBases DEF D!Next
    <3>2. ASSUME NEW t \in Tasks, Bases!Step(t) PROVE D!Next
      BY <3>2, SameBases DEF D!Next
    <3>3. CASE Bases!Crash
      BY <3>3, SameBases DEF D!Next
    <3>4. ASSUME NEW d \in Domains, Bases!RegisterSite(d) PROVE D!Next
      BY <3>4, SameBases DEF D!Next, D!Environment
    <3>5. ASSUME NEW n \in Names, NEW d \in Domains, Bases!PlanDatabase(n, d) PROVE D!Next
      BY <3>5, SameBases DEF D!Next, D!Environment
    <3> QED  BY <3>1, <3>2, <3>3, <3>4, <3>5 DEF Bases!Next, Bases!Environment
  <2> QED  BY <2>1
    DEF Bases!vars, Bases!Stores, Bases!History, D!vars, D!Stores, D!History
<1>2. SharedInv /\ [Next]_vars => [D!Next]_(D!vars)  BY <1>1, SharedStep
<1>3. Init => D!Init  BY DEF Init
<1> QED  BY <1>2, <1>3, Shared, PTL DEF Spec, D!Spec

-----------------------------------------------------------------------------
\* A database row of a site that is not recorded is never written.
LEMMA ForeignKeysStep ==
  SharedInv /\ ForeignKeysHold /\ [Next]_vars => ForeignKeysHold'
<1> SUFFICES ASSUME SharedInv, ForeignKeysHold, [Next]_vars,
                    NEW n \in Names, databases'[n] # NoRow, databases'[n].site # NoSite
             PROVE  databases'[n].site \in Registered'
  BY DEF ForeignKeysHold
<1>1. [Sites!Next]_(Sites!vars) /\ SharedInv'  BY SharedStep
<1>2. Registered \subseteq Registered'  BY <1>1, RegisteredGrows DEF SharedInv
<1>3. CASE databases'[n] = databases[n]
  BY <1>2, <1>3 DEF ForeignKeysHold
<1>4. ASSUME NEW m \in Names, NEW d \in Domains \cup {NoSite}, Sites!OtherDatabase(m, d)
      PROVE  databases'[n] = databases[n] \/ databases'[n].site \in Registered
  BY <1>4 DEF Sites!OtherDatabase, SharedInv, Sites!TypeOK, Registered
<1>5. CASE databases'[n].engine = "mariadb"
  <2>1. Sites!PlannedDatabasesBelong'  BY <1>1 DEF SharedInv, Sites!OwnInv
  <2>2. \E d \in Domains : databases'[n] = Sites!PlannedRow(d) /\ sites'[d] # NoRow
    BY <1>5, <2>1 DEF Sites!PlannedDatabasesBelong
  <2>3. PICK d \in Domains : databases'[n] = Sites!PlannedRow(d) /\ sites'[d] # NoRow
    BY <2>2
  <2> QED  BY <2>3 DEF Registered, Sites!PlannedRow
<1>6. ASSUME NEW s \in Jobs, Sites!InsertDatabase(s)
      PROVE  databases'[n] = databases[n] \/ databases'[n].engine = "mariadb"
  BY <1>6 DEF Sites!InsertDatabase, Sites!PlannedRow, SharedInv, Sites!TypeOK
<1> QED
  BY <1>1, <1>2, <1>3, <1>4, <1>5, <1>6 DEF Sites!Next, Sites!Step, Sites!Begin,
     Sites!SiteExists, Sites!SiteIsNew, Sites!MakeDirectories, Sites!TruncatePlan,
     Sites!WritePlan, Sites!InsertSite, Sites!DomainTaken, Sites!ReadBack, Sites!NameTaken,
     Sites!StepFails, Sites!Crash, Sites!DeleteSite, Sites!ChangeVersion, Sites!vars

\* The site of a database row is recorded, although it is looked up in one statement
\* and the row inserted in a later one.
THEOREM ForeignKeys == Spec => []ForeignKeysHold
<1>1. Init => ForeignKeysHold  BY DEF Init, S!Init, ForeignKeysHold
<1> QED  BY <1>1, Shared, ForeignKeysStep, PTL DEF Spec

-----------------------------------------------------------------------------
\* Why a recorded site is without its database: a call is about to record it, was
\* cut off, or the derived name is in use.  StrandedHasReason is the case without a call.
Accounted(d) ==
  sites[d] # NoRow =>
    \/ \E s \in Jobs : Sites!Completing(s, d)
    \/ d \in lost
    \/ databases[DbName[d]] # NoRow

LEMMA RowsStay ==
  ASSUME SharedInv, [Next]_vars, NEW d \in Domains, databases[DbName[d]] # NoRow
  PROVE  databases'[DbName[d]] # NoRow
<1>1. [Sites!Next]_(Sites!vars)  BY SharedStep
<1>2. DbName[d] \in Names  BY SameAssumptions DEF Sites!ConstantsOK
<1> QED  BY <1>1, <1>2, SameAssumptions, Sites!DatabasesStep DEF SharedInv

\* A call that completes a site goes on to do so, records the database, finds its
\* name in use, or is cut off.
LEMMA CompletingGoesOn ==
  ASSUME SharedInv, [Next]_vars, NEW d \in Domains, NEW s \in Jobs, Sites!Completing(s, d)
  PROVE  \/ (Sites!Completing(s, d))'
         \/ d \in lost'
         \/ databases'[DbName[d]] # NoRow
<1> USE DEF Sites!Completing, Sites!CompletingLabels
<1>0. DbName[d] \in Names /\ Sites!PlannedRow(d) # NoRow
  BY SameAssumptions DEF Sites!ConstantsOK, Sites!PlannedRow, Sites!DatabaseRow
<1>1. CASE job'[s] = job[s]  BY <1>1
<1>2. ASSUME NEW u \in Jobs, SiteStep(u), job'[s] # job[s]
      PROVE  \/ (Sites!Completing(s, d))'
             \/ d \in lost'
             \/ databases'[DbName[d]] # NoRow
  <2>1. u = s /\ Sites!Step(s)
    <3>1. Sites!Step(u)  BY <1>2, SameSites DEF SiteStep
    <3>2. u # s => job'[s] = job[s]
      BY <3>1 DEF Sites!Step, Sites!SiteExists, Sites!SiteIsNew, Sites!MakeDirectories,
         Sites!TruncatePlan, Sites!WritePlan, Sites!InsertSite, Sites!DomainTaken,
         Sites!ReadBack, Sites!InsertDatabase, Sites!NameTaken, Sites!StepFails,
         Sites!GoTo, Sites!Return, SharedInv, Sites!TypeOK
    <3> QED  BY <1>2, <3>1, <3>2
  <2>2. CASE Sites!ReadBack(s)
    BY <2>2 DEF Sites!ReadBack, Sites!GoTo, SharedInv, Sites!TypeOK, Sites!Job
  <2>3. CASE Sites!InsertDatabase(s)
    BY <1>0, <2>3 DEF Sites!InsertDatabase, SharedInv, Sites!TypeOK
  <2>4. CASE Sites!NameTaken(s)
    BY <2>4 DEF Sites!NameTaken
  <2>5. CASE Sites!StepFails(s)
    BY <1>2, <2>1, <2>5 DEF SiteStep, Sites!StepFails, S!StepFails, S!Completing,
       S!CompletingLabels, Sites!Return, Sites!AtRest, Sites!NoDomain, Sites!Files,
       Sites!History, S!Return, S!AtRest, S!NoDomain, S!Files, S!History
  <2> QED
    BY <2>1, <2>2, <2>3, <2>4, <2>5 DEF Sites!Step, Sites!SiteExists, Sites!SiteIsNew,
       Sites!MakeDirectories, Sites!TruncatePlan, Sites!WritePlan, Sites!InsertSite,
       Sites!DomainTaken
<1>3. ASSUME NEW p \in Processes, Crash(p), job'[s] # job[s] PROVE d \in lost'
  BY <1>3 DEF Crash, S!Crash, S!Completing, S!CompletingLabels
<1>4. ASSUME SiteRequest PROVE job'[s] = job[s]
  BY <1>4 DEF SiteRequest, S!Begin, S!DeleteSite, S!ChangeVersion, SharedInv, Sites!TypeOK
<1> QED
  BY <1>1, <1>2, <1>3, <1>4 DEF Next, DatabaseStep, DatabaseRequest, siteVars, vars

LEMMA AccountedStep ==
  ASSUME SharedInv, [Next]_vars, NEW d \in Domains, Accounted(d) PROVE Accounted(d)'
<1> SUFFICES ASSUME sites'[d] # NoRow
             PROVE  \/ \E s \in Jobs : (Sites!Completing(s, d))'
                    \/ d \in lost'
                    \/ databases'[DbName[d]] # NoRow
  BY DEF Accounted
<1>1. CASE sites[d] # NoRow
  <2>1. lost \subseteq lost'
    BY DEF Next, SiteStep, DatabaseStep, Crash, SiteRequest, DatabaseRequest, vars
  <2> QED  BY <1>1, <2>1, RowsStay, CompletingGoesOn DEF Accounted
<1>2. CASE sites[d] = NoRow
  <2>1. \E s \in Jobs : Sites!InsertSite(s) /\ job[s].domain = d
    <3>1. [Sites!Next]_(Sites!vars)  BY SharedStep
    <3>2. ASSUME NEW e \in Domains,
                 \/ Sites!DeleteSite(e)
                 \/ \E v \in Versions : Sites!ChangeVersion(e, v)
          PROVE  sites'[d] = sites[d]
      BY <1>2, <3>2 DEF Sites!DeleteSite, Sites!ChangeVersion, SharedInv, Sites!TypeOK
    <3>3. ASSUME NEW s \in Jobs, Sites!InsertSite(s) PROVE job[s].domain = d
      BY <1>2, <3>3 DEF Sites!InsertSite, SharedInv, Sites!TypeOK
    <3> QED
      BY <1>2, <3>1, <3>2, <3>3 DEF Sites!Next, Sites!Step, Sites!Begin, Sites!SiteExists,
         Sites!SiteIsNew, Sites!MakeDirectories, Sites!TruncatePlan, Sites!WritePlan,
         Sites!DomainTaken, Sites!ReadBack, Sites!InsertDatabase, Sites!NameTaken,
         Sites!StepFails, Sites!Crash, Sites!OtherDatabase, Sites!vars
  <2>2. PICK s \in Jobs : Sites!InsertSite(s) /\ job[s].domain = d  BY <2>1
  <2>3. job'[s].pc = "readback" /\ job'[s].domain = d
    BY <2>2 DEF Sites!InsertSite, Sites!GoTo, SharedInv, Sites!TypeOK, Sites!Job
  <2> QED  BY <2>3 DEF Sites!Completing, Sites!CompletingLabels
<1> QED  BY <1>1, <1>2

\* A site is left without its database only if its call was cut off or another row
\* had taken the derived name.
THEOREM StrandingHasReason == Spec => []StrandedHasReason
<1> DEFINE Inv == \A d \in Domains : Accounted(d)
<1>1. Init => Inv  BY DEF Init, S!Init, Accounted
<1>2. SharedInv /\ Inv /\ [Next]_vars => Inv'  BY AccountedStep
<1>3. Inv => StrandedHasReason
  BY DEF StrandedHasReason, Accounted, S!Stranded, S!Completing, S!CompletingLabels,
     Sites!Completing, Sites!CompletingLabels
<1> HIDE DEF Inv
<1> QED  BY <1>1, <1>2, <1>3, Shared, PTL DEF Spec
=============================================================================
