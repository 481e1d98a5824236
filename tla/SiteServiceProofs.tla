-------------------------- MODULE SiteServiceProofs --------------------------
(***************************************************************************)
(* Proofs about SiteService, for any number of calls, processes, domains   *)
(* and names, whichever domains share a derived name, and any faults.      *)
(***************************************************************************)
EXTENDS SiteService, TLAPS

\* What GoTo(s, label) and Return(s) do to the calls, field by field.
LEMMA GoToEffect ==
  ASSUME TypeOK, NEW s \in Slots, NEW label \in Labels, GoTo(s, label)
  PROVE  /\ job' \in [Slots -> Job]
         /\ \A u \in Slots \ {s} : job'[u] = job[u]
         /\ job'[s].pc = label
         /\ job'[s].domain = job[s].domain
         /\ job'[s].config = job[s].config
BY DEF TypeOK, GoTo, Job

LEMMA ReturnEffect ==
  ASSUME TypeOK, NEW s \in Slots, Return(s)
  PROVE  /\ job' \in [Slots -> Job]
         /\ \A u \in Slots \ {s} : job'[u] = job[u]
         /\ job'[s].pc = "idle"
BY DEF TypeOK, Return, AtRest, Job, Labels, NoDomain

LEMMA BeginEffect ==
  ASSUME TypeOK, NEW s \in Slots, NEW d \in Domains, NEW config \in Requests,
         Begin(s, d, config)
  PROVE  /\ job' \in [Slots -> Job]
         /\ \A u \in Slots \ {s} : job'[u] = job[u]
         /\ job'[s].pc = "exists" /\ job'[s].domain = d /\ job'[s].config = config
<1>1. [pc |-> "exists", domain |-> d, config |-> config] \in Job
  BY ConstantsOK DEF Job, Labels
<1> QED  BY <1>1 DEF TypeOK, Begin

LEMMA CrashEffect ==
  ASSUME TypeOK, NEW p \in Processes, Crash(p)
  PROVE  /\ job' \in [Slots -> Job]
         /\ \A s \in Slots : job'[s].pc = "idle" \/ job'[s] = job[s]
<1>1. AtRest \in Job  BY DEF AtRest, Job, Labels, NoDomain
<1> QED  BY <1>1 DEF TypeOK, Crash, AtRest

-----------------------------------------------------------------------------
\* The two parts of TypeOK: the stores, and what a call under way carries.
StoresOK ==
  /\ sites \in [Domains -> SiteRow \cup {NoRow}]
  /\ databases \in [Names -> DatabaseRow \cup {NoRow}]
  /\ dirs \subseteq Domains
  /\ plans \in [Domains -> Config \cup {NoPlan, Torn}]
  /\ answers \in [Domains -> Nat]
  /\ rivalled \subseteq Domains
  /\ changed \subseteq Domains

Armed(s) == job[s].pc # "idle" => job[s].domain \in Domains /\ job[s].config \in Config

LEMMA TypeParts ==
  TypeOK <=> StoresOK /\ job \in [Slots -> Job] /\ \A s \in Slots : Armed(s)
BY DEF TypeOK, StoresOK, Armed

LEMMA TypeFrame ==
  ASSUME TypeOK, StoresOK', job' \in [Slots -> Job],
         NEW s \in Slots, \A u \in Slots \ {s} : job'[u] = job[u], Armed(s)'
  PROVE  TypeOK'
BY DEF TypeOK, StoresOK, Armed

\* The variables of SiteService keep their types in every step.
LEMMA TypeStep == TypeOK /\ [Next]_vars => TypeOK'
<1> SUFFICES ASSUME TypeOK, [Next]_vars PROVE TypeOK'
  OBVIOUS
<1>0. StoresOK /\ job \in [Slots -> Job] /\ \A s \in Slots : Armed(s)
  BY TypeParts
<1>a. ASSUME UNCHANGED <<sites, databases, Files, History>> PROVE StoresOK'
  BY <1>0, <1>a DEF StoresOK, Files, History
<1>1. ASSUME NEW s \in Slots, NEW d \in Domains, NEW config \in Requests, Begin(s, d, config)
      PROVE  TypeOK'
  <2>1. job'[s].domain = d /\ job'[s].config = config  BY <1>1, BeginEffect
  <2>2. Armed(s)'  BY <2>1, ConstantsOK DEF Armed
  <2> QED  BY <1>1, <1>a, <2>2, BeginEffect, TypeFrame DEF Begin
<1>2. ASSUME NEW s \in Slots, Step(s) PROVE TypeOK'
  <2> USE DEF Labels
  <2>0. job[s].pc # "idle" => job[s].domain \in Domains /\ job[s].config \in Config
    BY <1>0 DEF Armed
  <2>a. ASSUME NEW label \in Labels, GoTo(s, label), job[s].pc # "idle", StoresOK'
        PROVE  TypeOK'
    BY <2>a, <2>0, GoToEffect, TypeFrame DEF Armed
  <2>b. ASSUME Return(s), StoresOK' PROVE TypeOK'
    BY <2>b, ReturnEffect, TypeFrame DEF Armed
  <2>1. CASE SiteExists(s)  BY <2>1, <1>a, <2>b DEF SiteExists
  <2>2. CASE SiteIsNew(s)
    <3>1. StoresOK'  BY <2>2, <1>0, <2>0 DEF SiteIsNew, StoresOK, Files
    <3> QED  BY <2>2, <3>1, <2>a DEF SiteIsNew
  <2>3. CASE MakeDirectories(s)
    <3>1. StoresOK'  BY <2>3, <1>0, <2>0 DEF MakeDirectories, StoresOK, History
    <3> QED  BY <2>3, <3>1, <2>a DEF MakeDirectories
  <2>4. CASE TruncatePlan(s)
    <3>1. StoresOK'  BY <2>4, <1>0, <2>0 DEF TruncatePlan, StoresOK, History
    <3> QED  BY <2>4, <3>1, <2>a DEF TruncatePlan
  <2>5. CASE WritePlan(s)
    <3>1. StoresOK'  BY <2>5, <1>0, <2>0 DEF WritePlan, StoresOK, History
    <3> QED  BY <2>5, <3>1, <2>a DEF WritePlan
  <2>6. CASE InsertSite(s)
    <3>1. [php |-> job[s].config.php, redis |-> job[s].config.redis,
           status |-> "provisioned"] \in SiteRow
      BY <2>6, <2>0 DEF InsertSite, Config, SiteRow
    <3>2. StoresOK'  BY <2>6, <1>0, <2>0, <3>1 DEF InsertSite, StoresOK, Files, History
    <3> QED  BY <2>6, <3>2, <2>a DEF InsertSite
  <2>7. CASE DomainTaken(s)  BY <2>7, <1>a, <2>b DEF DomainTaken
  <2>8. CASE ReadBack(s)  BY <2>8, <1>a, <2>a DEF ReadBack
  <2>9. CASE InsertDatabase(s)
    <3>1. PlannedRow(job[s].domain) \in DatabaseRow
      BY <2>9, <2>0 DEF InsertDatabase, PlannedRow, DatabaseRow
    <3>2. databases' \in [Names -> DatabaseRow \cup {NoRow}]
      BY <2>9, <1>0, <3>1 DEF InsertDatabase, StoresOK
    <3>3. answers' \in [Domains -> Nat]
      BY <2>9, <1>0, <2>0 DEF InsertDatabase, StoresOK
    <3>4. StoresOK'  BY <2>9, <1>0, <3>2, <3>3 DEF InsertDatabase, StoresOK, Files
    <3> QED  BY <2>9, <3>4, <2>b DEF InsertDatabase
  <2>10. CASE NameTaken(s)  BY <2>10, <1>a, <2>b DEF NameTaken
  <2>11. CASE StepFails(s)  BY <2>11, <1>a, <2>b DEF StepFails
  <2> QED
    BY <1>2, <2>1, <2>2, <2>3, <2>4, <2>5, <2>6, <2>7, <2>8, <2>9, <2>10, <2>11 DEF Step
<1>3. ASSUME NEW p \in Processes, Crash(p) PROVE TypeOK'
  <2>1. StoresOK'  BY <1>3, <1>a DEF Crash
  <2>2. \A s \in Slots : Armed(s)'  BY <1>0, <1>3, CrashEffect DEF Armed
  <2> QED  BY <1>3, <2>1, <2>2, CrashEffect DEF TypeOK, StoresOK, Armed
<1>4. ASSUME NEW d \in Domains, DeleteSite(d) PROVE TypeOK'
  BY <1>4 DEF DeleteSite, TypeOK, Files, History, SiteRow
<1>5. ASSUME NEW d \in Domains, NEW v \in Versions, ChangeVersion(d, v) PROVE TypeOK'
  BY <1>5 DEF ChangeVersion, TypeOK, Files, History, SiteRow
<1>6. ASSUME NEW n \in Names, NEW d \in Domains \cup {NoSite}, OtherDatabase(n, d) PROVE TypeOK'
  BY <1>6 DEF OtherDatabase, TypeOK, Files, History, DatabaseRow
<1>7. CASE UNCHANGED vars
  BY <1>7 DEF vars, Files, History, TypeOK
<1> QED  BY <1>1, <1>2, <1>3, <1>4, <1>5, <1>6, <1>7 DEF Next

\* TypeOK holds of every reachable state, whatever the constants.
THEOREM TypeCorrect == Spec => []TypeOK
<1>1. Init => TypeOK
  BY DEF Init, TypeOK, Job, Labels, AtRest, NoDomain
<1> QED  BY <1>1, TypeStep, PTL DEF Spec

-----------------------------------------------------------------------------
\* The steps that write the table sites, and what they leave as it was.
Recorded(d) ==
  sites[d] # NoRow =>
    /\ sites'[d] # NoRow
    /\ sites[d].status = "deleted" => sites'[d].status = "deleted"
    /\ sites'[d].redis = sites[d].redis
    /\ sites'[d].status # sites[d].status => sites'[d].php = sites[d].php

LEMMA RecordedStep == ASSUME TypeOK, [Next]_vars, NEW d \in Domains PROVE Recorded(d)
<1>1. CASE sites' = sites  BY <1>1 DEF Recorded
<1>2. ASSUME NEW s \in Slots, InsertSite(s) PROVE Recorded(d)
  BY <1>2 DEF InsertSite, Recorded, TypeOK
<1>3. ASSUME NEW e \in Domains, DeleteSite(e) PROVE Recorded(d)
  <2>1. sites[e] \in SiteRow  BY <1>3 DEF DeleteSite, TypeOK
  <2>2. sites'[e] \in SiteRow /\ sites'[e].status = "deleted"
        /\ sites'[e].redis = sites[e].redis /\ sites'[e].php = sites[e].php
    BY <1>3, <2>1 DEF DeleteSite, TypeOK, SiteRow
  <2>3. d # e => sites'[d] = sites[d]  BY <1>3 DEF DeleteSite, TypeOK
  <2> QED  BY <2>2, <2>3, ConstantsOK DEF Recorded
<1>4. ASSUME NEW e \in Domains, NEW v \in Versions, ChangeVersion(e, v) PROVE Recorded(d)
  <2>1. sites[e] \in SiteRow  BY <1>4 DEF ChangeVersion, TypeOK
  <2>2. sites'[e] \in SiteRow /\ sites'[e].status = sites[e].status
        /\ sites'[e].redis = sites[e].redis
    BY <1>4, <2>1 DEF ChangeVersion, TypeOK, SiteRow
  <2>3. d # e => sites'[d] = sites[d]  BY <1>4 DEF ChangeVersion, TypeOK
  <2> QED  BY <2>2, <2>3, ConstantsOK DEF Recorded
<1> QED
  BY <1>1, <1>2, <1>3, <1>4 DEF Next, Step, Begin, SiteExists, SiteIsNew, MakeDirectories,
     TruncatePlan, WritePlan, DomainTaken, ReadBack, InsertDatabase, NameTaken, StepFails,
     Crash, OtherDatabase, vars

\* A recorded site stays recorded and a deleted one deleted; DeleteSite and
\* ChangeVersion do not overwrite each other.
THEOREM SitesAreRecordedForGood == Spec => RecordedForGood
<1>1. TypeOK /\ [Next]_vars => [\A d \in Domains : Recorded(d)]_vars
  BY RecordedStep
<1>2. [\A d \in Domains : Recorded(d)]_vars =>
        [\A d \in Domains : sites[d] # NoRow =>
           /\ sites'[d] # NoRow
           /\ sites[d].status = "deleted" => sites'[d].status = "deleted"
           /\ sites'[d].redis = sites[d].redis
           /\ sites'[d].status # sites[d].status => sites'[d].php = sites[d].php]_vars
  BY DEF Recorded
<1> QED  BY <1>1, <1>2, TypeCorrect, PTL DEF Spec, RecordedForGood

-----------------------------------------------------------------------------
\* What a call has prepared by the time it stands at each label.
Prepared(s) ==
  /\ job[s].pc \in {"truncate", "write", "insert"} => job[s].domain \in dirs
  /\ job[s].pc \in {"write", "insert"} => plans[job[s].domain] # NoPlan

ScaffoldInv == RowHasScaffold /\ \A s \in Slots : Prepared(s)

\* Directories and plan files are only ever added or rewritten.
LEMMA FilesStay ==
  ASSUME TypeOK, [Next]_vars
  PROVE  dirs \subseteq dirs' /\ \A d \in Domains : plans[d] # NoPlan => plans'[d] # NoPlan
<1>1. CASE UNCHANGED Files  BY <1>1 DEF Files
<1>2. ASSUME NEW s \in Slots, MakeDirectories(s)
      PROVE  dirs \subseteq dirs' /\ plans' = plans
  BY <1>2 DEF MakeDirectories
<1>3. ASSUME NEW s \in Slots, TruncatePlan(s) \/ WritePlan(s)
      PROVE  dirs \subseteq dirs' /\ \A d \in Domains : plans[d] # NoPlan => plans'[d] # NoPlan
  BY <1>3, ConstantsOK DEF TruncatePlan, WritePlan, TypeOK
<1> QED
  BY <1>1, <1>2, <1>3 DEF Next, Step, Begin, SiteExists, SiteIsNew, InsertSite, DomainTaken,
     ReadBack, InsertDatabase, NameTaken, StepFails, Crash, DeleteSite, ChangeVersion,
     OtherDatabase, vars, Files

\* ScaffoldInv is inductive, given the types: CreateSite prepares, then records.
LEMMA ScaffoldStep == TypeOK /\ ScaffoldInv /\ [Next]_vars => ScaffoldInv'
<1> SUFFICES ASSUME TypeOK, ScaffoldInv, [Next]_vars PROVE ScaffoldInv'
  OBVIOUS
<1>1. RowHasScaffold'
  <2>1. ASSUME NEW s \in Slots, InsertSite(s) PROVE RowHasScaffold'
    <3>1. \A d \in Domains : sites'[d] # NoRow => sites[d] # NoRow \/ d = job[s].domain
      BY <2>1 DEF InsertSite, TypeOK
    <3>2. job[s].domain \in dirs /\ plans[job[s].domain] # NoPlan
      BY <2>1 DEF InsertSite, ScaffoldInv, Prepared
    <3>3. dirs' = dirs /\ plans' = plans  BY <2>1 DEF InsertSite, Files
    <3> QED  BY <3>1, <3>2, <3>3 DEF ScaffoldInv, RowHasScaffold
  <2>2. ASSUME \A d \in Domains : sites'[d] # NoRow => sites[d] # NoRow PROVE RowHasScaffold'
    BY <2>2, FilesStay DEF ScaffoldInv, RowHasScaffold
  <2>3. CASE sites' = sites  BY <2>3, <2>2
  <2>4. ASSUME NEW d \in Domains, DeleteSite(d) PROVE RowHasScaffold'
    BY <2>4, <2>2 DEF DeleteSite, TypeOK
  <2>5. ASSUME NEW d \in Domains, NEW v \in Versions, ChangeVersion(d, v) PROVE RowHasScaffold'
    BY <2>5, <2>2 DEF ChangeVersion, TypeOK
  <2> QED
    BY <2>1, <2>3, <2>4, <2>5 DEF Next, Step, Begin, SiteExists, SiteIsNew, MakeDirectories,
       TruncatePlan, WritePlan, DomainTaken, ReadBack, InsertDatabase, NameTaken, StepFails,
       Crash, OtherDatabase, vars
<1>2. ASSUME NEW u \in Slots PROVE Prepared(u)'
  <2>0. Prepared(u) /\ Armed(u)  BY TypeParts DEF ScaffoldInv
  <2>1. CASE job'[u] = job[u]  BY <2>0, <2>1, FilesStay DEF Prepared, Armed
  <2>2. CASE job'[u].pc \in {"idle", "exists", "mkdirs", "readback", "database"}
    BY <2>2 DEF Prepared
  <2>3. CASE MakeDirectories(u)
    BY <2>0, <2>3, GoToEffect DEF MakeDirectories, Prepared, Labels
  <2>4. CASE TruncatePlan(u)
    BY <2>0, <2>4, GoToEffect, ConstantsOK DEF TruncatePlan, Prepared, Labels, Armed, TypeOK
  <2>5. CASE WritePlan(u)
    BY <2>0, <2>5, GoToEffect, ConstantsOK
       DEF WritePlan, Prepared, Labels, Armed, TypeOK, History
  <2>6. ASSUME NEW s \in Slots, NEW d \in Domains, NEW config \in Requests, Begin(s, d, config)
        PROVE  job'[u] = job[u] \/ job'[u].pc = "exists"
    BY <2>6, BeginEffect
  <2>7. ASSUME NEW s \in Slots, Step(s)
        PROVE  \/ job'[u] = job[u]
               \/ job'[u].pc \in {"idle", "exists", "mkdirs", "readback", "database"}
               \/ MakeDirectories(u) \/ TruncatePlan(u) \/ WritePlan(u)
    BY <2>7, GoToEffect, ReturnEffect DEF Labels, Step, SiteExists, SiteIsNew, MakeDirectories,
       TruncatePlan, WritePlan, InsertSite, DomainTaken, ReadBack, InsertDatabase, NameTaken,
       StepFails
  <2>8. ASSUME NEW p \in Processes, Crash(p) PROVE job'[u] = job[u] \/ job'[u].pc = "idle"
    BY <2>8, CrashEffect
  <2> QED
    BY <2>1, <2>2, <2>3, <2>4, <2>5, <2>6, <2>7, <2>8
       DEF Next, DeleteSite, ChangeVersion, OtherDatabase, vars
<1> QED  BY <1>1, <1>2 DEF ScaffoldInv

\* A recorded site has its directories and a plan file.
THEOREM RecordedSiteHasScaffold == Spec => []RowHasScaffold
<1>1. Init => ScaffoldInv
  BY DEF Init, ScaffoldInv, RowHasScaffold, Prepared, AtRest
<1>2. ScaffoldInv => RowHasScaffold  BY DEF ScaffoldInv
<1> QED  BY <1>1, <1>2, ScaffoldStep, TypeCorrect, PTL DEF Spec

-----------------------------------------------------------------------------
\* A call completes a site only if it inserted it just now or before.
LEMMA CompletingStep ==
  ASSUME TypeOK, [Next]_vars, NEW u \in Slots, NEW d \in Domains, Completing(u, d)'
  PROVE  Completing(u, d) \/ (InsertSite(u) /\ job[u].domain = d)
<1>1. CASE job'[u] = job[u]  BY <1>1 DEF Completing
<1>2. ASSUME NEW s \in Slots, NEW e \in Domains, NEW config \in Requests, Begin(s, e, config)
      PROVE  job'[u] = job[u]
  BY <1>2, BeginEffect DEF Completing, CompletingLabels
<1>3. ASSUME NEW s \in Slots, Step(s)
      PROVE  job'[u] = job[u] \/ Completing(u, d) \/ (InsertSite(u) /\ job[u].domain = d)
  <2>1. CASE s # u
    BY <1>3, <2>1, GoToEffect, ReturnEffect DEF Labels, Step, SiteExists, SiteIsNew,
       MakeDirectories, TruncatePlan, WritePlan, InsertSite, DomainTaken, ReadBack,
       InsertDatabase, NameTaken, StepFails
  <2>2. CASE InsertSite(u)
    BY <2>2, GoToEffect DEF InsertSite, Labels, Completing
  <2>3. CASE ReadBack(u)
    BY <2>3, GoToEffect DEF ReadBack, Labels, Completing, CompletingLabels
  <2>4. CASE s = u /\ ~InsertSite(u) /\ ~ReadBack(u)
    <3>1. job'[u].pc \in {"idle", "mkdirs", "truncate", "write", "insert"}
      BY <1>3, <2>4, GoToEffect, ReturnEffect DEF Labels, Step, SiteExists, SiteIsNew,
         MakeDirectories, TruncatePlan, WritePlan, DomainTaken, InsertDatabase, NameTaken,
         StepFails
    <3> QED  BY <3>1 DEF Completing, CompletingLabels
  <2> QED  BY <2>1, <2>2, <2>3, <2>4
<1>4. ASSUME NEW p \in Processes, Crash(p) PROVE job'[u] = job[u]
  BY <1>4, CrashEffect DEF Completing, CompletingLabels
<1> QED
  BY <1>1, <1>2, <1>3, <1>4 DEF Next, DeleteSite, ChangeVersion, OtherDatabase, vars

\* A row of the table databases is never changed; a new one is the planned row of
\* a site that a call completes, or a SQLite row.
LEMMA DatabasesStep ==
  ASSUME TypeOK, [Next]_vars, NEW n \in Names
  PROVE  \/ databases'[n] = databases[n]
         \/ databases[n] = NoRow /\ databases'[n].engine = "sqlite"
         \/ /\ databases[n] = NoRow
            /\ \E s \in Slots : /\ InsertDatabase(s) /\ n = DbName[job[s].domain]
                               /\ databases'[n] = PlannedRow(job[s].domain)
<1>1. CASE databases' = databases  BY <1>1
<1>2. ASSUME NEW s \in Slots, InsertDatabase(s)
      PROVE  \/ databases'[n] = databases[n]
             \/ /\ databases[n] = NoRow /\ n = DbName[job[s].domain]
                /\ databases'[n] = PlannedRow(job[s].domain)
  BY <1>2 DEF InsertDatabase, TypeOK
<1>3. ASSUME NEW m \in Names, NEW d \in Domains \cup {NoSite}, OtherDatabase(m, d)
      PROVE  \/ databases'[n] = databases[n]
             \/ databases[n] = NoRow /\ databases'[n].engine = "sqlite"
  BY <1>3 DEF OtherDatabase, TypeOK
<1> QED
  BY <1>1, <1>2, <1>3 DEF Next, Step, Begin, SiteExists, SiteIsNew, MakeDirectories,
     TruncatePlan, WritePlan, InsertSite, DomainTaken, ReadBack, NameTaken, StepFails, Crash,
     DeleteSite, ChangeVersion, vars

LEMMA HasDatabaseStep ==
  ASSUME TypeOK, [Next]_vars, NEW d \in Domains
  PROVE  /\ HasDatabase(d) => HasDatabase(d)'
         /\ HasDatabase(d)' =>
              HasDatabase(d) \/ \E s \in Slots : InsertDatabase(s) /\ job[s].domain = d
<1>1. DbName[d] \in Names  BY ConstantsOK
<1>2. PlannedRow(d) # NoRow /\ PlannedRow(d).engine # "sqlite"
  BY ConstantsOK DEF PlannedRow, DatabaseRow
<1>3. \A e : PlannedRow(e) = PlannedRow(d) => e = d
  BY DEF PlannedRow
<1> QED  BY <1>1, <1>2, <1>3, DatabasesStep DEF HasDatabase

\* No operation repairs a site whose call ended without recording its database.
THEOREM StrandedSitesStayStranded == Spec => StrandedForGood
<1>1. ASSUME TypeOK, [Next]_vars, NEW d \in Domains, Stranded(d) PROVE Stranded(d)'
  <2>1. sites'[d] # NoRow  BY <1>1, RecordedStep DEF Stranded, Recorded
  <2>2. ~(HasDatabase(d)')
    BY <1>1, HasDatabaseStep DEF Stranded, InsertDatabase, Completing, CompletingLabels
  <2>3. \A s \in Slots : ~(Completing(s, d)')
    BY <1>1, CompletingStep DEF Stranded, InsertSite
  <2> QED  BY <2>1, <2>2, <2>3 DEF Stranded
<1>2. TypeOK /\ [Next]_vars => [\A d \in Domains : Stranded(d) => Stranded(d)']_vars
  BY <1>1
<1> QED  BY <1>2, TypeCorrect, PTL DEF Spec, StrandedForGood

-----------------------------------------------------------------------------
\* Who has the domain: these three invariants are inductive only together.
OwnInv ==
  /\ OneCompletes
  /\ PlannedDatabasesBelong
  /\ \A d \in Domains : answers[d] > 0 => sites[d] # NoRow /\ HasDatabase(d)

LEMMA AnswersStep ==
  ASSUME TypeOK, [Next]_vars, NEW d \in Domains
  PROVE  \/ answers'[d] = answers[d]
         \/ /\ answers'[d] = answers[d] + 1
            /\ \E s \in Slots : InsertDatabase(s) /\ job[s].domain = d
<1>1. CASE answers' = answers  BY <1>1
<1>2. ASSUME NEW s \in Slots, InsertDatabase(s)
      PROVE  \/ answers'[d] = answers[d]
             \/ answers'[d] = answers[d] + 1 /\ job[s].domain = d
  BY <1>2 DEF InsertDatabase, TypeOK
<1> QED
  BY <1>1, <1>2 DEF Next, Step, Begin, SiteExists, SiteIsNew, MakeDirectories,
     TruncatePlan, WritePlan, InsertSite, DomainTaken, ReadBack, NameTaken, StepFails, Crash,
     DeleteSite, ChangeVersion, OtherDatabase, History, vars

\* What the step of the call that records a database does for its domain.
LEMMA InsertDatabaseEffect ==
  ASSUME TypeOK, OwnInv, [Next]_vars, NEW s \in Slots, InsertDatabase(s)
  PROVE  /\ job[s].domain \in Domains
         /\ Completing(s, job[s].domain) /\ \A e \in Domains : ~(Completing(s, e)')
         /\ answers[job[s].domain] = 0
         /\ databases'[DbName[job[s].domain]] = PlannedRow(job[s].domain)
<1>1. job[s].domain \in Domains /\ Completing(s, job[s].domain)
  BY DEF InsertDatabase, TypeOK, Completing, CompletingLabels
<1>2. \A e \in Domains : ~(Completing(s, e)')
  BY ReturnEffect DEF InsertDatabase, Completing, CompletingLabels
<1>3. answers[job[s].domain] = 0
  BY <1>1 DEF OwnInv, OneCompletes, TypeOK
<1>4. databases'[DbName[job[s].domain]] = PlannedRow(job[s].domain)
  BY <1>1, ConstantsOK DEF InsertDatabase, TypeOK
<1> QED  BY <1>1, <1>2, <1>3, <1>4

\* OwnInv is inductive, given the types.
LEMMA OwnStep == TypeOK /\ OwnInv /\ [Next]_vars => OwnInv'
<1> SUFFICES ASSUME TypeOK, OwnInv, [Next]_vars PROVE OwnInv'
  OBVIOUS
<1>0. \A d \in Domains : sites[d] # NoRow => sites'[d] # NoRow
  BY RecordedStep DEF Recorded
<1>1. ASSUME NEW d \in Domains, answers'[d] > 0 PROVE sites'[d] # NoRow /\ HasDatabase(d)'
  <2>1. CASE answers'[d] = answers[d]
    BY <1>0, <1>1, <2>1, HasDatabaseStep DEF OwnInv
  <2>2. ASSUME NEW s \in Slots, InsertDatabase(s), job[s].domain = d
        PROVE  sites'[d] # NoRow /\ HasDatabase(d)'
    BY <1>0, <2>2, InsertDatabaseEffect DEF OwnInv, OneCompletes, HasDatabase, PlannedRow
  <2> QED  BY <2>1, <2>2, AnswersStep
<1>2. ASSUME NEW d \in Domains PROVE answers'[d] <= 1
  <2>1. CASE answers'[d] = answers[d]  BY <2>1 DEF OwnInv, OneCompletes
  <2>2. ASSUME NEW s \in Slots, InsertDatabase(s), job[s].domain = d PROVE answers[d] = 0
    BY <2>2, InsertDatabaseEffect
  <2> QED  BY <2>1, <2>2, AnswersStep
<1>3. ASSUME NEW d \in Domains, NEW s \in Slots, Completing(s, d)'
      PROVE  /\ sites'[d] # NoRow /\ ~(HasDatabase(d)')
             /\ \A u \in Slots \ {s} : ~(Completing(u, d)')
  <2>1. CASE Completing(s, d)
    <3>1. sites[d] # NoRow /\ ~HasDatabase(d) /\ \A u \in Slots \ {s} : ~Completing(u, d)
      BY <2>1 DEF OwnInv, OneCompletes
    <3>2. \A u \in Slots : InsertDatabase(u) /\ job[u].domain = d => u = s
      BY <3>1, InsertDatabaseEffect
    <3>3. ~InsertDatabase(s)
      BY <1>3, InsertDatabaseEffect
    <3>4. sites'[d] # NoRow
      BY <1>0, <3>1
    <3>5. ~(HasDatabase(d)')
      BY <3>1, <3>2, <3>3, HasDatabaseStep
    <3>6. \A u \in Slots : InsertSite(u) => job[u].domain # d
      BY <3>1 DEF InsertSite
    <3>7. \A u \in Slots \ {s} : ~(Completing(u, d)')
      BY <3>1, <3>6, CompletingStep
    <3> QED  BY <3>4, <3>5, <3>7
  <2>2. CASE InsertSite(s) /\ job[s].domain = d
    <3>1. sites[d] = NoRow /\ databases' = databases
      BY <2>2 DEF InsertSite
    <3>2. ~HasDatabase(d)
      <4>1. PlannedRow(d) # NoRow /\ PlannedRow(d).engine = "mariadb"
            /\ \A e : PlannedRow(e) = PlannedRow(d) => e = d
        BY ConstantsOK DEF PlannedRow, DatabaseRow
      <4>2. DbName[d] \in Names  BY ConstantsOK
      <4> QED  BY <3>1, <4>1, <4>2 DEF OwnInv, PlannedDatabasesBelong, HasDatabase
    <3>3. \A u \in Slots : ~Completing(u, d)
      BY <3>1 DEF OwnInv, OneCompletes
    <3>4. \A u \in Slots \ {s} : job'[u] = job[u]
      BY <2>2, GoToEffect DEF InsertSite, Labels
    <3>5. sites'[d] # NoRow
      BY <2>2, ConstantsOK, TypeStep DEF InsertSite, TypeOK, Config, SiteRow
    <3> QED  BY <3>1, <3>2, <3>3, <3>4, <3>5 DEF Completing, HasDatabase, PlannedRow
  <2> QED  BY <1>3, <2>1, <2>2, CompletingStep
<1>4. ASSUME NEW n \in Names, databases'[n] # NoRow, databases'[n].engine = "mariadb"
      PROVE  \E d \in Domains : n = DbName[d] /\ databases'[n] = PlannedRow(d) /\ sites'[d] # NoRow
  <2>1. CASE databases'[n] = databases[n]
    BY <1>0, <1>4, <2>1 DEF OwnInv, PlannedDatabasesBelong
  <2>2. ASSUME NEW s \in Slots, InsertDatabase(s), n = DbName[job[s].domain],
               databases'[n] = PlannedRow(job[s].domain)
        PROVE  \E d \in Domains : n = DbName[d] /\ databases'[n] = PlannedRow(d) /\ sites'[d] # NoRow
    BY <1>0, <2>2, InsertDatabaseEffect DEF OwnInv, OneCompletes
  <2> QED  BY <1>4, <2>1, <2>2, DatabasesStep
<1>5. OneCompletes'  BY <1>2, <1>3 DEF OneCompletes
<1>6. PlannedDatabasesBelong'  BY <1>4 DEF PlannedDatabasesBelong, PlannedRow
<1> QED  BY <1>1, <1>5, <1>6 DEF OwnInv

LEMMA OwnInvariant == Spec => []OwnInv
<1>1. Init => OwnInv
  BY DEF Init, OwnInv, OneCompletes, PlannedDatabasesBelong, Completing, CompletingLabels, AtRest
<1> QED  BY <1>1, OwnStep, TypeCorrect, PTL DEF Spec

\* At most one call per domain gets past the INSERT of the site.
THEOREM OneCallCompletes == Spec => []OneCompletes
<1>1. OwnInv => OneCompletes  BY DEF OwnInv
<1> QED  BY <1>1, OwnInvariant, PTL

\* A success answer means a site with its row, its directories and its database.
THEOREM AnswersAreTrue == Spec => []AnsweredSiteIsWhole
<1>1. OwnInv /\ RowHasScaffold => AnsweredSiteIsWhole
  BY DEF OwnInv, RowHasScaffold, AnsweredSiteIsWhole
<1> QED  BY <1>1, OwnInvariant, RecordedSiteHasScaffold, PTL

\* A planned database belongs to a recorded site and has the name of that site.
THEOREM PlannedDatabasesBelongToSites == Spec => []PlannedDatabasesBelong
<1>1. OwnInv => PlannedDatabasesBelong  BY DEF OwnInv
<1> QED  BY <1>1, OwnInvariant, PTL

-----------------------------------------------------------------------------
(***************************************************************************)
(* The plan file.  An unrivalled call is alone with its domain from the    *)
(* existence check to its INSERT: no row yet, no other call that claims    *)
(* the domain, and at the INSERT the file holds its own configuration.     *)
(***************************************************************************)
Unrivalled(s, d) ==
  /\ sites[d] = NoRow
  /\ job[s].pc = "insert" => plans[d] = job[s].config
  /\ \A u \in Slots \ {s} : ~Claiming(u, d)

PlanInv ==
  /\ PlanMatchesRow
  /\ \A d \in Domains \ rivalled, s \in Slots : Claiming(s, d) => Unrivalled(s, d)

LEMMA ClaimingStep ==
  ASSUME TypeOK, [Next]_vars, NEW u \in Slots, NEW d \in Domains, Claiming(u, d)'
  PROVE  \/ job'[u] = job[u]
         \/ SiteIsNew(u) /\ job[u].domain = d
         \/ (MakeDirectories(u) \/ TruncatePlan(u) \/ WritePlan(u)) /\ Claiming(u, d)
<1>1. ASSUME NEW s \in Slots, NEW e \in Domains, NEW config \in Requests, Begin(s, e, config)
      PROVE  job'[u] = job[u]
  BY <1>1, BeginEffect DEF Claiming, ClaimingLabels
<1>2. ASSUME NEW s \in Slots, Step(s)
      PROVE  \/ job'[u] = job[u]
             \/ SiteIsNew(u) /\ job[u].domain = d
             \/ (MakeDirectories(u) \/ TruncatePlan(u) \/ WritePlan(u)) /\ Claiming(u, d)
  <2>1. CASE s # u
    BY <1>2, <2>1, GoToEffect, ReturnEffect DEF Labels, Step, SiteExists, SiteIsNew,
       MakeDirectories, TruncatePlan, WritePlan, InsertSite, DomainTaken, ReadBack,
       InsertDatabase, NameTaken, StepFails
  <2>2. CASE SiteIsNew(u)
    BY <2>2, GoToEffect DEF SiteIsNew, Labels, Claiming
  <2>3. CASE MakeDirectories(u) \/ TruncatePlan(u) \/ WritePlan(u)
    BY <2>3, GoToEffect
       DEF MakeDirectories, TruncatePlan, WritePlan, Labels, Claiming, ClaimingLabels
  <2>4. CASE s = u /\ (SiteExists(u) \/ InsertSite(u) \/ DomainTaken(u) \/ ReadBack(u)
                        \/ InsertDatabase(u) \/ NameTaken(u) \/ StepFails(u))
    <3>1. job'[u].pc \in {"idle", "readback", "database"}
      BY <2>4, GoToEffect, ReturnEffect DEF Labels, SiteExists, InsertSite, DomainTaken,
         ReadBack, InsertDatabase, NameTaken, StepFails
    <3> QED  BY <3>1 DEF Claiming, ClaimingLabels
  <2> QED  BY <1>2, <2>1, <2>2, <2>3, <2>4 DEF Step
<1>3. ASSUME NEW p \in Processes, Crash(p) PROVE job'[u] = job[u]
  BY <1>3, CrashEffect DEF Claiming, ClaimingLabels
<1> QED
  BY <1>1, <1>2, <1>3 DEF Next, DeleteSite, ChangeVersion, OtherDatabase, vars

\* A plan changes only in a step of a call that claims its domain.
LEMMA PlansStep ==
  ASSUME TypeOK, [Next]_vars, NEW d \in Domains
  PROVE  \/ plans'[d] = plans[d]
         \/ \E s \in Slots : Claiming(s, d) /\ Claiming(s, d)'
                           /\ (TruncatePlan(s) \/ WritePlan(s))
<1>1. CASE plans' = plans  BY <1>1
<1>2. ASSUME NEW s \in Slots, TruncatePlan(s) \/ WritePlan(s), plans'[d] # plans[d]
      PROVE  Claiming(s, d) /\ Claiming(s, d)'
  BY <1>2, GoToEffect
     DEF TruncatePlan, WritePlan, Labels, Claiming, ClaimingLabels, TypeOK
<1> QED
  BY <1>1, <1>2 DEF Next, Step, Begin, SiteExists, SiteIsNew, MakeDirectories, InsertSite,
     DomainTaken, ReadBack, InsertDatabase, NameTaken, StepFails, Crash, DeleteSite,
     ChangeVersion, OtherDatabase, Files, vars

LEMMA RivalledGrows == ASSUME [Next]_vars PROVE rivalled \subseteq rivalled'
BY DEF Next, Step, Begin, SiteExists, SiteIsNew, MakeDirectories, TruncatePlan, WritePlan,
   InsertSite, DomainTaken, ReadBack, InsertDatabase, NameTaken, StepFails, Crash, DeleteSite,
   ChangeVersion, OtherDatabase, History, vars

\* A domain gets its row only by the INSERT of a call that claims it.
LEMMA NewSiteStep ==
  ASSUME TypeOK, [Next]_vars, NEW d \in Domains, sites[d] = NoRow, sites'[d] # NoRow
  PROVE  \E s \in Slots : InsertSite(s) /\ job[s].domain = d
<1>1. ASSUME NEW s \in Slots, InsertSite(s) PROVE job[s].domain = d
  BY <1>1 DEF InsertSite, TypeOK
<1>2. ASSUME NEW e \in Domains, DeleteSite(e) PROVE FALSE
  BY <1>2 DEF DeleteSite, TypeOK
<1>3. ASSUME NEW e \in Domains, NEW v \in Versions, ChangeVersion(e, v) PROVE FALSE
  BY <1>3 DEF ChangeVersion, TypeOK
<1> QED
  BY <1>1, <1>2, <1>3 DEF Next, Step, Begin, SiteExists, SiteIsNew, MakeDirectories,
     TruncatePlan, WritePlan, DomainTaken, ReadBack, InsertDatabase, NameTaken, StepFails,
     Crash, OtherDatabase, vars

\* The PHP version of a row changes only where ChangeVersion has been.
LEMMA VersionStep ==
  ASSUME TypeOK, [Next]_vars, NEW d \in Domains, sites[d] # NoRow
  PROVE  /\ changed \subseteq changed'
         /\ d \notin changed' => sites'[d].php = sites[d].php
<1>1. ASSUME NEW e \in Domains, NEW v \in Versions, ChangeVersion(e, v)
      PROVE  /\ changed \subseteq changed'
             /\ d \notin changed' => sites'[d].php = sites[d].php
  BY <1>1 DEF ChangeVersion, TypeOK
<1>2. ASSUME NEW e \in Domains, DeleteSite(e)
      PROVE  changed' = changed /\ sites'[d].php = sites[d].php
  <2>1. sites[d] \in SiteRow /\ e \in Domains  BY DEF TypeOK
  <2> QED  BY <1>2, <2>1 DEF DeleteSite, TypeOK, SiteRow, History
<1>3. ASSUME NEW s \in Slots, InsertSite(s)
      PROVE  changed' = changed /\ sites'[d] = sites[d]
  BY <1>3 DEF InsertSite, TypeOK, History
<1> QED
  BY <1>1, <1>2, <1>3 DEF Next, Step, Begin, SiteExists, SiteIsNew, MakeDirectories,
     TruncatePlan, WritePlan, DomainTaken, ReadBack, InsertDatabase, NameTaken, StepFails,
     Crash, OtherDatabase, History, vars

\* PlanInv is inductive, given the types.
LEMMA PlanStep == TypeOK /\ PlanInv /\ [Next]_vars => PlanInv'
<1> SUFFICES ASSUME TypeOK, PlanInv, [Next]_vars PROVE PlanInv'
  OBVIOUS
<1>1. ASSUME NEW d \in Domains, d \notin rivalled', sites'[d] # NoRow
      PROVE  /\ plans'[d] \in Config
             /\ plans'[d].redis = sites'[d].redis
             /\ d \notin changed' => plans'[d].php = sites'[d].php
  <2>0. d \notin rivalled  BY <1>1, RivalledGrows
  <2>1. CASE sites[d] # NoRow
    <3>1. sites'[d].redis = sites[d].redis  BY <2>1, RecordedStep DEF Recorded
    <3>2. plans'[d] = plans[d]
      BY <2>0, <2>1, PlansStep DEF PlanInv, Unrivalled
    <3>3. d \notin changed' => d \notin changed /\ sites'[d].php = sites[d].php
      BY <2>1, VersionStep
    <3> QED  BY <2>0, <2>1, <3>1, <3>2, <3>3 DEF PlanInv, PlanMatchesRow
  <2>2. CASE sites[d] = NoRow
    <3>1. PICK s \in Slots : InsertSite(s) /\ job[s].domain = d
      BY <1>1, <2>2, NewSiteStep
    <3>2. Claiming(s, d) /\ job[s].pc = "insert" /\ job[s].config \in Config
      BY <3>1 DEF InsertSite, Claiming, ClaimingLabels, TypeOK
    <3>3. plans[d] = job[s].config  BY <2>0, <3>2 DEF PlanInv, Unrivalled
    <3>4. /\ plans' = plans
          /\ sites'[d].redis = job[s].config.redis /\ sites'[d].php = job[s].config.php
      BY <3>1 DEF InsertSite, Files, TypeOK
    <3> QED  BY <3>2, <3>3, <3>4
  <2> QED  BY <2>1, <2>2
<1>2. ASSUME NEW d \in Domains, d \notin rivalled', NEW s \in Slots, Claiming(s, d)'
      PROVE  Unrivalled(s, d)'
  <2>0. d \notin rivalled  BY <1>2, RivalledGrows
  <2>1. CASE SiteIsNew(s) /\ job[s].domain = d
    <3>1. \A u \in Slots : ~Claiming(u, d)
      BY <1>2, <2>1 DEF SiteIsNew
    <3>2. \A u \in Slots \ {s} : job'[u] = job[u]
      BY <2>1, GoToEffect DEF SiteIsNew, Labels
    <3>3. sites'[d] = NoRow /\ job'[s].pc = "mkdirs"
      BY <2>1, GoToEffect DEF SiteIsNew, Labels
    <3> QED  BY <3>1, <3>2, <3>3 DEF Unrivalled, Claiming
  <2>2. CASE ~(SiteIsNew(s) /\ job[s].domain = d)
    <3>1. Claiming(s, d)  BY <1>2, <2>2, ClaimingStep DEF Claiming
    <3>2. Unrivalled(s, d)  BY <2>0, <3>1 DEF PlanInv
    <3>3. sites'[d] = NoRow
      <4>1. ASSUME NEW u \in Slots, InsertSite(u), job[u].domain = d PROVE FALSE
        <5>1. Claiming(u, d)  BY <4>1 DEF InsertSite, Claiming, ClaimingLabels
        <5>2. u = s  BY <3>2, <5>1 DEF Unrivalled
        <5>3. job'[s].pc = "readback"  BY <4>1, <5>2, GoToEffect DEF InsertSite, Labels
        <5> QED  BY <1>2, <5>3 DEF Claiming, ClaimingLabels
      <4> QED  BY <3>2, <4>1, NewSiteStep DEF Unrivalled
    <3>4. \A u \in Slots \ {s} : ~(Claiming(u, d)')
      <4> SUFFICES ASSUME NEW u \in Slots \ {s}, Claiming(u, d)' PROVE FALSE
        OBVIOUS
      <4>1. SiteIsNew(u) /\ job[u].domain = d
        BY <3>2, ClaimingStep DEF Unrivalled, Claiming
      <4> QED  BY <1>2, <3>1, <4>1 DEF SiteIsNew
    <3>5. job'[s].pc = "insert" => plans'[d] = job'[s].config
      <4> SUFFICES ASSUME job'[s].pc = "insert" PROVE plans'[d] = job'[s].config
        OBVIOUS
      <4>1. CASE WritePlan(s)
        BY <3>1, <4>1, GoToEffect DEF WritePlan, Labels, Claiming, TypeOK
      <4>2. CASE job'[s] = job[s]
        <5>1. ASSUME NEW u \in Slots, Claiming(u, d), TruncatePlan(u) \/ WritePlan(u) PROVE FALSE
          <6>1. u = s  BY <3>2, <5>1 DEF Unrivalled
          <6> QED  BY <4>2, <5>1, <6>1 DEF TruncatePlan, WritePlan
        <5> QED  BY <3>2, <4>2, <5>1, PlansStep DEF Unrivalled
      <4>3. CASE MakeDirectories(s) \/ TruncatePlan(s)
        BY <4>3, GoToEffect DEF MakeDirectories, TruncatePlan, Labels
      <4> QED  BY <1>2, <2>2, <4>1, <4>2, <4>3, ClaimingStep
    <3> QED  BY <3>3, <3>4, <3>5 DEF Unrivalled
  <2> QED  BY <2>1, <2>2
<1> QED  BY <1>1, <1>2 DEF PlanInv, PlanMatchesRow

\* The plan that host automation reads is whole and agrees with the row, unless two
\* calls claimed the domain at once; in the PHP version until ChangeVersion changes it.
THEOREM PlansMatchRows == Spec => []PlanMatchesRow
<1>1. Init => PlanInv
  BY DEF Init, PlanInv, PlanMatchesRow, Claiming, ClaimingLabels, AtRest
<1>2. PlanInv => PlanMatchesRow  BY DEF PlanInv
<1> QED  BY <1>1, <1>2, PlanStep, TypeCorrect, PTL DEF Spec
=============================================================================
