----------------------------- MODULE SiteService -----------------------------
(***************************************************************************)
(* CreateSite, DeleteSite (services/site_service.go) and ChangeVersion     *)
(* (services/php_service.go).  CreateSite checks, makes directories,       *)
(* writes a plan file, inserts the site and inserts its database, each in  *)
(* a step of its own and without a transaction.  The server and the        *)
(* command line tool are two processes on the same panel database and      *)
(* files, so their calls interleave and each may die alone.                *)
(*                                                                         *)
(* A site is its domain: the column is UNIQUE and rows are never deleted,  *)
(* so GetSiteByDomain, the id and the domain name the same row.  The name  *)
(* derived from a domain is the parameter DbName[d]; two domains may share *)
(* it, since '.' and '-' both become '_' and the result is cut to length.  *)
(***************************************************************************)
EXTENDS Naturals

CONSTANTS
  Slots,      \* the calls of CreateSite that may be under way at once
  Processes,  \* "server" and the command line tool
  Owner,      \* the process a call runs in
  Domains,    \* normalised domains that match domainPattern
  Names,      \* database names
  NoSite,     \* a NULL site_id
  NoRow,      \* the absence of a row
  NoPlan,     \* the absence of a plan file
  Torn,       \* a plan file truncated and not written
  DbName,     \* deriveDatabaseNames
  Versions,   \* the PHP versions a request may carry
  Supported,  \* supportedPHPVersions
  Requests,   \* the configurations that callers of CreateSite ask for
  Faults      \* the kinds of failure that may happen

FaultKinds == {"statement", "crash"}

Config == [php : Versions, redis : BOOLEAN]
SiteRow == [php : Versions, redis : BOOLEAN, status : {"provisioned", "deleted"}]
DatabaseRow == [site : Domains \cup {NoSite}, engine : {"sqlite", "mariadb"}]

ASSUME ConstantsOK ==
  /\ Owner \in [Slots -> Processes]
  /\ DbName \in [Domains -> Names]
  /\ Supported \subseteq Versions
  /\ Requests \subseteq Config
  /\ NoSite \notin Domains
  /\ NoRow \notin SiteRow \cup DatabaseRow
  /\ {NoPlan, Torn} \cap Config = {} /\ NoPlan # Torn
  /\ Faults \subseteq FaultKinds

VARIABLES
  sites,      \* the table sites: domain -> row
  databases,  \* the table databases: name -> row
  dirs,       \* the domains whose site, public_html and logs directories exist
  plans,      \* the plan file of each domain
  job,        \* what each call of CreateSite is about to do
  answers,    \* history: the successful answers CreateSite gave for each domain
  rivalled,   \* history: domains two calls passed the existence check for
  changed     \* history: domains whose row ChangeVersion gave another PHP version

vars == <<sites, databases, dirs, plans, job, answers, rivalled, changed>>
Files == <<dirs, plans>>
History == <<answers, rivalled, changed>>

-----------------------------------------------------------------------------
Labels == {"idle", "exists", "mkdirs", "truncate", "write", "insert", "readback", "database"}

\* From the existence check up to the INSERT that settles who has the domain.
ClaimingLabels == {"mkdirs", "truncate", "write", "insert"}

\* The call has inserted the site and not yet its database.
CompletingLabels == {"readback", "database"}

NoDomain == NoSite
AtRest == [pc |-> "idle", domain |-> NoDomain, config |-> NoPlan]

Claiming(s, d) == job[s].pc \in ClaimingLabels /\ job[s].domain = d
Completing(s, d) == job[s].pc \in CompletingLabels /\ job[s].domain = d

\* The row CreateSite plans for domain d, and whether it is there.
PlannedRow(d) == [site |-> d, engine |-> "mariadb"]
HasDatabase(d) == databases[DbName[d]] = PlannedRow(d)

GoTo(s, label) == job' = [job EXCEPT ![s].pc = label]
Return(s) == job' = [job EXCEPT ![s] = AtRest]

-----------------------------------------------------------------------------
(* Faulty variants of single actions, each the code with one plausible bug; *)
(* with one in place of the action it varies, the property named fails.     *)

\* TypeOK: a request without PHP version is passed on without the default.
BeginWithoutDefaults(s, d, config) ==
  /\ job[s].pc = "idle"
  /\ job' = [job EXCEPT ![s] = [pc |-> "exists", domain |-> d, config |-> NoPlan]]
  /\ UNCHANGED <<sites, databases, Files, History>>

\* RowHasScaffold: the plan is written only after the site is recorded.
MakeDirectoriesThenInsert(s) ==
  /\ job[s].pc = "mkdirs"
  /\ dirs' = dirs \cup {job[s].domain}
  /\ GoTo(s, "insert")
  /\ UNCHANGED <<sites, databases, plans, History>>

\* PlanMatchesRow: the plan is written before the site is known to be new.
BeginWithPlan(s, d, config) ==
  /\ job[s].pc = "idle"
  /\ job' = [job EXCEPT ![s] = [pc |-> "exists", domain |-> d, config |-> config]]
  /\ plans' = [plans EXCEPT ![d] = config]
  /\ UNCHANGED <<sites, databases, dirs, History>>

\* AnsweredSiteIsWhole: the error of the database INSERT is dropped.
NameTakenIgnored(s) ==
  /\ job[s].pc = "database" /\ databases[DbName[job[s].domain]] # NoRow
  /\ answers' = [answers EXCEPT ![job[s].domain] = 1]
  /\ Return(s)
  /\ UNCHANGED <<sites, databases, Files, rivalled, changed>>

\* StrandedHasReason and EverySiteSettles of Provisioning: the site is read back
\* with a query that leaves deleted sites out.
ReadBackUndeleted(s) ==
  /\ job[s].pc = "readback"
  /\ IF sites[job[s].domain].status = "deleted" THEN Return(s) ELSE GoTo(s, "database")
  /\ UNCHANGED <<sites, databases, Files, History>>

\* PlannedDatabasesBelong: the database is recorded before the site.
WritePlanThenDatabase(s) ==
  /\ job[s].pc = "write"
  /\ plans' = [plans EXCEPT ![job[s].domain] = job[s].config]
  /\ GoTo(s, "database")
  /\ UNCHANGED <<sites, databases, dirs, History>>

\* StrandedForGood: a repeated call resumes the site it finds.
SiteExistsResumes(s) ==
  /\ job[s].pc = "exists" /\ sites[job[s].domain] # NoRow
  /\ GoTo(s, "readback")
  /\ UNCHANGED <<sites, databases, Files, History>>

-----------------------------------------------------------------------------
Init ==
  /\ sites = [d \in Domains |-> NoRow]
  /\ databases = [n \in Names |-> NoRow]
  /\ dirs = {}
  /\ plans = [d \in Domains |-> NoPlan]
  /\ job = [s \in Slots |-> AtRest]
  /\ answers = [d \in Domains |-> 0]
  /\ rivalled = {}
  /\ changed = {}

\* A call with a valid domain; any PHP version is accepted.
Begin(s, d, config) ==
  /\ job[s].pc = "idle"
  /\ job' = [job EXCEPT ![s] = [pc |-> "exists", domain |-> d, config |-> config]]
  /\ UNCHANGED <<sites, databases, Files, History>>

SiteExists(s) ==
  /\ job[s].pc = "exists"
  /\ sites[job[s].domain] # NoRow
  /\ Return(s)
  /\ UNCHANGED <<sites, databases, Files, History>>

SiteIsNew(s) ==
  /\ job[s].pc = "exists"
  /\ sites[job[s].domain] = NoRow
  /\ GoTo(s, "mkdirs")
  /\ rivalled' = IF \E u \in Slots : Claiming(u, job[s].domain)
                 THEN rivalled \cup {job[s].domain} ELSE rivalled
  /\ UNCHANGED <<sites, databases, Files, answers, changed>>

MakeDirectories(s) ==
  /\ job[s].pc = "mkdirs"
  /\ dirs' = dirs \cup {job[s].domain}
  /\ GoTo(s, "truncate")
  /\ UNCHANGED <<sites, databases, plans, History>>

\* os.WriteFile empties the plan file, then fills it.
TruncatePlan(s) ==
  /\ job[s].pc = "truncate"
  /\ plans' = [plans EXCEPT ![job[s].domain] = Torn]
  /\ GoTo(s, "write")
  /\ UNCHANGED <<sites, databases, dirs, History>>

WritePlan(s) ==
  /\ job[s].pc = "write"
  /\ plans' = [plans EXCEPT ![job[s].domain] = job[s].config]
  /\ GoTo(s, "insert")
  /\ UNCHANGED <<sites, databases, dirs, History>>

InsertSite(s) ==
  /\ job[s].pc = "insert"
  /\ sites[job[s].domain] = NoRow
  /\ sites' = [sites EXCEPT ![job[s].domain] =
       [php |-> job[s].config.php, redis |-> job[s].config.redis, status |-> "provisioned"]]
  /\ GoTo(s, "readback")
  /\ UNCHANGED <<databases, Files, History>>

\* A rival inserted the domain first: the call fails, its plan file stays.
DomainTaken(s) ==
  /\ job[s].pc = "insert"
  /\ sites[job[s].domain] # NoRow
  /\ Return(s)
  /\ UNCHANGED <<sites, databases, Files, History>>

\* GetSiteByDomain, for the id of the new row.
ReadBack(s) ==
  /\ job[s].pc = "readback"
  /\ GoTo(s, "database")
  /\ UNCHANGED <<sites, databases, Files, History>>

InsertDatabase(s) ==
  /\ job[s].pc = "database"
  /\ databases[DbName[job[s].domain]] = NoRow
  /\ databases' = [databases EXCEPT ![DbName[job[s].domain]] = PlannedRow(job[s].domain)]
  /\ answers' = [answers EXCEPT ![job[s].domain] = @ + 1]
  /\ Return(s)
  /\ UNCHANGED <<sites, Files, rivalled, changed>>

\* The derived name is in use: the call fails, the site it inserted stays.
NameTaken(s) ==
  /\ job[s].pc = "database"
  /\ databases[DbName[job[s].domain]] # NoRow
  /\ Return(s)
  /\ UNCHANGED <<sites, databases, Files, History>>

\* A statement or a file operation fails and its error is returned as it is.
StepFails(s) ==
  /\ "statement" \in Faults
  /\ job[s].pc # "idle"
  /\ Return(s)
  /\ UNCHANGED <<sites, databases, Files, History>>

\* A process dies; its calls are gone.
Crash(p) ==
  /\ "crash" \in Faults
  /\ job' = [s \in Slots |-> IF Owner[s] = p THEN AtRest ELSE job[s]]
  /\ UNCHANGED <<sites, databases, Files, History>>

\* One UPDATE; a domain without a row is "not found" and changes nothing.
DeleteSite(d) ==
  /\ sites[d] # NoRow
  /\ sites' = [sites EXCEPT ![d].status = "deleted"]
  /\ UNCHANGED <<databases, Files, job, History>>

\* One UPDATE of the row; the plan file keeps the version it was written with.
ChangeVersion(d, v) ==
  /\ v \in Supported
  /\ sites[d] # NoRow
  /\ sites' = [sites EXCEPT ![d].php = v]
  /\ changed' = IF sites[d].php = v THEN changed ELSE changed \cup {d}
  /\ UNCHANGED <<databases, Files, job, answers, rivalled>>

\* DatabaseService records a SQLite database, for a registered site or for none.
OtherDatabase(n, d) ==
  /\ databases[n] = NoRow
  /\ d # NoSite => sites[d] # NoRow
  /\ databases' = [databases EXCEPT ![n] = [site |-> d, engine |-> "sqlite"]]
  /\ UNCHANGED <<sites, Files, job, History>>

-----------------------------------------------------------------------------
Step(s) ==
  \/ SiteExists(s) \/ SiteIsNew(s)
  \/ MakeDirectories(s) \/ TruncatePlan(s) \/ WritePlan(s)
  \/ InsertSite(s) \/ DomainTaken(s)
  \/ ReadBack(s) \/ InsertDatabase(s) \/ NameTaken(s)
  \/ StepFails(s)

Next ==
  \/ \E s \in Slots, d \in Domains, config \in Requests : Begin(s, d, config)
  \/ \E s \in Slots : Step(s)
  \/ \E p \in Processes : Crash(p)
  \/ \E d \in Domains : DeleteSite(d)
  \/ \E d \in Domains, v \in Versions : ChangeVersion(d, v)
  \/ \E n \in Names, d \in Domains \cup {NoSite} : OtherDatabase(n, d)

Spec == Init /\ [][Next]_vars

-----------------------------------------------------------------------------
Job == [pc : Labels, domain : Domains \cup {NoDomain}, config : Config \cup {NoPlan}]

\* The types of the variables; a call under way has a domain and a configuration.
TypeOK ==
  /\ sites \in [Domains -> SiteRow \cup {NoRow}]
  /\ databases \in [Names -> DatabaseRow \cup {NoRow}]
  /\ dirs \subseteq Domains
  /\ plans \in [Domains -> Config \cup {NoPlan, Torn}]
  /\ job \in [Slots -> Job]
  /\ \A s \in Slots : job[s].pc # "idle" => job[s].domain \in Domains /\ job[s].config \in Config
  /\ answers \in [Domains -> Nat]
  /\ rivalled \subseteq Domains /\ changed \subseteq Domains

\* CreateSite prepares before it records: a recorded site has its directories and
\* a plan file, whatever failed or raced on the way.
RowHasScaffold == \A d \in Domains : sites[d] # NoRow => d \in dirs /\ plans[d] # NoPlan

\* The plan file that host automation will read is whole and says what the row says,
\* when no second call claimed the domain at the same time; but for the PHP version,
\* once ChangeVersion has given the row another one, which it does not write to the plan.
PlanMatchesRow ==
  \A d \in Domains \ rivalled : sites[d] # NoRow =>
    /\ plans[d] \in Config
    /\ plans[d].redis = sites[d].redis
    /\ d \notin changed => plans[d].php = sites[d].php

\* A success answer means a whole site: its row, its directories, its own database
\* row; and they stay, deletion of the site included.
AnsweredSiteIsWhole ==
  \A d \in Domains : answers[d] > 0 => sites[d] # NoRow /\ d \in dirs /\ HasDatabase(d)

\* Of all the calls for a domain at most one ever gets past the INSERT of the site:
\* one is completing it or one has answered, never both, never two.
OneCompletes ==
  \A d \in Domains :
    /\ answers[d] <= 1
    /\ \A s \in Slots : Completing(s, d) =>
         /\ sites[d] # NoRow /\ ~HasDatabase(d)
         /\ \A u \in Slots \ {s} : ~Completing(u, d)

\* A planned database belongs to a recorded site and has the name of that site:
\* what the foreign key and the derivation of names are there for.
PlannedDatabasesBelong ==
  \A n \in Names : databases[n] # NoRow /\ databases[n].engine = "mariadb" =>
    \E d \in Domains : n = DbName[d] /\ databases[n] = PlannedRow(d) /\ sites[d] # NoRow

\* A site whose call ended without recording the database.
Stranded(d) ==
  /\ sites[d] # NoRow
  /\ ~HasDatabase(d)
  /\ \A s \in Slots : ~Completing(s, d)

\* Nothing repairs such a site: a second CreateSite says that it exists, and no
\* other operation ever records the database that its plan and row name.
StrandedForGood == [][\A d \in Domains : Stranded(d) => Stranded(d)']_vars

\* A recorded domain is never free again, a deleted site never comes back, and
\* neither DeleteSite nor ChangeVersion touches what the other one records.
RecordedForGood ==
  [][\A d \in Domains : sites[d] # NoRow =>
       /\ sites'[d] # NoRow
       /\ sites[d].status = "deleted" => sites'[d].status = "deleted"
       /\ sites'[d].redis = sites[d].redis
       /\ sites'[d].status # sites[d].status => sites'[d].php = sites[d].php]_vars

-----------------------------------------------------------------------------
\* kloudboy-panel-spec.md, Security Isolation: each site must have a separate
\* database.  It does not hold: two domains may derive one database name, and then the
\* name in the plan of the one, when its call has ended, is the database of the other.
SeparateDatabase ==
  \A d, e \in Domains :
    d # e /\ sites[d] # NoRow /\ (\A s \in Slots : ~Completing(s, d)) =>
      databases[DbName[d]] # PlannedRow(e)
=============================================================================
