# KloudBoy Panel: specifications and proofs

KloudBoy Panel manages web sites on one host. A Go server answers an HTTP API
and serves a Vue frontend; a command line tool does part of the same work in a
process of its own. Both keep their state in one SQLite file, the *panel
database*, and in directories beside it. This directory holds TLA+ modules of the
parts that change that state, TLC configurations that check them on small
instances, and proofs that hold for every instance.

There is hardly any locking in this program and, apart from a single statement,
no transaction: what an operation does is a sequence of independent statements
and file operations, and correctness rests on their order and on a few UNIQUE
columns. The models therefore make every statement and every file operation a step of its own.

## Inventory

| Part (source under `src/backend/internal`) | State | Operations | Hard about it |
| --- | --- | --- | --- |
| `services/database_service.go` | table `databases`, files `DatabasesRoot/*.db` | `CreateDatabase` | two stores without a transaction; requests of one server interleave; cleanup on failure |
| `services/site_service.go`, `services/php_service.go` | tables `sites`, `databases`; directories; plan files | `CreateSite`, `DeleteSite`, `ChangeVersion`, listings | six steps that may fail or be cut off one by one; two processes |
| `services/auth_service.go`, first half; `app/app.go` | `server_settings.auth_secret`, `admins`, `initial-admin.txt`, the log | `Initialize`, `ensureSecret` | runs in every process that starts; the password exists in clear only in memory |
| `services/auth_service.go`, second half; `api/auth.go` | `api_tokens`, the clock | `Login`, `CurrentAdmin`, `Logout`, `requireAuth` | check, then touch, then serve, while logouts and expiry go on; expiry kept twice |
| `services/backup_service.go` | table `backups`, `databases.last_backup_at`, archives | `CreateBackup`, `ListBackups` | names taken from the clock; dropped errors; two statements |
| `services/server_service.go` | none of its own; the host's jobs | `RestartService`, `DashboardOverview`, doctor | external commands with timeouts that do not undo what was asked; the panel restarts itself; reads that are not atomic |
| `services/security_service.go` | report files | `RunMalwareScan` | dropped errors; names taken from the clock |
| `database/sqlite.go`, `config`, `app` | schema, settings | `Open`, `Load`, `Bootstrap` | idempotent start |
| `api/router.go`, `api/middleware.go`, `api/frontend.go` | none | routing | goroutine per request |
| `cmd/server`, `cmd/kloudboy` | none | start the above | two processes on one database |
| `src/frontend` | token in local storage, `authState` of a tab, one pending action | session client, router, quick actions, refresh | answers lost or out of order, several tabs |

Interaction: handlers and commands call services; services share nothing in
memory but the connection (one per process, autocommit). `DatabaseService`,
`BackupService` and `SecurityService` read the sites that `SiteService` writes;
`SiteService` and `DatabaseService` both insert into `databases`, `BackupService` updates
it. `requireAuth` runs before every handler but login. The frontend knows the server by
its answers only; its tabs share the token in the browser's local storage.

What makes the parts correct: a record never promises a file that is not there; a
failure or a crash leaves nothing that a later call trips over unknowingly; one of
several rivals wins completely; what was answered stays true; a session lives as
long as it should and no longer; a first boot publishes what it generated. `hazards`
in `PROJECT.json` names, line by line, where this could go wrong.

## Modules

| Module | Models | Proofs |
| --- | --- | --- |
| `DatabaseService` | `CreateDatabase` | `DatabaseServiceProofs` |
| `SiteService` | `CreateSite`, `DeleteSite`, `ChangeVersion` | `SiteServiceProofs` |
| `Provisioning` | both of them on the shared table | `ProvisioningProofs` |
| `AuthBootstrap` | `Initialize` with `ensureSecret` and the credentials file | `AuthBootstrapProofs` |
| `AuthSessions` | login, `requireAuth`, logout | `AuthSessionsProofs` |
| `SessionService` | what clients may rely on; `AuthSessions` implements it | `AuthSessionsProofs` |
| `BackupService` | `CreateBackup` | `BackupServiceProofs` |
| `ServerService` | `RestartService`, `DashboardOverview` | `OperationsProofs` |
| `SecurityService` | `RunMalwareScan` | `OperationsProofs` |
| `Operations` | both of them in one server | `OperationsProofs` |
| `BrowserSession` | the tabs of a browser, their token and pages, on `SessionService` | `BrowserProofs` |
| `QuickActions` | the dashboard's actions and refreshes | `BrowserProofs` |
| `Browser` | both of them in one browser | `BrowserProofs` |
| `Naming` | how names are derived, cleaned, cut and numbered | |

Each component has a variable for every store, one for the calls under way (`task`,
`job`, `proc`, `work`: a function from slots to records whose `pc` names the next
step of the code) and, where a property needs it, *history variables* that the code
does not have; they record what happened and guard nothing. An action is named for what the step does, and its
guard holds the condition of the branch it stands for: `NameFree` and `NameTaken`
are the two outcomes of one `SELECT COUNT(1)`. `StatementFails`, `StepFails`,
`BootFails`, `RequestFails` and `CallFails` are the error returns. `Crash` ends the
calls of a process and keeps the stores. The actions called faulty variants at the
head of a module are in no specification: each is an action with one plausible bug, put in the place
of the real one to see that the property named beside it notices.

**DatabaseService.** `resolve` (look the site up), `probe` (`makeUniqueDatabaseName`, one
SELECT for each candidate), `stat`, `open` and `setup` (`sql.Open` is lazy: the
first statement creates the file), `insert`, `cleanup` (`os.Remove`), `close` (the deferred Close).
`files` holds the names whose `n.db` exists. `logs` holds those whose `n.db-wal` and `n.db-shm` are
left behind: a failed creation removes `n.db` while its connection, in WAL mode, is open,
and Close then leaves the log where it is, as a crash does; the next connection discards it. Names are
abstract; what the string functions derive is the parameters `SiteBase` and
`Candidates`. `Naming` translates those functions on sequences of characters, and the
assumption `NamesAreDerived` of `MCDatabaseService` and `MCSiteService`, which TLC
evaluates, says that the names of the instances are the derived ones. History: `orphans` (files a crash or failed
removal left), `disputed` (names that a request opened while it had a rival or although the file existed).
These exempt from `ReadyHasFile` the databases that the code does lose: what
becomes of a disputed name is the subject of `databases_race`.

**SiteService.** `exists`, `mkdirs`, `truncate` and `write` (`os.WriteFile` of the
plan), `insert`, `readback`, `database`. A site is its domain: the column is UNIQUE
and rows are never deleted. The server and the tool are the `Processes`; each may die
alone. History: `answers` (success answers per domain), `rivalled` (domains
that two calls passed the existence check for), `changed` (domains whose row got another PHP
version: `ChangeVersion` leaves the plan file as it is).

**Provisioning.** Two instances, `S` and `D`. They share the variable `databases`; the
sites that `D` can resolve are `Registered`, computed from the table `sites` of `S`:
this is the refinement mapping under which the composition implements
`D!FairSpec`, and with the identity `S!Spec`. History: `lost` (domains whose call
was cut off after its INSERT).

**AuthBootstrap.** `read` and `store` (the secret), `count`, `insert` (the
administrator), `truncate`, `write`, `print`, `up`. Each process has its
environment: an address, and perhaps a configured secret. Random values are fresh. History: `contested` (the
processes that got their secret while another one was about to store its own), `cutOff` (a boot ended between its INSERT and its last log line).

**AuthSessions.** A token consists of the administrator, the second of issue and an
expiry that follows from it, so with one administrator and one secret the token *is*
that second, and two logins of a second get one token. `select`, `purge`, `touch`,
`parse`, `admin`, then the handler. The row expires with the fraction of
the second, the claims when the second is over; in between the fraction decides, hence
`RowMayBeExpired` and `RowMayBeValid` overlap. `doomed` marks a request sent
with a token that was dead then. History: `held`, `ended`, `shared`.

**BackupService.** `lookup`, `name` (the second), `create`, `walk`, `time`, `insert`,
`update`. The content of an archive is how it came about: `partial`, `whole`,
`short` (a dropped Close error), `mixed` (two writers). History: `reused`, `overlapped`.

**SessionService.** The abstract specification: `live` tokens, and calls that are opening
a session, have asked with a token, or were granted. `AuthSessions` implements it under
the mapping `Sessions`: a token is live while it has a row and is not expired, and a
call is granted from `select` on, where its row was found good (`SeenAs`).

**ServerService.** `look` (`exec.LookPath`), `run`, `output` (`CombinedOutput` has its
exit status and waits for the output to be closed), then the next command or the
answer. What the host has taken on (`job`) outlives a command that is killed: a
restart of the panel that nobody waits for any more is `pending`. In a container the first command for
the panel only leaves a shell behind (`Deferred`). The overview is a sequence of
counts and lists. `asked`, `before` and `unknown` are history.

**SecurityService.** `list`, then for each site `walk` with the `names` that are still to be
visited and `read`, then `report`, `truncate`, `write`. `filepath.Walk` reads the
names of a directory at once and looks each one up later; one directory stands for the
tree of a site, and one signature for the rules. The walk skips directories only, so a
file may also be a pipe or a link to a device (`"pipe"`): the read is then `blocked` until
somebody outside ends it (`ReadReleased`), which nobody has to. `cut` and `unread` record what the code
drops without a word; `due` and `steady` what was there from the beginning on.

**Operations.** Both on the one table `sites`; `PanelRestarts` also ends the scans.

**BrowserSession.** `storage` is the token in local storage, `tab` the `authState` and page
of each tab, `req` the requests. A request whose tab was told of a network error, or
was reloaded, stays under way on the server (`NoTab`). `Handle` is what a tab does with
an answer. The server's side is the actions of `SessionService`, so
that `browser` rests on what `auth_sessions` has shown and on nothing else. `lost`
records the sessions that a browser gave up without ending them: a login whose
answer did not reach its tab, a token overwritten by that of another login, and a
token cleared on an error or on the answer to a request that was about another one.

**QuickActions.** One `pending` key; an action, and the refresh that it asks for, which is
two fetches that are answered in any order and shown when both are there. The state
behind the page is abstracted to the number of changes (`rows`), so that older and newer answers can be told apart.

**Browser.** Both in one browser: the dashboard is in the tab `Desk`, and is closed
(`Consequence`) when that tab is reloaded or shows another page. The two parts share the
slots for requests.

## Runs

| Run | Bounds | What it shows |
| --- | --- | --- |
| `databases` | 2 requests, 1 domain, 2 names, 2 candidates | `NoLeakedFile`, `ReadyHasFile`, `OrphansBlockName`, and under fairness `EveryRequestReturns` |
| `databases_race` | the same, no faults | **fails**: the request that comes second to the INSERT fails on the UNIQUE name and removes the file of the database that the first one has recorded as ready |
| `databases_listing` | the same | **fails**: a database without a site makes every listing fail |
| `sites` | 2 calls in 2 processes, 2 domains with one derived name | `RowHasScaffold`, `PlanMatchesRow`, `AnsweredSiteIsWhole`, `PlannedDatabasesBelong`, `StrandedForGood` |
| `sites_separate_database` | the same, no faults | **fails**: two domains derive one database name; the site recorded second gets none, and the name in its plan is the database of the first |
| `provisioning` | 2 calls of CreateSite, 1 of CreateDatabase, 1 domain, 2 names | refinement `SiteServiceSpec`, `DatabaseServiceSpec`; `ForeignKeysHold`, `StrandedHasReason`, `EverySiteSettles` |
| `auth_bootstrap` | 3 processes, 2 addresses, 1 configured secret | `CredentialsAreTrue`, `ServingIsInitialised`, `PublishedUnlessCutOff`, `SecretAgreement` |
| `auth_lockout` | the same, crashes only | **fails**: a first boot that dies after its INSERT locks everybody out |
| `auth_sessions` | 2 requests, 3 seconds, sessions of 1 second | `DoomedRequestsAreRefused`, `LogoutSticks`, `AnsweredSessionLives`; refinement `SessionServiceSpec` |
| `backups` | 2 calls in 2 processes, 1 site, 1 database, 3 seconds | `RecordedIsWhole`, `LastBackupIsRecorded`, `LastBackupAdvances` |
| `operations` | 2 requests, 2 sites, 3 files, 2 services of 2 commands, 2 seconds, 1 change around them | `SteadySignaturesAreFound`, `AnsweredReport`, `AnswerAccountsForRestarts`, `OverviewAgreesWithItself`, and under fairness `EveryRequestReturns` |
| `browser` | 2 tabs, 2 requests under way, 2 logins, 2 actions, 1 change seen by a page | `SessionsAccountedFor`, `ResubmittedOnlyAfterOverlap`, `ShownIsFresh` |

Every passing run also checks the module's `TypeOK` where there is one. The four failing runs are
the disagreements between the code and its documentation listed as `findings`.

Why the bounds are enough. Every hazard found is between two actors, so two slots
show it, and the proofs remove the bound for the safety properties. The code tries
999 candidate names and the model two; it needs one that is free after one that is
taken, and a base whose candidates are all the same (a name of 32 bytes cut back to
itself). Two domains are chosen so that they derive one name. In
`auth_sessions` a token can be issued, be valid, stand at the boundary and be expired
in seconds 0 to 2. Three processes are needed in `auth_bootstrap` for two boots to
meet and a third to come later. In `backups` two seconds let a time go back and the
third lets a further call come after. In `provisioning` steps fail by crash only,
since `sites` and `databases` have checked the other faults; a failing statement ends a call exactly as a crash does.
`operations` has one change (a file, a site,
a backup or a tick of the clock) because liveness is checked on the whole graph; each kind
of change occurs, and two scans of one second, a file that vanishes under a scan and a
restart that cuts a scan off are all within it. `Scopes`, `Restarts` and `Overviews` give each
slot its kinds of request: between them every pair of kinds meets. In `browser` two
tabs and two logins let one tab end or replace the session of the other, and a page sees
one change (`Changes`), that of an action beside a second, older refresh; nothing bounds
the number of requests, reloads and logouts.
`SYMMETRY` is used in the runs without liveness, on values the module
only compares.

Deadlock is checked in all passing runs but `operations`, whose requests are bounded: there it may stop when they are used up.

## Fairness

`DatabaseService` and `Provisioning` assume weak fairness of the steps of each call:
the Go scheduler runs every goroutine that can go on, SQLite serialises statements
and answers each with a result or an error, and the tool's process
runs. `Operations` assumes the same of the steps of each request; a command that the host
never answers ends by its own timer, so nothing is assumed of the host, and nothing of a
process that keeps the output of a command open or of one at the other end of a pipe that a
scan reads. `EveryRequestReturns` of `Operations` therefore has exactly two exceptions: a restart
whose command left its output to another process, and a scan whose read is blocked. (A
device that delivers without end is such a read too; that the panel runs out of
memory over it is a crash like any other.) Nothing is assumed about arrivals, crashes or failures. The other
modules state no liveness: a browser may be closed at any time.

## Proofs

Every safety property that a passing run checks, and every type invariant, is proved for
all values of the constants, from the named assumption `ConstantsOK` of the module
alone; so is the step part of the refinements. Each `...Proofs` module first shows what a step
does to one call (`GoToEffect`, `ReturnEffect`, ...), then type correctness, and then:

* `DatabaseServiceProofs`: the first part of `NoLeakedFile`, about files, is inductive (`FilesHeld`); the second, about logs, is
  so together with the types and the rivals (`LogsApart`). `ReadyHasFile` and `OrphansBlockName` are not: a step
  of a rival could remove the file. `FileInv` adds `AloneOnNames` (two requests that
  are creating one name make it disputed) and `CreatingUnhindered` (an undisputed name
  being created has neither record nor orphan).
* `SiteServiceProofs`: `ScaffoldInv` adds what a call has prepared at each step;
  `OwnInv` relates completing calls, answers and rows, and gives `OneCompletes`,
  `AnsweredSiteIsWhole` and `PlannedDatabasesBelong`; `PlanInv` adds that calls claiming an unrivalled
  domain are alone and have written their own plan, of which the row takes over cache and,
  until it is `changed`, PHP version. `RecordedForGood` and `StrandedForGood` are action properties shown from the types and the steps.
* `ProvisioningProofs`: `SharedInv` is what the two services rely on in each other: the types,
  `OwnInv`, and `TaskSites` (a request past its resolution holds a recorded site). From it each
  step of both is, for either service, a step of its own, one of its environment or none, which
  gives `ImplementsSiteService` (the property `SiteServiceSpec`) and `ImplementsDatabaseService` (`DatabaseServiceSpec` without
  its fairness). `ForeignKeysHold` is inductive with it; `Accounted` strengthens `StrandedHasReason` by
  the call that is about to record the database.
* `AuthBootstrapProofs`: `BootInv` says what a process knows to be true at each label
  (`Served`, `Publishes`) and that the file and the log name administrators
  unless cut off (`FileWritten`, `LogWritten`); `SecretInv` says of an uncontested process that is about to store a secret that no other is
  and that nothing is stored, and of one past that step that its secret is the stored one and nobody is about to
  replace it; this gives `SecretAgreement` and what `ServingIsInitialised` says of a restart.
* `AuthSessionsProofs`: `Doom` carries a dead token through the checks to the one that
  refuses it; `SharedInv` says that an ended token which is being issued again is
  shared; `LifeInv` that only expired rows are purged. `ImplementsSessionService` is the
  refinement: `SeenByLabel` says what clients see of a request at each label, `SeenStep`
  what a step of one request changes of it, and `Bounded` that every token issued is
  one of `SessionService`.
* `BackupServiceProofs`: `ArchiveInv` says what a call that holds an archive name knows of it
  at each label, that such a call is alone on an archive whose name was never reused
  (`AloneOnArchives`), and that such a name has no record while it is being written
  (`WritersUnrecorded`); it gives `RecordedIsWhole`. `LastInv` says that a call about to update the
  databases has recorded its backup (`Recorder`). `OrderInv` adds that every time
  taken is past, that a site without overlapping calls has one recorder (`AloneRecording`)
  and that what it is about to overwrite is not later (`NotPassed`).
* `OperationsProofs`: `ImplementsScans` shows that the rest of the server, restarts of
  the panel included, is what `SecurityService` expects around a scan; what follows about
  scans is proved from the steps of that module and so holds in `Operations`. `GatheredInv` says
  that a signature that was there all the
  while is found, skipped, or among the names that the walk is still to visit, and that
  every due site is opened or still to be opened, and that what blocks a walk is no file with a
  signature that stays; when the walks are over nothing is left
  to visit. `ReportInv` says that a scan whose report name was never taken twice is the only
  one to write it. `Accounts` says at each label of a restart
  how often the host was asked and what is known of the service, and `Placed` that the label
  goes with one of the service's commands; they give `RestartsAccountedFor`. `OverviewInv`
  bounds what an overview has read so far by the tables as they are now: `Agrees` adds, label
  by label, that a count is not above its table and a list not below the count, which
  stays true because no table shrinks while an overview is put together (`ViewsGrow`).
  Counting needs the sites to be finitely many at any time, which is the last conjunct of `ConstantsOK` in
  `ServerService`: the sites of the start are finite, and each step registers one.
* `BrowserProofs`: `PartsAllow` shows that whatever one part of the browser does in the
  tab they share is, for the other part, one of its own steps or none; this gives
  `ImplementsSession` and `ImplementsPanel`. `SessionsAccountedFor` alone is not
  inductive: it does not keep another tab from holding, and giving up, the token of a
  session whose login is still on its way. `SessionInv` adds that the token of a session that is being opened is nowhere else
  (`CallOK`), that a request which was told so has a dead token (`EndedBy`), and that
  a loading tab waits for one request (`TabOK`). `ImplementsService` then connects the
  browser with the server: each of its steps is one of `SessionService`, which `AuthSessions`
  implements. `PanelInv` adds what `ResubmittedOnlyAfterOverlap` and
  `ShownIsFresh` rest on: two actions under way, and one whose button is enabled, have
  overlapped (`OverlapsOK`); without a doubt a refresh is alone and has read
  nothing older than the news (`Certain`).

What stays with TLC is the liveness, `EveryRequestReturns` (of two modules) and `EverySiteSettles`, and
the fairness of `DatabaseServiceSpec`: the prover handles neither `ENABLED` nor fairness.
What the string functions compute is a parameter: induction over strings is out of the prover's reach.

## Abstractions

* A failing statement leaves no trace: SQLite rolls one statement back. That another
  process holds the panel database (`SQLITE_BUSY`) is one cause of `"statement"` in `Faults`; that a rival
  holds the lock of the new file is `"busy"`.
* Crashes are those of a process; the operating system's write cache is not modelled.
* Clocks do not step back. Writers that race on one small file leave the later text.
* `AuthSessions` has one administrator and one secret (nothing in the program creates
  a second administrator but a race of first boots, which `AuthBootstrap` covers);
  the time of last use is never read and is left out.
* Sites are not removed from the disk by anything; an administrator who does so is a failing step.

## Not modelled, and the plan

* The answer of `ChangeVersion` is read after its UPDATE: the frontend does not call
  the operation and nothing depends on the answer.

Host metrics, the doctor's checks, CORS headers, static files, status codes, page
templates, installers and container files are not modelled: they keep no state and
take no part in the hazards above. Subdirectories of a site are read later than
the directory that holds them; what that adds to a scan is more of the same, and it
is left out.
