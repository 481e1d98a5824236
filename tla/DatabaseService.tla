--------------------------- MODULE DatabaseService ---------------------------
(***************************************************************************)
(* CreateDatabase of services/database_service.go: a request picks a free  *)
(* name, creates the SQLite file of that name and records the database in  *)
(* the panel's own table.  The table and the directory of files are two    *)
(* stores without a common transaction, and the requests of one server run *)
(* concurrently: every statement on the panel database (one connection,    *)
(* autocommit) and every file system call is one step of its request, and  *)
(* steps of several requests interleave.                                   *)
(*                                                                         *)
(* A name is an abstract value.  What the code derives by string work is a *)
(* parameter: SiteBase[d] is the name derived from a site's domain, and    *)
(* Candidates[b] the names tried for a base b, in order (b, b_1, b_2, ...  *)
(* cut to 32 bytes; cutting may make some of them equal).                  *)
(***************************************************************************)
EXTENDS Naturals, Sequences

CONSTANTS
  Slots,       \* the requests the server handles at once
  Domains,     \* site domains
  Names,       \* database names, as sanitised and cut to length
  NoSite,      \* "no site domain given", and a NULL site_id
  NoName,      \* "no database name given"
  NoRow,       \* the absence of a row
  SiteBase,    \* the base name derived from a domain when none is given
  Candidates,  \* the names makeUniqueDatabaseName tries for a base
  Faults       \* the kinds of failure that may happen

\* "statement" is a statement that fails of its own, "busy" one that fails because
\* another connection holds the lock of the new file.
FaultKinds == {"statement", "busy", "stat", "remove", "crash"}

Row == [site : Domains \cup {NoSite}, engine : {"sqlite", "mariadb"}]

ASSUME ConstantsOK ==
  /\ NoSite \notin Domains
  /\ NoName \notin Names
  /\ NoRow \notin Row
  /\ SiteBase \in [Domains -> Names]
  /\ Candidates \in [Names -> Seq(Names)]
  /\ \A b \in Names : Len(Candidates[b]) > 0 /\ Candidates[b][1] = b
  /\ Faults \subseteq FaultKinds

VARIABLES
  known,      \* the domains that have a row in the table sites
  databases,  \* the table databases: name -> row (name is UNIQUE)
  files,      \* the names n whose file n.db exists in DatabasesRoot
  logs,       \* the names n whose n.db-wal and n.db-shm no Close will fold away
  task,       \* what each request is about to do
  orphans,    \* history: files a crash or a failed removal left behind
  disputed    \* history: names opened by a request that was not alone

Stores == <<known, databases, files, logs>>
History == <<orphans, disputed>>
vars == <<Stores, task, History>>

-----------------------------------------------------------------------------
Labels ==
  {"idle", "resolve", "probe", "stat", "open", "setup", "insert", "cleanup", "close"}

\* From the moment a request has found no file until its last touch of the file.
CreatingLabels == {"open", "setup", "insert", "cleanup"}

\* The file may exist on behalf of the request.
HoldingLabels == {"setup", "insert", "cleanup"}

\* The request has a connection to the file.
ConnectedLabels == {"setup", "insert", "cleanup", "close"}

AtRest == [pc |-> "idle", site |-> NoSite, base |-> NoName, tries |-> 1]

Candidate(t) == Candidates[task[t].base][task[t].tries]
Creating(t) == task[t].pc \in CreatingLabels
Holds(t, n) == task[t].pc \in HoldingLabels /\ Candidate(t) = n
Connected(t, n) == task[t].pc \in ConnectedLabels /\ Candidate(t) = n
SqliteRow(n) == databases[n] # NoRow /\ databases[n].engine = "sqlite"

\* Another request is between its Stat and its end with the same candidate.
Rivalled(t) == \E u \in Slots \ {t} : Creating(u) /\ Candidate(u) = Candidate(t)

\* Another request has the same file open and may hold its lock.
Contended(t) == \E u \in Slots \ {t} : Connected(u, Candidate(t))

GoTo(t, label) == task' = [task EXCEPT ![t].pc = label]
Return(t) == task' = [task EXCEPT ![t] = AtRest]

-----------------------------------------------------------------------------
(* Faulty variants of single actions, each the code with one plausible bug. *)
(* No specification uses them: a run with one in place of the action it     *)
(* varies shows that the property named beside it can fail.                 *)

\* ForeignKeysHold of Provisioning: a site that is not found is used all the same.
ResolveSiteUnchecked(t) ==
  /\ task[t].pc = "resolve"
  /\ task' = [task EXCEPT ![t].pc = "probe",
                          ![t].base = IF @ = NoName THEN SiteBase[task[t].site] ELSE @]
  /\ UNCHANGED <<Stores, History>>

\* TypeOK: the loop over suffixes runs once too often.
NameTakenOverrun(t) ==
  /\ task[t].pc = "probe" /\ databases[Candidate(t)] # NoRow
  /\ task' = [task EXCEPT ![t].tries = @ + 1]
  /\ UNCHANGED <<Stores, History>>

\* EveryRequestReturns: an existing file sends the request back to the search.
FileExistsRetries(t) ==
  /\ task[t].pc = "stat" /\ Candidate(t) \in files
  /\ GoTo(t, "probe")
  /\ UNCHANGED <<Stores, History>>

\* OrphansBlockName: the file is opened without looking whether it exists.
NoFileUnchecked(t) ==
  /\ task[t].pc = "stat"
  /\ GoTo(t, "open")
  /\ disputed' = IF Rivalled(t) THEN disputed \cup {Candidate(t)} ELSE disputed
  /\ UNCHANGED <<Stores, orphans>>

\* ReadyHasFile: the file is removed on every way out, the good one included.
InsertRowThenRemove(t) ==
  /\ task[t].pc = "insert" /\ databases[Candidate(t)] = NoRow
  /\ databases' = [databases EXCEPT ![Candidate(t)] =
                     [site |-> task[t].site, engine |-> "sqlite"]]
  /\ GoTo(t, "cleanup")
  /\ UNCHANGED <<known, files, logs, History>>

\* NoLeakedFile: a failed INSERT goes on to the Close without removing the file.
UniqueViolationLeaks(t) ==
  /\ task[t].pc = "insert" /\ databases[Candidate(t)] # NoRow
  /\ GoTo(t, "close")
  /\ UNCHANGED <<Stores, History>>

-----------------------------------------------------------------------------
Init ==
  /\ known = {}
  /\ databases = [n \in Names |-> NoRow]
  /\ files = {}
  /\ logs = {}
  /\ task = [t \in Slots |-> AtRest]
  /\ orphans = {}
  /\ disputed = {}

\* A request arrives; without a site it must carry a name.
Begin(t, d, n) ==
  /\ task[t].pc = "idle"
  /\ d # NoSite \/ n # NoName
  /\ task' = [task EXCEPT ![t] =
       [pc |-> IF d = NoSite THEN "probe" ELSE "resolve",
        site |-> d, base |-> n, tries |-> 1]]
  /\ UNCHANGED <<Stores, History>>

\* GetSiteByDomain found the site (deleted ones included): derive a missing name.
ResolveSite(t) ==
  /\ task[t].pc = "resolve"
  /\ task[t].site \in known
  /\ task' = [task EXCEPT ![t].pc = "probe",
                          ![t].base = IF @ = NoName THEN SiteBase[task[t].site] ELSE @]
  /\ UNCHANGED <<Stores, History>>

UnknownSite(t) ==
  /\ task[t].pc = "resolve"
  /\ task[t].site \notin known
  /\ Return(t)
  /\ UNCHANGED <<Stores, History>>

NameFree(t) ==
  /\ task[t].pc = "probe"
  /\ databases[Candidate(t)] = NoRow
  /\ GoTo(t, "stat")
  /\ UNCHANGED <<Stores, History>>

NameTaken(t) ==
  /\ task[t].pc = "probe"
  /\ databases[Candidate(t)] # NoRow
  /\ IF task[t].tries < Len(Candidates[task[t].base])
     THEN task' = [task EXCEPT ![t].tries = @ + 1]
     ELSE Return(t)
  /\ UNCHANGED <<Stores, History>>

\* os.Stat reports the file: the request is refused.
FileExists(t) ==
  /\ task[t].pc = "stat"
  /\ Candidate(t) \in files
  /\ Return(t)
  /\ UNCHANGED <<Stores, History>>

\* os.Stat returns an error, which the code takes for "no such file" whatever
\* the error is.
NoFile(t) ==
  /\ task[t].pc = "stat"
  /\ Candidate(t) \notin files \/ "stat" \in Faults
  /\ GoTo(t, "open")
  /\ disputed' = IF Candidate(t) \in files \/ Rivalled(t)
                 THEN disputed \cup {Candidate(t)} ELSE disputed
  /\ UNCHANGED <<Stores, orphans>>

\* sql.Open is lazy: the first setup statement (journal_mode = WAL) opens the file,
\* creates it and gives it a log; a log that is left under the name is discarded.
OpenFile(t) ==
  /\ task[t].pc = "open"
  /\ files' = files \cup {Candidate(t)}
  /\ logs' = logs \ {Candidate(t)}
  /\ GoTo(t, "setup")
  /\ UNCHANGED <<known, databases, orphans, disputed>>

\* The remaining setup statements run on the connection that is open, so they
\* do not create the file again when another request has removed it.
Setup(t) ==
  /\ task[t].pc = "setup"
  /\ GoTo(t, "insert")
  /\ UNCHANGED <<Stores, History>>

InsertRow(t) ==
  /\ task[t].pc = "insert"
  /\ databases[Candidate(t)] = NoRow
  /\ databases' = [databases EXCEPT ![Candidate(t)] =
                     [site |-> task[t].site, engine |-> "sqlite"]]
  /\ GoTo(t, "close")
  /\ UNCHANGED <<known, files, logs, History>>

UniqueViolation(t) ==
  /\ task[t].pc = "insert"
  /\ databases[Candidate(t)] # NoRow
  /\ GoTo(t, "cleanup")
  /\ UNCHANGED <<Stores, History>>

\* A statement fails: of its own, or because a rival holds the new file's lock.
StatementFails(t) ==
  /\ \/ "statement" \in Faults
     \/ "busy" \in Faults /\ task[t].pc \in {"open", "setup"} /\ Contended(t)
  /\ \/ task[t].pc \in {"resolve", "probe", "stat"} /\ Return(t)
     \/ task[t].pc \in {"open", "setup", "insert"} /\ GoTo(t, "cleanup")
  /\ UNCHANGED <<Stores, History>>

\* os.Remove(filePath), whose own error is dropped.  It comes before the deferred
\* Close, which does not touch the log of a file that is gone: n.db-wal and n.db-shm stay.
Cleanup(t) ==
  /\ task[t].pc = "cleanup"
  /\ \/ /\ files' = files \ {Candidate(t)}
        /\ logs' = logs \cup ({Candidate(t)} \cap files)
        /\ Return(t)
        /\ UNCHANGED orphans
     \/ /\ "remove" \in Faults
        /\ orphans' = orphans \cup ({Candidate(t)} \cap files)
        /\ GoTo(t, "close")
        /\ UNCHANGED <<files, logs>>
  /\ UNCHANGED <<known, databases, disputed>>

\* The deferred Close folds the log into the file; when the file is gone, the log is
\* among logs already.
CloseFile(t) ==
  /\ task[t].pc = "close"
  /\ Return(t)
  /\ UNCHANGED <<Stores, History>>

\* The server dies and is started again: requests are gone, stores are not.
Crash ==
  /\ "crash" \in Faults
  /\ task' = [t \in Slots |-> AtRest]
  /\ orphans' = orphans \cup {n \in files : ~SqliteRow(n)}
  /\ logs' = logs \cup {n \in Names : \E t \in Slots : Connected(t, n)}
  /\ UNCHANGED <<known, databases, files, disputed>>

\* SiteService registers a site, and records the database it plans for one.
RegisterSite(d) ==
  /\ known' = known \cup {d}
  /\ UNCHANGED <<databases, files, logs, task, History>>

PlanDatabase(n, d) ==
  /\ d \in known
  /\ databases[n] = NoRow
  /\ databases' = [databases EXCEPT ![n] = [site |-> d, engine |-> "mariadb"]]
  /\ UNCHANGED <<known, files, logs, task, History>>

-----------------------------------------------------------------------------
Step(t) ==
  \/ ResolveSite(t) \/ UnknownSite(t)
  \/ NameFree(t) \/ NameTaken(t)
  \/ FileExists(t) \/ NoFile(t)
  \/ OpenFile(t) \/ Setup(t)
  \/ InsertRow(t) \/ UniqueViolation(t)
  \/ StatementFails(t) \/ Cleanup(t) \/ CloseFile(t)

Environment ==
  \/ \E d \in Domains : RegisterSite(d)
  \/ \E n \in Names, d \in Domains : PlanDatabase(n, d)

Next ==
  \/ \E t \in Slots, d \in Domains \cup {NoSite}, n \in Names \cup {NoName} : Begin(t, d, n)
  \/ \E t \in Slots : Step(t)
  \/ Crash
  \/ Environment

Spec == Init /\ [][Next]_vars

\* The Go scheduler runs every request that can go on.
Fairness == \A t \in Slots : WF_vars(Step(t))

FairSpec == Spec /\ Fairness

-----------------------------------------------------------------------------
Task == [pc : Labels, site : Domains \cup {NoSite}, base : Names \cup {NoName}, tries : Nat]

\* The types of the variables; a request past its resolution has a base name
\* and stands at one of the candidates of that base.
TypeOK ==
  /\ known \subseteq Domains
  /\ databases \in [Names -> Row \cup {NoRow}]
  /\ files \subseteq Names /\ logs \subseteq Names
  /\ task \in [Slots -> Task]
  /\ \A t \in Slots : task[t].pc \notin {"idle", "resolve"} =>
       /\ task[t].base \in Names
       /\ task[t].tries \in 1 .. Len(Candidates[task[t].base])
  /\ \A t \in Slots : task[t].pc = "resolve" =>
       task[t].site \in Domains /\ task[t].tries = 1
  /\ orphans \subseteq Names
  /\ disputed \subseteq Names

\* CreateDatabase leaks no database file: each n.db in DatabasesRoot belongs to a
\* recorded SQLite database or to a request that will still record or remove it, unless a
\* crash or a failed removal left it behind.  It does leave logs (n.db-wal, n.db-shm) after
\* each failed creation; but none is left beside a file that is being created.
NoLeakedFile ==
  /\ \A n \in files : SqliteRow(n) \/ n \in orphans \/ \E t \in Slots : Holds(t, n)
  /\ \A n \in logs \cap files : SqliteRow(n) \/ n \in orphans

\* A database recorded as ready has its file, when no second request was creating
\* a database of that name at the same time.
ReadyHasFile == \A n \in Names \ disputed : SqliteRow(n) => n \in files

\* A file left behind blocks its name for good: no later request ever removes it,
\* adopts it, or records a database under that name.
OrphansBlockName == \A n \in orphans \ disputed : n \in files /\ ~SqliteRow(n)

\* A request never passes over a free name: the candidates before the one it
\* settled on are all recorded, by whichever service recorded them.
EarlierNamesTaken ==
  \A t \in Slots : task[t].pc \notin {"idle", "resolve"} =>
    \A i \in 1 .. task[t].tries - 1 : databases[Candidates[task[t].base][i]] # NoRow

\* Every request is answered, unless the server dies first.
EveryRequestReturns == \A t \in Slots : task[t].pc # "idle" ~> task[t].pc = "idle"

-----------------------------------------------------------------------------
\* QuickActionsPanel.vue tells the user that a real SQLite database file and its
\* metadata record were created: a ready record without its file contradicts it.
FileBehindEveryRecord == \A n \in Names : SqliteRow(n) => n \in files

\* ListDatabases scans site_id into an int64, so one record without a site makes
\* the listing fail; the form offers such a "Standalone database" to the user.
ListDatabasesAnswers == \A n \in Names : databases[n] # NoRow => databases[n].site # NoSite
=============================================================================
