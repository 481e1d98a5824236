---------------------------- MODULE BackupService ----------------------------
(***************************************************************************)
(* CreateBackup (services/backup_service.go): a call archives the          *)
(* directory of a site into a file named after the second it starts in,    *)
(* records the archive in the table backups and writes the time into every *)
(* database of the site.  The calls of the server and of the command line  *)
(* tool interleave, and nothing but the second in its name keeps their     *)
(* archives apart.  A site is its domain, as in SiteService.               *)
(*                                                                         *)
(* The contents of an archive are abstracted to how they came about.       *)
(* archiveDirectory drops the errors of its three deferred Close calls, so *)
(* an archive may be left short (the disk is full, or the last file shrank *)
(* while it was copied) by a call that goes on as if it were whole.        *)
(***************************************************************************)
EXTENDS Integers

CONSTANTS
  Slots,      \* the calls of CreateBackup that may be under way at once
  Processes,  \* the server and the command line tool
  Owner,      \* the process a call runs in
  Domains,    \* the domains of sites
  Names,      \* database names
  NoSite,     \* a NULL site_id
  Horizon,    \* bound of the model: the last second
  Faults      \* the kinds of failure that may happen

FaultKinds == {"statement", "close", "crash"}
Seconds == 0 .. Horizon

\* A time not yet taken, and the empty last_backup_at.
Never == -1

ASSUME ConstantsOK ==
  /\ Owner \in [Slots -> Processes]
  /\ NoSite \notin Domains
  /\ Horizon \in Nat
  /\ Faults \subseteq FaultKinds

VARIABLES
  now,         \* the clock, in seconds
  sites,       \* the domains that have a row in the table sites
  site,        \* the table databases: the site of each row
  lastBackup,  \* the table databases: last_backup_at of each row
  backups,     \* the table backups: domain, second in the path, created_at
  archives,    \* the state of the file of each domain and second
  work,        \* what each call is about to do
  reused,      \* history: archives created anew while a call or a row had them
  overlapped   \* history: domains two calls were recording backups of at once

vars == <<now, sites, site, lastBackup, backups, archives, work, reused, overlapped>>
Tables == <<sites, site, lastBackup, backups>>
History == <<reused, overlapped>>

-----------------------------------------------------------------------------
Labels == {"idle", "lookup", "name", "create", "walk", "time", "insert", "update"}

\* The call has taken the time it will record.
RecordingLabels == {"insert", "update"}

\* The call has created its archive and still answers for it.
HoldingLabels == {"walk", "time"} \cup RecordingLabels

ArchiveStates == {"none", "partial", "mixed", "whole", "short"}

AtRest == [pc |-> "idle", domain |-> NoSite, stamp |-> Never, created |-> Never]

Path(c) == <<work[c].domain, work[c].stamp>>
Holding(c, path) == work[c].pc \in HoldingLabels /\ Path(c) = path
Writing(c, path) == work[c].pc = "walk" /\ Path(c) = path
Recording(c, d) == work[c].pc \in RecordingLabels /\ work[c].domain = d
Recorded(path) == \E b \in backups : b.path = path

GoTo(c, label) == work' = [work EXCEPT ![c].pc = label]
Return(c) == work' = [work EXCEPT ![c] = AtRest]

-----------------------------------------------------------------------------
(* Faulty variants of single actions, each the code with one plausible bug. *)

\* TypeOK: the size is looked at, the time is not.
TakeNoTime(c) ==
  /\ work[c].pc = "time"
  /\ GoTo(c, "insert")
  /\ UNCHANGED <<now, Tables, archives, History>>

\* RecordedIsWhole: the error of filepath.Walk is dropped.
WalkFailsUnseen(c) ==
  /\ work[c].pc = "walk"
  /\ GoTo(c, "time")
  /\ UNCHANGED <<now, Tables, archives, History>>

\* LastBackupIsRecorded: the databases are updated before the backup is recorded.
TakeTimeThenUpdate(c) ==
  /\ work[c].pc = "time"
  /\ work' = [work EXCEPT ![c].pc = "update", ![c].created = now]
  /\ overlapped' = IF \E u \in Slots : Recording(u, work[c].domain)
                   THEN overlapped \cup {work[c].domain} ELSE overlapped
  /\ UNCHANGED <<now, Tables, archives, reused>>

\* LastBackupAdvances: the second in the name is recorded, not the one of completion.
UpdateDatabasesWithStamp(c) ==
  /\ work[c].pc = "update"
  /\ lastBackup' = [n \in Names |->
       IF site[n] = work[c].domain THEN work[c].stamp ELSE lastBackup[n]]
  /\ Return(c)
  /\ UNCHANGED <<now, sites, site, backups, archives, History>>

-----------------------------------------------------------------------------
Init ==
  /\ now = 0
  /\ sites = {}
  /\ site = [n \in Names |-> NoSite]
  /\ lastBackup = [n \in Names |-> Never]
  /\ backups = {}
  /\ archives = [path \in Domains \X Seconds |-> "none"]
  /\ work = [c \in Slots |-> AtRest]
  /\ reused = {}
  /\ overlapped = {}

Begin(c, d) ==
  /\ work[c].pc = "idle"
  /\ work' = [work EXCEPT ![c].pc = "lookup", ![c].domain = d]
  /\ UNCHANGED <<now, Tables, archives, History>>

\* GetSiteByDomain: deleted sites are backed up as well.
SiteFound(c) ==
  /\ work[c].pc = "lookup"
  /\ work[c].domain \in sites
  /\ GoTo(c, "name")
  /\ UNCHANGED <<now, Tables, archives, History>>

UnknownSite(c) ==
  /\ work[c].pc = "lookup"
  /\ work[c].domain \notin sites
  /\ Return(c)
  /\ UNCHANGED <<now, Tables, archives, History>>

\* The archive is named after the current second.
NameArchive(c) ==
  /\ work[c].pc = "name"
  /\ work' = [work EXCEPT ![c].pc = "create", ![c].stamp = now]
  /\ UNCHANGED <<now, Tables, archives, History>>

\* os.Create empties the file if it exists, whoever it belongs to; two calls that
\* write at the same time overwrite each other's bytes.
CreateArchive(c) ==
  /\ work[c].pc = "create"
  /\ archives' = [archives EXCEPT ![Path(c)] =
       IF \E u \in Slots : Writing(u, Path(c)) THEN "mixed" ELSE "partial"]
  /\ reused' = IF Recorded(Path(c)) \/ \E u \in Slots : Holding(u, Path(c))
               THEN reused \cup {Path(c)} ELSE reused
  /\ GoTo(c, "walk")
  /\ UNCHANGED <<now, Tables, overlapped>>

WalkEnds(c) ==
  /\ work[c].pc = "walk"
  /\ archives' = [archives EXCEPT ![Path(c)] = IF @ = "partial" THEN "whole" ELSE @]
  /\ GoTo(c, "time")
  /\ UNCHANGED <<now, Tables, History>>

\* The walk reads every file, and one of the deferred Close calls fails unseen.
CloseFails(c) ==
  /\ "close" \in Faults
  /\ work[c].pc = "walk"
  /\ archives' = [archives EXCEPT ![Path(c)] = IF @ = "partial" THEN "short" ELSE @]
  /\ GoTo(c, "time")
  /\ UNCHANGED <<now, Tables, History>>

\* The walk fails on a file: the call ends and what it has written stays.
WalkFails(c) ==
  /\ work[c].pc = "walk"
  /\ Return(c)
  /\ UNCHANGED <<now, Tables, archives, History>>

\* os.Stat for the size, then the time that both tables will carry.
TakeTime(c) ==
  /\ work[c].pc = "time"
  /\ work' = [work EXCEPT ![c].pc = "insert", ![c].created = now]
  /\ overlapped' = IF \E u \in Slots : Recording(u, work[c].domain)
                   THEN overlapped \cup {work[c].domain} ELSE overlapped
  /\ UNCHANGED <<now, Tables, archives, reused>>

InsertBackup(c) ==
  /\ work[c].pc = "insert"
  /\ backups' = backups \cup {[path |-> Path(c), created |-> work[c].created]}
  /\ GoTo(c, "update")
  /\ UNCHANGED <<now, sites, site, lastBackup, archives, History>>

\* UPDATE databases ... WHERE site_id: all the rows the site has by then.
UpdateDatabases(c) ==
  /\ work[c].pc = "update"
  /\ lastBackup' = [n \in Names |->
       IF site[n] = work[c].domain THEN work[c].created ELSE lastBackup[n]]
  /\ Return(c)
  /\ UNCHANGED <<now, sites, site, backups, archives, History>>

\* A statement or a file operation fails; its error is returned, nothing is undone.
CallFails(c) ==
  /\ "statement" \in Faults
  /\ work[c].pc \notin {"idle", "walk"}
  /\ Return(c)
  /\ UNCHANGED <<now, Tables, archives, History>>

Crash(p) ==
  /\ "crash" \in Faults
  /\ work' = [c \in Slots |-> IF Owner[c] = p THEN AtRest ELSE work[c]]
  /\ UNCHANGED <<now, Tables, archives, History>>

\* The other services: a site is recorded, a database is recorded.
RegisterSite(d) ==
  /\ sites' = sites \cup {d}
  /\ UNCHANGED <<now, site, lastBackup, backups, archives, work, History>>

RecordDatabase(n, d) ==
  /\ d \in sites
  /\ site[n] = NoSite
  /\ site' = [site EXCEPT ![n] = d]
  /\ UNCHANGED <<now, sites, lastBackup, backups, archives, work, History>>

Tick ==
  /\ now < Horizon
  /\ now' = now + 1
  /\ UNCHANGED <<Tables, archives, work, History>>

-----------------------------------------------------------------------------
Step(c) ==
  \/ SiteFound(c) \/ UnknownSite(c)
  \/ NameArchive(c) \/ CreateArchive(c)
  \/ WalkEnds(c) \/ CloseFails(c) \/ WalkFails(c)
  \/ TakeTime(c) \/ InsertBackup(c) \/ UpdateDatabases(c)
  \/ CallFails(c)

Next ==
  \/ \E c \in Slots, d \in Domains : Begin(c, d)
  \/ \E c \in Slots : Step(c)
  \/ \E p \in Processes : Crash(p)
  \/ \E d \in Domains : RegisterSite(d)
  \/ \E n \in Names, d \in Domains : RecordDatabase(n, d)
  \/ Tick

Spec == Init /\ [][Next]_vars

-----------------------------------------------------------------------------
Backup == [path : Domains \X Seconds, created : Seconds]
Call == [pc : Labels, domain : Domains \cup {NoSite},
         stamp : Seconds \cup {Never}, created : Seconds \cup {Never}]

\* The types of the variables; a call has its domain, the name of its archive and
\* the time it records from the steps on that get them.
TypeOK ==
  /\ now \in Seconds
  /\ sites \subseteq Domains
  /\ site \in [Names -> Domains \cup {NoSite}]
  /\ lastBackup \in [Names -> Seconds \cup {Never}]
  /\ backups \subseteq Backup
  /\ archives \in [Domains \X Seconds -> ArchiveStates]
  /\ work \in [Slots -> Call]
  /\ \A c \in Slots :
       /\ work[c].pc # "idle" => work[c].domain \in Domains
       /\ work[c].pc \in {"create"} \cup HoldingLabels => work[c].stamp \in Seconds
       /\ work[c].pc \in RecordingLabels => work[c].created \in Seconds
  /\ reused \subseteq Domains \X Seconds
  /\ overlapped \subseteq Domains

\* A backup recorded as completed has its archive, whole, whatever failed: only a
\* second call in the same second can spoil it, or an error when closing it, which
\* leaves it short.
RecordedIsWhole ==
  \A b \in backups : b.path \in reused \/ archives[b.path] \in {"whole", "short"}

\* The time a database shows as its last backup is that of a recorded backup of its
\* own site, wherever a call was cut off.
LastBackupIsRecorded ==
  \A n \in Names : lastBackup[n] # Never =>
    \E b \in backups : b.path[1] = site[n] /\ b.created = lastBackup[n]

\* That time never goes back, unless two calls were recording backups of the site at
\* once: then the one that took its time first may write last.
LastBackupAdvances ==
  [][\A n \in Names : site[n] \notin overlapped => lastBackup[n] <= lastBackup'[n]]_vars
=============================================================================
