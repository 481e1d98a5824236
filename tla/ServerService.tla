----------------------------- MODULE ServerService -----------------------------
(***************************************************************************)
(* RestartService and DashboardOverview (services/server_service.go).      *)
(*                                                                         *)
(* A restart tries the commands of a service in turn: one that is not      *)
(* found or does not exit with zero within 20 seconds gives way to the     *)
(* next.  A command only asks the host: what the host has taken on outlives*)
(* a command that is killed and the server itself, and CombinedOutput      *)
(* waits for whoever inherited the output of the command, however long.    *)
(* The first command for the panel in a container leaves a shell behind    *)
(* that stops the server a second later; any other restart of the panel    *)
(* stops the server while it waits for the command.                        *)
(*                                                                         *)
(* The overview is made of counts and lists, each read by a statement of   *)
(* its own.  A count that fails is zero.                                   *)
(***************************************************************************)
EXTENDS Naturals, FiniteSetsExt

CONSTANTS
  Slots,        \* the requests the server handles at once
  Domains,      \* the sites there may be
  Present,      \* the sites there are when the server starts
  Services,     \* restartableServices
  Panel,        \* the service that is the server itself
  NoService,
  Commands,     \* the number of commands for each service
  InContainer,  \* runningInContainer
  Limit,        \* the length of the recent lists
  Faults        \* the kinds of failure that may happen

FaultKinds == {"statement", "inherited"}

ConstantsOK ==
  /\ Present \subseteq Domains /\ IsFiniteSet(Present)
  /\ NoService \notin Services /\ Panel \in Services
  /\ Commands \in [Services -> Nat \ {0}]
  /\ InContainer \in BOOLEAN
  /\ Limit \in Nat \ {0}
  /\ Faults \subseteq FaultKinds

VARIABLES
  registered,  \* the domains that have a row in the table sites
  deleted,     \* those among them that are marked as deleted
  backups,     \* the number of rows in the table backups
  call,        \* each call of RestartService
  pending,     \* a restart of the panel that nobody waits for is still to come
  view         \* each call of DashboardOverview

tables == <<registered, deleted, backups>>
vars == <<tables, call, pending, view>>

-----------------------------------------------------------------------------
Labels == {"idle", "look", "run", "output", "inherited", "done"}
JobStates == {"none", "queued", "carried"}
Outcomes == {"failed", "completed"}
ViewLabels == {"idle", "sites", "backups", "listSites", "listBackups", "done"}

\* asked is history: the jobs the host has taken on from the commands of the call.
AtRest ==
  [pc |-> "idle", service |-> NoService, command |-> 1, job |-> "none",
   outcome |-> "failed", failed |-> 0, asked |-> 0]

\* before and unknown are history: the backups there were when the call began, and
\* whether a count failed.
Blank ==
  [pc |-> "idle", sites |-> 0, backups |-> 0, recentSites |-> 0, recentBackups |-> 0,
   before |-> 0, unknown |-> FALSE]

\* The command whose effect comes after it has exited.
Deferred(t) == InContainer /\ call[t].service = Panel /\ call[t].command = 1

Recent(n) == Min({n, Limit})
NoBackupsYet(v) == view[v].backups = 0

\* The command of a call has ended, and the host goes on with what it has taken on.
LeaveToHost(t) ==
  pending' = (pending \/ (call[t].job = "queued" /\ call[t].service = Panel))

-----------------------------------------------------------------------------
(* Faulty variants of single actions, each the code with one plausible bug. *)

\* AnswerAccountsForRestarts: the loop goes on after a command that succeeded.
OutputClosesAndGoesOn(t) ==
  /\ call[t].pc = "output"
  /\ IF call[t].command = Commands[call[t].service]
     THEN call' = [call EXCEPT ![t].pc = "done"]
     ELSE call' = [call EXCEPT ![t].pc = "look", ![t].command = @ + 1, ![t].job = "none"]
  /\ UNCHANGED <<tables, pending, view>>

\* EveryRequestReturns: a command that failed is tried again.
OutputClosesAndRetries(t) ==
  /\ call[t].pc = "output"
  /\ call' = IF call[t].outcome = "completed" THEN [call EXCEPT ![t].pc = "done"]
             ELSE [call EXCEPT ![t].pc = "look", ![t].job = "none"]
  /\ UNCHANGED <<tables, pending, view>>

\* TypeOK: the last command that is not found is passed over like the others.
UnavailablePassesOver(t) ==
  /\ call[t].pc = "look"
  /\ call' = [call EXCEPT ![t].command = @ + 1]
  /\ UNCHANGED <<tables, pending, view>>

\* OverviewAgreesWithItself: the recent sites leave out the deleted ones.
ListActiveSites(v) ==
  /\ view[v].pc = "listSites"
  /\ view' = [view EXCEPT ![v].pc = "listBackups",
                ![v].recentSites = Recent(Cardinality(registered \ deleted))]
  /\ UNCHANGED <<tables, call, pending>>

-----------------------------------------------------------------------------
Init ==
  /\ registered = Present
  /\ deleted = {}
  /\ backups = 0
  /\ call = [t \in Slots |-> AtRest]
  /\ pending = FALSE
  /\ view = [v \in Slots |-> Blank]

Begin(t, s) ==
  /\ call[t].pc = "idle"
  /\ call' = [call EXCEPT ![t].pc = "look", ![t].service = s]
  /\ UNCHANGED <<tables, pending, view>>

\* exec.LookPath does not find the command, or the command is started.
Unavailable(t) ==
  /\ call[t].pc = "look"
  /\ IF call[t].command = Commands[call[t].service]
     THEN call' = [call EXCEPT ![t].pc = "done"]
     ELSE call' = [call EXCEPT ![t].command = @ + 1]
  /\ UNCHANGED <<tables, pending, view>>

StartCommand(t) ==
  /\ call[t].pc = "look"
  /\ call' = [call EXCEPT ![t].pc = "run"]
  /\ UNCHANGED <<tables, pending, view>>

\* The command hands its job to the host, or leaves its shell behind.
HostAccepts(t) ==
  /\ call[t].pc = "run" /\ call[t].job = "none"
  /\ call' = [call EXCEPT ![t].job = "queued", ![t].asked = @ + 1]
  /\ UNCHANGED <<tables, pending, view>>

\* The host stops and starts the service, with or without success.
HostRestarts(t) ==
  /\ call[t].pc = "run" /\ call[t].job = "queued"
  /\ call[t].service # Panel
  /\ call' = [call EXCEPT ![t].job = "carried"]
  /\ UNCHANGED <<tables, pending, view>>

CommandSucceeds(t) ==
  /\ call[t].pc = "run"
  /\ IF Deferred(t) THEN call[t].job = "queued" ELSE call[t].job = "carried"
  /\ LeaveToHost(t)
  /\ call' = [call EXCEPT ![t].pc = "output", ![t].outcome = "completed"]
  /\ UNCHANGED <<tables, view>>

\* The service is not known to the host, or did not come up again.
CommandFails(t) ==
  /\ call[t].pc = "run" /\ call[t].job # "queued"
  /\ call' = [call EXCEPT ![t].pc = "output"]
  /\ UNCHANGED <<tables, pending, view>>

\* The context kills the command; a job that the host has taken on goes on.
TimesOut(t) ==
  /\ call[t].pc = "run"
  /\ LeaveToHost(t)
  /\ call' = [call EXCEPT ![t].pc = "output"]
  /\ UNCHANGED <<tables, view>>

\* CombinedOutput returns, once nobody holds the output of the command any more.
OutputCloses(t) ==
  /\ call[t].pc = "output"
  /\ \/ /\ call[t].outcome = "completed"
        /\ call' = [call EXCEPT ![t].pc = "done"]
     \/ /\ call[t].outcome = "failed" /\ call[t].command = Commands[call[t].service]
        /\ call' = [call EXCEPT ![t].pc = "done", ![t].failed = @ + 1]
     \/ /\ call[t].outcome = "failed" /\ call[t].command # Commands[call[t].service]
        /\ call' = [call EXCEPT ![t].pc = "look", ![t].command = @ + 1, ![t].job = "none",
                       ![t].failed = @ + 1]
  /\ UNCHANGED <<tables, pending, view>>

\* A process that the command has started keeps its output open.
OutputInherited(t) ==
  /\ "inherited" \in Faults
  /\ call[t].pc = "output"
  /\ call' = [call EXCEPT ![t].pc = "inherited"]
  /\ UNCHANGED <<tables, pending, view>>

Release(t) ==
  /\ call[t].pc = "inherited"
  /\ call' = [call EXCEPT ![t].pc = "output"]
  /\ UNCHANGED <<tables, pending, view>>

\* handler.restartService hands the result out.
Answer(t) ==
  /\ call[t].pc = "done"
  /\ call' = [call EXCEPT ![t] = AtRest]
  /\ UNCHANGED <<tables, pending, view>>

\* The host restarts the panel, for a call that still waits for it or not any more,
\* and every request under way is cut off.
PanelRestarts ==
  /\ \/ pending
     \/ \E t \in Slots : call[t].pc = "run" /\ call[t].job = "queued" /\ call[t].service = Panel
  /\ pending' = FALSE
  /\ call' = [t \in Slots |-> AtRest]
  /\ view' = [v \in Slots |-> Blank]
  /\ UNCHANGED tables

-----------------------------------------------------------------------------
BeginOverview(v) ==
  /\ view[v].pc = "idle"
  /\ view' = [view EXCEPT ![v].pc = "sites", ![v].before = backups]
  /\ UNCHANGED <<tables, call, pending>>

\* Status counts the sites that are not marked as deleted, and the backups; the
\* count of the databases is compared with nothing and left out.
CountSites(v) ==
  /\ view[v].pc = "sites"
  /\ \/ view' = [view EXCEPT ![v].pc = "backups", ![v].sites = Cardinality(registered \ deleted)]
     \/ "statement" \in Faults /\ view' = [view EXCEPT ![v].pc = "backups"]
  /\ UNCHANGED <<tables, call, pending>>

CountBackups(v) ==
  /\ view[v].pc = "backups"
  /\ \/ view' = [view EXCEPT ![v].pc = "listSites", ![v].backups = backups]
     \/ /\ "statement" \in Faults
        /\ view' = [view EXCEPT ![v].pc = "listSites", ![v].unknown = TRUE]
  /\ UNCHANGED <<tables, call, pending>>

\* listRecentSites does not ask for the status of a site.
ListSites(v) ==
  /\ view[v].pc = "listSites"
  /\ view' = [view EXCEPT ![v].pc = "listBackups",
                ![v].recentSites = Recent(Cardinality(registered))]
  /\ UNCHANGED <<tables, call, pending>>

ListBackups(v) ==
  /\ view[v].pc = "listBackups"
  /\ view' = [view EXCEPT ![v].pc = "done", ![v].recentBackups = Recent(backups)]
  /\ UNCHANGED <<tables, call, pending>>

OverviewFails(v) ==
  /\ "statement" \in Faults
  /\ view[v].pc \in {"listSites", "listBackups"}
  /\ view' = [view EXCEPT ![v] = Blank]
  /\ UNCHANGED <<tables, call, pending>>

AnswerOverview(v) ==
  /\ view[v].pc = "done"
  /\ view' = [view EXCEPT ![v] = Blank]
  /\ UNCHANGED <<tables, call, pending>>

-----------------------------------------------------------------------------
\* What the server does about a call, and what the host does about it.
Step(t) ==
  \/ Unavailable(t) \/ StartCommand(t)
  \/ HostAccepts(t) \/ HostRestarts(t)
  \/ CommandSucceeds(t) \/ CommandFails(t) \/ TimesOut(t)
  \/ OutputCloses(t) \/ Answer(t)
  \/ CountSites(t) \/ CountBackups(t) \/ ListSites(t) \/ ListBackups(t)
  \/ OverviewFails(t) \/ AnswerOverview(t)

\* CreateSite, DeleteSite and CreateBackup, by their effect on the tables.
RegisterSite(d) ==
  /\ d \notin registered
  /\ registered' = registered \cup {d}
  /\ UNCHANGED <<deleted, backups, call, pending, view>>

DeleteSite(d) ==
  /\ d \in registered \ deleted
  /\ deleted' = deleted \cup {d}
  /\ UNCHANGED <<registered, backups, call, pending, view>>

RecordBackup ==
  /\ backups' = backups + 1
  /\ UNCHANGED <<registered, deleted, call, pending, view>>

Next ==
  \/ \E t \in Slots, s \in Services : Begin(t, s)
  \/ \E t \in Slots : BeginOverview(t) \/ Step(t) \/ OutputInherited(t) \/ Release(t)
  \/ PanelRestarts
  \/ \E d \in Domains : RegisterSite(d) \/ DeleteSite(d)
  \/ RecordBackup

Spec == Init /\ [][Next]_vars

-----------------------------------------------------------------------------
Call ==
  [pc : Labels, service : Services \cup {NoService}, command : Nat \ {0},
   job : JobStates, outcome : Outcomes, failed : Nat, asked : Nat]

View ==
  [pc : ViewLabels, sites : Nat, backups : Nat, recentSites : 0 .. Limit,
   recentBackups : 0 .. Limit, before : Nat, unknown : BOOLEAN]

\* The types of the variables; a call under way is at one of the commands of its
\* service.
TypeOK ==
  /\ registered \subseteq Domains
  /\ deleted \subseteq registered
  /\ backups \in Nat
  /\ call \in [Slots -> Call]
  /\ pending \in BOOLEAN
  /\ view \in [Slots -> View]
  /\ \A t \in Slots : call[t].pc # "idle" =>
       call[t].service \in Services /\ call[t].command \in 1 .. Commands[call[t].service]

\* Whoever reads an answer of RestartService knows how often the host was asked for
\* a restart at most: once for each attempt that failed, and once more if the answer
\* is completed.  It is only completed when the service has been restarted; a panel
\* that is restarted never gets to answer so, but in a container, where the restart
\* is still to come.
AnswerAccountsForRestarts ==
  \A t \in Slots : call[t].pc = "done" =>
    IF call[t].outcome = "completed"
    THEN /\ call[t].asked \in 1 .. call[t].failed + 1
         /\ Deferred(t) \/ (call[t].job = "carried" /\ call[t].service # Panel)
    ELSE call[t].asked <= call[t].failed

\* Although its parts are read one after the other while sites and backups come and
\* go, no count of an overview exceeds the list beside it, and it says that there are
\* no backups yet only if there were none when it began or they could not be counted.
OverviewAgreesWithItself ==
  \A v \in Slots : view[v].pc = "done" =>
    /\ Recent(view[v].sites) <= view[v].recentSites
    /\ Recent(view[v].backups) <= view[v].recentBackups
    /\ NoBackupsYet(v) => view[v].before = 0 \/ view[v].unknown
=============================================================================
