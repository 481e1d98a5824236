------------------------------ MODULE Operations ------------------------------
(***************************************************************************)
(* ServerService and SecurityService in one server: the requests of both   *)
(* run beside each other on the one table of sites, and a restart of the   *)
(* panel, which a request of the one asks for, cuts off those of both.     *)
(***************************************************************************)
EXTENDS Naturals

CONSTANTS
  Slots,                                                  \* the requests, of any kind
  Domains, NoDomain, Files, NoFile, SiteOf, Scannable, Writable, Present, Stored,
  NoReport, Empty, Mixed,
  Services, Panel, NoService, Commands, InContainer, Limit,
  Horizon,                 \* bound of the model: the last second
  Requests, Changes,       \* bounds of the model: requests, and changes around them
  Scopes, Restarts,        \* bounds of the model: the scopes of scans and the services
  Overviews,               \* restarted in each slot, and the slots for overviews
  Faults

VARIABLES
  content, now, reports, scan, reused,           \* of SecurityService
  deleted, backups, call, pending, view,         \* of ServerService
  registered,                                    \* shared: the table sites
  begun, changes                                 \* how many requests, changes there were

scanVars == <<content, now, reports, scan, reused>>
serverVars == <<deleted, backups, call, pending, view>>
vars == <<scanVars, serverVars, registered, begun, changes>>

Scans == INSTANCE SecurityService WITH Faults <- Faults \cap {"statement", "read", "write"}
Server == INSTANCE ServerService WITH Faults <- Faults \cap {"statement", "inherited"}

ASSUME ConstantsOK ==
  /\ Scans!ConstantsOK /\ Server!ConstantsOK
  /\ Scopes \in [Slots -> SUBSET (Domains \cup {NoDomain})]
  /\ Restarts \in [Slots -> SUBSET Services]

-----------------------------------------------------------------------------
Busy(t) == scan[t].pc # "idle" \/ call[t].pc # "idle" \/ view[t].pc # "idle"

Init == Scans!Init /\ Server!Init /\ begun = 0 /\ changes = 0

\* A request of any kind takes a slot of its own.
Request(t) ==
  /\ ~Busy(t)
  /\ begun < Requests /\ begun' = begun + 1 /\ UNCHANGED changes
  /\ \/ \E scope \in Scopes[t] : Scans!Begin(t, scope) /\ UNCHANGED serverVars
     \/ /\ UNCHANGED scanVars
        /\ \/ \E s \in Restarts[t] : Server!Begin(t, s)
           \/ t \in Overviews /\ Server!BeginOverview(t)

Step(t) ==
  /\ UNCHANGED <<begun, changes>>
  /\ \/ Scans!Step(t) /\ UNCHANGED serverVars
     \/ Server!Step(t) /\ UNCHANGED scanVars

\* What a request owes to processes outside the panel, which nothing obliges: one that
\* a restart command left behind takes the output of the command with it, or lets go
\* of it, and one that writes to a pipe ends the reading of it.
OutsideProcess(t) ==
  /\ UNCHANGED <<begun, changes>>
  /\ \/ (Server!OutputInherited(t) \/ Server!Release(t)) /\ UNCHANGED scanVars
     \/ Scans!ReadReleased(t) /\ UNCHANGED serverVars

\* The restart of the panel ends the process that the scans run in.
PanelRestarts ==
  /\ Server!PanelRestarts
  /\ scan' = [t \in Slots |-> Scans!AtRest]
  /\ UNCHANGED <<content, now, reports, reused, begun, changes>>

Environment ==
  /\ changes < Changes /\ changes' = changes + 1 /\ UNCHANGED begun
  /\ \/ UNCHANGED scanVars /\ \E d \in Domains : Server!RegisterSite(d) \/ Server!DeleteSite(d)
     \/ UNCHANGED scanVars /\ Server!RecordBackup
     \/ UNCHANGED serverVars /\ \E f \in Files, c \in Scans!Contents : Scans!EditFile(f, c)
     \/ UNCHANGED serverVars /\ Scans!Tick

Next ==
  \/ \E t \in Slots : Request(t) \/ Step(t) \/ OutsideProcess(t)
  \/ PanelRestarts
  \/ Environment

Spec == Init /\ [][Next]_vars

\* The server runs every request that can go on, the timer of a restart included; no
\* process outside it is obliged to anything.
Fairness == \A t \in Slots : WF_vars(Step(t))

FairSpec == Spec /\ Fairness

-----------------------------------------------------------------------------
\* The types of both services.
TypeOK == Scans!TypeOK /\ Server!TypeOK

\* See the modules of the services.
SteadySignaturesAreFound == Scans!SteadySignaturesAreFound
AnsweredReport == Scans!AnsweredReport
AnswerAccountsForRestarts == Server!AnswerAccountsForRestarts
OverviewAgreesWithItself == Server!OverviewAgreesWithItself

\* Every request comes to its end, though a host may never answer a restart command
\* and files change under a scan, with two exceptions.  CombinedOutput waits with no
\* limit for a command that left its output to a process that goes on; and os.ReadFile
\* does for the data of a named pipe or a device that has the name of a script.
EveryRequestReturns ==
  \A t \in Slots :
    Busy(t) ~> (~Busy(t) \/ call[t].pc = "inherited" \/ scan[t].pc = "blocked")
=============================================================================
