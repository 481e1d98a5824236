----------------------------- MODULE Provisioning -----------------------------
(***************************************************************************)
(* SiteService and DatabaseService on the one panel database they share:   *)
(* the rows that one writes are the environment of the other.  The site    *)
(* service runs in the server and in the command line tool, the database   *)
(* service only in the server, which takes both down when it dies.         *)
(***************************************************************************)
EXTENDS Naturals, Sequences

CONSTANTS
  Jobs, Tasks,                  \* calls of CreateSite, calls of CreateDatabase
  Processes, Server, Owner,     \* Server is the process all Tasks run in
  Domains, Names, NoSite, NoName, NoRow, NoPlan, Torn,
  DbName, SiteBase, Candidates,
  Versions, Supported, Requests,
  Faults

VARIABLES
  sites, dirs, plans, job, answers, rivalled, changed,  \* of SiteService
  files, logs, task, orphans, disputed,                 \* of DatabaseService
  databases,                                            \* shared: the table databases
  lost          \* history: domains whose call was cut off after their INSERT

siteVars == <<sites, dirs, plans, job, answers, rivalled, changed>>
databaseVars == <<files, logs, task, orphans, disputed>>
vars == <<siteVars, databaseVars, databases, lost>>

\* The sites that DatabaseService can resolve are the rows SiteService inserted.
Registered == {d \in Domains : sites[d] # NoRow}

S == INSTANCE SiteService WITH Slots <- Jobs, Faults <- Faults \cap {"statement", "crash"}
D == INSTANCE DatabaseService WITH Slots <- Tasks, known <- Registered

ASSUME ConstantsOK == S!ConstantsOK /\ D!ConstantsOK /\ Server \in Processes

-----------------------------------------------------------------------------
(* Faulty variants of single actions, each the code with one plausible bug. *)

\* SiteServiceSpec: CreateDatabase records its row with an upsert.
DatabaseStepUpserts(t) ==
  /\ UNCHANGED <<siteVars, lost>>
  /\ \/ D!Step(t)
     \/ /\ task[t].pc = "insert"
        /\ databases' = [databases EXCEPT ![D!Candidate(t)] =
                           [site |-> task[t].site, engine |-> "sqlite"]]
        /\ D!GoTo(t, "close")
        /\ UNCHANGED <<files, logs, orphans, disputed>>

\* DatabaseServiceSpec: CreateSite records its row with an upsert.
SiteStepUpserts(s) ==
  /\ UNCHANGED <<databaseVars, lost>>
  /\ \/ S!Step(s)
     \/ /\ job[s].pc = "database"
        /\ databases' = [databases EXCEPT ![DbName[job[s].domain]] = S!PlannedRow(job[s].domain)]
        /\ S!Return(s)
        /\ UNCHANGED <<sites, dirs, plans, answers, rivalled, changed>>

-----------------------------------------------------------------------------
Init == S!Init /\ D!Init /\ lost = {}

SiteStep(s) ==
  /\ S!Step(s)
  /\ UNCHANGED databaseVars
  /\ lost' = lost \cup {d \in Domains : S!Completing(s, d) /\ S!StepFails(s)}

DatabaseStep(t) == UNCHANGED <<siteVars, lost>> /\ D!Step(t)

\* A process dies: calls of CreateSite run in both, CreateDatabase in the server.
Crash(p) ==
  /\ S!Crash(p)
  /\ IF p = Server THEN D!Crash ELSE UNCHANGED databaseVars
  /\ lost' = lost \cup {d \in Domains : \E s \in Jobs : Owner[s] = p /\ S!Completing(s, d)}

SiteRequest ==
  /\ \/ \E s \in Jobs, d \in Domains, config \in Requests : S!Begin(s, d, config)
     \/ \E d \in Domains : S!DeleteSite(d)
     \/ \E d \in Domains, v \in Versions : S!ChangeVersion(d, v)
  /\ UNCHANGED <<databaseVars, lost>>

DatabaseRequest ==
  /\ UNCHANGED <<siteVars, lost>>
  /\ \E t \in Tasks, d \in Domains \cup {NoSite}, n \in Names \cup {NoName} : D!Begin(t, d, n)

Next ==
  \/ \E s \in Jobs : SiteStep(s)
  \/ \E t \in Tasks : DatabaseStep(t)
  \/ \E p \in Processes : Crash(p)
  \/ SiteRequest
  \/ DatabaseRequest

Spec == Init /\ [][Next]_vars

\* Every process runs the calls that can go on.
Fairness ==
  /\ \A s \in Jobs : WF_vars(SiteStep(s))
  /\ \A t \in Tasks : WF_vars(DatabaseStep(t))

FairSpec == Spec /\ Fairness

-----------------------------------------------------------------------------
\* Each service, seen alone, behaves as its own specification says: what the other
\* one does to the shared table is what that specification allows its environment.
SiteServiceSpec == S!Spec
DatabaseServiceSpec == D!FairSpec

\* The foreign key of the table databases holds although the site is read in one
\* statement and the row inserted in a later one.
ForeignKeysHold ==
  \A n \in Names : databases[n] # NoRow /\ databases[n].site # NoSite =>
    databases[n].site \in Registered

\* A site is left without its database for two reasons only: its call was cut off,
\* or another row had taken the derived name.
StrandedHasReason ==
  \A d \in Domains : S!Stranded(d) => d \in lost \/ databases[DbName[d]] # NoRow

\* The name derived for a recorded site is eventually in use, for the site or for
\* whoever was faster, unless the call was cut off: no call of either service can
\* keep another one waiting.
EverySiteSettles ==
  \A d \in Domains : d \in Registered ~> (d \in lost \/ databases[DbName[d]] # NoRow)
=============================================================================
