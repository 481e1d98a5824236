------------------------ MODULE DatabaseServiceProofs ------------------------
(***************************************************************************)
(* Proofs about DatabaseService, for any number of requests, names, sites  *)
(* and any set of faults.  The two parts of NoLeakedFile are inductive     *)
(* with TypeOK; the other invariants need FileInv below.                   *)
(***************************************************************************)
EXTENDS DatabaseService, TLAPS

\* A request past its resolution stands at a candidate that is a name.
LEMMA CandidateIsName ==
  ASSUME TypeOK, NEW t \in Slots, task[t].pc \notin {"idle", "resolve"}
  PROVE  Candidate(t) \in Names
BY ConstantsOK DEF TypeOK, Candidate

\* What GoTo(t, label) and Return(t) do to the requests, field by field.
LEMMA GoToEffect ==
  ASSUME TypeOK, NEW t \in Slots, NEW label \in Labels, GoTo(t, label)
  PROVE  /\ task' \in [Slots -> Task]
         /\ \A u \in Slots \ {t} : task'[u] = task[u]
         /\ task'[t].pc = label
         /\ task'[t].site = task[t].site
         /\ task'[t].base = task[t].base
         /\ task'[t].tries = task[t].tries
BY DEF TypeOK, GoTo, Task

LEMMA ReturnEffect ==
  ASSUME TypeOK, NEW t \in Slots, Return(t)
  PROVE  /\ task' \in [Slots -> Task]
         /\ \A u \in Slots \ {t} : task'[u] = task[u]
         /\ task'[t].pc = "idle"
BY DEF TypeOK, Return, AtRest, Task, Labels

-----------------------------------------------------------------------------
\* The part of TypeOK that speaks of one request.
Placed(t) ==
  /\ task[t].pc \notin {"idle", "resolve"} =>
       /\ task[t].base \in Names
       /\ task[t].tries \in 1 .. Len(Candidates[task[t].base])
  /\ task[t].pc = "resolve" => task[t].site \in Domains /\ task[t].tries = 1

StoresOK ==
  /\ known \subseteq Domains
  /\ databases \in [Names -> Row \cup {NoRow}]
  /\ files \subseteq Names
  /\ logs \subseteq Names
  /\ orphans \subseteq Names
  /\ disputed \subseteq Names

LEMMA TypeParts ==
  TypeOK <=> StoresOK /\ task \in [Slots -> Task] /\ \A t \in Slots : Placed(t)
BY DEF TypeOK, StoresOK, Placed

\* A step that leaves the other requests alone keeps their part of TypeOK.
LEMMA TypeFrame ==
  ASSUME TypeOK, StoresOK', task' \in [Slots -> Task],
         NEW t \in Slots, \A u \in Slots \ {t} : task'[u] = task[u], Placed(t)'
  PROVE  TypeOK'
<1>1. \A u \in Slots : Placed(u)'
  BY TypeParts DEF Placed
<1> QED  BY <1>1 DEF TypeOK, StoresOK, Placed

\* The variables keep their types: TypeOK of CreateDatabase and its environment.
LEMMA TypeStep == TypeOK /\ [Next]_vars => TypeOK'
<1> SUFFICES ASSUME TypeOK, [Next]_vars PROVE TypeOK'
  OBVIOUS
<1>0. StoresOK /\ task \in [Slots -> Task] /\ \A t \in Slots : Placed(t)
  BY TypeParts
<1>1. ASSUME NEW t \in Slots, NEW d \in Domains \cup {NoSite},
             NEW n \in Names \cup {NoName}, Begin(t, d, n)
      PROVE  TypeOK'
  <2> DEFINE new == [pc |-> IF d = NoSite THEN "probe" ELSE "resolve",
                     site |-> d, base |-> n, tries |-> 1]
  <2>1. new \in Task  BY DEF Task, Labels
  <2>2. /\ task' = [task EXCEPT ![t] = new] /\ UNCHANGED <<Stores, History>>
        /\ d # NoSite \/ n # NoName
    BY <1>1 DEF Begin
  <2> HIDE DEF new
  <2>3. task' \in [Slots -> Task] /\ task'[t] = new /\ \A u \in Slots \ {t} : task'[u] = task[u]
    BY <1>0, <2>1, <2>2
  <2>4. Placed(t)'
    BY <2>2, <2>3, ConstantsOK DEF Placed, new
  <2> QED  BY <1>0, <2>2, <2>3, <2>4, TypeFrame DEF StoresOK, Stores, History
<1>2. ASSUME NEW t \in Slots, Step(t) PROVE TypeOK'
  <2>0. Placed(t) /\ task[t] \in Task  BY <1>0
  <2>a. ASSUME NEW label \in Labels \ {"resolve"}, GoTo(t, label),
               task[t].pc \notin {"idle", "resolve"}, StoresOK'
        PROVE  TypeOK'
    BY <2>a, <2>0, GoToEffect, TypeFrame DEF Placed
  <2>b. ASSUME Return(t), StoresOK' PROVE TypeOK'
    BY <2>b, ReturnEffect, TypeFrame DEF Placed
  <2>c. ASSUME UNCHANGED <<Stores, History>> PROVE StoresOK'
    BY <2>c, <1>0 DEF StoresOK, Stores, History
  <2>d. task[t].pc \notin {"idle", "resolve"} => Candidate(t) \in Names
    BY CandidateIsName
  <2> USE DEF Labels
  <2>1. CASE ResolveSite(t)
    <3> DEFINE b == IF task[t].base = NoName THEN SiteBase[task[t].site] ELSE task[t].base
    <3>0. task[t].site \in Domains /\ task[t].tries = 1
      BY <2>1, <2>0 DEF ResolveSite, Placed
    <3>1. b \in Names
      <4>1. SiteBase[task[t].site] \in Names  BY <3>0, ConstantsOK
      <4>2. task[t].base \in Names \cup {NoName}  BY <2>0 DEF Task
      <4> QED  BY <4>1, <4>2
    <3>2. task' = [task EXCEPT ![t].pc = "probe", ![t].base = b]
      BY <2>1 DEF ResolveSite
    <3> HIDE DEF b
    <3>3. /\ task' \in [Slots -> Task]
          /\ \A u \in Slots \ {t} : task'[u] = task[u]
          /\ task'[t].base = b /\ task'[t].tries = task[t].tries /\ task'[t].pc = "probe"
      BY <1>0, <3>1, <3>2 DEF Task
    <3>4. Placed(t)'
      <4>1. Len(Candidates[b]) \in Nat \ {0}  BY <3>1, ConstantsOK
      <4> QED  BY <3>0, <3>1, <3>3, <4>1 DEF Placed
    <3> QED  BY <2>1, <2>c, <3>3, <3>4, TypeFrame DEF ResolveSite
  <2>2. CASE UnknownSite(t)  BY <2>2, <2>b, <2>c DEF UnknownSite
  <2>3. CASE NameFree(t)  BY <2>3, <2>a, <2>c DEF NameFree
  <2>4. CASE NameTaken(t)
    <3>1. CASE task[t].tries < Len(Candidates[task[t].base])
      <4>1. task' = [task EXCEPT ![t].tries = @ + 1] /\ task[t].pc = "probe"
        BY <2>4, <3>1 DEF NameTaken
      <4>2. /\ task' \in [Slots -> Task]
            /\ \A u \in Slots \ {t} : task'[u] = task[u]
            /\ task'[t].pc = "probe"
            /\ task'[t].base = task[t].base
            /\ task'[t].tries = task[t].tries + 1
        BY <1>0, <4>1 DEF Task
      <4>3. /\ task[t].base \in Names
            /\ task[t].tries \in 1 .. Len(Candidates[task[t].base])
        BY <2>0, <4>1 DEF Placed
      <4>4. Len(Candidates[task[t].base]) \in Nat  BY <4>3, ConstantsOK
      <4>5. task[t].tries + 1 \in 1 .. Len(Candidates[task[t].base])
        BY <3>1, <4>3, <4>4
      <4>6. Placed(t)'  BY <4>2, <4>3, <4>5 DEF Placed
      <4> QED  BY <2>4, <2>c, <4>2, <4>6, TypeFrame DEF NameTaken
    <3>2. CASE ~(task[t].tries < Len(Candidates[task[t].base]))
      BY <2>4, <3>2, <2>b, <2>c DEF NameTaken
    <3> QED  BY <3>1, <3>2
  <2>5. CASE FileExists(t)  BY <2>5, <2>b, <2>c DEF FileExists
  <2>6. CASE NoFile(t)
    <3>1. StoresOK'  BY <2>6, <1>0, <2>d DEF NoFile, StoresOK, Stores
    <3> QED  BY <2>6, <3>1, <2>a DEF NoFile
  <2>7. CASE OpenFile(t)
    <3>1. StoresOK'  BY <2>7, <1>0, <2>d DEF OpenFile, StoresOK
    <3> QED  BY <2>7, <3>1, <2>a DEF OpenFile
  <2>8. CASE Setup(t)  BY <2>8, <2>a, <2>c DEF Setup
  <2>9. CASE InsertRow(t)
    <3>1. [site |-> task[t].site, engine |-> "sqlite"] \in Row
      BY <2>0 DEF Row, Task
    <3>2. StoresOK'
      BY <2>9, <1>0, <3>1 DEF InsertRow, StoresOK, History
    <3> QED  BY <2>9, <3>2, <2>a DEF InsertRow
  <2>10. CASE UniqueViolation(t)  BY <2>10, <2>a, <2>c DEF UniqueViolation
  <2>11. CASE StatementFails(t)  BY <2>11, <2>a, <2>b, <2>c DEF StatementFails
  <2>12. CASE Cleanup(t)
    <3>1. StoresOK'  BY <2>12, <1>0, <2>d DEF Cleanup, StoresOK
    <3> QED  BY <2>12, <3>1, <2>a, <2>b DEF Cleanup
  <2>13. CASE CloseFile(t)  BY <2>13, <2>b, <2>c DEF CloseFile
  <2> QED
    BY <1>2, <2>1, <2>2, <2>3, <2>4, <2>5, <2>6, <2>7, <2>8, <2>9, <2>10, <2>11, <2>12,
       <2>13 DEF Step
<1>3. CASE Crash
  <2>1. AtRest \in Task  BY DEF AtRest, Task, Labels
  <2>2. task' \in [Slots -> Task] /\ \A u \in Slots : task'[u].pc = "idle"
    BY <1>3, <2>1 DEF Crash, AtRest
  <2>3. StoresOK'  BY <1>3, <1>0 DEF Crash, StoresOK
  <2>4. \A u \in Slots : Placed(u)'  BY <2>2 DEF Placed
  <2> QED  BY <2>2, <2>3, <2>4 DEF TypeOK, StoresOK, Placed
<1>4. CASE Environment
  <2>1. task' = task  BY <1>4 DEF Environment, RegisterSite, PlanDatabase
  <2>2. StoresOK'
    BY <1>4, <1>0 DEF Environment, RegisterSite, PlanDatabase, StoresOK, Row, History
  <2> QED  BY <1>0, <2>1, <2>2 DEF TypeOK, StoresOK, Placed
<1>5. CASE UNCHANGED vars  BY <1>5 DEF vars, TypeOK, Stores, History
<1> QED  BY <1>1, <1>2, <1>3, <1>4, <1>5 DEF Next

\* TypeOK holds of every reachable state, whatever the constants.
THEOREM TypeCorrect == Spec => []TypeOK
<1>1. Init => TypeOK
  BY ConstantsOK DEF Init, TypeOK, Task, Labels, AtRest
<1> QED  BY <1>1, TypeStep, PTL DEF Spec

-----------------------------------------------------------------------------
\* The two parts of NoLeakedFile, each inductive with the types.
FilesHeld ==
  \A n \in files : SqliteRow(n) \/ n \in orphans \/ \E t \in Slots : Holds(t, n)

LogsApart ==
  \A n \in logs \cap files : SqliteRow(n) \/ n \in orphans

\* A step of t leaves what the other requests hold and where they stand.
LEMMA Others ==
  ASSUME NEW t \in Slots, \A u \in Slots \ {t} : task'[u] = task[u]
  PROVE  \A u \in Slots \ {t} :
           /\ Candidate(u)' = Candidate(u)
           /\ Creating(u)' = Creating(u)
           /\ task'[u].pc = task[u].pc
           /\ \A n : Holds(u, n)' = Holds(u, n)
BY DEF Candidate, Creating, Holds

\* A step of a request that holds no file, and of one that keeps its hold.
LEMMA LeakFrame ==
  ASSUME TypeOK, FilesHeld, UNCHANGED <<databases, files, orphans>>,
         NEW t \in Slots, \A u \in Slots \ {t} : task'[u] = task[u],
         \/ task[t].pc \notin HoldingLabels
         \/ task'[t].pc \in HoldingLabels /\ Candidate(t)' = Candidate(t)
  PROVE  FilesHeld'
BY Others DEF FilesHeld, SqliteRow, Holds

LEMMA GoToCandidate ==
  ASSUME TypeOK, NEW t \in Slots, NEW label \in Labels, GoTo(t, label)
  PROVE  Candidate(t)' = Candidate(t)
BY GoToEffect DEF Candidate

\* CreateDatabase leaves no file unaccounted for, in any single step.
LEMMA LeakStep == TypeOK /\ FilesHeld /\ [Next]_vars => FilesHeld'
<1> SUFFICES ASSUME TypeOK, FilesHeld, [Next]_vars PROVE FilesHeld'
  OBVIOUS
<1> USE DEF HoldingLabels
<1>1. ASSUME NEW t \in Slots, NEW d \in Domains \cup {NoSite},
             NEW n \in Names \cup {NoName}, Begin(t, d, n)
      PROVE  FilesHeld'
  <2>1. \A u \in Slots \ {t} : task'[u] = task[u]
    BY <1>1 DEF Begin, TypeOK
  <2> QED  BY <1>1, <2>1, LeakFrame DEF Begin, Stores, History
<1>2. ASSUME NEW t \in Slots, Step(t) PROVE FilesHeld'
  <2>1. ASSUME NEW label \in Labels, GoTo(t, label), UNCHANGED <<Stores, History>>,
               task[t].pc \notin HoldingLabels \/ label \in HoldingLabels
        PROVE  FilesHeld'
    BY <2>1, GoToEffect, GoToCandidate, LeakFrame DEF Stores, History
  <2>2. ASSUME Return(t), UNCHANGED <<Stores, History>>, task[t].pc \notin HoldingLabels
        PROVE  FilesHeld'
    BY <2>2, ReturnEffect, LeakFrame DEF Stores, History
  <2> USE DEF Labels
  <2>3. CASE ResolveSite(t)
    <3>1. \A u \in Slots \ {t} : task'[u] = task[u]  BY <2>3 DEF ResolveSite, TypeOK
    <3> QED  BY <2>3, <3>1, LeakFrame DEF ResolveSite, Stores, History
  <2>4. CASE UnknownSite(t)  BY <2>4, <2>2 DEF UnknownSite
  <2>5. CASE NameFree(t)  BY <2>5, <2>1 DEF NameFree
  <2>6. CASE NameTaken(t)
    <3>1. \A u \in Slots \ {t} : task'[u] = task[u]  BY <2>6 DEF NameTaken, Return, TypeOK
    <3> QED  BY <2>6, <3>1, LeakFrame DEF NameTaken, Stores, History
  <2>7. CASE FileExists(t)  BY <2>7, <2>2 DEF FileExists
  <2>8. CASE NoFile(t)
    <3>1. \A u \in Slots \ {t} : task'[u] = task[u]  BY <2>8, GoToEffect DEF NoFile
    <3> QED  BY <2>8, <3>1, LeakFrame DEF NoFile, Stores
  <2>9. CASE OpenFile(t)
    <3>1. \A u \in Slots \ {t} : \A n : Holds(u, n)' = Holds(u, n)
      BY <2>9, GoToEffect, Others DEF OpenFile
    <3>2. task'[t].pc = "setup" /\ Candidate(t)' = Candidate(t)
      BY <2>9, GoToEffect, GoToCandidate DEF OpenFile
    <3> QED  BY <2>9, <3>1, <3>2 DEF OpenFile, FilesHeld, SqliteRow, Holds
  <2>10. CASE Setup(t)  BY <2>10, <2>1 DEF Setup
  <2>11. CASE InsertRow(t)
    <3>1. \A u \in Slots \ {t} : \A n : Holds(u, n)' = Holds(u, n)
      BY <2>11, GoToEffect, Others DEF InsertRow
    <3>2. \A n \in Names : n # Candidate(t) => databases'[n] = databases[n]
      BY <2>11 DEF InsertRow, TypeOK
    <3>3. Candidate(t) \in Names  BY <2>11, CandidateIsName DEF InsertRow
    <3>4. ASSUME NEW n \in Names, n = Candidate(t) PROVE SqliteRow(n)'
      <4> DEFINE row == [site |-> task[t].site, engine |-> "sqlite"]
      <4>1. databases' = [databases EXCEPT ![n] = row]
        BY <2>11, <3>4 DEF InsertRow
      <4>2. row \in Row  BY DEF Row, TypeOK, Task
      <4>3. databases'[n] = row  BY <4>1 DEF TypeOK
      <4> QED  BY <4>2, <4>3, ConstantsOK DEF SqliteRow
    <3>5. ASSUME NEW n \in Names, n # Candidate(t), n \in files
          PROVE  \/ SqliteRow(n)' \/ n \in orphans'
                 \/ \E u \in Slots \ {t} : Holds(u, n)'
      <4>1. SqliteRow(n) = SqliteRow(n)'  BY <3>2, <3>5 DEF SqliteRow
      <4>2. ~Holds(t, n)  BY <3>5 DEF Holds
      <4> QED  BY <2>11, <3>1, <3>5, <4>1, <4>2 DEF InsertRow, FilesHeld, History
    <3>6. files' = files /\ files \subseteq Names  BY <2>11 DEF InsertRow, TypeOK
    <3> QED  BY <3>4, <3>5, <3>6 DEF FilesHeld
  <2>12. CASE UniqueViolation(t)  BY <2>12, <2>1 DEF UniqueViolation
  <2>13. CASE StatementFails(t)  BY <2>13, <2>1, <2>2 DEF StatementFails
  <2>14. CASE Cleanup(t)
    <3>1. \A u \in Slots \ {t} : \A n : Holds(u, n)' = Holds(u, n)
      BY <2>14, ReturnEffect, GoToEffect, Others DEF Cleanup
    <3>2. \A n : Holds(t, n) => n = Candidate(t)  BY DEF Holds
    <3> QED  BY <2>14, <3>1, <3>2 DEF Cleanup, FilesHeld, SqliteRow
  <2>15. CASE CloseFile(t)  BY <2>15, <2>2 DEF CloseFile
  <2> QED
    BY <1>2, <2>3, <2>4, <2>5, <2>6, <2>7, <2>8, <2>9, <2>10, <2>11, <2>12, <2>13, <2>14,
       <2>15 DEF Step
<1>3. CASE Crash  BY <1>3 DEF Crash, FilesHeld, SqliteRow
<1>4. CASE Environment
  <2>1. UNCHANGED <<files, task, orphans>>
    BY <1>4 DEF Environment, RegisterSite, PlanDatabase, History
  <2>2. \A n \in Names : SqliteRow(n) => SqliteRow(n)'
    BY <1>4 DEF Environment, RegisterSite, PlanDatabase, SqliteRow, TypeOK
  <2> QED  BY <2>1, <2>2 DEF FilesHeld, Holds, Candidate, TypeOK
<1>5. CASE UNCHANGED vars
  BY <1>5 DEF vars, Stores, History, FilesHeld, SqliteRow, Holds, Candidate
<1> QED  BY <1>1, <1>2, <1>3, <1>4, <1>5 DEF Next

\* Rows are never deleted or overwritten.
LEMMA SqliteRowsStay ==
  ASSUME TypeOK, [Next]_vars PROVE \A n \in Names : SqliteRow(n) => SqliteRow(n)'
<1>1. ASSUME NEW t \in Slots, InsertRow(t) PROVE \A n \in Names : SqliteRow(n) => SqliteRow(n)'
  BY <1>1 DEF InsertRow, SqliteRow, TypeOK
<1>2. ASSUME NEW d \in Domains, NEW m \in Names, PlanDatabase(m, d)
      PROVE  \A n \in Names : SqliteRow(n) => SqliteRow(n)'
  BY <1>2 DEF PlanDatabase, SqliteRow, TypeOK
<1> QED
  BY <1>1, <1>2 DEF Next, Step, Begin, ResolveSite, UnknownSite, NameFree, NameTaken,
     FileExists, NoFile, OpenFile, Setup, UniqueViolation, StatementFails, Cleanup, CloseFile,
     Crash, Environment, RegisterSite, Stores, vars, SqliteRow

\* A log that is left behind does not lie beside a file that is being created: the
\* first statement on a new file discards it, and it is left when the file is removed.
LEMMA LogsStep == TypeOK /\ LogsApart /\ [Next]_vars => LogsApart'
<1> SUFFICES ASSUME TypeOK, LogsApart, [Next]_vars PROVE LogsApart'
  OBVIOUS
<1>1. \A n \in Names : SqliteRow(n) => SqliteRow(n)'  BY SqliteRowsStay
<1>2. orphans \subseteq orphans'
  BY DEF Next, Step, Begin, ResolveSite, UnknownSite, NameFree, NameTaken, FileExists, NoFile,
     OpenFile, Setup, InsertRow, UniqueViolation, StatementFails, Cleanup, CloseFile, Crash,
     Environment, RegisterSite, PlanDatabase, Stores, History, vars
<1>3. CASE UNCHANGED <<files, logs>>
  BY <1>1, <1>2, <1>3 DEF LogsApart, TypeOK
<1>4. ASSUME NEW t \in Slots, OpenFile(t) PROVE LogsApart'
  BY <1>1, <1>2, <1>4 DEF OpenFile, LogsApart, TypeOK
<1>5. ASSUME NEW t \in Slots, Cleanup(t) PROVE LogsApart'
  BY <1>1, <1>2, <1>5 DEF Cleanup, LogsApart, TypeOK
<1>6. CASE Crash
  BY <1>1, <1>6 DEF Crash, LogsApart, TypeOK
<1> QED
  BY <1>3, <1>4, <1>5, <1>6 DEF Next, Step, Begin, ResolveSite, UnknownSite, NameFree,
     NameTaken, FileExists, NoFile, Setup, InsertRow, UniqueViolation, StatementFails,
     CloseFile, Environment, RegisterSite, PlanDatabase, Stores, vars

\* Every file is recorded, held by a request, or was left by a crash or a failed
\* removal: CreateDatabase itself leaks none.  The logs it leaves lie beside no file.
THEOREM NoFileLeaks == Spec => []NoLeakedFile
<1>1. Init => FilesHeld /\ LogsApart  BY DEF Init, FilesHeld, LogsApart
<1>2. FilesHeld /\ LogsApart => NoLeakedFile  BY DEF FilesHeld, LogsApart, NoLeakedFile
<1> QED  BY <1>1, <1>2, LeakStep, LogsStep, TypeCorrect, PTL DEF Spec

-----------------------------------------------------------------------------
(***************************************************************************)
(* ReadyHasFile and OrphansBlockName are not inductive: what makes them    *)
(* true is what a request knows between its Stat and its INSERT.  While a  *)
(* request is creating an undisputed name, it is alone with it, no SQLite  *)
(* row has the name, no file was left under it, and once it has opened the *)
(* file the file stays.                                                    *)
(***************************************************************************)
Unhindered(t, c) ==
  /\ ~SqliteRow(c)
  /\ c \notin orphans
  /\ task[t].pc \in {"setup", "insert"} => c \in files

AloneOnNames ==
  \A t, u \in Slots :
    t # u /\ Creating(t) /\ Creating(u) /\ Candidate(t) = Candidate(u) =>
      Candidate(t) \in disputed

CreatingUnhindered ==
  \A t \in Slots :
    Creating(t) /\ Candidate(t) \notin disputed => Unhindered(t, Candidate(t))

FileInv == ReadyHasFile /\ OrphansBlockName /\ AloneOnNames /\ CreatingUnhindered

\* A step that changes no store, of a request that is not creating afterwards or
\* goes on with its name.
LEMMA FileFrame ==
  ASSUME TypeOK, FileInv, UNCHANGED <<databases, files, orphans, disputed>>,
         NEW t \in Slots, \A u \in Slots \ {t} : task'[u] = task[u],
         \/ ~Creating(t)'
         \/ /\ Creating(t) /\ Candidate(t)' = Candidate(t)
            /\ task'[t].pc \in {"setup", "insert"} => task[t].pc \in {"setup", "insert"}
  PROVE  FileInv'
<1>1. \A n : SqliteRow(n)' = SqliteRow(n)  BY DEF SqliteRow
<1>2. ReadyHasFile' /\ OrphansBlockName'
  BY <1>1 DEF FileInv, ReadyHasFile, OrphansBlockName
<1>3. AloneOnNames'
  BY Others DEF FileInv, AloneOnNames
<1>4. CreatingUnhindered'
  BY <1>1, Others DEF FileInv, CreatingUnhindered, Unhindered
<1> QED  BY <1>2, <1>3, <1>4 DEF FileInv

\* FileInv is inductive, given the types.
LEMMA FileStep == TypeOK /\ FileInv /\ [Next]_vars => FileInv'
<1> SUFFICES ASSUME TypeOK, FileInv, [Next]_vars PROVE FileInv'
  OBVIOUS
<1> USE DEF CreatingLabels
<1>1. ASSUME NEW t \in Slots, NEW d \in Domains \cup {NoSite},
             NEW n \in Names \cup {NoName}, Begin(t, d, n)
      PROVE  FileInv'
  <2>1. \A u \in Slots \ {t} : task'[u] = task[u]
    BY <1>1 DEF Begin, TypeOK
  <2>2. ~Creating(t)'
    BY <1>1 DEF Begin, TypeOK, Creating
  <2> QED  BY <1>1, <2>1, <2>2, FileFrame DEF Begin, Stores, History
<1>2. ASSUME NEW t \in Slots, Step(t) PROVE FileInv'
  <2> USE DEF Labels
  <2>a. ASSUME NEW label \in Labels \ CreatingLabels, GoTo(t, label),
               UNCHANGED <<Stores, History>>
        PROVE  FileInv'
    BY <2>a, GoToEffect, FileFrame DEF Stores, History, Creating
  <2>b. ASSUME NEW label \in CreatingLabels, GoTo(t, label), UNCHANGED <<Stores, History>>,
               Creating(t),
               label \in {"setup", "insert"} => task[t].pc \in {"setup", "insert"}
        PROVE  FileInv'
    BY <2>b, GoToEffect, GoToCandidate, FileFrame DEF Stores, History, Creating
  <2>c. ASSUME Return(t), UNCHANGED <<Stores, History>> PROVE FileInv'
    BY <2>c, ReturnEffect, FileFrame DEF Stores, History, Creating
  <2>d. ASSUME Creating(t) PROVE Candidate(t) \in Names
    BY <2>d, CandidateIsName DEF Creating
  <2>1. CASE ResolveSite(t)
    <3>1. (\A u \in Slots \ {t} : task'[u] = task[u]) /\ ~Creating(t)'
      BY <2>1 DEF ResolveSite, TypeOK, Task, Creating
    <3> QED  BY <2>1, <3>1, FileFrame DEF ResolveSite, Stores, History
  <2>2. CASE UnknownSite(t)  BY <2>2, <2>c DEF UnknownSite
  <2>3. CASE NameFree(t)  BY <2>3, <2>a DEF NameFree
  <2>4. CASE NameTaken(t)
    <3>1. (\A u \in Slots \ {t} : task'[u] = task[u]) /\ ~Creating(t)'
      BY <2>4 DEF NameTaken, Return, AtRest, TypeOK, Task, Creating
    <3> QED  BY <2>4, <3>1, FileFrame DEF NameTaken, Stores, History
  <2>5. CASE FileExists(t)  BY <2>5, <2>c DEF FileExists
  <2>6. CASE NoFile(t)
    <3> DEFINE c == Candidate(t)
    <3>1. /\ \A u \in Slots \ {t} : task'[u] = task[u]
          /\ Candidate(t)' = c /\ task'[t].pc = "open" /\ Creating(t)'
      BY <2>6, GoToEffect, GoToCandidate DEF NoFile, Creating
    <3>2. /\ UNCHANGED <<known, databases, files, orphans>>
          /\ disputed \subseteq disputed'
          /\ c \in files \/ Rivalled(t) => c \in disputed'
      BY <2>6 DEF NoFile, Stores
    <3>3. \A n : SqliteRow(n)' = SqliteRow(n)  BY <3>2 DEF SqliteRow
    <3>4. ReadyHasFile' /\ OrphansBlockName'
      BY <3>2, <3>3 DEF FileInv, ReadyHasFile, OrphansBlockName
    <3>5. AloneOnNames'
      <4> HIDE DEF c
      <4>1. \A u \in Slots \ {t} : Creating(u)' /\ Candidate(u)' = c => c \in disputed'
        BY <3>1, <3>2, Others DEF Rivalled, c
      <4> QED  BY <3>1, <3>2, <4>1, Others DEF FileInv, AloneOnNames
    <3>6. CreatingUnhindered'
      <4>1. c \notin disputed' => ~SqliteRow(c) /\ c \notin orphans
        BY <2>6, <3>2, CandidateIsName DEF FileInv, ReadyHasFile, OrphansBlockName, NoFile
      <4>2. Candidate(t)' \notin disputed' => Unhindered(t, Candidate(t))'
        BY <3>1, <3>2, <3>3, <4>1 DEF Unhindered
      <4>3. ASSUME NEW u \in Slots \ {t}, Creating(u)', Candidate(u)' \notin disputed'
            PROVE  Unhindered(u, Candidate(u))'
        BY <3>1, <3>2, <3>3, <4>3, Others DEF FileInv, CreatingUnhindered, Unhindered
      <4> QED  BY <4>2, <4>3 DEF CreatingUnhindered
    <3> QED  BY <3>4, <3>5, <3>6 DEF FileInv
  <2>7. CASE OpenFile(t)
    <3> DEFINE c == Candidate(t)
    <3>1. /\ \A u \in Slots \ {t} : task'[u] = task[u]
          /\ Candidate(t)' = c /\ Creating(t) /\ Creating(t)'
      BY <2>7, GoToEffect, GoToCandidate DEF OpenFile, Creating
    <3>2. UNCHANGED <<databases, orphans, disputed>> /\ files' = files \cup {c}
      BY <2>7 DEF OpenFile
    <3>3. \A n : SqliteRow(n)' = SqliteRow(n)  BY <3>2 DEF SqliteRow
    <3>4. ReadyHasFile' /\ OrphansBlockName'
      BY <3>2, <3>3 DEF FileInv, ReadyHasFile, OrphansBlockName
    <3>5. AloneOnNames'
      BY <3>1, <3>2, Others DEF FileInv, AloneOnNames
    <3>6. CreatingUnhindered'
      BY <3>1, <3>2, <3>3, Others DEF FileInv, CreatingUnhindered, Unhindered
    <3> QED  BY <3>4, <3>5, <3>6 DEF FileInv
  <2>8. CASE Setup(t)  BY <2>8, <2>b DEF Setup, Creating
  <2>9. CASE InsertRow(t)
    <3> DEFINE c == Candidate(t)
    <3>1. (\A u \in Slots \ {t} : task'[u] = task[u]) /\ ~Creating(t)'
      BY <2>9, GoToEffect DEF InsertRow, Creating
    <3>2. /\ UNCHANGED <<files, orphans, disputed>>
          /\ Creating(t) /\ task[t].pc \in {"setup", "insert"}
      BY <2>9 DEF InsertRow, Creating, History
    <3>3. \A n \in Names : n # c => SqliteRow(n)' = SqliteRow(n)
      BY <2>9 DEF InsertRow, TypeOK, SqliteRow
    <3>4. c \notin disputed => c \in files /\ c \notin orphans
      BY <3>2 DEF FileInv, CreatingUnhindered, Unhindered
    <3>5. ReadyHasFile'
      BY <3>2, <3>3, <3>4 DEF FileInv, ReadyHasFile
    <3>6. OrphansBlockName'
      BY <3>2, <3>3, <3>4 DEF FileInv, OrphansBlockName, TypeOK
    <3>7. AloneOnNames'
      BY <3>1, <3>2, Others DEF FileInv, AloneOnNames
    <3>8. CreatingUnhindered'
      <4> SUFFICES ASSUME NEW u \in Slots \ {t}, Creating(u)', Candidate(u)' \notin disputed'
                   PROVE  Unhindered(u, Candidate(u))'
        BY <3>1 DEF CreatingUnhindered
      <4>1. Creating(u) /\ Candidate(u)' = Candidate(u) /\ task'[u].pc = task[u].pc
        BY <3>1, Others
      <4>2. Candidate(u) \in Names /\ Candidate(u) # c
        BY <3>2, <4>1, CandidateIsName DEF FileInv, AloneOnNames, Creating
      <4>3. Unhindered(u, Candidate(u))
        BY <3>2, <4>1 DEF FileInv, CreatingUnhindered
      <4>4. ~(SqliteRow(Candidate(u))')
        BY <3>3, <4>1, <4>2, <4>3 DEF Unhindered, SqliteRow
      <4> QED  BY <3>2, <4>1, <4>3, <4>4 DEF Unhindered
    <3> QED  BY <3>5, <3>6, <3>7, <3>8 DEF FileInv
  <2>10. CASE UniqueViolation(t)  BY <2>10, <2>b DEF UniqueViolation, Creating
  <2>11. CASE StatementFails(t)  BY <2>11, <2>b, <2>c DEF StatementFails, Creating
  <2>12. CASE Cleanup(t)
    <3> DEFINE c == Candidate(t)
    <3>1. (\A u \in Slots \ {t} : task'[u] = task[u]) /\ ~Creating(t)'
      BY <2>12, ReturnEffect, GoToEffect DEF Cleanup, Creating
    <3>2. /\ UNCHANGED <<databases, disputed>> /\ Creating(t)
          /\ files' \subseteq files /\ files \ {c} \subseteq files'
          /\ orphans \subseteq orphans' /\ orphans' \subseteq orphans \cup {c}
          /\ c \in orphans' => c \in files' \/ c \in orphans
      BY <2>12 DEF Cleanup, Creating
    <3>3. \A n : SqliteRow(n)' = SqliteRow(n)  BY <3>2 DEF SqliteRow
    <3>4. c \notin disputed => ~SqliteRow(c) /\ c \notin orphans
      BY <3>2 DEF FileInv, CreatingUnhindered, Unhindered
    <3>5. ReadyHasFile' /\ OrphansBlockName'
      BY <3>2, <3>3, <3>4 DEF FileInv, ReadyHasFile, OrphansBlockName
    <3>6. AloneOnNames'
      BY <3>1, <3>2, Others DEF FileInv, AloneOnNames
    <3>7. CreatingUnhindered'
      <4> SUFFICES ASSUME NEW u \in Slots \ {t}, Creating(u)', Candidate(u)' \notin disputed'
                   PROVE  Unhindered(u, Candidate(u))'
        BY <3>1 DEF CreatingUnhindered
      <4>1. Creating(u) /\ Candidate(u)' = Candidate(u) /\ task'[u].pc = task[u].pc
        BY <3>1, Others
      <4>2. Candidate(u) # c
        BY <3>2, <4>1 DEF FileInv, AloneOnNames
      <4>3. Unhindered(u, Candidate(u))
        BY <3>2, <4>1 DEF FileInv, CreatingUnhindered
      <4> QED  BY <3>2, <3>3, <4>1, <4>2, <4>3 DEF Unhindered
    <3> QED  BY <3>5, <3>6, <3>7 DEF FileInv
  <2>13. CASE CloseFile(t)  BY <2>13, <2>c DEF CloseFile
  <2> QED
    BY <1>2, <2>1, <2>2, <2>3, <2>4, <2>5, <2>6, <2>7, <2>8, <2>9, <2>10, <2>11, <2>12,
       <2>13 DEF Step
<1>3. CASE Crash
  <2>1. \A t \in Slots : ~Creating(t)'  BY <1>3 DEF Crash, AtRest, Creating
  <2>2. ReadyHasFile' /\ OrphansBlockName'
    BY <1>3 DEF Crash, FileInv, ReadyHasFile, OrphansBlockName, SqliteRow
  <2> QED  BY <2>1, <2>2 DEF FileInv, AloneOnNames, CreatingUnhindered
<1>4. CASE Environment
  <2>1. UNCHANGED <<files, task, orphans, disputed>>
    BY <1>4 DEF Environment, RegisterSite, PlanDatabase, History
  <2>2. \A n \in Names : SqliteRow(n)' => SqliteRow(n)
    BY <1>4 DEF Environment, RegisterSite, PlanDatabase, SqliteRow, TypeOK
  <2>3. ReadyHasFile' /\ OrphansBlockName'
    BY <2>1, <2>2 DEF FileInv, ReadyHasFile, OrphansBlockName, TypeOK
  <2>4. AloneOnNames'
    BY <2>1 DEF FileInv, AloneOnNames, Creating, Candidate
  <2>5. CreatingUnhindered'
    <3> SUFFICES ASSUME NEW t \in Slots, Creating(t)', Candidate(t)' \notin disputed'
                 PROVE  Unhindered(t, Candidate(t))'
      BY DEF CreatingUnhindered
    <3>1. Creating(t) /\ Candidate(t)' = Candidate(t) /\ Candidate(t) \in Names
      BY <2>1, CandidateIsName DEF Creating, Candidate
    <3>2. Unhindered(t, Candidate(t))
      BY <2>1, <3>1 DEF FileInv, CreatingUnhindered
    <3>3. ~(SqliteRow(Candidate(t))')
      BY <2>2, <3>1, <3>2 DEF Unhindered, SqliteRow
    <3> QED  BY <2>1, <3>1, <3>2, <3>3 DEF Unhindered
  <2> QED  BY <2>3, <2>4, <2>5 DEF FileInv
<1>5. CASE UNCHANGED vars
  BY <1>5 DEF vars, Stores, History, FileInv, ReadyHasFile, OrphansBlockName, AloneOnNames,
     CreatingUnhindered, Unhindered, SqliteRow, Creating, Candidate
<1> QED  BY <1>1, <1>2, <1>3, <1>4, <1>5 DEF Next

LEMMA FileInvariant == Spec => []FileInv
<1>1. Init => FileInv
  BY DEF Init, FileInv, ReadyHasFile, OrphansBlockName, AloneOnNames, CreatingUnhindered,
     SqliteRow, Creating, CreatingLabels, AtRest
<1> QED  BY <1>1, FileStep, TypeCorrect, PTL DEF Spec

\* A ready database has its file unless two requests disputed its name.
THEOREM ReadyDatabaseHasFile == Spec => []ReadyHasFile
<1>1. FileInv => ReadyHasFile  BY DEF FileInv
<1> QED  BY <1>1, FileInvariant, PTL

\* A file that a crash left behind is never removed or adopted, so its name stays
\* blocked.
THEOREM OrphansAreNeverReused == Spec => []OrphansBlockName
<1>1. FileInv => OrphansBlockName  BY DEF FileInv
<1> QED  BY <1>1, FileInvariant, PTL

-----------------------------------------------------------------------------
\* The candidates that request u passed over are all recorded.
Taken(u) ==
  \A i \in 1 .. task[u].tries - 1 : databases[Candidates[task[u].base][i]] # NoRow

\* Rows are never deleted, so candidates that were taken stay taken.
LEMMA RowsStay ==
  ASSUME TypeOK, Next PROVE \A n \in Names : databases[n] # NoRow => databases'[n] # NoRow
<1>1. ASSUME NEW t \in Slots, InsertRow(t)
      PROVE  \A n \in Names : databases[n] # NoRow => databases'[n] # NoRow
  BY <1>1 DEF InsertRow, TypeOK
<1>2. ASSUME NEW d \in Domains, NEW m \in Names, PlanDatabase(m, d)
      PROVE  \A n \in Names : databases[n] # NoRow => databases'[n] # NoRow
  BY <1>2 DEF PlanDatabase, TypeOK
<1> QED
  BY <1>1, <1>2 DEF Next, Step, Begin, ResolveSite, UnknownSite, NameFree, NameTaken,
     FileExists, NoFile, OpenFile, Setup, UniqueViolation, StatementFails, Cleanup, CloseFile,
     Crash, Environment, RegisterSite, Stores, History

\* A request that only changes its label, or ends, keeps the property.
LEMMA TakenStep == TypeOK /\ EarlierNamesTaken /\ [Next]_vars => EarlierNamesTaken'
<1> SUFFICES ASSUME TypeOK, EarlierNamesTaken, [Next]_vars PROVE EarlierNamesTaken'
  OBVIOUS
<1>0. CASE UNCHANGED vars  BY <1>0 DEF vars, Stores, EarlierNamesTaken
<1>1. CASE Next
  <2> SUFFICES ASSUME NEW u \in Slots, task'[u].pc \notin {"idle", "resolve"}
               PROVE  Taken(u)'
    BY DEF EarlierNamesTaken, Taken
  <2>a. ASSUME task[u].pc \notin {"idle", "resolve"},
               task'[u].base = task[u].base, task'[u].tries = task[u].tries
        PROVE  Taken(u)'
    <3>1. Taken(u)  BY <2>a DEF EarlierNamesTaken, Taken
    <3>2. task[u].base \in Names /\ task[u].tries \in 1 .. Len(Candidates[task[u].base])
      BY <2>a DEF TypeOK
    <3>3. \A i \in 1 .. task[u].tries - 1 : Candidates[task[u].base][i] \in Names
      BY <3>2, ConstantsOK
    <3> QED  BY <1>1, <2>a, <3>1, <3>2, <3>3, RowsStay DEF Taken
  <2>b. ASSUME task'[u].tries = 1 PROVE Taken(u)'
    BY <2>b DEF Taken
  <2>1. ASSUME NEW t \in Slots, NEW d \in Domains \cup {NoSite},
               NEW n \in Names \cup {NoName}, Begin(t, d, n)
        PROVE  Taken(u)'
    BY <2>1, <2>a, <2>b DEF Begin, TypeOK
  <2>2. ASSUME NEW t \in Slots, Step(t) PROVE Taken(u)'
    <3>1. CASE ResolveSite(t)
      BY <3>1, <2>a, <2>b DEF ResolveSite, TypeOK, Task
    <3>2. CASE NameTaken(t) /\ t = u
      <4> DEFINE b == task[t].base  k == task[t].tries
      <4>1. /\ k < Len(Candidates[b]) /\ databases[Candidates[b][k]] # NoRow
            /\ task' = [task EXCEPT ![t].tries = @ + 1] /\ task[t].pc = "probe"
        BY <3>2, ReturnEffect DEF NameTaken, Candidate
      <4>2. b \in Names /\ k \in 1 .. Len(Candidates[b])
        BY <4>1 DEF TypeOK
      <4>3. Candidates[b] \in Seq(Names)
        BY <4>2, ConstantsOK
      <4>4. task'[t].base = b /\ task'[t].tries = k + 1
        BY <4>1 DEF TypeOK, Task
      <4>5. \A i \in 1 .. k : databases[Candidates[b][i]] # NoRow
        BY <3>2, <4>1, <4>2 DEF EarlierNamesTaken
      <4>6. \A i \in 1 .. k : Candidates[b][i] \in Names
        BY <4>2, <4>3
      <4> HIDE DEF b, k
      <4> QED  BY <1>1, <3>2, <4>2, <4>4, <4>5, <4>6, RowsStay DEF Taken
    <3>3. CASE ~ResolveSite(t) /\ ~(NameTaken(t) /\ t = u)
      <4>1. task'[u].base = task[u].base /\ task'[u].tries = task[u].tries
              /\ task[u].pc \notin {"idle", "resolve"}
        <5>1. CASE t # u
          BY <2>2, <3>3, <5>1 DEF Step, UnknownSite, NameFree, NameTaken, FileExists, NoFile,
             OpenFile, Setup, InsertRow, UniqueViolation, StatementFails, Cleanup, CloseFile,
             GoTo, Return, TypeOK
        <5>2. CASE t = u
          BY <2>2, <3>3, <5>2 DEF Step, UnknownSite, NameFree, FileExists, NoFile,
             OpenFile, Setup, InsertRow, UniqueViolation, StatementFails, Cleanup, CloseFile,
             GoTo, Return, AtRest, TypeOK, Task
        <5> QED  BY <5>1, <5>2
      <4> QED  BY <4>1, <2>a
    <3> QED  BY <3>1, <3>2, <3>3
  <2>3. CASE Crash  BY <2>3 DEF Crash, AtRest
  <2>4. CASE Environment
    BY <2>4, <2>a DEF Environment, RegisterSite, PlanDatabase
  <2> QED  BY <1>1, <2>1, <2>2, <2>3, <2>4 DEF Next
<1> QED  BY <1>0, <1>1

\* A request never passes over a free name.
THEOREM FirstFreeName == Spec => []EarlierNamesTaken
<1>1. Init => EarlierNamesTaken  BY DEF Init, EarlierNamesTaken, AtRest
<1> QED  BY <1>1, TakenStep, TypeCorrect, PTL DEF Spec
=============================================================================
