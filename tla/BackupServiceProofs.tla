------------------------- MODULE BackupServiceProofs -------------------------
(***************************************************************************)
(* Proofs about BackupService, for any number of calls, processes, sites   *)
(* and databases, any horizon and any faults.                              *)
(***************************************************************************)
EXTENDS BackupService, TLAPS

Times == Seconds \cup {Never}
Paths == Domains \X Seconds

\* What GoTo(c, label) and Return(c) do to the calls, field by field.
LEMMA GoToEffect ==
  ASSUME TypeOK, NEW c \in Slots, NEW label \in Labels, GoTo(c, label)
  PROVE  /\ work' \in [Slots -> Call]
         /\ \A u \in Slots \ {c} : work'[u] = work[u]
         /\ work'[c].pc = label
         /\ work'[c].domain = work[c].domain
         /\ work'[c].stamp = work[c].stamp
         /\ work'[c].created = work[c].created
BY DEF TypeOK, GoTo, Call

LEMMA ReturnEffect ==
  ASSUME TypeOK, NEW c \in Slots, Return(c)
  PROVE  /\ work' \in [Slots -> Call]
         /\ \A u \in Slots \ {c} : work'[u] = work[u]
         /\ work'[c].pc = "idle"
<1>1. AtRest \in Call  BY DEF AtRest, Call, Labels
<1> QED  BY <1>1 DEF TypeOK, Return, AtRest

LEMMA BeginEffect ==
  ASSUME TypeOK, NEW c \in Slots, NEW d \in Domains, Begin(c, d)
  PROVE  /\ work' \in [Slots -> Call]
         /\ \A u \in Slots \ {c} : work'[u] = work[u]
         /\ work'[c].pc = "lookup"
         /\ work'[c].domain = d
BY DEF TypeOK, Begin, Call, Labels

LEMMA NameEffect ==
  ASSUME TypeOK, NEW c \in Slots, NameArchive(c)
  PROVE  /\ work' \in [Slots -> Call]
         /\ \A u \in Slots \ {c} : work'[u] = work[u]
         /\ work'[c].pc = "create"
         /\ work'[c].domain = work[c].domain
         /\ work'[c].stamp = now
BY DEF TypeOK, NameArchive, Call, Labels

LEMMA TimeEffect ==
  ASSUME TypeOK, NEW c \in Slots, TakeTime(c)
  PROVE  /\ work' \in [Slots -> Call]
         /\ \A u \in Slots \ {c} : work'[u] = work[u]
         /\ work'[c].pc = "insert"
         /\ work'[c].domain = work[c].domain
         /\ work'[c].stamp = work[c].stamp
         /\ work'[c].created = now
BY DEF TypeOK, TakeTime, Call, Labels, RecordingLabels

LEMMA CrashEffect ==
  ASSUME TypeOK, NEW p \in Processes, Crash(p)
  PROVE  /\ work' \in [Slots -> Call]
         /\ \A c \in Slots : work'[c] = work[c] \/ work'[c].pc = "idle"
<1>1. AtRest \in Call  BY DEF AtRest, Call, Labels
<1> QED  BY <1>1 DEF TypeOK, Crash, AtRest

-----------------------------------------------------------------------------
\* The two parts of TypeOK: the stores, and what a call carries.
StoresOK ==
  /\ now \in Seconds
  /\ sites \subseteq Domains
  /\ site \in [Names -> Domains \cup {NoSite}]
  /\ lastBackup \in [Names -> Times]
  /\ backups \subseteq Backup
  /\ archives \in [Paths -> ArchiveStates]
  /\ reused \subseteq Paths
  /\ overlapped \subseteq Domains

Carries(c) ==
  /\ work[c].pc # "idle" => work[c].domain \in Domains
  /\ work[c].pc \in {"create"} \cup HoldingLabels => work[c].stamp \in Seconds
  /\ work[c].pc \in RecordingLabels => work[c].created \in Seconds

LEMMA TypeParts ==
  TypeOK <=> StoresOK /\ work \in [Slots -> Call] /\ \A c \in Slots : Carries(c)
BY DEF TypeOK, StoresOK, Carries, Times, Paths

LEMMA TypeFrame ==
  ASSUME TypeOK, StoresOK', work' \in [Slots -> Call],
         NEW c \in Slots, \A u \in Slots \ {c} : work'[u] = work[u], Carries(c)'
  PROVE  TypeOK'
<1>1. \A u \in Slots : Carries(u)'
  <2> TAKE u \in Slots
  <2>1. CASE u = c  BY <2>1
  <2>2. CASE u # c  BY <2>2, TypeParts DEF Carries
  <2> QED  BY <2>1, <2>2
<1> QED  BY <1>1 DEF TypeOK, StoresOK, Carries, Times, Paths

LEMMA TypeStep == TypeOK /\ [Next]_vars => TypeOK'
<1> SUFFICES ASSUME TypeOK, [Next]_vars PROVE TypeOK'
  OBVIOUS
<1> USE DEF Labels, HoldingLabels, RecordingLabels
<1>0. StoresOK /\ work \in [Slots -> Call] /\ \A c \in Slots : Carries(c)
  BY TypeParts
<1>a. ASSUME UNCHANGED <<now, Tables, archives, History>> PROVE StoresOK'
  BY <1>0, <1>a DEF StoresOK, Tables, History
<1>b. ASSUME NEW c \in Slots, Return(c), StoresOK' PROVE TypeOK'
  BY <1>b, ReturnEffect, TypeFrame DEF Carries
<1>c. ASSUME NEW c \in Slots, NEW label \in Labels, GoTo(c, label), StoresOK',
             work[c].pc # "idle",
             label \in {"create"} \cup HoldingLabels => work[c].pc \in {"create"} \cup HoldingLabels,
             label \in RecordingLabels => work[c].pc \in RecordingLabels
      PROVE  TypeOK'
  BY <1>0, <1>c, GoToEffect, TypeFrame DEF Carries
<1>p. ASSUME NEW c \in Slots, work[c].pc \in {"create"} \cup HoldingLabels
      PROVE  Path(c) \in Paths
  BY <1>0, <1>p DEF Carries, Path, Paths
<1>1. ASSUME NEW c \in Slots, NEW d \in Domains, Begin(c, d) PROVE TypeOK'
  <2>1. Carries(c)'  BY <1>1, BeginEffect DEF Carries
  <2> QED  BY <1>1, <2>1, <1>a, BeginEffect, TypeFrame DEF Begin
<1>2. ASSUME NEW c \in Slots, Step(c) PROVE TypeOK'
  <2>1. CASE SiteFound(c)  BY <2>1, <1>a, <1>c DEF SiteFound
  <2>2. CASE UnknownSite(c) \/ WalkFails(c) \/ CallFails(c)
    BY <2>2, <1>a, <1>b DEF UnknownSite, WalkFails, CallFails
  <2>3. CASE NameArchive(c)
    <3>1. now \in Seconds /\ work[c].domain \in Domains
      BY <2>3, <1>0 DEF NameArchive, StoresOK, Carries
    <3>2. Carries(c)'  BY <2>3, <3>1, NameEffect DEF Carries
    <3> QED  BY <2>3, <3>2, <1>a, NameEffect, TypeFrame DEF NameArchive
  <2>4. CASE CreateArchive(c)
    <3>1. StoresOK'
      BY <2>4, <1>0, <1>p DEF CreateArchive, StoresOK, ArchiveStates, Tables
    <3> QED  BY <2>4, <3>1, <1>c DEF CreateArchive
  <2>5. CASE WalkEnds(c) \/ CloseFails(c)
    <3>1. StoresOK'
      BY <2>5, <1>0 DEF WalkEnds, CloseFails, StoresOK, ArchiveStates, Tables, History
    <3> QED  BY <2>5, <3>1, <1>c DEF WalkEnds, CloseFails
  <2>6. CASE TakeTime(c)
    <3>1. now \in Seconds /\ work[c].domain \in Domains /\ work[c].stamp \in Seconds
      BY <2>6, <1>0 DEF TakeTime, StoresOK, Carries
    <3>2. Carries(c)'  BY <2>6, <3>1, TimeEffect DEF Carries
    <3>3. StoresOK'  BY <2>6, <3>1, <1>0 DEF TakeTime, StoresOK, Tables
    <3> QED  BY <2>6, <3>2, <3>3, TimeEffect, TypeFrame
  <2>7. CASE InsertBackup(c)
    <3>1. Path(c) \in Paths /\ work[c].created \in Seconds
      BY <2>7, <1>0, <1>p DEF InsertBackup, Carries
    <3>2. [path |-> Path(c), created |-> work[c].created] \in Backup
      BY <3>1 DEF Backup, Paths
    <3>3. StoresOK'  BY <2>7, <3>2, <1>0 DEF InsertBackup, StoresOK, History
    <3> QED  BY <2>7, <3>3, <1>c DEF InsertBackup
  <2>8. CASE UpdateDatabases(c)
    <3>1. work[c].created \in Times
      BY <2>8, <1>0 DEF UpdateDatabases, Carries, Times
    <3>2. lastBackup' \in [Names -> Times]
      BY <2>8, <3>1, <1>0 DEF UpdateDatabases, StoresOK
    <3>3. StoresOK'  BY <2>8, <3>2, <1>0 DEF UpdateDatabases, StoresOK, History
    <3> QED  BY <2>8, <3>3, <1>b DEF UpdateDatabases
  <2> QED  BY <1>2, <2>1, <2>2, <2>3, <2>4, <2>5, <2>6, <2>7, <2>8 DEF Step
<1>3. ASSUME NEW p \in Processes, Crash(p) PROVE TypeOK'
  <2>1. StoresOK'  BY <1>3, <1>a DEF Crash
  <2>2. \A c \in Slots : Carries(c)'  BY <1>3, <1>0, CrashEffect DEF Carries
  <2> QED  BY <1>3, <2>1, <2>2, CrashEffect DEF TypeOK, StoresOK, Carries, Times, Paths
<1>b2. ASSUME UNCHANGED work, StoresOK' PROVE TypeOK'
  BY <1>0, <1>b2 DEF TypeOK, StoresOK, Carries, Times, Paths
<1>4. ASSUME NEW d \in Domains, RegisterSite(d) PROVE TypeOK'
  <2>1. StoresOK'  BY <1>4, <1>0 DEF RegisterSite, StoresOK, History
  <2> QED  BY <1>4, <2>1, <1>b2 DEF RegisterSite
<1>5. ASSUME NEW n \in Names, NEW d \in Domains, RecordDatabase(n, d) PROVE TypeOK'
  <2>1. StoresOK'  BY <1>5, <1>0 DEF RecordDatabase, StoresOK, History
  <2> QED  BY <1>5, <2>1, <1>b2 DEF RecordDatabase
<1>6. CASE Tick
  <2>1. now + 1 \in Seconds
    BY <1>6, <1>0, ConstantsOK DEF Tick, StoresOK, Seconds
  <2>2. StoresOK'  BY <1>6, <2>1, <1>0 DEF Tick, StoresOK, Tables, History
  <2> QED  BY <1>6, <2>2, <1>b2 DEF Tick
<1>7. CASE UNCHANGED vars
  BY <1>7, <1>0, <1>a, <1>b2 DEF vars, Tables, History
<1> QED  BY <1>1, <1>2, <1>3, <1>4, <1>5, <1>6, <1>7 DEF Next

\* The types of the variables, for every instance.
THEOREM TypeCorrect == Spec => []TypeOK
<1>1. Init => TypeOK
  <2> SUFFICES ASSUME Init PROVE TypeOK
    OBVIOUS
  <2>1. 0 \in Seconds  BY ConstantsOK DEF Seconds
  <2>2. AtRest \in Call  BY DEF AtRest, Call, Labels
  <2>3. StoresOK
    BY <2>1 DEF Init, StoresOK, Times, Paths, ArchiveStates
  <2>4. work \in [Slots -> Call] /\ \A c \in Slots : Carries(c)
    BY <2>2 DEF Init, Carries, AtRest, HoldingLabels, RecordingLabels
  <2> QED  BY <2>3, <2>4, TypeParts
<1> QED  BY <1>1, TypeStep, PTL DEF Spec

-----------------------------------------------------------------------------
\* How each part of the state can change in one step.
LEMMA MovesItself ==
  ASSUME TypeOK, [Next]_vars, NEW c \in Slots
  PROVE  work'[c] = work[c] \/ Step(c) \/ work'[c].pc \in {"idle", "lookup"}
<1>1. ASSUME NEW u \in Slots, NEW d \in Domains, Begin(u, d)
      PROVE  work'[c] = work[c] \/ work'[c].pc = "lookup"
  BY <1>1, BeginEffect
<1>2. ASSUME NEW u \in Slots, u # c, Step(u) PROVE work'[c] = work[c]
  <2>1. \A label : GoTo(u, label) => work'[c] = work[c]
    BY <1>2 DEF GoTo, TypeOK
  <2>2. Return(u) => work'[c] = work[c]  BY <1>2 DEF Return, TypeOK
  <2>3. NameArchive(u) \/ TakeTime(u) => work'[c] = work[c]
    BY <1>2, NameEffect, TimeEffect
  <2> QED
    BY <1>2, <2>1, <2>2, <2>3 DEF Step, SiteFound, UnknownSite, CreateArchive, WalkEnds,
       CloseFails, WalkFails, InsertBackup, UpdateDatabases, CallFails
<1>3. ASSUME NEW p \in Processes, Crash(p) PROVE work'[c] = work[c] \/ work'[c].pc = "idle"
  BY <1>3, CrashEffect
<1> QED
  BY <1>1, <1>2, <1>3 DEF Next, RegisterSite, RecordDatabase, Tick, vars

LEMMA HistoryGrows ==
  ASSUME TypeOK, [Next]_vars PROVE reused \subseteq reused' /\ overlapped \subseteq overlapped'
BY DEF Next, Step, Begin, SiteFound, UnknownSite, NameArchive, CreateArchive, WalkEnds,
   CloseFails, WalkFails, TakeTime, InsertBackup, UpdateDatabases, CallFails, Crash,
   RegisterSite, RecordDatabase, Tick, vars, History

LEMMA ArchivesStep ==
  ASSUME TypeOK, [Next]_vars, NEW path \in Paths
  PROVE  \/ archives'[path] = archives[path]
         \/ \E c \in Slots : CreateArchive(c) /\ Path(c) = path
         \/ \E c \in Slots : (WalkEnds(c) \/ CloseFails(c)) /\ Path(c) = path
<1>0. archives \in [Paths -> ArchiveStates]  BY DEF TypeOK, Paths
<1>1. ASSUME NEW c \in Slots, CreateArchive(c) \/ WalkEnds(c) \/ CloseFails(c), Path(c) # path
      PROVE  archives'[path] = archives[path]
  BY <1>0, <1>1 DEF CreateArchive, WalkEnds, CloseFails
<1> QED
  BY <1>1 DEF Next, Step, Begin, SiteFound, UnknownSite, NameArchive, WalkFails, TakeTime,
     InsertBackup, UpdateDatabases, CallFails, Crash, RegisterSite, RecordDatabase, Tick, vars

LEMMA BackupsStep ==
  ASSUME TypeOK, [Next]_vars
  PROVE  \/ backups' = backups
         \/ \E c \in Slots :
              /\ InsertBackup(c)
              /\ backups' = backups \cup {[path |-> Path(c), created |-> work[c].created]}
BY DEF Next, Step, Begin, SiteFound, UnknownSite, NameArchive, CreateArchive, WalkEnds,
   CloseFails, WalkFails, TakeTime, InsertBackup, UpdateDatabases, CallFails, Crash,
   RegisterSite, RecordDatabase, Tick, vars, Tables

-----------------------------------------------------------------------------
\* What a call that answers for an archive knows about it.
ArchiveOf(c) ==
  work[c].pc \in HoldingLabels /\ Path(c) \notin reused =>
    IF work[c].pc = "walk" THEN archives[Path(c)] = "partial"
                           ELSE archives[Path(c)] \in {"whole", "short"}

AloneOnArchives ==
  \A c, u \in Slots :
    c # u /\ Holding(c, Path(c)) /\ Holding(u, Path(c)) => Path(c) \in reused

WritersUnrecorded ==
  \A c \in Slots : work[c].pc = "walk" /\ Recorded(Path(c)) => Path(c) \in reused

ArchiveInv ==
  /\ \A c \in Slots : ArchiveOf(c)
  /\ AloneOnArchives
  /\ WritersUnrecorded
  /\ RecordedIsWhole

LEMMA HoldingStep ==
  ASSUME TypeOK, [Next]_vars, NEW c \in Slots, work'[c].pc \in HoldingLabels
  PROVE  /\ Path(c)' = Path(c)
         /\ \/ work[c].pc \in HoldingLabels /\ (work[c].pc = "walk" <=> work'[c].pc = "walk")
            \/ CreateArchive(c) /\ work'[c].pc = "walk"
            \/ (WalkEnds(c) \/ CloseFails(c)) /\ work'[c].pc = "time"
<1> USE DEF HoldingLabels, RecordingLabels
<1>1. CASE work'[c] = work[c]  BY <1>1 DEF Path
<1>2. CASE Step(c)
  <2>1. ~Return(c)  BY ReturnEffect
  <2>2. ~NameArchive(c)  BY NameEffect
  <2>3. ~SiteFound(c)  BY GoToEffect DEF SiteFound, Labels
  <2>4. CASE TakeTime(c)  BY <2>4, TimeEffect DEF TakeTime, Path
  <2>5. CASE CreateArchive(c)  BY <2>5, GoToEffect DEF CreateArchive, Path, Labels
  <2>6. CASE WalkEnds(c) \/ CloseFails(c)
    BY <2>6, GoToEffect DEF WalkEnds, CloseFails, Path, Labels
  <2>7. CASE InsertBackup(c)  BY <2>7, GoToEffect DEF InsertBackup, Path, Labels
  <2> QED
    BY <1>2, <2>1, <2>2, <2>3, <2>4, <2>5, <2>6, <2>7
       DEF Step, UnknownSite, WalkFails, UpdateDatabases, CallFails
<1> QED  BY <1>1, <1>2, MovesItself

LEMMA PathOfHolder ==
  ASSUME TypeOK, NEW c \in Slots, work[c].pc \in {"create"} \cup HoldingLabels
  PROVE  Path(c) \in Paths
BY TypeParts DEF Carries, Path, Paths, HoldingLabels, RecordingLabels

LEMMA AloneStep ==
  ASSUME TypeOK, ArchiveInv, [Next]_vars PROVE AloneOnArchives'
<1> SUFFICES ASSUME NEW c \in Slots, NEW u \in Slots, c # u,
                    Holding(c, Path(c))', Holding(u, Path(c))'
             PROVE  Path(c)' \in reused'
  BY DEF AloneOnArchives, Holding
<1>0. /\ work'[c].pc \in HoldingLabels /\ work'[u].pc \in HoldingLabels
      /\ Path(c)' = Path(c) /\ Path(u)' = Path(u) /\ Path(u) = Path(c)
  BY HoldingStep DEF Holding
<1>1. CASE work[c].pc \in HoldingLabels /\ work[u].pc \in HoldingLabels
  BY <1>0, <1>1, HistoryGrows DEF ArchiveInv, AloneOnArchives, Holding
<1>2. ASSUME NEW x \in {c, u}, NEW y \in {c, u}, x # y, CreateArchive(x)
      PROVE  Path(c) \in reused'
  <2>1. work'[y] = work[y]  BY <1>2 DEF CreateArchive, GoTo, TypeOK
  <2>2. Holding(y, Path(x))  BY <1>0, <1>2, <2>1 DEF Holding
  <2> QED  BY <1>0, <1>2, <2>2 DEF CreateArchive
<1>3. \A x \in Slots : WalkEnds(x) \/ CloseFails(x) => work[x].pc \in HoldingLabels
  BY DEF WalkEnds, CloseFails, HoldingLabels
<1> QED  BY <1>0, <1>1, <1>2, <1>3, HoldingStep

LEMMA ArchiveOfStep ==
  ASSUME TypeOK, ArchiveInv, [Next]_vars, NEW c \in Slots PROVE ArchiveOf(c)'
<1> SUFFICES ASSUME work'[c].pc \in HoldingLabels, Path(c)' \notin reused'
             PROVE  IF work'[c].pc = "walk" THEN archives'[Path(c)'] = "partial"
                                            ELSE archives'[Path(c)'] \in {"whole", "short"}
  BY DEF ArchiveOf
<1>0. Path(c)' = Path(c) /\ Path(c) \notin reused' /\ Path(c) \notin reused
  BY HoldingStep, HistoryGrows
<1>t. archives \in [Paths -> ArchiveStates]  BY DEF TypeOK, Paths
<1>1. CASE CreateArchive(c) /\ work'[c].pc = "walk"
  <2>1. \A u \in Slots : ~Holding(u, Path(c))  BY <1>0, <1>1 DEF CreateArchive
  <2>2. \A u \in Slots : ~Writing(u, Path(c))
    BY <2>1 DEF Writing, Holding, HoldingLabels
  <2>3. Path(c) \in Paths  BY <1>1, PathOfHolder DEF CreateArchive
  <2>4. archives'[Path(c)] = "partial"  BY <1>1, <1>t, <2>2, <2>3 DEF CreateArchive
  <2> QED  BY <1>0, <1>1, <2>4
<1>2. CASE (WalkEnds(c) \/ CloseFails(c)) /\ work'[c].pc = "time"
  <2>1. work[c].pc = "walk"  BY <1>2 DEF WalkEnds, CloseFails
  <2>2. Path(c) \in Paths  BY <2>1, PathOfHolder DEF HoldingLabels
  <2>3. archives[Path(c)] = "partial"
    BY <1>0, <2>1 DEF ArchiveInv, ArchiveOf, HoldingLabels
  <2>4. archives'[Path(c)] \in {"whole", "short"}
    BY <1>2, <1>t, <2>2, <2>3 DEF WalkEnds, CloseFails
  <2> QED  BY <1>0, <1>2, <2>4
<1>3. CASE work[c].pc \in HoldingLabels /\ (work[c].pc = "walk" <=> work'[c].pc = "walk")
  <2>1. Path(c) \in Paths  BY <1>3, PathOfHolder
  <2>2. ASSUME NEW u \in Slots, CreateArchive(u), Path(u) = Path(c) PROVE FALSE
    BY <1>0, <1>3, <2>2 DEF CreateArchive, Holding
  <2>3. ASSUME NEW u \in Slots, WalkEnds(u) \/ CloseFails(u), Path(u) = Path(c) PROVE FALSE
    <3>1. work[u].pc = "walk"  BY <2>3 DEF WalkEnds, CloseFails
    <3>2. u = c
      BY <1>0, <1>3, <2>3, <3>1 DEF ArchiveInv, AloneOnArchives, Holding, HoldingLabels
    <3>3. work'[c].pc = "time"
      BY <2>3, <3>2, GoToEffect DEF WalkEnds, CloseFails, Labels
    <3> QED  BY <1>3, <3>1, <3>2, <3>3
  <2>4. archives'[Path(c)] = archives[Path(c)]  BY <2>1, <2>2, <2>3, ArchivesStep
  <2> QED  BY <1>0, <1>3, <2>4 DEF ArchiveInv, ArchiveOf
<1> QED  BY <1>1, <1>2, <1>3, HoldingStep

LEMMA UnrecordedStep ==
  ASSUME TypeOK, ArchiveInv, [Next]_vars PROVE WritersUnrecorded'
<1> SUFFICES ASSUME NEW c \in Slots, work'[c].pc = "walk", Recorded(Path(c))'
             PROVE  Path(c)' \in reused'
  BY DEF WritersUnrecorded
<1> USE DEF HoldingLabels
<1>0. Path(c)' = Path(c)  BY HoldingStep
<1>1. CASE CreateArchive(c)
  <2>1. backups' = backups  BY <1>1 DEF CreateArchive, Tables
  <2> QED  BY <1>0, <1>1, <2>1 DEF CreateArchive, Recorded
<1>2. CASE work[c].pc = "walk"
  <2>1. CASE Recorded(Path(c))
    BY <1>0, <1>2, <2>1, HistoryGrows DEF ArchiveInv, WritersUnrecorded
  <2>2. CASE ~Recorded(Path(c))
    <3>1. PICK b \in backups' : b.path = Path(c)  BY <1>0 DEF Recorded
    <3>2. PICK u \in Slots : InsertBackup(u) /\ b.path = Path(u)
      BY <2>2, <3>1, BackupsStep DEF Recorded
    <3>3. u # c /\ work[u].pc = "insert"  BY <1>2, <3>2 DEF InsertBackup
    <3>4. Path(c) \in reused
      BY <1>2, <3>1, <3>2, <3>3 DEF ArchiveInv, AloneOnArchives, Holding, RecordingLabels
    <3> QED  BY <1>0, <3>4, HistoryGrows
  <2> QED  BY <2>1, <2>2
<1> QED  BY <1>1, <1>2, HoldingStep

LEMMA WholeStep ==
  ASSUME TypeOK, ArchiveInv, [Next]_vars PROVE RecordedIsWhole'
<1> SUFFICES ASSUME NEW b \in backups', b.path \notin reused'
             PROVE  archives'[b.path] \in {"whole", "short"}
  BY DEF RecordedIsWhole
<1>0. b.path \notin reused  BY HistoryGrows
<1>1. CASE b \in backups
  <2>1. archives[b.path] \in {"whole", "short"} /\ Recorded(b.path) /\ b.path \in Paths
    BY <1>0, <1>1 DEF ArchiveInv, RecordedIsWhole, Recorded, TypeOK, Backup, Paths
  <2>2. ASSUME NEW c \in Slots, CreateArchive(c), Path(c) = b.path PROVE FALSE
    BY <2>1, <2>2 DEF CreateArchive
  <2>3. ASSUME NEW c \in Slots, WalkEnds(c) \/ CloseFails(c), Path(c) = b.path PROVE FALSE
    BY <1>0, <2>1, <2>3 DEF WalkEnds, CloseFails, ArchiveInv, WritersUnrecorded
  <2> QED  BY <2>1, <2>2, <2>3, ArchivesStep
<1>2. CASE b \notin backups
  <2>1. PICK c \in Slots : InsertBackup(c) /\ b.path = Path(c)
    BY <1>2, BackupsStep
  <2>2. archives' = archives /\ work[c].pc = "insert"  BY <2>1 DEF InsertBackup
  <2> QED
    BY <1>0, <2>1, <2>2 DEF ArchiveInv, ArchiveOf, HoldingLabels, RecordingLabels
<1> QED  BY <1>1, <1>2

\* An archive recorded as a completed backup is whole, whatever failed on the way,
\* unless its name was used again or closing it failed unseen.
THEOREM RecordedBackupsAreWhole == Spec => []RecordedIsWhole
<1>1. Init => ArchiveInv
  BY DEF Init, ArchiveInv, ArchiveOf, AloneOnArchives, WritersUnrecorded, RecordedIsWhole,
     Holding, HoldingLabels, RecordingLabels, AtRest
<1>2. TypeOK /\ ArchiveInv /\ [Next]_vars => ArchiveInv'
  BY AloneStep, ArchiveOfStep, UnrecordedStep, WholeStep DEF ArchiveInv
<1>3. ArchiveInv => RecordedIsWhole  BY DEF ArchiveInv
<1> QED  BY <1>1, <1>2, <1>3, TypeCorrect, PTL DEF Spec

-----------------------------------------------------------------------------
\* A call about to update the databases has recorded its backup, and a row without
\* a site has never been updated.
Recorder(c) ==
  work[c].pc = "update" =>
    \E b \in backups : b.path = Path(c) /\ b.created = work[c].created

UnassignedNames == \A n \in Names : site[n] = NoSite => lastBackup[n] = Never

LastInv ==
  /\ \A c \in Slots : Recorder(c)
  /\ UnassignedNames
  /\ LastBackupIsRecorded

LEMMA RecordingStep ==
  ASSUME TypeOK, [Next]_vars, NEW c \in Slots, work'[c].pc \in RecordingLabels
  PROVE  /\ Path(c)' = Path(c) /\ work'[c].domain = work[c].domain
         /\ \/ /\ work[c].pc \in RecordingLabels
               /\ work'[c].created = work[c].created
               /\ work'[c].pc = work[c].pc \/ InsertBackup(c)
            \/ TakeTime(c) /\ work'[c].pc = "insert" /\ work'[c].created = now
<1> USE DEF RecordingLabels
<1>1. CASE work'[c] = work[c]  BY <1>1 DEF Path
<1>2. CASE Step(c)
  <2>1. ~Return(c)  BY ReturnEffect
  <2>2. ~NameArchive(c)  BY NameEffect
  <2>3. ~SiteFound(c) /\ ~CreateArchive(c) /\ ~WalkEnds(c) /\ ~CloseFails(c)
    BY GoToEffect DEF SiteFound, CreateArchive, WalkEnds, CloseFails, Labels, HoldingLabels
  <2>4. CASE TakeTime(c)  BY <2>4, TimeEffect DEF Path
  <2>5. CASE InsertBackup(c)
    BY <2>5, GoToEffect DEF InsertBackup, Path, Labels, HoldingLabels
  <2> QED
    BY <1>2, <2>1, <2>2, <2>3, <2>4, <2>5
       DEF Step, UnknownSite, WalkFails, UpdateDatabases, CallFails
<1> QED  BY <1>1, <1>2, MovesItself

LEMMA LastBackupStep ==
  ASSUME TypeOK, [Next]_vars
  PROVE  \/ lastBackup' = lastBackup
         \/ \E c \in Slots :
              /\ UpdateDatabases(c)
              /\ \A n \in Names : lastBackup'[n] =
                   IF site[n] = work[c].domain THEN work[c].created ELSE lastBackup[n]
BY DEF Next, Step, Begin, SiteFound, UnknownSite, NameArchive, CreateArchive, WalkEnds,
   CloseFails, WalkFails, TakeTime, InsertBackup, UpdateDatabases, CallFails, Crash,
   RegisterSite, RecordDatabase, Tick, vars, Tables

LEMMA SiteStep ==
  ASSUME TypeOK, [Next]_vars
  PROVE  \/ site' = site
         \/ /\ lastBackup' = lastBackup
            /\ \A n \in Names : site'[n] = site[n] \/ (site[n] = NoSite /\ site'[n] # NoSite)
<1>1. ASSUME NEW m \in Names, NEW d \in Domains, RecordDatabase(m, d)
      PROVE  /\ lastBackup' = lastBackup
             /\ \A n \in Names : site'[n] = site[n] \/ (site[n] = NoSite /\ site'[n] # NoSite)
  BY <1>1, ConstantsOK DEF RecordDatabase, TypeOK
<1> QED
  BY <1>1 DEF Next, Step, Begin, SiteFound, UnknownSite, NameArchive, CreateArchive, WalkEnds,
     CloseFails, WalkFails, TakeTime, InsertBackup, UpdateDatabases, CallFails, Crash,
     RegisterSite, Tick, vars, Tables

\* A call that records has a site.
LEMMA RecorderHasSite ==
  ASSUME TypeOK, NEW c \in Slots, work[c].pc \in RecordingLabels
  PROVE  work[c].domain \in Domains /\ work[c].created \in Seconds
BY DEF TypeOK, RecordingLabels

LEMMA RecorderStep ==
  ASSUME TypeOK, LastInv, [Next]_vars, NEW c \in Slots PROVE Recorder(c)'
<1> SUFFICES ASSUME work'[c].pc = "update"
             PROVE  \E b \in backups' : b.path = Path(c)' /\ b.created = work'[c].created
  BY DEF Recorder
<1>0. /\ Path(c)' = Path(c) /\ work'[c].created = work[c].created
      /\ work[c].pc = "update" \/ InsertBackup(c)
  BY RecordingStep DEF RecordingLabels
<1>1. CASE work[c].pc = "update"
  BY <1>0, <1>1, BackupsStep DEF LastInv, Recorder
<1>2. CASE InsertBackup(c)
  <2>1. [path |-> Path(c), created |-> work[c].created] \in backups'
    BY <1>2 DEF InsertBackup
  <2> QED  BY <1>0, <2>1
<1> QED  BY <1>0, <1>1, <1>2

LEMMA LastStep == TypeOK /\ LastInv /\ [Next]_vars => LastInv'
<1> SUFFICES ASSUME TypeOK, LastInv, [Next]_vars PROVE LastInv'
  OBVIOUS
<1>1. UnassignedNames'
  <2> SUFFICES ASSUME NEW n \in Names, site'[n] = NoSite PROVE lastBackup'[n] = Never
    BY DEF UnassignedNames
  <2>1. site[n] = NoSite  BY SiteStep
  <2>2. lastBackup[n] = Never  BY <2>1 DEF LastInv, UnassignedNames
  <2>3. ASSUME NEW c \in Slots, UpdateDatabases(c) PROVE work[c].domain # NoSite
    BY <2>3, RecorderHasSite, ConstantsOK DEF UpdateDatabases, RecordingLabels
  <2> QED  BY <2>1, <2>2, <2>3, LastBackupStep
<1>2. LastBackupIsRecorded'
  <2> SUFFICES ASSUME NEW n \in Names, lastBackup'[n] # Never
               PROVE  \E b \in backups' : b.path[1] = site'[n] /\ b.created = lastBackup'[n]
    BY DEF LastBackupIsRecorded
  <2>1. CASE lastBackup'[n] = lastBackup[n]
    <3>1. PICK b \in backups : b.path[1] = site[n] /\ b.created = lastBackup[n]
      BY <2>1 DEF LastInv, LastBackupIsRecorded
    <3>2. site'[n] = site[n]  BY <2>1, SiteStep DEF LastInv, UnassignedNames
    <3>3. b \in backups'  BY BackupsStep
    <3> QED  BY <2>1, <3>1, <3>2, <3>3
  <2>2. CASE lastBackup'[n] # lastBackup[n]
    <3>1. PICK c \in Slots : UpdateDatabases(c) /\ site[n] = work[c].domain
                             /\ lastBackup'[n] = work[c].created
      BY <2>2, LastBackupStep
    <3>2. PICK b \in backups : b.path = Path(c) /\ b.created = work[c].created
      BY <3>1 DEF LastInv, Recorder, UpdateDatabases
    <3>3. b.path[1] = site[n]  BY <3>1, <3>2 DEF Path
    <3>4. site' = site /\ backups' = backups  BY <3>1 DEF UpdateDatabases
    <3> QED  BY <3>1, <3>2, <3>3, <3>4
  <2> QED  BY <2>1, <2>2
<1> QED  BY <1>1, <1>2, RecorderStep DEF LastInv

\* The last backup a database shows is a recorded backup of its own site.
THEOREM LastBackupsAreRecorded == Spec => []LastBackupIsRecorded
<1>1. Init => LastInv
  BY DEF Init, LastInv, Recorder, UnassignedNames, LastBackupIsRecorded, AtRest
<1>2. LastInv => LastBackupIsRecorded  BY DEF LastInv
<1> QED  BY <1>1, <1>2, LastStep, TypeCorrect, PTL DEF Spec

-----------------------------------------------------------------------------
\* Times are taken from the past; a site that is not overlapped has one recorder, and
\* nothing it will overwrite is later than what it writes.
TimesPast ==
  /\ \A n \in Names : lastBackup[n] <= now
  /\ \A c \in Slots : work[c].pc \in RecordingLabels => work[c].created <= now

AloneRecording ==
  \A c, u \in Slots : c # u /\ work[c].pc \in RecordingLabels /\ Recording(u, work[c].domain)
    => work[c].domain \in overlapped

NotPassed ==
  \A c \in Slots, n \in Names :
    work[c].pc \in RecordingLabels /\ site[n] = work[c].domain /\ site[n] \notin overlapped
      => lastBackup[n] <= work[c].created

OrderInv == TimesPast /\ AloneRecording /\ NotPassed /\ UnassignedNames

LEMMA Clock ==
  ASSUME TypeOK, [Next]_vars
  PROVE  /\ now \in Int /\ now' \in Int /\ now <= now'
         /\ Seconds \subseteq Int /\ Never \in Int /\ \A s \in Seconds : Never <= s
<1>1. now \in Int /\ Seconds \subseteq Int /\ Never \in Int /\ \A s \in Seconds : Never <= s
  BY ConstantsOK DEF TypeOK, Seconds, Never
<1>2. now' = now \/ now' = now + 1
  BY DEF Next, Step, Begin, SiteFound, UnknownSite, NameArchive, CreateArchive, WalkEnds,
     CloseFails, WalkFails, TakeTime, InsertBackup, UpdateDatabases, CallFails, Crash,
     RegisterSite, RecordDatabase, Tick, vars
<1> QED  BY <1>1, <1>2

LEMMA LastBackupIsTime ==
  ASSUME TypeOK, [Next]_vars, NEW n \in Names PROVE lastBackup[n] \in Int
BY Clock DEF TypeOK

LEMMA OrderStep == TypeOK /\ OrderInv /\ [Next]_vars => OrderInv'
<1> SUFFICES ASSUME TypeOK, OrderInv, [Next]_vars PROVE OrderInv'
  OBVIOUS
<1>u. UnassignedNames'
  <2> SUFFICES ASSUME NEW n \in Names, site'[n] = NoSite PROVE lastBackup'[n] = Never
    BY DEF UnassignedNames
  <2>1. site[n] = NoSite  BY SiteStep
  <2>2. lastBackup[n] = Never  BY <2>1 DEF OrderInv, UnassignedNames
  <2>3. ASSUME NEW c \in Slots, UpdateDatabases(c) PROVE work[c].domain # NoSite
    BY <2>3, RecorderHasSite, ConstantsOK DEF UpdateDatabases, RecordingLabels
  <2> QED  BY <2>1, <2>2, <2>3, LastBackupStep
<1>1. ASSUME NEW n \in Names PROVE lastBackup'[n] <= now'
  <2>1. lastBackup[n] \in Int /\ lastBackup[n] <= now
    BY LastBackupIsTime DEF OrderInv, TimesPast
  <2>2. ASSUME NEW c \in Slots, UpdateDatabases(c)
        PROVE  work[c].created \in Int /\ work[c].created <= now
    BY <2>2, RecorderHasSite, Clock DEF UpdateDatabases, RecordingLabels, OrderInv, TimesPast
  <2>3. lastBackup'[n] \in Int /\ lastBackup'[n] <= now  BY <2>1, <2>2, LastBackupStep
  <2> QED  BY <2>3, Clock
<1>2. ASSUME NEW c \in Slots, work'[c].pc \in RecordingLabels PROVE work'[c].created <= now'
  <2>1. CASE TakeTime(c) /\ work'[c].created = now  BY <2>1, Clock
  <2>2. CASE work[c].pc \in RecordingLabels /\ work'[c].created = work[c].created
    <3>1. work[c].created \in Int /\ work[c].created <= now
      BY <2>2, RecorderHasSite, Clock DEF OrderInv, TimesPast
    <3> QED  BY <2>2, <3>1, Clock
  <2> QED  BY <1>2, <2>1, <2>2, RecordingStep
<1>3. AloneRecording'
  <2> SUFFICES ASSUME NEW c \in Slots, NEW u \in Slots, c # u,
                      work'[c].pc \in RecordingLabels, work'[u].pc \in RecordingLabels,
                      work'[u].domain = work'[c].domain
               PROVE  work'[c].domain \in overlapped'
    BY DEF AloneRecording, Recording
  <2>0. work'[c].domain = work[c].domain /\ work'[u].domain = work[u].domain
    BY RecordingStep
  <2>1. CASE work[c].pc \in RecordingLabels /\ work[u].pc \in RecordingLabels
    BY <2>0, <2>1, HistoryGrows DEF OrderInv, AloneRecording, Recording
  <2>2. ASSUME NEW x \in {c, u}, NEW y \in {c, u}, x # y, TakeTime(x)
        PROVE  work[c].domain \in overlapped'
    <3>1. work'[y] = work[y]  BY <2>2, TimeEffect
    <3>2. Recording(y, work[x].domain)  BY <2>0, <2>2, <3>1 DEF Recording
    <3> QED  BY <2>0, <2>2, <3>2 DEF TakeTime
  <2> QED  BY <2>0, <2>1, <2>2, RecordingStep
<1>4. NotPassed'
  <2> SUFFICES ASSUME NEW c \in Slots, NEW n \in Names, work'[c].pc \in RecordingLabels,
                      site'[n] = work'[c].domain, site'[n] \notin overlapped'
               PROVE  lastBackup'[n] <= work'[c].created
    BY DEF NotPassed
  <2>t. lastBackup[n] \in Int /\ lastBackup[n] <= now
    BY LastBackupIsTime DEF OrderInv, TimesPast
  <2>1. CASE TakeTime(c) /\ work'[c].created = now
    <3>1. lastBackup' = lastBackup  BY <2>1 DEF TakeTime, Tables
    <3> QED  BY <2>1, <2>t, <3>1
  <2>2. CASE work[c].pc \in RecordingLabels /\ work'[c].created = work[c].created
    <3>0. work'[c].domain = work[c].domain /\ work[c].created \in Seconds
      BY <2>2, RecordingStep, RecorderHasSite
    <3>1. CASE site'[n] = site[n] /\ lastBackup'[n] = lastBackup[n]
      BY <2>2, <3>0, <3>1, HistoryGrows DEF OrderInv, NotPassed
    <3>2. CASE site'[n] # site[n]
      <4>1. lastBackup'[n] = Never
        BY <3>2, SiteStep DEF OrderInv, UnassignedNames
      <4> QED  BY <2>2, <3>0, <4>1, Clock
    <3>3. CASE site'[n] = site[n] /\ lastBackup'[n] # lastBackup[n]
      <4>1. PICK u \in Slots : UpdateDatabases(u) /\ site[n] = work[u].domain
        BY <3>3, LastBackupStep
      <4>2. u # c  BY <4>1, ReturnEffect DEF UpdateDatabases, RecordingLabels
      <4>3. Recording(u, work[c].domain)
        BY <3>0, <3>3, <4>1 DEF Recording, RecordingLabels, UpdateDatabases
      <4>4. work[c].domain \in overlapped
        BY <2>2, <4>2, <4>3 DEF OrderInv, AloneRecording
      <4> QED  BY <3>0, <4>4, HistoryGrows
    <3> QED  BY <3>1, <3>2, <3>3
  <2> QED  BY <2>1, <2>2, RecordingStep
<1> QED  BY <1>u, <1>1, <1>2, <1>3, <1>4 DEF OrderInv, TimesPast

LEMMA AdvanceStep ==
  ASSUME TypeOK, OrderInv, [Next]_vars, NEW n \in Names, site[n] \notin overlapped
  PROVE  lastBackup[n] <= lastBackup'[n]
<1>1. CASE lastBackup'[n] = lastBackup[n]  BY <1>1, LastBackupIsTime
<1>2. CASE lastBackup'[n] # lastBackup[n]
  <2>1. PICK c \in Slots : UpdateDatabases(c) /\ site[n] = work[c].domain
                           /\ lastBackup'[n] = work[c].created
    BY <1>2, LastBackupStep
  <2> QED  BY <2>1 DEF OrderInv, NotPassed, UpdateDatabases, RecordingLabels
<1> QED  BY <1>1, <1>2

\* The last backup time of a database never goes back while its site is not backed up
\* by two calls that record at once.
THEOREM LastBackupsAdvance == Spec => LastBackupAdvances
<1>1. Init => OrderInv
  <2> SUFFICES ASSUME Init PROVE OrderInv
    OBVIOUS
  <2>1. \A n \in Names : lastBackup[n] <= now  BY DEF Init, Never
  <2> QED
    BY <2>1 DEF Init, OrderInv, TimesPast, AloneRecording, NotPassed, UnassignedNames,
       RecordingLabels, AtRest
<1>2. TypeOK /\ OrderInv /\ [Next]_vars =>
        [\A n \in Names : site[n] \notin overlapped => lastBackup[n] <= lastBackup'[n]]_vars
  BY AdvanceStep
<1> QED  BY <1>1, <1>2, OrderStep, TypeCorrect, PTL DEF Spec, LastBackupAdvances
=============================================================================
