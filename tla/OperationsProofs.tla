--------------------------- MODULE OperationsProofs ---------------------------
(***************************************************************************)
(* Proofs about Operations, for any number of requests, sites, files and   *)
(* services.  First, the rest of the server, restarts of the panel         *)
(* included, is what SecurityService expects around a scan; then what      *)
(* holds of the scans, of the restarts and of the overviews.               *)
(***************************************************************************)
EXTENDS Operations, FiniteSetTheorems, TLAPS

\* The sites are the only thing that both services look at, and only RegisterSite changes them.
LEMMA ServerStepsKeepSites ==
  ASSUME NEW t \in Slots,
         \/ Server!Step(t) \/ Server!BeginOverview(t)
         \/ Server!OutputInherited(t) \/ Server!Release(t)
         \/ \E s \in Services : Server!Begin(t, s)
  PROVE  registered' = registered
BY DEF Server!Step, Server!Begin, Server!Unavailable, Server!StartCommand, Server!HostAccepts,
   Server!HostRestarts, Server!CommandSucceeds, Server!CommandFails, Server!TimesOut,
   Server!OutputCloses, Server!OutputInherited, Server!Release, Server!Answer,
   Server!BeginOverview, Server!CountSites, Server!CountBackups, Server!ListSites,
   Server!ListBackups, Server!OverviewFails, Server!AnswerOverview, Server!tables

LEMMA ScansAllow == [Next]_vars => [Scans!Next]_(Scans!vars)
<1> SUFFICES ASSUME [Next]_vars PROVE [Scans!Next]_(Scans!vars)
  OBVIOUS
<1> USE DEF Scans!vars, Scans!world, scanVars, serverVars
<1>1. ASSUME NEW t \in Slots, Request(t) PROVE [Scans!Next]_(Scans!vars)
  <2>1. Scopes[t] \subseteq Domains \cup {NoDomain} /\ Restarts[t] \subseteq Services
    BY ConstantsOK
  <2> QED  BY <1>1, <2>1, ServerStepsKeepSites DEF Request, Scans!Next
<1>2. ASSUME NEW t \in Slots, Step(t) PROVE [Scans!Next]_(Scans!vars)
  BY <1>2, ServerStepsKeepSites DEF Step, Scans!Next
<1>3. ASSUME NEW t \in Slots, OutsideProcess(t) PROVE [Scans!Next]_(Scans!vars)
  BY <1>3, ServerStepsKeepSites DEF OutsideProcess, Scans!Next
<1>4. CASE PanelRestarts
  BY <1>4 DEF PanelRestarts, Server!PanelRestarts, Server!tables, Scans!Next, Scans!Crash
<1>5. CASE Environment
  BY <1>5 DEF Environment, Server!RegisterSite, Server!DeleteSite, Server!RecordBackup,
     Scans!Next, Scans!RegisterSite
<1>6. CASE UNCHANGED vars
  BY <1>6 DEF vars
<1> QED  BY <1>1, <1>2, <1>3, <1>4, <1>5, <1>6 DEF Next

\* Seen from a scan, the rest of the server and the restarts of the panel are what
\* SecurityService allows around it.
THEOREM ImplementsScans == Spec => Scans!Spec
<1>1. Init => Scans!Init  BY DEF Init
<1>2. [Next]_vars => [Scans!Next]_(Scans!vars)  BY ScansAllow
<1> QED  BY <1>1, <1>2, PTL DEF Spec, Scans!Spec

-----------------------------------------------------------------------------
(* The scans. *)

\* The record of a scan after each of its steps.
Listed(t, scope) ==
  [scan[t] EXCEPT !.pc = "list", !.scope = scope, !.due = Scans!InScope(scope),
                   !.steady = Scans!Infected \cap Scannable]
Scoped(t) ==
  [scan[t] EXCEPT !.pc = "site", !.todo = Scans!InScope(scan[t].scope)]
Opened(t, d) ==
  [scan[t] EXCEPT !.pc = "walk", !.site = d, !.todo = @ \ {d}, !.scanned = @ \cup {d},
                   !.names = {f \in Files : SiteOf[f] = d /\ content[f] # "absent"}]
BrokenOff(t) ==
  [scan[t] EXCEPT !.pc = "site", !.names = {}, !.cut = @ \cup {scan[t].site},
                   !.site = NoDomain]
Visited(t, f) ==
  [scan[t] EXCEPT
    !.found = IF f \in Writable THEN @ \cup {<<f, "mode">>} ELSE @,
    !.file = IF f \in Scannable THEN f ELSE NoFile,
    !.pc = IF f \in Scannable THEN "read" ELSE "walk",
    !.names = IF f \in Scannable THEN @ ELSE @ \ {f}]
Read(t) ==
  [scan[t] EXCEPT !.pc = "walk", !.names = @ \ {scan[t].file}, !.file = NoFile,
                   !.found = IF content[scan[t].file] = "infected"
                             THEN @ \cup {<<scan[t].file, "signature">>} ELSE @]
Blocked(t) ==
  [scan[t] EXCEPT !.pc = "blocked"]
Released(t, findings) ==
  [scan[t] EXCEPT !.pc = "walk", !.names = @ \ {scan[t].file}, !.file = NoFile,
                   !.found = @ \cup findings]
PassedOver(t) ==
  [scan[t] EXCEPT !.pc = "walk", !.names = @ \ {scan[t].file},
                   !.unread = @ \cup {scan[t].file}, !.file = NoFile]
Walked(t) ==
  [scan[t] EXCEPT !.pc = "site", !.site = NoDomain]
Complete(t) ==
  [scan[t] EXCEPT !.pc = "report"]
Named(t) ==
  [scan[t] EXCEPT !.pc = "truncate", !.path = now]
Truncated(t) ==
  [scan[t] EXCEPT !.pc = "write"]
Written(t) ==
  [scan[t] EXCEPT !.pc = "done"]
Aged(t, f) == [scan[t] EXCEPT !.steady = @ \ {f}]

\* Only the record of one scan changes.
Framed(t) == scan' \in [Slots -> Scans!Scan] /\ \A u \in Slots \ {t} : scan'[u] = scan[u]

\* What each step does to the records: the one of its scan becomes the one named above.
LEMMA ScanFrame ==
  ASSUME Scans!TypeOK, NEW t \in Slots, NEW r \in Scans!Scan, scan' = [scan EXCEPT ![t] = r]
  PROVE  Framed(t) /\ scan'[t] = r
BY DEF Scans!TypeOK, Framed

LEMMA ScanReturns ==
  ASSUME Scans!ConstantsOK, Scans!TypeOK, NEW t \in Slots, Scans!Return(t)
  PROVE  Framed(t) /\ scan'[t] = Scans!AtRest
<1>1. Scans!AtRest \in Scans!Scan
  BY DEF Scans!ConstantsOK, Scans!Scan, Scans!AtRest, Scans!Labels, Scans!Seconds
<1> QED  BY <1>1, ScanFrame DEF Scans!Return

LEMMA ListedEffect ==
  ASSUME Scans!TypeOK, NEW t \in Slots, NEW scope \in Domains \cup {NoDomain},
         Scans!Begin(t, scope)
  PROVE  Framed(t) /\ scan'[t] = Listed(t, scope)
<1>1. scan[t] \in Scans!Scan  BY DEF Scans!TypeOK
<1>2. Scans!InScope(scope) \subseteq Domains /\ Scans!Infected \subseteq Files
  BY DEF Scans!TypeOK, Scans!InScope, Scans!Infected
<1>3. Listed(t, scope) \in Scans!Scan
  BY <1>1, <1>2 DEF Listed, Scans!Scan, Scans!Labels, Scans!WritingLabels
<1>4. scan' = [scan EXCEPT ![t] = Listed(t, scope)]  BY DEF Scans!TypeOK, Listed, Scans!Begin
<1> QED  BY <1>3, <1>4, ScanFrame

LEMMA ScopedEffect ==
  ASSUME Scans!TypeOK, NEW t \in Slots, Scans!ListSites(t)
  PROVE  Framed(t) /\ scan'[t] = Scoped(t)
<1>1. scan[t] \in Scans!Scan  BY DEF Scans!TypeOK
<1>2. Scans!InScope(scan[t].scope) \subseteq Domains  BY DEF Scans!TypeOK, Scans!InScope
<1>3. Scoped(t) \in Scans!Scan
  BY <1>1, <1>2 DEF Scoped, Scans!Scan, Scans!Labels, Scans!WritingLabels
<1>4. scan' = [scan EXCEPT ![t] = Scoped(t)]  BY DEF Scans!TypeOK, Scoped, Scans!ListSites
<1> QED  BY <1>3, <1>4, ScanFrame

LEMMA OpenedEffect ==
  ASSUME Scans!TypeOK, NEW t \in Slots, NEW d \in Domains, Scans!OpenSite(t, d)
  PROVE  Framed(t) /\ scan'[t] = Opened(t, d)
<1>1. scan[t] \in Scans!Scan  BY DEF Scans!TypeOK
<1>2. Opened(t, d) \in Scans!Scan
  BY <1>1 DEF Opened, Scans!Scan, Scans!Labels, Scans!WritingLabels
<1>3. scan' = [scan EXCEPT ![t] = Opened(t, d)]  BY DEF Scans!TypeOK, Opened, Scans!OpenSite
<1> QED  BY <1>2, <1>3, ScanFrame

LEMMA BrokenOffEffect ==
  ASSUME Scans!TypeOK, NEW t \in Slots, scan[t].site \in Domains, Scans!WalkBreaksOff(t)
  PROVE  Framed(t) /\ scan'[t] = BrokenOff(t)
<1>1. scan[t] \in Scans!Scan  BY DEF Scans!TypeOK
<1>2. BrokenOff(t) \in Scans!Scan
  BY <1>1 DEF BrokenOff, Scans!Scan, Scans!Labels, Scans!WritingLabels
<1>3. scan' = [scan EXCEPT ![t] = BrokenOff(t)]
  BY DEF Scans!TypeOK, BrokenOff, Scans!WalkBreaksOff
<1> QED  BY <1>2, <1>3, ScanFrame

LEMMA VisitedEffect ==
  ASSUME Scans!TypeOK, NEW t \in Slots, NEW f \in Files, Scans!VisitFile(t, f)
  PROVE  Framed(t) /\ scan'[t] = Visited(t, f)
<1>1. scan[t] \in Scans!Scan  BY DEF Scans!TypeOK
<1>2. <<f, "mode">> \in Scans!Findings  BY DEF Scans!TypeOK, Scans!Findings, Scans!Marks
<1>3. Visited(t, f) \in Scans!Scan
  BY <1>1, <1>2 DEF Visited, Scans!Scan, Scans!Labels, Scans!ReadingLabels
<1>4. scan' = [scan EXCEPT ![t] = Visited(t, f)]
  BY DEF Scans!TypeOK, Visited, Scans!VisitFile
<1> QED  BY <1>3, <1>4, ScanFrame

LEMMA ReadEffect ==
  ASSUME Scans!TypeOK, NEW t \in Slots, scan[t].file \in Files, Scans!ReadFile(t)
  PROVE  Framed(t) /\ scan'[t] = Read(t)
<1>1. scan[t] \in Scans!Scan  BY DEF Scans!TypeOK
<1>2. <<scan[t].file, "signature">> \in Scans!Findings
  BY DEF Scans!TypeOK, Scans!Findings, Scans!Marks
<1>3. Read(t) \in Scans!Scan
  BY <1>1, <1>2 DEF Read, Scans!Scan, Scans!Labels, Scans!WritingLabels
<1>4. scan' = [scan EXCEPT ![t] = Read(t)]  BY DEF Scans!TypeOK, Read, Scans!ReadFile
<1> QED  BY <1>3, <1>4, ScanFrame

LEMMA BlockedEffect ==
  ASSUME Scans!TypeOK, NEW t \in Slots, Scans!ReadBlocks(t)
  PROVE  Framed(t) /\ scan'[t] = Blocked(t)
<1>1. scan[t] \in Scans!Scan  BY DEF Scans!TypeOK
<1>2. Blocked(t) \in Scans!Scan
  BY <1>1 DEF Blocked, Scans!Scan, Scans!Labels, Scans!ReadingLabels
<1>3. scan' = [scan EXCEPT ![t] = Blocked(t)]
  BY DEF Scans!TypeOK, Blocked, Scans!ReadBlocks
<1> QED  BY <1>2, <1>3, ScanFrame

LEMMA ReleasedEffect ==
  ASSUME Scans!TypeOK, NEW t \in Slots, scan[t].file \in Files, Scans!ReadReleased(t)
  PROVE  /\ Framed(t)
         /\ \E findings \in {{}, {<<scan[t].file, "signature">>}} :
              scan'[t] = Released(t, findings)
<1>1. PICK findings \in {{}, {<<scan[t].file, "signature">>}} :
        scan' = [scan EXCEPT ![t].pc = "walk", ![t].names = @ \ {scan[t].file},
                  ![t].file = NoFile, ![t].found = @ \cup findings]
  BY DEF Scans!ReadReleased
<1>2. scan[t] \in Scans!Scan /\ findings \subseteq Scans!Findings
  BY <1>1 DEF Scans!TypeOK, Scans!Findings, Scans!Marks
<1>3. Released(t, findings) \in Scans!Scan
  BY <1>2 DEF Released, Scans!Scan, Scans!Labels
<1>4. scan' = [scan EXCEPT ![t] = Released(t, findings)]
  BY <1>1 DEF Scans!TypeOK, Released
<1> QED  BY <1>3, <1>4, ScanFrame

LEMMA PassedOverEffect ==
  ASSUME Scans!TypeOK, NEW t \in Slots, scan[t].file \in Files, Scans!ReadFails(t)
  PROVE  Framed(t) /\ scan'[t] = PassedOver(t)
<1>1. scan[t] \in Scans!Scan  BY DEF Scans!TypeOK
<1>2. PassedOver(t) \in Scans!Scan
  BY <1>1 DEF PassedOver, Scans!Scan, Scans!Labels, Scans!WritingLabels
<1>3. scan' = [scan EXCEPT ![t] = PassedOver(t)]
  BY DEF Scans!TypeOK, PassedOver, Scans!ReadFails
<1> QED  BY <1>2, <1>3, ScanFrame

LEMMA WalkedEffect ==
  ASSUME Scans!TypeOK, NEW t \in Slots, Scans!SiteWalked(t)
  PROVE  Framed(t) /\ scan'[t] = Walked(t)
<1>1. scan[t] \in Scans!Scan  BY DEF Scans!TypeOK
<1>2. Walked(t) \in Scans!Scan
  BY <1>1 DEF Walked, Scans!Scan, Scans!Labels, Scans!WritingLabels
<1>3. scan' = [scan EXCEPT ![t] = Walked(t)]  BY DEF Scans!TypeOK, Walked, Scans!SiteWalked
<1> QED  BY <1>2, <1>3, ScanFrame

LEMMA CompleteEffect ==
  ASSUME Scans!TypeOK, NEW t \in Slots, Scans!AllWalked(t)
  PROVE  Framed(t) /\ scan'[t] = Complete(t)
<1>1. scan[t] \in Scans!Scan  BY DEF Scans!TypeOK
<1>2. Complete(t) \in Scans!Scan
  BY <1>1 DEF Complete, Scans!Scan, Scans!Labels, Scans!WritingLabels
<1>3. scan' = [scan EXCEPT ![t] = Complete(t)]  BY DEF Scans!TypeOK, Complete, Scans!AllWalked
<1> QED  BY <1>2, <1>3, ScanFrame

LEMMA NamedEffect ==
  ASSUME Scans!TypeOK, NEW t \in Slots, Scans!TakePath(t)
  PROVE  Framed(t) /\ scan'[t] = Named(t)
<1>1. scan[t] \in Scans!Scan  BY DEF Scans!TypeOK
<1>2. now \in Scans!Seconds  BY DEF Scans!TypeOK
<1>3. Named(t) \in Scans!Scan
  BY <1>1, <1>2 DEF Named, Scans!Scan, Scans!Labels, Scans!WritingLabels
<1>4. scan' = [scan EXCEPT ![t] = Named(t)]  BY DEF Scans!TypeOK, Named, Scans!TakePath
<1> QED  BY <1>3, <1>4, ScanFrame

LEMMA TruncatedEffect ==
  ASSUME Scans!TypeOK, NEW t \in Slots, Scans!Truncate(t)
  PROVE  Framed(t) /\ scan'[t] = Truncated(t)
<1>1. scan[t] \in Scans!Scan  BY DEF Scans!TypeOK
<1>2. Truncated(t) \in Scans!Scan
  BY <1>1 DEF Truncated, Scans!Scan, Scans!Labels, Scans!WritingLabels
<1>3. scan' = [scan EXCEPT ![t] = Truncated(t)]
  BY DEF Scans!TypeOK, Truncated, Scans!Truncate
<1> QED  BY <1>2, <1>3, ScanFrame

LEMMA WrittenEffect ==
  ASSUME Scans!TypeOK, NEW t \in Slots, Scans!WriteReport(t)
  PROVE  Framed(t) /\ scan'[t] = Written(t)
<1>1. scan[t] \in Scans!Scan  BY DEF Scans!TypeOK
<1>2. Written(t) \in Scans!Scan
  BY <1>1 DEF Written, Scans!Scan, Scans!Labels, Scans!WritingLabels
<1>3. scan' = [scan EXCEPT ![t] = Written(t)]  BY DEF Scans!TypeOK, Written, Scans!WriteReport
<1> QED  BY <1>2, <1>3, ScanFrame

LEMMA AgedEffect ==
  ASSUME Scans!TypeOK, NEW f \in Files, NEW c \in Scans!Contents, Scans!EditFile(f, c)
  PROVE  scan' \in [Slots -> Scans!Scan] /\ \A t \in Slots : scan'[t] = Aged(t, f)
<1>1. \A t \in Slots : Aged(t, f) \in Scans!Scan
  <2> TAKE t \in Slots
  <2>1. scan[t] \in Scans!Scan  BY DEF Scans!TypeOK
  <2> QED  BY <2>1 DEF Aged, Scans!Scan
<1>2. scan' = [t \in Slots |-> Aged(t, f)]  BY DEF Scans!EditFile, Aged
<1> QED  BY <1>1, <1>2

-----------------------------------------------------------------------------
\* The two parts of TypeOK: the stores, and a scan in the walk of a site.
ScanStoresOK ==
  /\ registered \subseteq Domains
  /\ content \in [Files -> Scans!Contents]
  /\ now \in Scans!Seconds
  /\ reports \in [Scans!Seconds -> Slots \cup {NoReport, Empty, Mixed}]
  /\ reused \subseteq Scans!Seconds

Walking(t) ==
  /\ scan[t].pc \in {"walk"} \cup Scans!ReadingLabels => scan[t].site # NoDomain
  /\ scan[t].pc \in Scans!ReadingLabels => scan[t].file \in scan[t].names
  /\ \A f \in scan[t].names : scan[t].site = SiteOf[f]

LEMMA ScanTypeParts ==
  Scans!TypeOK <=> ScanStoresOK /\ scan \in [Slots -> Scans!Scan] /\ \A t \in Slots : Walking(t)
BY DEF Scans!TypeOK, ScanStoresOK, Walking

LEMMA ScanTypeFrame ==
  ASSUME Scans!TypeOK, NEW t \in Slots, Framed(t), ScanStoresOK', Walking(t)'
  PROVE  Scans!TypeOK'
<1>1. ASSUME NEW u \in Slots PROVE Walking(u)'
  BY <1>1, ScanTypeParts DEF Walking, Framed
<1> QED  BY <1>1 DEF Scans!TypeOK, ScanStoresOK, Walking, Framed

LEMMA WalkedSite ==
  ASSUME Scans!ConstantsOK, Scans!TypeOK, NEW t \in Slots
  PROVE  /\ scan[t] \in Scans!Scan /\ Walking(t)
         /\ scan[t].names \subseteq Files
         /\ scan[t].pc \in {"walk"} \cup Scans!ReadingLabels => scan[t].site \in Domains
         /\ scan[t].pc \in Scans!ReadingLabels => scan[t].file \in Files
<1>1. scan[t] \in Scans!Scan /\ Walking(t)  BY ScanTypeParts
<1> QED  BY <1>1 DEF Scans!Scan, Walking, Scans!ConstantsOK

LEMMA ScanTypeStep ==
  Scans!ConstantsOK /\ Scans!TypeOK /\ [Scans!Next]_(Scans!vars) => Scans!TypeOK'
<1> SUFFICES ASSUME Scans!ConstantsOK, Scans!TypeOK,
                    [Scans!Next]_(Scans!vars)
             PROVE  Scans!TypeOK'
  OBVIOUS
<1> USE DEF Scans!world, Scans!ReadingLabels
<1>0. ScanStoresOK /\ scan \in [Slots -> Scans!Scan] /\ \A t \in Slots : Walking(t)
  BY ScanTypeParts
<1>a. ASSUME UNCHANGED <<Scans!world, reports, reused>> PROVE ScanStoresOK'
  BY <1>0, <1>a DEF ScanStoresOK
<1>b. ASSUME NEW t \in Slots, Scans!Return(t), ScanStoresOK' PROVE Scans!TypeOK'
  <2>1. Walking(t)'  BY <1>b, ScanReturns DEF Scans!AtRest, Walking
  <2> QED  BY <1>b, <2>1, ScanReturns, ScanTypeFrame
<1>1. ASSUME NEW t \in Slots, NEW scope \in Domains \cup {NoDomain}, Scans!Begin(t, scope)
      PROVE  Scans!TypeOK'
  <2>1. /\ scan'[t] = Listed(t, scope) /\ scan[t] \in Scans!Scan /\ Walking(t)
        /\ scan[t].pc \in Scans!ReadingLabels => scan[t].file \in Files
    BY <1>1, ListedEffect, WalkedSite DEF Scans!Begin
  <2>2. Walking(t)'  BY <2>1, <1>1 DEF Scans!Begin, Walking, Scans!Scan, Listed
  <2> QED  BY <1>1, <1>a, <2>2, ListedEffect, WalkedSite, ScanTypeFrame DEF Scans!Begin
<1>2. ASSUME NEW t \in Slots, Scans!ListSites(t) PROVE Scans!TypeOK'
  <2>1. /\ scan'[t] = Scoped(t) /\ scan[t] \in Scans!Scan /\ Walking(t)
        /\ scan[t].pc \in Scans!ReadingLabels => scan[t].file \in Files
    BY <1>2, ScopedEffect, WalkedSite DEF Scans!ListSites
  <2>2. Walking(t)'  BY <2>1, <1>2 DEF Scans!ListSites, Walking, Scans!Scan, Scoped
  <2> QED  BY <1>2, <1>a, <2>2, ScopedEffect, WalkedSite, ScanTypeFrame DEF Scans!ListSites
<1>3. ASSUME NEW t \in Slots, NEW d \in Domains, Scans!OpenSite(t, d) PROVE Scans!TypeOK'
  <2>1. /\ scan'[t] = Opened(t, d) /\ scan[t] \in Scans!Scan /\ Walking(t)
        /\ scan[t].pc \in Scans!ReadingLabels => scan[t].file \in Files
    BY <1>3, OpenedEffect, WalkedSite DEF Scans!OpenSite
  <2>2. Walking(t)'
    BY <2>1, <1>3 DEF Scans!OpenSite, Walking, Scans!Scan, Opened, Scans!ConstantsOK
  <2> QED  BY <1>3, <1>a, <2>2, OpenedEffect, WalkedSite, ScanTypeFrame DEF Scans!OpenSite
<1>4. ASSUME NEW t \in Slots, scan[t].pc = "walk", Scans!WalkBreaksOff(t) PROVE Scans!TypeOK'
  <2>1. /\ scan'[t] = BrokenOff(t) /\ scan[t] \in Scans!Scan /\ Walking(t)
        /\ scan[t].pc \in Scans!ReadingLabels => scan[t].file \in Files
    BY <1>4, BrokenOffEffect, WalkedSite DEF Scans!WalkBreaksOff
  <2>2. Walking(t)'  BY <2>1, <1>4 DEF Scans!WalkBreaksOff, Walking, Scans!Scan, BrokenOff
  <2> QED
    BY <1>4, <1>a, <2>2, BrokenOffEffect, WalkedSite, ScanTypeFrame DEF Scans!WalkBreaksOff
<1>5. ASSUME NEW t \in Slots, NEW f \in Files, Scans!VisitFile(t, f) PROVE Scans!TypeOK'
  <2>1. /\ scan'[t] = Visited(t, f) /\ scan[t] \in Scans!Scan /\ Walking(t)
        /\ scan[t].pc \in Scans!ReadingLabels => scan[t].file \in Files
    BY <1>5, VisitedEffect, WalkedSite DEF Scans!VisitFile
  <2>2. Walking(t)'  BY <2>1, <1>5 DEF Scans!VisitFile, Walking, Scans!Scan, Visited
  <2> QED  BY <1>5, <1>a, <2>2, VisitedEffect, WalkedSite, ScanTypeFrame DEF Scans!VisitFile
<1>6. ASSUME NEW t \in Slots, Scans!ReadFile(t) PROVE Scans!TypeOK'
  <2>1. /\ scan'[t] = Read(t) /\ scan[t] \in Scans!Scan /\ Walking(t)
        /\ scan[t].pc \in Scans!ReadingLabels => scan[t].file \in Files
    BY <1>6, ReadEffect, WalkedSite DEF Scans!ReadFile
  <2>2. Walking(t)'  BY <2>1, <1>6 DEF Scans!ReadFile, Walking, Scans!Scan, Read
  <2> QED  BY <1>6, <1>a, <2>2, ReadEffect, WalkedSite, ScanTypeFrame DEF Scans!ReadFile
<1>7. ASSUME NEW t \in Slots, Scans!ReadFails(t) PROVE Scans!TypeOK'
  <2>1. /\ scan'[t] = PassedOver(t) /\ scan[t] \in Scans!Scan /\ Walking(t)
        /\ scan[t].pc \in Scans!ReadingLabels => scan[t].file \in Files
    BY <1>7, PassedOverEffect, WalkedSite DEF Scans!ReadFails
  <2>2. Walking(t)'  BY <2>1, <1>7 DEF Scans!ReadFails, Walking, Scans!Scan, PassedOver
  <2> QED
    BY <1>7, <1>a, <2>2, PassedOverEffect, WalkedSite, ScanTypeFrame DEF Scans!ReadFails
<1>8. ASSUME NEW t \in Slots, Scans!SiteWalked(t) PROVE Scans!TypeOK'
  <2>1. /\ scan'[t] = Walked(t) /\ scan[t] \in Scans!Scan /\ Walking(t)
        /\ scan[t].pc \in Scans!ReadingLabels => scan[t].file \in Files
    BY <1>8, WalkedEffect, WalkedSite DEF Scans!SiteWalked
  <2>2. Walking(t)'  BY <2>1, <1>8 DEF Scans!SiteWalked, Walking, Scans!Scan, Walked
  <2> QED  BY <1>8, <1>a, <2>2, WalkedEffect, WalkedSite, ScanTypeFrame DEF Scans!SiteWalked
<1>9. ASSUME NEW t \in Slots, Scans!AllWalked(t) PROVE Scans!TypeOK'
  <2>1. /\ scan'[t] = Complete(t) /\ scan[t] \in Scans!Scan /\ Walking(t)
        /\ scan[t].pc \in Scans!ReadingLabels => scan[t].file \in Files
    BY <1>9, CompleteEffect, WalkedSite DEF Scans!AllWalked
  <2>2. Walking(t)'  BY <2>1, <1>9 DEF Scans!AllWalked, Walking, Scans!Scan, Complete
  <2> QED  BY <1>9, <1>a, <2>2, CompleteEffect, WalkedSite, ScanTypeFrame DEF Scans!AllWalked
<1>10. ASSUME NEW t \in Slots, Scans!TakePath(t) PROVE Scans!TypeOK'
  <2>1. ScanStoresOK'  BY <1>0, <1>10 DEF Scans!TakePath, ScanStoresOK
  <2>2. /\ scan'[t] = Named(t) /\ scan[t] \in Scans!Scan /\ Walking(t)
        /\ scan[t].pc \in Scans!ReadingLabels => scan[t].file \in Files
    BY <1>10, NamedEffect, WalkedSite DEF Scans!TakePath
  <2>3. Walking(t)'  BY <2>2, <1>10 DEF Scans!TakePath, Walking, Scans!Scan, Named
  <2> QED  BY <1>10, <2>1, <2>3, NamedEffect, ScanTypeFrame
<1>11. ASSUME NEW t \in Slots, Scans!Truncate(t) PROVE Scans!TypeOK'
  <2>1. ScanStoresOK'  BY <1>0, <1>11 DEF Scans!Truncate, ScanStoresOK
  <2>2. /\ scan'[t] = Truncated(t) /\ scan[t] \in Scans!Scan /\ Walking(t)
        /\ scan[t].pc \in Scans!ReadingLabels => scan[t].file \in Files
    BY <1>11, TruncatedEffect, WalkedSite DEF Scans!Truncate
  <2>3. Walking(t)'  BY <2>2, <1>11 DEF Scans!Truncate, Walking, Scans!Scan, Truncated
  <2> QED  BY <1>11, <2>1, <2>3, TruncatedEffect, ScanTypeFrame
<1>12. ASSUME NEW t \in Slots, Scans!WriteReport(t) PROVE Scans!TypeOK'
  <2>1. ScanStoresOK'  BY <1>0, <1>12 DEF Scans!WriteReport, ScanStoresOK
  <2>2. /\ scan'[t] = Written(t) /\ scan[t] \in Scans!Scan /\ Walking(t)
        /\ scan[t].pc \in Scans!ReadingLabels => scan[t].file \in Files
    BY <1>12, WrittenEffect, WalkedSite DEF Scans!WriteReport
  <2>3. Walking(t)'  BY <2>2, <1>12 DEF Scans!WriteReport, Walking, Scans!Scan, Written
  <2> QED  BY <1>12, <2>1, <2>3, WrittenEffect, ScanTypeFrame
<1>13. ASSUME NEW d \in Domains, Scans!RegisterSite(d) PROVE Scans!TypeOK'
  BY <1>13 DEF Scans!RegisterSite, Scans!TypeOK
<1>14. ASSUME NEW f \in Files, NEW c \in Scans!Contents, Scans!EditFile(f, c)
       PROVE  Scans!TypeOK'
  <2>1. \A t \in Slots : Walking(t)'
    <3> TAKE t \in Slots
    <3>1. scan'[t] = Aged(t, f) /\ scan[t] \in Scans!Scan /\ Walking(t)
      BY <1>0, <1>14, AgedEffect
    <3> QED  BY <3>1 DEF Aged, Scans!Scan, Walking
  <2>2. ScanStoresOK'  BY <1>0, <1>14 DEF Scans!EditFile, ScanStoresOK
  <2> QED  BY <1>14, <2>1, <2>2, AgedEffect DEF Scans!TypeOK, ScanStoresOK, Walking
<1>15. CASE Scans!Tick
  BY <1>15 DEF Scans!Tick, Scans!TypeOK, Scans!Seconds, Scans!ConstantsOK
<1>16. CASE Scans!Crash
  <2>1. Scans!AtRest \in Scans!Scan
    BY DEF Scans!ConstantsOK, Scans!Scan, Scans!AtRest, Scans!Labels, Scans!Seconds
  <2>2. scan' \in [Slots -> Scans!Scan] /\ \A t \in Slots : scan'[t] = Scans!AtRest
    BY <1>16, <2>1 DEF Scans!Crash
  <2>3. \A t \in Slots : Walking(t)'  BY <2>2 DEF Walking, Scans!AtRest
  <2> QED  BY <1>16, <1>a, <2>2, <2>3 DEF Scans!Crash, Scans!TypeOK, ScanStoresOK, Walking
<1>17. ASSUME NEW t \in Slots, Scans!ReadBlocks(t) PROVE Scans!TypeOK'
  <2>1. scan'[t] = Blocked(t) /\ scan[t] \in Scans!Scan /\ Walking(t)
    BY <1>17, BlockedEffect, WalkedSite
  <2>2. Walking(t)'  BY <2>1, <1>17 DEF Scans!ReadBlocks, Walking, Scans!Scan, Blocked
  <2> QED  BY <1>17, <1>a, <2>2, BlockedEffect, ScanTypeFrame DEF Scans!ReadBlocks
<1>18. ASSUME NEW t \in Slots, Scans!ReadReleased(t) PROVE Scans!TypeOK'
  <2>1. scan[t] \in Scans!Scan /\ Walking(t) /\ scan[t].file \in Files
    BY <1>18, WalkedSite DEF Scans!ReadReleased
  <2>2. PICK findings \in {{}, {<<scan[t].file, "signature">>}} :
          scan'[t] = Released(t, findings)
    BY <1>18, <2>1, ReleasedEffect
  <2>3. Walking(t)'  BY <2>1, <2>2, <1>18 DEF Scans!ReadReleased, Walking, Scans!Scan, Released
  <2> QED  BY <1>18, <1>a, <2>1, <2>3, ReleasedEffect, ScanTypeFrame DEF Scans!ReadReleased
<1>19. CASE UNCHANGED Scans!vars
  BY <1>19 DEF Scans!vars, Scans!TypeOK
<1> QED
  BY <1>a, <1>b, <1>1, <1>2, <1>3, <1>4, <1>5, <1>6, <1>7, <1>8, <1>9, <1>10, <1>11, <1>12,
     <1>13, <1>14, <1>15, <1>16, <1>17, <1>18, <1>19
     DEF Scans!Next, Scans!Step, Scans!UnknownSite, Scans!Unreadable, Scans!FileVanished,
     Scans!ScanFails, Scans!Answer

\* The types of SecurityService.
LEMMA ScansTypeCorrect == Spec => []Scans!TypeOK
<1>0. Scans!ConstantsOK  BY ConstantsOK
<1>1. Scans!Init => Scans!TypeOK
  <2> SUFFICES ASSUME Scans!Init PROVE Scans!TypeOK
    OBVIOUS
  <2>1. Scans!AtRest \in Scans!Scan
    BY <1>0 DEF Scans!ConstantsOK, Scans!Scan, Scans!AtRest, Scans!Labels, Scans!Seconds
  <2> QED
    BY <1>0, <2>1 DEF Scans!Init, Scans!TypeOK, Scans!AtRest, Scans!ConstantsOK, Scans!Seconds,
       Scans!ReadingLabels
<1>2. Scans!TypeOK /\ [Scans!Next]_(Scans!vars) => Scans!TypeOK'  BY <1>0, ScanTypeStep
<1> QED  BY <1>1, <1>2, ImplementsScans, PTL DEF Scans!Spec

-----------------------------------------------------------------------------
\* What a scan has gathered of the files that carried a signature all the while: each
\* one in a site that it has opened is found, skipped, or among the names that the walk
\* is still to visit; what blocks the walk is not one of them.
Covered(t, f) ==
  \/ <<f, "signature">> \in scan[t].found
  \/ SiteOf[f] \in scan[t].cut
  \/ f \in scan[t].unread

Gathered(t) ==
  /\ scan[t].steady \subseteq Scans!Infected \cap Scannable
  /\ scan[t].pc \in {"idle", "list"} =>
       scan[t].scanned = {} /\ scan[t].due \subseteq Scans!InScope(scan[t].scope)
  /\ scan[t].pc \notin {"idle", "list"} =>
       scan[t].due \subseteq scan[t].todo \cup scan[t].scanned
  /\ scan[t].pc \in {"report"} \cup Scans!WritingLabels \cup {"done"} => scan[t].todo = {}
  /\ scan[t].pc \notin {"walk"} \cup Scans!ReadingLabels => scan[t].names = {}
  /\ scan[t].pc = "blocked" => scan[t].file \notin scan[t].steady
  /\ \A f \in scan[t].steady :
       SiteOf[f] \in scan[t].scanned => Covered(t, f) \/ f \in scan[t].names

GatheredInv == \A t \in Slots : Gathered(t)

LEMMA GatheredFrame ==
  ASSUME GatheredInv, NEW t \in Slots, Framed(t), UNCHANGED Scans!world, Gathered(t)'
  PROVE  GatheredInv'
<1>1. ASSUME NEW u \in Slots, u # t PROVE Gathered(u)'
  BY <1>1
     DEF GatheredInv, Gathered, Framed, Covered, Scans!Infected, Scans!InScope, Scans!world
<1> QED  BY <1>1 DEF GatheredInv

LEMMA GatheredStep ==
  Scans!ConstantsOK /\ Scans!TypeOK /\ GatheredInv /\ [Scans!Next]_(Scans!vars) => GatheredInv'
<1> SUFFICES ASSUME Scans!ConstantsOK, Scans!TypeOK, GatheredInv,
                    [Scans!Next]_(Scans!vars)
             PROVE  GatheredInv'
  OBVIOUS
<1> USE DEF Scans!WritingLabels, Scans!ReadingLabels
<1>a. ASSUME NEW t \in Slots
      PROVE  /\ scan[t] \in Scans!Scan /\ Gathered(t) /\ Walking(t)
             /\ scan[t].pc \in {"walk"} \cup Scans!ReadingLabels => scan[t].site \in Domains
             /\ scan[t].pc \in Scans!ReadingLabels => scan[t].file \in Files
  BY WalkedSite DEF GatheredInv
<1>b. ASSUME NEW t \in Slots, Scans!Return(t), UNCHANGED Scans!world PROVE GatheredInv'
  <2>1. Gathered(t)'  BY <1>b, ScanReturns DEF Scans!AtRest, Gathered
  <2> QED  BY <1>b, <2>1, ScanReturns, GatheredFrame
<1>1. ASSUME NEW t \in Slots, NEW scope \in Domains \cup {NoDomain}, Scans!Begin(t, scope)
      PROVE  GatheredInv'
  <2>1. /\ Framed(t) /\ scan'[t] = Listed(t, scope) /\ UNCHANGED Scans!world
        /\ scan[t] \in Scans!Scan /\ Gathered(t)
    BY <1>1, <1>a, ListedEffect DEF Scans!Begin
  <2>2. /\ scan'[t].pc = "list"
        /\ scan'[t].scope = scope
        /\ scan'[t].due = Scans!InScope(scope)
        /\ scan'[t].steady = Scans!Infected \cap Scannable
        /\ scan'[t].todo = scan[t].todo /\ scan'[t].names = scan[t].names
        /\ scan'[t].scanned = scan[t].scanned /\ scan'[t].found = scan[t].found
        /\ scan'[t].cut = scan[t].cut /\ scan'[t].unread = scan[t].unread
    BY <2>1 DEF Listed, Scans!Scan
  <2>3. Gathered(t)'
    BY <1>1, <2>1, <2>2
       DEF Scans!Begin, Gathered, Covered, Scans!Infected, Scans!InScope, Scans!world
  <2> QED  BY <2>1, <2>3, GatheredFrame
<1>2. ASSUME NEW t \in Slots, Scans!ListSites(t) PROVE GatheredInv'
  <2>1. /\ Framed(t) /\ scan'[t] = Scoped(t) /\ UNCHANGED Scans!world
        /\ scan[t] \in Scans!Scan /\ Gathered(t)
    BY <1>2, <1>a, ScopedEffect DEF Scans!ListSites
  <2>2. /\ scan'[t].pc = "site"
        /\ scan'[t].todo = Scans!InScope(scan[t].scope)
        /\ scan'[t].scope = scan[t].scope /\ scan'[t].names = scan[t].names
        /\ scan'[t].scanned = scan[t].scanned /\ scan'[t].found = scan[t].found
        /\ scan'[t].due = scan[t].due /\ scan'[t].steady = scan[t].steady
        /\ scan'[t].cut = scan[t].cut /\ scan'[t].unread = scan[t].unread
    BY <2>1 DEF Scoped, Scans!Scan
  <2>3. Gathered(t)'
    BY <1>2, <2>1, <2>2
       DEF Scans!ListSites, Gathered, Covered, Scans!Infected, Scans!InScope, Scans!world
  <2> QED  BY <2>1, <2>3, GatheredFrame
<1>3. ASSUME NEW t \in Slots, NEW d \in Domains, Scans!OpenSite(t, d) PROVE GatheredInv'
  <2>1. /\ Framed(t) /\ scan'[t] = Opened(t, d) /\ UNCHANGED Scans!world
        /\ scan[t] \in Scans!Scan /\ Gathered(t)
    BY <1>3, <1>a, OpenedEffect DEF Scans!OpenSite
  <2>2. /\ scan'[t].pc = "walk"
        /\ scan'[t].todo = scan[t].todo \ {d}
        /\ scan'[t].scanned = scan[t].scanned \cup {d}
        /\ scan'[t].names = {f \in Files : SiteOf[f] = d /\ content[f] # "absent"}
        /\ scan'[t].scope = scan[t].scope /\ scan'[t].found = scan[t].found
        /\ scan'[t].due = scan[t].due /\ scan'[t].steady = scan[t].steady
        /\ scan'[t].cut = scan[t].cut /\ scan'[t].unread = scan[t].unread
    BY <2>1 DEF Opened, Scans!Scan
  <2>3. Gathered(t)'
    BY <1>3, <2>1, <2>2 DEF Scans!OpenSite, Gathered, Covered, Scans!Infected, Scans!InScope,
       Scans!world, Scans!Contents
  <2> QED  BY <2>1, <2>3, GatheredFrame
<1>4. ASSUME NEW t \in Slots, scan[t].pc = "walk", Scans!WalkBreaksOff(t) PROVE GatheredInv'
  <2>1. /\ Framed(t) /\ scan'[t] = BrokenOff(t) /\ UNCHANGED Scans!world
        /\ scan[t] \in Scans!Scan /\ Gathered(t) /\ Walking(t)
    BY <1>4, <1>a, BrokenOffEffect DEF Scans!WalkBreaksOff
  <2>2. /\ scan'[t].pc = "site"
        /\ scan'[t].names = {}
        /\ scan'[t].cut = scan[t].cut \cup {scan[t].site}
        /\ scan'[t].scope = scan[t].scope /\ scan'[t].todo = scan[t].todo
        /\ scan'[t].scanned = scan[t].scanned /\ scan'[t].found = scan[t].found
        /\ scan'[t].due = scan[t].due /\ scan'[t].steady = scan[t].steady
        /\ scan'[t].unread = scan[t].unread
    BY <2>1 DEF BrokenOff, Scans!Scan
  <2>3. Gathered(t)'
    BY <1>4, <2>1, <2>2 DEF Scans!WalkBreaksOff, Gathered, Covered, Scans!Infected,
       Scans!InScope, Scans!world, Walking
  <2> QED  BY <2>1, <2>3, GatheredFrame
<1>5. ASSUME NEW t \in Slots, NEW f \in Files, Scans!VisitFile(t, f) PROVE GatheredInv'
  <2>1. /\ Framed(t) /\ scan'[t] = Visited(t, f) /\ UNCHANGED Scans!world
        /\ scan[t] \in Scans!Scan /\ Gathered(t)
    BY <1>5, <1>a, VisitedEffect DEF Scans!VisitFile
  <2>2. /\ scan'[t].found \in {scan[t].found, scan[t].found \cup {<<f, "mode">>}}
        /\ f \in Scannable => scan'[t].pc = "read" /\ scan'[t].names = scan[t].names
        /\ f \notin Scannable => scan'[t].pc = "walk" /\ scan'[t].names = scan[t].names \ {f}
        /\ scan'[t].scope = scan[t].scope /\ scan'[t].todo = scan[t].todo
        /\ scan'[t].scanned = scan[t].scanned /\ scan'[t].due = scan[t].due
        /\ scan'[t].steady = scan[t].steady /\ scan'[t].cut = scan[t].cut
        /\ scan'[t].unread = scan[t].unread
    BY <2>1 DEF Visited, Scans!Scan
  <2>3. Gathered(t)'
    BY <1>5, <2>1, <2>2
       DEF Scans!VisitFile, Gathered, Covered, Scans!Infected, Scans!InScope, Scans!world
  <2> QED  BY <2>1, <2>3, GatheredFrame
<1>6. ASSUME NEW t \in Slots, Scans!ReadFile(t) PROVE GatheredInv'
  <2>1. /\ Framed(t) /\ scan'[t] = Read(t) /\ UNCHANGED Scans!world
        /\ scan[t] \in Scans!Scan /\ Gathered(t) /\ Walking(t)
    BY <1>6, <1>a, ReadEffect DEF Scans!ReadFile
  <2>2. /\ scan'[t].pc = "walk"
        /\ scan'[t].names = scan[t].names \ {scan[t].file}
        /\ scan[t].found \subseteq scan'[t].found
        /\ content[scan[t].file] = "infected" =>
             <<scan[t].file, "signature">> \in scan'[t].found
        /\ scan'[t].scope = scan[t].scope /\ scan'[t].todo = scan[t].todo
        /\ scan'[t].scanned = scan[t].scanned /\ scan'[t].due = scan[t].due
        /\ scan'[t].steady = scan[t].steady /\ scan'[t].cut = scan[t].cut
        /\ scan'[t].unread = scan[t].unread
    BY <2>1 DEF Read, Scans!Scan
  <2>3. Gathered(t)'
    BY <1>6, <2>1, <2>2
       DEF Scans!ReadFile, Gathered, Covered, Scans!Infected, Scans!InScope, Scans!world,
       Walking
  <2> QED  BY <2>1, <2>3, GatheredFrame
<1>7. ASSUME NEW t \in Slots, Scans!ReadFails(t) PROVE GatheredInv'
  <2>1. /\ Framed(t) /\ scan'[t] = PassedOver(t) /\ UNCHANGED Scans!world
        /\ scan[t] \in Scans!Scan /\ Gathered(t) /\ Walking(t)
    BY <1>7, <1>a, PassedOverEffect DEF Scans!ReadFails
  <2>2. /\ scan'[t].pc = "walk"
        /\ scan'[t].names = scan[t].names \ {scan[t].file}
        /\ scan'[t].unread = scan[t].unread \cup {scan[t].file}
        /\ scan'[t].scope = scan[t].scope /\ scan'[t].todo = scan[t].todo
        /\ scan'[t].scanned = scan[t].scanned /\ scan'[t].found = scan[t].found
        /\ scan'[t].due = scan[t].due /\ scan'[t].steady = scan[t].steady
        /\ scan'[t].cut = scan[t].cut
    BY <2>1 DEF PassedOver, Scans!Scan
  <2>3. Gathered(t)'
    BY <1>7, <2>1, <2>2
       DEF Scans!ReadFails, Gathered, Covered, Scans!Infected, Scans!InScope, Scans!world,
       Walking
  <2> QED  BY <2>1, <2>3, GatheredFrame
<1>8. ASSUME NEW t \in Slots, Scans!SiteWalked(t) PROVE GatheredInv'
  <2>1. /\ Framed(t) /\ scan'[t] = Walked(t) /\ UNCHANGED Scans!world
        /\ scan[t] \in Scans!Scan /\ Gathered(t)
    BY <1>8, <1>a, WalkedEffect DEF Scans!SiteWalked
  <2>2. /\ scan'[t].pc = "site"
        /\ scan'[t].scope = scan[t].scope /\ scan'[t].todo = scan[t].todo
        /\ scan'[t].names = scan[t].names /\ scan'[t].scanned = scan[t].scanned
        /\ scan'[t].found = scan[t].found /\ scan'[t].due = scan[t].due
        /\ scan'[t].steady = scan[t].steady /\ scan'[t].cut = scan[t].cut
        /\ scan'[t].unread = scan[t].unread
    BY <2>1 DEF Walked, Scans!Scan
  <2>3. Gathered(t)'
    BY <1>8, <2>1, <2>2
       DEF Scans!SiteWalked, Gathered, Covered, Scans!Infected, Scans!InScope, Scans!world
  <2> QED  BY <2>1, <2>3, GatheredFrame
<1>9. ASSUME NEW t \in Slots, Scans!AllWalked(t) PROVE GatheredInv'
  <2>1. /\ Framed(t) /\ scan'[t] = Complete(t) /\ UNCHANGED Scans!world
        /\ scan[t] \in Scans!Scan /\ Gathered(t)
    BY <1>9, <1>a, CompleteEffect DEF Scans!AllWalked
  <2>2. /\ scan'[t].pc = "report"
        /\ scan'[t].scope = scan[t].scope /\ scan'[t].todo = scan[t].todo
        /\ scan'[t].names = scan[t].names /\ scan'[t].scanned = scan[t].scanned
        /\ scan'[t].found = scan[t].found /\ scan'[t].due = scan[t].due
        /\ scan'[t].steady = scan[t].steady /\ scan'[t].cut = scan[t].cut
        /\ scan'[t].unread = scan[t].unread
    BY <2>1 DEF Complete, Scans!Scan
  <2>3. Gathered(t)'
    BY <1>9, <2>1, <2>2
       DEF Scans!AllWalked, Gathered, Covered, Scans!Infected, Scans!InScope, Scans!world
  <2> QED  BY <2>1, <2>3, GatheredFrame
<1>10. ASSUME NEW t \in Slots, Scans!TakePath(t) PROVE GatheredInv'
  <2>1. /\ Framed(t) /\ scan'[t] = Named(t) /\ UNCHANGED Scans!world
        /\ scan[t] \in Scans!Scan /\ Gathered(t)
    BY <1>10, <1>a, NamedEffect DEF Scans!TakePath
  <2>2. /\ scan'[t].pc = "truncate"
        /\ scan'[t].scope = scan[t].scope /\ scan'[t].todo = scan[t].todo
        /\ scan'[t].names = scan[t].names /\ scan'[t].scanned = scan[t].scanned
        /\ scan'[t].found = scan[t].found /\ scan'[t].due = scan[t].due
        /\ scan'[t].steady = scan[t].steady /\ scan'[t].cut = scan[t].cut
        /\ scan'[t].unread = scan[t].unread
    BY <2>1 DEF Named, Scans!Scan
  <2>3. Gathered(t)'
    BY <1>10, <2>1, <2>2
       DEF Scans!TakePath, Gathered, Covered, Scans!Infected, Scans!InScope, Scans!world
  <2> QED  BY <2>1, <2>3, GatheredFrame
<1>11. ASSUME NEW t \in Slots, Scans!Truncate(t) PROVE GatheredInv'
  <2>1. /\ Framed(t) /\ scan'[t] = Truncated(t) /\ UNCHANGED Scans!world
        /\ scan[t] \in Scans!Scan /\ Gathered(t)
    BY <1>11, <1>a, TruncatedEffect DEF Scans!Truncate
  <2>2. /\ scan'[t].pc = "write"
        /\ scan'[t].scope = scan[t].scope /\ scan'[t].todo = scan[t].todo
        /\ scan'[t].names = scan[t].names /\ scan'[t].scanned = scan[t].scanned
        /\ scan'[t].found = scan[t].found /\ scan'[t].due = scan[t].due
        /\ scan'[t].steady = scan[t].steady /\ scan'[t].cut = scan[t].cut
        /\ scan'[t].unread = scan[t].unread
    BY <2>1 DEF Truncated, Scans!Scan
  <2>3. Gathered(t)'
    BY <1>11, <2>1, <2>2
       DEF Scans!Truncate, Gathered, Covered, Scans!Infected, Scans!InScope, Scans!world
  <2> QED  BY <2>1, <2>3, GatheredFrame
<1>12. ASSUME NEW t \in Slots, Scans!WriteReport(t) PROVE GatheredInv'
  <2>1. /\ Framed(t) /\ scan'[t] = Written(t) /\ UNCHANGED Scans!world
        /\ scan[t] \in Scans!Scan /\ Gathered(t)
    BY <1>12, <1>a, WrittenEffect DEF Scans!WriteReport
  <2>2. /\ scan'[t].pc = "done"
        /\ scan'[t].scope = scan[t].scope /\ scan'[t].todo = scan[t].todo
        /\ scan'[t].names = scan[t].names /\ scan'[t].scanned = scan[t].scanned
        /\ scan'[t].found = scan[t].found /\ scan'[t].due = scan[t].due
        /\ scan'[t].steady = scan[t].steady /\ scan'[t].cut = scan[t].cut
        /\ scan'[t].unread = scan[t].unread
    BY <2>1 DEF Written, Scans!Scan
  <2>3. Gathered(t)'
    BY <1>12, <2>1, <2>2
       DEF Scans!WriteReport, Gathered, Covered, Scans!Infected, Scans!InScope, Scans!world
  <2> QED  BY <2>1, <2>3, GatheredFrame
<1>13. ASSUME NEW d \in Domains, Scans!RegisterSite(d) PROVE GatheredInv'
  <2>1. scan' = scan /\ content' = content /\ registered \subseteq registered'
    BY <1>13 DEF Scans!RegisterSite
  <2> QED  BY <2>1 DEF GatheredInv, Gathered, Covered, Scans!Infected, Scans!InScope
<1>14. ASSUME NEW f \in Files, NEW c \in Scans!Contents, Scans!EditFile(f, c)
       PROVE  GatheredInv'
  <2>1. ASSUME NEW t \in Slots PROVE Gathered(t)'
    <3>1. scan'[t] = Aged(t, f) /\ scan[t] \in Scans!Scan /\ Gathered(t)
      BY <1>14, <1>a, AgedEffect
    <3>2. registered' = registered /\ Scans!Infected \ {f} \subseteq Scans!Infected'
      BY <1>14 DEF Scans!EditFile, Scans!Infected, Scans!TypeOK
    <3> QED  BY <3>1, <3>2 DEF Aged, Scans!Scan, Gathered, Covered, Scans!InScope
  <2> QED  BY <2>1 DEF GatheredInv
<1>15. CASE Scans!Crash
  <2>1. \A t \in Slots : scan'[t] = Scans!AtRest  BY <1>15 DEF Scans!Crash
  <2> QED  BY <2>1 DEF GatheredInv, Gathered, Scans!AtRest
<1>16. ASSUME NEW t \in Slots, Scans!ReadBlocks(t) PROVE GatheredInv'
  <2>1. /\ Framed(t) /\ scan'[t] = Blocked(t) /\ UNCHANGED Scans!world
        /\ scan[t] \in Scans!Scan /\ Gathered(t)
        /\ content[scan[t].file] = "pipe"
    BY <1>16, <1>a, BlockedEffect DEF Scans!ReadBlocks
  <2>2. /\ scan'[t].pc = "blocked" /\ scan'[t].file = scan[t].file
        /\ scan'[t].names = scan[t].names /\ scan'[t].found = scan[t].found
        /\ scan'[t].scope = scan[t].scope /\ scan'[t].todo = scan[t].todo
        /\ scan'[t].scanned = scan[t].scanned /\ scan'[t].due = scan[t].due
        /\ scan'[t].steady = scan[t].steady /\ scan'[t].cut = scan[t].cut
        /\ scan'[t].unread = scan[t].unread
    BY <2>1 DEF Blocked, Scans!Scan
  <2>3. scan[t].file \notin scan[t].steady  BY <2>1 DEF Gathered, Scans!Infected
  <2>4. Gathered(t)'
    BY <1>16, <2>1, <2>2, <2>3
       DEF Scans!ReadBlocks, Gathered, Covered, Scans!Infected, Scans!InScope, Scans!world
  <2> QED  BY <2>1, <2>4, GatheredFrame
<1>17. ASSUME NEW t \in Slots, Scans!ReadReleased(t) PROVE GatheredInv'
  <2>1. /\ UNCHANGED Scans!world /\ scan[t].pc = "blocked" /\ scan[t].file \in Files
        /\ scan[t] \in Scans!Scan /\ Gathered(t)
    BY <1>17, <1>a DEF Scans!ReadReleased
  <2>2. Framed(t)  BY <1>17, <2>1, ReleasedEffect
  <2>3. PICK findings \in {{}, {<<scan[t].file, "signature">>}} :
          scan'[t] = Released(t, findings)
    BY <1>17, <2>1, ReleasedEffect
  <2>4. /\ scan'[t].pc = "walk"
        /\ scan'[t].names = scan[t].names \ {scan[t].file}
        /\ scan[t].found \subseteq scan'[t].found
        /\ scan'[t].scope = scan[t].scope /\ scan'[t].todo = scan[t].todo
        /\ scan'[t].scanned = scan[t].scanned /\ scan'[t].due = scan[t].due
        /\ scan'[t].steady = scan[t].steady /\ scan'[t].cut = scan[t].cut
        /\ scan'[t].unread = scan[t].unread
    BY <2>1, <2>3 DEF Released, Scans!Scan
  <2>5. Gathered(t)'
    BY <2>1, <2>4 DEF Gathered, Covered, Scans!Infected, Scans!InScope, Scans!world
  <2> QED  BY <2>1, <2>2, <2>5, GatheredFrame
<1>18. CASE Scans!Tick \/ UNCHANGED Scans!vars
  BY <1>18 DEF Scans!Tick, Scans!vars, Scans!world, GatheredInv, Gathered, Covered,
     Scans!Infected, Scans!InScope
<1> QED
  BY <1>b, <1>1, <1>2, <1>3, <1>4, <1>5, <1>6, <1>7, <1>8, <1>9, <1>10, <1>11, <1>12,
     <1>13, <1>14, <1>15, <1>16, <1>17, <1>18
     DEF Scans!Next, Scans!Step, Scans!UnknownSite, Scans!Unreadable, Scans!FileVanished,
     Scans!ScanFails, Scans!Answer, Scans!world

\* A completed scan has found every file that carried a signature all the while in a
\* site that was registered before, unless it broke off the walk or could not read it.
THEOREM SteadyFound == Spec => []SteadySignaturesAreFound
<1>0. Scans!ConstantsOK  BY ConstantsOK
<1>1. Scans!Init => GatheredInv
  <2> SUFFICES ASSUME Scans!Init, NEW t \in Slots PROVE Gathered(t)
    BY DEF GatheredInv
  <2>1. scan[t] = Scans!AtRest  BY DEF Scans!Init
  <2> QED  BY <2>1 DEF Scans!AtRest, Gathered, Scans!WritingLabels, Scans!ReadingLabels
<1>2. Scans!TypeOK /\ GatheredInv /\ [Scans!Next]_(Scans!vars) => GatheredInv'
  BY <1>0, GatheredStep
<1>3. GatheredInv => SteadySignaturesAreFound
  BY DEF GatheredInv, Gathered, Covered, SteadySignaturesAreFound,
     Scans!SteadySignaturesAreFound, Scans!ReadingLabels
<1> QED  BY <1>1, <1>2, <1>3, ImplementsScans, ScansTypeCorrect, PTL DEF Scans!Spec

-----------------------------------------------------------------------------
\* A scan that holds a name which was never taken twice is the only one to write it,
\* and the report has what the scan has done to it so far.
Reporting(t) ==
  scan[t].pc \in Scans!WritingLabels \cup {"done"} /\ scan[t].path \notin reused =>
    /\ \A u \in Slots \ {t} : ~Scans!Naming(u, scan[t].path)
    /\ scan[t].pc = "write" => reports[scan[t].path] = Empty
    /\ scan[t].pc = "done" => reports[scan[t].path] = t

ReportInv == \A t \in Slots : Reporting(t)

\* The label and the path are all that matters of a scan.
Frozen(t) == scan'[t].pc = scan[t].pc /\ scan'[t].path = scan[t].path
Quiet(t) == scan'[t].pc \notin Scans!WritingLabels \cup {"done"}

LEMMA ReportFrame ==
  ASSUME ReportInv, UNCHANGED <<reports, reused>>,
         \A u \in Slots : Frozen(u) \/ Quiet(u)
  PROVE  ReportInv'
BY DEF ReportInv, Reporting, Scans!Naming, Frozen, Quiet

LEMMA ReportStep ==
  Scans!ConstantsOK /\ Scans!TypeOK /\ ReportInv /\ [Scans!Next]_(Scans!vars) => ReportInv'
<1> SUFFICES ASSUME Scans!ConstantsOK, Scans!TypeOK, ReportInv,
                    [Scans!Next]_(Scans!vars)
             PROVE  ReportInv'
  OBVIOUS
<1> USE DEF Scans!WritingLabels
<1>a. ASSUME NEW t \in Slots, Framed(t), Quiet(t), UNCHANGED <<reports, reused>>
      PROVE  ReportInv'
  BY <1>a, ReportFrame DEF Framed, Frozen
<1>b. ASSUME NEW t \in Slots, Scans!Return(t), UNCHANGED <<reports, reused>> PROVE ReportInv'
  BY <1>a, <1>b, ScanReturns DEF Quiet, Scans!AtRest
<1>c. \A t \in Slots : scan[t] \in Scans!Scan /\ scan[t].path \in Scans!Seconds
  BY DEF Scans!TypeOK, Scans!Scan
<1>1. ASSUME NEW t \in Slots, NEW scope \in Domains \cup {NoDomain}, Scans!Begin(t, scope)
      PROVE  ReportInv'
  <2>1. /\ Framed(t) /\ scan'[t] = Listed(t, scope) /\ scan[t] \in Scans!Scan
        /\ UNCHANGED <<reports, reused>>
    BY <1>1, <1>c, WalkedSite, ListedEffect DEF Scans!Begin
  <2>2. Quiet(t)  BY <2>1 DEF Listed, Scans!Scan, Quiet
  <2> QED  BY <1>a, <2>1, <2>2
<1>2. ASSUME NEW t \in Slots, Scans!ListSites(t) PROVE ReportInv'
  <2>1. /\ Framed(t) /\ scan'[t] = Scoped(t) /\ scan[t] \in Scans!Scan
        /\ UNCHANGED <<reports, reused>>
    BY <1>2, <1>c, WalkedSite, ScopedEffect DEF Scans!ListSites
  <2>2. Quiet(t)  BY <2>1 DEF Scoped, Scans!Scan, Quiet
  <2> QED  BY <1>a, <2>1, <2>2
<1>3. ASSUME NEW t \in Slots, NEW d \in Domains, Scans!OpenSite(t, d) PROVE ReportInv'
  <2>1. /\ Framed(t) /\ scan'[t] = Opened(t, d)
        /\ scan[t] \in Scans!Scan /\ UNCHANGED <<reports, reused>>
    BY <1>3, <1>c, WalkedSite, OpenedEffect DEF Scans!OpenSite
  <2>2. Quiet(t)  BY <2>1 DEF Opened, Scans!Scan, Quiet
  <2> QED  BY <1>a, <2>1, <2>2
<1>4. ASSUME NEW t \in Slots, scan[t].pc = "walk", Scans!WalkBreaksOff(t) PROVE ReportInv'
  <2>1. /\ Framed(t) /\ scan'[t] = BrokenOff(t) /\ scan[t] \in Scans!Scan
        /\ UNCHANGED <<reports, reused>>
    BY <1>4, <1>c, WalkedSite, BrokenOffEffect DEF Scans!WalkBreaksOff
  <2>2. Quiet(t)  BY <2>1 DEF BrokenOff, Scans!Scan, Quiet
  <2> QED  BY <1>a, <2>1, <2>2
<1>5. ASSUME NEW t \in Slots, NEW f \in Files, Scans!VisitFile(t, f) PROVE ReportInv'
  <2>1. /\ Framed(t) /\ scan'[t] = Visited(t, f)
        /\ scan[t] \in Scans!Scan /\ UNCHANGED <<reports, reused>>
    BY <1>5, <1>c, WalkedSite, VisitedEffect DEF Scans!VisitFile
  <2>2. Quiet(t)  BY <2>1 DEF Visited, Scans!Scan, Quiet
  <2> QED  BY <1>a, <2>1, <2>2
<1>6. ASSUME NEW t \in Slots, Scans!ReadFile(t) PROVE ReportInv'
  <2>1. /\ Framed(t) /\ scan'[t] = Read(t) /\ scan[t] \in Scans!Scan
        /\ UNCHANGED <<reports, reused>>
    BY <1>6, <1>c, WalkedSite, ReadEffect DEF Scans!ReadFile, Scans!ReadingLabels
  <2>2. Quiet(t)  BY <2>1 DEF Read, Scans!Scan, Quiet
  <2> QED  BY <1>a, <2>1, <2>2
<1>7. ASSUME NEW t \in Slots, Scans!ReadFails(t) PROVE ReportInv'
  <2>1. /\ Framed(t) /\ scan'[t] = PassedOver(t) /\ scan[t] \in Scans!Scan
        /\ UNCHANGED <<reports, reused>>
    BY <1>7, <1>c, WalkedSite, PassedOverEffect DEF Scans!ReadFails, Scans!ReadingLabels
  <2>2. Quiet(t)  BY <2>1 DEF PassedOver, Scans!Scan, Quiet
  <2> QED  BY <1>a, <2>1, <2>2
<1>8. ASSUME NEW t \in Slots, Scans!SiteWalked(t) PROVE ReportInv'
  <2>1. /\ Framed(t) /\ scan'[t] = Walked(t) /\ scan[t] \in Scans!Scan
        /\ UNCHANGED <<reports, reused>>
    BY <1>8, <1>c, WalkedSite, WalkedEffect DEF Scans!SiteWalked
  <2>2. Quiet(t)  BY <2>1 DEF Walked, Scans!Scan, Quiet
  <2> QED  BY <1>a, <2>1, <2>2
<1>9. ASSUME NEW t \in Slots, Scans!AllWalked(t) PROVE ReportInv'
  <2>1. /\ Framed(t) /\ scan'[t] = Complete(t) /\ scan[t] \in Scans!Scan
        /\ UNCHANGED <<reports, reused>>
    BY <1>9, <1>c, WalkedSite, CompleteEffect DEF Scans!AllWalked
  <2>2. Quiet(t)  BY <2>1 DEF Complete, Scans!Scan, Quiet
  <2> QED  BY <1>a, <2>1, <2>2
<1>10. ASSUME NEW t \in Slots, Scans!TakePath(t) PROVE ReportInv'
  <2>1. Framed(t) /\ scan'[t] = Named(t) /\ scan[t] \in Scans!Scan
    BY <1>10, <1>c, NamedEffect
  <2>2. scan'[t].pc = "truncate" /\ scan'[t].path = now  BY <2>1 DEF Named, Scans!Scan
  <2>3. reports' = reports /\ reused \subseteq reused'  BY <1>10 DEF Scans!TakePath
  <2>4. now \notin reused' =>
          reports[now] = NoReport /\ \A u \in Slots : ~Scans!Naming(u, now)
    BY <1>10 DEF Scans!TakePath
  <2>5. Reporting(t)'
    BY <2>1, <2>2, <2>4 DEF Reporting, Scans!Naming, Framed
  <2>6. ASSUME NEW u \in Slots, u # t PROVE Reporting(u)'
    <3>1. Reporting(u) /\ scan'[u] = scan[u] /\ NoReport # u
      BY <2>1, <2>6 DEF ReportInv, Framed, Scans!ConstantsOK
    <3>2. ASSUME scan[u].pc \in Scans!WritingLabels \cup {"done"}, scan[u].path \notin reused'
          PROVE  scan[u].path # now
      <4>1. SUFFICES ASSUME scan[u].path = now PROVE FALSE
        OBVIOUS
      <4>2. reports[now] = NoReport /\ ~Scans!Naming(u, now)  BY <2>4, <3>2, <4>1
      <4>3. scan[u].pc = "done"  BY <3>2, <4>1, <4>2 DEF Scans!Naming
      <4> QED  BY <2>3, <3>1, <3>2, <4>1, <4>2, <4>3 DEF Reporting
    <3> QED  BY <2>1, <2>2, <2>3, <3>1, <3>2 DEF Reporting, Scans!Naming, Framed
  <2> QED  BY <2>5, <2>6 DEF ReportInv
<1>11. ASSUME NEW t \in Slots, Scans!Truncate(t) PROVE ReportInv'
  <2>1. Framed(t) /\ scan'[t] = Truncated(t) /\ scan[t] \in Scans!Scan
    BY <1>11, <1>c, TruncatedEffect
  <2>2. scan[t].pc = "truncate" /\ scan'[t].pc = "write" /\ scan'[t].path = scan[t].path
    BY <1>11, <2>1 DEF Scans!Truncate, Truncated, Scans!Scan
  <2>3. /\ reports' = [reports EXCEPT ![scan[t].path] = Empty] /\ reused' = reused
        /\ reports \in [Scans!Seconds -> Slots \cup {NoReport, Empty, Mixed}]
    BY <1>11 DEF Scans!Truncate, Scans!TypeOK
  <2>4. Reporting(t)'
    BY <1>c, <2>1, <2>2, <2>3 DEF ReportInv, Reporting, Scans!Naming, Framed
  <2>5. ASSUME NEW u \in Slots, u # t PROVE Reporting(u)'
    BY <1>c, <2>1, <2>2, <2>3, <2>5 DEF ReportInv, Reporting, Scans!Naming, Framed
  <2> QED  BY <2>4, <2>5 DEF ReportInv
<1>12. ASSUME NEW t \in Slots, Scans!WriteReport(t) PROVE ReportInv'
  <2>1. Framed(t) /\ scan'[t] = Written(t) /\ scan[t] \in Scans!Scan
    BY <1>12, <1>c, WrittenEffect
  <2>2. scan[t].pc = "write" /\ scan'[t].pc = "done" /\ scan'[t].path = scan[t].path
    BY <1>12, <2>1 DEF Scans!WriteReport, Written, Scans!Scan
  <2>3. /\ reused' = reused
        /\ \/ reports' = [reports EXCEPT ![scan[t].path] = t]
           \/ /\ reports[scan[t].path] # Empty
              /\ reports' = [reports EXCEPT ![scan[t].path] = Mixed]
        /\ reports \in [Scans!Seconds -> Slots \cup {NoReport, Empty, Mixed}]
    BY <1>12 DEF Scans!WriteReport, Scans!TypeOK
  <2>4. Reporting(t)'
    BY <1>c, <2>1, <2>2, <2>3 DEF ReportInv, Reporting, Scans!Naming, Framed
  <2>5. ASSUME NEW u \in Slots, u # t PROVE Reporting(u)'
    BY <1>c, <2>1, <2>2, <2>3, <2>5 DEF ReportInv, Reporting, Scans!Naming, Framed
  <2> QED  BY <2>4, <2>5 DEF ReportInv
<1>13. ASSUME NEW f \in Files, NEW c \in Scans!Contents, Scans!EditFile(f, c) PROVE ReportInv'
  <2>1. ASSUME NEW t \in Slots PROVE Frozen(t)
    <3>1. scan'[t] = Aged(t, f) /\ scan[t] \in Scans!Scan  BY <1>13, <1>c, AgedEffect
    <3> QED  BY <3>1 DEF Aged, Scans!Scan, Frozen
  <2> QED  BY <1>13, <2>1, ReportFrame DEF Scans!EditFile
<1>14. CASE Scans!Crash
  <2>1. \A t \in Slots : Quiet(t)  BY <1>14 DEF Scans!Crash, Scans!AtRest, Quiet
  <2> QED  BY <1>14, <2>1, ReportFrame DEF Scans!Crash
<1>15. CASE Scans!Tick \/ UNCHANGED Scans!vars \/ \E d \in Domains : Scans!RegisterSite(d)
  BY <1>15, ReportFrame DEF Scans!Tick, Scans!vars, Scans!RegisterSite, Frozen
<1>16. ASSUME NEW t \in Slots, Scans!ReadBlocks(t) PROVE ReportInv'
  <2>1. /\ Framed(t) /\ scan'[t] = Blocked(t) /\ scan[t] \in Scans!Scan
        /\ UNCHANGED <<reports, reused>>
    BY <1>16, <1>c, WalkedSite, BlockedEffect DEF Scans!ReadBlocks
  <2>2. Quiet(t)  BY <2>1 DEF Blocked, Scans!Scan, Quiet
  <2> QED  BY <1>a, <2>1, <2>2
<1>17. ASSUME NEW t \in Slots, Scans!ReadReleased(t) PROVE ReportInv'
  <2>1. scan[t].file \in Files /\ scan[t] \in Scans!Scan /\ UNCHANGED <<reports, reused>>
    BY <1>17, <1>c, WalkedSite DEF Scans!ReadReleased, Scans!ReadingLabels
  <2>2. PICK findings \in {{}, {<<scan[t].file, "signature">>}} :
          scan'[t] = Released(t, findings)
    BY <1>17, <2>1, ReleasedEffect
  <2>3. Quiet(t)  BY <2>1, <2>2 DEF Released, Scans!Scan, Quiet
  <2> QED  BY <1>17, <1>a, <2>1, <2>3, ReleasedEffect
<1> QED
  BY <1>b, <1>1, <1>2, <1>3, <1>4, <1>5, <1>6, <1>7, <1>8, <1>9, <1>10, <1>11, <1>12,
     <1>13, <1>14, <1>15, <1>16, <1>17
     DEF Scans!Next, Scans!Step, Scans!UnknownSite, Scans!Unreadable, Scans!FileVanished,
     Scans!ScanFails, Scans!Answer

\* The report an answer names holds that answer, unless its name was taken twice.
THEOREM ReportAnswered == Spec => []AnsweredReport
<1>0. Scans!ConstantsOK  BY ConstantsOK
<1>1. Scans!Init => ReportInv
  <2> SUFFICES ASSUME Scans!Init, NEW t \in Slots PROVE Reporting(t)
    BY DEF ReportInv
  <2>1. scan[t] = Scans!AtRest  BY DEF Scans!Init
  <2> QED  BY <2>1 DEF Scans!AtRest, Reporting, Scans!WritingLabels
<1>2. Scans!TypeOK /\ ReportInv /\ [Scans!Next]_(Scans!vars) => ReportInv'
  BY <1>0, ReportStep
<1>3. ReportInv => AnsweredReport
  BY DEF ReportInv, Reporting, AnsweredReport, Scans!AnsweredReport
<1> QED  BY <1>1, <1>2, <1>3, ImplementsScans, ScansTypeCorrect, PTL DEF Scans!Spec

-----------------------------------------------------------------------------
(* The restarts. *)

\* What is known at each label of a call of RestartService: how often the host was asked,
\* by the commands that failed and by the one that the call is at.
Last(c) == InContainer /\ c.service = Panel /\ c.command = 1

Restarted(c) == Last(c) \/ (c.job = "carried" /\ c.service # Panel)

\* A call under way is at one of the commands of its service; a slot that is free begins
\* with the first.
Placed(c) ==
  /\ c.pc = "idle" => c.command = 1
  /\ c.pc # "idle" => c.service \in Services /\ c.command \in 1 .. Commands[c.service]

Accounts(c) ==
  /\ Placed(c)
  /\ c.pc \in {"idle", "look"} => c.job = "none" /\ c.asked <= c.failed
  /\ c.pc \in {"idle", "look", "run"} => c.outcome = "failed"
  /\ c.job = "none" /\ c.outcome = "failed" => c.asked <= c.failed
  /\ c.job # "none" => c.asked >= 1
  /\ c.job = "carried" => c.service # Panel
  /\ c.asked <= c.failed + 1
  /\ c.outcome = "completed" => c.asked >= 1 /\ Restarted(c)
  /\ c.pc = "done" /\ c.outcome = "failed" => c.asked <= c.failed

CallsOK ==
  /\ call \in [Slots -> Server!Call]
  /\ \A t \in Slots : Accounts(call[t])

LEMMA CallFrame ==
  ASSUME CallsOK, NEW t \in Slots, NEW r \in Server!Call, Accounts(r),
         call' = [call EXCEPT ![t] = r]
  PROVE  CallsOK'
BY DEF CallsOK

LEMMA AtRestAccounts == Server!AtRest \in Server!Call /\ Accounts(Server!AtRest)
BY ConstantsOK DEF Server!AtRest, Server!Call, Server!Labels, Server!JobStates, Server!Outcomes,
   Accounts, Placed, Restarted, Server!ConstantsOK

LEMMA CallStep ==
  ASSUME CallsOK, NEW t \in Slots,
         \/ Server!Step(t) \/ Server!OutputInherited(t) \/ Server!Release(t)
         \/ \E s \in Services : Server!Begin(t, s)
  PROVE  CallsOK'
<1> DEFINE c == call[t]
<1> USE DEF Server!Call, Server!Labels, Server!JobStates, Server!Outcomes
<1>0. c \in Server!Call /\ Accounts(c) /\ call \in [Slots -> Server!Call]
  BY DEF CallsOK
<1>a. Commands \in [Services -> Nat \ {0}]  BY ConstantsOK DEF Server!ConstantsOK
<1>1. ASSUME NEW s \in Services, Server!Begin(t, s) PROVE CallsOK'
  <2> DEFINE r == [c EXCEPT !.pc = "look", !.service = s]
  <2>1. call' = [call EXCEPT ![t] = r]  BY <1>0, <1>1 DEF Server!Begin
  <2>2. r \in Server!Call  BY <1>0, <1>1
  <2>3. Placed(r)
    <3>1. c.command = 1  BY <1>0, <1>1 DEF Server!Begin, Accounts, Placed
    <3>a. Commands[s] \in Nat \ {0}  BY <1>a
    <3>2. r.pc = "look" /\ r.service = s /\ r.command = 1  BY <1>0, <3>1
    <3> QED  BY <3>1, <3>2, <3>a DEF Placed
  <2>4. Accounts(r)  BY <1>0, <1>1, <2>3 DEF Server!Begin, Accounts, Restarted, Last
  <2> QED  BY <2>1, <2>2, <2>4, CallFrame
<1>2. ASSUME call[t].command # Commands[call[t].service], Server!Unavailable(t) PROVE CallsOK'
  <2> DEFINE r == [c EXCEPT !.command = @ + 1]
  <2>1. call' = [call EXCEPT ![t] = r]  BY <1>0, <1>2 DEF Server!Unavailable
  <2>2. r \in Server!Call  BY <1>0, <1>2
  <2>3. Placed(r)
    <3>1. c.pc = "look" /\ c.service \in Services /\ c.command \in 1 .. Commands[c.service]
      BY <1>0, <1>2 DEF Server!Unavailable, Accounts, Placed
    <3>2. Commands[c.service] \in Nat /\ c.command # Commands[c.service]
      BY <1>a, <1>2, <3>1
    <3>3. c.command + 1 \in 1 .. Commands[c.service]  BY <3>1, <3>2
    <3>4. r.pc = "look" /\ r.service = c.service /\ r.command = c.command + 1
      BY <1>0, <3>1
    <3> QED  BY <3>1, <3>3, <3>4 DEF Placed
  <2>4. Accounts(r)  BY <1>0, <1>2, <2>3 DEF Server!Unavailable, Accounts, Restarted, Last
  <2> QED  BY <2>1, <2>2, <2>4, CallFrame
<1>3. ASSUME call[t].command = Commands[call[t].service], Server!Unavailable(t) PROVE CallsOK'
  <2> DEFINE r == [c EXCEPT !.pc = "done"]
  <2>1. call' = [call EXCEPT ![t] = r]  BY <1>0, <1>3 DEF Server!Unavailable
  <2>2. r \in Server!Call  BY <1>0, <1>3
  <2>3. Accounts(r)  BY <1>0, <1>3 DEF Server!Unavailable, Accounts, Placed, Restarted, Last
  <2> QED  BY <2>1, <2>2, <2>3, CallFrame
<1>4. ASSUME Server!StartCommand(t) PROVE CallsOK'
  <2> DEFINE r == [c EXCEPT !.pc = "run"]
  <2>1. call' = [call EXCEPT ![t] = r]  BY <1>0, <1>4 DEF Server!StartCommand
  <2>2. r \in Server!Call  BY <1>0, <1>4
  <2>3. Accounts(r)  BY <1>0, <1>4 DEF Server!StartCommand, Accounts, Placed, Restarted, Last
  <2> QED  BY <2>1, <2>2, <2>3, CallFrame
<1>5. ASSUME Server!HostAccepts(t) PROVE CallsOK'
  <2> DEFINE r == [c EXCEPT !.job = "queued", !.asked = @ + 1]
  <2>1. call' = [call EXCEPT ![t] = r]  BY <1>0, <1>5 DEF Server!HostAccepts
  <2>2. r \in Server!Call
    <3>1. c.asked \in Nat /\ c.asked + 1 \in Nat  BY <1>0
    <3> QED  BY <1>0, <3>1
  <2>3. Accounts(r)  BY <1>0, <1>5 DEF Server!HostAccepts, Accounts, Placed, Restarted, Last
  <2> QED  BY <2>1, <2>2, <2>3, CallFrame
<1>6. ASSUME Server!HostRestarts(t) PROVE CallsOK'
  <2> DEFINE r == [c EXCEPT !.job = "carried"]
  <2>1. call' = [call EXCEPT ![t] = r]  BY <1>0, <1>6 DEF Server!HostRestarts
  <2>2. r \in Server!Call  BY <1>0, <1>6
  <2>3. Accounts(r)  BY <1>0, <1>6 DEF Server!HostRestarts, Accounts, Placed, Restarted, Last
  <2> QED  BY <2>1, <2>2, <2>3, CallFrame
<1>7. ASSUME Server!CommandSucceeds(t) PROVE CallsOK'
  <2> DEFINE r == [c EXCEPT !.pc = "output", !.outcome = "completed"]
  <2>1. call' = [call EXCEPT ![t] = r]  BY <1>0, <1>7 DEF Server!CommandSucceeds
  <2>2. r \in Server!Call  BY <1>0, <1>7
  <2>3. Accounts(r)
    BY <1>0, <1>7 DEF Server!CommandSucceeds, Accounts, Placed, Restarted, Last, Server!Deferred
  <2> QED  BY <2>1, <2>2, <2>3, CallFrame
<1>8. ASSUME Server!CommandFails(t) PROVE CallsOK'
  <2> DEFINE r == [c EXCEPT !.pc = "output"]
  <2>1. call' = [call EXCEPT ![t] = r]  BY <1>0, <1>8 DEF Server!CommandFails
  <2>2. r \in Server!Call  BY <1>0, <1>8
  <2>3. Accounts(r)  BY <1>0, <1>8 DEF Server!CommandFails, Accounts, Placed, Restarted, Last
  <2> QED  BY <2>1, <2>2, <2>3, CallFrame
<1>9. ASSUME Server!TimesOut(t) PROVE CallsOK'
  <2> DEFINE r == [c EXCEPT !.pc = "output"]
  <2>1. call' = [call EXCEPT ![t] = r]  BY <1>0, <1>9 DEF Server!TimesOut
  <2>2. r \in Server!Call  BY <1>0, <1>9
  <2>3. Accounts(r)  BY <1>0, <1>9 DEF Server!TimesOut, Accounts, Placed, Restarted, Last
  <2> QED  BY <2>1, <2>2, <2>3, CallFrame
<1>10. ASSUME call[t].outcome = "completed", Server!OutputCloses(t) PROVE CallsOK'
  <2> DEFINE r == [c EXCEPT !.pc = "done"]
  <2>1. call' = [call EXCEPT ![t] = r]  BY <1>0, <1>10 DEF Server!OutputCloses
  <2>2. r \in Server!Call  BY <1>0, <1>10
  <2>3. Accounts(r)  BY <1>0, <1>10 DEF Server!OutputCloses, Accounts, Placed, Restarted, Last
  <2> QED  BY <2>1, <2>2, <2>3, CallFrame
<1>11. ASSUME call[t].outcome # "completed", Server!OutputCloses(t),
              call[t].command = Commands[call[t].service]
       PROVE  CallsOK'
  <2> DEFINE r == [c EXCEPT !.pc = "done", !.failed = @ + 1]
  <2>1. call' = [call EXCEPT ![t] = r]  BY <1>0, <1>11 DEF Server!OutputCloses
  <2>2. r \in Server!Call
    <3>1. c.failed + 1 \in Nat  BY <1>0
    <3> QED  BY <1>0, <3>1
  <2>3. Accounts(r)  BY <1>0, <1>11 DEF Server!OutputCloses, Accounts, Placed, Restarted, Last
  <2> QED  BY <2>1, <2>2, <2>3, CallFrame
<1>12. ASSUME call[t].outcome # "completed", Server!OutputCloses(t),
              call[t].command # Commands[call[t].service]
       PROVE  CallsOK'
  <2> DEFINE r == [c EXCEPT !.pc = "look", !.command = @ + 1, !.job = "none",
                           !.failed = @ + 1]
  <2>1. call' = [call EXCEPT ![t] = r]  BY <1>0, <1>12 DEF Server!OutputCloses
  <2>2. r \in Server!Call
    <3>1. c.failed + 1 \in Nat /\ c.command + 1 \in Nat \ {0}  BY <1>0
    <3> QED  BY <1>0, <3>1
  <2>3. Accounts(r)  BY <1>0, <1>12 DEF Server!OutputCloses, Accounts, Placed, Restarted, Last
  <2> QED  BY <2>1, <2>2, <2>3, CallFrame
<1>13. ASSUME Server!OutputInherited(t) PROVE CallsOK'
  <2> DEFINE r == [c EXCEPT !.pc = "inherited"]
  <2>1. call' = [call EXCEPT ![t] = r]  BY <1>0, <1>13 DEF Server!OutputInherited
  <2>2. r \in Server!Call  BY <1>0, <1>13
  <2>3. Accounts(r)
    BY <1>0, <1>13 DEF Server!OutputInherited, Accounts, Placed, Restarted, Last
  <2> QED  BY <2>1, <2>2, <2>3, CallFrame
<1>14. ASSUME Server!Release(t) PROVE CallsOK'
  <2> DEFINE r == [c EXCEPT !.pc = "output"]
  <2>1. call' = [call EXCEPT ![t] = r]  BY <1>0, <1>14 DEF Server!Release
  <2>2. r \in Server!Call  BY <1>0, <1>14
  <2>3. Accounts(r)  BY <1>0, <1>14 DEF Server!Release, Accounts, Placed, Restarted, Last
  <2> QED  BY <2>1, <2>2, <2>3, CallFrame
<1>20. CASE Server!Answer(t)
  BY <1>20, AtRestAccounts, CallFrame DEF Server!Answer
<1>21. ASSUME call' = call PROVE CallsOK'
  BY <1>21 DEF CallsOK
<1> QED
  BY <1>1, <1>2, <1>3, <1>4, <1>5, <1>6, <1>7, <1>8, <1>9, <1>10, <1>11, <1>12, <1>13, <1>14,
     <1>20, <1>21
     DEF Server!Step, Server!CountSites, Server!CountBackups, Server!ListSites,
     Server!ListBackups, Server!OverviewFails, Server!AnswerOverview

LEMMA CallsStep == CallsOK /\ [Next]_vars => CallsOK'
<1> SUFFICES ASSUME CallsOK, [Next]_vars PROVE CallsOK'
  OBVIOUS
<1>a. ASSUME call' = call PROVE CallsOK'
  BY <1>a DEF CallsOK
<1>1. ASSUME NEW t \in Slots, Request(t) PROVE CallsOK'
  <2>1. Restarts[t] \subseteq Services  BY ConstantsOK
  <2> QED  BY <1>1, <1>a, <2>1, CallStep DEF Request, serverVars, Server!BeginOverview
<1>2. ASSUME NEW t \in Slots, Step(t) PROVE CallsOK'
  BY <1>2, <1>a, CallStep DEF Step, serverVars
<1>3. ASSUME NEW t \in Slots, OutsideProcess(t) PROVE CallsOK'
  BY <1>3, <1>a, CallStep DEF OutsideProcess, serverVars
<1>4. CASE PanelRestarts
  BY <1>4, AtRestAccounts DEF PanelRestarts, Server!PanelRestarts, CallsOK
<1>5. CASE Environment
  BY <1>5, <1>a DEF Environment, serverVars, Server!RegisterSite, Server!DeleteSite,
     Server!RecordBackup
<1>6. CASE UNCHANGED vars
  BY <1>6, <1>a DEF vars, serverVars
<1> QED  BY <1>1, <1>2, <1>3, <1>4, <1>5, <1>6 DEF Next

LEMMA Calls == Spec => []CallsOK
<1>1. Init => CallsOK  BY AtRestAccounts DEF Init, Server!Init, CallsOK
<1> QED  BY <1>1, CallsStep, PTL DEF Spec

\* An answer of RestartService tells how often the host was asked at most, and is
\* completed only if the service has been restarted or, in a container, is about to be.
THEOREM RestartsAccountedFor == Spec => []AnswerAccountsForRestarts
<1>1. CallsOK => AnswerAccountsForRestarts
  BY DEF CallsOK, Accounts, Restarted, Last, Server!Call, Server!Outcomes, Server!Deferred,
     AnswerAccountsForRestarts, Server!AnswerAccountsForRestarts
<1> QED  BY <1>1, Calls, PTL

-----------------------------------------------------------------------------
(* The overviews. *)

\* The tables only grow while an overview is put together: what it has counted so far is
\* still there when it gets to the lists, which are as long as the tables allow.
TablesOK ==
  /\ registered \subseteq Domains /\ IsFiniteSet(registered)
  /\ deleted \subseteq registered
  /\ backups \in Nat
  /\ pending \in BOOLEAN

Agrees(w) ==
  /\ w.sites <= Cardinality(registered)
  /\ w.backups <= backups /\ w.before <= backups
  /\ w.pc \in {"listBackups", "done"} => Server!Recent(w.sites) <= w.recentSites
  /\ w.pc = "done" => Server!Recent(w.backups) <= w.recentBackups
  /\ w.pc \in {"listSites", "listBackups", "done"} =>
       (w.backups = 0 => w.before = 0 \/ w.unknown)

ViewsOK ==
  /\ view \in [Slots -> Server!View]
  /\ \A v \in Slots : Agrees(view[v])

\* The counts of the service are those of the library, and the lists are cut to Limit.
LEMMA SameCardinality == \A S : Server!Cardinality(S) = Cardinality(S)
BY DEF Server!Cardinality, Cardinality

LEMMA RecentCuts ==
  ASSUME NEW m \in Nat, NEW n \in Nat
  PROVE  /\ Server!Recent(n) \in 0 .. Limit
         /\ m <= n => Server!Recent(m) <= Server!Recent(n)
<1>1. Limit \in Nat  BY ConstantsOK DEF Server!ConstantsOK
<1>2. ASSUME NEW k \in Nat PROVE Server!Recent(k) = IF k <= Limit THEN k ELSE Limit
  BY <1>1, <1>2 DEF Server!Recent, Server!Min
<1> QED  BY <1>1, <1>2

LEMMA SitesCounted ==
  ASSUME TablesOK
  PROVE  /\ Cardinality(registered) \in Nat
         /\ Server!Cardinality(registered) = Cardinality(registered)
         /\ Server!Cardinality(registered \ deleted) \in 0 .. Cardinality(registered)
<1>1. IsFiniteSet(registered) /\ registered \ deleted \in SUBSET registered
  BY DEF TablesOK
<1>2. /\ IsFiniteSet(registered \ deleted)
      /\ Cardinality(registered \ deleted) <= Cardinality(registered)
  BY <1>1, FS_Subset
<1>3. Cardinality(registered) \in Nat /\ Cardinality(registered \ deleted) \in Nat
  BY <1>1, <1>2, FS_CardinalityType
<1> QED  BY <1>2, <1>3, SameCardinality

LEMMA ScanStepsKeepSites ==
  ASSUME NEW t \in Slots,
         \/ Scans!Step(t) \/ Scans!ReadReleased(t)
         \/ \E scope \in Domains \cup {NoDomain} : Scans!Begin(t, scope)
  PROVE  registered' = registered
<1> USE DEF Scans!world, Scans!WalkBreaksOff
<1>1. CASE Scans!ListSites(t) \/ Scans!UnknownSite(t) \/ Scans!Unreadable(t)
  BY <1>1 DEF Scans!ListSites, Scans!UnknownSite, Scans!Unreadable
<1>2. CASE \E d \in Domains : Scans!OpenSite(t, d)
  BY <1>2 DEF Scans!OpenSite
<1>3. CASE \E f \in Files : Scans!FileVanished(t, f) \/ Scans!VisitFile(t, f)
  BY <1>3 DEF Scans!FileVanished, Scans!VisitFile
<1>4. CASE \/ Scans!ReadFile(t) \/ Scans!ReadFails(t)
           \/ Scans!ReadBlocks(t) \/ Scans!ReadReleased(t)
           \/ Scans!SiteWalked(t) \/ Scans!AllWalked(t)
  BY <1>4 DEF Scans!ReadFile, Scans!ReadFails, Scans!ReadBlocks, Scans!ReadReleased,
     Scans!SiteWalked, Scans!AllWalked
<1>5. CASE Scans!TakePath(t) \/ Scans!Truncate(t) \/ Scans!WriteReport(t)
  BY <1>5 DEF Scans!TakePath, Scans!Truncate, Scans!WriteReport
<1>6. CASE Scans!ScanFails(t) \/ Scans!Answer(t)
  BY <1>6 DEF Scans!ScanFails, Scans!Answer
<1>7. CASE \E scope \in Domains \cup {NoDomain} : Scans!Begin(t, scope)
  BY <1>7 DEF Scans!Begin
<1> QED  BY <1>1, <1>2, <1>3, <1>4, <1>5, <1>6, <1>7 DEF Scans!Step

\* The steps of the service leave its tables alone.
LEMMA ServerTables ==
  ASSUME TablesOK, NEW t \in Slots,
         \/ Server!Step(t) \/ Server!OutputInherited(t) \/ Server!Release(t)
         \/ Server!BeginOverview(t) \/ \E s \in Services : Server!Begin(t, s)
  PROVE  UNCHANGED <<registered, deleted, backups>> /\ pending' \in BOOLEAN
<1>1. pending \in BOOLEAN  BY DEF TablesOK
<1> USE DEF Server!tables
<1>2. CASE Server!CommandSucceeds(t) \/ Server!TimesOut(t)
  BY <1>1, <1>2 DEF Server!CommandSucceeds, Server!TimesOut, Server!LeaveToHost
<1>3. CASE ~(Server!CommandSucceeds(t) \/ Server!TimesOut(t))
  BY <1>1, <1>3
     DEF Server!Step, Server!Begin, Server!Unavailable, Server!StartCommand,
     Server!HostAccepts, Server!HostRestarts, Server!CommandFails,
     Server!OutputCloses, Server!OutputInherited, Server!Release, Server!Answer,
     Server!BeginOverview, Server!CountSites, Server!CountBackups, Server!ListSites,
     Server!ListBackups, Server!OverviewFails, Server!AnswerOverview
<1> QED  BY <1>2, <1>3

\* One overview changes, or the tables grow.
LEMMA ViewFrame ==
  ASSUME TablesOK, ViewsOK, NEW v \in Slots, NEW r \in Server!View, Agrees(r),
         view' = [view EXCEPT ![v] = r], UNCHANGED <<registered, deleted, backups>>
  PROVE  ViewsOK'
<1>1. view' \in [Slots -> Server!View]  BY DEF ViewsOK
<1>2. ASSUME NEW u \in Slots PROVE Agrees(view[u])'
  <2>1. Agrees(view'[u])  BY <1>2 DEF ViewsOK
  <2> QED  BY <2>1 DEF Agrees
<1> QED  BY <1>1, <1>2 DEF ViewsOK

LEMMA ViewsGrow ==
  ASSUME TablesOK, TablesOK', ViewsOK, view' = view, backups <= backups',
         Cardinality(registered) <= Cardinality(registered')
  PROVE  ViewsOK'
<1>1. Cardinality(registered) \in Nat /\ Cardinality(registered') \in Nat
  BY FS_CardinalityType DEF TablesOK
<1>2. ASSUME NEW v \in Slots PROVE Agrees(view[v])'
  <2>1. view[v] \in Server!View /\ Agrees(view[v])  BY <1>2 DEF ViewsOK
  <2> QED  BY <1>1, <2>1 DEF Agrees, Server!View, TablesOK
<1> QED  BY <1>2 DEF ViewsOK

LEMMA BlankAgrees ==
  ASSUME TablesOK PROVE Server!Blank \in Server!View /\ Agrees(Server!Blank)
<1>1. Limit \in Nat  BY ConstantsOK DEF Server!ConstantsOK
<1>2. Cardinality(registered) \in Nat /\ backups \in Nat  BY SitesCounted DEF TablesOK
<1> QED  BY <1>1, <1>2 DEF Server!Blank, Server!View, Server!ViewLabels, Agrees

LEMMA ViewStep ==
  ASSUME TablesOK, ViewsOK, NEW v \in Slots,
         \/ Server!Step(v) \/ Server!OutputInherited(v) \/ Server!Release(v)
         \/ Server!BeginOverview(v) \/ \E s \in Services : Server!Begin(v, s)
  PROVE  ViewsOK'
<1> DEFINE w == view[v]
<1> USE DEF Server!tables
<1>0. w \in Server!View /\ Agrees(w) /\ view \in [Slots -> Server!View]  BY DEF ViewsOK
<1>a. /\ Cardinality(registered) \in Nat /\ backups \in Nat /\ Limit \in Nat
      /\ Server!Cardinality(registered) = Cardinality(registered)
      /\ Server!Cardinality(registered \ deleted) \in 0 .. Cardinality(registered)
  BY SitesCounted, ConstantsOK DEF TablesOK, Server!ConstantsOK
<1>1. ASSUME Server!BeginOverview(v) PROVE ViewsOK'
  <2> DEFINE r == [w EXCEPT !.pc = "sites", !.before = backups]
  <2>1. view' = [view EXCEPT ![v] = r]  BY <1>0, <1>1 DEF Server!BeginOverview
  <2>2. r \in Server!View  BY <1>0, <1>a DEF Server!View, Server!ViewLabels
  <2>3. Agrees(r)  BY <1>0, <1>a DEF Agrees, Server!View
  <2> QED  BY <1>1, <2>1, <2>2, <2>3, ViewFrame DEF Server!BeginOverview
<1>2. ASSUME Server!CountSites(v) PROVE ViewsOK'
  <2> DEFINE r(n) == [w EXCEPT !.pc = "backups", !.sites = n]
  <2>1. PICK n \in {w.sites, Server!Cardinality(registered \ deleted)} :
          view' = [view EXCEPT ![v] = r(n)]
    BY <1>0, <1>2 DEF Server!CountSites, Server!View
  <2>2. n \in Nat /\ n <= Cardinality(registered)  BY <1>0, <1>a DEF Agrees, Server!View
  <2>3. r(n) \in Server!View  BY <1>0, <2>2 DEF Server!View, Server!ViewLabels
  <2>4. Agrees(r(n))  BY <1>0, <2>2 DEF Agrees, Server!View
  <2> QED  BY <1>2, <2>1, <2>3, <2>4, ViewFrame DEF Server!CountSites
<1>3. ASSUME Server!CountBackups(v),
             view' = [view EXCEPT ![v].pc = "listSites", ![v].backups = backups]
      PROVE  ViewsOK'
  <2> DEFINE r == [w EXCEPT !.pc = "listSites", !.backups = backups]
  <2>1. view' = [view EXCEPT ![v] = r]  BY <1>0, <1>3
  <2>2. r \in Server!View  BY <1>0, <1>a DEF Server!View, Server!ViewLabels
  <2>3. Agrees(r)  BY <1>0, <1>a DEF Agrees, Server!View
  <2> QED  BY <1>3, <2>1, <2>2, <2>3, ViewFrame DEF Server!CountBackups
<1>4. ASSUME Server!CountBackups(v),
             view' = [view EXCEPT ![v].pc = "listSites", ![v].unknown = TRUE]
      PROVE  ViewsOK'
  <2> DEFINE r == [w EXCEPT !.pc = "listSites", !.unknown = TRUE]
  <2>1. view' = [view EXCEPT ![v] = r]  BY <1>0, <1>4
  <2>2. r \in Server!View  BY <1>0 DEF Server!View, Server!ViewLabels
  <2>3. Agrees(r)  BY <1>0 DEF Agrees, Server!View
  <2> QED  BY <1>4, <2>1, <2>2, <2>3, ViewFrame DEF Server!CountBackups
<1>5. ASSUME Server!ListSites(v) PROVE ViewsOK'
  <2> DEFINE n == Server!Recent(Cardinality(registered))
             r == [w EXCEPT !.pc = "listBackups", !.recentSites = n]
  <2>1. view' = [view EXCEPT ![v] = r]  BY <1>0, <1>a, <1>5 DEF Server!ListSites
  <2>2. w.sites \in Nat /\ w.sites <= Cardinality(registered)
    BY <1>0 DEF Agrees, Server!View
  <2>3. n \in 0 .. Limit /\ Server!Recent(w.sites) <= n  BY <1>a, <2>2, RecentCuts
  <2> HIDE DEF n
  <2>4. r \in Server!View  BY <1>0, <2>3 DEF Server!View, Server!ViewLabels
  <2>5. Agrees(r)  BY <1>0, <1>5, <2>3 DEF Agrees, Server!View, Server!ListSites
  <2> QED  BY <1>5, <2>1, <2>4, <2>5, ViewFrame DEF Server!ListSites
<1>6. ASSUME Server!ListBackups(v) PROVE ViewsOK'
  <2> DEFINE n == Server!Recent(backups)
             r == [w EXCEPT !.pc = "done", !.recentBackups = n]
  <2>1. view' = [view EXCEPT ![v] = r]  BY <1>0, <1>6 DEF Server!ListBackups
  <2>2. w.backups \in Nat /\ w.backups <= backups  BY <1>0 DEF Agrees, Server!View
  <2>3. n \in 0 .. Limit /\ Server!Recent(w.backups) <= n  BY <1>a, <2>2, RecentCuts
  <2> HIDE DEF n
  <2>4. r \in Server!View  BY <1>0, <2>3 DEF Server!View, Server!ViewLabels
  <2>5. Agrees(r)  BY <1>0, <1>6, <2>3 DEF Agrees, Server!View, Server!ListBackups
  <2> QED  BY <1>6, <2>1, <2>4, <2>5, ViewFrame DEF Server!ListBackups
<1>7. CASE Server!OverviewFails(v) \/ Server!AnswerOverview(v)
  BY <1>7, BlankAgrees, ViewFrame DEF Server!OverviewFails, Server!AnswerOverview
<1>8. ASSUME view' = view, UNCHANGED Server!tables PROVE ViewsOK'
  BY <1>8 DEF ViewsOK, Agrees
<1> QED
  BY <1>1, <1>2, <1>3, <1>4, <1>5, <1>6, <1>7, <1>8
     DEF Server!Step, Server!Begin, Server!Unavailable, Server!StartCommand,
     Server!HostAccepts, Server!HostRestarts, Server!CommandSucceeds, Server!CommandFails,
     Server!TimesOut, Server!OutputCloses, Server!OutputInherited, Server!Release,
     Server!Answer, Server!CountBackups

\* What every step keeps; the sites grow by RegisterSite, the backups by RecordBackup.
OverviewInv == TablesOK /\ ViewsOK

LEMMA OverviewStep == OverviewInv /\ [Next]_vars => OverviewInv'
<1> SUFFICES ASSUME TablesOK, ViewsOK, [Next]_vars PROVE TablesOK' /\ ViewsOK'
  BY DEF OverviewInv
<1> USE DEF Server!tables, serverVars
<1>a. ASSUME UNCHANGED <<registered, deleted, backups>>, pending' \in BOOLEAN PROVE TablesOK'
  BY <1>a DEF TablesOK
<1>b. ASSUME UNCHANGED <<registered, deleted, backups, pending, view>>
      PROVE  TablesOK' /\ ViewsOK'
  BY <1>b DEF TablesOK, ViewsOK, Agrees
<1>c. ASSUME NEW t \in Slots,
             \/ Server!Step(t) \/ Server!OutputInherited(t) \/ Server!Release(t)
             \/ Server!BeginOverview(t) \/ \E s \in Services : Server!Begin(t, s)
      PROVE  TablesOK' /\ ViewsOK'
  <2>1. UNCHANGED <<registered, deleted, backups>> /\ pending' \in BOOLEAN
    BY <1>c, ServerTables
  <2> QED  BY <1>a, <1>c, <2>1, ViewStep
<1>1. ASSUME NEW t \in Slots, Request(t) PROVE TablesOK' /\ ViewsOK'
  <2>1. Restarts[t] \subseteq Services /\ Scopes[t] \subseteq Domains \cup {NoDomain}
    BY ConstantsOK
  <2>2. CASE (\E s \in Restarts[t] : Server!Begin(t, s)) \/ Server!BeginOverview(t)
    BY <1>c, <2>1, <2>2
  <2>3. CASE UNCHANGED serverVars /\ \E scope \in Scopes[t] : Scans!Begin(t, scope)
    BY <1>b, <2>1, <2>3, ScanStepsKeepSites
  <2> QED  BY <1>1, <2>2, <2>3 DEF Request
<1>2. ASSUME NEW t \in Slots, Step(t) PROVE TablesOK' /\ ViewsOK'
  BY <1>2, <1>b, <1>c, ScanStepsKeepSites DEF Step
<1>3. ASSUME NEW t \in Slots, OutsideProcess(t) PROVE TablesOK' /\ ViewsOK'
  BY <1>3, <1>b, <1>c, ScanStepsKeepSites DEF OutsideProcess
<1>4. CASE PanelRestarts
  <2>1. UNCHANGED <<registered, deleted, backups>> /\ pending' = FALSE
        /\ view' = [v \in Slots |-> Server!Blank]
    BY <1>4 DEF PanelRestarts, Server!PanelRestarts
  <2>2. TablesOK'  BY <1>a, <2>1
  <2>3. Server!Blank \in Server!View /\ Agrees(Server!Blank)  BY BlankAgrees
  <2>4. ASSUME NEW v \in Slots PROVE Agrees(view[v])'
    BY <2>1, <2>3, <2>4 DEF Agrees
  <2> QED  BY <2>1, <2>2, <2>3, <2>4 DEF ViewsOK
<1>5. CASE Environment
  <2>1. ASSUME NEW d \in Domains, Server!RegisterSite(d) PROVE TablesOK' /\ ViewsOK'
    <3>1. IsFiniteSet(registered)  BY DEF TablesOK
    <3>2. IsFiniteSet(registered \cup {d}) /\ registered \in SUBSET (registered \cup {d})
      BY <3>1, FS_AddElement
    <3>3. Cardinality(registered) <= Cardinality(registered \cup {d})
      BY <3>2, FS_Subset
    <3>4. TablesOK'  BY <2>1, <3>2 DEF TablesOK, Server!RegisterSite
    <3> QED  BY <2>1, <3>3, <3>4, ViewsGrow DEF Server!RegisterSite, TablesOK
  <2>2. ASSUME NEW d \in Domains, Server!DeleteSite(d) PROVE TablesOK' /\ ViewsOK'
    <3>1. TablesOK'  BY <2>2 DEF TablesOK, Server!DeleteSite
    <3> QED  BY <2>2, <3>1 DEF Server!DeleteSite, ViewsOK, Agrees
  <2>3. CASE Server!RecordBackup
    <3>1. TablesOK' /\ backups <= backups'  BY <2>3 DEF TablesOK, Server!RecordBackup
    <3>2. Cardinality(registered) \in Nat  BY SitesCounted
    <3> QED  BY <2>3, <3>1, <3>2, ViewsGrow DEF Server!RecordBackup
  <2>4. CASE UNCHANGED serverVars /\ UNCHANGED registered
    BY <1>b, <2>4
  <2> QED
    BY <1>5, <2>1, <2>2, <2>3, <2>4 DEF Environment, Scans!EditFile, Scans!Tick
<1>6. CASE UNCHANGED vars
  BY <1>6, <1>b DEF vars
<1> QED  BY <1>1, <1>2, <1>3, <1>4, <1>5, <1>6 DEF Next

LEMMA Overviewed == Spec => []OverviewInv
<1>1. Init => OverviewInv
  <2> SUFFICES ASSUME Init PROVE OverviewInv
    OBVIOUS
  <2>1. IsFiniteSet(Present) /\ Present \subseteq Domains
    BY ConstantsOK DEF Server!ConstantsOK, Server!IsFiniteSet, IsFiniteSet
  <2>2. TablesOK  BY <2>1 DEF Init, Server!Init, TablesOK
  <2>3. Server!Blank \in Server!View /\ Agrees(Server!Blank)  BY <2>2, BlankAgrees
  <2> QED  BY <2>2, <2>3 DEF OverviewInv, ViewsOK, Init, Server!Init
<1> QED  BY <1>1, OverviewStep, PTL DEF Spec

\* No count of an overview exceeds the list beside it, and an overview says that there
\* are no backups only if there were none or they could not be counted.
THEOREM OverviewAgrees == Spec => []OverviewAgreesWithItself
<1>1. OverviewInv => OverviewAgreesWithItself
  <2> SUFFICES ASSUME OverviewInv, NEW v \in Slots, view[v].pc = "done"
               PROVE  /\ Server!Recent(view[v].sites) <= view[v].recentSites
                      /\ Server!Recent(view[v].backups) <= view[v].recentBackups
                      /\ view[v].backups = 0 => view[v].before = 0 \/ view[v].unknown
    BY DEF OverviewAgreesWithItself, Server!OverviewAgreesWithItself, Server!NoBackupsYet
  <2> QED  BY DEF OverviewInv, ViewsOK, Agrees
<1> QED  BY <1>1, Overviewed, PTL

-----------------------------------------------------------------------------
\* Every variable of the two services keeps its type: a scan in the walk of a site is at a
\* file of it, and a call of RestartService at one of the commands of its service.
THEOREM TypeCorrect == Spec => []TypeOK
<1>1. CallsOK /\ OverviewInv => Server!TypeOK
  BY DEF CallsOK, Accounts, Placed, OverviewInv, TablesOK, ViewsOK, Server!TypeOK
<1> QED  BY <1>1, Calls, Overviewed, ScansTypeCorrect, PTL DEF TypeOK
=============================================================================
