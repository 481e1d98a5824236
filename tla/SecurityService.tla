---------------------------- MODULE SecurityService ----------------------------
(***************************************************************************)
(* RunMalwareScan (services/security_service.go).  A scan asks for the     *)
(* sites, walks the directory of each one with filepath.Walk, and writes a *)
(* report whose name is the second it is written in.  Sites are registered *)
(* and files come, go and change while it runs.                            *)
(*                                                                         *)
(* Walk reads the names in a directory at once and then looks up each file *)
(* again: for one that has gone the callback returns the error, which ends *)
(* the walk of the site, and RunMalwareScan drops that error.  The callback*)
(* passes over directories only, so that a named pipe, or a link to a      *)
(* device, is read like a file, and reading it may never end.  One         *)
(* directory stands for the tree of a site; the order of the walk is left  *)
(* open.                                                                   *)
(***************************************************************************)
EXTENDS Naturals

CONSTANTS
  Slots,      \* the requests the server handles at once
  Domains,    \* the sites there may be
  NoDomain,   \* the scope of a scan of all sites
  Files,      \* the files there may be
  NoFile,
  SiteOf,     \* the site whose tree a file is in
  Scannable,  \* files that are not too large, with an extension some rule names
  Writable,   \* files that their group or others may write
  Present,    \* the sites and the files there are when the server starts
  Stored,
  NoReport,
  Empty,      \* a report truncated and not written
  Mixed,      \* a report with the bytes of two
  Horizon,    \* bound of the model: the last second
  Faults      \* the kinds of failure that may happen

FaultKinds == {"statement", "read", "write"}
Contents == {"absent", "clean", "infected", "pipe"}
Seconds == 0 .. Horizon

ConstantsOK ==
  /\ NoDomain \notin Domains /\ NoFile \notin Files
  /\ SiteOf \in [Files -> Domains]
  /\ Present \subseteq Domains /\ Stored \in [Files -> Contents]
  /\ Scannable \subseteq Files /\ Writable \subseteq Files
  /\ NoReport \notin Slots /\ Empty \notin Slots /\ Mixed \notin Slots
  /\ Horizon \in Nat
  /\ Faults \subseteq FaultKinds

VARIABLES
  registered,  \* the domains that have a row in the table sites
  content,     \* each file: absent, clean, with a signature in it, or one without end
  now,         \* the second
  reports,     \* the report named after each second: the slot whose result it holds
  scan,        \* what each scan is about to do, and what it has gathered
  reused       \* history: seconds whose report was taken by two scans

world == <<registered, content, now>>
vars == <<world, reports, scan, reused>>

-----------------------------------------------------------------------------
Marks == {"signature", "mode"}
WritingLabels == {"truncate", "write"}
ReadingLabels == {"read", "blocked"}
Labels == {"idle", "list", "site", "walk", "report", "done"} \cup ReadingLabels \cup WritingLabels

\* due, steady, cut and unread are history: the sites in scope and the infected
\* files when the scan began, as far as they stayed so, and what it skipped without
\* a word.
AtRest ==
  [pc |-> "idle", scope |-> NoDomain, todo |-> {}, site |-> NoDomain,
   names |-> {}, file |-> NoFile, scanned |-> {}, found |-> {}, path |-> 0,
   due |-> {}, steady |-> {}, cut |-> {}, unread |-> {}]

Infected == {f \in Files : content[f] = "infected"}
InScope(scope) == IF scope = NoDomain THEN registered ELSE registered \cap {scope}

Naming(t, second) == scan[t].pc \in WritingLabels /\ scan[t].path = second

Return(t) == scan' = [scan EXCEPT ![t] = AtRest]

-----------------------------------------------------------------------------
(* Faulty variants of single actions, each the code with one plausible bug. *)

\* SteadySignaturesAreFound: a file without a signature in it ends the walk of its
\* site, as when the callback returns filepath.SkipAll for it in place of nil.
ReadFileStops(t) ==
  /\ scan[t].pc = "read" /\ content[scan[t].file] # "pipe"
  /\ scan' = IF content[scan[t].file] = "infected"
             THEN [scan EXCEPT ![t].pc = "walk", ![t].names = @ \ {scan[t].file},
                     ![t].found = @ \cup {<<scan[t].file, "signature">>}]
             ELSE [scan EXCEPT ![t].pc = "site", ![t].names = {}]
  /\ UNCHANGED <<world, reports, reused>>

\* AnsweredReport: the error of writing the report is dropped.
ScanFailsUnseen(t) ==
  /\ \/ "statement" \in Faults /\ scan[t].pc = "list" /\ Return(t)
     \/ /\ "write" \in Faults /\ scan[t].pc \in {"report"} \cup WritingLabels
        /\ scan' = [scan EXCEPT ![t].pc = "done"]
  /\ UNCHANGED <<world, reports, reused>>

-----------------------------------------------------------------------------
Init ==
  /\ registered = Present
  /\ content = Stored
  /\ now = 0
  /\ reports = [s \in Seconds |-> NoReport]
  /\ scan = [t \in Slots |-> AtRest]
  /\ reused = {}

Begin(t, scope) ==
  /\ scan[t].pc = "idle"
  /\ scan' = [scan EXCEPT ![t].pc = "list", ![t].scope = scope,
                ![t].due = InScope(scope), ![t].steady = Infected \cap Scannable]
  /\ UNCHANGED <<world, reports, reused>>

\* sitesForScan: ListSites, which has the deleted sites too, or GetSiteByDomain.
ListSites(t) ==
  /\ scan[t].pc = "list"
  /\ scan[t].scope # NoDomain => scan[t].scope \in registered
  /\ scan' = [scan EXCEPT ![t].pc = "site", ![t].todo = InScope(scan[t].scope)]
  /\ UNCHANGED <<world, reports, reused>>

UnknownSite(t) ==
  /\ scan[t].pc = "list"
  /\ scan[t].scope \notin registered \cup {NoDomain}
  /\ Return(t)
  /\ UNCHANGED <<world, reports, reused>>

\* filepath.Walk reads the names in the tree of the next site.
OpenSite(t, d) ==
  /\ scan[t].pc = "site"
  /\ d \in scan[t].todo
  /\ scan' = [scan EXCEPT ![t].pc = "walk", ![t].site = d,
                ![t].todo = @ \ {d}, ![t].scanned = @ \cup {d},
                ![t].names = {f \in Files : SiteOf[f] = d /\ content[f] # "absent"}]
  /\ UNCHANGED <<world, reports, reused>>

\* The callback returns the error of Walk, which ends there and nobody hears of it.
WalkBreaksOff(t) ==
  /\ scan' = [scan EXCEPT ![t].pc = "site", ![t].names = {},
                ![t].cut = @ \cup {scan[t].site}, ![t].site = NoDomain]
  /\ UNCHANGED <<world, reports, reused>>

Unreadable(t) == "read" \in Faults /\ scan[t].pc = "walk" /\ WalkBreaksOff(t)

FileVanished(t, f) ==
  /\ scan[t].pc = "walk" /\ f \in scan[t].names
  /\ content[f] = "absent"
  /\ WalkBreaksOff(t)

\* The callback on a file: its mode, and then its size and extension.
VisitFile(t, f) ==
  /\ scan[t].pc = "walk" /\ f \in scan[t].names
  /\ content[f] # "absent"
  /\ scan' = [scan EXCEPT
       ![t].found = IF f \in Writable THEN @ \cup {<<f, "mode">>} ELSE @,
       ![t].file = IF f \in Scannable THEN f ELSE NoFile,
       ![t].pc = IF f \in Scannable THEN "read" ELSE "walk",
       ![t].names = IF f \in Scannable THEN @ ELSE @ \ {f}]
  /\ UNCHANGED <<world, reports, reused>>

\* os.ReadFile and the rules; a file that cannot be read is passed over.
ReadFile(t) ==
  /\ scan[t].pc = "read" /\ content[scan[t].file] # "pipe"
  /\ scan' = [scan EXCEPT ![t].pc = "walk", ![t].names = @ \ {scan[t].file},
       ![t].file = NoFile, ![t].found = IF content[scan[t].file] = "infected"
                    THEN @ \cup {<<scan[t].file, "signature">>} ELSE @]
  /\ UNCHANGED <<world, reports, reused>>

ReadFails(t) ==
  /\ "read" \in Faults
  /\ scan[t].pc = "read"
  /\ scan' = [scan EXCEPT ![t].pc = "walk", ![t].names = @ \ {scan[t].file},
                ![t].unread = @ \cup {scan[t].file}, ![t].file = NoFile]
  /\ UNCHANGED <<world, reports, reused>>

\* os.ReadFile waits for whoever writes to the pipe, or reads on for ever.
ReadBlocks(t) ==
  /\ scan[t].pc = "read" /\ content[scan[t].file] = "pipe"
  /\ scan' = [scan EXCEPT ![t].pc = "blocked"]
  /\ UNCHANGED <<world, reports, reused>>

\* Another process opens the pipe, writes what it likes, and closes it.
ReadReleased(t) ==
  /\ scan[t].pc = "blocked"
  /\ \E findings \in {{}, {<<scan[t].file, "signature">>}} :
       scan' = [scan EXCEPT ![t].pc = "walk", ![t].names = @ \ {scan[t].file},
                  ![t].file = NoFile, ![t].found = @ \cup findings]
  /\ UNCHANGED <<world, reports, reused>>

SiteWalked(t) ==
  /\ scan[t].pc = "walk" /\ scan[t].names = {}
  /\ scan' = [scan EXCEPT ![t].pc = "site", ![t].site = NoDomain]
  /\ UNCHANGED <<world, reports, reused>>

AllWalked(t) ==
  /\ scan[t].pc = "site" /\ scan[t].todo = {}
  /\ scan' = [scan EXCEPT ![t].pc = "report"]
  /\ UNCHANGED <<world, reports, reused>>

TakePath(t) ==
  /\ scan[t].pc = "report"
  /\ scan' = [scan EXCEPT ![t].pc = "truncate", ![t].path = now]
  /\ reused' = IF reports[now] # NoReport \/ \E u \in Slots : Naming(u, now)
               THEN reused \cup {now} ELSE reused
  /\ UNCHANGED <<world, reports>>

\* os.WriteFile opens with O_TRUNC and then writes from the start of the file.
Truncate(t) ==
  /\ scan[t].pc = "truncate"
  /\ reports' = [reports EXCEPT ![scan[t].path] = Empty]
  /\ scan' = [scan EXCEPT ![t].pc = "write"]
  /\ UNCHANGED <<world, reused>>

WriteReport(t) ==
  /\ scan[t].pc = "write"
  /\ \/ reports' = [reports EXCEPT ![scan[t].path] = t]
     \/ /\ reports[scan[t].path] # Empty
        /\ reports' = [reports EXCEPT ![scan[t].path] = Mixed]
  /\ scan' = [scan EXCEPT ![t].pc = "done"]
  /\ UNCHANGED <<world, reused>>

ScanFails(t) ==
  /\ \/ "statement" \in Faults /\ scan[t].pc = "list"
     \/ "write" \in Faults /\ scan[t].pc \in {"report"} \cup WritingLabels
  /\ Return(t)
  /\ UNCHANGED <<world, reports, reused>>

\* handler.runMalwareScan hands the result out.
Answer(t) ==
  /\ scan[t].pc = "done"
  /\ Return(t)
  /\ UNCHANGED <<world, reports, reused>>

Step(t) ==
  \/ ListSites(t) \/ UnknownSite(t)
  \/ \E d \in Domains : OpenSite(t, d)
  \/ Unreadable(t)
  \/ \E f \in Files : FileVanished(t, f) \/ VisitFile(t, f)
  \/ ReadFile(t) \/ ReadFails(t) \/ ReadBlocks(t) \/ SiteWalked(t) \/ AllWalked(t)
  \/ TakePath(t) \/ Truncate(t) \/ WriteReport(t)
  \/ ScanFails(t) \/ Answer(t)

\* CreateSite inserts its row; sites are only marked as deleted, and keep it.
RegisterSite(d) ==
  /\ d \notin registered
  /\ registered' = registered \cup {d}
  /\ UNCHANGED <<content, now, reports, scan, reused>>

\* A file comes, goes or changes, through the site that it belongs to.
EditFile(f, c) ==
  /\ content[f] # c
  /\ content' = [content EXCEPT ![f] = c]
  /\ scan' = [t \in Slots |-> [scan[t] EXCEPT !.steady = @ \ {f}]]
  /\ UNCHANGED <<registered, now, reports, reused>>

Tick ==
  /\ now < Horizon
  /\ now' = now + 1
  /\ UNCHANGED <<registered, content, reports, scan, reused>>

\* The server dies, with every scan in it.
Crash ==
  /\ scan' = [t \in Slots |-> AtRest]
  /\ UNCHANGED <<world, reports, reused>>

Next ==
  \/ \E t \in Slots, scope \in Domains \cup {NoDomain} : Begin(t, scope)
  \/ \E t \in Slots : Step(t) \/ ReadReleased(t)
  \/ \E d \in Domains : RegisterSite(d)
  \/ \E f \in Files, c \in Contents : EditFile(f, c)
  \/ Tick
  \/ Crash

Spec == Init /\ [][Next]_vars

-----------------------------------------------------------------------------
Findings == Files \X Marks

Scan ==
  [pc : Labels, scope : Domains \cup {NoDomain}, todo : SUBSET Domains,
   site : Domains \cup {NoDomain}, names : SUBSET Files, file : Files \cup {NoFile},
   scanned : SUBSET Domains, found : SUBSET Findings, path : Seconds,
   due : SUBSET Domains, steady : SUBSET Files, cut : SUBSET Domains,
   unread : SUBSET Files]

\* The types of the variables; a file is being read only in the walk of its site.
TypeOK ==
  /\ registered \subseteq Domains
  /\ content \in [Files -> Contents]
  /\ now \in Seconds
  /\ reports \in [Seconds -> Slots \cup {NoReport, Empty, Mixed}]
  /\ scan \in [Slots -> Scan]
  /\ reused \subseteq Seconds
  /\ \A t \in Slots :
       /\ scan[t].pc \in {"walk"} \cup ReadingLabels => scan[t].site # NoDomain
       /\ scan[t].pc \in ReadingLabels => scan[t].file \in scan[t].names
       /\ \A f \in scan[t].names : scan[t].site = SiteOf[f]

\* A completed scan has found every file that carried a signature all the while in
\* a site that was registered before, whatever happened to other files and sites,
\* unless the walk of the site was broken off or the file could not be read: then
\* the answer says completed, and nothing of what is missing.
SteadySignaturesAreFound ==
  \A t \in Slots : scan[t].pc = "done" =>
    \A f \in scan[t].steady : SiteOf[f] \in scan[t].due =>
      \/ <<f, "signature">> \in scan[t].found
      \/ SiteOf[f] \in scan[t].cut
      \/ f \in scan[t].unread

\* The report that an answer names holds the result of that answer, unless another
\* scan took the same name in the same second.
AnsweredReport ==
  \A t \in Slots : scan[t].pc = "done" /\ scan[t].path \notin reused =>
    reports[scan[t].path] = t
=============================================================================
