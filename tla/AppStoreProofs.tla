--------------------------- MODULE AppStoreProofs ---------------------------
(***************************************************************************)
(* Proofs about AppStore, for any apps, packages, catalogues, handlers and *)
(* numbers of crashes: every operation of the store keeps StoreInv.  The   *)
(* specification is that of Registry, which composes the store with the    *)
(* handlers that read its directories; module RegistryProofs has the       *)
(* theorems.                                                               *)
(***************************************************************************)
EXTENDS AppStore, TLAPS

\* The points at which an operation works on an app, has seen the package in
\* its version directory, and has its approval.
Working == {"approve", "reapprove", "keep", "copying", "stage"} \cup Staging \cup Late
Having == {"reapprove", "stage"} \cup Staging \cup Late
Approved == {"keep", "copying", "stage"} \cup Staging \cup Late

\* The requests.
Reqs == [pc : PCs, app : Apps \cup {None}, pkg : Packages \cup {None}, rev : 0 .. Len(Listing)]

\* What the state file says is installed.
Installed(a) == IF state[a].current = 0 THEN None ELSE versions[a][state[a].current]

\* The mutex of the manager; a process that does not run has no requests.
Mutex ==
  /\ \A g, h \in Handlers : req[g].pc \in Holding /\ req[h].pc \in Holding => g = h
  /\ ~up => \A h \in Handlers : req[h] = NoReq

\* A sync that has written its index has not been overtaken.
EtagInv == EtagIsHonest /\ \A h \in Handlers : req[h].pc = "status" => req[h].rev = index

\* A version directory holds a package of that version.
VersionInv ==
  \A a \in Apps, v \in Versions : versions[a][v] \in Packages => Version[versions[a][v]] = v

\* Both versions of the state file are kept; core apps are never recorded.
StateInv ==
  /\ RollbackPossible
  /\ \A a \in Apps : /\ state[a].current # 0 => Valid(versions[a][state[a].current])
                     /\ state[a].current = 0 => state[a].previous = 0
                     /\ a \in Core => state[a].current = 0

\* What the worker has on file it knows, or a failed renewal took it back.
ApprovedInv == ActiveIsApproved /\ approvals \subseteq approved \cup forgotten

\* No directory carries the id of a core app.
CoreInv ==
  \A a \in Core : active[a] = None /\ prev[a] = None /\ \A n \in Lives : temp[a][n] = None

\* The operation that holds the mutex is at pc with package p of app a: what
\* it works on is in its version directory and approved,
OpPackage(pc, a, p) ==
  /\ pc \in Working => a \in Apps \ Core /\ p \in Packages
  /\ pc \in Having => versions[a][Version[p]] = p
  /\ pc = "copying" => versions[a][Version[p]] = Torn
  /\ pc \in Approved => p \in approvals \cup forgotten

\* the installed apps are the recorded ones, but for the one it replaces,
OpActive(pc, a, p) ==
  /\ pc \in {"staged", "away", "in"} => temp[a][life] = p
  /\ pc \in Late => active[a] = p
  /\ pc = "in" => active[a] = None /\ (a \notin unrecorded => prev[a] = Installed(a))
  /\ pc = "record" => prev[a] = None
  /\ \A b \in Apps \ unrecorded :
       /\ active[b] = Installed(b) \/ (b = a /\ pc \in {"in"} \cup Late)
       /\ prev[b] # None => b = a /\ pc \in {"in", "clean"}

\* and a directory beside an installed one is its own, or was left behind by
\* an activation that was cut short.
OpLeftover(pc, a) ==
  \A b \in Apps \ cut :
    /\ prev[b] # None => b = a /\ pc \in {"in", "clean"}
    /\ \A n \in Lives : temp[b][n] # None => n = life /\ b = a /\ pc \in Staging

Operation(pc, a, p) == OpPackage(pc, a, p) /\ OpActive(pc, a, p) /\ OpLeftover(pc, a)

\* The inductive invariant of the store.
StoreInv ==
  /\ TypeOK /\ Mutex /\ EtagInv /\ VersionInv /\ StateInv /\ ApprovedInv /\ CoreInv
  /\ \A h \in Handlers : req[h].pc \in Holding => Operation(req[h].pc, req[h].app, req[h].pkg)
  /\ Unlocked => Operation("idle", None, None)

-----------------------------------------------------------------------------
(* Facts that all operations need.                                         *)

\* What the proofs use of the constants.
LEMMA StoreFacts ==
  /\ None \notin Packages /\ Torn \notin Packages /\ None # Torn
  /\ Core \subseteq Apps /\ 0 \notin Versions
  /\ \A p \in Packages : Version[p] \in Versions
  /\ Lives \subseteq Nat
<1>1. \A p \in Packages : Version[p] \in Versions
  BY DEF Versions
<1>2. 0 \notin Versions
  BY VersionAssumption DEF Versions
<1> QED BY <1>1, <1>2, PackageAssumption, CoreAssumption DEF None, Torn, Lives

\* What the catalogue lists is a package.
LEMMA ListingFacts ==
  Len(Listing) \in Nat /\ \A n \in 1 .. Len(Listing), a \in Apps : Listing[n][a] \in Packages
<1>1. Len(Listing) \in Nat
  BY ListingAssumption
<1>2. \A n \in 1 .. Len(Listing) : Listing[n] \in [Apps -> Packages]
  BY ListingAssumption
<1> QED BY <1>1, <1>2

\* The types of what is on disk.
DiskOK ==
  /\ versions \in [Apps -> [Versions -> Packages \cup {None, Torn}]]
  /\ state \in [Apps -> [current : Versions \cup {0}, previous : Versions \cup {0}]]
  /\ active \in [Apps -> Packages \cup {None}]
  /\ prev \in [Apps -> Packages \cup {None}]
  /\ temp \in [Apps -> [Lives -> Packages \cup {None, Torn}]]
  /\ life \in Lives

LEMMA DiskTyped == StoreInv => DiskOK
BY DEF StoreInv, TypeOK, DiskOK

\* The other types.
ProcessOK ==
  /\ index \in 0 .. Len(Listing) /\ etag \in 0 .. Len(Listing) /\ unsynced \in BOOLEAN
  /\ approved \in SUBSET Packages /\ approvals \in SUBSET Packages
  /\ up \in BOOLEAN
  /\ unrecorded \in SUBSET Apps /\ cut \in SUBSET Apps /\ forgotten \in SUBSET Packages

LEMMA Typed == TypeOK <=> DiskOK /\ ProcessOK /\ req \in [Handlers -> Reqs]
BY DEF TypeOK, DiskOK, ProcessOK, Reqs

LEMMA TypedNext == TypeOK' <=> DiskOK' /\ ProcessOK' /\ req' \in [Handlers -> Reqs]
BY DEF TypeOK, DiskOK, ProcessOK, Reqs

\* The operation of a request that holds the mutex or is about to take it.
LEMMA Current ==
  ASSUME StoreInv, NEW h \in Handlers, req[h].pc \in Holding \/ Unlocked
  PROVE  IF req[h].pc \in Holding THEN Operation(req[h].pc, req[h].app, req[h].pkg)
                                  ELSE Operation("idle", None, None)
BY DEF StoreInv, Unlocked

\* A request goes on, and the others stay where they are.
LEMMA GotoFacts ==
  ASSUME StoreInv, NEW h \in Handlers, NEW pc \in PCs, Goto(h, pc)
  PROVE  /\ req' \in [Handlers -> Reqs]
         /\ req'[h].pc = pc /\ req'[h].app = req[h].app /\ req'[h].pkg = req[h].pkg
         /\ \A g \in Handlers : g # h => req'[g] = req[g]
<1>1. req \in [Handlers -> Reqs]
  BY Typed DEF StoreInv
<1>2. req' \in [Handlers -> Reqs]
  BY <1>1 DEF Goto, Reqs
<1>3. req'[h].pc = pc /\ req'[h].app = req[h].app /\ req'[h].pkg = req[h].pkg
  BY <1>1 DEF Goto, Reqs
<1>4. \A g \in Handlers : g # h => req'[g] = req[g]
  BY <1>1 DEF Goto
<1> QED BY <1>2, <1>3, <1>4

\* Request h is at pc, with app a and package p; nobody else has the mutex or
\* moves.
Moved(h, pc, a, p) ==
  /\ req'[h].pc = pc /\ req'[h].app = a /\ req'[h].pkg = p
  /\ \A g \in Handlers : g # h => req'[g] = req[g] /\ req[g].pc \notin Holding

LEMMA GotoMoves ==
  ASSUME StoreInv, NEW h \in Handlers, req[h].pc \in Holding, NEW pc \in PCs, Goto(h, pc)
  PROVE  req' \in [Handlers -> Reqs] /\ Moved(h, pc, req[h].app, req[h].pkg)
<1>1. \A g \in Handlers : g # h => req[g].pc \notin Holding
  BY DEF StoreInv, Mutex
<1> QED BY <1>1, GotoFacts DEF Moved

LEMMA BeginMoves ==
  ASSUME StoreInv, NEW h \in Handlers, req[h].pc \in Holding \/ Unlocked, NEW pc \in PCs,
         NEW a \in Apps \cup {None}, NEW p \in Packages \cup {None}, NEW n \in 0 .. Len(Listing),
         Begin(h, pc, a, p, n)
  PROVE  req' \in [Handlers -> Reqs] /\ Moved(h, pc, a, p) /\ req'[h].rev = n
<1>1. \A g \in Handlers : g # h => req[g].pc \notin Holding
  BY DEF StoreInv, Mutex, Unlocked
<1>2. req \in [Handlers -> Reqs]
  BY Typed DEF StoreInv
<1>3. [pc |-> pc, app |-> a, pkg |-> p, rev |-> n] \in Reqs
  BY DEF Reqs
<1>4. req' \in [Handlers -> Reqs]
  BY <1>2, <1>3 DEF Begin
<1>5. req'[h].pc = pc /\ req'[h].app = a /\ req'[h].pkg = p /\ req'[h].rev = n
  BY <1>2 DEF Begin
<1>6. \A g \in Handlers : g # h => req'[g] = req[g]
  BY <1>2 DEF Begin
<1> QED BY <1>1, <1>4, <1>5, <1>6 DEF Moved

LEMMA ReturnMoves ==
  ASSUME StoreInv, NEW h \in Handlers, req[h].pc \in Holding, Return(h)
  PROVE  req' \in [Handlers -> Reqs] /\ Moved(h, "idle", None, None)
<1>1. Begin(h, "idle", None, None, 0)
  BY DEF Return, Begin, NoReq
<1>2. "idle" \in PCs /\ 0 \in 0 .. Len(Listing)
  BY ListingFacts DEF PCs
<1> QED BY <1>1, <1>2, BeginMoves

\* The invariant after a step of the operation that holds the mutex: its own
\* part remains to be shown.
LEMMA MovedInv ==
  ASSUME StoreInv, NEW h \in Handlers, NEW pc, NEW a, NEW p, Moved(h, pc, a, p), req' \in [Handlers -> Reqs],
         up' = up, up \/ req[h].pc # "idle", DiskOK', ProcessOK', VersionInv', StateInv', ApprovedInv', CoreInv',
         index' = etag' \/ unsynced' \/ pc = "status", pc = "status" => req'[h].rev = index',
         OpPackage(pc, a, p)', OpActive(pc, a, p)', OpLeftover(pc, a)'
  PROVE  StoreInv'
<1>1. TypeOK'
  BY TypedNext
<1>2. Mutex'
  BY DEF StoreInv, Mutex, Moved, NoReq
<1>3. EtagInv'
  <2>1. EtagIsHonest'
    BY DEF EtagIsHonest, Moved
  <2> QED BY <2>1 DEF EtagInv, Moved, Holding
<1>4. (\A g \in Handlers : req[g].pc \in Holding => Operation(req[g].pc, req[g].app, req[g].pkg))'
  <2> SUFFICES ASSUME NEW g \in Handlers, req'[g].pc \in Holding
               PROVE  Operation(req[g].pc, req[g].app, req[g].pkg)'
    OBVIOUS
  <2>1. g = h /\ req'[g].pc = pc /\ req'[g].app = a /\ req'[g].pkg = p
    BY DEF Moved
  <2> QED BY <2>1 DEF Operation, OpPackage, OpActive, OpLeftover
<1>5. (Unlocked => Operation("idle", None, None))'
  <2> SUFFICES ASSUME Unlocked' PROVE Operation("idle", None, None)'
    OBVIOUS
  <2>1. pc \notin Holding
    BY DEF Moved, Unlocked
  <2> QED BY <2>1 DEF Operation, OpPackage, OpActive, OpLeftover, Holding, Working, Having, Approved, Staging, Late
<1> QED BY <1>1, <1>2, <1>3, <1>4, <1>5 DEF StoreInv

\* The records stay when no complete version is touched.
LEMMA StateStays ==
  ASSUME StoreInv, UNCHANGED state,
         \A a \in Apps, v \in Versions : versions[a][v] \in Packages => versions'[a][v] = versions[a][v]
  PROVE  StateInv' /\ \A a \in Apps : Installed(a)' = Installed(a)
<1>1. \A a \in Apps : /\ state[a].current # 0 => state[a].current \in Versions
                      /\ state[a].previous # 0 => state[a].previous \in Versions
  BY DEF StoreInv, TypeOK
<1> QED BY <1>1 DEF StoreInv, StateInv, RollbackPossible, Valid, Installed

-----------------------------------------------------------------------------
(* Each operation preserves the invariant.  The abbreviations of the       *)
(* module are expanded throughout this part.                               *)

USE StoreFacts
    DEF catalogVars, diskVars, workerVars, processVars, ghostVars, Staging, Late, Holding, PCs, Working, Having,
        Approved

\* No sync was in progress, and none begins.
LEMMA EtagStays ==
  ASSUME StoreInv, NEW h \in Handlers, req[h].pc # "status", NEW pc, NEW a, NEW p, Moved(h, pc, a, p),
         UNCHANGED catalogVars
  PROVE  index' = etag' \/ unsynced'
<1>1. \A g \in Handlers : req[g].pc # "status"
  BY DEF Moved
<1> QED BY <1>1 DEF StoreInv, EtagInv, EtagIsHonest

\* The new index comes first; nobody else has a sync in progress.
LEMMA SyncIndexStep ==
  ASSUME StoreInv, NEW h \in Handlers, NEW n \in 1 .. Len(Listing), SyncIndex(h, n) PROVE StoreInv'
<1> USE DEF SyncIndex
<1>1. Operation("idle", None, None) /\ DiskOK /\ ProcessOK
  BY Current, DiskTyped, Typed DEF StoreInv, Idle, Unlocked
<1>2. req' \in [Handlers -> Reqs] /\ Moved(h, "status", None, None) /\ req'[h].rev = n
  BY BeginMoves, ListingFacts
<1>3. DiskOK' /\ ProcessOK'
  BY <1>1, ListingFacts DEF Operation, OpPackage, DiskOK, ProcessOK
<1>4. n \in 0 .. Len(Listing)
  BY ListingFacts
<1>5. VersionInv'
  BY <1>1 DEF StoreInv, VersionInv, Operation, OpPackage, DiskOK
<1>6. StateInv' /\ \A b \in Apps : Installed(b)' = Installed(b)
  BY StateStays
<1>7. ApprovedInv'
  BY <1>1 DEF StoreInv, ApprovedInv, ActiveIsApproved, Operation, OpPackage, DiskOK
<1>8. CoreInv'
  BY <1>1 DEF StoreInv, CoreInv, Operation, OpPackage, DiskOK
<1>9. OpPackage("status", None, None)'
  BY DEF OpPackage
<1>10. OpActive("status", None, None)'
  BY <1>1, <1>6 DEF Operation, OpPackage, OpActive, DiskOK
<1>11. OpLeftover("status", None)'
  BY <1>1 DEF Operation, OpPackage, OpLeftover, DiskOK
<1> QED BY <1>2, <1>3, <1>4, <1>5, <1>6, <1>7, <1>8, <1>9, <1>10, <1>11, MovedInv DEF Idle

\* The status has the revision of the index.
LEMMA SyncStatusStep ==
  ASSUME StoreInv, NEW h \in Handlers, SyncStatus(h) PROVE StoreInv'
<1> USE DEF SyncStatus
<1>1. PICK a, p : a = req[h].app /\ p = req[h].pkg
  OBVIOUS
<1>2. Operation("status", a, p) /\ DiskOK /\ ProcessOK
  BY <1>1, Current, DiskTyped, Typed DEF StoreInv
<1>3. req' \in [Handlers -> Reqs] /\ Moved(h, "idle", None, None)
  BY <1>1, ReturnMoves
<1>4. DiskOK' /\ ProcessOK'
  <2>1. req[h].rev = index
    BY DEF StoreInv, EtagInv
  <2> QED BY <2>1, <1>2 DEF DiskOK, ProcessOK
<1>5. index' = etag' \/ unsynced'
  BY DEF StoreInv, EtagInv
<1>6. VersionInv'
  BY <1>1, <1>2 DEF StoreInv, VersionInv, Operation, OpPackage, DiskOK
<1>7. StateInv' /\ \A b \in Apps : Installed(b)' = Installed(b)
  BY StateStays
<1>8. ApprovedInv'
  BY <1>1, <1>2 DEF StoreInv, ApprovedInv, ActiveIsApproved, Operation, OpPackage, DiskOK
<1>9. CoreInv'
  BY <1>1, <1>2 DEF StoreInv, CoreInv, Operation, OpPackage, DiskOK
<1>10. OpPackage("idle", None, None)'
  BY DEF OpPackage
<1>11. OpActive("idle", None, None)'
  BY <1>1, <1>2, <1>7 DEF Operation, OpPackage, OpActive, DiskOK
<1>12. OpLeftover("idle", None)'
  BY <1>1, <1>2 DEF Operation, OpPackage, OpLeftover, DiskOK
<1> QED BY <1>1, <1>3, <1>4, <1>5, <1>6, <1>7, <1>8, <1>9, <1>10, <1>11, <1>12, MovedInv

\* The package is the one of the cached index.
LEMMA InstallStep ==
  ASSUME StoreInv, NEW h \in Handlers, NEW a \in Apps, Install(h, a) PROVE StoreInv'
<1> USE DEF Install
<1>1. PICK p \in Packages : p = Listed(a)
  BY ListingFacts DEF StoreInv, TypeOK, Listed
<1>2. Operation("idle", None, None) /\ DiskOK /\ ProcessOK
  BY Current, DiskTyped, Typed DEF StoreInv, Idle, Unlocked
<1>3. req' \in [Handlers -> Reqs] /\ Moved(h, "approve", a, p)
  BY <1>1, BeginMoves, ListingFacts
<1>4. DiskOK' /\ ProcessOK'
  BY <1>1, <1>2 DEF Operation, OpPackage, DiskOK, ProcessOK
<1>5. index' = etag' \/ unsynced'
  BY <1>3, EtagStays DEF Idle
<1>6. VersionInv'
  BY <1>1, <1>2 DEF StoreInv, VersionInv, Operation, OpPackage, DiskOK
<1>7. StateInv' /\ \A b \in Apps : Installed(b)' = Installed(b)
  BY StateStays
<1>8. ApprovedInv'
  BY <1>1, <1>2 DEF StoreInv, ApprovedInv, ActiveIsApproved, Operation, OpPackage, DiskOK
<1>9. CoreInv'
  BY <1>1, <1>2 DEF StoreInv, CoreInv, Operation, OpPackage, DiskOK
<1>10. OpPackage("approve", a, p)'
  BY DEF OpPackage
<1>11. OpActive("approve", a, p)'
  BY <1>1, <1>2, <1>7 DEF Operation, OpPackage, OpActive, DiskOK
<1>12. OpLeftover("approve", a)'
  BY <1>1, <1>2 DEF Operation, OpPackage, OpLeftover, DiskOK
<1> QED BY <1>1, <1>3, <1>4, <1>5, <1>6, <1>7, <1>8, <1>9, <1>10, <1>11, <1>12, MovedInv DEF Idle

\* The package is the one in the previous version, of that version.
LEMMA RollbackStep ==
  ASSUME StoreInv, NEW h \in Handlers, NEW a \in Apps, Rollback(h, a) PROVE StoreInv'
<1> USE DEF Rollback
<1>1. PICK p \in Packages : p = versions[a][state[a].previous]
  BY DEF Valid
<1>2. Operation("idle", None, None) /\ DiskOK /\ ProcessOK
  BY Current, DiskTyped, Typed DEF StoreInv, Idle, Unlocked
<1>3. req' \in [Handlers -> Reqs] /\ Moved(h, "reapprove", a, p)
  BY <1>1, BeginMoves, ListingFacts
<1>4. DiskOK' /\ ProcessOK'
  BY <1>1, <1>2 DEF Operation, OpPackage, DiskOK, ProcessOK
<1>5. index' = etag' \/ unsynced'
  BY <1>3, EtagStays DEF Idle
<1>6. VersionInv'
  BY <1>1, <1>2 DEF StoreInv, VersionInv, Operation, OpPackage, DiskOK
<1>7. StateInv' /\ \A b \in Apps : Installed(b)' = Installed(b)
  BY StateStays
<1>8. ApprovedInv'
  BY <1>1, <1>2 DEF StoreInv, ApprovedInv, ActiveIsApproved, Operation, OpPackage, DiskOK
<1>9. CoreInv'
  BY <1>1, <1>2 DEF StoreInv, CoreInv, Operation, OpPackage, DiskOK
<1>10. OpPackage("reapprove", a, p)'
  <2>1. state[a].previous \in Versions /\ a \notin Core
    BY <1>2 DEF DiskOK, StoreInv, StateInv
  <2>2. Version[p] = state[a].previous
    BY <1>1, <2>1 DEF StoreInv, VersionInv
  <2> QED BY <1>1, <2>1, <2>2 DEF OpPackage
<1>11. OpActive("reapprove", a, p)'
  BY <1>1, <1>2, <1>7 DEF Operation, OpPackage, OpActive, DiskOK
<1>12. OpLeftover("reapprove", a)'
  BY <1>1, <1>2 DEF Operation, OpPackage, OpLeftover, DiskOK
<1> QED BY <1>1, <1>3, <1>4, <1>5, <1>6, <1>7, <1>8, <1>9, <1>10, <1>11, <1>12, MovedInv DEF Idle

\* What was on file or forgotten is on file or forgotten still.
LEMMA ApproveStep ==
  ASSUME StoreInv, NEW h \in Handlers, Approve(h) PROVE StoreInv'
<1> USE DEF Approve
<1>1. PICK pc, a, p : pc = req[h].pc /\ a = req[h].app /\ p = req[h].pkg
  OBVIOUS
<1>2. Operation(pc, a, p) /\ DiskOK /\ ProcessOK
  BY <1>1, Current, DiskTyped, Typed DEF StoreInv
<1>3. req' \in [Handlers -> Reqs] /\ Moved(h, IF pc = "approve" THEN "keep" ELSE "stage", a, p)
  BY <1>1, GotoMoves
<1>4. DiskOK' /\ ProcessOK'
  BY <1>1, <1>2 DEF Operation, OpPackage, DiskOK, ProcessOK
<1>5. index' = etag' \/ unsynced'
  BY <1>3, EtagStays
<1>6. VersionInv'
  BY <1>1, <1>2 DEF StoreInv, VersionInv, Operation, OpPackage, DiskOK
<1>7. StateInv' /\ \A b \in Apps : Installed(b)' = Installed(b)
  BY StateStays
<1>8. ApprovedInv'
  BY <1>1, <1>2 DEF StoreInv, ApprovedInv, ActiveIsApproved, Operation, OpPackage, DiskOK
<1>9. CoreInv'
  BY <1>1, <1>2 DEF StoreInv, CoreInv, Operation, OpPackage, DiskOK
<1>10. OpPackage(IF pc = "approve" THEN "keep" ELSE "stage", a, p)'
  BY <1>1, <1>2, <1>3 DEF Operation, OpPackage, Moved, DiskOK
<1>11. OpActive(IF pc = "approve" THEN "keep" ELSE "stage", a, p)'
  BY <1>1, <1>2, <1>7 DEF Operation, OpPackage, OpActive, DiskOK
<1>12. OpLeftover(IF pc = "approve" THEN "keep" ELSE "stage", a)'
  BY <1>1, <1>2 DEF Operation, OpPackage, OpLeftover, DiskOK
<1> QED BY <1>1, <1>3, <1>4, <1>5, <1>6, <1>7, <1>8, <1>9, <1>10, <1>11, <1>12, MovedInv

\* The approval that leaves the memory is on file, or forgotten.
LEMMA ApproveFailsStep ==
  ASSUME StoreInv, NEW h \in Handlers, ApproveFails(h) PROVE StoreInv'
<1> USE DEF ApproveFails
<1>1. PICK pc, a, p : pc = req[h].pc /\ a = req[h].app /\ p = req[h].pkg
  OBVIOUS
<1>2. Operation(pc, a, p) /\ DiskOK /\ ProcessOK
  BY <1>1, Current, DiskTyped, Typed DEF StoreInv
<1>3. req' \in [Handlers -> Reqs] /\ Moved(h, "idle", None, None)
  BY <1>1, ReturnMoves
<1>4. DiskOK' /\ ProcessOK'
  BY <1>1, <1>2 DEF Operation, OpPackage, DiskOK, ProcessOK
<1>5. index' = etag' \/ unsynced'
  BY <1>3, EtagStays
<1>6. VersionInv'
  BY <1>1, <1>2 DEF StoreInv, VersionInv, Operation, OpPackage, DiskOK
<1>7. StateInv' /\ \A b \in Apps : Installed(b)' = Installed(b)
  BY StateStays
<1>8. ApprovedInv'
  BY <1>1, <1>2 DEF StoreInv, ApprovedInv, ActiveIsApproved, Operation, OpPackage, DiskOK
<1>9. CoreInv'
  BY <1>1, <1>2 DEF StoreInv, CoreInv, Operation, OpPackage, DiskOK
<1>10. OpPackage("idle", None, None)'
  BY DEF OpPackage
<1>11. OpActive("idle", None, None)'
  BY <1>1, <1>2, <1>7 DEF Operation, OpPackage, OpActive, DiskOK
<1>12. OpLeftover("idle", None)'
  BY <1>1, <1>2 DEF Operation, OpPackage, OpLeftover, DiskOK
<1> QED BY <1>1, <1>3, <1>4, <1>5, <1>6, <1>7, <1>8, <1>9, <1>10, <1>11, <1>12, MovedInv

\* The directory is new: no recorded version is touched.
LEMMA CopyVersionStep ==
  ASSUME StoreInv, NEW h \in Handlers, CopyVersion(h) PROVE StoreInv'
<1> USE DEF CopyVersion
<1>1. PICK a, p : a = req[h].app /\ p = req[h].pkg
  OBVIOUS
<1>2. Operation("keep", a, p) /\ DiskOK /\ ProcessOK
  BY <1>1, Current, DiskTyped, Typed DEF StoreInv
<1>3. req' \in [Handlers -> Reqs] /\ Moved(h, "copying", a, p)
  BY <1>1, GotoMoves
<1>4. DiskOK' /\ ProcessOK'
  BY <1>1, <1>2 DEF Operation, OpPackage, DiskOK, ProcessOK
<1>5. index' = etag' \/ unsynced'
  BY <1>3, EtagStays
<1>6. VersionInv'
  BY <1>1, <1>2 DEF StoreInv, VersionInv, Operation, OpPackage, DiskOK
<1>7. StateInv' /\ \A b \in Apps : Installed(b)' = Installed(b)
  <2>1. versions[a][Version[p]] = None
    BY <1>1, <1>2 DEF Kept, Operation, OpPackage
  <2>2. \A b \in Apps, v \in Versions : versions[b][v] \in Packages => versions'[b][v] = versions[b][v]
    BY <1>1, <1>2, <2>1 DEF DiskOK, Operation, OpPackage
  <2> QED BY <2>2, StateStays
<1>8. ApprovedInv'
  BY <1>1, <1>2 DEF StoreInv, ApprovedInv, ActiveIsApproved, Operation, OpPackage, DiskOK
<1>9. CoreInv'
  BY <1>1, <1>2 DEF StoreInv, CoreInv, Operation, OpPackage, DiskOK
<1>10. OpPackage("copying", a, p)'
  BY <1>1, <1>2, <1>3 DEF Operation, OpPackage, Moved, DiskOK
<1>11. OpActive("copying", a, p)'
  BY <1>1, <1>2, <1>7 DEF Operation, OpPackage, OpActive, DiskOK
<1>12. OpLeftover("copying", a)'
  BY <1>1, <1>2 DEF Operation, OpPackage, OpLeftover, DiskOK
<1> QED BY <1>1, <1>3, <1>4, <1>5, <1>6, <1>7, <1>8, <1>9, <1>10, <1>11, <1>12, MovedInv

\* The directory that is filled is the one this operation made.
LEMMA CopiedVersionStep ==
  ASSUME StoreInv, NEW h \in Handlers, CopiedVersion(h) PROVE StoreInv'
<1> USE DEF CopiedVersion
<1>1. PICK a, p : a = req[h].app /\ p = req[h].pkg
  OBVIOUS
<1>2. Operation("copying", a, p) /\ DiskOK /\ ProcessOK
  BY <1>1, Current, DiskTyped, Typed DEF StoreInv
<1>3. req' \in [Handlers -> Reqs] /\ Moved(h, "stage", a, p)
  BY <1>1, GotoMoves
<1>4. DiskOK' /\ ProcessOK'
  BY <1>1, <1>2 DEF Operation, OpPackage, DiskOK, ProcessOK
<1>5. index' = etag' \/ unsynced'
  BY <1>3, EtagStays
<1>6. VersionInv'
  BY <1>1, <1>2 DEF StoreInv, VersionInv, Operation, OpPackage, DiskOK
<1>7. StateInv' /\ \A b \in Apps : Installed(b)' = Installed(b)
  <2>1. versions[a][Version[p]] = Torn
    BY <1>1, <1>2 DEF Kept, Operation, OpPackage
  <2>2. \A b \in Apps, v \in Versions : versions[b][v] \in Packages => versions'[b][v] = versions[b][v]
    BY <1>1, <1>2, <2>1 DEF DiskOK, Operation, OpPackage
  <2> QED BY <2>2, StateStays
<1>8. ApprovedInv'
  BY <1>1, <1>2 DEF StoreInv, ApprovedInv, ActiveIsApproved, Operation, OpPackage, DiskOK
<1>9. CoreInv'
  BY <1>1, <1>2 DEF StoreInv, CoreInv, Operation, OpPackage, DiskOK
<1>10. OpPackage("stage", a, p)'
  BY <1>1, <1>2, <1>3 DEF Operation, OpPackage, Moved, DiskOK
<1>11. OpActive("stage", a, p)'
  BY <1>1, <1>2, <1>7 DEF Operation, OpPackage, OpActive, DiskOK
<1>12. OpLeftover("stage", a)'
  BY <1>1, <1>2 DEF Operation, OpPackage, OpLeftover, DiskOK
<1> QED BY <1>1, <1>3, <1>4, <1>5, <1>6, <1>7, <1>8, <1>9, <1>10, <1>11, <1>12, MovedInv

\* The version directory holds the package.
LEMMA ReuseVersionStep ==
  ASSUME StoreInv, NEW h \in Handlers, ReuseVersion(h) PROVE StoreInv'
<1> USE DEF ReuseVersion
<1>1. PICK a, p : a = req[h].app /\ p = req[h].pkg
  OBVIOUS
<1>2. Operation("keep", a, p) /\ DiskOK /\ ProcessOK
  BY <1>1, Current, DiskTyped, Typed DEF StoreInv
<1>3. req' \in [Handlers -> Reqs] /\ Moved(h, "stage", a, p)
  BY <1>1, GotoMoves
<1>4. DiskOK' /\ ProcessOK'
  BY <1>1, <1>2 DEF Operation, OpPackage, DiskOK, ProcessOK
<1>5. index' = etag' \/ unsynced'
  BY <1>3, EtagStays
<1>6. VersionInv'
  BY <1>1, <1>2 DEF StoreInv, VersionInv, Operation, OpPackage, DiskOK
<1>7. StateInv' /\ \A b \in Apps : Installed(b)' = Installed(b)
  BY StateStays
<1>8. ApprovedInv'
  BY <1>1, <1>2 DEF StoreInv, ApprovedInv, ActiveIsApproved, Operation, OpPackage, DiskOK
<1>9. CoreInv'
  BY <1>1, <1>2 DEF StoreInv, CoreInv, Operation, OpPackage, DiskOK
<1>10. OpPackage("stage", a, p)'
  <2>1. versions[a][Version[p]] = p
    BY <1>1 DEF SamePayload, Kept
  <2> QED BY <1>2, <2>1 DEF Operation, OpPackage
<1>11. OpActive("stage", a, p)'
  BY <1>1, <1>2, <1>7 DEF Operation, OpPackage, OpActive, DiskOK
<1>12. OpLeftover("stage", a)'
  BY <1>1, <1>2 DEF Operation, OpPackage, OpLeftover, DiskOK
<1> QED BY <1>1, <1>3, <1>4, <1>5, <1>6, <1>7, <1>8, <1>9, <1>10, <1>11, <1>12, MovedInv

\* The new directory belongs to this activation.
LEMMA StageStep ==
  ASSUME StoreInv, NEW h \in Handlers, Stage(h) PROVE StoreInv'
<1> USE DEF Stage
<1>1. PICK a, p : a = req[h].app /\ p = req[h].pkg
  OBVIOUS
<1>2. Operation("stage", a, p) /\ DiskOK /\ ProcessOK
  BY <1>1, Current, DiskTyped, Typed DEF StoreInv
<1>3. req' \in [Handlers -> Reqs] /\ Moved(h, "staging", a, p)
  BY <1>1, GotoMoves
<1>4. DiskOK' /\ ProcessOK'
  BY <1>1, <1>2 DEF Operation, OpPackage, DiskOK, ProcessOK
<1>5. index' = etag' \/ unsynced'
  BY <1>3, EtagStays
<1>6. VersionInv'
  BY <1>1, <1>2 DEF StoreInv, VersionInv, Operation, OpPackage, DiskOK
<1>7. StateInv' /\ \A b \in Apps : Installed(b)' = Installed(b)
  BY StateStays
<1>8. ApprovedInv'
  <2>1. \A b \in Apps, n \in Lives : temp'[b][n] \in {temp[b][n], Torn}
    BY <1>1, <1>2 DEF DiskOK
  <2> QED BY <2>1 DEF StoreInv, ApprovedInv, ActiveIsApproved
<1>9. CoreInv'
  BY <1>1, <1>2 DEF StoreInv, CoreInv, Operation, OpPackage, DiskOK
<1>10. OpPackage("staging", a, p)'
  BY <1>1, <1>2, <1>3 DEF Operation, OpPackage, Moved, DiskOK
<1>11. OpActive("staging", a, p)'
  BY <1>1, <1>2, <1>7 DEF Operation, OpPackage, OpActive, DiskOK
<1>12. OpLeftover("staging", a)'
  BY <1>1, <1>2 DEF Operation, OpPackage, OpLeftover, DiskOK
<1> QED BY <1>1, <1>3, <1>4, <1>5, <1>6, <1>7, <1>8, <1>9, <1>10, <1>11, <1>12, MovedInv

\* The new directory holds what the version directory holds.
LEMMA StagedStep ==
  ASSUME StoreInv, NEW h \in Handlers, Staged(h) PROVE StoreInv'
<1> USE DEF Staged
<1>1. PICK a, p : a = req[h].app /\ p = req[h].pkg
  OBVIOUS
<1>2. Operation("staging", a, p) /\ DiskOK /\ ProcessOK
  BY <1>1, Current, DiskTyped, Typed DEF StoreInv
<1>3. req' \in [Handlers -> Reqs] /\ Moved(h, "staged", a, p)
  BY <1>1, GotoMoves
<1>4. DiskOK' /\ ProcessOK'
  <2>1. Kept(h) = p /\ p \in Packages /\ a \in Apps
    BY <1>1, <1>2 DEF Kept, Operation, OpPackage
  <2> QED BY <1>1, <1>2, <2>1 DEF DiskOK, ProcessOK
<1>5. index' = etag' \/ unsynced'
  BY <1>3, EtagStays
<1>6. VersionInv'
  BY <1>1, <1>2 DEF StoreInv, VersionInv, Operation, OpPackage, DiskOK
<1>7. StateInv' /\ \A b \in Apps : Installed(b)' = Installed(b)
  BY StateStays
<1>8. ApprovedInv'
  <2>1. Kept(h) = p /\ p \in Packages /\ a \in Apps
    BY <1>1, <1>2 DEF Kept, Operation, OpPackage
  <2>2. \A b \in Apps, n \in Lives : temp'[b][n] \in {temp[b][n], p}
    BY <1>1, <1>2, <2>1 DEF DiskOK
  <2>3. p \in approvals \cup forgotten
    BY <1>2 DEF Operation, OpPackage
  <2> QED BY <2>2, <2>3 DEF StoreInv, ApprovedInv, ActiveIsApproved
<1>9. CoreInv'
  BY <1>1, <1>2 DEF StoreInv, CoreInv, Operation, OpPackage, DiskOK
<1>10. OpPackage("staged", a, p)'
  BY <1>1, <1>2, <1>3 DEF Operation, OpPackage, Moved, DiskOK
<1>11. OpActive("staged", a, p)'
  <2>1. Kept(h) = p /\ p \in Packages /\ a \in Apps
    BY <1>1, <1>2 DEF Kept, Operation, OpPackage
  <2> QED BY <1>1, <1>2, <1>7, <2>1 DEF Operation, OpActive, DiskOK
<1>12. OpLeftover("staged", a)'
  BY <1>1, <1>2 DEF Operation, OpPackage, OpLeftover, DiskOK
<1> QED BY <1>1, <1>3, <1>4, <1>5, <1>6, <1>7, <1>8, <1>9, <1>10, <1>11, <1>12, MovedInv

\* Only a leftover of an activation that was cut short is dropped.
LEMMA DropPreviousStep ==
  ASSUME StoreInv, NEW h \in Handlers, DropPrevious(h) PROVE StoreInv'
<1> USE DEF DropPrevious
<1>1. PICK a, p : a = req[h].app /\ p = req[h].pkg
  OBVIOUS
<1>2. Operation("staged", a, p) /\ DiskOK /\ ProcessOK
  BY <1>1, Current, DiskTyped, Typed DEF StoreInv
<1>3. req' \in [Handlers -> Reqs] /\ Moved(h, "away", a, p)
  BY <1>1, GotoMoves
<1>4. DiskOK' /\ ProcessOK'
  BY <1>1, <1>2 DEF Operation, OpPackage, DiskOK, ProcessOK
<1>5. index' = etag' \/ unsynced'
  BY <1>3, EtagStays
<1>6. VersionInv'
  BY <1>1, <1>2 DEF StoreInv, VersionInv, Operation, OpPackage, DiskOK
<1>7. StateInv' /\ \A b \in Apps : Installed(b)' = Installed(b)
  BY StateStays
<1>8. ApprovedInv'
  BY <1>1, <1>2 DEF StoreInv, ApprovedInv, ActiveIsApproved, Operation, OpPackage, DiskOK
<1>9. CoreInv'
  BY <1>1, <1>2 DEF StoreInv, CoreInv, Operation, OpPackage, DiskOK
<1>10. OpPackage("away", a, p)'
  BY <1>1, <1>2, <1>3 DEF Operation, OpPackage, Moved, DiskOK
<1>11. OpActive("away", a, p)'
  BY <1>1, <1>2, <1>7 DEF Operation, OpPackage, OpActive, DiskOK
<1>12. OpLeftover("away", a)'
  BY <1>1, <1>2 DEF Operation, OpPackage, OpLeftover, DiskOK
<1> QED BY <1>1, <1>3, <1>4, <1>5, <1>6, <1>7, <1>8, <1>9, <1>10, <1>11, <1>12, MovedInv

\* What is moved away is what the state file names.
LEMMA MoveAwayStep ==
  ASSUME StoreInv, NEW h \in Handlers, MoveAway(h) PROVE StoreInv'
<1> USE DEF MoveAway
<1>1. PICK a, p : a = req[h].app /\ p = req[h].pkg
  OBVIOUS
<1>2. Operation("away", a, p) /\ DiskOK /\ ProcessOK
  BY <1>1, Current, DiskTyped, Typed DEF StoreInv
<1>3. req' \in [Handlers -> Reqs] /\ Moved(h, "in", a, p)
  BY <1>1, GotoMoves
<1>4. DiskOK' /\ ProcessOK'
  BY <1>1, <1>2 DEF Operation, OpPackage, DiskOK, ProcessOK
<1>5. index' = etag' \/ unsynced'
  BY <1>3, EtagStays
<1>6. VersionInv'
  BY <1>1, <1>2 DEF StoreInv, VersionInv, Operation, OpPackage, DiskOK
<1>7. StateInv' /\ \A b \in Apps : Installed(b)' = Installed(b)
  BY StateStays
<1>8. ApprovedInv'
  <2>1. \A b \in Apps : active'[b] \in {active[b], None} /\ prev'[b] \in {active[b], prev[b]}
    BY <1>1, <1>2 DEF DiskOK
  <2> QED BY <2>1 DEF StoreInv, ApprovedInv, ActiveIsApproved
<1>9. CoreInv'
  <2>1. \A b \in Core : active'[b] = active[b] /\ prev'[b] = prev[b]
    BY <1>1, <1>2 DEF Operation, OpPackage, DiskOK
  <2> QED BY <2>1 DEF StoreInv, CoreInv
<1>10. OpPackage("in", a, p)'
  BY <1>1, <1>2, <1>3 DEF Operation, OpPackage, Moved, DiskOK
<1>11. OpActive("in", a, p)'
  BY <1>1, <1>2, <1>7 DEF Operation, OpPackage, OpActive, DiskOK
<1>12. OpLeftover("in", a)'
  BY <1>1, <1>2 DEF Operation, OpPackage, OpLeftover, DiskOK
<1> QED BY <1>1, <1>3, <1>4, <1>5, <1>6, <1>7, <1>8, <1>9, <1>10, <1>11, <1>12, MovedInv

\* The package that moves in is the approved one.
LEMMA MoveInStep ==
  ASSUME StoreInv, NEW h \in Handlers, MoveIn(h) PROVE StoreInv'
<1> USE DEF MoveIn
<1>1. PICK a, p : a = req[h].app /\ p = req[h].pkg
  OBVIOUS
<1>2. Operation("in", a, p) /\ DiskOK /\ ProcessOK
  BY <1>1, Current, DiskTyped, Typed DEF StoreInv
<1>3. req' \in [Handlers -> Reqs] /\ Moved(h, "clean", a, p)
  BY <1>1, GotoMoves
<1>4. DiskOK' /\ ProcessOK'
  BY <1>1, <1>2 DEF Operation, OpPackage, OpActive, DiskOK, ProcessOK
<1>5. index' = etag' \/ unsynced'
  BY <1>3, EtagStays
<1>6. VersionInv'
  BY <1>1, <1>2 DEF StoreInv, VersionInv, Operation, OpPackage, DiskOK
<1>7. StateInv' /\ \A b \in Apps : Installed(b)' = Installed(b)
  BY StateStays
<1>8. ApprovedInv'
  <2>1. /\ \A b \in Apps : active'[b] \in {active[b]} \cup {temp[b][n] : n \in Lives}
        /\ \A b \in Apps, n \in Lives : temp'[b][n] \in {temp[b][n], None}
    BY <1>1, <1>2 DEF DiskOK
  <2> QED BY <2>1 DEF StoreInv, ApprovedInv, ActiveIsApproved
<1>9. CoreInv'
  BY <1>1, <1>2 DEF StoreInv, CoreInv, Operation, OpPackage, DiskOK
<1>10. OpPackage("clean", a, p)'
  BY <1>1, <1>2, <1>3 DEF Operation, OpPackage, Moved, DiskOK
<1>11. OpActive("clean", a, p)'
  BY <1>1, <1>2, <1>7 DEF Operation, OpPackage, OpActive, DiskOK
<1>12. OpLeftover("clean", a)'
  BY <1>1, <1>2 DEF Operation, OpPackage, OpLeftover, DiskOK
<1> QED BY <1>1, <1>3, <1>4, <1>5, <1>6, <1>7, <1>8, <1>9, <1>10, <1>11, <1>12, MovedInv

\* Nothing is left beside the installed app.
LEMMA CleanStep ==
  ASSUME StoreInv, NEW h \in Handlers, Clean(h) PROVE StoreInv'
<1> USE DEF Clean
<1>1. PICK a, p : a = req[h].app /\ p = req[h].pkg
  OBVIOUS
<1>2. Operation("clean", a, p) /\ DiskOK /\ ProcessOK
  BY <1>1, Current, DiskTyped, Typed DEF StoreInv
<1>3. req' \in [Handlers -> Reqs] /\ Moved(h, "record", a, p)
  BY <1>1, GotoMoves
<1>4. DiskOK' /\ ProcessOK'
  BY <1>1, <1>2 DEF Operation, OpPackage, DiskOK, ProcessOK
<1>5. index' = etag' \/ unsynced'
  BY <1>3, EtagStays
<1>6. VersionInv'
  BY <1>1, <1>2 DEF StoreInv, VersionInv, Operation, OpPackage, DiskOK
<1>7. StateInv' /\ \A b \in Apps : Installed(b)' = Installed(b)
  BY StateStays
<1>8. ApprovedInv'
  BY <1>1, <1>2 DEF StoreInv, ApprovedInv, ActiveIsApproved, Operation, OpPackage, DiskOK
<1>9. CoreInv'
  BY <1>1, <1>2 DEF StoreInv, CoreInv, Operation, OpPackage, DiskOK
<1>10. OpPackage("record", a, p)'
  BY <1>1, <1>2, <1>3 DEF Operation, OpPackage, Moved, DiskOK
<1>11. OpActive("record", a, p)'
  BY <1>1, <1>2, <1>7 DEF Operation, OpPackage, OpActive, DiskOK
<1>12. OpLeftover("record", a)'
  BY <1>1, <1>2 DEF Operation, OpPackage, OpLeftover, DiskOK
<1> QED BY <1>1, <1>3, <1>4, <1>5, <1>6, <1>7, <1>8, <1>9, <1>10, <1>11, <1>12, MovedInv

\* The previous version is the one that was recorded, and is kept.
LEMMA RecordStep ==
  ASSUME StoreInv, NEW h \in Handlers, Record(h) PROVE StoreInv'
<1> USE DEF Record
<1>1. PICK a, p : a = req[h].app /\ p = req[h].pkg
  OBVIOUS
<1>2. Operation("record", a, p) /\ DiskOK /\ ProcessOK
  BY <1>1, Current, DiskTyped, Typed DEF StoreInv
<1>3. req' \in [Handlers -> Reqs] /\ Moved(h, "list", None, None)
  BY <1>1, BeginMoves, ListingFacts
<1>4. DiskOK' /\ ProcessOK'
  <2>1. /\ a \in Apps \ Core /\ p \in Packages /\ versions[a][Version[p]] = p
        /\ Version[p] \in Versions
    BY <1>2 DEF Operation, OpPackage
  <2>2. Recorded(state[a], Version[p]) \in [current : Versions \cup {0}, previous : Versions \cup {0}]
    BY <1>2, <2>1 DEF DiskOK, Recorded
  <2> QED BY <1>1, <1>2, <2>1, <2>2 DEF DiskOK, ProcessOK
<1>5. index' = etag' \/ unsynced'
  BY <1>3, EtagStays
<1>6. VersionInv'
  BY <1>1, <1>2 DEF StoreInv, VersionInv, Operation, OpPackage, DiskOK
<1>7. StateInv'
  <2>1. /\ a \in Apps \ Core /\ p \in Packages /\ versions[a][Version[p]] = p
        /\ Version[p] \in Versions
    BY <1>2 DEF Operation, OpPackage
  <2>2. /\ state'[a] = Recorded(state[a], Version[p])
        /\ \A b \in Apps : b # a => state'[b] = state[b]
    BY <1>1, <1>2, <2>1 DEF DiskOK
  <2>3. \A b \in Apps : b # a =>
          /\ state'[b].previous # 0 => /\ Valid(versions[b][state'[b].previous])
                                       /\ state'[b].previous # state'[b].current
          /\ state'[b].current # 0 => Valid(versions[b][state'[b].current])
          /\ state'[b].current = 0 => state'[b].previous = 0
          /\ b \in Core => state'[b].current = 0
    BY <2>2 DEF StoreInv, StateInv, RollbackPossible
  <2>4. /\ state'[a].previous # 0 => /\ Valid(versions[a][state'[a].previous])
                                     /\ state'[a].previous # state'[a].current
        /\ state'[a].current # 0 /\ Valid(versions[a][state'[a].current])
    <3>1. /\ state'[a].current = Version[p]
          /\ state'[a].previous = IF state[a].current \notin {0, Version[p]} THEN state[a].current
                                                                        ELSE state[a].previous
      BY <2>2 DEF Recorded
    <3> QED BY <2>1, <3>1 DEF StoreInv, StateInv, RollbackPossible, Valid
  <2> QED BY <2>1, <2>3, <2>4 DEF StateInv, RollbackPossible, Valid
<1>8. ApprovedInv'
  BY <1>1, <1>2 DEF StoreInv, ApprovedInv, ActiveIsApproved, Operation, OpPackage, DiskOK
<1>9. CoreInv'
  BY <1>1, <1>2 DEF StoreInv, CoreInv, Operation, OpPackage, DiskOK
<1>10. OpPackage("list", None, None)'
  BY DEF OpPackage
<1>11. OpActive("list", None, None)'
  <2>1. /\ a \in Apps \ Core /\ p \in Packages /\ versions[a][Version[p]] = p
        /\ Version[p] \in Versions
    BY <1>2 DEF Operation, OpPackage
  <2>2. /\ state'[a] = Recorded(state[a], Version[p])
        /\ \A b \in Apps : b # a => state'[b] = state[b]
    BY <1>1, <1>2, <2>1 DEF DiskOK
  <2>3. active[a] = p
    BY <1>2 DEF Operation, OpActive
  <2>4. Installed(a)' = p /\ \A b \in Apps : b # a => Installed(b)' = Installed(b)
    <3>1. state'[a].current = Version[p]
      BY <2>2 DEF Recorded
    <3>2. Installed(a)' = p
      BY <2>1, <3>1 DEF Installed
    <3>3. \A b \in Apps : b # a => Installed(b)' = Installed(b)
      BY <2>2 DEF Installed
    <3> QED BY <3>2, <3>3
  <2> QED BY <1>1, <1>2, <2>1, <2>3, <2>4 DEF Operation, OpActive
<1>12. OpLeftover("list", None)'
  BY <1>1, <1>2 DEF Operation, OpPackage, OpLeftover, DiskOK
<1> QED BY <1>1, <1>3, <1>4, <1>5, <1>6, <1>7, <1>8, <1>9, <1>10, <1>11, <1>12, MovedInv

\* Nothing of an activation exists yet.
LEMMA FailEarlyStep ==
  ASSUME StoreInv, NEW h \in Handlers, FailEarly(h) PROVE StoreInv'
<1> USE DEF FailEarly
<1>1. PICK pc, a, p : pc = req[h].pc /\ a = req[h].app /\ p = req[h].pkg
  OBVIOUS
<1>2. Operation(pc, a, p) /\ DiskOK /\ ProcessOK
  BY <1>1, Current, DiskTyped, Typed DEF StoreInv
<1>3. req' \in [Handlers -> Reqs] /\ Moved(h, "idle", None, None)
  BY <1>1, ReturnMoves
<1>4. DiskOK' /\ ProcessOK'
  BY <1>1, <1>2 DEF Operation, OpPackage, DiskOK, ProcessOK
<1>5. index' = etag' \/ unsynced'
  <2>1. CASE pc = "status"
    BY <1>1, <2>1
  <2>2. CASE pc # "status"
    BY <1>1, <1>2, <1>3, <2>2, EtagStays DEF ProcessOK
  <2> QED BY <2>1, <2>2
<1>6. VersionInv'
  BY <1>1, <1>2 DEF StoreInv, VersionInv, Operation, OpPackage, DiskOK
<1>7. StateInv' /\ \A b \in Apps : Installed(b)' = Installed(b)
  BY StateStays
<1>8. ApprovedInv'
  BY <1>1, <1>2 DEF StoreInv, ApprovedInv, ActiveIsApproved, Operation, OpPackage, DiskOK
<1>9. CoreInv'
  BY <1>1, <1>2 DEF StoreInv, CoreInv, Operation, OpPackage, DiskOK
<1>10. OpPackage("idle", None, None)'
  BY DEF OpPackage
<1>11. OpActive("idle", None, None)'
  BY <1>1, <1>2, <1>7 DEF Operation, OpPackage, OpActive, DiskOK
<1>12. OpLeftover("idle", None)'
  BY <1>1, <1>2 DEF Operation, OpPackage, OpLeftover, DiskOK
<1> QED BY <1>1, <1>3, <1>4, <1>5, <1>6, <1>7, <1>8, <1>9, <1>10, <1>11, <1>12, MovedInv

\* The old app is moved back, or the app is not recorded; an activation that
\* leaves no app, or a directory, behind was cut short.
LEMMA FailStagingStep ==
  ASSUME StoreInv, NEW h \in Handlers, FailStaging(h) PROVE StoreInv'
<1>1. PICK pc, a, p : pc = req[h].pc /\ a = req[h].app /\ p = req[h].pkg
  OBVIOUS
<1>2. Operation(pc, a, p) /\ DiskOK /\ ProcessOK /\ pc \in Staging
  BY <1>1, Current, DiskTyped, Typed DEF StoreInv, FailStaging
<1>3. req' \in [Handlers -> Reqs] /\ Moved(h, "idle", None, None)
  BY <1>1, ReturnMoves DEF FailStaging
<1>4. a \in Apps /\ a \notin Core /\ life \in Lives
  BY <1>2 DEF Operation, OpPackage, DiskOK
<1>5. /\ UNCHANGED <<index, etag, unsynced, versions, state, approved, approvals, life, up, forgotten>>
      /\ temp' = [temp EXCEPT ![a][life] = None] \/ temp' = temp
      /\ \/ pc = "in" /\ active' = [active EXCEPT ![a] = prev[a]] /\ prev' = [prev EXCEPT ![a] = None]
         \/ active' = active /\ prev' = prev
      /\ unrecorded' = unrecorded \cup {b \in {a} : pc = "in" /\ prev'[b] # None}
      /\ cut' = cut \cup {b \in {a} : active'[b] = None \/ temp'[b][life] # None}
  BY <1>1 DEF FailStaging
<1>6. \A b \in Apps : b # a => active'[b] = active[b] /\ prev'[b] = prev[b]
  BY <1>2, <1>4, <1>5 DEF DiskOK
<1>7. (pc = "in" /\ active'[a] = prev[a] /\ prev'[a] = None) \/ (active'[a] = active[a] /\ prev'[a] = prev[a])
  BY <1>2, <1>4, <1>5 DEF DiskOK
<1>8. /\ temp' \in [Apps -> [Lives -> Packages \cup {None, Torn}]]
      /\ \A b \in Apps, n \in Lives : temp'[b][n] = temp[b][n] \/ temp'[b][n] = None
      /\ \A b \in Apps : b # a => \A n \in Lives : temp'[b][n] = temp[b][n]
      /\ \A n \in Lives : n # life => temp'[a][n] = temp[a][n]
  <2>1. temp \in [Apps -> [Lives -> Packages \cup {None, Torn}]]
    BY <1>2 DEF DiskOK
  <2>2. CASE temp' = [temp EXCEPT ![a][life] = None]
    BY <1>4, <2>1, <2>2
  <2>3. CASE temp' = temp
    BY <2>1, <2>3
  <2> QED BY <1>5, <2>2, <2>3
<1>9. /\ unrecorded \subseteq unrecorded' /\ unrecorded' \subseteq Apps /\ cut \subseteq cut' /\ cut' \subseteq Apps
      /\ pc = "in" /\ prev'[a] # None => a \in unrecorded'
      /\ active'[a] = None \/ temp'[a][life] # None => a \in cut'
  BY <1>2, <1>4, <1>5 DEF ProcessOK
<1>10. DiskOK' /\ ProcessOK'
  <2>1. active' \in [Apps -> Packages \cup {None}] /\ prev' \in [Apps -> Packages \cup {None}]
    BY <1>2, <1>4, <1>5 DEF DiskOK
  <2>2. DiskOK'
    BY <1>2, <1>5, <1>8, <2>1 DEF DiskOK
  <2> QED BY <1>2, <1>5, <1>9, <2>2 DEF ProcessOK
<1>11. index' = etag' \/ unsynced'
  BY <1>1, <1>2, <1>3, <1>5, EtagStays
<1>12. VersionInv'
  BY <1>5 DEF StoreInv, VersionInv
<1>13. StateInv' /\ \A b \in Apps : Installed(b)' = Installed(b)
  BY <1>5, StateStays
<1>14. ApprovedInv'
  <2>1. \A b \in Apps : {active'[b], prev'[b]} \subseteq {active[b], prev[b], None}
    BY <1>6, <1>7
  <2>2. \A b \in Apps, n \in Lives : temp'[b][n] = temp[b][n] \/ temp'[b][n] = None
    BY <1>8
  <2>3. approvals' = approvals /\ approved' = approved /\ forgotten' = forgotten
    BY <1>5
  <2> QED BY <2>1, <2>2, <2>3 DEF StoreInv, ApprovedInv, ActiveIsApproved
<1>15. CoreInv'
  <2>1. \A b \in Core : b \in Apps /\ b # a
    BY <1>4
  <2>2. \A b \in Core : active'[b] = active[b] /\ prev'[b] = prev[b] /\ \A n \in Lives : temp'[b][n] = temp[b][n]
    BY <1>6, <1>8, <2>1
  <2> QED BY <2>2 DEF StoreInv, CoreInv
<1>16. OpPackage("idle", None, None)'
  BY DEF OpPackage
<1>17. OpActive("idle", None, None)'
  <2> SUFFICES ASSUME NEW b \in Apps \ unrecorded' PROVE active'[b] = Installed(b)' /\ prev'[b] = None
    BY DEF OpActive
  <2>1. b \in Apps \ unrecorded /\ Installed(b)' = Installed(b)
    BY <1>9, <1>13
  <2>2. /\ active[b] = Installed(b) \/ (b = a /\ pc = "in")
        /\ prev[b] # None => b = a /\ pc = "in"
        /\ pc = "in" /\ b = a => active[a] = None /\ prev[a] = Installed(a)
    BY <1>2, <2>1 DEF Operation, OpActive
  <2>3. CASE b # a
    BY <1>6, <2>1, <2>2, <2>3
  <2>4. CASE b = a
    BY <1>7, <1>9, <2>1, <2>2, <2>4
  <2> QED BY <2>3, <2>4
<1>18. OpLeftover("idle", None)'
  <2> SUFFICES ASSUME NEW b \in Apps \ cut' PROVE prev'[b] = None /\ \A n \in Lives : temp'[b][n] = None
    BY DEF OpLeftover
  <2>1. b \in Apps \ cut
    BY <1>9
  <2>2. /\ prev[b] # None => b = a /\ pc = "in"
        /\ \A n \in Lives : temp[b][n] # None => n = life /\ b = a
        /\ pc = "in" => active[a] = None
    BY <1>2, <2>1 DEF Operation, OpLeftover, OpActive
  <2>3. CASE b # a
    <3>1. prev'[b] = prev[b] /\ \A n \in Lives : temp'[b][n] = temp[b][n]
      BY <1>6, <1>8, <2>3
    <3> QED BY <2>2, <2>3, <3>1
  <2>4. CASE b = a
    BY <1>4, <1>7, <1>8, <1>9, <2>2, <2>4
  <2> QED BY <2>3, <2>4
<1> QED BY <1>1, <1>2, <1>3, <1>5, <1>10, <1>11, <1>12, <1>13, <1>14, <1>15, <1>16, <1>17, <1>18, MovedInv

\* The new app is in place and not recorded.
LEMMA FailLateStep ==
  ASSUME StoreInv, NEW h \in Handlers, FailLate(h) PROVE StoreInv'
<1> USE DEF FailLate
<1>1. PICK pc, a, p : pc = req[h].pc /\ a = req[h].app /\ p = req[h].pkg
  OBVIOUS
<1>2. Operation(pc, a, p) /\ DiskOK /\ ProcessOK
  BY <1>1, Current, DiskTyped, Typed DEF StoreInv
<1>3. req' \in [Handlers -> Reqs] /\ Moved(h, "idle", None, None)
  BY <1>1, ReturnMoves
<1>4. DiskOK' /\ ProcessOK'
  BY <1>1, <1>2 DEF Operation, OpPackage, DiskOK, ProcessOK
<1>5. index' = etag' \/ unsynced'
  BY <1>3, EtagStays
<1>6. VersionInv'
  BY <1>1, <1>2 DEF StoreInv, VersionInv, Operation, OpPackage, DiskOK
<1>7. StateInv' /\ \A b \in Apps : Installed(b)' = Installed(b)
  BY StateStays
<1>8. ApprovedInv'
  BY <1>1, <1>2 DEF StoreInv, ApprovedInv, ActiveIsApproved, Operation, OpPackage, DiskOK
<1>9. CoreInv'
  BY <1>1, <1>2 DEF StoreInv, CoreInv, Operation, OpPackage, DiskOK
<1>10. OpPackage("idle", None, None)'
  BY DEF OpPackage
<1>11. OpActive("idle", None, None)'
  BY <1>1, <1>2, <1>7 DEF Operation, OpPackage, OpActive, DiskOK
<1>12. OpLeftover("idle", None)'
  BY <1>1, <1>2 DEF Operation, OpPackage, OpLeftover, DiskOK
<1> QED BY <1>1, <1>3, <1>4, <1>5, <1>6, <1>7, <1>8, <1>9, <1>10, <1>11, <1>12, MovedInv

\* What the worker forgot and has on file it knows again.
LEMMA WorkerRestartStep == ASSUME StoreInv, WorkerRestart PROVE StoreInv'
<1> USE DEF WorkerRestart
<1>1. TypeOK'
  BY DEF StoreInv, TypeOK
<1>2. Mutex' /\ EtagInv' /\ VersionInv' /\ StateInv' /\ CoreInv'
  BY DEF StoreInv, Mutex, EtagInv, EtagIsHonest, VersionInv, StateInv, RollbackPossible, Valid, CoreInv
<1>3. approvals \cup forgotten = approvals' \cup forgotten'
  OBVIOUS
<1>4. ApprovedInv'
  BY <1>3 DEF StoreInv, ApprovedInv, ActiveIsApproved
<1>5. ASSUME NEW pc, NEW a, NEW p, Operation(pc, a, p) PROVE Operation(pc, a, p)'
  <2>1. OpPackage(pc, a, p)'
    BY <1>3, <1>5 DEF Operation, OpPackage
  <2>2. OpActive(pc, a, p)' /\ OpLeftover(pc, a)'
    BY <1>5 DEF Operation, OpActive, OpLeftover, Installed
  <2> QED BY <2>1, <2>2 DEF Operation
<1>6. (\A h \in Handlers : req[h].pc \in Holding => Operation(req[h].pc, req[h].app, req[h].pkg))'
  <2> SUFFICES ASSUME NEW h \in Handlers, req[h].pc \in Holding
               PROVE  Operation(req[h].pc, req[h].app, req[h].pkg)'
    OBVIOUS
  <2>1. PICK pc, a, p : pc = req[h].pc /\ a = req[h].app /\ p = req[h].pkg
    OBVIOUS
  <2>2. Operation(pc, a, p)'
    BY <1>5, <2>1 DEF StoreInv
  <2>3. pc = req'[h].pc /\ a = req'[h].app /\ p = req'[h].pkg
    BY <2>1
  <2> QED BY <2>2, <2>3
<1>7. (Unlocked => Operation("idle", None, None))'
  BY <1>5 DEF StoreInv, Unlocked
<1> QED BY <1>1, <1>2, <1>4, <1>6, <1>7 DEF StoreInv

\* Every activation in progress was cut short, or is not recorded.
LEMMA StoreCrashStep == ASSUME StoreInv, StoreCrash PROVE StoreInv'
<1> USE DEF StoreCrash
<1>1. \A h \in Handlers : req'[h] = NoReq
  OBVIOUS
<1>2. \A h \in Handlers : req[h].pc \in Working => req[h].app \in Apps
  BY DEF StoreInv, Operation, OpPackage
<1>3. TypeOK'
  <2>1. req' \in [Handlers -> Reqs]
    BY ListingFacts DEF NoReq, Reqs
  <2>2. life' \in Lives
    BY BoundAssumption DEF StoreInv, TypeOK, Lives
  <2>3. unrecorded' \in SUBSET Apps /\ cut' \in SUBSET Apps
    BY <1>2 DEF StoreInv, TypeOK, Dying
  <2>4. DiskOK' /\ ProcessOK'
    BY <2>2, <2>3, Typed DEF StoreInv, DiskOK, ProcessOK
  <2> QED BY <2>1, <2>4, TypedNext
<1>4. Mutex' /\ EtagInv'
  BY <1>1 DEF StoreInv, Mutex, EtagInv, EtagIsHonest, NoReq
<1>5. VersionInv' /\ StateInv' /\ ApprovedInv' /\ CoreInv'
  BY DEF StoreInv, VersionInv, StateInv, RollbackPossible, Valid, ApprovedInv, ActiveIsApproved, CoreInv
<1>6. \A h \in Handlers : req'[h].pc \notin Holding
  BY <1>1 DEF NoReq
<1>7. Operation("idle", None, None)'
  <2>1. OpPackage("idle", None, None)'
    BY DEF OpPackage
  <2>2. CASE Unlocked
    <3>1. Operation("idle", None, None)
      BY <2>2 DEF StoreInv
    <3>2. OpActive("idle", None, None)' /\ OpLeftover("idle", None)'
      BY <3>1 DEF Operation, OpActive, OpLeftover, Installed
    <3> QED BY <2>1, <3>2 DEF Operation
  <2>3. CASE ~Unlocked
    <3>1. PICK h \in Handlers : req[h].pc \in Holding
      BY <2>3 DEF Unlocked
    <3>2. PICK pc, a, p : pc = req[h].pc /\ a = req[h].app /\ p = req[h].pkg
      OBVIOUS
    <3>3. Operation(pc, a, p)
      BY <3>1, <3>2 DEF StoreInv
    <3>4. pc \in {"in"} \cup Late => a \in unrecorded'
      BY <3>2 DEF Dying
    <3>5. pc \in Staging \cup {"clean"} => a \in cut'
      BY <3>2 DEF Dying
    <3>6. OpActive("idle", None, None)'
      BY <3>3, <3>4 DEF Operation, OpActive, Installed
    <3>7. OpLeftover("idle", None)'
      <4> SUFFICES ASSUME NEW b \in Apps \ cut' PROVE prev[b] = None /\ \A n \in Lives : temp[b][n] = None
        BY DEF OpLeftover
      <4>1. b \in Apps \ cut
        OBVIOUS
      <4> QED BY <3>3, <3>5, <4>1 DEF Operation, OpLeftover
    <3> QED BY <2>1, <3>6, <3>7 DEF Operation
  <2> QED BY <2>2, <2>3
<1> QED BY <1>3, <1>4, <1>5, <1>6, <1>7 DEF StoreInv

-----------------------------------------------------------------------------
(* Summaries for the modules that compose the store with others.           *)

LEMMA StoreInvInit == StoreInit => StoreInv
<1> SUFFICES ASSUME StoreInit PROVE StoreInv
  OBVIOUS
<1> USE DEF StoreInit
<1>1. TypeOK
  <2>1. 0 \in Lives /\ 0 \in 0 .. Len(Listing)
    BY BoundAssumption, ListingFacts DEF Lives
  <2>2. versions \in [Apps -> [Versions -> Packages \cup {None, Torn}]]
    OBVIOUS
  <2>3. temp \in [Apps -> [Lives -> Packages \cup {None, Torn}]]
    OBVIOUS
  <2>4. state \in [Apps -> [current : Versions \cup {0}, previous : Versions \cup {0}]]
    OBVIOUS
  <2>5. req \in [Handlers -> Reqs]
    BY <2>1 DEF NoReq, Reqs
  <2> QED BY <2>1, <2>2, <2>3, <2>4, <2>5, Typed DEF DiskOK, ProcessOK
<1>2. \A h \in Handlers : req[h] = NoReq /\ req[h].pc \notin Holding
  BY DEF NoReq
<1>3. Mutex /\ EtagInv /\ VersionInv
  BY <1>2 DEF Mutex, EtagInv, EtagIsHonest, VersionInv
<1>4. StateInv /\ ApprovedInv /\ CoreInv
  BY DEF StateInv, RollbackPossible, ApprovedInv, ActiveIsApproved, CoreInv
<1>5. Operation("idle", None, None)
  BY DEF Operation, OpPackage, OpActive, OpLeftover, Installed
<1> QED BY <1>1, <1>2, <1>3, <1>4, <1>5 DEF StoreInv

\* A step of somebody else, who does not take the mutex.
LEMMA OutsideStep ==
  ASSUME StoreInv, UNCHANGED <<catalogVars, diskVars, workerVars, life, ghostVars>>, req' \in [Handlers -> Reqs],
         \A h \in Handlers : req'[h] = req[h] \/ {req[h].pc, req'[h].pc} \cap Holding = {},
         up' \in BOOLEAN, ~up' => \A h \in Handlers : req'[h] = NoReq
  PROVE  StoreInv'
<1>1. \A h \in Handlers : req'[h].pc \in Holding \/ req[h].pc \in Holding => req'[h] = req[h]
  OBVIOUS
<1>2. TypeOK'
  BY Typed, TypedNext DEF StoreInv, DiskOK, ProcessOK
<1>3. EtagInv'
  BY <1>1 DEF StoreInv, EtagInv, EtagIsHonest
<1> HIDE DEF Holding
<1>4. Mutex'
  BY <1>1 DEF StoreInv, Mutex
<1>5. VersionInv' /\ StateInv' /\ ApprovedInv' /\ CoreInv'
  BY DEF StoreInv, VersionInv, StateInv, RollbackPossible, Valid, ApprovedInv, ActiveIsApproved, CoreInv
<1>6. ASSUME NEW pc, NEW a, NEW p, Operation(pc, a, p) PROVE Operation(pc, a, p)'
  BY <1>6 DEF Operation, OpPackage, OpActive, OpLeftover, Installed
<1>7. (\A h \in Handlers : req[h].pc \in Holding => Operation(req[h].pc, req[h].app, req[h].pkg))'
  <2> SUFFICES ASSUME NEW h \in Handlers, req'[h].pc \in Holding
               PROVE  Operation(req[h].pc, req[h].app, req[h].pkg)'
    OBVIOUS
  <2>1. PICK pc, a, p : pc = req[h].pc /\ a = req[h].app /\ p = req[h].pkg
    OBVIOUS
  <2>2. pc = req'[h].pc /\ a = req'[h].app /\ p = req'[h].pkg
    BY <1>1, <2>1
  <2>3. Operation(pc, a, p)'
    BY <1>6, <2>1, <2>2 DEF StoreInv
  <2> QED BY <2>2, <2>3
<1>8. (Unlocked => Operation("idle", None, None))'
  BY <1>1, <1>6 DEF StoreInv, Unlocked
<1> QED BY <1>2, <1>3, <1>4, <1>5, <1>7, <1>8 DEF StoreInv

\* The invariant after a step of the store.
LEMMA StoreStepInv ==
  ASSUME StoreInv, NEW h \in Handlers, StoreStep(h) \/ ActivateFails(h) PROVE StoreInv'
BY SyncIndexStep, SyncStatusStep, InstallStep, RollbackStep, ApproveStep, ApproveFailsStep, CopyVersionStep,
   CopiedVersionStep, ReuseVersionStep, StageStep, StagedStep, DropPreviousStep, MoveAwayStep, MoveInStep,
   CleanStep, RecordStep, FailEarlyStep, FailStagingStep, FailLateStep DEF StoreStep, ActivateFails

\* A step of the store is one of an operation that holds the mutex or takes it.
LEMMA StoreStepMutex ==
  ASSUME StoreInv, NEW h \in Handlers, StoreStep(h) \/ ActivateFails(h)
  PROVE  /\ \A g \in Handlers : g # h => req'[g] = req[g]
         /\ up' = up /\ life' = life
         /\ req[h].pc \in Holding \/ (req[h].pc = "idle" /\ up)
         /\ req'[h].pc \in Holding \/ (req[h].pc \in Holding /\ req'[h].pc \in {"idle", "list"})
<1>1. CASE \/ \E n \in 1 .. Len(Listing) : SyncIndex(h, n)
           \/ \E a \in Apps : Install(h, a) \/ Rollback(h, a)
  BY <1>1 DEF StoreInv, TypeOK, SyncIndex, Install, Rollback, Idle, Begin
<1>2. CASE SyncStatus(h) \/ ApproveFails(h) \/ FailEarly(h) \/ FailStaging(h) \/ FailLate(h)
  BY <1>2, ReturnMoves DEF Moved, SyncStatus, ApproveFails, FailEarly, FailStaging, FailLate
<1>3. CASE Approve(h) \/ CopyVersion(h) \/ CopiedVersion(h) \/ ReuseVersion(h) \/ Stage(h)
  BY <1>3, GotoMoves DEF Moved, Approve, CopyVersion, CopiedVersion, ReuseVersion, Stage
<1>4. CASE Staged(h) \/ DropPrevious(h) \/ MoveAway(h) \/ MoveIn(h) \/ Clean(h)
  BY <1>4, GotoMoves DEF Moved, Staged, DropPrevious, MoveAway, MoveIn, Clean
<1>5. CASE Record(h)
  BY <1>5 DEF StoreInv, TypeOK, Record, Begin
<1> QED BY <1>1, <1>2, <1>3, <1>4, <1>5 DEF StoreStep, ActivateFails

\* The installed apps change only during an activation, and an activation that
\* succeeds ends in a rescan.
LEMMA StoreStepDisk ==
  ASSUME StoreInv, NEW h \in Handlers, StoreStep(h)
  PROVE  /\ UNCHANGED <<active, prev, temp>> \/ req'[h].pc \in Staging \cup Late
         /\ req[h].pc \in Staging \cup Late => req'[h].pc \in Staging \cup Late \cup {"list"}
<1>1. CASE (\E n \in 1 .. Len(Listing) : SyncIndex(h, n)) \/ SyncStatus(h)
  BY <1>1 DEF SyncIndex, SyncStatus, Idle
<1>2. CASE \/ \E a \in Apps : Install(h, a) \/ Rollback(h, a)
           \/ Approve(h) \/ ApproveFails(h) \/ CopyVersion(h) \/ CopiedVersion(h) \/ ReuseVersion(h) \/ FailEarly(h)
  BY <1>2 DEF Install, Rollback, Approve, ApproveFails, CopyVersion, CopiedVersion, ReuseVersion, FailEarly, Idle
<1>3. CASE Stage(h) \/ Staged(h) \/ DropPrevious(h) \/ MoveAway(h) \/ MoveIn(h) \/ Clean(h)
  BY <1>3, GotoMoves DEF Moved, Stage, Staged, DropPrevious, MoveAway, MoveIn, Clean
<1>4. CASE Record(h)
  BY <1>4 DEF StoreInv, TypeOK, Record, Begin
<1> QED BY <1>1, <1>2, <1>3, <1>4 DEF StoreStep

\* What the state file names is installed, but for the app that an operation
\* replaces.
LEMMA StoreRecorded == StoreInv => RecordedIsActive
<1> SUFFICES ASSUME StoreInv, NEW b \in Apps \ unrecorded
             PROVE  \/ \E h \in Handlers : req[h].app = b /\ req[h].pc \in {"in"} \cup Late
                    \/ active[b] = Installed(b)
  BY DEF RecordedIsActive, Installed
<1>1. CASE Unlocked
  BY <1>1 DEF StoreInv, Operation, OpActive
<1>2. CASE ~Unlocked
  BY <1>2 DEF StoreInv, Operation, OpActive, Unlocked
<1> QED BY <1>1, <1>2

\* A directory beside an installed one belongs to an operation in progress, or
\* was left behind.
LEMMA StoreLeftover ==
  ASSUME StoreInv, NEW b \in Apps \ cut
  PROVE  /\ prev[b] # None => \E h \in Handlers : req[h].app = b /\ req[h].pc \in {"in", "clean"}
         /\ \A n \in Lives : temp[b][n] # None => \E h \in Handlers : req[h].app = b /\ req[h].pc \in Staging
<1>1. CASE Unlocked
  BY <1>1 DEF StoreInv, Operation, OpLeftover
<1>2. CASE ~Unlocked
  BY <1>2 DEF StoreInv, Operation, OpLeftover, Unlocked
<1> QED BY <1>1, <1>2

\* An app stays present once it is installed: an activation that takes it away
\* brings one back or counts as cut short.
Present(a) ==
  \/ a \in Core \cup cut
  \/ active[a] # None
  \/ \E h \in Handlers : req[h].app = a /\ req[h].pc \in Staging

LEMMA StoreStepPresent ==
  ASSUME StoreInv, NEW h \in Handlers, StoreStep(h) \/ ActivateFails(h), NEW a \in Apps, Present(a)
  PROVE  Present(a)'
<1>1. \A g \in Handlers : g # h => req'[g] = req[g]
  BY StoreStepMutex
<1>2. DiskOK
  BY DiskTyped
<1>3. CASE ~(MoveAway(h) \/ MoveIn(h) \/ FailStaging(h))
  <2>1. UNCHANGED active /\ cut \subseteq cut'
    BY <1>3 DEF StoreStep, ActivateFails, SyncIndex, SyncStatus, Install, Rollback, Approve, ApproveFails,
       CopyVersion, CopiedVersion, ReuseVersion, Stage, Staged, DropPrevious, Clean, Record, FailEarly, FailLate
  <2>2. req[h].pc \in Staging => req'[h].pc \in Staging /\ req'[h].app = req[h].app
    <3>1. CASE Staged(h) \/ DropPrevious(h)
      BY <3>1, GotoMoves DEF Staged, DropPrevious, Moved
    <3>2. CASE ~(Staged(h) \/ DropPrevious(h))
      BY <1>3, <3>2 DEF StoreStep, ActivateFails, SyncIndex, SyncStatus, Install, Rollback, Approve, ApproveFails,
         CopyVersion, CopiedVersion, ReuseVersion, Stage, Clean, Record, FailEarly, FailLate, Idle
    <3> QED BY <3>1, <3>2
  <2> QED BY <1>1, <2>1, <2>2 DEF Present
<1>4. CASE MoveAway(h)
  <2>1. req'[h].pc = "in" /\ req'[h].app = req[h].app
    BY <1>4, GotoMoves DEF MoveAway, Moved
  <2>2. cut' = cut /\ \A b \in Apps : b # req[h].app => active'[b] = active[b]
    BY <1>2, <1>4 DEF MoveAway, DiskOK
  <2> QED BY <1>1, <2>1, <2>2 DEF Present
<1>5. CASE MoveIn(h)
  <2>1. OpPackage("in", req[h].app, req[h].pkg) /\ OpActive("in", req[h].app, req[h].pkg)
    BY <1>5 DEF MoveIn, StoreInv, Operation
  <2>2. active'[req[h].app] # None /\ cut' = cut /\ \A b \in Apps : b # req[h].app => active'[b] = active[b]
    BY <1>2, <1>5, <2>1 DEF MoveIn, DiskOK, OpPackage, OpActive
  <2> QED BY <1>1, <2>2 DEF Present
<1>6. CASE FailStaging(h)
  <2>1. /\ active'[req[h].app] # None \/ req[h].app \in cut'
        /\ cut \subseteq cut' /\ \A b \in Apps : b # req[h].app => active'[b] = active[b]
    BY <1>2, <1>6 DEF FailStaging, DiskOK
  <2> QED BY <1>1, <2>1 DEF Present
<1> QED BY <1>3, <1>4, <1>5, <1>6

LEMMA StoreCrashPresent ==
  ASSUME StoreInv, StoreCrash, NEW a \in Apps, Present(a) PROVE Present(a)'
BY DEF Present, StoreCrash, Dying

HIDE DEF catalogVars, diskVars, workerVars, processVars, ghostVars, Staging, Late, Holding, PCs, Working, Having,
         Approved
=============================================================================
