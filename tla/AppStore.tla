------------------------------ MODULE AppStore ------------------------------
(***************************************************************************)
(* The app store of the controller (internal/appstore/manager.go) with the *)
(* approvals of the worker (internal/dockerworker/approvals.go).           *)
(*                                                                         *)
(* The manager downloads packages, keeps every version it ever installed   *)
(* in a directory of its own, copies one of them into the directory of     *)
(* installed apps and records it in a state file.  Its mutex lets one      *)
(* operation run at a time; but every file operation is a step, the        *)
(* process may die between any two of them, and the directory of installed *)
(* apps is read by others who do not take the mutex (module Registry).     *)
(*                                                                         *)
(* A package stands for its bytes: what is fetched is compared with the    *)
(* digests of the index, so a download is the package the index names or   *)
(* an error that changes nothing.  The manifest of a package has the id of *)
(* its app.                                                                *)
(***************************************************************************)
EXTENDS Naturals, Sequences, FiniteSets

CONSTANTS
  Apps,          \* app ids
  Core,          \* ReservedIDs: the ids of the core apps
  Packages,      \* packages
  Version,       \* the version a package carries
  Listing,       \* what the catalogue lists, revision after revision
  Handlers,      \* request handlers: the bound on concurrent requests
  MaxCrashes,    \* bound on the crashes of the controller
  MaxApprovals   \* the worker's limit of approvals (10000 in the code)

\* No directory, and one that is not complete.
None == "none"
Torn == "torn"

Versions == {Version[p] : p \in Packages}

ASSUME CoreAssumption == Core \subseteq Apps
ASSUME PackageAssumption == None \notin Packages /\ Torn \notin Packages
ASSUME VersionAssumption == Version \in [Packages -> Nat \ {0}]
ASSUME ListingAssumption == Listing \in Seq([Apps -> Packages]) /\ Listing # <<>>
ASSUME BoundAssumption == MaxCrashes \in Nat /\ MaxApprovals \in Nat

VARIABLES
  index,       \* the revision in catalog/index.json, 0: no such file
  etag,        \* the revision whose ETag is in catalog/status.json, 0: none
  unsynced,    \* ghost: a sync failed or died between the two, and none has ended since
  versions,    \* versions/<id>/<version>
  state,       \* state.json
  active,      \* <installed apps>/<id>
  prev,        \* <installed apps>/.previous-<id>
  temp,        \* <installed apps>/.activate-<id>-*; bound: one per life of the process
  approved,    \* the worker's records in memory
  approvals,   \* the worker's records in its file
  req,         \* the requests in progress
  life,        \* how often the controller has died
  up,          \* the controller runs
  unrecorded,  \* ghost: apps replaced or taken away by an operation that failed or died
  cut,         \* ghost: apps whose activation failed or died half-way
  forgotten    \* ghost: packages whose approval a failed renewal took back

catalogVars == <<index, etag, unsynced>>
diskVars == <<versions, state, active, prev, temp>>
workerVars == <<approved, approvals>>
processVars == <<life, up>>
ghostVars == <<unrecorded, cut, forgotten>>
storeVars == <<catalogVars, diskVars, workerVars, req, processVars, ghostVars>>

Lives == 0 .. MaxCrashes

Staging == {"staging", "staged", "away", "in"}
Late == {"clean", "record"}
Holding == {"status", "approve", "reapprove", "keep", "copying", "stage"} \cup Staging \cup Late
PCs == Holding \cup {"idle", "write", "rename", "list", "install"}

NoReq == [pc |-> "idle", app |-> None, pkg |-> None, rev |-> 0]

TypeOK ==
  /\ index \in 0 .. Len(Listing)
  /\ etag \in 0 .. Len(Listing)
  /\ unsynced \in BOOLEAN
  /\ versions \in [Apps -> [Versions -> Packages \cup {None, Torn}]]
  /\ state \in [Apps -> [current : Versions \cup {0}, previous : Versions \cup {0}]]
  /\ active \in [Apps -> Packages \cup {None}]
  /\ prev \in [Apps -> Packages \cup {None}]
  /\ temp \in [Apps -> [Lives -> Packages \cup {None, Torn}]]
  /\ approved \in SUBSET Packages
  /\ approvals \in SUBSET Packages
  /\ req \in [Handlers -> [pc : PCs, app : Apps \cup {None},
                           pkg : Packages \cup {None}, rev : 0 .. Len(Listing)]]
  /\ life \in Lives
  /\ up \in BOOLEAN
  /\ unrecorded \in SUBSET Apps
  /\ cut \in SUBSET Apps
  /\ forgotten \in SUBSET Packages

StoreInit ==
  /\ index = 0
  /\ etag = 0
  /\ unsynced = FALSE
  /\ versions = [a \in Apps |-> [v \in Versions |-> None]]
  /\ state = [a \in Apps |-> [current |-> 0, previous |-> 0]]
  /\ active = [a \in Apps |-> None]
  /\ prev = [a \in Apps |-> None]
  /\ temp = [a \in Apps |-> [n \in Lives |-> None]]
  /\ approved = {}
  /\ approvals = {}
  /\ req = [h \in Handlers |-> NoReq]
  /\ life = 0
  /\ up = FALSE
  /\ unrecorded = {}
  /\ cut = {}
  /\ forgotten = {}

-----------------------------------------------------------------------------
(* Requests and the manager's mutex.                                       *)

\* The mutex is held from the first step of an operation to its last.
Unlocked == \A h \in Handlers : req[h].pc \notin Holding

Idle(h) == up /\ req[h].pc = "idle"

Goto(h, pc) == req' = [req EXCEPT ![h].pc = pc]

Begin(h, pc, a, p, n) ==
  req' = [req EXCEPT ![h] = [pc |-> pc, app |-> a, pkg |-> p, rev |-> n]]

Return(h) == req' = [req EXCEPT ![h] = NoReq]

-----------------------------------------------------------------------------
(* The catalogue.                                                          *)

\* Mutant: syncs do not exclude each other.
SyncIndex_Unlocked(h, n) ==
  /\ Idle(h)
  /\ n # etag
  /\ index' = n
  /\ Begin(h, "status", None, None, n)
  /\ UNCHANGED <<etag, unsynced, diskVars, workerVars, processVars, ghostVars>>

\* Sync, up to the new index: the answer was 200 with a valid index, of any
\* revision but the one the ETag names.  A request that fails, and the answer
\* 304 to that ETag, change nothing but the status shown.
SyncIndex(h, n) ==
  /\ Idle(h)
  /\ Unlocked
  /\ n # etag
  /\ index' = n
  /\ Begin(h, "status", None, None, n)
  /\ UNCHANGED <<etag, unsynced, diskVars, workerVars, processVars, ghostVars>>

\* The status with the ETag of that answer.
SyncStatus(h) ==
  /\ req[h].pc = "status"
  /\ etag' = req[h].rev
  /\ unsynced' = FALSE
  /\ Return(h)
  /\ UNCHANGED <<index, diskVars, workerVars, processVars, ghostVars>>

-----------------------------------------------------------------------------
(* Install and Rollback.                                                   *)

\* DecodeIndex lists an id once; findEntry gives the package it is listed with.
Listed(a) == Listing[index][a]

\* manifests.Load with Validate: a directory that was copied completely is a
\* valid package, one that was not is none.
Valid(d) == d \in Packages

\* Mutant: the ids of core apps are not reserved.
Install_Core(h, a) ==
  /\ Idle(h)
  /\ Unlocked
  /\ index # 0
  /\ Begin(h, "approve", a, Listed(a), 0)
  /\ UNCHANGED <<catalogVars, diskVars, workerVars, processVars, ghostVars>>

\* Install, up to the approval: the cached index names the package, and the
\* server still has it; otherwise a digest does not match and nothing changes.
Install(h, a) ==
  /\ Idle(h)
  /\ Unlocked
  /\ index # 0
  /\ a \notin Core
  /\ Begin(h, "approve", a, Listed(a), 0)
  /\ UNCHANGED <<catalogVars, diskVars, workerVars, processVars, ghostVars>>

\* Rollback, up to the approval: the previous version must load.
Rollback(h, a) ==
  /\ Idle(h)
  /\ Unlocked
  /\ state[a].previous # 0
  /\ Valid(versions[a][state[a].previous])
  /\ Begin(h, "reapprove", a, versions[a][state[a].previous], 0)
  /\ UNCHANGED <<catalogVars, diskVars, workerVars, processVars, ghostVars>>

\* The worker has room for an approval of p.
Room(p) == p \in approved \/ Cardinality(approved) < MaxApprovals

\* Mutant: the approval is kept in memory only.
Approve_NotPersisted(h) ==
  /\ req[h].pc \in {"approve", "reapprove"}
  /\ Room(req[h].pkg)
  /\ approved' = approved \cup {req[h].pkg}
  /\ forgotten' = forgotten \ {req[h].pkg}
  /\ Goto(h, IF req[h].pc = "approve" THEN "keep" ELSE "stage")
  /\ UNCHANGED <<catalogVars, diskVars, approvals, processVars, unrecorded, cut>>

\* approve: in memory, then in the file.
Approve(h) ==
  /\ req[h].pc \in {"approve", "reapprove"}
  /\ Room(req[h].pkg)
  /\ approved' = approved \cup {req[h].pkg}
  /\ approvals' = approved'
  /\ forgotten' = forgotten \ {req[h].pkg}
  /\ Goto(h, IF req[h].pc = "approve" THEN "keep" ELSE "stage")
  /\ UNCHANGED <<catalogVars, diskVars, processVars, unrecorded, cut>>

\* approve, when the file cannot be written: the record leaves the memory,
\* an earlier one of the same package included.
ApproveFails(h) ==
  /\ req[h].pc \in {"approve", "reapprove"}
  /\ Room(req[h].pkg)
  /\ approved' = approved \ {req[h].pkg}
  /\ forgotten' = forgotten \cup ({req[h].pkg} \cap approved)
  /\ Return(h)
  /\ UNCHANGED <<catalogVars, diskVars, approvals, processVars, unrecorded, cut>>

\* The worker dies and reads its file again.
WorkerRestart ==
  /\ approved' = approvals
  /\ forgotten' = forgotten \ approvals
  /\ UNCHANGED <<catalogVars, diskVars, approvals, req, processVars, unrecorded, cut>>

Kept(h) == versions[req[h].app][Version[req[h].pkg]]

\* inspectPayload finds the same files in the kept version.
SamePayload(h) == Kept(h) = req[h].pkg

\* The version is not there yet: its directory is made, then filled.
CopyVersion(h) ==
  /\ req[h].pc = "keep"
  /\ Kept(h) = None
  /\ versions' = [versions EXCEPT ![req[h].app][Version[req[h].pkg]] = Torn]
  /\ Goto(h, "copying")
  /\ UNCHANGED <<catalogVars, state, active, prev, temp, workerVars, processVars, ghostVars>>

CopiedVersion(h) ==
  /\ req[h].pc = "copying"
  /\ versions' = [versions EXCEPT ![req[h].app][Version[req[h].pkg]] = req[h].pkg]
  /\ Goto(h, "stage")
  /\ UNCHANGED <<catalogVars, state, active, prev, temp, workerVars, processVars, ghostVars>>

\* Mutant: a version directory that exists is trusted.
ReuseVersion_Unchecked(h) ==
  /\ req[h].pc = "keep"
  /\ Kept(h) # None
  /\ Goto(h, "stage")
  /\ UNCHANGED <<catalogVars, diskVars, workerVars, processVars, ghostVars>>

\* The version is there: it is used when it holds the same package, and is a
\* conflict otherwise.
ReuseVersion(h) ==
  /\ req[h].pc = "keep"
  /\ SamePayload(h)
  /\ Goto(h, "stage")
  /\ UNCHANGED <<catalogVars, diskVars, workerVars, processVars, ghostVars>>

\* activate: a directory with a new name, made when its app.yaml is written
\* (a directory without one is no app to anybody), then filled ...
Stage(h) ==
  /\ req[h].pc = "stage"
  /\ temp[req[h].app][life] = None
  /\ temp' = [temp EXCEPT ![req[h].app][life] = Torn]
  /\ Goto(h, "staging")
  /\ UNCHANGED <<catalogVars, versions, state, active, prev, workerVars, processVars, ghostVars>>

Staged(h) ==
  /\ req[h].pc = "staging"
  /\ temp' = [temp EXCEPT ![req[h].app][life] = Kept(h)]
  /\ Goto(h, "staged")
  /\ UNCHANGED <<catalogVars, versions, state, active, prev, workerVars, processVars, ghostVars>>

\* ... the leftover of an earlier activation dropped, an error ignored ...
DropPrevious(h) ==
  /\ req[h].pc = "staged"
  /\ prev' = [prev EXCEPT ![req[h].app] = None] \/ UNCHANGED prev
  /\ Goto(h, "away")
  /\ UNCHANGED <<catalogVars, versions, state, active, temp, workerVars, processVars, ghostVars>>

\* ... the installed app, if there is one, moved away: not onto a leftover ...
MoveAway(h) ==
  /\ req[h].pc = "away"
  /\ LET a == req[h].app IN
     IF active[a] = None
     THEN UNCHANGED <<active, prev>>
     ELSE /\ prev[a] = None
          /\ prev' = [prev EXCEPT ![a] = active[a]]
          /\ active' = [active EXCEPT ![a] = None]
  /\ Goto(h, "in")
  /\ UNCHANGED <<catalogVars, versions, state, temp, workerVars, processVars, ghostVars>>

\* ... the new one moved in ...
MoveIn(h) ==
  /\ req[h].pc = "in"
  /\ active' = [active EXCEPT ![req[h].app] = temp[req[h].app][life]]
  /\ temp' = [temp EXCEPT ![req[h].app][life] = None]
  /\ Goto(h, "clean")
  /\ UNCHANGED <<catalogVars, versions, state, prev, workerVars, processVars, ghostVars>>

\* ... and the old one removed.
Clean(h) ==
  /\ req[h].pc = "clean"
  /\ prev' = [prev EXCEPT ![req[h].app] = None]
  /\ Goto(h, "record")
  /\ UNCHANGED <<catalogVars, versions, state, active, temp, workerVars, processVars, ghostVars>>

\* Mutant: installing the current version again makes it its own predecessor.
Recorded_Always(old, v) ==
  [current |-> v, previous |-> IF old.current # 0 THEN old.current ELSE old.previous]

\* The record of a version that replaces the one recorded so far.  A rollback
\* is the case in which the new version is the previous one.
Recorded(old, v) ==
  [current |-> v, previous |-> IF old.current \notin {0, v} THEN old.current ELSE old.previous]

\* Mutant: the state is set in memory and never written.
Record_Unwritten(h) ==
  /\ req[h].pc = "record"
  /\ unrecorded' = unrecorded \ {req[h].app}
  /\ Begin(h, "list", None, None, 0)
  /\ UNCHANGED <<catalogVars, diskVars, workerVars, processVars, cut, forgotten>>

\* Mutant: the handler answers without a rescan.
Record_NoRescan(h) ==
  /\ req[h].pc = "record"
  /\ state' = [state EXCEPT ![req[h].app] = Recorded(@, Version[req[h].pkg])]
  /\ unrecorded' = unrecorded \ {req[h].app}
  /\ Return(h)
  /\ UNCHANGED <<catalogVars, versions, active, prev, temp, workerVars, processVars, cut, forgotten>>

\* writeState; the handler goes on with a rescan.
Record(h) ==
  /\ req[h].pc = "record"
  /\ state' = [state EXCEPT ![req[h].app] = Recorded(@, Version[req[h].pkg])]
  /\ unrecorded' = unrecorded \ {req[h].app}
  /\ Begin(h, "list", None, None, 0)
  /\ UNCHANGED <<catalogVars, versions, active, prev, temp, workerVars, processVars, cut, forgotten>>

-----------------------------------------------------------------------------
(* Errors: the operation returns, and the handler does not rescan.         *)

\* A refused or unanswered approval, a conflict, a file that cannot be
\* written: nothing is undone, a half copied version stays.
FailEarly(h) ==
  /\ req[h].pc \in {"status", "approve", "reapprove", "keep", "copying", "stage"}
  /\ unsynced' = (unsynced \/ req[h].pc = "status")
  /\ Return(h)
  /\ UNCHANGED <<index, etag, diskVars, workerVars, processVars, ghostVars>>

\* A failed second rename moves the old app back, and the deferred removal
\* takes the new directory away; the error of either is ignored.
FailStaging(h) ==
  /\ req[h].pc \in Staging
  /\ LET a == req[h].app IN
     /\ temp' = [temp EXCEPT ![a][life] = None] \/ UNCHANGED temp
     /\ \/ /\ req[h].pc = "in" /\ prev[a] # None
           /\ active' = [active EXCEPT ![a] = prev[a]]
           /\ prev' = [prev EXCEPT ![a] = None]
        \/ UNCHANGED <<active, prev>>
     /\ unrecorded' = unrecorded \cup {b \in {a} : req[h].pc = "in" /\ prev'[b] # None}
     /\ cut' = cut \cup {b \in {a} : active'[b] = None \/ temp'[b][life] # None}
  /\ Return(h)
  /\ UNCHANGED <<catalogVars, versions, state, workerVars, processVars, forgotten>>

\* The new app is in place: the removal of the old one, or the state file,
\* fails.
FailLate(h) ==
  /\ req[h].pc \in Late
  /\ unrecorded' = unrecorded \cup {req[h].app}
  /\ cut' = IF req[h].pc = "clean" THEN cut \cup {req[h].app} ELSE cut
  /\ Return(h)
  /\ UNCHANGED <<catalogVars, diskVars, workerVars, processVars, forgotten>>

\* What the death of the process does to the store.
Dying(pcs) == {req[h].app : h \in {g \in Handlers : req[g].pc \in pcs}}

StoreCrash ==
  /\ up
  /\ life < MaxCrashes
  /\ life' = life + 1
  /\ up' = FALSE
  /\ req' = [h \in Handlers |-> NoReq]
  /\ unrecorded' = unrecorded \cup Dying({"in"} \cup Late)
  /\ cut' = cut \cup Dying(Staging \cup {"clean"})
  /\ unsynced' = (unsynced \/ \E h \in Handlers : req[h].pc = "status")
  /\ UNCHANGED <<index, etag, diskVars, workerVars, forgotten>>

StoreStep(h) ==
  \/ (\E n \in 1 .. Len(Listing) : SyncIndex(h, n)) \/ SyncStatus(h)
  \/ \E a \in Apps : Install(h, a) \/ Rollback(h, a)
  \/ Approve(h) \/ ApproveFails(h)
  \/ CopyVersion(h) \/ CopiedVersion(h) \/ ReuseVersion(h)
  \/ Stage(h) \/ Staged(h) \/ DropPrevious(h) \/ MoveAway(h) \/ MoveIn(h) \/ Clean(h) \/ Record(h)
  \/ FailEarly(h)

ActivateFails(h) == FailStaging(h) \/ FailLate(h)

-----------------------------------------------------------------------------
(* Properties.                                                             *)

\* The ETag in the status file is that of the cached index, so the answer 304
\* means that the cached index is current: whichever way the catalogue moves,
\* unless a sync is or was cut short between the two files and none has ended
\* since.
EtagIsHonest ==
  index = etag \/ unsynced \/ \E h \in Handlers : req[h].pc = "status"

\* The version a rollback would activate is kept, complete, and not the
\* current one: through failed copies, conflicts, crashes and republished
\* versions.
RollbackPossible ==
  \A a \in Apps : state[a].previous # 0 =>
    /\ Valid(versions[a][state[a].previous])
    /\ state[a].previous # state[a].current

\* What the state file says is installed is what is in the directory of
\* installed apps, except while an operation replaces it, and after one that
\* failed or died between the two (activate is not undone then) or whose undoing
\* failed.  An operation that is recorded ends the exception.
RecordedIsActive ==
  \A a \in Apps \ unrecorded :
    \/ \E h \in Handlers : req[h].app = a /\ req[h].pc \in {"in"} \cup Late
    \/ active[a] = IF state[a].current = 0 THEN None ELSE versions[a][state[a].current]

\* No package gets into the directory of installed apps that the worker has
\* not approved for good: the approval is in the worker's file and survives
\* its restart.  Only a renewal whose file write failed takes an approval
\* back, and the next approval of anything else makes that permanent.
ActiveIsApproved ==
  \A a \in Apps : {active[a], prev[a]} \cup {temp[a][n] : n \in Lives}
    \subseteq approvals \cup forgotten \cup {None, Torn}
=============================================================================
