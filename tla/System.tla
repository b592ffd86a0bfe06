------------------------------- MODULE System -------------------------------
(***************************************************************************)
(* Controller and worker together: Lifecycle with its open worker replaced *)
(* by DockerWorker.  A goroutine's call runs in the worker as a script of  *)
(* Docker requests; the call outlives a goroutine that was killed, timed   *)
(* out or lost its connection, until the worker notices.  Reconciliation   *)
(* sees what the engine holds.                                             *)
(*                                                                         *)
(* The requests, the goroutines cut short, the containers that stop by     *)
(* themselves and the reconciliations of a behaviour are bounded.  What    *)
(* users do in the containers is left to DockerWorker.                     *)
(***************************************************************************)
EXTENDS Lifecycle, Naturals

CONSTANTS
  Apps, Owned, Probed, Seeding,   \* as in DockerWorker
  MaxRequests,                    \* bound: accepted requests
  MaxFaults,                      \* bound: crashes, deadlines, database errors, fallen containers
  MaxReconciles                   \* bound: reconciliations

VARIABLES res, seeded, edited, call, overlapped, fallen, spent

Worker == INSTANCE DockerWorker WITH Calls <- Jobs

workerVars == <<res, seeded, edited, call, overlapped, fallen>>
sysVars == <<vars, workerVars, spent>>

ASSUME OneWorkstation == \E w \in Workstations : Workstations = {w}
ASSUME AppsAssumption == Owned \subseteq Apps /\ Probed \subseteq Apps /\ "-" \notin Apps
ASSUME SeedingAssumption == Seeding \in BOOLEAN

SysInit ==
  /\ Init
  /\ Worker!Init
  /\ spent = [requests |-> 0, faults |-> 0, reconciles |-> 0]

Spend(what, max) == spent[what] < max /\ spent' = [spent EXCEPT ![what] = @ + 1]

\* The path of the worker's API that each goroutine calls.
Op(kind) ==
  CASE kind = "update" -> "rebuild" [] OTHER -> kind

\* Reconcile looks for a managed container of each workstation.
Seen == IF \E c \in Worker!Containers : Worker!Listed(c) THEN Workstations ELSE {}

\* A slot is free when its goroutine and the call of it have both ended.
SysRequest ==
  /\ \E w \in Workstations, j \in Jobs :
       /\ ~Worker!Active(j)
       /\ Create(w, j) \/ \E action \in Actions : BeginAction(w, action, j)
  /\ Spend("requests", MaxRequests)
  /\ UNCHANGED workerVars

\* The call reaches the worker.
SysCall(j) ==
  /\ CallWorker(j)
  /\ Worker!Accept(j, Op(job[j].kind))
  /\ UNCHANGED spent

SysAnswer(j) ==
  /\ WorkerReplies(j, TRUE)
  /\ Worker!Answer(j)
  /\ UNCHANGED spent

\* The worker answers with an error, or the client gives up on it.
SysError(j) ==
  /\ WorkerReplies(j, FALSE)
  /\ Worker!GiveUp(j) \/ UNCHANGED workerVars
  /\ UNCHANGED spent

\* A call nobody waits for comes to its end, or the worker notices.
SysOrphan(j) ==
  /\ job[j].pc # "wait"
  /\ Worker!GiveUp(j)
  /\ UNCHANGED <<vars, spent>>

SysServe(j) == Worker!Serve(j) /\ UNCHANGED <<vars, spent>>

\* What happens in the containers without the worker.
SysContainers ==
  /\ \E c \in Worker!Containers :
       \/ Worker!JobEnds(c) /\ UNCHANGED spent
       \/ Worker!Falls(c) /\ Spend("faults", MaxFaults)
  /\ UNCHANGED vars

\* Everything in the controller that does not involve the worker.
SysController ==
  /\ \/ \E j \in Jobs : Run(j) \/ PrepareFails(j)
     \/ ReconcileRead
     \/ \E w \in Workstations : ReconcileMark(w)
     \/ ReconcileEnd
     \/ Start
  /\ UNCHANGED <<workerVars, spent>>

SysReconcile ==
  /\ ReconcileList(Seen)
  /\ Spend("reconciles", MaxReconciles)
  /\ UNCHANGED workerVars

SysCut ==
  /\ Crash \/ \E j \in Jobs : Expire(j) \/ ErrorUnsaved(j)
  /\ Spend("faults", MaxFaults)
  /\ UNCHANGED workerVars

SysNext ==
  \/ SysRequest
  \/ \E j \in Jobs : SysCall(j) \/ SysAnswer(j) \/ SysError(j) \/ SysOrphan(j) \/ SysServe(j)
  \/ SysContainers
  \/ SysController
  \/ SysReconcile
  \/ SysCut

SysSpec == SysInit /\ [][SysNext]_sysVars
-----------------------------------------------------------------------------
(* Properties.                                                             *)

\* A workstation whose containers all exist and that is shown as ready has all
\* of them running, whatever failed, fell, was cut short or was declared lost
\* before, unless goroutines of the workstation or their calls overlapped, or a
\* container fell after the worker was last called.
ReadyRuns ==
  \A w \in Workstations \ raced :
    /\ row[w] = "ready" /\ ~overlapped /\ ~fallen
    /\ \A c \in Worker!Longlived : Worker!Exists(c)
    => Worker!Serving

\* A workstation shown as deleted has left nothing behind, unless goroutines of
\* the workstation or their calls overlapped.
DeletedIsGone ==
  \A w \in Workstations \ raced :
    row[w] = "deleted" /\ ~overlapped => \A r \in Worker!Resources : ~Worker!Exists(r)

\* docs/architecture.md: "The controller only marks the workstation ready after
\* the worker has observed gateway and app health through WSLAN."
ReadyWasObserved ==
  \A w \in Workstations \ raced :
    row[w] = "ready" /\ ~overlapped /\ ~fallen => Worker!Serving
=============================================================================
