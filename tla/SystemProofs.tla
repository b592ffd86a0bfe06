---------------------------- MODULE SystemProofs ----------------------------
(***************************************************************************)
(* The composed system is a lifecycle: with the worker of DockerWorker in  *)
(* the place of the open one, the controller does nothing that Lifecycle   *)
(* does not allow, so the theorems of LifecycleProofs hold of the system.  *)
(*                                                                         *)
(* It is a worker too: every step is a step of DockerWorker or none, so    *)
(* the invariant of DockerWorkerProofs holds of it.  Both together show    *)
(* that the rows "ready" and "deleted" are true of what Docker holds, for  *)
(* one workstation, any apps and any number of goroutines.                 *)
(***************************************************************************)
EXTENDS System, LifecycleProofs

\* A step of the system is a step of the lifecycle or changes nothing of it.
LEMMA SysStepIsLifecycleStep == [SysNext]_sysVars => [Next]_vars
<1>1. ASSUME SysRequest PROVE Next
  BY <1>1 DEF SysRequest, Next, Request
<1>2. ASSUME NEW j \in Jobs, SysCall(j) PROVE Next
  BY <1>2 DEF SysCall, Next, Call
<1>3. ASSUME NEW j \in Jobs, SysAnswer(j) \/ SysError(j) PROVE Next
  <2>1. \E ok \in BOOLEAN : WorkerReplies(j, ok)
    BY <1>3 DEF SysAnswer, SysError
  <2> QED
    BY <2>1 DEF Next, Call
<1>4. ASSUME NEW j \in Jobs, SysOrphan(j) \/ SysServe(j) PROVE UNCHANGED vars
  BY <1>4 DEF SysOrphan, SysServe
<1>5. ASSUME SysContainers PROVE UNCHANGED vars
  BY <1>5 DEF SysContainers
<1>6. ASSUME SysController PROVE Next
  BY <1>6 DEF SysController, Next, Call, Reconcile
<1>7. ASSUME SysReconcile PROVE Next
  <2>1. Seen \in SUBSET Workstations
    BY DEF Seen
  <2>2. ReconcileList(Seen)
    BY <1>7 DEF SysReconcile
  <2> QED
    BY <2>1, <2>2 DEF Next, Reconcile
<1>8. ASSUME SysCut PROVE Next
  BY <1>8 DEF SysCut, Next
<1>9. ASSUME UNCHANGED sysVars PROVE UNCHANGED vars
  BY <1>9 DEF sysVars
<1> QED
  BY <1>1, <1>2, <1>3, <1>4, <1>5, <1>6, <1>7, <1>8, <1>9 DEF SysNext

\* The system implements Lifecycle: closing the worker adds no behaviour to the
\* controller.
THEOREM SystemIsLifecycle == SysSpec => Spec
<1>1. SysInit => Init
  BY DEF SysInit
<1> QED
  BY <1>1, SysStepIsLifecycleStep, PTL DEF SysSpec, Spec

\* In the composed system too, rows only move as WorkstationRow allows, no race
\* abandons a transient row, and the app states follow the row.
THEOREM SystemKeepsLifecycle ==
  SysSpec => RowSpec /\ []TransientIsTended /\ []AppsFollowRow
  BY SystemIsLifecycle, RowRefinement, Tended, AppsAgree, PTL

-----------------------------------------------------------------------------
(* The worker of the system is the one that DockerWorkerProofs is about.   *)

WP == INSTANCE DockerWorkerProofs WITH Calls <- Jobs

\* The same resources.
LEMMA SameSets ==
  /\ Worker!Longlived = WP!Longlived /\ Worker!Oneshot = WP!Oneshot
  /\ Worker!Containers = WP!Containers /\ Worker!Resources = WP!Resources
  BY Zenon DEF Worker!Network, WP!Network, Worker!Workspace, WP!Workspace, Worker!OfKind,
     WP!OfKind, Worker!Longlived, WP!Longlived, Worker!Oneshot, WP!Oneshot,
     Worker!Containers, WP!Containers, Worker!Volumes, WP!Volumes, Worker!Resources,
     WP!Resources

\* The same view of the engine and of the calls.
LEMMA SameState ==
  /\ \A r : Worker!Exists(r) <=> WP!Exists(r)
  /\ \A j : Worker!Active(j) <=> WP!Active(j)
  /\ Worker!Serving <=> WP!Serving
  BY Zenon DEF Worker!Gateway, WP!Gateway, Worker!Network, WP!Network, Worker!Sandbox,
     WP!Sandbox, Worker!App, WP!App, Worker!Exists, WP!Exists, Worker!Running, WP!Running,
     Worker!Active, WP!Active, Worker!Serving, WP!Serving

\* The same initial states.
LEMMA SameInit == Worker!Init <=> WP!Init
  BY Zenon DEF Worker!Network, WP!Network, Worker!Workspace, WP!Workspace, Worker!OfKind,
     WP!OfKind, Worker!Longlived, WP!Longlived, Worker!Oneshot, WP!Oneshot,
     Worker!Containers, WP!Containers, Worker!Volumes, WP!Volumes, Worker!Resources,
     WP!Resources, Worker!Init, WP!Init, Worker!NoCall, WP!NoCall

\* The same scripts, and the same position in them.
LEMMA SameScripts ==
  /\ \A j : Worker!Steps(j) = WP!Steps(j) /\ (Worker!AtEnd(j) <=> WP!AtEnd(j))
  /\ \A j : Worker!Step(j) = WP!Step(j)
<1>1. Worker!Script = WP!Script
  BY Zenon DEF Worker!Network, WP!Network, Worker!Workspace, WP!Workspace, Worker!OfKind,
     WP!OfKind, Worker!Longlived, WP!Longlived, Worker!Oneshot, WP!Oneshot,
     Worker!Containers, WP!Containers, Worker!Volumes, WP!Volumes, Worker!Resources,
     WP!Resources, Worker!Gateway, WP!Gateway, Worker!Seed, WP!Seed, Worker!Script,
     WP!Script, Worker!Ops, WP!Ops, Worker!Pull, WP!Pull, Worker!List, WP!List, Worker!Each,
     WP!Each, Worker!One, WP!One, Worker!RunJob, WP!RunJob, Worker!DeleteListed,
     WP!DeleteListed, Worker!createBase, WP!createBase, Worker!seedWorkspace,
     WP!seedWorkspace, Worker!startEach, WP!startEach, Worker!restartAll, WP!restartAll,
     Worker!RemoveWorkstation, WP!RemoveWorkstation
<1>2. Worker!createApp = WP!createApp
  BY Zenon DEF Worker!createApp, WP!createApp, Worker!One, WP!One, Worker!RunJob, WP!RunJob,
     Worker!Sandbox, WP!Sandbox, Worker!Init_, WP!Init_, Worker!App, WP!App, Worker!Volume,
     WP!Volume
<1>3. \A j : Worker!Steps(j) = WP!Steps(j)
  BY <1>1, <1>2, Zenon DEF Worker!Steps, WP!Steps
<1>. QED
  BY <1>3, Zenon DEF Worker!AtEnd, WP!AtEnd, Worker!Step, WP!Step

\* The same resources to visit next.
LEMMA SamePlaces ==
  /\ \A j : Worker!Pending(j) = WP!Pending(j)
  /\ \A j : Worker!Targets(j) = WP!Targets(j) /\ Worker!Asked(j) = WP!Asked(j)
<1>1. \A j : Worker!Pending(j) = WP!Pending(j)
  BY SameScripts, Zenon DEF Worker!Pending, WP!Pending
<1>2. \A r : Worker!resourceRank(r) = WP!resourceRank(r)
  BY Zenon DEF Worker!resourceRank, WP!resourceRank
<1>3. \A j : Worker!Eligible(j) = WP!Eligible(j)
  BY <1>1, <1>2, SameScripts DEF Worker!Eligible, WP!Eligible
<1>4. \A j : Worker!Targets(j) = WP!Targets(j)
  BY <1>3, Zenon DEF Worker!Targets, WP!Targets
<1>5. \A j : Worker!Asked(j) = WP!Asked(j)
  BY SameScripts, Zenon DEF Worker!Asked, WP!Asked
<1>. QED
  BY <1>1, <1>4, <1>5

\* The same answers and effects of the engine.
LEMMA SameEngine ==
  /\ \A do, r : Worker!Permitted(do, r) <=> WP!Permitted(do, r)
  /\ \A do, r : Worker!Request(do, r) <=> WP!Request(do, r)
<1>1. \A do, r : Worker!Permitted(do, r) <=> WP!Permitted(do, r)
  BY Zenon DEF Worker!Network, WP!Network, Worker!Workspace, WP!Workspace, Worker!OfKind,
     WP!OfKind, Worker!Longlived, WP!Longlived, Worker!Oneshot, WP!Oneshot,
     Worker!Containers, WP!Containers, Worker!Volumes, WP!Volumes, Worker!Resources,
     WP!Resources, Worker!Gateway, WP!Gateway, Worker!Sandbox, WP!Sandbox, Worker!Volume,
     WP!Volume, Worker!Exists, WP!Exists, Worker!Running, WP!Running, Worker!Listed,
     WP!Listed, Worker!Mounts, WP!Mounts, Worker!Startable, WP!Startable, Worker!Healthy,
     WP!Healthy, Worker!Permitted, WP!Permitted
<1>2. \A do, r : Worker!Request(do, r) <=> WP!Request(do, r)
  BY Zenon DEF Worker!Network, WP!Network, Worker!Workspace, WP!Workspace, Worker!OfKind,
     WP!OfKind, Worker!Longlived, WP!Longlived, Worker!Oneshot, WP!Oneshot,
     Worker!Containers, WP!Containers, Worker!Volumes, WP!Volumes, Worker!Resources,
     WP!Resources, Worker!Gateway, WP!Gateway, Worker!Sandbox, WP!Sandbox, Worker!Volume,
     WP!Volume, Worker!Exists, WP!Exists, Worker!Running, WP!Running, Worker!Listed,
     WP!Listed, Worker!Mounts, WP!Mounts, Worker!Startable, WP!Startable, Worker!Healthy,
     WP!Healthy, Worker!Becomes, WP!Becomes, Worker!Request, WP!Request
<1>. QED
  BY <1>1, <1>2

\* The same requests to Docker.
LEMMA SameServe == \A j : Worker!Serve(j) <=> WP!Serve(j)
<1>. TAKE j
<1>1. \A r : Worker!Perform(j, r) <=> WP!Perform(j, r)
  BY SameScripts, SamePlaces, SameEngine, Zenon DEF Worker!Perform, WP!Perform,
     Worker!Active, WP!Active, Worker!ghostVars, WP!ghostVars, Worker!Running, WP!Running
<1>2. Worker!ListStep(j) <=> WP!ListStep(j)
  BY SameScripts, Zenon DEF Worker!ListStep, WP!ListStep, Worker!Active, WP!Active,
     Worker!ghostVars, WP!ghostVars, Worker!engineVars, WP!engineVars, Worker!Listed,
     WP!Listed
<1>3. Worker!Skip(j) <=> WP!Skip(j)
  BY SameScripts, SamePlaces, Zenon DEF Worker!Skip, WP!Skip, Worker!Active, WP!Active,
     Worker!ghostVars, WP!ghostVars, Worker!engineVars, WP!engineVars
<1>4. \A a : Worker!NextApp(j, a) <=> WP!NextApp(j, a)
  BY SameScripts, Zenon DEF Worker!NextApp, WP!NextApp, Worker!Active, WP!Active,
     Worker!ghostVars, WP!ghostVars, Worker!engineVars, WP!engineVars
<1>. QED
  BY <1>1, <1>2, <1>3, <1>4, SameSets, Zenon DEF Worker!Serve, WP!Serve

\* The same beginnings and ends of calls, and the same ends of containers.
LEMMA SameCalls ==
  /\ \A j, op : Worker!Accept(j, op) <=> WP!Accept(j, op)
  /\ \A j : Worker!Answer(j) <=> WP!Answer(j)
  /\ \A j : Worker!GiveUp(j) <=> WP!GiveUp(j)
  /\ \A c : Worker!JobEnds(c) <=> WP!JobEnds(c)
  /\ \A c : Worker!Falls(c) <=> WP!Falls(c)
<1>1. \A j, op : Worker!Accept(j, op) <=> WP!Accept(j, op)
  BY Zenon DEF Worker!Accept, WP!Accept, Worker!Active, WP!Active, Worker!engineVars,
     WP!engineVars
<1>2. \A j : Worker!Answer(j) <=> WP!Answer(j)
  BY SameScripts, Zenon DEF Worker!Answer, WP!Answer, Worker!Ended, WP!Ended, Worker!Active,
     WP!Active, Worker!NoCall, WP!NoCall, Worker!engineVars, WP!engineVars,
     Worker!ghostVars, WP!ghostVars
<1>3. \A j : Worker!GiveUp(j) <=> WP!GiveUp(j)
  BY Zenon DEF Worker!GiveUp, WP!GiveUp, Worker!Active, WP!Active, Worker!NoCall, WP!NoCall,
     Worker!engineVars, WP!engineVars, Worker!ghostVars, WP!ghostVars
<1>4. \A c : Worker!JobEnds(c) <=> WP!JobEnds(c)
  BY SameSets, Zenon DEF Worker!JobEnds, WP!JobEnds, Worker!Running, WP!Running,
     Worker!Seed, WP!Seed, Worker!ghostVars, WP!ghostVars
<1>5. \A c : Worker!Falls(c) <=> WP!Falls(c)
  BY SameSets, Zenon DEF Worker!Falls, WP!Falls, Worker!Running, WP!Running
<1>. QED
  BY <1>1, <1>2, <1>3, <1>4, <1>5

-----------------------------------------------------------------------------
(* What the row shows is what the worker left.                             *)

\* A goroutine that waits has the call it sent.
WaitInv ==
  \A j \in Jobs : job[j].pc = "wait" => call[j].op = Op(job[j].kind)

\* Unless they raced, the goroutine that works for a workstation is its only one, and it
\* is gone when the row shows that its work is done.
AloneInv ==
  \A w \in Workstations \ raced :
    /\ \A j, k \in Jobs : Working(j, w) /\ Working(k, w) => j = k
    /\ row[w] \in {"ready", "deleted"} => \A j \in Jobs : ~Working(j, w)

\* After the worker's answer.
Late == {"walk", "apps", "finish"}

\* The worker has answered a goroutine of one of the kinds with success, and nothing has
\* been asked of the workstation since.
Reached(w, kinds, final) ==
  \/ row[w] = final
  \/ \E j \in Jobs : Working(j, w) /\ job[j].kind \in kinds /\ job[j].pc \in Late

IsDeleted(w) == Reached(w, {"delete"}, "deleted")
IsUp(w) == Reached(w, {"provision", "update", "start", "restart"}, "ready")

Quiet == \A j \in Jobs : ~WP!Active(j)
Gone == \A r \in WP!Resources : ~WP!Exists(r)
Up == (\A c \in WP!Longlived : WP!Exists(c)) => WP!Serving \/ fallen

ShownInv ==
  \A w \in Workstations \ raced :
    ~overlapped => /\ IsDeleted(w) => Quiet /\ Gone
                   /\ IsUp(w) => Quiet /\ Up

SysInv == TypeInv /\ WP!FullInv /\ WaitInv /\ AloneInv /\ ShownInv

\* A step of goroutine j, seen from the rows: it stays with its workstation or returns,
\* shows "ready" or "deleted" only as its last move, and does not get past the worker.
StepOf(j) ==
  /\ job[j].pc # "idle" /\ raced' = raced
  /\ \A k \in Jobs : k # j => job'[k] = job[k]
  /\ job'[j].pc = "idle" \/ (job'[j].ws = job[j].ws /\ job'[j].kind = job[j].kind)
  /\ \A w \in Workstations : w # job[j].ws => row'[w] = row[w]
  /\ \/ row'[job[j].ws] = row[job[j].ws]
     \/ row'[job[j].ws] \notin {"ready", "deleted"}
     \/ /\ job[j].pc = "finish" /\ job'[j].pc = "idle"
        /\ row'[job[j].ws] = Final(job[j].kind)

\* Nothing is shown that was not reached.
NothingNew ==
  \A w \in Workstations \ raced' :
    (IsDeleted(w)' => IsDeleted(w)) /\ (IsUp(w)' => IsUp(w))

\* A step of a goroutine leaves the goroutine of a workstation alone with it.
LEMMA StepAlone ==
  ASSUME TypeInv, AloneInv, NEW j \in Jobs, StepOf(j)
  PROVE  AloneInv'
<1>. SUFFICES ASSUME NEW w \in Workstations \ raced PROVE
         /\ \A i, k \in Jobs : Working(i, w)' /\ Working(k, w)' => i = k
         /\ row'[w] \in {"ready", "deleted"} => \A k \in Jobs : ~Working(k, w)'
  BY DEF AloneInv, StepOf
<1>1. \A k \in Jobs : Working(k, w)' => Working(k, w)
  BY DEF Working, StepOf
<1>2. /\ \A i, k \in Jobs : Working(i, w) /\ Working(k, w) => i = k
      /\ row[w] \in {"ready", "deleted"} => \A k \in Jobs : ~Working(k, w)
  BY DEF AloneInv
<1>3. ASSUME row'[w] \in {"ready", "deleted"}, NEW k \in Jobs, Working(k, w)'
      PROVE  FALSE
  <2>1. Working(k, w)
    BY <1>1, <1>3
  <2>2. row'[w] # row[w]
    BY <1>2, <1>3, <2>1
  <2>3. w = job[j].ws /\ job'[j].pc = "idle"
    BY <1>3, <2>2 DEF StepOf
  <2>4. Working(j, w) /\ ~Working(j, w)'
    BY <2>3 DEF Working, StepOf
  <2>. QED BY <1>2, <1>3, <2>1, <2>4
<1>. QED BY <1>1, <1>2, <1>3

\* A step that does not get past the worker shows only what was reached before it.
LEMMA StepNothingNew ==
  ASSUME TypeInv, NEW j \in Jobs, StepOf(j), job'[j].pc \in Late => job[j].pc \in Late
  PROVE  NothingNew
<1>1. ASSUME NEW w \in Workstations, NEW kinds, NEW final \in {"ready", "deleted"},
             Final(job[j].kind) = final /\ job[j].pc = "finish" => job[j].kind \in kinds,
             Reached(w, kinds, final)'
      PROVE  Reached(w, kinds, final)
  <2>1. ASSUME NEW k \in Jobs, Working(k, w)', job'[k].kind \in kinds, job'[k].pc \in Late
        PROVE  Reached(w, kinds, final)
    <3>1. Working(k, w) /\ job[k].kind \in kinds /\ job[k].pc \in Late
      <4>1. CASE k = j
        BY <2>1, <4>1 DEF Working, StepOf, Late
      <4>2. CASE k # j
        BY <2>1, <4>2 DEF Working, StepOf
      <4>. QED BY <4>1, <4>2
    <3>. QED BY <3>1 DEF Reached
  <2>2. ASSUME row'[w] = final, row[w] # final
        PROVE  Reached(w, kinds, final)
    <3>1. w = job[j].ws /\ job[j].pc = "finish" /\ Final(job[j].kind) = final
      BY <2>2 DEF StepOf
    <3>2. Working(j, w) /\ job[j].pc \in Late
      BY <3>1 DEF Working, StepOf, Late
    <3>. QED BY <1>1, <3>1, <3>2 DEF Reached
  <2>. QED BY <1>1, <2>1, <2>2 DEF Reached
<1>2. job[j].kind \in Kinds
  BY DEF StepOf, TypeInv, JobsOK
<1>3. /\ Final(job[j].kind) = "deleted" => job[j].kind \in {"delete"}
      /\ Final(job[j].kind) = "ready" =>
           job[j].kind \in {"provision", "update", "start", "restart"}
  BY <1>2 DEF Final, Kinds, Actions
<1>. QED BY <1>1, <1>3 DEF NothingNew, IsDeleted, IsUp

\* What the moves of a goroutine have in common.
LEMMA MovesAreSteps ==
  ASSUME TypeInv, NEW j \in Jobs,
         Run(j) \/ PrepareFails(j) \/ CallWorker(j) \/ WorkerReplies(j, FALSE) \/ Expire(j)
           \/ ErrorUnsaved(j)
  PROVE  /\ StepOf(j) /\ (job'[j].pc \in Late => job[j].pc \in Late)
         /\ job'[j].pc = "wait" => CallWorker(j)
<1>0. /\ row \in [Workstations -> States \cup {Absent}]
      /\ job \in [Jobs -> JobType]
      /\ JobsOK
  BY DEF TypeInv, TypeOK
<1>. USE <1>0 DEF JobType
<1>n. NoJob.pc = "idle"
  BY DEF NoJob
<1>1. ASSUME ReadRow(j) \/ PrepareFails(j) \/ WorkerReplies(j, FALSE)
      PROVE  /\ job[j].pc # "idle" /\ raced' = raced /\ row' = row
             /\ \A k \in Jobs : k # j => job'[k] = job[k]
             /\ job'[j].ws = job[j].ws /\ job'[j].kind = job[j].kind
             /\ job'[j].pc \in {"pull", "call", "fail"}
  BY <1>1 DEF ReadRow, PrepareFails, WorkerReplies, dbVars, ghostVars
<1>2. ASSUME CallWorker(j)
      PROVE  /\ job[j].pc # "idle" /\ raced' = raced /\ row' = row
             /\ \A k \in Jobs : k # j => job'[k] = job[k]
             /\ job'[j].ws = job[j].ws /\ job'[j].kind = job[j].kind
             /\ job'[j].pc = "wait"
  BY <1>2 DEF CallWorker, dbVars, ghostVars
<1>3. ASSUME SetAppStates(j)
      PROVE  /\ job[j].pc = "apps" /\ raced' = raced /\ row' = row
             /\ \A k \in Jobs : k # j => job'[k] = job[k]
             /\ job'[j].ws = job[j].ws /\ job'[j].kind = job[j].kind
             /\ job'[j].pc = "finish"
  BY <1>3 DEF SetAppStates, ghostVars
<1>4. ASSUME FailApps(j) \/ Expire(j)
      PROVE  /\ job[j].pc # "idle" /\ raced' = raced /\ row' = row
             /\ \A k \in Jobs : k # j => job'[k] = job[k]
             /\ job'[j].pc = "idle"
  BY <1>4, <1>n DEF FailApps, Expire, Return, dbVars, ghostVars
<1>5. ASSUME PullImages(j)
      PROVE  /\ job[j].pc = "pull" /\ raced' = raced
             /\ \A k \in Jobs : k # j => job'[k] = job[k]
             /\ \/ job'[j].pc = "idle"
                \/ job'[j].pc = "call" /\ job'[j].ws = job[j].ws /\ job'[j].kind = job[j].kind
             /\ \A w \in Workstations : w # job[j].ws => row'[w] = row[w]
             /\ row' = row \/ row'[job[j].ws] = "pulling-images"
  BY <1>5, <1>n DEF PullImages, SetRow, Return, ghostVars, JobsOK
<1>6. ASSUME Walk(j)
      PROVE  /\ job[j].pc = "walk" /\ raced' = raced
             /\ \A k \in Jobs : k # j => job'[k] = job[k]
             /\ \/ job'[j].pc = "idle"
                \/ /\ job'[j].pc \in {"apps", "walk"}
                   /\ job'[j].ws = job[j].ws /\ job'[j].kind = job[j].kind
             /\ \A w \in Workstations : w # job[j].ws => row'[w] = row[w]
             /\ row' = row \/ (row'[job[j].ws] = job[j].next /\ job[j].next \in Steps)
  BY <1>6, <1>n DEF Walk, SetRow, Return, ghostVars, JobsOK
<1>7. ASSUME Finish(j)
      PROVE  /\ job[j].pc = "finish" /\ raced' = raced
             /\ \A k \in Jobs : k # j => job'[k] = job[k]
             /\ job'[j].pc = "idle"
             /\ \A w \in Workstations : w # job[j].ws => row'[w] = row[w]
             /\ row' = row \/ row'[job[j].ws] = Final(job[j].kind)
  BY <1>7, <1>n DEF Finish, SetRow, Return, ghostVars, JobsOK
<1>8. ASSUME Fail(j)
      PROVE  /\ job[j].pc = "fail" /\ raced' = raced
             /\ \A k \in Jobs : k # j => job'[k] = job[k]
             /\ \/ job'[j].pc = "idle"
                \/ job'[j].pc = "failapps" /\ job'[j].ws = job[j].ws /\ job'[j].kind = job[j].kind
             /\ \A w \in Workstations : w # job[j].ws => row'[w] = row[w]
             /\ row' = row \/ row'[job[j].ws] = "error"
  BY <1>8, <1>n DEF Fail, SetRow, Return, ghostVars, JobsOK
<1>9. ASSUME ErrorUnsaved(j)
      PROVE  /\ job[j].pc = "fail" /\ raced' = raced /\ row' = row
             /\ \A k \in Jobs : k # j => job'[k] = job[k]
             /\ job'[j].ws = job[j].ws /\ job'[j].kind = job[j].kind
             /\ job'[j].pc = "failapps"
  BY <1>9 DEF ErrorUnsaved, dbVars
<1>10. Steps \cap {"ready", "deleted"} = {}
  BY DEF Steps
<1>. QED
  BY <1>1, <1>2, <1>3, <1>4, <1>5, <1>6, <1>7, <1>8, <1>9, <1>10
     DEF Run, StepOf, Late

\* A request finds or makes the workstation busy.
LEMMA RequestSteps ==
  ASSUME TypeInv, AloneInv, NEW w \in Workstations, NEW j \in Jobs,
         Create(w, j) \/ \E action \in Actions : BeginAction(w, action, j)
  PROVE  /\ AloneInv' /\ NothingNew /\ job'[j].pc = "read"
         /\ \A k \in Jobs : k # j => job'[k] = job[k]
<1>0. /\ row \in [Workstations -> States \cup {Absent}]
      /\ job \in [Jobs -> JobType]
  BY DEF TypeInv, TypeOK
<1>1. PICK kind, to : Spawn(j, kind, w) /\ SetRow(w, to) /\ to \notin {"ready", "deleted"}
  BY DEF Create, BeginAction, Target, Actions
<1>2. /\ job[j].pc = "idle" /\ job'[j].pc = "read" /\ job'[j].ws = w
      /\ \A k \in Jobs : k # j => job'[k] = job[k]
      /\ raced \subseteq raced'
      /\ (\E k \in Jobs : Working(k, w)) => w \in raced'
  BY <1>0, <1>1 DEF Spawn, JobType
<1>3. row'[w] \notin {"ready", "deleted"} /\ \A v \in Workstations : v # w => row'[v] = row[v]
  BY <1>0, <1>1 DEF SetRow
<1>4. \A k \in Jobs, v \in Workstations : k # j => (Working(k, v)' <=> Working(k, v))
  BY <1>2 DEF Working
<1>5. \A v \in Workstations : Working(j, v)' => v = w
  BY <1>2 DEF Working
<1>6. AloneInv'
  <2>. SUFFICES ASSUME NEW v \in Workstations \ raced' PROVE
           /\ \A i, k \in Jobs : Working(i, v)' /\ Working(k, v)' => i = k
           /\ row'[v] \in {"ready", "deleted"} => \A k \in Jobs : ~Working(k, v)'
    BY DEF AloneInv
  <2>1. /\ \A i, k \in Jobs : Working(i, v) /\ Working(k, v) => i = k
        /\ row[v] \in {"ready", "deleted"} => \A k \in Jobs : ~Working(k, v)
    BY <1>2 DEF AloneInv
  <2>2. CASE v = w
    BY <1>2, <1>3, <1>4, <2>2
  <2>3. CASE v # w
    BY <1>3, <1>4, <1>5, <2>1, <2>3
  <2>. QED BY <2>2, <2>3
<1>7. ASSUME NEW v \in Workstations, NEW kinds, NEW final \in {"ready", "deleted"},
             Reached(v, kinds, final)'
      PROVE  Reached(v, kinds, final)
  <2>1. row'[v] = final => row[v] = final
    BY <1>3
  <2>2. ASSUME NEW k \in Jobs, Working(k, v)', job'[k].kind \in kinds, job'[k].pc \in Late
        PROVE  Reached(v, kinds, final)
    <3>1. k # j
      BY <1>2, <2>2 DEF Late
    <3>. QED BY <1>2, <1>4, <2>2, <3>1 DEF Reached
  <2>. QED BY <1>7, <2>1, <2>2 DEF Reached
<1>8. NothingNew
  BY <1>7 DEF NothingNew, IsDeleted, IsUp
<1>. QED BY <1>2, <1>6, <1>8

\* Reconciliation and the life of the process show nothing either.
LEMMA OtherSteps ==
  ASSUME TypeInv, AloneInv, raced' = raced,
         \A k \in Jobs : job'[k] = job[k] \/ job'[k].pc = "idle",
         \A w \in Workstations : row'[w] = row[w] \/ row'[w] \notin {"ready", "deleted"}
  PROVE  AloneInv' /\ NothingNew
<1>1. \A k \in Jobs, w \in Workstations : Working(k, w)' => Working(k, w) /\ job'[k] = job[k]
  BY DEF Working
<1>2. AloneInv'
  BY <1>1 DEF AloneInv
<1>3. ASSUME NEW w \in Workstations, NEW kinds, NEW final \in {"ready", "deleted"},
             Reached(w, kinds, final)'
      PROVE  Reached(w, kinds, final)
  BY <1>1, <1>3 DEF Reached
<1>. QED BY <1>2, <1>3 DEF NothingNew, IsDeleted, IsUp

-----------------------------------------------------------------------------
(* The worker's side of a step.                                            *)

\* What happens in the containers of the system.
Happens == \E c \in WP!Containers : WP!JobEnds(c) \/ WP!Falls(c)

LEMMA ContainersHappen == SysContainers => Happens /\ UNCHANGED vars
  BY SameCalls, SameSets, Zenon DEF SysContainers, Happens

\* Every step of the system is one of the worker, or none.
LEMMA WorkerSteps ==
  ASSUME TypeInv, [SysNext]_sysVars
  PROVE  [WP!Next]_(WP!vars)
<1>1. ASSUME NEW j \in Jobs, NEW op \in WP!Ops, WP!Accept(j, op)
      PROVE  WP!Next
  BY <1>1 DEF WP!Next
<1>2. ASSUME NEW j \in Jobs, WP!Serve(j) \/ WP!Answer(j) \/ WP!GiveUp(j)
      PROVE  WP!Next
  BY <1>2 DEF WP!Next
<1>3. ASSUME UNCHANGED workerVars
      PROVE  UNCHANGED WP!vars
  BY <1>3 DEF workerVars, WP!vars
<1>4. ASSUME NEW j \in Jobs, SysCall(j)
      PROVE  WP!Next
  <2>1. job[j].kind \in Kinds
    BY <1>4 DEF SysCall, CallWorker, TypeInv, JobsOK
  <2>2. Op(job[j].kind) \in WP!Ops
    BY <2>1 DEF Op, Kinds, Actions, WP!Ops
  <2>. QED BY <1>1, <1>4, <2>2, SameCalls DEF SysCall
<1>5. ASSUME NEW j \in Jobs, SysAnswer(j) \/ SysError(j) \/ SysOrphan(j) \/ SysServe(j)
      PROVE  [WP!Next]_(WP!vars)
  BY <1>2, <1>3, <1>5, SameCalls, SameServe DEF SysAnswer, SysError, SysOrphan, SysServe
<1>6. ASSUME SysContainers
      PROVE  WP!Next
  BY <1>6, ContainersHappen DEF Happens, WP!Next, WP!Containment
<1>7. ASSUME SysRequest \/ SysController \/ SysReconcile \/ SysCut \/ UNCHANGED sysVars
      PROVE  UNCHANGED WP!vars
  BY <1>3, <1>7 DEF SysRequest, SysController, SysReconcile, SysCut, sysVars
<1>. QED BY <1>4, <1>5, <1>6, <1>7 DEF SysNext

\* Where nothing is in progress, what the worker does by itself keeps what was reached.
LEMMA QuietStays ==
  ASSUME WP!FullInv,
         \/ UNCHANGED workerVars
         \/ \E j \in Jobs : WP!Serve(j) \/ WP!GiveUp(j)
         \/ Happens
  PROVE  /\ overlapped' = overlapped
         /\ Quiet /\ Gone => Quiet' /\ Gone'
         /\ Quiet /\ Up => Quiet' /\ Up'
<1>1. ASSUME UNCHANGED workerVars
      PROVE  /\ overlapped' = overlapped
             /\ Quiet /\ Gone => Quiet' /\ Gone'
             /\ Quiet /\ Up => Quiet' /\ Up'
  BY <1>1 DEF workerVars, Quiet, Gone, Up, WP!Active, WP!Exists, WP!Serving, WP!Running
<1>2. ASSUME NEW j \in Jobs, WP!Serve(j) \/ WP!GiveUp(j)
      PROVE  overlapped' = overlapped /\ ~Quiet
  <2>1. overlapped' = overlapped
    BY <1>2 DEF WP!Serve, WP!GiveUp, WP!Perform, WP!ListStep, WP!Skip, WP!NextApp, WP!ghostVars
  <2>2. WP!Active(j)
    BY <1>2 DEF WP!Serve, WP!GiveUp, WP!Perform, WP!ListStep, WP!Skip, WP!NextApp
  <2>. QED BY <2>1, <2>2 DEF Quiet
<1>3. ASSUME Happens
      PROVE  /\ overlapped' = overlapped
             /\ Quiet /\ Gone => Quiet' /\ Gone'
             /\ Quiet /\ Up => Quiet' /\ Up'
  <2>1. /\ \A r \in WP!Resources : WP!Exists(r)' <=> WP!Exists(r)
        /\ WP!Serving => WP!Serving' \/ fallen'
    BY <1>3, WP!JobsOnly, AppsAssumption, SeedingAssumption DEF Happens, WP!Containment
  <2>2. call' = call /\ overlapped' = overlapped /\ (fallen => fallen')
    BY <1>3 DEF Happens, WP!JobEnds, WP!Falls, WP!ghostVars
  <2>3. Quiet => Quiet'
    BY <2>2 DEF Quiet, WP!Active
  <2>4. WP!Longlived \subseteq WP!Resources
    BY DEF WP!Resources, WP!Containers
  <2>. QED BY <2>1, <2>2, <2>3, <2>4 DEF Gone, Up
<1>. QED BY <1>1, <1>2, <1>3

\* No step of the worker changes what a call in progress is about.
LEMMA SameOp ==
  ASSUME WP!FullInv,
         \/ UNCHANGED workerVars
         \/ \E j \in Jobs : WP!Serve(j)
         \/ Happens
  PROVE  \A j \in Jobs : call'[j].op = call[j].op
<1>1. call \in [Jobs -> WP!CallType]
  BY DEF WP!FullInv, WP!WorkerInv, WP!BaseInv, WP!TypeOK
<1>2. ASSUME NEW j \in Jobs, WP!Serve(j)
      PROVE  \A k \in Jobs : call'[k].op = call[k].op
  <2>1. ASSUME NEW r \in WP!Resources, WP!Perform(j, r)
        PROVE  \A k \in Jobs : call'[k].op = call[k].op
    <3>1. \/ call' = [call EXCEPT ![j].seen = {r}]
          \/ call' = [call EXCEPT ![j].at = @ + 1, ![j].done = {}, ![j].seen = {}]
          \/ call' = [call EXCEPT ![j].done = @ \cup {r}, ![j].seen = {}]
      BY <2>1 DEF WP!Perform
    <3>. QED BY <1>1, <3>1 DEF WP!CallType
  <2>2. ASSUME WP!ListStep(j)
        PROVE  \A k \in Jobs : call'[k].op = call[k].op
    <3>1. PICK l : call' = [call EXCEPT ![j].at = @ + 1, ![j].listed = l]
      BY <2>2 DEF WP!ListStep
    <3>. QED BY <1>1, <3>1 DEF WP!CallType
  <2>3. ASSUME WP!Skip(j)
        PROVE  \A k \in Jobs : call'[k].op = call[k].op
    <3>1. call' = [call EXCEPT ![j].at = @ + 1]
      BY <2>3 DEF WP!Skip
    <3>. QED BY <1>1, <3>1 DEF WP!CallType
  <2>4. ASSUME NEW a \in Apps, WP!NextApp(j, a)
        PROVE  \A k \in Jobs : call'[k].op = call[k].op
    <3>1. call' = [call EXCEPT ![j].app = a, ![j].at = 1, ![j].todo = @ \ {a}]
      BY <2>4 DEF WP!NextApp
    <3>. QED BY <1>1, <3>1 DEF WP!CallType
  <2>. QED BY <1>2, <2>1, <2>2, <2>3, <2>4 DEF WP!Serve
<1>3. ASSUME UNCHANGED workerVars \/ Happens
      PROVE  call' = call
  BY <1>3 DEF workerVars, Happens, WP!JobEnds, WP!Falls
<1>. QED BY <1>2, <1>3

-----------------------------------------------------------------------------
(* The invariant of the system.                                            *)

\* What the answer of the worker to goroutine j shows.
LEMMA AnswerShows ==
  ASSUME SysInv, NEW j \in Jobs, SysAnswer(j)
  PROVE  WaitInv' /\ AloneInv' /\ ShownInv'
<1>0. /\ TypeInv /\ WP!FullInv /\ WaitInv /\ AloneInv /\ ShownInv
      /\ job \in [Jobs -> JobType] /\ JobsOK
      /\ call \in [Jobs -> WP!CallType]
  BY DEF SysInv, TypeInv, TypeOK, WP!FullInv, WP!WorkerInv, WP!BaseInv, WP!TypeOK
<1>1. WorkerReplies(j, TRUE) /\ WP!Answer(j)
  BY SameCalls DEF SysAnswer
<1>2. /\ job[j].pc = "wait" /\ job'[j].pc \in Late /\ raced' = raced /\ row' = row
      /\ job'[j].ws = job[j].ws /\ job'[j].kind = job[j].kind
      /\ \A k \in Jobs : k # j => job'[k] = job[k]
  BY <1>0, <1>1 DEF WorkerReplies, Late, dbVars, ghostVars, JobType
<1>3. /\ WP!Ended(j) /\ res' = res /\ overlapped' = overlapped /\ fallen' = fallen
      /\ call' = [call EXCEPT ![j] = WP!NoCall]
  BY <1>1 DEF WP!Answer, WP!engineVars, WP!ghostVars
<1>4. /\ call'[j].op = "none"
      /\ \A k \in Jobs : k # j => call'[k] = call[k]
  BY <1>0, <1>3 DEF WP!NoCall
<1>5. WaitInv'
  <2>. SUFFICES ASSUME NEW k \in Jobs, job'[k].pc = "wait"
                PROVE  call'[k].op = Op(job'[k].kind)
    BY DEF WaitInv
  <2>1. k # j
    BY <1>2 DEF Late
  <2>. QED BY <1>0, <1>2, <1>4, <2>1 DEF WaitInv
<1>6. StepOf(j)
  BY <1>2 DEF StepOf
<1>7. AloneInv'
  BY <1>0, <1>6, StepAlone
<1>8. job[j].ws \in Workstations /\ job[j].kind \in Kinds /\ call[j].op = Op(job[j].kind)
  BY <1>0, <1>2 DEF JobsOK, WaitInv
<1>9. ASSUME NEW w \in Workstations \ raced, ~overlapped
      PROVE  /\ IsDeleted(w)' => Quiet' /\ Gone'
             /\ IsUp(w)' => Quiet' /\ Up'
  <2>1. Working(j, w) /\ Working(j, w)'
    BY <1>2, <1>8, OneWorkstation DEF Working, Late
  <2>2. /\ \A k \in Jobs : Working(k, w)' => k = j
        /\ row'[w] \notin {"ready", "deleted"}
    BY <1>2, <1>7, <2>1 DEF AloneInv
  <2>3. /\ \A o \in Jobs : o # j => ~WP!Active(o)
        /\ call[j].op = "delete" => \A r \in WP!Resources : ~WP!Exists(r)
        /\ (/\ call[j].op \in {"provision", "rebuild", "start", "restart"}
            /\ \A c \in WP!Longlived : WP!Exists(c)) => WP!Serving \/ fallen
    BY <1>0, <1>3, <1>9, WP!Answered, AppsAssumption, SeedingAssumption
  <2>4. Quiet'
    BY <1>4, <2>3 DEF Quiet, WP!Active
  <2>5. ASSUME IsDeleted(w)' PROVE Gone'
    <3>1. job[j].kind = "delete"
      BY <1>2, <2>2, <2>5 DEF IsDeleted, Reached
    <3>2. call[j].op = "delete"
      BY <1>8, <3>1 DEF Op
    <3>. QED BY <1>3, <2>3, <3>2 DEF Gone, WP!Exists
  <2>6. ASSUME IsUp(w)' PROVE Up'
    <3>1. job[j].kind \in {"provision", "update", "start", "restart"}
      BY <1>2, <2>2, <2>6 DEF IsUp, Reached
    <3>2. call[j].op \in {"provision", "rebuild", "start", "restart"}
      BY <1>8, <3>1 DEF Op
    <3>3. Up
      BY <2>3, <3>2 DEF Up
    <3>. QED BY <1>3, <3>3 DEF Up, WP!Exists, WP!Serving, WP!Running
  <2>. QED BY <2>4, <2>5, <2>6
<1>10. ShownInv'
  BY <1>2, <1>3, <1>9 DEF ShownInv
<1>. QED BY <1>5, <1>7, <1>10

\* The call that goroutine j sends.
LEMMA CallShows ==
  ASSUME SysInv, NEW j \in Jobs, SysCall(j)
  PROVE  WaitInv' /\ AloneInv' /\ ShownInv'
<1>0. /\ TypeInv /\ WaitInv /\ AloneInv /\ job \in [Jobs -> JobType] /\ JobsOK
      /\ call \in [Jobs -> WP!CallType]
  BY DEF SysInv, TypeInv, TypeOK, WP!FullInv, WP!WorkerInv, WP!BaseInv, WP!TypeOK
<1>1. CallWorker(j) /\ WP!Accept(j, Op(job[j].kind))
  BY SameCalls DEF SysCall
<1>2. StepOf(j) /\ (job'[j].pc \in Late => job[j].pc \in Late)
  BY <1>0, <1>1, MovesAreSteps
<1>3. job[j].pc = "call" /\ job'[j].kind = job[j].kind /\ row' = row /\ job'[j].pc = "wait"
  BY <1>0, <1>1 DEF CallWorker, dbVars, JobType
<1>4. /\ call'[j].op = Op(job[j].kind)
      /\ \A k \in Jobs : k # j => call'[k].op = call[k].op
  <2>. DEFINE op == Op(job[j].kind)
              lone == \A o \in Jobs : ~WP!Active(o)
              todo == IF op \in {"provision", "rebuild"} THEN Apps ELSE {}
  <2>1. call' = [o \in Jobs |->
                   IF o = j
                   THEN [op |-> op, at |-> 1, app |-> "-", listed |-> {}, done |-> {},
                         seen |-> {}, alone |-> lone, todo |-> todo]
                   ELSE [call[o] EXCEPT !.alone = FALSE]]
    BY <1>1, Zenon DEF WP!Accept
  <2>. HIDE DEF lone, todo
  <2>. QED BY <1>0, <2>1 DEF WP!CallType
<1>5. WaitInv'
  BY <1>0, <1>2, <1>3, <1>4 DEF WaitInv, StepOf
<1>6. AloneInv'
  BY <1>0, <1>2, StepAlone
<1>7. ASSUME NEW w \in Workstations \ raced'
      PROVE  ~IsDeleted(w)' /\ ~IsUp(w)'
  <2>1. Working(j, w)'
    BY <1>0, <1>2, <1>3, OneWorkstation DEF Working, JobsOK, StepOf
  <2>2. /\ \A k \in Jobs : Working(k, w)' => k = j
        /\ row'[w] \notin {"ready", "deleted"}
    BY <1>6, <2>1 DEF AloneInv
  <2>. QED BY <1>3, <2>2 DEF IsDeleted, IsUp, Reached, Late
<1>8. ShownInv'
  BY <1>7 DEF ShownInv
<1>. QED BY <1>5, <1>6, <1>8

\* A step that shows nothing new while the worker does at most something by itself.
LEMMA KeepsShown ==
  ASSUME WP!FullInv, ShownInv, NothingNew, raced \subseteq raced',
         \/ UNCHANGED workerVars
         \/ \E j \in Jobs : WP!Serve(j) \/ WP!GiveUp(j)
         \/ Happens
  PROVE  ShownInv'
<1>1. /\ overlapped' = overlapped
      /\ Quiet /\ Gone => Quiet' /\ Gone'
      /\ Quiet /\ Up => Quiet' /\ Up'
  BY QuietStays
<1>2. \A w \in Workstations \ raced' : w \in Workstations \ raced
  OBVIOUS
<1>. QED BY <1>1, <1>2 DEF ShownInv, NothingNew

\* Every step of the system keeps the invariant.
LEMMA SysStep == SysInv /\ [SysNext]_sysVars => SysInv'
<1>. SUFFICES ASSUME SysInv, [SysNext]_sysVars PROVE SysInv'
  OBVIOUS
<1>0. TypeInv /\ WP!FullInv /\ WaitInv /\ AloneInv /\ ShownInv
  BY DEF SysInv
<1>1. TypeInv'
  BY <1>0, NextType, SysStepIsLifecycleStep
<1>2. WP!FullInv'
  BY <1>0, WorkerSteps, WP!FullStep, AppsAssumption, SeedingAssumption
<1>3. ASSUME SysRequest PROVE WaitInv' /\ AloneInv' /\ ShownInv'
  <2>1. PICK w \in Workstations, j \in Jobs :
          Create(w, j) \/ \E action \in Actions : BeginAction(w, action, j)
    BY <1>3 DEF SysRequest
  <2>2. /\ AloneInv' /\ NothingNew /\ job'[j].pc = "read"
        /\ \A k \in Jobs : k # j => job'[k] = job[k]
    BY <1>0, <2>1, RequestSteps
  <2>3. UNCHANGED workerVars
    BY <1>3 DEF SysRequest
  <2>4. raced \subseteq raced'
    BY <2>1 DEF Create, BeginAction, Spawn
  <2>5. WaitInv'
    BY <1>0, <2>2, <2>3 DEF WaitInv, workerVars
  <2>. QED BY <1>0, <2>2, <2>3, <2>4, <2>5, KeepsShown
<1>4. ASSUME NEW j \in Jobs, SysError(j) PROVE WaitInv' /\ AloneInv' /\ ShownInv'
  <2>1. WorkerReplies(j, FALSE) /\ (WP!GiveUp(j) \/ UNCHANGED workerVars)
    BY <1>4, SameCalls DEF SysError
  <2>2. /\ StepOf(j) /\ (job'[j].pc \in Late => job[j].pc \in Late)
        /\ job'[j].pc = "wait" => CallWorker(j)
    BY <1>0, <2>1, MovesAreSteps
  <2>3. AloneInv' /\ NothingNew /\ raced' = raced
    BY <1>0, <2>2, StepAlone, StepNothingNew DEF StepOf
  <2>4. job'[j].pc # "wait"
    BY <2>1, <2>2 DEF WorkerReplies, CallWorker
  <2>5. \A k \in Jobs : k # j => call'[k] = call[k]
    <3>1. call \in [Jobs -> WP!CallType]
      BY <1>0 DEF WP!FullInv, WP!WorkerInv, WP!BaseInv, WP!TypeOK
    <3>. QED BY <2>1, <3>1 DEF WP!GiveUp, workerVars
  <2>6. WaitInv'
    BY <1>0, <2>2, <2>4, <2>5 DEF WaitInv, StepOf
  <2>. QED BY <1>0, <2>1, <2>3, <2>6, KeepsShown
<1>5. ASSUME UNCHANGED vars PROVE AloneInv' /\ NothingNew /\ raced' = raced
  BY <1>0, <1>5 DEF vars, AloneInv, NothingNew, IsDeleted, IsUp, Reached, Working
<1>6. ASSUME NEW j \in Jobs, SysOrphan(j) PROVE WaitInv' /\ AloneInv' /\ ShownInv'
  <2>1. WP!GiveUp(j) /\ job[j].pc # "wait" /\ UNCHANGED vars
    BY <1>6, SameCalls DEF SysOrphan
  <2>2. \A k \in Jobs : k # j => call'[k] = call[k]
    <3>1. call \in [Jobs -> WP!CallType]
      BY <1>0 DEF WP!FullInv, WP!WorkerInv, WP!BaseInv, WP!TypeOK
    <3>. QED BY <2>1, <3>1 DEF WP!GiveUp
  <2>3. WaitInv'
    BY <1>0, <2>1, <2>2 DEF WaitInv, vars
  <2>. QED BY <1>0, <1>5, <2>1, <2>3, KeepsShown
<1>7. ASSUME \/ \E j \in Jobs : SysServe(j)
             \/ SysContainers \/ UNCHANGED sysVars
      PROVE  WaitInv' /\ AloneInv' /\ ShownInv'
  <2>1. /\ UNCHANGED vars
        /\ \/ UNCHANGED workerVars
           \/ \E j \in Jobs : WP!Serve(j)
           \/ Happens
    BY <1>7, SameServe, ContainersHappen DEF SysServe, sysVars
  <2>2. \A j \in Jobs : call'[j].op = call[j].op
    BY <1>0, <2>1, SameOp
  <2>3. WaitInv'
    BY <1>0, <2>1, <2>2 DEF WaitInv, vars
  <2>4. AloneInv' /\ NothingNew /\ raced' = raced
    BY <1>5, <2>1
  <2>. QED BY <1>0, <2>1, <2>3, <2>4, KeepsShown
<1>8. ASSUME NEW j \in Jobs, Run(j) \/ PrepareFails(j) \/ Expire(j) \/ ErrorUnsaved(j),
             UNCHANGED workerVars
      PROVE  WaitInv' /\ AloneInv' /\ ShownInv'
  <2>1. /\ StepOf(j) /\ (job'[j].pc \in Late => job[j].pc \in Late)
        /\ job'[j].pc = "wait" => CallWorker(j)
    BY <1>0, <1>8, MovesAreSteps
  <2>2. AloneInv' /\ NothingNew /\ raced' = raced
    BY <1>0, <2>1, StepAlone, StepNothingNew DEF StepOf
  <2>3. job'[j].pc # "wait"
    <3>1. job \in [Jobs -> JobType] /\ NoJob.pc = "idle"
      BY <1>0 DEF TypeInv, TypeOK, NoJob
    <3>. QED
      BY <1>8, <3>1 DEF Run, ReadRow, PullImages, Walk, SetAppStates, Finish, Fail, FailApps,
         PrepareFails, Expire, ErrorUnsaved, Return, JobType
  <2>4. WaitInv'
    BY <1>0, <1>8, <2>1, <2>3 DEF WaitInv, StepOf, workerVars
  <2>. QED BY <1>0, <1>8, <2>2, <2>4, KeepsShown
<1>9. ASSUME UNCHANGED workerVars, raced' = raced,
             \A k \in Jobs : job'[k] = job[k] \/ job'[k].pc = "idle",
             \A w \in Workstations : row'[w] = row[w] \/ row'[w] \notin {"ready", "deleted"}
      PROVE  WaitInv' /\ AloneInv' /\ ShownInv'
  <2>1. AloneInv' /\ NothingNew
    BY <1>0, <1>9, OtherSteps
  <2>2. WaitInv'
    BY <1>0, <1>9 DEF WaitInv, workerVars
  <2>. QED BY <1>0, <1>9, <2>1, <2>2, KeepsShown
<1>10. ASSUME SysReconcile PROVE WaitInv' /\ AloneInv' /\ ShownInv'
  <2>1. UNCHANGED workerVars /\ raced' = raced /\ job' = job /\ row' = row
    BY <1>10 DEF SysReconcile, ReconcileList, dbVars, ghostVars
  <2>. QED BY <1>9, <2>1
<1>11. ASSUME ReconcileRead \/ ReconcileEnd \/ Start \/ (\E w \in Workstations : ReconcileMark(w)),
              UNCHANGED workerVars
       PROVE  WaitInv' /\ AloneInv' /\ ShownInv'
  <2>1. row \in [Workstations -> States \cup {Absent}]
    BY <1>0 DEF TypeInv, TypeOK
  <2>2. /\ raced' = raced /\ job' = job
        /\ \A w \in Workstations : row'[w] = row[w] \/ row'[w] = "error"
    BY <1>11, <2>1 DEF ReconcileRead, ReconcileEnd, Start, ReconcileMark, SetRow, dbVars, ghostVars
  <2>. QED BY <1>9, <1>11, <2>2
<1>12. ASSUME Crash, UNCHANGED workerVars PROVE WaitInv' /\ AloneInv' /\ ShownInv'
  <2>1. raced' = raced /\ row' = row /\ \A k \in Jobs : job'[k].pc = "idle"
    BY <1>12 DEF Crash, dbVars, NoJob
  <2>. QED BY <1>9, <1>12, <2>1
<1>13. ASSUME SysController PROVE WaitInv' /\ AloneInv' /\ ShownInv'
  BY <1>8, <1>11, <1>13 DEF SysController
<1>14. ASSUME SysCut PROVE WaitInv' /\ AloneInv' /\ ShownInv'
  BY <1>8, <1>12, <1>14 DEF SysCut
<1>15. WaitInv' /\ AloneInv' /\ ShownInv'
  BY <1>3, <1>4, <1>6, <1>7, <1>10, <1>13, <1>14, AnswerShows, CallShows DEF SysNext
<1>. QED BY <1>1, <1>2, <1>15 DEF SysInv

\* The invariant holds at first.
LEMMA SysStarts == SysInit => SysInv
<1>. SUFFICES ASSUME SysInit PROVE SysInv
  OBVIOUS
<1>1. Init /\ WP!Init
  BY SameInit DEF SysInit
<1>2. TypeInv
  BY <1>1, InitType
<1>3. WP!FullInv
  BY <1>1, WP!FullInit, AppsAssumption, SeedingAssumption
<1>4. \A j \in Jobs : job[j].pc = "idle"
  BY <1>1 DEF Init, NoJob
<1>5. \A w \in Workstations : row[w] \notin {"ready", "deleted"}
  BY <1>1 DEF Init, NoRows, Absent
<1>6. WaitInv /\ AloneInv /\ ShownInv
  BY <1>4, <1>5 DEF WaitInv, AloneInv, ShownInv, IsDeleted, IsUp, Reached, Working
<1>. QED BY <1>2, <1>3, <1>6 DEF SysInv

\* The invariant holds in every run of the system.
LEMMA SysInvariant == SysSpec => []SysInv
BY SysStarts, SysStep, PTL DEF SysSpec

\* For any apps and any number of goroutines and calls: unless goroutines or calls of it
\* overlapped or a container fell after the worker was last called, a workstation that is
\* shown as ready and whose containers all exist has all of them running, whatever failed,
\* fell, was cut short or was declared lost before.
THEOREM ReadyIsRunning == SysSpec => []ReadyRuns
<1>1. SysInv => ReadyRuns
  BY SameState, SameSets DEF SysInv, ShownInv, ReadyRuns, IsUp, Reached, Up
<1>. QED BY <1>1, SysInvariant, PTL

\* Likewise, a workstation that is shown as deleted has left nothing in Docker.
THEOREM DeletedLeavesNothing == SysSpec => []DeletedIsGone
<1>1. SysInv => DeletedIsGone
  BY SameState, SameSets DEF SysInv, ShownInv, DeletedIsGone, IsDeleted, Reached, Gone
<1>. QED BY <1>1, SysInvariant, PTL
=============================================================================
