--------------------------- MODULE LifecycleProofs ---------------------------
(***************************************************************************)
(* Theorems about Lifecycle, for any set of workstations, any number of    *)
(* goroutines and any choice of the workstations that need a VPN.          *)
(***************************************************************************)
EXTENDS Lifecycle, TLAPS

-----------------------------------------------------------------------------
(* The operators the actions are built from.                               *)

\* Every state the table allows to move to is a state.
LEMMA TableInStates == \A from, to : CanTransition(from, to) => to \in States
  BY DEF CanTransition, transitions, States

\* The table has no row for a workstation that was never inserted, and none
\* leads out of deleted.
LEMMA TableEnds == \A to : ~CanTransition(Absent, to) /\ ~CanTransition("deleted", to)
  BY DEF CanTransition, transitions, Absent

\* The states handlers and goroutines write are states.
LEMMA StepTypes ==
  ASSUME NEW w
  PROVE  /\ \A a \in Actions : Target(a, w) \in States
         /\ \A k : First(k, w) \in Steps \cup {"none"}
         /\ \A s : After(s, w) \in Steps \cup {"none"}
  BY DEF Actions, Target, First, After, States, Steps

LEMMA FinalType == \A k : Final(k) \in States /\ Final(k) \in AppStates
  BY DEF Final, States, AppStates

-----------------------------------------------------------------------------
(* Type correctness.                                                       *)

TypeInv == TypeOK /\ JobsOK

LEMMA InitType == Init => TypeInv
  BY DEF Init, TypeInv, TypeOK, JobsOK, NoRows, NoJob, Idle, JobType, AppStates, PCs, Absent

LEMMA NextType == TypeInv /\ [Next]_vars => TypeInv'
<1> SUFFICES ASSUME TypeInv, [Next]_vars PROVE TypeInv'
  OBVIOUS
<1> USE DEF TypeInv, TypeOK, JobsOK, JobType, PCs
<1>n. NoJob \in JobType /\ NoJob.pc = "idle" /\ NoJob.next = "none"
  BY DEF NoJob
<1>i. Idle \in [pc : {"idle", "read", "mark"}, listed : SUBSET Workstations,
                seen : [Workstations -> States \cup {Absent}]]
  BY DEF Idle, NoRows
<1>1. ASSUME NEW w \in Workstations, NEW j \in Jobs, Create(w, j) PROVE TypeInv'
  <2>1. row' \in [Workstations -> States \cup {Absent}] /\ apps' \in [Workstations -> AppStates]
    BY <1>1 DEF Create, SetRow, States, AppStates
  <2>2. job' \in [Jobs -> JobType] /\ JobsOK'
    BY <1>1 DEF Create, Spawn, Kinds
  <2> QED
    BY <1>1, <2>1, <2>2 DEF Create, Spawn
<1>2. ASSUME NEW w \in Workstations, NEW j \in Jobs, NEW a \in Actions, BeginAction(w, a, j)
      PROVE TypeInv'
  <2>1. row' \in [Workstations -> States \cup {Absent}]
    BY <1>2, StepTypes DEF BeginAction, SetRow
  <2>2. job' \in [Jobs -> JobType] /\ JobsOK'
    BY <1>2 DEF BeginAction, Spawn, Kinds
  <2> QED
    BY <1>2, <2>1, <2>2 DEF BeginAction, Spawn
<1>3. ASSUME NEW j \in Jobs, ReadRow(j) PROVE TypeInv'
  BY <1>3 DEF ReadRow, dbVars, ghostVars
<1>4. ASSUME NEW j \in Jobs, PullImages(j) PROVE TypeInv'
  BY <1>4, <1>n DEF PullImages, SetRow, Return, ghostVars, States
<1>5. ASSUME NEW j \in Jobs, PrepareFails(j) PROVE TypeInv'
  BY <1>5 DEF PrepareFails, dbVars, ghostVars
<1>6. ASSUME NEW j \in Jobs, CallWorker(j) PROVE TypeInv'
  BY <1>6 DEF CallWorker, dbVars, ghostVars
<1>7. ASSUME NEW j \in Jobs, NEW ok \in BOOLEAN, WorkerReplies(j, ok) PROVE TypeInv'
  <2>1. /\ First(job[j].kind, job[j].ws) \in Steps \cup {"none"}
        /\ First(job[j].kind, job[j].ws) # "none" => job[j].kind \notin {"stop", "delete"}
    BY DEF First, Steps
  <2> QED
    BY <1>7, <2>1 DEF WorkerReplies, dbVars, ghostVars
<1>8. ASSUME NEW j \in Jobs, Walk(j) PROVE TypeInv'
  <2>1. After(job[j].next, job[j].ws) \in Steps \cup {"none"}
    BY StepTypes
  <2>2. row' \in [Workstations -> States \cup {Absent}]
    BY <1>8, TableInStates DEF Walk, Transitions, SetRow
  <2>3. job' \in [Jobs -> JobType] /\ JobsOK'
    BY <1>8, <1>n, <2>1, TableInStates DEF Walk, Transitions, Return
  <2> QED
    BY <1>8, <2>2, <2>3 DEF Walk, ghostVars
<1>9. ASSUME NEW j \in Jobs, SetAppStates(j) PROVE TypeInv'
  <2>1. apps' \in [Workstations -> AppStates] /\ unsaved' \in SUBSET Workstations
    BY <1>9, FinalType DEF SetAppStates, WriteApps
  <2> QED
    BY <1>9, <2>1 DEF SetAppStates
<1>10. ASSUME NEW j \in Jobs, Finish(j) PROVE TypeInv'
  <2>1. row' \in [Workstations -> States \cup {Absent}]
    BY <1>10, FinalType DEF Finish, SetRow
  <2> QED
    BY <1>10, <1>n, <2>1 DEF Finish, Return, ghostVars
<1>11. ASSUME NEW j \in Jobs, Fail(j) PROVE TypeInv'
  <2>1. row' \in [Workstations -> States \cup {Absent}]
    BY <1>11 DEF Fail, SetRow, States
  <2>2. job' \in [Jobs -> JobType] /\ JobsOK'
    BY <1>11, <1>n DEF Fail, Return
  <2> QED
    BY <1>11, <2>1, <2>2 DEF Fail, ghostVars
<1>12. ASSUME NEW j \in Jobs, FailApps(j) PROVE TypeInv'
  BY <1>12, <1>n DEF FailApps, WriteApps, Return, AppStates
<1>13. ASSUME NEW j \in Jobs, Expire(j) PROVE TypeInv'
  BY <1>13, <1>n DEF Expire, Return, dbVars
<1>14. ASSUME NEW listed \in SUBSET Workstations, ReconcileList(listed) PROVE TypeInv'
  BY <1>14, <1>i DEF ReconcileList, dbVars, ghostVars
<1>15. ASSUME ReconcileRead PROVE TypeInv'
  <2>1. recon' \in [pc : {"idle", "read", "mark"}, listed : SUBSET Workstations,
                    seen : [Workstations -> States \cup {Absent}]]
    BY <1>15, <1>i DEF ReconcileRead
  <2> QED
    BY <1>15, <2>1 DEF ReconcileRead, dbVars, ghostVars
<1>16. ASSUME NEW w \in Workstations, ReconcileMark(w) PROVE TypeInv'
  BY <1>16 DEF ReconcileMark, SetRow, ghostVars, States
<1>17. ASSUME ReconcileEnd PROVE TypeInv'
  BY <1>17, <1>i DEF ReconcileEnd, dbVars, ghostVars
<1>18. ASSUME Start PROVE TypeInv'
  BY <1>18 DEF Start, dbVars, ghostVars
<1>19. ASSUME Crash PROVE TypeInv'
  BY <1>19, <1>n, <1>i DEF Crash, dbVars
<1>20. ASSUME UNCHANGED vars PROVE TypeInv'
  BY <1>20 DEF vars
<1>21. ASSUME NEW j \in Jobs, ErrorUnsaved(j) PROVE TypeInv'
  <2>0. /\ job' = [job EXCEPT ![j] = [job[j] EXCEPT !.pc = "failapps", !.at = Absent]]
        /\ job[j].pc = "fail" /\ job[j].next = "none" /\ job[j].ws \in Workstations
    BY <1>21 DEF ErrorUnsaved
  <2>5. [job[j] EXCEPT !.pc = "failapps", !.at = Absent] \in JobType
    <3>1. job[j] \in JobType
      OBVIOUS
    <3> QED
      BY <3>1 DEF Absent
  <2>1. job' \in [Jobs -> JobType]
    BY <2>0, <2>5
  <2>3. /\ job'[j].pc = "failapps" /\ job'[j].kind = job[j].kind /\ job'[j].ws = job[j].ws
        /\ job'[j].next = "none" /\ \A k \in Jobs : k # j => job'[k] = job[k]
    BY <2>0
  <2>4. JobsOK'
    BY <2>0, <2>3
  <2>2. lost' \in SUBSET Workstations
    BY <1>21 DEF ErrorUnsaved
  <2> QED
    BY <1>21, <2>1, <2>2, <2>4 DEF ErrorUnsaved, dbVars
<1> QED
  BY <1>1, <1>2, <1>3, <1>4, <1>5, <1>6, <1>7, <1>8, <1>9, <1>10, <1>11, <1>12, <1>13,
     <1>14, <1>15, <1>16, <1>17, <1>18, <1>19, <1>20, <1>21
     DEF Next, Request, Run, Call, Reconcile

LEMMA TypeInvariance == Spec => []TypeInv
  BY InitType, NextType, PTL DEF Spec

\* The type invariant: what handlers, goroutines and reconciliation write into
\* the rows, the app states and their local copies is always of its type.
THEOREM TypeCorrect == Spec => []TypeOK
<1>1. TypeInv => TypeOK
  BY DEF TypeInv
<1> QED
  BY <1>1, TypeInvariance, PTL

-----------------------------------------------------------------------------
(* The state column implements WorkstationRow.                             *)

\* Reconciliation never holds a snapshot of a row it must leave alone.
ReconOK ==
  \A w \in Workstations :
    recon.seen[w] \notin {"creating", "pulling-images", "deleting", "deleted"}

LEMMA ReconInvariance == Spec => []ReconOK
<1>1. Init => ReconOK
  BY DEF Init, ReconOK, Idle, NoRows, Absent
<1>2. TypeInv /\ ReconOK /\ [Next]_vars => ReconOK'
  <2> SUFFICES ASSUME TypeInv, ReconOK, [Next]_vars PROVE ReconOK'
    OBVIOUS
  <2>i. \A w \in Workstations : Idle.seen[w] = Absent
    BY DEF Idle, NoRows
  <2>1. ASSUME NEW listed \in SUBSET Workstations, ReconcileList(listed) PROVE ReconOK'
    BY <2>1, <2>i DEF ReconcileList, ReconOK, Idle, Absent
  <2>2. ASSUME ReconcileRead PROVE ReconOK'
    BY <2>2 DEF ReconcileRead, ReconOK, Idle, Absent
  <2>3. ASSUME NEW w \in Workstations, ReconcileMark(w) PROVE ReconOK'
    BY <2>3 DEF ReconcileMark, ReconOK, TypeInv, TypeOK, Absent
  <2>4. ASSUME ReconcileEnd \/ Crash PROVE ReconOK'
    BY <2>4, <2>i DEF ReconcileEnd, Crash, ReconOK, Absent
  <2>5. ASSUME UNCHANGED recon PROVE ReconOK'
    BY <2>5 DEF ReconOK
  <2>6. ASSUME Request PROVE UNCHANGED recon
    BY <2>6 DEF Request, Create, BeginAction
  <2>7. ASSUME NEW j \in Jobs, Run(j) \/ Call(j) \/ ErrorUnsaved(j) \/ Expire(j)
        PROVE  UNCHANGED recon
    BY <2>7 DEF Run, Call, Expire, ErrorUnsaved, ReadRow, PullImages, Walk, SetAppStates,
       Finish, Fail, FailApps, PrepareFails, CallWorker, WorkerReplies
  <2>8. ASSUME Start \/ UNCHANGED vars PROVE UNCHANGED recon
    BY <2>8 DEF Start, vars
  <2> QED
    BY <2>1, <2>2, <2>3, <2>4, <2>5, <2>6, <2>7, <2>8 DEF Next, Reconcile
<1> QED
  BY <1>1, <1>2, TypeInvariance, PTL DEF Spec

LEMMA SameTable ==
  /\ Row!Absent = Absent /\ Row!States = States
  /\ \A from, to : Row!CanTransition(from, to) <=> CanTransition(from, to)
  BY DEF Row!Absent, Row!States, Row!CanTransition, Row!transitions,
         Absent, States, CanTransition, transitions

\* A row changed along the table is a Move of WorkstationRow.
LEMMA IsMove ==
  ASSUME NEW w \in Workstations, NEW to, CanTransition(row[w], to), SetRow(w, to)
  PROVE  Row!Next
  BY TableInStates, SameTable DEF SetRow, Row!Next, Row!Move

LEMMA StepRefines == TypeInv /\ ReconOK /\ [Next]_vars => [Row!Next]_row
<1> SUFFICES ASSUME TypeInv, ReconOK, [Next]_vars PROVE Row!Next \/ UNCHANGED row
  OBVIOUS
<1>1. ASSUME NEW w \in Workstations, NEW j \in Jobs, Create(w, j) PROVE Row!Next
  BY <1>1, SameTable DEF Create, SetRow, Row!Next, Row!Insert
<1>2. ASSUME NEW w \in Workstations, NEW j \in Jobs, NEW a \in Actions, BeginAction(w, a, j)
      PROVE Row!Next
  BY <1>2, IsMove DEF BeginAction
<1>3. ASSUME NEW j \in Jobs, NEW to, job[j].pc # "idle", Transitions(j, to),
             SetRow(job[j].ws, to)
      PROVE Row!Next
  <2>1. job[j].ws \in Workstations /\ CanTransition(row[job[j].ws], to)
    BY <1>3 DEF Transitions, CompareState, TypeInv, JobsOK
  <2> QED
    BY <1>3, <2>1, IsMove
<1>4. ASSUME NEW j \in Jobs, PullImages(j) \/ Walk(j) \/ Finish(j) \/ Fail(j)
      PROVE Row!Next \/ UNCHANGED row
  BY <1>3, <1>4 DEF PullImages, Walk, Finish, Fail
<1>5. ASSUME NEW j \in Jobs,
             \/ ReadRow(j) \/ SetAppStates(j) \/ FailApps(j) \/ Call(j)
             \/ ErrorUnsaved(j) \/ Expire(j)
      PROVE UNCHANGED row
  BY <1>5 DEF ReadRow, SetAppStates, FailApps, Call, PrepareFails, CallWorker, WorkerReplies,
     ErrorUnsaved, Expire, dbVars
<1>6. ASSUME NEW w \in Workstations, ReconcileMark(w) PROVE Row!Next \/ UNCHANGED row
  BY <1>6, SameTable DEF ReconcileMark, CompareState, SetRow, ReconOK, Row!Next, Row!DeclareLost
<1>7. ASSUME NEW listed \in SUBSET Workstations, ReconcileList(listed) PROVE UNCHANGED row
  BY <1>7 DEF ReconcileList, dbVars
<1>8. ASSUME ReconcileRead \/ ReconcileEnd \/ Start \/ Crash \/ UNCHANGED vars
      PROVE UNCHANGED row
  BY <1>8 DEF ReconcileRead, ReconcileEnd, Start, Crash, dbVars, vars
<1> QED
  BY <1>1, <1>2, <1>4, <1>5, <1>6, <1>7, <1>8 DEF Next, Request, Run, Reconcile

\* Refinement: goroutines with outdated copies, reconciliation with an outdated
\* snapshot and crashes never make the state column do anything that
\* WorkstationRow does not allow.
THEOREM RowRefinement == Spec => RowSpec
<1>1. Init => Row!Init
  BY SameTable DEF Init, Row!Init, NoRows
<1> QED
  BY <1>1, StepRefines, TypeInvariance, ReconInvariance, PTL DEF Spec, RowSpec, Row!Spec

\* A deleted workstation is never brought back.
THEOREM DeletedStays == Spec => DeletedIsFinal
<1>1. TypeInv /\ [Row!Next]_row =>
        [\A w \in Workstations : row[w] = "deleted" => row'[w] = "deleted"]_row
  BY SameTable, TableEnds DEF Row!Next, Row!Insert, Row!Move, Row!DeclareLost, Absent,
     TypeInv, TypeOK
<1> QED
  BY <1>1, RowRefinement, TypeInvariance, PTL DEF RowSpec, Row!Spec, DeletedIsFinal

-----------------------------------------------------------------------------
(* A transient row is tended.                                              *)

\* Every transient state may fail, and the moves a goroutine makes one after the
\* other are allowed by the table.
LEMMA TablePath ==
  ASSUME NEW w
  PROVE  /\ \A s \in Transient : CanTransition(s, "error")
         /\ CanTransition("creating", "pulling-images")
         /\ CanTransition("pulling-images", "creating-storage")
         /\ \A s \in Steps : After(s, w) # "none" => CanTransition(s, After(s, w))
         /\ \A s \in Steps : After(s, w) = "none" => s = "starting-apps"
         /\ CanTransition("starting-apps", "ready")
         /\ \A k \in Actions :
              CanTransition(Target(k, w), IF First(k, w) = "none" THEN Final(k) ELSE First(k, w))
  BY DEF Transient, CanTransition, transitions, Steps, After, Actions, Target, First, Final

\* A step that changes at most goroutine j and its row keeps every transient
\* row tended, provided j tends what it has just written and goes on tending
\* what it has not.
LEMMA StepTends ==
  ASSUME TypeInv, TransientIsTended, lost \subseteq lost', NEW j \in Jobs,
         \A k \in Jobs : k # j => job'[k] = job[k],
         \A w \in Workstations :
           row'[w] # row[w] /\ row'[w] \in Transient => Tends(j, w)',
         \A w \in Workstations \ lost' :
           row'[w] = row[w] /\ row[w] \in Transient /\ Tends(j, w) => Tends(j, w)'
  PROVE  TransientIsTended'
<1> SUFFICES ASSUME NEW w \in Workstations \ lost', row'[w] \in Transient
             PROVE  \E k \in Jobs : Tends(k, w)'
  BY DEF TransientIsTended
<1>1. CASE row'[w] # row[w]
  BY <1>1
<1>2. CASE row'[w] = row[w]
  <2>1. PICK k \in Jobs : Tends(k, w)
    BY <1>2 DEF TransientIsTended
  <2>2. CASE k = j
    BY <1>2, <2>1, <2>2
  <2>3. CASE k # j
    <3>1. job'[k] = job[k]
      BY <2>3
    <3>2. Tends(k, w)'
      BY <1>2, <2>1, <3>1 DEF Tends
    <3> QED
      BY <3>2
  <2> QED
    BY <2>2, <2>3
<1> QED
  BY <1>1, <1>2

LEMMA NextTends == TypeInv /\ TransientIsTended /\ [Next]_vars => TransientIsTended'
<1> SUFFICES ASSUME TypeInv, TransientIsTended, [Next]_vars PROVE TransientIsTended'
  OBVIOUS
<1>t. /\ row \in [Workstations -> States \cup {Absent}]
      /\ job \in [Jobs -> JobType]
      /\ JobsOK
  BY DEF TypeInv, TypeOK
<1> USE <1>t DEF JobType
<1>1. ASSUME NEW w \in Workstations, NEW j \in Jobs, Create(w, j) PROVE TransientIsTended'
  <2>1. /\ job'[j] = [kind |-> "provision", ws |-> w, pc |-> "read", at |-> Absent, next |-> "none"]
        /\ row'[w] = "creating" /\ job[j].pc = "idle" /\ lost' = lost
        /\ \A v \in Workstations : v # w => row'[v] = row[v]
        /\ \A k \in Jobs : k # j => job'[k] = job[k]
    BY <1>1 DEF Create, Spawn, SetRow
  <2>2. Tends(j, w)'
    BY <2>1 DEF Tends
  <2>3. \A v \in Workstations : ~Tends(j, v)
    BY <2>1 DEF Tends
  <2> QED
    BY <2>1, <2>2, <2>3, StepTends
<1>2. ASSUME NEW w \in Workstations, NEW j \in Jobs, NEW a \in Actions, BeginAction(w, a, j)
      PROVE TransientIsTended'
  <2>1. /\ job'[j] = [kind |-> a, ws |-> w, pc |-> "read", at |-> Absent, next |-> "none"]
        /\ row'[w] = Target(a, w) /\ job[j].pc = "idle" /\ lost' = lost
        /\ \A v \in Workstations : v # w => row'[v] = row[v]
        /\ \A k \in Jobs : k # j => job'[k] = job[k]
    BY <1>2 DEF BeginAction, Spawn, SetRow
  <2>2. Tends(j, w)'
    BY <2>1 DEF Tends, Actions
  <2>3. \A v \in Workstations : ~Tends(j, v)
    BY <2>1 DEF Tends
  <2> QED
    BY <2>1, <2>2, <2>3, StepTends
<1>3. ASSUME NEW j \in Jobs, ReadRow(j) PROVE TransientIsTended'
  <2>1. /\ row' = row /\ lost' = lost
        /\ \A k \in Jobs : k # j => job'[k] = job[k]
        /\ job[j].pc = "read" /\ job'[j].kind = job[j].kind /\ job'[j].ws = job[j].ws
        /\ job'[j].at = row[job[j].ws]
        /\ job'[j].pc = IF job[j].kind = "provision" THEN "pull" ELSE "call"
    BY <1>3 DEF ReadRow, dbVars, ghostVars
  <2>2. ASSUME NEW w \in Workstations, Tends(j, w) PROVE Tends(j, w)'
    <3>1. CASE job[j].kind = "provision"
      BY <2>1, <2>2, <3>1, TablePath DEF Tends
    <3>2. CASE job[j].kind # "provision"
      <4>1. job[j].kind \in Actions
        BY <2>1, <3>2 DEF JobsOK, Kinds
      <4> QED
        BY <2>1, <2>2, <3>2, <4>1, TablePath DEF Tends
    <3> QED
      BY <3>1, <3>2
  <2> QED
    BY <2>1, <2>2, StepTends
<1>4. ASSUME NEW j \in Jobs, PullImages(j) PROVE TransientIsTended'
  <2>1. CASE Transitions(j, "pulling-images")
    <3>1. /\ row' = [row EXCEPT ![job[j].ws] = "pulling-images"] /\ lost' = lost
          /\ \A k \in Jobs : k # j => job'[k] = job[k]
          /\ job[j].kind = "provision" /\ job'[j].kind = "provision"
          /\ job[j].ws \in Workstations /\ job'[j].ws = job[j].ws
          /\ job'[j].at = "pulling-images" /\ job'[j].pc = "call"
      BY <1>4, <2>1 DEF PullImages, SetRow, ghostVars, JobsOK
    <3>2. Tends(j, job[j].ws)'
      BY <3>1, TablePath DEF Tends, First
    <3>3. \A w \in Workstations : Tends(j, w) => w = job[j].ws
      BY DEF Tends
    <3> QED
      BY <3>1, <3>2, <3>3, StepTends
  <2>2. CASE ~Transitions(j, "pulling-images")
    <3>1. /\ row' = row /\ lost' = lost /\ \A k \in Jobs : k # j => job'[k] = job[k]
      BY <1>4, <2>2 DEF PullImages, Return, ghostVars
    <3>2. \A w \in Workstations : ~Tends(j, w)
      BY <1>4, <2>2 DEF PullImages, Tends, Transitions, CompareState
    <3> QED
      BY <3>1, <3>2, StepTends
  <2> QED
    BY <2>1, <2>2
<1>5. ASSUME NEW j \in Jobs, PrepareFails(j) PROVE TransientIsTended'
  <2>1. /\ row' = row /\ lost' = lost /\ \A k \in Jobs : k # j => job'[k] = job[k]
        /\ job[j].pc = "call" /\ job'[j].ws = job[j].ws /\ job'[j].at = job[j].at
        /\ job'[j].pc = "fail"
    BY <1>5 DEF PrepareFails, dbVars, ghostVars
  <2>2. \A w \in Workstations : row[w] \in Transient /\ Tends(j, w) => Tends(j, w)'
    BY <2>1, TablePath DEF Tends
  <2> QED
    BY <2>1, <2>2, StepTends
<1>6. ASSUME NEW j \in Jobs, CallWorker(j) PROVE TransientIsTended'
  <2>1. /\ row' = row /\ lost' = lost /\ \A k \in Jobs : k # j => job'[k] = job[k]
        /\ job[j].pc = "call" /\ job'[j].ws = job[j].ws /\ job'[j].at = job[j].at
        /\ job'[j].kind = job[j].kind /\ job'[j].pc = "wait"
    BY <1>6 DEF CallWorker, dbVars, ghostVars
  <2>2. \A w \in Workstations : Tends(j, w) => Tends(j, w)'
    BY <2>1 DEF Tends
  <2> QED
    BY <2>1, <2>2, StepTends
<1>7. ASSUME NEW j \in Jobs, NEW ok \in BOOLEAN, WorkerReplies(j, ok) PROVE TransientIsTended'
  <2>0. /\ row' = row /\ lost' = lost /\ \A k \in Jobs : k # j => job'[k] = job[k]
        /\ job[j].pc = "wait" /\ job'[j].ws = job[j].ws /\ job'[j].at = job[j].at
        /\ job'[j].kind = job[j].kind
    BY <1>7 DEF WorkerReplies, dbVars, ghostVars
  <2>1. CASE ok
    <3>1. /\ job'[j].next = First(job[j].kind, job[j].ws)
          /\ job'[j].pc = IF First(job[j].kind, job[j].ws) = "none" THEN "apps" ELSE "walk"
      BY <1>7, <2>1 DEF WorkerReplies
    <3>2. \A w \in Workstations : Tends(j, w) => Tends(j, w)'
      BY <2>0, <3>1 DEF Tends
    <3> QED
      BY <2>0, <3>2, StepTends
  <2>2. CASE ~ok
    <3>1. job'[j].pc = "fail"
      BY <1>7, <2>2 DEF WorkerReplies
    <3>2. \A w \in Workstations : row[w] \in Transient /\ Tends(j, w) => Tends(j, w)'
      BY <2>0, <3>1, TablePath DEF Tends
    <3> QED
      BY <2>0, <3>2, StepTends
  <2> QED
    BY <2>1, <2>2
<1>8. ASSUME NEW j \in Jobs, Walk(j) PROVE TransientIsTended'
  <2>1. CASE Transitions(j, job[j].next)
    <3>1. /\ row' = [row EXCEPT ![job[j].ws] = job[j].next] /\ lost' = lost
          /\ \A k \in Jobs : k # j => job'[k] = job[k]
          /\ job[j].next \in Steps /\ job[j].kind \notin {"stop", "delete"}
          /\ job'[j].kind = job[j].kind
          /\ job[j].ws \in Workstations /\ job'[j].ws = job[j].ws
          /\ job'[j].at = job[j].next /\ job'[j].next = After(job[j].next, job[j].ws)
          /\ job'[j].pc = IF After(job[j].next, job[j].ws) = "none" THEN "apps" ELSE "walk"
      BY <1>8, <2>1 DEF Walk, SetRow, ghostVars, JobsOK
    <3>w. /\ row'[job'[j].ws] = job[j].next /\ job'[j].at = row'[job'[j].ws]
          /\ job[j].next \in Steps /\ job'[j].ws \in Workstations
          /\ job'[j].next = After(job[j].next, job'[j].ws)
          /\ Final(job'[j].kind) = "ready"
      BY <3>1 DEF Final
    <3>2. Tends(j, job[j].ws)'
      <4>1. CASE After(job[j].next, job[j].ws) = "none"
        <5>1. job'[j].pc = "apps" /\ CanTransition(job[j].next, "ready")
          BY <3>1, <4>1, TablePath
        <5> QED
          BY <3>1, <3>w, <5>1 DEF Tends
      <4>2. CASE After(job[j].next, job[j].ws) # "none"
        <5>1. job'[j].pc = "walk" /\ CanTransition(job[j].next, job'[j].next)
          BY <3>1, <4>2, TablePath
        <5> QED
          BY <3>1, <3>w, <5>1 DEF Tends
      <4> QED
        BY <4>1, <4>2
    <3>3. \A w \in Workstations : Tends(j, w) => w = job[j].ws
      BY DEF Tends
    <3> QED
      BY <3>1, <3>2, <3>3, StepTends
  <2>2. CASE ~Transitions(j, job[j].next)
    <3>1. /\ row' = row /\ lost' = lost /\ \A k \in Jobs : k # j => job'[k] = job[k]
      BY <1>8, <2>2 DEF Walk, Return, ghostVars
    <3>2. \A w \in Workstations : ~Tends(j, w)
      BY <1>8, <2>2 DEF Walk, Tends, Transitions, CompareState
    <3> QED
      BY <3>1, <3>2, StepTends
  <2> QED
    BY <2>1, <2>2
<1>9. ASSUME NEW j \in Jobs, SetAppStates(j) PROVE TransientIsTended'
  <2>1. /\ row' = row /\ lost' = lost /\ \A k \in Jobs : k # j => job'[k] = job[k]
        /\ job[j].pc = "apps" /\ job'[j].ws = job[j].ws /\ job'[j].at = job[j].at
        /\ job'[j].kind = job[j].kind /\ job'[j].pc = "finish"
    BY <1>9 DEF SetAppStates
  <2>2. \A w \in Workstations : Tends(j, w) => Tends(j, w)'
    BY <2>1 DEF Tends
  <2> QED
    BY <2>1, <2>2, StepTends
<1>10. ASSUME NEW j \in Jobs, Finish(j) PROVE TransientIsTended'
  <2>1. /\ lost' = lost /\ \A k \in Jobs : k # j => job'[k] = job[k]
        /\ job[j].pc = "finish" /\ job[j].ws \in Workstations
        /\ \/ Transitions(j, Final(job[j].kind))
              /\ row' = [row EXCEPT ![job[j].ws] = Final(job[j].kind)]
           \/ ~Transitions(j, Final(job[j].kind)) /\ row' = row
    BY <1>10 DEF Finish, SetRow, Return, ghostVars, JobsOK
  <2>2. Final(job[j].kind) \notin Transient
    BY DEF Final, Transient
  <2>3. \A w \in Workstations : Tends(j, w) => w = job[j].ws /\ Transitions(j, Final(job[j].kind))
    BY <2>1 DEF Tends, Transitions, CompareState
  <2>4. \A w \in Workstations : row'[w] # row[w] => row'[w] \notin Transient
    BY <2>1, <2>2
  <2>5. \A w \in Workstations : row'[w] = row[w] /\ row[w] \in Transient => ~Tends(j, w)
    BY <2>1, <2>2, <2>3
  <2> QED
    BY <2>1, <2>4, <2>5, StepTends
<1>11. ASSUME NEW j \in Jobs, Fail(j) PROVE TransientIsTended'
  <2>1. /\ lost' = lost /\ \A k \in Jobs : k # j => job'[k] = job[k]
        /\ job[j].pc = "fail" /\ job[j].ws \in Workstations
        /\ \/ Transitions(j, "error") /\ row' = [row EXCEPT ![job[j].ws] = "error"]
           \/ ~Transitions(j, "error") /\ row' = row
    BY <1>11 DEF Fail, SetRow, Return, ghostVars, JobsOK
  <2>2. "error" \notin Transient
    BY DEF Transient
  <2>3. \A w \in Workstations : Tends(j, w) => w = job[j].ws /\ Transitions(j, "error")
    BY <2>1 DEF Tends, Transitions, CompareState
  <2>4. \A w \in Workstations : row'[w] # row[w] => row'[w] \notin Transient
    BY <2>1, <2>2
  <2>5. \A w \in Workstations : row'[w] = row[w] /\ row[w] \in Transient => ~Tends(j, w)
    BY <2>1, <2>2, <2>3
  <2> QED
    BY <2>1, <2>4, <2>5, StepTends
<1>12. ASSUME NEW j \in Jobs, FailApps(j) PROVE TransientIsTended'
  <2>1. /\ row' = row /\ lost' = lost /\ \A k \in Jobs : k # j => job'[k] = job[k]
    BY <1>12 DEF FailApps, Return
  <2>2. \A w \in Workstations : ~Tends(j, w)
    BY <1>12 DEF FailApps, Tends
  <2> QED
    BY <2>1, <2>2, StepTends
<1>13. ASSUME NEW j \in Jobs, Expire(j) PROVE TransientIsTended'
  <2>1. /\ row' = row /\ lost \subseteq lost' /\ job[j].ws \in lost'
        /\ \A k \in Jobs : k # j => job'[k] = job[k]
    BY <1>13 DEF Expire, Return, dbVars
  <2>2. \A w \in Workstations \ lost' : ~Tends(j, w)
    BY <2>1 DEF Tends
  <2> QED
    BY <2>1, <2>2, StepTends
<1>19. ASSUME NEW j \in Jobs, ErrorUnsaved(j) PROVE TransientIsTended'
  <2>1. /\ row' = row /\ lost \subseteq lost' /\ job[j].ws \in lost'
        /\ \A k \in Jobs : k # j => job'[k] = job[k]
    BY <1>19 DEF ErrorUnsaved, dbVars
  <2>2. \A w \in Workstations \ lost' : ~Tends(j, w)
    BY <2>1 DEF Tends
  <2> QED
    BY <2>1, <2>2, StepTends
<1>14. ASSUME NEW w \in Workstations, ReconcileMark(w) PROVE TransientIsTended'
  <2>1. /\ job' = job /\ lost' = lost
        /\ \A v \in Workstations : row'[v] # row[v] => row'[v] = "error"
    BY <1>14 DEF ReconcileMark, SetRow, ghostVars
  <2>2. \A v \in Workstations : row'[v] = row[v] => \A k \in Jobs : Tends(k, v) => Tends(k, v)'
    BY <2>1 DEF Tends
  <2> QED
    BY <2>1, <2>2 DEF TransientIsTended, Transient
<1>15. ASSUME UNCHANGED <<row, job, lost>> PROVE TransientIsTended'
  BY <1>15 DEF TransientIsTended, Tends
<1>16. ASSUME NEW listed \in SUBSET Workstations, ReconcileList(listed)
       PROVE  UNCHANGED <<row, job, lost>>
  BY <1>16 DEF ReconcileList, dbVars, ghostVars
<1>17. ASSUME ReconcileRead \/ ReconcileEnd \/ Start \/ UNCHANGED vars
       PROVE  UNCHANGED <<row, job, lost>>
  BY <1>17 DEF ReconcileRead, ReconcileEnd, Start, dbVars, ghostVars, vars
<1>18. ASSUME Crash PROVE TransientIsTended'
  <2>1. \A w \in Workstations \ lost' : \A j \in Jobs : ~Tends(j, w)
    BY <1>18 DEF Crash, Working, Tends
  <2> QED
    BY <1>18, <2>1 DEF Crash, TransientIsTended, dbVars
<1> QED
  BY <1>1, <1>2, <1>3, <1>4, <1>5, <1>6, <1>7, <1>8, <1>9, <1>10, <1>11, <1>12, <1>13,
     <1>14, <1>15, <1>16, <1>17, <1>18, <1>19 DEF Next, Request, Run, Call, Reconcile

\* No race strands a workstation: whatever deletes, retries, reconciliations and
\* goroutines with outdated copies do to each other, a transient row has a
\* goroutine that will move it on, unless one of its goroutines was cut short.
THEOREM Tended == Spec => []TransientIsTended
<1>1. Init => TransientIsTended
  BY DEF Init, TransientIsTended, NoRows, Transient, Absent
<1> QED
  BY <1>1, NextTends, TypeInvariance, PTL DEF Spec

-----------------------------------------------------------------------------
(* The app states follow the row.                                          *)

Settled == {"ready", "stopped", "deleted"}

\* What holds of goroutine j working on w while it has w for itself.
SoloJob(j, w) ==
  /\ job[j].pc = "finish" => apps[w] = Final(job[j].kind) \/ w \in unsaved
  /\ row[w] \in Settled =>
       /\ row[w] = "stopped" /\ job[j].pc = "walk" /\ job[j].at = "stopped"
       /\ job[j].next = After("stopped", w)

\* The strengthening of AppsFollowRow: w has at most one goroutine; the only
\* settled state under a goroutine is the stopped of a restart, which that
\* goroutine leaves again; and before the last move the apps are already written,
\* or are known not to be.
Solo(w) ==
  /\ \A j, k \in Jobs : Working(j, w) /\ Working(k, w) => j = k
  /\ \A j \in Jobs : Working(j, w) => SoloJob(j, w)
  /\ row[w] \in Settled /\ (\A j \in Jobs : ~Working(j, w))
       => apps[w] = row[w] \/ w \in unsaved

AllSolo == \A w \in Workstations \ (raced \cup lost) : Solo(w)

\* Goroutine j has w for itself: what is left to show of w concerns j.
LEMMA SoloHere ==
  ASSUME NEW w \in Workstations, NEW j \in Jobs,
         \A k \in Jobs : k # j => ~Working(k, w)',
         Working(j, w)' => SoloJob(j, w)',
         ~Working(j, w)' /\ row'[w] \in Settled => apps'[w] = row'[w] \/ w \in unsaved'
  PROVE  Solo(w)'
  BY DEF Solo

\* A step of goroutine j leaves the workstations of other goroutines alone.
LEMMA SoloElsewhere ==
  ASSUME NEW w \in Workstations, Solo(w), NEW j \in Jobs,
         row'[w] = row[w], apps'[w] = apps[w], w \in unsaved => w \in unsaved',
         \A k \in Jobs : k # j => job'[k] = job[k],
         ~Working(j, w), ~Working(j, w)'
  PROVE  Solo(w)'
<1>1. \A k \in Jobs : Working(k, w)' = Working(k, w)
  BY DEF Working
<1>2. \A k \in Jobs : Working(k, w) => SoloJob(k, w)'
  BY DEF Solo, SoloJob
<1> QED
  BY <1>1, <1>2 DEF Solo

\* The two together, for a step of goroutine j on its own workstation.
LEMMA StepSolo ==
  ASSUME AllSolo, NEW j \in Jobs, job[j].pc # "idle",
         raced' = raced, lost \subseteq lost', unsaved \subseteq unsaved',
         \A k \in Jobs : k # j => job'[k] = job[k],
         job'[j].pc # "idle" => job'[j].ws = job[j].ws,
         \A w \in Workstations : w # job[j].ws => row'[w] = row[w] /\ apps'[w] = apps[w],
         \A w \in Workstations \ lost' :
           Working(j, w) /\ SoloJob(j, w) =>
             /\ Working(j, w)' => SoloJob(j, w)'
             /\ ~Working(j, w)' /\ row'[w] \in Settled
                  => apps'[w] = row'[w] \/ w \in unsaved'
  PROVE  AllSolo'
<1> SUFFICES ASSUME NEW w \in Workstations \ (raced \cup lost') PROVE Solo(w)'
  BY DEF AllSolo
<1>0. Solo(w)
  BY DEF AllSolo
<1>1. CASE Working(j, w)
  <2>1. \A k \in Jobs : k # j => ~Working(k, w)'
    BY <1>0, <1>1 DEF Solo, Working
  <2>2. SoloJob(j, w)
    BY <1>0, <1>1 DEF Solo
  <2> QED
    BY <1>1, <2>1, <2>2, SoloHere
<1>2. CASE ~Working(j, w)
  <2>1. w # job[j].ws /\ ~Working(j, w)'
    BY <1>2 DEF Working
  <2> QED
    BY <1>0, <1>2, <2>1, SoloElsewhere
<1> QED
  BY <1>1, <1>2

\* A new goroutine: either w is raced from now on, or it starts alone on a
\* transient row.
LEMMA SpawnSolo ==
  ASSUME AllSolo, job \in [Jobs -> JobType], NEW w \in Workstations, NEW j \in Jobs,
         NEW kind, Spawn(j, kind, w),
         lost' = lost, row'[w] \notin Settled,
         \A v \in Workstations : v # w => row'[v] = row[v] /\ apps'[v] = apps[v]
  PROVE  AllSolo'
<1> SUFFICES ASSUME NEW v \in Workstations \ (raced' \cup lost) PROVE Solo(v)'
  BY DEF AllSolo
<1>1. /\ job[j].pc = "idle" /\ job'[j].pc = "read" /\ job'[j].ws = w
      /\ \A k \in Jobs : k # j => job'[k] = job[k]
      /\ raced \subseteq raced' /\ unsaved' = unsaved \ {w}
      /\ (\E k \in Jobs : Working(k, w)) => w \in raced'
  BY DEF Spawn
<1>2. Solo(v)
  BY <1>1 DEF AllSolo
<1>3. CASE v = w
  <2>1. \A k \in Jobs : k # j => ~Working(k, v)'
    BY <1>1, <1>3 DEF Working
  <2>2. SoloJob(j, v)'
    BY <1>1, <1>3 DEF SoloJob
  <2>3. row'[v] \notin Settled
    BY <1>3
  <2> QED
    BY <2>1, <2>2, <2>3, SoloHere
<1>4. CASE v # w
  <2>1. ~Working(j, v) /\ ~Working(j, v)'
    BY <1>1, <1>4 DEF Working
  <2> QED
    BY <1>1, <1>2, <1>4, <2>1, SoloElsewhere
<1> QED
  BY <1>3, <1>4

LEMMA NextSolo == TypeInv /\ AllSolo /\ [Next]_vars => AllSolo'
<1> SUFFICES ASSUME TypeInv, AllSolo, [Next]_vars PROVE AllSolo'
  OBVIOUS
<1>t. /\ row \in [Workstations -> States \cup {Absent}]
      /\ apps \in [Workstations -> AppStates]
      /\ job \in [Jobs -> JobType]
      /\ JobsOK
  BY DEF TypeInv, TypeOK
<1> USE <1>t
<1>1. ASSUME NEW w \in Workstations, NEW j \in Jobs, Create(w, j) PROVE AllSolo'
  <2>1. row'[w] \notin Settled
    BY <1>1 DEF Create, SetRow, Settled
  <2> QED
    BY <1>1, <2>1, SpawnSolo DEF Create, SetRow
<1>2. ASSUME NEW w \in Workstations, NEW j \in Jobs, NEW a \in Actions, BeginAction(w, a, j)
      PROVE AllSolo'
  <2>1. row'[w] \notin Settled
    BY <1>2 DEF BeginAction, SetRow, Settled, Target, Actions
  <2> QED
    BY <1>2, <2>1, SpawnSolo DEF BeginAction, SetRow
<1> USE DEF JobType
\* Steps of a goroutine that write neither the row nor the apps and end neither
\* in the walk nor at the last move.
<1>3. ASSUME NEW j \in Jobs, UNCHANGED <<row, apps, lost, raced, unsaved>>,
             job[j].pc \notin {"idle", "walk"}, job'[j].pc \notin {"idle", "finish"},
             job'[j].ws = job[j].ws, \A k \in Jobs : k # j => job'[k] = job[k]
      PROVE  AllSolo'
  BY <1>3, StepSolo DEF SoloJob, Working
<1>4. ASSUME NEW j \in Jobs, ReadRow(j) PROVE AllSolo'
  BY <1>3, <1>4 DEF ReadRow, dbVars, ghostVars
<1>5. ASSUME NEW j \in Jobs, PrepareFails(j) \/ CallWorker(j) PROVE AllSolo'
  BY <1>3, <1>5 DEF PrepareFails, CallWorker, dbVars, ghostVars
<1>6. ASSUME NEW j \in Jobs, NEW ok \in BOOLEAN, WorkerReplies(j, ok) PROVE AllSolo'
  <2>1. /\ UNCHANGED <<row, apps, lost, raced, unsaved>>
        /\ job[j].pc = "wait" /\ job'[j].ws = job[j].ws
    BY <1>6 DEF WorkerReplies, dbVars, ghostVars
  <2>2. job'[j].pc \in {"apps", "walk", "fail"} /\ \A k \in Jobs : k # j => job'[k] = job[k]
    BY <1>6 DEF WorkerReplies
  <2> QED
    BY <1>3, <2>1, <2>2
<1>7. ASSUME NEW j \in Jobs, PullImages(j) PROVE AllSolo'
  <2>1. /\ raced' = raced /\ lost' = lost /\ apps' = apps /\ unsaved' = unsaved
        /\ job[j].pc = "pull"
        /\ \A k \in Jobs : k # j => job'[k] = job[k]
        /\ \/ job'[j].pc = "call" /\ job'[j].ws = job[j].ws /\ row'[job[j].ws] = "pulling-images"
           \/ job'[j].pc = "idle" /\ row' = row
        /\ job[j].ws \in Workstations
        /\ \A w \in Workstations : w # job[j].ws => row'[w] = row[w]
    BY <1>7 DEF PullImages, Return, NoJob, SetRow, ghostVars, JobsOK
  <2>2. \A w \in Workstations :
           Working(j, w) /\ SoloJob(j, w) =>
             /\ Working(j, w)' => SoloJob(j, w)'
             /\ ~Working(j, w)' /\ row'[w] \in Settled
                  => apps'[w] = row'[w] \/ w \in unsaved'
    BY <2>1 DEF Working, SoloJob, Settled
  <2> QED
    BY <2>1, <2>2, StepSolo
<1>8. ASSUME NEW j \in Jobs, Walk(j) PROVE AllSolo'
  <2>0. /\ raced' = raced /\ lost' = lost /\ apps' = apps /\ unsaved' = unsaved
        /\ job[j].pc = "walk"
        /\ job[j].ws \in Workstations /\ job[j].next \in Steps
        /\ \A k \in Jobs : k # j => job'[k] = job[k]
    BY <1>8 DEF Walk, Return, ghostVars, JobsOK
  <2>1. CASE Transitions(j, job[j].next)
    <3>1. /\ row' = [row EXCEPT ![job[j].ws] = job[j].next]
          /\ job'[j].ws = job[j].ws /\ job'[j].at = job[j].next
          /\ job'[j].next = After(job[j].next, job[j].ws)
          /\ job'[j].pc = IF After(job[j].next, job[j].ws) = "none" THEN "apps" ELSE "walk"
      BY <1>8, <2>1 DEF Walk, SetRow
    <3>2. \A w : After("stopped", w) # "none"
      BY DEF After
    <3>3. job[j].next \in Settled => job[j].next = "stopped"
      BY <2>0 DEF Settled, Steps
    <3>4. SoloJob(j, job[j].ws)'
      BY <2>0, <3>1, <3>2, <3>3 DEF SoloJob
    <3>5. \A w \in Workstations : Working(j, w) => w = job[j].ws /\ Working(j, w)'
      BY <2>0, <3>1 DEF Working
    <3>6. /\ job'[j].pc # "idle" => job'[j].ws = job[j].ws
          /\ \A w \in Workstations : w # job[j].ws => row'[w] = row[w] /\ apps'[w] = apps[w]
      BY <2>0, <3>1
    <3>7. \A w \in Workstations : Working(j, w) => SoloJob(j, w)'
      BY <3>1, <3>4, <3>5
    <3> QED
      BY <2>0, <3>5, <3>6, <3>7, StepSolo
  <2>2. CASE ~Transitions(j, job[j].next)
    <3>1. row' = row /\ job'[j].pc = "idle"
      BY <1>8, <2>2 DEF Walk, Return, NoJob
    <3>2. ASSUME NEW w \in Workstations, Working(j, w), SoloJob(j, w) PROVE row[w] \notin Settled
      <4>1. After("stopped", w) \in {"starting-vpn", "starting-apps"}
        BY DEF After
      <4>2. CanTransition("stopped", "starting-vpn") /\ CanTransition("stopped", "starting-apps")
        BY DEF CanTransition, transitions
      <4> QED
        BY <2>2, <3>2, <4>1, <4>2 DEF Working, SoloJob, Transitions, CompareState
    <3>3. \A w : ~Working(j, w)'
      BY <3>1 DEF Working
    <3> QED
      BY <2>0, <3>1, <3>2, <3>3, StepSolo
  <2> QED
    BY <2>1, <2>2
<1>9. ASSUME NEW j \in Jobs, SetAppStates(j) PROVE AllSolo'
  <2>1. /\ UNCHANGED <<row, lost, raced>> /\ job[j].pc = "apps" /\ job'[j].pc = "finish"
        /\ job'[j].ws = job[j].ws /\ job'[j].kind = job[j].kind
        /\ \A k \in Jobs : k # j => job'[k] = job[k]
        /\ job[j].ws \in Workstations /\ unsaved \subseteq unsaved'
        /\ \A w \in Workstations : w # job[j].ws => apps'[w] = apps[w]
        /\ apps'[job[j].ws] = Final(job[j].kind) \/ job[j].ws \in unsaved'
    BY <1>9 DEF SetAppStates, WriteApps, JobsOK
  <2>2. \A w \in Workstations :
           Working(j, w) /\ SoloJob(j, w) => Working(j, w)' /\ SoloJob(j, w)'
    BY <2>1 DEF Working, SoloJob
  <2> QED
    BY <2>1, <2>2, StepSolo
<1>10. ASSUME NEW j \in Jobs, Finish(j) PROVE AllSolo'
  <2>1. /\ UNCHANGED <<apps, lost, raced, unsaved>>
        /\ job[j].pc = "finish" /\ job'[j].pc = "idle"
        /\ \A k \in Jobs : k # j => job'[k] = job[k]
        /\ job[j].ws \in Workstations
        /\ row' = row \/ row' = [row EXCEPT ![job[j].ws] = Final(job[j].kind)]
    BY <1>10 DEF Finish, SetRow, Return, NoJob, ghostVars, JobsOK
  <2>2. \A w \in Workstations :
           Working(j, w) /\ SoloJob(j, w) /\ row'[w] \in Settled
             => apps'[w] = row'[w] \/ w \in unsaved'
    BY <2>1 DEF Working, SoloJob
  <2>3. \A w : ~Working(j, w)'
    BY <2>1 DEF Working
  <2> QED
    BY <2>1, <2>2, <2>3, StepSolo
<1>11. ASSUME NEW j \in Jobs, Fail(j) PROVE AllSolo'
  <2>1. /\ UNCHANGED <<apps, lost, raced, unsaved>> /\ job[j].pc = "fail"
        /\ \/ job'[j].pc = "idle"
           \/ job'[j].pc = "failapps" /\ job'[j].ws = job[j].ws
        /\ \A k \in Jobs : k # j => job'[k] = job[k]
        /\ job[j].ws \in Workstations
        /\ row' = row \/ row' = [row EXCEPT ![job[j].ws] = "error"]
    BY <1>11 DEF Fail, SetRow, Return, NoJob, ghostVars, JobsOK
  <2>2. \A w \in Workstations : Working(j, w) /\ SoloJob(j, w) => row'[w] \notin Settled
    BY <2>1 DEF Working, SoloJob, Settled
  <2>3. \A w \in Workstations :
          Working(j, w) /\ SoloJob(j, w) => (Working(j, w)' => SoloJob(j, w)')
    BY <2>1, <2>2 DEF Working, SoloJob
  <2> QED
    BY <2>1, <2>2, <2>3, StepSolo
<1>12. ASSUME NEW j \in Jobs, FailApps(j) PROVE AllSolo'
  <2>1. /\ UNCHANGED <<row, lost, raced>> /\ job[j].pc = "failapps" /\ job'[j].pc = "idle"
        /\ \A k \in Jobs : k # j => job'[k] = job[k]
        /\ job[j].ws \in Workstations /\ unsaved \subseteq unsaved'
        /\ \A w \in Workstations : w # job[j].ws => apps'[w] = apps[w]
    BY <1>12 DEF FailApps, WriteApps, Return, NoJob, JobsOK
  <2>2. \A w \in Workstations : Working(j, w) /\ SoloJob(j, w) => row'[w] \notin Settled
    BY <2>1 DEF Working, SoloJob
  <2>3. \A w : ~Working(j, w)'
    BY <2>1 DEF Working
  <2> QED
    BY <2>1, <2>2, <2>3, StepSolo
<1>13. ASSUME NEW j \in Jobs, Expire(j) PROVE AllSolo'
  <2>1. /\ UNCHANGED <<row, apps, raced, unsaved>> /\ lost' = lost \cup {job[j].ws}
        /\ job[j].pc # "idle" /\ job'[j].pc = "idle"
        /\ \A k \in Jobs : k # j => job'[k] = job[k]
    BY <1>13 DEF Expire, Return, NoJob, dbVars
  <2>2. \A w \in Workstations \ lost' : ~Working(j, w)
    BY <2>1 DEF Working
  <2> QED
    BY <2>1, <2>2, StepSolo
<1>19. ASSUME NEW j \in Jobs, ErrorUnsaved(j) PROVE AllSolo'
  <2>1. /\ UNCHANGED <<row, apps, raced, unsaved>> /\ lost' = lost \cup {job[j].ws}
        /\ job[j].pc # "idle" /\ job'[j].ws = job[j].ws
        /\ \A k \in Jobs : k # j => job'[k] = job[k]
    BY <1>19 DEF ErrorUnsaved, dbVars
  <2>2. \A w \in Workstations \ lost' : ~Working(j, w)
    BY <2>1 DEF Working
  <2> QED
    BY <2>1, <2>2, StepSolo
<1>14. ASSUME NEW w \in Workstations, ReconcileMark(w) PROVE AllSolo'
  <2>1. /\ UNCHANGED <<apps, job, lost, raced, unsaved>>
        /\ \A v \in Workstations : row'[v] = row[v] \/ row'[v] = "error"
    BY <1>14 DEF ReconcileMark, SetRow, ghostVars
  <2>2. \A v \in Workstations : Solo(v) => Solo(v)'
    BY <2>1 DEF Solo, SoloJob, Working, Settled
  <2> QED
    BY <2>1, <2>2 DEF AllSolo
<1>15. ASSUME UNCHANGED <<row, apps, job, lost, raced, unsaved>> PROVE AllSolo'
  BY <1>15 DEF AllSolo, Solo, SoloJob, Working
<1>16. ASSUME NEW listed \in SUBSET Workstations, ReconcileList(listed)
       PROVE  UNCHANGED <<row, apps, job, lost, raced, unsaved>>
  BY <1>16 DEF ReconcileList, dbVars, ghostVars
<1>17. ASSUME ReconcileRead \/ ReconcileEnd \/ Start \/ UNCHANGED vars
       PROVE  UNCHANGED <<row, apps, job, lost, raced, unsaved>>
  BY <1>17 DEF ReconcileRead, ReconcileEnd, Start, dbVars, ghostVars, vars
<1>18. ASSUME Crash PROVE AllSolo'
  <2>1. UNCHANGED <<row, apps, raced, unsaved>> /\ lost \subseteq lost'
    BY <1>18 DEF Crash, dbVars
  <2>2. \A w \in Workstations \ lost', j \in Jobs : ~Working(j, w) /\ ~Working(j, w)'
    BY <1>18 DEF Crash, Working, NoJob
  <2> QED
    BY <2>1, <2>2 DEF AllSolo, Solo
<1> QED
  BY <1>1, <1>2, <1>4, <1>5, <1>6, <1>7, <1>8, <1>9, <1>10, <1>11, <1>12, <1>13,
     <1>14, <1>15, <1>16, <1>17, <1>18, <1>19 DEF Next, Request, Run, Call, Reconcile

\* The app states shown to users agree with the settled row, although
\* SetAppStates compares nothing, unless goroutines of the workstation
\* overlapped, one of them was cut short, or the last one could not write the
\* app states; a failed write is made good by the next action that succeeds.
THEOREM AppsAgree == Spec => []AppsFollowRow
<1>1. Init => AllSolo
  BY DEF Init, AllSolo, Solo, Working, NoJob, NoRows, Settled, Absent
<1>2. AllSolo => AppsFollowRow
  BY DEF AllSolo, Solo, AppsFollowRow, Settled
<1> QED
  BY <1>1, <1>2, NextSolo, TypeInvariance, PTL DEF Spec
=============================================================================
