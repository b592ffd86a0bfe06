------------------------------ MODULE Lifecycle ------------------------------
(***************************************************************************)
(* The controller's workstation lifecycle: internal/httpapi/workstations.go *)
(* over the workstation rows of internal/database/database.go.             *)
(*                                                                         *)
(* A request handler checks the transition table, moves the row by         *)
(* compare-and-swap and starts a goroutine.  The goroutine reads the row   *)
(* again into a local copy, calls the worker over HTTP, and then walks the *)
(* row through the remaining states, every move validated against its      *)
(* local copy and swapped against the database.  Several goroutines,       *)
(* reconciliation and a crash of the controller may interleave.            *)
(*                                                                         *)
(* The worker is open here: it may answer any call with success or with an *)
(* error, and may list any set of workstations.  Module System closes it.  *)
(***************************************************************************)
EXTENDS WorkstationState

CONSTANTS
  Workstations,        \* workstation ids
  VPN,                 \* the workstations whose row has vpn_required set
  Jobs,                \* goroutine slots: the bound on concurrent goroutines
  ReconcileOnStartup   \* the configuration switch of cmd/controller

ASSUME VPNAssumption == VPN \subseteq Workstations
ASSUME ReconcileAssumption == ReconcileOnStartup \in BOOLEAN
\* Model values and strings never clash: no id is one of the sentinels.
ASSUME NoneAssumption == "none" \notin Workstations

VARIABLES
  row,     \* workstations.state, or Absent
  apps,    \* workstation_apps.state: every writer sets all apps of a workstation
  job,     \* the lifecycle goroutines
  phase,   \* the controller process
  recon,   \* the reconciliation in progress
  lost,    \* ghost: workstations one of whose goroutines was killed or timed out
  raced,   \* ghost: workstations that had two goroutines at the same time
  unsaved  \* ghost: workstations whose SetAppStates failed since the last request

dbVars == <<row, apps>>
ghostVars == <<lost, raced, unsaved>>
vars == <<row, apps, job, phase, recon, lost, raced, unsaved>>

Actions == {"start", "stop", "restart", "update", "delete"}
Kinds == Actions \cup {"provision"}

AppStates == {"none", "creating", "ready", "stopped", "deleted", "error"}

PCs == {"idle", "read", "pull", "call", "wait", "walk", "apps", "finish", "fail", "failapps"}

\* The states a goroutine still has to write before the final one.
Steps == {"creating-storage", "starting-vpn", "waiting-for-vpn", "starting-apps", "stopped"}

NoJob == [kind |-> "none", ws |-> "none", pc |-> "idle", at |-> Absent, next |-> "none"]

JobType ==
  [kind : Kinds \cup {"none"}, ws : Workstations \cup {"none"}, pc : PCs,
   at : States \cup {Absent}, next : Steps \cup {"none"}]

NoRows == [w \in Workstations |-> Absent]

Idle == [pc |-> "idle", listed |-> {}, seen |-> NoRows]

TypeOK ==
  /\ row \in [Workstations -> States \cup {Absent}]
  /\ apps \in [Workstations -> AppStates]
  /\ job \in [Jobs -> JobType]
  /\ phase \in {"down", "starting", "serving"}
  /\ recon \in [pc : {"idle", "read", "mark"}, listed : SUBSET Workstations,
                seen : [Workstations -> States \cup {Absent}]]
  /\ lost \in SUBSET Workstations
  /\ raced \in SUBSET Workstations
  /\ unsaved \in SUBSET Workstations

Init ==
  /\ row = NoRows
  /\ apps = [w \in Workstations |-> "none"]
  /\ job = [j \in Jobs |-> NoJob]
  /\ phase = "down"
  /\ recon = Idle
  /\ lost = {}
  /\ raced = {}
  /\ unsaved = {}

-----------------------------------------------------------------------------
(* What each request asks for.                                             *)

\* beginAction: the state the handler itself writes.
Target(action, w) ==
  CASE action \in {"stop", "restart"} -> "stopping"
    [] action = "start"  -> IF w \in VPN THEN "starting-vpn" ELSE "starting-apps"
    [] action = "update" -> "pulling-images"
    [] action = "delete" -> "deleting"

\* The first state a goroutine writes after the worker succeeded; "none" when
\* only the app states and the final state remain.
First(kind, w) ==
  CASE kind \in {"provision", "update"} -> "creating-storage"
    [] kind = "restart" -> "stopped"
    [] kind = "start"   -> IF w \in VPN THEN "waiting-for-vpn" ELSE "none"
    [] OTHER            -> "none"

\* The state written after `step`.
After(step, w) ==
  CASE step \in {"creating-storage", "stopped"} ->
         IF w \in VPN THEN "starting-vpn" ELSE "starting-apps"
    [] step = "starting-vpn"    -> "waiting-for-vpn"
    [] step = "waiting-for-vpn" -> "starting-apps"
    [] OTHER                    -> "none"

Final(kind) ==
  CASE kind = "stop" -> "stopped" [] kind = "delete" -> "deleted" [] OTHER -> "ready"

-----------------------------------------------------------------------------
(* Database and goroutine helpers.                                         *)

CompareState_Blind(w, from) == row[w] # Absent

\* SetWorkstationState: UPDATE ... WHERE id = ? AND state = ? changes one row.
CompareState(w, from) == row[w] = from

\* transition: validated against the goroutine's copy, then compared and swapped.
Transitions(j, to) ==
  /\ CanTransition(job[j].at, to)
  /\ CompareState(job[j].ws, job[j].at)

SetRow(w, to) == row' = [row EXCEPT ![w] = to]

\* db.SetAppStates is unconditional: it compares nothing.  Every caller discards
\* its error and goes on, so a failed write leaves the old app states behind.
WriteApps(w, state) ==
  \/ apps' = [apps EXCEPT ![w] = state] /\ UNCHANGED unsaved
  \/ unsaved' = unsaved \cup {w} /\ UNCHANGED apps

Working(j, w) == job[j].pc # "idle" /\ job[j].ws = w

Return(j) == job' = [job EXCEPT ![j] = NoJob]

\* go s.provision / s.runAction / s.runRestart / s.runUpdate
Spawn(j, kind, w) ==
  /\ job[j].pc = "idle"
  /\ job' = [job EXCEPT ![j] = [kind |-> kind, ws |-> w, pc |-> "read",
                                      at |-> Absent, next |-> "none"]]
  /\ raced' = IF \E k \in Jobs : Working(k, w) THEN raced \cup {w} ELSE raced
  /\ unsaved' = unsaved \ {w}

-----------------------------------------------------------------------------
(* Requests.                                                               *)

\* create: the row and its apps are inserted in one transaction, then provision starts.
Create(w, j) ==
  /\ phase = "serving"
  /\ row[w] = Absent
  /\ SetRow(w, "creating")
  /\ apps' = [apps EXCEPT ![w] = "creating"]
  /\ Spawn(j, "provision", w)
  /\ UNCHANGED <<phase, recon, lost>>

\* beginAction: the row is read, checked and swapped; a refused request changes nothing.
BeginAction(w, action, j) ==
  /\ phase = "serving"
  /\ CanTransition(row[w], Target(action, w))
  /\ SetRow(w, Target(action, w))
  /\ Spawn(j, action, w)
  /\ UNCHANGED <<apps, phase, recon, lost>>

-----------------------------------------------------------------------------
(* The goroutines: provision, runAction, runRestart, runUpdate.            *)

\* The goroutine's own db.Workstation: from here on it works with this copy.
ReadRow(j) ==
  /\ job[j].pc = "read"
  /\ job' = [job EXCEPT ![j].at = row[job[j].ws],
                        ![j].pc = IF job[j].kind = "provision" THEN "pull" ELSE "call"]
  /\ UNCHANGED <<dbVars, phase, recon, ghostVars>>

PullImages_Misspelt(j) ==
  /\ job[j].pc = "pull"
  /\ SetRow(job[j].ws, "pulling")
  /\ job' = [job EXCEPT ![j].at = "pulling", ![j].pc = "call"]
  /\ UNCHANGED <<apps, phase, recon, ghostVars>>

\* provision's first move.
PullImages(j) ==
  /\ job[j].pc = "pull"
  /\ IF Transitions(j, "pulling-images")
     THEN /\ SetRow(job[j].ws, "pulling-images")
          /\ job' = [job EXCEPT ![j].at = "pulling-images", ![j].pc = "call"]
     ELSE Return(j) /\ UNCHANGED row
  /\ UNCHANGED <<apps, phase, recon, ghostVars>>

\* provisionRequest fails: profile gone or disabled, app gone from the registry.
PrepareFails(j) ==
  /\ job[j].pc = "call"
  /\ job[j].kind \in {"provision", "update"}
  /\ job' = [job EXCEPT ![j].pc = "fail"]
  /\ UNCHANGED <<dbVars, phase, recon, ghostVars>>

\* worker.Provision, worker.Rebuild or worker.Action is sent.
CallWorker(j) ==
  /\ job[j].pc = "call"
  /\ job' = [job EXCEPT ![j].pc = "wait"]
  /\ UNCHANGED <<dbVars, phase, recon, ghostVars>>

WorkerReplies_Optimistic(j, ok) ==
  /\ job[j].pc = "wait"
  /\ LET first == First(job[j].kind, job[j].ws)
     IN  job' = [job EXCEPT ![j].next = first,
                            ![j].pc = IF first = "none" THEN "apps" ELSE "walk"]
  /\ UNCHANGED <<dbVars, phase, recon, ghostVars>>

\* The call returns; the HTTP client's own timeout is an error answer.
WorkerReplies(j, ok) ==
  /\ job[j].pc = "wait"
  /\ LET first == First(job[j].kind, job[j].ws)
     IN  job' = IF ok THEN [job EXCEPT ![j].next = first,
                                       ![j].pc = IF first = "none" THEN "apps" ELSE "walk"]
                ELSE [job EXCEPT ![j].pc = "fail"]
  /\ UNCHANGED <<dbVars, phase, recon, ghostVars>>

Walk_StaleCopy(j) ==
  /\ job[j].pc = "walk"
  /\ LET to == job[j].next
         then == After(to, job[j].ws)
     IN  IF Transitions(j, to)
         THEN /\ SetRow(job[j].ws, to)
              /\ job' = [job EXCEPT ![j].next = then,
                                    ![j].pc = IF then = "none" THEN "apps" ELSE "walk"]
         ELSE Return(j) /\ UNCHANGED row
  /\ UNCHANGED <<apps, phase, recon, ghostVars>>

\* One of the moves between the worker's answer and the final state.
Walk(j) ==
  /\ job[j].pc = "walk"
  /\ LET to == job[j].next
         then == After(to, job[j].ws)
     IN  IF Transitions(j, to)
         THEN /\ SetRow(job[j].ws, to)
              /\ job' = [job EXCEPT ![j].at = to, ![j].next = then,
                                    ![j].pc = IF then = "none" THEN "apps" ELSE "walk"]
         ELSE Return(j) /\ UNCHANGED row
  /\ UNCHANGED <<apps, phase, recon, ghostVars>>

SetAppStates_Omitted(j) ==
  /\ job[j].pc = "apps"
  /\ job' = [job EXCEPT ![j].pc = "finish"]
  /\ UNCHANGED <<row, apps, phase, recon, ghostVars>>

\* The app states are written before the last move, which follows in any case.
SetAppStates(j) ==
  /\ job[j].pc = "apps"
  /\ WriteApps(job[j].ws, Final(job[j].kind))
  /\ job' = [job EXCEPT ![j].pc = "finish"]
  /\ UNCHANGED <<row, phase, recon, lost, raced>>

\* The last move; its error is ignored.
Finish(j) ==
  /\ job[j].pc = "finish"
  /\ IF Transitions(j, Final(job[j].kind))
     THEN SetRow(job[j].ws, Final(job[j].kind))
     ELSE UNCHANGED row
  /\ Return(j)
  /\ UNCHANGED <<apps, phase, recon, ghostVars>>

Fail_Silent(j) ==
  /\ job[j].pc = "fail"
  /\ IF job[j].kind \in {"provision", "update"}
     THEN job' = [job EXCEPT ![j].pc = "failapps", ![j].at = Absent]
     ELSE Return(j)
  /\ UNCHANGED <<dbVars, phase, recon, ghostVars>>

\* The move to error; its error is ignored too.
Fail(j) ==
  /\ job[j].pc = "fail"
  /\ IF Transitions(j, "error") THEN SetRow(job[j].ws, "error") ELSE UNCHANGED row
  /\ IF job[j].kind \in {"provision", "update"}
     THEN job' = [job EXCEPT ![j].pc = "failapps", ![j].at = Absent]
     ELSE Return(j)
  /\ UNCHANGED <<apps, phase, recon, ghostVars>>

\* The database fails the move to error: the row stays where it is, and a
\* provision or an update still goes on to the app states.
ErrorUnsaved(j) ==
  /\ job[j].pc = "fail"
  /\ job[j].kind \in {"provision", "update"}
  /\ job' = [job EXCEPT ![j].pc = "failapps", ![j].at = Absent]
  /\ lost' = lost \cup {job[j].ws}
  /\ UNCHANGED <<dbVars, phase, recon, raced, unsaved>>

FailApps(j) ==
  /\ job[j].pc = "failapps"
  /\ WriteApps(job[j].ws, "error")
  /\ Return(j)
  /\ UNCHANGED <<row, phase, recon, lost, raced>>

\* The goroutine returns without a trace: its context (10 or 30 minutes) ends, so
\* that every later write fails, or the database fails its read or one of its
\* moves.
Expire(j) ==
  /\ job[j].pc # "idle"
  /\ Return(j)
  /\ lost' = lost \cup {job[j].ws}
  /\ UNCHANGED <<dbVars, phase, recon, raced, unsaved>>

-----------------------------------------------------------------------------
(* Reconcile, and the controller process.                                  *)

\* Reconcile asks worker.List, at startup or from the admin endpoint, for the
\* workstations that have at least one managed container.
ReconcileList(listed) ==
  /\ phase \in {"starting", "serving"}
  /\ recon.pc = "idle"
  /\ recon' = [Idle EXCEPT !.pc = "read", !.listed = listed]
  /\ UNCHANGED <<dbVars, job, phase, ghostVars>>

ReconcileRead_All ==
  /\ recon.pc = "read"
  /\ recon' = [Idle EXCEPT !.pc = "mark",
                 !.seen = [w \in Workstations |-> IF w \in recon.listed THEN Absent ELSE row[w]]]
  /\ UNCHANGED <<dbVars, job, phase, ghostVars>>

\* db.AllActiveWorkstations, and the rows the loop will mark: those that the
\* earlier listing did not name.
ReconcileRead ==
  /\ recon.pc = "read"
  /\ recon' = [Idle EXCEPT !.pc = "mark",
                 !.seen = [w \in Workstations |->
                             IF \/ w \in recon.listed
                                \/ row[w] \in {"deleted", "deleting", "creating", "pulling-images"}
                             THEN Absent ELSE row[w]]]
  /\ UNCHANGED <<dbVars, job, phase, ghostVars>>

\* The compare-and-swap to error; no ValidateTransition on this path.  Its error
\* is ignored, whether the row has moved on or the database failed.
ReconcileMark(w) ==
  /\ recon.pc = "mark"
  /\ recon.seen[w] # Absent
  /\ \/ CompareState(w, recon.seen[w]) /\ SetRow(w, "error")
     \/ UNCHANGED row
  /\ recon' = [recon EXCEPT !.seen[w] = Absent]
  /\ UNCHANGED <<apps, job, phase, ghostVars>>

\* Reconcile returns: done, or the worker or its context failed on the way.
ReconcileEnd ==
  /\ phase = "starting" \/ recon.pc # "idle"
  /\ recon' = Idle
  /\ phase' = "serving"
  /\ UNCHANGED <<dbVars, job, ghostVars>>

\* main: the startup reconciliation comes before the listener.
Start ==
  /\ phase = "down"
  /\ phase' = IF ReconcileOnStartup THEN "starting" ELSE "serving"
  /\ UNCHANGED <<dbVars, job, recon, ghostVars>>

\* The process dies: the rows stay, the goroutines do not.
Crash ==
  /\ phase # "down"
  /\ phase' = "down"
  /\ job' = [j \in Jobs |-> NoJob]
  /\ recon' = Idle
  /\ lost' = lost \cup {w \in Workstations : \E j \in Jobs : Working(j, w)}
  /\ UNCHANGED <<dbVars, raced, unsaved>>

-----------------------------------------------------------------------------

Request ==
  \E w \in Workstations, j \in Jobs :
    Create(w, j) \/ \E action \in Actions : BeginAction(w, action, j)

\* What a goroutine does by itself, the worker's answer apart.
Run(j) ==
  \/ ReadRow(j) \/ PullImages(j) \/ Walk(j) \/ SetAppStates(j)
  \/ Finish(j) \/ Fail(j) \/ FailApps(j)

Call(j) == PrepareFails(j) \/ CallWorker(j) \/ \E ok \in BOOLEAN : WorkerReplies(j, ok)

Reconcile ==
  \/ \E listed \in SUBSET Workstations : ReconcileList(listed)
  \/ ReconcileRead
  \/ \E w \in Workstations : ReconcileMark(w)
  \/ ReconcileEnd

Next ==
  \/ Request
  \/ \E j \in Jobs : Run(j) \/ Call(j) \/ ErrorUnsaved(j) \/ Expire(j)
  \/ Reconcile
  \/ Start
  \/ Crash

Spec == Init /\ [][Next]_vars

\* Goroutines keep running, and a call is answered: the client gives up after
\* 15 minutes at the latest.  Nothing is assumed of users, of reconciliation,
\* of crashes or of deadlines.
Fairness == \A j \in Jobs : WF_vars(Run(j)) /\ WF_vars(Call(j))

\* The behaviours in which no goroutine is cut short by a crash, a deadline or a
\* failed move.
UncutSpec == Init /\ [][Next /\ UNCHANGED lost]_vars /\ Fairness
-----------------------------------------------------------------------------
(* Properties.                                                             *)

Row == INSTANCE WorkstationRow

\* Whatever goroutines, reconciliation and crashes do to each other, the state
\* column only changes as WorkstationRow allows (transition,
\* SetWorkstationState and Reconcile together).
RowSpec == Row!Spec

\* A deleted workstation stays deleted: no late goroutine and no stale
\* reconciliation snapshot brings the row back.
DeletedIsFinal == [][\A w \in Workstations : row[w] = "deleted" => row'[w] = "deleted"]_row

\* Goroutine j will move row w out of its present state: the row is what j's
\* local copy says (or j has still to read it), and j's next move is allowed.
Tends(j, w) ==
  LET to == CASE job[j].pc = "walk" -> job[j].next
              [] job[j].pc = "pull" -> "pulling-images"
              [] job[j].pc = "fail" -> "error"
              [] job[j].pc \in {"call", "wait"} /\ First(job[j].kind, w) # "none" ->
                   First(job[j].kind, w)
              [] OTHER -> Final(job[j].kind)
  IN  /\ job[j].ws = w
      /\ \/ /\ job[j].pc = "read"
            /\ row[w] = IF job[j].kind = "provision" THEN "creating" ELSE Target(job[j].kind, w)
         \/ /\ job[j].pc \in {"pull", "call", "wait", "walk", "apps", "finish", "fail"}
            /\ job[j].at = row[w]
            /\ CanTransition(row[w], to)

\* A row in a transient state is never abandoned by a race: as long as no
\* goroutine of the workstation was killed or timed out, one of them is there
\* to move the row on, even when deletes, reconciliation and goroutines with
\* outdated copies overlap.
TransientIsTended ==
  \A w \in Workstations \ lost :
    row[w] \in Transient => \E j \in Jobs : Tends(j, w)

\* The shape of a goroutine's local state, used to make the others inductive.
JobsOK ==
  \A j \in Jobs :
    /\ job[j].pc = "idle" => job[j] = NoJob
    /\ job[j].pc # "idle" => job[j].ws \in Workstations /\ job[j].kind \in Kinds
    /\ job[j].pc = "pull" => job[j].kind = "provision"
    /\ IF job[j].pc = "walk"
       THEN job[j].next \in Steps /\ job[j].kind \notin {"stop", "delete"}
       ELSE job[j].next = "none"

\* Once a workstation's goroutines are done, the states shown for its apps are
\* those of the workstation, unless goroutines overlapped (SetAppStates is
\* unconditional), one of them was cut short, or the last one could not write
\* the app states; what an earlier one could not write is made good.
AppsFollowRow ==
  \A w \in Workstations \ (raced \cup lost \cup unsaved) :
    row[w] \in {"ready", "stopped", "deleted"} /\ (\A j \in Jobs : ~Working(j, w))
      => apps[w] = row[w]

\* Every request that was accepted comes to an end: unless a goroutine of the
\* workstation is cut short, the row leaves the transient states, whatever
\* other requests and reconciliation do meanwhile.
Settles == \A w \in Workstations : row[w] \in Transient ~> row[w] \notin Transient

\* docs/recovery.md: "After interrupted deletion, retry the delete action."  A
\* workstation left in deleting with nobody working on it accepts a delete.
DeleteCanBeRetried ==
  \A w \in Workstations :
    row[w] = "deleting" /\ (\A j \in Jobs : ~Working(j, w))
      => CanTransition(row[w], Target("delete", w))

\* docs/architecture.md: "Database state updates use compare-and-swap semantics
\* so concurrent actions cannot silently overwrite one another."  Once a delete
\* has been accepted, no goroutine of an earlier action moves the row.
NoSilentOverwrite ==
  [][\A j \in Jobs, w \in Workstations :
       /\ Working(j, w)
       /\ job[j].kind # "delete"
       /\ job'[j] # job[j]
       /\ row[w] = "deleting"
       => row'[w] = "deleting"]_vars
=============================================================================
