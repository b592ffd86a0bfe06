---------------------------- MODULE DockerWorker ----------------------------
(***************************************************************************)
(* The worker (internal/dockerworker) on the resources of one workstation. *)
(*                                                                         *)
(* The worker keeps no state between calls and no lock: every HTTP call of *)
(* the controller is a script of Docker requests, run one after the other, *)
(* over whatever the engine holds at that moment.  A script is a sequence  *)
(* of steps; a step does one thing to each resource of a set.  Any request *)
(* may fail, and with it the call; the calls of several controllers'       *)
(* goroutines interleave request by request.                               *)
(*                                                                         *)
(* Names are derived from the workstation id, so the resources of two      *)
(* workstations are disjoint, and one workstation is enough.               *)
(***************************************************************************)
EXTENDS Naturals, Sequences, FiniteSets

CONSTANTS
  Apps,      \* the container apps of the workstation
  Owned,     \* the apps whose storage has an owner and is initialised
  Probed,    \* the apps with a health path
  Seeding,   \* the workstation has a workspace image
  Calls      \* slots of calls in progress: the bound on concurrency

ASSUME AppsAssumption == Owned \subseteq Apps /\ Probed \subseteq Apps /\ "-" \notin Apps
ASSUME SeedingAssumption == Seeding \in BOOLEAN

VARIABLES
  res,         \* what the engine holds
  seeded,      \* the workspace volume carries the seed marker
  edited,      \* the workspace volume holds changes of the user
  call,        \* the calls in progress
  overlapped,  \* ghost: two calls were in progress at the same time
  fallen       \* ghost: a container stopped by itself since the last call arrived

engineVars == <<res, seeded, edited>>
ghostVars == <<overlapped, fallen>>
vars == <<res, seeded, edited, call, overlapped, fallen>>

-----------------------------------------------------------------------------
(* Resources: pairs of a label resource-type and an app.                   *)

Gateway == <<"wslan", "-">>
Seed == <<"seed", "-">>
Network == <<"network", "-">>
Workspace == <<"volume", "-">>
Sandbox(a) == <<"sandbox", a>>
Init_(a) == <<"init", a>>
App(a) == <<"app", a>>
Volume(a) == <<"volume", a>>

OfKind(kinds) ==
  {r \in kinds \X (Apps \cup {"-"}) :
     r[2] = "-" <=> r[1] \in {"wslan", "seed", "network"} \/ r = Workspace}

Longlived == OfKind({"wslan", "sandbox", "app"})
Oneshot == OfKind({"seed", "init"})
Containers == Longlived \cup Oneshot
Volumes == OfKind({"volume"})
Resources == Containers \cup {Network} \cup Volumes

\* present: created or stopped; failed: a job container that exited with an
\* error; stray: a volume Docker made for a mount, without the manager's labels.
Statuses == {"absent", "present", "running", "failed", "stray"}

resourceRank_Flat(r) == IF r[1] = "wslan" THEN 0 ELSE 1

\* The order of the sweeps: networks and volumes are swept apart.
resourceRank(r) ==
  CASE r[1] = "wslan" -> 0 [] r[1] = "sandbox" -> 1 [] r[1] = "app" -> 2 [] OTHER -> 3

-----------------------------------------------------------------------------
(* Scripts.                                                                *)

\* A step on named resources, and a step on those of `on` that were listed.
One(do, r) == [do |-> do, on |-> {r}, listed |-> FALSE]
Each(do, on) == [do |-> do, on |-> on, listed |-> TRUE]
List(on) == [do |-> "list", on |-> on, listed |-> FALSE]
Pull == [do |-> "pull", on |-> {}, listed |-> FALSE]

\* Runs a container that ends by itself.
RunJob(c) == <<One("create", c), One("start", c), One("wait", c), One("delete", c)>>

seedWorkspace_NoWait ==
  IF Seeding THEN <<One("delete", Seed), One("create", Seed), One("start", Seed)>> ELSE <<>>

\* An earlier attempt's container is deleted first.
seedWorkspace == IF Seeding THEN <<One("delete", Seed)>> \o RunJob(Seed) ELSE <<>>

\* createResources up to the apps.  The connection of the gateway and the copy
\* of its WireGuard profile need the gateway to exist.
createBase ==
  <<One("create", Workspace)>> \o seedWorkspace \o
  <<One("create", Network), One("create", Gateway), One("connect", Gateway),
    One("start", Gateway), One("health", Gateway)>>

createApp_Unstarted == [a \in Apps |->
  <<One("create", Sandbox(a)), One("start", Sandbox(a)), One("create", Volume(a)),
    One("create", App(a))>>]

\* One round of createResources' loop.
createApp == [a \in Apps |->
  <<One("create", Sandbox(a)), One("start", Sandbox(a)), One("create", Volume(a))>>
  \o (IF a \in Owned THEN RunJob(Init_(a)) ELSE <<>>)
  \o <<One("create", App(a)), One("start", App(a))>>
  \o (IF a \in Probed THEN <<One("health", App(a))>> ELSE <<>>)]

\* start: the gateway comes first and its health is awaited.
startEach ==
  <<Each("start", {Gateway}), Each("health", {Gateway}), Each("start", Containers \ {Gateway})>>

DeleteListed(on) == <<List(on), Each("delete", on)>>

RemoveWorkstation_KeepVolumes == DeleteListed(Containers) \o DeleteListed({Network})

RemoveWorkstation_VolumesFirst ==
  DeleteListed(Volumes) \o DeleteListed(Containers) \o DeleteListed({Network})

RemoveWorkstation ==
  DeleteListed(Containers) \o DeleteListed({Network}) \o DeleteListed(Volumes)

restartAll_Blind == <<List(Containers), Each("stop", Containers)>> \o startEach

\* Each container is inspected, and stopped when it was found running; one
\* listing serves both sweeps.
restartAll == <<List(Containers), Each("halt", Containers)>> \o startEach

Ops == {"provision", "rebuild", "start", "stop", "restart", "delete"}

\* provision and rebuild go on with createApp for every app.
Script == [op \in Ops |->
  CASE op = "provision" -> <<Pull>> \o createBase
    [] op = "rebuild"   -> <<Pull>> \o DeleteListed(Longlived) \o DeleteListed({Network})
                             \o createBase
    [] op = "start"     -> <<List(Containers)>> \o startEach
    [] op = "stop"      -> <<List(Containers), Each("stop", Containers)>>
    [] op = "restart"   -> restartAll
    [] op = "delete"    -> RemoveWorkstation]

-----------------------------------------------------------------------------
(* The engine, as the worker uses it.                                      *)

Exists(r) == res[r] # "absent"
Running(r) == res[r] = "running"

\* A listing filters by label.
Listed(r) == res[r] \notin {"absent", "stray"}

Mounts(c) ==
  CASE c[1] = "seed" -> {Workspace}
    [] c[1] \in {"init", "app"} -> {Workspace, Volume(c[2])}
    [] OTHER -> {}

\* What a container needs to come up: its network, or the namespace it joins.
Startable(c) ==
  CASE c[1] \in {"wslan", "sandbox"} -> Exists(Network)
    [] c[1] = "app" -> Running(Sandbox(c[2]))
    [] OTHER -> TRUE

\* Health is observed through the gateway's ingress.
Healthy(c) ==
  /\ Running(Gateway) /\ Exists(Network)
  /\ c[1] = "app" => Running(c) /\ Running(Sandbox(c[2]))

\* The worker takes the engine's answer for success.  404 is one for start, stop
\* and delete; 304 (started already, stopped already) is not; an inspection of a
\* missing container is an error (inspect, wait).
Permitted(do, r) ==
  CASE do = "create"  -> r \in Volumes => res[r] # "stray"
    [] do = "connect" -> Exists(r) /\ Exists(Network)
    [] do = "start"   -> Exists(r) => ~Running(r) /\ Startable(r)
    [] do = "stop"    -> Exists(r) => Running(r)
    [] do = "inspect" -> Exists(r)
    [] do = "wait"    -> res[r] = "present"
    [] do = "health"  -> Healthy(r)
    [] do = "delete"  ->
         /\ r = Network => \A c \in OfKind({"wslan", "sandbox"}) : ~Running(c)
         /\ r \in Volumes => \A c \in Containers : r \in Mounts(c) => ~Exists(c)

Becomes_Exited(do, r) ==
  CASE do = "create" /\ ~Exists(r)          -> "present"
    [] do = "start" /\ Exists(r)            -> "running"
    [] do = "stop" /\ Running(r)            -> "exited"
    [] do = "delete"                        -> "absent"
    [] OTHER                                -> res[r]

\* The status of r after the request: an existing name is reused by create.
Becomes(do, r) ==
  CASE do = "create" /\ ~Exists(r)          -> "present"
    [] do = "start" /\ Exists(r)            -> "running"
    [] do = "stop" /\ Running(r)            -> "present"
    [] do = "delete"                        -> "absent"
    [] OTHER                                -> res[r]

\* A new container's missing volumes are made by Docker itself.
Request(do, r) ==
  /\ res' = [x \in Resources |->
               CASE x = r -> Becomes(do, r)
                 [] do = "create" /\ r \in Containers /\ x \in Mounts(r)
                      /\ ~Exists(r) /\ ~Exists(x) -> "stray"
                 [] OTHER -> res[x]]
  /\ seeded' = (seeded /\ ~(r = Workspace /\ do = "delete"))
  /\ edited' = (edited /\ ~(r = Workspace /\ do = "delete"))

-----------------------------------------------------------------------------
(* Calls.                                                                  *)

NoCall == [op |-> "none", at |-> 0, app |-> "-", todo |-> {}, listed |-> {}, done |-> {},
           seen |-> {}, alone |-> FALSE]

CallType ==
  [op : Ops \cup {"none"}, at : Nat, app : Apps \cup {"-"}, todo : SUBSET Apps,
   listed : SUBSET Resources, done : SUBSET Resources, seen : SUBSET Resources,
   alone : BOOLEAN]

TypeOK ==
  /\ res \in [Resources -> Statuses]
  /\ seeded \in BOOLEAN
  /\ edited \in BOOLEAN
  /\ call \in [Calls -> CallType]
  /\ overlapped \in BOOLEAN
  /\ fallen \in BOOLEAN

Init ==
  /\ res = [r \in Resources |-> "absent"]
  /\ seeded = FALSE
  /\ edited = FALSE
  /\ call = [k \in Calls |-> NoCall]
  /\ overlapped = FALSE
  /\ fallen = FALSE

Active(k) == call[k].op # "none"

\* The script that call k is in: its own, or that of the app it creates.
Steps(k) == IF call[k].app = "-" THEN Script[call[k].op] ELSE createApp[call[k].app]

AtEnd(k) == call[k].at > Len(Steps(k))
Ended(k) == Active(k) /\ AtEnd(k) /\ call[k].todo = {}

Step(k) == Steps(k)[call[k].at]

\* The resources the present step has still to visit.
Pending(k) ==
  (IF Step(k).listed THEN Step(k).on \cap call[k].listed ELSE Step(k).on) \ call[k].done

\* A sweep goes up the ranks to start and down to stop or delete; the order
\* within a rank is that of Docker's listing.
Eligible(k) ==
  LET left == Pending(k)
      up == Step(k).do = "start"
  IN  {r \in left : \A x \in left :
         IF up THEN resourceRank(r) <= resourceRank(x) ELSE resourceRank(r) >= resourceRank(x)}

\* A halt is two requests: what the inspection saw running is then stopped.
Asked(k) ==
  IF Step(k).do # "halt" THEN Step(k).do
  ELSE IF call[k].seen = {} THEN "inspect" ELSE "stop"

\* The resources the next request may be about.
Targets(k) == IF call[k].seen = {} THEN Eligible(k) ELSE call[k].seen

\* A call of the controller arrives and is valid (decodeJSON, validateProvision).
Accept(k, op) ==
  /\ ~Active(k)
  /\ LET alone == \A o \in Calls : ~Active(o)
     IN  /\ call' = [o \in Calls |->
              IF o = k
              THEN [op |-> op, at |-> 1, app |-> "-", listed |-> {}, done |-> {}, seen |-> {},
                    alone |-> alone,
                    todo |-> IF op \in {"provision", "rebuild"} THEN Apps ELSE {}]
              ELSE [call[o] EXCEPT !.alone = FALSE]]
         /\ overlapped' = (overlapped \/ ~alone)
  /\ fallen' = FALSE
  /\ UNCHANGED engineVars

\* One Docker request on r, answered as the worker wants it.
Perform(k, r) ==
  /\ Active(k) /\ ~AtEnd(k)
  /\ Step(k).do # "list"
  /\ r \in Targets(k)
  /\ Permitted(Asked(k), r)
  /\ Request(Asked(k), r)
  /\ call' = IF Asked(k) = "inspect" /\ Running(r) THEN [call EXCEPT ![k].seen = {r}]
             ELSE IF Pending(k) = {r}
             THEN [call EXCEPT ![k].at = @ + 1, ![k].done = {}, ![k].seen = {}]
             ELSE [call EXCEPT ![k].done = @ \cup {r}, ![k].seen = {}]
  /\ UNCHANGED ghostVars

\* ListManaged, listManagedNetworks or the listing of volumes.
ListStep(k) ==
  /\ Active(k) /\ ~AtEnd(k)
  /\ Step(k).do = "list"
  /\ call' = [call EXCEPT ![k].at = @ + 1, ![k].listed = {r \in Step(k).on : Listed(r)}]
  /\ UNCHANGED <<engineVars, ghostVars>>

\* A sweep that has nothing to visit; the images are pulled.
Skip(k) ==
  /\ Active(k) /\ ~AtEnd(k)
  /\ Step(k).do # "list"
  /\ Pending(k) = {}
  /\ call' = [call EXCEPT ![k].at = @ + 1]
  /\ UNCHANGED <<engineVars, ghostVars>>

\* createResources' loop goes on to another app of the request.
NextApp(k, a) ==
  /\ Active(k) /\ AtEnd(k)
  /\ a \in call[k].todo
  /\ call' = [call EXCEPT ![k].app = a, ![k].at = 1, ![k].todo = @ \ {a}]
  /\ UNCHANGED <<engineVars, ghostVars>>

\* The call is answered with success.
Answer(k) ==
  /\ Ended(k)
  /\ call' = [call EXCEPT ![k] = NoCall]
  /\ UNCHANGED <<engineVars, ghostVars>>

\* The call ends with an error: Docker refused the request or could not be
\* reached, a wait timed out, or the controller is gone and the context with it.
GiveUp(k) ==
  /\ Active(k)
  /\ call' = [call EXCEPT ![k] = NoCall]
  /\ UNCHANGED <<engineVars, ghostVars>>

-----------------------------------------------------------------------------
(* What happens in the containers.                                         *)

\* A job container ends well.  The seed script copies and sets the marker,
\* unless the marker is there.
JobEnds(c) ==
  /\ c \in Oneshot /\ Running(c)
  /\ res' = [res EXCEPT ![c] = "present"]
  /\ seeded' = (seeded \/ c = Seed)
  /\ UNCHANGED <<edited, call, ghostVars>>

\* A container stops by itself; no restart policy brings it back.
Falls(c) ==
  /\ c \in Containers /\ Running(c)
  /\ res' = [res EXCEPT ![c] = IF c \in Oneshot THEN "failed" ELSE "present"]
  /\ fallen' = TRUE
  /\ UNCHANGED <<seeded, edited, call, overlapped>>

\* The user changes files of the workspace through a running app; what becomes
\* of them is followed where a workspace image could overwrite them.
UserEdits ==
  /\ Seeding
  /\ \E a \in Apps : Running(App(a))
  /\ edited' = TRUE
  /\ UNCHANGED <<res, seeded, call, ghostVars>>

-----------------------------------------------------------------------------

Serve(k) ==
  \/ \E r \in Resources : Perform(k, r)
  \/ ListStep(k) \/ Skip(k)
  \/ \E a \in Apps : NextApp(k, a)

Containment == (\E c \in Containers : JobEnds(c) \/ Falls(c)) \/ UserEdits

Next ==
  \/ \E k \in Calls : (\E op \in Ops : Accept(k, op)) \/ Serve(k) \/ Answer(k) \/ GiveUp(k)
  \/ Containment

Spec == Init /\ [][Next]_vars
-----------------------------------------------------------------------------
(* Properties.                                                             *)

\* The seed container's comment in service.go: "a workstation update or rebuild
\* never overwrites files the user has since changed".  When calls do not
\* overlap, the workspace carries the seed marker before a user can change it.
EditsAreKept == Seeding /\ edited /\ ~overlapped => seeded

\* A delete that had the workstation for itself leaves no labelled resource
\* behind, whatever earlier calls, failures and overlaps left lying around.
LoneDeleteCleans ==
  \A k \in Calls : Ended(k) /\ call[k].op = "delete" /\ call[k].alone
                     => \A r \in Resources : ~Listed(r)

\* The next request of call k is one that Docker does not refuse.
Welcome(k) == Step(k).do # "list" => \A r \in Targets(k) : Permitted(Asked(k), r)

\* A delete that runs alone meets no refusal: what failed, cancelled and
\* overlapping calls leave behind can always be cleared.
DeleteNotRefused ==
  \A k \in Calls :
    Active(k) /\ ~AtEnd(k) /\ call[k].op = "delete" /\ call[k].alone => Welcome(k)

\* As long as calls never overlapped, a restart meets no refusal: what failed or
\* cancelled calls leave behind can, as far as it goes, be brought up again.
\* The exceptions are a container that falls meanwhile and a job container, left
\* behind by a cancelled call, that ends between its inspection and its stop.
RestartNotRefused ==
  \A k \in Calls :
    /\ Active(k) /\ ~AtEnd(k) /\ call[k].op = "restart" /\ ~overlapped /\ ~fallen
    /\ call[k].seen \subseteq Longlived
    => Welcome(k)

Serving ==
  /\ Running(Gateway) /\ Exists(Network)
  /\ \A a \in Apps : Running(App(a)) /\ Running(Sandbox(a))

\* When a provision or rebuild that ran alone is about to be answered, everything
\* runs, also where leftovers of failed calls were reused, unless a container fell
\* since it arrived.
ProvisionServes ==
  \A k \in Calls : Ended(k) /\ call[k].op \in {"provision", "rebuild"} /\ call[k].alone /\ ~fallen
                     => Serving

\* No call takes the gateway or a sandbox away from under a running app, unless
\* calls overlap.
DependentsFirst ==
  [][call' # call /\ ~overlapped' =>
       \A a \in Apps :
         Running(App(a)) /\ Running(App(a))' =>
           /\ Running(Sandbox(a)) => Running(Sandbox(a))'
           /\ Running(Gateway) => Running(Gateway)']_vars
=============================================================================
