------------------------- MODULE DockerWorkerProofs -------------------------
(***************************************************************************)
(* What DockerWorker guarantees for any set of apps and any number of      *)
(* concurrent calls: a call that runs alone does what it was asked, and    *)
(* unless calls overlap the engine is never asked for what it must refuse. *)
(* First the scripts' order, then the invariant, one action at a time.     *)
(***************************************************************************)
EXTENDS DockerWorker, TLAPS

-----------------------------------------------------------------------------
(* Resources.                                                              *)

\* The resources, name by name.
LEMMA Names ==
  /\ Longlived = {Gateway} \cup {Sandbox(a) : a \in Apps} \cup {App(a) : a \in Apps}
  /\ Oneshot = {Seed} \cup {Init_(a) : a \in Apps}
  /\ Volumes = {Workspace} \cup {Volume(a) : a \in Apps}
<1>. USE AppsAssumption DEF OfKind, Gateway, Sandbox, App, Seed, Init_, Workspace, Volume
<1>1. Longlived = {Gateway} \cup {Sandbox(a) : a \in Apps} \cup {App(a) : a \in Apps}
  BY DEF Longlived
<1>2. Oneshot = {Seed} \cup {Init_(a) : a \in Apps}
  BY DEF Oneshot
<1>3. Volumes = {Workspace} \cup {Volume(a) : a \in Apps}
  BY DEF Volumes
<1>. QED BY <1>1, <1>2, <1>3

\* Kinds are disjoint.
LEMMA Apart ==
  /\ \A r \in Longlived : r \notin Oneshot /\ r \notin Volumes /\ r # Network
  /\ \A r \in Oneshot : r \notin Longlived /\ r \notin Volumes /\ r # Network
  /\ \A r \in Volumes : r \notin Longlived /\ r \notin Oneshot /\ r # Network
  /\ \A a \in Apps : Sandbox(a) # Gateway /\ App(a) # Gateway /\ Sandbox(a) # App(a)
  /\ \A a, b \in Apps : Sandbox(a) # App(b)
  /\ \A a, b \in Apps : a # b => Sandbox(a) # Sandbox(b) /\ App(a) # App(b)
  /\ Gateway # Network
<1>. USE AppsAssumption DEF OfKind, Gateway, Network, Sandbox, App
<1>1. \A r \in Longlived : r[1] \in {"wslan", "sandbox", "app"}
  BY DEF Longlived
<1>2. \A r \in Oneshot : r[1] \in {"seed", "init"}
  BY DEF Oneshot
<1>3. \A r \in Volumes : r[1] = "volume"
  BY DEF Volumes
<1>4. Network[1] = "network"
  OBVIOUS
<1>5. \A a, b \in Apps : a # b => Sandbox(a) # Sandbox(b) /\ App(a) # App(b)
  OBVIOUS
<1>6. \A a, b \in Apps : Sandbox(a) # App(b)
  OBVIOUS
<1>7. \A a \in Apps : Sandbox(a) # Gateway /\ App(a) # Gateway /\ Sandbox(a) # App(a)
  OBVIOUS
<1>8. Gateway # Network
  OBVIOUS
<1>. QED BY <1>1, <1>2, <1>3, <1>4, <1>5, <1>6, <1>7, <1>8

\* The order of the sweeps.
LEMMA Ranks ==
  /\ \A r \in Resources : resourceRank(r) \in 0..3
  /\ resourceRank(Gateway) = 0
  /\ \A a \in Apps : resourceRank(Sandbox(a)) = 1 /\ resourceRank(App(a)) = 2
BY DEF resourceRank, Gateway, Sandbox, App

\* What containers mount and need.
LEMMA Needs ==
  /\ \A c \in Containers : Mounts(c) \subseteq Volumes
  /\ \A a \in Apps : Workspace \in Mounts(App(a))
  /\ \A c \in Oneshot : Startable(c)
  /\ Exists(Network) => Startable(Gateway)
  /\ \A a \in Apps : Exists(Network) => Startable(Sandbox(a))
  /\ \A a \in Apps : Running(Sandbox(a)) => Startable(App(a))
  /\ Running(Gateway) /\ Exists(Network) => Healthy(Gateway)
<1>. USE DEF Gateway, Sandbox, App
<1>1. \A c \in Containers : Mounts(c) \subseteq Volumes
  <2>1. \A c \in Containers : c[1] \in {"init", "app"} => c[2] \in Apps
    BY AppsAssumption DEF Containers, Longlived, Oneshot, OfKind, Workspace
  <2>. QED BY <2>1, Names DEF Mounts
<1>2. \A a \in Apps : Workspace \in Mounts(App(a))
  BY DEF Mounts
<1>3. \A c \in Oneshot : Startable(c)
  BY DEF Oneshot, OfKind, Startable
<1>4. Exists(Network) => Startable(Gateway)
  BY DEF Startable
<1>5. \A a \in Apps : Exists(Network) => Startable(Sandbox(a))
  BY DEF Startable
<1>6. \A a \in Apps : Running(Sandbox(a)) => Startable(App(a))
  BY DEF Startable
<1>7. Running(Gateway) /\ Exists(Network) => Healthy(Gateway)
  BY DEF Healthy
<1>. QED BY <1>1, <1>2, <1>3, <1>4, <1>5, <1>6, <1>7
-----------------------------------------------------------------------------
(* The inductive invariant.                                                *)

Creating == {"provision", "rebuild"}
Sweeping == {"stop", "halt", "delete"}

\* Where a call may stand, alone or not.
CallOK(k) ==
  /\ Active(k) => call[k].at \in 1..(Len(Steps(k)) + 1)
  /\ call[k].app # "-" \/ call[k].todo # {} => call[k].op \in Creating
  /\ call[k].op \in Creating /\ call[k].app = "-" => call[k].todo = Apps
  /\ call[k].done # {} => ~AtEnd(k) /\ Step(k).do # "list" /\ Pending(k) # {}
  /\ call[k].seen # {} => /\ ~AtEnd(k) /\ Step(k).do = "halt"
                         /\ call[k].seen \subseteq Eligible(k)

CallInv == \A k \in Calls : CallOK(k)

\* A call that is alone is the only one.
LoneInv ==
  /\ \A k \in Calls : call[k].alone => Active(k) /\ \A o \in Calls : o # k => ~Active(o)
  /\ ~overlapped => \A k \in Calls : Active(k) => call[k].alone

\* Docker makes volumes by itself, never containers.
EngineInv == \A c \in Containers : res[c] # "stray"

\* A sweep that stops or deletes still has before it whatever it has to visit.
SweepInv(k) ==
  ~AtEnd(k) /\ Step(k).listed /\ Step(k).do \in Sweeping =>
    \A r \in Step(k).on : Listed(r) =>
      /\ r \in call[k].listed
      /\ r \in call[k].done => Step(k).do # "delete" /\ ~Running(r)

\* What a delete has left behind so far.
DeleteInv(k) ==
  call[k].op = "delete" =>
    /\ call[k].at >= 3 => \A c \in Containers : ~Listed(c)
    /\ call[k].at >= 5 => ~Listed(Network)
    /\ call[k].at >= 7 => \A v \in Volumes : ~Listed(v)

\* A rebuild has cleared the containers before it takes their network.
ClearInv(k) ==
  call[k].op = "rebuild" /\ call[k].app = "-" /\ call[k].at \in {4, 5} =>
    \A c \in Longlived : ~Exists(c)

\* The first step of createBase or createApp in a script, and what a step of createBase or
\* createApp has made for good.
BaseFrom(op) == IF op = "provision" THEN 2 ELSE 6
From(k) == IF call[k].app = "-" THEN BaseFrom(call[k].op) ELSE 1

Made(s) ==
  \A r \in s.on :
    /\ s.do = "create" /\ r \notin Oneshot => Exists(r)
    /\ s.do = "start" /\ r \in Longlived => Running(r) \/ fallen
    /\ s.do = "start" /\ r = Seed => res[Seed] # "present" \/ seeded
    /\ s.do = "wait" /\ r = Seed => seeded

BaseMade == (Running(Gateway) \/ fallen) /\ Exists(Network) /\ (Seeding => seeded)
AppMade(a) == fallen \/ (Running(App(a)) /\ Running(Sandbox(a)))

CreateInv(k) ==
  call[k].op \in Creating =>
    /\ \A i \in From(k)..Len(Steps(k)) : i < call[k].at => Made(Steps(k)[i])
    /\ call[k].app # "-" =>
         BaseMade /\ \A a \in Apps : a \notin call[k].todo /\ a # call[k].app => AppMade(a)

\* A restart: what was listed is what there is, and what runs was started by it.
RestartInv(k) ==
  call[k].op = "restart" =>
    /\ call[k].at >= 2 => \A c \in Containers : Exists(c) <=> c \in call[k].listed
    /\ call[k].at = 3 => \A c \in Containers : ~Running(c)
    /\ call[k].at = 4 => \A c \in Containers : Running(c) => c = Gateway
    /\ call[k].at = 4 /\ ~fallen /\ Gateway \in call[k].listed => Running(Gateway)
    /\ call[k].at = 5 => \A c \in Containers : Running(c) => c = Gateway \/ c \in call[k].done
    /\ call[k].at = 5 /\ ~fallen => \A c \in Longlived : c \in call[k].done => Running(c)
    /\ ~fallen => \A c \in call[k].seen : c \in Longlived => Running(c)

Work(k) == SweepInv(k) /\ DeleteInv(k) /\ ClearInv(k) /\ CreateInv(k) /\ RestartInv(k)

WorkInv == \A k \in Calls : call[k].alone => Work(k)

\* Without overlaps: nothing stands without what it stands on, and the
\* workspace is seeded before an app can change it.
LayerInv ==
  ~overlapped =>
    /\ Exists(Gateway) => Exists(Network)
    /\ \A a \in Apps : Exists(Sandbox(a)) => Exists(Network)
    /\ \A a \in Apps : Exists(App(a)) => Exists(Sandbox(a))
    /\ Seeding /\ (edited \/ \E a \in Apps : Exists(App(a))) => seeded


-----------------------------------------------------------------------------
(* Scripts.                                                                *)

CreateDos == {"create", "connect", "start", "health", "wait", "delete"}
Dos == CreateDos \cup {"pull", "list", "stop", "halt"}
Requests == (Dos \ {"halt"}) \cup {"inspect"}

StepType == [do : Dos, on : SUBSET Resources, listed : BOOLEAN]

\* A step of createBase or createApp: one request on one resource, which takes
\* away nothing but a job's container.
Plain(s) ==
  /\ s \in StepType
  /\ s.listed = FALSE
  /\ s.do \in CreateDos
  /\ \E r \in Resources : s.on = {r}
  /\ s.do = "delete" => s.on \subseteq Oneshot

\* What a script does from step f on, and in which order.
Before(s, f, i, t) == \E j \in f..(i - 1) : s[j] = t

InOrder(s, f) ==
  /\ f \in Nat /\ f > 0 /\ Len(s) \in Nat
  /\ \A i \in f..Len(s) : Plain(s[i])
  /\ \A i \in f..Len(s) : \A r \in Longlived :
       s[i].do = "start" /\ r \in s[i].on => Before(s, f, i, One("create", r))
  /\ \A i \in f..Len(s) :
       s[i].do = "wait" /\ Seed \in s[i].on => Before(s, f, i, One("start", Seed))
  /\ \A i \in f..Len(s) :
       s[i].do = "create" /\ Gateway \in s[i].on => Before(s, f, i, One("create", Network))
  /\ \A i, j \in f..Len(s) :
       /\ s[i].do = "create" /\ Seed \in s[i].on
       /\ s[j].do = "start" /\ Seed \in s[j].on
       => i < j

Includes(s, f, t) == \E i \in f..Len(s) : s[i] = t

\* The fields of a single request.
LEMMA OneFields ==
  \A do, r : One(do, r).do = do /\ One(do, r).on = {r} /\ One(do, r).listed = FALSE
BY DEF One

\* A single request is a step createBase and createApp may take.
LEMMA OnePlain ==
  ASSUME NEW do \in CreateDos, NEW r \in Resources, do = "delete" => r \in Oneshot
  PROVE  Plain(One(do, r))
<1>1. do \in Dos
  BY DEF Dos
<1>. QED BY <1>1 DEF Plain, One, StepType

\* Which set each resource belongs to.
LEMMA KnownResources ==
  /\ Gateway \in Resources /\ Seed \in Resources /\ Network \in Resources
  /\ Workspace \in Resources /\ Seed \in Oneshot /\ Gateway \in Longlived
  /\ \A a \in Apps : /\ Sandbox(a) \in Resources /\ Sandbox(a) \in Longlived
                     /\ App(a) \in Resources /\ App(a) \in Longlived
                     /\ Volume(a) \in Resources /\ Volume(a) \in Volumes
                     /\ Init_(a) \in Resources /\ Init_(a) \in Oneshot
  /\ Workspace \in Volumes
  /\ Longlived \subseteq Containers /\ Oneshot \subseteq Containers
  /\ Containers \subseteq Resources /\ Volumes \subseteq Resources
BY Names DEF Resources, Containers

\* createBase, with and without a workspace image.
LEMMA BaseScript ==
  /\ InOrder(createBase, 1)
  /\ Includes(createBase, 1, One("create", Network))
  /\ Includes(createBase, 1, One("create", Gateway))
  /\ Includes(createBase, 1, One("start", Gateway))
  /\ Seeding => Includes(createBase, 1, One("wait", Seed))
  /\ \A i \in 1..Len(createBase) : \A r \in Longlived :
       createBase[i].do = "create" /\ r \in createBase[i].on => r = Gateway
  /\ \A i \in 1..Len(createBase) : \A r \in Oneshot :
       createBase[i].do = "create" /\ r \in createBase[i].on => r = Seed
  /\ Len(createBase) > 0 /\ createBase[1] = One("create", Workspace)
<1>. DEFINE b == createBase
<1>1. CASE Seeding
  <2>1. /\ Len(b) = 11
        /\ b[1] = One("create", Workspace) /\ b[2] = One("delete", Seed)
        /\ b[3] = One("create", Seed) /\ b[4] = One("start", Seed)
        /\ b[5] = One("wait", Seed) /\ b[6] = One("delete", Seed)
        /\ b[7] = One("create", Network) /\ b[8] = One("create", Gateway)
        /\ b[9] = One("connect", Gateway) /\ b[10] = One("start", Gateway)
        /\ b[11] = One("health", Gateway)
    BY <1>1 DEF createBase, seedWorkspace, RunJob
  <2>2. \A i \in 1..11 : Plain(b[i])
    BY <2>1, OnePlain, KnownResources DEF CreateDos
  <2>. HIDE DEF b
  <2>3. \A i \in 1..11 : i \in {1, 2, 3, 4, 5, 6, 7, 8, 9, 10, 11}
    OBVIOUS
  <2>4. \A i \in 1..11 : b[i].do = "start" => i = 4 \/ i = 10
    BY <2>1, <2>3, OneFields
  <2>5. \A i \in 1..11 : b[i].do = "wait" => i = 5
    BY <2>1, <2>3, OneFields
  <2>6. \A i \in 1..11 : b[i].do = "create" /\ Gateway \in b[i].on => i = 8
    BY <2>1, <2>3, OneFields, KnownResources, Apart
  <2>7. b[4].on = {Seed} /\ b[10].on = {Gateway}
    BY <2>1, OneFields
  <2>8. \A i \in 1..11 : \A r \in Longlived :
          b[i].do = "start" /\ r \in b[i].on => Before(b, 1, i, One("create", r))
    BY <2>1, <2>4, <2>7, KnownResources, Apart DEF Before
  <2>9. \A i \in 1..11 :
          b[i].do = "wait" /\ Seed \in b[i].on => Before(b, 1, i, One("start", Seed))
    BY <2>1, <2>5 DEF Before
  <2>10. \A i \in 1..11 :
          b[i].do = "create" /\ Gateway \in b[i].on => Before(b, 1, i, One("create", Network))
    BY <2>1, <2>6 DEF Before
  <2>11. \A i \in 1..11 : b[i].do = "create" /\ Seed \in b[i].on => i = 3
    <3>1. Seed # Workspace /\ Seed # Network /\ Seed # Gateway
      BY KnownResources, Apart
    <3>. QED BY <2>1, <2>3, <3>1, OneFields
  <2>12. \A i, j \in 1..11 :
           /\ b[i].do = "create" /\ Seed \in b[i].on
           /\ b[j].do = "start" /\ Seed \in b[j].on
           => i < j
    BY <2>4, <2>11
  <2>13. InOrder(b, 1)
    BY <2>1, <2>2, <2>8, <2>9, <2>10, <2>12 DEF InOrder
  <2>14. \A i \in 1..11 : \A r \in Longlived :
           b[i].do = "create" /\ r \in b[i].on => r = Gateway
    <3>1. Seed \notin Longlived /\ Network \notin Longlived /\ Workspace \notin Longlived
      BY KnownResources, Apart
    <3>. QED BY <2>1, <2>3, <3>1, OneFields
  <2>15. \A i \in 1..11 : \A r \in Oneshot :
           b[i].do = "create" /\ r \in b[i].on => r = Seed
    <3>1. Gateway \notin Oneshot /\ Network \notin Oneshot /\ Workspace \notin Oneshot
      BY KnownResources, Apart
    <3>. QED BY <2>1, <2>3, <3>1, OneFields
  <2>. QED BY <2>1, <2>13, <2>14, <2>15 DEF Includes, b
<1>2. CASE ~Seeding
  <2>1. /\ Len(b) = 6
        /\ b[1] = One("create", Workspace)
        /\ b[2] = One("create", Network) /\ b[3] = One("create", Gateway)
        /\ b[4] = One("connect", Gateway) /\ b[5] = One("start", Gateway)
        /\ b[6] = One("health", Gateway)
    BY <1>2 DEF createBase, seedWorkspace
  <2>2. \A i \in 1..6 : Plain(b[i])
    BY <2>1, OnePlain, KnownResources DEF CreateDos
  <2>. HIDE DEF b
  <2>3. \A i \in 1..6 : i \in {1, 2, 3, 4, 5, 6}
    OBVIOUS
  <2>4. \A i \in 1..6 : b[i].do = "start" => i = 5
    BY <2>1, <2>3, OneFields
  <2>5. \A i \in 1..6 : b[i].do # "wait"
    BY <2>1, <2>3, OneFields
  <2>6. \A i \in 1..6 : b[i].do = "create" /\ Gateway \in b[i].on => i = 3
    BY <2>1, <2>3, OneFields, KnownResources, Apart
  <2>7. b[5].on = {Gateway}
    BY <2>1, OneFields
  <2>8. \A i \in 1..6 : \A r \in Longlived :
          b[i].do = "start" /\ r \in b[i].on => Before(b, 1, i, One("create", r))
    BY <2>1, <2>4, <2>7 DEF Before
  <2>10. \A i \in 1..6 :
          b[i].do = "create" /\ Gateway \in b[i].on => Before(b, 1, i, One("create", Network))
    BY <2>1, <2>6 DEF Before
  <2>12. \A i \in 1..6 : ~(b[i].do = "create" /\ Seed \in b[i].on)
    <3>1. Seed # Workspace /\ Seed # Network /\ Seed # Gateway
      BY KnownResources, Apart
    <3>. QED BY <2>1, <2>3, <3>1, OneFields
  <2>13. InOrder(b, 1)
    BY <2>1, <2>2, <2>5, <2>8, <2>10, <2>12 DEF InOrder
  <2>14. \A i \in 1..6 : \A r \in Longlived :
           b[i].do = "create" /\ r \in b[i].on => r = Gateway
    <3>1. Network \notin Longlived /\ Workspace \notin Longlived
      BY KnownResources, Apart
    <3>. QED BY <2>1, <2>3, <3>1, OneFields
  <2>15. \A i \in 1..6 : \A r \in Oneshot :
           b[i].do = "create" /\ r \in b[i].on => r = Seed
    <3>1. Gateway \notin Oneshot /\ Network \notin Oneshot /\ Workspace \notin Oneshot
      BY KnownResources, Apart
    <3>. QED BY <2>1, <2>3, <3>1, OneFields
  <2>. QED BY <1>2, <2>1, <2>13, <2>14, <2>15 DEF Includes, b
<1>. QED BY <1>1, <1>2

\* The steps of one script after those of another.
Appends(x, y, z) ==
  /\ z \in Seq(StepType) /\ Len(z) = Len(x) + Len(y)
  /\ \A i \in 1..Len(x) : z[i] = x[i]
  /\ \A i \in 1..Len(y) : z[Len(x) + i] = y[i]

\* Concatenation appends.
LEMMA Appended ==
  \A x, y \in Seq(StepType) : \A z : z = x \o y => Appends(x, y, z)
BY DEF Appends

\* createApp, with and without storage to initialise and a health path.
LEMMA AppScript ==
  ASSUME NEW a \in Apps
  PROVE  /\ InOrder(createApp[a], 1)
         /\ Includes(createApp[a], 1, One("start", Sandbox(a)))
         /\ Includes(createApp[a], 1, One("start", App(a)))
         /\ \A i \in 1..Len(createApp[a]) : \A b \in Apps :
              createApp[a][i].do = "create" /\ App(b) \in createApp[a][i].on =>
                b = a /\ Before(createApp[a], 1, i, One("create", Sandbox(a)))
         /\ \A i \in 1..Len(createApp[a]) : createApp[a][i].do = "create" =>
              \/ createApp[a][i].on \in {{Sandbox(a)}, {Volume(a)}}
              \/ /\ createApp[a][i].on \subseteq {App(a), Init_(a)}
                 /\ Before(createApp[a], 1, i, One("create", Volume(a)))
<1>. DEFINE s == createApp[a]
            j == IF a \in Owned THEN RunJob(Init_(a)) ELSE <<>>
            h == IF a \in Probed THEN <<One("health", App(a))>> ELSE <<>>
            n == Len(j)
<1>1. s = <<One("create", Sandbox(a)), One("start", Sandbox(a)), One("create", Volume(a))>>
          \o j \o <<One("create", App(a)), One("start", App(a))>> \o h
  BY DEF createApp
<1>2. /\ n \in Nat /\ j \in Seq(StepType)
      /\ \A i \in 1..n : Plain(j[i]) /\ j[i].on = {Init_(a)}
  <2>1. CASE a \in Owned
    <3>1. /\ j = <<One("create", Init_(a)), One("start", Init_(a)), One("wait", Init_(a)),
                  One("delete", Init_(a))>>
      BY <2>1 DEF RunJob
    <3>2. /\ Plain(One("create", Init_(a))) /\ Plain(One("start", Init_(a)))
          /\ Plain(One("wait", Init_(a))) /\ Plain(One("delete", Init_(a)))
      BY OnePlain, KnownResources DEF CreateDos
    <3>3. /\ One("create", Init_(a)) \in StepType /\ One("start", Init_(a)) \in StepType
          /\ One("wait", Init_(a)) \in StepType /\ One("delete", Init_(a)) \in StepType
      BY <3>2 DEF Plain
    <3>. HIDE DEF j
    <3>4. n = 4 /\ j \in Seq(StepType)
      BY <3>1, <3>3
    <3>5. \A i \in 1..4 : Plain(j[i]) /\ j[i].on = {Init_(a)}
      BY <3>1, <3>2, OneFields
    <3>. QED BY <3>4, <3>5
  <2>2. CASE a \notin Owned
    BY <2>2
  <2>. QED BY <2>1, <2>2
<1>3. /\ h \in Seq(StepType) /\ Len(h) \in {0, 1}
      /\ Len(h) = 1 => h[1] = One("health", App(a))
  <2>1. Plain(One("health", App(a)))
    BY OnePlain, KnownResources DEF CreateDos
  <2>. QED BY <2>1 DEF Plain
<1>. DEFINE m == n + 5 + Len(h)
<1>4. /\ Len(s) = m
      /\ s[1] = One("create", Sandbox(a)) /\ s[2] = One("start", Sandbox(a))
      /\ s[3] = One("create", Volume(a))
      /\ \A i \in 4..(n + 3) : s[i] = j[i - 3]
      /\ s[n + 4] = One("create", App(a)) /\ s[n + 5] = One("start", App(a))
      /\ Len(h) = 1 => s[n + 6] = One("health", App(a))
  <2>. DEFINE t == <<One("create", Sandbox(a)), One("start", Sandbox(a)),
                     One("create", Volume(a))>>
              u == <<One("create", App(a)), One("start", App(a))>>
  <2>1. /\ t \in Seq(StepType) /\ Len(t) = 3 /\ u \in Seq(StepType) /\ Len(u) = 2
        /\ t[1] = One("create", Sandbox(a)) /\ t[2] = One("start", Sandbox(a))
        /\ t[3] = One("create", Volume(a))
        /\ u[1] = One("create", App(a)) /\ u[2] = One("start", App(a))
    <3>1. /\ Plain(One("create", Sandbox(a))) /\ Plain(One("start", Sandbox(a)))
          /\ Plain(One("create", Volume(a)))
          /\ Plain(One("create", App(a))) /\ Plain(One("start", App(a)))
      BY OnePlain, KnownResources DEF CreateDos
    <3>. QED BY <3>1 DEF Plain
  <2>2. n = Len(j)
    OBVIOUS
  <2>. HIDE DEF s, j, h, t, u, n
  <2>3. PICK p : p = t \o j
    OBVIOUS
  <2>4. /\ p \in Seq(StepType) /\ Len(p) = 3 + n
        /\ \A i \in 1..3 : p[i] = t[i]
        /\ \A i \in 1..n : p[3 + i] = j[i]
    <3>1. Appends(t, j, p)
      BY <1>2, <2>1, <2>3, Appended, Zenon
    <3>. QED BY <2>1, <2>2, <3>1, Zenon DEF Appends
  <2>5. PICK q : q = p \o u
    OBVIOUS
  <2>6. /\ q \in Seq(StepType) /\ Len(q) = (3 + n) + 2
        /\ \A i \in 1..(3 + n) : q[i] = p[i]
        /\ \A i \in 1..2 : q[(3 + n) + i] = u[i]
    <3>1. Appends(p, u, q)
      BY <2>1, <2>4, <2>5, Appended, Zenon
    <3>. QED BY <2>1, <2>4, <3>1, Zenon DEF Appends
  <2>7. s = q \o h
    BY <1>1, <2>3, <2>5 DEF t, u
  <2>. DEFINE l == 3 + n
              o == l + 2
  <2>8. /\ Len(s) = o + Len(h)
        /\ \A i \in 1..o : s[i] = q[i]
        /\ \A i \in 1..Len(h) : s[o + i] = h[i]
    <3>1. Appends(q, h, s)
      BY <1>3, <2>6, <2>7, Appended, Zenon
    <3>. QED BY <2>6, <3>1, Zenon DEF Appends
  <2>9. s[1] = t[1] /\ s[2] = t[2] /\ s[3] = t[3]
    <3>1. \A i \in 1..3 : i \in 1..l /\ i \in 1..o
      BY <1>2
    <3>2. \A i \in 1..3 : s[i] = t[i]
      BY <2>4, <2>6, <2>8, <3>1, Zenon
    <3>3. 1 \in 1..3 /\ 2 \in 1..3 /\ 3 \in 1..3
      OBVIOUS
    <3>. QED BY <3>2, <3>3, Zenon
  <2>10. s[n + 4] = u[1] /\ s[n + 5] = u[2]
    <3>1. \A i \in 1..2 : l + i \in 1..o
      BY <1>2
    <3>2. \A i \in 1..2 : s[l + i] = u[i]
      BY <2>6, <2>8, <3>1, Zenon
    <3>3. 1 \in 1..2 /\ 2 \in 1..2 /\ l + 1 = n + 4 /\ l + 2 = n + 5
      BY <1>2
    <3>. QED BY <3>2, <3>3, Zenon
  <2>11. \A i \in 4..(n + 3) : s[i] = j[i - 3]
    <3>1. ASSUME NEW i \in 4..(n + 3)
          PROVE  s[i] = j[i - 3]
      <4>1. i \in 1..l /\ i \in 1..o /\ i - 3 \in 1..n /\ 3 + (i - 3) = i
        BY <1>2
      <4>2. s[i] = p[i]
        BY <2>6, <2>8, <4>1, Zenon
      <4>3. p[3 + (i - 3)] = j[i - 3]
        BY <2>4, <4>1, Zenon
      <4>. QED BY <4>1, <4>2, <4>3, Zenon
    <3>. QED BY <3>1
  <2>12. Len(h) = 1 => s[n + 6] = h[1]
    <3>1. o + 1 = n + 6
      BY <1>2
    <3>2. Len(h) = 1 => 1 \in 1..Len(h)
      OBVIOUS
    <3>. QED BY <2>8, <3>1, <3>2, Zenon
  <2>13. Len(s) = m
    BY <1>2, <1>3, <2>8
  <2>. QED BY <1>3, <2>1, <2>9, <2>10, <2>11, <2>12, <2>13
<1>. HIDE DEF s, j, h, n
<1>5. \A i \in 1..m : \/ i \in {1, 2, 3, n + 4, n + 5}
                      \/ i \in 4..(n + 3)
                      \/ i = n + 6 /\ Len(h) = 1
  <2>1. CASE Len(h) = 0
    <3>1. m = n + 5 /\ n \in Nat
      BY <1>2, <2>1
    <3>. QED BY <3>1
  <2>2. CASE Len(h) = 1
    <3>1. m = n + 6 /\ n \in Nat
      BY <1>2, <2>2
    <3>. QED BY <2>2, <3>1
  <2>. QED BY <1>3, <2>1, <2>2
<1>6. \A i \in 4..(n + 3) : i - 3 \in 1..n
  BY <1>2
<1>7. \A i \in 1..m : Plain(s[i])
  <2>1. /\ Plain(One("create", Sandbox(a))) /\ Plain(One("start", Sandbox(a)))
        /\ Plain(One("create", Volume(a))) /\ Plain(One("create", App(a)))
        /\ Plain(One("start", App(a))) /\ Plain(One("health", App(a)))
    BY OnePlain, KnownResources DEF CreateDos
  <2>. QED BY <1>2, <1>4, <1>5, <1>6, <2>1
<1>8. \A i \in 4..(n + 3) : s[i].on = {Init_(a)}
  BY <1>2, <1>4, <1>6
<1>9. Init_(a) \notin Longlived /\ Init_(a) # Seed /\ Init_(a) # Gateway
  BY KnownResources, Apart DEF Init_, Seed
<1>10. \A i \in 1..m : \A r \in Longlived :
         s[i].do = "start" /\ r \in s[i].on => Before(s, 1, i, One("create", r))
  <2>. SUFFICES ASSUME NEW i \in 1..m, NEW r \in Longlived, s[i].do = "start", r \in s[i].on
                PROVE  Before(s, 1, i, One("create", r))
    OBVIOUS
  <2>1. i = 2 \/ i = n + 5
    BY <1>4, <1>5, <1>8, <1>9, OneFields
  <2>2. CASE i = 2
    BY <1>4, <2>2, OneFields DEF Before
  <2>3. CASE i = n + 5
    <3>1. r = App(a) /\ n + 4 \in 1..(i - 1)
      BY <1>2, <1>4, <2>3, OneFields
    <3>. QED BY <1>4, <3>1 DEF Before
  <2>. QED BY <2>1, <2>2, <2>3
<1>11. \A i \in 1..m : ~(s[i].do = "wait" /\ Seed \in s[i].on)
  BY <1>4, <1>5, <1>8, <1>9, OneFields
<1>12. \A i \in 1..m : ~(s[i].do = "create" /\ Gateway \in s[i].on)
  <2>1. Gateway # Sandbox(a) /\ Gateway # Volume(a) /\ Gateway # App(a)
    BY KnownResources, Apart
  <2>. QED BY <1>4, <1>5, <1>8, <1>9, <2>1, OneFields
<1>13. \A i \in 1..m : \A b \in Apps :
         s[i].do = "create" /\ App(b) \in s[i].on =>
           b = a /\ Before(s, 1, i, One("create", Sandbox(a)))
  <2>. SUFFICES ASSUME NEW i \in 1..m, NEW b \in Apps, s[i].do = "create", App(b) \in s[i].on
                PROVE  b = a /\ Before(s, 1, i, One("create", Sandbox(a)))
    OBVIOUS
  <2>1. App(b) # Sandbox(a) /\ App(b) # Volume(a) /\ App(b) # Init_(a)
    BY KnownResources, Apart
  <2>2. i = n + 4
    BY <1>4, <1>5, <1>8, <2>1, OneFields
  <2>3. App(b) = App(a) /\ 1 \in 1..(i - 1)
    BY <1>2, <1>4, <2>2, OneFields
  <2>. QED BY <1>4, <2>3, Apart DEF Before
<1>14. \A i \in 1..m : ~(s[i].do = "create" /\ Seed \in s[i].on)
  <2>1. Seed # Sandbox(a) /\ Seed # Volume(a) /\ Seed # App(a)
    BY KnownResources, Apart
  <2>. QED BY <1>4, <1>5, <1>8, <1>9, <2>1, OneFields
<1>16. InOrder(s, 1)
  BY <1>2, <1>3, <1>4, <1>7, <1>10, <1>11, <1>12, <1>14 DEF InOrder
<1>15. Includes(s, 1, One("start", Sandbox(a))) /\ Includes(s, 1, One("start", App(a)))
  <2>1. 2 \in 1..m /\ n + 5 \in 1..m
    BY <1>2, <1>3
  <2>. QED BY <1>4, <2>1 DEF Includes
<1>17. \A i \in 1..m : s[i].do = "create" =>
         \/ s[i].on \in {{Sandbox(a)}, {Volume(a)}}
         \/ s[i].on \subseteq {App(a), Init_(a)} /\ Before(s, 1, i, One("create", Volume(a)))
  <2>. SUFFICES ASSUME NEW i \in 1..m, s[i].do = "create"
                PROVE  \/ s[i].on \in {{Sandbox(a)}, {Volume(a)}}
                       \/ /\ s[i].on \subseteq {App(a), Init_(a)}
                          /\ Before(s, 1, i, One("create", Volume(a)))
    OBVIOUS
  <2>1. CASE i \in {1, 2, 3}
    BY <1>4, <2>1, OneFields
  <2>2. CASE i \notin {1, 2, 3}
    <3>1. s[i].on \subseteq {App(a), Init_(a)}
      BY <1>4, <1>5, <1>8, <2>2, OneFields
    <3>2. 3 \in 1..(i - 1)
      BY <2>2
    <3>. QED BY <1>4, <3>1, <3>2 DEF Before
  <2>. QED BY <2>1, <2>2
<1>. QED BY <1>4, <1>13, <1>15, <1>16, <1>17 DEF s

\* The steps of the scripts that only sweep what is listed.
LEMMA SweepScripts ==
  /\ LET s == Script["delete"]
     IN  /\ Len(s) = 6
         /\ s[1] = List(Containers) /\ s[2] = Each("delete", Containers)
         /\ s[3] = List({Network})  /\ s[4] = Each("delete", {Network})
         /\ s[5] = List(Volumes)    /\ s[6] = Each("delete", Volumes)
  /\ LET s == Script["stop"]
     IN  Len(s) = 2 /\ s[1] = List(Containers) /\ s[2] = Each("stop", Containers)
  /\ LET s == Script["start"]
     IN  /\ Len(s) = 4 /\ s[1] = List(Containers)
         /\ s[2] = Each("start", {Gateway}) /\ s[3] = Each("health", {Gateway})
         /\ s[4] = Each("start", Containers \ {Gateway})
  /\ LET s == Script["restart"]
     IN  /\ Len(s) = 5 /\ s[1] = List(Containers) /\ s[2] = Each("halt", Containers)
         /\ s[3] = Each("start", {Gateway}) /\ s[4] = Each("health", {Gateway})
         /\ s[5] = Each("start", Containers \ {Gateway})
<1>1. /\ Script["delete"] = RemoveWorkstation
      /\ Script["stop"] = <<List(Containers), Each("stop", Containers)>>
      /\ Script["start"] = <<List(Containers)>> \o startEach
      /\ Script["restart"] = restartAll
  BY DEF Script, Ops
<1>. QED BY <1>1 DEF RemoveWorkstation, DeleteListed, startEach, restartAll

\* The scripts that create: createBase follows the images and, for a rebuild,
\* the removal of the containers and their network.
LEMMA CreateScripts ==
  /\ LET s == Script["provision"]
     IN  /\ Len(s) = Len(createBase) + 1 /\ s[1] = Pull
         /\ \A i \in 2..Len(s) : i - 1 \in 1..Len(createBase) /\ s[i] = createBase[i - 1]
         /\ \A i \in 1..Len(createBase) : i + 1 \in 2..Len(s) /\ s[i + 1] = createBase[i]
  /\ LET s == Script["rebuild"]
     IN  /\ Len(s) = Len(createBase) + 5 /\ s[1] = Pull
         /\ s[2] = List(Longlived) /\ s[3] = Each("delete", Longlived)
         /\ s[4] = List({Network}) /\ s[5] = Each("delete", {Network})
         /\ \A i \in 6..Len(s) : i - 5 \in 1..Len(createBase) /\ s[i] = createBase[i - 5]
         /\ \A i \in 1..Len(createBase) : i + 5 \in 6..Len(s) /\ s[i + 5] = createBase[i]
<1>. DEFINE b == createBase
<1>0. b \in Seq(StepType) /\ Len(b) \in Nat
  <2>1. createBase = <<One("create", Workspace)>> \o seedWorkspace \o
          <<One("create", Network), One("create", Gateway), One("connect", Gateway),
            One("start", Gateway), One("health", Gateway)>>
    BY DEF createBase
  <2>2. /\ One("create", Workspace) \in StepType /\ One("create", Network) \in StepType
        /\ One("create", Gateway) \in StepType /\ One("connect", Gateway) \in StepType
        /\ One("start", Gateway) \in StepType /\ One("health", Gateway) \in StepType
        /\ One("delete", Seed) \in StepType /\ One("create", Seed) \in StepType
        /\ One("start", Seed) \in StepType /\ One("wait", Seed) \in StepType
    BY OnePlain, KnownResources DEF CreateDos, Plain
  <2>3. seedWorkspace \in Seq(StepType)
    <3>1. CASE Seeding
      <4>1. seedWorkspace = <<One("delete", Seed)>> \o <<One("create", Seed),
              One("start", Seed), One("wait", Seed), One("delete", Seed)>>
        BY <3>1 DEF seedWorkspace, RunJob
      <4>. QED BY <4>1, <2>2
    <3>2. CASE ~Seeding
      BY <3>2 DEF seedWorkspace
    <3>. QED BY <3>1, <3>2
  <2>. HIDE DEF b
  <2>4. createBase \in Seq(StepType)
    BY <2>1, <2>2, <2>3
  <2>. QED BY <2>4 DEF b
<1>1. /\ Script["provision"] = <<Pull>> \o b
      /\ Script["rebuild"] = <<Pull>> \o <<List(Longlived), Each("delete", Longlived)>>
                               \o <<List({Network}), Each("delete", {Network})>> \o b
  BY DEF Script, Ops, DeleteListed
<1>. HIDE DEF b
<1>2. LET s == Script["provision"]
      IN  /\ Len(s) = Len(b) + 1 /\ s[1] = Pull
          /\ \A i \in 2..Len(s) : i - 1 \in 1..Len(b) /\ s[i] = b[i - 1]
          /\ \A i \in 1..Len(b) : i + 1 \in 2..Len(s) /\ s[i + 1] = b[i]
  BY <1>0, <1>1
<1>3. LET s == Script["rebuild"]
      IN  /\ Len(s) = Len(b) + 5 /\ s[1] = Pull
          /\ s[2] = List(Longlived) /\ s[3] = Each("delete", Longlived)
          /\ s[4] = List({Network}) /\ s[5] = Each("delete", {Network})
          /\ \A i \in 6..Len(s) : i - 5 \in 1..Len(b) /\ s[i] = b[i - 5]
          /\ \A i \in 1..Len(b) : i + 5 \in 6..Len(s) /\ s[i + 5] = b[i]
  BY <1>0, <1>1
<1>. QED BY <1>2, <1>3 DEF b

\* The fields of a sweep, a listing and the image pull.
LEMMA SweepFields ==
  /\ \A do, on : Each(do, on).do = do /\ Each(do, on).on = on /\ Each(do, on).listed = TRUE
  /\ \A on : List(on).do = "list" /\ List(on).on = on /\ List(on).listed = FALSE
  /\ Pull.do = "pull" /\ Pull.on = {} /\ Pull.listed = FALSE
BY DEF Each, List, Pull

\* Sweeps, listings and the image pull are steps.
LEMMA SweepTypes ==
  /\ \A on \in SUBSET Resources : /\ List(on) \in StepType
                                  /\ \A do \in Dos : Each(do, on) \in StepType
  /\ Pull \in StepType
BY DEF Each, List, Pull, StepType, Dos

\* Every step of every script is typed; a sweep that stops or deletes directly
\* follows the listing of what it sweeps.
SweepOK(s, i) ==
  s[i].listed /\ s[i].do \in Sweeping =>
    /\ i > 1 /\ s[i - 1] = List(s[i].on)
    /\ s[i].on \in {Containers, Longlived, {Network}, Volumes}
    /\ s[i].do = "delete" \/ s[i].on = Containers

ScriptOK(s) ==
  /\ Len(s) \in Nat
  /\ \A i \in 1..Len(s) : s[i] \in StepType
  /\ \A i \in 1..Len(s) : SweepOK(s, i)

\* A delete right after a listing of the same resources sweeps what was listed.
LEMMA SweepFollows ==
  ASSUME NEW s, NEW i \in Nat, NEW on \in {Containers, Longlived, {Network}, Volumes},
         i > 1, s[i - 1] = List(on), s[i] = Each("delete", on)
  PROVE  SweepOK(s, i)
BY SweepFields DEF SweepOK

\* Every script is typed, and its sweeps directly follow their listings.
LEMMA ScriptsOK ==
  /\ \A op \in Ops : ScriptOK(Script[op])
  /\ \A a \in Apps : ScriptOK(createApp[a])
<1>0. /\ Containers \in SUBSET Resources /\ Longlived \in SUBSET Resources
      /\ {Network} \in SUBSET Resources /\ Volumes \in SUBSET Resources
      /\ {Gateway} \in SUBSET Resources /\ Containers \ {Gateway} \in SUBSET Resources
      /\ {"delete", "start", "stop", "halt", "health"} \subseteq Dos
  BY KnownResources DEF Dos, CreateDos
<1>1. ASSUME NEW s, InOrder(s, 1)
      PROVE  ScriptOK(s)
  BY <1>1 DEF InOrder, Plain, ScriptOK, SweepOK
<1>2. ScriptOK(Script["delete"])
  <2>. DEFINE s == Script["delete"]
  <2>1. /\ Len(s) = 6
        /\ s[1] = List(Containers) /\ s[2] = Each("delete", Containers)
        /\ s[3] = List({Network})  /\ s[4] = Each("delete", {Network})
        /\ s[5] = List(Volumes)    /\ s[6] = Each("delete", Volumes)
    BY SweepScripts
  <2>. HIDE DEF s
  <2>2. \A i \in 1..6 : i \in {1, 2, 3, 4, 5, 6}
    OBVIOUS
  <2>3. \A i \in 1..6 : s[i] \in StepType
    BY <1>0, <2>1, <2>2, SweepTypes
  <2>4. SweepOK(s, 1) /\ SweepOK(s, 3) /\ SweepOK(s, 5)
    BY <2>1, SweepFields DEF SweepOK
  <2>5. SweepOK(s, 2)
    BY <2>1, SweepFollows
  <2>6. SweepOK(s, 4)
    BY <2>1, SweepFollows
  <2>7. SweepOK(s, 6)
    BY <2>1, SweepFollows
  <2>. QED BY <2>1, <2>2, <2>3, <2>4, <2>5, <2>6, <2>7 DEF ScriptOK, s
<1>3. ScriptOK(Script["stop"])
  <2>. DEFINE s == Script["stop"]
  <2>1. Len(s) = 2 /\ s[1] = List(Containers) /\ s[2] = Each("stop", Containers)
    BY SweepScripts
  <2>. HIDE DEF s
  <2>2. \A i \in 1..2 : i \in {1, 2}
    OBVIOUS
  <2>3. \A i \in 1..2 : s[i] \in StepType
    BY <1>0, <2>1, <2>2, SweepTypes
  <2>4. SweepOK(s, 1) /\ SweepOK(s, 2)
    BY <2>1, SweepFields DEF SweepOK
  <2>. QED BY <2>1, <2>2, <2>3, <2>4 DEF ScriptOK, s
<1>4. ScriptOK(Script["start"])
  <2>. DEFINE s == Script["start"]
  <2>1. /\ Len(s) = 4 /\ s[1] = List(Containers)
        /\ s[2] = Each("start", {Gateway}) /\ s[3] = Each("health", {Gateway})
        /\ s[4] = Each("start", Containers \ {Gateway})
    BY SweepScripts
  <2>. HIDE DEF s
  <2>2. \A i \in 1..4 : i \in {1, 2, 3, 4}
    OBVIOUS
  <2>3. \A i \in 1..4 : s[i] \in StepType
    BY <1>0, <2>1, <2>2, SweepTypes
  <2>4. \A i \in 1..4 : SweepOK(s, i)
    BY <2>1, <2>2, SweepFields DEF SweepOK, Sweeping
  <2>. QED BY <2>1, <2>2, <2>3, <2>4 DEF ScriptOK, s
<1>5. ScriptOK(Script["restart"])
  <2>. DEFINE s == Script["restart"]
  <2>1. /\ Len(s) = 5 /\ s[1] = List(Containers) /\ s[2] = Each("halt", Containers)
        /\ s[3] = Each("start", {Gateway}) /\ s[4] = Each("health", {Gateway})
        /\ s[5] = Each("start", Containers \ {Gateway})
    BY SweepScripts
  <2>. HIDE DEF s
  <2>2. \A i \in 1..5 : i \in {1, 2, 3, 4, 5}
    OBVIOUS
  <2>3. \A i \in 1..5 : s[i] \in StepType
    BY <1>0, <2>1, <2>2, SweepTypes
  <2>4. \A i \in {1, 3, 4, 5} : SweepOK(s, i)
    BY <2>1, SweepFields DEF SweepOK, Sweeping
  <2>5. SweepOK(s, 2)
    BY <2>1, SweepFields DEF SweepOK
  <2>. QED BY <2>1, <2>2, <2>3, <2>4, <2>5 DEF ScriptOK, s
<1>6. Len(createBase) \in Nat /\ \A i \in 1..Len(createBase) : Plain(createBase[i])
  BY BaseScript DEF InOrder
<1>7. ScriptOK(Script["provision"])
  <2>. DEFINE s == Script["provision"]
  <2>1. /\ Len(s) = Len(createBase) + 1 /\ s[1] = Pull
        /\ \A i \in 2..Len(s) : i - 1 \in 1..Len(createBase) /\ s[i] = createBase[i - 1]
    BY CreateScripts
  <2>. HIDE DEF s
  <2>2. \A i \in 1..Len(s) : i = 1 \/ i \in 2..Len(s)
    BY <1>6, <2>1
  <2>3. \A i \in 2..Len(s) : Plain(s[i])
    BY <1>6, <2>1
  <2>4. \A i \in 1..Len(s) : s[i] \in StepType /\ s[i].listed = FALSE
    BY <2>1, <2>2, <2>3, SweepTypes, SweepFields DEF Plain
  <2>. QED BY <1>6, <2>1, <2>4 DEF ScriptOK, SweepOK, s
<1>8. ScriptOK(Script["rebuild"])
  <2>. DEFINE s == Script["rebuild"]
  <2>1. /\ Len(s) = Len(createBase) + 5 /\ s[1] = Pull
        /\ s[2] = List(Longlived) /\ s[3] = Each("delete", Longlived)
        /\ s[4] = List({Network}) /\ s[5] = Each("delete", {Network})
        /\ \A i \in 6..Len(s) : i - 5 \in 1..Len(createBase) /\ s[i] = createBase[i - 5]
    BY CreateScripts
  <2>. HIDE DEF s
  <2>2. \A i \in 1..Len(s) : i \in {1, 2, 3, 4, 5} \/ i \in 6..Len(s)
    BY <1>6, <2>1
  <2>3. \A i \in 6..Len(s) : Plain(s[i])
    BY <1>6, <2>1
  <2>4. \A i \in 6..Len(s) : s[i] \in StepType /\ SweepOK(s, i)
    BY <2>3 DEF Plain, SweepOK
  <2>5. \A i \in {1, 2, 3, 4, 5} : s[i] \in StepType
    BY <1>0, <2>1, SweepTypes
  <2>6. SweepOK(s, 1) /\ SweepOK(s, 2) /\ SweepOK(s, 4)
    BY <2>1, SweepFields DEF SweepOK
  <2>7. SweepOK(s, 3)
    BY <2>1, SweepFollows
  <2>9. SweepOK(s, 5)
    <3>1. s[5 - 1] = List({Network}) /\ s[5] = Each("delete", {Network})
      BY <2>1
    <3>. QED BY <3>1, SweepFollows
  <2>8. Len(s) \in Nat
    BY <1>6, <2>1
  <2>. QED BY <2>2, <2>4, <2>5, <2>6, <2>7, <2>8, <2>9 DEF ScriptOK, s
<1>9. \A a \in Apps : ScriptOK(createApp[a])
  BY <1>1, AppScript
<1>. QED BY <1>2, <1>3, <1>4, <1>5, <1>7, <1>8, <1>9 DEF Ops

-----------------------------------------------------------------------------
(* The engine.                                                             *)

\* What a request changes, and that it changes nothing else.
Engine(do, r) ==
  /\ \A x \in Resources : Listed(x)' => Listed(x) \/ (x = r /\ do \in {"create", "start"})
  /\ \A x \in Resources : Exists(x) => Exists(x)' \/ (x = r /\ do = "delete")
  /\ \A x \in Containers \cup {Network} : Exists(x)' => Exists(x) \/ (x = r /\ do = "create")
  /\ \A x \in Resources : Running(x) => Running(x)' \/ (x = r /\ do \in Sweeping)
  /\ \A x \in Resources : Running(x)' => Running(x) \/ (x = r /\ do = "start" /\ Exists(x))
  /\ do = "delete" => ~Exists(r)'
  /\ do = "create" => Exists(r)'
  /\ do = "start" /\ Exists(r) => Running(r)'
  /\ do \in {"stop", "halt"} => ~Running(r)'
  /\ r # Seed => res'[Seed] = res[Seed]
  /\ do \notin {"create", "start", "stop", "halt", "delete"} => res'[r] = res[r]
  /\ do = "start" => res'[r] \in {"running", "absent"}
  /\ seeded => seeded' \/ (r = Workspace /\ do = "delete")
  /\ edited' => edited /\ ~(r = Workspace /\ do = "delete")

\* What one engine request changes, and what it leaves alone.
LEMMA RequestEffect ==
  ASSUME TypeOK, EngineInv, NEW do \in Requests, NEW r \in Resources, Request(do, r)
  PROVE  /\ res' \in [Resources -> Statuses]
         /\ seeded' \in BOOLEAN /\ edited' \in BOOLEAN
         /\ EngineInv'
         /\ Engine(do, r)
<1>1. res \in [Resources -> Statuses] /\ seeded \in BOOLEAN /\ edited \in BOOLEAN
  BY DEF TypeOK
<1>0. do # "halt"
  BY DEF Requests, Dos, CreateDos
<1>2. DOMAIN res' = Resources /\ res'[r] = Becomes(do, r)
  <2>1. r \in Containers => r \notin Mounts(r)
    BY Needs, Apart DEF Containers
  <2>. QED BY <2>1 DEF Request
<1>3. \A x \in Resources : x # r =>
        \/ res'[x] = res[x]
        \/ do = "create" /\ x \in Volumes /\ res[x] = "absent" /\ res'[x] = "stray"
  BY Needs DEF Request, Exists
<1>4. /\ do = "delete" => res'[r] = "absent"
      /\ do = "create" => res'[r] = IF res[r] = "absent" THEN "present" ELSE res[r]
      /\ do = "start" => res'[r] = IF res[r] = "absent" THEN "absent" ELSE "running"
      /\ do \in {"stop", "halt"} => res'[r] = IF res[r] = "running" THEN "present" ELSE res[r]
      /\ do \notin {"create", "start", "stop", "halt", "delete"} => res'[r] = res[r]
  <2>1. do = "delete" => Becomes(do, r) = "absent"
    BY DEF Becomes
  <2>2. do = "create" => Becomes(do, r) = IF res[r] = "absent" THEN "present" ELSE res[r]
    BY DEF Becomes, Exists
  <2>3. do = "start" => Becomes(do, r) = IF res[r] = "absent" THEN "absent" ELSE "running"
    BY DEF Becomes, Exists
  <2>4. do \in {"stop", "halt"} =>
          Becomes(do, r) = IF res[r] = "running" THEN "present" ELSE res[r]
    BY <1>0 DEF Becomes, Running
  <2>5. do \notin {"create", "start", "stop", "halt", "delete"} => Becomes(do, r) = res[r]
    BY DEF Becomes
  <2>. QED BY <1>2, <2>1, <2>2, <2>3, <2>4, <2>5
<1>5. /\ seeded' <=> (seeded /\ ~(r = Workspace /\ do = "delete"))
      /\ edited' <=> (edited /\ ~(r = Workspace /\ do = "delete"))
      /\ seeded' \in BOOLEAN /\ edited' \in BOOLEAN
  BY DEF Request
<1>6. \A x \in Resources : res'[x] \in Statuses
  BY <1>1, <1>3, <1>4 DEF Statuses
<1>7. res' \in [Resources -> Statuses]
  <2>1. res' = [x \in Resources |-> res'[x]]
    BY DEF Request
  <2>. QED BY <1>6, <2>1
<1>8. EngineInv'
  <2>1. \A c \in Containers : c \in Resources /\ c \notin Volumes
    BY KnownResources, Apart DEF Containers
  <2>. QED BY <1>3, <1>4, <2>1 DEF EngineInv
<1>9. /\ \A x \in Resources : Listed(x)' => Listed(x) \/ (x = r /\ do \in {"create", "start"})
      /\ \A x \in Resources : Exists(x) => Exists(x)' \/ (x = r /\ do = "delete")
  BY <1>1, <1>3, <1>4 DEF Listed, Exists
<1>10. \A x \in Containers \cup {Network} :
         Exists(x)' => Exists(x) \/ (x = r /\ do = "create")
  <2>1. \A x \in Containers \cup {Network} : x \in Resources /\ x \notin Volumes
    BY KnownResources, Apart DEF Containers
  <2>. QED BY <1>1, <1>3, <1>4, <2>1 DEF Exists
<1>11. /\ \A x \in Resources : Running(x) => Running(x)' \/ (x = r /\ do \in Sweeping)
       /\ \A x \in Resources : Running(x)' => Running(x) \/ (x = r /\ do = "start" /\ Exists(x))
  BY <1>1, <1>3, <1>4 DEF Running, Exists, Sweeping
<1>12. /\ do = "delete" => ~Exists(r)'
       /\ do = "create" => Exists(r)'
       /\ do = "start" /\ Exists(r) => Running(r)'
       /\ do \in {"stop", "halt"} => ~Running(r)'
       /\ do = "start" => res'[r] \in {"running", "absent"}
  BY <1>1, <1>4 DEF Running, Exists
<1>13. r # Seed => res'[Seed] = res[Seed]
  BY <1>3, KnownResources, Apart
<1>. QED BY <1>4, <1>5, <1>7, <1>8, <1>9, <1>10, <1>11, <1>12, <1>13 DEF Engine

\* What happens in the containers creates and deletes nothing.
Quiet ==
  /\ \A x \in Resources : Exists(x)' <=> Exists(x)
  /\ \A x \in Resources : Listed(x)' <=> Listed(x)
  /\ \A x \in Resources : Running(x)' => Running(x)
  /\ \A x \in Longlived : Running(x) => Running(x)' \/ fallen'
  /\ res'[Seed] = "present" => res[Seed] = "present" \/ seeded'
  /\ seeded => seeded'
  /\ fallen => fallen'
  /\ edited' => edited \/ (Seeding /\ \E a \in Apps : Exists(App(a)))

QuietStep ==
  /\ res' \in [Resources -> Statuses]
  /\ seeded' \in BOOLEAN /\ edited' \in BOOLEAN /\ fallen' \in BOOLEAN
  /\ EngineInv'
  /\ Quiet

\* Outside requests nothing appears, disappears or starts.
LEMMA QuietEffect ==
  ASSUME TypeOK, EngineInv, Containment \/ UNCHANGED <<engineVars, fallen>>
  PROVE  QuietStep
<1>1. /\ res \in [Resources -> Statuses]
      /\ seeded \in BOOLEAN /\ edited \in BOOLEAN /\ fallen \in BOOLEAN
  BY DEF TypeOK
<1>2. ASSUME UNCHANGED <<engineVars, fallen>>
      PROVE  QuietStep
  BY <1>1, <1>2 DEF engineVars, EngineInv, Quiet, QuietStep, Exists, Listed, Running
<1>3. ASSUME NEW c \in Containers, JobEnds(c)
      PROVE  QuietStep
  <2>1. /\ c \in Oneshot /\ res[c] = "running" /\ c \in Resources
        /\ res' = [res EXCEPT ![c] = "present"]
        /\ seeded' = (seeded \/ c = Seed)
        /\ edited' = edited /\ fallen' = fallen
    BY <1>3, KnownResources DEF JobEnds, Running, ghostVars
  <2>2. res'[c] = "present" /\ \A x \in Resources : x # c => res'[x] = res[x]
    BY <1>1, <2>1
  <2>3. res' \in [Resources -> Statuses] /\ EngineInv'
    BY <1>1, <2>1, <2>2, KnownResources DEF Statuses, EngineInv
  <2>4. \A x \in Longlived : x # c /\ x \in Resources
    BY <2>1, Apart, KnownResources
  <2>5. /\ \A x \in Resources : Exists(x)' <=> Exists(x)
        /\ \A x \in Resources : Listed(x)' <=> Listed(x)
        /\ \A x \in Resources : Running(x)' => Running(x)
        /\ \A x \in Longlived : Running(x) => Running(x)' \/ fallen'
    BY <1>1, <2>1, <2>2, <2>4 DEF Exists, Listed, Running
  <2>6. res'[Seed] = "present" => res[Seed] = "present" \/ seeded'
    BY <2>1, <2>2, KnownResources
  <2>. QED BY <1>1, <2>1, <2>3, <2>5, <2>6 DEF Quiet, QuietStep
<1>4. ASSUME NEW c \in Containers, Falls(c)
      PROVE  QuietStep
  <2>1. /\ res[c] = "running" /\ c \in Resources
        /\ res' = [res EXCEPT ![c] = IF c \in Oneshot THEN "failed" ELSE "present"]
        /\ seeded' = seeded /\ edited' = edited /\ fallen' = TRUE
    BY <1>4, KnownResources DEF Falls, Running
  <2>2. /\ res'[c] \in {"failed", "present"}
        /\ c \in Oneshot => res'[c] = "failed"
        /\ \A x \in Resources : x # c => res'[x] = res[x]
    BY <1>1, <2>1
  <2>3. res' \in [Resources -> Statuses] /\ EngineInv'
    BY <1>1, <2>1, <2>2, KnownResources DEF Statuses, EngineInv
  <2>5. /\ \A x \in Resources : Exists(x)' <=> Exists(x)
        /\ \A x \in Resources : Listed(x)' <=> Listed(x)
        /\ \A x \in Resources : Running(x)' => Running(x)
    BY <1>1, <2>1, <2>2 DEF Exists, Listed, Running
  <2>6. res'[Seed] = "present" => res[Seed] = "present" \/ seeded'
    BY <2>1, <2>2, KnownResources
  <2>. QED BY <1>1, <2>1, <2>3, <2>5, <2>6 DEF Quiet, QuietStep
<1>5. ASSUME UserEdits
      PROVE  QuietStep
  <2>1. \E a \in Apps : Exists(App(a))
    BY <1>5 DEF UserEdits, Running, Exists
  <2>. QED BY <1>1, <1>5, <2>1
       DEF UserEdits, ghostVars, EngineInv, Quiet, QuietStep, Exists, Listed, Running
<1>. QED BY <1>2, <1>3, <1>4, <1>5 DEF Containment

-----------------------------------------------------------------------------
(* Calls.                                                                  *)

\* The types of the fields of a call.
LEMMA CallFields ==
  ASSUME TypeOK, NEW k \in Calls
  PROVE  /\ call[k].op \in Ops \cup {"none"} /\ call[k].at \in Nat
         /\ call[k].app \in Apps \cup {"-"} /\ call[k].todo \in SUBSET Apps
         /\ call[k].listed \in SUBSET Resources /\ call[k].done \in SUBSET Resources
         /\ call[k].alone \in BOOLEAN /\ call[k].seen \in SUBSET Resources
BY DEF TypeOK, CallType

\* A call in progress is in a script, at one of its steps or at its end.
LEMMA Position ==
  ASSUME TypeOK, CallInv, NEW k \in Calls, Active(k)
  PROVE  /\ ScriptOK(Steps(k)) /\ call[k].at \in Nat
         /\ AtEnd(k) => call[k].at = Len(Steps(k)) + 1
         /\ ~AtEnd(k) => /\ call[k].at \in 1..Len(Steps(k))
                         /\ Step(k) \in StepType
                         /\ SweepOK(Steps(k), call[k].at)
<1>1. call[k].op \in Ops /\ call[k].app \in Apps \cup {"-"} /\ call[k].at \in Nat
  BY CallFields DEF Active
<1>2. ScriptOK(Steps(k))
  BY <1>1, ScriptsOK DEF Steps
<1>3. call[k].at \in 1..(Len(Steps(k)) + 1)
  BY DEF CallInv, CallOK
<1>4. /\ AtEnd(k) => call[k].at = Len(Steps(k)) + 1
      /\ ~AtEnd(k) => call[k].at \in 1..Len(Steps(k))
  BY <1>2, <1>3 DEF AtEnd, ScriptOK
<1>. QED BY <1>1, <1>2, <1>4 DEF ScriptOK, Step

\* What the moves of one call do to it and leave of the others.
Others(k) == \A o \in Calls : o # k => call'[o] = call[o]

SameScript(k) ==
  /\ call'[k].op = call[k].op /\ call'[k].app = call[k].app
  /\ call'[k].todo = call[k].todo /\ call'[k].alone = call[k].alone

Unmoved(o) ==
  /\ call'[o].op = call[o].op /\ call'[o].at = call[o].at
  /\ call'[o].app = call[o].app /\ call'[o].todo = call[o].todo
  /\ call'[o].listed = call[o].listed /\ call'[o].done = call[o].done

\* Replacing one call leaves the others as they are.
LEMMA Update ==
  ASSUME TypeOK, NEW k \in Calls, NEW c \in CallType, call' = [call EXCEPT ![k] = c]
  PROVE  call' \in [Calls -> CallType] /\ Others(k) /\ call'[k] = c
<1>1. call \in [Calls -> CallType]
  BY DEF TypeOK
<1>. QED BY <1>1 DEF Others

AtDone(d, n, L) == [d EXCEPT !.at = n, !.done = L, !.seen = {}]
AtListed(d, n, L) == [d EXCEPT !.at = n, !.listed = L]

\* Moving a call along its script changes its position and nothing it was asked.
LEMMA StepForth ==
  \A d \in CallType, n \in Nat, L \in SUBSET Resources :
    /\ LET c == AtDone(d, n, L)
       IN  /\ c \in CallType /\ c.op = d.op /\ c.app = d.app /\ c.todo = d.todo
           /\ c.alone = d.alone /\ c.listed = d.listed /\ c.at = n /\ c.done = L /\ c.seen = {}
    /\ LET c == AtListed(d, n, L)
       IN  /\ c \in CallType /\ c.op = d.op /\ c.app = d.app /\ c.todo = d.todo
           /\ c.alone = d.alone /\ c.listed = L /\ c.at = n /\ c.done = d.done
           /\ c.seen = d.seen
<1>. TAKE d \in CallType, n \in Nat, L \in SUBSET Resources
<1>1. LET c == [d EXCEPT !.at = n, !.done = L, !.seen = {}]
      IN  /\ c \in CallType /\ c.op = d.op /\ c.app = d.app /\ c.todo = d.todo
          /\ c.alone = d.alone /\ c.listed = d.listed /\ c.at = n /\ c.done = L /\ c.seen = {}
  BY DEF CallType
<1>2. LET c == [d EXCEPT !.at = n, !.listed = L]
      IN  /\ c \in CallType /\ c.op = d.op /\ c.app = d.app /\ c.todo = d.todo
          /\ c.alone = d.alone /\ c.listed = L /\ c.at = n /\ c.done = d.done
           /\ c.seen = d.seen
  BY DEF CallType
<1>. QED BY <1>1, <1>2, Zenon DEF AtDone, AtListed

\* The two outcomes of a request: a halt notes what it found running, and any other
\* request is the last, or the only one, of the step on its resource.
Notes(k, r) ==
  /\ Active(k) /\ ~AtEnd(k) /\ Step(k).do = "halt"
  /\ r \in Eligible(k) /\ Running(r)
  /\ call' = [call EXCEPT ![k].seen = {r}]
  /\ UNCHANGED <<engineVars, ghostVars>>

Does(k, r) ==
  /\ Active(k) /\ ~AtEnd(k) /\ Step(k).do # "list"
  /\ r \in Eligible(k)
  /\ Step(k).do # "halt" => Asked(k) = Step(k).do /\ Permitted(Step(k).do, r)
  /\ Step(k).do = "halt" => Asked(k) = "stop" \/ (Asked(k) = "inspect" /\ ~Running(r))
  /\ Asked(k) \in Requests
  /\ Request(Asked(k), r)
  /\ call' = IF Pending(k) = {r}
             THEN [call EXCEPT ![k].at = @ + 1, ![k].done = {}, ![k].seen = {}]
             ELSE [call EXCEPT ![k].done = @ \cup {r}, ![k].seen = {}]
  /\ UNCHANGED ghostVars

\* Every request of the worker is one of the two, on a resource that is due.
LEMMA Performs ==
  ASSUME TypeOK, CallInv, NEW k \in Calls, NEW r \in Resources, Perform(k, r)
  PROVE  Notes(k, r) \/ Does(k, r)
<1>1. /\ Active(k) /\ ~AtEnd(k) /\ Step(k).do # "list" /\ r \in Targets(k)
      /\ Permitted(Asked(k), r) /\ Request(Asked(k), r) /\ UNCHANGED ghostVars
  BY DEF Perform
<1>2. r \in Eligible(k) /\ Step(k).do \in Dos
  <2>1. call[k].seen # {} => call[k].seen \subseteq Eligible(k)
    BY DEF CallInv, CallOK
  <2>. QED BY <1>1, <2>1, Position DEF Targets, StepType
<1>3. /\ Step(k).do # "halt" => Asked(k) = Step(k).do
      /\ Step(k).do = "halt" => Asked(k) \in {"stop", "inspect"}
  BY DEF Asked
<1>4. Asked(k) \in Requests
  BY <1>2, <1>3 DEF Requests, Dos
<1>5. CASE Asked(k) = "inspect" /\ Running(r)
  <2>1. Step(k).do = "halt"
    BY <1>2, <1>3, <1>5 DEF Dos, CreateDos
  <2>2. call' = [call EXCEPT ![k].seen = {r}]
    BY <1>5 DEF Perform
  <2>3. UNCHANGED engineVars
    <3>1. res \in [Resources -> Statuses] /\ seeded \in BOOLEAN /\ edited \in BOOLEAN
      BY DEF TypeOK
    <3>2. Request("inspect", r) /\ Becomes("inspect", r) = res[r]
      BY <1>1, <1>5 DEF Becomes
    <3>3. res' = [x \in Resources |-> res[x]]
      BY <3>2 DEF Request
    <3>4. seeded' = seeded /\ edited' = edited
      BY <3>1, <3>2 DEF Request
    <3>. QED BY <3>1, <3>3, <3>4 DEF engineVars
  <2>. QED BY <1>1, <1>2, <1>5, <2>1, <2>2, <2>3 DEF Notes
<1>6. CASE ~(Asked(k) = "inspect" /\ Running(r))
  <2>1. call' = IF Pending(k) = {r}
                THEN [call EXCEPT ![k].at = @ + 1, ![k].done = {}, ![k].seen = {}]
                ELSE [call EXCEPT ![k].done = @ \cup {r}, ![k].seen = {}]
    BY <1>6 DEF Perform
  <2>. QED BY <1>1, <1>2, <1>3, <1>4, <1>6, <2>1 DEF Does
<1>. QED BY <1>5, <1>6

\* What such a request does to the engine.
LEMMA DoesEffect ==
  ASSUME TypeOK, EngineInv, NEW k \in Calls, NEW r \in Resources, Does(k, r)
  PROVE  /\ res' \in [Resources -> Statuses]
         /\ seeded' \in BOOLEAN /\ edited' \in BOOLEAN
         /\ EngineInv'
         /\ Engine(Step(k).do, r)
<1>1. PICK do, ask : do = Step(k).do /\ ask = Asked(k)
  OBVIOUS
<1>2. /\ ask \in Requests /\ Request(ask, r)
      /\ do # "halt" => ask = do
      /\ do = "halt" => ask = "stop" \/ (ask = "inspect" /\ ~Running(r))
  BY <1>1 DEF Does
<1>3. /\ res' \in [Resources -> Statuses]
      /\ seeded' \in BOOLEAN /\ edited' \in BOOLEAN
      /\ EngineInv' /\ Engine(ask, r)
  BY <1>2, RequestEffect
<1>4. CASE ask = do
  BY <1>1, <1>3, <1>4
<1>5. CASE do = "halt" /\ ask = "stop"
  <2>1. Engine("halt", r)
    BY <1>3, <1>5 DEF Engine, Sweeping
  <2>. QED BY <1>1, <1>3, <1>5, <2>1
<1>6. CASE do = "halt" /\ ask = "inspect" /\ ~Running(r)
  <2>1. Engine("halt", r)
    BY <1>3, <1>6 DEF Engine, Sweeping
  <2>. QED BY <1>1, <1>3, <1>6, <2>1
<1>. QED BY <1>2, <1>4, <1>5, <1>6

\* A request marks its resource done; the last one of a step moves the call on.
LEMMA PerformMoves ==
  ASSUME TypeOK, NEW k \in Calls, NEW r \in Resources, Does(k, r)
  PROVE  /\ call' \in [Calls -> CallType]
         /\ Others(k) /\ SameScript(k) /\ call'[k].listed = call[k].listed
         /\ call'[k].seen = {}
         /\ \/ /\ Pending(k) = {r}
               /\ call'[k].at = call[k].at + 1 /\ call'[k].done = {}
            \/ /\ Pending(k) # {r}
               /\ call'[k].at = call[k].at /\ call'[k].done = call[k].done \cup {r}
<1>1. call \in [Calls -> CallType] /\ call[k] \in CallType
  BY DEF TypeOK
<1>. DEFINE Moved(n, L) ==
       /\ call' \in [Calls -> CallType]
       /\ Others(k) /\ SameScript(k) /\ call'[k].listed = call[k].listed
       /\ call'[k].seen = {} /\ call'[k].at = n /\ call'[k].done = L
<1>4. ASSUME NEW n \in Nat, NEW L \in SUBSET Resources,
             call' = [call EXCEPT ![k] = AtDone(call[k], n, L)]
      PROVE  Moved(n, L)
  <2>. DEFINE c == AtDone(call[k], n, L)
  <2>3. /\ c \in CallType /\ c.op = call[k].op /\ c.app = call[k].app /\ c.todo = call[k].todo
        /\ c.alone = call[k].alone /\ c.listed = call[k].listed
        /\ c.at = n /\ c.done = L /\ c.seen = {}
    BY <1>1, StepForth
  <2>4. call' = [call EXCEPT ![k] = c]
    BY <1>4
  <2>. HIDE DEF c
  <2>. QED BY <2>3, <2>4, Update DEF SameScript
<1>. HIDE DEF Moved
<1>5. /\ call[k].at \in Nat /\ call[k].at + 1 \in Nat
      /\ call[k].done \cup {r} \in SUBSET Resources /\ {} \in SUBSET Resources
  BY CallFields
<1>2. CASE Pending(k) = {r}
  <2>1. call' = [call EXCEPT ![k].at = @ + 1, ![k].done = {}, ![k].seen = {}]
    BY <1>2 DEF Does
  <2>2. call' = [call EXCEPT ![k] = AtDone(call[k], call[k].at + 1, {})]
    BY <1>1, <2>1 DEF AtDone
  <2>3. Moved(call[k].at + 1, {})
    BY <1>4, <1>5, <2>2, Zenon
  <2>. QED BY <1>2, <2>3 DEF Moved
<1>3. CASE Pending(k) # {r}
  <2>1. call' = [call EXCEPT ![k].done = @ \cup {r}, ![k].seen = {}]
    BY <1>3 DEF Does
  <2>2. call' = [call EXCEPT ![k] = AtDone(call[k], call[k].at, call[k].done \cup {r})]
    BY <1>1, <2>1 DEF AtDone, CallType
  <2>3. Moved(call[k].at, call[k].done \cup {r})
    BY <1>4, <1>5, <2>2, Zenon
  <2>. QED BY <1>3, <2>3 DEF Moved
<1>. QED BY <1>2, <1>3

\* A halt that found its container running only remembers it.
LEMMA NotesMoves ==
  ASSUME TypeOK, NEW k \in Calls, NEW r \in Resources, Notes(k, r)
  PROVE  /\ call' \in [Calls -> CallType]
         /\ Others(k) /\ Unmoved(k) /\ call'[k].alone = call[k].alone
         /\ call'[k].seen = {r}
<1>1. call \in [Calls -> CallType] /\ call[k] \in CallType
  BY DEF TypeOK
<1>. DEFINE c == [call[k] EXCEPT !.seen = {r}]
<1>2. call' = [call EXCEPT ![k] = c]
  BY <1>1 DEF Notes
<1>3. /\ c \in CallType /\ c.op = call[k].op /\ c.app = call[k].app /\ c.todo = call[k].todo
      /\ c.alone = call[k].alone /\ c.listed = call[k].listed
      /\ c.at = call[k].at /\ c.done = call[k].done /\ c.seen = {r}
  BY <1>1 DEF CallType
<1>. HIDE DEF c
<1>. QED BY <1>2, <1>3, Update DEF Unmoved

\* A listing moves the call on with the names it found.
LEMMA ListMoves ==
  ASSUME TypeOK, CallInv, NEW k \in Calls, ListStep(k)
  PROVE  /\ call' \in [Calls -> CallType]
         /\ Others(k) /\ SameScript(k) /\ call'[k].done = call[k].done
         /\ call'[k].at = call[k].at + 1
         /\ call'[k].listed = {r \in Step(k).on : Listed(r)} /\ call'[k].seen = call[k].seen
<1>1. call \in [Calls -> CallType] /\ call[k] \in CallType
  BY DEF TypeOK
<1>2. Step(k).on \subseteq Resources
  BY Position DEF ListStep, StepType
<1>. DEFINE L == {r \in Step(k).on : Listed(r)}
<1>3. call' = [call EXCEPT ![k].at = @ + 1, ![k].listed = L] /\ L \in SUBSET Resources
  BY <1>2 DEF ListStep
<1>. HIDE DEF L
<1>. DEFINE c == AtListed(call[k], call[k].at + 1, L)
<1>4. call' = [call EXCEPT ![k] = c]
  BY <1>1, <1>3 DEF AtListed
<1>5. /\ c \in CallType /\ c.op = call[k].op /\ c.app = call[k].app /\ c.todo = call[k].todo
      /\ c.alone = call[k].alone /\ c.listed = L
      /\ c.at = call[k].at + 1 /\ c.done = call[k].done /\ c.seen = call[k].seen
  <2>1. call[k].at + 1 \in Nat /\ L \in SUBSET Resources
    BY <1>3, CallFields
  <2>. QED BY <1>1, <2>1, StepForth
<1>. HIDE DEF c
<1>6. /\ call' \in [Calls -> CallType]
      /\ Others(k) /\ SameScript(k) /\ call'[k].done = call[k].done
      /\ call'[k].at = call[k].at + 1 /\ call'[k].listed = L /\ call'[k].seen = call[k].seen
  BY <1>4, <1>5, Update DEF SameScript
<1>. QED BY <1>6 DEF L

\* A step with nothing to do moves the call on.
LEMMA SkipMoves ==
  ASSUME TypeOK, NEW k \in Calls, Skip(k)
  PROVE  /\ call' \in [Calls -> CallType]
         /\ Others(k) /\ SameScript(k) /\ call'[k].done = call[k].done
         /\ call'[k].at = call[k].at + 1 /\ call'[k].listed = call[k].listed
         /\ call'[k].seen = call[k].seen
BY DEF TypeOK, CallType, Skip, Others, SameScript

\* At the end of a script the call starts on another app.
LEMMA NextAppMoves ==
  ASSUME TypeOK, NEW k \in Calls, NEW a \in Apps, NextApp(k, a)
  PROVE  /\ call' \in [Calls -> CallType]
         /\ Others(k)
         /\ call'[k].op = call[k].op /\ call'[k].app = a /\ call'[k].at = 1
         /\ call'[k].todo = call[k].todo \ {a} /\ call'[k].alone = call[k].alone
         /\ call'[k].done = call[k].done /\ call'[k].listed = call[k].listed
         /\ call'[k].seen = call[k].seen
BY DEF TypeOK, CallType, NextApp, Others

\* An answer, and an error, end the call.
LEMMA EndMoves ==
  ASSUME TypeOK, NEW k \in Calls, Answer(k) \/ GiveUp(k)
  PROVE  /\ call' \in [Calls -> CallType]
         /\ Others(k) /\ call'[k] = NoCall
<1>1. NoCall \in CallType
  BY DEF NoCall, CallType
<1>2. call' = [call EXCEPT ![k] = NoCall]
  BY DEF Answer, GiveUp
<1>. QED BY <1>1, <1>2, Update

\* A new call starts at its first step, and every call it meets is no longer alone.
LEMMA AcceptMoves ==
  ASSUME TypeOK, NEW k \in Calls, NEW op \in Ops, Accept(k, op)
  PROVE  /\ call' \in [Calls -> CallType]
         /\ overlapped' \in BOOLEAN
         /\ \A o \in Calls : o # k => /\ Unmoved(o) /\ call'[o].seen = call[o].seen
                                      /\ call'[o].alone = FALSE
         /\ call'[k].op = op /\ call'[k].at = 1 /\ call'[k].app = "-"
         /\ call'[k].todo = IF op \in Creating THEN Apps ELSE {}
         /\ call'[k].listed = {} /\ call'[k].done = {} /\ call'[k].seen = {}
         /\ call'[k].alone <=> \A o \in Calls : ~Active(o)
         /\ overlapped' <=> (overlapped \/ \E o \in Calls : Active(o))
<1>. DEFINE al == \A o \in Calls : ~Active(o)
            new == [op |-> op, at |-> 1, app |-> "-", listed |-> {}, done |-> {}, seen |-> {},
                    alone |-> al, todo |-> IF op \in Creating THEN Apps ELSE {}]
<1>1. call \in [Calls -> CallType] /\ \A o \in Calls : call[o] \in CallType
  BY DEF TypeOK
<1>2. /\ call' = [o \in Calls |-> IF o = k THEN new ELSE [call[o] EXCEPT !.alone = FALSE]]
      /\ overlapped' = (overlapped \/ ~al)
  BY DEF Accept, Creating
<1>3. overlapped' \in BOOLEAN /\ (overlapped' <=> (overlapped \/ \E o \in Calls : Active(o)))
  BY <1>2 DEF TypeOK
<1>4. new \in CallType
  BY DEF CallType
<1>5. /\ new.op = op /\ new.at = 1 /\ new.app = "-" /\ new.listed = {} /\ new.done = {}
      /\ new.seen = {}
      /\ new.todo = IF op \in Creating THEN Apps ELSE {}
      /\ new.alone <=> al
  OBVIOUS
<1>. HIDE DEF new
<1>6. call'[k] = new /\ \A o \in Calls : o # k => call'[o] = [call[o] EXCEPT !.alone = FALSE]
  BY <1>2
<1>7. \A o \in Calls : o # k =>
        /\ call'[o] \in CallType /\ Unmoved(o) /\ call'[o].alone = FALSE
        /\ call'[o].seen = call[o].seen
  <2>. SUFFICES ASSUME NEW o \in Calls, o # k
                PROVE  /\ call'[o] \in CallType /\ Unmoved(o) /\ call'[o].alone = FALSE
                       /\ call'[o].seen = call[o].seen
    OBVIOUS
  <2>. DEFINE c == [call[o] EXCEPT !.alone = FALSE]
  <2>1. call'[o] = c /\ call[o] \in CallType
    BY <1>1, <1>6
  <2>2. /\ c \in CallType /\ c.op = call[o].op /\ c.at = call[o].at
        /\ c.app = call[o].app /\ c.todo = call[o].todo
        /\ c.listed = call[o].listed /\ c.done = call[o].done /\ c.alone = FALSE
        /\ c.seen = call[o].seen
    BY <2>1 DEF CallType
  <2>. HIDE DEF c
  <2>. QED BY <2>1, <2>2 DEF Unmoved
<1>8. call' \in [Calls -> CallType]
  <2>1. \A o \in Calls : call'[o] \in CallType
    BY <1>4, <1>6, <1>7
  <2>2. call' = [o \in Calls |-> call'[o]]
    BY <1>2
  <2>. QED BY <2>1, <2>2
<1>. QED BY <1>3, <1>5, <1>6, <1>7, <1>8

\* A call nobody touched is where it was.
LEMMA SameCall ==
  ASSUME NEW o \in Calls, Unmoved(o)
  PROVE  /\ Steps(o)' = Steps(o) /\ Step(o)' = Step(o) /\ Pending(o)' = Pending(o)
         /\ AtEnd(o)' <=> AtEnd(o)
         /\ Active(o)' <=> Active(o)
         /\ Eligible(o)' = Eligible(o)
         /\ CallOK(o) /\ call'[o].seen = call[o].seen => CallOK(o)'
<1>. USE DEF Unmoved
<1>1. Steps(o)' = Steps(o)
  BY DEF Steps
<1>2. Step(o)' = Step(o) /\ (AtEnd(o)' <=> AtEnd(o)) /\ (Active(o)' <=> Active(o))
  BY <1>1 DEF Step, AtEnd, Active
<1>3. Pending(o)' = Pending(o)
  BY <1>2 DEF Pending
<1>4. Eligible(o)' = Eligible(o)
  BY <1>2, <1>3 DEF Eligible
<1>. QED BY <1>1, <1>2, <1>3, <1>4 DEF CallOK

\* A step of one call leaves the position of the others as it is.
LEMMA OthersSame ==
  ASSUME NEW k \in Calls, Others(k), CallInv
  PROVE  \A o \in Calls : o # k => CallOK(o)' /\ (Active(o)' <=> Active(o))
BY SameCall DEF Others, Unmoved, CallInv

\* CallInv under a request.
LEMMA PerformCall ==
  ASSUME TypeOK, CallInv, NEW k \in Calls, NEW r \in Resources, Does(k, r)
  PROVE  CallInv' /\ (Active(k)' <=> Active(k)) /\ Steps(k)' = Steps(k)
<1>1. /\ Active(k) /\ ~AtEnd(k) /\ Step(k).do # "list" /\ r \in Pending(k)
  BY DEF Does, Eligible
<1>2. /\ Others(k) /\ SameScript(k) /\ call'[k].listed = call[k].listed
      /\ call'[k].seen = {}
      /\ \/ /\ Pending(k) = {r}
            /\ call'[k].at = call[k].at + 1 /\ call'[k].done = {}
         \/ /\ Pending(k) # {r}
            /\ call'[k].at = call[k].at /\ call'[k].done = call[k].done \cup {r}
  BY PerformMoves
<1>3. Steps(k)' = Steps(k) /\ (Active(k)' <=> Active(k))
  BY <1>2 DEF Steps, SameScript, Active
<1>4. call[k].at \in 1..Len(Steps(k)) /\ Len(Steps(k)) \in Nat
  BY <1>1, Position DEF ScriptOK
<1>5. /\ call'[k].app # "-" \/ call'[k].todo # {} => call'[k].op \in Creating
      /\ call'[k].op \in Creating /\ call'[k].app = "-" => call'[k].todo = Apps
  BY <1>2 DEF SameScript, CallInv, CallOK
<1>6. CASE /\ Pending(k) = {r}
           /\ call'[k].at = call[k].at + 1 /\ call'[k].done = {}
  <2>1. call'[k].at \in 1..(Len(Steps(k)) + 1)
    BY <1>4, <1>6
  <2>2. CallOK(k)'
    BY <1>2, <1>3, <1>5, <1>6, <2>1 DEF CallOK
  <2>. QED BY <1>2, <1>3, <2>2, OthersSame DEF CallInv
<1>7. CASE /\ Pending(k) # {r}
           /\ call'[k].at = call[k].at /\ call'[k].done = call[k].done \cup {r}
  <2>1. Step(k)' = Step(k) /\ ~AtEnd(k)'
    BY <1>1, <1>3, <1>7 DEF Step, AtEnd
  <2>2. Pending(k)' = Pending(k) \ {r}
    BY <1>2, <1>7, <2>1 DEF Pending
  <2>3. Pending(k)' # {}
    BY <1>1, <1>7, <2>2
  <2>4. call'[k].at \in 1..(Len(Steps(k)) + 1)
    BY <1>4, <1>7
  <2>5. CallOK(k)'
    BY <1>1, <1>2, <1>3, <1>5, <2>1, <2>3, <2>4 DEF CallOK
  <2>. QED BY <1>2, <1>3, <2>5, OthersSame DEF CallInv
<1>. QED BY <1>2, <1>6, <1>7

\* CallInv under an inspection that found its container running.
LEMMA NotesCall ==
  ASSUME TypeOK, CallInv, NEW k \in Calls, NEW r \in Resources, Notes(k, r)
  PROVE  CallInv' /\ (Active(k)' <=> Active(k))
<1>1. Others(k) /\ Unmoved(k) /\ call'[k].seen = {r}
  BY NotesMoves
<1>2. Active(k) /\ ~AtEnd(k) /\ Step(k).do = "halt" /\ r \in Eligible(k)
  BY DEF Notes
<1>3. /\ Steps(k)' = Steps(k) /\ Step(k)' = Step(k) /\ Pending(k)' = Pending(k)
      /\ (AtEnd(k)' <=> AtEnd(k)) /\ (Active(k)' <=> Active(k)) /\ Eligible(k)' = Eligible(k)
  BY <1>1, SameCall
<1>4. CallOK(k)
  BY DEF CallInv
<1>5. CallOK(k)'
  BY <1>1, <1>2, <1>3, <1>4 DEF CallOK, Unmoved
<1>. QED BY <1>1, <1>3, <1>5, OthersSame DEF CallInv

\* A listing, or a sweep with nothing to visit.
Passes(k) ==
  /\ Active(k) /\ ~AtEnd(k)
  /\ Step(k).do = "list" \/ Pending(k) = {}
  /\ Others(k) /\ SameScript(k)
  /\ call'[k].at = call[k].at + 1 /\ call'[k].done = call[k].done
  /\ call'[k].seen = call[k].seen

\* CallInv under a listing or a skipped step.
LEMMA PassCall ==
  ASSUME TypeOK, CallInv, NEW k \in Calls, Passes(k)
  PROVE  /\ CallInv' /\ (Active(k)' <=> Active(k)) /\ Steps(k)' = Steps(k)
         /\ call[k].done = {} /\ call[k].seen = {}
<1>3. Steps(k)' = Steps(k) /\ (Active(k)' <=> Active(k))
  BY DEF Steps, SameScript, Active, Passes
<1>4. call[k].at \in 1..Len(Steps(k)) /\ Len(Steps(k)) \in Nat
  BY Position DEF ScriptOK, Passes
<1>5. /\ call'[k].app # "-" \/ call'[k].todo # {} => call'[k].op \in Creating
      /\ call'[k].op \in Creating /\ call'[k].app = "-" => call'[k].todo = Apps
      /\ call[k].done = {}
  BY DEF SameScript, CallInv, CallOK, Passes
<1>8. call[k].seen = {}
  <2>1. Eligible(k) \subseteq Pending(k)
    BY DEF Eligible
  <2>. QED BY <2>1 DEF CallInv, CallOK, Passes
<1>6. call'[k].at \in 1..(Len(Steps(k)) + 1)
  BY <1>4 DEF Passes
<1>7. CallOK(k)'
  BY <1>3, <1>5, <1>6, <1>8 DEF CallOK, Passes
<1>. QED BY <1>3, <1>5, <1>7, <1>8, OthersSame DEF CallInv, Passes

\* CallInv under the start of the next app.
LEMMA NextAppCall ==
  ASSUME TypeOK, CallInv, NEW k \in Calls, NEW a \in Apps, NextApp(k, a)
  PROVE  /\ CallInv' /\ (Active(k)' <=> Active(k)) /\ Steps(k)' = createApp[a]
         /\ call[k].op \in Creating /\ call[k].done = {} /\ call[k].seen = {}
         /\ a \in call[k].todo
<1>1. /\ Others(k)
      /\ call'[k].op = call[k].op /\ call'[k].app = a /\ call'[k].at = 1
      /\ call'[k].todo = call[k].todo \ {a} /\ call'[k].done = call[k].done
      /\ call'[k].seen = call[k].seen
  BY NextAppMoves
<1>2. Active(k) /\ AtEnd(k) /\ a \in call[k].todo
  BY DEF NextApp
<1>3. call[k].op \in Creating /\ call[k].done = {} /\ call[k].seen = {} /\ a # "-"
  BY <1>2, AppsAssumption DEF CallInv, CallOK
<1>4. Steps(k)' = createApp[a] /\ (Active(k)' <=> Active(k))
  BY <1>1, <1>3 DEF Steps, Active
<1>5. 1 \in 1..(Len(createApp[a]) + 1)
  BY ScriptsOK DEF ScriptOK
<1>6. CallOK(k)'
  BY <1>1, <1>3, <1>4, <1>5 DEF CallOK
<1>. QED BY <1>1, <1>2, <1>3, <1>4, <1>6, OthersSame DEF CallInv

\* CallInv under the end of a call.
LEMMA EndCall ==
  ASSUME TypeOK, CallInv, NEW k \in Calls, Answer(k) \/ GiveUp(k)
  PROVE  CallInv' /\ ~Active(k)' /\ Active(k) /\ call'[k].alone = FALSE /\ Others(k)
<1>1. Others(k) /\ call'[k] = NoCall
  BY EndMoves
<1>2. /\ call'[k].op = "none" /\ call'[k].app = "-" /\ call'[k].todo = {}
      /\ call'[k].done = {} /\ call'[k].seen = {} /\ call'[k].alone = FALSE
  BY <1>1 DEF NoCall
<1>3. CallOK(k)' /\ ~Active(k)'
  BY <1>2 DEF CallOK, Active, Creating
<1>4. Active(k)
  BY DEF Answer, GiveUp, Ended
<1>. QED BY <1>1, <1>2, <1>3, <1>4, OthersSame DEF CallInv

\* CallInv under a new call.
LEMMA AcceptCall ==
  ASSUME TypeOK, CallInv, NEW k \in Calls, NEW op \in Ops, Accept(k, op)
  PROVE  /\ CallInv' /\ Active(k)' /\ Steps(k)' = Script[op]
         /\ \A o \in Calls : o # k => (Active(o)' <=> Active(o))
<1>1. \A o \in Calls : o # k => Unmoved(o) /\ call'[o].seen = call[o].seen
  BY AcceptMoves
<1>6. /\ call'[k].op = op /\ call'[k].at = 1 /\ call'[k].app = "-"
      /\ call'[k].todo = IF op \in Creating THEN Apps ELSE {}
      /\ call'[k].done = {} /\ call'[k].seen = {}
  BY AcceptMoves, Zenon
<1>2. Steps(k)' = Script[op] /\ Active(k)'
  BY <1>6 DEF Steps, Active, Ops
<1>3. 1 \in 1..(Len(Script[op]) + 1)
  BY ScriptsOK DEF ScriptOK
<1>4. CallOK(k)'
  BY <1>2, <1>3, <1>6 DEF CallOK
<1>5. \A o \in Calls : o # k => CallOK(o)' /\ (Active(o)' <=> Active(o))
  BY <1>1, SameCall DEF CallInv
<1>. QED BY <1>2, <1>4, <1>5 DEF CallInv

-----------------------------------------------------------------------------
(* Types, calls and the engine.                                            *)

BaseInv == TypeOK /\ CallInv /\ LoneInv /\ EngineInv

\* The base of the invariant holds at first.
LEMMA BaseInit == Init => BaseInv
<1>. SUFFICES ASSUME Init PROVE BaseInv
  OBVIOUS
<1>1. /\ res = [r \in Resources |-> "absent"] /\ seeded = FALSE /\ edited = FALSE
      /\ call = [k \in Calls |-> NoCall] /\ overlapped = FALSE /\ fallen = FALSE
  BY DEF Init
<1>2. NoCall \in CallType
  BY DEF NoCall, CallType
<1>3. TypeOK
  BY <1>1, <1>2 DEF TypeOK, Statuses
<1>4. \A k \in Calls : /\ call[k].op = "none" /\ call[k].app = "-" /\ call[k].todo = {}
                       /\ call[k].done = {} /\ call[k].seen = {} /\ call[k].alone = FALSE
  BY <1>1 DEF NoCall
<1>5. CallInv /\ LoneInv
  BY <1>4 DEF CallInv, CallOK, LoneInv, Active, Creating
<1>6. EngineInv
  BY <1>1, KnownResources DEF EngineInv
<1>. QED BY <1>3, <1>5, <1>6 DEF BaseInv

\* Every step keeps the base of the invariant.
LEMMA BaseStep ==
  ASSUME BaseInv, [Next]_vars
  PROVE  BaseInv'
<1>. USE DEF BaseInv
<1>7. ASSUME NEW k \in Calls, NEW r \in Resources, Notes(k, r)
      PROVE  BaseInv'
  <2>1. /\ UNCHANGED <<engineVars, fallen>> /\ overlapped' = overlapped /\ fallen' = fallen
    BY <1>7 DEF Notes, ghostVars
  <2>2. QuietStep
    BY <2>1, QuietEffect
  <2>3. call' \in [Calls -> CallType] /\ Others(k) /\ call'[k].alone = call[k].alone
    BY <1>7, NotesMoves
  <2>5. CallInv' /\ (Active(k)' <=> Active(k))
    BY <1>7, NotesCall
  <2>6. \A o \in Calls : (Active(o)' <=> Active(o)) /\ call'[o].alone = call[o].alone
    BY <2>3, <2>5, OthersSame DEF Others
  <2>7. LoneInv'
    BY <2>1, <2>6 DEF LoneInv
  <2>8. TypeOK'
    BY <2>1, <2>2, <2>3 DEF TypeOK, QuietStep
  <2>. QED BY <2>2, <2>5, <2>7, <2>8 DEF QuietStep
<1>1. ASSUME NEW k \in Calls, NEW r \in Resources, Does(k, r)
      PROVE  BaseInv'
  <2>1. /\ Active(k) /\ ~AtEnd(k)
        /\ overlapped' = overlapped /\ fallen' = fallen
    BY <1>1 DEF Does, ghostVars
  <2>3. res' \in [Resources -> Statuses] /\ seeded' \in BOOLEAN /\ edited' \in BOOLEAN /\ EngineInv'
    BY <1>1, DoesEffect
  <2>4. call' \in [Calls -> CallType] /\ Others(k) /\ SameScript(k)
    BY <1>1, PerformMoves
  <2>5. CallInv' /\ (Active(k)' <=> Active(k))
    BY <1>1, PerformCall
  <2>6. \A o \in Calls : (Active(o)' <=> Active(o)) /\ call'[o].alone = call[o].alone
    BY <2>4, <2>5, OthersSame DEF Others, SameScript
  <2>7. LoneInv'
    BY <2>1, <2>6 DEF LoneInv
  <2>8. TypeOK'
    BY <2>1, <2>3, <2>4 DEF TypeOK
  <2>. QED BY <2>3, <2>5, <2>7, <2>8
<1>2. ASSUME NEW k \in Calls, ListStep(k) \/ Skip(k)
      PROVE  BaseInv'
  <2>1. /\ UNCHANGED <<engineVars, fallen>> /\ overlapped' = overlapped /\ fallen' = fallen
    BY <1>2 DEF ListStep, Skip, ghostVars
  <2>2. QuietStep
    BY <2>1, QuietEffect
  <2>3. call' \in [Calls -> CallType] /\ Passes(k)
    <3>1. CASE ListStep(k)
      BY <3>1, ListMoves DEF ListStep, Passes
    <3>2. CASE Skip(k)
      BY <3>2, SkipMoves DEF Skip, Passes
    <3>. QED BY <1>2, <3>1, <3>2
  <2>5. CallInv' /\ (Active(k)' <=> Active(k))
    BY <2>3, PassCall
  <2>6. \A o \in Calls : (Active(o)' <=> Active(o)) /\ call'[o].alone = call[o].alone
    BY <2>3, <2>5, OthersSame DEF Others, SameScript, Passes
  <2>7. LoneInv'
    BY <2>1, <2>6 DEF LoneInv
  <2>8. TypeOK'
    BY <2>1, <2>2, <2>3 DEF TypeOK, QuietStep
  <2>. QED BY <2>2, <2>5, <2>7, <2>8 DEF QuietStep
<1>3. ASSUME NEW k \in Calls, NEW a \in Apps, NextApp(k, a)
      PROVE  BaseInv'
  <2>1. /\ UNCHANGED <<engineVars, fallen>> /\ overlapped' = overlapped /\ fallen' = fallen
    BY <1>3 DEF NextApp, ghostVars
  <2>2. QuietStep
    BY <2>1, QuietEffect
  <2>3. call' \in [Calls -> CallType] /\ Others(k) /\ call'[k].alone = call[k].alone
    BY <1>3, NextAppMoves
  <2>5. CallInv' /\ (Active(k)' <=> Active(k))
    BY <1>3, NextAppCall
  <2>6. \A o \in Calls : (Active(o)' <=> Active(o)) /\ call'[o].alone = call[o].alone
    BY <2>3, <2>5, OthersSame DEF Others
  <2>7. LoneInv'
    BY <2>1, <2>6 DEF LoneInv
  <2>8. TypeOK'
    BY <2>1, <2>2, <2>3 DEF TypeOK, QuietStep
  <2>. QED BY <2>2, <2>5, <2>7, <2>8 DEF QuietStep
<1>4. ASSUME NEW k \in Calls, Answer(k) \/ GiveUp(k)
      PROVE  BaseInv'
  <2>1. /\ UNCHANGED <<engineVars, fallen>> /\ overlapped' = overlapped /\ fallen' = fallen
    BY <1>4 DEF Answer, GiveUp, ghostVars
  <2>2. QuietStep
    BY <2>1, QuietEffect
  <2>3. call' \in [Calls -> CallType]
    BY <1>4, EndMoves
  <2>5. CallInv' /\ ~Active(k)' /\ call'[k].alone = FALSE /\ Others(k)
    BY <1>4, EndCall
  <2>6. \A o \in Calls : o # k => (Active(o)' <=> Active(o)) /\ call'[o].alone = call[o].alone
    BY <2>5, OthersSame DEF Others
  <2>7. LoneInv'
    BY <2>1, <2>5, <2>6 DEF LoneInv
  <2>8. TypeOK'
    BY <2>1, <2>2, <2>3 DEF TypeOK, QuietStep
  <2>. QED BY <2>2, <2>5, <2>7, <2>8 DEF QuietStep
<1>5. ASSUME NEW k \in Calls, NEW op \in Ops, Accept(k, op)
      PROVE  BaseInv'
  <2>1. UNCHANGED engineVars /\ fallen' = FALSE /\ ~Active(k)
    BY <1>5 DEF Accept
  <2>2. EngineInv'
    BY <2>1 DEF EngineInv, engineVars
  <2>3. /\ call' \in [Calls -> CallType] /\ overlapped' \in BOOLEAN
        /\ \A o \in Calls : o # k => call'[o].alone = FALSE
        /\ call'[k].alone <=> \A o \in Calls : ~Active(o)
        /\ overlapped' <=> (overlapped \/ \E o \in Calls : Active(o))
    BY <1>5, AcceptMoves
  <2>5. CallInv' /\ Active(k)' /\ \A o \in Calls : o # k => (Active(o)' <=> Active(o))
    BY <1>5, AcceptCall
  <2>7. LoneInv'
    BY <2>1, <2>3, <2>5 DEF LoneInv
  <2>8. TypeOK'
    BY <2>1, <2>3 DEF TypeOK, engineVars
  <2>. QED BY <2>2, <2>5, <2>7, <2>8
<1>6. ASSUME Containment \/ UNCHANGED vars
      PROVE  BaseInv'
  <2>1. call' = call /\ overlapped' = overlapped
    BY <1>6 DEF Containment, JobEnds, Falls, UserEdits, ghostVars, vars
  <2>2. QuietStep
    BY <1>6, QuietEffect DEF vars, engineVars
  <2>3. \A o \in Calls : CallOK(o)' /\ (Active(o)' <=> Active(o))
    BY <2>1, SameCall DEF CallInv, Unmoved
  <2>4. CallInv' /\ LoneInv'
    BY <2>1, <2>3 DEF CallInv, LoneInv
  <2>5. TypeOK'
    BY <2>1, <2>2 DEF TypeOK, QuietStep
  <2>. QED BY <2>2, <2>4, <2>5 DEF QuietStep
<1>8. ASSUME NEW k \in Calls, NEW r \in Resources, Perform(k, r)
      PROVE  BaseInv'
  BY <1>1, <1>7, <1>8, Performs
<1>. QED BY <1>2, <1>3, <1>4, <1>5, <1>6, <1>8 DEF Next, Serve

-----------------------------------------------------------------------------
(* The steps a call may be at.                                             *)

\* A prefix in front of a script keeps the order of the steps behind it.
LEMMA Shifted ==
  ASSUME NEW s, NEW b, NEW n \in Nat, InOrder(b, 1), Len(s) = Len(b) + n,
         \A i \in (n + 1)..Len(s) : i - n \in 1..Len(b) /\ s[i] = b[i - n],
         \A i \in 1..Len(b) : i + n \in (n + 1)..Len(s) /\ s[i + n] = b[i]
  PROVE  InOrder(s, n + 1) /\ \A t : Includes(b, 1, t) => Includes(s, n + 1, t)
<1>1. Len(b) \in Nat /\ Len(s) \in Nat /\ n + 1 \in Nat /\ n + 1 > 0
  BY DEF InOrder
<1>2. \A i \in (n + 1)..Len(s) : Plain(s[i])
  BY DEF InOrder
<1>3. ASSUME NEW i \in (n + 1)..Len(s), NEW t, Before(b, 1, i - n, t)
      PROVE  Before(s, n + 1, i, t)
  <2>1. PICK j \in 1..((i - n) - 1) : b[j] = t
    BY <1>3 DEF Before
  <2>2. j \in 1..Len(b) /\ j + n \in (n + 1)..(i - 1)
    BY <1>1
  <2>. QED BY <2>1, <2>2 DEF Before
<1>4. \A i \in (n + 1)..Len(s) : \A r \in Longlived :
       s[i].do = "start" /\ r \in s[i].on => Before(s, n + 1, i, One("create", r))
  BY <1>3 DEF InOrder
<1>5. \A i \in (n + 1)..Len(s) :
       s[i].do = "wait" /\ Seed \in s[i].on => Before(s, n + 1, i, One("start", Seed))
  BY <1>3 DEF InOrder
<1>6. \A i \in (n + 1)..Len(s) :
       s[i].do = "create" /\ Gateway \in s[i].on => Before(s, n + 1, i, One("create", Network))
  BY <1>3 DEF InOrder
<1>7. \A i, j \in (n + 1)..Len(s) :
       /\ s[i].do = "create" /\ Seed \in s[i].on
       /\ s[j].do = "start" /\ Seed \in s[j].on
       => i < j
  <2>. SUFFICES ASSUME NEW i \in (n + 1)..Len(s), NEW j \in (n + 1)..Len(s),
                       s[i].do = "create" /\ Seed \in s[i].on,
                       s[j].do = "start" /\ Seed \in s[j].on
                PROVE  i < j
    OBVIOUS
  <2>1. /\ i - n \in 1..Len(b) /\ s[i] = b[i - n]
        /\ j - n \in 1..Len(b) /\ s[j] = b[j - n]
    OBVIOUS
  <2>2. i - n < j - n
    BY <2>1 DEF InOrder
  <2>. QED BY <1>1, <2>1, <2>2
<1>8. InOrder(s, n + 1)
  BY <1>1, <1>2, <1>4, <1>5, <1>6, <1>7 DEF InOrder
<1>. QED BY <1>8 DEF Includes

\* What a provision or rebuild does to create: in the base script, and per app.
LEMMA BaseOrder ==
  ASSUME NEW op \in Creating
  PROVE  LET s == Script[op]
             f == BaseFrom(op)
         IN  /\ InOrder(s, f)
             /\ Includes(s, f, One("create", Network))
             /\ Includes(s, f, One("create", Gateway))
             /\ Includes(s, f, One("start", Gateway))
             /\ Seeding => Includes(s, f, One("wait", Seed))
             /\ \A i \in f..Len(s) : \A r \in Longlived :
                  s[i].do = "create" /\ r \in s[i].on => r = Gateway
<1>. DEFINE b == createBase
<1>0. /\ InOrder(b, 1)
      /\ Includes(b, 1, One("create", Network)) /\ Includes(b, 1, One("create", Gateway))
      /\ Includes(b, 1, One("start", Gateway))
      /\ Seeding => Includes(b, 1, One("wait", Seed))
      /\ \A i \in 1..Len(b) : \A r \in Longlived :
           b[i].do = "create" /\ r \in b[i].on => r = Gateway
  BY BaseScript
<1>1. CASE op = "provision"
  <2>. DEFINE s == Script["provision"]
  <2>1. /\ Len(s) = Len(b) + 1
        /\ \A i \in (1 + 1)..Len(s) : i - 1 \in 1..Len(b) /\ s[i] = b[i - 1]
        /\ \A i \in 1..Len(b) : i + 1 \in (1 + 1)..Len(s) /\ s[i + 1] = b[i]
    BY CreateScripts
  <2>. HIDE DEF b, s
  <2>2. InOrder(s, 1 + 1) /\ \A t : Includes(b, 1, t) => Includes(s, 1 + 1, t)
    BY <1>0, <2>1, Shifted
  <2>3. \A i \in 2..Len(s) : \A r \in Longlived :
          s[i].do = "create" /\ r \in s[i].on => r = Gateway
    BY <1>0, <2>1
  <2>4. BaseFrom(op) = 2 /\ 1 + 1 = 2 /\ Script[op] = s
    BY <1>1 DEF BaseFrom, s
  <2>. QED BY <1>0, <2>2, <2>3, <2>4
<1>2. CASE op = "rebuild"
  <2>. DEFINE s == Script["rebuild"]
  <2>1. /\ Len(s) = Len(b) + 5
        /\ \A i \in (5 + 1)..Len(s) : i - 5 \in 1..Len(b) /\ s[i] = b[i - 5]
        /\ \A i \in 1..Len(b) : i + 5 \in (5 + 1)..Len(s) /\ s[i + 5] = b[i]
    BY CreateScripts
  <2>. HIDE DEF b, s
  <2>2. InOrder(s, 5 + 1) /\ \A t : Includes(b, 1, t) => Includes(s, 5 + 1, t)
    BY <1>0, <2>1, Shifted
  <2>3. \A i \in 6..Len(s) : \A r \in Longlived :
          s[i].do = "create" /\ r \in s[i].on => r = Gateway
    BY <1>0, <2>1
  <2>4. BaseFrom(op) = 6 /\ 5 + 1 = 6 /\ Script[op] = s
    BY <1>2 DEF BaseFrom, s
  <2>. QED BY <1>0, <2>2, <2>3, <2>4
<1>. QED BY <1>1, <1>2 DEF Creating

\* A provision and a rebuild always work through steps in order.
LEMMA CreateOrder ==
  ASSUME TypeOK, NEW k \in Calls, call[k].op \in Creating
  PROVE  InOrder(Steps(k), From(k)) /\ From(k) \in Nat
<1>1. CASE call[k].app = "-"
  BY <1>1, BaseOrder DEF Steps, From, InOrder
<1>2. CASE call[k].app # "-"
  <2>1. call[k].app \in Apps
    BY <1>2, CallFields
  <2>. QED BY <1>2, <2>1, AppScript DEF Steps, From, InOrder
<1>. QED BY <1>1, <1>2

\* The steps of the other calls, and of a rebuild before createBase.
LEMMA WhichStep ==
  ASSUME TypeOK, CallInv, NEW k \in Calls, Active(k), ~AtEnd(k)
  PROVE  LET n == call[k].at
             s == Step(k)
         IN  /\ call[k].op = "delete" =>
                  \/ n = 1 /\ s = List(Containers)
                  \/ n = 2 /\ s = Each("delete", Containers)
                  \/ n = 3 /\ s = List({Network})
                  \/ n = 4 /\ s = Each("delete", {Network})
                  \/ n = 5 /\ s = List(Volumes)
                  \/ n = 6 /\ s = Each("delete", Volumes)
             /\ call[k].op = "stop" =>
                  \/ n = 1 /\ s = List(Containers)
                  \/ n = 2 /\ s = Each("stop", Containers)
             /\ call[k].op = "start" =>
                  \/ n = 1 /\ s = List(Containers)
                  \/ n = 2 /\ s = Each("start", {Gateway})
                  \/ n = 3 /\ s = Each("health", {Gateway})
                  \/ n = 4 /\ s = Each("start", Containers \ {Gateway})
             /\ call[k].op = "restart" =>
                  \/ n = 1 /\ s = List(Containers)
                  \/ n = 2 /\ s = Each("halt", Containers)
                  \/ n = 3 /\ s = Each("start", {Gateway})
                  \/ n = 4 /\ s = Each("health", {Gateway})
                  \/ n = 5 /\ s = Each("start", Containers \ {Gateway})
             /\ call[k].op \in Creating =>
                  \/ n \in From(k)..Len(Steps(k)) /\ Plain(s)
                  \/ call[k].app = "-" /\ n = 1 /\ s = Pull
                  \/ /\ call[k].op = "rebuild" /\ call[k].app = "-"
                     /\ \/ n = 2 /\ s = List(Longlived)
                        \/ n = 3 /\ s = Each("delete", Longlived)
                        \/ n = 4 /\ s = List({Network})
                        \/ n = 5 /\ s = Each("delete", {Network})
<1>. DEFINE n == call[k].at
            s == Step(k)
<1>1. n \in Nat /\ n \in 1..Len(Steps(k)) /\ s = Steps(k)[n] /\ Len(Steps(k)) \in Nat
  BY Position DEF ScriptOK, Step
<1>2. call[k].op \notin Creating => Steps(k) = Script[call[k].op]
  BY DEF Steps, CallInv, CallOK
<1>. HIDE DEF n, s
<1>3. ASSUME call[k].op = "delete"
      PROVE  \/ n = 1 /\ s = List(Containers)
             \/ n = 2 /\ s = Each("delete", Containers)
             \/ n = 3 /\ s = List({Network})
             \/ n = 4 /\ s = Each("delete", {Network})
             \/ n = 5 /\ s = List(Volumes)
             \/ n = 6 /\ s = Each("delete", Volumes)
  <2>. DEFINE t == Script["delete"]
  <2>1. s = t[n] /\ n \in 1..6
    BY <1>1, <1>2, <1>3, SweepScripts DEF Creating
  <2>2. n \in {1, 2, 3, 4, 5, 6}
    BY <2>1
  <2>3. /\ t[1] = List(Containers) /\ t[2] = Each("delete", Containers)
        /\ t[3] = List({Network})  /\ t[4] = Each("delete", {Network})
        /\ t[5] = List(Volumes)    /\ t[6] = Each("delete", Volumes)
    BY SweepScripts
  <2>. HIDE DEF t
  <2>. QED BY <2>1, <2>2, <2>3
<1>4. ASSUME call[k].op = "stop"
      PROVE  \/ n = 1 /\ s = List(Containers)
             \/ n = 2 /\ s = Each("stop", Containers)
  <2>. DEFINE t == Script["stop"]
  <2>1. s = t[n] /\ n \in 1..2
    BY <1>1, <1>2, <1>4, SweepScripts DEF Creating
  <2>2. n \in {1, 2}
    BY <2>1
  <2>3. t[1] = List(Containers) /\ t[2] = Each("stop", Containers)
    BY SweepScripts
  <2>. HIDE DEF t
  <2>. QED BY <2>1, <2>2, <2>3
<1>5. ASSUME call[k].op = "start"
      PROVE  \/ n = 1 /\ s = List(Containers)
             \/ n = 2 /\ s = Each("start", {Gateway})
             \/ n = 3 /\ s = Each("health", {Gateway})
             \/ n = 4 /\ s = Each("start", Containers \ {Gateway})
  <2>. DEFINE t == Script["start"]
  <2>1. s = t[n] /\ n \in 1..4
    BY <1>1, <1>2, <1>5, SweepScripts DEF Creating
  <2>2. n \in {1, 2, 3, 4}
    BY <2>1
  <2>3. /\ t[1] = List(Containers)
        /\ t[2] = Each("start", {Gateway}) /\ t[3] = Each("health", {Gateway})
        /\ t[4] = Each("start", Containers \ {Gateway})
    BY SweepScripts
  <2>. HIDE DEF t
  <2>. QED BY <2>1, <2>2, <2>3
<1>6. ASSUME call[k].op = "restart"
      PROVE  \/ n = 1 /\ s = List(Containers)
             \/ n = 2 /\ s = Each("halt", Containers)
             \/ n = 3 /\ s = Each("start", {Gateway})
             \/ n = 4 /\ s = Each("health", {Gateway})
             \/ n = 5 /\ s = Each("start", Containers \ {Gateway})
  <2>. DEFINE t == Script["restart"]
  <2>1. s = t[n] /\ n \in 1..5
    BY <1>1, <1>2, <1>6, SweepScripts DEF Creating
  <2>2. n \in {1, 2, 3, 4, 5}
    BY <2>1
  <2>3. /\ t[1] = List(Containers) /\ t[2] = Each("halt", Containers)
        /\ t[3] = Each("start", {Gateway}) /\ t[4] = Each("health", {Gateway})
        /\ t[5] = Each("start", Containers \ {Gateway})
    BY SweepScripts
  <2>. HIDE DEF t
  <2>. QED BY <2>1, <2>2, <2>3
<1>7. ASSUME call[k].op \in Creating
      PROVE  \/ n \in From(k)..Len(Steps(k)) /\ Plain(s)
             \/ call[k].app = "-" /\ n = 1 /\ s = Pull
             \/ /\ call[k].op = "rebuild" /\ call[k].app = "-"
                /\ \/ n = 2 /\ s = List(Longlived)
                   \/ n = 3 /\ s = Each("delete", Longlived)
                   \/ n = 4 /\ s = List({Network})
                   \/ n = 5 /\ s = Each("delete", {Network})
  <2>1. InOrder(Steps(k), From(k)) /\ From(k) \in Nat
    BY <1>7, CreateOrder
  <2>2. CASE n >= From(k)
    <3>1. n \in From(k)..Len(Steps(k))
      BY <1>1, <2>1, <2>2
    <3>. QED BY <1>1, <2>1, <3>1 DEF InOrder
  <2>3. CASE n < From(k)
    <3>1. call[k].app = "-"
      BY <1>1, <2>3 DEF From
    <3>2. CASE call[k].op = "provision"
      <4>1. n = 1 /\ Steps(k) = Script["provision"]
        BY <1>1, <2>3, <3>1, <3>2 DEF From, BaseFrom, Steps
      <4>. QED BY <1>1, <3>1, <4>1, CreateScripts
    <3>3. CASE call[k].op = "rebuild"
      <4>. DEFINE t == Script["rebuild"]
      <4>1. n \in {1, 2, 3, 4, 5} /\ Steps(k) = t
        BY <1>1, <2>3, <3>1, <3>3 DEF From, BaseFrom, Steps
      <4>2. /\ t[1] = Pull /\ t[2] = List(Longlived) /\ t[3] = Each("delete", Longlived)
            /\ t[4] = List({Network}) /\ t[5] = Each("delete", {Network})
        BY CreateScripts
      <4>. HIDE DEF t
      <4>. QED BY <1>1, <3>1, <3>3, <4>1, <4>2
    <3>. QED BY <1>7, <3>2, <3>3 DEF Creating
  <2>. QED BY <1>1, <2>1, <2>2, <2>3
<1>. QED BY <1>3, <1>4, <1>5, <1>6, <1>7 DEF n, s

-----------------------------------------------------------------------------
(* The call that is alone.                                                 *)

\* Nothing happens to the script of call k: at most an inspection is remembered.
Rests(k) ==
  /\ Unmoved(k) /\ QuietStep
  /\ call'[k].seen = call[k].seen \/ \A c \in call'[k].seen : Running(c)'

\* Who can move when call k is alone afterwards.
LEMMA LoneStep ==
  ASSUME BaseInv, [Next]_vars, NEW k \in Calls, call'[k].alone
  PROVE  \/ \E op \in Ops : Accept(k, op)
         \/ /\ call[k].alone
            /\ \/ \E r \in Resources : Does(k, r)
               \/ ListStep(k) \/ Skip(k)
               \/ \E a \in Apps : NextApp(k, a)
               \/ Rests(k)
<1>. USE DEF BaseInv
<1>1. ASSUME NEW o \in Calls, o # k, Active(o), Others(o)
      PROVE  FALSE
  <2>1. call[k].alone
    BY <1>1 DEF Others
  <2>. QED BY <1>1, <2>1 DEF LoneInv
<1>2. ASSUME NEW o \in Calls, NEW r \in Resources, Does(o, r)
      PROVE  o = k /\ call[k].alone
  <2>1. Others(o) /\ SameScript(o) /\ Active(o)
    BY <1>2, PerformMoves DEF Does
  <2>. QED BY <1>1, <2>1 DEF SameScript
<1>8. ASSUME NEW o \in Calls, NEW r \in Resources, Notes(o, r)
      PROVE  call[k].alone /\ Rests(k)
  <2>1. /\ Others(o) /\ Active(o) /\ Running(r) /\ UNCHANGED <<engineVars, fallen>>
        /\ Unmoved(o) /\ call'[o].alone = call[o].alone /\ call'[o].seen = {r}
    BY <1>8, NotesMoves DEF Notes, ghostVars
  <2>2. o = k
    BY <1>1, <2>1
  <2>3. QuietStep
    BY <2>1, QuietEffect
  <2>4. Running(r)'
    BY <2>1 DEF Running, engineVars
  <2>. QED BY <2>1, <2>2, <2>3, <2>4 DEF Rests
<1>9. ASSUME NEW o \in Calls, NEW r \in Resources, Perform(o, r)
      PROVE  call[k].alone /\ (Does(k, r) \/ Rests(k))
  BY <1>2, <1>8, <1>9, Performs
<1>3. ASSUME NEW o \in Calls, ListStep(o) \/ Skip(o)
      PROVE  o = k /\ call[k].alone
  <2>1. Others(o) /\ SameScript(o) /\ Active(o)
    <3>1. CASE ListStep(o)
      BY <3>1, ListMoves DEF ListStep
    <3>2. CASE Skip(o)
      BY <3>2, SkipMoves DEF Skip
    <3>. QED BY <1>3, <3>1, <3>2
  <2>. QED BY <1>1, <2>1 DEF SameScript
<1>4. ASSUME NEW o \in Calls, NEW a \in Apps, NextApp(o, a)
      PROVE  o = k /\ call[k].alone
  <2>1. Others(o) /\ Active(o) /\ call'[o].alone = call[o].alone
    BY <1>4, NextAppMoves DEF NextApp
  <2>. QED BY <1>1, <2>1
<1>5. ASSUME NEW o \in Calls, Answer(o) \/ GiveUp(o)
      PROVE  FALSE
  <2>1. Others(o) /\ Active(o) /\ call'[o].alone = FALSE
    BY <1>5, EndCall
  <2>. QED BY <1>1, <2>1
<1>6. ASSUME NEW o \in Calls, NEW op \in Ops, Accept(o, op)
      PROVE  o = k
  BY <1>6, AcceptMoves
<1>7. ASSUME Containment \/ UNCHANGED vars
      PROVE  call[k].alone /\ Rests(k)
  <2>1. call' = call
    BY <1>7 DEF Containment, JobEnds, Falls, UserEdits, vars
  <2>2. QuietStep
    BY <1>7, QuietEffect DEF vars, engineVars
  <2>. QED BY <2>1, <2>2 DEF Rests, Unmoved
<1>. QED BY <1>9, <1>3, <1>4, <1>5, <1>6, <1>7 DEF Next, Serve

\* The first step of a script is no sweep.
LEMMA FirstStep ==
  ASSUME NEW k \in Calls, NEW s, ScriptOK(s), Steps(k)' = s, call'[k].at = 1
  PROVE  SweepInv(k)'
<1>. SUFFICES ASSUME ~AtEnd(k)', Step(k)'.listed, Step(k)'.do \in Sweeping
              PROVE  FALSE
  BY DEF SweepInv
<1>1. 1 \in 1..Len(s) /\ Step(k)' = s[1]
  BY DEF AtEnd, Step, ScriptOK
<1>2. SweepOK(s, 1)
  BY <1>1 DEF ScriptOK
<1>. QED BY <1>1, <1>2 DEF SweepOK

\* A call that starts has nothing to show yet.
LEMMA AcceptWork ==
  ASSUME BaseInv, BaseInv', NEW k \in Calls, NEW op \in Ops, Accept(k, op)
  PROVE  Work(k)'
<1>. USE DEF BaseInv
<1>1. call'[k].op = op /\ call'[k].at = 1 /\ call'[k].app = "-" /\ call'[k].seen = {}
  BY AcceptMoves, Zenon
<1>2. Active(k)' /\ Steps(k)' = Script[op]
  BY AcceptCall
<1>3. SweepInv(k)'
  BY <1>1, <1>2, FirstStep, ScriptsOK
<1>4. DeleteInv(k)' /\ ClearInv(k)' /\ RestartInv(k)'
  BY <1>1 DEF DeleteInv, ClearInv, RestartInv
<1>5. From(k)' = BaseFrom(op) /\ BaseFrom(op) \in {2, 6}
  BY <1>1 DEF From, BaseFrom
<1>6. CreateInv(k)'
  BY <1>1, <1>5 DEF CreateInv
<1>. QED BY <1>3, <1>4, <1>6 DEF Work

\* What a creating call has made stays made while no request runs, or a container fell.
LEMMA QuietMade ==
  ASSUME QuietStep
  PROVE  /\ \A s \in StepType : Made(s) => Made(s)'
         /\ BaseMade => BaseMade'
         /\ \A a \in Apps : AppMade(a) => AppMade(a)'
<1>. USE DEF QuietStep, Quiet
<1>1. ASSUME NEW s \in StepType, Made(s)
      PROVE  Made(s)'
  <2>. SUFFICES ASSUME NEW r \in s.on
                PROVE  /\ s.do = "create" /\ r \notin Oneshot => Exists(r)'
                       /\ s.do = "start" /\ r \in Longlived => Running(r)' \/ fallen'
                       /\ s.do = "start" /\ r = Seed => res'[Seed] # "present" \/ seeded'
                       /\ s.do = "wait" /\ r = Seed => seeded'
    BY DEF Made
  <2>1. /\ s.do = "create" /\ r \notin Oneshot => Exists(r)
        /\ s.do = "start" /\ r \in Longlived => Running(r) \/ fallen
        /\ s.do = "start" /\ r = Seed => res[Seed] # "present" \/ seeded
        /\ s.do = "wait" /\ r = Seed => seeded
    BY <1>1 DEF Made
  <2>2. r \in Resources
    BY DEF StepType
  <2>. QED BY <2>1, <2>2
<1>2. BaseMade => BaseMade'
  BY KnownResources DEF BaseMade
<1>3. \A a \in Apps : AppMade(a) => AppMade(a)'
  BY KnownResources DEF AppMade
<1>. QED BY <1>1, <1>2, <1>3

\* What a lone call has achieved survives whatever happens outside requests.
LEMMA QuietWork ==
  ASSUME BaseInv, NEW k \in Calls, Active(k), Work(k), Rests(k)
  PROVE  Work(k)'
<1>. USE DEF BaseInv
<1>1. /\ Steps(k)' = Steps(k) /\ Step(k)' = Step(k) /\ (AtEnd(k)' <=> AtEnd(k))
  BY SameCall DEF Rests
<1>0. /\ call'[k].op = call[k].op /\ call'[k].at = call[k].at
      /\ call'[k].app = call[k].app /\ call'[k].todo = call[k].todo
      /\ call'[k].listed = call[k].listed /\ call'[k].done = call[k].done /\ QuietStep
      /\ call'[k].seen = call[k].seen \/ \A c \in call'[k].seen : Running(c)'
  BY DEF Rests, Unmoved
<1>2. ScriptOK(Steps(k)) /\ (~AtEnd(k) => Step(k) \in StepType)
  BY Position
<1>3. SweepInv(k)'
  <2>. SUFFICES ASSUME ~AtEnd(k), Step(k).listed, Step(k).do \in Sweeping,
                       NEW r \in Step(k).on, Listed(r)'
                PROVE  /\ r \in call[k].listed
                       /\ r \in call[k].done => Step(k).do # "delete" /\ ~Running(r)'
    BY <1>0, <1>1 DEF SweepInv
  <2>1. r \in Resources
    BY <1>2 DEF StepType
  <2>2. Listed(r) /\ (Running(r)' => Running(r))
    BY <1>0, <2>1 DEF QuietStep, Quiet
  <2>. QED BY <2>2 DEF Work, SweepInv
<1>4. DeleteInv(k)'
  BY <1>0, KnownResources DEF Work, DeleteInv, QuietStep, Quiet
<1>5. ClearInv(k)'
  BY <1>0, KnownResources DEF Work, ClearInv, QuietStep, Quiet
<1>6. RestartInv(k)'
  <2>1. \A c \in Containers : (Exists(c)' <=> Exists(c)) /\ (Running(c)' => Running(c))
    BY <1>0, KnownResources DEF QuietStep, Quiet
  <2>2. \A c \in Longlived : Running(c) /\ ~fallen' => Running(c)'
    BY <1>0 DEF QuietStep, Quiet
  <2>3. ~fallen' => ~fallen
    BY <1>0 DEF QuietStep, Quiet
  <2>. QED BY <1>0, <2>1, <2>2, <2>3, KnownResources DEF Work, RestartInv
<1>7. CreateInv(k)'
  <2>. SUFFICES ASSUME call[k].op \in Creating
                PROVE  CreateInv(k)'
    BY <1>0 DEF CreateInv
  <2>1. /\ \A i \in From(k)..Len(Steps(k)) : i < call[k].at => Made(Steps(k)[i])
        /\ call[k].app # "-" =>
             BaseMade /\ \A a \in Apps : a \notin call[k].todo /\ a # call[k].app => AppMade(a)
    BY DEF Work, CreateInv
  <2>2. From(k) \in Nat /\ From(k) > 0 /\ From(k)' = From(k)
    BY <1>0, CreateOrder DEF InOrder, From
  <2>3. \A i \in From(k)..Len(Steps(k)) : Steps(k)[i] \in StepType
    BY <1>2, <2>2 DEF ScriptOK
  <2>4. PICK t, f, n : t = Steps(k) /\ f = From(k) /\ n = call[k].at
    OBVIOUS
  <2>5. \A i \in f..Len(t) : i < n => Made(t[i])'
    BY <2>1, <2>3, <2>4, <1>0, QuietMade
  <2>6. Steps(k)' = t /\ From(k)' = f /\ call'[k].at = n
    BY <1>0, <1>1, <2>2, <2>4
  <2>7. \A i \in From(k)'..Len(Steps(k)') : i < call'[k].at => Made(Steps(k)[i])'
    BY <2>5, <2>6 DEF Made
  <2>. QED BY <1>0, <2>1, <2>7, QuietMade DEF CreateInv
<1>. QED BY <1>3, <1>4, <1>5, <1>6, <1>7 DEF Work

\* CreateInv of the next state, from its parts.
LEMMA CreateIntro ==
  ASSUME NEW k \in Calls, NEW t, NEW f, NEW n,
         Steps(k)' = t, From(k)' = f, call'[k].at = n,
         \A i \in f..Len(t) : i < n => Made(t[i])',
         call'[k].app # "-" => BaseMade' /\ \A a \in Apps :
           a \notin call'[k].todo /\ a # call'[k].app => AppMade(a)'
  PROVE  CreateInv(k)'
<1>1. \A i \in From(k)'..Len(Steps(k)') : i < call'[k].at => Made(Steps(k)[i])'
  BY DEF Made
<1>. QED BY <1>1 DEF CreateInv

\* When a sweep has nothing more before it, everything is stopped or gone.
LEMMA Swept ==
  ASSUME BaseInv, NEW k \in Calls, Active(k), ~AtEnd(k), SweepInv(k),
         Step(k).listed, Step(k).do \in Sweeping,
         \A x \in Pending(k) : ~Running(x)' /\ (Step(k).do = "delete" => ~Listed(x)'),
         \A x \in Resources : (Listed(x)' => Listed(x)) /\ (Running(x)' => Running(x))
  PROVE  \A x \in Step(k).on : ~Running(x)' /\ (Step(k).do = "delete" => ~Listed(x)')
<1>. SUFFICES ASSUME NEW x \in Step(k).on
              PROVE  ~Running(x)' /\ (Step(k).do = "delete" => ~Listed(x)')
  OBVIOUS
<1>1. x \in Resources
  BY Position DEF BaseInv, StepType
<1>2. Running(x) => Listed(x)
  BY DEF Running, Listed
<1>3. Listed(x) => /\ x \in call[k].listed
                   /\ x \in call[k].done => Step(k).do # "delete" /\ ~Running(x)
  BY DEF SweepInv
<1>4. x \in call[k].listed /\ x \notin call[k].done => x \in Pending(k)
  BY DEF Pending
<1>. QED BY <1>1, <1>2, <1>3, <1>4

\* A call goes on to its next step.
Advances(k) ==
  /\ Active(k) /\ ~AtEnd(k)
  /\ SameScript(k) /\ Steps(k)' = Steps(k)
  /\ call'[k].at = call[k].at + 1 /\ call'[k].done = {} /\ call'[k].seen = {}

\* A sweep starts with everything it has to visit on its list.
LEMMA AdvanceSweep ==
  ASSUME BaseInv, NEW k \in Calls, Advances(k),
         Step(k).do = "list" =>
           res' = res /\ call'[k].listed = {r \in Step(k).on : Listed(r)}
  PROVE  SweepInv(k)'
<1>. SUFFICES ASSUME ~AtEnd(k)', Step(k)'.listed, Step(k)'.do \in Sweeping,
                     NEW r \in Step(k)'.on, Listed(r)'
              PROVE  r \in call'[k].listed /\ r \notin call'[k].done
  BY DEF SweepInv
<1>. DEFINE n == call[k].at
            s == Steps(k)
<1>1. /\ ScriptOK(s) /\ n \in 1..Len(s) /\ n \in Nat /\ Len(s) \in Nat
      /\ call'[k].at = n + 1 /\ call'[k].done = {} /\ Steps(k)' = s
  BY Position DEF Advances, BaseInv, ScriptOK
<1>2. n + 1 \in 1..Len(s) /\ Step(k)' = s[n + 1] /\ Step(k) = s[n]
  BY <1>1 DEF AtEnd, Step
<1>. HIDE DEF n, s
<1>3. SweepOK(s, n + 1)
  BY <1>1, <1>2 DEF ScriptOK
<1>4. s[n] = List(s[n + 1].on)
  <2>1. (n + 1) - 1 = n
    BY <1>1
  <2>. QED BY <1>2, <1>3, <2>1 DEF SweepOK
<1>5. Step(k).do = "list" /\ r \in Step(k).on
  BY <1>2, <1>4, SweepFields
<1>6. Listed(r)
  BY <1>5 DEF Listed
<1>. QED BY <1>1, <1>5, <1>6

\* Each sweep a delete completes has removed all of its kind.
LEMMA AdvanceDelete ==
  ASSUME BaseInv, NEW k \in Calls, Advances(k), DeleteInv(k),
         call[k].op = "delete" => \A x \in Resources : Listed(x)' => Listed(x),
         Step(k).listed /\ Step(k).do = "delete" => \A x \in Step(k).on : ~Listed(x)'
  PROVE  DeleteInv(k)'
<1>. SUFFICES ASSUME call[k].op = "delete"
              PROVE  DeleteInv(k)'
  BY DEF DeleteInv, Advances, SameScript
<1>. DEFINE n == call[k].at
            s == Step(k)
<1>1. /\ n >= 3 => \A c \in Containers : ~Listed(c)'
      /\ n >= 5 => ~Listed(Network)'
      /\ n >= 7 => \A v \in Volumes : ~Listed(v)'
  BY KnownResources DEF DeleteInv
<1>2. \/ n = 1 /\ s = List(Containers)
      \/ n = 2 /\ s = Each("delete", Containers)
      \/ n = 3 /\ s = List({Network})
      \/ n = 4 /\ s = Each("delete", {Network})
      \/ n = 5 /\ s = List(Volumes)
      \/ n = 6 /\ s = Each("delete", Volumes)
  BY WhichStep DEF Advances, BaseInv
<1>3. call'[k].at = n + 1
  BY DEF Advances
<1>. HIDE DEF n, s
<1>4. /\ n = 2 => \A c \in Containers : ~Listed(c)'
      /\ n = 4 => ~Listed(Network)'
      /\ n = 6 => \A v \in Volumes : ~Listed(v)'
  <2>1. s.listed /\ s.do = "delete" => \A x \in s.on : ~Listed(x)'
    BY DEF s
  <2>. QED BY <1>2, <2>1, SweepFields
<1>5. /\ n + 1 >= 3 => \A c \in Containers : ~Listed(c)'
      /\ n + 1 >= 5 => ~Listed(Network)'
      /\ n + 1 >= 7 => \A v \in Volumes : ~Listed(v)'
  BY <1>1, <1>2, <1>4
<1>. QED BY <1>3, <1>5 DEF DeleteInv

\* A rebuild that has swept the containers has none left.
LEMMA AdvanceClear ==
  ASSUME BaseInv, EngineInv', NEW k \in Calls, Advances(k), ClearInv(k),
         Step(k).do # "create" => \A c \in Longlived : Exists(c)' => Exists(c),
         Step(k).listed /\ Step(k).do = "delete" => \A x \in Step(k).on : ~Listed(x)'
  PROVE  ClearInv(k)'
<1>. SUFFICES ASSUME call[k].op = "rebuild", call[k].app = "-", call'[k].at \in {4, 5},
                     NEW c \in Longlived
              PROVE  ~Exists(c)'
  BY DEF ClearInv, Advances, SameScript
<1>. DEFINE n == call[k].at
            s == Step(k)
<1>1. n \in {3, 4} /\ n \in Nat
  BY Position DEF Advances, BaseInv
<1>2. /\ n = 3 => s = Each("delete", Longlived)
      /\ n = 4 => s = List({Network})
  <2>1. From(k) = 6 /\ call[k].op \in Creating
    BY DEF From, BaseFrom, Creating
  <2>2. \/ n \in From(k)..Len(Steps(k)) /\ Plain(s)
        \/ n = 1
        \/ n = 2
        \/ n = 3 /\ s = Each("delete", Longlived)
        \/ n = 4 /\ s = List({Network})
        \/ n = 5
    BY <2>1, WhichStep DEF Advances, BaseInv
  <2>3. n \notin 6..Len(Steps(k))
    BY <1>1
  <2>. HIDE DEF n, s
  <2>. QED BY <1>1, <2>1, <2>2, <2>3
<1>3. CASE n = 3
  <2>1. ~Listed(c)'
    BY <1>2, <1>3, SweepFields
  <2>2. res'[c] # "stray"
    BY KnownResources DEF EngineInv
  <2>. QED BY <2>1, <2>2 DEF Listed, Exists
<1>4. CASE n = 4
  BY <1>2, <1>4, SweepFields DEF ClearInv
<1>. QED BY <1>1, <1>3, <1>4

\* A listing and a skipped step keep what the lone call has achieved.
LEMMA PassWork ==
  ASSUME BaseInv, BaseInv', NEW k \in Calls, Work(k), ListStep(k) \/ Skip(k)
  PROVE  Work(k)'
<1>. DEFINE n == call[k].at
            s == Step(k)
<1>0. TypeOK /\ CallInv /\ EngineInv /\ EngineInv'
  BY DEF BaseInv
<1>1. /\ res' = res /\ UNCHANGED <<engineVars, fallen>> /\ fallen' = fallen
      /\ Active(k) /\ ~AtEnd(k)
  BY DEF ListStep, Skip, engineVars, ghostVars
<1>2. /\ Passes(k)
      /\ s.do = "list" => call'[k].listed = {r \in s.on : Listed(r)}
      /\ s.do # "list" => Pending(k) = {} /\ call'[k].listed = call[k].listed
  <2>1. CASE ListStep(k)
    BY <1>0, <2>1, ListMoves DEF ListStep, Passes
  <2>2. CASE Skip(k)
    BY <1>0, <2>2, SkipMoves DEF Skip, Passes
  <2>. QED BY <2>1, <2>2
<1>3. Advances(k) /\ call[k].done = {}
  BY <1>0, <1>1, <1>2, PassCall DEF Passes, Advances
<1>4. \A x : /\ (Listed(x)' <=> Listed(x)) /\ (Running(x)' <=> Running(x))
            /\ (Exists(x)' <=> Exists(x))
  BY <1>1 DEF Listed, Running, Exists
<1>5. s.listed /\ s.do \in Sweeping =>
        \A x \in s.on : ~Running(x)' /\ (s.do = "delete" => ~Listed(x)')
  <2>. SUFFICES ASSUME s.listed, s.do \in Sweeping
                PROVE  \A x \in s.on : ~Running(x)' /\ (s.do = "delete" => ~Listed(x)')
    OBVIOUS
  <2>1. Pending(k) = {}
    BY <1>2 DEF Sweeping
  <2>. QED BY <1>1, <1>4, <2>1, Swept DEF Work
<1>6. SweepInv(k)'
  BY <1>1, <1>2, <1>3, AdvanceSweep
<1>7. DeleteInv(k)'
  BY <1>3, <1>4, <1>5, AdvanceDelete DEF Work, Sweeping
<1>8. ClearInv(k)'
  BY <1>0, <1>3, <1>4, <1>5, AdvanceClear DEF Work, Sweeping
<1>9. CreateInv(k)'
  <2>. SUFFICES ASSUME call[k].op \in Creating
                PROVE  CreateInv(k)'
    BY <1>3 DEF CreateInv, Advances, SameScript
  <2>1. /\ \A i \in From(k)..Len(Steps(k)) : i < n => Made(Steps(k)[i])
        /\ call[k].app # "-" =>
             BaseMade /\ \A a \in Apps : a \notin call[k].todo /\ a # call[k].app => AppMade(a)
    BY DEF Work, CreateInv
  <2>2. n \notin From(k)..Len(Steps(k))
    <3>1. ~Plain(s)
      <4>. SUFFICES ASSUME Plain(s)
                    PROVE  FALSE
        OBVIOUS
      <4>1. s.do # "list" /\ s.listed = FALSE /\ s.on # {}
        BY DEF Plain, CreateDos
      <4>. QED BY <1>2, <1>3, <4>1 DEF Pending
    <3>2. InOrder(Steps(k), From(k))
      BY <1>0, CreateOrder
    <3>. QED BY <3>1, <3>2 DEF InOrder, Step
  <2>3. /\ From(k) \in Nat /\ From(k) > 0 /\ From(k)' = From(k) /\ n \in Nat
        /\ ScriptOK(Steps(k)) /\ Len(Steps(k)) \in Nat
    BY <1>0, <1>1, <1>3, CreateOrder, Position DEF InOrder, From, Advances, SameScript
  <2>4. \A i \in From(k)..Len(Steps(k)) : Steps(k)[i] \in StepType
    BY <2>3 DEF ScriptOK
  <2>5. PICK t, f, m : t = Steps(k) /\ f = From(k) /\ m = n + 1
    OBVIOUS
  <2>6. QuietStep
    BY <1>0, <1>1, QuietEffect
  <2>7. \A i \in f..Len(t) : i < m => i < n
    BY <2>2, <2>3, <2>5
  <2>8. \A i \in f..Len(t) : i < m => Made(t[i])'
    BY <2>1, <2>4, <2>5, <2>6, <2>7, QuietMade
  <2>9. /\ Steps(k)' = t /\ From(k)' = f /\ call'[k].at = m
        /\ call'[k].app = call[k].app /\ call'[k].todo = call[k].todo
    BY <1>3, <2>3, <2>5 DEF Advances, SameScript
  <2>10. call'[k].app # "-" => BaseMade' /\ \A a \in Apps :
           a \notin call'[k].todo /\ a # call'[k].app => AppMade(a)'
    BY <2>1, <2>6, <2>9, QuietMade
  <2>. QED BY <2>8, <2>9, <2>10, CreateIntro
<1>10. RestartInv(k)'
  <2>. SUFFICES ASSUME call[k].op = "restart"
                PROVE  RestartInv(k)'
    BY <1>3 DEF RestartInv, Advances, SameScript
  <2>1. \/ n = 1 /\ s = List(Containers)
        \/ n = 2 /\ s = Each("halt", Containers)
        \/ n = 3 /\ s = Each("start", {Gateway})
        \/ n = 4 /\ s = Each("health", {Gateway})
        \/ n = 5 /\ s = Each("start", Containers \ {Gateway})
    BY <1>0, <1>1, WhichStep
  <2>2. call'[k].at = n + 1 /\ call'[k].done = {} /\ call[k].done = {} /\ call'[k].seen = {}
    BY <1>3 DEF Advances
  <2>3. \A c \in Containers : Exists(c)' <=> c \in call'[k].listed
    <3>1. CASE n = 1
      <4>1. \A c \in Containers : Exists(c) <=> Listed(c)
        BY <1>0 DEF EngineInv, Exists, Listed
      <4>2. call'[k].listed = {r \in Containers : Listed(r)}
        BY <1>2, <2>1, <3>1, SweepFields
      <4>. QED BY <1>4, <4>1, <4>2
    <3>2. CASE n # 1
      <4>1. n >= 2 /\ s.do # "list"
        BY <2>1, <3>2, SweepFields
      <4>. QED BY <1>2, <1>4, <4>1 DEF Work, RestartInv
    <3>. QED BY <3>1, <3>2
  <2>4. n = 2 => \A c \in Containers : ~Running(c)'
    BY <1>5, <2>1, SweepFields DEF Sweeping
  <2>5. n = 3 => Gateway \notin call'[k].listed /\ \A c \in Containers : ~Running(c)'
    <3>. SUFFICES ASSUME n = 3
                  PROVE  Gateway \notin call'[k].listed /\ \A c \in Containers : ~Running(c)'
      OBVIOUS
    <3>1. s.do # "list" /\ s.listed = TRUE /\ s.on = {Gateway}
      BY <2>1, SweepFields
    <3>2. Gateway \notin call[k].listed
      BY <1>2, <2>2, <3>1 DEF Pending
    <3>. QED BY <1>2, <1>4, <3>1, <3>2 DEF Work, RestartInv
  <2>6. n = 4 => \A c \in Containers : Running(c)' => c = Gateway
    BY <1>4 DEF Work, RestartInv
  <2>. HIDE DEF n, s
  <2>7. n \in {1, 2, 3, 4, 5}
    BY <2>1
  <2>. QED BY <2>2, <2>3, <2>4, <2>5, <2>6, <2>7 DEF RestartInv
<1>. QED BY <1>6, <1>7, <1>8, <1>9, <1>10 DEF Work

\* At the end of its script a provision or rebuild has made the base, and every
\* app that it has no more to do.
LEMMA EndMade ==
  ASSUME BaseInv, NEW k \in Calls, Work(k), Active(k), AtEnd(k), call[k].op \in Creating
  PROVE  BaseMade /\ \A b \in Apps : b \notin call[k].todo => AppMade(b)
<1>0. TypeOK /\ CallInv
  BY DEF BaseInv
<1>1. call[k].at = Len(Steps(k)) + 1 /\ Len(Steps(k)) \in Nat
  BY <1>0, Position DEF ScriptOK
<1>2. From(k) \in Nat /\ \A i \in From(k)..Len(Steps(k)) : Made(Steps(k)[i])
  <2>1. From(k) \in Nat
    BY <1>0, CreateOrder
  <2>. QED BY <1>1, <2>1 DEF Work, CreateInv
<1>3. ASSUME NEW do, NEW r, Includes(Steps(k), From(k), One(do, r))
      PROVE  /\ do = "create" /\ r \notin Oneshot => Exists(r)
             /\ do = "start" /\ r \in Longlived => Running(r) \/ fallen
             /\ do = "wait" /\ r = Seed => seeded
  <2>1. Made(One(do, r))
    BY <1>2, <1>3 DEF Includes
  <2>2. PICK s : s = One(do, r)
    OBVIOUS
  <2>3. Made(s) /\ s.do = do /\ s.on = {r}
    BY <2>1, <2>2, OneFields
  <2>. QED BY <2>3 DEF Made
<1>4. BaseMade
  <2>1. CASE call[k].app # "-"
    BY <2>1 DEF Work, CreateInv
  <2>2. CASE call[k].app = "-"
    <3>1. Steps(k) = Script[call[k].op] /\ From(k) = BaseFrom(call[k].op)
      BY <2>2 DEF Steps, From
    <3>2. /\ Includes(Steps(k), From(k), One("create", Network))
          /\ Includes(Steps(k), From(k), One("start", Gateway))
          /\ Seeding => Includes(Steps(k), From(k), One("wait", Seed))
      BY <3>1, BaseOrder
    <3>3. Network \notin Oneshot /\ Gateway \in Longlived
      BY Apart, KnownResources
    <3>. QED BY <1>3, <3>2, <3>3 DEF BaseMade
  <2>. QED BY <2>1, <2>2
<1>5. ASSUME NEW b \in Apps, b \notin call[k].todo
       PROVE  AppMade(b)
  <2>1. call[k].app # "-"
    BY <1>0, <1>5 DEF CallInv, CallOK
  <2>2. CASE b # call[k].app
    BY <1>5, <2>1, <2>2 DEF Work, CreateInv
  <2>3. CASE b = call[k].app
    <3>1. Steps(k) = createApp[b] /\ From(k) = 1
      BY <2>1, <2>3 DEF Steps, From
    <3>2. /\ Includes(Steps(k), From(k), One("start", Sandbox(b)))
          /\ Includes(Steps(k), From(k), One("start", App(b)))
      BY <3>1, AppScript
    <3>3. (Running(Sandbox(b)) \/ fallen) /\ (Running(App(b)) \/ fallen)
      BY <1>3, <3>2, KnownResources
    <3>. QED BY <3>3 DEF AppMade
  <2>. QED BY <2>2, <2>3
<1>. QED BY <1>4, <1>5

\* So does the start of the next app.
LEMMA NextAppWork ==
  ASSUME BaseInv, NEW k \in Calls, NEW a \in Apps, Work(k), NextApp(k, a)
  PROVE  Work(k)'
<1>0. TypeOK /\ CallInv /\ EngineInv
  BY DEF BaseInv
<1>1. /\ call'[k].op = call[k].op /\ call'[k].app = a /\ call'[k].at = 1
      /\ call'[k].todo = call[k].todo \ {a}
  BY <1>0, NextAppMoves
<1>2. Steps(k)' = createApp[a] /\ call[k].op \in Creating /\ a \in call[k].todo
  BY <1>0, NextAppCall
<1>3. /\ UNCHANGED <<engineVars, fallen>> /\ Active(k) /\ AtEnd(k) /\ a # "-"
  BY AppsAssumption DEF NextApp, ghostVars
<1>4. QuietStep
  BY <1>0, <1>3, QuietEffect
<1>5. SweepInv(k)'
  BY <1>1, <1>2, FirstStep, ScriptsOK
<1>6. DeleteInv(k)' /\ ClearInv(k)' /\ RestartInv(k)'
  BY <1>1, <1>2, <1>3 DEF DeleteInv, ClearInv, RestartInv, Creating
<1>7. BaseMade' /\ \A b \in Apps :
           b \notin call'[k].todo /\ b # call'[k].app => AppMade(b)'
  BY <1>1, <1>2, <1>3, <1>4, EndMade, QuietMade
<1>8. CreateInv(k)'
  <2>1. From(k)' = 1
    BY <1>1, <1>3 DEF From
  <2>2. \A i \in 1..Len(createApp[a]) : i < 1 => Made(createApp[a][i])'
    BY AppScript DEF InOrder
  <2>. QED BY <1>1, <1>2, <1>7, <2>1, <2>2, CreateIntro
<1>. QED BY <1>5, <1>6, <1>8 DEF Work

\* What a request of createBase or createApp leaves standing.
LEMMA PlainMade ==
  ASSUME NEW s \in StepType, NEW r \in Resources, Plain(s), s.on = {r},
         Engine(s.do, r), fallen' = fallen
  PROVE  /\ \A t \in StepType :
              /\ Made(t)
              /\ ~(s.do = "create" /\ r = Seed /\ t.do = "start" /\ Seed \in t.on)
              => Made(t)'
         /\ BaseMade => BaseMade'
         /\ \A a \in Apps : AppMade(a) => AppMade(a)'
<1>1. s.do \in CreateDos /\ (s.do = "delete" => r \in Oneshot)
  BY DEF Plain
<1>2. /\ \A x \in Resources : x \notin Oneshot /\ Exists(x) => Exists(x)'
      /\ \A x \in Longlived : Running(x) => Running(x)'
      /\ seeded => seeded'
  <2>1. \A x \in Longlived : x \in Resources /\ x \notin Oneshot
    BY Apart, KnownResources
  <2>2. Workspace \notin Oneshot
    BY Apart, KnownResources
  <2>. QED BY <1>1, <2>1, <2>2 DEF Engine, CreateDos, Sweeping
<1>3. ~(s.do = "create" /\ r = Seed) =>
        (res[Seed] # "present" \/ seeded => res'[Seed] # "present" \/ seeded')
  <2>1. CASE r # Seed
    BY <1>2, <2>1 DEF Engine
  <2>2. CASE r = Seed /\ s.do = "delete"
    BY <2>2 DEF Engine, Exists
  <2>3. CASE r = Seed /\ s.do = "start"
    BY <2>3 DEF Engine
  <2>4. CASE r = Seed /\ s.do \in {"connect", "health", "wait"}
    BY <1>2, <2>4 DEF Engine
  <2>. QED BY <1>1, <2>1, <2>2, <2>3, <2>4 DEF CreateDos
<1>4. ASSUME NEW t \in StepType, Made(t),
             ~(s.do = "create" /\ r = Seed /\ t.do = "start" /\ Seed \in t.on)
      PROVE  Made(t)'
  <2>. SUFFICES ASSUME NEW x \in t.on
                PROVE  /\ t.do = "create" /\ x \notin Oneshot => Exists(x)'
                       /\ t.do = "start" /\ x \in Longlived => Running(x)' \/ fallen'
                       /\ t.do = "start" /\ x = Seed => res'[Seed] # "present" \/ seeded'
                       /\ t.do = "wait" /\ x = Seed => seeded'
    BY DEF Made
  <2>1. /\ t.do = "create" /\ x \notin Oneshot => Exists(x)
        /\ t.do = "start" /\ x \in Longlived => Running(x) \/ fallen
        /\ t.do = "start" /\ x = Seed => res[Seed] # "present" \/ seeded
        /\ t.do = "wait" /\ x = Seed => seeded
    BY <1>4 DEF Made
  <2>2. x \in Resources
    BY DEF StepType
  <2>. QED BY <1>2, <1>3, <1>4, <2>1, <2>2
<1>5. BaseMade => BaseMade'
  <2>1. Network \notin Oneshot
    BY Apart, KnownResources
  <2>. QED BY <1>2, <2>1, KnownResources DEF BaseMade
<1>6. \A a \in Apps : AppMade(a) => AppMade(a)'
  BY <1>2, KnownResources DEF AppMade
<1>. QED BY <1>4, <1>5, <1>6

\* A request of an alone call, seen from its script.
PerformFacts(k, r) ==
  /\ Active(k) /\ ~AtEnd(k) /\ SameScript(k) /\ Steps(k)' = Steps(k)
  /\ Step(k) \in StepType /\ Step(k).do # "list" /\ Step(k).do \in Dos
  /\ call'[k].listed = call[k].listed
  /\ r \in Pending(k) /\ r \in Step(k).on
  /\ Engine(Step(k).do, r) /\ fallen' = fallen /\ call'[k].seen = {}
  /\ Step(k).do # "halt" => Permitted(Step(k).do, r)
  /\ \/ /\ Pending(k) = {r}
        /\ call'[k].at = call[k].at + 1 /\ call'[k].done = {}
     \/ /\ Pending(k) # {r}
        /\ call'[k].at = call[k].at /\ call'[k].done = call[k].done \cup {r}

\* All that a request does to the engine and to its call.
LEMMA Performed ==
  ASSUME BaseInv, NEW k \in Calls, NEW r \in Resources, Does(k, r)
  PROVE  PerformFacts(k, r)
<1>0. TypeOK /\ CallInv /\ EngineInv
  BY DEF BaseInv
<1>1. /\ Active(k) /\ ~AtEnd(k) /\ Step(k).do # "list" /\ r \in Pending(k)
      /\ Step(k).do # "halt" => Permitted(Step(k).do, r)
      /\ fallen' = fallen
  BY DEF Does, Eligible, ghostVars
<1>2. Step(k) \in StepType /\ Step(k).do \in Dos
  BY <1>0, <1>1, Position DEF StepType
<1>3. Engine(Step(k).do, r)
  BY <1>0, DoesEffect
<1>4. /\ SameScript(k) /\ call'[k].listed = call[k].listed /\ call'[k].seen = {}
      /\ \/ /\ Pending(k) = {r}
            /\ call'[k].at = call[k].at + 1 /\ call'[k].done = {}
         \/ /\ Pending(k) # {r}
            /\ call'[k].at = call[k].at /\ call'[k].done = call[k].done \cup {r}
  BY <1>0, PerformMoves
<1>5. Steps(k)' = Steps(k)
  BY <1>0, PerformCall
<1>6. r \in Step(k).on
  BY <1>1 DEF Pending
<1>. QED BY <1>1, <1>2, <1>3, <1>4, <1>5, <1>6 DEF PerformFacts

\* A request of a provision or rebuild adds to what the call has made and undoes none of it.
LEMMA PerformCreate ==
  ASSUME BaseInv, NEW k \in Calls, NEW r \in Resources, Work(k), PerformFacts(k, r)
  PROVE  CreateInv(k)'
<1>0. TypeOK /\ CallInv
  BY DEF BaseInv
<1>. SUFFICES ASSUME call[k].op \in Creating
              PROVE  CreateInv(k)'
  BY DEF CreateInv, PerformFacts, SameScript
<1>. DEFINE n == call[k].at
<1>1. PICK s : s = Step(k)
  OBVIOUS
<1>2. PICK t, f, m : t = Steps(k) /\ f = From(k) /\ m = call'[k].at
  OBVIOUS
<1>3. /\ Steps(k)' = t /\ From(k)' = f /\ call'[k].at = m
      /\ call'[k].app = call[k].app /\ call'[k].todo = call[k].todo
  BY <1>2 DEF PerformFacts, SameScript, From
<1>4. /\ \A i \in f..Len(t) : i < n => Made(t[i])
      /\ call[k].app # "-" =>
           BaseMade /\ \A a \in Apps : a \notin call[k].todo /\ a # call[k].app => AppMade(a)
  BY <1>2 DEF Work, CreateInv
<1>5. /\ InOrder(t, f) /\ f \in Nat /\ f > 0 /\ Len(t) \in Nat
      /\ n \in 1..Len(t) /\ n \in Nat /\ s = t[n] /\ s \in StepType
      /\ m = n \/ m = n + 1
  BY <1>0, <1>1, <1>2, CreateOrder, Position DEF PerformFacts, InOrder, Step
<1>6. CASE n < f
  <2>1. \A i \in f..Len(t) : ~(i < m)
    BY <1>5, <1>6
  <2>2. call[k].app = "-"
    BY <1>2, <1>5, <1>6 DEF From
  <2>. QED BY <1>3, <2>1, <2>2, CreateIntro
<1>7. CASE n >= f
  <2>1. n \in f..Len(t)
    BY <1>5, <1>7
  <2>2. Plain(s)
    BY <1>5, <2>1 DEF InOrder
  <2>3. s.on = {r} /\ Engine(s.do, r) /\ Permitted(s.do, r) /\ fallen' = fallen
    BY <1>1, <2>2 DEF PerformFacts, Plain, CreateDos
  <2>4. /\ \A u \in StepType :
             /\ Made(u)
             /\ ~(s.do = "create" /\ r = Seed /\ u.do = "start" /\ Seed \in u.on)
             => Made(u)'
        /\ BaseMade => BaseMade'
        /\ \A a \in Apps : AppMade(a) => AppMade(a)'
    BY <1>5, <2>2, <2>3, PlainMade
  <2>5. ASSUME NEW i \in f..Len(t), i < n
        PROVE  Made(t[i])'
    <3>1. t[i] \in StepType /\ Made(t[i])
      BY <1>4, <1>5, <2>5 DEF InOrder, Plain
    <3>2. ~(s.do = "create" /\ r = Seed /\ t[i].do = "start" /\ Seed \in t[i].on)
      <4>. SUFFICES ASSUME s.do = "create", r = Seed, t[i].do = "start", Seed \in t[i].on
                    PROVE  FALSE
        OBVIOUS
      <4>1. t[n].do = "create" /\ Seed \in t[n].on
        BY <1>5, <2>3
      <4>2. n < i
        BY <1>5, <2>1, <4>1 DEF InOrder
      <4>. QED BY <1>5, <2>5, <4>2
    <3>. QED BY <2>4, <3>1, <3>2
  <2>6. Made(s)'
    <3>1. ASSUME NEW do, NEW x, Before(t, f, n, One(do, x))
          PROVE  /\ do = "create" /\ x \notin Oneshot => Exists(x)
                 /\ do = "start" /\ x = Seed => res[Seed] # "present" \/ seeded
      <4>1. PICK j \in f..(n - 1) : t[j] = One(do, x)
        BY <3>1 DEF Before
      <4>2. j \in f..Len(t) /\ j < n
        BY <1>5
      <4>3. Made(One(do, x))
        BY <1>4, <4>1, <4>2
      <4>. QED BY <4>3, OneFields DEF Made
    <3>2. s.do = "create" => Exists(r)'
      BY <2>3 DEF Engine
    <3>3. s.do = "start" /\ r \in Longlived => Running(r)'
      <4>. SUFFICES ASSUME s.do = "start", r \in Longlived
                    PROVE  Running(r)'
        OBVIOUS
      <4>1. Before(t, f, n, One("create", r))
        BY <1>5, <2>1, <2>3 DEF InOrder
      <4>2. Exists(r)
        BY <3>1, <4>1, Apart
      <4>. QED BY <2>3, <4>2 DEF Engine
    <3>4. s.do = "start" /\ r = Seed => res'[Seed] # "present"
      BY <2>3 DEF Engine
    <3>5. s.do = "wait" /\ r = Seed => seeded'
      <4>. SUFFICES ASSUME s.do = "wait", r = Seed
                    PROVE  seeded'
        OBVIOUS
      <4>1. Before(t, f, n, One("start", Seed))
        BY <1>5, <2>1, <2>3 DEF InOrder
      <4>2. res[Seed] = "present"
        BY <2>3 DEF Permitted
      <4>3. seeded
        BY <3>1, <4>1, <4>2
      <4>. QED BY <2>3, <4>3 DEF Engine
    <3>. QED BY <2>3, <3>2, <3>3, <3>4, <3>5 DEF Made
  <2>7. \A i \in f..Len(t) : i < m => i < n \/ i = n
    BY <1>5
  <2>8. \A i \in f..Len(t) : i < m => Made(t[i])'
    BY <1>5, <2>5, <2>6, <2>7
  <2>9. call'[k].app # "-" => BaseMade' /\ \A a \in Apps :
           a \notin call'[k].todo /\ a # call'[k].app => AppMade(a)'
    BY <1>3, <1>4, <2>4
  <2>. QED BY <1>3, <2>8, <2>9, CreateIntro
<1>. QED BY <1>5, <1>6, <1>7

\* A request of a restart keeps what the restart has brought back.
LEMMA PerformRestart ==
  ASSUME BaseInv, NEW k \in Calls, NEW r \in Resources, Work(k), PerformFacts(k, r)
  PROVE  RestartInv(k)'
<1>0. TypeOK /\ CallInv
  BY DEF BaseInv
<1>. SUFFICES ASSUME call[k].op = "restart"
              PROVE  RestartInv(k)'
  BY DEF RestartInv, PerformFacts, SameScript
<1>. DEFINE n == call[k].at
            s == Step(k)
<1>1. \/ n = 1 /\ s = List(Containers)
      \/ n = 2 /\ s = Each("halt", Containers)
      \/ n = 3 /\ s = Each("start", {Gateway})
      \/ n = 4 /\ s = Each("health", {Gateway})
      \/ n = 5 /\ s = Each("start", Containers \ {Gateway})
  BY <1>0, WhichStep DEF PerformFacts
<1>2. /\ s.do # "list" /\ r \in s.on /\ Engine(s.do, r) /\ fallen' = fallen
      /\ call'[k].listed = call[k].listed /\ call'[k].seen = {}
      /\ r \in Pending(k)
      /\ \/ Pending(k) = {r} /\ call'[k].at = n + 1 /\ call'[k].done = {}
         \/ call'[k].at = n /\ call'[k].done = call[k].done \cup {r}
  BY DEF PerformFacts
<1>3. n # 1
  BY <1>1, <1>2, SweepFields
<1>4. RestartInv(k) /\ SweepInv(k)
  BY DEF Work
<1>5. r \in Containers /\ r \in call[k].listed /\ s.do \in {"halt", "start", "health"} /\ s.listed
  BY <1>1, <1>2, <1>3, SweepFields, KnownResources DEF Pending
<1>6. \A c \in Containers : Exists(c)' <=> c \in call'[k].listed
  <2>1. \A c \in Containers : Exists(c)' <=> Exists(c)
    BY <1>2, <1>5, KnownResources DEF Engine
  <2>. QED BY <1>1, <1>2, <1>3, <1>4, <2>1 DEF RestartInv
<1>7. Exists(r)
  BY <1>1, <1>3, <1>4, <1>5 DEF RestartInv
<1>8. CASE n = 2
  <2>1. s.do = "halt" /\ s.on = Containers
    BY <1>1, <1>8, SweepFields
  <2>2. CASE call'[k].at = 2
    BY <1>2, <1>6, <2>2 DEF RestartInv
  <2>3. CASE Pending(k) = {r} /\ call'[k].at = n + 1 /\ call'[k].done = {}
    <3>1. ~Running(r)' /\ \A x \in Resources : Running(x)' => Running(x)
      BY <1>2, <2>1 DEF Engine
    <3>2. \A c \in Containers : ~Running(c)'
      <4>1. \A x \in Resources : (Listed(x)' => Listed(x))
        BY <1>2, <2>1 DEF Engine
      <4>. QED BY <1>4, <1>5, <2>1, <2>3, <3>1, <4>1, Swept DEF PerformFacts, Sweeping
    <3>. QED BY <1>2, <1>6, <1>8, <2>3, <3>2 DEF RestartInv
  <2>. QED BY <1>2, <1>8, <2>2, <2>3
<1>9. CASE n = 3
  <2>1. s.do = "start" /\ s.on = {Gateway} /\ r = Gateway
    BY <1>1, <1>2, <1>9, SweepFields
  <2>2. Pending(k) = {r}
    BY <1>2, <2>1 DEF Pending
  <2>3. call'[k].at = 4
    BY <1>9, <2>2 DEF PerformFacts
  <2>4. Running(Gateway)'
    BY <1>2, <1>7, <2>1 DEF Engine
  <2>5. \A c \in Containers : Running(c)' => c = Gateway
    BY <1>2, <1>4, <1>9, <2>1, KnownResources DEF Engine, RestartInv
  <2>. QED BY <1>2, <1>6, <2>3, <2>4, <2>5 DEF RestartInv
<1>10. CASE n = 4
  <2>1. s.do = "health" /\ s.on = {Gateway} /\ r = Gateway
    BY <1>1, <1>2, <1>10, SweepFields
  <2>2. Pending(k) = {r}
    BY <1>2, <2>1 DEF Pending
  <2>3. call'[k].at = 5 /\ call'[k].done = {}
    BY <1>10, <2>2 DEF PerformFacts
  <2>5. \A c \in Containers : Running(c)' => c = Gateway
    BY <1>2, <1>4, <1>10, <2>1, KnownResources DEF Engine, RestartInv
  <2>. QED BY <1>2, <1>6, <2>3, <2>5 DEF RestartInv
<1>11. CASE n = 5
  <2>1. s.do = "start" /\ s.on = Containers \ {Gateway}
    BY <1>1, <1>11, SweepFields
  <2>2. CASE call'[k].at = n + 1
    BY <1>2, <1>6, <1>11, <2>2 DEF RestartInv
  <2>3. CASE call'[k].at = n /\ call'[k].done = call[k].done \cup {r}
    <3>1. \A c \in Containers : Running(c)' => c = Gateway \/ c \in call'[k].done
      BY <1>2, <1>4, <1>11, <2>3, KnownResources DEF Engine, RestartInv
    <3>2. ~fallen' => \A c \in Longlived : c \in call'[k].done => Running(c)'
      <4>1. Running(r)'
        BY <1>2, <1>7, <2>1 DEF Engine
      <4>2. \A c \in Longlived : Running(c) => Running(c)'
        BY <1>2, <2>1, KnownResources DEF Engine, Sweeping
      <4>. QED BY <1>2, <1>4, <1>11, <2>3, <4>1, <4>2 DEF RestartInv
    <3>. QED BY <1>2, <1>6, <1>11, <2>3, <3>1, <3>2 DEF RestartInv
  <2>. QED BY <1>2, <2>2, <2>3
<1>. HIDE DEF n, s
<1>. QED BY <1>1, <1>3, <1>8, <1>9, <1>10, <1>11

\* A request keeps what the lone call has achieved.
LEMMA PerformWork ==
  ASSUME BaseInv, BaseInv', NEW k \in Calls, NEW r \in Resources, Work(k), PerformFacts(k, r)
  PROVE  Work(k)'
<1>. DEFINE n == call[k].at
            s == Step(k)
<1>0. TypeOK /\ CallInv /\ EngineInv /\ EngineInv'
  BY DEF BaseInv
<1>1. /\ Active(k) /\ ~AtEnd(k) /\ SameScript(k) /\ Steps(k)' = Steps(k)
      /\ s \in StepType /\ s.do # "list" /\ r \in s.on /\ Engine(s.do, r)
      /\ call'[k].listed = call[k].listed /\ call'[k].seen = {}
  BY DEF PerformFacts
<1>2. s.do \notin {"create", "start"} =>
        \A x \in Resources : (Listed(x)' => Listed(x)) /\ (Running(x)' => Running(x))
  BY <1>1 DEF Engine
<1>3. s.do # "create" => \A c \in Longlived : Exists(c)' => Exists(c)
  <2>1. \A c \in Longlived : c \in Containers \cup {Network}
    BY KnownResources
  <2>. QED BY <1>1, <2>1 DEF Engine
<1>4. call[k].op = "delete" => s.do = "delete" /\ s.listed
  <2>. SUFFICES ASSUME call[k].op = "delete"
                PROVE  s.do = "delete" /\ s.listed
    OBVIOUS
  <2>1. \/ s = List(Containers) \/ s = Each("delete", Containers)
        \/ s = List({Network}) \/ s = Each("delete", {Network})
        \/ s = List(Volumes) \/ s = Each("delete", Volumes)
    BY <1>0, <1>1, WhichStep
  <2>. HIDE DEF s
  <2>. QED BY <1>1, <2>1, SweepFields
<1>5. call[k].op = "rebuild" /\ call[k].app = "-" /\ n \in {4, 5} => s.do # "create"
  <2>. SUFFICES ASSUME call[k].op = "rebuild", call[k].app = "-", n \in {4, 5}
                PROVE  s.do # "create"
    OBVIOUS
  <2>1. From(k) = 6 /\ call[k].op \in Creating
    BY DEF From, BaseFrom, Creating
  <2>2. n \notin 6..Len(Steps(k))
    OBVIOUS
  <2>3. \/ n \in From(k)..Len(Steps(k)) /\ Plain(s)
        \/ n = 1
        \/ n = 2
        \/ n = 3
        \/ n = 4 /\ s = List({Network})
        \/ n = 5 /\ s = Each("delete", {Network})
    BY <1>0, <1>1, <2>1, WhichStep
  <2>. HIDE DEF s
  <2>. QED BY <2>1, <2>2, <2>3, SweepFields
<1>6. CASE Pending(k) = {r} /\ call'[k].at = n + 1 /\ call'[k].done = {}
  <2>1. Advances(k)
    BY <1>1, <1>6 DEF Advances
  <2>2. s.listed /\ s.do \in Sweeping =>
          \A x \in s.on : ~Running(x)' /\ (s.do = "delete" => ~Listed(x)')
    <3>. SUFFICES ASSUME s.listed, s.do \in Sweeping
                  PROVE  \A x \in s.on : ~Running(x)' /\ (s.do = "delete" => ~Listed(x)')
      OBVIOUS
    <3>1. ~Running(r)' /\ (s.do = "delete" => ~Listed(r)')
      BY <1>1 DEF Engine, Exists, Listed, Running, Sweeping
    <3>2. s.do \notin {"create", "start"}
      BY DEF Sweeping
    <3>3. \A x \in Pending(k) : ~Running(x)' /\ (Step(k).do = "delete" => ~Listed(x)')
      BY <1>6, <3>1
    <3>. QED BY <1>1, <1>2, <3>2, <3>3, Swept DEF Work
  <2>3. SweepInv(k)'
    BY <1>1, <2>1, AdvanceSweep
  <2>4. DeleteInv(k)'
    <3>1. call[k].op = "delete" => \A x \in Resources : Listed(x)' => Listed(x)
      BY <1>2, <1>4
    <3>2. s.listed /\ s.do = "delete" => \A x \in s.on : ~Listed(x)'
      BY <2>2 DEF Sweeping
    <3>. QED BY <2>1, <3>1, <3>2, AdvanceDelete DEF Work
  <2>5. ClearInv(k)'
    <3>2. s.listed /\ s.do = "delete" => \A x \in s.on : ~Listed(x)'
      BY <2>2 DEF Sweeping
    <3>. QED BY <1>0, <1>3, <2>1, <3>2, AdvanceClear DEF Work
  <2>. QED BY <2>3, <2>4, <2>5, PerformCreate, PerformRestart DEF Work
<1>7. CASE call'[k].at = n /\ call'[k].done = call[k].done \cup {r}
  <2>1. Step(k)' = s /\ ~AtEnd(k)'
    BY <1>1, <1>7 DEF Step, AtEnd
  <2>2. SweepInv(k)'
    <3>. SUFFICES ASSUME s.listed, s.do \in Sweeping, NEW x \in s.on, Listed(x)'
                  PROVE  /\ x \in call[k].listed
                         /\ x \in call'[k].done => s.do # "delete" /\ ~Running(x)'
      BY <1>1, <2>1 DEF SweepInv
    <3>1. x \in Resources
      BY <1>1 DEF StepType
    <3>2. Listed(x) /\ (Running(x)' => Running(x))
      BY <1>2, <3>1 DEF Sweeping
    <3>3. /\ x \in call[k].listed
          /\ x \in call[k].done => s.do # "delete" /\ ~Running(x)
      BY <1>1, <3>2 DEF Work, SweepInv
    <3>4. x = r => s.do # "delete" /\ ~Running(x)'
      BY <1>1 DEF Engine, Exists, Listed, Sweeping
    <3>. QED BY <1>7, <3>2, <3>3, <3>4
  <2>3. DeleteInv(k)'
    <3>. SUFFICES ASSUME call[k].op = "delete"
                  PROVE  DeleteInv(k)'
      BY <1>1 DEF DeleteInv, SameScript
    <3>1. \A x \in Resources : Listed(x)' => Listed(x)
      BY <1>2, <1>4
    <3>. QED BY <1>7, <3>1, KnownResources DEF Work, DeleteInv
  <2>4. ClearInv(k)'
    <3>. SUFFICES ASSUME call[k].op = "rebuild", call[k].app = "-", n \in {4, 5}
                  PROVE  \A c \in Longlived : ~Exists(c)'
      BY <1>1, <1>7 DEF ClearInv, SameScript
    <3>. QED BY <1>3, <1>5 DEF Work, ClearInv
  <2>. QED BY <2>2, <2>3, <2>4, PerformCreate, PerformRestart DEF Work
<1>. QED BY <1>6, <1>7 DEF PerformFacts

\* Every step keeps what the lone calls have achieved.
LEMMA WorkStep ==
  ASSUME BaseInv, BaseInv', WorkInv, [Next]_vars
  PROVE  WorkInv'
<1>. SUFFICES ASSUME NEW k \in Calls, call'[k].alone
              PROVE  Work(k)'
  BY DEF WorkInv
<1>1. CASE \E op \in Ops : Accept(k, op)
  BY <1>1, AcceptWork
<1>2. ASSUME call[k].alone
      PROVE  Work(k) /\ Active(k)
  BY <1>2 DEF WorkInv, BaseInv, LoneInv
<1>3. CASE call[k].alone /\ \E r \in Resources : Does(k, r)
  BY <1>2, <1>3, Performed, PerformWork
<1>4. CASE call[k].alone /\ (ListStep(k) \/ Skip(k))
  BY <1>2, <1>4, PassWork
<1>5. CASE call[k].alone /\ \E a \in Apps : NextApp(k, a)
  BY <1>2, <1>5, NextAppWork
<1>6. CASE call[k].alone /\ Rests(k)
  BY <1>2, <1>6, QuietWork
<1>. QED BY <1>1, <1>3, <1>4, <1>5, <1>6, LoneStep

-----------------------------------------------------------------------------
(* Layers: what stands on what.                                            *)

\* Where a container or the network is created, and where they are deleted.
LEMMA CreatedOn ==
  ASSUME BaseInv, NEW k \in Calls, NEW r \in Resources, Work(k), PerformFacts(k, r),
         Step(k).do = "create", r \in Longlived
  PROVE  /\ Exists(Network)
         /\ \A a \in Apps : r = App(a) => Exists(Sandbox(a)) /\ (Seeding => seeded)
<1>0. TypeOK /\ CallInv
  BY DEF BaseInv
<1>1. Active(k) /\ ~AtEnd(k) /\ r \in Step(k).on /\ call[k].op \in Ops
  BY <1>0, CallFields DEF PerformFacts, Active
<1>2. call[k].op \in Creating
  <2>. DEFINE s == Step(k)
  <2>1. call[k].op \notin Creating =>
          \/ \E on : s = List(on)
          \/ \E on : s = Each("delete", on)
          \/ \E on : s = Each("stop", on)
          \/ \E on : s = Each("start", on)
          \/ \E on : s = Each("halt", on)
          \/ \E on : s = Each("health", on)
    BY <1>0, <1>1, WhichStep DEF Creating, Ops
  <2>. HIDE DEF s
  <2>2. s.do = "create"
    BY DEF s
  <2>. QED BY <2>1, <2>2, SweepFields
<1>. DEFINE n == call[k].at
            t == Steps(k)
            f == From(k)
<1>3. n \in f..Len(t) /\ Step(k) = t[n] /\ f \in Nat /\ n \in Nat /\ Len(t) \in Nat /\ InOrder(t, f)
  <2>1. InOrder(t, f) /\ f \in Nat /\ n \in 1..Len(t) /\ n \in Nat /\ Len(t) \in Nat
    BY <1>0, <1>1, <1>2, CreateOrder, Position DEF InOrder
  <2>2. \/ n \in f..Len(t) /\ Plain(Step(k))
        \/ Step(k) = Pull \/ \E on : Step(k) = List(on) \/ Step(k) = Each("delete", on)
    BY <1>0, <1>1, <1>2, WhichStep
  <2>3. n \in f..Len(t)
    BY <2>2, SweepFields
  <2>. QED BY <2>1, <2>3 DEF Step
<1>4. ASSUME NEW x, x \notin Oneshot, Before(t, f, n, One("create", x))
      PROVE  Exists(x)
  <2>1. PICK j \in f..(n - 1) : t[j] = One("create", x)
    BY <1>4 DEF Before
  <2>2. j \in f..Len(t) /\ j < n
    BY <1>3
  <2>3. Made(One("create", x))
    BY <1>2, <2>1, <2>2 DEF Work, CreateInv
  <2>. QED BY <1>4, <2>3, OneFields DEF Made
<1>5. CASE call[k].app = "-"
  <2>1. t = Script[call[k].op] /\ f = BaseFrom(call[k].op)
    BY <1>5 DEF Steps, From
  <2>2. r = Gateway
    BY <1>1, <1>2, <1>3, <2>1, BaseOrder
  <2>3. Before(t, f, n, One("create", Network))
    BY <1>1, <1>3, <2>2 DEF InOrder
  <2>4. Exists(Network)
    BY <1>4, <2>3, Apart
  <2>. QED BY <2>2, <2>4, Apart
<1>6. CASE call[k].app # "-"
  <2>1. BaseMade
    BY <1>2, <1>6 DEF Work, CreateInv
  <2>2. ASSUME NEW a \in Apps, r = App(a)
        PROVE  Exists(Sandbox(a))
    <3>1. PICK b \in Apps : b = call[k].app
      BY <1>0, <1>6, CallFields
    <3>2. t = createApp[b] /\ f = 1
      BY <1>6, <3>1 DEF Steps, From
    <3>3. a = b /\ Before(t, f, n, One("create", Sandbox(b)))
      BY <1>1, <1>3, <2>2, <3>2, AppScript
    <3>. QED BY <1>4, <3>3, Apart, KnownResources
  <2>. QED BY <2>1, <2>2 DEF BaseMade
<1>. QED BY <1>5, <1>6

\* A step that stops or deletes a container or network other than a job's is a
\* sweep over what was listed, of the containers or the network.
LEMMA TakenBy ==
  ASSUME BaseInv, NEW k \in Calls, NEW r \in Resources, PerformFacts(k, r),
         Step(k).do \in Sweeping, r \notin Oneshot
  PROVE  /\ Step(k).listed
         /\ r \in Longlived => Longlived \subseteq Step(k).on
<1>0. TypeOK /\ CallInv
  BY DEF BaseInv
<1>1. /\ Active(k) /\ ~AtEnd(k) /\ r \in Step(k).on /\ call[k].op \in Ops
      /\ SweepOK(Steps(k), call[k].at) /\ Step(k) = Steps(k)[call[k].at]
  BY <1>0, CallFields, Position DEF PerformFacts, Active, Step
<1>2. Step(k).listed
  <2>. DEFINE s == Step(k)
  <2>1. \/ Plain(s) \/ s = Pull \/ (\E on : s = List(on)) \/ \E do, on : s = Each(do, on)
    BY <1>0, <1>1, WhichStep DEF Creating, Ops
  <2>. HIDE DEF s
  <2>2. s.do \in Sweeping /\ r \in s.on /\ r \notin Oneshot
    BY <1>1 DEF s
  <2>3. ~Plain(s) /\ s.do \notin {"pull", "list"}
    BY <2>2 DEF Plain, Sweeping, CreateDos
  <2>. QED BY <2>1, <2>3, SweepFields DEF s
<1>3. r \in Longlived => Longlived \subseteq Step(k).on
  BY <1>1, <1>2, Apart, KnownResources DEF SweepOK
<1>. QED BY <1>2, <1>3

\* Sweeps go down the ranks: an app before its sandbox, both before the gateway.
LEMMA DownTheRanks ==
  ASSUME BaseInv, NEW k \in Calls, NEW r \in Resources, Work(k), Does(k, r),
         Step(k).do \in Sweeping, r \in Longlived, NEW c \in Longlived,
         resourceRank(c) > resourceRank(r)
  PROVE  ~Running(c) /\ (Step(k).do = "delete" => ~Exists(c))
<1>0. TypeOK /\ CallInv /\ EngineInv /\ c \in Resources
  BY KnownResources DEF BaseInv
<1>1. PerformFacts(k, r)
  BY Performed
<1>2. Step(k).listed /\ c \in Step(k).on
  BY <1>1, TakenBy, Apart
<1>3. c \notin Pending(k)
  <2>1. r \in Eligible(k) /\ Step(k).do # "start"
    BY DEF Does, Sweeping
  <2>2. c \in Pending(k) => resourceRank(r) >= resourceRank(c)
    BY <2>1 DEF Eligible
  <2>3. resourceRank(r) \in Nat /\ resourceRank(c) \in Nat
    BY <1>0, Ranks
  <2>. QED BY <2>2, <2>3
<1>4. Listed(c) => Step(k).do # "delete" /\ ~Running(c)
  BY <1>1, <1>2, <1>3 DEF Work, SweepInv, Pending, PerformFacts
<1>5. (Running(c) => Listed(c)) /\ (Exists(c) => Listed(c))
  BY <1>0, KnownResources DEF Running, Listed, Exists, EngineInv
<1>. QED BY <1>4, <1>5

\* The network is deleted only when no container of the workstation is left.
LEMMA NetworkLast ==
  ASSUME BaseInv, NEW k \in Calls, Work(k), PerformFacts(k, Network), Step(k).do = "delete"
  PROVE  \A c \in Longlived : ~Exists(c)
<1>0. TypeOK /\ CallInv /\ EngineInv
  BY DEF BaseInv
<1>. DEFINE n == call[k].at
            s == Step(k)
<1>1. Active(k) /\ ~AtEnd(k) /\ Network \in s.on /\ call[k].op \in Ops /\ s.do = "delete"
  BY <1>0, CallFields DEF PerformFacts, Active
<1>2. s.listed
  BY TakenBy, Apart, KnownResources DEF Sweeping
<1>3. Network \notin Containers /\ Network \notin Longlived /\ Network \notin Volumes
  BY Apart DEF Containers
<1>4. \/ call[k].op = "delete" /\ n = 4
      \/ call[k].op = "rebuild" /\ call[k].app = "-" /\ n = 5
  <2>1. CASE call[k].op = "delete"
    <3>1. \/ s = List(Containers)
          \/ s = Each("delete", Containers)
          \/ s = List({Network})
          \/ n = 4
          \/ s = List(Volumes)
          \/ s = Each("delete", Volumes)
      BY <1>0, <1>1, <2>1, WhichStep
    <3>. HIDE DEF n, s
    <3>. QED BY <1>1, <1>3, <2>1, <3>1, SweepFields
  <2>2. CASE call[k].op \in Creating
    <3>1. \/ Plain(s)
          \/ s = Pull
          \/ /\ call[k].op = "rebuild" /\ call[k].app = "-"
             /\ \/ s = List(Longlived)
                \/ s = Each("delete", Longlived)
                \/ s = List({Network})
                \/ n = 5
      BY <1>0, <1>1, <2>2, WhichStep
    <3>2. ~Plain(s)
      BY <1>2 DEF Plain
    <3>. HIDE DEF n, s
    <3>. QED BY <1>1, <1>2, <1>3, <3>1, <3>2, SweepFields
  <2>3. CASE call[k].op \in {"start", "stop", "restart"}
    <3>1. \/ \E on : s = List(on)
          \/ \E on : s = Each("stop", on)
          \/ \E on : s = Each("start", on)
          \/ \E on : s = Each("halt", on)
          \/ \E on : s = Each("health", on)
      BY <1>0, <1>1, <2>3, WhichStep
    <3>. HIDE DEF n, s
    <3>. QED BY <1>1, <3>1, SweepFields
  <2>. QED BY <1>1, <2>1, <2>2, <2>3 DEF Ops, Creating
<1>5. CASE call[k].op = "delete" /\ n = 4
  <2>1. \A c \in Containers : ~Listed(c)
    BY <1>5 DEF Work, DeleteInv
  <2>. QED BY <1>0, <2>1, KnownResources DEF EngineInv, Listed, Exists
<1>6. CASE call[k].op = "rebuild" /\ call[k].app = "-" /\ n = 5
  BY <1>6 DEF Work, ClearInv
<1>. QED BY <1>4, <1>5, <1>6

\* A request of a lone call keeps the layers.
LEMMA PerformLayers ==
  ASSUME BaseInv, BaseInv', LayerInv, ~overlapped, NEW k \in Calls, NEW r \in Resources,
         Work(k), Does(k, r)
  PROVE  LayerInv'
<1>. DEFINE do == Step(k).do
<1>1. PerformFacts(k, r)
  BY Performed
<1>2. Engine(do, r) /\ (do = "delete" => Permitted(do, r))
  BY <1>1 DEF PerformFacts
<1>3. /\ Exists(Gateway) => Exists(Network)
      /\ \A a \in Apps : Exists(Sandbox(a)) => Exists(Network)
      /\ \A a \in Apps : Exists(App(a)) => Exists(Sandbox(a))
      /\ Seeding /\ (edited \/ \E a \in Apps : Exists(App(a))) => seeded
  BY DEF LayerInv
<1>4. \A x \in Longlived : Exists(x)' => Exists(x) \/ (x = r /\ do = "create")
  <2>1. \A x \in Longlived : x \in Containers \cup {Network}
    BY KnownResources
  <2>. QED BY <1>2, <2>1 DEF Engine
<1>5. \A x \in Longlived : Exists(x)' => Exists(Network)'
  <2>. SUFFICES ASSUME NEW x \in Longlived, Exists(x)'
                PROVE  Exists(Network)'
    OBVIOUS
  <2>1. Exists(Network)
    <3>1. CASE x = r /\ do = "create"
      BY <1>1, <3>1, CreatedOn
    <3>2. CASE Exists(x)
      <4>1. x = Gateway \/ \E a \in Apps : x = Sandbox(a) \/ x = App(a)
        BY Names
      <4>. QED BY <1>3, <3>2, <4>1
    <3>. QED BY <1>4, <3>1, <3>2
  <2>2. ~(r = Network /\ do = "delete")
    <3>. SUFFICES ASSUME r = Network, do = "delete"
                  PROVE  FALSE
      OBVIOUS
    <3>1. ~Exists(x)
      BY <1>1, NetworkLast
    <3>. QED BY <1>4, <3>1
  <2>. QED BY <1>2, <2>1, <2>2, KnownResources DEF Engine
<1>6. ASSUME NEW a \in Apps, Exists(App(a))'
      PROVE  Exists(Sandbox(a))'
  <2>0. App(a) \in Longlived /\ Sandbox(a) \in Longlived /\ Sandbox(a) \in Resources
    BY KnownResources
  <2>1. Exists(Sandbox(a))
    <3>1. CASE App(a) = r /\ do = "create"
      BY <1>1, <2>0, <3>1, CreatedOn
    <3>. QED BY <1>3, <1>4, <1>6, <2>0, <3>1
  <2>2. ~(r = Sandbox(a) /\ do = "delete")
    <3>. SUFFICES ASSUME r = Sandbox(a), do = "delete"
                  PROVE  FALSE
      OBVIOUS
    <3>1. resourceRank(App(a)) > resourceRank(r)
      BY Ranks
    <3>2. ~Exists(App(a))
      BY <2>0, <3>1, DownTheRanks DEF Sweeping
    <3>. QED BY <1>4, <1>6, <2>0, <3>2
  <2>. QED BY <1>2, <2>0, <2>1, <2>2 DEF Engine
<1>7. ASSUME Seeding, edited' \/ \E a \in Apps : Exists(App(a))'
      PROVE  seeded'
  <2>1. ~(r = Workspace /\ do = "delete")
    <3>. SUFFICES ASSUME r = Workspace, do = "delete"
                  PROVE  FALSE
      OBVIOUS
    <3>1. ~edited'
      BY <1>2 DEF Engine
    <3>2. PICK a \in Apps : Exists(App(a))'
      BY <1>7, <3>1
    <3>3. Exists(App(a))
      BY <1>4, <3>2, KnownResources
    <3>4. \A c \in Containers : r \in Mounts(c) => ~Exists(c)
      BY <1>2, KnownResources DEF Permitted
    <3>. QED BY <3>3, <3>4, Needs, KnownResources
  <2>2. seeded
    <3>1. CASE edited'
      <4>1. edited
        BY <1>2, <3>1 DEF Engine
      <4>. QED BY <1>3, <1>7, <4>1
    <3>2. ASSUME NEW a \in Apps, Exists(App(a))'
          PROVE  seeded
      <4>1. App(a) \in Longlived
        BY KnownResources
      <4>2. CASE App(a) = r /\ do = "create"
        BY <1>1, <1>7, <4>1, <4>2, CreatedOn
      <4>. QED BY <1>3, <1>4, <1>7, <3>2, <4>1, <4>2
    <3>. QED BY <1>7, <3>1, <3>2
  <2>. QED BY <1>2, <2>1, <2>2 DEF Engine
<1>. QED BY <1>5, <1>6, <1>7, KnownResources DEF LayerInv

\* Every step keeps the layers, unless calls overlap.
LEMMA LayerStep ==
  ASSUME BaseInv, BaseInv', WorkInv, LayerInv, [Next]_vars
  PROVE  LayerInv'
<1>. SUFFICES ASSUME ~overlapped'
              PROVE  LayerInv'
  BY DEF LayerInv
<1>1. ASSUME overlapped' = overlapped, Containment \/ UNCHANGED <<engineVars, fallen>>
      PROVE  LayerInv'
  <2>1. Quiet
    BY <1>1, QuietEffect DEF BaseInv, QuietStep
  <2>2. /\ \A x \in Resources : Exists(x)' <=> Exists(x)
        /\ seeded => seeded'
        /\ edited' => edited \/ (Seeding /\ \E a \in Apps : Exists(App(a)))
    BY <2>1 DEF Quiet
  <2>3. /\ Exists(Gateway) => Exists(Network)
        /\ \A a \in Apps : Exists(Sandbox(a)) => Exists(Network)
        /\ \A a \in Apps : Exists(App(a)) => Exists(Sandbox(a))
        /\ Seeding /\ (edited \/ \E a \in Apps : Exists(App(a))) => seeded
    BY <1>1 DEF LayerInv
  <2>. QED BY <2>2, <2>3, KnownResources DEF LayerInv
<1>2. ASSUME NEW k \in Calls, NEW r \in Resources, Does(k, r)
      PROVE  LayerInv'
  <2>1. ~overlapped /\ Active(k)
    BY <1>2 DEF Does, ghostVars
  <2>2. Work(k)
    BY <2>1 DEF BaseInv, LoneInv, WorkInv
  <2>. QED BY <1>2, <2>1, <2>2, PerformLayers
<1>3. ASSUME NEW k \in Calls, NEW op \in Ops, Accept(k, op)
      PROVE  LayerInv'
  <2>1. UNCHANGED engineVars
    BY <1>3 DEF Accept
  <2>2. ~overlapped
    BY <1>3, AcceptMoves DEF BaseInv
  <2>. QED BY <2>1, <2>2 DEF LayerInv, engineVars, Exists
<1>4. ASSUME NEW k \in Calls, ListStep(k) \/ Skip(k) \/ Answer(k) \/ GiveUp(k)
      PROVE  LayerInv'
  BY <1>1, <1>4 DEF ListStep, Skip, Answer, GiveUp, ghostVars
<1>5. ASSUME NEW k \in Calls, NEW a \in Apps, NextApp(k, a)
      PROVE  LayerInv'
  BY <1>1, <1>5 DEF NextApp, ghostVars
<1>6. CASE Containment
  BY <1>1, <1>6 DEF Containment, JobEnds, Falls, UserEdits, ghostVars
<1>7. CASE UNCHANGED vars
  BY <1>1, <1>7 DEF vars, engineVars
<1>8. ASSUME NEW k \in Calls, NEW r \in Resources, Perform(k, r)
      PROVE  LayerInv'
  <2>1. CASE Notes(k, r)
    BY <1>1, <2>1 DEF Notes, ghostVars
  <2>. QED BY <1>2, <1>8, <2>1, Performs DEF BaseInv
<1>. QED BY <1>3, <1>4, <1>5, <1>6, <1>7, <1>8 DEF Next, Serve

-----------------------------------------------------------------------------
(* The invariant.                                                          *)

WorkerInv == BaseInv /\ WorkInv /\ LayerInv

\* The invariant holds at first.
LEMMA WorkerInit == Init => WorkerInv
<1>. SUFFICES ASSUME Init PROVE WorkerInv
  OBVIOUS
<1>1. BaseInv
  BY BaseInit
<1>2. \A r \in Resources : ~Exists(r)
  BY DEF Init, Exists
<1>3. edited = FALSE
  BY DEF Init
<1>4. LayerInv
  BY <1>2, <1>3, KnownResources DEF LayerInv
<1>5. \A k \in Calls : call[k].alone = FALSE
  BY DEF Init, NoCall
<1>. QED BY <1>1, <1>4, <1>5 DEF WorkerInv, WorkInv

\* Every step keeps the invariant.
LEMMA WorkerStep == WorkerInv /\ [Next]_vars => WorkerInv'
BY BaseStep, WorkStep, LayerStep DEF WorkerInv

\* For any apps and any number of calls, what each lone call has achieved so far, and the
\* layers the engine's resources are built in, are an invariant of every run of the worker.
THEOREM WorkerInvariant == Spec => []WorkerInv
BY WorkerInit, WorkerStep, PTL DEF Spec

-----------------------------------------------------------------------------
(* The properties.                                                         *)

\* For any apps and any number of overlapping calls, what the engine holds and
\* where every call stands in its script stay in their types.
THEOREM WorkerTyped == Spec => []TypeOK
<1>1. WorkerInv => TypeOK
  BY DEF WorkerInv, BaseInv
<1>. QED BY <1>1, WorkerInvariant, PTL

\* As long as calls do not overlap, a workspace the user has changed carries the
\* seed marker: the seed container of a later provision or rebuild copies nothing.
THEOREM SeedKeepsEdits == Spec => []EditsAreKept
<1>1. WorkerInv => EditsAreKept
  BY DEF WorkerInv, LayerInv, EditsAreKept
<1>. QED BY <1>1, WorkerInvariant, PTL

\* What a lone delete leaves.
LEMMA DeleteEmpties == WorkerInv => LoneDeleteCleans
<1>. SUFFICES ASSUME WorkerInv, NEW k \in Calls,
                     Ended(k), call[k].op = "delete", call[k].alone, NEW r \in Resources
              PROVE  ~Listed(r)
  BY DEF LoneDeleteCleans
<1>1. TypeOK /\ CallInv /\ DeleteInv(k) /\ Active(k) /\ AtEnd(k)
  BY DEF WorkerInv, BaseInv, WorkInv, Work, Ended
<1>2. Steps(k) = Script["delete"]
  BY <1>1 DEF CallInv, CallOK, Creating, Steps
<1>3. call[k].at = 7
  <2>1. Len(Script["delete"]) = 6
    BY SweepScripts
  <2>2. PICK n : n = Len(Steps(k))
    OBVIOUS
  <2>3. call[k].at = n + 1
    BY <1>1, <2>2, Position
  <2>4. n = 6
    BY <1>2, <2>1, <2>2, Zenon
  <2>. QED BY <2>3, <2>4
<1>4. /\ \A c \in Containers : ~Listed(c)
      /\ ~Listed(Network)
      /\ \A v \in Volumes : ~Listed(v)
  BY <1>1, <1>3 DEF DeleteInv
<1>. QED BY <1>4 DEF Resources

\* A delete that runs alone ends with no labelled resource of the workstation,
\* whatever calls came before it and however they failed or overlapped.
THEOREM DeleteCleans == Spec => []LoneDeleteCleans
BY DeleteEmpties, WorkerInvariant, PTL

\* When a provision or rebuild that ran alone ends well and no container fell meanwhile, the
\* gateway and all apps run, for any apps and whatever it found.
THEOREM ProvisionEndsServing == Spec => []ProvisionServes
<1>1. WorkerInv => ProvisionServes
  <2>. SUFFICES ASSUME WorkerInv, NEW k \in Calls, Ended(k),
                       call[k].op \in {"provision", "rebuild"}, call[k].alone, ~fallen
                PROVE  Serving
    BY DEF ProvisionServes
  <2>1. BaseInv /\ Work(k) /\ Active(k) /\ AtEnd(k) /\ call[k].todo = {} /\ call[k].op \in Creating
    BY DEF WorkerInv, WorkInv, Ended, Creating
  <2>2. BaseMade /\ \A b \in Apps : AppMade(b)
    BY <2>1, EndMade
  <2>. QED BY <2>2 DEF BaseMade, AppMade, Serving
<1>. QED BY <1>1, WorkerInvariant, PTL

\* The engine refuses no request of a lone delete.
LEMMA DeletePermitted ==
  ASSUME BaseInv, NEW k \in Calls, Work(k), Active(k), ~AtEnd(k), call[k].op = "delete",
         Step(k).do # "list", NEW r \in Targets(k)
  PROVE  Permitted(Asked(k), r)
<1>. DEFINE n == call[k].at
            s == Step(k)
<1>0. TypeOK /\ CallInv /\ EngineInv
  BY DEF BaseInv
<1>1. \/ n = 1 /\ s = List(Containers)
      \/ n = 2 /\ s = Each("delete", Containers)
      \/ n = 3 /\ s = List({Network})
      \/ n = 4 /\ s = Each("delete", {Network})
      \/ n = 5 /\ s = List(Volumes)
      \/ n = 6 /\ s = Each("delete", Volumes)
  BY <1>0, WhichStep
<1>2. r \in s.on /\ s.do # "list"
  <2>1. call[k].seen # {} => call[k].seen \subseteq Eligible(k)
    BY <1>0 DEF CallInv, CallOK
  <2>2. r \in Eligible(k)
    BY <2>1 DEF Targets
  <2>. QED BY <2>2 DEF Eligible, Pending
<1>3. n >= 3 => \A c \in Containers : ~Listed(c)
  BY DEF Work, DeleteInv
<1>. HIDE DEF n, s
<1>4. /\ s.do = "delete"
      /\ n < 3 => r \in Containers
  BY <1>1, <1>2, SweepFields
<1>5. r \in Containers => r # Network /\ r \notin Volumes
  BY Apart DEF Containers
<1>6. n >= 3 => \A c \in Containers : ~Exists(c) /\ ~Running(c)
  BY <1>0, <1>3 DEF EngineInv, Listed, Exists, Running
<1>7. OfKind({"wslan", "sandbox"}) \subseteq Containers
  BY DEF OfKind, Containers, Longlived
<1>8. /\ r = Network => \A c \in OfKind({"wslan", "sandbox"}) : ~Running(c)
      /\ r \in Volumes => \A c \in Containers : r \in Mounts(c) => ~Exists(c)
  <2>1. CASE n < 3
    BY <1>4, <1>5, <2>1
  <2>2. CASE n >= 3
    BY <1>6, <1>7, <2>2
  <2>. QED BY <1>1, <2>1, <2>2
<1>9. Permitted("delete", r)
  BY <1>8 DEF Permitted
<1>. QED BY <1>4, <1>9 DEF s, Asked

\* The engine refuses no request of a lone restart while no container has fallen.
LEMMA RestartPermitted ==
  ASSUME BaseInv, LayerInv, ~overlapped, ~fallen, NEW k \in Calls, Work(k),
         Active(k), ~AtEnd(k), call[k].op = "restart",
         call[k].seen \subseteq Longlived, Step(k).do # "list", NEW r \in Targets(k)
  PROVE  Permitted(Asked(k), r)
<1>. DEFINE n == call[k].at
            s == Step(k)
<1>0. TypeOK /\ CallInv /\ EngineInv
  BY DEF BaseInv
<1>1. \/ n = 1 /\ s = List(Containers)
      \/ n = 2 /\ s = Each("halt", Containers)
      \/ n = 3 /\ s = Each("start", {Gateway})
      \/ n = 4 /\ s = Each("health", {Gateway})
      \/ n = 5 /\ s = Each("start", Containers \ {Gateway})
  BY <1>0, WhichStep
<1>12. r \in Eligible(k)
  <2>1. call[k].seen # {} => call[k].seen \subseteq Eligible(k)
    BY <1>0 DEF CallInv, CallOK
  <2>. QED BY <2>1 DEF Targets
<1>2. /\ r \in Pending(k) /\ r \in s.on /\ s.do # "list"
      /\ s.listed => r \in call[k].listed
      /\ r \notin call[k].done
  BY <1>12 DEF Eligible, Pending
<1>3. RestartInv(k)
  BY DEF Work
<1>4. /\ Exists(Gateway) => Exists(Network)
      /\ \A a \in Apps : Exists(Sandbox(a)) => Exists(Network)
      /\ \A a \in Apps : Exists(App(a)) => Exists(Sandbox(a))
  BY DEF LayerInv
<1>5. r \in Containers /\ r \in call[k].listed
  <2>. HIDE DEF n, s
  <2>. QED BY <1>1, <1>2, SweepFields, KnownResources
<1>6. Exists(r)
  <2>1. n >= 2
    BY <1>1, <1>2, SweepFields
  <2>. QED BY <1>3, <1>5, <2>1 DEF RestartInv
<1>7. CASE n = 2
  <2>1. s.do = "halt"
    BY <1>1, <1>7, SweepFields
  <2>2. CASE call[k].seen = {}
    <3>1. Asked(k) = "inspect"
      BY <2>1, <2>2 DEF Asked
    <3>2. Permitted("inspect", r)
      BY <1>6 DEF Permitted
    <3>. QED BY <3>1, <3>2
  <2>3. CASE call[k].seen # {}
    <3>1. Asked(k) = "stop" /\ r \in call[k].seen
      BY <2>1, <2>3 DEF Asked, Targets
    <3>2. Running(r)
      BY <1>3, <3>1 DEF RestartInv
    <3>3. Permitted("stop", r)
      BY <3>2 DEF Permitted
    <3>. QED BY <3>1, <3>3
  <2>. QED BY <2>2, <2>3
<1>8. CASE n = 3
  <2>1. s.do = "start" /\ r = Gateway
    BY <1>1, <1>2, <1>8, SweepFields
  <2>2. ~Running(r) /\ Startable(r)
    BY <1>3, <1>4, <1>5, <1>6, <1>8, <2>1, Needs DEF RestartInv
  <2>3. Permitted("start", r)
    BY <2>2 DEF Permitted
  <2>. QED BY <2>1, <2>3 DEF Asked
<1>9. CASE n = 4
  <2>1. s.do = "health" /\ r = Gateway
    BY <1>1, <1>2, <1>9, SweepFields
  <2>2. Healthy(r)
    BY <1>3, <1>4, <1>5, <1>6, <1>9, <2>1, Needs DEF RestartInv
  <2>3. Permitted("health", r)
    BY <2>2 DEF Permitted
  <2>. QED BY <2>1, <2>3 DEF Asked
<1>10. CASE n = 5
  <2>1. s.do = "start" /\ s.listed /\ s.on = Containers \ {Gateway}
    BY <1>1, <1>10, SweepFields
  <2>2. ~Running(r)
    BY <1>2, <1>3, <1>5, <1>10, <2>1 DEF RestartInv
  <2>3. Startable(r)
    <3>1. CASE r \in Oneshot
      BY <3>1, Needs
    <3>2. ASSUME NEW a \in Apps, r = Sandbox(a)
          PROVE  Startable(r)
      BY <1>4, <1>6, <3>2, Needs
    <3>3. ASSUME NEW a \in Apps, r = App(a)
          PROVE  Startable(r)
      <4>1. /\ Sandbox(a) \in Containers \ {Gateway} /\ Sandbox(a) \in Longlived
            /\ Sandbox(a) \in Resources
        BY KnownResources, Apart
      <4>2. Sandbox(a) \in call[k].listed
        BY <1>3, <1>4, <1>6, <1>10, <3>3, <4>1 DEF RestartInv
      <4>3. Sandbox(a) \notin Pending(k)
        <5>1. Sandbox(a) \in Pending(k) => resourceRank(r) <= resourceRank(Sandbox(a))
          BY <1>12, <2>1 DEF Eligible
        <5>2. resourceRank(r) = 2 /\ resourceRank(Sandbox(a)) = 1
          BY <3>3, Ranks
        <5>. QED BY <5>1, <5>2
      <4>4. Sandbox(a) \in call[k].done
        BY <2>1, <4>1, <4>2, <4>3 DEF Pending
      <4>5. Running(Sandbox(a))
        BY <1>3, <1>10, <4>1, <4>4 DEF RestartInv
      <4>. QED BY <3>3, <4>5, Needs
    <3>4. r \in Oneshot \/ \E a \in Apps : r = Sandbox(a) \/ r = App(a)
      BY <1>2, <2>1, Names DEF Containers
    <3>. QED BY <3>1, <3>2, <3>3, <3>4
  <2>4. Permitted("start", r)
    BY <2>2, <2>3 DEF Permitted
  <2>. QED BY <2>1, <2>4 DEF Asked
<1>11. n # 1
  BY <1>1, <1>2, SweepFields
<1>. QED BY <1>1, <1>7, <1>8, <1>9, <1>10, <1>11

\* Docker refuses no request of a delete that runs alone, for any apps and whatever
\* failed, cancelled and overlapping calls left behind.
THEOREM DeleteNeverRefused == Spec => []DeleteNotRefused
<1>1. WorkerInv => DeleteNotRefused
  <2>. SUFFICES ASSUME WorkerInv, NEW k \in Calls, Active(k), ~AtEnd(k),
                       call[k].op = "delete", call[k].alone,
                       Step(k).do # "list", NEW r \in Targets(k)
                PROVE  Permitted(Asked(k), r)
    BY DEF DeleteNotRefused, Welcome
  <2>1. BaseInv /\ Work(k)
    BY DEF WorkerInv, WorkInv
  <2>. QED BY <2>1, DeletePermitted
<1>. QED BY <1>1, WorkerInvariant, PTL

\* Docker refuses no request of a restart as long as calls never overlapped and no
\* container fell since it arrived, whatever failed calls left; the one exception is
\* the stop of a job container that ended after its inspection.
THEOREM RestartNeverRefused == Spec => []RestartNotRefused
<1>1. WorkerInv => RestartNotRefused
  <2>. SUFFICES ASSUME WorkerInv, NEW k \in Calls, Active(k), ~AtEnd(k),
                       call[k].op = "restart", ~overlapped, ~fallen,
                       call[k].seen \subseteq Longlived,
                       Step(k).do # "list", NEW r \in Targets(k)
                PROVE  Permitted(Asked(k), r)
    BY DEF RestartNotRefused, Welcome
  <2>1. BaseInv /\ LayerInv
    BY DEF WorkerInv
  <2>2. Work(k)
    BY <2>1 DEF WorkerInv, WorkInv, BaseInv, LoneInv
  <2>. QED BY <2>1, <2>2, RestartPermitted
<1>. QED BY <1>1, WorkerInvariant, PTL

\* A call that does not overlap keeps what a running app stands on.
LEMMA CallKeepsBase ==
  ASSUME WorkerInv, Next, call' # call, ~overlapped', NEW a \in Apps,
         Running(App(a)), NEW c \in {Sandbox(a), Gateway}, Running(c)
  PROVE  Running(c)'
<1>0. /\ BaseInv /\ c \in Longlived /\ c \in Resources /\ App(a) \in Longlived
      /\ resourceRank(App(a)) > resourceRank(c)
  BY KnownResources, Ranks DEF WorkerInv
<1>1. ASSUME UNCHANGED res
      PROVE  Running(c)'
  BY <1>1 DEF Running
<1>2. ASSUME NEW k \in Calls, NEW r \in Resources, Does(k, r)
      PROVE  Running(c)'
  <2>1. ~overlapped /\ PerformFacts(k, r) /\ Active(k)
    BY <1>0, <1>2, Performed DEF Does, ghostVars
  <2>2. Work(k)
    BY <1>0, <2>1 DEF BaseInv, LoneInv, WorkerInv, WorkInv
  <2>3. ~(c = r /\ Step(k).do \in Sweeping)
    BY <1>0, <1>2, <2>2, DownTheRanks
  <2>. QED BY <1>0, <2>1, <2>3 DEF PerformFacts, Engine
<1>3. ASSUME NEW k \in Calls, NEW op \in Ops, Accept(k, op)
      PROVE  Running(c)'
  BY <1>1, <1>3 DEF Accept, engineVars
<1>4. ASSUME NEW k \in Calls, ListStep(k) \/ Skip(k) \/ Answer(k) \/ GiveUp(k)
      PROVE  Running(c)'
  BY <1>1, <1>4 DEF ListStep, Skip, Answer, GiveUp, engineVars
<1>5. ASSUME NEW k \in Calls, NEW b \in Apps, NextApp(k, b)
      PROVE  Running(c)'
  BY <1>1, <1>5 DEF NextApp, engineVars
<1>6. ~Containment
  BY DEF Containment, JobEnds, Falls, UserEdits
<1>7. ASSUME NEW k \in Calls, NEW r \in Resources, Perform(k, r)
      PROVE  Running(c)'
  <2>1. CASE Notes(k, r)
    BY <1>1, <2>1 DEF Notes, engineVars
  <2>. QED BY <1>0, <1>2, <1>7, <2>1, Performs DEF BaseInv
<1>. QED BY <1>3, <1>4, <1>5, <1>6, <1>7 DEF Next, Serve

\* Unless calls overlap, no call stops or deletes the gateway or a sandbox while an
\* app that depends on it runs on.
THEOREM DependentsGoFirst == Spec => DependentsFirst
<1>. DEFINE A == call' # call /\ ~overlapped' =>
                   \A a \in Apps :
                     Running(App(a)) /\ Running(App(a))' =>
                       /\ Running(Sandbox(a)) => Running(Sandbox(a))'
                       /\ Running(Gateway) => Running(Gateway)'
<1>1. WorkerInv /\ [Next]_vars => [A]_vars
  <2>. SUFFICES ASSUME WorkerInv, Next
                PROVE  A
    OBVIOUS
  <2>. QED BY CallKeepsBase
<1>. QED BY <1>1, WorkerInvariant, PTL DEF Spec, DependentsFirst

-----------------------------------------------------------------------------
(* What a start or a restart brings up.                                    *)

\* The step before startEach.
Listing(op) == IF op = "start" THEN 1 ELSE 2

\* A lone start or restart: what exists was listed, and what was visited runs.
UpInv(k) ==
  call[k].op \in {"start", "restart"} =>
    /\ call[k].at >= 2 => \A c \in Containers : Exists(c) => c \in call[k].listed
    /\ ~fallen =>
         /\ call[k].at >= Listing(call[k].op) + 2 /\ Exists(Gateway) => Running(Gateway)
         /\ call[k].at = Listing(call[k].op) + 3 =>
              \A c \in Longlived : c \in call[k].done /\ Exists(c) => Running(c)
         /\ call[k].at = Listing(call[k].op) + 4 =>
              \A c \in Longlived : Exists(c) => Running(c)

UpsInv == \A k \in Calls : call[k].alone => UpInv(k)

\* Without overlaps every volume carries the manager's labels, and the workspace is
\* there before the network and after it.
VolumeInv ==
  /\ res[Network] # "stray"
  /\ ~overlapped =>
       /\ \A v \in Volumes : res[v] # "stray"
       /\ Exists(Network) => Exists(Workspace)

\* The end of a start or a restart.
LEMMA UpEnd ==
  ASSUME TypeOK, CallInv, NEW k \in Calls, Active(k), AtEnd(k),
         call[k].op \in {"start", "restart"}
  PROVE  call[k].at = Listing(call[k].op) + 4
<1>1. Steps(k) = Script[call[k].op]
  BY DEF CallInv, CallOK, Creating, Steps
<1>2. PICK n : n = Len(Steps(k))
  OBVIOUS
<1>3. call[k].at = n + 1
  BY <1>2, Position
<1>4. n = Listing(call[k].op) + 3
  <2>1. CASE call[k].op = "start"
    <3>1. Len(Script["start"]) = 4
      BY SweepScripts
    <3>2. n = 4
      BY <1>1, <1>2, <2>1, <3>1, Zenon
    <3>. QED BY <2>1, <3>2 DEF Listing
  <2>2. CASE call[k].op = "restart"
    <3>1. Len(Script["restart"]) = 5
      BY SweepScripts
    <3>2. n = 5
      BY <1>1, <1>2, <2>2, <3>1, Zenon
    <3>. QED BY <2>2, <3>2 DEF Listing
  <2>. QED BY <2>1, <2>2
<1>5. Listing(call[k].op) \in Nat
  BY DEF Listing
<1>. QED BY <1>3, <1>4, <1>5

\* The steps of a start and of a restart, counted from the listing.
LEMMA UpSteps ==
  ASSUME TypeOK, CallInv, NEW k \in Calls, Active(k), ~AtEnd(k),
         call[k].op \in {"start", "restart"}
  PROVE  LET n == call[k].at
             s == Step(k)
             f == Listing(call[k].op)
         IN  \/ n = 1 /\ s = List(Containers)
             \/ n = 2 /\ f = 2 /\ s = Each("halt", Containers)
             \/ n = f + 1 /\ s = Each("start", {Gateway})
             \/ n = f + 2 /\ s = Each("health", {Gateway})
             \/ n = f + 3 /\ s = Each("start", Containers \ {Gateway})
<1>1. PICK s, n, op : s = Step(k) /\ n = call[k].at /\ op = call[k].op
  OBVIOUS
<1>2. CASE op = "start"
  <2>1. \/ n = 1 /\ s = List(Containers)
        \/ n = 2 /\ s = Each("start", {Gateway})
        \/ n = 3 /\ s = Each("health", {Gateway})
        \/ n = 4 /\ s = Each("start", Containers \ {Gateway})
    BY <1>1, <1>2, WhichStep
  <2>. QED BY <1>1, <1>2, <2>1 DEF Listing
<1>3. CASE op = "restart"
  <2>1. \/ n = 1 /\ s = List(Containers)
        \/ n = 2 /\ s = Each("halt", Containers)
        \/ n = 3 /\ s = Each("start", {Gateway})
        \/ n = 4 /\ s = Each("health", {Gateway})
        \/ n = 5 /\ s = Each("start", Containers \ {Gateway})
    BY <1>1, <1>3, WhichStep
  <2>. QED BY <1>1, <1>3, <2>1 DEF Listing
<1>. QED BY <1>1, <1>2, <1>3

\* A request of a start or restart keeps what it has brought up.
LEMMA PerformUp ==
  ASSUME BaseInv, NEW k \in Calls, NEW r \in Resources, UpInv(k), PerformFacts(k, r)
  PROVE  UpInv(k)'
<1>0. TypeOK /\ CallInv /\ Active(k) /\ ~AtEnd(k)
  BY DEF BaseInv, PerformFacts
<1>. SUFFICES ASSUME call[k].op \in {"start", "restart"}
              PROVE  UpInv(k)'
  BY DEF UpInv, PerformFacts, SameScript
<1>1. PICK n, s, f, L, d, p :
        /\ n = call[k].at /\ s = Step(k) /\ f = Listing(call[k].op)
        /\ L = call[k].listed /\ d = call[k].done /\ p = Pending(k)
  OBVIOUS
<1>2. \/ n = 1 /\ s = List(Containers)
      \/ n = 2 /\ f = 2 /\ s = Each("halt", Containers)
      \/ n = f + 1 /\ s = Each("start", {Gateway})
      \/ n = f + 2 /\ s = Each("health", {Gateway})
      \/ n = f + 3 /\ s = Each("start", Containers \ {Gateway})
  BY <1>0, <1>1, UpSteps
<1>3. PICK m, e : m = call'[k].at /\ e = call'[k].done
  OBVIOUS
<1>4. /\ s.do # "list" /\ r \in s.on /\ Engine(s.do, r) /\ (fallen' <=> fallen)
      /\ r \in p /\ p = (IF s.listed THEN s.on \cap L ELSE s.on) \ d
      /\ \/ p = {r} /\ m = n + 1 /\ e = {}
         \/ m = n /\ e = d \cup {r}
      /\ call'[k].listed = L /\ call'[k].op = call[k].op
  BY <1>1, <1>3 DEF PerformFacts, Pending, SameScript
<1>5. /\ n >= 2 => \A c \in Containers : Exists(c) => c \in L
      /\ ~fallen =>
           /\ n >= f + 2 /\ Exists(Gateway) => Running(Gateway)
           /\ n = f + 3 => \A c \in Longlived : c \in d /\ Exists(c) => Running(c)
  BY <1>1 DEF UpInv
<1>6. f \in {1, 2} /\ s.listed /\ s.do \in {"halt", "start", "health"} /\ n >= 2 /\ n \in Nat
  <2>1. f \in {1, 2}
    BY <1>1 DEF Listing
  <2>. QED BY <1>2, <1>4, <2>1, SweepFields
<1>7. \A c \in Containers : Exists(c)' <=> Exists(c)
  BY <1>4, <1>6, KnownResources DEF Engine
<1>8. s.do # "halt" => \A c \in Longlived : Running(c) => Running(c)'
  BY <1>4, <1>6, KnownResources DEF Engine, Sweeping
<1>9. s.do = "start" /\ Exists(r) => Running(r)'
  BY <1>4 DEF Engine
<1>10. n >= f + 1 => s.do # "halt"
  BY <1>2, <1>6, SweepFields
<1>11. ASSUME ~fallen, m >= f + 2, Exists(Gateway)'
       PROVE  Running(Gateway)'
  <2>1. Exists(Gateway) /\ Gateway \in Longlived
    BY <1>7, <1>11, KnownResources
  <2>2. CASE n >= f + 2
    BY <1>5, <1>6, <1>8, <1>10, <1>11, <2>1, <2>2
  <2>3. CASE n = f + 1
    <3>1. s.do = "start" /\ s.on = {Gateway}
      BY <1>2, <1>4, <1>6, <2>3, SweepFields
    <3>. QED BY <1>4, <1>9, <2>1, <3>1
  <2>. QED BY <1>4, <1>6, <1>11, <2>2, <2>3
<1>12. ASSUME ~fallen, m = f + 3, NEW c \in Longlived, c \in e, Exists(c)'
       PROVE  Running(c)'
  <2>1. n = f + 3 /\ e = d \cup {r} /\ s.do = "start" /\ Exists(c)
    <3>1. n = f + 3 /\ e = d \cup {r}
      BY <1>4, <1>6, <1>12
    <3>2. s.do = "start"
      BY <1>2, <1>6, <3>1, SweepFields
    <3>. QED BY <1>7, <1>12, <3>1, <3>2, KnownResources
  <2>. QED BY <1>5, <1>8, <1>9, <1>12, <2>1
<1>13. ASSUME ~fallen, m = f + 4, NEW c \in Longlived, Exists(c)'
       PROVE  Running(c)'
  <2>1. n = f + 3 /\ p = {r}
    BY <1>2, <1>4, <1>6, <1>13
  <2>2. s.do = "start" /\ s.on = Containers \ {Gateway}
    BY <1>2, <1>6, <2>1, SweepFields
  <2>3. Exists(c) /\ c \in L /\ c \in Containers
    BY <1>5, <1>6, <1>7, <1>13, KnownResources
  <2>4. CASE c = Gateway
    BY <1>5, <1>6, <1>8, <1>13, <2>1, <2>2, <2>3, <2>4
  <2>5. CASE c # Gateway
    <3>1. c = r \/ c \in d
      BY <1>4, <1>6, <2>1, <2>2, <2>3, <2>5
    <3>. QED BY <1>5, <1>8, <1>9, <1>13, <2>1, <2>2, <2>3, <3>1
  <2>. QED BY <2>4, <2>5
<1>14. /\ call'[k].at = m /\ call'[k].listed = L /\ call'[k].done = e
       /\ Listing(call'[k].op) = f /\ (~fallen' => ~fallen)
       /\ \A c \in Containers : Exists(c)' => c \in L
  BY <1>1, <1>3, <1>4, <1>5, <1>6, <1>7
<1>. QED BY <1>11, <1>12, <1>13, <1>14 DEF UpInv

\* A listing and a skipped step keep it too.
LEMMA PassUp ==
  ASSUME BaseInv, NEW k \in Calls, UpInv(k), ListStep(k) \/ Skip(k)
  PROVE  UpInv(k)'
<1>0. TypeOK /\ CallInv /\ EngineInv
  BY DEF BaseInv
<1>1. Active(k) /\ ~AtEnd(k) /\ res' = res /\ fallen' = fallen
  BY DEF ListStep, Skip, engineVars, ghostVars
<1>2. /\ Passes(k)
      /\ Step(k).do = "list" => call'[k].listed = {r \in Step(k).on : Listed(r)}
      /\ Step(k).do # "list" => Pending(k) = {} /\ call'[k].listed = call[k].listed
  <2>1. CASE ListStep(k)
    BY <1>0, <2>1, ListMoves DEF ListStep, Passes
  <2>2. CASE Skip(k)
    BY <1>0, <2>2, SkipMoves DEF Skip, Passes
  <2>. QED BY <2>1, <2>2
<1>3. call[k].done = {}
  BY <1>0, <1>2, PassCall
<1>. SUFFICES ASSUME call[k].op \in {"start", "restart"}
              PROVE  UpInv(k)'
  BY <1>2 DEF UpInv, Passes, SameScript
<1>4. PICK n, s, f, L :
        /\ n = call[k].at /\ s = Step(k) /\ f = Listing(call[k].op)
        /\ L = call[k].listed
  OBVIOUS
<1>5. \/ n = 1 /\ s = List(Containers)
      \/ n = 2 /\ f = 2 /\ s = Each("halt", Containers)
      \/ n = f + 1 /\ s = Each("start", {Gateway})
      \/ n = f + 2 /\ s = Each("health", {Gateway})
      \/ n = f + 3 /\ s = Each("start", Containers \ {Gateway})
  BY <1>0, <1>1, <1>4, UpSteps
<1>6. f \in {1, 2} /\ n \in Nat
  BY <1>4, <1>5 DEF Listing
<1>7. /\ n >= 2 => \A c \in Containers : Exists(c) => c \in L
      /\ ~fallen /\ n >= f + 2 /\ Exists(Gateway) => Running(Gateway)
  BY <1>4 DEF UpInv
<1>8. PICK M : M = call'[k].listed
  OBVIOUS
<1>9. /\ call'[k].at = n + 1 /\ call'[k].done = {} /\ Listing(call'[k].op) = f
      /\ s.do = "list" => M = {r \in s.on : Listed(r)}
      /\ s.do # "list" => M = L /\ (s.listed => s.on \cap L = {})
  BY <1>2, <1>3, <1>4, <1>8 DEF Passes, SameScript, Pending
<1>10. \A x : (Exists(x)' <=> Exists(x)) /\ (Running(x)' <=> Running(x))
  BY <1>1 DEF Exists, Running
<1>11. \A c \in Containers : Exists(c) => c \in M
  <2>1. CASE n = 1
    <3>1. \A c \in Containers : Exists(c) => Listed(c)
      BY <1>0 DEF EngineInv, Exists, Listed
    <3>2. s = List(Containers)
      BY <1>5, <1>6, <2>1
    <3>. QED BY <1>9, <3>1, <3>2, SweepFields
  <2>2. CASE n # 1
    <3>1. n >= 2 /\ s.do # "list"
      BY <1>5, <1>6, <2>2, SweepFields
    <3>. QED BY <1>7, <1>9, <3>1
  <2>. QED BY <2>1, <2>2
<1>12. ASSUME ~fallen, n + 1 >= f + 2, Exists(Gateway)
       PROVE  Running(Gateway)
  <2>1. n # f + 1
    <3>. SUFFICES ASSUME n = f + 1 PROVE FALSE
      OBVIOUS
    <3>1. s = Each("start", {Gateway})
      BY <1>5, <1>6
    <3>2. Gateway \notin L
      BY <1>9, <3>1, SweepFields
    <3>. QED BY <1>6, <1>7, <1>12, <3>2, KnownResources
  <2>. QED BY <1>6, <1>7, <1>12, <2>1
<1>13. ASSUME ~fallen, n + 1 = f + 4, NEW c \in Longlived, Exists(c)
       PROVE  Running(c)
  <2>1. s = Each("start", Containers \ {Gateway}) /\ n >= 2
    BY <1>5, <1>6, <1>13
  <2>2. c \in L
    BY <1>7, <1>13, <2>1, KnownResources
  <2>3. c = Gateway
    BY <1>9, <2>1, <2>2, SweepFields, KnownResources
  <2>. QED BY <1>6, <1>12, <1>13, <2>3
<1>. QED BY <1>1, <1>8, <1>9, <1>10, <1>11, <1>12, <1>13 DEF UpInv

\* Every step keeps what a lone start or restart has brought up.
LEMMA UpStep ==
  ASSUME BaseInv, UpsInv, [Next]_vars
  PROVE  UpsInv'
<1>. SUFFICES ASSUME NEW k \in Calls, call'[k].alone
              PROVE  UpInv(k)'
  BY DEF UpsInv
<1>1. CASE \E op \in Ops : Accept(k, op)
  <2>1. call'[k].at = 1
    BY <1>1, AcceptMoves DEF BaseInv
  <2>2. Listing(call'[k].op) \in {1, 2}
    BY DEF Listing
  <2>. QED BY <2>1, <2>2 DEF UpInv
<1>2. ASSUME call[k].alone
      PROVE  UpInv(k)
  BY <1>2 DEF UpsInv
<1>3. CASE call[k].alone /\ \E r \in Resources : Does(k, r)
  BY <1>2, <1>3, Performed, PerformUp
<1>4. CASE call[k].alone /\ (ListStep(k) \/ Skip(k))
  BY <1>2, <1>4, PassUp
<1>5. CASE call[k].alone /\ \E a \in Apps : NextApp(k, a)
  <2>1. PICK a \in Apps : NextApp(k, a)
    BY <1>5
  <2>2. call'[k].op = call[k].op /\ call[k].op \in Creating
    BY <2>1, NextAppMoves, NextAppCall DEF BaseInv
  <2>. QED BY <2>2 DEF UpInv, Creating
<1>6. CASE call[k].alone /\ Rests(k)
  <2>1. QuietStep
    BY <1>6 DEF Rests
  <2>2. /\ \A c \in Containers : Exists(c)' <=> Exists(c)
        /\ \A c \in Longlived : Running(c) /\ ~fallen' => Running(c)'
        /\ ~fallen' => ~fallen
    BY <2>1, KnownResources DEF QuietStep, Quiet
  <2>3. /\ UpInv(k) /\ call'[k].op = call[k].op /\ call'[k].at = call[k].at
        /\ call'[k].listed = call[k].listed /\ call'[k].done = call[k].done
    BY <1>2, <1>6 DEF Rests, Unmoved
  <2>. QED BY <2>2, <2>3, KnownResources DEF UpInv
<1>. QED BY <1>1, <1>3, <1>4, <1>5, <1>6, LoneStep

-----------------------------------------------------------------------------
(* Volumes.                                                                *)

\* The workspace comes first in createBase, and the containers it makes are known.
LEMMA WorkspaceFirst ==
  ASSUME NEW op \in Creating
  PROVE  LET s == Script[op]
             f == BaseFrom(op)
         IN  \A i \in f..Len(s) :
               /\ s[i] # One("create", Workspace) => Before(s, f, i, One("create", Workspace))
               /\ \A r \in Containers : s[i].do = "create" /\ r \in s[i].on => r \in {Gateway, Seed}
<1>. DEFINE b == createBase
<1>1. /\ Len(b) \in Nat /\ Len(b) > 0 /\ b[1] = One("create", Workspace)
      /\ \A i \in 1..Len(b) : \A r \in Longlived :
           b[i].do = "create" /\ r \in b[i].on => r = Gateway
      /\ \A i \in 1..Len(b) : \A r \in Oneshot : b[i].do = "create" /\ r \in b[i].on => r = Seed
  BY BaseScript DEF InOrder
<1>. DEFINE s == Script[op]
            f == BaseFrom(op)
<1>2. PICK n \in {1, 5} :
        /\ f = n + 1 /\ Len(s) = Len(b) + n
        /\ \A i \in (n + 1)..Len(s) : i - n \in 1..Len(b) /\ s[i] = b[i - n]
        /\ \A i \in 1..Len(b) : s[i + n] = b[i]
  <2>1. CASE op = "provision"
    <3>1. /\ f = 1 + 1 /\ Len(s) = Len(b) + 1
          /\ \A i \in (1 + 1)..Len(s) : i - 1 \in 1..Len(b) /\ s[i] = b[i - 1]
          /\ \A i \in 1..Len(b) : s[i + 1] = b[i]
      BY <2>1, CreateScripts DEF BaseFrom
    <3>. HIDE DEF b, s, f
    <3>. QED BY <3>1, Zenon
  <2>2. CASE op = "rebuild"
    <3>1. /\ f = 5 + 1 /\ Len(s) = Len(b) + 5
          /\ \A i \in (5 + 1)..Len(s) : i - 5 \in 1..Len(b) /\ s[i] = b[i - 5]
          /\ \A i \in 1..Len(b) : s[i + 5] = b[i]
      BY <2>2, CreateScripts DEF BaseFrom
    <3>. HIDE DEF b, s, f
    <3>. QED BY <3>1, Zenon
  <2>. QED BY <2>1, <2>2 DEF Creating
<1>. HIDE DEF b, s, f
<1>3. s[f] = One("create", Workspace) /\ f \in Nat
  <2>1. 1 \in 1..Len(b) /\ 1 + n = f
    BY <1>1, <1>2
  <2>. QED BY <1>1, <1>2, <2>1
<1>4. ASSUME NEW i \in f..Len(s)
      PROVE  /\ s[i] # One("create", Workspace) => Before(s, f, i, One("create", Workspace))
             /\ \A r \in Containers : s[i].do = "create" /\ r \in s[i].on => r \in {Gateway, Seed}
  <2>1. s[i] # One("create", Workspace) => f \in f..(i - 1)
    BY <1>3
  <2>2. i - n \in 1..Len(b) /\ s[i] = b[i - n]
    BY <1>2
  <2>. QED BY <1>1, <1>3, <2>1, <2>2 DEF Before, Containers
<1>. QED BY <1>4 DEF s, f

\* What a container mounts, and what the network needs.
LEMMA MountsOf ==
  /\ Mounts(Gateway) = {} /\ Mounts(Seed) = {Workspace}
  /\ \A a \in Apps : /\ Mounts(Sandbox(a)) = {}
                     /\ Mounts(App(a)) = {Workspace, Volume(a)}
                     /\ Mounts(Init_(a)) = {Workspace, Volume(a)}
BY DEF Mounts, Gateway, Seed, Sandbox, App, Init_

\* Only a provision or a rebuild creates, in one of its own steps, after those before it.
LEMMA CreatesAfter ==
  ASSUME BaseInv, NEW k \in Calls, NEW r \in Resources, Work(k), PerformFacts(k, r),
         Step(k).do = "create"
  PROVE  /\ call[k].op \in Creating
         /\ call[k].at \in From(k)..Len(Steps(k))
         /\ Step(k) = Steps(k)[call[k].at]
         /\ \A x : /\ x \notin Oneshot
                   /\ Before(Steps(k), From(k), call[k].at, One("create", x))
                   => Exists(x)
<1>0. TypeOK /\ CallInv
  BY DEF BaseInv
<1>1. Active(k) /\ ~AtEnd(k) /\ r \in Step(k).on /\ call[k].op \in Ops
  BY <1>0, CallFields DEF PerformFacts, Active
<1>2. call[k].op \in Creating
  <2>. DEFINE s == Step(k)
  <2>1. call[k].op \notin Creating =>
          \/ \E on : s = List(on)
          \/ \E on : s = Each("delete", on)
          \/ \E on : s = Each("stop", on)
          \/ \E on : s = Each("start", on)
          \/ \E on : s = Each("halt", on)
          \/ \E on : s = Each("health", on)
    BY <1>0, <1>1, WhichStep DEF Creating, Ops
  <2>. HIDE DEF s
  <2>2. s.do = "create"
    BY DEF s
  <2>. QED BY <2>1, <2>2, SweepFields
<1>. DEFINE n == call[k].at
            t == Steps(k)
            f == From(k)
<1>3. n \in f..Len(t) /\ Step(k) = t[n] /\ f \in Nat /\ n \in Nat /\ Len(t) \in Nat
  <2>1. InOrder(t, f) /\ f \in Nat /\ n \in 1..Len(t) /\ n \in Nat /\ Len(t) \in Nat
    BY <1>0, <1>1, <1>2, CreateOrder, Position DEF InOrder
  <2>2. \/ n \in f..Len(t) /\ Plain(Step(k))
        \/ Step(k) = Pull \/ \E on : Step(k) = List(on) \/ Step(k) = Each("delete", on)
    BY <1>0, <1>1, <1>2, WhichStep
  <2>3. n \in f..Len(t)
    BY <2>2, SweepFields
  <2>. QED BY <2>1, <2>3 DEF Step
<1>4. ASSUME NEW x, x \notin Oneshot, Before(t, f, n, One("create", x))
      PROVE  Exists(x)
  <2>1. PICK j \in f..(n - 1) : t[j] = One("create", x)
    BY <1>4 DEF Before
  <2>2. j \in f..Len(t) /\ j < n
    BY <1>3
  <2>3. Made(One("create", x))
    BY <1>2, <2>1, <2>2 DEF Work, CreateInv
  <2>. QED BY <1>4, <2>3, OneFields DEF Made
<1>. QED BY <1>2, <1>3, <1>4

\* A container is created after the volumes it mounts, and the network after the workspace.
LEMMA MountsMade ==
  ASSUME BaseInv, VolumeInv, ~overlapped, NEW k \in Calls, NEW r \in Resources, Work(k),
         PerformFacts(k, r), Step(k).do = "create", r \in Containers \cup {Network}
  PROVE  /\ r \in Containers => \A v \in Mounts(r) : Exists(v)
         /\ r = Network => Exists(Workspace)
<1>0. TypeOK /\ CallInv
  BY DEF BaseInv
<1>1. PICK n, t, f : n = call[k].at /\ t = Steps(k) /\ f = From(k)
  OBVIOUS
<1>2. /\ call[k].op \in Creating /\ n \in f..Len(t) /\ Step(k) = t[n]
      /\ \A x : x \notin Oneshot /\ Before(t, f, n, One("create", x)) => Exists(x)
  BY <1>1, CreatesAfter
<1>3. r \in t[n].on /\ t[n].do = "create"
  BY <1>2 DEF PerformFacts
<1>4. \A v \in Volumes : v \notin Oneshot /\ v \notin Containers /\ v # Network
  BY Apart DEF Containers
<1>5. CASE call[k].app = "-"
  <2>1. t = Script[call[k].op] /\ f = BaseFrom(call[k].op)
    BY <1>1, <1>5 DEF Steps, From
  <2>2. t[n] # One("create", Workspace)
    BY <1>3, <1>4, OneFields, KnownResources
  <2>3. Before(t, f, n, One("create", Workspace))
    BY <1>2, <2>1, <2>2, WorkspaceFirst
  <2>4. Exists(Workspace)
    BY <1>2, <1>4, <2>3, KnownResources
  <2>5. r \in Containers => r \in {Gateway, Seed}
    BY <1>2, <1>3, <2>1, WorkspaceFirst
  <2>. QED BY <2>4, <2>5, MountsOf
<1>6. CASE call[k].app # "-"
  <2>1. PICK a \in Apps : a = call[k].app
    BY <1>0, <1>6, CallFields
  <2>2. t = createApp[a] /\ f = 1
    BY <1>1, <1>6, <2>1 DEF Steps, From
  <2>3. Exists(Workspace)
    BY <1>2, <1>6 DEF Work, CreateInv, BaseMade, VolumeInv
  <2>4. \/ t[n].on \in {{Sandbox(a)}, {Volume(a)}}
        \/ t[n].on \subseteq {App(a), Init_(a)} /\ Before(t, f, n, One("create", Volume(a)))
    BY <1>2, <1>3, <2>2, AppScript
  <2>5. CASE t[n].on \in {{Sandbox(a)}, {Volume(a)}}
    <3>1. r = Sandbox(a)
      BY <1>3, <1>4, <2>5, KnownResources
    <3>. QED BY <2>3, <3>1, MountsOf
  <2>6. CASE t[n].on \subseteq {App(a), Init_(a)} /\ Before(t, f, n, One("create", Volume(a)))
    <3>1. Exists(Volume(a))
      BY <1>2, <1>4, <2>6, KnownResources
    <3>. QED BY <1>3, <2>3, <2>6, <3>1, MountsOf
  <2>. QED BY <2>4, <2>5, <2>6
<1>. QED BY <1>5, <1>6

\* A volume is deleted only after the network.
LEMMA VolumesLast ==
  ASSUME BaseInv, VolumeInv, NEW k \in Calls, NEW r \in Volumes, Work(k), PerformFacts(k, r),
         Step(k).do = "delete"
  PROVE  ~Exists(Network)
<1>0. TypeOK /\ CallInv /\ r \in Resources
  BY KnownResources DEF BaseInv
<1>1. PICK s, n, op : s = Step(k) /\ n = call[k].at /\ op = call[k].op
  OBVIOUS
<1>2. Active(k) /\ ~AtEnd(k) /\ r \in s.on /\ op \in Ops /\ s.do = "delete"
  BY <1>0, <1>1, CallFields DEF PerformFacts, Active
<1>3. r \notin Containers /\ r \notin Longlived /\ r # Network /\ r \notin Oneshot
  BY Apart DEF Containers
<1>4. op = "delete" /\ n = 6
  <2>1. CASE op = "delete"
    <3>1. \/ s = List(Containers) \/ s = Each("delete", Containers)
          \/ s = List({Network}) \/ s = Each("delete", {Network})
          \/ s = List(Volumes) \/ n = 6
      BY <1>0, <1>1, <1>2, <2>1, WhichStep
    <3>. QED BY <1>2, <1>3, <2>1, <3>1, SweepFields
  <2>2. CASE op \in {"stop", "start", "restart"}
    <3>1. \/ \E on : s = List(on)
          \/ \E on : s = Each("stop", on)
          \/ \E on : s = Each("start", on)
          \/ \E on : s = Each("halt", on)
          \/ \E on : s = Each("health", on)
      BY <1>0, <1>1, <1>2, <2>2, WhichStep
    <3>. QED BY <1>2, <3>1, SweepFields
  <2>3. CASE op \in Creating
    <3>1. \/ Plain(s) \/ s = Pull \/ s = List(Longlived) \/ s = Each("delete", Longlived)
          \/ s = List({Network}) \/ s = Each("delete", {Network})
      BY <1>0, <1>1, <1>2, <2>3, WhichStep
    <3>2. ~Plain(s)
      BY <1>2, <1>3 DEF Plain
    <3>. QED BY <1>2, <1>3, <3>1, <3>2, SweepFields
  <2>. QED BY <1>2, <2>1, <2>2, <2>3 DEF Ops, Creating
<1>5. ~Listed(Network)
  BY <1>1, <1>4 DEF Work, DeleteInv
<1>. QED BY <1>5 DEF VolumeInv, Listed, Exists

\* A request of a lone call makes no stray volume.
LEMMA PerformVolumes ==
  ASSUME BaseInv, VolumeInv, NEW k \in Calls, NEW r \in Resources, Does(k, r),
         overlapped \/ Work(k)
  PROVE  VolumeInv'
<1>1. PerformFacts(k, r) /\ (overlapped' <=> overlapped)
  BY Performed DEF Does, ghostVars
<1>2. PICK do, ask : do = Step(k).do /\ ask = Asked(k)
  OBVIOUS
<1>3. Engine(do, r) /\ Request(ask, r) /\ (ask = "create" => do = "create")
  BY <1>1, <1>2 DEF PerformFacts, Does
<1>4. \A x \in Resources :
        res'[x] = "stray" =>
          \/ res[x] = "stray"
          \/ do = "create" /\ r \in Containers /\ x \in Mounts(r) /\ ~Exists(x)
  <2>1. \A x \in Resources :
          res'[x] = CASE x = r -> Becomes(ask, r)
                      [] ask = "create" /\ r \in Containers /\ x \in Mounts(r)
                           /\ ~Exists(r) /\ ~Exists(x) -> "stray"
                      [] OTHER -> res[x]
    BY <1>3 DEF Request
  <2>2. Becomes(ask, r) = "stray" => res[r] = "stray"
    BY DEF Becomes
  <2>3. ASSUME NEW x \in Resources, res'[x] = "stray"
        PROVE  \/ res[x] = "stray"
               \/ do = "create" /\ r \in Containers /\ x \in Mounts(r) /\ ~Exists(x)
    <3>1. CASE x = r
      <4>0. r \in Containers => r \notin Mounts(r)
        BY Needs, Apart DEF Containers
      <4>1. res'[r] = Becomes(ask, r)
        BY <2>1, <4>0
      <4>. QED BY <2>2, <2>3, <3>1, <4>1
    <3>2. CASE x # r
      BY <1>3, <2>1, <2>3, <3>2
    <3>. QED BY <3>1, <3>2
  <2>. QED BY <2>3
<1>5. res'[Network] # "stray"
  <2>1. \A c \in Containers : Network \notin Mounts(c)
    BY Needs, Apart
  <2>. QED BY <1>4, <2>1, KnownResources DEF VolumeInv
<1>. SUFFICES ASSUME ~overlapped, Work(k)
              PROVE  /\ \A v \in Volumes : res'[v] # "stray"
                     /\ Exists(Network)' => Exists(Workspace)'
  BY <1>1, <1>5 DEF VolumeInv
<1>6. do = "create" /\ r \in Containers => \A v \in Mounts(r) : Exists(v)
  BY <1>1, <1>2, MountsMade
<1>7. \A v \in Volumes : res'[v] # "stray"
  BY <1>4, <1>6, KnownResources DEF VolumeInv
<1>8. ASSUME Exists(Network)'
      PROVE  Exists(Workspace)'
  <2>1. Exists(Workspace)
    <3>1. Exists(Network) \/ (r = Network /\ do = "create")
      BY <1>3, <1>8 DEF Engine
    <3>2. CASE r = Network /\ do = "create"
      BY <1>1, <1>2, <3>2, MountsMade
    <3>. QED BY <3>1, <3>2 DEF VolumeInv
  <2>2. ~(r = Workspace /\ do = "delete")
    <3>. SUFFICES ASSUME r = Workspace, do = "delete" PROVE FALSE
      OBVIOUS
    <3>1. r \in Volumes
      BY KnownResources
    <3>2. ~Exists(Network)
      BY <1>1, <1>2, <3>1, VolumesLast
    <3>. QED BY <1>3, <1>8, <3>1, <3>2, Apart DEF Engine
  <2>. QED BY <1>3, <2>1, <2>2, KnownResources DEF Engine
<1>. QED BY <1>7, <1>8

\* Every step keeps the volumes labelled, unless calls overlap.
LEMMA VolumeStep ==
  ASSUME BaseInv, WorkInv, VolumeInv, [Next]_vars
  PROVE  VolumeInv'
<1>1. ASSUME ~overlapped' => ~overlapped,
             \A x \in Resources : res'[x] = "stray" => res[x] = "stray",
             \A x \in Resources : Exists(x)' <=> Exists(x)
      PROVE  VolumeInv'
  BY <1>1, KnownResources DEF VolumeInv
<1>2. ASSUME NEW k \in Calls, NEW r \in Resources, Does(k, r)
      PROVE  VolumeInv'
  <2>1. overlapped \/ Work(k)
    BY <1>2 DEF Does, BaseInv, LoneInv, WorkInv
  <2>. QED BY <1>2, <2>1, PerformVolumes
<1>3. ASSUME NEW k \in Calls, NEW op \in Ops, Accept(k, op)
      PROVE  VolumeInv'
  <2>1. res' = res
    BY <1>3 DEF Accept, engineVars
  <2>2. ~overlapped' => ~overlapped
    BY <1>3, Zenon DEF Accept
  <2>. QED BY <1>1, <2>1, <2>2 DEF Exists
<1>4. ASSUME res' = res, overlapped' = overlapped
      PROVE  VolumeInv'
  BY <1>1, <1>4 DEF Exists
<1>5. ASSUME NEW k \in Calls, ListStep(k) \/ Skip(k) \/ Answer(k) \/ GiveUp(k)
      PROVE  VolumeInv'
  BY <1>4, <1>5 DEF ListStep, Skip, Answer, GiveUp, engineVars, ghostVars
<1>6. ASSUME NEW k \in Calls, NEW a \in Apps, NextApp(k, a)
      PROVE  VolumeInv'
  BY <1>4, <1>6 DEF NextApp, engineVars, ghostVars
<1>7. CASE Containment
  <2>1. \A x \in Resources : Exists(x)' <=> Exists(x)
    BY <1>7, QuietEffect DEF BaseInv, QuietStep, Quiet
  <2>2. overlapped' = overlapped /\ \A x \in Resources : res'[x] = "stray" => res[x] = "stray"
    BY <1>7 DEF Containment, JobEnds, Falls, UserEdits, ghostVars, BaseInv, TypeOK
  <2>. QED BY <1>1, <2>1, <2>2
<1>8. CASE UNCHANGED vars
  BY <1>4, <1>8 DEF vars
<1>9. ASSUME NEW k \in Calls, NEW r \in Resources, Perform(k, r)
      PROVE  VolumeInv'
  <2>1. CASE Notes(k, r)
    BY <1>4, <2>1 DEF Notes, engineVars, ghostVars
  <2>. QED BY <1>2, <1>9, <2>1, Performs DEF BaseInv
<1>. QED BY <1>3, <1>5, <1>6, <1>7, <1>8, <1>9 DEF Next, Serve

-----------------------------------------------------------------------------
(* Together: what the answer of a call tells the controller.               *)

FullInv == WorkerInv /\ UpsInv /\ VolumeInv

\* The invariant holds at first.
LEMMA FullInit == Init => FullInv
<1>. SUFFICES ASSUME Init PROVE FullInv
  OBVIOUS
<1>1. \A r \in Resources : res[r] = "absent"
  BY DEF Init
<1>2. VolumeInv
  BY <1>1, KnownResources DEF VolumeInv, Exists
<1>3. \A k \in Calls : call[k].alone = FALSE
  BY DEF Init, NoCall
<1>. QED BY <1>2, <1>3, WorkerInit DEF FullInv, UpsInv

\* Every step keeps the invariant.
LEMMA FullStep == FullInv /\ [Next]_vars => FullInv'
BY WorkerStep, UpStep, VolumeStep DEF FullInv, WorkerInv

\* For any apps and any number of calls, the invariant holds in every run of the worker.
LEMMA FullInvariant == Spec => []FullInv
BY FullInit, FullStep, PTL DEF Spec

\* When a start or a restart that ran alone is about to be answered, every container of
\* the workstation that exists runs, unless a container fell.
StartServes ==
  \A k \in Calls :
    Ended(k) /\ call[k].op \in {"start", "restart"} /\ call[k].alone /\ ~fallen
      => \A c \in Longlived : Exists(c) => Running(c)

\* A start or a restart that runs alone succeeds only when it has brought up everything
\* that exists, whatever earlier calls left behind: a container that it did not list, or
\* that was there and could not be started, cannot hide behind a success.
THEOREM StartEndsRunning == Spec => []StartServes
<1>1. FullInv => StartServes
  <2>. SUFFICES ASSUME FullInv, NEW k \in Calls, Ended(k), call[k].op \in {"start", "restart"},
                       call[k].alone, ~fallen, NEW c \in Longlived, Exists(c)
                PROVE  Running(c)
    BY DEF StartServes
  <2>1. TypeOK /\ CallInv /\ UpInv(k) /\ Active(k) /\ AtEnd(k)
    BY DEF FullInv, WorkerInv, BaseInv, UpsInv, Ended
  <2>2. call[k].at = Listing(call[k].op) + 4
    BY <2>1, UpEnd
  <2>. QED BY <2>1, <2>2 DEF UpInv
<1>. QED BY <1>1, FullInvariant, PTL

\* Every volume of the workstation carries the manager's labels.
VolumesAreLabelled == ~overlapped => \A v \in Volumes : res[v] # "stray"

\* Unless calls overlap, no container is ever created before the volumes it mounts: Docker
\* makes none by itself, which a delete would not find and a later provision would refuse.
THEOREM VolumesStayLabelled == Spec => []VolumesAreLabelled
<1>1. FullInv => VolumesAreLabelled
  BY DEF FullInv, VolumeInv, VolumesAreLabelled
<1>. QED BY <1>1, FullInvariant, PTL

\* What the end of a call shows, when calls never overlapped.
LEMMA Answered ==
  ASSUME FullInv, ~overlapped, NEW k \in Calls, Ended(k)
  PROVE  /\ \A o \in Calls : o # k => ~Active(o)
         /\ call[k].op = "delete" => \A r \in Resources : ~Exists(r)
         /\ (/\ call[k].op \in {"provision", "rebuild", "start", "restart"}
             /\ \A c \in Longlived : Exists(c)) => Serving \/ fallen
<1>1. WorkerInv /\ BaseInv /\ WorkInv /\ LayerInv /\ VolumeInv /\ UpsInv
  BY DEF FullInv, WorkerInv
<1>2. Active(k) /\ AtEnd(k) /\ call[k].todo = {} /\ call[k].alone
  BY <1>1 DEF Ended, BaseInv, LoneInv
<1>3. \A o \in Calls : o # k => ~Active(o)
  BY <1>1, <1>2 DEF BaseInv, LoneInv
<1>4. ASSUME call[k].op = "delete", NEW r \in Resources
      PROVE  ~Exists(r)
  <2>1. ~Listed(r)
    BY <1>1, <1>2, <1>4, DeleteEmpties DEF LoneDeleteCleans
  <2>2. res[r] # "stray"
    BY <1>1 DEF BaseInv, EngineInv, VolumeInv, Resources
  <2>. QED BY <2>1, <2>2 DEF Listed, Exists
<1>5. ASSUME call[k].op \in Creating, ~fallen
      PROVE  Serving
  BY <1>1, <1>2, <1>5, EndMade DEF Serving, BaseMade, AppMade, WorkInv
<1>6. ASSUME call[k].op \in {"start", "restart"}, ~fallen, \A c \in Longlived : Exists(c)
      PROVE  Serving
  <2>1. UpInv(k) /\ call[k].at = Listing(call[k].op) + 4
    BY <1>1, <1>2, <1>6, UpEnd DEF UpsInv, BaseInv
  <2>2. \A c \in Longlived : Running(c)
    BY <1>6, <2>1 DEF UpInv
  <2>3. Exists(Gateway) /\ Exists(Network)
    BY <1>1, <1>6, KnownResources DEF LayerInv
  <2>. QED BY <2>2, <2>3, KnownResources DEF Serving
<1>. QED BY <1>3, <1>4, <1>5, <1>6 DEF Creating

\* What happens in the containers takes no resource away, and nothing that serves
\* stops serving unless a container falls.
LEMMA JobsOnly ==
  ASSUME FullInv, Containment
  PROVE  /\ \A r \in Resources : Exists(r)' <=> Exists(r)
         /\ Serving => Serving' \/ fallen'
<1>1. Quiet
  BY QuietEffect DEF FullInv, WorkerInv, BaseInv, QuietStep
<1>2. /\ \A r \in Resources : Exists(r)' <=> Exists(r)
      /\ \A x \in Longlived : Running(x) => Running(x)' \/ fallen'
  BY <1>1 DEF Quiet
<1>. QED BY <1>2, KnownResources DEF Serving
=============================================================================
