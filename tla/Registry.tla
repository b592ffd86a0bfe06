------------------------------ MODULE Registry ------------------------------
(***************************************************************************)
(* The controller's view of its apps and templates: manifests.Scan and     *)
(* ScanDirectories, templates.Scan, SaveCustom and DeleteCustom, and the   *)
(* rescan of the server (internal/httpapi/server.go) that puts both into   *)
(* memory.                                                                 *)
(*                                                                         *)
(* A rescan takes no lock until it installs its result: when it has read   *)
(* the apps and the templates, the app store, another rescan or a template *)
(* handler may have moved on.  This module composes those handlers with    *)
(* module AppStore.                                                        *)
(***************************************************************************)
EXTENDS AppStore

CONSTANTS
  Templates,   \* ids of custom templates
  Bodies       \* the sets of apps a template may name

ASSUME BodiesAssumption == Bodies \subseteq (SUBSET Apps \ {{}})

VARIABLES
  files,      \* <templates>/<id>.yaml: the apps it names
  drafts,     \* <templates>/.custom-template-*.yaml; bound: one per handler and life
  registry,   \* Server.apps: the package of each available installed app
  presets,    \* Server.presets
  work,       \* the locals of the handlers
  lone,       \* ghost: rescans no other request has overlapped
  stale       \* ghost: the last rescan was overlapped or failed, or after it an
              \* activation failed or a draft could not be removed

registryVars == <<files, drafts, registry, presets, work>>
vars == <<storeVars, registryVars, lone, stale>>

NoPresets == [t \in Templates |-> {}]
NoApps == [a \in Apps |-> None]
NoDraft == [id |-> None, apps |-> {}]
HalfDraft == [id |-> Torn, apps |-> {}]

\* The directories that may carry the id of an app.
Slots == {<<"active", 0>>, <<"prev", 0>>} \cup ({"temp"} \X Lives)

NoWork == [draft |-> NoDraft, apps |-> NoApps, presets |-> NoPresets]

Scanning == {"list", "install"}
Saving == {"write", "rename"}

RegistryTypeOK ==
  /\ TypeOK
  /\ files \in [Templates -> SUBSET Apps]
  /\ drafts \in [Handlers -> [Lives -> [id : Templates \cup {None, Torn}, apps : SUBSET Apps]]]
  /\ registry \in [Apps -> Packages \cup {None}]
  /\ presets \in [Templates -> SUBSET Apps]
  /\ \A h \in Handlers : /\ work[h].apps \in [Apps -> Packages \cup {None}]
                         /\ work[h].presets \in [Templates -> SUBSET Apps]
  /\ lone \in SUBSET Handlers
  /\ stale \in BOOLEAN

Init ==
  /\ StoreInit
  /\ files = NoPresets
  /\ drafts = [h \in Handlers |-> [n \in Lives |-> NoDraft]]
  /\ registry = NoApps
  /\ presets = NoPresets
  /\ work = [h \in Handlers |-> NoWork]
  /\ lone = {}
  /\ stale = FALSE

-----------------------------------------------------------------------------
(* manifests.Scan: what the directories say.                               *)

\* The directories that carry the id of an app, by name; hidden ones count.
Claims(a) ==
  [s \in Slots |-> CASE s[1] = "active" -> active[a]
                     [] s[1] = "prev"   -> prev[a]
                     [] s[1] = "temp"   -> temp[a][s[2]]]

Claimants(a) == {s \in Slots : Claims(a)[s] # None}

\* An app is available when exactly one directory carries its id, with a
\* complete package; two are a "duplicate app id".
ScanApps ==
  [a \in Apps |-> IF \E s \in Slots : Claimants(a) = {s} /\ Valid(Claims(a)[s])
                    THEN Claims(a)[CHOOSE s \in Slots : s \in Claimants(a)]
                    ELSE None]

\* ScanDirectories refuses an installed app with the id of a core app.
NoOverride == \A a \in Core : Claimants(a) = {}

Available(apps) == Core \cup {a \in Apps : apps[a] # None}

(* templates.Scan: every .yaml file counts, drafts too.                    *)

Draft(h, n) == drafts[h][n]
DraftFiles == {f \in Handlers \X Lives : Draft(f[1], f[2]) # NoDraft}

\* A file that cannot be decoded, an unknown app or a second file with the
\* same id fails the scan.
TemplatesValid(apps) ==
  /\ \A t \in Templates : files[t] \subseteq Available(apps)
  /\ \A f \in DraftFiles :
       /\ Draft(f[1], f[2]).id # Torn
       /\ Draft(f[1], f[2]).apps \subseteq Available(apps)
       /\ files[Draft(f[1], f[2]).id] = {}
       /\ \A g \in DraftFiles \ {f} : Draft(g[1], g[2]).id # Draft(f[1], f[2]).id

ScanTemplates ==
  [t \in Templates |->
     files[t] \cup UNION {Draft(f[1], f[2]).apps : f \in {g \in DraftFiles : Draft(g[1], g[2]).id = t}}]

-----------------------------------------------------------------------------
(* rescan.                                                                 *)

\* The handler of POST /admin/rescan; the other handlers come here from
\* their last step.
Rescan(h) ==
  /\ Idle(h)
  /\ Begin(h, "list", None, None, 0)
  /\ UNCHANGED <<catalogVars, diskVars, workerVars, processVars, ghostVars, registryVars, stale>>

\* Mutant: templates are checked against the apps in memory.
Scan_OldApps(h) ==
  /\ req[h].pc = "list"
  /\ NoOverride
  /\ TemplatesValid(registry)
  /\ work' = [work EXCEPT ![h].apps = ScanApps, ![h].presets = ScanTemplates]
  /\ Goto(h, "install")
  /\ UNCHANGED <<catalogVars, diskVars, workerVars, processVars, ghostVars,
                 files, drafts, registry, presets, stale>>

\* ScanDirectories and templates.Scan; the templates are checked against the
\* apps of the same rescan.  The reads are one step: an app that a scan misses
\* or sees twice because directories move under it, a scan at one instant of
\* the same activation misses or sees twice as well, and a template that
\* changes between the two scans is checked or fails the rescan either way.
Scan(h) ==
  /\ req[h].pc = "list"
  /\ NoOverride
  /\ TemplatesValid(ScanApps)
  /\ work' = [work EXCEPT ![h].apps = ScanApps, ![h].presets = ScanTemplates]
  /\ Goto(h, "install")
  /\ UNCHANGED <<catalogVars, diskVars, workerVars, processVars, ghostVars,
                 files, drafts, registry, presets, stale>>

\* Both are installed together, under the write lock of the registry: not
\* while a template handler holds the read lock.
InstallRegistry(h) ==
  /\ req[h].pc = "install"
  /\ \A g \in Handlers : req[g].pc \notin Saving
  /\ registry' = work[h].apps
  /\ presets' = work[h].presets
  /\ work' = [work EXCEPT ![h] = NoWork]
  /\ stale' = (h \notin lone)
  /\ Return(h)
  /\ UNCHANGED <<catalogVars, diskVars, workerVars, processVars, ghostVars, files, drafts>>

\* A refused manifest id or template, a file that is gone when it is read:
\* the request fails and the memory stays as it is.
RescanFails(h) ==
  /\ req[h].pc = "list"
  /\ work' = [work EXCEPT ![h] = NoWork]
  /\ stale' = TRUE
  /\ Return(h)
  /\ UNCHANGED <<catalogVars, diskVars, workerVars, processVars, ghostVars,
                 files, drafts, registry, presets>>

-----------------------------------------------------------------------------
(* Custom templates.                                                       *)

SetDraft(h, d) == drafts' = [drafts EXCEPT ![h][life] = d]

\* createCustomTemplate, up to the empty draft: the read lock is taken, and
\* the template checked against the apps in memory.
SaveTemplate(h, t, body) ==
  /\ Idle(h)
  /\ Draft(h, life) = NoDraft
  /\ body \subseteq Available(registry)
  /\ work' = [work EXCEPT ![h].draft = [id |-> t, apps |-> body]]
  /\ SetDraft(h, HalfDraft)
  /\ Begin(h, "write", None, None, 0)
  /\ UNCHANGED <<catalogVars, diskVars, workerVars, processVars, ghostVars,
                 files, registry, presets, stale>>

WriteDraft(h) ==
  /\ req[h].pc = "write"
  /\ SetDraft(h, work[h].draft)
  /\ Goto(h, "rename")
  /\ UNCHANGED <<catalogVars, diskVars, workerVars, processVars, ghostVars,
                 files, registry, presets, work, stale>>

RenameDraft(h) ==
  /\ req[h].pc = "rename"
  /\ files' = [files EXCEPT ![work[h].draft.id] = work[h].draft.apps]
  /\ SetDraft(h, NoDraft)
  /\ work' = [work EXCEPT ![h] = NoWork]
  /\ Goto(h, "list")
  /\ UNCHANGED <<catalogVars, diskVars, workerVars, processVars, ghostVars,
                 registry, presets, stale>>

\* A write that fails: the deferred removal takes the draft away, if it can.
SaveFails(h) ==
  /\ req[h].pc \in Saving
  /\ \/ SetDraft(h, NoDraft) /\ UNCHANGED stale
     \/ UNCHANGED drafts /\ stale' = TRUE
  /\ work' = [work EXCEPT ![h] = NoWork]
  /\ Return(h)
  /\ UNCHANGED <<catalogVars, diskVars, workerVars, processVars, ghostVars,
                 files, registry, presets>>

\* deleteCustomTemplate.
DeleteTemplate(h, t) ==
  /\ Idle(h)
  /\ files[t] # {}
  /\ files' = [files EXCEPT ![t] = {}]
  /\ Begin(h, "list", None, None, 0)
  /\ UNCHANGED <<catalogVars, diskVars, workerVars, processVars, ghostVars,
                 drafts, registry, presets, work, stale>>

-----------------------------------------------------------------------------
(* The process.                                                            *)

\* New: the first rescan must succeed, or the controller does not start.
Startable == NoOverride /\ TemplatesValid(ScanApps)

Start ==
  /\ ~up
  /\ Startable
  /\ up' = TRUE
  /\ registry' = ScanApps
  /\ presets' = ScanTemplates
  /\ stale' = FALSE
  /\ UNCHANGED <<catalogVars, diskVars, workerVars, req, life, ghostVars, files, drafts, work>>

\* The memory is gone; drafts stay.
Crash ==
  /\ StoreCrash
  /\ registry' = NoApps
  /\ presets' = NoPresets
  /\ work' = [h \in Handlers |-> NoWork]
  /\ UNCHANGED <<files, drafts, stale>>

\* A step of the store.  An activation that fails returns without a rescan.
Store(h) ==
  /\ \/ StoreStep(h) /\ UNCHANGED stale
     \/ ActivateFails(h) /\ stale' = TRUE
  /\ UNCHANGED registryVars

Worker == WorkerRestart /\ UNCHANGED <<registryVars, stale>>

Step ==
  \/ \E h \in Handlers :
       \/ Store(h)
       \/ Rescan(h) \/ Scan(h) \/ InstallRegistry(h) \/ RescanFails(h)
       \/ \E t \in Templates, body \in Bodies : SaveTemplate(h, t, body)
       \/ WriteDraft(h) \/ RenameDraft(h) \/ SaveFails(h)
       \/ \E t \in Templates : DeleteTemplate(h, t)
  \/ Start \/ Crash \/ Worker

\* A rescan is lone while every other handler is idle from its start on.
Alone ==
  lone' = {h \in Handlers : /\ req'[h].pc \in Scanning
                            /\ \A g \in Handlers \ {h} : req'[g].pc = "idle"
                            /\ req[h].pc \in Scanning => h \in lone}

Next == Step /\ Alone

Spec == Init /\ [][Next]_vars

-----------------------------------------------------------------------------
(* Properties.                                                             *)

\* Every app that a template in memory names is available in the registry in
\* memory: createWorkstation looks them up one after the other.  Apps are
\* replaced and templates written while other rescans are on their way.
PresetsResolve == \A t \in Templates : up => presets[t] \subseteq Available(registry)

\* A controller that was stopped starts again: unless an activation was cut
\* short (it may leave two directories with one id, or none), or a draft of a
\* template was left behind, the disk is one the first rescan accepts.  A
\* template on disk keeps naming an app that is there, although it was checked
\* against the memory.
StartsAgain == ~up /\ cut = {} /\ DraftFiles = {} => Startable

\* When nothing is in progress, the memory says what the disk says, unless
\* the last rescan was overlapped by another request or failed, or an
\* activation or the removal of a draft failed after it.
MemoryIsDisk ==
  up /\ ~stale /\ (\A h \in Handlers : req[h].pc = "idle")
    => registry = ScanApps /\ presets = ScanTemplates
=============================================================================
