--------------------------- MODULE RegistryProofs ---------------------------
(***************************************************************************)
(* Proofs about Registry and the store it is composed with, for any apps,  *)
(* packages, catalogues, templates, handlers and numbers of crashes.       *)
(***************************************************************************)
EXTENDS Registry, AppStoreProofs

AppMaps == [Apps -> Packages \cup {None}]
TemplateMaps == [Templates -> SUBSET Apps]
DraftRecords == [id : Templates \cup {None, Torn}, apps : SUBSET Apps]

\* The types, with those of the handlers' locals.
WorkOK == work \in [Handlers -> [draft : DraftRecords, apps : AppMaps, presets : TemplateMaps]]

\* Whatever a template or a registry names is present.
PresentInv ==
  /\ \A t \in Templates, a \in Apps : a \in files[t] => Present(a)
  /\ \A a \in Apps : registry[a] # None => Present(a)
  /\ \A h \in Handlers, a \in Apps :
       /\ req[h].pc \in Saving /\ a \in work[h].draft.apps => Present(a)
       /\ req[h].pc = "install" /\ work[h].apps[a] # None => Present(a)

\* A handler writes the draft of a template.
DraftInv == \A h \in Handlers : req[h].pc \in Saving => work[h].draft.id \in Templates

\* The presets and the apps of one rescan belong together.
ResolveInv ==
  /\ PresetsResolve
  /\ \A h \in Handlers, t \in Templates :
       req[h].pc = "install" => work[h].presets[t] \subseteq Available(work[h].apps)

\* The templates on disk without the drafts of requests in progress.
Saved(h, n) == IF n = life /\ req[h].pc \in Saving THEN NoDraft ELSE drafts[h][n]

SavedTemplates ==
  [t \in Templates |->
     {a \in Apps : \/ a \in files[t]
                   \/ \E h \in Handlers, n \in Lives : Saved(h, n).id = t /\ a \in Saved(h, n).apps}]

\* A rescan nobody overlapped has read what is on disk.
LoneInv ==
  \A h \in lone :
    /\ req[h].pc \in Scanning
    /\ \A g \in Handlers \ {h} : req[g].pc = "idle"
    /\ req[h].pc = "install" => work[h].apps = ScanApps /\ work[h].presets = SavedTemplates

\* The memory is that of such a rescan, unless something is on its way to
\* change it.
MemoryInv ==
  up /\ ~stale /\ (\A h \in Handlers : req[h].pc \notin Scanning \cup Staging \cup Late)
    => registry = ScanApps /\ presets = SavedTemplates

\* The inductive invariant.
IInv ==
  /\ StoreInv /\ RegistryTypeOK /\ WorkOK /\ PresentInv /\ DraftInv /\ ResolveInv /\ LoneInv /\ MemoryInv

-----------------------------------------------------------------------------
(* What a scan finds.                                                      *)

\* The one directory that carries the id of an app, if it is complete.
ScanFinds ==
  \A a \in Apps : \/ \E s \in Slots : /\ Claimants(a) = {s} /\ Valid(Claims(a)[s])
                                      /\ ScanApps[a] = Claims(a)[s]
                  \/ /\ \A s \in Slots : ~(Claimants(a) = {s} /\ Valid(Claims(a)[s]))
                     /\ ScanApps[a] = None

LEMMA ScanIs == ScanFinds
<1> SUFFICES ASSUME NEW a \in Apps
             PROVE  \/ \E s \in Slots : /\ Claimants(a) = {s} /\ Valid(Claims(a)[s])
                                        /\ ScanApps[a] = Claims(a)[s]
                    \/ /\ \A s \in Slots : ~(Claimants(a) = {s} /\ Valid(Claims(a)[s]))
                       /\ ScanApps[a] = None
  BY DEF ScanFinds
<1>1. CASE \E s \in Slots : Claimants(a) = {s} /\ Valid(Claims(a)[s])
  <2>1. PICK s \in Slots : Claimants(a) = {s} /\ Valid(Claims(a)[s])
    BY <1>1
  <2>2. (CHOOSE r \in Slots : r \in Claimants(a)) = s
    BY <2>1
  <2> QED BY <1>1, <2>1, <2>2 DEF ScanApps
<1>2. CASE \A s \in Slots : ~(Claimants(a) = {s} /\ Valid(Claims(a)[s]))
  BY <1>2 DEF ScanApps
<1> QED BY <1>1, <1>2

LEMMA ScanNextIs == ScanFinds'
BY ScanIs, PTL

LEMMA ScanDomain == ScanApps = [a \in Apps |-> ScanApps[a]]
BY DEF ScanApps

LEMMA ScanNextDomain == ScanApps' = [a \in Apps |-> ScanApps'[a]]
BY DEF ScanApps

\* The directories of an app.
LEMMA ClaimsIs ==
  \A a \in Apps : /\ Claims(a)[<<"active", 0>>] = active[a] /\ Claims(a)[<<"prev", 0>>] = prev[a]
                  /\ \A n \in Lives : Claims(a)[<<"temp", n>>] = temp[a][n]
                  /\ \A s \in Slots : \/ s = <<"active", 0>> \/ s = <<"prev", 0>>
                                      \/ \E n \in Lives : s = <<"temp", n>>
                  /\ <<"active", 0>> \in Slots /\ <<"prev", 0>> \in Slots
                  /\ \A n \in Lives : <<"temp", n>> \in Slots
BY DEF Claims, Slots

\* A scan finds packages, of apps that are present.
LEMMA ScanPresent ==
  ASSUME StoreInv
  PROVE  ScanApps \in AppMaps /\ \A a \in Apps : ScanApps[a] # None => Present(a)
<1>1. ScanApps \in AppMaps
  BY ScanIs, ScanDomain DEF ScanFinds, AppMaps, Valid
<1>2. ASSUME NEW a \in Apps, ScanApps[a] # None PROVE Present(a)
  <2>1. PICK s \in Slots : Claimants(a) = {s} /\ Valid(Claims(a)[s])
    BY <1>2, ScanIs DEF ScanFinds
  <2>2. Claims(a)[s] # None
    BY <2>1, StoreFacts DEF Valid
  <2>3. CASE s = <<"active", 0>>
    BY <2>2, <2>3, ClaimsIs DEF Present
  <2>4. CASE s = <<"prev", 0>>
    <3>1. CASE a \in cut
      BY <3>1 DEF Present
    <3>2. CASE a \notin cut
      <4>1. PICK h \in Handlers : req[h].app = a /\ req[h].pc \in {"in", "clean"}
        BY <2>2, <2>4, <3>2, ClaimsIs, StoreLeftover
      <4>2. Operation(req[h].pc, req[h].app, req[h].pkg)
        BY <4>1 DEF StoreInv, Holding, Staging, Late
      <4>3. req[h].pc = "clean" => active[a] # None
        BY <4>1, <4>2, StoreFacts DEF Operation, OpPackage, OpActive, Working, Late
      <4> QED BY <4>1, <4>3 DEF Present, Staging
    <3> QED BY <3>1, <3>2
  <2>5. CASE \E n \in Lives : s = <<"temp", n>>
    BY <2>2, <2>5, ClaimsIs, StoreLeftover DEF Present
  <2> QED BY <2>3, <2>4, <2>5, ClaimsIs
<1> QED BY <1>1, <1>2

\* An installed app with no directory beside it is found.
LEMMA ScanInstalled ==
  ASSUME TypeOK, NEW a \in Apps, active[a] # None, prev[a] = None, \A n \in Lives : temp[a][n] = None
  PROVE  ScanApps[a] # None
<1>1. Claimants(a) = {<<"active", 0>>}
  BY ClaimsIs DEF Claimants
<1>2. Claims(a)[<<"active", 0>>] = active[a] /\ Valid(active[a])
  BY ClaimsIs DEF TypeOK, Valid
<1> QED BY <1>1, <1>2, ScanIs, ClaimsIs, StoreFacts DEF ScanFinds, Valid

\* No directory carries the id of a core app.
LEMMA NothingOverridden == StoreInv => NoOverride
<1> SUFFICES ASSUME StoreInv, NEW a \in Core, NEW s \in Slots PROVE Claims(a)[s] = None
  BY DEF NoOverride, Claimants
<1> QED BY ClaimsIs, StoreFacts DEF StoreInv, CoreInv

\* A scan depends on the directories of the installed apps only.
LEMMA ScanSame == UNCHANGED <<active, prev, temp>> => ScanApps' = ScanApps
<1> SUFFICES ASSUME UNCHANGED <<active, prev, temp>> PROVE ScanApps' = ScanApps
  OBVIOUS
<1>1. \A a \in Apps : Claims(a)' = Claims(a)
  BY DEF Claims
<1>2. \A a \in Apps : Claimants(a)' = Claimants(a)
  BY <1>1 DEF Claimants
<1>3. ASSUME NEW a \in Apps PROVE ScanApps'[a] = ScanApps[a]
  BY <1>1, <1>2, ScanIs, ScanNextIs DEF ScanFinds, Valid
<1> QED BY <1>3, ScanDomain, ScanNextDomain

\* The templates a scan finds, those in drafts included.
LEMMA TemplatesAre ==
  ASSUME RegistryTypeOK, NEW t \in Templates
  PROVE  ScanTemplates[t] = {a \in Apps : \/ a \in files[t]
                                          \/ \E h \in Handlers, n \in Lives :
                                               drafts[h][n].id = t /\ a \in drafts[h][n].apps}
<1>1. \A h \in Handlers, n \in Lives : drafts[h][n].apps \in SUBSET Apps
  BY DEF RegistryTypeOK
<1>2. files[t] \in SUBSET Apps
  BY DEF RegistryTypeOK
<1>3. ASSUME NEW a PROVE a \in ScanTemplates[t] <=>
        a \in files[t] \/ \E f \in DraftFiles : Draft(f[1], f[2]).id = t /\ a \in Draft(f[1], f[2]).apps
  BY DEF ScanTemplates
<1>4. ASSUME NEW a PROVE
        (\E f \in DraftFiles : Draft(f[1], f[2]).id = t /\ a \in Draft(f[1], f[2]).apps) <=>
        (\E h \in Handlers, n \in Lives : drafts[h][n].id = t /\ a \in drafts[h][n].apps)
  <2>1. ASSUME NEW f \in DraftFiles, Draft(f[1], f[2]).id = t, a \in Draft(f[1], f[2]).apps
        PROVE  \E h \in Handlers, n \in Lives : drafts[h][n].id = t /\ a \in drafts[h][n].apps
    BY <2>1 DEF DraftFiles, Draft
  <2>2. ASSUME NEW h \in Handlers, NEW n \in Lives, drafts[h][n].id = t, a \in drafts[h][n].apps
        PROVE  \E f \in DraftFiles : Draft(f[1], f[2]).id = t /\ a \in Draft(f[1], f[2]).apps
    <3>1. drafts[h][n] # NoDraft
      BY <2>2 DEF NoDraft
    <3>2. <<h, n>> \in DraftFiles
      BY <3>1 DEF DraftFiles, Draft
    <3> QED BY <2>2, <3>2 DEF Draft
  <2> QED BY <2>1, <2>2
<1> QED BY <1>1, <1>2, <1>3, <1>4

\* While no template is written, the drafts on disk are those left behind.
LEMMA TemplatesSaved ==
  ASSUME RegistryTypeOK, \A h \in Handlers : req[h].pc \notin Saving
  PROVE  ScanTemplates = SavedTemplates
<1>1. \A h \in Handlers, n \in Lives : Saved(h, n) = drafts[h][n]
  BY DEF Saved
<1>2. ASSUME NEW t \in Templates PROVE ScanTemplates[t] = SavedTemplates[t]
  BY <1>1, TemplatesAre DEF SavedTemplates
<1> QED BY <1>2 DEF ScanTemplates, SavedTemplates

\* Templates that pass the checks of a scan name apps of that scan.
LEMMA TemplatesResolve ==
  ASSUME RegistryTypeOK, NEW apps, TemplatesValid(apps), NEW t \in Templates
  PROVE  ScanTemplates[t] \subseteq Available(apps)
BY DEF ScanTemplates, TemplatesValid

LEMMA TemplatesTyped == RegistryTypeOK => ScanTemplates \in TemplateMaps /\ SavedTemplates \in TemplateMaps
<1> SUFFICES ASSUME RegistryTypeOK PROVE ScanTemplates \in TemplateMaps /\ SavedTemplates \in TemplateMaps
  OBVIOUS
<1>1. \A t \in Templates : ScanTemplates[t] \in SUBSET Apps
  BY TemplatesAre
<1> QED BY <1>1 DEF ScanTemplates, SavedTemplates, TemplateMaps

LEMMA SavedSame ==
  ASSUME UNCHANGED files, \A h \in Handlers, n \in Lives : Saved(h, n)' = Saved(h, n)
  PROVE  SavedTemplates' = SavedTemplates
BY DEF SavedTemplates

\* Nobody starts or ends to write a template.
LEMMA SavedKept ==
  ASSUME UNCHANGED <<files, drafts, life>>, \A h \in Handlers : req'[h].pc \in Saving <=> req[h].pc \in Saving
  PROVE  SavedTemplates' = SavedTemplates
<1>1. \A h \in Handlers, n \in Lives : Saved(h, n)' = Saved(h, n)
  BY DEF Saved
<1> QED BY <1>1, SavedSame

-----------------------------------------------------------------------------
(* Each step preserves the invariant.                                      *)

\* A step of one handler that does not install a scan leaves the others idle
\* or makes them not alone.
LEMMA LoneStep ==
  ASSUME IInv, Alone, NEW h \in Handlers, \A g \in Handlers : g # h => req'[g] = req[g],
         ~(req[h].pc = "idle" /\ req'[h].pc = "idle"), req'[h].pc # "install"
  PROVE  LoneInv'
<1> SUFFICES ASSUME NEW g \in lone'
             PROVE  /\ req'[g].pc \in Scanning
                    /\ \A k \in Handlers \ {g} : req'[k].pc = "idle"
                    /\ req'[g].pc # "install"
  BY DEF LoneInv
<1>1. /\ g \in Handlers /\ req'[g].pc \in Scanning
      /\ \A k \in Handlers \ {g} : req'[k].pc = "idle"
      /\ req[g].pc \in Scanning => g \in lone
  BY DEF Alone
<1>2. ASSUME req'[g].pc = "install" PROVE FALSE
  <2>1. g # h /\ req'[g] = req[g]
    BY <1>1, <1>2
  <2>2. g \in lone /\ req'[h].pc = "idle"
    BY <1>1, <1>2, <2>1 DEF Scanning
  <2>3. req[h].pc = "idle"
    BY <2>1, <2>2 DEF IInv, LoneInv
  <2> QED BY <2>2, <2>3
<1> QED BY <1>1, <1>2

\* Presence does not depend on the handlers outside the store.
LEMMA PresentSame ==
  ASSUME UNCHANGED <<active, cut>>,
         \A g \in Handlers : req[g].pc \in Staging => req'[g] = req[g], NEW a \in Apps, Present(a)
  PROVE  Present(a)'
BY DEF Present

USE StoreFacts, BodiesAssumption, ListingFacts
    DEF registryVars, catalogVars, diskVars, workerVars, processVars, ghostVars, NoReq, Idle, Goto, Begin,
        Return, SetDraft, NoWork, Scanning, Saving, Staging, Late, Holding, PCs

\* A rescan begins.
LEMMA RescanStep ==
  ASSUME IInv, NEW h \in Handlers, Rescan(h), Alone
  PROVE  IInv'
<1> USE DEF Rescan
<1>1. /\ req' \in [Handlers -> Reqs]
      /\ req'[h].pc = "list" /\ \A g \in Handlers : g # h => req'[g] = req[g]
  BY DEF IInv, StoreInv, TypeOK, Reqs
<1>2. StoreInv'
  BY <1>1, OutsideStep DEF IInv, StoreInv, TypeOK, Mutex, Reqs
<1>3. RegistryTypeOK' /\ WorkOK'
  BY <1>2 DEF IInv, StoreInv, RegistryTypeOK, WorkOK, Alone, TemplateMaps, AppMaps, DraftRecords, NoDraft,
     HalfDraft, NoApps, NoPresets
<1>4. PresentInv'
  <2>1. \A a \in Apps : Present(a) => Present(a)'
    BY <1>1, PresentSame
  <2> QED BY <1>1, <2>1 DEF IInv, RegistryTypeOK, WorkOK, PresentInv
<1>5. DraftInv'
  BY <1>1 DEF IInv, StoreInv, TypeOK, RegistryTypeOK, WorkOK, DraftInv
<1>6. ResolveInv'
  BY <1>1 DEF IInv, WorkOK, ResolveInv, PresetsResolve, Available
<1>7. LoneInv'
  BY <1>1, LoneStep
<1>8. MemoryInv'
  BY <1>1 DEF MemoryInv
<1> QED BY <1>2, <1>3, <1>4, <1>5, <1>6, <1>7, <1>8 DEF IInv

\* What a scan reads is present, belongs together, and is on disk if nobody overlaps it.
LEMMA ScanStep ==
  ASSUME IInv, NEW h \in Handlers, Scan(h), Alone
  PROVE  IInv'
<1> USE DEF Scan
<1>1. /\ req' \in [Handlers -> Reqs]
      /\ req'[h].pc = "install" /\ \A g \in Handlers : g # h => req'[g] = req[g]
  BY GotoFacts DEF IInv
<1>2. StoreInv'
  BY <1>1, OutsideStep DEF IInv, StoreInv, TypeOK, Mutex, Reqs
<1>3. RegistryTypeOK' /\ WorkOK'
  <2>1. ScanApps \in AppMaps /\ ScanTemplates \in TemplateMaps
    BY ScanPresent, TemplatesTyped DEF IInv
  <2>2. WorkOK'
    BY <2>1 DEF IInv, WorkOK
  <2>3. work'[h].apps = ScanApps /\ work'[h].presets = ScanTemplates
    BY DEF IInv, WorkOK
  <2> QED BY <1>2, <2>1, <2>2, <2>3 DEF IInv, StoreInv, RegistryTypeOK, WorkOK, Alone, TemplateMaps, AppMaps
<1>4. PresentInv'
  <2>1. \A a \in Apps : Present(a) => Present(a)'
    BY <1>1, PresentSame
  <2>2. \A a \in Apps : ScanApps[a] # None => Present(a)
    BY ScanPresent DEF IInv
  <2>3. work'[h].apps = ScanApps /\ \A g \in Handlers : g # h => work'[g] = work[g]
    BY DEF IInv, WorkOK
  <2>4. ASSUME NEW g \in Handlers, NEW a \in Apps
        PROVE  /\ req'[g].pc \in Saving /\ a \in work'[g].draft.apps => Present(a)
               /\ req'[g].pc = "install" /\ work'[g].apps[a] # None => Present(a)
    <3>1. CASE g = h
      BY <1>1, <2>2, <2>3, <3>1
    <3>2. CASE g # h
      BY <1>1, <2>3, <3>2 DEF IInv, PresentInv
    <3> QED BY <3>1, <3>2
  <2>5. /\ \A t \in Templates, a \in Apps : a \in files[t] => Present(a)
        /\ \A a \in Apps : registry[a] # None => Present(a)
    BY DEF IInv, PresentInv
  <2> QED BY <2>1, <2>4, <2>5 DEF PresentInv
<1>5. DraftInv'
  BY <1>1 DEF IInv, StoreInv, TypeOK, RegistryTypeOK, WorkOK, DraftInv
<1>6. ResolveInv'
  <2>1. \A t \in Templates : ScanTemplates[t] \subseteq Available(ScanApps)
    BY TemplatesResolve DEF IInv
  <2>2. /\ work'[h].apps = ScanApps /\ work'[h].presets = ScanTemplates
        /\ \A g \in Handlers : g # h => work'[g] = work[g]
    BY DEF IInv, WorkOK
  <2>3. PresetsResolve'
    BY DEF IInv, ResolveInv, PresetsResolve, Available
  <2> QED BY <1>1, <2>1, <2>2, <2>3 DEF IInv, ResolveInv
<1>7. LoneInv'
  <2> SUFFICES ASSUME NEW g \in lone'
               PROVE  /\ req'[g].pc \in Scanning
                      /\ \A k \in Handlers \ {g} : req'[k].pc = "idle"
                      /\ work'[g].apps = ScanApps' /\ work'[g].presets = SavedTemplates'
    BY DEF LoneInv
  <2>1. /\ g \in Handlers /\ req'[g].pc \in Scanning
        /\ \A k \in Handlers \ {g} : req'[k].pc = "idle"
    BY DEF Alone
  <2>2. g = h
    BY <1>1, <2>1
  <2>3. \A k \in Handlers : req[k].pc \notin Saving
    BY <1>1, <2>1, <2>2
  <2>4. ScanTemplates = SavedTemplates
    BY <2>3, TemplatesSaved DEF IInv
  <2>5. ScanApps' = ScanApps /\ SavedTemplates' = SavedTemplates
    BY <1>1, ScanSame, SavedKept
  <2> QED BY <2>1, <2>2, <2>4, <2>5 DEF IInv, WorkOK
<1>8. MemoryInv'
  BY <1>1 DEF MemoryInv
<1> QED BY <1>2, <1>3, <1>4, <1>5, <1>6, <1>7, <1>8 DEF IInv

\* What a lone rescan installs is still on disk.
LEMMA InstallRegistryStep ==
  ASSUME IInv, NEW h \in Handlers, InstallRegistry(h), Alone
  PROVE  IInv'
<1> USE DEF InstallRegistry
<1>1. /\ req' \in [Handlers -> Reqs]
      /\ req'[h].pc = "idle" /\ \A g \in Handlers : g # h => req'[g] = req[g]
  BY DEF IInv, StoreInv, TypeOK, Reqs
<1>2. StoreInv'
  BY <1>1, OutsideStep DEF IInv, StoreInv, TypeOK, Mutex, Reqs
<1>3. RegistryTypeOK' /\ WorkOK'
  BY <1>2 DEF IInv, StoreInv, RegistryTypeOK, WorkOK, Alone, TemplateMaps, AppMaps, DraftRecords, NoDraft,
     HalfDraft, NoApps, NoPresets
<1>4. PresentInv'
  <2>1. \A a \in Apps : Present(a) => Present(a)'
    BY <1>1, PresentSame
  <2> QED BY <1>1, <2>1 DEF IInv, RegistryTypeOK, WorkOK, PresentInv
<1>5. DraftInv'
  BY <1>1 DEF IInv, StoreInv, TypeOK, RegistryTypeOK, WorkOK, DraftInv
<1>6. ResolveInv'
  BY <1>1 DEF IInv, WorkOK, ResolveInv, PresetsResolve, Available
<1>7. LoneInv'
  BY <1>1, LoneStep
<1>8. MemoryInv'
  <2>1. ScanApps' = ScanApps /\ SavedTemplates' = SavedTemplates
    BY <1>1, ScanSame, SavedKept
  <2>2. ~stale' => work[h].apps = ScanApps /\ work[h].presets = SavedTemplates
    BY DEF IInv, LoneInv
  <2> QED BY <2>1, <2>2 DEF MemoryInv
<1> QED BY <1>2, <1>3, <1>4, <1>5, <1>6, <1>7, <1>8 DEF IInv

\* The memory stays.
LEMMA RescanFailsStep ==
  ASSUME IInv, NEW h \in Handlers, RescanFails(h), Alone
  PROVE  IInv'
<1> USE DEF RescanFails
<1>1. /\ req' \in [Handlers -> Reqs]
      /\ req'[h].pc = "idle" /\ \A g \in Handlers : g # h => req'[g] = req[g]
  BY DEF IInv, StoreInv, TypeOK, Reqs
<1>2. StoreInv'
  BY <1>1, OutsideStep DEF IInv, StoreInv, TypeOK, Mutex, Reqs
<1>3. RegistryTypeOK' /\ WorkOK'
  BY <1>2 DEF IInv, StoreInv, RegistryTypeOK, WorkOK, Alone, TemplateMaps, AppMaps, DraftRecords, NoDraft,
     HalfDraft, NoApps, NoPresets
<1>4. PresentInv'
  <2>1. \A a \in Apps : Present(a) => Present(a)'
    BY <1>1, PresentSame
  <2> QED BY <1>1, <2>1 DEF IInv, RegistryTypeOK, WorkOK, PresentInv
<1>5. DraftInv'
  BY <1>1 DEF IInv, StoreInv, TypeOK, RegistryTypeOK, WorkOK, DraftInv
<1>6. ResolveInv'
  BY <1>1 DEF IInv, WorkOK, ResolveInv, PresetsResolve, Available
<1>7. LoneInv'
  BY <1>1, LoneStep
<1>8. MemoryInv'
  BY <1>1 DEF MemoryInv
<1> QED BY <1>2, <1>3, <1>4, <1>5, <1>6, <1>7, <1>8 DEF IInv

\* The apps in memory are present.
LEMMA SaveTemplateStep ==
  ASSUME IInv, NEW h \in Handlers, NEW t \in Templates, NEW body \in Bodies, SaveTemplate(h, t, body), Alone
  PROVE  IInv'
<1> USE DEF SaveTemplate
<1>1. /\ req' \in [Handlers -> Reqs]
      /\ req'[h].pc = "write" /\ \A g \in Handlers : g # h => req'[g] = req[g]
  BY DEF IInv, StoreInv, TypeOK, Reqs
<1>2. StoreInv'
  BY <1>1, OutsideStep DEF IInv, StoreInv, TypeOK, Mutex, Reqs
<1>3. RegistryTypeOK' /\ WorkOK'
  <2>1. HalfDraft \in DraftRecords /\ [id |-> t, apps |-> body] \in DraftRecords
    BY DEF HalfDraft, DraftRecords
  <2>2. WorkOK'
    BY <2>1 DEF IInv, WorkOK
  <2>3. drafts \in [Handlers -> [Lives -> DraftRecords]] /\ life \in Lives
    BY DEF IInv, StoreInv, TypeOK, RegistryTypeOK, DraftRecords
  <2>4. drafts' \in [Handlers -> [Lives -> DraftRecords]]
    BY <2>1, <2>3
  <2> QED BY <1>2, <2>2, <2>4 DEF IInv, StoreInv, RegistryTypeOK, WorkOK, Alone, TemplateMaps, AppMaps,
         DraftRecords
<1>4. PresentInv'
  <2>1. \A a \in Apps : Present(a) => Present(a)'
    BY <1>1, PresentSame
  <2>2. \A a \in body : Present(a)
    BY DEF IInv, PresentInv, Available, Present
  <2>3. work'[h].draft.apps = body /\ \A g \in Handlers : g # h => work'[g] = work[g]
    BY DEF IInv, WorkOK
  <2> QED BY <1>1, <2>1, <2>2, <2>3 DEF IInv, PresentInv
<1>5. DraftInv'
  BY <1>1 DEF IInv, StoreInv, TypeOK, RegistryTypeOK, WorkOK, DraftInv
<1>6. ResolveInv'
  BY <1>1 DEF IInv, WorkOK, ResolveInv, PresetsResolve, Available
<1>7. LoneInv'
  BY <1>1, LoneStep
<1>8. MemoryInv'
  <2>1. \A g \in Handlers, n \in Lives : Saved(g, n)' = Saved(g, n)
    <3>1. drafts \in [Handlers -> [Lives -> DraftRecords]] /\ life \in Lives
      BY DEF IInv, StoreInv, TypeOK, RegistryTypeOK, DraftRecords
    <3>2. \A g \in Handlers, n \in Lives : g # h \/ n # life => drafts'[g][n] = drafts[g][n]
      BY <3>1
    <3> QED BY <1>1, <3>1, <3>2 DEF Saved, Draft
  <2>2. ScanApps' = ScanApps /\ SavedTemplates' = SavedTemplates
    BY <2>1, ScanSame, SavedSame
  <2> QED BY <1>1, <2>2 DEF IInv, MemoryInv
<1> QED BY <1>2, <1>3, <1>4, <1>5, <1>6, <1>7, <1>8 DEF IInv

\* The draft names present apps.
LEMMA WriteDraftStep ==
  ASSUME IInv, NEW h \in Handlers, WriteDraft(h), Alone
  PROVE  IInv'
<1> USE DEF WriteDraft
<1>1. /\ req' \in [Handlers -> Reqs]
      /\ req'[h].pc = "rename" /\ \A g \in Handlers : g # h => req'[g] = req[g]
  BY GotoFacts DEF IInv
<1>2. StoreInv'
  BY <1>1, OutsideStep DEF IInv, StoreInv, TypeOK, Mutex, Reqs
<1>3. RegistryTypeOK' /\ WorkOK'
  BY <1>2 DEF IInv, StoreInv, RegistryTypeOK, WorkOK, Alone, TemplateMaps, AppMaps, DraftRecords, NoDraft,
     HalfDraft, NoApps, NoPresets
<1>4. PresentInv'
  <2>1. \A a \in Apps : Present(a) => Present(a)'
    BY <1>1, PresentSame
  <2> QED BY <1>1, <2>1 DEF IInv, RegistryTypeOK, WorkOK, PresentInv
<1>5. DraftInv'
  BY <1>1 DEF IInv, StoreInv, TypeOK, RegistryTypeOK, WorkOK, DraftInv
<1>6. ResolveInv'
  BY <1>1 DEF IInv, WorkOK, ResolveInv, PresetsResolve, Available
<1>7. LoneInv'
  BY <1>1, LoneStep
<1>8. MemoryInv'
  <2>1. \A g \in Handlers, n \in Lives : Saved(g, n)' = Saved(g, n)
    <3>1. drafts \in [Handlers -> [Lives -> DraftRecords]] /\ life \in Lives
      BY DEF IInv, StoreInv, TypeOK, RegistryTypeOK, DraftRecords
    <3>2. \A g \in Handlers, n \in Lives : g # h \/ n # life => drafts'[g][n] = drafts[g][n]
      BY <3>1
    <3> QED BY <1>1, <3>1, <3>2 DEF Saved, Draft
  <2>2. ScanApps' = ScanApps /\ SavedTemplates' = SavedTemplates
    BY <2>1, ScanSame, SavedSame
  <2> QED BY <1>1, <2>2 DEF IInv, MemoryInv
<1> QED BY <1>2, <1>3, <1>4, <1>5, <1>6, <1>7, <1>8 DEF IInv

\* So does the file.
LEMMA RenameDraftStep ==
  ASSUME IInv, NEW h \in Handlers, RenameDraft(h), Alone
  PROVE  IInv'
<1> USE DEF RenameDraft
<1>1. /\ req' \in [Handlers -> Reqs]
      /\ req'[h].pc = "list" /\ \A g \in Handlers : g # h => req'[g] = req[g]
  BY GotoFacts DEF IInv
<1>2. StoreInv'
  BY <1>1, OutsideStep DEF IInv, StoreInv, TypeOK, Mutex, Reqs
<1>3. RegistryTypeOK' /\ WorkOK'
  BY <1>2 DEF IInv, StoreInv, RegistryTypeOK, WorkOK, Alone, TemplateMaps, AppMaps, DraftRecords, NoDraft,
     HalfDraft, NoApps, NoPresets
<1>4. PresentInv'
  <2>1. \A a \in Apps : Present(a) => Present(a)'
    BY <1>1, PresentSame
  <2> QED BY <1>1, <2>1 DEF IInv, RegistryTypeOK, WorkOK, PresentInv
<1>5. DraftInv'
  BY <1>1 DEF IInv, StoreInv, TypeOK, RegistryTypeOK, WorkOK, DraftInv
<1>6. ResolveInv'
  BY <1>1 DEF IInv, WorkOK, ResolveInv, PresetsResolve, Available
<1>7. LoneInv'
  BY <1>1, LoneStep
<1>8. MemoryInv'
  BY <1>1 DEF MemoryInv
<1> QED BY <1>2, <1>3, <1>4, <1>5, <1>6, <1>7, <1>8 DEF IInv

\* The draft goes with the request, or the memory counts as stale.
LEMMA SaveFailsStep ==
  ASSUME IInv, NEW h \in Handlers, SaveFails(h), Alone
  PROVE  IInv'
<1> USE DEF SaveFails
<1>1. /\ req' \in [Handlers -> Reqs]
      /\ req'[h].pc = "idle" /\ \A g \in Handlers : g # h => req'[g] = req[g]
  BY DEF IInv, StoreInv, TypeOK, Reqs
<1>2. StoreInv'
  BY <1>1, OutsideStep DEF IInv, StoreInv, TypeOK, Mutex, Reqs
<1>3. RegistryTypeOK' /\ WorkOK'
  <2>1. drafts' \in [Handlers -> [Lives -> DraftRecords]]
    <3>1. drafts \in [Handlers -> [Lives -> DraftRecords]] /\ life \in Lives /\ NoDraft \in DraftRecords
      BY DEF IInv, StoreInv, TypeOK, RegistryTypeOK, DraftRecords, NoDraft
    <3> QED BY <3>1
  <2>2. stale' \in BOOLEAN
    BY DEF IInv, RegistryTypeOK
  <2>3. WorkOK'
    BY DEF IInv, WorkOK, TemplateMaps, AppMaps, DraftRecords, NoDraft, NoApps, NoPresets
  <2> QED BY <1>2, <2>1, <2>2, <2>3 DEF IInv, StoreInv, RegistryTypeOK, WorkOK, Alone, TemplateMaps, AppMaps,
         DraftRecords
<1>4. PresentInv'
  <2>1. \A a \in Apps : Present(a) => Present(a)'
    BY <1>1, PresentSame
  <2> QED BY <1>1, <2>1 DEF IInv, RegistryTypeOK, WorkOK, PresentInv
<1>5. DraftInv'
  BY <1>1 DEF IInv, StoreInv, TypeOK, RegistryTypeOK, WorkOK, DraftInv
<1>6. ResolveInv'
  BY <1>1 DEF IInv, WorkOK, ResolveInv, PresetsResolve, Available
<1>7. LoneInv'
  BY <1>1, LoneStep
<1>8. MemoryInv'
  <2> SUFFICES ASSUME ~stale' PROVE MemoryInv'
    BY DEF MemoryInv
  <2>1. SetDraft(h, NoDraft) /\ UNCHANGED stale
    OBVIOUS
  <2>2. \A g \in Handlers, n \in Lives : Saved(g, n)' = Saved(g, n)
    <3>1. drafts \in [Handlers -> [Lives -> DraftRecords]] /\ life \in Lives
      BY DEF IInv, StoreInv, TypeOK, RegistryTypeOK, DraftRecords
    <3>2. /\ \A g \in Handlers, n \in Lives : g # h \/ n # life => drafts'[g][n] = drafts[g][n]
          /\ drafts'[h][life] = NoDraft
      BY <2>1, <3>1
    <3> QED BY <1>1, <3>1, <3>2 DEF Saved
  <2>3. ScanApps' = ScanApps /\ SavedTemplates' = SavedTemplates
    BY <2>2, ScanSame, SavedSame
  <2> QED BY <1>1, <2>1, <2>3 DEF IInv, MemoryInv
<1> QED BY <1>2, <1>3, <1>4, <1>5, <1>6, <1>7, <1>8 DEF IInv

\* A rescan follows.
LEMMA DeleteTemplateStep ==
  ASSUME IInv, NEW h \in Handlers, NEW t \in Templates, DeleteTemplate(h, t), Alone
  PROVE  IInv'
<1> USE DEF DeleteTemplate
<1>1. /\ req' \in [Handlers -> Reqs]
      /\ req'[h].pc = "list" /\ \A g \in Handlers : g # h => req'[g] = req[g]
  BY DEF IInv, StoreInv, TypeOK, Reqs
<1>2. StoreInv'
  BY <1>1, OutsideStep DEF IInv, StoreInv, TypeOK, Mutex, Reqs
<1>3. RegistryTypeOK' /\ WorkOK'
  BY <1>2 DEF IInv, StoreInv, RegistryTypeOK, WorkOK, Alone, TemplateMaps, AppMaps, DraftRecords, NoDraft,
     HalfDraft, NoApps, NoPresets
<1>4. PresentInv'
  <2>1. \A a \in Apps : Present(a) => Present(a)'
    BY <1>1, PresentSame
  <2> QED BY <1>1, <2>1 DEF IInv, RegistryTypeOK, WorkOK, PresentInv
<1>5. DraftInv'
  BY <1>1 DEF IInv, StoreInv, TypeOK, RegistryTypeOK, WorkOK, DraftInv
<1>6. ResolveInv'
  BY <1>1 DEF IInv, WorkOK, ResolveInv, PresetsResolve, Available
<1>7. LoneInv'
  BY <1>1, LoneStep
<1>8. MemoryInv'
  BY <1>1 DEF MemoryInv
<1> QED BY <1>2, <1>3, <1>4, <1>5, <1>6, <1>7, <1>8 DEF IInv

\* A step of the store.
LEMMA StoreOfStep ==
  ASSUME IInv, NEW h \in Handlers, Store(h), Alone PROVE IInv'
<1>1. StoreStep(h) \/ ActivateFails(h)
  BY DEF Store
<1>2. /\ \A g \in Handlers : g # h => req'[g] = req[g]
      /\ up' = up /\ life' = life
      /\ req[h].pc \in Holding \/ (req[h].pc = "idle" /\ up)
      /\ req'[h].pc \in Holding \/ (req[h].pc \in Holding /\ req'[h].pc \in {"idle", "list"})
  BY <1>1, StoreStepMutex DEF IInv
<1>3. UNCHANGED registryVars
  BY DEF Store
<1>4. StoreInv'
  BY <1>1, StoreStepInv DEF IInv
<1>5. RegistryTypeOK' /\ WorkOK'
  <2>1. stale' \in BOOLEAN
    BY DEF Store, IInv, RegistryTypeOK
  <2> QED BY <1>3, <1>4, <2>1 DEF IInv, StoreInv, RegistryTypeOK, WorkOK, Alone
<1>6. PresentInv'
  <2>1. \A a \in Apps : Present(a) => Present(a)'
    BY <1>1, StoreStepPresent DEF IInv
  <2> QED BY <1>2, <1>3, <2>1 DEF IInv, PresentInv
<1>7. DraftInv' /\ ResolveInv'
  BY <1>2, <1>3 DEF IInv, DraftInv, ResolveInv, PresetsResolve, Available
<1>8. LoneInv'
  BY <1>2, LoneStep
<1>9. MemoryInv'
  <2> SUFFICES ASSUME up', ~stale', \A g \in Handlers : req'[g].pc \notin Scanning \cup Staging \cup Late
               PROVE  registry' = ScanApps' /\ presets' = SavedTemplates'
    BY DEF MemoryInv
  <2>1. StoreStep(h) /\ UNCHANGED stale
    BY DEF Store
  <2>2. UNCHANGED <<active, prev, temp>> /\ req[h].pc \notin Staging \cup Late
    BY <2>1, StoreStepDisk DEF IInv
  <2>3. ScanApps' = ScanApps /\ SavedTemplates' = SavedTemplates
    <3>1. \A g \in Handlers : req'[g].pc \in Saving <=> req[g].pc \in Saving
      BY <1>2
    <3> QED BY <1>2, <1>3, <2>2, <3>1, ScanSame, SavedKept
  <2>4. \A g \in Handlers : req[g].pc \notin Scanning \cup Staging \cup Late
    BY <1>2, <2>2
  <2> QED BY <1>2, <1>3, <2>1, <2>3, <2>4 DEF IInv, MemoryInv
<1> QED BY <1>4, <1>5, <1>6, <1>7, <1>8, <1>9 DEF IInv

\* Nobody outside the process touches what it reads.
LEMMA SameStep ==
  ASSUME IInv, StoreInv', UNCHANGED <<active, prev, temp, cut, req, processVars, registryVars, stale>>,
         lone' \subseteq lone
  PROVE  IInv'
<1>1. RegistryTypeOK' /\ WorkOK'
  BY DEF IInv, StoreInv, RegistryTypeOK, WorkOK
<1>2. PresentInv'
  BY DEF IInv, PresentInv, Present
<1>3. DraftInv' /\ ResolveInv'
  BY DEF IInv, DraftInv, ResolveInv, PresetsResolve, Available
<1>4. ScanApps' = ScanApps /\ SavedTemplates' = SavedTemplates
  BY ScanSame, SavedKept
<1>5. LoneInv' /\ MemoryInv'
  BY <1>4 DEF IInv, LoneInv, MemoryInv
<1> QED BY <1>1, <1>2, <1>3, <1>5 DEF IInv

\* The approvals are the worker's.
LEMMA WorkerStep == ASSUME IInv, Worker, Alone PROVE IInv'
<1>1. StoreInv'
  BY WorkerRestartStep DEF IInv, Worker
<1>2. lone' \subseteq lone
  BY DEF Worker, WorkerRestart, Alone
<1> QED BY <1>1, <1>2, SameStep DEF Worker, WorkerRestart

LEMMA IInvStutter == IInv /\ UNCHANGED vars => IInv'
<1> SUFFICES ASSUME IInv, UNCHANGED vars PROVE IInv'
  OBVIOUS
<1>1. StoreInv'
  BY OutsideStep DEF IInv, StoreInv, TypeOK, Mutex, Reqs, vars, storeVars
<1> QED BY <1>1, SameStep DEF vars, storeVars

\* The first rescan reads the disk when nothing is in progress.
LEMMA StartStep == ASSUME IInv, Start, Alone PROVE IInv'
<1> USE DEF Start
<1>1. \A h \in Handlers : req[h].pc = "idle"
  BY DEF IInv, StoreInv, Mutex
<1>2. StoreInv'
  BY OutsideStep DEF IInv, StoreInv, TypeOK, Reqs
<1>3. ScanApps \in AppMaps /\ ScanTemplates \in TemplateMaps
  BY ScanPresent, TemplatesTyped DEF IInv
<1>4. RegistryTypeOK' /\ WorkOK'
  BY <1>2, <1>3 DEF IInv, StoreInv, RegistryTypeOK, WorkOK, Alone, AppMaps, TemplateMaps
<1>5. PresentInv'
  <2>1. \A a \in Apps : ScanApps[a] # None => Present(a)
    BY ScanPresent DEF IInv
  <2> QED BY <2>1 DEF IInv, PresentInv, Present
<1>6. ResolveInv'
  <2>1. \A t \in Templates : ScanTemplates[t] \subseteq Available(ScanApps)
    BY TemplatesResolve DEF IInv, Startable
  <2> QED BY <1>1, <2>1 DEF ResolveInv, PresetsResolve, Available
<1>7. DraftInv'
  BY DEF IInv, DraftInv
<1>8. lone' = {}
  BY <1>1 DEF Alone
<1>9. ScanTemplates = SavedTemplates
  BY <1>1, TemplatesSaved DEF IInv
<1>10. ScanApps' = ScanApps /\ SavedTemplates' = SavedTemplates
  BY ScanSame, SavedKept
<1>11. LoneInv' /\ MemoryInv'
  BY <1>8, <1>9, <1>10 DEF LoneInv, MemoryInv
<1> QED BY <1>2, <1>4, <1>5, <1>6, <1>7, <1>11 DEF IInv

\* What was in progress is gone; what the templates name was present and stays
\* so, or counts as cut short.
LEMMA CrashStep == ASSUME IInv, Crash, Alone PROVE IInv'
<1> USE DEF Crash
<1>1. StoreInv'
  BY StoreCrashStep DEF IInv
<1>2. \A h \in Handlers : req'[h].pc = "idle"
  BY DEF StoreCrash
<1>3. RegistryTypeOK' /\ WorkOK'
  BY <1>1 DEF IInv, StoreInv, RegistryTypeOK, WorkOK, Alone, TemplateMaps, AppMaps, DraftRecords, NoDraft,
     NoApps, NoPresets
<1>4. PresentInv'
  <2>1. \A a \in Apps : Present(a) => Present(a)'
    BY StoreCrashPresent DEF IInv
  <2> QED BY <1>2, <2>1 DEF IInv, PresentInv, NoApps
<1>5. DraftInv'
  BY <1>2 DEF DraftInv
<1>6. ResolveInv'
  BY <1>2 DEF ResolveInv, PresetsResolve, StoreCrash
<1>7. LoneInv' /\ MemoryInv'
  BY <1>2 DEF LoneInv, MemoryInv, Alone, StoreCrash
<1> QED BY <1>1, <1>3, <1>4, <1>5, <1>6, <1>7 DEF IInv

LEMMA IInvInit == Init => IInv
<1> SUFFICES ASSUME Init PROVE IInv
  OBVIOUS
<1> USE DEF Init, StoreInit
<1>1. StoreInv
  BY StoreInvInit
<1>2. RegistryTypeOK /\ WorkOK
  BY <1>1 DEF StoreInv, RegistryTypeOK, WorkOK, TemplateMaps, AppMaps, DraftRecords, NoDraft, NoApps, NoPresets
<1>3. PresentInv /\ DraftInv
  BY BoundAssumption DEF PresentInv, DraftInv, NoApps, NoPresets, NoDraft, Lives
<1>4. ResolveInv /\ LoneInv /\ MemoryInv
  BY DEF ResolveInv, PresetsResolve, LoneInv, MemoryInv
<1> QED BY <1>1, <1>2, <1>3, <1>4 DEF IInv

LEMMA IInvNext == IInv /\ [Next]_vars => IInv'
BY IInvStutter, StoreOfStep, RescanStep, ScanStep, InstallRegistryStep, RescanFailsStep, SaveTemplateStep,
   WriteDraftStep, RenameDraftStep, SaveFailsStep, DeleteTemplateStep, StartStep, CrashStep, WorkerStep
   DEF Next, Step

LEMMA IInvHolds == Spec => []IInv
BY IInvInit, IInvNext, PTL DEF Spec

-----------------------------------------------------------------------------
(* The theorems.                                                           *)

\* The state of the store, of the registry and of the handlers stays in its
\* types.
THEOREM RegistryTyped == Spec => []RegistryTypeOK
<1>1. IInv => RegistryTypeOK
  BY DEF IInv
<1> QED BY <1>1, IInvHolds, PTL

\* Whichever way the catalogue moves, the ETag on disk is that of the cached
\* index, unless a sync is or was cut short between the two files and none has
\* ended since.
THEOREM EtagHonest == Spec => []EtagIsHonest
<1>1. IInv => EtagIsHonest
  BY DEF IInv, StoreInv, EtagInv
<1> QED BY <1>1, IInvHolds, PTL

\* The version that Rollback activates is kept, complete and not the current
\* one, whatever failed, died or was published again.
THEOREM RollbackStaysPossible == Spec => []RollbackPossible
<1>1. IInv => RollbackPossible
  BY DEF IInv, StoreInv, StateInv
<1> QED BY <1>1, IInvHolds, PTL

\* The state file of the store names what is in the directory of installed
\* apps, except during an activation and after one that failed or died between
\* the two or whose undoing failed, until the next one is recorded.
THEOREM RecordedStaysActive == Spec => []RecordedIsActive
<1>1. IInv => RecordedIsActive
  BY StoreRecorded DEF IInv
<1> QED BY <1>1, IInvHolds, PTL

\* Every package in the directory of installed apps has an approval in the
\* worker's file, unless a failed renewal took it back.
THEOREM ActiveStaysApproved == Spec => []ActiveIsApproved
<1>1. IInv => ActiveIsApproved
  BY DEF IInv, StoreInv, ApprovedInv
<1> QED BY <1>1, IInvHolds, PTL

\* createWorkstation finds every app of a template in memory, although rescans
\* overlap activations, template handlers and each other.
THEOREM PresetsAlwaysResolve == Spec => []PresetsResolve
<1>1. IInv => PresetsResolve
  BY DEF IInv, ResolveInv
<1> QED BY <1>1, IInvHolds, PTL

\* New succeeds after every stop of the controller, unless an activation was
\* cut short or a draft was left behind.
THEOREM ControllerStartsAgain == Spec => []StartsAgain
<1>1. IInv => StartsAgain
  <2> SUFFICES ASSUME IInv, ~up, cut = {}, DraftFiles = {} PROVE Startable
    BY DEF StartsAgain
  <2>1. \A h \in Handlers : req[h].pc = "idle"
    BY DEF IInv, StoreInv, Mutex
  <2>2. \A a \in Apps : prev[a] = None /\ \A n \in Lives : temp[a][n] = None
    BY <2>1, StoreLeftover DEF IInv, Staging
  <2>3. ASSUME NEW t \in Templates, NEW a \in files[t] PROVE a \in Available(ScanApps)
    <3>1. a \in Apps
      BY DEF IInv, RegistryTypeOK
    <3>2. a \in Core \/ active[a] # None
      BY <2>1, <3>1 DEF IInv, PresentInv, Present
    <3> QED BY <2>2, <3>1, <3>2, ScanInstalled DEF IInv, StoreInv, Available
  <2> QED BY <2>3, NothingOverridden DEF IInv, Startable, TemplatesValid
<1> QED BY <1>1, IInvHolds, PTL

\* When nothing is in progress, the last rescan was neither overlapped nor
\* failed, and nothing was left behind after it, the registry and the presets in
\* memory are those on disk.
THEOREM MemoryMatchesDisk == Spec => []MemoryIsDisk
<1>1. IInv => MemoryIsDisk
  <2> SUFFICES ASSUME IInv, up, ~stale, \A h \in Handlers : req[h].pc = "idle"
               PROVE  registry = ScanApps /\ presets = ScanTemplates
    BY DEF MemoryIsDisk
  <2>1. ScanTemplates = SavedTemplates
    BY TemplatesSaved DEF IInv
  <2> QED BY <2>1 DEF IInv, MemoryInv
<1> QED BY <1>1, IInvHolds, PTL
=============================================================================
