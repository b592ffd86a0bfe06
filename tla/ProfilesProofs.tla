--------------------------- MODULE ProfilesProofs ---------------------------
(***************************************************************************)
(* Proofs about Profiles, for any profiles, any number of requests that    *)
(* save them, any keys and any number of restarts.                         *)
(***************************************************************************)
EXTENDS Profiles, TLAPS

SavePCs == {"idle", "key", "create", "fill", "write", "writing", "row"}
CtlPCs == {"idle", "key", "create", "fill", "list", "stage", "rename", "done"}

\* The points at which a save, and vpnkeyctl, hold their key.
Sealing == {"write", "writing", "row"}
Past == {"list", "stage", "rename", "done"}

\* What the locals look like at each point.
Locals ==
  /\ \A h \in Handlers : /\ proc[h].pc \in SavePCs
                         /\ proc[h].pc # "idle" => proc[h].ref \in Refs
                         /\ proc[h].pc \in Sealing => proc[h].key \in Keys
  /\ proc[Ctl].pc \in CtlPCs
  /\ proc[Ctl].ref = None
  /\ proc[Ctl].pc # "idle" => proc[Ctl].new \in NewKeys
  /\ proc[Ctl].pc \in Past => proc[Ctl].key \in Keys
  /\ proc[Ctl].pc # "stage" => todo = {}
  /\ proc[Ctl].pc \notin {"stage", "rename"} => pending = {}

\* A reference belongs to one save, and then to one row.
RefsApart ==
  \A h \in Handlers : /\ proc[h].ref # None => proc[h].ref \notin rows
                      /\ \A g \in Handlers \ {h} : proc[h].ref # None => proc[g].ref # proc[h].ref

\* One process at a time fills the key file, and the key stays once it is used.
KeyInv ==
  /\ conf # None => env # None
  /\ \A p \in Procs : proc[p].pc = "fill" => keyFile = Torn
  /\ \A p, q \in Procs : proc[p].pc = "fill" /\ proc[q].pc = "fill" => p = q
  /\ \A h \in Handlers : proc[h].pc \in {"create", "fill"} => conf = None
  /\ \/ proc[Ctl].pc \in Past
     \/ target # None
     \/ \E h \in Handlers : proc[h].pc \in Sealing
    => CurrentKey \in Keys

\* vpnkeyctl works with the key in use, unless the controller was restarted
\* with the new key in between; then the new key is that of an earlier run.
CtlInv ==
  /\ proc[Ctl].pc # "idle" => env \in {conf, proc[Ctl].new}
  /\ proc[Ctl].pc \in {"create", "fill"} /\ conf # None => conf = proc[Ctl].new /\ target = proc[Ctl].new
  /\ proc[Ctl].pc \in Past /\ proc[Ctl].key # CurrentKey
       => CurrentKey = proc[Ctl].new /\ target = proc[Ctl].new
  /\ proc[Ctl].pc = "done" => target = proc[Ctl].new

\* What a rotation has done so far.
StageInv ==
  /\ \A r \in pending : staged[r] = proc[Ctl].new
  /\ proc[Ctl].pc \in {"stage", "rename", "done"} =>
       \A r \in Refs \ late : \/ file[r] = None
                              \/ r \in todo
                              \/ r \in pending /\ file[r] = proc[Ctl].key
                              \/ file[r] = proc[Ctl].new

\* Saves that a rotation may miss are late, the others use the key in use.
SaveInv ==
  \A h \in Handlers :
    /\ Rotating /\ proc[h].ref # None => proc[h].ref \in late
    /\ proc[h].pc \in Sealing /\ proc[h].ref \notin late => proc[h].key = CurrentKey

\* A profile with a row is whole; so is one that is about to get its row.
RowInv ==
  /\ \A r \in rows : file[r] \in Keys
  /\ \A h \in Handlers : proc[h].pc = "row" => file[proc[h].ref] \in Keys

\* A key in the environment that the controller has not read yet is that of
\* the last rotation.
EnvInv ==
  env # conf => target = env /\ \A r \in Refs \ late : file[r] \in {None, Torn, env}

\* The inductive invariant.
IInv ==
  /\ TypeOK /\ Locals /\ RefsApart /\ KeyInv /\ CtlInv /\ StageInv /\ SaveInv /\ RowInv
  /\ Repeatable /\ EnvInv

\* What the proofs use of keys and processes.
LEMMA KeyFacts ==
  /\ NewKeys \subseteq Keys /\ None \notin Keys /\ Torn \notin Keys /\ None # Torn
  /\ \A p \in Procs, n \in Lives : <<p, n>> \in Keys
  /\ Ctl \in Procs /\ Handlers \subseteq Procs /\ Ctl \notin Handlers
BY KeyAssumption, ProcAssumption DEF Keys, Generated, Procs

-----------------------------------------------------------------------------
(* Each action preserves the invariant.  The abbreviations of the module   *)
(* are expanded throughout this part.                                      *)

USE KeyFacts, RefAssumption, CrashAssumption
    DEF fileVars, ctlVars, envVars, ghostVars, Goto, Return, HaveKey, AfterKey, NoProc,
        CurrentKey, Rotating, SavePCs, CtlPCs, PCs, Sealing, Past

\* vpnkeyctl and saves take the key in use.
LEMMA ResolveKeyStep ==
  ASSUME IInv, NEW p \in Procs, ResolveKey(p) PROVE IInv'
<1> USE DEF ResolveKey
<1>1. TypeOK' /\ Locals' /\ RefsApart'
  BY DEF IInv, TypeOK, Locals, StageInv, RefsApart
<1>2. KeyInv' /\ CtlInv'
  BY DEF IInv, TypeOK, Locals, KeyInv, CtlInv, EnvInv
<1>3. StageInv' /\ SaveInv' /\ RowInv'
  BY DEF IInv, TypeOK, Locals, StageInv, SaveInv, RefsApart, KeyInv, CtlInv, RowInv
<1>4. Repeatable' /\ EnvInv'
  BY DEF IInv, TypeOK, Locals, KeyInv, CtlInv, StageInv, SaveInv, Repeatable, EnvInv
<1> QED BY <1>1, <1>2, <1>3, <1>4 DEF IInv

\* O_EXCL: the file is not there, so nobody else is filling it.
LEMMA CreateKeyStep ==
  ASSUME IInv, NEW p \in Procs, CreateKey(p) PROVE IInv'
<1> USE DEF CreateKey
<1>1. TypeOK' /\ Locals' /\ RefsApart'
  BY DEF IInv, TypeOK, Locals, StageInv, RefsApart
<1>2. KeyInv'
  <2>1. \A q \in Procs : q # p => proc'[q] = proc[q]
    BY DEF IInv, TypeOK
  <2>2. CASE keyFile = None
    BY <2>1, <2>2 DEF IInv, TypeOK, Locals, KeyInv
  <2>3. CASE keyFile # None
    BY <2>1, <2>3 DEF IInv, TypeOK, Locals, KeyInv
  <2> QED BY <2>2, <2>3
<1>3. CtlInv'
  BY DEF IInv, TypeOK, Locals, KeyInv, CtlInv, EnvInv
<1>4. StageInv' /\ SaveInv' /\ RowInv'
  BY DEF IInv, TypeOK, Locals, StageInv, SaveInv, RefsApart, KeyInv, CtlInv, RowInv
<1>5. Repeatable' /\ EnvInv'
  BY DEF IInv, TypeOK, Locals, KeyInv, CtlInv, StageInv, SaveInv, Repeatable, EnvInv
<1> QED BY <1>1, <1>2, <1>3, <1>4, <1>5 DEF IInv

\* The key comes into use; no profile can be sealed under another one yet.
LEMMA FillKeyStep ==
  ASSUME IInv, NEW p \in Procs, FillKey(p) PROVE IInv'
<1> USE DEF FillKey
<1>1. TypeOK' /\ Locals' /\ RefsApart'
  BY DEF IInv, TypeOK, Locals, StageInv, RefsApart
<1>2. KeyInv' /\ CtlInv'
  BY DEF IInv, TypeOK, Locals, KeyInv, CtlInv, EnvInv
<1>3. StageInv' /\ SaveInv' /\ RowInv'
  BY DEF IInv, TypeOK, Locals, StageInv, SaveInv, RefsApart, KeyInv, CtlInv, RowInv
<1>4. Repeatable' /\ EnvInv'
  BY DEF IInv, TypeOK, Locals, KeyInv, CtlInv, StageInv, SaveInv, Repeatable, EnvInv
<1> QED BY <1>1, <1>2, <1>3, <1>4 DEF IInv

\* An unwritten key file stays behind.
LEMMA KeyFailsStep ==
  ASSUME IInv, NEW p \in Procs, KeyFails(p) PROVE IInv'
<1> USE DEF KeyFails
<1>1. TypeOK' /\ Locals' /\ RefsApart'
  BY DEF IInv, TypeOK, Locals, StageInv, RefsApart
<1>2. KeyInv' /\ CtlInv'
  BY DEF IInv, TypeOK, Locals, KeyInv, CtlInv, EnvInv
<1>3. StageInv' /\ SaveInv' /\ RowInv'
  BY DEF IInv, TypeOK, Locals, StageInv, SaveInv, RefsApart, KeyInv, CtlInv, RowInv
<1>4. Repeatable' /\ EnvInv'
  BY DEF IInv, TypeOK, Locals, KeyInv, CtlInv, StageInv, SaveInv, Repeatable, EnvInv
<1> QED BY <1>1, <1>2, <1>3, <1>4 DEF IInv

\* A save that begins during a rotation is late.
LEMMA SaveStep ==
  ASSUME IInv, NEW h \in Handlers, NEW r \in Refs, Save(h, r) PROVE IInv'
<1> USE DEF Save
<1>1. TypeOK' /\ Locals' /\ RefsApart'
  BY DEF IInv, TypeOK, Locals, StageInv, RefsApart, Fresh
<1>2. KeyInv' /\ CtlInv'
  BY DEF IInv, TypeOK, Locals, KeyInv, CtlInv, EnvInv, Fresh
<1>3. StageInv' /\ SaveInv' /\ RowInv'
  BY DEF IInv, TypeOK, Locals, StageInv, SaveInv, RefsApart, KeyInv, CtlInv, RowInv, Fresh
<1>4. Repeatable' /\ EnvInv'
  BY DEF IInv, TypeOK, Locals, KeyInv, CtlInv, StageInv, SaveInv, Repeatable, EnvInv, Fresh
<1> QED BY <1>1, <1>2, <1>3, <1>4 DEF IInv

\* The file of a save that is not late is torn for a moment.
LEMMA OpenFileStep ==
  ASSUME IInv, NEW h \in Handlers, OpenFile(h) PROVE IInv'
<1> USE DEF OpenFile
<1>1. TypeOK' /\ Locals' /\ RefsApart'
  BY DEF IInv, TypeOK, Locals, StageInv, RefsApart
<1>2. KeyInv' /\ CtlInv'
  BY DEF IInv, TypeOK, Locals, KeyInv, CtlInv, EnvInv
<1>3. StageInv' /\ SaveInv' /\ RowInv'
  BY DEF IInv, TypeOK, Locals, StageInv, SaveInv, RefsApart, KeyInv, CtlInv, RowInv
<1>4. Repeatable' /\ EnvInv'
  BY DEF IInv, TypeOK, Locals, KeyInv, CtlInv, StageInv, SaveInv, Repeatable, EnvInv
<1> QED BY <1>1, <1>2, <1>3, <1>4 DEF IInv

\* A profile that is not late is sealed under the key in use.
LEMMA WriteFileStep ==
  ASSUME IInv, NEW h \in Handlers, WriteFile(h) PROVE IInv'
<1> USE DEF WriteFile
<1>1. TypeOK' /\ Locals' /\ RefsApart'
  BY DEF IInv, TypeOK, Locals, StageInv, RefsApart
<1>2. KeyInv' /\ CtlInv'
  BY DEF IInv, TypeOK, Locals, KeyInv, CtlInv, EnvInv
<1>3. StageInv' /\ SaveInv' /\ RowInv'
  BY DEF IInv, TypeOK, Locals, StageInv, SaveInv, RefsApart, KeyInv, CtlInv, RowInv
<1>4. Repeatable' /\ EnvInv'
  BY DEF IInv, TypeOK, Locals, KeyInv, CtlInv, StageInv, SaveInv, Repeatable, EnvInv
<1> QED BY <1>1, <1>2, <1>3, <1>4 DEF IInv

\* A torn file stays behind.
LEMMA SaveFailsStep ==
  ASSUME IInv, NEW h \in Handlers, SaveFails(h) PROVE IInv'
<1> USE DEF SaveFails
<1>1. TypeOK' /\ Locals' /\ RefsApart'
  BY DEF IInv, TypeOK, Locals, StageInv, RefsApart
<1>2. KeyInv' /\ CtlInv'
  BY DEF IInv, TypeOK, Locals, KeyInv, CtlInv, EnvInv
<1>3. StageInv' /\ SaveInv' /\ RowInv'
  BY DEF IInv, TypeOK, Locals, StageInv, SaveInv, RefsApart, KeyInv, CtlInv, RowInv
<1>4. Repeatable' /\ EnvInv'
  BY DEF IInv, TypeOK, Locals, KeyInv, CtlInv, StageInv, SaveInv, Repeatable, EnvInv
<1> QED BY <1>1, <1>2, <1>3, <1>4 DEF IInv

\* The profile that gets a row is whole.
LEMMA CreateVPNProfileStep ==
  ASSUME IInv, NEW h \in Handlers, CreateVPNProfile(h) PROVE IInv'
<1> USE DEF CreateVPNProfile
<1>1. TypeOK' /\ Locals' /\ RefsApart'
  BY DEF IInv, TypeOK, Locals, StageInv, RefsApart
<1>2. KeyInv' /\ CtlInv'
  BY DEF IInv, TypeOK, Locals, KeyInv, CtlInv, EnvInv
<1>3. StageInv' /\ SaveInv' /\ RowInv'
  BY DEF IInv, TypeOK, Locals, StageInv, SaveInv, RefsApart, KeyInv, CtlInv, RowInv
<1>4. Repeatable' /\ EnvInv'
  BY DEF IInv, TypeOK, Locals, KeyInv, CtlInv, StageInv, SaveInv, Repeatable, EnvInv
<1> QED BY <1>1, <1>2, <1>3, <1>4 DEF IInv

\* The file that is removed has no row.
LEMMA CreateVPNProfileFailsStep ==
  ASSUME IInv, NEW h \in Handlers, CreateVPNProfileFails(h) PROVE IInv'
<1> USE DEF CreateVPNProfileFails
<1>1. TypeOK' /\ Locals' /\ RefsApart'
  BY DEF IInv, TypeOK, Locals, StageInv, RefsApart
<1>2. KeyInv' /\ CtlInv'
  BY DEF IInv, TypeOK, Locals, KeyInv, CtlInv, EnvInv
<1>3. StageInv' /\ SaveInv' /\ RowInv'
  BY DEF IInv, TypeOK, Locals, StageInv, SaveInv, RefsApart, KeyInv, CtlInv, RowInv
<1>4. Repeatable' /\ EnvInv'
  BY DEF IInv, TypeOK, Locals, KeyInv, CtlInv, StageInv, SaveInv, Repeatable, EnvInv
<1> QED BY <1>1, <1>2, <1>3, <1>4 DEF IInv

\* The operator starts vpnkeyctl with a new key.
LEMMA RotateStep ==
  ASSUME IInv, NEW n \in NewKeys, Rotate(n) PROVE IInv'
<1> USE DEF Rotate
<1>1. TypeOK' /\ Locals' /\ RefsApart'
  BY DEF IInv, TypeOK, Locals, StageInv, RefsApart
<1>2. KeyInv' /\ CtlInv'
  BY DEF IInv, TypeOK, Locals, KeyInv, CtlInv, EnvInv
<1>3. StageInv' /\ SaveInv' /\ RowInv'
  BY DEF IInv, TypeOK, Locals, StageInv, SaveInv, RefsApart, KeyInv, CtlInv, RowInv
<1>4. Repeatable' /\ EnvInv'
  BY DEF IInv, TypeOK, Locals, KeyInv, CtlInv, StageInv, SaveInv, Repeatable, EnvInv
<1> QED BY <1>1, <1>2, <1>3, <1>4 DEF IInv

\* All saves in progress become late.
LEMMA ListFilesStep ==
  ASSUME IInv, ListFiles PROVE IInv'
<1> USE DEF ListFiles
<1>1. TypeOK' /\ Locals' /\ RefsApart'
  BY DEF IInv, TypeOK, Locals, StageInv, RefsApart
<1>2. KeyInv' /\ CtlInv'
  BY DEF IInv, TypeOK, Locals, KeyInv, CtlInv, EnvInv
<1>3. StageInv' /\ SaveInv' /\ RowInv'
  BY DEF IInv, TypeOK, Locals, StageInv, SaveInv, RefsApart, KeyInv, CtlInv, RowInv
<1>4. Repeatable' /\ EnvInv'
  BY DEF IInv, TypeOK, Locals, KeyInv, CtlInv, StageInv, SaveInv, Repeatable, EnvInv
<1> QED BY <1>1, <1>2, <1>3, <1>4 DEF IInv

\* Every profile that is not late was staged or is under the new key.
LEMMA AllStagedStep ==
  ASSUME IInv, AllStaged PROVE IInv'
<1> USE DEF AllStaged
<1>1. TypeOK' /\ Locals' /\ RefsApart'
  BY DEF IInv, TypeOK, Locals, StageInv, RefsApart
<1>2. KeyInv' /\ CtlInv'
  BY DEF IInv, TypeOK, Locals, KeyInv, CtlInv, EnvInv
<1>3. StageInv' /\ SaveInv' /\ RowInv'
  BY DEF IInv, TypeOK, Locals, StageInv, SaveInv, RefsApart, KeyInv, CtlInv, RowInv
<1>4. Repeatable' /\ EnvInv'
  BY DEF IInv, TypeOK, Locals, KeyInv, CtlInv, StageInv, SaveInv, Repeatable, EnvInv
<1> QED BY <1>1, <1>2, <1>3, <1>4 DEF IInv

\* Every profile that is not late is under the new key.
LEMMA AllRenamedStep ==
  ASSUME IInv, AllRenamed PROVE IInv'
<1> USE DEF AllRenamed
<1>1. TypeOK' /\ Locals' /\ RefsApart'
  BY DEF IInv, TypeOK, Locals, StageInv, RefsApart
<1>2. KeyInv' /\ CtlInv'
  BY DEF IInv, TypeOK, Locals, KeyInv, CtlInv, EnvInv
<1>3. StageInv' /\ SaveInv' /\ RowInv'
  BY DEF IInv, TypeOK, Locals, StageInv, SaveInv, RefsApart, KeyInv, CtlInv, RowInv
<1>4. Repeatable' /\ EnvInv'
  BY DEF IInv, TypeOK, Locals, KeyInv, CtlInv, StageInv, SaveInv, Repeatable, EnvInv
<1> QED BY <1>1, <1>2, <1>3, <1>4 DEF IInv

\* Nothing is undone; what was renamed is under the key of this rotation.
LEMMA RenameFailsStep ==
  ASSUME IInv, NEW r \in Refs, RenameFails(r) PROVE IInv'
<1> USE DEF RenameFails
<1>1. TypeOK' /\ Locals' /\ RefsApart'
  BY DEF IInv, TypeOK, Locals, StageInv, RefsApart
<1>2. KeyInv' /\ CtlInv'
  BY DEF IInv, TypeOK, Locals, KeyInv, CtlInv, EnvInv
<1>3. StageInv' /\ SaveInv' /\ RowInv'
  BY DEF IInv, TypeOK, Locals, StageInv, SaveInv, RefsApart, KeyInv, CtlInv, RowInv
<1>4. Repeatable' /\ EnvInv'
  BY DEF IInv, TypeOK, Locals, KeyInv, CtlInv, StageInv, SaveInv, Repeatable, EnvInv
<1> QED BY <1>1, <1>2, <1>3, <1>4 DEF IInv

\* Whatever was renamed is under the key of this rotation.
LEMMA CtlStopsStep ==
  ASSUME IInv, CtlStops PROVE IInv'
<1> USE DEF CtlStops
<1>1. TypeOK' /\ Locals' /\ RefsApart'
  BY DEF IInv, TypeOK, Locals, StageInv, RefsApart
<1>2. KeyInv' /\ CtlInv'
  BY DEF IInv, TypeOK, Locals, KeyInv, CtlInv, EnvInv
<1>3. StageInv' /\ SaveInv' /\ RowInv'
  BY DEF IInv, TypeOK, Locals, StageInv, SaveInv, RefsApart, KeyInv, CtlInv, RowInv
<1>4. Repeatable' /\ EnvInv'
  BY DEF IInv, TypeOK, Locals, KeyInv, CtlInv, StageInv, SaveInv, Repeatable, EnvInv
<1> QED BY <1>1, <1>2, <1>3, <1>4 DEF IInv

\* The original is not touched.
LEMMA StageFileStep ==
  ASSUME IInv, NEW r \in Refs, StageFile(r) PROVE IInv'
<1> USE DEF StageFile
<1>1. TypeOK' /\ Locals' /\ RefsApart'
  BY DEF IInv, TypeOK, Locals, StageInv, RefsApart, Opens
<1>2. KeyInv' /\ CtlInv'
  BY DEF IInv, TypeOK, Locals, KeyInv, CtlInv, EnvInv, Opens
<1>3. StageInv' /\ SaveInv' /\ RowInv'
  BY DEF IInv, TypeOK, Locals, StageInv, SaveInv, RefsApart, KeyInv, CtlInv, RowInv, Opens
<1>4. Repeatable' /\ EnvInv'
  BY DEF IInv, TypeOK, Locals, KeyInv, CtlInv, StageInv, SaveInv, Repeatable, EnvInv, Opens
<1> QED BY <1>1, <1>2, <1>3, <1>4 DEF IInv

\* The originals are not touched.
LEMMA AbortStep ==
  ASSUME IInv, NEW r \in Refs, Abort(r) PROVE IInv'
<1> USE DEF Abort
<1>1. TypeOK' /\ Locals' /\ RefsApart'
  BY DEF IInv, TypeOK, Locals, StageInv, RefsApart, Opens
<1>2. KeyInv' /\ CtlInv'
  BY DEF IInv, TypeOK, Locals, KeyInv, CtlInv, EnvInv, Opens
<1>3. StageInv' /\ SaveInv' /\ RowInv'
  BY DEF IInv, TypeOK, Locals, StageInv, SaveInv, RefsApart, KeyInv, CtlInv, RowInv, Opens
<1>4. Repeatable' /\ EnvInv'
  BY DEF IInv, TypeOK, Locals, KeyInv, CtlInv, StageInv, SaveInv, Repeatable, EnvInv, Opens
<1> QED BY <1>1, <1>2, <1>3, <1>4 DEF IInv

\* From here on the key of this rotation is the target.
LEMMA RenameFileStep ==
  ASSUME IInv, NEW r \in Refs, RenameFile(r) PROVE IInv'
<1> USE DEF RenameFile
<1>1. TypeOK' /\ Locals' /\ RefsApart'
  BY DEF IInv, TypeOK, Locals, StageInv, RefsApart
<1>2. KeyInv' /\ CtlInv'
  BY DEF IInv, TypeOK, Locals, KeyInv, CtlInv, EnvInv
<1>3. StageInv' /\ SaveInv' /\ RowInv'
  BY DEF IInv, TypeOK, Locals, StageInv, SaveInv, RefsApart, KeyInv, CtlInv, RowInv
<1>4. Repeatable' /\ EnvInv'
  BY DEF IInv, TypeOK, Locals, KeyInv, CtlInv, StageInv, SaveInv, Repeatable, EnvInv
<1> QED BY <1>1, <1>2, <1>3, <1>4 DEF IInv

\* The new key is used after a restart.
LEMMA SetEnvironmentStep ==
  ASSUME IInv, SetEnvironment PROVE IInv'
<1> USE DEF SetEnvironment
<1>1. TypeOK' /\ Locals' /\ RefsApart'
  BY DEF IInv, TypeOK, Locals, StageInv, RefsApart
<1>2. KeyInv' /\ CtlInv'
  BY DEF IInv, TypeOK, Locals, KeyInv, CtlInv, EnvInv
<1>3. StageInv' /\ SaveInv' /\ RowInv'
  BY DEF IInv, TypeOK, Locals, StageInv, SaveInv, RefsApart, KeyInv, CtlInv, RowInv
<1>4. Repeatable' /\ EnvInv'
  BY DEF IInv, TypeOK, Locals, KeyInv, CtlInv, StageInv, SaveInv, Repeatable, EnvInv
<1> QED BY <1>1, <1>2, <1>3, <1>4 DEF IInv

\* The new key is used at once: every profile that is not late is under it.
LEMMA ReplaceKeyFileStep ==
  ASSUME IInv, ReplaceKeyFile PROVE IInv'
<1> USE DEF ReplaceKeyFile
<1>1. TypeOK' /\ Locals' /\ RefsApart'
  BY DEF IInv, TypeOK, Locals, StageInv, RefsApart
<1>2. KeyInv' /\ CtlInv'
  BY DEF IInv, TypeOK, Locals, KeyInv, CtlInv, EnvInv
<1>3. StageInv' /\ SaveInv' /\ RowInv'
  BY DEF IInv, TypeOK, Locals, StageInv, SaveInv, RefsApart, KeyInv, CtlInv, RowInv
<1>4. Repeatable' /\ EnvInv'
  BY DEF IInv, TypeOK, Locals, KeyInv, CtlInv, StageInv, SaveInv, Repeatable, EnvInv
<1> QED BY <1>1, <1>2, <1>3, <1>4 DEF IInv

\* A key that was put into the environment is that of the last rotation.
LEMMA RestartStep ==
  ASSUME IInv, Restart PROVE IInv'
<1> USE DEF Restart
<1>1. TypeOK' /\ Locals' /\ RefsApart'
  BY DEF IInv, TypeOK, Locals, StageInv, RefsApart, Lives
<1>2. KeyInv' /\ CtlInv'
  BY DEF IInv, TypeOK, Locals, KeyInv, CtlInv, EnvInv
<1>3. StageInv' /\ SaveInv' /\ RowInv'
  BY DEF IInv, TypeOK, Locals, StageInv, SaveInv, RefsApart, KeyInv, CtlInv, RowInv
<1>4. Repeatable' /\ EnvInv'
  BY DEF IInv, TypeOK, Locals, KeyInv, CtlInv, StageInv, SaveInv, Repeatable, EnvInv
<1> QED BY <1>1, <1>2, <1>3, <1>4 DEF IInv

HIDE DEF fileVars, ctlVars, envVars, ghostVars, Goto, Return, HaveKey, AfterKey, NoProc,
         CurrentKey, Rotating, SavePCs, CtlPCs, PCs, Sealing, Past

-----------------------------------------------------------------------------
(* The theorems.                                                           *)

LEMMA IInvInit == Init => IInv
<1> SUFFICES ASSUME Init PROVE IInv
  OBVIOUS
<1> USE KeyFacts, CrashAssumption DEF Init, NoProc
<1>1. TypeOK
  BY DEF TypeOK, PCs, Lives
<1>2. Locals /\ RefsApart
  BY DEF Locals, RefsApart, SavePCs, CtlPCs, Sealing, Past
<1>3. KeyInv /\ CtlInv /\ StageInv
  BY DEF KeyInv, CtlInv, StageInv, CurrentKey, Sealing, Past
<1>4. SaveInv /\ RowInv /\ Repeatable /\ EnvInv
  BY DEF SaveInv, RowInv, Repeatable, EnvInv, CurrentKey, Sealing
<1> QED BY <1>1, <1>2, <1>3, <1>4 DEF IInv

LEMMA IInvStutter == IInv /\ UNCHANGED vars => IInv'
BY DEF IInv, vars, TypeOK, Locals, RefsApart, KeyInv, CtlInv, StageInv, SaveInv, RowInv, Repeatable, EnvInv,
       CurrentKey, Rotating

LEMMA IInvNext == IInv /\ [Next]_vars => IInv'
BY IInvStutter,
   ResolveKeyStep, CreateKeyStep, FillKeyStep, KeyFailsStep, SaveStep,
   OpenFileStep, WriteFileStep, SaveFailsStep, CreateVPNProfileStep,
   CreateVPNProfileFailsStep, RotateStep, ListFilesStep, AllStagedStep, AllRenamedStep,
   CtlStopsStep, RenameFailsStep, StageFileStep, AbortStep, RenameFileStep, SetEnvironmentStep,
   ReplaceKeyFileStep, RestartStep DEF Next

LEMMA IInvHolds == Spec => []IInv
BY IInvInit, IInvNext, PTL DEF Spec

\* The state stays in its types.
THEOREM ProfilesTyped == Spec => []TypeOK
<1>1. IInv => TypeOK
  BY DEF IInv
<1> QED BY <1>1, IInvHolds, PTL

\* Whenever vpnkeyctl stopped, every whole profile that no save overlapped is
\* under the key in use or under the key of that rotation (Rotate).
THEOREM RotationRepeatable == Spec => []Repeatable
<1>1. IInv => Repeatable
  BY DEF IInv
<1> QED BY <1>1, IInvHolds, PTL

\* Load opens every profile with a row while no rotation is half-way, for any
\* number of concurrent first uses of the store, saves, rotations and restarts.
THEOREM ProfilesReadable == Spec => []Readable
<1>1. IInv => Readable
  <2> SUFFICES ASSUME IInv, target \in {None, CurrentKey}, NEW r \in rows \ late PROVE Load(r)
    BY DEF Readable
  <2>1. file[r] \in Keys /\ r \in Refs
    BY DEF IInv, RowInv, TypeOK
  <2>2. file[r] \in {None, Torn, CurrentKey, target}
    BY <2>1 DEF IInv, Repeatable
  <2> QED BY <2>1, <2>2, KeyFacts DEF Load, Opens
<1> QED BY <1>1, IInvHolds, PTL

\* A rotation that reports success (Rotate returns its result) has left no
\* profile under the old key.
THEOREM RotationComplete == Spec => []DoneIsDone
<1>1. IInv => DoneIsDone
  <2> SUFFICES ASSUME IInv, proc[Ctl].pc = "done", NEW r \in rows \ late
               PROVE file[r] = proc[Ctl].new
    BY DEF DoneIsDone
  <2>1. file[r] \in Keys /\ r \in Refs
    BY DEF IInv, RowInv, TypeOK
  <2>2. todo = {} /\ pending = {}
    BY DEF IInv, Locals
  <2> QED BY <2>1, <2>2, KeyFacts DEF IInv, StageInv
<1> QED BY <1>1, IInvHolds, PTL
=============================================================================
