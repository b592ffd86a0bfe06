------------------------------ MODULE Profiles ------------------------------
(***************************************************************************)
(* The encrypted VPN profiles: Store of internal/vpnprofiles/store.go with *)
(* storeVPNProfile of the controller and the rotation of cmd/vpnkeyctl.    *)
(*                                                                         *)
(* Requests that save profiles and one run of vpnkeyctl share a directory, *)
(* a key file and nothing that locks them.  The key of the controller is   *)
(* the one in its environment, read when it starts, or else the one in the *)
(* key file, read (and on first use generated) by every operation.         *)
(*                                                                         *)
(* A profile is never edited, so its file stands for the key it is sealed  *)
(* under.  open(key, data) succeeds exactly when data is whole and sealed  *)
(* under key.                                                              *)
(***************************************************************************)
EXTENDS Naturals, FiniteSets

CONSTANTS
  Refs,         \* names of profile files, each used for one profile
  Handlers,     \* requests of the controller that save a profile
  Ctl,          \* the run of vpnkeyctl
  NewKeys,      \* keys an operator makes with vpnkeyctl generate, and keeps
  None,         \* no file, no key, no profile
  Torn,         \* a file that is being written or was left half written
  MaxCrashes    \* bound on the restarts of the controller

Procs == Handlers \cup {Ctl}

\* NewKey: every process of every life generates a key of its own.
Lives == 0 .. MaxCrashes
Generated == Procs \X Lives
Keys == Generated \cup NewKeys

ASSUME ProcAssumption == Ctl \notin Handlers
ASSUME KeyAssumption == /\ None \notin Keys /\ Torn \notin Keys /\ None # Torn
                        /\ NewKeys \cap Generated = {}
ASSUME RefAssumption == None \notin Refs
ASSUME CrashAssumption == MaxCrashes \in Nat

VARIABLES
  keyFile,    \* the key file: None, Torn (created, or not fully written) or a key
  env,        \* VPN_ENCRYPTION_KEY as the operator has set it
  conf,       \* VPN_ENCRYPTION_KEY as the controller read it when it started
  file,       \* the profile files
  staged,     \* the files *.rotating
  rows,       \* refs in the table vpn_profiles
  proc,       \* the saves, and vpnkeyctl
  todo,       \* vpnkeyctl: listed files not decrypted yet
  pending,    \* vpnkeyctl: staged files not renamed yet
  life,       \* how often the controller has been restarted
  target,     \* ghost: the key of the last rotation that renamed a file
  late        \* ghost: profiles whose save overlapped a rotation

vars == <<keyFile, env, conf, file, staged, rows, proc, todo, pending, life, target, late>>

\* pc of a save: key, create, fill, write, writing, row; of vpnkeyctl: key,
\* create, fill, list, stage, rename, done.
NoProc == [pc |-> "idle", key |-> None, ref |-> None, new |-> None]

PCs == {"idle", "key", "create", "fill", "write", "writing", "row", "list", "stage", "rename", "done"}

TypeOK ==
  /\ keyFile \in Keys \cup {None, Torn}
  /\ env \in NewKeys \cup {None}
  /\ conf \in NewKeys \cup {None}
  /\ file \in [Refs -> Keys \cup {None, Torn}]
  /\ staged \in [Refs -> Keys \cup {None, Torn}]
  /\ rows \in SUBSET Refs
  /\ proc \in [Procs -> [pc : PCs, key : Keys \cup {None}, ref : Refs \cup {None},
                         new : NewKeys \cup {None}]]
  /\ todo \in SUBSET Refs
  /\ pending \in SUBSET Refs
  /\ life \in Lives
  /\ target \in NewKeys \cup {None}
  /\ late \in SUBSET Refs

Init ==
  /\ keyFile = None
  /\ env = None
  /\ conf = None
  /\ file = [r \in Refs |-> None]
  /\ staged = [r \in Refs |-> None]
  /\ rows = {}
  /\ proc = [p \in Procs |-> NoProc]
  /\ todo = {}
  /\ pending = {}
  /\ life = 0
  /\ target = None
  /\ late = {}

\* The key the store uses now.
CurrentKey == IF conf # None THEN conf ELSE keyFile

\* A rotation has listed the files, and the controller does not use its key
\* yet.
Rotating == proc[Ctl].pc \in {"stage", "rename", "done"} \/ target \notin {None, CurrentKey}

fileVars == <<file, staged, rows>>
ctlVars == <<todo, pending>>
envVars == <<env, conf, life>>
ghostVars == <<target, late>>

Goto(p, pc) == proc' = [proc EXCEPT ![p].pc = pc]
Return(p) == proc' = [proc EXCEPT ![p] = NoProc]

\* open: the profile is whole and sealed under the key.
Opens(key, data) == key \in Keys /\ data = key

\* Load.
Load(r) == Opens(CurrentKey, file[r])

-----------------------------------------------------------------------------
(* key.                                                                    *)

AfterKey(p) == IF p = Ctl THEN "list" ELSE "write"

HaveKey(p, k) == proc' = [proc EXCEPT ![p].key = k, ![p].pc = AfterKey(p)]

\* Mutant: the length of the key file is not checked.
ResolveKey_AnyLength(p) ==
  /\ proc[p].pc = "key"
  /\ \/ conf # None /\ HaveKey(p, conf)
     \/ conf = None /\ keyFile # None /\ HaveKey(p, keyFile)
     \/ conf = None /\ keyFile = None /\ Goto(p, "create")
  /\ UNCHANGED <<keyFile, fileVars, ctlVars, envVars, ghostVars>>

\* The key of the environment wins; otherwise the file is read, and a file of
\* another length than a key is an error.
ResolveKey(p) ==
  /\ proc[p].pc = "key"
  /\ \/ conf # None /\ HaveKey(p, conf)
     \/ conf = None /\ keyFile \in Keys /\ HaveKey(p, keyFile)
     \/ conf = None /\ keyFile = Torn /\ Return(p)
     \/ conf = None /\ keyFile = None /\ Goto(p, "create")
  /\ UNCHANGED <<keyFile, fileVars, ctlVars, envVars, ghostVars>>

\* Mutant: the key file is opened without O_EXCL.
CreateKey_NotExclusive(p) ==
  /\ proc[p].pc = "create"
  /\ keyFile' = Torn
  /\ Goto(p, "fill")
  /\ UNCHANGED <<fileVars, ctlVars, envVars, ghostVars>>

\* O_EXCL: one process creates the file, the others read it.
CreateKey(p) ==
  /\ proc[p].pc = "create"
  /\ \/ keyFile = None /\ keyFile' = Torn /\ Goto(p, "fill")
     \/ keyFile # None /\ UNCHANGED keyFile /\ Goto(p, "key")
  /\ UNCHANGED <<fileVars, ctlVars, envVars, ghostVars>>

FillKey(p) ==
  /\ proc[p].pc = "fill"
  /\ keyFile' = <<p, life>>
  /\ HaveKey(p, <<p, life>>)
  /\ UNCHANGED <<fileVars, ctlVars, envVars, ghostVars>>

\* A key file that cannot be created is an error; one that cannot be written
\* stays behind, and every later use of the store fails.
KeyFails(p) ==
  /\ proc[p].pc \in {"create", "fill"}
  /\ Return(p)
  /\ UNCHANGED <<keyFile, fileVars, ctlVars, envVars, ghostVars>>

-----------------------------------------------------------------------------
(* storeVPNProfile: Save, then the row.                                    *)

\* The reference is random: it has no file and no other user.
Fresh(r) == file[r] = None /\ r \notin rows \cup late /\ \A p \in Procs : proc[p].ref # r

Save(h, r) ==
  /\ proc[h].pc = "idle"
  /\ Fresh(r)
  /\ proc' = [proc EXCEPT ![h] = [NoProc EXCEPT !.pc = "key", !.ref = r]]
  /\ late' = IF Rotating THEN late \cup {r} ELSE late
  /\ UNCHANGED <<keyFile, fileVars, ctlVars, envVars, target>>

\* os.WriteFile is not atomic.
OpenFile(h) ==
  /\ proc[h].pc = "write"
  /\ h # Ctl
  /\ file' = [file EXCEPT ![proc[h].ref] = Torn]
  /\ Goto(h, "writing")
  /\ UNCHANGED <<keyFile, staged, rows, ctlVars, envVars, ghostVars>>

WriteFile(h) ==
  /\ proc[h].pc = "writing"
  /\ file' = [file EXCEPT ![proc[h].ref] = proc[h].key]
  /\ Goto(h, "row")
  /\ UNCHANGED <<keyFile, staged, rows, ctlVars, envVars, ghostVars>>

\* A failed write leaves what was written.
SaveFails(h) ==
  /\ proc[h].pc \in {"write", "writing"}
  /\ Return(h)
  /\ UNCHANGED <<keyFile, fileVars, ctlVars, envVars, ghostVars>>

CreateVPNProfile(h) ==
  /\ proc[h].pc = "row"
  /\ rows' = rows \cup {proc[h].ref}
  /\ Return(h)
  /\ UNCHANGED <<keyFile, file, staged, ctlVars, envVars, ghostVars>>

\* Without its row the file is removed; an error of that is ignored.
CreateVPNProfileFails(h) ==
  /\ proc[h].pc = "row"
  /\ file' = [file EXCEPT ![proc[h].ref] = None] \/ UNCHANGED file
  /\ Return(h)
  /\ UNCHANGED <<keyFile, staged, rows, ctlVars, envVars, ghostVars>>

-----------------------------------------------------------------------------
(* Rotate, run by vpnkeyctl in the environment of the controller.          *)

\* A key that was put into the environment is put to use before a rotation
\* to another one; the same rotation may be run again.
Rotate(n) ==
  /\ proc[Ctl].pc = "idle"
  /\ env \in {conf, n}
  /\ proc' = [proc EXCEPT ![Ctl] = [NoProc EXCEPT !.pc = "key", !.new = n]]
  /\ UNCHANGED <<keyFile, fileVars, ctlVars, envVars, ghostVars>>

\* Saves in progress now, and those that begin before the controller uses the
\* new key, may or may not be seen.
ListFiles ==
  /\ proc[Ctl].pc = "list"
  /\ todo' = {r \in Refs : file[r] # None}
  /\ late' = late \cup ({proc[h].ref : h \in Handlers} \ {None})
  /\ Goto(Ctl, "stage")
  /\ UNCHANGED <<keyFile, fileVars, pending, envVars, target>>

\* Mutant: the first profile under the new key ends the loop.
StageFile_Break(r) ==
  /\ proc[Ctl].pc = "stage"
  /\ r \in todo
  /\ \/ /\ Opens(proc[Ctl].key, file[r])
        /\ staged' = [staged EXCEPT ![r] = proc[Ctl].new]
        /\ pending' = pending \cup {r}
        /\ todo' = todo \ {r}
     \/ /\ ~Opens(proc[Ctl].key, file[r]) /\ Opens(proc[Ctl].new, file[r])
        /\ todo' = {}
        /\ UNCHANGED <<staged, pending>>
  /\ UNCHANGED <<keyFile, file, rows, proc, envVars, ghostVars>>

\* A profile under the old key is sealed again beside the original; one
\* under the new key is left from an earlier run.
StageFile(r) ==
  /\ proc[Ctl].pc = "stage"
  /\ r \in todo
  /\ \/ /\ Opens(proc[Ctl].key, file[r])
        /\ staged' = [staged EXCEPT ![r] = proc[Ctl].new]
        /\ pending' = pending \cup {r}
     \/ /\ ~Opens(proc[Ctl].key, file[r]) /\ Opens(proc[Ctl].new, file[r])
        /\ UNCHANGED <<staged, pending>>
  /\ todo' = todo \ {r}
  /\ UNCHANGED <<keyFile, file, rows, proc, envVars, ghostVars>>

\* Mutant: a profile that cannot be decrypted is skipped.
Abort_Skips(r) ==
  /\ proc[Ctl].pc = "stage"
  /\ r \in todo
  /\ todo' = todo \ {r}
  /\ UNCHANGED <<keyFile, fileVars, proc, pending, envVars, ghostVars>>

\* A file that is gone, torn or under a third key, and one that cannot be
\* staged, end the rotation; what was staged is removed, except the file
\* whose own write failed and what cannot be removed.
Abort(r) ==
  /\ proc[Ctl].pc = "stage"
  /\ r \in todo
  /\ \E removed \in SUBSET pending :
       \/ /\ ~Opens(proc[Ctl].key, file[r]) /\ ~Opens(proc[Ctl].new, file[r])
          /\ staged' = [q \in Refs |-> IF q \in removed THEN None ELSE staged[q]]
       \/ /\ Opens(proc[Ctl].key, file[r])
          /\ staged' = [q \in Refs |-> IF q \in removed THEN None ELSE IF q = r THEN Torn ELSE staged[q]]
  /\ todo' = {}
  /\ pending' = {}
  /\ Return(Ctl)
  /\ UNCHANGED <<keyFile, file, rows, envVars, target, late>>

AllStaged ==
  /\ proc[Ctl].pc = "stage"
  /\ todo = {}
  /\ Goto(Ctl, "rename")
  /\ UNCHANGED <<keyFile, fileVars, ctlVars, envVars, ghostVars>>

RenameFile(r) ==
  /\ proc[Ctl].pc = "rename"
  /\ r \in pending
  /\ file' = [file EXCEPT ![r] = staged[r]]
  /\ staged' = [staged EXCEPT ![r] = None]
  /\ pending' = pending \ {r}
  /\ target' = proc[Ctl].new
  /\ UNCHANGED <<keyFile, rows, proc, todo, envVars, late>>

\* A rename that fails ends the rotation with the error that Abort ends with;
\* what was renamed before stays renamed, and the staged files stay.
RenameFails(r) ==
  /\ proc[Ctl].pc = "rename"
  /\ r \in pending
  /\ pending' = {}
  /\ Return(Ctl)
  /\ UNCHANGED <<keyFile, fileVars, todo, envVars, ghostVars>>

\* vpnkeyctl dies, or cannot list the directory.
CtlStops ==
  /\ proc[Ctl].pc \in {"list", "stage", "rename"}
  /\ todo' = {}
  /\ pending' = {}
  /\ Return(Ctl)
  /\ UNCHANGED <<keyFile, fileVars, envVars, ghostVars>>

AllRenamed ==
  /\ proc[Ctl].pc = "rename"
  /\ pending = {}
  /\ target' = proc[Ctl].new
  /\ Goto(Ctl, "done")
  /\ UNCHANGED <<keyFile, fileVars, ctlVars, envVars, late>>

-----------------------------------------------------------------------------
(* The operator and the controller's process.                              *)

\* "Update VPN_ENCRYPTION_KEY or the key file to the new key".
SetEnvironment ==
  /\ proc[Ctl].pc = "done"
  /\ env' = proc[Ctl].new
  /\ Return(Ctl)
  /\ UNCHANGED <<keyFile, fileVars, ctlVars, conf, life, ghostVars>>

ReplaceKeyFile ==
  /\ proc[Ctl].pc = "done"
  /\ env = None
  /\ keyFile' = proc[Ctl].new
  /\ Return(Ctl)
  /\ UNCHANGED <<fileVars, ctlVars, envVars, target, late>>

\* The controller is restarted, or dies and comes back.
Restart ==
  /\ life < MaxCrashes
  /\ life' = life + 1
  /\ conf' = env
  /\ proc' = [p \in Procs |-> IF p = Ctl THEN proc[p] ELSE NoProc]
  /\ UNCHANGED <<keyFile, env, fileVars, ctlVars, target, late>>

Next ==
  \/ \E p \in Procs : ResolveKey(p) \/ CreateKey(p) \/ FillKey(p) \/ KeyFails(p)
  \/ \E h \in Handlers :
       \/ \E r \in Refs : Save(h, r)
       \/ OpenFile(h) \/ WriteFile(h) \/ SaveFails(h) \/ CreateVPNProfile(h) \/ CreateVPNProfileFails(h)
  \/ \E n \in NewKeys : Rotate(n)
  \/ ListFiles \/ AllStaged \/ AllRenamed \/ CtlStops
  \/ \E r \in Refs : StageFile(r) \/ Abort(r) \/ RenameFile(r) \/ RenameFails(r)
  \/ SetEnvironment \/ ReplaceKeyFile \/ Restart

Spec == Init /\ [][Next]_vars

-----------------------------------------------------------------------------
(* Properties.                                                             *)

\* Load succeeds for every profile with a row, whatever first uses of the
\* store, failed writes, aborted rotations and restarts came before, except
\* between the first rename of a rotation and the moment the controller uses
\* its key, and for profiles whose save overlapped such a rotation.
Readable ==
  target \in {None, CurrentKey} => \A r \in rows \ late : Load(r)

\* Whenever a rotation stopped, it can be repeated: every whole profile is
\* under the key in use or under the key of that rotation, so a second run
\* decrypts or recognises it.  Both keys occur after an error: vpnkeyctl reports
\* a failed rename as "no profiles were changed".
Repeatable ==
  \A r \in Refs \ late : file[r] \in {None, Torn, CurrentKey, target}

\* A rotation that reports success has left no profile under the old key.
DoneIsDone ==
  proc[Ctl].pc = "done" => \A r \in rows \ late : file[r] = proc[Ctl].new
=============================================================================
