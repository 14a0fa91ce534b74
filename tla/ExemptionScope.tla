---------------------------- MODULE ExemptionScope ----------------------------
(***************************************************************************)
(* Signature exemptions scoped to one oc-mirror run (registriesDScope.js), *)
(* with the two launches that take one, the child that copies it into the  *)
(* workspace, the handlers that undo it, crashes and the repair at boot.   *)
(*                                                                         *)
(* One workspace.  snapshotRegistriesD and restoreRegistriesD run without  *)
(* an await, so nothing of this process comes between their file           *)
(* operations; a crash does, and so does an oc-mirror child that is still  *)
(* alive.  Each file operation is therefore an action, op says which one   *)
(* is next, and a handler starts only when no other is in the middle.      *)
(***************************************************************************)
EXTENDS FiniteSets

CONSTANTS
    Runs,       \* oc-mirror runs that use the workspace
    None,       \* nobody
    Default,    \* the host's own registries.d files
    NoDir,      \* a directory that does not exist
    FsMayFail   \* a file operation can fail (ENOSPC, EACCES, EIO)

ASSUME ScopeAssumption ==
    /\ None \notin Runs /\ Default \notin Runs
    /\ \A tree \in SUBSET (Runs \cup {Default}) : tree # NoDir
    /\ FsMayFail \in BOOLEAN

VARIABLES
    ws,       \* the workspace's registries.d: whose files it holds, or NoDir
    snap,     \* the snapshot directory beside it
    ledger,   \* the workspace is in registries-d-pending.json
    phase,    \* new, launching, alive, gone (close event queued), done, lost
    exempt,   \* runs that pass --registries.d
    scoped,   \* runs whose closure has scopedExemption set
    copied,   \* runs whose child has filled the workspace copy
    slot,     \* the run that holds the oc-mirror run slot
    op,       \* the file operation the current handler does next
    overlap,  \* a run was launched before a stopped run's child had closed
    up        \* the backend process runs

vars == <<ws, snap, ledger, phase, exempt, scoped, copied, slot, op, overlap, up>>
runVars == <<phase, exempt, scoped, copied, slot, overlap, up>>

Phases    == {"new", "launching", "alive", "gone", "done", "lost"}
Trees     == {NoDir} \cup SUBSET (Runs \cup {Default})
NoSnap    == [made |-> FALSE, copy |-> NoDir, written |-> FALSE, existed |-> FALSE, hash |-> NoDir]
Snapshots == [made : BOOLEAN, copy : Trees, written : BOOLEAN, existed : BOOLEAN, hash : Trees]
Ops       == {"none", "ledgerOn", "mkdir", "copy", "state", "spawn",
              "look", "putBack", "verify", "drop", "ledgerOff"}
Reasons   == {"none", "launch", "undo", "boot"}

NoOp == [who |-> None, at |-> "none", why |-> "none"]

\* Wrong form of Op: the run and the reason are swapped.
OpSwapped(who, at, why) == [who |-> why, at |-> at, why |-> who]

\* What a handler does next, for whom, and on behalf of what.
Op(who, at, why) == [who |-> who, at |-> at, why |-> why]
At(step) == up /\ op.at = step
Goto(step) == op' = [op EXCEPT !.at = step]
Idle == up /\ op = NoOp

\* pendingSnapshot: the directory alone counts.
PendingSnapshot == snap.made

\* A snapshot restoreRegistriesD can restore from.
Whole(s) == s.made /\ s.written /\ (s.existed => s.copy # NoDir) /\ s.hash = s.copy

\* Files of a run's exemption that are in the workspace copy.
Exemptions(tree) == IF tree = NoDir THEN {} ELSE tree \cap Runs

\* The workspace copy with more files written over it.
With(files) == (IF ws = NoDir THEN {} ELSE ws) \cup files
Unclosed(r) == phase[r] \in {"alive", "gone"}

-----------------------------------------------------------------------------
(* snapshotRegistriesD *)

\* Wrong form of Prepare: the exemption is passed without a snapshot.
PrepareUnscoped(r, e) == Op(r, "spawn", "launch")

\* What a launch does once the workspace is clean.
Prepare(r, e) == Op(r, IF e THEN "ledgerOn" ELSE "spawn", "launch")

\* Wrong form of LedgerOn: the snapshot directory is made first.
LedgerOnLater ==
    /\ At("ledgerOn")
    /\ snap' = [NoSnap EXCEPT !.made = TRUE]
    /\ Goto("mkdir")
    /\ UNCHANGED <<ws, ledger, runVars>>

\* The ledger is written first, by write and rename.
LedgerOn ==
    /\ At("ledgerOn") /\ ~PendingSnapshot
    /\ ledger' = TRUE
    /\ Goto("mkdir")
    /\ UNCHANGED <<ws, snap, runVars>>

MakeSnapshot ==
    /\ At("mkdir")
    /\ snap' = [NoSnap EXCEPT !.made = TRUE]
    /\ Goto("copy")
    /\ UNCHANGED <<ws, ledger, runVars>>

\* File by file.
CopyToSnapshot ==
    /\ At("copy")
    /\ \/ snap' = [snap EXCEPT !.copy = ws, !.existed = (ws # NoDir)] /\ Goto("state")
       \/ ws # NoDir /\ \E part \in SUBSET ws : snap' = [snap EXCEPT !.copy = part] /\ UNCHANGED op
    /\ UNCHANGED <<ws, ledger, runVars>>

\* state.json, with the hash of the workspace copy as it is by now.
WriteState ==
    /\ At("state")
    /\ snap' = [snap EXCEPT !.written = TRUE, !.hash = ws]
    /\ scoped' = scoped \cup {op.who}
    /\ Goto("spawn")
    /\ UNCHANGED <<ws, ledger, phase, exempt, copied, slot, overlap, up>>

-----------------------------------------------------------------------------
(* restoreRegistriesD *)

\* Wrong form of NotOk: the run goes on although the workspace was not restored.
NotOkGoesOn ==
    /\ op' = IF op.why = "launch" THEN Op(op.who, "spawn", "launch") ELSE NoOp
    /\ UNCHANGED <<phase, slot>>

\* The operation did not succeed: a launch is refused, an undo or the boot reports it.
NotOk ==
    /\ op' = NoOp
    /\ IF op.why = "launch"
       THEN phase' = [phase EXCEPT ![op.who] = "done"] /\ slot' = None
       ELSE UNCHANGED <<phase, slot>>

\* The workspace is as before: a launch goes on.
Restored ==
    op' = IF op.why = "launch" THEN Prepare(op.who, op.who \in exempt) ELSE NoOp

\* No snapshot: only the ledger entry goes.
NothingToRestore ==
    /\ At("look") /\ ~PendingSnapshot
    /\ ledger' = FALSE
    /\ Restored
    /\ UNCHANGED <<ws, snap, runVars>>

\* state.json is read (it may be missing or cut short), then the copy is removed,
\* file by file.
RemoveCopy ==
    /\ At("look") /\ snap.made /\ snap.written
    /\ \/ ws' = NoDir /\ Goto("putBack")
       \/ ws # NoDir /\ ws' \in SUBSET ws /\ UNCHANGED op
    /\ UNCHANGED <<snap, ledger, runVars>>

Unreadable ==
    \/ At("look") /\ snap.made /\ ~snap.written
    \/ At("putBack") /\ snap.existed /\ snap.copy = NoDir

\* cpSync adds to what is there by now, file by file.
PutBack ==
    /\ At("putBack") /\ ~Unreadable
    /\ \/ ws' = (IF snap.existed THEN With(snap.copy) ELSE ws) /\ Goto("verify")
       \/ snap.existed /\ \E part \in SUBSET snap.copy : ws' = With(part) /\ UNCHANGED op
    /\ UNCHANGED <<snap, ledger, runVars>>

Verified ==
    /\ At("verify") /\ ws = snap.hash
    /\ Goto("drop")
    /\ UNCHANGED <<ws, snap, ledger, runVars>>

\* rmSync removes the two entries in some order and then the directory.
DropSnapshot ==
    /\ At("drop")
    /\ \/ snap' = [snap EXCEPT !.copy = NoDir] /\ UNCHANGED op
       \/ snap' = [snap EXCEPT !.written = FALSE, !.hash = NoDir] /\ UNCHANGED op
       \/ snap' = NoSnap /\ Goto("ledgerOff")
    /\ UNCHANGED <<ws, ledger, runVars>>

LedgerOff ==
    /\ At("ledgerOff")
    /\ ledger' = FALSE
    /\ Restored
    /\ UNCHANGED <<ws, snap, runVars>>

\* Steps whose failure snapshotRegistriesD and restoreRegistriesD report.  Without a
\* snapshot the first look only writes the ledger, and an error there is not caught: the
\* process ends, as in Crash.
Fallible == IF PendingSnapshot THEN Ops \ {"none", "spawn"} ELSE Ops \ {"none", "spawn", "look"}

\* The step throws, or state.json, the copy or the hash is not what it should be.
StepFails ==
    /\ up
    /\ \/ Unreadable
       \/ At("verify") /\ ws # snap.hash
       \/ At("ledgerOn") /\ PendingSnapshot
       \/ FsMayFail /\ op.at \in Fallible
    /\ NotOk
    /\ UNCHANGED <<ws, snap, ledger, exempt, scoped, copied, overlap, up>>

-----------------------------------------------------------------------------
(* A run on the workspace *)

\* The launch section of startReservedOcMirrorRun and of the retry: a snapshot an
\* earlier run left is restored before anything else.
Launch(r, e) ==
    /\ Idle /\ slot = None /\ phase[r] = "new"
    /\ slot' = r
    /\ phase' = [phase EXCEPT ![r] = "launching"]
    /\ exempt' = IF e THEN exempt \cup {r} ELSE exempt
    /\ overlap' = (overlap \/ \E k \in Runs : Unclosed(k))
    /\ op' = IF PendingSnapshot THEN Op(r, "look", "launch") ELSE Prepare(r, e)
    /\ UNCHANGED <<ws, snap, ledger, scoped, copied, up>>

Spawn ==
    /\ At("spawn")
    /\ phase' = [phase EXCEPT ![op.who] = "alive"]
    /\ op' = NoOp
    /\ UNCHANGED <<ws, snap, ledger, exempt, scoped, copied, slot, overlap, up>>

\* undoExemption and releaseAll: at most once, and only by a run that took one.
Undo(r) ==
    /\ scoped' = scoped \ {r}
    /\ op' = IF r \in scoped THEN Op(r, "look", "undo") ELSE NoOp
    /\ UNCHANGED <<ledger, snap>>

\* beforeSpawn throws: the exemption is undone and the run does not start.
BeforeSpawnFails ==
    /\ At("spawn")
    /\ phase' = [phase EXCEPT ![op.who] = "done"]
    /\ slot' = None
    /\ Undo(op.who)
    /\ UNCHANGED <<ws, exempt, copied, overlap, up>>

\* oc-mirror copies --registries.d (or the host's files) over the workspace copy; it
\* overwrites and never deletes.
ChildCopies(r) ==
    /\ up /\ phase[r] = "alive" /\ r \notin copied
    /\ ws' = With({IF r \in exempt THEN r ELSE Default})
    /\ copied' = copied \cup {r}
    /\ UNCHANGED <<snap, ledger, phase, exempt, scoped, slot, op, overlap, up>>

ChildExits(r) ==
    /\ up /\ phase[r] = "alive"
    /\ phase' = [phase EXCEPT ![r] = "gone"]
    /\ UNCHANGED <<ws, snap, ledger, exempt, scoped, copied, slot, op, overlap, up>>

\* Stop and Start Over: the slot is free although the child has not closed yet.
Stop(r) ==
    /\ Idle /\ slot = r /\ Unclosed(r)
    /\ slot' = None
    /\ UNCHANGED <<ws, snap, ledger, phase, exempt, scoped, copied, op, overlap, up>>

\* The close (or error) event.
Close(r) ==
    /\ Idle /\ phase[r] = "gone"
    /\ phase' = [phase EXCEPT ![r] = "done"]
    /\ slot' = IF slot = r THEN None ELSE slot
    /\ Undo(r)
    /\ UNCHANGED <<ws, exempt, copied, overlap, up>>

\* The process ends, and with the container its children.
Crash ==
    /\ up
    /\ up' = FALSE /\ slot' = None /\ scoped' = {} /\ op' = NoOp
    /\ phase' = [r \in Runs |-> IF phase[r] \in {"launching", "alive", "gone"}
                                THEN "lost" ELSE phase[r]]
    /\ UNCHANGED <<ws, snap, ledger, exempt, copied, overlap>>

\* restorePending: the ledger says which workspaces to restore.
Boot ==
    /\ ~up
    /\ up' = TRUE
    /\ op' = IF ledger THEN Op(None, "look", "boot") ELSE NoOp
    /\ UNCHANGED <<ws, snap, ledger, phase, exempt, scoped, copied, slot, overlap>>

-----------------------------------------------------------------------------
Init ==
    /\ ws \in {NoDir, {Default}} /\ snap = NoSnap /\ ledger = FALSE
    /\ phase = [r \in Runs |-> "new"]
    /\ exempt = {} /\ scoped = {} /\ copied = {}
    /\ slot = None /\ op = NoOp /\ overlap = FALSE /\ up = TRUE

TakeSnapshot == LedgerOn \/ MakeSnapshot \/ CopyToSnapshot \/ WriteState
Restore == NothingToRestore \/ RemoveCopy \/ PutBack \/ Verified \/ DropSnapshot \/ LedgerOff

Next ==
    \/ TakeSnapshot \/ Restore \/ StepFails
    \/ Spawn \/ BeforeSpawnFails
    \/ \E r \in Runs : \/ \E e \in BOOLEAN : Launch(r, e)
                       \/ ChildCopies(r) \/ ChildExits(r) \/ Stop(r) \/ Close(r)
    \/ Crash \/ Boot

Spec == Init /\ [][Next]_vars

-----------------------------------------------------------------------------
(* Properties *)

TypeOK ==
    /\ ws \in Trees /\ snap \in Snapshots /\ ledger \in BOOLEAN
    /\ phase \in [Runs -> Phases]
    /\ exempt \subseteq Runs /\ scoped \subseteq Runs /\ copied \subseteq Runs
    /\ slot \in Runs \cup {None}
    /\ op \in [who : Runs \cup {None}, at : Ops, why : Reasons]
    /\ overlap \in BOOLEAN /\ up \in BOOLEAN

\* Whatever step a crash or an error falls between, a snapshot on disk is in the
\* ledger, so that the boot finds it (registriesDScope.js restorePending).
LedgerCoversSnapshots == snap.made => ledger

\* A workspace that holds a run's exemption always has a whole, clean snapshot to go
\* back to, through every crash and failed step; only a launch beside the child of a
\* stopped run is not covered.
WeakIsUndoable ==
    ~overlap /\ Exemptions(ws) # {} => Whole(snap) /\ Exemptions(snap.copy) = {}

\* Fail closed: no run starts on a workspace that still holds another run's exemption,
\* however the earlier restore failed (again unless a stopped child is still there).
NoRunOnWeakWorkspace ==
    [][\A r \in Runs : phase[r] # "alive" /\ phase'[r] = "alive" /\ ~overlap
          => Exemptions(ws) = {}]_vars

-----------------------------------------------------------------------------
(* A statement of the repository that the code does not keep *)

\* registriesDScope.js:12 says an exemption lasts exactly one run and never leaves a
\* lasting, weaker workspace: once no run that took one is left, the copy is clean or
\* its snapshot still refuses the next run.
NeverLastingExemption ==
    Idle /\ (\A r \in exempt : ~Unclosed(r)) /\ Exemptions(ws) # {} => snap.made
=============================================================================
