------------------------ MODULE ExemptionScopeProofs ------------------------
(***************************************************************************)
(* What holds of ExemptionScope for any set of runs, wherever a crash or a  *)
(* failed file operation falls: the boot finds every snapshot, an exemption *)
(* in the workspace can be undone, and no run starts on another's.          *)
(***************************************************************************)
EXTENDS ExemptionScope, TLAPS

-----------------------------------------------------------------------------
(* The invariant *)

\* Steps at which a handler works for a run it launches.
LaunchSteps == {"ledgerOn", "mkdir", "copy", "state", "spawn"}

\* Who an operation is for, and the ends of a run's life.
OpInv ==
    /\ TypeOK
    /\ op.at \in LaunchSteps => op.why = "launch"
    /\ op.why = "launch" => op.who \in Runs
    /\ ~up => op = NoOp /\ \A r \in Runs : ~Unclosed(r)
    /\ \A r \in Runs : phase[r] = "new" => r \notin exempt

\* The ledger is written before the snapshot is made and cleared after it is gone.
LedgerInv ==
    /\ snap.made => ledger
    /\ op.at = "mkdir" => ledger
    /\ op.at = "ledgerOff" => ~snap.made

\* As long as runs do not overlap: a child is alone and no handler is in the middle
\* beside it, snapshots are clean, a handler past its first look works on a clean
\* workspace, and the snapshot of a run that may weaken the workspace is whole.
ScopeInv ==
    ~overlap =>
        /\ \A r \in Runs : Unclosed(r) => op = NoOp
        /\ \A r, k \in Runs : Unclosed(r) /\ Unclosed(k) => r = k
        /\ Exemptions(snap.copy) = {}
        /\ op.at \notin {"none", "look"} => Exemptions(ws) = {}
        /\ op.at \in {"copy", "state"} => snap.made
        /\ op.at = "state" => snap.copy = ws /\ snap.existed = (ws # NoDir)
        /\ \A r \in Runs : Unclosed(r) /\ r \in exempt => Whole(snap)
        /\ op.at = "spawn" /\ op.who \in exempt => Whole(snap)
        /\ Exemptions(ws) # {} => Whole(snap)

IInv == OpInv /\ LedgerInv /\ ScopeInv

-----------------------------------------------------------------------------
(* Operations and types *)

\* What a launch does next is one of the launch steps, for the same run.
LEMMA PrepareLaunches ==
    ASSUME NEW r \in Runs, NEW e
    PROVE  /\ Prepare(r, e) \in [who : Runs \cup {None}, at : Ops, why : Reasons]
           /\ Prepare(r, e).at \in {"ledgerOn", "spawn"}
           /\ Prepare(r, e).why = "launch" /\ Prepare(r, e).who = r
           /\ Prepare(r, e).at = "spawn" => ~e
  BY DEF Prepare, Op, Ops, Reasons

\* A restored workspace lets the launch go on, or ends the undo or the boot.
LEMMA RestoredOp ==
    ASSUME OpInv, Restored
    PROVE  /\ op' \in [who : Runs \cup {None}, at : Ops, why : Reasons]
           /\ op'.at \in {"none", "ledgerOn", "spawn"}
           /\ op'.at \in LaunchSteps => op'.why = "launch"
           /\ op'.why = "launch" => op'.who \in Runs
           /\ op'.at = "spawn" => op'.who \notin exempt
<1>1. CASE op.why = "launch"
  <2>1. op.who \in Runs /\ op' = Prepare(op.who, op.who \in exempt)
    BY <1>1 DEF OpInv, Restored
  <2>. QED BY <1>1, <2>1, PrepareLaunches DEF OpInv, TypeOK, LaunchSteps, NoOp
<1>2. CASE op.why # "launch"
  BY <1>2 DEF OpInv, Restored, NoOp, TypeOK, Ops, Reasons, LaunchSteps
<1>. QED BY <1>1, <1>2

\* A snapshot that is being removed stays well formed and loses what it has.
LEMMA DroppedSnapshot ==
    ASSUME snap \in Snapshots, DropSnapshot
    PROVE  /\ snap' \in Snapshots
           /\ snap'.copy \in {NoDir, snap.copy}
           /\ snap' = NoSnap \/ snap'.made = snap.made
<1>1. NoDir \in Trees /\ NoSnap \in Snapshots /\ NoSnap.copy = NoDir
  BY DEF NoSnap, Snapshots, Trees
<1>2. CASE snap' = [snap EXCEPT !.copy = NoDir]
  BY <1>1, <1>2 DEF Snapshots
<1>3. CASE snap' = [snap EXCEPT !.written = FALSE, !.hash = NoDir]
  BY <1>1, <1>3 DEF Snapshots
<1>4. CASE snap' = NoSnap
  BY <1>1, <1>4
<1>. QED BY <1>2, <1>3, <1>4 DEF DropSnapshot

\* Files written over the workspace copy leave what was there.
LEMMA WithTree ==
    ASSUME ws \in Trees, NEW files \in SUBSET (Runs \cup {Default})
    PROVE  With(files) \in Trees /\ Exemptions(With(files)) = Exemptions(ws) \cup Exemptions(files)
<1>1. CASE ws = NoDir
  <2>1. With(files) = files
    BY <1>1 DEF With
  <2>. QED BY <1>1, <2>1, ScopeAssumption DEF Trees, Exemptions
<1>2. CASE ws # NoDir
  <2>1. With(files) = ws \cup files /\ ws \in SUBSET (Runs \cup {Default})
    BY <1>2 DEF With, Trees
  <2>2. With(files) \in SUBSET (Runs \cup {Default})
    BY <2>1
  <2>. QED BY <1>2, <2>1, <2>2, ScopeAssumption DEF Trees, Exemptions
<1>. QED BY <1>1, <1>2

LEMMA OpStep == OpInv /\ [Next]_vars => OpInv'
<1> SUFFICES ASSUME OpInv, [Next]_vars PROVE OpInv'
  OBVIOUS
<1> USE ScopeAssumption DEF OpInv, TypeOK
<1>1. CASE TakeSnapshot
  <2>1. CASE LedgerOn
    BY <2>1 DEF LedgerOn, At, Goto, runVars, LaunchSteps, Ops, Unclosed
  <2>2. CASE MakeSnapshot
    BY <2>2 DEF MakeSnapshot, At, Goto, runVars, LaunchSteps, Ops, NoSnap, Snapshots, Trees, Unclosed
  <2>3. CASE CopyToSnapshot
    <3>1. snap' \in Snapshots
      <4>1. \A part \in SUBSET ws : ws # NoDir => part \in Trees
        BY DEF Trees
      <4>. QED BY <2>3, <4>1 DEF CopyToSnapshot, Snapshots
    <3>. QED BY <2>3, <3>1 DEF CopyToSnapshot, At, Goto, runVars, LaunchSteps, Ops, Unclosed
  <2>4. CASE WriteState
    BY <2>4 DEF WriteState, At, Goto, LaunchSteps, Ops, Snapshots, Unclosed
  <2>. QED BY <1>1, <2>1, <2>2, <2>3, <2>4 DEF TakeSnapshot
<1>2. CASE Restore
  <2>1. CASE NothingToRestore
    BY <1>2, <2>1, RestoredOp DEF NothingToRestore, At, runVars, Unclosed
  <2>2. CASE RemoveCopy
    <3>1. ws' \in Trees
      BY <2>2 DEF RemoveCopy, Trees
    <3>. QED BY <2>2, <3>1 DEF RemoveCopy, At, Goto, runVars, LaunchSteps, Ops, Unclosed
  <2>3. CASE PutBack
    <3>1. ws' \in Trees
      <4>1. snap.existed => snap.copy \in SUBSET (Runs \cup {Default})
        BY <2>3 DEF PutBack, Unreadable, Snapshots, Trees
      <4>. QED BY <2>3, <4>1, WithTree DEF PutBack
    <3>. QED BY <2>3, <3>1 DEF PutBack, At, Goto, runVars, LaunchSteps, Ops, Unclosed
  <2>4. CASE Verified
    BY <2>4 DEF Verified, At, Goto, runVars, LaunchSteps, Ops, Unclosed
  <2>5. CASE DropSnapshot
    BY <2>5, DroppedSnapshot DEF DropSnapshot, At, Goto, runVars, LaunchSteps, Ops, Unclosed
  <2>6. CASE LedgerOff
    BY <2>6, RestoredOp DEF LedgerOff, At, runVars, Unclosed
  <2>. QED BY <1>2, <2>1, <2>2, <2>3, <2>4, <2>5, <2>6 DEF Restore
<1>3. CASE StepFails
  BY <1>3 DEF StepFails, NotOk, NoOp, LaunchSteps, Ops, Reasons, Phases, Unclosed
<1>4. CASE Spawn
  BY <1>4 DEF Spawn, At, NoOp, LaunchSteps, Ops, Reasons, Phases
<1>5. CASE BeforeSpawnFails
  <2>1. op.who \in Runs
    BY <1>5 DEF BeforeSpawnFails, At, LaunchSteps
  <2>. QED BY <1>5, <2>1 DEF BeforeSpawnFails, Undo, Op, At, NoOp, LaunchSteps, Ops, Reasons, Phases
<1>6. ASSUME NEW r \in Runs, NEW e \in BOOLEAN, Launch(r, e) PROVE OpInv'
  BY <1>6, PrepareLaunches DEF Launch, Idle, Op, LaunchSteps, Ops, Reasons, Phases
<1>7. ASSUME NEW r \in Runs, ChildCopies(r) PROVE OpInv'
  <2>1. ws' \in Trees
    BY <1>7, WithTree DEF ChildCopies
  <2>. QED BY <1>7, <2>1 DEF ChildCopies, Unclosed
<1>8. ASSUME NEW r \in Runs, ChildExits(r) \/ Stop(r) PROVE OpInv'
  BY <1>8 DEF ChildExits, Stop, Idle, Phases
<1>9. ASSUME NEW r \in Runs, Close(r) PROVE OpInv'
  BY <1>9 DEF Close, Undo, Idle, Op, NoOp, LaunchSteps, Ops, Reasons, Phases
<1>10. CASE Crash
  BY <1>10 DEF Crash, NoOp, LaunchSteps, Ops, Reasons, Phases, Unclosed
<1>11. CASE Boot
  BY <1>11 DEF Boot, Op, NoOp, LaunchSteps, Ops, Reasons
<1>12. CASE UNCHANGED vars
  BY <1>12 DEF vars, runVars, Unclosed
<1>. QED
  BY <1>1, <1>2, <1>3, <1>4, <1>5, <1>6, <1>7, <1>8, <1>9, <1>10, <1>11, <1>12 DEF Next

LEMMA InitialOp == Init => OpInv
<1>1. {NoDir, {Default}} \subseteq Trees /\ NoSnap \in Snapshots
  BY DEF Trees, NoSnap, Snapshots
<1>2. NoOp \in [who : Runs \cup {None}, at : Ops, why : Reasons]
  BY DEF NoOp, Ops, Reasons
<1>3. Init => TypeOK
  BY <1>1, <1>2, ScopeAssumption DEF Init, TypeOK, Phases
<1>4. Init => op = NoOp /\ NoOp.at = "none" /\ NoOp.why = "none" /\ up /\ exempt = {}
  BY DEF Init, NoOp
<1>. QED BY <1>3, <1>4 DEF OpInv, LaunchSteps

\* Types are kept through every crash and every failed file operation.
THEOREM ScopeTypes == Spec => []TypeOK
<1>1. OpInv => TypeOK
  BY DEF OpInv
<1>. QED BY <1>1, InitialOp, OpStep, PTL DEF Spec

-----------------------------------------------------------------------------
(* The ledger *)

LEMMA LedgerStep == OpInv /\ LedgerInv /\ [Next]_vars => LedgerInv'
<1> SUFFICES ASSUME OpInv, LedgerInv, [Next]_vars PROVE LedgerInv'
  OBVIOUS
<1>0. op \in [who : Runs \cup {None}, at : Ops, why : Reasons] /\ snap \in Snapshots
  BY DEF OpInv, TypeOK
<1> USE <1>0 DEF LedgerInv
<1>1. CASE LedgerOn \/ MakeSnapshot
  BY <1>1 DEF LedgerOn, MakeSnapshot, At, Goto, NoSnap, PendingSnapshot
<1>2. CASE CopyToSnapshot \/ WriteState
  BY <1>2 DEF CopyToSnapshot, WriteState, At, Goto, Snapshots
<1>3. CASE NothingToRestore \/ LedgerOff
  <2>1. Restored /\ ~snap.made /\ snap' = snap
    BY <1>3 DEF NothingToRestore, LedgerOff, At, PendingSnapshot
  <2>2. op'.at \in {"none", "ledgerOn", "spawn"}
    BY <2>1, RestoredOp
  <2>. QED BY <2>1, <2>2
<1>4. CASE RemoveCopy \/ PutBack \/ Verified
  BY <1>4 DEF RemoveCopy, PutBack, Verified, At, Goto
<1>5. CASE DropSnapshot
  <2>1. snap' = NoSnap \/ snap'.made = snap.made
    BY <1>5, DroppedSnapshot
  <2>. QED BY <1>5, <2>1 DEF DropSnapshot, At, Goto, NoSnap
<1>6. CASE StepFails
  BY <1>6 DEF StepFails, NotOk, NoOp
<1>7. CASE Spawn \/ BeforeSpawnFails
  BY <1>7 DEF Spawn, BeforeSpawnFails, Undo, Op, NoOp
<1>8. ASSUME NEW r \in Runs, NEW e \in BOOLEAN, Launch(r, e) PROVE LedgerInv'
  BY <1>8, PrepareLaunches DEF Launch, Op
<1>9. ASSUME NEW r \in Runs, ChildCopies(r) \/ ChildExits(r) \/ Stop(r) PROVE LedgerInv'
  BY <1>9 DEF ChildCopies, ChildExits, Stop
<1>10. ASSUME NEW r \in Runs, Close(r) PROVE LedgerInv'
  BY <1>10 DEF Close, Undo, Op, NoOp
<1>11. CASE Crash \/ Boot
  BY <1>11 DEF Crash, Boot, Op, NoOp
<1>12. CASE UNCHANGED vars
  BY <1>12 DEF vars, runVars
<1>. QED
  BY <1>1, <1>2, <1>3, <1>4, <1>5, <1>6, <1>7, <1>8, <1>9, <1>10, <1>11, <1>12
  DEF Next, TakeSnapshot, Restore

LEMMA InitialScope == Init => IInv
<1>1. Init => OpInv
  BY InitialOp
<1>2. Init => LedgerInv
  BY DEF Init, LedgerInv, NoSnap, NoOp
<1>3. Init => ScopeInv
  <2>1. Exemptions(NoDir) = {} /\ Exemptions({Default}) = {}
    BY ScopeAssumption DEF Exemptions
  <2>. QED BY <2>1 DEF Init, ScopeInv, NoSnap, NoOp, Unclosed
<1>. QED BY <1>1, <1>2, <1>3 DEF IInv

\* The boot finds every snapshot a crash or an error left, since whatever step it fell
\* on the workspace was in the ledger.
THEOREM SnapshotsAreLedgered == Spec => []LedgerCoversSnapshots
<1>1. OpInv /\ LedgerInv /\ [Next]_vars => (OpInv /\ LedgerInv)'
  BY OpStep, LedgerStep
<1>2. Init => OpInv /\ LedgerInv
  BY InitialScope DEF IInv
<1>3. LedgerInv => LedgerCoversSnapshots
  BY DEF LedgerInv, LedgerCoversSnapshots
<1>. QED BY <1>1, <1>2, <1>3, PTL DEF Spec

-----------------------------------------------------------------------------
(* The workspace *)

\* A handler at a step other than its first look has left no child beside it.
LEMMA ScopeStep == OpInv /\ LedgerInv /\ ScopeInv /\ [Next]_vars => ScopeInv'
<1> SUFFICES ASSUME OpInv, LedgerInv, ScopeInv, [Next]_vars, ~overlap' PROVE ScopeInv'
  BY DEF ScopeInv
<1>0. /\ op \in [who : Runs \cup {None}, at : Ops, why : Reasons] /\ snap \in Snapshots
      /\ ws \in Trees /\ phase \in [Runs -> Phases]
  BY DEF OpInv, TypeOK
<1>00. ~overlap
  BY DEF Next, TakeSnapshot, Restore, LedgerOn, MakeSnapshot, CopyToSnapshot, WriteState, NothingToRestore,
     RemoveCopy, PutBack, Verified, DropSnapshot, LedgerOff, StepFails, Spawn, BeforeSpawnFails, Launch,
     ChildCopies, ChildExits, Stop, Close, Crash, Boot, runVars, vars
<1> USE <1>0, <1>00 DEF ScopeInv
<1>A. NoOp.at = "none"
  BY DEF NoOp
<1>1. CASE LedgerOn
  BY <1>1, <1>A DEF LedgerOn, At, Goto, runVars, Unclosed, Whole
<1>2. CASE MakeSnapshot
  BY <1>2, <1>A DEF MakeSnapshot, At, Goto, runVars, Unclosed, NoSnap, Exemptions
<1>3. CASE CopyToSnapshot
  <2>1. Exemptions(ws) = {} /\ (\A r \in Runs : ~Unclosed(r)) /\ snap.made /\ UNCHANGED <<ws, runVars>>
    BY <1>3, <1>A DEF CopyToSnapshot, At
  <2>2. CASE op.at = "copy" /\ snap' = [snap EXCEPT !.copy = ws, !.existed = (ws # NoDir)] /\ Goto("state")
    BY <2>1, <2>2 DEF Goto, runVars, Unclosed, Snapshots
  <2>3. ASSUME NEW part \in SUBSET ws, ws # NoDir, snap' = [snap EXCEPT !.copy = part], UNCHANGED op, op.at = "copy"
        PROVE  ScopeInv'
    <3>1. Exemptions(part) = {}
      BY <2>1, <2>3 DEF Exemptions
    <3>2. snap'.copy = part /\ snap'.made
      BY <2>1, <2>3 DEF Snapshots
    <3>. QED BY <2>1, <2>3, <3>1, <3>2 DEF runVars, Unclosed
  <2>. QED BY <1>3, <2>2, <2>3 DEF CopyToSnapshot, At
<1>4. CASE WriteState
  BY <1>4, <1>A DEF WriteState, At, Goto, Unclosed, Snapshots, Whole
<1>5. CASE NothingToRestore \/ LedgerOff
  <2>1. /\ Restored /\ Exemptions(ws) = {} /\ UNCHANGED <<ws, snap, runVars>> /\ op.at \in {"look", "ledgerOff"}
    BY <1>5 DEF NothingToRestore, LedgerOff, At, PendingSnapshot, Whole
  <2>2. op'.at \in {"none", "ledgerOn", "spawn"} /\ (op'.at = "spawn" => op'.who \notin exempt)
    BY <2>1, RestoredOp
  <2>3. \A r \in Runs : ~Unclosed(r)
    BY <2>1, <1>A
  <2>. QED BY <2>1, <2>2, <2>3 DEF runVars, Unclosed
<1>6. CASE RemoveCopy
  <2>1. /\ (\A r \in Runs : ~Unclosed(r)) /\ UNCHANGED <<snap, runVars>> /\ op'.at \in {"look", "putBack"}
        /\ op'.at = "putBack" => ws' = NoDir
        /\ ws' # NoDir => ws # NoDir /\ ws' \in SUBSET ws
    <3>1. CASE ws' = NoDir /\ Goto("putBack")
      <4>1. op'.at = "putBack"
        BY <3>1 DEF Goto
      <4>. QED BY <1>6, <1>A, <3>1, <4>1 DEF RemoveCopy, At
    <3>2. CASE ws # NoDir /\ ws' \in SUBSET ws /\ UNCHANGED op
      BY <1>6, <1>A, <3>2, ScopeAssumption DEF RemoveCopy, At, Trees
    <3>. QED BY <1>6, <3>1, <3>2 DEF RemoveCopy
  <2>2. Exemptions(ws') \subseteq Exemptions(ws) /\ (ws' = NoDir => Exemptions(ws') = {})
    BY <2>1 DEF Exemptions
  <2>. QED BY <2>1, <2>2 DEF runVars, Unclosed, Whole
<1>7. CASE PutBack
  <2>1. Exemptions(ws') = {}
    <3>1. Exemptions(ws) = {} /\ Exemptions(snap.copy) = {}
      BY <1>7, <1>A DEF PutBack, At
    <3>2. snap.existed => snap.copy \in SUBSET (Runs \cup {Default}) /\ snap.copy # NoDir
      BY <1>7 DEF PutBack, Unreadable, Snapshots, Trees
    <3>3. \A part \in SUBSET snap.copy : snap.existed => Exemptions(part) = {}
      BY <3>1, <3>2 DEF Exemptions
    <3>4. \A part \in SUBSET snap.copy : snap.existed => Exemptions(With(part)) = {}
      BY <3>1, <3>2, <3>3, WithTree
    <3>. QED BY <1>7, <3>1, <3>2, <3>4 DEF PutBack
  <2>. QED BY <1>7, <1>A, <2>1 DEF PutBack, At, Goto, runVars, Unclosed
<1>8. CASE Verified
  BY <1>8, <1>A DEF Verified, At, Goto, runVars, Unclosed
<1>9. CASE DropSnapshot
  <2>1. Exemptions(snap'.copy) = {}
    BY <1>9, DroppedSnapshot DEF Exemptions
  <2>2. /\ Exemptions(ws) = {} /\ (\A r \in Runs : ~Unclosed(r)) /\ UNCHANGED <<ws, runVars>>
        /\ op'.at \in {"drop", "ledgerOff"}
    BY <1>9, <1>A DEF DropSnapshot, At, Goto
  <2>. QED BY <2>1, <2>2 DEF runVars, Unclosed
<1>10. CASE StepFails
  BY <1>10, <1>A DEF StepFails, NotOk, Unclosed
<1>11. CASE Spawn
  BY <1>11, <1>A DEF Spawn, At, Unclosed
<1>12. CASE BeforeSpawnFails
  BY <1>12, <1>A DEF BeforeSpawnFails, Undo, Op, At, Unclosed
<1>13. ASSUME NEW r \in Runs, NEW e \in BOOLEAN, Launch(r, e) PROVE ScopeInv'
  <2>1. \A k \in Runs : ~Unclosed(k) /\ ~(Unclosed(k)')
    BY <1>13 DEF Launch, Unclosed
  <2>2. /\ snap' = snap /\ ws' = ws /\ r \notin exempt
        /\ exempt' = IF e THEN exempt \cup {r} ELSE exempt
    BY <1>13 DEF Launch, OpInv
  <2>3. CASE PendingSnapshot
    BY <1>13, <2>1, <2>2, <2>3 DEF Launch, Op
  <2>4. CASE ~PendingSnapshot
    <3>1. Exemptions(ws) = {}
      BY <2>4 DEF PendingSnapshot, Whole
    <3>2. op' = Prepare(r, e)
      BY <1>13, <2>4 DEF Launch
    <3>3. op'.at \in {"ledgerOn", "spawn"} /\ (op'.at = "spawn" => op'.who \notin exempt')
      BY <2>2, <3>2, PrepareLaunches
    <3>. QED BY <2>1, <2>2, <3>1, <3>3
  <2>. QED BY <2>3, <2>4
<1>14. ASSUME NEW r \in Runs, ChildCopies(r) PROVE ScopeInv'
  <2>1. Unclosed(r) /\ op = NoOp /\ op' = op /\ snap' = snap /\ phase' = phase /\ exempt' = exempt
    BY <1>14 DEF ChildCopies, Unclosed
  <2>2. Exemptions(ws') # {} => Whole(snap)
    <3>1. CASE r \in exempt
      BY <2>1, <3>1
    <3>2. CASE r \notin exempt
      <4>1. Exemptions(ws') \subseteq Exemptions(ws)
        <5>1. Exemptions({Default}) = {}
          BY ScopeAssumption DEF Exemptions
        <5>. QED BY <1>14, <3>2, <5>1, WithTree DEF ChildCopies
      <4>. QED BY <4>1
    <3>. QED BY <3>1, <3>2
  <2>. QED BY <2>1, <2>2, <1>A DEF Unclosed
<1>15. ASSUME NEW r \in Runs, ChildExits(r) \/ Stop(r) PROVE ScopeInv'
  BY <1>15 DEF ChildExits, Stop, Unclosed
<1>16. ASSUME NEW r \in Runs, Close(r) PROVE ScopeInv'
  <2>1. \A k \in Runs : ~(Unclosed(k)')
    BY <1>16 DEF Close, Unclosed
  <2>2. snap' = snap /\ ws' = ws /\ op'.at \in {"look", "none"}
    BY <1>16, <1>A DEF Close, Undo, Op
  <2>. QED BY <2>1, <2>2
<1>17. CASE Crash
  BY <1>17, <1>A DEF Crash, Unclosed
<1>18. CASE Boot
  BY <1>18, <1>A DEF Boot, Op, OpInv, Unclosed
<1>19. CASE UNCHANGED vars
  BY <1>19 DEF vars, Unclosed
<1>. QED
  BY <1>1, <1>2, <1>3, <1>4, <1>5, <1>6, <1>7, <1>8, <1>9, <1>10, <1>11, <1>12, <1>13, <1>14, <1>15,
     <1>16, <1>17, <1>18, <1>19
  DEF Next, TakeSnapshot, Restore

LEMMA Inductive == Spec => []IInv
<1>1. IInv /\ [Next]_vars => IInv'
  BY OpStep, LedgerStep, ScopeStep DEF IInv
<1>. QED BY <1>1, InitialScope, PTL DEF Spec

\* An exemption in the workspace can always be undone: there is a whole snapshot without
\* one, unless runs overlapped.
THEOREM ExemptionsAreUndoable == Spec => []WeakIsUndoable
<1>1. IInv => WeakIsUndoable
  BY DEF IInv, ScopeInv, WeakIsUndoable
<1>. QED BY <1>1, Inductive, PTL

\* No run is spawned on a workspace that still holds an exemption, unless runs overlapped.
THEOREM RunsStartClean == Spec => NoRunOnWeakWorkspace
<1>1. ASSUME IInv, Next, NEW r \in Runs, phase[r] # "alive", phase'[r] = "alive", ~overlap
      PROVE  Exemptions(ws) = {}
  <2>1. phase \in [Runs -> Phases]
    BY <1>1 DEF IInv, OpInv, TypeOK
  <2>2. Spawn
    BY <1>1, <2>1 DEF Next, TakeSnapshot, Restore, LedgerOn, MakeSnapshot, CopyToSnapshot, WriteState,
       NothingToRestore, RemoveCopy, PutBack, Verified, DropSnapshot, LedgerOff, StepFails, NotOk,
       BeforeSpawnFails, Launch, ChildCopies, ChildExits, Stop, Close, Crash, Boot, runVars
  <2>. QED BY <1>1, <2>2 DEF Spawn, At, IInv, ScopeInv
<1>2. IInv /\ [Next]_vars =>
        [\A r \in Runs : phase[r] # "alive" /\ phase'[r] = "alive" /\ ~overlap => Exemptions(ws) = {}]_vars
  BY <1>1
<1>. QED BY <1>2, Inductive, PTL DEF Spec, NoRunOnWeakWorkspace

-----------------------------------------------------------------------------
(* A stopped run's child is awaited *)

\* The slot is taken only when no child is left and no close event is queued.
AwaitsChildren == slot = None /\ slot' # None => \A k \in Runs : ~Unclosed(k)

LEMMA NoOverlapStep == OpInv /\ ~overlap /\ [Next]_vars /\ [AwaitsChildren]_vars => ~overlap'
<1> SUFFICES ASSUME OpInv, ~overlap, [Next]_vars, [AwaitsChildren]_vars PROVE ~overlap'
  OBVIOUS
<1>1. ASSUME NEW r \in Runs, NEW e \in BOOLEAN, Launch(r, e) PROVE ~overlap'
  <2>1. slot = None /\ slot' = r /\ r # None /\ overlap' = (overlap \/ \E k \in Runs : Unclosed(k))
    BY <1>1, ScopeAssumption DEF Launch
  <2>2. \A k \in Runs : ~Unclosed(k)
    BY <2>1 DEF AwaitsChildren, vars
  <2>. QED BY <2>1, <2>2
<1>2. ASSUME NEW r \in Runs, ChildCopies(r) \/ ChildExits(r) \/ Stop(r) \/ Close(r) PROVE ~overlap'
  BY <1>2 DEF ChildCopies, ChildExits, Stop, Close
<1>3. CASE TakeSnapshot \/ Restore \/ StepFails \/ Spawn \/ BeforeSpawnFails
  BY <1>3 DEF TakeSnapshot, Restore, LedgerOn, MakeSnapshot, CopyToSnapshot, WriteState, NothingToRestore, RemoveCopy,
     PutBack, Verified, DropSnapshot, LedgerOff, StepFails, Spawn, BeforeSpawnFails, runVars
<1>4. CASE Crash \/ Boot \/ UNCHANGED vars
  BY <1>4 DEF Crash, Boot, vars
<1>. QED BY <1>1, <1>2, <1>3, <1>4 DEF Next

\* Where a run is launched only after the child of a stopped one has closed, an
\* exemption in the workspace always has a whole snapshot without one, and every run
\* starts on a workspace without one.
THEOREM AwaitedRunsAreScoped ==
    Spec /\ [][AwaitsChildren]_vars =>
        /\ [](Exemptions(ws) # {} => Whole(snap) /\ Exemptions(snap.copy) = {})
        /\ [][\A r \in Runs : phase[r] # "alive" /\ phase'[r] = "alive" => Exemptions(ws) = {}]_vars
<1>1. Init => ~overlap
  BY DEF Init
<1>2. IInv /\ ~overlap /\ [Next]_vars /\ [AwaitsChildren]_vars => ~overlap'
  BY NoOverlapStep DEF IInv
<1>3. Spec /\ [][AwaitsChildren]_vars => []~overlap
  BY <1>1, <1>2, Inductive, PTL DEF Spec
<1>4. WeakIsUndoable /\ ~overlap => (Exemptions(ws) # {} => Whole(snap) /\ Exemptions(snap.copy) = {})
  BY DEF WeakIsUndoable
<1>5. ~overlap /\ [\A r \in Runs : phase[r] # "alive" /\ phase'[r] = "alive" /\ ~overlap => Exemptions(ws) = {}]_vars
        => [\A r \in Runs : phase[r] # "alive" /\ phase'[r] = "alive" => Exemptions(ws) = {}]_vars
  OBVIOUS
<1>. QED BY <1>3, <1>4, <1>5, ExemptionsAreUndoable, RunsStartClean, PTL DEF NoRunOnWeakWorkspace
=============================================================================
