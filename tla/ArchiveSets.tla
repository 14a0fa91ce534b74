----------------------------- MODULE ArchiveSets -----------------------------
(***************************************************************************)
(* Where the archives of one profile's mirror-to-disk runs are kept        *)
(* (mirroringArchives.js), the hooks around each oc-mirror run             *)
(* (m2dArchiveHooks), the signature retry that shares its parent's hooks   *)
(* and plan, and the preparation of a transfer from what is there.         *)
(*                                                                         *)
(* The archives of a run are one thing named after the run that wrote      *)
(* them.  oc-mirror (external) removes the archives at the top level of    *)
(* its destination when it starts, a dry run too, and writes its own there.*)
(***************************************************************************)
EXTENDS Naturals, Sequences, FiniteSets, SequencesExt

CONSTANTS
    Runs,   \* oc-mirror-run rows of the profile
    None    \* nothing, nobody

ASSUME ArchiveAssumption == None \notin Runs

VARIABLES
    status,      \* the job row
    kind,        \* "real" or "dry"
    child,       \* none, spawned, emptied, written, ended, closed
    exit,        \* none, ok (code 0), warn (every release image there), fail
    plan,        \* the plan a run executes, named after the run it was made for
    seen,        \* profile.history as the run's hooks captured it
    history,     \* profile.history
    archiveSet,  \* runs whose record names a set of their own
    top,         \* whose archives are at the top level of the archive directory
    sets,        \* whose archives are in sets/<planId>
    preserved,   \* whose archives are in preserved/
    destroyed,   \* whose archives oc-mirror deleted or overwrote
    slot,        \* the run that holds the oc-mirror run slot
    transfer,    \* the run whose transfer is being prepared, and from where
    prepared,    \* the last transfer: of which run, from where, whose archives it holds
    overlap,     \* a run was launched before a stopped run's child had closed
    up           \* the backend process runs

vars == <<status, kind, child, exit, plan, seen, history, archiveSet, top, sets,
          preserved, destroyed, slot, transfer, prepared, overlap, up>>
placeVars == <<archiveSet, top, sets, preserved>>
askVars   == <<kind, plan, seen, transfer, prepared>>

Statuses == {"absent", "queued", "running", "completed", "completed_with_warnings",
             "failed", "cancelled", "deleted"}
Succeeded == {"completed", "completed_with_warnings"}
NoTransfer == [of |-> None, from |-> "none"]
Unprepared == [of |-> None, from |-> "none", holds |-> None]

Unclosed(r) == child[r] \in {"spawned", "emptied", "written", "ended"}

-----------------------------------------------------------------------------
(* mirroringArchives.js and the hooks *)

\* Latest in a history of the runs that satisfy Good, or None.
LatestIn(h, Good) ==
    LET at == {i \in DOMAIN h : h[i] \in Good} IN IF at = {} THEN None ELSE h[Max(at)]

\* The latest successful real run the hooks know of, unless it has a set already.
Owner(r) ==
    LET k == LatestIn(seen[r], {q \in Runs \ {r} : kind[q] = "real" /\ status[q] \in Succeeded}) IN
    IF k \in archiveSet THEN None ELSE k

\* Wrong form of SetFor: the owner's set takes the archives whatever it holds.
SetForAny(r) == IF top = None THEN None ELSE Owner(r)

\* The run whose set takes what is at the top level: its owner, if its set is empty.
SetFor(r) ==
    LET k == Owner(r) IN IF top # None /\ k # None /\ sets[plan[k]] = None THEN k ELSE None

\* moveInto the set of a run: broken off between two files, done, or done and recorded.
MoveOutcomes == {"part", "moved", "recorded"}

MoveToSet(k, outcome) ==
    /\ sets' = [sets EXCEPT ![plan[k]] = top]
    /\ top' = IF outcome = "part" THEN top ELSE None
    /\ archiveSet' = IF outcome = "recorded" THEN archiveSet \cup {k} ELSE archiveSet
    /\ UNCHANGED preserved

\* Wrong form of ProtectBeforeRun: only archives with a known owner are moved.
ProtectOwned(r) ==
    IF SetFor(r) # None THEN MoveToSet(SetFor(r), "recorded") ELSE UNCHANGED placeVars

\* beforeSpawn: what is at the top level moves into its owner's set, else into preserved/.
ProtectBeforeRun(r) ==
    IF SetFor(r) # None
    THEN MoveToSet(SetFor(r), "recorded")
    ELSE /\ top' = None
         /\ preserved' = IF top = None THEN preserved ELSE preserved \cup {top}
         /\ UNCHANGED <<sets, archiveSet>>

\* beforeSpawn throws: nothing has moved, some files have, or all have.
ProtectBreaksOff(r) ==
    \/ UNCHANGED placeVars
    \/ SetFor(r) # None /\ \E outcome \in MoveOutcomes : MoveToSet(SetFor(r), outcome)
    \/ /\ SetFor(r) = None /\ top # None
       /\ top' \in {top, None}
       /\ preserved' = preserved \cup {top}
       /\ UNCHANGED <<sets, archiveSet>>

\* afterSuccess, for a real run that exited 0: its archives go into the plan's set if that
\* is empty.  A throw before, between or after the renames is swallowed, and the run is
\* recorded as completed all the same.
KeepRunArchives(r) ==
    \/ /\ exit[r] = "ok" /\ kind[r] = "real" /\ top # None /\ sets[plan[r]] = None
       /\ \E outcome \in MoveOutcomes : MoveToSet(r, outcome)
    \/ UNCHANGED placeVars

-----------------------------------------------------------------------------
(* A run *)

\* POST .../run: the profile is read, the slot reserved; the plan is awaited.
Request(r, k) ==
    /\ up /\ slot = None /\ status[r] = "absent"
    /\ slot' = r
    /\ status' = [status EXCEPT ![r] = "queued"]
    /\ kind' = [kind EXCEPT ![r] = k]
    /\ plan' = [plan EXCEPT ![r] = r]
    /\ seen' = [seen EXCEPT ![r] = history]
    /\ UNCHANGED <<child, exit, history, placeVars, destroyed, transfer, prepared, overlap, up>>

\* beforeSpawn, spawn, and the entry in the profile's history.
Launch(r) ==
    /\ up /\ status[r] = "queued" /\ slot = r
    /\ ProtectBeforeRun(r)
    /\ status' = [status EXCEPT ![r] = "running"]
    /\ child' = [child EXCEPT ![r] = "spawned"]
    /\ history' = Append(history, r)
    /\ overlap' = (overlap \/ \E k \in Runs : Unclosed(k))
    /\ UNCHANGED <<exit, destroyed, slot, askVars, up>>

\* The binary or the plan is not to be had, or the hooks throw: the run is not started.
LaunchFails(r) ==
    /\ up /\ status[r] = "queued" /\ slot = r
    /\ ProtectBreaksOff(r)
    /\ status' = [status EXCEPT ![r] = "failed"]
    /\ slot' = None
    /\ history' = Append(history, r)
    /\ UNCHANGED <<child, exit, destroyed, askVars, overlap, up>>

\* oc-mirror starts by deleting the archives in its destination.
ChildEmpties(r) ==
    /\ up /\ child[r] = "spawned"
    /\ child' = [child EXCEPT ![r] = "emptied"]
    /\ destroyed' = IF top = None THEN destroyed ELSE destroyed \cup {top}
    /\ top' = None
    /\ UNCHANGED <<status, exit, history, archiveSet, sets, preserved, slot, askVars, overlap, up>>

\* The archives are built at the end of a real run, under the same file names.
ChildWrites(r) ==
    /\ up /\ child[r] = "emptied" /\ kind[r] = "real"
    /\ child' = [child EXCEPT ![r] = "written"]
    /\ destroyed' = IF top = None THEN destroyed ELSE destroyed \cup {top}
    /\ top' = r
    /\ UNCHANGED <<status, exit, history, archiveSet, sets, preserved, slot, askVars, overlap, up>>

\* Only a run whose archives were built exits 0; the output of one that did not may
\* still show every release image.
ChildEnds(r, code) ==
    /\ up /\ child[r] \in {"spawned", "emptied", "written"}
    /\ code = "ok" => child[r] = "written" \/ (kind[r] = "dry" /\ child[r] = "emptied")
    /\ code = "warn" => child[r] # "spawned"
    /\ exit' = [exit EXCEPT ![r] = code]
    /\ child' = [child EXCEPT ![r] = "ended"]
    /\ UNCHANGED <<status, history, placeVars, destroyed, slot, askVars, overlap, up>>

\* Wrong form of StatusOf: what the child reported is stored as the status.
StatusOfRaw(code) == code

\* classifyOcMirrorExit: an exit code other than 0 is a warning when the output shows
\* every release image and some operators.
StatusOf(code) ==
    CASE code = "ok" -> "completed" [] code = "warn" -> "completed_with_warnings" [] OTHER -> "failed"

Settled(r) == [status EXCEPT ![r] = IF @ = "running" THEN StatusOf(exit[r]) ELSE @]

\* The close event: afterSuccess also for a run that was stopped, then the outcome.
Close(r) ==
    /\ up /\ child[r] = "ended"
    /\ KeepRunArchives(r)
    /\ status' = Settled(r)
    /\ child' = [child EXCEPT ![r] = "closed"]
    /\ slot' = IF slot = r THEN None ELSE slot
    /\ UNCHANGED <<exit, history, destroyed, askVars, overlap, up>>

\* The same with signature failures: the retry shares the plan and the hooks, and
\* with them the history its parent captured.
CloseAndRetry(r, q) ==
    /\ up /\ child[r] = "ended" /\ status[r] = "running" /\ slot = r
    /\ exit[r] # "ok" /\ kind[r] = "real" /\ plan[r] = r
    /\ status[q] = "absent"
    /\ status' = [Settled(r) EXCEPT ![q] = "queued"]
    /\ child' = [child EXCEPT ![r] = "closed"]
    /\ kind' = [kind EXCEPT ![q] = "real"]
    /\ plan' = [plan EXCEPT ![q] = plan[r]]
    /\ seen' = [seen EXCEPT ![q] = seen[r]]
    /\ slot' = q
    /\ UNCHANGED <<exit, history, placeVars, destroyed, transfer, prepared, overlap, up>>

\* Stop and Start Over: the slot is free although the child has not closed yet.
Stop(r) ==
    /\ up /\ slot = r /\ status[r] = "running"
    /\ slot' = None
    /\ status' = [status EXCEPT ![r] = "cancelled"]
    /\ UNCHANGED <<child, exit, history, placeVars, destroyed, askVars, overlap, up>>

\* DELETE /api/jobs: a row goes, its id stays in the profile's history.
Forget(r) ==
    /\ up /\ status[r] \in {"completed", "failed", "cancelled"} /\ ~Unclosed(r)
    /\ status' = [status EXCEPT ![r] = "deleted"]
    /\ UNCHANGED <<child, exit, history, placeVars, destroyed, slot, askVars, overlap, up>>

-----------------------------------------------------------------------------
(* POST .../transfer *)

\* Runs after r in the history whose archives replaced r's.
Later(r) ==
    LET i == CHOOSE n \in DOMAIN history : history[n] = r IN
    {history[n] : n \in {m \in DOMAIN history : m > i /\ kind[history[m]] = "real"
                            /\ status[history[m]] \notin {"failed", "cancelled", "deleted"}}}

\* Where the transfer of a run is prepared from.
Source(r) == IF r \in archiveSet THEN "set" ELSE "top"

Found(of, from) == IF from = "set" THEN sets[plan[of]] ELSE top

\* The checks of the route, and the listing of the archive files.
BeginTransfer(r) ==
    /\ up /\ transfer = NoTransfer
    /\ status[r] \in Succeeded /\ kind[r] = "real"
    /\ \A k \in Runs : status[k] # "running"
    /\ r \in archiveSet \/ Later(r) = {}
    /\ Found(r, Source(r)) # None
    /\ transfer' = [of |-> r, from |-> Source(r)]
    /\ UNCHANGED <<status, kind, child, exit, plan, seen, history, placeVars, destroyed,
                   slot, prepared, overlap, up>>

\* prepareTransfer hashes the listed names one after the other, whatever they hold by
\* then; POST .../run does not wait for it.
EndTransfer ==
    /\ up /\ transfer # NoTransfer
    /\ LET found == Found(transfer.of, transfer.from) IN
       prepared' = IF found = None THEN prepared
                   ELSE [of |-> transfer.of, from |-> transfer.from, holds |-> found]
    /\ transfer' = NoTransfer
    /\ UNCHANGED <<status, kind, child, exit, plan, seen, history, placeVars, destroyed,
                   slot, overlap, up>>

-----------------------------------------------------------------------------
\* The process and its children end; what they had written is on the disk.
Crash ==
    /\ up
    /\ up' = FALSE /\ slot' = None /\ transfer' = NoTransfer
    /\ child' = [r \in Runs |-> IF Unclosed(r) THEN "closed" ELSE child[r]]
    /\ UNCHANGED <<status, kind, exit, plan, seen, history, placeVars, destroyed, prepared, overlap>>

\* markStaleJobs.
Boot ==
    /\ ~up
    /\ up' = TRUE
    /\ status' = [r \in Runs |-> IF status[r] = "running" THEN "failed" ELSE status[r]]
    /\ UNCHANGED <<child, exit, history, placeVars, destroyed, slot, askVars, overlap>>

Init ==
    /\ status = [r \in Runs |-> "absent"] /\ kind = [r \in Runs |-> "none"]
    /\ child = [r \in Runs |-> "none"] /\ exit = [r \in Runs |-> "none"]
    /\ plan = [r \in Runs |-> None] /\ seen = [r \in Runs |-> <<>>]
    /\ history = <<>> /\ archiveSet = {}
    /\ top = None /\ sets = [r \in Runs |-> None] /\ preserved = {} /\ destroyed = {}
    /\ slot = None /\ transfer = NoTransfer /\ prepared = Unprepared
    /\ overlap = FALSE /\ up = TRUE

Next ==
    \/ \E r \in Runs :
         \/ \E k \in {"real", "dry"} : Request(r, k)
         \/ Launch(r) \/ LaunchFails(r)
         \/ ChildEmpties(r) \/ ChildWrites(r)
         \/ \E code \in {"ok", "warn", "fail"} : ChildEnds(r, code)
         \/ Close(r) \/ \E q \in Runs : CloseAndRetry(r, q)
         \/ Stop(r) \/ Forget(r) \/ BeginTransfer(r)
    \/ EndTransfer \/ Crash \/ Boot

Spec == Init /\ [][Next]_vars

-----------------------------------------------------------------------------
(* Properties *)

TypeOK ==
    /\ status \in [Runs -> Statuses] /\ kind \in [Runs -> {"none", "real", "dry"}]
    /\ child \in [Runs -> {"none", "spawned", "emptied", "written", "ended", "closed"}]
    /\ exit \in [Runs -> {"none", "ok", "warn", "fail"}]
    /\ plan \in [Runs -> Runs \cup {None}]
    /\ \A r \in Runs : IsInjective(seen[r]) /\ Range(seen[r]) \subseteq Runs
    /\ IsInjective(history) /\ Range(history) \subseteq Runs
    /\ archiveSet \subseteq Runs /\ top \in Runs \cup {None}
    /\ sets \in [Runs -> Runs \cup {None}]
    /\ preserved \subseteq Runs /\ destroyed \subseteq Runs
    /\ slot \in Runs \cup {None}
    /\ transfer \in [of : Runs \cup {None}, from : {"none", "set", "top"}]
    /\ prepared \in [of : Runs, from : {"set", "top"}, holds : Runs] \cup {Unprepared}
    /\ overlap \in BOOLEAN /\ up \in BOOLEAN

\* The archives of a run that succeeded are never deleted or overwritten by a later
\* oc-mirror, a dry run, a retry and a failed run included (E13); only a run launched
\* beside the child of a stopped one is not covered.
SucceededArchivesSurvive ==
    ~overlap => \A r \in destroyed : status[r] \notin Succeeded

\* A transfer read from the recorded set of a run that exited 0 holds that run's own
\* archives: whichever close or later launch filled the set, whatever failed between two
\* renames, was stopped, retried or ran in between.  A run whose set is not recorded is
\* read from the top level, where another run's archives can lie by then; so is not covered.
CleanTransferIsOwn ==
    ~overlap /\ prepared.from = "set" /\ exit[prepared.of] = "ok" => prepared.holds = prepared.of

-----------------------------------------------------------------------------
(* The service these runs are taken from *)

Service == INSTANCE RunService WITH Jobs <- Runs, row <- status, holder <- slot

\* The rows and the slot behave as the run service promises its clients.
RunsAreServed == Service!Spec
=============================================================================
