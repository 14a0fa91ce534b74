---------------------------- MODULE OcMirrorRuns ----------------------------
(***************************************************************************)
(* The oc-mirror run service of the backend: the single run slot           *)
(* (ocMirrorRunGuard.js), the request handler that starts a run            *)
(* (startOcMirrorRun), the child's error and close handlers, the automatic *)
(* signature retry, Stop, both Start Overs, job-row deletion, graceful     *)
(* shutdown, a crash, and the reconciliation at boot.                      *)
(*                                                                         *)
(* The backend is one Node.js process: code between two awaits or inside   *)
(* one event handler runs without interruption, so each such stretch is    *)
(* one action here, and every interleaving of handlers is an interleaving  *)
(* of actions.  The job table is durable; the slot, the process registry   *)
(* and the temp-artifact registry are memory and are lost with the process.*)
(***************************************************************************)
EXTENDS FiniteSets

CONSTANTS
    Jobs,           \* ids createJob may hand out; each names one oc-mirror-run row
    None,           \* "no job"
    AuthInTmp,      \* credentials fall back to DATA_DIR/tmp (secretTempLocation)
    UnlinkMayFail   \* removing a temp file can fail (EACCES, EBUSY)

ASSUME RunAssumption ==
    /\ None \notin Jobs
    /\ AuthInTmp \in BOOLEAN
    /\ UnlinkMayFail \in BOOLEAN

VARIABLES
    row,             \* status of each job row; "absent" before, "deleted" after
    wf,              \* workflow of a run: an Install run with a generated or the operator's
                     \* own config, a Mirroring run, one with verifyAfter ("recovery")
    parent,          \* the run a signature retry repeats (its resources are that run's)
    pc,              \* how far the code that serves a run has got
    pending,         \* reservations taken before a child is spawned
    activeProcesses, \* the process registry
    owned,           \* keys of runTempArtifactsByJob
    released,        \* runs whose createRunResources object has released
    disk,            \* temp files that exist: <<kind, job>>
    tracked,         \* temp files in the temp-artifact registry
    up               \* the backend process runs

vars == <<row, wf, parent, pc, pending, activeProcesses, owned, released,
          disk, tracked, up>>

Terminal  == {"completed", "completed_with_warnings", "failed", "cancelled"}
Clearable == {"completed", "failed", "cancelled"}
Statuses  == {"absent", "queued", "running", "deleted"} \cup Terminal
Installs  == {"install", "external"}
Mirrors   == {"mirroring", "recovery"}
Workflows == Installs \cup Mirrors

\* idle: no code serves the id.   planning: awaiting the binary and the plan.
\* resolving: files written, awaiting the binary.   alive: child spawned.
\* exited: child gone, its close event queued.   failing: the same for a child
\* that never started.   checking: result verification.   done: settled.
\* lost: the serving process went away.
Serving   == {"planning", "resolving", "alive", "exited", "failing", "checking"}
Phases    == Serving \cup {"idle", "done", "lost"}
Files     == {"config", "auth", "regd"} \X Jobs

-----------------------------------------------------------------------------
(* Helpers of the code *)

\* Whose configuration and auth file a run uses (the retry takes its parent's).
Source(j) == IF parent[j] = None THEN j ELSE parent[j]

\* Wrong form of Resources: the generated configuration is forgotten.
ResourcesAuthOnly(s) == {<<"auth", s>>}

\* createRunResources: the auth file, and the config when the backend wrote it.
Resources(s) == {<<"auth", s>>} \cup
                (IF wf[s] = "install" THEN {<<"config", s>>} ELSE {})

\* Wrong form of RunFiles: the registries.d exemption directory is forgotten.
RunFilesWithoutScope(j) == IF Source(j) \in released THEN {} ELSE Resources(Source(j))

\* What a run removes when it settles: its registries.d and unreleased resources.
RunFiles(j) == {<<"regd", j>>} \cup
               (IF Source(j) \in released THEN {} ELSE Resources(Source(j)))

Undeletable(F) == IF UnlinkMayFail THEN SUBSET (F \cap disk) ELSE {{}}

\* Wrong form of UpdateFiles: a file that could not be removed is given up.
UpdateFilesGivesUp(F, N) ==
    \E kept \in Undeletable(F) :
        /\ disk' = (disk \ (F \ kept)) \cup N
        /\ tracked' = (tracked \ F) \cup N

\* Remove F and write N; a file that cannot be removed stays, and stays tracked.
UpdateFiles(F, N) ==
    \E kept \in Undeletable(F) :
        /\ disk' = (disk \ (F \ kept)) \cup N
        /\ tracked' = (tracked \ (F \ kept)) \cup N

\* Wrong form of SlotHeldBy: only registered children count, as before F9.
SlotHeldByChildren(regs) == \E k \in regs : row[k] = "running"

\* findActiveOcMirrorRun: a reservation, or a registered child whose row runs.
SlotHeldBy(regs) == pending # {} \/ \E k \in regs : row[k] = "running"

\* Wrong form of UnlessTerminal: the plain updateJob, which writes any existing row.
UnlessDeleted(j, status) ==
    IF row[j] \in {"absent", "deleted"} THEN row[j] ELSE status

\* updateJobUnlessTerminal (and updateJob: a missing row stays missing).
UnlessTerminal(j, status) ==
    IF row[j] \in Terminal \cup {"absent", "deleted"} THEN row[j] ELSE status

CancelEach(S, r) == [j \in Jobs |-> IF j \in S THEN "cancelled" ELSE r[j]]

-----------------------------------------------------------------------------
(* Starting a run *)

\* An Install run passes the slot check; its files are written before the await.
\* A config of the operator's own is used where it is.
RequestInstall(j) ==
    /\ up /\ row[j] = "absent" /\ ~SlotHeldBy(activeProcesses)
    /\ pending' = pending \cup {j}
    /\ row' = [row EXCEPT ![j] = "queued"]
    /\ pc' = [pc EXCEPT ![j] = "resolving"]
    /\ \E w \in Installs, scope \in {{}, {<<"regd", j>>}} :
         /\ wf' = [wf EXCEPT ![j] = w]
         /\ UpdateFiles({}, scope \cup {<<"auth", j>>} \cup
                            IF w = "install" THEN {<<"config", j>>} ELSE {})
    /\ UNCHANGED <<parent, activeProcesses, owned, released, up>>

\* A Mirroring run reserves first and then awaits the binary and its plan.
RequestMirroring(j) ==
    /\ up /\ row[j] = "absent" /\ ~SlotHeldBy(activeProcesses)
    /\ pending' = pending \cup {j}
    /\ row' = [row EXCEPT ![j] = "queued"]
    /\ \E w \in Mirrors : wf' = [wf EXCEPT ![j] = w]
    /\ pc' = [pc EXCEPT ![j] = "planning"]
    /\ UNCHANGED <<parent, activeProcesses, owned, released, disk, tracked, up>>

\* The configuration or the credentials are refused before any await; a config that
\* was written by then is removed, or stays tracked where that fails.
RequestRefused(j) ==
    /\ up /\ row[j] = "absent" /\ ~SlotHeldBy(activeProcesses)
    /\ row' = [row EXCEPT ![j] = "failed"]
    /\ wf' = [wf EXCEPT ![j] = "install"]
    /\ pc' = [pc EXCEPT ![j] = "done"]
    /\ \E kept \in IF UnlinkMayFail THEN {{}, {<<"config", j>>}} ELSE {{}} :
         UpdateFiles({}, kept)
    /\ UNCHANGED <<parent, pending, activeProcesses, owned, released, up>>

\* Writing the configuration throws (disk full): the tracked file may be partial
\* and only the reservation's finally runs, so the row stays queued.
RequestThrows(j) ==
    /\ up /\ row[j] = "absent" /\ ~SlotHeldBy(activeProcesses)
    /\ row' = [row EXCEPT ![j] = "queued"]
    /\ wf' = [wf EXCEPT ![j] = "install"]
    /\ pc' = [pc EXCEPT ![j] = "done"]
    /\ tracked' = tracked \cup {<<"config", j>>}
    /\ disk' \in {disk, disk \cup {<<"config", j>>}}
    /\ UNCHANGED <<parent, pending, activeProcesses, owned, released, up>>

\* The plan is stored; the auth file is written and the tool is described.
PlanReady(j) ==
    /\ up /\ pc[j] = "planning"
    /\ pc' = [pc EXCEPT ![j] = "resolving"]
    /\ \E scope \in {{}, {<<"regd", j>>}} : UpdateFiles({}, scope \cup {<<"auth", j>>})
    /\ UNCHANGED <<row, wf, parent, pending, activeProcesses, owned, released, up>>

\* No binary, no plan or unreadable credentials: nothing has been written yet.
PlanFails(j) ==
    /\ up /\ pc[j] = "planning"
    /\ row' = [row EXCEPT ![j] = "failed"]
    /\ pc' = [pc EXCEPT ![j] = "done"]
    /\ pending' = pending \ {j}
    /\ UNCHANGED <<wf, parent, activeProcesses, owned, released, disk, tracked, up>>

\* Wrong form of LaunchFails: an early return outside the reservation's finally.
LaunchFailsKeepsSlot(j) ==
    /\ up /\ pc[j] = "resolving"
    /\ row' = [row EXCEPT ![j] = "failed"]
    /\ pc' = [pc EXCEPT ![j] = "done"]
    /\ owned' = owned \ {j}
    /\ UpdateFiles(RunFiles(j), {})
    /\ released' = released \cup {Source(j)}
    /\ UNCHANGED <<wf, parent, pending, activeProcesses, up>>

\* failEarly, and every refusal of the retry's launch (releaseAll).
LaunchFails(j) ==
    /\ up /\ pc[j] = "resolving"
    /\ row' = [row EXCEPT ![j] = "failed"]
    /\ pc' = [pc EXCEPT ![j] = "done"]
    /\ pending' = pending \ {j}
    /\ owned' = owned \ {j}
    /\ UpdateFiles(RunFiles(j), {})
    /\ released' = released \cup {Source(j)}
    /\ UNCHANGED <<wf, parent, activeProcesses, up>>

\* spawn: registered, marked running with an unguarded write, slot token returned.
Launch(j) ==
    /\ up /\ pc[j] = "resolving"
    /\ activeProcesses' = activeProcesses \cup {j}
    /\ owned' = owned \cup {j}
    /\ row' = [row EXCEPT ![j] = "running"]
    /\ pc' = [pc EXCEPT ![j] = "alive"]
    /\ pending' = pending \ {j}
    /\ UNCHANGED <<wf, parent, released, disk, tracked, up>>

\* spawn fails: running, then the error event on the next tick; close follows.
LaunchErrors(j) ==
    /\ up /\ pc[j] = "resolving"
    /\ row' = [row EXCEPT ![j] = "failed"]
    /\ pc' = [pc EXCEPT ![j] = "failing"]
    /\ pending' = pending \ {j}
    /\ owned' = owned \ {j}
    /\ UpdateFiles(RunFiles(j), {})
    /\ released' = released \cup {Source(j)}
    /\ UNCHANGED <<wf, parent, activeProcesses, up>>

-----------------------------------------------------------------------------
(* The child *)

\* The oc-mirror process ends by itself or by the SIGTERM it was sent.
ChildExits(j) ==
    /\ up /\ pc[j] = "alive"
    /\ pc' = [pc EXCEPT ![j] = "exited"]
    /\ UNCHANGED <<row, wf, parent, pending, activeProcesses, owned, released,
                   disk, tracked, up>>

\* A successful recovery attempt is verified before its outcome is recorded; a
\* dry-run child registers itself under the same job id, the archive check does not.
BeginCheck(j) ==
    /\ up /\ pc[j] = "exited" /\ wf[j] = "recovery" /\ row[j] \notin Terminal
    /\ pc' = [pc EXCEPT ![j] = "checking"]
    /\ activeProcesses' \in {activeProcesses, activeProcesses \cup {j}}
    /\ UNCHANGED <<row, wf, parent, pending, owned, released, disk, tracked, up>>

\* What settle does when no retry takes the resources over.
SettleAs(j, outcome) ==
    /\ row' = [row EXCEPT ![j] = UnlessTerminal(j, outcome)]
    /\ activeProcesses' = activeProcesses \ {j}
    /\ owned' = owned \ {j}
    /\ UpdateFiles(RunFiles(j), {})
    /\ released' = released \cup {Source(j)}
    /\ pc' = [pc EXCEPT ![j] = "done"]
    /\ UNCHANGED <<wf, parent, pending, up>>

\* The close event: classifyOcMirrorExit and settle.  A child that never started
\* closes with an error code, after its error event recorded the failure.
Close(j, outcome) ==
    /\ up /\ pc[j] \in {"exited", "failing"}
    /\ pc[j] = "failing" => outcome = "failed"
    /\ ~(outcome = "completed" /\ wf[j] = "recovery" /\ row[j] \notin Terminal)
    /\ SettleAs(j, outcome)

\* The verification ends, or its process was stopped: settle.
Checked(j) ==
    /\ up /\ pc[j] = "checking"
    /\ SettleAs(j, "completed")

\* Wrong form of MayRetry: whether the outcome was accepted is not looked at.
MayRetryAnyOutcome(j) ==
    /\ parent[j] = None
    /\ wf[j] = "install" => <<"config", j>> \in disk
    /\ ~SlotHeldBy(activeProcesses \ {j})

\* The outcome was accepted, the run was not itself a retry, its configuration
\* still exists and the slot is free: a signature retry may be started.
MayRetry(j) ==
    /\ UnlessTerminal(j, "failed") # row[j]
    /\ parent[j] = None
    /\ wf[j] = "install" => <<"config", j>> \in disk
    /\ ~SlotHeldBy(activeProcesses \ {j})

\* Wrong form of KeptByCloser: the close handler also releases the shared files (F13).
ReleasedByCloser(j) == RunFiles(j)

\* Files the closing run removes itself when a retry takes its resources.
KeptByCloser(j) == {<<"regd", j>>}

\* The close event of a run with signature failures: the outcome is recorded and,
\* in the same turn, the retry reserves the slot and takes config and auth file.
CloseAndRetry(j, r, outcome) ==
    /\ up /\ pc[j] = "exited" /\ row[r] = "absent" /\ MayRetry(j)
    /\ row' = [row EXCEPT ![j] = UnlessTerminal(j, outcome), ![r] = "queued"]
    /\ wf' = [wf EXCEPT ![r] = IF wf[j] \in Installs THEN wf[j] ELSE "mirroring"]
    /\ parent' = [parent EXCEPT ![r] = j]
    /\ pc' = [pc EXCEPT ![j] = "done", ![r] = "resolving"]
    /\ pending' = pending \cup {r}
    /\ activeProcesses' = activeProcesses \ {j}
    /\ owned' = (owned \ {j}) \cup {r}
    /\ UpdateFiles(KeptByCloser(j), {<<"regd", r>>})
    /\ UNCHANGED <<released, up>>

-----------------------------------------------------------------------------
(* Operators of the service *)

\* Wrong form of Stop: the outcome is left to the close handler.
StopWithoutOutcome(j) ==
    /\ up /\ j \in activeProcesses
    /\ activeProcesses' = activeProcesses \ {j}
    /\ UNCHANGED <<row, wf, parent, pc, pending, owned, released, disk, tracked, up>>

\* POST /api/jobs/:id/stop: refused (404) unless the id is registered.
Stop(j) ==
    /\ up /\ j \in activeProcesses
    /\ activeProcesses' = activeProcesses \ {j}
    /\ row' = [row EXCEPT ![j] = UnlessTerminal(j, "cancelled")]
    /\ UNCHANGED <<wf, parent, pc, pending, owned, released, disk, tracked, up>>

RunningOf(W) == {j \in Jobs : row[j] = "running" /\ wf[j] \in W}

\* Wrong form of ProtectedPaths: Start Over protects nobody.
NoProtectedPaths == {}

\* protectedTempPaths of the running Mirroring runs.
ProtectedPaths ==
    UNION {RunFiles(j) : j \in owned \cap RunningOf(Mirrors)}

\* Regular files under DATA_DIR/tmp; safeUnlink cannot remove a directory.
TmpFiles == {f \in disk : f[1] = "config" \/ (f[1] = "auth" /\ AuthInTmp)}

\* POST /api/start-over: cancels Install runs if asked, then clears DATA_DIR/tmp.
StartOver(cancel) ==
    LET stopped == IF cancel THEN RunningOf(Installs) ELSE {} IN
    /\ up
    /\ row' = CancelEach(stopped, row)
    /\ activeProcesses' = activeProcesses \ stopped
    /\ UpdateFiles(TmpFiles \ ProtectedPaths, {})
    /\ UNCHANGED <<wf, parent, pc, pending, owned, released, up>>

\* POST /api/mirroring/start-over: cancels the running Mirroring runs.
MirroringStartOver ==
    LET stopped == RunningOf(Mirrors) IN
    /\ up /\ stopped # {}
    /\ row' = CancelEach(stopped, row)
    /\ activeProcesses' = activeProcesses \ stopped
    /\ UNCHANGED <<wf, parent, pc, pending, owned, released, disk, tracked, up>>

\* DELETE /api/jobs and the retention sweep: some or all rows with a listed outcome.
ForgetRows(S) ==
    /\ up /\ S # {} /\ S \subseteq {j \in Jobs : row[j] \in Clearable}
    /\ row' = [j \in Jobs |-> IF j \in S THEN "deleted" ELSE row[j]]
    /\ UNCHANGED <<wf, parent, pc, pending, activeProcesses, owned, released,
                   disk, tracked, up>>

-----------------------------------------------------------------------------
(* The process *)

\* Memory goes with the process; with the container go its children.
ProcessEnds ==
    /\ up' = FALSE
    /\ pc' = [j \in Jobs |-> IF pc[j] \in Serving \cup {"done"} THEN "lost" ELSE pc[j]]
    /\ pending' = {} /\ activeProcesses' = {} /\ owned' = {}
    /\ released' = {} /\ tracked' = {}
    /\ UNCHANGED <<wf, parent>>

\* SIGTERM: registered children are signalled and cancelled, tracked files removed.
Shutdown ==
    /\ up
    /\ row' = [j \in Jobs |-> IF j \in activeProcesses
                              THEN UnlessTerminal(j, "cancelled") ELSE row[j]]
    /\ \E kept \in Undeletable(tracked) : disk' = disk \ (tracked \ kept)
    /\ ProcessEnds

\* SIGKILL, out of memory, host loss.
Crash ==
    /\ up
    /\ UNCHANGED <<row, disk>>
    /\ ProcessEnds

\* Wrong form of Boot: only the temp files are reconciled.
BootSweepsOnly ==
    /\ ~up
    /\ up' = TRUE
    /\ disk' \in Undeletable(disk)
    /\ UNCHANGED <<row, wf, parent, pc, pending, activeProcesses, owned, released, tracked>>

\* markStaleJobs and sweepAbandonedTempArtifacts.
Boot ==
    /\ ~up
    /\ up' = TRUE
    /\ row' = [j \in Jobs |-> IF row[j] = "running" THEN "failed" ELSE row[j]]
    /\ disk' \in Undeletable(disk)
    /\ UNCHANGED <<wf, parent, pc, pending, activeProcesses, owned, released, tracked>>

-----------------------------------------------------------------------------
Init ==
    /\ row = [j \in Jobs |-> "absent"]
    /\ wf = [j \in Jobs |-> "none"]
    /\ parent = [j \in Jobs |-> None]
    /\ pc = [j \in Jobs |-> "idle"]
    /\ pending = {} /\ activeProcesses = {} /\ owned = {} /\ released = {}
    /\ disk = {} /\ tracked = {}
    /\ up = TRUE

\* Wrong form of Outcomes: a status jobStatus.js does not list.
OutcomesUnlisted == {"completed", "completed_with_warnings", "error"}

\* classifyOcMirrorExit.
Outcomes == {"completed", "completed_with_warnings", "failed"}

\* Steps of code that already runs: the event loop takes each in the end.
Handle(j) ==
    \/ PlanReady(j) \/ PlanFails(j)
    \/ LaunchFails(j) \/ Launch(j) \/ LaunchErrors(j)
    \/ BeginCheck(j)
    \/ \E outcome \in Outcomes : Close(j, outcome)
    \/ \E r \in Jobs, outcome \in {"completed_with_warnings", "failed"} :
         CloseAndRetry(j, r, outcome)

\* The check of a result waits for an oc-mirror child without a timeout.
Serve(j) == Handle(j) \/ Checked(j)

Request(j) ==
    RequestInstall(j) \/ RequestMirroring(j) \/ RequestRefused(j) \/ RequestThrows(j)

Next ==
    \/ \E j \in Jobs : Request(j) \/ Serve(j) \/ ChildExits(j) \/ Stop(j)
    \/ \E cancel \in BOOLEAN : StartOver(cancel)
    \/ MirroringStartOver
    \/ \E S \in SUBSET Jobs : ForgetRows(S)
    \/ Shutdown \/ Crash \/ Boot

Spec == Init /\ [][Next]_vars

\* A child that was sent SIGTERM (it left the registry) exits, be it the run or the
\* dry run of its check; an unstopped one may run for ever.
SignalledChildExits(j) == j \notin activeProcesses /\ (ChildExits(j) \/ Checked(j))

\* The operator starts a stopped backend again.
Fairness ==
    /\ \A j \in Jobs : WF_vars(Handle(j)) /\ WF_vars(SignalledChildExits(j))
    /\ WF_vars(Boot)

FairSpec == Spec /\ Fairness

-----------------------------------------------------------------------------
(* Properties *)

TypeOK ==
    /\ row \in [Jobs -> Statuses]
    /\ wf \in [Jobs -> Workflows \cup {"none"}]
    /\ parent \in [Jobs -> Jobs \cup {None}]
    /\ pc \in [Jobs -> Phases]
    /\ pending \subseteq Jobs /\ activeProcesses \subseteq Jobs
    /\ owned \subseteq Jobs /\ released \subseteq Jobs
    /\ disk \subseteq Files /\ tracked \subseteq Files
    /\ up \in BOOLEAN

Holders == pending \cup {j \in activeProcesses : row[j] = "running"}

\* One oc-mirror run at a time (ocMirrorRunGuard.js): between the reservation and
\* the moment a child leaves the registry, across requests, awaits and retries,
\* at most one run holds the slot.
OneRun == \A a, b \in Holders : a = b

\* A row that says "running" is always in the registry with its handlers alive,
\* so that Stop, Start Over and a shutdown reach it and it will get an outcome.
RunningIsReachable ==
    up => \A j \in Jobs : row[j] = "running" =>
            j \in activeProcesses /\ pc[j] \in {"alive", "exited", "checking"}

\* The auth file of a run exists from before its child starts until that child is
\* gone, also when the run was stopped, and when a retry took it over from the run
\* that wrote it (F13, ocMirrorRunResources.js).
CredentialsWhileInUse ==
    \A j \in Jobs : pc[j] \in {"resolving", "alive", "checking"} =>
                      <<"auth", Source(j)>> \in disk

\* A secret that outlives its owner stays in the temp-artifact registry, whatever
\* removal failed, so that the shutdown tries again (utils.js safeUnlink).
SecretsStayTracked ==
    up => \A f \in disk : pc[f[2]] # "lost" => f \in tracked

\* When the last code that serves a run and its retry is done, none of its temp
\* files is left; only a request that threw leaves its configuration behind.
NothingLeftBehind ==
    \A f \in disk :
        \/ pc[f[2]] \in Serving \cup {"lost"}
        \/ row[f[2]] = "queued"
        \/ \E r \in Jobs : parent[r] = f[2] /\ pc[r] \in Serving

\* A recorded outcome is never rewritten by a late callback: no close, error,
\* verification, launch, Start Over, shutdown or boot changes it; only the row's
\* deletion removes it.
OutcomeSticks ==
    [][\A j \in Jobs : row[j] \in Terminal => row'[j] \in {row[j], "deleted"}]_vars

\* A run the operator stopped (or whose row was deleted since) never comes back as
\* an automatic signature retry: a retry follows an outcome its own close recorded.
StoppedIsNotRetried ==
    [][\A r \in Jobs : parent'[r] # parent[r] =>
          /\ row[parent'[r]] = "running"
          /\ row'[parent'[r]] \in {"completed_with_warnings", "failed"}]_vars

\* Nothing but its own settling takes the credentials of a running Mirroring run,
\* an Install Start Over that clears the same directory included.
MirroringCredentialsSpared ==
    [][\A j \in RunningOf(Mirrors) :
          (up /\ pc'[j] = pc[j] /\ <<"auth", Source(j)>> \in disk)
             => <<"auth", Source(j)>> \in disk']_vars

\* A reservation is always given back, whichever way the launch ends.
ReservationReturned == \A j \in Jobs : j \in pending ~> j \notin pending

\* A cancelled run's credentials and exemption directory do get removed, whatever
\* crashes or shutdowns happen in between.  (Only when its row was deleted before its
\* close was handled is its result checked all the same, and that check can hang.)
StoppedRunIsCleaned ==
    \A j \in Jobs : row[j] = "cancelled" ~>
        \/ <<"auth", Source(j)>> \notin disk /\ <<"regd", j>> \notin disk
        \/ [](row[j] = "deleted" /\ pc[j] = "checking")

\* Once the child is gone the row gets an outcome, even across a restart, unless the
\* child that checks the result runs for ever and nobody stops it.
ExitIsRecorded ==
    \A j \in Jobs : pc[j] = "exited" ~>
        \/ row[j] \in Terminal \cup {"deleted"}
        \/ [](pc[j] = "checking" /\ j \in activeProcesses)

\* The run that holds the slot; there is at most one.
TheOne(H) == IF H = {} THEN None ELSE CHOOSE j \in H : TRUE
SlotHolder == TheOne(Holders)

Promise == INSTANCE RunService WITH holder <- SlotHolder

\* Towards its clients the service behaves as RunService says.
ServicePromise == Promise!Spec
=============================================================================
