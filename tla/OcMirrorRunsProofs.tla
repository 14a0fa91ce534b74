------------------------ MODULE OcMirrorRunsProofs ------------------------
(***************************************************************************)
(* What holds of OcMirrorRuns for every set of jobs: the types, the single  *)
(* run slot, the permanence of outcomes, the conditions of a retry, what     *)
(* becomes of the temp files, and that OcMirrorRuns implements RunService.   *)
(***************************************************************************)
EXTENDS OcMirrorRuns, TLAPS

-----------------------------------------------------------------------------
(* Types *)

\* Removing files and writing files of known kinds keeps both sets well typed.
LEMMA UpdateFilesType ==
    ASSUME NEW F, NEW N, N \subseteq Files, disk \subseteq Files,
           tracked \subseteq Files, UpdateFiles(F, N)
    PROVE  disk' \subseteq Files /\ tracked' \subseteq Files
  BY DEF UpdateFiles, Undeletable

\* A job's own registries.d directory, configuration and auth file are files.
LEMMA JobFiles ==
    ASSUME NEW j \in Jobs
    PROVE  {<<"config", j>>, <<"auth", j>>, <<"regd", j>>} \subseteq Files
  BY DEF Files

\* Every status, workflow and phase an action writes is one of the declared ones.
LEMMA WrittenValues ==
    /\ {"absent", "queued", "running", "deleted", "failed", "cancelled",
        "completed", "completed_with_warnings"} = Statuses
    /\ Serving \cup {"idle", "done", "lost"} = Phases
    /\ Outcomes \subseteq Statuses
  BY DEF Statuses, Terminal, Phases, Outcomes

\* updateJobUnlessTerminal leaves a status behind.
LEMMA UnlessTerminalType ==
    ASSUME TypeOK, NEW j \in Jobs, NEW s \in Statuses
    PROVE  UnlessTerminal(j, s) \in Statuses
  BY DEF UnlessTerminal, TypeOK

LEMMA TypeStep == TypeOK /\ [Next]_vars => TypeOK'
<1> SUFFICES ASSUME TypeOK, [Next]_vars PROVE TypeOK'
  OBVIOUS
<1> USE RunAssumption DEF TypeOK
<1>1. ASSUME NEW j \in Jobs, Request(j) PROVE TypeOK'
  <2>1. CASE RequestInstall(j)
    <3>1. PICK w \in Installs, scope \in {{}, {<<"regd", j>>}} :
                 /\ wf' = [wf EXCEPT ![j] = w]
                 /\ UpdateFiles({}, scope \cup {<<"auth", j>>} \cup
                                    IF w = "install" THEN {<<"config", j>>} ELSE {})
      BY <2>1 DEF RequestInstall
    <3>2. disk' \subseteq Files /\ tracked' \subseteq Files
      BY <3>1, JobFiles, UpdateFilesType
    <3>. QED BY <2>1, <3>1, <3>2 DEF RequestInstall, Statuses, Workflows, Installs, Phases, Serving
  <2>2. CASE RequestMirroring(j)
    BY <2>2 DEF RequestMirroring, Statuses, Workflows, Mirrors, Phases, Serving
  <2>3. CASE RequestRefused(j)
    <3>1. PICK kept \in {{}, {<<"config", j>>}} : UpdateFiles({}, kept)
      BY <2>3 DEF RequestRefused
    <3>2. disk' \subseteq Files /\ tracked' \subseteq Files
      BY <3>1, JobFiles, UpdateFilesType
    <3>. QED BY <2>3, <3>2 DEF RequestRefused, Statuses, Terminal, Workflows, Installs, Phases, Serving
  <2>4. CASE RequestThrows(j)
    BY <2>4, JobFiles DEF RequestThrows, Statuses, Workflows, Installs, Phases, Serving
  <2>. QED BY <1>1, <2>1, <2>2, <2>3, <2>4 DEF Request
<1>2. ASSUME NEW j \in Jobs, Serve(j) PROVE TypeOK'
  <2>1. CASE PlanReady(j)
    <3>1. PICK scope \in {{}, {<<"regd", j>>}} : UpdateFiles({}, scope \cup {<<"auth", j>>})
      BY <2>1 DEF PlanReady
    <3>2. disk' \subseteq Files /\ tracked' \subseteq Files
      BY <3>1, JobFiles, UpdateFilesType
    <3>. QED BY <2>1, <3>2 DEF PlanReady, Phases, Serving
  <2>2. CASE PlanFails(j)
    BY <2>2 DEF PlanFails, Statuses, Terminal, Phases
  <2>3. CASE LaunchFails(j) \/ LaunchErrors(j)
    <3>1. disk' \subseteq Files /\ tracked' \subseteq Files
      BY <2>3, UpdateFilesType DEF LaunchFails, LaunchErrors
    <3>. QED BY <2>3, <3>1 DEF LaunchFails, LaunchErrors, Source, Statuses, Terminal, Phases, Serving
  <2>4. CASE Launch(j)
    BY <2>4 DEF Launch, Statuses, Phases, Serving
  <2>5. CASE BeginCheck(j)
    BY <2>5 DEF BeginCheck, Phases, Serving
  <2>6. ASSUME NEW outcome \in Outcomes, SettleAs(j, outcome) PROVE TypeOK'
    <3>1. disk' \subseteq Files /\ tracked' \subseteq Files
      BY <2>6, UpdateFilesType DEF SettleAs
    <3>2. UnlessTerminal(j, outcome) \in Statuses
      BY UnlessTerminalType, WrittenValues
    <3>. QED BY <2>6, <3>1, <3>2 DEF SettleAs, Source, Phases
  <2>7. ASSUME NEW r \in Jobs, NEW outcome \in {"completed_with_warnings", "failed"},
               CloseAndRetry(j, r, outcome)
        PROVE  TypeOK'
    <3>1. disk' \subseteq Files /\ tracked' \subseteq Files
      <4>1. {<<"regd", r>>} \subseteq Files
        BY JobFiles
      <4>. QED BY <2>7, <4>1, UpdateFilesType DEF CloseAndRetry
    <3>2. UnlessTerminal(j, outcome) \in Statuses
      BY UnlessTerminalType, WrittenValues
    <3>. QED BY <2>7, <3>1, <3>2 DEF CloseAndRetry, Statuses, Workflows, Installs, Mirrors, Phases, Serving
  <2>. QED
    BY <1>2, <2>1, <2>2, <2>3, <2>4, <2>5, <2>6, <2>7 DEF Serve, Handle, Close, Checked, Outcomes
<1>3. ASSUME NEW j \in Jobs, ChildExits(j) PROVE TypeOK'
  BY <1>3 DEF ChildExits, Phases, Serving
<1>4. ASSUME NEW j \in Jobs, Stop(j) PROVE TypeOK'
  <2>1. UnlessTerminal(j, "cancelled") \in Statuses
    BY UnlessTerminalType, WrittenValues
  <2>. QED BY <1>4, <2>1 DEF Stop
<1>5. ASSUME NEW cancel \in BOOLEAN, StartOver(cancel) PROVE TypeOK'
  <2>1. disk' \subseteq Files /\ tracked' \subseteq Files
    BY <1>5, UpdateFilesType DEF StartOver
  <2>. QED BY <1>5, <2>1 DEF StartOver, CancelEach, Statuses, Terminal
<1>6. CASE MirroringStartOver
  BY <1>6 DEF MirroringStartOver, CancelEach, Statuses, Terminal
<1>7. ASSUME NEW S \in SUBSET Jobs, ForgetRows(S) PROVE TypeOK'
  BY <1>7 DEF ForgetRows, Statuses
<1>8. CASE Shutdown
  <2>1. \A j \in Jobs : UnlessTerminal(j, "cancelled") \in Statuses
    BY UnlessTerminalType, WrittenValues
  <2>2. disk' \subseteq Files
    BY <1>8 DEF Shutdown
  <2>. QED BY <1>8, <2>1, <2>2 DEF Shutdown, ProcessEnds, Phases
<1>9. CASE Crash
  BY <1>9 DEF Crash, ProcessEnds, Phases
<1>10. CASE Boot
  BY <1>10 DEF Boot, Undeletable, Statuses, Terminal
<1>11. CASE UNCHANGED vars
  BY <1>11 DEF vars
<1>. QED
  BY <1>1, <1>2, <1>3, <1>4, <1>5, <1>6, <1>7, <1>8, <1>9, <1>10, <1>11 DEF Next

\* The state of the run service keeps its types whatever requests, exits, stops,
\* crashes and removal failures happen.
THEOREM TypeCorrect == Spec => []TypeOK
<1>1. Init => TypeOK
  BY RunAssumption DEF Init, TypeOK, Statuses, Workflows, Phases, Serving, Files
<1>. QED
  BY <1>1, TypeStep, PTL DEF Spec

-----------------------------------------------------------------------------
(* The run slot *)

\* Rows, phases, reservations and the registry agree.
BookInv ==
    /\ \A j \in Jobs : pc[j] = "idle" <=> row[j] = "absent"
    /\ \A j \in pending : pc[j] \in {"planning", "resolving"}
    /\ \A j \in Jobs : pc[j] \in {"planning", "resolving"} =>
                         j \in pending /\ row[j] = "queued"
    /\ \A j \in Jobs : pc[j] \in {"alive", "exited", "checking"} =>
                         row[j] \in Terminal \cup {"running", "deleted"}
    /\ \A j \in Jobs : pc[j] = "failing" => row[j] \in Terminal \cup {"deleted"}
    /\ \A j \in activeProcesses :
         pc[j] \in {"alive", "exited", "checking"} /\ row[j] \in {"running", "deleted"}
    /\ up => \A j \in Jobs : row[j] = "running" => j \in activeProcesses
    /\ ~up => \A j \in Jobs : pc[j] \notin Serving

SlotInv == TypeOK /\ BookInv /\ OneRun

\* A status that is kept, or that was not an outcome and becomes one.
LEMMA UnlessTerminalValue ==
    ASSUME NEW j, NEW s
    PROVE  /\ row[j] \in Terminal \cup {"absent", "deleted"} => UnlessTerminal(j, s) = row[j]
           /\ row[j] \notin Terminal \cup {"absent", "deleted"} => UnlessTerminal(j, s) = s
  BY DEF UnlessTerminal

\* A request passes the check only when nothing holds the slot.
LEMMA FreeSlot ==
    ASSUME NEW regs, ~SlotHeldBy(regs)
    PROVE  pending = {} /\ \A k \in regs : row[k] # "running"
  BY DEF SlotHeldBy

LEMMA SlotRequest ==
    ASSUME SlotInv, NEW j \in Jobs, Request(j)
    PROVE  (BookInv /\ OneRun)'
<1> USE DEF SlotInv, TypeOK, BookInv, OneRun, Holders
<1>1. CASE RequestInstall(j)
  BY <1>1, FreeSlot DEF RequestInstall, Serving, Terminal
<1>2. CASE RequestMirroring(j)
  BY <1>2, FreeSlot DEF RequestMirroring, Serving, Terminal
<1>3. CASE RequestRefused(j)
  BY <1>3 DEF RequestRefused, Serving, Terminal
<1>4. CASE RequestThrows(j)
  BY <1>4 DEF RequestThrows, Serving, Terminal
<1>. QED BY <1>1, <1>2, <1>3, <1>4 DEF Request

LEMMA SlotSettle ==
    ASSUME SlotInv, up, NEW j \in Jobs, NEW outcome \in Outcomes,
           pc[j] \in {"exited", "failing", "checking"}, SettleAs(j, outcome)
    PROVE  (BookInv /\ OneRun)'
<1> USE DEF SlotInv, TypeOK, BookInv, OneRun, Holders
<1>1. row'[j] \in Terminal \cup {"deleted"}
  BY UnlessTerminalValue DEF SettleAs, Outcomes, Terminal
<1>. QED BY <1>1 DEF SettleAs, Serving, Terminal

LEMMA SlotServe ==
    ASSUME SlotInv, NEW j \in Jobs, Serve(j)
    PROVE  (BookInv /\ OneRun)'
<1> USE DEF SlotInv, TypeOK, BookInv, OneRun, Holders
<1>1. CASE PlanReady(j)
  BY <1>1 DEF PlanReady, Serving
<1>2. CASE PlanFails(j)
  BY <1>2 DEF PlanFails, Serving, Terminal
<1>3. CASE LaunchFails(j)
  BY <1>3 DEF LaunchFails, Serving, Terminal
<1>4. CASE LaunchErrors(j)
  BY <1>4 DEF LaunchErrors, Serving, Terminal
<1>5. CASE Launch(j)
  BY <1>5 DEF Launch, Serving, Terminal
<1>6. CASE BeginCheck(j)
  BY <1>6 DEF BeginCheck, Serving, Terminal
<1>7. ASSUME NEW outcome \in Outcomes, Close(j, outcome) PROVE (BookInv /\ OneRun)'
  BY <1>7, SlotSettle DEF Close
<1>8. CASE Checked(j)
  BY <1>8, SlotSettle DEF Checked, Outcomes
<1>9. ASSUME NEW r \in Jobs, NEW outcome \in {"completed_with_warnings", "failed"},
             CloseAndRetry(j, r, outcome)
      PROVE  (BookInv /\ OneRun)'
  <2>1. row[j] = "running" /\ row'[j] = outcome /\ j # r
    BY <1>9, UnlessTerminalValue DEF CloseAndRetry, MayRetry, Terminal
  <2>2. pending = {} /\ \A k \in activeProcesses \ {j} : row[k] # "running"
    BY <1>9, FreeSlot DEF CloseAndRetry, MayRetry
  <2>. QED BY <1>9, <2>1, <2>2 DEF CloseAndRetry, Serving, Terminal
<1>. QED
  BY <1>1, <1>2, <1>3, <1>4, <1>5, <1>6, <1>7, <1>8, <1>9 DEF Serve, Handle

LEMMA SlotStep == SlotInv /\ [Next]_vars => SlotInv'
<1> SUFFICES ASSUME SlotInv, [Next]_vars PROVE (BookInv /\ OneRun)'
  BY TypeStep DEF SlotInv
<1> USE DEF SlotInv, TypeOK, BookInv, OneRun, Holders
<1>1. ASSUME NEW j \in Jobs, Request(j) PROVE (BookInv /\ OneRun)'
  BY <1>1, SlotRequest
<1>2. ASSUME NEW j \in Jobs, Serve(j) PROVE (BookInv /\ OneRun)'
  BY <1>2, SlotServe
<1>3. ASSUME NEW j \in Jobs, ChildExits(j) PROVE (BookInv /\ OneRun)'
  BY <1>3 DEF ChildExits, Serving
<1>4. ASSUME NEW j \in Jobs, Stop(j) PROVE (BookInv /\ OneRun)'
  <2>1. row'[j] \in {"cancelled", "deleted"}
    BY <1>4, UnlessTerminalValue DEF Stop, Terminal
  <2>. QED BY <1>4, <2>1 DEF Stop, Terminal, Serving
<1>5. ASSUME NEW cancel \in BOOLEAN, StartOver(cancel) PROVE (BookInv /\ OneRun)'
  BY <1>5 DEF StartOver, RunningOf, CancelEach, Terminal, Serving
<1>6. CASE MirroringStartOver
  BY <1>6 DEF MirroringStartOver, RunningOf, CancelEach, Terminal, Serving
<1>7. ASSUME NEW S \in SUBSET Jobs, ForgetRows(S) PROVE (BookInv /\ OneRun)'
  BY <1>7 DEF ForgetRows, Clearable, Terminal, Serving
<1>8. CASE Shutdown
  <2>1. \A k \in activeProcesses : row'[k] \in {"cancelled", "deleted"}
    BY <1>8, UnlessTerminalValue DEF Shutdown, Terminal
  <2>. QED BY <1>8, <2>1 DEF Shutdown, ProcessEnds, Serving
<1>9. CASE Crash
  BY <1>9 DEF Crash, ProcessEnds, Serving
<1>10. CASE Boot
  BY <1>10 DEF Boot, Serving, Terminal
<1>11. CASE UNCHANGED vars
  BY <1>11 DEF vars
<1>. QED
  BY <1>1, <1>2, <1>3, <1>4, <1>5, <1>6, <1>7, <1>8, <1>9, <1>10, <1>11 DEF Next

LEMMA SlotInit == Init => SlotInv
  BY RunAssumption DEF Init, SlotInv, TypeOK, BookInv, OneRun, Holders, Statuses,
     Workflows, Phases, Serving, Files

\* At most one run holds the slot, from its reservation to the registry exit.
THEOREM SingleRun == Spec => []OneRun
<1>1. SlotInv => OneRun
  BY DEF SlotInv
<1>. QED
  BY <1>1, SlotInit, SlotStep, PTL DEF Spec

\* A running row is in the registry and its handlers live, as long as the backend does.
THEOREM RunningReached == Spec => []RunningIsReachable
<1>1. SlotInv => RunningIsReachable
  BY DEF SlotInv, BookInv, RunningIsReachable, TypeOK
<1>. QED
  BY <1>1, SlotInit, SlotStep, PTL DEF Spec

-----------------------------------------------------------------------------
(* Outcomes and retries *)

\* updateJobUnlessTerminal never replaces an outcome.
LEMMA OutcomeKept ==
    ASSUME NEW k \in Jobs, row[k] \in Terminal, NEW s
    PROVE  UnlessTerminal(k, s) = row[k]
  BY DEF UnlessTerminal

\* Every step, of whatever handler, keeps the outcomes that are recorded.
LEMMA OutcomeStep ==
    ASSUME SlotInv, [Next]_vars, NEW k \in Jobs, row[k] \in Terminal
    PROVE  row'[k] \in {row[k], "deleted"}
<1> USE DEF SlotInv, TypeOK, BookInv
<1>1. ASSUME NEW j \in Jobs, Request(j) PROVE row'[k] = row[k]
  BY <1>1 DEF Request, RequestInstall, RequestMirroring, RequestRefused, RequestThrows, Terminal
<1>2. ASSUME NEW j \in Jobs, Serve(j) PROVE row'[k] = row[k]
  <2>1. CASE PlanReady(j) \/ PlanFails(j) \/ LaunchFails(j) \/ Launch(j)
             \/ LaunchErrors(j) \/ BeginCheck(j)
    BY <2>1 DEF PlanReady, PlanFails, LaunchFails, Launch, LaunchErrors, BeginCheck, Terminal
  <2>2. ASSUME NEW outcome \in Outcomes, Close(j, outcome) \/ Checked(j)
        PROVE  row'[k] = row[k]
    BY <2>2, OutcomeKept DEF Close, Checked, SettleAs
  <2>3. ASSUME NEW r \in Jobs, NEW outcome \in {"completed_with_warnings", "failed"},
               CloseAndRetry(j, r, outcome)
        PROVE  row'[k] = row[k]
    <3>1. k # r
      BY <2>3 DEF CloseAndRetry, Terminal
    <3>. QED BY <2>3, <3>1, OutcomeKept DEF CloseAndRetry
  <2>4. "completed" \in Outcomes
    BY DEF Outcomes
  <2>. QED BY <1>2, <2>1, <2>2, <2>3, <2>4 DEF Serve, Handle
<1>3. ASSUME NEW j \in Jobs, ChildExits(j) PROVE row'[k] = row[k]
  BY <1>3 DEF ChildExits
<1>4. ASSUME NEW j \in Jobs, Stop(j) PROVE row'[k] = row[k]
  BY <1>4, OutcomeKept DEF Stop
<1>5. ASSUME NEW cancel \in BOOLEAN, StartOver(cancel) PROVE row'[k] = row[k]
  BY <1>5 DEF StartOver, RunningOf, CancelEach, Terminal
<1>6. CASE MirroringStartOver
  BY <1>6 DEF MirroringStartOver, RunningOf, CancelEach, Terminal
<1>7. ASSUME NEW S \in SUBSET Jobs, ForgetRows(S) PROVE row'[k] \in {row[k], "deleted"}
  BY <1>7 DEF ForgetRows
<1>8. CASE Shutdown
  BY <1>8, OutcomeKept DEF Shutdown
<1>9. CASE Crash
  BY <1>9 DEF Crash
<1>10. CASE Boot
  BY <1>10 DEF Boot, Terminal
<1>11. CASE UNCHANGED vars
  BY <1>11 DEF vars
<1>. QED
  BY <1>1, <1>2, <1>3, <1>4, <1>5, <1>6, <1>7, <1>8, <1>9, <1>10, <1>11 DEF Next

\* No late callback, launch, Start Over, shutdown or boot rewrites an outcome.
THEOREM OutcomesStick == Spec => OutcomeSticks
<1>1. SlotInv /\ [Next]_vars =>
        [\A j \in Jobs : row[j] \in Terminal => row'[j] \in {row[j], "deleted"}]_vars
  BY OutcomeStep
<1>. QED
  BY <1>1, SlotInit, SlotStep, PTL DEF Spec, OutcomeSticks

\* Only CloseAndRetry gives a job a parent.
LEMMA ParentStep ==
    ASSUME TypeOK, [Next]_vars, NEW k \in Jobs, parent'[k] # parent[k]
    PROVE  \E j \in Jobs, outcome \in {"completed_with_warnings", "failed"} :
             CloseAndRetry(j, k, outcome)
<1> USE DEF TypeOK
<1>1. ASSUME NEW j \in Jobs, Request(j) PROVE FALSE
  BY <1>1 DEF Request, RequestInstall, RequestMirroring, RequestRefused, RequestThrows
<1>2. ASSUME NEW j \in Jobs,
             Serve(j) \/ ChildExits(j) \/ Stop(j)
      PROVE  \E outcome \in {"completed_with_warnings", "failed"} : CloseAndRetry(j, k, outcome)
  <2>1. ASSUME NEW r \in Jobs, NEW outcome \in {"completed_with_warnings", "failed"},
               CloseAndRetry(j, r, outcome)
        PROVE  r = k
    BY <2>1 DEF CloseAndRetry
  <2>. QED
    BY <1>2, <2>1 DEF Serve, Handle, PlanReady, PlanFails, LaunchFails, Launch, LaunchErrors,
       BeginCheck, Close, Checked, SettleAs, ChildExits, Stop
<1>3. ASSUME \/ \E cancel \in BOOLEAN : StartOver(cancel)
             \/ MirroringStartOver
             \/ \E S \in SUBSET Jobs : ForgetRows(S)
             \/ Shutdown \/ Crash \/ Boot \/ UNCHANGED vars
      PROVE  FALSE
  BY <1>3 DEF StartOver, MirroringStartOver, ForgetRows, Shutdown, Crash, Boot, ProcessEnds, vars
<1>. QED BY <1>1, <1>2, <1>3 DEF Next

\* A stopped, cancelled or forgotten run is never retried.
THEOREM StoppedStaysStopped == Spec => StoppedIsNotRetried
<1>1. ASSUME SlotInv, [Next]_vars, NEW r \in Jobs, parent'[r] # parent[r]
      PROVE  /\ row[parent'[r]] = "running"
             /\ row'[parent'[r]] \in {"completed_with_warnings", "failed"}
  <2>1. PICK j \in Jobs, outcome \in {"completed_with_warnings", "failed"} :
               CloseAndRetry(j, r, outcome)
    BY <1>1, ParentStep DEF SlotInv
  <2>2. parent'[r] = j
    BY <1>1, <2>1 DEF CloseAndRetry, SlotInv, TypeOK
  <2>3. row[j] = "running"
    BY <1>1, <2>1, UnlessTerminalValue
       DEF CloseAndRetry, MayRetry, SlotInv, BookInv, Terminal
  <2>4. row'[j] = outcome
    BY <1>1, <2>1, <2>3, UnlessTerminalValue
       DEF CloseAndRetry, MayRetry, SlotInv, TypeOK, Terminal
  <2>. QED BY <2>2, <2>3, <2>4
<1>2. SlotInv /\ [Next]_vars =>
        [\A r \in Jobs : parent'[r] # parent[r] =>
            /\ row[parent'[r]] = "running"
            /\ row'[parent'[r]] \in {"completed_with_warnings", "failed"}]_vars
  BY <1>1
<1>. QED
  BY <1>2, SlotInit, SlotStep, PTL DEF Spec, StoppedIsNotRetried

-----------------------------------------------------------------------------
(* Credentials *)

\* A run uses its files from the time they are written until its child is gone.
Using == {"resolving", "alive", "exited", "checking"}

\* Whose files a run uses: nobody else's in the meantime.
ShareInv ==
    /\ \A r \in Jobs : parent[r] # None =>
         /\ parent[parent[r]] = None
         /\ pc[parent[r]] \in {"done", "lost"}
         /\ pc[r] \notin {"idle", "planning"}
         /\ pc[r] \in Serving => pc[parent[r]] = "done"
    /\ \A r, s \in Jobs : parent[r] = parent[s] /\ parent[r] # None => r = s
    /\ \A j \in released : pc[j] \in {"failing", "done"}
    /\ \A j \in Jobs : pc[j] \in Using => Source(j) \notin released
    /\ up => \A j \in Jobs : row[j] = "running" => j \in owned

\* They are still there.
CredentialInv == \A j \in Jobs : pc[j] \in Using => <<"auth", Source(j)>> \in disk

UseInv == SlotInv /\ ShareInv

\* A file outside F survives the removal of F, and what is written is there.
LEMMA FilesSurvive ==
    ASSUME NEW F, NEW N, UpdateFiles(F, N)
    PROVE  /\ \A f \in disk : f \notin F => f \in disk'
           /\ N \subseteq disk'
  BY DEF UpdateFiles

\* Two runs that are being served never share their files.
LEMMA OwnSource ==
    ASSUME UseInv, NEW j \in Jobs, NEW k \in Jobs, pc[j] \in Serving, pc[k] \in Serving,
           Source(j) = Source(k)
    PROVE  j = k
  BY RunAssumption DEF UseInv, SlotInv, TypeOK, ShareInv, Source, Serving

\* The auth file of another run is not among the files a run removes.
LEMMA OthersFiles ==
    ASSUME UseInv, NEW j \in Jobs, NEW k \in Jobs, j # k,
           pc[j] \in Serving, pc[k] \in Serving
    PROVE  <<"auth", Source(k)>> \notin RunFiles(j)
<1>1. Source(j) # Source(k)
  BY OwnSource
<1>. QED BY <1>1 DEF RunFiles, Resources

\* A run that releases its files has them to itself.
LEMMA ShareRelease ==
    ASSUME UseInv, NEW j \in Jobs, pc[j] \in Serving \ {"planning"},
           NEW p \in {"done", "failing"}, pc[j] # "resolving" => p = "done",
           pc' = [pc EXCEPT ![j] = p], released' = released \cup {Source(j)},
           parent' = parent, owned' = owned \ {j}, up' = up,
           row'[j] # "running", \A k \in Jobs : k # j => row'[k] = row[k]
    PROVE  ShareInv'
<1> USE RunAssumption DEF UseInv, SlotInv, TypeOK, ShareInv
<1>1. Source(j) \in Jobs /\ (Source(j) = j \/ pc[Source(j)] = "done")
  BY DEF Source, Serving
<1>2. \A k \in Jobs : pc[k] \in Serving /\ k # j => Source(k) # Source(j)
  BY OwnSource
<1>3. \A k \in Jobs : Source(k)' = Source(k)
  BY DEF Source
<1>4. \A k \in released' : pc'[k] \in {"failing", "done"}
  BY <1>1 DEF Serving
<1>5. \A k \in Jobs : pc'[k] \in Using => Source(k)' \notin released'
  BY <1>2, <1>3 DEF Serving, Using
<1>6. \A r \in Jobs : parent[r] # None =>
        /\ pc'[parent[r]] \in {"done", "lost"}
        /\ pc'[r] \notin {"idle", "planning"}
        /\ pc'[r] \in Serving => pc'[parent[r]] = "done"
  BY DEF Serving
<1>. QED BY <1>4, <1>5, <1>6

\* A run that is released has an outcome or no row.
LEMMA SettledRow ==
    ASSUME UseInv, NEW j \in Jobs, NEW outcome \in Outcomes
    PROVE  UnlessTerminal(j, outcome) # "running"
  BY UnlessTerminalValue DEF Outcomes, Terminal

LEMMA ShareStep == UseInv /\ [Next]_vars => UseInv'
<1> SUFFICES ASSUME UseInv, [Next]_vars PROVE ShareInv'
  BY SlotStep DEF UseInv
<1> USE RunAssumption DEF UseInv, SlotInv, TypeOK, ShareInv
<1>1. ASSUME NEW j \in Jobs, Request(j) PROVE ShareInv'
  <2>1. pc[j] = "idle" /\ row[j] = "absent"
    BY <1>1 DEF Request, RequestInstall, RequestMirroring, RequestRefused, RequestThrows, BookInv
  <2>2. CASE RequestInstall(j) \/ RequestMirroring(j)
    BY <2>1, <2>2 DEF RequestInstall, RequestMirroring, Source, Serving, Using
  <2>3. CASE RequestRefused(j) \/ RequestThrows(j)
    BY <2>1, <2>3 DEF RequestRefused, RequestThrows, Source, Serving, Using
  <2>. QED BY <1>1, <2>2, <2>3 DEF Request
<1>2. ASSUME NEW j \in Jobs, PlanReady(j) \/ PlanFails(j) \/ Launch(j) \/ BeginCheck(j) \/ ChildExits(j) PROVE ShareInv'
  BY <1>2 DEF PlanReady, PlanFails, Launch, BeginCheck, ChildExits, BookInv, Source, Serving, Using
<1>3. ASSUME NEW j \in Jobs, LaunchFails(j) \/ LaunchErrors(j) PROVE ShareInv'
  BY <1>3, ShareRelease DEF LaunchFails, LaunchErrors, Serving
<1>4. ASSUME NEW j \in Jobs, NEW outcome \in Outcomes, Close(j, outcome) \/ Checked(j) PROVE ShareInv'
  <2>1. PICK o \in Outcomes : SettleAs(j, o)
    BY <1>4 DEF Close, Checked, Outcomes
  <2>2. row'[j] # "running"
    BY <2>1, SettledRow DEF SettleAs
  <2>. QED BY <1>4, <2>1, <2>2, ShareRelease DEF Close, Checked, SettleAs, Serving
<1>5. ASSUME NEW j \in Jobs, NEW r \in Jobs, NEW outcome \in {"completed_with_warnings", "failed"},
             CloseAndRetry(j, r, outcome)
      PROVE  ShareInv'
  <2>1. pc[j] = "exited" /\ pc[r] = "idle" /\ parent[r] = None /\ parent[j] = None /\ r # j
        /\ r \notin released /\ j \notin released
    BY <1>5 DEF CloseAndRetry, MayRetry, BookInv, Using, Source
  <2>2. \A k \in Jobs : parent[k] # j /\ parent[k] # r
    BY <2>1
  <2>3. row'[j] # "running" /\ row'[r] # "running"
    BY <1>5, <2>1, SettledRow DEF CloseAndRetry, Outcomes
  <2>. QED BY <1>5, <2>1, <2>2, <2>3 DEF CloseAndRetry, Source, Serving, Using
<1>6. ASSUME NEW j \in Jobs, Stop(j) PROVE ShareInv'
  <2>1. row'[j] # "running"
    BY <1>6, UnlessTerminalValue DEF Stop, Terminal
  <2>. QED BY <1>6, <2>1 DEF Stop, Source
<1>7. ASSUME NEW cancel \in BOOLEAN, StartOver(cancel) \/ MirroringStartOver PROVE ShareInv'
  BY <1>7 DEF StartOver, MirroringStartOver, CancelEach, Source
<1>8. ASSUME NEW S \in SUBSET Jobs, ForgetRows(S) PROVE ShareInv'
  BY <1>8 DEF ForgetRows, Source
<1>9. CASE Shutdown \/ Crash
  BY <1>9 DEF Shutdown, Crash, ProcessEnds, Serving, Using
<1>10. CASE Boot
  BY <1>10 DEF Boot, BookInv, Serving, Using, Source
<1>11. CASE UNCHANGED vars
  BY <1>11 DEF vars, Source
<1>12. "failed" \in Outcomes
  BY DEF Outcomes
<1>. QED
  BY <1>1, <1>2, <1>3, <1>4, <1>5, <1>6, <1>7, <1>8, <1>9, <1>10, <1>11, <1>12 DEF Next, Serve, Handle

LEMMA ShareInit == Init => UseInv
  BY SlotInit DEF Init, UseInv, ShareInv, Using

-----------------------------------------------------------------------------
\* Steps of the code that serves j leave the auth file of another run that uses its own.
LEMMA OthersKept ==
    ASSUME UseInv, NEW j \in Jobs, NEW k \in Jobs, j # k, pc[k] \in Serving,
           Request(j) \/ Serve(j) \/ ChildExits(j) \/ Stop(j),
           <<"auth", Source(k)>> \in disk
    PROVE  <<"auth", Source(k)>> \in disk'
<1>1. CASE RequestInstall(j) \/ RequestRefused(j) \/ RequestThrows(j) \/ PlanReady(j)
  BY <1>1 DEF RequestInstall, RequestRefused, RequestThrows, PlanReady, UpdateFiles
<1>2. CASE UNCHANGED disk
  BY <1>2
<1>3. ASSUME NEW outcome \in Outcomes, LaunchFails(j) \/ LaunchErrors(j) \/ Close(j, outcome) \/ Checked(j)
      PROVE  <<"auth", Source(k)>> \in disk'
  <2>1. pc[j] \in Serving /\ UpdateFiles(RunFiles(j), {})
    BY <1>3 DEF LaunchFails, LaunchErrors, Close, Checked, SettleAs, Serving
  <2>. QED BY <2>1, OthersFiles, FilesSurvive
<1>4. ASSUME NEW r \in Jobs, NEW outcome \in {"completed_with_warnings", "failed"}, CloseAndRetry(j, r, outcome)
      PROVE  <<"auth", Source(k)>> \in disk'
  BY <1>4, FilesSurvive DEF CloseAndRetry, KeptByCloser
<1>5. "failed" \in Outcomes
  BY DEF Outcomes
<1>. QED
  BY <1>1, <1>2, <1>3, <1>4, <1>5
  DEF Request, Serve, Handle, RequestMirroring, PlanFails, Launch, BeginCheck, ChildExits, Stop

LEMMA CredentialStep ==
    ASSUME ~AuthInTmp
    PROVE  UseInv /\ CredentialInv /\ [Next]_vars => CredentialInv'
<1> SUFFICES ASSUME UseInv, CredentialInv, [Next]_vars, NEW k \in Jobs, pc'[k] \in Using
             PROVE  <<"auth", Source(k)'>> \in disk'
  BY DEF CredentialInv
<1> USE RunAssumption DEF UseInv, SlotInv, TypeOK, Using
<1>1. ASSUME NEW j \in Jobs, Request(j) \/ PlanReady(j) PROVE <<"auth", Source(k)'>> \in disk'
  <2>1. /\ Source(k)' = Source(k) /\ (k # j => pc[k] \in Using)
        /\ pc[j] \in {"idle", "planning"} /\ (k = j => Source(k) = k)
    BY <1>1 DEF Request, RequestInstall, RequestMirroring, RequestRefused, RequestThrows, PlanReady,
                BookInv, ShareInv, Source
  <2>2. CASE k # j
    BY <1>1, <2>1, <2>2, OthersKept DEF CredentialInv, Serve, Handle, Serving
  <2>3. CASE k = j
    <3>1. CASE RequestInstall(j) \/ PlanReady(j)
      <4>1. \E F, N : UpdateFiles(F, N) /\ <<"auth", j>> \in N
        <5>1. CASE RequestInstall(j)
          <6>1. PICK w \in Installs, scope \in {{}, {<<"regd", j>>}} :
                       UpdateFiles({}, scope \cup {<<"auth", j>>} \cup IF w = "install" THEN {<<"config", j>>} ELSE {})
            BY <5>1 DEF RequestInstall
          <6>. QED BY <6>1
        <5>2. CASE PlanReady(j)
          BY <5>2 DEF PlanReady
        <5>. QED BY <3>1, <5>1, <5>2
      <4>2. <<"auth", j>> \in disk'
        BY <4>1 DEF UpdateFiles
      <4>. QED BY <2>1, <2>3, <4>2
    <3>2. CASE RequestMirroring(j) \/ RequestRefused(j) \/ RequestThrows(j)
      BY <2>3, <3>2 DEF RequestMirroring, RequestRefused, RequestThrows
    <3>. QED BY <1>1, <3>1, <3>2 DEF Request
  <2>. QED BY <2>2, <2>3
<1>2. ASSUME NEW j \in Jobs, NEW outcome \in Outcomes,
             LaunchFails(j) \/ LaunchErrors(j) \/ Close(j, outcome) \/ Checked(j)
      PROVE  <<"auth", Source(k)'>> \in disk'
  <2>1. Source(k)' = Source(k) /\ k # j /\ pc[k] \in Using
    BY <1>2 DEF LaunchFails, LaunchErrors, Close, Checked, SettleAs, Source
  <2>. QED BY <1>2, <2>1, OthersKept DEF CredentialInv, Serve, Handle, Serving, Outcomes
<1>3. ASSUME NEW j \in Jobs, NEW r \in Jobs, NEW outcome \in {"completed_with_warnings", "failed"},
             CloseAndRetry(j, r, outcome)
      PROVE  <<"auth", Source(k)'>> \in disk'
  <2>1. \A i \in Jobs : <<"auth", i>> \in disk => <<"auth", i>> \in disk'
    BY <1>3, FilesSurvive DEF CloseAndRetry, KeptByCloser
  <2>2. k # j /\ parent[j] = None /\ pc[j] = "exited"
    BY <1>3 DEF CloseAndRetry, MayRetry
  <2>3. CASE k = r
    BY <1>3, <2>1, <2>2, <2>3 DEF CloseAndRetry, Source, CredentialInv
  <2>4. CASE k # r
    <3>1. Source(k)' = Source(k) /\ pc[k] \in Using /\ Source(k) \in Jobs
      BY <1>3, <2>2, <2>4 DEF CloseAndRetry, Source
    <3>. QED BY <2>1, <3>1 DEF CredentialInv
  <2>. QED BY <2>3, <2>4
<1>4. ASSUME NEW j \in Jobs, PlanFails(j) \/ Launch(j) \/ BeginCheck(j) \/ ChildExits(j) \/ Stop(j)
      PROVE  <<"auth", Source(k)'>> \in disk'
  BY <1>4 DEF PlanFails, Launch, BeginCheck, ChildExits, Stop, Source, CredentialInv
<1>5. ASSUME NEW cancel \in BOOLEAN, StartOver(cancel) PROVE <<"auth", Source(k)'>> \in disk'
  <2>1. \A i \in Jobs : <<"auth", i>> \notin TmpFiles
    BY DEF TmpFiles
  <2>. QED BY <1>5, <2>1, FilesSurvive DEF StartOver, Source, CredentialInv
<1>6. CASE MirroringStartOver \/ (\E S \in SUBSET Jobs : ForgetRows(S)) \/ UNCHANGED vars
  BY <1>6 DEF MirroringStartOver, ForgetRows, vars, Source, CredentialInv
<1>7. CASE Shutdown \/ Crash \/ Boot
  BY <1>7 DEF Shutdown, Crash, ProcessEnds, Boot, BookInv, Serving
<1>8. "failed" \in Outcomes
  BY DEF Outcomes
<1>. QED
  BY <1>1, <1>2, <1>3, <1>4, <1>5, <1>6, <1>7, <1>8 DEF Next, Serve, Handle

\* Where credentials are kept apart from DATA_DIR/tmp, a run's auth file exists for
\* as long as a child of that run, stopped or not, or its retry may read it.
THEOREM CredentialsPresent ==
    ASSUME ~AuthInTmp
    PROVE  Spec => []CredentialsWhileInUse
<1>1. Init => UseInv /\ CredentialInv
  BY ShareInit DEF Init, CredentialInv, Using
<1>2. CredentialInv => CredentialsWhileInUse
  BY DEF CredentialInv, CredentialsWhileInUse, Using
<1>. QED
  BY <1>1, <1>2, ShareStep, CredentialStep, PTL DEF Spec

\* Wherever credentials are kept and whatever cannot be removed: only its own settling
\* takes the auth file of a running Mirroring run, an Install Start Over does not.
THEOREM CredentialsSpared == Spec => MirroringCredentialsSpared
<1>1. ASSUME UseInv, [Next]_vars, NEW k \in RunningOf(Mirrors), up, pc'[k] = pc[k], <<"auth", Source(k)>> \in disk
      PROVE  <<"auth", Source(k)>> \in disk'
  <2> USE RunAssumption DEF UseInv, SlotInv, TypeOK
  <2>1. k \in Jobs /\ row[k] = "running" /\ pc[k] \in Using /\ pc[k] \in Serving /\ k \in owned /\ Source(k) \notin released
    BY <1>1 DEF RunningOf, BookInv, ShareInv, Using, Serving
  <2>2. ASSUME NEW j \in Jobs, Request(j) \/ Serve(j) \/ ChildExits(j) \/ Stop(j)
        PROVE  <<"auth", Source(k)>> \in disk'
    <3>1. CASE j # k
      BY <1>1, <2>1, <2>2, <3>1, OthersKept
    <3>2. CASE j = k
      <4>1. ~Request(k)
        BY <2>1 DEF Request, RequestInstall, RequestMirroring, RequestRefused, RequestThrows
      <4>2. \A outcome \in Outcomes : ~Close(k, outcome)
        BY <1>1, <2>1 DEF Close, SettleAs
      <4>3. \A r \in Jobs, outcome \in {"completed_with_warnings", "failed"} : ~CloseAndRetry(k, r, outcome)
        <5> SUFFICES ASSUME NEW r \in Jobs, NEW outcome \in {"completed_with_warnings", "failed"}, CloseAndRetry(k, r, outcome)
                     PROVE  FALSE
          OBVIOUS
        <5>1. r # k /\ pc[k] = "exited" /\ pc' = [pc EXCEPT ![k] = "done", ![r] = "resolving"]
          BY <2>1 DEF CloseAndRetry
        <5>. QED BY <1>1, <2>1, <5>1
      <4>4. ~PlanReady(k) /\ ~PlanFails(k) /\ ~LaunchFails(k) /\ ~Launch(k) /\ ~LaunchErrors(k)
        BY <1>1, <2>1 DEF PlanReady, PlanFails, LaunchFails, Launch, LaunchErrors
      <4>5. ~BeginCheck(k) /\ ~Checked(k) /\ ~ChildExits(k)
        BY <1>1, <2>1 DEF BeginCheck, Checked, SettleAs, ChildExits
      <4>6. Stop(k)
        BY <2>2, <3>2, <4>1, <4>2, <4>3, <4>4, <4>5 DEF Serve, Handle
      <4>. QED BY <1>1, <4>6 DEF Stop
    <3>. QED BY <3>1, <3>2
  <2>3. ASSUME NEW cancel \in BOOLEAN, StartOver(cancel) PROVE <<"auth", Source(k)>> \in disk'
    <3>1. <<"auth", Source(k)>> \in ProtectedPaths
      BY <1>1, <2>1 DEF ProtectedPaths, RunFiles, Resources
    <3>. QED BY <1>1, <2>3, <3>1, FilesSurvive DEF StartOver
  <2>4. CASE MirroringStartOver \/ (\E S \in SUBSET Jobs : ForgetRows(S)) \/ Crash \/ UNCHANGED vars
    BY <1>1, <2>4 DEF MirroringStartOver, ForgetRows, Crash, vars
  <2>5. ~Shutdown /\ ~Boot
    BY <1>1, <2>1 DEF Shutdown, ProcessEnds, Boot, Using, Serving
  <2>. QED BY <1>1, <2>2, <2>3, <2>4, <2>5 DEF Next
<1>2. UseInv /\ [Next]_vars =>
        [\A j \in RunningOf(Mirrors) :
            (up /\ pc'[j] = pc[j] /\ <<"auth", Source(j)>> \in disk) => <<"auth", Source(j)>> \in disk']_vars
  BY <1>1
<1>. QED BY <1>2, ShareInit, ShareStep, PTL DEF Spec, MirroringCredentialsSpared

-----------------------------------------------------------------------------
(* Temp files: the registry *)

\* Only a run that was asked for has files; what is not tracked belongs to a process
\* that is gone.
TrackInv ==
    /\ \A f \in disk : pc[f[2]] # "idle"
    /\ ~up => \A j \in Jobs : pc[j] # "done"
    /\ SecretsStayTracked

RegistryInv == SlotInv /\ TrackInv

\* No run comes back from a process that ended, or is forgotten.
Onward == \A k \in Jobs : (pc'[k] = "idle" => pc[k] = "idle") /\ (pc[k] = "lost" => pc'[k] = "lost")

\* What is removed for good leaves the registry, and what is written enters it.
LEMMA UpdateTracks ==
    ASSUME RegistryInv, Onward, up, up', NEW F, NEW N, N \subseteq Files, UpdateFiles(F, N),
           \A f \in N : pc'[f[2]] # "idle"
    PROVE  TrackInv'
<1>1. \A f \in disk' : f \in N \/ (f \in disk /\ (f \in tracked => f \in tracked'))
  BY DEF UpdateFiles
<1>2. N \subseteq tracked'
  BY DEF UpdateFiles
<1>3. \A f \in disk : f[2] \in Jobs
  BY DEF RegistryInv, SlotInv, TypeOK, Files
<1>. QED BY <1>1, <1>2, <1>3 DEF TrackInv, RegistryInv, SecretsStayTracked, Onward

LEMMA TrackStep == RegistryInv /\ [Next]_vars => RegistryInv'
<1> SUFFICES ASSUME RegistryInv, [Next]_vars PROVE TrackInv'
  BY SlotStep DEF RegistryInv
<1>0. /\ pc \in [Jobs -> Phases] /\ disk \subseteq Files
      /\ \A k \in Jobs : row[k] = "absent" => pc[k] = "idle"
      /\ \A k \in Jobs : ~up => pc[k] \notin Serving
  BY DEF RegistryInv, SlotInv, TypeOK, BookInv
<1>00. \A f \in disk : f[2] \in Jobs
  BY <1>0 DEF Files
<1>1. ASSUME NEW j \in Jobs, Request(j) PROVE TrackInv'
  <2>1. /\ Onward /\ up /\ up' /\ pc'[j] # "idle"
    BY <1>0, <1>1 DEF Request, RequestInstall, RequestMirroring, RequestRefused, RequestThrows, Onward
  <2>2. {<<"config", j>>, <<"auth", j>>, <<"regd", j>>} \subseteq Files
    BY JobFiles
  <2>3. CASE RequestInstall(j)
    <3>1. PICK w \in Installs, scope \in {{}, {<<"regd", j>>}} :
                 UpdateFiles({}, scope \cup {<<"auth", j>>} \cup
                                 IF w = "install" THEN {<<"config", j>>} ELSE {})
      BY <2>3 DEF RequestInstall
    <3>. QED BY <2>1, <2>2, <3>1, UpdateTracks
  <2>4. CASE RequestMirroring(j)
    BY <1>00, <2>1, <2>4 DEF RequestMirroring, RegistryInv, TrackInv, SecretsStayTracked, Onward
  <2>5. CASE RequestRefused(j)
    <3>1. PICK kept \in {{}, {<<"config", j>>}} : UpdateFiles({}, kept)
      BY <2>5 DEF RequestRefused
    <3>. QED BY <2>1, <2>2, <3>1, UpdateTracks
  <2>6. CASE RequestThrows(j)
    BY <1>00, <2>1, <2>6 DEF RequestThrows, RegistryInv, TrackInv, SecretsStayTracked, Onward
  <2>. QED BY <1>1, <2>3, <2>4, <2>5, <2>6 DEF Request
<1>2. ASSUME NEW j \in Jobs, Serve(j) PROVE TrackInv'
  <2>1. CASE PlanReady(j)
    <3>1. PICK scope \in {{}, {<<"regd", j>>}} : UpdateFiles({}, scope \cup {<<"auth", j>>})
      BY <2>1 DEF PlanReady
    <3>2. Onward /\ up /\ up' /\ pc'[j] # "idle"
      BY <1>0, <2>1 DEF PlanReady, Onward
    <3>3. {<<"auth", j>>, <<"regd", j>>} \subseteq Files
      BY JobFiles
    <3>. QED BY <3>1, <3>2, <3>3, UpdateTracks
  <2>2. CASE PlanFails(j) \/ Launch(j) \/ BeginCheck(j)
    BY <1>0, <1>00, <2>2 DEF PlanFails, Launch, BeginCheck, RegistryInv, TrackInv, SecretsStayTracked
  <2>3. ASSUME NEW outcome \in Outcomes, LaunchFails(j) \/ LaunchErrors(j) \/ Close(j, outcome) \/ Checked(j)
        PROVE  TrackInv'
    <3>1. Onward /\ up /\ up' /\ UpdateFiles(RunFiles(j), {})
      BY <1>0, <2>3 DEF LaunchFails, LaunchErrors, Close, Checked, SettleAs, Onward
    <3>. QED BY <3>1, UpdateTracks
  <2>4. ASSUME NEW r \in Jobs, NEW outcome \in {"completed_with_warnings", "failed"}, CloseAndRetry(j, r, outcome)
        PROVE  TrackInv'
    <3>1. Onward /\ up /\ up' /\ pc'[r] # "idle" /\ UpdateFiles(KeptByCloser(j), {<<"regd", r>>})
      BY <1>0, <2>4 DEF CloseAndRetry, Onward
    <3>2. {<<"regd", r>>} \subseteq Files
      BY JobFiles
    <3>. QED BY <3>1, <3>2, UpdateTracks
  <2>5. "failed" \in Outcomes
    BY DEF Outcomes
  <2>. QED BY <1>2, <2>1, <2>2, <2>3, <2>4, <2>5 DEF Serve, Handle
<1>3. ASSUME NEW j \in Jobs, ChildExits(j) \/ Stop(j) PROVE TrackInv'
  BY <1>0, <1>00, <1>3 DEF ChildExits, Stop, RegistryInv, TrackInv, SecretsStayTracked
<1>4. ASSUME NEW cancel \in BOOLEAN, StartOver(cancel) PROVE TrackInv'
  <2>1. Onward /\ up /\ up' /\ UpdateFiles(TmpFiles \ ProtectedPaths, {})
    BY <1>4 DEF StartOver, Onward
  <2>. QED BY <2>1, UpdateTracks
<1>5. CASE MirroringStartOver \/ \E S \in SUBSET Jobs : ForgetRows(S)
  BY <1>5 DEF MirroringStartOver, ForgetRows, RegistryInv, TrackInv, SecretsStayTracked
<1>6. CASE Shutdown \/ Crash
  <2>1. disk' \subseteq disk /\ ~up' /\ \A k \in Jobs : pc'[k] = IF pc[k] \in Serving \cup {"done"} THEN "lost" ELSE pc[k]
    BY <1>6 DEF Shutdown, Crash, ProcessEnds
  <2>. QED BY <1>0, <1>00, <2>1 DEF RegistryInv, TrackInv, SecretsStayTracked
<1>7. CASE Boot
  <2>1. disk' \subseteq disk /\ ~up /\ up' /\ pc' = pc /\ tracked' = tracked
    BY <1>7 DEF Boot, Undeletable
  <2>2. \A k \in Jobs : pc[k] \in {"idle", "lost"}
    BY <1>0, <2>1 DEF RegistryInv, TrackInv, Phases
  <2>. QED BY <1>00, <2>1, <2>2 DEF RegistryInv, TrackInv, SecretsStayTracked
<1>8. CASE UNCHANGED vars
  BY <1>8 DEF vars, RegistryInv, TrackInv, SecretsStayTracked
<1>. QED BY <1>1, <1>2, <1>3, <1>4, <1>5, <1>6, <1>7, <1>8 DEF Next

LEMMA TrackInit == Init => RegistryInv
  BY SlotInit DEF Init, RegistryInv, TrackInv, SecretsStayTracked

\* Whatever removals fail, and wherever credentials are kept: a temp file of a run of
\* this process is in the registry that the shutdown goes through.
THEOREM SecretsTracked == Spec => []SecretsStayTracked
<1>1. RegistryInv => SecretsStayTracked
  BY DEF RegistryInv, TrackInv
<1>. QED BY <1>1, TrackInit, TrackStep, PTL DEF Spec

-----------------------------------------------------------------------------
(* Temp files: nothing is left behind *)

\* What of a run is on disk at all.
OwnerInv ==
    /\ \A f \in disk : pc[f[2]] # "planning"
    /\ \A f \in disk : f[1] = "config" => wf[f[2]] = "install"
    /\ \A f \in disk : f[1] # "regd" => parent[f[2]] = None /\ f[2] \notin released
    /\ \A f \in disk : f[1] = "regd" => pc[f[2]] \in Serving \cup {"lost"}

LeftInv == RegistryInv /\ ShareInv /\ OwnerInv /\ NothingLeftBehind

\* Where removals succeed, what is to be removed is gone.
LEMMA Removed ==
    ASSUME ~UnlinkMayFail, NEW F, NEW N, UpdateFiles(F, N)
    PROVE  disk' = (disk \ F) \cup N
<1>1. Undeletable(F) = {{}}
  BY DEF Undeletable
<1>. QED BY <1>1 DEF UpdateFiles

\* A run that settles, or fails to launch, takes all it used along.
LEMMA LeftRelease ==
    ASSUME LeftInv, NEW j \in Jobs, pc[j] \in Serving \ {"planning"},
           NEW p \in {"done", "failing"}, pc[j] # "resolving" => p = "done",
           pc' = [pc EXCEPT ![j] = p], released' = released \cup {Source(j)},
           wf' = wf, parent' = parent, disk' = disk \ RunFiles(j),
           \A k \in Jobs : k # j => row'[k] = row[k]
    PROVE  (OwnerInv /\ NothingLeftBehind)'
<1> USE RunAssumption DEF LeftInv, RegistryInv, SlotInv, TypeOK, ShareInv, OwnerInv
<1>1. /\ Source(j) \in Jobs /\ (Source(j) = j \/ (Source(j) = parent[j] /\ pc[Source(j)] = "done"))
      /\ parent[Source(j)] = None
  BY DEF Source
<1>2. \A f \in disk : f[2] \in Jobs /\ f = <<f[1], f[2]>> /\ f[1] \in {"config", "auth", "regd"}
  BY DEF Files
<1>3. \A f \in disk' : f # <<"regd", j>>
  BY DEF RunFiles
<1>4. \A f \in disk' : f[1] # "regd" => f[2] # Source(j)
  <2>. SUFFICES ASSUME NEW f \in disk', f[1] # "regd", f[2] = Source(j) PROVE FALSE
    OBVIOUS
  <2>1. f \in disk /\ f \notin RunFiles(j)
    OBVIOUS
  <2>2. f \in {<<"auth", Source(j)>>, <<"config", Source(j)>>}
    BY <1>2, <2>1
  <2>3. Source(j) \notin released
    BY <2>1
  <2>4. f = <<"config", Source(j)>> => wf[Source(j)] = "install"
    BY <2>1
  <2>. QED BY <2>1, <2>2, <2>3, <2>4 DEF RunFiles, Resources
<1>5. \A f \in disk' : f[2] # j
  <2>. SUFFICES ASSUME NEW f \in disk', f[2] = j PROVE FALSE
    OBVIOUS
  <2>1. f[1] # "regd"
    BY <1>2, <1>3
  <2>2. parent[j] = None
    BY <2>1
  <2>. QED BY <1>4, <2>1, <2>2 DEF Source
<1>6. ASSUME NEW f \in disk'
      PROVE  \/ pc'[f[2]] \in Serving \cup {"lost"} \/ row'[f[2]] = "queued"
             \/ \E r \in Jobs : parent'[r] = f[2] /\ pc'[r] \in Serving
  <2>1. f \in disk /\ f[2] \in Jobs /\ f[2] # j
    BY <1>2, <1>5
  <2>2. pc'[f[2]] = pc[f[2]] /\ row'[f[2]] = row[f[2]]
    BY <2>1
  <2>3. ASSUME NEW r \in Jobs, parent[r] = f[2], pc[r] \in Serving
        PROVE  pc'[r] \in Serving \/ pc[f[2]] \in Serving \cup {"lost"}
    <3>1. CASE r = j
      <4>1. Source(j) = f[2]
        BY <2>1, <2>3, <3>1 DEF Source
      <4>2. f[1] = "regd"
        BY <1>4, <4>1
      <4>. QED BY <2>1, <4>2
    <3>2. CASE r # j
      BY <2>3, <3>2
    <3>. QED BY <3>1, <3>2
  <2>. QED BY <2>1, <2>2, <2>3 DEF NothingLeftBehind
<1>7. (NothingLeftBehind)'
  BY <1>6 DEF NothingLeftBehind
<1>8. \A f \in disk' : f[1] = "regd" => pc'[f[2]] \in Serving \cup {"lost"}
  BY <1>2, <1>5
<1>9. \A f \in disk' : pc'[f[2]] # "planning"
  BY <1>2, <1>5
<1>. QED BY <1>4, <1>7, <1>8, <1>9

\* A request, or its plan, that brings files gets code that serves it, unless it threw.
LEMMA LeftRequest ==
    ASSUME ~UnlinkMayFail, LeftInv, NEW j \in Jobs, Request(j) \/ PlanReady(j)
    PROVE  (OwnerInv /\ NothingLeftBehind)'
<1> USE RunAssumption DEF LeftInv, RegistryInv, SlotInv, TypeOK, ShareInv, OwnerInv
<1>1. /\ pc[j] \in {"idle", "planning"} /\ parent[j] = None /\ parent' = parent /\ released' = released
      /\ j \notin released
      /\ \A k \in Jobs \ {j} : pc'[k] = pc[k] /\ row'[k] = row[k] /\ wf'[k] = wf[k]
      /\ \A k \in Jobs : parent[k] # j
  <2>1. pc[j] \in {"idle", "planning"} /\ parent[j] = None
    BY DEF Request, RequestInstall, RequestMirroring, RequestRefused, RequestThrows, PlanReady, BookInv
  <2>2. /\ parent' = parent /\ released' = released
        /\ \A k \in Jobs \ {j} : pc'[k] = pc[k] /\ row'[k] = row[k] /\ wf'[k] = wf[k]
    <3>1. CASE RequestInstall(j)
      BY <3>1 DEF RequestInstall
    <3>2. CASE RequestMirroring(j)
      BY <3>2 DEF RequestMirroring
    <3>3. CASE RequestRefused(j) \/ RequestThrows(j) \/ PlanReady(j)
      BY <3>3 DEF RequestRefused, RequestThrows, PlanReady
    <3>. QED BY <3>1, <3>2, <3>3 DEF Request
  <2>. QED BY <2>1, <2>2
<1>2. \A f \in disk : f[2] \in Jobs
  BY DEF Files
<1>3. ASSUME NEW F \in SUBSET {<<"config", j>>, <<"auth", j>>, <<"regd", j>>},
             disk' = disk \cup F, pc'[j] \in {"resolving", "planning", "done"},
             <<"config", j>> \in disk' => wf'[j] = "install",
             pc'[j] = "planning" => \A f \in disk' : f[2] # j,
             pc'[j] \in Serving \/ (row'[j] = "queued" /\ <<"regd", j>> \notin disk') \/ \A f \in disk' : f[2] # j
      PROVE  (OwnerInv /\ NothingLeftBehind)'
  <2>1. \A f \in disk' : f \in F \/ f \in disk
    BY <1>3
  <2>2. \A f \in F : f[2] = j /\ f = <<f[1], j>>
    BY <1>3
  <2>3. \A f \in disk' : f[2] \in Jobs /\ f = <<f[1], f[2]>>
    BY <2>1, <2>2 DEF Files
  <2>4. \A f \in disk' : \/ pc'[f[2]] \in Serving \cup {"lost"} \/ row'[f[2]] = "queued"
                         \/ \E r \in Jobs : parent'[r] = f[2] /\ pc'[r] \in Serving
    <3>1. SUFFICES ASSUME NEW f \in disk', f[2] # j
                   PROVE  \/ pc'[f[2]] \in Serving \cup {"lost"} \/ row'[f[2]] = "queued"
                          \/ \E r \in Jobs : parent'[r] = f[2] /\ pc'[r] \in Serving
      BY <1>3
    <3>2. f \in disk /\ f[2] \in Jobs
      BY <2>1, <2>2, <2>3, <3>1
    <3>3. \A r \in Jobs : parent[r] = f[2] => r # j
      BY <1>1, <3>2
    <3>. QED BY <1>1, <3>1, <3>2, <3>3 DEF NothingLeftBehind
  <2>5. \A f \in disk' : f[1] = "config" => wf'[f[2]] = "install"
    BY <1>1, <1>3, <2>1, <2>2, <2>3
  <2>6. \A f \in disk' : f[1] # "regd" => parent'[f[2]] = None /\ f[2] \notin released'
    BY <1>1, <2>1, <2>2
  <2>7. \A f \in disk' : f[1] = "regd" => pc'[f[2]] \in Serving \cup {"lost"}
    BY <1>1, <1>3, <2>1, <2>2, <2>3
  <2>8. \A f \in disk' : pc'[f[2]] # "planning"
    BY <1>1, <1>3, <2>1, <2>2, <2>3
  <2>. QED BY <2>4, <2>5, <2>6, <2>7, <2>8 DEF NothingLeftBehind
<1>4. \A f \in disk : f[2] = j => pc[j] # "idle"
  BY DEF TrackInv
<1>5. CASE RequestInstall(j)
  <2>1. PICK w \in Installs, scope \in {{}, {<<"regd", j>>}} :
               /\ wf' = [wf EXCEPT ![j] = w]
               /\ UpdateFiles({}, scope \cup {<<"auth", j>>} \cup IF w = "install" THEN {<<"config", j>>} ELSE {})
    BY <1>5 DEF RequestInstall
  <2>2. disk' = disk \cup scope \cup {<<"auth", j>>} \cup IF w = "install" THEN {<<"config", j>>} ELSE {}
    BY <2>1, Removed
  <2>3. pc[j] = "idle" /\ pc'[j] = "resolving" /\ wf'[j] = w
    BY <1>5, <2>1 DEF RequestInstall, BookInv
  <2>4. <<"config", j>> \in disk' => wf'[j] = "install"
    BY <1>4, <2>2, <2>3
  <2>5. disk' = disk \cup (scope \cup {<<"auth", j>>} \cup IF w = "install" THEN {<<"config", j>>} ELSE {})
    BY <2>2
  <2>6. pc'[j] \in Serving
    BY <2>3 DEF Serving
  <2>. QED BY <1>3, <2>3, <2>4, <2>5, <2>6
<1>6. CASE RequestMirroring(j)
  <2>1. pc[j] = "idle" /\ pc'[j] = "planning" /\ disk' = disk
    BY <1>6 DEF RequestMirroring, BookInv
  <2>2. disk' = disk \cup {} /\ pc'[j] \in Serving /\ \A f \in disk' : f[2] # j
    BY <1>4, <2>1 DEF Serving
  <2>3. <<"config", j>> \notin disk'
    BY <2>2
  <2>. QED BY <1>3, <2>1, <2>2, <2>3
<1>7. CASE RequestRefused(j)
  <2>1. UpdateFiles({}, {})
    BY <1>7 DEF RequestRefused
  <2>2. disk' = disk \cup {}
    BY <2>1 DEF UpdateFiles, Undeletable
  <2>3. pc[j] = "idle" /\ pc'[j] = "done"
    BY <1>7 DEF RequestRefused, BookInv
  <2>4. \A f \in disk' : f[2] # j
    BY <1>4, <2>2, <2>3
  <2>5. <<"config", j>> \notin disk'
    BY <2>4
  <2>. QED BY <1>3, <2>2, <2>3, <2>4, <2>5
<1>8. CASE RequestThrows(j)
  <2>1. pc[j] = "idle" /\ pc'[j] = "done" /\ row'[j] = "queued" /\ wf'[j] = "install"
        /\ disk' \in {disk, disk \cup {<<"config", j>>}}
    BY <1>8 DEF RequestThrows, BookInv
  <2>2. <<"regd", j>> \notin disk'
    BY <1>4, <2>1
  <2>3. CASE disk' = disk \cup {<<"config", j>>}
    BY <1>3, <2>1, <2>2, <2>3
  <2>4. CASE disk' = disk
    <3>1. disk' = disk \cup {}
      BY <2>4
    <3>. QED BY <1>3, <2>1, <2>2, <3>1
  <2>. QED BY <2>1, <2>3, <2>4
<1>9. CASE PlanReady(j)
  <2>1. PICK scope \in {{}, {<<"regd", j>>}} : UpdateFiles({}, scope \cup {<<"auth", j>>})
    BY <1>9 DEF PlanReady
  <2>2. disk' = disk \cup scope \cup {<<"auth", j>>}
    BY <2>1, Removed
  <2>3. pc'[j] = "resolving" /\ wf' = wf
    BY <1>9 DEF PlanReady
  <2>4. <<"config", j>> \in disk' => wf'[j] = "install"
    BY <2>2, <2>3
  <2>5. disk' = disk \cup (scope \cup {<<"auth", j>>}) /\ pc'[j] \in Serving
    BY <2>2, <2>3 DEF Serving
  <2>. QED BY <1>3, <2>3, <2>4, <2>5
<1>. QED BY <1>5, <1>6, <1>7, <1>8, <1>9 DEF Request

\* A retry takes over the files of the run it repeats, which only keeps those.
LEMMA LeftRetry ==
    ASSUME ~UnlinkMayFail, LeftInv, NEW j \in Jobs, NEW r \in Jobs,
           NEW outcome \in {"completed_with_warnings", "failed"}, CloseAndRetry(j, r, outcome)
    PROVE  (OwnerInv /\ NothingLeftBehind)'
<1> USE RunAssumption DEF LeftInv, RegistryInv, SlotInv, TypeOK, ShareInv, OwnerInv
<1>1. /\ pc[j] = "exited" /\ pc[r] = "idle" /\ r # j /\ parent[j] = None /\ parent[r] = None
      /\ j \notin released /\ r \notin released /\ \A k \in Jobs : parent[k] # j /\ parent[k] # r
  <2>1. pc[j] = "exited" /\ pc[r] = "idle" /\ parent[j] = None
    BY DEF CloseAndRetry, MayRetry, BookInv
  <2>. QED BY <2>1
<1>2. /\ pc' = [pc EXCEPT ![j] = "done", ![r] = "resolving"]
      /\ parent' = [parent EXCEPT ![r] = j] /\ released' = released
      /\ \A k \in Jobs : k # r => wf'[k] = wf[k]
      /\ \A k \in Jobs : k # r /\ k # j => row'[k] = row[k]
  BY DEF CloseAndRetry
<1>3. disk' = (disk \ {<<"regd", j>>}) \cup {<<"regd", r>>}
  BY Removed DEF CloseAndRetry, KeptByCloser
<1>4. \A f \in disk' : /\ f[2] \in Jobs /\ f = <<f[1], f[2]>>
                       /\ f = <<"regd", r>> \/ (f \in disk /\ f[2] # r)
                       /\ f[2] = j => f[1] # "regd"
  BY <1>1, <1>3 DEF TrackInv, Files
<1>5. \A f \in disk' : \/ pc'[f[2]] \in Serving \cup {"lost"} \/ row'[f[2]] = "queued"
                       \/ \E k \in Jobs : parent'[k] = f[2] /\ pc'[k] \in Serving
  <2> SUFFICES ASSUME NEW f \in disk'
               PROVE  \/ pc'[f[2]] \in Serving \cup {"lost"} \/ row'[f[2]] = "queued"
                      \/ \E k \in Jobs : parent'[k] = f[2] /\ pc'[k] \in Serving
    OBVIOUS
  <2>1. CASE f[2] \in {j, r}
    <3>1. pc'[r] \in Serving /\ parent'[r] = j
      BY <1>1, <1>2 DEF Serving
    <3>. QED BY <2>1, <3>1
  <2>2. CASE f[2] \notin {j, r}
    <3>1. f \in disk /\ f[2] \in Jobs
      BY <1>4, <2>2
    <3>2. ASSUME NEW k \in Jobs, parent[k] = f[2], pc[k] \in Serving
          PROVE  k # r /\ k # j /\ parent'[k] = f[2] /\ pc'[k] \in Serving
      BY <1>1, <1>2, <3>1, <3>2
    <3>. QED BY <1>2, <2>2, <3>1, <3>2 DEF NothingLeftBehind
  <2>. QED BY <2>1, <2>2
<1>6. \A f \in disk' : f[1] = "config" => wf'[f[2]] = "install"
  BY <1>2, <1>4
<1>7. \A f \in disk' : f[1] # "regd" => parent'[f[2]] = None /\ f[2] \notin released'
  BY <1>2, <1>4
<1>8. \A f \in disk' : f[1] = "regd" => pc'[f[2]] \in Serving \cup {"lost"}
  BY <1>1, <1>2, <1>4 DEF Serving
<1>9. \A f \in disk' : pc'[f[2]] # "planning"
  BY <1>1, <1>2, <1>4
<1>. QED BY <1>5, <1>6, <1>7, <1>8, <1>9 DEF NothingLeftBehind

\* Steps that remove files at most, and leave whoever serves a run and every queued row.
LEMMA LeftKept ==
    ASSUME LeftInv, disk' \subseteq disk, UNCHANGED <<wf, parent>>, released' \subseteq released,
           \A k \in Jobs : pc[k] \in Serving \cup {"lost"} => pc'[k] \in Serving \cup {"lost"},
           \A k \in Jobs : pc'[k] = "planning" => pc[k] = "planning",
           \A k \in Jobs : row[k] = "queued" => row'[k] = "queued" \/ pc'[k] \in Serving \cup {"lost"},
           \A k \in Jobs : pc[k] = "done" => pc'[k] = "lost" \/ \A i \in Jobs : pc[i] \in Serving => pc'[i] \in Serving
    PROVE  (OwnerInv /\ NothingLeftBehind)'
<1> USE RunAssumption DEF LeftInv, RegistryInv, SlotInv, TypeOK, ShareInv, OwnerInv
<1>1. \A f \in disk : f[2] \in Jobs
  BY DEF Files
<1>2. \A f \in disk' : \/ pc'[f[2]] \in Serving \cup {"lost"} \/ row'[f[2]] = "queued"
                       \/ \E k \in Jobs : parent'[k] = f[2] /\ pc'[k] \in Serving
  <2> SUFFICES ASSUME NEW f \in disk', pc'[f[2]] \notin Serving \cup {"lost"}, row'[f[2]] # "queued"
               PROVE  \E k \in Jobs : parent'[k] = f[2] /\ pc'[k] \in Serving
    OBVIOUS
  <2>1. f \in disk /\ f[2] \in Jobs /\ pc[f[2]] \notin Serving \cup {"lost"} /\ row[f[2]] # "queued"
    BY <1>1
  <2>2. PICK k \in Jobs : parent[k] = f[2] /\ pc[k] \in Serving
    BY <2>1 DEF NothingLeftBehind
  <2>3. pc[f[2]] = "done"
    BY <2>1, <2>2
  <2>. QED BY <2>1, <2>2, <2>3
<1>. QED BY <1>1, <1>2 DEF NothingLeftBehind

LEMMA LeftStep ==
    ASSUME ~UnlinkMayFail
    PROVE  LeftInv /\ [Next]_vars => LeftInv'
<1> SUFFICES ASSUME LeftInv, [Next]_vars PROVE (OwnerInv /\ NothingLeftBehind)'
  BY TrackStep, ShareStep DEF LeftInv, RegistryInv, UseInv
<1> USE DEF LeftInv, RegistryInv, SlotInv, TypeOK
<1>1. ASSUME NEW j \in Jobs, Request(j) \/ PlanReady(j) PROVE (OwnerInv /\ NothingLeftBehind)'
  BY <1>1, LeftRequest
<1>2. ASSUME NEW j \in Jobs, PlanFails(j) PROVE (OwnerInv /\ NothingLeftBehind)'
  <2>1. /\ pc[j] = "planning" /\ pc' = [pc EXCEPT ![j] = "done"] /\ \A k \in Jobs \ {j} : row'[k] = row[k]
        /\ UNCHANGED <<disk, parent, wf, released>>
    BY <1>2 DEF PlanFails
  <2>2. \A f \in disk : f[2] \in Jobs /\ f[2] # j
    BY <2>1 DEF OwnerInv, Files
  <2>3. \A k \in Jobs : k # j => pc'[k] = pc[k]
    BY <2>1
  <2>4. parent[j] = None /\ \A k \in Jobs : parent[k] # None => parent[k] # j
    BY <2>1 DEF ShareInv
  <2>. QED BY RunAssumption, <2>1, <2>2, <2>3, <2>4 DEF ShareInv, OwnerInv, NothingLeftBehind
<1>3. ASSUME NEW j \in Jobs, NEW outcome \in Outcomes, LaunchFails(j) \/ LaunchErrors(j) \/ Close(j, outcome) \/ Checked(j)
      PROVE  (OwnerInv /\ NothingLeftBehind)'
  <2>1. /\ pc[j] \in Serving \ {"planning"} /\ UpdateFiles(RunFiles(j), {})
        /\ \E p \in {"done", "failing"} : (pc[j] # "resolving" => p = "done") /\ pc' = [pc EXCEPT ![j] = p]
        /\ released' = released \cup {Source(j)} /\ wf' = wf /\ parent' = parent
        /\ \A k \in Jobs : k # j => row'[k] = row[k]
    BY <1>3 DEF LaunchFails, LaunchErrors, Close, Checked, SettleAs, Serving
  <2>2. disk' = disk \ RunFiles(j)
    BY <2>1, Removed
  <2>. QED BY <2>1, <2>2, LeftRelease
<1>4. ASSUME NEW j \in Jobs, NEW r \in Jobs, NEW outcome \in {"completed_with_warnings", "failed"}, CloseAndRetry(j, r, outcome)
      PROVE  (OwnerInv /\ NothingLeftBehind)'
  BY <1>4, LeftRetry
<1>5. ASSUME NEW j \in Jobs, Launch(j) \/ BeginCheck(j) \/ ChildExits(j) PROVE (OwnerInv /\ NothingLeftBehind)'
  BY <1>5, LeftKept DEF Launch, BeginCheck, ChildExits, Serving
<1>6. ASSUME NEW j \in Jobs, Stop(j) PROVE (OwnerInv /\ NothingLeftBehind)'
  <2>1. \A k \in Jobs : row[k] = "queued" => row'[k] = "queued"
    BY <1>6 DEF Stop, BookInv
  <2>. QED BY <1>6, <2>1, LeftKept DEF Stop
<1>7. ASSUME NEW cancel \in BOOLEAN, StartOver(cancel) \/ MirroringStartOver PROVE (OwnerInv /\ NothingLeftBehind)'
  <2>1. /\ \A k \in Jobs : row[k] = "queued" => row'[k] = "queued"
        /\ UNCHANGED <<pc, wf, parent, released>>
    BY <1>7 DEF StartOver, MirroringStartOver, CancelEach, RunningOf
  <2>2. disk' \subseteq disk
    BY <1>7, Removed DEF StartOver, MirroringStartOver
  <2>. QED BY <2>1, <2>2, LeftKept
<1>8. ASSUME NEW S \in SUBSET Jobs, ForgetRows(S) PROVE (OwnerInv /\ NothingLeftBehind)'
  BY <1>8, LeftKept DEF ForgetRows, Clearable
<1>9. CASE Shutdown \/ Crash
  <2>1. /\ disk' \subseteq disk /\ released' = {} /\ UNCHANGED <<wf, parent>>
        /\ \A k \in Jobs : pc'[k] = IF pc[k] \in Serving \cup {"done"} THEN "lost" ELSE pc[k]
    BY <1>9 DEF Shutdown, Crash, ProcessEnds
  <2>2. \A k \in Jobs : row[k] = "queued" => row'[k] = "queued"
    BY <1>9 DEF Shutdown, Crash, BookInv
  <2>. QED BY <2>1, <2>2, LeftKept DEF Serving
<1>10. CASE Boot
  <2>1. disk' \subseteq disk /\ UNCHANGED <<wf, parent, pc, released>> /\ \A k \in Jobs : row[k] = "queued" => row'[k] = "queued"
    BY <1>10 DEF Boot, Undeletable
  <2>. QED BY <2>1, LeftKept
<1>11. CASE UNCHANGED vars
  BY <1>11, LeftKept DEF vars
<1>12. "failed" \in Outcomes
  BY DEF Outcomes
<1>. QED
  BY <1>1, <1>2, <1>3, <1>4, <1>5, <1>6, <1>7, <1>8, <1>9, <1>10, <1>11, <1>12 DEF Next, Serve, Handle

\* Where removals succeed, the temp files of a run go with the last code that serves it
\* or its retry, stopped, failed or started over as it may be.
THEOREM NothingStays ==
    ASSUME ~UnlinkMayFail
    PROVE  Spec => []NothingLeftBehind
<1>1. Init => LeftInv
  BY TrackInit, ShareInit DEF Init, LeftInv, UseInv, OwnerInv, NothingLeftBehind
<1>2. LeftInv => NothingLeftBehind
  BY DEF LeftInv
<1>. QED BY <1>1, <1>2, LeftStep, PTL DEF Spec
-----------------------------------------------------------------------------
(* OcMirrorRuns implements RunService: its initial state is one of RunService, and
   each of its steps is a step of RunService or leaves what a client sees, the rows
   and the run that holds the slot, unchanged. *)

\* Who holds the slot, before and after a step.
LEMMA HolderIs ==
    ASSUME OneRun, NEW j \in Holders
    PROVE  SlotHolder = j
  BY DEF SlotHolder, TheOne, OneRun

LEMMA HolderIsAfter ==
    ASSUME OneRun', NEW j \in Holders'
    PROVE  SlotHolder' = j
  BY DEF SlotHolder, TheOne, OneRun

\* Nobody holds the slot, before and after a step, or the same run does.
LEMMA NoHolder == Holders = {} => SlotHolder = None
  BY DEF SlotHolder, TheOne

LEMMA NoHolderAfter == Holders' = {} => SlotHolder' = None
  BY DEF SlotHolder, TheOne

LEMMA SameHolder == Holders' = Holders => SlotHolder' = SlotHolder
  BY DEF SlotHolder, TheOne

\* What SlotInv says of the holders, as the cases below use it.
LEMMA HoldersFacts ==
    ASSUME SlotInv
    PROVE  /\ Holders \subseteq Jobs
           /\ \A j \in Jobs : up /\ row[j] = "running" => j \in Holders /\ j \in activeProcesses
           /\ \A j \in Jobs : pc[j] \in {"planning", "resolving"} =>
                                row[j] = "queued" /\ Holders = {j} /\ pending = {j}
           /\ ~up => Holders = {} /\ activeProcesses = {}
  BY DEF SlotInv, TypeOK, BookInv, OneRun, Holders, Serving

\* The step, seen through the mapping, is one of RunService's or a stutter.
Mapped == [Promise!Next]_(Promise!vars)

\* One run gets an outcome from "running" and nobody holds the slot afterwards.
LEMMA FinishStep ==
    ASSUME SlotInv, up, NEW j \in Jobs, row[j] = "running",
           NEW outcome \in Terminal, row' = [row EXCEPT ![j] = outcome],
           pending' = pending, activeProcesses' = activeProcesses \ {j}
    PROVE  Mapped
<1>1. j \in Holders /\ SlotHolder = j
  BY HoldersFacts, HolderIs DEF SlotInv
<1>2. Holders' = {}
  BY <1>1 DEF Holders, SlotInv, OneRun, TypeOK, BookInv, Terminal
<1>3. SlotHolder' = None
  BY <1>2, NoHolderAfter
<1>4. Promise!Finish(j, outcome)
  BY <1>1, <1>3 DEF Promise!Finish
<1>5. outcome \in Promise!Outcomes
  BY DEF Terminal, Promise!Outcomes
<1>. QED BY <1>4, <1>5 DEF Mapped, Promise!Next

\* The rows stay as they are, and so do the holders.
LEMMA StutterStep ==
    ASSUME row' = row, Holders' = Holders
    PROVE  Mapped
  BY SameHolder DEF Mapped, Promise!vars

\* Requests are accepted or rejected.
LEMMA MapRequest ==
    ASSUME SlotInv, SlotInv', NEW j \in Jobs, Request(j)
    PROVE  Mapped
<1> USE DEF SlotInv
<1>1. Holders = {} /\ SlotHolder = None
  <2>1. ~SlotHeldBy(activeProcesses)
    BY DEF Request, RequestInstall, RequestMirroring, RequestRefused, RequestThrows
  <2>2. Holders = {}
    BY <2>1, FreeSlot DEF Holders
  <2>. QED BY <2>2, NoHolder
<1>2. CASE RequestInstall(j) \/ RequestMirroring(j)
  <2>1. j \in Holders'
    BY <1>2 DEF RequestInstall, RequestMirroring, Holders
  <2>2. SlotHolder' = j
    BY <2>1, HolderIsAfter
  <2>3. Promise!Accept(j)
    BY <1>1, <1>2, <2>2 DEF RequestInstall, RequestMirroring, Promise!Accept
  <2>. QED BY <2>3 DEF Mapped, Promise!Next
<1>3. CASE RequestRefused(j) \/ RequestThrows(j)
  <2>1. Holders' = Holders
    BY <1>3 DEF RequestRefused, RequestThrows, Holders, TypeOK, BookInv
  <2>2. Promise!Reject(j)
    BY <1>1, <1>3, <2>1, SameHolder DEF RequestRefused, RequestThrows, Promise!Reject
  <2>. QED BY <2>2 DEF Mapped, Promise!Next
<1>. QED BY <1>2, <1>3 DEF Request

\* Settling finishes a running row and is invisible for one that has its outcome.
LEMMA MapSettle ==
    ASSUME SlotInv, up, NEW j \in Jobs, NEW outcome \in Outcomes, SettleAs(j, outcome),
           pc[j] \in {"exited", "failing", "checking"}
    PROVE  Mapped
<1> USE DEF SlotInv, TypeOK, BookInv
<1>1. CASE row[j] = "running"
  <2>1. row' = [row EXCEPT ![j] = outcome] /\ outcome \in Terminal
    BY <1>1, UnlessTerminalValue DEF SettleAs, Terminal, Outcomes
  <2>. QED BY <1>1, <2>1, FinishStep DEF SettleAs
<1>2. CASE row[j] # "running"
  <2>1. row' = row
    BY <1>2, UnlessTerminalValue DEF SettleAs, Terminal
  <2>2. Holders' = Holders
    BY <1>2, <2>1 DEF SettleAs, Holders
  <2>. QED BY <2>1, <2>2, StutterStep
<1>. QED BY <1>1, <1>2

\* The serving code starts, finishes or retries the holder.
LEMMA MapServe ==
    ASSUME SlotInv, SlotInv', NEW j \in Jobs, Serve(j)
    PROVE  Mapped
<1> USE DEF SlotInv, TypeOK, BookInv
<1>1. CASE PlanReady(j)
  BY <1>1, StutterStep DEF PlanReady, Holders
<1>2. CASE PlanFails(j) \/ LaunchFails(j) \/ LaunchErrors(j)
  <2>1. row[j] = "queued" /\ Holders = {j} /\ pending = {j}
    BY <1>2, HoldersFacts DEF PlanFails, LaunchFails, LaunchErrors
  <2>2. Holders' = {}
    BY <1>2, <2>1 DEF PlanFails, LaunchFails, LaunchErrors, Holders
  <2>3. SlotHolder = j /\ SlotHolder' = None
    BY <2>1, <2>2, HolderIs, NoHolderAfter
  <2>4. Promise!Start(j)
    BY <1>2, <2>1, <2>3 DEF PlanFails, LaunchFails, LaunchErrors, Promise!Start
  <2>. QED BY <2>4 DEF Mapped, Promise!Next
<1>3. CASE Launch(j)
  <2>1. row[j] = "queued" /\ Holders = {j}
    BY <1>3, HoldersFacts DEF Launch
  <2>2. j \in Holders'
    BY <1>3 DEF Launch, Holders
  <2>3. SlotHolder = j /\ SlotHolder' = j
    BY <2>1, <2>2, HolderIs, HolderIsAfter
  <2>4. Promise!Start(j)
    BY <1>3, <2>1, <2>3 DEF Launch, Promise!Start
  <2>. QED BY <2>4 DEF Mapped, Promise!Next
<1>4. CASE BeginCheck(j)
  <2>1. row[j] \in {"running", "deleted"} /\ row' = row
    BY <1>4 DEF BeginCheck
  <2>2. Holders' = Holders
    BY <1>4, <2>1 DEF BeginCheck, Holders
  <2>. QED BY <2>1, <2>2, StutterStep
<1>5. ASSUME NEW outcome \in Outcomes, Close(j, outcome) PROVE Mapped
  BY <1>5, MapSettle DEF Close
<1>6. CASE Checked(j)
  BY <1>6, MapSettle DEF Checked, Outcomes
<1>7. ASSUME NEW r \in Jobs, NEW outcome \in {"completed_with_warnings", "failed"},
             CloseAndRetry(j, r, outcome)
      PROVE  Mapped
  <2>1. row[j] = "running" /\ up /\ row[r] = "absent"
    BY <1>7, UnlessTerminalValue DEF CloseAndRetry, MayRetry, Terminal
  <2>2. SlotHolder = j
    BY <2>1, HoldersFacts, HolderIs
  <2>3. SlotHolder' = r
    BY <1>7, HolderIsAfter DEF CloseAndRetry, Holders
  <2>4. row' = [row EXCEPT ![j] = outcome, ![r] = "queued"]
    <3>1. UnlessTerminal(j, outcome) = outcome
      BY <2>1, UnlessTerminalValue DEF Terminal
    <3>. QED BY <1>7, <3>1 DEF CloseAndRetry
  <2>5. outcome \in Promise!Outcomes /\ outcome # "cancelled"
    BY DEF Promise!Outcomes
  <2>6. Promise!FinishAndRetry(j, r, outcome)
    BY <2>1, <2>2, <2>3, <2>4, <2>5 DEF Promise!FinishAndRetry
  <2>. QED BY <2>5, <2>6 DEF Mapped, Promise!Next
<1>. QED
  BY <1>1, <1>2, <1>3, <1>4, <1>5, <1>6, <1>7 DEF Serve, Handle

\* Cancelling running rows cancels the holder, or nobody.
LEMMA MapCancel ==
    ASSUME SlotInv, up, NEW W, NEW stopped, stopped \in {{}, RunningOf(W)},
           row' = CancelEach(stopped, row), pending' = pending,
           activeProcesses' = activeProcesses \ stopped
    PROVE  Mapped
<1> USE DEF SlotInv, TypeOK
<1>1. CASE stopped = {}
  <2>1. row' = row
    BY <1>1 DEF CancelEach
  <2>. QED BY <1>1, <2>1, StutterStep DEF Holders
<1>2. ASSUME NEW k \in stopped PROVE Mapped
  <2>1. k \in Jobs /\ row[k] = "running"
    BY <1>2 DEF RunningOf
  <2>2. stopped = {k}
    BY <1>2, <2>1, HoldersFacts DEF RunningOf, OneRun
  <2>3. row' = [row EXCEPT ![k] = "cancelled"]
    BY <2>1, <2>2 DEF CancelEach
  <2>. QED BY <2>1, <2>2, <2>3, FinishStep DEF Terminal
<1>. QED BY <1>1, <1>2

\* A shutdown finishes the running holder or interrupts a reservation.
LEMMA MapShutdown ==
    ASSUME SlotInv, Shutdown
    PROVE  Mapped
<1> USE DEF SlotInv, TypeOK, BookInv
<1>1. Holders' = {} /\ SlotHolder' = None
  BY NoHolderAfter DEF Shutdown, ProcessEnds, Holders
<1>2. ASSUME NEW k \in activeProcesses, row[k] = "running" PROVE Mapped
  <2>1. k \in Jobs /\ SlotHolder = k
    BY <1>2, HolderIs DEF Holders
  <2>2. \A j \in activeProcesses \ {k} : row[j] = "deleted"
    BY <1>2 DEF OneRun, Holders
  <2>3. row' = [row EXCEPT ![k] = "cancelled"]
    <3>1. UnlessTerminal(k, "cancelled") = "cancelled"
      BY <1>2, UnlessTerminalValue DEF Terminal
    <3>2. \A j \in activeProcesses \ {k} : UnlessTerminal(j, "cancelled") = row[j]
      BY <2>2, UnlessTerminalValue DEF Terminal
    <3>. QED BY <2>1, <3>1, <3>2 DEF Shutdown
  <2>4. Promise!Finish(k, "cancelled")
    BY <1>1, <1>2, <2>1, <2>3 DEF Promise!Finish
  <2>. QED BY <2>1, <2>4 DEF Mapped, Promise!Next, Promise!Outcomes
<1>3. CASE \A k \in activeProcesses : row[k] # "running"
  <2>1. row' = row
    BY <1>3, UnlessTerminalValue DEF Shutdown, Terminal
  <2>. QED BY <1>1, <2>1 DEF Mapped, Promise!Next, Promise!Interrupt
<1>. QED BY <1>2, <1>3

\* Every step of the detailed specification is mapped.
LEMMA MapStep ==
    ASSUME SlotInv, SlotInv', [Next]_vars
    PROVE  Mapped
<1> USE DEF SlotInv, TypeOK, BookInv
<1>1. ASSUME NEW j \in Jobs, Request(j) PROVE Mapped
  BY <1>1, MapRequest
<1>2. ASSUME NEW j \in Jobs, Serve(j) PROVE Mapped
  BY <1>2, MapServe
<1>3. ASSUME NEW j \in Jobs, ChildExits(j) PROVE Mapped
  BY <1>3, StutterStep DEF ChildExits, Holders
<1>4. ASSUME NEW j \in Jobs, Stop(j) PROVE Mapped
  <2>1. CASE row[j] = "running"
    <3>1. row' = [row EXCEPT ![j] = "cancelled"]
      <4>1. UnlessTerminal(j, "cancelled") = "cancelled"
        BY <2>1, UnlessTerminalValue DEF Terminal
      <4>. QED BY <1>4, <4>1 DEF Stop
    <3>. QED BY <1>4, <2>1, <3>1, FinishStep DEF Stop, Terminal
  <2>2. CASE row[j] = "deleted"
    <3>1. row' = row
      BY <1>4, <2>2, UnlessTerminalValue DEF Stop
    <3>. QED BY <1>4, <2>2, <3>1, StutterStep DEF Stop, Holders
  <2>. QED BY <1>4, <2>1, <2>2 DEF Stop
<1>5. ASSUME NEW cancel \in BOOLEAN, StartOver(cancel) PROVE Mapped
  BY <1>5, MapCancel DEF StartOver
<1>6. CASE MirroringStartOver
  BY <1>6, MapCancel DEF MirroringStartOver
<1>7. ASSUME NEW S \in SUBSET Jobs, ForgetRows(S) PROVE Mapped
  <2>1. Holders' = Holders
    BY <1>7 DEF ForgetRows, Holders, Clearable
  <2>2. Promise!Forget(S)
    BY <1>7, <2>1, SameHolder DEF ForgetRows, Clearable, Promise!Forget, Promise!Clearable, Promise!Outcomes
  <2>. QED BY <2>2 DEF Mapped, Promise!Next
<1>8. CASE Shutdown
  BY <1>8, MapShutdown
<1>9. CASE Crash
  <2>1. SlotHolder' = None
    BY <1>9, NoHolderAfter DEF Crash, ProcessEnds, Holders
  <2>. QED BY <1>9, <2>1 DEF Crash, Mapped, Promise!Next, Promise!Interrupt
<1>10. CASE Boot
  <2>1. Holders = {} /\ Holders' = {}
    BY <1>10, HoldersFacts DEF Boot, Holders
  <2>2. SlotHolder = None /\ SlotHolder' = None
    BY <2>1, NoHolder, NoHolderAfter
  <2>. QED BY <1>10, <2>2 DEF Boot, Mapped, Promise!Next, Promise!Reconcile
<1>11. CASE UNCHANGED vars
  BY <1>11, StutterStep DEF vars, Holders
<1>. QED
  BY <1>1, <1>2, <1>3, <1>4, <1>5, <1>6, <1>7, <1>8, <1>9, <1>10, <1>11 DEF Next

\* Whatever its handlers, awaits, children, crashes and file errors do, the service
\* shows its clients only the behaviours of RunService.
THEOREM KeepsPromise == Spec => ServicePromise
<1>1. Init => Promise!Init
  <2>1. Init => Holders = {}
    BY DEF Init, Holders
  <2>. QED BY <2>1, NoHolder DEF Init, Promise!Init
<1>2. SlotInv /\ SlotInv' /\ [Next]_vars => [Promise!Next]_(Promise!vars)
  BY MapStep DEF Mapped
<1>. QED
  BY <1>1, <1>2, SlotInit, SlotStep, PTL DEF Spec, ServicePromise, Promise!Spec
=============================================================================
