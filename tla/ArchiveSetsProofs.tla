-------------------------- MODULE ArchiveSetsProofs --------------------------
(***************************************************************************)
(* What becomes of archives, for any number of runs: SucceededArchives-    *)
(* Survive and CleanTransferIsOwn.                                         *)
(***************************************************************************)
EXTENDS ArchiveSets, WellFoundedInduction, NaturalsInduction, TLAPS

-----------------------------------------------------------------------------
(* The invariant *)

Children == {"none", "spawned", "emptied", "written", "ended", "closed"}
Working  == {"spawned", "emptied", "written"}

Places   == Runs \cup {None}

\* TypeOK, and that the histories are sequences.
Typed ==
    /\ status \in [Runs -> Statuses] /\ kind \in [Runs -> {"none", "real", "dry"}]
    /\ child \in [Runs -> Children] /\ exit \in [Runs -> {"none", "ok", "warn", "fail"}]
    /\ plan \in [Runs -> Places]
    /\ seen \in [Runs -> Seq(Runs)] /\ \A r \in Runs : IsInjective(seen[r])
    /\ history \in Seq(Runs) /\ IsInjective(history)
    /\ archiveSet \subseteq Runs /\ top \in Places /\ sets \in [Runs -> Places]
    /\ preserved \subseteq Runs /\ destroyed \subseteq Runs /\ slot \in Places
    /\ transfer \in [of : Places, from : {"none", "set", "top"}]
    /\ prepared \in [of : Runs, from : {"set", "top"}, holds : Runs] \cup {Unprepared}
    /\ overlap \in BOOLEAN /\ up \in BOOLEAN

\* How the row of a run, its child, its plan, the slot and the process belong together.
RunInv ==
    /\ \A r \in Runs : status[r] = "absent" <=> plan[r] = None
    /\ \A r \in Runs : status[r] \in {"absent", "queued"} => child[r] = "none"
    /\ \A r \in Runs : child[r] \in {"none"} \cup Working => exit[r] = "none"
    /\ \A r \in Runs : status[r] \in Succeeded => child[r] = "closed"
    /\ \A r \in Runs : status[r] = "deleted" => ~Unclosed(r)
    /\ \A r \in Runs : up /\ status[r] = "running" => slot = r /\ Unclosed(r)
    /\ \A r \in Runs : slot = r => status[r] \in {"queued", "running"}
    /\ transfer # NoTransfer => /\ transfer.of \in Runs /\ child[transfer.of] = "closed"
                                /\ transfer.from \in {"set", "top"}
    /\ ~up => slot = None /\ transfer = NoTransfer /\ \A r \in Runs : ~Unclosed(r)

\* A plan is that of the run it was made for and of at most one retry, which came when
\* the first had closed and had not exited 0.
PlanInv ==
    /\ \A r \in Runs : plan[r] \in Runs => status[plan[r]] # "absent"
    /\ \A r \in Runs : plan[r] \in Runs \ {r} => child[plan[r]] = "closed" /\ exit[plan[r]] # "ok"
    /\ \A r, q \in Runs : plan[r] \in Runs /\ plan[r] = plan[q] /\ plan[r] \notin {r, q} => r = q

\* A history has runs that were launched or failed to be; what a run has seen of it are
\* runs of other plans.
HistoryInv ==
    /\ \A i \in DOMAIN history : status[history[i]] \notin {"absent", "queued"}
    /\ \A r \in Runs : \A i \in DOMAIN seen[r] :
          status[seen[r][i]] # "absent" /\ plan[seen[r][i]] # plan[r]

\* The run that has the slot and a child is the last of the history.
HeadInv == \A r \in Runs : slot = r /\ status[r] = "running" => history # <<>> /\ history[Len(history)] = r

\* Runs that have the slot before they start, or a child.
Live(r) == Unclosed(r) \/ (status[r] = "queued" /\ slot = r)

\* Nothing is destroyed: one child at a time finds nothing at the top level.  What a run
\* that holds the slot has written is there until it closes, and its plan's set is empty;
\* a stopped run's archives may have been moved by the hooks of a run that was refused.
\* A recorded set of a run that exited 0 holds that run's archives.
PlaceInv ==
    /\ destroyed = {}
    /\ \A r, q \in Runs : Unclosed(r) /\ Unclosed(q) => r = q
    /\ \A r \in Runs : child[r] \in {"spawned", "emptied"} => top = None
    /\ \A r \in Runs : child[r] = "written" \/ (child[r] = "ended" /\ exit[r] = "ok" /\ kind[r] = "real") =>
          top \in {r, None} /\ (status[r] = "running" => top = r)
    /\ \A r \in Runs : sets[r] # None => status[r] # "absent"
    /\ \A r \in Runs : slot = r => sets[plan[r]] = None
    /\ \A r \in archiveSet : child[r] = "closed"
    /\ \A r \in archiveSet : exit[r] = "ok" /\ kind[r] = "real" /\ status[r] \in Succeeded => sets[plan[r]] = r

\* A run that exited 0 and whose archives could not be moved at all.
Pending(r) ==
    exit[r] = "ok" /\ kind[r] = "real" /\ status[r] \in Succeeded /\ r \notin archiveSet /\ sets[plan[r]] = None

\* The last run of a history that succeeded.
LastIn(h, r) == \E i \in DOMAIN h : h[i] = r /\ \A j \in DOMAIN h : j > i => status[h[j]] \notin Succeeded

\* Its archives stay at the top level until the next run's hooks, which know it as their
\* owner: no run succeeds in between.
PendingInv ==
    \A r \in Runs : Pending(r) =>
        /\ top = r /\ LastIn(history, r)
        /\ \A q \in Runs : ~Unclosed(q) /\ (status[q] = "queued" /\ slot = q => LastIn(seen[q], r))

\* What is read from the set of a run that exited 0 is that run's.
TransferInv ==
    /\ transfer.from = "set" /\ exit[transfer.of] = "ok" => sets[plan[transfer.of]] = transfer.of
    /\ prepared.from = "set" => child[prepared.of] = "closed" /\ (exit[prepared.of] = "ok" => prepared.holds = prepared.of)

IInv ==
    /\ Typed /\ RunInv /\ PlanInv /\ HistoryInv /\ HeadInv
    /\ ~overlap => PlaceInv /\ PendingInv /\ TransferInv

-----------------------------------------------------------------------------
(* The latest run of a history *)

LEMMA Smallest ==
    ASSUME NEW S, S \subseteq Nat, S # {}
    PROVE  \E x \in S : \A y \in S : x <= y
<1>1. PICK x \in S : \A y \in S : <<y, x>> \notin OpToRel(<, Nat)
  BY NatLessThanWellFounded, WFMin
<1>2. \A y \in S : <<y, x>> \in OpToRel(<, Nat) <=> y < x
  BY DEF OpToRel
<1>3. \A y \in S : ~(y < x)
  BY <1>1, <1>2
<1>4. \A y \in S : x <= y
  BY <1>3
<1>. QED BY <1>4

LEMMA Largest ==
    ASSUME NEW n \in Nat, NEW S, S \subseteq 1..n, S # {}
    PROVE  Max(S) \in S /\ \A y \in S : y <= Max(S)
<1> DEFINE T == {n - x : x \in S}
<1>0. \A x \in S : n - x \in Nat
  OBVIOUS
<1>1. T \subseteq Nat /\ T # {}
  BY <1>0
<1>2. PICK t \in T : \A u \in T : t <= u
  BY <1>1, Smallest
<1>3. PICK m \in S : t = n - m
  BY <1>2
<1>4. \A y \in S : n - m <= n - y
  BY <1>2, <1>3
<1>5. \A y \in S : m >= y
  BY <1>4
<1>6. Max(S) \in S /\ \A y \in S : Max(S) >= y
  BY <1>5 DEF Max
<1>. QED BY <1>6

LEMMA LatestIsGood ==
    ASSUME NEW h \in Seq(Runs), NEW Good, LatestIn(h, Good) # None
    PROVE  \E i \in DOMAIN h : LatestIn(h, Good) = h[i] /\ h[i] \in Good
<1> DEFINE at == {i \in DOMAIN h : h[i] \in Good}
<1>1. at # {} /\ LatestIn(h, Good) = h[Max(at)]
  BY DEF LatestIn
<1>2. Len(h) \in Nat /\ at \subseteq 1..Len(h)
  OBVIOUS
<1>3. Max(at) \in at
  BY <1>1, <1>2, Largest
<1>. QED BY <1>1, <1>3

\* The owner of what is at the top level is another run, of another plan, that succeeded.
LEMMA OwnerFacts ==
    ASSUME Typed, HistoryInv, NEW r \in Runs, Owner(r) # None
    PROVE  /\ Owner(r) \in Runs \ {r} /\ kind[Owner(r)] = "real" /\ status[Owner(r)] \in Succeeded
           /\ plan[Owner(r)] # plan[r] /\ Owner(r) \notin archiveSet
<1> DEFINE Good == {q \in Runs \ {r} : kind[q] = "real" /\ status[q] \in Succeeded}
           k == LatestIn(seen[r], Good)
<1>1. k # None /\ k \notin archiveSet /\ Owner(r) = k
  BY DEF Owner
<1>2. seen[r] \in Seq(Runs)
  BY DEF Typed
<1>3. PICK i \in DOMAIN seen[r] : k = seen[r][i] /\ seen[r][i] \in Good
  BY <1>1, <1>2, LatestIsGood
<1>4. plan[k] # plan[r]
  BY <1>3 DEF HistoryInv
<1>. QED BY <1>1, <1>3, <1>4

-----------------------------------------------------------------------------
(* Types *)

LEMMA TypedIsTypeOK == Typed => TypeOK
<1> SUFFICES ASSUME Typed PROVE TypeOK
  OBVIOUS
<1>1. \A h \in Seq(Runs) : Range(h) \subseteq Runs
  BY DEF Range
<1>2. Range(history) \subseteq Runs /\ \A r \in Runs : Range(seen[r]) \subseteq Runs
  BY <1>1 DEF Typed
<1>. QED BY <1>2 DEF Typed, TypeOK, Places, Children

LEMMA NoneIsNoRun == None \notin Runs /\ None \in Places /\ Runs \subseteq Places
  BY ArchiveAssumption DEF ArchiveAssumption, Places

\* An injective history stays one when a run that is not in it comes last.
LEMMA AppendNew ==
    ASSUME NEW h \in Seq(Runs), IsInjective(h), NEW r \in Runs, \A i \in DOMAIN h : h[i] # r
    PROVE  /\ Append(h, r) \in Seq(Runs) /\ IsInjective(Append(h, r))
           /\ \A i \in DOMAIN Append(h, r) : Append(h, r)[i] = r \/ \E j \in DOMAIN h : Append(h, r)[i] = h[j]
<1>1. Append(h, r) \in Seq(Runs) /\ DOMAIN Append(h, r) = 1..(Len(h) + 1) /\ DOMAIN h = 1..Len(h) /\ Len(h) \in Nat
  OBVIOUS
<1>2. \A i \in 1..(Len(h) + 1) : (i = Len(h) + 1 /\ Append(h, r)[i] = r) \/ (i \in 1..Len(h) /\ Append(h, r)[i] = h[i])
  OBVIOUS
<1>. QED BY <1>1, <1>2 DEF IsInjective

Hooks(r) == ProtectBeforeRun(r) \/ ProtectBreaksOff(r)

\* The set the hooks fill is empty and that of its owner.
LEMMA SetForFacts ==
    ASSUME Typed, HistoryInv, NEW r \in Runs, SetFor(r) # None
    PROVE  /\ SetFor(r) = Owner(r) /\ top # None /\ sets[plan[SetFor(r)]] = None
           /\ SetFor(r) \in Runs \ {r} /\ kind[SetFor(r)] = "real" /\ status[SetFor(r)] \in Succeeded
           /\ plan[SetFor(r)] # plan[r] /\ SetFor(r) \notin archiveSet
<1>1. SetFor(r) = Owner(r) /\ top # None /\ Owner(r) # None /\ sets[plan[Owner(r)]] = None
  BY DEF SetFor
<1>. QED BY <1>1, OwnerFacts

LEMMA MoveEffect ==
    ASSUME Typed, NEW k \in Runs, NEW outcome \in MoveOutcomes, MoveToSet(k, outcome)
    PROVE  /\ sets' = [sets EXCEPT ![plan[k]] = top] /\ top' \in {top, None} /\ preserved' = preserved
           /\ archiveSet \subseteq archiveSet' /\ archiveSet' \subseteq archiveSet \cup {k}
           /\ outcome = "recorded" => top' = None /\ archiveSet' = archiveSet \cup {k}
  BY DEF MoveToSet, MoveOutcomes

\* What the hooks do, thrown or not: they fill the set of SetFor, or no set.
LEMMA HooksEffect ==
    ASSUME Typed, HistoryInv, NEW r \in Runs, Hooks(r)
    PROVE  /\ top' \in {top, None}
           /\ ProtectBeforeRun(r) => top' = None
           /\ preserved' \subseteq preserved \cup ({top} \ {None})
           /\ \/ sets' = sets /\ archiveSet' = archiveSet
              \/ /\ SetFor(r) # None /\ sets' = [sets EXCEPT ![plan[SetFor(r)]] = top]
                 /\ archiveSet \subseteq archiveSet' /\ archiveSet' \subseteq archiveSet \cup {SetFor(r)}
<1>1. CASE SetFor(r) # None
  <2>1. SetFor(r) \in Runs /\ "recorded" \in MoveOutcomes
    BY <1>1, SetForFacts DEF MoveOutcomes
  <2>2. CASE UNCHANGED placeVars /\ ~ProtectBeforeRun(r)
    BY <2>2 DEF placeVars
  <2>3. ASSUME NEW outcome \in MoveOutcomes, MoveToSet(SetFor(r), outcome), ProtectBeforeRun(r) => outcome = "recorded"
        PROVE  /\ top' \in {top, None}
               /\ ProtectBeforeRun(r) => top' = None
               /\ preserved' = preserved /\ sets' = [sets EXCEPT ![plan[SetFor(r)]] = top]
               /\ archiveSet \subseteq archiveSet' /\ archiveSet' \subseteq archiveSet \cup {SetFor(r)}
    BY <2>1, <2>3, MoveEffect
  <2>4. CASE ProtectBeforeRun(r)
    <3>1. MoveToSet(SetFor(r), "recorded")
      BY <1>1, <2>4 DEF ProtectBeforeRun
    <3>. QED BY <1>1, <2>1, <2>3, <3>1
  <2>5. CASE ~ProtectBeforeRun(r)
    <3>1. UNCHANGED placeVars \/ \E outcome \in MoveOutcomes : MoveToSet(SetFor(r), outcome)
      BY <1>1, <2>5 DEF Hooks, ProtectBreaksOff
    <3>. QED BY <1>1, <2>2, <2>3, <2>5, <3>1
  <2>. QED BY <2>4, <2>5
<1>2. CASE SetFor(r) = None
  <2>1. CASE ProtectBeforeRun(r)
    BY <1>2, <2>1 DEF ProtectBeforeRun
  <2>2. CASE ~ProtectBeforeRun(r)
    <3>1. UNCHANGED placeVars \/ (top # None /\ top' \in {top, None} /\ preserved' = preserved \cup {top} /\ UNCHANGED <<sets, archiveSet>>)
      BY <1>2, <2>2 DEF Hooks, ProtectBreaksOff
    <3>. QED BY <2>2, <3>1 DEF placeVars
  <2>. QED BY <2>1, <2>2
<1>. QED BY <1>1, <1>2

LEMMA KeepEffect ==
    ASSUME Typed, NEW r \in Runs, KeepRunArchives(r)
    PROVE  /\ top' \in {top, None} /\ preserved' = preserved
           /\ \/ sets' = sets /\ archiveSet' = archiveSet /\ top' = top
              \/ /\ exit[r] = "ok" /\ kind[r] = "real" /\ top # None /\ sets[plan[r]] = None
                 /\ sets' = [sets EXCEPT ![plan[r]] = top]
                 /\ archiveSet \subseteq archiveSet' /\ archiveSet' \subseteq archiveSet \cup {r}
<1>1. CASE UNCHANGED placeVars
  BY <1>1 DEF placeVars
<1>2. CASE ~UNCHANGED placeVars
  <2>1. exit[r] = "ok" /\ kind[r] = "real" /\ top # None /\ sets[plan[r]] = None
        /\ \E outcome \in MoveOutcomes : MoveToSet(r, outcome)
    BY <1>2 DEF KeepRunArchives
  <2>. QED BY <2>1, MoveEffect
<1>. QED BY <1>1, <1>2

LEMMA PlacesTyped ==
    ASSUME Typed, HistoryInv, NEW r \in Runs, Hooks(r) \/ KeepRunArchives(r)
    PROVE  archiveSet' \subseteq Runs /\ top' \in Places /\ sets' \in [Runs -> Places] /\ preserved' \subseteq Runs
<1>0. archiveSet \subseteq Runs /\ top \in Places /\ sets \in [Runs -> Places] /\ preserved \subseteq Runs
  BY DEF Typed
<1>1. CASE Hooks(r)
  <2>1. SetFor(r) # None => SetFor(r) \in Runs
    BY SetForFacts
  <2>2. preserved' \subseteq preserved \cup ({top} \ {None}) /\ top' \in {top, None}
    BY <1>1, HooksEffect
  <2>3. archiveSet' \subseteq Runs /\ sets' \in [Runs -> Places]
    BY <1>0, <1>1, <2>1, HooksEffect
  <2>. QED BY <1>0, <2>2, <2>3 DEF Places
<1>2. CASE KeepRunArchives(r)
  BY <1>0, <1>2, KeepEffect DEF Places
<1>. QED BY <1>1, <1>2

LEMMA TypesStep == Typed /\ RunInv /\ HistoryInv /\ [Next]_vars => Typed'
<1> SUFFICES ASSUME Typed, RunInv, HistoryInv, [Next]_vars PROVE Typed'
  OBVIOUS
<1>a. \A r \in Runs : Settled(r) \in [Runs -> Statuses]
  BY DEF Typed, Settled, StatusOf, Statuses
<1>b. {"absent", "queued", "running", "failed", "cancelled", "deleted"} \subseteq Statuses
  BY DEF Statuses
<1>c. {"spawned", "emptied", "written", "ended", "closed"} \subseteq Children
  BY DEF Children
<1>d. NoTransfer \in [of : Places, from : {"none", "set", "top"}]
  BY NoneIsNoRun DEF NoTransfer
<1>1. ASSUME NEW r \in Runs, NEW k \in {"real", "dry"}, Request(r, k) PROVE Typed'
  <2>1. seen' \in [Runs -> Seq(Runs)] /\ \A q \in Runs : IsInjective(seen'[q])
    BY <1>1 DEF Typed, Request
  <2>2. kind' \in [Runs -> {"none", "real", "dry"}] /\ plan' \in [Runs -> Places] /\ slot' \in Places
    BY <1>1, NoneIsNoRun DEF Typed, Request
  <2>. QED BY <1>1, <1>b, <2>1, <2>2 DEF Typed, Request, placeVars
<1>2. ASSUME NEW r \in Runs, Launch(r) PROVE Typed'
  <2>1. history' \in Seq(Runs) /\ IsInjective(history')
    BY <1>2, AppendNew DEF Typed, HistoryInv, Launch
  <2>2. archiveSet' \subseteq Runs /\ top' \in Places /\ sets' \in [Runs -> Places] /\ preserved' \subseteq Runs
    BY <1>2, PlacesTyped DEF Launch, Hooks
  <2>3. overlap' \in BOOLEAN
    BY <1>2 DEF Launch
  <2>4. status' \in [Runs -> Statuses] /\ child' \in [Runs -> Children]
    BY <1>2, <1>b, <1>c DEF Launch, Typed
  <2>. QED BY <1>2, <2>1, <2>2, <2>3, <2>4 DEF Typed, Launch, askVars
<1>3. ASSUME NEW r \in Runs, LaunchFails(r) PROVE Typed'
  <2>1. history' \in Seq(Runs) /\ IsInjective(history')
    BY <1>3, AppendNew DEF Typed, HistoryInv, LaunchFails
  <2>2. archiveSet' \subseteq Runs /\ top' \in Places /\ sets' \in [Runs -> Places] /\ preserved' \subseteq Runs
    BY <1>3, PlacesTyped DEF LaunchFails, Hooks
  <2>3. status' \in [Runs -> Statuses] /\ slot' \in Places
    BY <1>3, <1>b, NoneIsNoRun DEF Typed, LaunchFails
  <2>. QED BY <1>3, <2>1, <2>2, <2>3 DEF Typed, LaunchFails, askVars
<1>4. ASSUME NEW r \in Runs, Close(r) PROVE Typed'
  <2>1. archiveSet' \subseteq Runs /\ top' \in Places /\ sets' \in [Runs -> Places] /\ preserved' \subseteq Runs
    BY <1>4, PlacesTyped DEF Close
  <2>2. slot' \in Places
    BY <1>4, NoneIsNoRun DEF Close, Typed
  <2>. QED BY <1>4, <1>a, <1>c, <2>1, <2>2 DEF Typed, Close, askVars
<1>5. ASSUME NEW r \in Runs, NEW q \in Runs, CloseAndRetry(r, q) PROVE Typed'
  <2>1. seen' \in [Runs -> Seq(Runs)] /\ \A p \in Runs : IsInjective(seen'[p])
    BY <1>5 DEF Typed, CloseAndRetry
  <2>2. status' \in [Runs -> Statuses] /\ child' \in [Runs -> Children]
    BY <1>5, <1>a, <1>b, <1>c DEF CloseAndRetry, Typed
  <2>3. kind' \in [Runs -> {"none", "real", "dry"}] /\ plan' \in [Runs -> Places] /\ slot' \in Places
    BY <1>5, NoneIsNoRun DEF Typed, CloseAndRetry
  <2>. QED BY <1>5, <2>1, <2>2, <2>3 DEF Typed, CloseAndRetry, placeVars
<1>6. ASSUME NEW r \in Runs, ChildEmpties(r) \/ ChildWrites(r) PROVE Typed'
  <2>1. top' \in Places /\ destroyed' \subseteq Runs
    <3>1. top' \in {None, r} /\ destroyed' = IF top = None THEN destroyed ELSE destroyed \cup {top}
      BY <1>6 DEF ChildEmpties, ChildWrites
    <3>. QED BY <3>1, NoneIsNoRun DEF Typed, Places
  <2>2. child' \in [Runs -> Children]
    BY <1>6, <1>c DEF Typed, ChildEmpties, ChildWrites
  <2>. QED BY <1>6, <2>1, <2>2 DEF Typed, ChildEmpties, ChildWrites, askVars
<1>7. ASSUME NEW r \in Runs, NEW code \in {"ok", "warn", "fail"}, ChildEnds(r, code) PROVE Typed'
  <2>1. exit' \in [Runs -> {"none", "ok", "warn", "fail"}] /\ child' \in [Runs -> Children]
    BY <1>7, <1>c DEF Typed, ChildEnds
  <2>. QED BY <1>7, <2>1 DEF Typed, ChildEnds, askVars, placeVars
<1>8. ASSUME NEW r \in Runs, Stop(r) \/ Forget(r) PROVE Typed'
  <2>1. status' \in [Runs -> Statuses]
    BY <1>8, <1>b DEF Typed, Stop, Forget
  <2>2. slot' \in Places
    BY <1>8, NoneIsNoRun DEF Typed, Stop, Forget
  <2>. QED BY <1>8, <2>1, <2>2 DEF Typed, Stop, Forget, placeVars, askVars
<1>9. ASSUME NEW r \in Runs, BeginTransfer(r) PROVE Typed'
  <2>1. transfer' \in [of : Places, from : {"none", "set", "top"}]
    BY <1>9, NoneIsNoRun DEF BeginTransfer, Source
  <2>. QED BY <1>9, <2>1 DEF Typed, BeginTransfer, placeVars
<1>10. CASE EndTransfer
  <2>0. transfer.of \in Runs /\ plan[transfer.of] \in Runs
    <3>1. transfer # NoTransfer
      BY <1>10 DEF EndTransfer
    <3>2. transfer.of \in Runs /\ child[transfer.of] = "closed"
      BY <3>1 DEF RunInv
    <3>3. status[transfer.of] # "absent"
      BY <3>2 DEF RunInv
    <3>. QED BY <3>2, <3>3 DEF RunInv, Typed, Places
  <2>1. Found(transfer.of, transfer.from) \in Places
    BY <2>0 DEF Found, Typed
  <2>2. prepared' \in [of : Runs, from : {"set", "top"}, holds : Runs] \cup {Unprepared}
    <3>1. transfer # NoTransfer
      BY <1>10 DEF EndTransfer
    <3>2. transfer.from \in {"set", "top"}
      BY <3>1 DEF RunInv
    <3>3. prepared' = prepared \/ (Found(transfer.of, transfer.from) # None
             /\ prepared' = [of |-> transfer.of, from |-> transfer.from, holds |-> Found(transfer.of, transfer.from)])
      BY <1>10 DEF EndTransfer
    <3>. QED BY <2>0, <2>1, <3>2, <3>3 DEF Typed, Places
  <2>. QED BY <1>10, <1>d, <2>2 DEF Typed, EndTransfer, placeVars
<1>11. CASE Crash \/ Boot
  <2>0. child' = child \/ child' = [r \in Runs |-> IF Unclosed(r) THEN "closed" ELSE child[r]]
    BY <1>11 DEF Crash, Boot
  <2>00. status' = status \/ status' = [r \in Runs |-> IF status[r] = "running" THEN "failed" ELSE status[r]]
    BY <1>11 DEF Crash, Boot
  <2>1. child' \in [Runs -> Children]
    BY <1>c, <2>0 DEF Typed
  <2>3. status' \in [Runs -> Statuses]
    BY <1>b, <2>00 DEF Typed
  <2>2. transfer' \in [of : Places, from : {"none", "set", "top"}] /\ slot' \in Places /\ up' \in BOOLEAN
    BY <1>11, <1>d, NoneIsNoRun DEF Typed, Crash, Boot, askVars
  <2>. QED BY <1>11, <2>1, <2>2, <2>3 DEF Typed, Crash, Boot, placeVars, askVars
<1>12. CASE UNCHANGED vars
  BY <1>12 DEF vars, Typed
<1>. QED
  BY <1>1, <1>2, <1>3, <1>4, <1>5, <1>6, <1>7, <1>8, <1>9, <1>10, <1>11, <1>12 DEF Next

-----------------------------------------------------------------------------
(* Rows, children and plans *)

LEMMA SettledRow ==
    ASSUME Typed, NEW r \in Runs
    PROVE  /\ Settled(r) \in [Runs -> Statuses] /\ \A q \in Runs \ {r} : Settled(r)[q] = status[q]
           /\ status[r] = "running" => Settled(r)[r] \in {"completed", "completed_with_warnings", "failed"}
           /\ status[r] # "running" => Settled(r)[r] = status[r]
  BY DEF Typed, Settled, StatusOf, Statuses

Only(f, g, r) == \A q \in Runs \ {r} : g[q] = f[q]

LEMMA RequestEffect ==
    ASSUME Typed, NEW r \in Runs, NEW k \in {"real", "dry"}, Request(r, k)
    PROVE  /\ up /\ slot = None /\ status[r] = "absent"
           /\ slot' = r /\ status'[r] = "queued" /\ Only(status, status', r)
           /\ plan'[r] = r /\ Only(plan, plan', r)
           /\ seen'[r] = history /\ Only(seen, seen', r)
           /\ kind'[r] = k /\ Only(kind, kind', r)
           /\ UNCHANGED <<child, exit, history, archiveSet, top, sets, destroyed, transfer, prepared, overlap, up>>
  BY DEF Typed, Request, Only, placeVars

LEMMA LaunchEffect ==
    ASSUME Typed, NEW r \in Runs, Launch(r)
    PROVE  /\ up /\ slot = r /\ status[r] = "queued"
           /\ status'[r] = "running" /\ Only(status, status', r)
           /\ child'[r] = "spawned" /\ Only(child, child', r)
           /\ overlap' = (overlap \/ \E k \in Runs : Unclosed(k))
           /\ UNCHANGED <<exit, slot, kind, plan, seen, destroyed, transfer, prepared, up>>
  BY DEF Typed, Launch, Only, askVars

LEMMA LaunchFailsEffect ==
    ASSUME Typed, NEW r \in Runs, LaunchFails(r)
    PROVE  /\ up /\ slot = r /\ status[r] = "queued" /\ slot' = None
           /\ status'[r] = "failed" /\ Only(status, status', r)
           /\ UNCHANGED <<child, exit, kind, plan, seen, destroyed, transfer, prepared, overlap, up>>
  BY DEF Typed, LaunchFails, Only, askVars

LEMMA ChildEffect ==
    ASSUME Typed, NEW r \in Runs, ChildEmpties(r) \/ ChildWrites(r)
    PROVE  /\ up /\ child[r] \in Working /\ child'[r] \in Working /\ Only(child, child', r)
           /\ destroyed' = (IF top = None THEN destroyed ELSE destroyed \cup {top})
           /\ ChildEmpties(r) => top' = None /\ child'[r] = "emptied"
           /\ ChildWrites(r) => child[r] = "emptied" /\ top' = r /\ child'[r] = "written" /\ kind[r] = "real"
           /\ UNCHANGED <<status, exit, history, archiveSet, sets, slot, kind, plan, seen, transfer, prepared, overlap, up>>
  BY DEF Typed, ChildEmpties, ChildWrites, Only, Working, askVars

LEMMA EndsEffect ==
    ASSUME Typed, NEW r \in Runs, NEW code \in {"ok", "warn", "fail"}, ChildEnds(r, code)
    PROVE  /\ up /\ child[r] \in Working /\ child'[r] = "ended" /\ Only(child, child', r)
           /\ code = "ok" /\ kind[r] = "real" => child[r] = "written"
           /\ exit'[r] = code /\ Only(exit, exit', r)
           /\ UNCHANGED <<status, history, archiveSet, top, sets, destroyed, slot, kind, plan, seen, transfer, prepared, overlap, up>>
  BY DEF Typed, ChildEnds, Only, Working, askVars, placeVars

LEMMA CloseEffect ==
    ASSUME Typed, NEW r \in Runs, Close(r)
    PROVE  /\ up /\ child[r] = "ended" /\ child'[r] = "closed" /\ Only(child, child', r)
           /\ Only(status, status', r)
           /\ status[r] = "running" => status'[r] \in {"completed", "completed_with_warnings", "failed"}
           /\ status[r] # "running" => status'[r] = status[r]
           /\ slot' = (IF slot = r THEN None ELSE slot)
           /\ UNCHANGED <<exit, history, destroyed, kind, plan, seen, transfer, prepared, overlap, up>>
<1>1. status' = Settled(r) /\ child' = [child EXCEPT ![r] = "closed"]
  BY DEF Close
<1>2. Only(status, status', r) /\ Only(child, child', r) /\ child'[r] = "closed"
  BY <1>1, SettledRow DEF Only, Typed
<1>3. /\ status[r] = "running" => status'[r] \in {"completed", "completed_with_warnings", "failed"}
      /\ status[r] # "running" => status'[r] = status[r]
  BY <1>1, SettledRow
<1>. QED BY <1>2, <1>3 DEF Close, askVars

LEMMA RetryEffect ==
    ASSUME Typed, NEW r \in Runs, NEW q \in Runs, CloseAndRetry(r, q)
    PROVE  /\ up /\ child[r] = "ended" /\ child'[r] = "closed" /\ Only(child, child', r)
           /\ status[r] = "running" /\ slot = r /\ exit[r] # "ok" /\ plan[r] = r /\ status[q] = "absent" /\ q # r
           /\ status'[r] \in {"completed", "completed_with_warnings", "failed"} /\ status'[q] = "queued"
           /\ \A p \in Runs \ {r, q} : status'[p] = status[p]
           /\ slot' = q /\ plan'[q] = r /\ Only(plan, plan', q)
           /\ seen'[q] = seen[r] /\ Only(seen, seen', q)
           /\ kind'[q] = "real" /\ Only(kind, kind', q)
           /\ UNCHANGED <<exit, history, archiveSet, top, sets, destroyed, transfer, prepared, overlap, up>>
<1>1. status' = [Settled(r) EXCEPT ![q] = "queued"] /\ q # r /\ status[r] = "running"
  BY DEF CloseAndRetry
<1>2. /\ status'[r] \in {"completed", "completed_with_warnings", "failed"} /\ status'[q] = "queued"
      /\ \A p \in Runs \ {r, q} : status'[p] = status[p]
  BY <1>1, SettledRow
<1>. QED BY <1>1, <1>2 DEF CloseAndRetry, Typed, Only, placeVars

LEMMA RunStep == Typed /\ RunInv /\ PlanInv /\ [Next]_vars => RunInv'
<1> SUFFICES ASSUME Typed, RunInv, PlanInv, [Next]_vars PROVE RunInv'
  OBVIOUS
<1>1. ASSUME NEW r \in Runs, NEW k \in {"real", "dry"}, Request(r, k) PROVE RunInv'
  BY <1>1, NoneIsNoRun, RequestEffect DEF RunInv, Only, Unclosed, Succeeded, Working
<1>2. ASSUME NEW r \in Runs, Launch(r) PROVE RunInv'
  BY <1>2, NoneIsNoRun, LaunchEffect DEF RunInv, Only, Unclosed, Succeeded, Working
<1>3. ASSUME NEW r \in Runs, LaunchFails(r) PROVE RunInv'
  BY <1>3, NoneIsNoRun, LaunchFailsEffect DEF RunInv, Only, Unclosed, Succeeded, Working
<1>4. ASSUME NEW r \in Runs, Close(r) PROVE RunInv'
  BY <1>4, NoneIsNoRun, CloseEffect DEF RunInv, Only, Unclosed, Succeeded, Working
<1>5. ASSUME NEW r \in Runs, NEW q \in Runs, CloseAndRetry(r, q) PROVE RunInv'
  BY <1>5, NoneIsNoRun, RetryEffect DEF RunInv, Only, Unclosed, Succeeded, Working
<1>6. ASSUME NEW r \in Runs, ChildEmpties(r) \/ ChildWrites(r) PROVE RunInv'
  BY <1>6, ChildEffect DEF RunInv, Only, Unclosed, Succeeded, Working
<1>7. ASSUME NEW r \in Runs, NEW code \in {"ok", "warn", "fail"}, ChildEnds(r, code) PROVE RunInv'
  BY <1>7, EndsEffect DEF RunInv, Only, Unclosed, Succeeded, Working
<1>8. ASSUME NEW r \in Runs, Stop(r) PROVE RunInv'
  BY <1>8, NoneIsNoRun DEF RunInv, Typed, Stop, askVars, Unclosed, Succeeded, Working
<1>9. ASSUME NEW r \in Runs, Forget(r) PROVE RunInv'
  BY <1>9 DEF RunInv, Typed, Forget, askVars, Unclosed, Succeeded, Working
<1>10. ASSUME NEW r \in Runs, BeginTransfer(r) PROVE RunInv'
  BY <1>10 DEF RunInv, Typed, BeginTransfer, Unclosed, Succeeded, Working, Source
<1>11. CASE EndTransfer
  BY <1>11 DEF RunInv, Typed, EndTransfer, Unclosed, Succeeded, Working
<1>12. CASE Crash
  BY <1>12, NoneIsNoRun DEF RunInv, Typed, Crash, Unclosed, Succeeded, Working
<1>13. CASE Boot
  BY <1>13, NoneIsNoRun DEF RunInv, Typed, Boot, askVars, Unclosed, Succeeded, Working
<1>14. CASE UNCHANGED vars
  BY <1>14 DEF vars, RunInv, Unclosed
<1>. QED
  BY <1>1, <1>2, <1>3, <1>4, <1>5, <1>6, <1>7, <1>8, <1>9, <1>10, <1>11, <1>12, <1>13, <1>14 DEF Next

\* Rows that are there stay (deleted ones too), children that have closed do not come back.
Onward ==
    /\ \A r \in Runs : /\ status'[r] = "absent" => status[r] = "absent"
                       /\ status'[r] = "queued" => status[r] \in {"absent", "queued"}
                       /\ child[r] = "closed" => child'[r] = "closed" /\ exit'[r] = exit[r]

LEMMA OnwardStep == Typed /\ RunInv /\ [Next]_vars => Onward
<1> SUFFICES ASSUME Typed, RunInv, [Next]_vars PROVE Onward
  OBVIOUS
<1>1. ASSUME NEW r \in Runs, NEW k \in {"real", "dry"}, Request(r, k) PROVE Onward
  BY <1>1, RequestEffect DEF Onward, Only
<1>2. ASSUME NEW r \in Runs, Launch(r) PROVE Onward
  BY <1>2, LaunchEffect DEF Onward, Only, RunInv
<1>3. ASSUME NEW r \in Runs, LaunchFails(r) PROVE Onward
  BY <1>3, LaunchFailsEffect DEF Onward, Only
<1>4. ASSUME NEW r \in Runs, Close(r) PROVE Onward
  BY <1>4, CloseEffect DEF Onward, Only
<1>5. ASSUME NEW r \in Runs, NEW q \in Runs, CloseAndRetry(r, q) PROVE Onward
  BY <1>5, RetryEffect DEF Onward, Only
<1>6. ASSUME NEW r \in Runs, ChildEmpties(r) \/ ChildWrites(r) PROVE Onward
  BY <1>6, ChildEffect DEF Onward, Only, Working
<1>7. ASSUME NEW r \in Runs, NEW code \in {"ok", "warn", "fail"}, ChildEnds(r, code) PROVE Onward
  BY <1>7, EndsEffect DEF Onward, Only, Working
<1>8. ASSUME NEW r \in Runs, Stop(r) \/ Forget(r) PROVE Onward
  BY <1>8 DEF Onward, Typed, Stop, Forget
<1>9. ASSUME NEW r \in Runs, BeginTransfer(r) PROVE Onward
  BY <1>9 DEF Onward, BeginTransfer
<1>10. CASE EndTransfer
  BY <1>10 DEF Onward, EndTransfer
<1>11. CASE Crash
  BY <1>11 DEF Onward, Typed, Crash, Unclosed
<1>12. CASE Boot
  BY <1>12 DEF Onward, Typed, Boot
<1>13. CASE UNCHANGED vars
  BY <1>13 DEF Onward, vars
<1>. QED
  BY <1>1, <1>2, <1>3, <1>4, <1>5, <1>6, <1>7, <1>8, <1>9, <1>10, <1>11, <1>12, <1>13 DEF Next

\* Only a request and a retry make plans and look at the history.
LEMMA PlansKept ==
    ASSUME Typed, RunInv, PlanInv, HistoryInv, Onward, UNCHANGED <<plan, seen>>,
           \/ history' = history
           \/ \E r \in Runs : history' = Append(history, r) /\ status'[r] \notin {"absent", "queued"}
    PROVE  PlanInv' /\ HistoryInv'
<1>1. PlanInv'
  BY DEF PlanInv, Onward
<1>2. \A i \in DOMAIN history' : status'[history'[i]] \notin {"absent", "queued"}
  <2>0. \A i \in DOMAIN history : history[i] \in Runs
    BY DEF Typed
  <2>1. CASE history' = history
    BY <2>0, <2>1 DEF HistoryInv, Onward
  <2>2. ASSUME NEW r \in Runs, history' = Append(history, r), status'[r] \notin {"absent", "queued"}
        PROVE  \A i \in DOMAIN history' : status'[history'[i]] \notin {"absent", "queued"}
    <3>1. \A i \in DOMAIN history' : history'[i] = r \/ \E j \in DOMAIN history : history'[i] = history[j]
      <4>1. \A i \in DOMAIN history : history[i] # r \/ history[i] = r
        OBVIOUS
      <4>. QED BY <2>2 DEF Typed
    <3>. QED BY <2>0, <2>2, <3>1 DEF HistoryInv, Onward
  <2>. QED BY <2>1, <2>2
<1>3. \A r \in Runs : \A i \in DOMAIN seen'[r] : status'[seen'[r][i]] # "absent" /\ plan'[seen'[r][i]] # plan'[r]
  <2>1. \A r \in Runs : \A i \in DOMAIN seen[r] : seen[r][i] \in Runs
    BY DEF Typed
  <2>. QED BY <2>1 DEF HistoryInv, Onward
<1>. QED BY <1>1, <1>2, <1>3 DEF HistoryInv

LEMMA PlanStep == Typed /\ RunInv /\ PlanInv /\ HistoryInv /\ [Next]_vars => PlanInv' /\ HistoryInv'
<1> SUFFICES ASSUME Typed, RunInv, PlanInv, HistoryInv, [Next]_vars PROVE PlanInv' /\ HistoryInv'
  OBVIOUS
<1>a. Onward
  BY OnwardStep
<1>b. /\ \A i \in DOMAIN history : history[i] \in Runs
      /\ \A r \in Runs : \A i \in DOMAIN seen[r] : seen[r][i] \in Runs
      /\ \A r \in Runs : plan[r] \in Runs \cup {None}
  BY DEF Typed, Places
<1>1. ASSUME NEW r \in Runs, NEW k \in {"real", "dry"}, Request(r, k) PROVE PlanInv' /\ HistoryInv'
  <2>0. plan[r] = None /\ \A q \in Runs : plan[q] # r
    BY <1>1, <1>b, NoneIsNoRun, RequestEffect DEF RunInv, PlanInv
  <2>1. PlanInv'
    BY <1>1, <1>b, <2>0, NoneIsNoRun, RequestEffect DEF PlanInv, Only
  <2>2. \A i \in DOMAIN history' : status'[history'[i]] \notin {"absent", "queued"}
    BY <1>1, <1>b, RequestEffect DEF HistoryInv, Only
  <2>3. ASSUME NEW q \in Runs, NEW i \in DOMAIN seen'[q]
        PROVE  status'[seen'[q][i]] # "absent" /\ plan'[seen'[q][i]] # plan'[q]
    <3>1. CASE q = r
      <4>1. seen'[q] = history /\ plan'[q] = r /\ history[i] \in Runs \ {r} /\ status[history[i]] # "absent"
        BY <1>1, <1>b, <2>3, <3>1, RequestEffect DEF HistoryInv
      <4>. QED BY <1>1, <2>0, <4>1, RequestEffect DEF Only
    <3>2. CASE q # r
      <4>1. /\ seen'[q] = seen[q] /\ plan'[q] = plan[q] /\ i \in DOMAIN seen[q] /\ seen[q][i] \in Runs \ {r}
            /\ status[seen[q][i]] # "absent" /\ plan[seen[q][i]] # plan[q]
        BY <1>1, <1>b, <2>3, <3>2, RequestEffect DEF Only, HistoryInv
      <4>. QED BY <1>1, <4>1, RequestEffect DEF Only
    <3>. QED BY <3>1, <3>2
  <2>. QED BY <2>1, <2>2, <2>3 DEF HistoryInv
<1>2. ASSUME NEW r \in Runs, Launch(r) PROVE PlanInv' /\ HistoryInv'
  <2>1. UNCHANGED <<plan, seen>> /\ history' = Append(history, r) /\ status'[r] = "running"
    BY <1>2, LaunchEffect DEF Launch
  <2>. QED BY <1>a, <2>1, PlansKept
<1>3. ASSUME NEW r \in Runs, LaunchFails(r) PROVE PlanInv' /\ HistoryInv'
  <2>1. UNCHANGED <<plan, seen>> /\ history' = Append(history, r) /\ status'[r] = "failed"
    BY <1>3, LaunchFailsEffect DEF LaunchFails
  <2>. QED BY <1>a, <2>1, PlansKept
<1>4. ASSUME NEW r \in Runs, NEW q \in Runs, CloseAndRetry(r, q) PROVE PlanInv' /\ HistoryInv'
  <2>0. plan[q] = None /\ \A p \in Runs : plan[p] # q
    BY <1>4, <1>b, NoneIsNoRun, RetryEffect DEF RunInv, PlanInv
  <2>00. \A p \in Runs \ {r} : plan[p] # r
    BY <1>4, RetryEffect DEF PlanInv
  <2>1. PlanInv'
    <3>1. \A p \in Runs : plan'[p] \in Runs => status'[plan'[p]] # "absent"
      BY <1>4, <1>a, <1>b, <2>0, RetryEffect DEF PlanInv, Only, Onward
    <3>2. \A p \in Runs : plan'[p] \in Runs \ {p} => child'[plan'[p]] = "closed" /\ exit'[plan'[p]] # "ok"
      BY <1>4, <1>a, <1>b, <2>0, RetryEffect DEF PlanInv, Only, Onward
    <3>3. \A p, t \in Runs : plan'[p] \in Runs /\ plan'[p] = plan'[t] /\ plan'[p] \notin {p, t} => p = t
      BY <1>4, <1>b, <2>0, <2>00, RetryEffect DEF PlanInv, Only
    <3>. QED BY <3>1, <3>2, <3>3 DEF PlanInv
  <2>2. \A i \in DOMAIN history' : status'[history'[i]] \notin {"absent", "queued"}
    BY <1>4, <1>b, RetryEffect DEF HistoryInv
  <2>3. ASSUME NEW p \in Runs, NEW i \in DOMAIN seen'[p]
        PROVE  status'[seen'[p][i]] # "absent" /\ plan'[seen'[p][i]] # plan'[p]
    <3>1. CASE p = q
      <4>1. /\ seen'[p] = seen[r] /\ plan'[p] = r /\ seen[r][i] \in Runs \ {q}
            /\ status[seen[r][i]] # "absent" /\ plan[seen[r][i]] # r
        BY <1>4, <1>b, <2>3, <3>1, RetryEffect DEF HistoryInv
      <4>. QED BY <1>4, <1>a, <4>1, RetryEffect DEF Only, Onward
    <3>2. CASE p # q
      <4>1. /\ seen'[p] = seen[p] /\ plan'[p] = plan[p] /\ i \in DOMAIN seen[p] /\ seen[p][i] \in Runs \ {q}
            /\ status[seen[p][i]] # "absent" /\ plan[seen[p][i]] # plan[p]
        BY <1>4, <1>b, <2>3, <3>2, RetryEffect DEF Only, HistoryInv
      <4>. QED BY <1>4, <1>a, <4>1, RetryEffect DEF Only, Onward
    <3>. QED BY <3>1, <3>2
  <2>. QED BY <2>1, <2>2, <2>3 DEF HistoryInv
<1>5. CASE UNCHANGED <<plan, seen, history>>
  BY <1>5, <1>a, PlansKept
<1>6. ASSUME NEW r \in Runs, \/ ChildEmpties(r) \/ ChildWrites(r) \/ Close(r) \/ Stop(r) \/ Forget(r) \/ BeginTransfer(r)
                             \/ \E code \in {"ok", "warn", "fail"} : ChildEnds(r, code)
      PROVE  PlanInv' /\ HistoryInv'
  BY <1>5, <1>6 DEF ChildEmpties, ChildWrites, Close, Stop, Forget, BeginTransfer, ChildEnds, askVars
<1>7. CASE EndTransfer \/ Crash \/ Boot \/ UNCHANGED vars
  BY <1>5, <1>7 DEF EndTransfer, Crash, Boot, askVars, vars
<1>. QED
  BY <1>1, <1>2, <1>3, <1>4, <1>6, <1>7 DEF Next

-----------------------------------------------------------------------------
(* Places *)

LEMMA PlanOf ==
    ASSUME Typed, RunInv, NEW r \in Runs, status[r] # "absent"
    PROVE  plan[r] \in Runs
  BY DEF Typed, RunInv, Places

\* The run that has a plan while it is live is the only live one.
LEMMA LiveAlone ==
    ASSUME Typed, RunInv, PlanInv, NEW r \in Runs, NEW q \in Runs, Live(r), Live(q), plan[r] = plan[q]
    PROVE  r = q
<1>1. child[r] # "closed" /\ child[q] # "closed" /\ status[r] # "absent" /\ status[q] # "absent"
  BY DEF Live, Unclosed, RunInv
<1>2. plan[r] \in Runs
  BY <1>1, PlanOf
<1>. QED BY <1>1, <1>2 DEF PlanInv

\* The hooks of a run that holds the slot leave recorded sets what they are, and its own empty.
LEMMA HooksKeepSets ==
    ASSUME Typed, RunInv, PlanInv, HistoryInv, PlaceInv, PendingInv,
           NEW r \in Runs, slot = r, status[r] = "queued", Hooks(r), UNCHANGED <<exit, kind, plan>>,
           \A q \in Runs : q # r => status'[q] = status[q], status'[r] \notin Succeeded \cup {"absent"}
    PROVE  /\ \A x \in Runs : sets'[x] # None => status'[x] # "absent"
           /\ sets'[plan[r]] = None
           /\ \A q \in archiveSet' : child[q] = "closed" /\ q # r
           /\ \A q \in archiveSet' : exit'[q] = "ok" /\ kind'[q] = "real" /\ status'[q] \in Succeeded => sets'[plan'[q]] = q
<1>a. sets \in [Runs -> Places] /\ archiveSet \subseteq Runs /\ \A q \in Runs : status[q] # "absent" => plan[q] \in Runs
  BY PlanOf DEF Typed
<1>b. \A q \in Runs : status'[q] = "absent" => status[q] = "absent"
  BY DEF RunInv
<1>c. \A q \in Runs : status'[q] \in Succeeded => q # r /\ status[q] \in Succeeded /\ status[q] # "absent"
  BY DEF Succeeded
<1>d. \A q \in archiveSet' : child[q] = "closed" /\ q # r
  <2>1. SetFor(r) # None => SetFor(r) \in Runs /\ status[SetFor(r)] \in Succeeded
    BY SetForFacts
  <2>2. child[r] # "closed"
    BY DEF RunInv
  <2>. QED BY <2>1, <2>2, HooksEffect DEF RunInv, PlaceInv
<1>1. CASE sets' = sets /\ archiveSet' = archiveSet
  BY <1>1, <1>a, <1>b, <1>c, <1>d DEF PlaceInv
<1>2. CASE SetFor(r) # None /\ sets' = [sets EXCEPT ![plan[SetFor(r)]] = top]
           /\ archiveSet \subseteq archiveSet' /\ archiveSet' \subseteq archiveSet \cup {SetFor(r)}
  <2> DEFINE k == SetFor(r)
  <2>1. /\ k \in Runs /\ k # r /\ top # None /\ sets[plan[k]] = None /\ kind[k] = "real" /\ status[k] \in Succeeded
        /\ plan[k] # plan[r] /\ k \notin archiveSet
    BY <1>2, SetForFacts
  <2>2. plan[k] \in Runs /\ status[plan[k]] # "absent"
    BY <1>a, <2>1 DEF PlanInv, Succeeded
  <2>3. sets'[plan[k]] = top /\ \A x \in Runs : x # plan[k] => sets'[x] = sets[x]
    BY <1>2, <1>a, <2>2
  <2>4. \A x \in Runs : sets'[x] # None => status'[x] # "absent"
    BY <1>b, <2>2, <2>3 DEF PlaceInv
  <2>5. sets'[plan[r]] = None
    BY <1>a, <2>1, <2>3 DEF PlaceInv
  <2>6. exit[k] = "ok" => top = k
    BY <2>1 DEF PendingInv, Pending
  <2>7. ASSUME NEW q \in archiveSet', exit'[q] = "ok", kind'[q] = "real", status'[q] \in Succeeded
        PROVE  sets'[plan'[q]] = q
    <3>1. CASE q = k
      BY <2>3, <2>6, <2>7, <3>1
    <3>2. CASE q # k
      <4>1. q \in archiveSet /\ q \in Runs /\ status[q] \in Succeeded /\ plan[q] \in Runs
        BY <1>2, <1>a, <1>c, <2>7, <3>2
      <4>2. sets[plan[q]] = q
        BY <2>7, <4>1 DEF PlaceInv
      <4>3. plan[q] # plan[k]
        BY <2>1, <4>1, <4>2, NoneIsNoRun
      <4>. QED BY <2>3, <4>1, <4>2, <4>3
    <3>. QED BY <3>1, <3>2
  <2>. QED BY <1>d, <2>4, <2>5, <2>7
<1>. QED BY <1>1, <1>2, HooksEffect

LEMMA PlaceStep ==
    Typed /\ RunInv /\ PlanInv /\ HistoryInv /\ PlaceInv /\ PendingInv /\ [Next]_vars /\ ~overlap' => PlaceInv'
<1> SUFFICES ASSUME Typed, RunInv, PlanInv, HistoryInv, PlaceInv, PendingInv, [Next]_vars, ~overlap' PROVE PlaceInv'
  OBVIOUS
<1>a. /\ sets \in [Runs -> Places] /\ archiveSet \subseteq Runs
      /\ \A r \in Runs : status[r] # "absent" => plan[r] \in Runs
  BY PlanOf DEF Typed
<1>b. ASSUME NEW r \in Runs, Launch(r) \/ LaunchFails(r) PROVE archiveSet' \subseteq Runs
  BY <1>b, PlacesTyped DEF Launch, LaunchFails, Hooks
<1>1. ASSUME NEW r \in Runs, NEW k \in {"real", "dry"}, Request(r, k) PROVE PlaceInv'
  <2>1. sets[r] = None /\ child[r] = "none"
    BY <1>1, RequestEffect DEF PlaceInv, RunInv
  <2>2. \A q \in Runs : slot' = q => sets'[plan'[q]] = None
    BY <1>1, <2>1, RequestEffect
  <2>3. \A q \in Runs : status'[q] \in Succeeded \/ status'[q] = "running" => status'[q] = status[q] /\ kind'[q] = kind[q] /\ plan'[q] = plan[q]
    BY <1>1, RequestEffect DEF Only, Succeeded
  <2>4. \A q \in Runs : child[q] # "none" => kind'[q] = kind[q]
    BY <1>1, <2>1, RequestEffect DEF Only
  <2>5. \A q \in Runs : sets'[q] # None => status'[q] # "absent"
    BY <1>1, RequestEffect DEF PlaceInv, Only
  <2>. QED BY <1>1, <1>a, <2>1, <2>2, <2>3, <2>4, <2>5, RequestEffect DEF PlaceInv, Unclosed
<1>2. ASSUME NEW r \in Runs, Launch(r) PROVE PlaceInv'
  <2>1. /\ \A q \in Runs : ~Unclosed(q)
        /\ \A q \in Runs : q # r => child'[q] = child[q] /\ status'[q] = status[q]
        /\ child'[r] = "spawned" /\ status'[r] = "running" /\ slot = r /\ slot' = r /\ status[r] = "queued"
        /\ UNCHANGED <<exit, kind, plan, destroyed>>
    BY <1>2, LaunchEffect DEF Only
  <2>2. Hooks(r) /\ top' = None
    BY <1>2, HooksEffect DEF Launch, Hooks
  <2>3. /\ \A x \in Runs : sets'[x] # None => status'[x] # "absent"
        /\ sets'[plan[r]] = None
        /\ \A q \in archiveSet' : child[q] = "closed" /\ q # r
        /\ \A q \in archiveSet' : exit'[q] = "ok" /\ kind'[q] = "real" /\ status'[q] \in Succeeded => sets'[plan'[q]] = q
    BY <2>1, <2>2, HooksKeepSets DEF Succeeded
  <2>4. \A q \in archiveSet' : child'[q] = "closed"
    BY <1>2, <1>b, <2>1, <2>3
  <2>5. \A q \in Runs : Unclosed(q)' => q = r
    BY <2>1 DEF Unclosed
  <2>6. \A q \in Runs : ~(child'[q] = "written" \/ (child'[q] = "ended" /\ exit'[q] = "ok" /\ kind'[q] = "real"))
    BY <2>1 DEF Unclosed
  <2>7. destroyed' = {} /\ \A q \in Runs : slot' = q => sets'[plan'[q]] = None
    BY <2>1, <2>3 DEF PlaceInv
  <2>8. \A p, q \in Runs : Unclosed(p)' /\ Unclosed(q)' => p = q
    BY <2>5
  <2>. QED BY <2>2, <2>3, <2>4, <2>6, <2>7, <2>8 DEF PlaceInv
<1>3. ASSUME NEW r \in Runs, LaunchFails(r) PROVE PlaceInv'
  <2>1. /\ \A q \in Runs : q # r => status'[q] = status[q]
        /\ status'[r] = "failed" /\ slot = r /\ slot' = None /\ status[r] = "queued"
        /\ UNCHANGED <<child, exit, kind, plan, destroyed>>
    BY <1>3, LaunchFailsEffect DEF Only
  <2>2. Hooks(r) /\ top' \in {top, None}
    BY <1>3, HooksEffect DEF LaunchFails, Hooks
  <2>3. /\ \A x \in Runs : sets'[x] # None => status'[x] # "absent"
        /\ \A q \in archiveSet' : child[q] = "closed" /\ q # r
        /\ \A q \in archiveSet' : exit'[q] = "ok" /\ kind'[q] = "real" /\ status'[q] \in Succeeded => sets'[plan'[q]] = q
    BY <2>1, <2>2, HooksKeepSets DEF Succeeded
  <2>4. ASSUME NEW q \in Runs, child[q] = "written" \/ (child[q] = "ended" /\ exit[q] = "ok" /\ kind[q] = "real")
        PROVE  top' \in {q, None} /\ (status'[q] = "running" => top' = q)
    <3>1. top \in {q, None}
      BY <2>4 DEF PlaceInv
    <3>2. q # r /\ status'[q] # "running"
      <4>1. child[r] = "none"
        BY <2>1 DEF RunInv
      <4>2. status[q] = "running" => slot = q
        BY <1>3, <2>1 DEF RunInv, LaunchFails
      <4>. QED BY <2>1, <2>4, <4>1, <4>2
    <3>. QED BY <2>2, <3>1, <3>2
  <2>5. \A q \in Runs : child[q] \in {"spawned", "emptied"} => top' = None
    BY <2>2 DEF PlaceInv
  <2>. QED BY <1>b, <2>1, <2>3, <2>4, <2>5, NoneIsNoRun DEF PlaceInv, Unclosed
<1>4. ASSUME NEW r \in Runs, Close(r) PROVE PlaceInv'
  <2>1. /\ child[r] = "ended" /\ child'[r] = "closed" /\ \A q \in Runs : q # r => child'[q] = child[q] /\ status'[q] = status[q]
        /\ status[r] = "running" => status'[r] \in {"completed", "completed_with_warnings", "failed"}
        /\ status[r] # "running" => status'[r] = status[r]
        /\ slot' = (IF slot = r THEN None ELSE slot) /\ UNCHANGED <<exit, kind, plan, destroyed>>
    BY <1>4, CloseEffect DEF Only
  <2>2. /\ \A q \in Runs : ~Unclosed(q)'
        /\ status[r] \notin Succeeded /\ status[r] # "absent" /\ plan[r] \in Runs /\ Live(r)
    BY <1>a, <2>1 DEF PlaceInv, RunInv, Unclosed, Live
  <2>3. \A q \in Runs : slot' = q => slot = q /\ q # r
    BY <2>1, NoneIsNoRun
  <2>4. CASE sets' = sets /\ archiveSet' = archiveSet /\ top' = top
    <3>1. \A q \in archiveSet' : exit'[q] = "ok" /\ kind'[q] = "real" /\ status'[q] \in Succeeded => sets'[plan'[q]] = q
      <4> SUFFICES ASSUME NEW q \in archiveSet, exit[q] = "ok", kind[q] = "real", status'[q] \in Succeeded
                   PROVE  sets[plan[q]] = q
        BY <2>1, <2>4
      <4>1. CASE q = r
        BY <2>1, <4>1 DEF PlaceInv
      <4>2. CASE q # r
        BY <1>a, <2>1, <4>2 DEF PlaceInv
      <4>. QED BY <4>1, <4>2
    <3>. QED BY <1>a, <2>1, <2>2, <2>3, <2>4, <3>1 DEF PlaceInv, Unclosed
  <2>5. CASE /\ exit[r] = "ok" /\ kind[r] = "real" /\ top # None /\ sets[plan[r]] = None
             /\ sets' = [sets EXCEPT ![plan[r]] = top]
             /\ archiveSet \subseteq archiveSet' /\ archiveSet' \subseteq archiveSet \cup {r}
    <3>1. sets'[plan[r]] = top /\ \A x \in Runs : x # plan[r] => sets'[x] = sets[x]
      BY <1>a, <2>2, <2>5
    <3>2. \A q \in Runs : slot' = q => sets'[plan'[q]] = None
      <4> SUFFICES ASSUME NEW q \in Runs, slot' = q PROVE sets'[plan'[q]] = None
        OBVIOUS
      <4>1. slot = q /\ q # r
        BY <2>3
      <4>2. Live(q) /\ plan[q] \in Runs
        BY <1>4, <1>a, <4>1 DEF RunInv, Live, Close
      <4>3. plan[q] # plan[r]
        BY <2>2, <4>1, <4>2, LiveAlone
      <4>. QED BY <2>1, <3>1, <4>1, <4>2, <4>3 DEF PlaceInv
    <3>3. \A x \in Runs : sets'[x] # None => status'[x] # "absent"
      <4>1. status[plan[r]] # "absent"
        BY <2>2 DEF PlanInv
      <4>2. \A x \in Runs : status[x] # "absent" => status'[x] # "absent"
        BY <2>1
      <4>. QED BY <2>2, <3>1, <4>1, <4>2 DEF PlaceInv
    <3>4. \A q \in archiveSet' : exit'[q] = "ok" /\ kind'[q] = "real" /\ status'[q] \in Succeeded => sets'[plan'[q]] = q
      <4> SUFFICES ASSUME NEW q \in archiveSet', exit[q] = "ok", kind[q] = "real", status'[q] \in Succeeded
                   PROVE  sets'[plan[q]] = q
        BY <2>1
      <4>1. CASE q = r
        <5>1. status[r] = "running"
          BY <2>1, <2>2, <4>1
        <5>2. top = r
          BY <2>1, <2>5, <5>1 DEF PlaceInv
        <5>. QED BY <3>1, <4>1, <5>2
      <4>2. CASE q # r
        <5>1. q \in archiveSet /\ q \in Runs /\ status[q] \in Succeeded /\ status[q] # "absent"
          BY <1>a, <2>1, <2>5, <4>2 DEF Succeeded
        <5>2. sets[plan[q]] = q /\ plan[q] \in Runs
          BY <1>a, <5>1 DEF PlaceInv
        <5>3. plan[q] # plan[r]
          BY <2>5, <5>1, <5>2, NoneIsNoRun
        <5>. QED BY <3>1, <5>2, <5>3
      <4>. QED BY <4>1, <4>2
    <3>5. \A q \in archiveSet' : child'[q] = "closed"
      BY <1>a, <2>1, <2>5 DEF PlaceInv
    <3>. QED BY <2>1, <2>2, <3>2, <3>3, <3>4, <3>5 DEF PlaceInv, Unclosed
  <2>. QED BY <1>4, <2>4, <2>5, KeepEffect DEF Close
<1>5. ASSUME NEW r \in Runs, NEW q \in Runs, CloseAndRetry(r, q) PROVE PlaceInv'
  <2>1. /\ child[r] = "ended" /\ child'[r] = "closed" /\ \A p \in Runs : p # r => child'[p] = child[p]
        /\ exit[r] # "ok" /\ plan[r] = r /\ status[q] = "absent" /\ q # r /\ slot = r
        /\ status'[q] = "queued" /\ \A p \in Runs \ {r, q} : status'[p] = status[p]
        /\ slot' = q /\ plan'[q] = r /\ kind'[q] = "real" /\ \A p \in Runs : p # q => plan'[p] = plan[p] /\ kind'[p] = kind[p]
        /\ status'[r] # "absent" /\ UNCHANGED <<exit, archiveSet, top, sets, destroyed>>
    BY <1>5, RetryEffect DEF Only
  <2>2. sets[r] = None /\ child[q] = "none"
    BY <2>1 DEF PlaceInv, RunInv
  <2>3. \A p \in Runs : slot' = p => sets'[plan'[p]] = None
    BY <2>1, <2>2
  <2>4. \A p \in Runs : ~Unclosed(p)'
    BY <2>1, <2>2 DEF PlaceInv, Unclosed
  <2>5. \A p \in archiveSet' : exit'[p] = "ok" /\ kind'[p] = "real" /\ status'[p] \in Succeeded => sets'[plan'[p]] = p
    BY <1>a, <2>1, <2>2 DEF PlaceInv
  <2>6. \A x \in Runs : sets'[x] # None => status'[x] # "absent"
    BY <2>1 DEF PlaceInv
  <2>. QED BY <1>a, <2>1, <2>3, <2>4, <2>5, <2>6 DEF PlaceInv, Unclosed
<1>6. ASSUME NEW r \in Runs, ChildEmpties(r) \/ ChildWrites(r) PROVE PlaceInv'
  <2>1. /\ child[r] \in {"spawned", "emptied"} /\ Unclosed(r)
        /\ ChildEmpties(r) => top' = None /\ child'[r] = "emptied"
        /\ ChildWrites(r) => top' = r /\ child'[r] = "written"
        /\ destroyed' = (IF top = None THEN destroyed ELSE destroyed \cup {top})
        /\ \A q \in Runs : q # r => child'[q] = child[q]
        /\ UNCHANGED <<status, exit, archiveSet, sets, slot, kind, plan>>
    BY <1>6, ChildEffect DEF ChildEmpties, Only, Unclosed
  <2>2. top = None /\ r \notin archiveSet /\ \A q \in Runs : q # r => ~Unclosed(q)
    BY <2>1 DEF PlaceInv, Unclosed
  <2>. QED BY <1>6, <1>a, <2>1, <2>2 DEF PlaceInv, Unclosed
<1>7. ASSUME NEW r \in Runs, NEW code \in {"ok", "warn", "fail"}, ChildEnds(r, code) PROVE PlaceInv'
  <2>1. /\ child[r] \in Working /\ child'[r] = "ended"
        /\ code = "ok" /\ kind[r] = "real" => child[r] = "written"
        /\ exit'[r] = code /\ \A q \in Runs : q # r => child'[q] = child[q] /\ exit'[q] = exit[q]
        /\ UNCHANGED <<status, archiveSet, top, sets, destroyed, slot, kind, plan>>
    BY <1>7, EndsEffect DEF Only
  <2>2. Unclosed(r) /\ r \notin archiveSet
    BY <2>1 DEF Unclosed, Working, PlaceInv
  <2>. QED BY <1>a, <2>1, <2>2 DEF PlaceInv, Unclosed
<1>8. ASSUME NEW r \in Runs, Stop(r) PROVE PlaceInv'
  <2>1. /\ status' = [status EXCEPT ![r] = "cancelled"] /\ slot' = None
        /\ UNCHANGED <<child, exit, kind, plan, archiveSet, top, sets, destroyed>>
    BY <1>8 DEF Stop, placeVars, askVars
  <2>2. \A q \in Runs : (status'[q] = "running" \/ status'[q] \in Succeeded) => status'[q] = status[q]
    BY <2>1 DEF Typed, Succeeded
  <2>3. \A q \in Runs : status'[q] = "absent" => status[q] = "absent"
    BY <2>1 DEF Typed
  <2>. QED BY <1>a, <2>1, <2>2, <2>3, NoneIsNoRun DEF PlaceInv, Unclosed
<1>9. ASSUME NEW r \in Runs, Forget(r) PROVE PlaceInv'
  <2>1. /\ status' = [status EXCEPT ![r] = "deleted"]
        /\ UNCHANGED <<slot, child, exit, kind, plan, archiveSet, top, sets, destroyed>>
    BY <1>9 DEF Forget, placeVars, askVars
  <2>2. \A q \in Runs : (status'[q] = "running" \/ status'[q] \in Succeeded) => status'[q] = status[q]
    BY <2>1 DEF Typed, Succeeded
  <2>3. \A q \in Runs : status'[q] = "absent" => status[q] = "absent"
    BY <2>1 DEF Typed
  <2>. QED BY <1>a, <2>1, <2>2, <2>3 DEF PlaceInv, Unclosed
<1>10. ASSUME NEW r \in Runs, BeginTransfer(r) PROVE PlaceInv'
  BY <1>10 DEF BeginTransfer, placeVars, PlaceInv, Unclosed
<1>11. CASE EndTransfer
  BY <1>11 DEF EndTransfer, placeVars, PlaceInv, Unclosed
<1>12. CASE Crash
  <2>1. /\ child' = [r \in Runs |-> IF Unclosed(r) THEN "closed" ELSE child[r]] /\ slot' = None
        /\ UNCHANGED <<status, kind, exit, plan, archiveSet, top, sets, destroyed>>
    BY <1>12 DEF Crash, placeVars
  <2>2. \A r \in Runs : child'[r] \in {"none", "closed"} /\ (child[r] = "closed" => child'[r] = "closed")
    BY <2>1 DEF Typed, Unclosed, Children
  <2>. QED BY <1>a, <2>1, <2>2, NoneIsNoRun DEF PlaceInv, Unclosed
<1>13. CASE Boot
  <2>1. /\ status' = [r \in Runs |-> IF status[r] = "running" THEN "failed" ELSE status[r]]
        /\ UNCHANGED <<slot, child, exit, kind, plan, archiveSet, top, sets, destroyed>>
    BY <1>13 DEF Boot, placeVars, askVars
  <2>2. \A q \in Runs : (status'[q] = "running" \/ status'[q] \in Succeeded) => status'[q] = status[q]
    BY <2>1 DEF Typed, Succeeded
  <2>3. \A q \in Runs : status'[q] = "absent" => status[q] = "absent"
    BY <2>1 DEF Typed
  <2>. QED BY <1>a, <2>1, <2>2, <2>3 DEF PlaceInv, Unclosed
<1>14. CASE UNCHANGED vars
  BY <1>14 DEF vars, PlaceInv, Unclosed
<1>. QED
  BY <1>1, <1>2, <1>3, <1>4, <1>5, <1>6, <1>7, <1>8, <1>9, <1>10, <1>11, <1>12, <1>13, <1>14 DEF Next

\* A set that was filled stays what it is.
LEMMA SetsKept ==
    ASSUME Typed, RunInv, HistoryInv, [Next]_vars
    PROVE  /\ \A x \in Runs : sets[x] # None => sets'[x] = sets[x]
           /\ archiveSet \subseteq archiveSet'
<1>a. sets \in [Runs -> Places]
  BY DEF Typed
<1>1. ASSUME NEW r \in Runs, Hooks(r)
      PROVE  (\A x \in Runs : sets[x] # None => sets'[x] = sets[x]) /\ archiveSet \subseteq archiveSet'
  BY <1>1, <1>a, HooksEffect, SetForFacts
<1>2. ASSUME NEW r \in Runs, Close(r)
      PROVE  (\A x \in Runs : sets[x] # None => sets'[x] = sets[x]) /\ archiveSet \subseteq archiveSet'
  BY <1>2, <1>a, KeepEffect DEF Close
<1>3. ASSUME NEW r \in Runs, \/ \E k \in {"real", "dry"} : Request(r, k)
                             \/ ChildEmpties(r) \/ ChildWrites(r)
                             \/ \E code \in {"ok", "warn", "fail"} : ChildEnds(r, code)
                             \/ \E q \in Runs : CloseAndRetry(r, q)
                             \/ Stop(r) \/ Forget(r) \/ BeginTransfer(r)
      PROVE  UNCHANGED <<sets, archiveSet>>
  BY <1>3 DEF Request, ChildEmpties, ChildWrites, ChildEnds, CloseAndRetry, Stop, Forget, BeginTransfer, placeVars
<1>4. CASE EndTransfer \/ Crash \/ Boot \/ UNCHANGED vars
  BY <1>4 DEF EndTransfer, Crash, Boot, placeVars, vars
<1>5. ASSUME NEW r \in Runs, Launch(r) \/ LaunchFails(r) PROVE Hooks(r)
  BY <1>5 DEF Launch, LaunchFails, Hooks
<1>. QED BY <1>1, <1>2, <1>3, <1>4, <1>5 DEF Next

LEMMA HeadStep == Typed /\ RunInv /\ HeadInv /\ [Next]_vars => HeadInv'
<1> SUFFICES ASSUME Typed, RunInv, HeadInv, [Next]_vars PROVE HeadInv'
  OBVIOUS
<1>1. ASSUME NEW r \in Runs, NEW k \in {"real", "dry"}, Request(r, k) PROVE HeadInv'
  BY <1>1, RequestEffect DEF HeadInv
<1>2. ASSUME NEW r \in Runs, Launch(r) PROVE HeadInv'
  <2>1. slot' = r /\ history \in Seq(Runs) /\ history' = Append(history, r)
    BY <1>2, LaunchEffect DEF Launch, Typed
  <2>. QED BY <2>1 DEF HeadInv
<1>3. ASSUME NEW r \in Runs, LaunchFails(r) PROVE HeadInv'
  BY <1>3, LaunchFailsEffect, NoneIsNoRun DEF HeadInv
<1>4. ASSUME NEW r \in Runs, Close(r) PROVE HeadInv'
  BY <1>4, CloseEffect, NoneIsNoRun DEF HeadInv, Only
<1>5. ASSUME NEW r \in Runs, NEW q \in Runs, CloseAndRetry(r, q) PROVE HeadInv'
  BY <1>5, RetryEffect DEF HeadInv
<1>6. ASSUME NEW r \in Runs, \/ ChildEmpties(r) \/ ChildWrites(r) \/ BeginTransfer(r)
                             \/ \E code \in {"ok", "warn", "fail"} : ChildEnds(r, code)
      PROVE  HeadInv'
  BY <1>6 DEF ChildEmpties, ChildWrites, BeginTransfer, ChildEnds, HeadInv
<1>7. ASSUME NEW r \in Runs, Stop(r) \/ Forget(r) PROVE HeadInv'
  BY <1>7, NoneIsNoRun DEF Stop, Forget, HeadInv, Typed
<1>8. CASE EndTransfer \/ Crash \/ UNCHANGED vars
  BY <1>8, NoneIsNoRun DEF EndTransfer, Crash, vars, HeadInv
<1>9. CASE Boot
  BY <1>9, NoneIsNoRun DEF Boot, HeadInv, RunInv
<1>. QED BY <1>1, <1>2, <1>3, <1>4, <1>5, <1>6, <1>7, <1>8, <1>9 DEF Next

\* The last run that succeeded is the latest of a history.
LEMMA LatestIsLast ==
    ASSUME NEW h \in Seq(Runs), NEW r \in Runs, LastIn(h, r), NEW Good, r \in Good,
           \A i \in DOMAIN h : h[i] \in Good => status[h[i]] \in Succeeded
    PROVE  LatestIn(h, Good) = r
<1> DEFINE at == {i \in DOMAIN h : h[i] \in Good}
<1>1. PICK i \in DOMAIN h : h[i] = r /\ \A j \in DOMAIN h : j > i => status[h[j]] \notin Succeeded
  BY DEF LastIn
<1>2. i \in at /\ Len(h) \in Nat /\ at \subseteq 1..Len(h)
  BY <1>1
<1>3. Max(at) \in at /\ i <= Max(at)
  BY <1>2, Largest
<1>4. ~(Max(at) > i)
  BY <1>1, <1>3
<1>5. Max(at) = i
  BY <1>2, <1>3, <1>4
<1>. QED BY <1>1, <1>2, <1>5 DEF LatestIn

\* The hooks know the owner of archives that could not be moved.
LEMMA PendingIsOwner ==
    ASSUME Typed, RunInv, PendingInv, NEW r \in Runs, Pending(r), NEW q \in Runs, status[q] = "queued", slot = q
    PROVE  SetFor(q) = r
<1> DEFINE Good == {p \in Runs \ {q} : kind[p] = "real" /\ status[p] \in Succeeded}
<1>1. r \in Good /\ r \notin archiveSet /\ sets[plan[r]] = None
  BY DEF Pending, Succeeded
<1>2. seen[q] \in Seq(Runs) /\ LastIn(seen[q], r) /\ top = r
  BY DEF Typed, PendingInv
<1>3. LatestIn(seen[q], Good) = r
  BY <1>1, <1>2, LatestIsLast
<1>4. Owner(q) = r
  BY <1>1, <1>3 DEF Owner
<1>. QED BY <1>1, <1>2, <1>4, NoneIsNoRun DEF SetFor

\* Runs that were not successful before a step without a close are not after it.
LEMMA LastStays ==
    ASSUME NEW h \in Seq(Runs), NEW r \in Runs, LastIn(h, r),
           \A q \in Runs : status'[q] \in Succeeded => status[q] \in Succeeded
    PROVE  \E i \in DOMAIN h : h[i] = r /\ \A j \in DOMAIN h : j > i => status'[h[j]] \notin Succeeded
  BY DEF LastIn

LEMMA PendingStep ==
    Typed /\ RunInv /\ PlanInv /\ HistoryInv /\ HeadInv /\ PlaceInv /\ PendingInv /\ [Next]_vars => PendingInv'
<1> SUFFICES ASSUME Typed, RunInv, PlanInv, HistoryInv, HeadInv, PlaceInv, PendingInv, [Next]_vars PROVE PendingInv'
  OBVIOUS
<1> DEFINE LastAfter(h, r) == \E i \in DOMAIN h : h[i] = r /\ \A j \in DOMAIN h : j > i => status'[h[j]] \notin Succeeded
           Same(r) == exit'[r] = exit[r] /\ kind'[r] = kind[r] /\ plan'[r] = plan[r] /\ status'[r] = status[r]
<1>a. history \in Seq(Runs) /\ seen \in [Runs -> Seq(Runs)] /\ sets \in [Runs -> Places]
      /\ \A r \in Runs : status[r] # "absent" => plan[r] \in Runs
  BY PlanOf DEF Typed
<1>b. (\A x \in Runs : sets[x] # None => sets'[x] = sets[x]) /\ archiveSet \subseteq archiveSet'
  BY SetsKept
\* A run whose row stays what it is was pending before if it is after.
<1>c. ASSUME NEW r \in Runs, Pending(r)', Same(r) PROVE Pending(r)
  <2>1. exit[r] = "ok" /\ kind[r] = "real" /\ status[r] \in Succeeded /\ r \notin archiveSet /\ sets'[plan[r]] = None
    BY <1>b, <1>c DEF Pending
  <2>2. plan[r] \in Runs
    BY <1>a, <2>1 DEF Succeeded
  <2>. QED BY <1>b, <2>1, <2>2 DEF Pending
\* Nothing is pending while there is a child.
<1>d. ASSUME NEW q \in Runs, Unclosed(q), NEW r \in Runs PROVE ~Pending(r)
  BY <1>d DEF PendingInv
\* A step that leaves the places, the histories and the children alone.
<1>e. ASSUME NEW r \in Runs, Pending(r), top' = top, history' = history, seen' = seen,
             \A q \in Runs : status'[q] \in Succeeded => status[q] \in Succeeded,
             \A q \in Runs : Unclosed(q)' => Unclosed(q),
             \A q \in Runs : status'[q] = "queued" /\ slot' = q => status[q] = "queued" /\ slot = q
      PROVE  /\ top' = r /\ LastIn(history, r)'
             /\ \A q \in Runs : ~Unclosed(q)' /\ (status'[q] = "queued" /\ slot' = q => LastIn(seen[q], r)')
  <2>1. top = r /\ LastAfter(history, r)
    BY <1>a, <1>e, LastStays DEF PendingInv
  <2>2. ASSUME NEW q \in Runs, status'[q] = "queued", slot' = q PROVE LastAfter(seen[q], r)
    <3>1. seen[q] \in Seq(Runs) /\ LastIn(seen[q], r)
      BY <1>a, <1>e, <2>2 DEF PendingInv
    <3>. QED BY <1>e, <3>1, LastStays
  <2>3. \A q \in Runs : ~Unclosed(q)'
    BY <1>e DEF PendingInv
  <2>. QED BY <1>e, <2>1, <2>2, <2>3 DEF LastIn
<1>1. ASSUME NEW x \in Runs, NEW k \in {"real", "dry"}, Request(x, k) PROVE PendingInv'
  <2> SUFFICES ASSUME NEW r \in Runs, Pending(r)'
               PROVE  /\ top' = r /\ LastIn(history, r)'
                      /\ \A q \in Runs : ~Unclosed(q)' /\ (status'[q] = "queued" /\ slot' = q => LastIn(seen[q], r)')
    BY DEF PendingInv
  <2>1. r # x
    BY <1>1, RequestEffect DEF Pending, Succeeded
  <2>2. Pending(r)
    BY <1>1, <1>c, <2>1, RequestEffect DEF Only
  <2>3. \A q \in Runs : status'[q] \in Succeeded => status[q] \in Succeeded
    BY <1>1, RequestEffect DEF Only, Succeeded
  <2>4. top = r /\ LastAfter(history, r)
    BY <1>a, <2>2, <2>3, LastStays DEF PendingInv
  <2>5. seen'[x] = history /\ slot' = x /\ UNCHANGED <<top, history, child>>
    BY <1>1, RequestEffect
  <2>. QED BY <2>2, <2>4, <2>5 DEF PendingInv, LastIn, Unclosed
<1>2. ASSUME NEW x \in Runs, Launch(x) PROVE PendingInv'
  <2> SUFFICES ASSUME NEW r \in Runs, Pending(r)' PROVE FALSE
    BY DEF PendingInv
  <2>1. r # x
    BY <1>2, LaunchEffect DEF Pending, Succeeded
  <2>2. Pending(r)
    BY <1>2, <1>c, <2>1, LaunchEffect DEF Only
  <2>3. SetFor(x) = r
    BY <1>2, <2>2, PendingIsOwner DEF Launch
  <2>4. MoveToSet(r, "recorded")
    BY <1>2, <2>3, NoneIsNoRun DEF Launch, ProtectBeforeRun
  <2>. QED BY <2>4 DEF MoveToSet, Pending
<1>3. ASSUME NEW x \in Runs, LaunchFails(x) PROVE PendingInv'
  <2> SUFFICES ASSUME NEW r \in Runs, Pending(r)'
               PROVE  /\ top' = r /\ LastIn(history, r)'
                      /\ \A q \in Runs : ~Unclosed(q)' /\ (status'[q] = "queued" /\ slot' = q => LastIn(seen[q], r)')
    BY DEF PendingInv
  <2>1. r # x
    BY <1>3, LaunchFailsEffect DEF Pending, Succeeded
  <2>2. Pending(r) /\ plan'[r] = plan[r] /\ plan[r] \in Runs
    BY <1>3, <1>a, <1>c, <2>1, LaunchFailsEffect DEF Only, Pending, Succeeded
  <2>3. SetFor(x) = r /\ top = r
    BY <1>3, <2>2, PendingIsOwner DEF LaunchFails, PendingInv
  <2>4. ASSUME NEW outcome \in MoveOutcomes, MoveToSet(r, outcome) PROVE FALSE
    <3>1. sets'[plan'[r]] = r
      BY <1>a, <2>2, <2>3, <2>4 DEF MoveToSet
    <3>. QED BY <3>1, NoneIsNoRun DEF Pending
  <2>5. top' = top
    BY <1>3, <2>3, <2>4, NoneIsNoRun DEF LaunchFails, ProtectBreaksOff, placeVars
  <2>6. \A q \in Runs : status'[q] \in Succeeded => status[q] \in Succeeded
    BY <1>3, LaunchFailsEffect DEF Only, Succeeded
  <2>7. PICK i \in DOMAIN history : history[i] = r /\ \A j \in DOMAIN history : j > i => status'[history[j]] \notin Succeeded
    BY <1>a, <2>2, <2>6, LastStays DEF PendingInv
  <2>8. history' = Append(history, x) /\ status'[x] = "failed" /\ slot' = None /\ child' = child
    BY <1>3, LaunchFailsEffect DEF LaunchFails
  <2>9. /\ i \in DOMAIN history' /\ history'[i] = r
        /\ \A j \in DOMAIN history' : (j \in DOMAIN history /\ history'[j] = history[j]) \/ history'[j] = x
    <3>1. Len(history) \in Nat /\ DOMAIN history = 1..Len(history) /\ DOMAIN history' = 1..(Len(history) + 1)
      BY <1>a, <2>8
    <3>2. \A j \in 1..Len(history) : history'[j] = history[j]
      BY <1>a, <2>8
    <3>3. history'[Len(history) + 1] = x
      BY <1>a, <2>8
    <3>4. \A j \in 1..(Len(history) + 1) : j \in 1..Len(history) \/ j = Len(history) + 1
      BY <3>1
    <3>. QED BY <2>7, <3>1, <3>2, <3>3, <3>4
  <2>10. LastIn(history, r)'
    BY <2>7, <2>8, <2>9 DEF LastIn, Succeeded
  <2>. QED BY <2>2, <2>3, <2>5, <2>8, <2>10, NoneIsNoRun DEF PendingInv, Unclosed
<1>4. ASSUME NEW x \in Runs, Close(x) PROVE PendingInv'
  <2> SUFFICES ASSUME NEW r \in Runs, Pending(r)'
               PROVE  /\ top' = r /\ LastIn(history, r)'
                      /\ \A q \in Runs : ~Unclosed(q)' /\ (status'[q] = "queued" /\ slot' = q => LastIn(seen[q], r)')
    BY DEF PendingInv
  <2>1. /\ up /\ child[x] = "ended" /\ Unclosed(x) /\ child'[x] = "closed" /\ Only(child, child', x) /\ Only(status, status', x)
        /\ status[x] # "running" => status'[x] = status[x]
        /\ slot' = (IF slot = x THEN None ELSE slot) /\ UNCHANGED <<exit, history, kind, plan, seen>>
    BY <1>4, CloseEffect DEF Unclosed
  <2>2. r = x
    BY <1>c, <1>d, <2>1 DEF Only
  <2>3. status[x] = "running" /\ slot = x /\ exit[x] = "ok" /\ kind[x] = "real" /\ sets'[plan[x]] = None
    <3>1. status[x] \notin Succeeded
      BY <2>1 DEF RunInv
    <3>. QED BY <2>1, <2>2, <3>1 DEF RunInv, Pending
  <2>4. top = x
    BY <2>1, <2>3 DEF PlaceInv
  <2>5. top' = top
    <3>1. plan[x] \in Runs
      BY <1>a, <2>3
    <3>2. sets' # [sets EXCEPT ![plan[x]] = top]
      BY <1>a, <2>3, <2>4, <3>1, NoneIsNoRun
    <3>. QED BY <1>4, <3>2, KeepEffect DEF Close
  <2>6. LastIn(history, r)'
    <3>1. history # <<>> /\ history[Len(history)] = x
      BY <2>3 DEF HeadInv
    <3>2. Len(history) \in DOMAIN history /\ \A j \in DOMAIN history : ~(j > Len(history))
      BY <1>a, <3>1
    <3>. QED BY <2>1, <2>2, <3>1, <3>2 DEF LastIn
  <2>7. \A q \in Runs : ~Unclosed(q)'
    BY <2>1 DEF PlaceInv, Unclosed, Only
  <2>8. slot' = None
    BY <2>1, <2>3
  <2>. QED BY <2>2, <2>4, <2>5, <2>6, <2>7, <2>8, NoneIsNoRun
<1>5. ASSUME NEW x \in Runs, NEW y \in Runs, CloseAndRetry(x, y) PROVE PendingInv'
  <2> SUFFICES ASSUME NEW r \in Runs, Pending(r)' PROVE FALSE
    BY DEF PendingInv
  <2>1. Unclosed(x) /\ exit'[x] # "ok" /\ status'[y] = "queued"
    BY <1>5, RetryEffect DEF Unclosed
  <2>2. r \notin {x, y}
    BY <2>1 DEF Pending, Succeeded
  <2>. QED BY <1>5, <1>c, <1>d, <2>1, <2>2, RetryEffect DEF Only
<1>6. ASSUME NEW x \in Runs, ChildEmpties(x) \/ ChildWrites(x) \/ \E code \in {"ok", "warn", "fail"} : ChildEnds(x, code)
      PROVE  PendingInv'
  <2> SUFFICES ASSUME NEW r \in Runs, Pending(r)' PROVE FALSE
    BY DEF PendingInv
  <2>1. Unclosed(x) /\ status' = status /\ UNCHANGED <<kind, plan>> /\ Only(exit, exit', x)
    BY <1>6 DEF ChildEmpties, ChildWrites, ChildEnds, Unclosed, askVars, Only, Typed
  <2>2. r # x
    BY <2>1 DEF Pending, RunInv, Unclosed
  <2>. QED BY <1>c, <1>d, <2>1, <2>2 DEF Only
<1>7. ASSUME NEW x \in Runs, Stop(x) PROVE PendingInv'
  <2> SUFFICES ASSUME NEW r \in Runs, Pending(r)' PROVE FALSE
    BY DEF PendingInv
  <2>1. Unclosed(x)
    BY <1>7 DEF Stop, RunInv
  <2>2. UNCHANGED <<exit, kind, plan>> /\ status' = [status EXCEPT ![x] = "cancelled"]
    BY <1>7 DEF Stop, askVars
  <2>3. status'[r] = status[r]
    BY <2>2 DEF Typed, Pending, Succeeded
  <2>. QED BY <1>c, <1>d, <2>1, <2>2, <2>3
<1>8. ASSUME NEW x \in Runs, Forget(x) PROVE PendingInv'
  <2> SUFFICES ASSUME NEW r \in Runs, Pending(r)'
               PROVE  /\ top' = r /\ LastIn(history, r)'
                      /\ \A q \in Runs : ~Unclosed(q)' /\ (status'[q] = "queued" /\ slot' = q => LastIn(seen[q], r)')
    BY DEF PendingInv
  <2>1. /\ UNCHANGED <<exit, kind, plan, seen, top, history, slot, child>>
        /\ status' = [status EXCEPT ![x] = "deleted"]
    BY <1>8 DEF Forget, askVars, placeVars
  <2>2. \A q \in Runs : status'[q] = status[q] \/ status'[q] = "deleted"
    BY <2>1 DEF Typed
  <2>3. Pending(r)
    BY <1>c, <2>1, <2>2 DEF Pending, Succeeded
  <2>. QED BY <1>e, <2>1, <2>2, <2>3 DEF Succeeded, Unclosed
<1>9. CASE UNCHANGED <<exit, kind, plan, seen, top, history, slot, status, child>>
  <2> SUFFICES ASSUME NEW r \in Runs, Pending(r)'
               PROVE  /\ top' = r /\ LastIn(history, r)'
                      /\ \A q \in Runs : ~Unclosed(q)' /\ (status'[q] = "queued" /\ slot' = q => LastIn(seen[q], r)')
    BY DEF PendingInv
  <2>. QED BY <1>c, <1>e, <1>9 DEF Unclosed
<1>10. ASSUME NEW x \in Runs, BeginTransfer(x) PROVE PendingInv'
  BY <1>9, <1>10 DEF BeginTransfer, placeVars
<1>11. CASE EndTransfer \/ UNCHANGED vars
  BY <1>9, <1>11 DEF EndTransfer, placeVars, vars
<1>12. CASE Crash \/ Boot
  <2> SUFFICES ASSUME NEW r \in Runs, Pending(r)'
               PROVE  /\ top' = r /\ LastIn(history, r)'
                      /\ \A q \in Runs : ~Unclosed(q)' /\ (status'[q] = "queued" /\ slot' = q => LastIn(seen[q], r)')
    BY DEF PendingInv
  <2>1. /\ UNCHANGED <<exit, kind, plan, seen, top, history>> /\ slot' \in {slot, None}
        /\ status' = status \/ status' = [q \in Runs |-> IF status[q] = "running" THEN "failed" ELSE status[q]]
        /\ child' = child \/ child' = [q \in Runs |-> IF Unclosed(q) THEN "closed" ELSE child[q]]
    BY <1>12 DEF Crash, Boot, askVars, placeVars
  <2>2. \A q \in Runs : status'[q] = status[q] \/ status'[q] = "failed"
    BY <2>1 DEF Typed
  <2>3. Pending(r)
    BY <1>c, <2>1, <2>2 DEF Pending, Succeeded
  <2>4. \A q \in Runs : Unclosed(q)' => Unclosed(q)
    BY <2>1 DEF Unclosed
  <2>. QED BY <1>e, <2>1, <2>2, <2>3, <2>4, NoneIsNoRun DEF Succeeded
<1>. QED BY <1>1, <1>2, <1>3, <1>4, <1>5, <1>6, <1>7, <1>8, <1>10, <1>11, <1>12 DEF Next

-----------------------------------------------------------------------------
(* Transfers *)

\* Plans of runs that have one stay what they are.
LEMMA PlanKept ==
    ASSUME Typed, RunInv, [Next]_vars, NEW r \in Runs, status[r] # "absent"
    PROVE  plan'[r] = plan[r]
<1>1. ASSUME NEW q \in Runs, NEW k \in {"real", "dry"}, Request(q, k) PROVE plan'[r] = plan[r]
  BY <1>1, RequestEffect DEF Only
<1>2. ASSUME NEW p \in Runs, NEW q \in Runs, CloseAndRetry(p, q) PROVE plan'[r] = plan[r]
  BY <1>2, RetryEffect DEF Only
<1>3. CASE plan' = plan
  BY <1>3
<1>4. ASSUME NEW q \in Runs, \/ Launch(q) \/ LaunchFails(q) \/ ChildEmpties(q) \/ ChildWrites(q) \/ Close(q)
                             \/ \E code \in {"ok", "warn", "fail"} : ChildEnds(q, code)
                             \/ Stop(q) \/ Forget(q) \/ BeginTransfer(q)
      PROVE  plan'[r] = plan[r]
  BY <1>4 DEF Launch, LaunchFails, ChildEmpties, ChildWrites, Close, ChildEnds, Stop, Forget, BeginTransfer, askVars
<1>5. CASE EndTransfer \/ Crash \/ Boot \/ UNCHANGED vars
  BY <1>5 DEF EndTransfer, Crash, Boot, askVars, vars
<1>. QED BY <1>1, <1>2, <1>4, <1>5 DEF Next

LEMMA TransferStep ==
    Typed /\ RunInv /\ HistoryInv /\ PlaceInv /\ TransferInv /\ [Next]_vars => TransferInv'
<1> SUFFICES ASSUME Typed, RunInv, HistoryInv, PlaceInv, TransferInv, [Next]_vars PROVE TransferInv'
  OBVIOUS
<1>a. Onward
  BY OnwardStep
<1>b. prepared.from = "set" => prepared.of \in Runs
  BY DEF Typed, Unprepared
<1>c. NoTransfer.from = "none"
  BY DEF NoTransfer
<1>1. ASSUME transfer' = transfer \/ transfer' = NoTransfer, prepared' = prepared PROVE TransferInv'
  <2>1. prepared'.from = "set" => child'[prepared'.of] = "closed" /\ (exit'[prepared'.of] = "ok" => prepared'.holds = prepared'.of)
    BY <1>1, <1>a, <1>b DEF TransferInv, Onward
  <2>2. ASSUME transfer'.from = "set", exit'[transfer'.of] = "ok"
        PROVE  sets'[plan'[transfer'.of]] = transfer'.of
    <3>1. transfer' = transfer /\ transfer # NoTransfer
      BY <1>1, <1>c, <2>2
    <3>2. transfer.of \in Runs /\ child[transfer.of] = "closed"
      BY <3>1 DEF RunInv
    <3>3. exit[transfer.of] = "ok" /\ status[transfer.of] # "absent"
      BY <1>a, <2>2, <3>1, <3>2 DEF Onward, RunInv
    <3>4. sets[plan[transfer.of]] = transfer.of
      BY <2>2, <3>1, <3>3 DEF TransferInv
    <3>5. plan'[transfer.of] = plan[transfer.of] /\ plan[transfer.of] \in Runs
      BY <3>2, <3>3, PlanKept, PlanOf
    <3>6. sets'[plan[transfer.of]] = sets[plan[transfer.of]]
      BY <3>2, <3>4, <3>5, SetsKept, NoneIsNoRun
    <3>. QED BY <3>1, <3>4, <3>5, <3>6
  <2>. QED BY <2>1, <2>2 DEF TransferInv
<1>2. ASSUME NEW r \in Runs, BeginTransfer(r) PROVE TransferInv'
  <2>1. transfer' = [of |-> r, from |-> Source(r)] /\ UNCHANGED <<prepared, child, exit, sets, plan>>
    BY <1>2 DEF BeginTransfer, placeVars
  <2>2. transfer'.of = r /\ transfer'.from = Source(r)
    BY <2>1
  <2>3. status[r] \in Succeeded /\ kind[r] = "real"
    BY <1>2 DEF BeginTransfer
  <2>4. Source(r) = "set" /\ exit[r] = "ok" => sets[plan[r]] = r
    BY <2>3 DEF PlaceInv, Source
  <2>. QED BY <2>1, <2>2, <2>4 DEF TransferInv
<1>3. CASE EndTransfer
  <2>0. transfer # NoTransfer /\ transfer' = NoTransfer /\ UNCHANGED <<child, exit>>
    BY <1>3 DEF EndTransfer
  <2>1. transfer.of \in Runs /\ child[transfer.of] = "closed"
    BY <2>0 DEF RunInv
  <2>2. transfer.from = "set" /\ exit[transfer.of] = "ok" => Found(transfer.of, transfer.from) = transfer.of
    BY <2>0 DEF TransferInv, Found
  <2>3. prepared' = prepared \/ prepared' = [of |-> transfer.of, from |-> transfer.from, holds |-> Found(transfer.of, transfer.from)]
    BY <1>3 DEF EndTransfer
  <2>. QED BY <1>c, <2>0, <2>1, <2>2, <2>3 DEF TransferInv
<1>4. ASSUME NEW r \in Runs, \/ \E k \in {"real", "dry"} : Request(r, k)
                             \/ Launch(r) \/ LaunchFails(r) \/ ChildEmpties(r) \/ ChildWrites(r)
                             \/ \E code \in {"ok", "warn", "fail"} : ChildEnds(r, code)
                             \/ Close(r) \/ \E q \in Runs : CloseAndRetry(r, q)
                             \/ Stop(r) \/ Forget(r)
      PROVE  TransferInv'
  BY <1>1, <1>4 DEF Request, Launch, LaunchFails, ChildEmpties, ChildWrites, ChildEnds, Close, CloseAndRetry, Stop, Forget, askVars
<1>5. CASE Crash \/ Boot \/ UNCHANGED vars
  BY <1>1, <1>5 DEF Crash, Boot, askVars, vars
<1>. QED BY <1>2, <1>3, <1>4, <1>5 DEF Next

-----------------------------------------------------------------------------
(* The theorems *)

LEMMA OverlapStays == [Next]_vars /\ ~overlap' /\ Typed => ~overlap
<1> SUFFICES ASSUME [Next]_vars, ~overlap', Typed PROVE ~overlap
  OBVIOUS
<1>1. ASSUME NEW r \in Runs, \/ \E k \in {"real", "dry"} : Request(r, k)
                             \/ LaunchFails(r) \/ ChildEmpties(r) \/ ChildWrites(r)
                             \/ \E code \in {"ok", "warn", "fail"} : ChildEnds(r, code)
                             \/ Close(r) \/ \E q \in Runs : CloseAndRetry(r, q)
                             \/ Stop(r) \/ Forget(r) \/ BeginTransfer(r)
      PROVE  ~overlap
  BY <1>1 DEF Request, LaunchFails, ChildEmpties, ChildWrites, ChildEnds, Close, CloseAndRetry, Stop, Forget, BeginTransfer
<1>2. ASSUME NEW r \in Runs, Launch(r) PROVE ~overlap
  BY <1>2 DEF Launch
<1>3. CASE EndTransfer \/ Crash \/ Boot \/ UNCHANGED vars
  BY <1>3 DEF EndTransfer, Crash, Boot, vars
<1>. QED BY <1>1, <1>2, <1>3 DEF Next

LEMMA InvInit == Init => IInv
<1> SUFFICES ASSUME Init PROVE IInv
  OBVIOUS
<1>1. IsInjective(<<>>) /\ <<>> \in Seq(Runs) /\ NoTransfer \in [of : Places, from : {"none", "set", "top"}]
  BY NoneIsNoRun DEF IsInjective, NoTransfer
<1>2. Typed
  BY <1>1, NoneIsNoRun DEF Init, Typed, Statuses, Children
<1>3. RunInv /\ PlanInv /\ HistoryInv /\ HeadInv
  BY NoneIsNoRun DEF Init, RunInv, PlanInv, HistoryInv, HeadInv, Unclosed, Succeeded, Working
<1>4. PlaceInv /\ PendingInv /\ TransferInv
  BY NoneIsNoRun DEF Init, PlaceInv, PendingInv, Pending, TransferInv, Unclosed, Succeeded, NoTransfer, Unprepared
<1>. QED BY <1>2, <1>3, <1>4 DEF IInv

LEMMA InvAlways == Spec => []IInv
<1>1. IInv /\ [Next]_vars => IInv'
  BY TypesStep, RunStep, PlanStep, HeadStep, PlaceStep, PendingStep, TransferStep, OverlapStays DEF IInv
<1>. QED BY <1>1, InvInit, PTL DEF Spec

\* Rows, children, hooks' views, places and transfers keep their types.
THEOREM ArchiveTypes == Spec => []TypeOK
<1>1. IInv => TypeOK
  BY TypedIsTypeOK DEF IInv
<1>. QED BY <1>1, InvAlways, PTL

\* No oc-mirror deletes or overwrites the archives of a run that succeeded, as long as
\* none is launched beside the child of a stopped run.
THEOREM ArchivesSurvive == Spec => []SucceededArchivesSurvive
<1>1. IInv => SucceededArchivesSurvive
  BY DEF IInv, PlaceInv, SucceededArchivesSurvive
<1>. QED BY <1>1, InvAlways, PTL

\* A transfer read from the recorded set of a run that exited 0 holds that run's own
\* archives, whatever broke off between two renames before.
THEOREM TransfersAreOwn == Spec => []CleanTransferIsOwn
<1>1. IInv => CleanTransferIsOwn
  BY DEF IInv, TransferInv, CleanTransferIsOwn
<1>. QED BY <1>1, InvAlways, PTL

-----------------------------------------------------------------------------
(* A stopped run's child is awaited *)

\* The slot is taken by a request only when no child is left.
AwaitsChildren == slot = None /\ slot' # None => \A k \in Runs : ~Unclosed(k)

HolderAlone == ~overlap /\ \A k \in Runs : slot # None /\ Unclosed(k) => k = slot

LEMMA HolderStep == Typed /\ RunInv /\ HolderAlone /\ [Next]_vars /\ [AwaitsChildren]_vars => HolderAlone'
<1> SUFFICES ASSUME Typed, RunInv, HolderAlone, [Next]_vars, [AwaitsChildren]_vars PROVE HolderAlone'
  OBVIOUS
<1>0. child \in [Runs -> Children] /\ status \in [Runs -> Statuses]
  BY DEF Typed
<1>1. ASSUME NEW r \in Runs, NEW k \in {"real", "dry"}, Request(r, k) PROVE HolderAlone'
  <2>1. slot = None /\ slot' = r /\ slot' # None /\ UNCHANGED <<child, overlap>>
    BY <1>1, NoneIsNoRun DEF Request
  <2>2. \A q \in Runs : ~Unclosed(q)
    BY <2>1 DEF AwaitsChildren, vars
  <2>. QED BY <2>1, <2>2 DEF HolderAlone, Unclosed
<1>2. ASSUME NEW r \in Runs, Launch(r) PROVE HolderAlone'
  <2>1. slot = r /\ slot' = r /\ child[r] = "none" /\ overlap' = (overlap \/ \E k \in Runs : Unclosed(k))
    BY <1>2 DEF Launch, RunInv
  <2>2. \A k \in Runs : ~Unclosed(k)
    BY <2>1, NoneIsNoRun DEF HolderAlone, Unclosed
  <2>3. \A k \in Runs : k # r => child'[k] = child[k]
    BY <1>0, <1>2 DEF Launch
  <2>. QED BY <2>1, <2>2, <2>3 DEF HolderAlone, Unclosed
<1>3. ASSUME NEW r \in Runs, NEW q \in Runs, CloseAndRetry(r, q) PROVE HolderAlone'
  <2>1. slot = r /\ child' = [child EXCEPT ![r] = "closed"] /\ overlap' = overlap
    BY <1>3 DEF CloseAndRetry
  <2>2. \A k \in Runs : ~Unclosed(k)'
    BY <1>0, <2>1, NoneIsNoRun DEF HolderAlone, Unclosed
  <2>. QED BY <2>1, <2>2 DEF HolderAlone
<1>4. ASSUME NEW r \in Runs, \/ LaunchFails(r) \/ ChildEmpties(r) \/ ChildWrites(r)
                             \/ \E code \in {"ok", "warn", "fail"} : ChildEnds(r, code)
                             \/ Close(r) \/ Stop(r) \/ Forget(r) \/ BeginTransfer(r)
      PROVE  HolderAlone'
  <2>1. slot' \in {slot, None} /\ overlap' = overlap
    BY <1>4 DEF LaunchFails, ChildEmpties, ChildWrites, ChildEnds, Close, Stop, Forget, BeginTransfer
  <2>2. child' = child \/ (Unclosed(r) /\ \E c \in Children : child' = [child EXCEPT ![r] = c])
    BY <1>4 DEF LaunchFails, ChildEmpties, ChildWrites, ChildEnds, Close, Stop, Forget, BeginTransfer, Unclosed, Children
  <2>3. \A k \in Runs : Unclosed(k)' => Unclosed(k)
    BY <1>0, <2>2 DEF Unclosed
  <2>. QED BY <2>1, <2>3 DEF HolderAlone
<1>5. CASE EndTransfer
  BY <1>5 DEF EndTransfer, HolderAlone, Unclosed
<1>6. CASE Crash
  BY <1>6 DEF Crash, HolderAlone
<1>7. CASE Boot \/ UNCHANGED vars
  BY <1>7 DEF Boot, vars, HolderAlone, Unclosed
<1>. QED BY <1>1, <1>2, <1>3, <1>4, <1>5, <1>6, <1>7 DEF Next

\* Where a new run is requested only after the child of a stopped one has closed, no
\* archive is ever deleted or overwritten, of a run that succeeded or of any other, and
\* what is read from the recorded set of a run that exited 0 is always its own.
THEOREM AwaitedRunsDestroyNothing ==
    Spec /\ [][AwaitsChildren]_vars =>
        [](destroyed = {} /\ (prepared.from = "set" /\ exit[prepared.of] = "ok" => prepared.holds = prepared.of))
<1>1. Init => HolderAlone
  BY DEF Init, HolderAlone
<1>2. IInv /\ HolderAlone /\ [Next]_vars /\ [AwaitsChildren]_vars => HolderAlone'
  BY HolderStep DEF IInv
<1>3. IInv /\ HolderAlone => destroyed = {} /\ (prepared.from = "set" /\ exit[prepared.of] = "ok" => prepared.holds = prepared.of)
  BY DEF IInv, HolderAlone, PlaceInv, TransferInv
<1>. QED BY <1>1, <1>2, <1>3, InvAlways, PTL DEF Spec

-----------------------------------------------------------------------------
(* The run service *)

ServiceStep == [Service!Next]_(Service!vars)

LEMMA OutcomeOf == \A code : StatusOf(code) \in Service!Outcomes \ {"cancelled"}
  BY DEF StatusOf, Service!Outcomes

\* Every step is one of the service, or changes neither a row nor the slot.
LEMMA ServeStep == Typed /\ RunInv /\ [Next]_vars => ServiceStep
<1> SUFFICES ASSUME Typed, RunInv, [Next]_vars PROVE ServiceStep
  OBVIOUS
<1>0. status \in [Runs -> Statuses]
  BY DEF Typed
<1>1. ASSUME NEW r \in Runs, NEW k \in {"real", "dry"}, Request(r, k) PROVE ServiceStep
  <2>1. Service!Accept(r)
    BY <1>1 DEF Request, Service!Accept
  <2>. QED BY <2>1 DEF ServiceStep, Service!Next
<1>2. ASSUME NEW r \in Runs, Launch(r) \/ LaunchFails(r) PROVE ServiceStep
  <2>1. Service!Start(r)
    BY <1>2 DEF Launch, LaunchFails, Service!Start
  <2>. QED BY <2>1 DEF ServiceStep, Service!Next
<1>3. ASSUME NEW r \in Runs, Close(r) PROVE ServiceStep
  <2>1. up /\ child[r] = "ended" /\ status' = Settled(r) /\ slot' = IF slot = r THEN None ELSE slot
    BY <1>3 DEF Close
  <2>2. CASE status[r] = "running"
    <3>1. slot = r /\ status' = [status EXCEPT ![r] = StatusOf(exit[r])]
      BY <1>0, <2>1, <2>2 DEF RunInv, Settled
    <3>2. Service!Finish(r, StatusOf(exit[r]))
      BY <2>1, <2>2, <3>1 DEF Service!Finish
    <3>. QED BY <3>2, OutcomeOf DEF ServiceStep, Service!Next
  <2>3. CASE status[r] # "running"
    <3>1. status' = status
      BY <1>0, <2>1, <2>3 DEF Settled
    <3>2. slot # r
      BY <2>1, <2>3 DEF RunInv
    <3>. QED BY <2>1, <3>1, <3>2 DEF ServiceStep, Service!vars
  <2>. QED BY <2>2, <2>3
<1>4. ASSUME NEW r \in Runs, NEW q \in Runs, CloseAndRetry(r, q) PROVE ServiceStep
  <2>1. slot = r /\ status[r] = "running" /\ status[q] = "absent" /\ slot' = q
        /\ status' = [Settled(r) EXCEPT ![q] = "queued"]
    BY <1>4 DEF CloseAndRetry
  <2>2. status' = [status EXCEPT ![r] = StatusOf(exit[r]), ![q] = "queued"]
    BY <1>0, <2>1 DEF Settled
  <2>3. Service!FinishAndRetry(r, q, StatusOf(exit[r]))
    BY <2>1, <2>2, OutcomeOf DEF Service!FinishAndRetry
  <2>. QED BY <2>3, OutcomeOf DEF ServiceStep, Service!Next
<1>5. ASSUME NEW r \in Runs, Stop(r) PROVE ServiceStep
  <2>1. Service!Finish(r, "cancelled")
    BY <1>5 DEF Stop, Service!Finish
  <2>. QED BY <2>1 DEF ServiceStep, Service!Next, Service!Outcomes
<1>6. ASSUME NEW r \in Runs, Forget(r) PROVE ServiceStep
  <2>1. status[r] \in {"completed", "failed", "cancelled"} /\ slot' = slot /\ status' = [status EXCEPT ![r] = "deleted"]
    BY <1>6 DEF Forget
  <2>2. status' = [j \in Runs |-> IF j \in {r} THEN "deleted" ELSE status[j]]
    BY <1>0, <2>1
  <2>3. Service!Forget({r})
    BY <2>1, <2>2 DEF Service!Forget, Service!Clearable, Service!Outcomes
  <2>. QED BY <2>3 DEF ServiceStep, Service!Next
<1>7. ASSUME NEW r \in Runs, \/ ChildEmpties(r) \/ ChildWrites(r)
                             \/ \E code \in {"ok", "warn", "fail"} : ChildEnds(r, code)
                             \/ BeginTransfer(r)
      PROVE  ServiceStep
  BY <1>7 DEF ChildEmpties, ChildWrites, ChildEnds, BeginTransfer, ServiceStep, Service!vars
<1>8. CASE EndTransfer \/ UNCHANGED vars
  BY <1>8 DEF EndTransfer, vars, ServiceStep, Service!vars
<1>9. CASE Crash
  BY <1>9 DEF Crash, ServiceStep, Service!Next, Service!Interrupt
<1>10. CASE Boot
  <2>1. Service!Reconcile
    BY <1>10 DEF Boot, RunInv, Service!Reconcile
  <2>. QED BY <2>1 DEF ServiceStep, Service!Next
<1>. QED BY <1>1, <1>2, <1>3, <1>4, <1>5, <1>6, <1>7, <1>8, <1>9, <1>10 DEF Next

\* The runs of this module, with the hooks, retries and transfers around them, show
\* their clients only what RunService allows: the run service that OcMirrorRuns
\* implements is the one these runs are taken from.
THEOREM RunsFollowTheService == Spec => RunsAreServed
<1>1. Init => Service!Init
  BY DEF Init, Service!Init
<1>2. IInv /\ [Next]_vars => [Service!Next]_(Service!vars)
  BY ServeStep DEF IInv, ServiceStep
<1>. QED BY <1>1, <1>2, InvAlways, PTL DEF Spec, RunsAreServed, Service!Spec
=============================================================================
