---------------------------- MODULE TransferCycle ----------------------------
(***************************************************************************)
(* Incremental transfers end to end: the chain of mirror-to-disk runs on   *)
(* the connected side (mirroringCycle.js cycleRecord), their reception     *)
(* and loading on the disconnected side (receive, run, "run the same       *)
(* again"), and the guard that decides which transfer may be loaded next   *)
(* (cycleDecision).  One profile, one destination registry.                *)
(*                                                                         *)
(* Plans are numbered in the order they are created, so a plan is its own  *)
(* planCreatedAt.  Content is a set of blobs: plan p asks for blobs 1..p,  *)
(* one new with each plan; a history file is the set of blobs it lists and *)
(* that set is its SHA-256.                                                *)
(***************************************************************************)
EXTENDS Naturals, Sequences, FiniteSets, SequencesExt

CONSTANTS
    MaxPlan,    \* plans the connected side creates (bound)
    Loads,      \* disk-to-mirror attempts on the disconnected side
    None        \* nobody

ASSUME BoundAssumption == MaxPlan \in Nat

Plans == 1..MaxPlan
Blobs == Plans

VARIABLES
    histories,  \* working-dir/.history: [blobs, by], oldest first
    made,       \* the transfer of each plan, or NoTransfer
    planned,    \* plans created so far
    misnamed,   \* plans whose record names a run that did not write their baseline
    received,   \* plans in the receiving profile
    applied,    \* appliedCycles of the destination, oldest first
    receiving,  \* a receive that has read the slice and not yet written it
    retrying,   \* a retry that has read the profile and still hashes archives
    att,        \* the attempts: [plan, phase]
    slot,       \* the attempt that holds the oc-mirror run slot
    dest,       \* blobs in the destination registry
    loaded,     \* plans oc-mirror has loaded completely, oldest first
    stale,      \* a load was admitted on a record that was not (or not yet) true
    unordered   \* a transfer was admitted without a cycle record, or on a wrong name alone

vars == <<histories, made, planned, misnamed, received, applied, receiving, retrying, att,
          slot, dest, loaded, stale, unordered>>
lowVars  == <<histories, made, planned, misnamed>>
highVars == <<received, applied, receiving, retrying, att, slot, dest, loaded, stale, unordered>>

NoTransfer == [kind |-> "none", base |-> {}, produced |-> {}, previous |-> 0, blobs |-> {}]
Kinds      == {"none", "unknown", "full", "delta"}
Transfers  == [kind : Kinds, base : SUBSET Blobs, produced : SUBSET Blobs,
               previous : {0} \cup Plans, blobs : SUBSET Blobs]
NoReceive  == [plan |-> 0, applied |-> <<>>]
Phases     == {"none", "running", "ended", "broken", "unfinished", "completed"}

-----------------------------------------------------------------------------
(* The connected side *)

\* oc-mirror's baseline: the newest history, or with --since the newest before that
\* date; 0 stands for none (a full archive).
BaseOf(b) == IF b = 0 THEN {} ELSE histories[b].blobs

\* The runs whose record has the baseline's hash, and the one that wrote it.
SameHash(b) == {q \in Plans : made[q].kind \in {"full", "delta"} /\ made[q].produced = BaseOf(b)}
Writers(b)  == SameHash(b) \cup {histories[b].by}

\* The run the record names as the baseline's: the first with its hash, else the first
\* whose time, from a second before its start to a minute after its end, holds that of the
\* file, else none.  Runs may be less than a minute apart, rows are deleted and a killed run
\* has no end, so it can be any earlier run; one that left no transfer is as good as none.
Previous(b) == {0} \cup (IF b = 0 THEN {} ELSE {q \in Plans : made[q].kind # "none"})

\* A mirror to disk of the next plan.  clean: exit 0, its cycle is recorded.  warned:
\* transferable without a cycle, as is a clean run whose record broke off.  failed: no
\* transfer, as of a killed run.  Only a clean run has archived everything; any may have
\* written a history.
LowRun(b, archived, how, logged) ==
    LET p    == planned + 1
        need == (1..p) \ BaseOf(b)
    IN
    /\ planned < MaxPlan
    /\ archived \subseteq need
    /\ how = "clean" => archived = need /\ logged
    /\ planned' = p
    /\ histories' = IF logged
                    THEN Append(histories, [blobs |-> BaseOf(b) \cup archived, by |-> p])
                    ELSE histories
    /\ \E q \in Previous(b) :
         /\ made' = [made EXCEPT ![p] =
                CASE how = "clean"  -> [kind |-> IF b = 0 THEN "full" ELSE "delta",
                                        base |-> BaseOf(b), produced |-> BaseOf(b) \cup archived,
                                        previous |-> q, blobs |-> archived]
                  [] how = "warned" -> [NoTransfer EXCEPT !.kind = "unknown", !.blobs = archived]
                  [] OTHER          -> NoTransfer]
         /\ misnamed' = IF how = "clean" /\ q # 0 /\ q \notin Writers(b)
                        THEN misnamed \cup {p} ELSE misnamed
    /\ UNCHANGED highVars

-----------------------------------------------------------------------------
(* The guard *)

Known(p) == made[p].kind \in {"full", "delta"}

\* The transfer's baseline was produced by an applied plan, or its record names one.
ByHash(p, list)  == \E a \in Range(list) : Known(a) /\ made[a].produced = made[p].base
Chained(p, list) == ByHash(p, list) \/ made[p].previous \in Range(list)

\* Wrong form of Decision: a full transfer is always allowed.
DecisionFullFirst(p, list) ==
    IF list # <<>> /\ Last(list) = p                        THEN "repeat"
    ELSE IF made[p].kind = "full"                           THEN "rebaseline"
    ELSE IF p \in Range(list) \/ \E a \in Range(list) : a > p THEN "rollback"
    ELSE IF ~Known(p)                                       THEN "unknown"
    ELSE IF Chained(p, list)                                THEN "next"
    ELSE "gap"

\* cycleDecision: p against the plans in list, oldest first.
Decision(p, list) ==
    IF list # <<>> /\ Last(list) = p                        THEN "repeat"
    ELSE IF p \in Range(list) \/ \E a \in Range(list) : a > p THEN "rollback"
    ELSE IF ~Known(p)                                       THEN "unknown"
    ELSE IF list = <<>>                                     THEN IF made[p].kind = "full" THEN "first" ELSE "gap"
    ELSE IF made[p].kind = "full"                           THEN "rebaseline"
    ELSE IF Chained(p, list)                                THEN "next"
    ELSE "gap"

\* Wrong form of Allowed: a gap is only reported.
AllowedWithGaps(p, list) == Decision(p, list) # "rollback"

Allowed(p, list) == Decision(p, list) \notin {"rollback", "gap"}

\* A transfer that is let through only because its record names the wrong run.
OnWrongName(p, list) == p \in misnamed /\ Decision(p, list) = "next" /\ ~ByHash(p, list)

Unclosed(a) == att[a].phase \in {"running", "ended", "broken"}

\* runReceivedTransfer: decided on the profile the route has read.
Start(a, p, list) ==
    /\ slot = None /\ att[a].phase = "none" /\ Allowed(p, list)
    /\ slot' = a
    /\ att' = [att EXCEPT ![a] = [plan |-> p, phase |-> "running"]]
    /\ stale' = (stale \/ list # loaded \/ \E k \in Loads : Unclosed(k))
    /\ unordered' = (unordered \/ ~Known(p) \/ OnWrongName(p, list))

-----------------------------------------------------------------------------
(* The disconnected side *)

\* POST .../receive: the copy is staged and the slice read; the identity of the local
\* tool is awaited before it is written.
ReceiveReads(p) ==
    /\ receiving = NoReceive /\ made[p].kind # "none"
    /\ receiving' = [plan |-> p, applied |-> applied]
    /\ UNCHANGED <<lowVars, received, applied, retrying, att, slot, dest, loaded, stale, unordered>>

\* The whole slice is written as it was read, with the transfer added.
ReceiveWrites ==
    /\ receiving # NoReceive
    /\ received' = received \cup {receiving.plan}
    /\ applied' = receiving.applied
    /\ receiving' = NoReceive
    /\ UNCHANGED <<lowVars, retrying, att, slot, dest, loaded, stale, unordered>>

\* POST .../run: no await between reading the profile and the slot.
Load(a, p) ==
    /\ p \in received
    /\ Start(a, p, applied)
    /\ UNCHANGED <<lowVars, received, applied, receiving, retrying, dest, loaded>>

\* POST .../operations/:id/retry of an attempt that did not finish: refused while
\* something runs or is received; then every archive is hashed.
RetryReads(a) ==
    /\ retrying = NoReceive /\ receiving = NoReceive /\ slot = None
    /\ att[a].phase = "unfinished" /\ att[a].plan \in received
    /\ retrying' = [plan |-> att[a].plan, applied |-> applied]
    /\ UNCHANGED <<lowVars, received, applied, receiving, att, slot, dest, loaded, stale, unordered>>

RetryStarts(a) ==
    /\ retrying # NoReceive
    /\ Start(a, retrying.plan, retrying.applied)
    /\ retrying' = NoReceive
    /\ UNCHANGED <<lowVars, received, applied, receiving, dest, loaded>>

\* The slot is held, the order is refused or an archive has changed.
RetryRefused ==
    /\ retrying # NoReceive
    /\ retrying' = NoReceive
    /\ UNCHANGED <<lowVars, received, applied, receiving, att, slot, dest, loaded, stale, unordered>>

\* A list without its entry for p; it has one at most.
Without(list, p) ==
    IF \E i \in DOMAIN list : list[i] = p
    THEN RemoveAt(list, CHOOSE i \in DOMAIN list : list[i] = p)
    ELSE list

\* oc-mirror pushes the blobs of the archive and exits 0.
ChildLoads(a) ==
    LET p == att[a].plan IN
    /\ att[a].phase = "running"
    /\ att' = [att EXCEPT ![a].phase = "ended"]
    /\ dest' = dest \cup made[p].blobs
    /\ loaded' = Append(Without(loaded, p), p)
    /\ UNCHANGED <<lowVars, received, applied, receiving, retrying, slot, stale, unordered>>

\* Or it ends otherwise, with some of them pushed.
ChildBreaks(a, some) ==
    /\ att[a].phase = "running" /\ some \subseteq made[att[a].plan].blobs
    /\ att' = [att EXCEPT ![a].phase = "broken"]
    /\ dest' = dest \cup some
    /\ UNCHANGED <<lowVars, received, applied, receiving, retrying, slot, loaded, stale, unordered>>

\* Wrong form of Record: an earlier entry of the same plan stays.
RecordAgain(p) == Append(applied, p)

\* afterSuccess: an earlier entry of the same plan goes, the new one is the latest.
Record(p) == Append(Without(applied, p), p)

\* The close event; the slice is read again.  Also for an attempt that was stopped.
Close(a) ==
    /\ att[a].phase \in {"ended", "broken"}
    /\ att' = [att EXCEPT ![a].phase = IF @ = "ended" /\ slot = a THEN "completed" ELSE "unfinished"]
    /\ IF att[a].phase = "ended"
       THEN applied' = Record(att[a].plan)
       ELSE UNCHANGED applied
    /\ slot' = IF slot = a THEN None ELSE slot
    /\ UNCHANGED <<lowVars, received, receiving, retrying, dest, loaded, stale, unordered>>

Stop(a) ==
    /\ slot = a /\ Unclosed(a)
    /\ slot' = None
    /\ UNCHANGED <<lowVars, received, applied, receiving, retrying, att, dest, loaded, stale, unordered>>

\* The process ends, with its children, and starts again.
Restart ==
    /\ \/ receiving # NoReceive \/ retrying # NoReceive \/ \E a \in Loads : Unclosed(a)
    /\ receiving' = NoReceive /\ retrying' = NoReceive /\ slot' = None
    /\ att' = [a \in Loads |-> IF Unclosed(a) THEN [att[a] EXCEPT !.phase = "unfinished"] ELSE att[a]]
    /\ UNCHANGED <<lowVars, received, applied, dest, loaded, stale, unordered>>

-----------------------------------------------------------------------------
Init ==
    /\ histories = <<>> /\ made = [p \in Plans |-> NoTransfer] /\ planned = 0
    /\ misnamed = {} /\ received = {} /\ applied = <<>>
    /\ receiving = NoReceive /\ retrying = NoReceive
    /\ att = [a \in Loads |-> [plan |-> 0, phase |-> "none"]]
    /\ slot = None /\ dest = {} /\ loaded = <<>>
    /\ stale = FALSE /\ unordered = FALSE

Next ==
    \/ \E b \in 0..Len(histories), archived \in SUBSET Blobs,
          how \in {"clean", "warned", "failed"}, logged \in BOOLEAN :
         LowRun(b, archived, how, logged)
    \/ \E p \in Plans : ReceiveReads(p) \/ \E a \in Loads : Load(a, p)
    \/ ReceiveWrites
    \/ \E a \in Loads : \/ RetryReads(a) \/ RetryStarts(a)
                        \/ ChildLoads(a) \/ \E some \in SUBSET Blobs : ChildBreaks(a, some)
                        \/ Close(a) \/ Stop(a)
    \/ RetryRefused
    \/ Restart

Spec == Init /\ [][Next]_vars

-----------------------------------------------------------------------------
(* Properties *)

TypeOK ==
    /\ \A i \in DOMAIN histories : histories[i] \in [blobs : SUBSET Blobs, by : Plans]
    /\ made \in [Plans -> Transfers] /\ planned \in 0..MaxPlan
    /\ misnamed \subseteq Plans /\ received \subseteq Plans
    /\ \A s \in {applied, loaded, receiving.applied, retrying.applied} :
         IsInjective(s) /\ Range(s) \subseteq Plans
    /\ receiving.plan \in 0..MaxPlan /\ retrying.plan \in 0..MaxPlan
    /\ att \in [Loads -> [plan : 0..MaxPlan, phase : Phases]]
    /\ slot \in Loads \cup {None} /\ dest \subseteq Blobs
    /\ stale \in BOOLEAN /\ unordered \in BOOLEAN

\* No transfer is loaded after a newer one, however the connected side came to make
\* them and in whatever order, how often and how incompletely they are loaded, as long
\* as every load was decided on a record that held what was loaded by then.
NoRollback ==
    ~stale => \A i, j \in DOMAIN loaded : i < j => loaded[i] < loaded[j]

\* A loaded transfer is complete: with everything loaded before it the destination has
\* all its plan archived or took from its baseline, also after runs that failed, were
\* killed or started again from an older history.  The guard lets two kinds of transfer
\* through unchecked, after which nothing is promised: one without a cycle record, and one
\* it takes for the next only by the name of a run that did not write its baseline.
NoSilentLoss ==
    ~stale /\ ~unordered => \A p \in Range(loaded) : made[p].produced \subseteq dest
=============================================================================
