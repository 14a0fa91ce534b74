------------------------ MODULE TransferCycleProofs ------------------------
(***************************************************************************)
(* What holds of TransferCycle for any number of plans and attempts: the    *)
(* types, and, as long as every load was decided on a record that held what *)
(* was loaded by then, that no transfer is rolled back and that what is     *)
(* loaded is complete.                                                      *)
(***************************************************************************)
EXTENDS TransferCycle, SequenceTheorems, TLAPS

-----------------------------------------------------------------------------
(* The invariant *)

History == [blobs : SUBSET Blobs, by : Plans]

\* The lists of plans: no plan twice.
Lists == {s \in Seq(Plans) : IsInjective(s)}

Typed ==
    /\ histories \in Seq(History)
    /\ made \in [Plans -> Transfers] /\ planned \in 0..MaxPlan
    /\ misnamed \subseteq Plans /\ received \subseteq Plans
    /\ applied \in Lists /\ loaded \in Lists
    /\ receiving \in [plan : 0..MaxPlan, applied : Lists]
    /\ retrying \in [plan : 0..MaxPlan, applied : Lists]
    /\ att \in [Loads -> [plan : 0..MaxPlan, phase : Phases]]
    /\ slot \in Loads \cup {None} /\ dest \subseteq Blobs
    /\ stale \in BOOLEAN /\ unordered \in BOOLEAN

\* The transfer of a plan that was made.
Made(p) == p \in Plans /\ made[p].kind # "none"

\* What the connected side knows: plans that are still to be made have no transfer; a
\* history of a run that succeeded lists what its transfer produced; a transfer brings
\* what it produced and did not find in its baseline; and the plan it names as its
\* predecessor is older and, unless it is misnamed or that plan has no cycle, produced
\* the baseline.
CycleInv ==
    /\ \A p \in Plans : Made(p) => p <= planned
    /\ \A i \in DOMAIN histories :
         /\ histories[i].by <= planned
         /\ Known(histories[i].by) => made[histories[i].by].produced = histories[i].blobs
    /\ \A p \in Plans : Known(p) =>
         /\ made[p].produced = made[p].base \cup made[p].blobs
         /\ made[p].kind = "full" => made[p].base = {}
         /\ made[p].previous < p
         /\ p \notin misnamed /\ made[p].previous # 0 /\ Known(made[p].previous) =>
              made[made[p].previous].produced = made[p].base

\* Whatever is received, loaded or being loaded was made.
CarriedInv ==
    /\ \A p \in received \cup Range(loaded) : Made(p)
    /\ receiving # NoReceive => Made(receiving.plan)
    /\ retrying # NoReceive => Made(retrying.plan)
    /\ \A a \in Loads : att[a].phase # "none" => Made(att[a].plan)

\* While every decision was made on a true record: one child at most, the order guard
\* still lets its transfer through, and what is loaded is in the order it was made.
OrderInv ==
    ~stale =>
    /\ \A a, b \in Loads : Unclosed(a) /\ Unclosed(b) => a = b
    /\ \A a \in Loads : att[a].phase = "running" => Allowed(att[a].plan, loaded)
    /\ \A i, j \in DOMAIN loaded : i < j => loaded[i] < loaded[j]

\* And as long as every transfer has a cycle and none goes by a wrong name alone: what is
\* loaded is complete.
ContentInv ==
    ~stale /\ ~unordered =>
    /\ \A a \in Loads : att[a].phase = "running" =>
         Known(att[a].plan) /\ ~OnWrongName(att[a].plan, loaded)
    /\ \A p \in Range(loaded) : Known(p) /\ made[p].produced \subseteq dest

IInv == Typed /\ CycleInv /\ CarriedInv /\ OrderInv /\ ContentInv

-----------------------------------------------------------------------------
(* Lists of plans *)

\* Taking an entry out leaves the others, in their order.
LEMMA WithoutKeepsOrder ==
    ASSUME NEW list \in Lists, NEW p \in Plans
    PROVE  /\ Without(list, p) \in Seq(Plans)
           /\ \A i \in DOMAIN Without(list, p) : \E k \in DOMAIN list :
                k \in {i, i + 1} /\ Without(list, p)[i] = list[k] /\ list[k] # p
           /\ \A i, j \in DOMAIN Without(list, p) : i < j =>
                \E k, l \in DOMAIN list :
                  k < l /\ Without(list, p)[i] = list[k] /\ Without(list, p)[j] = list[l]
           /\ \A k \in DOMAIN list : list[k] # p =>
                \E i \in DOMAIN Without(list, p) : Without(list, p)[i] = list[k]
<1>0. list \in Seq(Plans) /\ Len(list) \in Nat /\ DOMAIN list = 1..Len(list)
      /\ \A i, j \in DOMAIN list : list[i] = list[j] => i = j
  BY LenProperties DEF Lists, IsInjective
<1>1. CASE ~\E i \in DOMAIN list : list[i] = p
  <2>1. Without(list, p) = list
    BY <1>1 DEF Without
  <2>2. QED BY <2>1, <1>0, <1>1
<1>2. CASE \E i \in DOMAIN list : list[i] = p
  <2> DEFINE n == CHOOSE i \in DOMAIN list : list[i] = p
             A == SubSeq(list, 1, n - 1)
             B == SubSeq(list, n + 1, Len(list))
             W == Without(list, p)
  <2>1. n \in DOMAIN list /\ list[n] = p
    BY <1>2
  <2> HIDE DEF n
  <2>2. W = A \o B
    BY <1>2 DEF Without, RemoveAt, n
  <2> HIDE DEF W
  <2>3. A \in Seq(Plans) /\ Len(A) = n - 1 /\ \A i \in 1..n - 1 : A[i] = list[i]
    <3>1. \A i \in 1..n - 1 : list[i] \in Plans
      BY <1>0, <2>1, ElementOfSeq
    <3>2. \A i \in 1..n - 1 : 1 + i - 1 = i
      BY <1>0, <2>1
    <3>. HIDE DEF Plans
    <3>3. QED BY <3>1, <3>2, <1>0, <2>1, SubSeqProperties
  <2>4. B \in Seq(Plans) /\ Len(B) = Len(list) - n
        /\ \A i \in 1..Len(list) - n : B[i] = list[n + i]
    <3>1. \A i \in n + 1..Len(list) : list[i] \in Plans
      BY <1>0, <2>1, ElementOfSeq
    <3>2. Len(list) - (n + 1) + 1 = Len(list) - n /\ \A i \in 1..Len(list) - n : (n + 1) + i - 1 = n + i
      BY <1>0, <2>1
    <3>. HIDE DEF Plans
    <3>3. QED BY <3>1, <3>2, <1>0, <2>1, SubSeqProperties
  <2> HIDE DEF A, B
  <2>5. W \in Seq(Plans) /\ Len(W) = Len(list) - 1 /\ DOMAIN W = 1..Len(list) - 1
    <3>1. W \in Seq(Plans) /\ Len(W) = Len(A) + Len(B)
      BY <2>2, <2>3, <2>4, ConcatProperties
    <3>2. QED BY <3>1, <2>3, <2>4, <1>0, <2>1, LenProperties
  <2>6. \A i \in 1..Len(list) - 1 : W[i] = IF i < n THEN list[i] ELSE list[i + 1]
    <3>1. SUFFICES ASSUME NEW i \in 1..Len(list) - 1
                   PROVE  W[i] = IF i < n THEN list[i] ELSE list[i + 1]
      OBVIOUS
    <3>2. W[i] = IF i <= Len(A) THEN A[i] ELSE B[i - Len(A)]
      BY <2>2, <2>3, <2>4, <1>0, <2>1, ConcatProperties
    <3>3. CASE i < n
      BY <3>2, <3>3, <2>3, <1>0, <2>1
    <3>4. CASE ~(i < n)
      <4>1. i - (n - 1) \in 1..Len(list) - n /\ n + (i - (n - 1)) = i + 1 /\ ~(i <= n - 1)
        BY <3>4, <1>0, <2>1
      <4>2. QED BY <3>2, <3>4, <4>1, <2>3, <2>4
    <3>5. QED BY <3>3, <3>4
  <2> DEFINE at(i) == IF i < n THEN i ELSE i + 1
  <2>7. \A i \in DOMAIN W : at(i) \in DOMAIN list /\ at(i) \in {i, i + 1} /\ at(i) # n /\ W[i] = list[at(i)]
    BY <2>5, <2>6, <1>0, <2>1
  <2>8. \A i, j \in DOMAIN W : i < j => at(i) < at(j)
    BY <2>5, <1>0, <2>1
  <2>9. \A k \in DOMAIN list : k # n => \E i \in DOMAIN W : at(i) = k
    <3>1. SUFFICES ASSUME NEW k \in DOMAIN list, k # n PROVE \E i \in DOMAIN W : at(i) = k
      OBVIOUS
    <3>2. CASE k < n
      BY <3>2, <2>5, <1>0, <2>1
    <3>3. CASE k > n
      <4>1. k - 1 \in DOMAIN W /\ at(k - 1) = k
        BY <3>3, <2>5, <1>0, <2>1
      <4>2. QED BY <4>1
    <3>4. QED BY <3>1, <3>2, <3>3, <1>0, <2>1
  <2> HIDE DEF at
  <2>10. \A i \in DOMAIN W : list[at(i)] # p
    BY <2>7, <2>1, <1>0
  <2>11. \A i, j \in DOMAIN W : i < j =>
           \E k, l \in DOMAIN list : k < l /\ W[i] = list[k] /\ W[j] = list[l]
    BY <2>7, <2>8
  <2>12. \A k \in DOMAIN list : list[k] # p => \E i \in DOMAIN W : W[i] = list[k]
    BY <2>7, <2>9, <2>1
  <2>13. QED BY <2>5, <2>7, <2>10, <2>11, <2>12 DEF W
<1>3. QED BY <1>1, <1>2

\* A list in which p becomes the latest.
LEMMA LatestAppended ==
    ASSUME NEW list \in Lists, NEW p \in Plans
    PROVE  /\ Append(Without(list, p), p) \in Lists
           /\ Range(Append(Without(list, p), p)) = Range(list) \cup {p}
<1> DEFINE W == Without(list, p)
           L == Append(W, p)
<1>1. W \in Seq(Plans) /\ Len(W) \in Nat /\ DOMAIN W = 1..Len(W)
  BY WithoutKeepsOrder, LenProperties
<1>2. /\ \A i \in DOMAIN W : \E k \in DOMAIN list : W[i] = list[k] /\ list[k] # p
      /\ \A i, j \in DOMAIN W : i < j =>
           \E k, l \in DOMAIN list : k < l /\ W[i] = list[k] /\ W[j] = list[l]
      /\ \A k \in DOMAIN list : list[k] # p => \E i \in DOMAIN W : W[i] = list[k]
  BY WithoutKeepsOrder
<1> HIDE DEF W
<1>3. /\ L \in Seq(Plans) /\ DOMAIN L = 1..Len(W) + 1 /\ L[Len(W) + 1] = p
      /\ \A i \in DOMAIN W : i \in DOMAIN L /\ L[i] = W[i]
      /\ \A i \in DOMAIN L : i \in DOMAIN W \/ i = Len(W) + 1
  BY <1>1
<1> HIDE DEF L
<1>4. list \in Seq(Plans) /\ \A i, j \in DOMAIN list : list[i] = list[j] => i = j
  BY DEF Lists, IsInjective
<1>5. DOMAIN list \subseteq Nat
  BY <1>4, LenProperties
<1>6. \A i, j \in DOMAIN W : i < j => W[i] # W[j]
  BY <1>2, <1>4, <1>5
<1>7. \A i, j \in DOMAIN W : W[i] = W[j] => i = j
  BY <1>6, <1>1
<1>8. \A i \in DOMAIN W : W[i] # p
  BY <1>2
<1>9. \A i, j \in DOMAIN L : L[i] = L[j] => i = j
  BY <1>3, <1>7, <1>8
<1>10. L \in Lists
  BY <1>3, <1>9 DEF Lists, IsInjective
<1>11. Range(L) = Range(list) \cup {p}
  BY <1>2, <1>3 DEF Range
<1>12. QED BY <1>10, <1>11 DEF L, W

\* What the guard lets through is at least as new as everything in the list.
LEMMA AllowedIsNewest ==
    ASSUME NEW list \in Lists, NEW p \in Plans, Allowed(p, list),
           \A i, j \in DOMAIN list : i < j => list[i] < list[j]
    PROVE  \A k \in DOMAIN list : list[k] = p \/ list[k] < p
<1>1. list \in Seq(Plans) /\ Len(list) \in Nat /\ DOMAIN list = 1..Len(list)
      /\ \A k \in DOMAIN list : list[k] \in Nat
  BY LenProperties, ElementOfSeq, BoundAssumption DEF Lists, Plans
<1>2. p \in Nat
  BY BoundAssumption DEF Plans
<1>3. Decision(p, list) \notin {"rollback", "gap"}
  BY DEF Allowed
<1>4. CASE list # <<>> /\ Last(list) = p
  BY <1>1, <1>2, <1>4 DEF Last
<1>5. CASE ~(list # <<>> /\ Last(list) = p)
  <2>1. ~(p \in Range(list) \/ \E a \in Range(list) : a > p)
    BY <1>3, <1>5 DEF Decision
  <2>2. \A k \in DOMAIN list : list[k] \in Range(list)
    BY DEF Range
  <2>3. QED BY <2>1, <2>2, <1>1, <1>2
<1>6. QED BY <1>4, <1>5

\* So it goes to the end of the list, and the list stays in order.
LEMMA AllowedKeepsOrder ==
    ASSUME NEW list \in Lists, NEW p \in Plans, Allowed(p, list),
           \A i, j \in DOMAIN list : i < j => list[i] < list[j],
           NEW new, new = Append(Without(list, p), p)
    PROVE  \A i, j \in DOMAIN new : i < j => new[i] < new[j]
<1> DEFINE W == Without(list, p)
<1>1. W \in Seq(Plans) /\ Len(W) \in Nat /\ DOMAIN W = 1..Len(W)
  BY WithoutKeepsOrder, LenProperties
<1>2. /\ \A i \in DOMAIN W : \E k \in DOMAIN list : W[i] = list[k] /\ list[k] # p
      /\ \A i, j \in DOMAIN W : i < j =>
           \E k, l \in DOMAIN list : k < l /\ W[i] = list[k] /\ W[j] = list[l]
  BY WithoutKeepsOrder
<1>3. \A i \in DOMAIN W : W[i] < p
  BY <1>2, AllowedIsNewest
<1>4. \A i, j \in DOMAIN W : i < j => W[i] < W[j]
  BY <1>2
<1>5. new = Append(W, p)
  OBVIOUS
<1> HIDE DEF W
<1>6. /\ DOMAIN new = 1..Len(W) + 1 /\ new[Len(W) + 1] = p
      /\ \A i \in DOMAIN W : new[i] = W[i]
  BY <1>1, <1>5
<1>7. SUFFICES ASSUME NEW i \in DOMAIN new, NEW j \in DOMAIN new, i < j PROVE new[i] < new[j]
  OBVIOUS
<1>8. i \in DOMAIN W /\ (j \in DOMAIN W \/ j = Len(W) + 1)
  BY <1>1, <1>6, <1>7
<1>9. QED BY <1>3, <1>4, <1>6, <1>7, <1>8

-----------------------------------------------------------------------------
(* Types *)

LEMMA TypedIsTypeOK == Typed => TypeOK
<1>1. SUFFICES ASSUME Typed PROVE TypeOK
  OBVIOUS
<1>2. \A i \in DOMAIN histories : histories[i] \in History
  BY <1>1, LenProperties, ElementOfSeq DEF Typed
<1>3. \A s \in Lists : IsInjective(s) /\ Range(s) \subseteq Plans
  BY LenProperties, ElementOfSeq DEF Lists, Range
<1>4. {applied, loaded, receiving.applied, retrying.applied} \subseteq Lists
  BY <1>1 DEF Typed
<1>5. QED BY <1>1, <1>2, <1>3, <1>4 DEF Typed, TypeOK, History

LEMMA HistoriesAre ==
    ASSUME Typed
    PROVE  /\ Len(histories) \in Nat /\ DOMAIN histories = 1..Len(histories)
           /\ \A i \in DOMAIN histories : histories[i] \in History /\ histories[i].by \in Plans
<1>1. histories \in Seq(History)
  BY DEF Typed
<1>2. \A i \in DOMAIN histories : histories[i] \in History
  BY <1>1, LenProperties, ElementOfSeq
<1>3. QED BY <1>1, <1>2, LenProperties DEF History

LEMMA NoListIsAList == <<>> \in Lists /\ Range(<<>>) = {}
  BY EmptySeq, LenProperties DEF Lists, IsInjective, Range

LEMMA NoReceiveType == NoReceive \in [plan : 0..MaxPlan, applied : Lists]
  BY NoListIsAList, BoundAssumption DEF NoReceive

\* What a run on the connected side can make.
LEMMA LowRunTypes ==
    ASSUME Typed, NEW b \in 0..Len(histories), NEW archived, NEW how \in {"clean", "warned", "failed"},
           NEW logged \in BOOLEAN, LowRun(b, archived, how, logged)
    PROVE  Typed'
<1>1. /\ Len(histories) \in Nat
      /\ \A i \in 1..Len(histories) : histories[i] \in History
  BY LenProperties, ElementOfSeq DEF Typed
<1>2. planned + 1 \in Plans /\ planned \in Nat
  BY BoundAssumption DEF LowRun, Typed, Plans
<1>3. BaseOf(b) \subseteq Blobs
  BY <1>1 DEF BaseOf, History
<1>4. archived \subseteq Blobs
  <2>1. archived \subseteq 1..planned + 1
    BY DEF LowRun
  <2>2. 1..planned + 1 \subseteq 1..MaxPlan
    BY <1>2, BoundAssumption DEF Plans
  <2>3. QED BY <2>1, <2>2 DEF Plans, Blobs
<1>5. histories' \in Seq(History)
  <2>1. [blobs |-> BaseOf(b) \cup archived, by |-> planned + 1] \in History
    BY <1>2, <1>3, <1>4 DEF History
  <2>2. histories \in Seq(History)
    BY DEF Typed
  <2>3. QED BY <2>1, <2>2 DEF LowRun
<1>6. Previous(b) \subseteq {0} \cup Plans
  BY DEF Previous
<1>7. made' \in [Plans -> Transfers] /\ misnamed' \subseteq Plans
  <2>1. PICK q \in Previous(b) :
         /\ made' = [made EXCEPT ![planned + 1] =
                CASE how = "clean"  -> [kind |-> IF b = 0 THEN "full" ELSE "delta",
                                        base |-> BaseOf(b), produced |-> BaseOf(b) \cup archived,
                                        previous |-> q, blobs |-> archived]
                  [] how = "warned" -> [NoTransfer EXCEPT !.kind = "unknown", !.blobs = archived]
                  [] OTHER          -> NoTransfer]
         /\ misnamed' \in {misnamed, misnamed \cup {planned + 1}}
    BY DEF LowRun
  <2>2. [kind |-> IF b = 0 THEN "full" ELSE "delta", base |-> BaseOf(b),
         produced |-> BaseOf(b) \cup archived, previous |-> q, blobs |-> archived] \in Transfers
    BY <1>3, <1>4, <1>6 DEF Transfers, Kinds
  <2>3. [NoTransfer EXCEPT !.kind = "unknown", !.blobs = archived] \in Transfers /\ NoTransfer \in Transfers
    BY <1>4 DEF Transfers, Kinds, NoTransfer
  <2>4. QED BY <1>2, <2>1, <2>2, <2>3 DEF Typed
<1>8. planned' \in 0..MaxPlan
  BY <1>2 DEF LowRun, Plans
<1>9. QED BY <1>5, <1>7, <1>8 DEF LowRun, Typed, highVars

LEMMA StartTypes ==
    ASSUME Typed, NEW a \in Loads, NEW p \in 0..MaxPlan, NEW list, Start(a, p, list)
    PROVE  /\ att' \in [Loads -> [plan : 0..MaxPlan, phase : Phases]]
           /\ slot' \in Loads \cup {None}
           /\ stale' \in BOOLEAN /\ unordered' \in BOOLEAN
<1>1. "running" \in Phases
  BY DEF Phases
<1>2. att' \in [Loads -> [plan : 0..MaxPlan, phase : Phases]]
  BY <1>1 DEF Start, Typed
<1>3. QED BY <1>2 DEF Start, Typed

\* Types are kept by every step; an attempt's plan was made.
LEMMA TypesStep == Typed /\ CarriedInv /\ [Next]_vars => Typed'
<1>1. SUFFICES ASSUME Typed, CarriedInv, [Next]_vars PROVE Typed'
  OBVIOUS
<1>2. CASE UNCHANGED vars
  BY <1>1, <1>2 DEF Typed, vars
<1>3. ASSUME NEW b \in 0..Len(histories), NEW archived,
             NEW how \in {"clean", "warned", "failed"}, NEW logged \in BOOLEAN,
             LowRun(b, archived, how, logged)
      PROVE  Typed'
  BY <1>1, <1>3, LowRunTypes
<1>4. ASSUME NEW p \in Plans, ReceiveReads(p) PROVE Typed'
  <2>1. receiving' \in [plan : 0..MaxPlan, applied : Lists]
    BY <1>1, <1>4, BoundAssumption DEF ReceiveReads, Typed, Plans
  <2>2. QED BY <1>1, <1>4, <2>1 DEF ReceiveReads, Typed, lowVars
<1>5. ASSUME NEW p \in Plans, NEW a \in Loads, Load(a, p) PROVE Typed'
  <2>1. p \in 0..MaxPlan
    BY BoundAssumption DEF Plans
  <2>2. QED BY <1>1, <1>5, <2>1, StartTypes DEF Load, Typed, lowVars
<1>6. ASSUME ReceiveWrites PROVE Typed'
  <2>1. receiving.plan \in Plans /\ receiving.applied \in Lists
    BY <1>1, <1>6 DEF ReceiveWrites, CarriedInv, Made, Typed
  <2>2. QED BY <1>1, <1>6, <2>1, NoReceiveType DEF ReceiveWrites, Typed, lowVars
<1>7. ASSUME NEW a \in Loads, RetryReads(a) PROVE Typed'
  <2>1. retrying' \in [plan : 0..MaxPlan, applied : Lists]
    BY <1>1, <1>7 DEF RetryReads, Typed
  <2>2. QED BY <1>1, <1>7, <2>1 DEF RetryReads, Typed, lowVars
<1>8. ASSUME NEW a \in Loads, RetryStarts(a) PROVE Typed'
  <2>1. retrying.plan \in 0..MaxPlan
    BY <1>1 DEF Typed
  <2>2. QED BY <1>1, <1>8, <2>1, StartTypes, NoReceiveType DEF RetryStarts, Typed, lowVars
<1>9. ASSUME NEW a \in Loads, ChildLoads(a) PROVE Typed'
  <2>1. att[a].plan \in Plans
    BY <1>1, <1>9 DEF ChildLoads, CarriedInv, Made
  <2>2. loaded' \in Lists
    BY <1>1, <1>9, <2>1, LatestAppended DEF ChildLoads, Typed
  <2>3. att' \in [Loads -> [plan : 0..MaxPlan, phase : Phases]]
    BY <1>1, <1>9 DEF ChildLoads, Typed, Phases
  <2>4. dest' \subseteq Blobs
    BY <1>1, <1>9, <2>1 DEF ChildLoads, Typed, Transfers
  <2>5. QED BY <1>1, <1>9, <2>2, <2>3, <2>4 DEF ChildLoads, Typed, lowVars
<1>10. ASSUME NEW a \in Loads, NEW some, ChildBreaks(a, some) PROVE Typed'
  <2>1. att[a].plan \in Plans
    BY <1>1, <1>10 DEF ChildBreaks, CarriedInv, Made
  <2>2. att' \in [Loads -> [plan : 0..MaxPlan, phase : Phases]]
    BY <1>1, <1>10 DEF ChildBreaks, Typed, Phases
  <2>3. dest' \subseteq Blobs
    BY <1>1, <1>10, <2>1 DEF ChildBreaks, Typed, Transfers
  <2>4. QED BY <1>1, <1>10, <2>2, <2>3 DEF ChildBreaks, Typed, lowVars
<1>11. ASSUME NEW a \in Loads, Close(a) PROVE Typed'
  <2>1. att[a].plan \in Plans
    BY <1>1, <1>11 DEF Close, CarriedInv, Made
  <2>2. applied' \in Lists
    <3>1. Record(att[a].plan) \in Lists
      BY <1>1, <2>1, LatestAppended DEF Record, Typed
    <3>2. applied' = Record(att[a].plan) \/ applied' = applied
      BY <1>11 DEF Close
    <3>3. QED BY <1>1, <3>1, <3>2 DEF Typed
  <2>3. att' \in [Loads -> [plan : 0..MaxPlan, phase : Phases]]
    BY <1>1, <1>11 DEF Close, Typed, Phases
  <2>4. QED BY <1>1, <1>11, <2>2, <2>3 DEF Close, Typed, lowVars
<1>12. ASSUME NEW a \in Loads, Stop(a) PROVE Typed'
  BY <1>1, <1>12 DEF Stop, Typed, lowVars
<1>13. CASE RetryRefused
  BY <1>1, <1>13, NoReceiveType DEF RetryRefused, Typed, lowVars
<1>14. CASE Restart
  <2>1. att' \in [Loads -> [plan : 0..MaxPlan, phase : Phases]]
    BY <1>1, <1>14 DEF Restart, Typed, Phases
  <2>2. QED BY <1>1, <1>14, <2>1, NoReceiveType DEF Restart, Typed, lowVars
<1>15. QED
  BY <1>1, <1>2, <1>3, <1>4, <1>5, <1>6, <1>7, <1>8, <1>9, <1>10, <1>11, <1>12, <1>13, <1>14 DEF Next

-----------------------------------------------------------------------------
(* The connected side *)

\* A run adds the transfer of the next plan and its history; a transfer that was made
\* stays as it is.
LEMMA MadeStays ==
    ASSUME Typed, CycleInv, NEW b, NEW archived, NEW how, NEW logged,
           LowRun(b, archived, how, logged)
    PROVE  /\ planned + 1 \in Plans /\ planned' = planned + 1 /\ ~Made(planned + 1)
           /\ \A p \in Plans : p # planned + 1 => made'[p] = made[p]
           /\ \A p \in Plans : p # planned + 1 => (p \in misnamed' <=> p \in misnamed)
           /\ \A p \in Plans : Made(p) => made'[p] = made[p] /\ (p \in misnamed' <=> p \in misnamed)
<1>1. planned + 1 \in Plans /\ planned \in Nat
  BY BoundAssumption DEF LowRun, Typed, Plans
<1>2. \A p \in Plans : p # planned + 1 => made'[p] = made[p] /\ (p \in misnamed' <=> p \in misnamed)
  BY <1>1 DEF LowRun, Typed
<1>3. ~Made(planned + 1)
  BY <1>1 DEF CycleInv
<1>4. QED BY <1>1, <1>2, <1>3 DEF LowRun

\* The plan a transfer names as its predecessor is older; if it wrote the baseline and has
\* a cycle, it produced it.
LEMMA PreviousProduced ==
    ASSUME Typed, CycleInv, NEW b \in 0..Len(histories), NEW q \in Previous(b), q # 0
    PROVE  /\ b # 0 /\ q \in Plans /\ q <= planned
           /\ Known(q) /\ q \in Writers(b) => made[q].produced = BaseOf(b)
<1>1. b # 0 /\ b \in DOMAIN histories /\ BaseOf(b) = histories[b].blobs
  BY LenProperties DEF Previous, BaseOf, Typed
<1>2. q \in Plans /\ q <= planned
  BY <1>1 DEF Previous, CycleInv, Made
<1>3. CASE q \in SameHash(b)
  BY <1>1, <1>2, <1>3 DEF SameHash
<1>4. CASE q = histories[b].by
  BY <1>1, <1>2, <1>4 DEF CycleInv
<1>5. QED BY <1>1, <1>2, <1>3, <1>4 DEF Writers

LEMMA LowRunCycles ==
    ASSUME Typed, CycleInv, NEW b \in 0..Len(histories), NEW archived,
           NEW how \in {"clean", "warned", "failed"}, NEW logged \in BOOLEAN,
           LowRun(b, archived, how, logged)
    PROVE  CycleInv'
<1> DEFINE n == planned + 1
<1>0. planned \in Nat /\ n \in Plans /\ planned' = n /\ ~Made(n)
      /\ \A p \in Plans : p # n => made'[p] = made[p] /\ (p \in misnamed' <=> p \in misnamed)
  BY MadeStays DEF Typed
<1>1. PICK q \in Previous(b) :
       /\ made' = [made EXCEPT ![n] =
              CASE how = "clean"  -> [kind |-> IF b = 0 THEN "full" ELSE "delta",
                                      base |-> BaseOf(b), produced |-> BaseOf(b) \cup archived,
                                      previous |-> q, blobs |-> archived]
                [] how = "warned" -> [NoTransfer EXCEPT !.kind = "unknown", !.blobs = archived]
                [] OTHER          -> NoTransfer]
       /\ how = "clean" /\ q # 0 /\ q \notin Writers(b) => n \in misnamed'
  BY DEF LowRun
<1>2. how = "clean" => made'[n] = [kind |-> IF b = 0 THEN "full" ELSE "delta",
                                   base |-> BaseOf(b), produced |-> BaseOf(b) \cup archived,
                                   previous |-> q, blobs |-> archived]
  BY <1>0, <1>1 DEF Typed
<1>3. how # "clean" => ~(made'[n].kind \in {"full", "delta"})
  BY <1>0, <1>1 DEF Typed, NoTransfer
<1> HIDE DEF n
<1>4. \A p \in Plans : Made(p)' => p <= planned'
  BY <1>0, BoundAssumption DEF CycleInv, Made, n, Plans
<1>5. \A i \in DOMAIN histories : histories[i].by \in Plans /\ histories[i].by <= planned
  BY HistoriesAre DEF CycleInv
<1>6. \A p \in Plans : p <= planned => p # n /\ p <= planned' /\ made'[p] = made[p]
  BY <1>0 DEF n, Plans
<1>7. \A i \in DOMAIN histories' :
        /\ histories'[i].by <= planned'
        /\ Known(histories[i].by)' => made'[histories'[i].by].produced = histories'[i].blobs
  <2>1. CASE histories' = histories
    BY <2>1, <1>5, <1>6 DEF CycleInv, Known
  <2>2. CASE logged
    <3> DEFINE h == [blobs |-> BaseOf(b) \cup archived, by |-> n]
    <3>1. histories \in Seq(History) /\ histories' = Append(histories, h)
      BY <2>2 DEF LowRun, Typed, n
    <3>2. h.by = n /\ h.blobs = BaseOf(b) \cup archived
      OBVIOUS
    <3> HIDE DEF h
    <3>3. SUFFICES ASSUME NEW i \in DOMAIN histories'
                   PROVE  /\ histories'[i].by <= planned'
                          /\ Known(histories[i].by)' => made'[histories'[i].by].produced = histories'[i].blobs
      OBVIOUS
    <3>4. (i \in DOMAIN histories /\ histories'[i] = histories[i]) \/ histories'[i] = h
      <4>1. Len(histories) \in Nat /\ DOMAIN histories = 1..Len(histories)
        BY <3>1, LenProperties
      <4>2. QED BY <3>1, <3>3, <4>1
    <3>5. CASE i \in DOMAIN histories /\ histories'[i] = histories[i]
      BY <3>5, <1>5, <1>6 DEF CycleInv, Known
    <3>6. CASE histories'[i] = h
      BY <3>6, <3>2, <1>0, <1>2, <1>3 DEF Known, n
    <3>7. QED BY <3>4, <3>5, <3>6
  <2>3. QED BY <2>1, <2>2 DEF LowRun
<1>8. \A p \in Plans : Known(p)' =>
        /\ made'[p].produced = made'[p].base \cup made'[p].blobs
        /\ made'[p].kind = "full" => made'[p].base = {}
        /\ made'[p].previous < p
        /\ p \notin misnamed' /\ made'[p].previous # 0 /\ Known(made[p].previous)' =>
             made'[made'[p].previous].produced = made'[p].base
  <2>1. SUFFICES ASSUME NEW p \in Plans, Known(p)'
                 PROVE  /\ made'[p].produced = made'[p].base \cup made'[p].blobs
                        /\ made'[p].kind = "full" => made'[p].base = {}
                        /\ made'[p].previous < p
                        /\ p \notin misnamed' /\ made'[p].previous # 0 /\ Known(made[p].previous)' =>
                             made'[made'[p].previous].produced = made'[p].base
    OBVIOUS
  <2>2. CASE p = n
    <3>1. how = "clean"
      BY <2>1, <2>2, <1>3 DEF Known
    <3>2. b = 0 => BaseOf(b) = {}
      BY DEF BaseOf
    <3>3. q # 0 => /\ q \in Plans /\ q <= planned
                   /\ Known(q) /\ q \in Writers(b) => made[q].produced = BaseOf(b)
      BY PreviousProduced
    <3>4. n \notin misnamed' /\ q # 0 /\ Known(q)' => made'[q].produced = BaseOf(b)
      BY <3>1, <3>3, <1>1, <1>6 DEF Known
    <3>5. q < n
      BY <3>3, <1>0 DEF Previous, n, Plans
    <3>6. QED BY <3>1, <3>2, <3>4, <3>5, <2>2, <1>2
  <2>3. CASE p # n
    <3>1. made'[p] = made[p] /\ Known(p)
      BY <2>1, <2>3, <1>0 DEF Known
    <3>2. p <= planned /\ p \in Nat /\ made[p].previous \in {0} \cup Plans
      BY <3>1, BoundAssumption DEF CycleInv, Typed, Transfers, Known, Made, Plans
    <3>3. made[p].previous < p
      BY <3>1 DEF CycleInv
    <3>4. made[p].previous # 0 => made[p].previous \in Plans /\ made[p].previous <= planned
      BY <3>2, <3>3, <1>0, BoundAssumption DEF Plans
    <3>5. p \in misnamed' <=> p \in misnamed
      BY <2>3, <1>0
    <3>6. made[p].previous # 0 => (Known(made[p].previous)' <=> Known(made[p].previous))
                                  /\ made'[made[p].previous] = made[made[p].previous]
      BY <3>1, <3>4, <1>6 DEF Known
    <3>7. QED BY <3>1, <3>3, <3>4, <3>5, <3>6 DEF CycleInv
  <2>4. QED BY <2>2, <2>3
<1>9. QED BY <1>4, <1>7, <1>8 DEF CycleInv

-----------------------------------------------------------------------------
(* What is carried over *)

LEMMA CarriedStep == Typed /\ CycleInv /\ CarriedInv /\ [Next]_vars => CarriedInv'
<1>1. SUFFICES ASSUME Typed, CycleInv, CarriedInv, [Next]_vars PROVE CarriedInv'
  OBVIOUS
<1>2. CASE UNCHANGED vars
  BY <1>1, <1>2 DEF CarriedInv, Made, vars
<1>3. ASSUME NEW b \in 0..Len(histories), NEW archived,
             NEW how \in {"clean", "warned", "failed"}, NEW logged \in BOOLEAN,
             LowRun(b, archived, how, logged)
      PROVE  CarriedInv'
  <2>1. \A p : Made(p) => Made(p)'
    BY <1>1, <1>3, MadeStays DEF Made
  <2>2. UNCHANGED <<received, loaded, receiving, retrying, att>>
    BY <1>3 DEF LowRun, highVars
  <2>3. QED BY <1>1, <2>1, <2>2 DEF CarriedInv
<1>4. ASSUME NEW p \in Plans, ReceiveReads(p) PROVE CarriedInv'
  BY <1>1, <1>4 DEF ReceiveReads, CarriedInv, Made, lowVars
<1>5. ASSUME NEW p \in Plans, NEW a \in Loads, Load(a, p) PROVE CarriedInv'
  BY <1>1, <1>5 DEF Load, Start, CarriedInv, Made, Typed, lowVars
<1>6. ASSUME ReceiveWrites PROVE CarriedInv'
  BY <1>1, <1>6 DEF ReceiveWrites, CarriedInv, Made, lowVars
<1>7. ASSUME NEW a \in Loads, RetryReads(a) PROVE CarriedInv'
  BY <1>1, <1>7 DEF RetryReads, CarriedInv, Made, lowVars
<1>8. ASSUME NEW a \in Loads, RetryStarts(a) PROVE CarriedInv'
  BY <1>1, <1>8 DEF RetryStarts, Start, CarriedInv, Made, Typed, lowVars
<1>9. ASSUME NEW a \in Loads, ChildLoads(a) PROVE CarriedInv'
  <2>1. Made(att[a].plan)
    BY <1>1, <1>9 DEF ChildLoads, CarriedInv
  <2>2. Range(loaded') = Range(loaded) \cup {att[a].plan}
    BY <1>1, <1>9, <2>1, LatestAppended DEF ChildLoads, Typed, Made
  <2>3. \A k \in Loads : att'[k].plan = att[k].plan /\ (att'[k].phase # "none" => att[k].phase # "none")
    BY <1>1, <1>9 DEF ChildLoads, Typed
  <2>4. UNCHANGED <<made, received, receiving, retrying>>
    BY <1>9 DEF ChildLoads, lowVars
  <2>5. QED BY <1>1, <2>1, <2>2, <2>3, <2>4 DEF CarriedInv, Made
<1>10. ASSUME NEW a \in Loads, NEW some, ChildBreaks(a, some) PROVE CarriedInv'
  BY <1>1, <1>10 DEF ChildBreaks, CarriedInv, Made, Typed, lowVars
<1>11. ASSUME NEW a \in Loads, Close(a) PROVE CarriedInv'
  <2>1. \A k \in Loads : att'[k].plan = att[k].plan /\ (att'[k].phase # "none" => att[k].phase # "none")
    BY <1>1, <1>11 DEF Close, Typed
  <2>2. UNCHANGED <<made, received, receiving, retrying, loaded>>
    BY <1>11 DEF Close, lowVars
  <2>3. QED BY <1>1, <2>1, <2>2 DEF CarriedInv, Made
<1>12. ASSUME NEW a \in Loads, Stop(a) PROVE CarriedInv'
  BY <1>1, <1>12 DEF Stop, CarriedInv, Made, lowVars
<1>13. CASE RetryRefused
  BY <1>1, <1>13 DEF RetryRefused, CarriedInv, Made, lowVars
<1>14. CASE Restart
  <2>1. \A k \in Loads : att'[k].plan = att[k].plan /\ (att'[k].phase # "none" => att[k].phase # "none")
    BY <1>1, <1>14 DEF Restart, Typed, Unclosed
  <2>2. UNCHANGED <<made, received, loaded>> /\ receiving' = NoReceive /\ retrying' = NoReceive
    BY <1>14 DEF Restart, lowVars
  <2>3. QED BY <1>1, <2>1, <2>2 DEF CarriedInv, Made
<1>15. QED
  BY <1>1, <1>2, <1>3, <1>4, <1>5, <1>6, <1>7, <1>8, <1>9, <1>10, <1>11, <1>12, <1>13, <1>14 DEF Next

-----------------------------------------------------------------------------
(* The order and the content of what is loaded *)

\* The guard looks at the transfer and at what is in the list, and at nothing else.
LEMMA GuardLooksAt ==
    ASSUME NEW a \in Loads, Allowed(att[a].plan, loaded),
           att'[a].plan = att[a].plan, loaded' = loaded,
           \A x \in Range(loaded) \cup {att[a].plan} :
             made'[x] = made[x] /\ (x \in misnamed' <=> x \in misnamed)
    PROVE  /\ Allowed(att[a].plan, loaded)'
           /\ OnWrongName(att[a].plan, loaded)' = OnWrongName(att[a].plan, loaded)
<1>1. Known(att[a].plan)' = Known(att[a].plan)
  BY DEF Known
<1>2. /\ ByHash(att[a].plan, loaded)' = ByHash(att[a].plan, loaded)
      /\ Chained(att[a].plan, loaded)' = Chained(att[a].plan, loaded)
  BY DEF ByHash, Chained, Known
<1>3. Decision(att[a].plan, loaded)' = Decision(att[a].plan, loaded)
  BY <1>1, <1>2 DEF Decision
<1>4. QED BY <1>2, <1>3 DEF Allowed, OnWrongName

\* A step that starts and loads nothing keeps both, whatever it pushes or closes.
LEMMA QuietStep ==
    ASSUME OrderInv, ContentInv,
           UNCHANGED <<loaded, stale, unordered>>, dest \subseteq dest',
           \A x : Made(x) => made'[x] = made[x] /\ (x \in misnamed' <=> x \in misnamed), CarriedInv,
           \A k \in Loads : /\ Unclosed(k)' => Unclosed(k)
                            /\ att'[k].phase = "running" => att[k].phase = "running"
                            /\ att'[k].plan = att[k].plan
    PROVE  OrderInv' /\ ContentInv'
<1>1. /\ \A k \in Range(loaded) : made'[k] = made[k] /\ (k \in misnamed' <=> k \in misnamed)
      /\ \A k \in Loads : att'[k].phase = "running" =>
           /\ made'[att[k].plan] = made[att[k].plan]
           /\ att[k].plan \in misnamed' <=> att[k].plan \in misnamed
  BY DEF CarriedInv
<1>2. OrderInv'
  <2>1. SUFFICES ASSUME ~stale' PROVE OrderInv'
    BY DEF OrderInv
  <2>2. \A k \in Loads : att'[k].phase = "running" => Allowed(att[k].plan, loaded)'
    BY <2>1, <1>1, GuardLooksAt DEF OrderInv
  <2>3. QED BY <2>1, <2>2 DEF OrderInv
<1>3. ContentInv'
  <2>1. SUFFICES ASSUME ~stale', ~unordered' PROVE ContentInv'
    BY DEF ContentInv
  <2>2. \A k \in Loads : att'[k].phase = "running" =>
          Known(att[k].plan)' /\ ~OnWrongName(att[k].plan, loaded)'
    BY <2>1, <1>1, GuardLooksAt DEF OrderInv, ContentInv, Known
  <2>3. \A x \in Range(loaded) : Known(x)' /\ made'[x].produced \subseteq dest'
    BY <2>1, <1>1 DEF ContentInv, Known
  <2>4. QED BY <2>1, <2>2, <2>3 DEF ContentInv, OnWrongName, Decision, Known, ByHash, Chained
<1>4. QED BY <1>2, <1>3

\* A load that was decided on a true record is allowed on what is loaded, and alone.
LEMMA StartStep ==
    ASSUME IInv, NEW a \in Loads, NEW p, NEW list, Start(a, p, list),
           UNCHANGED <<loaded, dest, made, misnamed>>
    PROVE  OrderInv' /\ ContentInv'
<1>1. /\ att'[a] = [plan |-> p, phase |-> "running"]
      /\ \A k \in Loads : k # a => att'[k] = att[k]
  BY DEF Start, IInv, Typed
<1>2. ~stale' => ~stale /\ list = loaded /\ \A k \in Loads : ~Unclosed(k)
  BY DEF Start
<1>3. \A k \in Loads : k # a => Unclosed(k)' = Unclosed(k)
  BY <1>1 DEF Unclosed
<1>4. ~stale' => \A k \in Loads : att'[k].phase = "running" => k = a
  BY <1>1, <1>2 DEF Unclosed
<1>5. ~stale' => Allowed(att[a].plan, loaded)'
  <2>1. SUFFICES ASSUME ~stale' PROVE Allowed(att[a].plan, loaded)'
    OBVIOUS
  <2>2. Allowed(p, loaded) /\ att'[a].plan = p
    BY <2>1, <1>1, <1>2 DEF Start
  <2>3. QED BY <2>2 DEF Allowed, Decision, Known, ByHash, Chained
<1>6. OrderInv'
  <2>1. ~stale' => \A k, l \in Loads : Unclosed(k)' /\ Unclosed(l)' => k = l
    BY <1>2, <1>3
  <2>2. ~stale' => \A i, j \in DOMAIN loaded' : i < j => loaded'[i] < loaded'[j]
    BY <1>2 DEF IInv, OrderInv
  <2>3. QED BY <1>4, <1>5, <2>1, <2>2 DEF OrderInv
<1>7. ContentInv'
  <2>1. SUFFICES ASSUME ~stale', ~unordered' PROVE ContentInv'
    BY DEF ContentInv
  <2>2. Known(p) /\ ~OnWrongName(p, loaded) /\ ~stale /\ ~unordered
    BY <2>1, <1>2 DEF Start
  <2>3. Known(att[a].plan)' /\ ~OnWrongName(att[a].plan, loaded)'
    BY <2>2, <1>1 DEF OnWrongName, Decision, Known, ByHash, Chained
  <2>4. QED BY <2>1, <2>2, <2>3, <1>1, <1>4 DEF IInv, ContentInv, Known
<1>8. QED BY <1>6, <1>7

\* What the guard lets through brings all its plan asks for, or finds it in the registry.
LEMMA LoadedIsComplete ==
    ASSUME IInv, ~stale, ~unordered, NEW a \in Loads, att[a].phase = "running",
           NEW p, p = att[a].plan
    PROVE  made[p].produced \subseteq dest \cup made[p].blobs
<1>1. /\ p \in Plans /\ Known(p) /\ Allowed(p, loaded) /\ ~OnWrongName(p, loaded)
      /\ \A x \in Range(loaded) : x \in Plans /\ Known(x) /\ made[x].produced \subseteq dest
  BY DEF IInv, OrderInv, ContentInv, CarriedInv, Made
<1>2. /\ made[p].produced = made[p].base \cup made[p].blobs
      /\ made[p].kind = "full" => made[p].base = {}
      /\ p \notin misnamed /\ made[p].previous # 0 /\ Known(made[p].previous) =>
           made[made[p].previous].produced = made[p].base
  BY <1>1 DEF IInv, CycleInv
<1>3. CASE loaded # <<>> /\ Last(loaded) = p
  <2>1. loaded \in Seq(Plans)
    BY DEF IInv, Typed, Lists
  <2>2. Len(loaded) \in DOMAIN loaded
    BY <2>1, <1>3, LenProperties, EmptySeq
  <2>3. p \in Range(loaded)
    BY <2>2, <1>3 DEF Last, Range
  <2>4. QED BY <2>3, <1>1
<1>4. CASE made[p].kind = "full"
  BY <1>2, <1>4
<1>5. CASE ByHash(p, loaded)
  <2>1. PICK x \in Range(loaded) : made[x].produced = made[p].base
    BY <1>5 DEF ByHash
  <2>2. QED BY <1>1, <1>2, <2>1
<1>6. CASE Decision(p, loaded) = "next" /\ ~ByHash(p, loaded) /\ Chained(p, loaded)
  <2>1. p \notin misnamed
    BY <1>1, <1>6 DEF OnWrongName
  <2>2. made[p].previous \in Range(loaded) /\ 0 \notin Plans
    BY <1>6 DEF Chained, Plans
  <2>3. made[made[p].previous].produced = made[p].base
    BY <1>1, <1>2, <2>1, <2>2
  <2>4. QED BY <1>1, <1>2, <2>2, <2>3
<1>7. Decision(p, loaded) = "next" => Chained(p, loaded)
  BY DEF Decision
<1>8. (loaded # <<>> /\ Last(loaded) = p) \/ made[p].kind = "full" \/ Decision(p, loaded) = "next"
  BY <1>1 DEF Allowed, Decision
<1>9. QED BY <1>3, <1>4, <1>5, <1>6, <1>7, <1>8

LEMMA ChildLoadsStep ==
    ASSUME IInv, NEW a \in Loads, ChildLoads(a)
    PROVE  OrderInv' /\ ContentInv'
<1> DEFINE p == att[a].plan
<1>1. p \in Plans /\ loaded \in Lists /\ att[a].phase = "running"
  BY DEF ChildLoads, IInv, CarriedInv, Made, Typed
<1>2. /\ loaded' = Append(Without(loaded, p), p)
      /\ dest' = dest \cup made[p].blobs
      /\ UNCHANGED <<made, misnamed, stale, unordered>>
  BY DEF ChildLoads, lowVars
<1>3. /\ att'[a].phase = "ended"
      /\ \A k \in Loads : k # a => att'[k] = att[k]
  BY DEF ChildLoads, IInv, Typed
<1>4. \A k \in Loads : Unclosed(k)' = Unclosed(k)
  BY <1>1, <1>3 DEF Unclosed
<1>5. ~stale => \A k \in Loads : att'[k].phase # "running"
  BY <1>1, <1>3 DEF IInv, OrderInv, Unclosed
<1>6. OrderInv'
  <2>1. ~stale => \A i, j \in DOMAIN loaded' : i < j => loaded'[i] < loaded'[j]
    <3>1. SUFFICES ASSUME ~stale PROVE \A i, j \in DOMAIN loaded' : i < j => loaded'[i] < loaded'[j]
      OBVIOUS
    <3>2. Allowed(p, loaded) /\ \A i, j \in DOMAIN loaded : i < j => loaded[i] < loaded[j]
      BY <3>1, <1>1 DEF IInv, OrderInv
    <3>. HIDE DEF p
    <3>3. QED BY <3>2, <1>1, <1>2, AllowedKeepsOrder
  <2>2. QED BY <2>1, <1>2, <1>4, <1>5 DEF IInv, OrderInv
<1>7. ContentInv'
  <2>1. SUFFICES ASSUME ~stale, ~unordered PROVE ContentInv'
    BY <1>2 DEF ContentInv
  <2>2. Range(loaded') = Range(loaded) \cup {p}
    BY <1>1, <1>2, LatestAppended
  <2>3. Known(p) /\ made[p].produced \subseteq dest'
    BY <2>1, <1>1, <1>2, LoadedIsComplete DEF IInv, ContentInv
  <2>4. \A x \in Range(loaded) : Known(x) /\ made[x].produced \subseteq dest'
    BY <2>1, <1>2 DEF IInv, ContentInv
  <2>5. \A x \in Range(loaded') : Known(x)' /\ made'[x].produced \subseteq dest'
    BY <2>2, <2>3, <2>4, <1>2 DEF Known
  <2>6. QED BY <2>1, <2>5, <1>5 DEF ContentInv
<1>8. QED BY <1>6, <1>7

LEMMA LoadedStep == IInv /\ [Next]_vars => OrderInv' /\ ContentInv'
<1>1. SUFFICES ASSUME IInv, [Next]_vars PROVE OrderInv' /\ ContentInv'
  OBVIOUS
<1>0. Typed /\ CycleInv /\ CarriedInv /\ OrderInv /\ ContentInv
  BY <1>1 DEF IInv
<1>2. CASE UNCHANGED vars
  BY <1>0, <1>2, QuietStep DEF vars, Unclosed
<1>3. ASSUME NEW b \in 0..Len(histories), NEW archived,
             NEW how \in {"clean", "warned", "failed"}, NEW logged \in BOOLEAN,
             LowRun(b, archived, how, logged)
      PROVE  OrderInv' /\ ContentInv'
  <2>1. \A x : Made(x) => made'[x] = made[x] /\ (x \in misnamed' <=> x \in misnamed)
    BY <1>0, <1>3, MadeStays DEF Made
  <2>2. UNCHANGED <<loaded, stale, unordered, dest, att>>
    BY <1>3 DEF LowRun, highVars
  <2>3. QED BY <1>0, <2>1, <2>2, QuietStep DEF Unclosed
<1>4. ASSUME NEW p \in Plans, ReceiveReads(p) PROVE OrderInv' /\ ContentInv'
  BY <1>0, <1>4, QuietStep DEF ReceiveReads, lowVars, Unclosed
<1>5. ASSUME NEW p \in Plans, NEW a \in Loads, Load(a, p) PROVE OrderInv' /\ ContentInv'
  BY <1>1, <1>5, StartStep DEF Load, lowVars
<1>6. ASSUME ReceiveWrites PROVE OrderInv' /\ ContentInv'
  BY <1>0, <1>6, QuietStep DEF ReceiveWrites, lowVars, Unclosed
<1>7. ASSUME NEW a \in Loads, RetryReads(a) PROVE OrderInv' /\ ContentInv'
  BY <1>0, <1>7, QuietStep DEF RetryReads, lowVars, Unclosed
<1>8. ASSUME NEW a \in Loads, RetryStarts(a) PROVE OrderInv' /\ ContentInv'
  BY <1>1, <1>8, StartStep DEF RetryStarts, lowVars
<1>9. ASSUME NEW a \in Loads, ChildLoads(a) PROVE OrderInv' /\ ContentInv'
  BY <1>1, <1>9, ChildLoadsStep
<1>10. ASSUME NEW a \in Loads, NEW some, ChildBreaks(a, some) PROVE OrderInv' /\ ContentInv'
  <2>1. \A k \in Loads : /\ Unclosed(k)' => Unclosed(k)
                         /\ att'[k].phase = "running" => att[k].phase = "running"
                         /\ att'[k].plan = att[k].plan
    BY <1>0, <1>10 DEF ChildBreaks, Typed, Unclosed
  <2>2. QED BY <1>0, <1>10, <2>1, QuietStep DEF ChildBreaks, lowVars
<1>11. ASSUME NEW a \in Loads, Close(a) PROVE OrderInv' /\ ContentInv'
  <2>1. \A k \in Loads : /\ Unclosed(k)' => Unclosed(k)
                         /\ att'[k].phase = "running" => att[k].phase = "running"
                         /\ att'[k].plan = att[k].plan
    BY <1>0, <1>11 DEF Close, Typed, Unclosed
  <2>2. QED BY <1>0, <1>11, <2>1, QuietStep DEF Close, lowVars
<1>12. ASSUME NEW a \in Loads, Stop(a) PROVE OrderInv' /\ ContentInv'
  BY <1>0, <1>12, QuietStep DEF Stop, lowVars, Unclosed
<1>13. CASE RetryRefused
  BY <1>0, <1>13, QuietStep DEF RetryRefused, lowVars, Unclosed
<1>14. CASE Restart
  <2>1. \A k \in Loads : /\ Unclosed(k)' => Unclosed(k)
                         /\ att'[k].phase = "running" => att[k].phase = "running"
                         /\ att'[k].plan = att[k].plan
    BY <1>0, <1>14 DEF Restart, Typed, Unclosed
  <2>2. QED BY <1>0, <1>14, <2>1, QuietStep DEF Restart, lowVars
<1>15. QED
  BY <1>1, <1>2, <1>3, <1>4, <1>5, <1>6, <1>7, <1>8, <1>9, <1>10, <1>11, <1>12, <1>13, <1>14 DEF Next

-----------------------------------------------------------------------------
(* The theorems *)

LEMMA CyclesStep == Typed /\ CycleInv /\ [Next]_vars => CycleInv'
<1>1. SUFFICES ASSUME Typed, CycleInv, [Next]_vars PROVE CycleInv'
  OBVIOUS
<1>2. CASE UNCHANGED lowVars
  BY <1>1, <1>2 DEF lowVars, CycleInv, Made, Known
<1>3. ASSUME NEW b \in 0..Len(histories), NEW archived,
             NEW how \in {"clean", "warned", "failed"}, NEW logged \in BOOLEAN,
             LowRun(b, archived, how, logged)
      PROVE  CycleInv'
  BY <1>1, <1>3, LowRunCycles
<1>4. QED
  BY <1>1, <1>2, <1>3 DEF Next, vars, lowVars, ReceiveReads, ReceiveWrites, Load, RetryReads, RetryStarts,
     RetryRefused, ChildLoads, ChildBreaks, Close, Stop, Restart

LEMMA InvInit == Init => IInv
<1>1. SUFFICES ASSUME Init PROVE IInv
  OBVIOUS
<1>2. Typed
  <2>1. NoTransfer \in Transfers
    BY DEF NoTransfer, Transfers, Kinds
  <2>2. att \in [Loads -> [plan : 0..MaxPlan, phase : Phases]]
    BY <1>1, BoundAssumption DEF Init, Phases
  <2>3. histories \in Seq(History) /\ made \in [Plans -> Transfers] /\ planned \in 0..MaxPlan
    BY <1>1, <2>1, BoundAssumption DEF Init
  <2>4. applied \in Lists /\ loaded \in Lists
    BY <1>1, NoListIsAList DEF Init
  <2>5. QED BY <1>1, <2>2, <2>3, <2>4, NoReceiveType DEF Init, Typed
<1>3. CycleInv
  BY <1>1, <1>2 DEF Init, CycleInv, Made, Known, NoTransfer, Typed
<1>4. CarriedInv
  BY <1>1, NoListIsAList DEF Init, CarriedInv
<1>5. OrderInv /\ ContentInv
  BY <1>1, NoListIsAList DEF Init, OrderInv, ContentInv, Unclosed
<1>6. QED BY <1>2, <1>3, <1>4, <1>5 DEF IInv

LEMMA InvAlways == Spec => []IInv
<1>1. IInv /\ [Next]_vars => IInv'
  BY TypesStep, CyclesStep, CarriedStep, LoadedStep DEF IInv
<1>. QED BY <1>1, InvInit, PTL DEF Spec

\* Histories, transfers, profile, attempts and the registry keep their types, and no
\* list of applied plans holds one twice, for any number of plans and attempts.
THEOREM TransferTypes == Spec => []TypeOK
<1>1. IInv => TypeOK
  BY TypedIsTypeOK DEF IInv
<1>. QED BY <1>1, InvAlways, PTL

\* No transfer is loaded after a newer one, as long as every load was decided on a
\* record that held what was loaded by then.
THEOREM NothingRolledBack == Spec => []NoRollback
<1>1. IInv => NoRollback
  BY DEF IInv, OrderInv, NoRollback
<1>. QED BY <1>1, InvAlways, PTL

\* What is loaded is complete, also after runs that failed, were killed or started from
\* an older history, as long as the record was true, every transfer had a cycle and none
\* was let through only by the name of a run that did not write its baseline.
THEOREM NothingSilentlyLost == Spec => []NoSilentLoss
<1>1. IInv => NoSilentLoss
  BY DEF IInv, ContentInv, NoSilentLoss
<1>. QED BY <1>1, InvAlways, PTL

-----------------------------------------------------------------------------
(* What keeps the record true *)

\* A load or a retry starts only when no child of an earlier attempt is left.
AwaitsChildren ==
    \A a \in Loads : att[a].phase = "none" /\ att'[a].phase = "running" => \A k \in Loads : ~Unclosed(k)

\* The record does not change between the read and the write of a receive, nor between
\* the read and the start of a retry.
NoLostUpdate == applied' # applied => receiving = NoReceive /\ retrying = NoReceive

\* A load that exited 0 is recorded, so no restart comes between its end and its close.
LoadsAreRecorded ==
    \A a \in Loads : att[a].phase = "ended" /\ att'[a].phase # "ended" => applied' = Record(att[a].plan)

Calm == AwaitsChildren /\ NoLostUpdate /\ LoadsAreRecorded

\* The record is what is loaded, but for a load that has ended and not closed; a receive
\* or a retry that has read it would read the same again.
RecordInv ==
    /\ ~stale
    /\ receiving # NoReceive => receiving.applied = applied
    /\ retrying # NoReceive => retrying.applied = applied
    /\ (\A a \in Loads : att[a].phase # "ended") => applied = loaded
    /\ \A a \in Loads : att[a].phase = "ended" => loaded = Record(att[a].plan)

\* A step that loads nothing, starts nothing and closes nothing that was loaded.
LEMMA RecordStays ==
    ASSUME RecordInv, NoLostUpdate, UNCHANGED <<loaded, stale>>,
           receiving' # NoReceive => receiving' = receiving \/ receiving'.applied = applied,
           retrying' # NoReceive => retrying' = retrying \/ retrying'.applied = applied,
           applied' # applied => receiving.applied = applied' /\ receiving # NoReceive,
           \A a \in Loads : /\ att'[a].phase = "ended" <=> att[a].phase = "ended"
                            /\ att[a].phase = "ended" => att'[a].plan = att[a].plan
    PROVE  RecordInv'
<1>1. applied' = applied
  BY DEF RecordInv, NoLostUpdate
<1>. QED BY <1>1 DEF RecordInv, Record

LEMMA RecordStart ==
    ASSUME IInv, RecordInv, NEW a \in Loads, NEW p, NEW list, Start(a, p, list), list = applied,
           AwaitsChildren, UNCHANGED <<loaded, applied, receiving>>, retrying' \in {retrying, NoReceive}
    PROVE  RecordInv'
<1>1. /\ att[a].phase = "none" /\ att'[a] = [plan |-> p, phase |-> "running"]
      /\ \A k \in Loads : k # a => att'[k] = att[k]
  BY DEF Start, IInv, Typed
<1>2. \A k \in Loads : ~Unclosed(k)
  BY <1>1 DEF AwaitsChildren
<1>3. applied = loaded
  BY <1>2 DEF RecordInv, Unclosed
<1>4. ~stale'
  BY <1>2, <1>3 DEF Start, RecordInv
<1>5. \A k \in Loads : att'[k].phase # "ended"
  BY <1>1, <1>2 DEF Unclosed
<1>. QED BY <1>3, <1>4, <1>5 DEF RecordInv

LEMMA RecordStep == IInv /\ RecordInv /\ [Next]_vars /\ [Calm]_vars => RecordInv'
<1> SUFFICES ASSUME IInv, RecordInv, [Next]_vars, [Calm]_vars PROVE RecordInv'
  OBVIOUS
<1>0. /\ att \in [Loads -> [plan : 0..MaxPlan, phase : Phases]]
      /\ \A a, b \in Loads : Unclosed(a) /\ Unclosed(b) => a = b
  BY DEF IInv, Typed, OrderInv, RecordInv
<1>1. CASE UNCHANGED vars
  BY <1>1 DEF vars, RecordInv, Record
<1>2. CASE ~UNCHANGED vars
  <2>0. AwaitsChildren /\ NoLostUpdate /\ LoadsAreRecorded
    BY <1>2 DEF Calm
  <2>1. ASSUME NEW b \in 0..Len(histories), NEW archived,
               NEW how \in {"clean", "warned", "failed"}, NEW logged \in BOOLEAN,
               LowRun(b, archived, how, logged)
        PROVE  RecordInv'
    BY <2>1 DEF LowRun, highVars, RecordInv, Record
  <2>2. ASSUME NEW p \in Plans, ReceiveReads(p) PROVE RecordInv'
    BY <2>0, <2>2, RecordStays DEF ReceiveReads
  <2>3. ASSUME NEW p \in Plans, NEW a \in Loads, Load(a, p) PROVE RecordInv'
    BY <2>0, <2>3, RecordStart DEF Load
  <2>4. CASE ReceiveWrites
    <3>1. receiving.applied = applied /\ applied' = receiving.applied
      BY <2>4 DEF ReceiveWrites, RecordInv
    <3>. QED BY <2>0, <2>4, <3>1, RecordStays DEF ReceiveWrites
  <2>5. ASSUME NEW a \in Loads, RetryReads(a) PROVE RecordInv'
    BY <2>0, <2>5, RecordStays DEF RetryReads
  <2>6. ASSUME NEW a \in Loads, RetryStarts(a) PROVE RecordInv'
    <3>1. retrying.applied = applied
      BY <2>6 DEF RetryStarts, RecordInv
    <3>. QED BY <2>0, <2>6, <3>1, RecordStart DEF RetryStarts
  <2>7. ASSUME NEW a \in Loads, ChildLoads(a) PROVE RecordInv'
    <3>1. /\ att[a].phase = "running" /\ att'[a].phase = "ended" /\ att'[a].plan = att[a].plan
          /\ \A k \in Loads : k # a => att'[k] = att[k]
          /\ loaded' = Append(Without(loaded, att[a].plan), att[a].plan)
          /\ UNCHANGED <<applied, receiving, retrying, stale>>
      BY <1>0, <2>7 DEF ChildLoads
    <3>2. \A k \in Loads : att[k].phase # "ended"
      BY <1>0, <3>1 DEF Unclosed
    <3>3. applied = loaded
      BY <3>2 DEF RecordInv
    <3>4. \A k \in Loads : att'[k].phase = "ended" => k = a
      BY <3>1, <3>2
    <3>. QED BY <3>1, <3>3, <3>4 DEF RecordInv, Record
  <2>8. ASSUME NEW a \in Loads, NEW some, ChildBreaks(a, some) PROVE RecordInv'
    <3>1. \A k \in Loads : /\ att'[k].phase = "ended" <=> att[k].phase = "ended"
                           /\ att[k].phase = "ended" => att'[k].plan = att[k].plan
      BY <1>0, <2>8 DEF ChildBreaks
    <3>. QED BY <2>0, <2>8, <3>1, RecordStays DEF ChildBreaks
  <2>9. ASSUME NEW a \in Loads, Close(a) PROVE RecordInv'
    <3>1. /\ att'[a].phase \notin {"running", "ended", "broken"}
          /\ \A k \in Loads : k # a => att'[k] = att[k]
          /\ UNCHANGED <<loaded, receiving, retrying, stale>>
      BY <1>0, <2>9 DEF Close
    <3>2. \A k \in Loads : att'[k].phase # "ended"
      BY <1>0, <2>9, <3>1 DEF Close, Unclosed
    <3>3. CASE att[a].phase = "ended"
      <4>1. applied' = Record(att[a].plan) /\ loaded = Record(att[a].plan)
        BY <2>9, <3>3 DEF Close, RecordInv
      <4>2. applied' = applied \/ (receiving = NoReceive /\ retrying = NoReceive)
        BY <2>0 DEF NoLostUpdate
      <4>. QED BY <3>1, <3>2, <4>1, <4>2 DEF RecordInv
    <3>4. CASE att[a].phase # "ended"
      <4>1. applied' = applied /\ \A k \in Loads : att[k].phase # "ended"
        BY <1>0, <2>9, <3>4 DEF Close, Unclosed
      <4>. QED BY <3>1, <3>2, <4>1 DEF RecordInv
    <3>. QED BY <3>3, <3>4
  <2>10. ASSUME NEW a \in Loads, Stop(a) PROVE RecordInv'
    BY <2>0, <2>10, RecordStays DEF Stop
  <2>11. CASE RetryRefused
    BY <2>0, <2>11, RecordStays DEF RetryRefused
  <2>12. CASE Restart
    <3>1. /\ receiving' = NoReceive /\ retrying' = NoReceive /\ UNCHANGED <<applied, loaded, stale>>
          /\ \A k \in Loads : att'[k].phase # "ended"
      BY <1>0, <2>12 DEF Restart, Unclosed
    <3>2. \A k \in Loads : att[k].phase = "ended" => applied = loaded
      BY <2>0, <3>1 DEF LoadsAreRecorded, RecordInv
    <3>3. applied = loaded
      BY <3>2 DEF RecordInv
    <3>. QED BY <3>1, <3>3 DEF RecordInv
  <2>. QED
    BY <1>2, <2>1, <2>2, <2>3, <2>4, <2>5, <2>6, <2>7, <2>8, <2>9, <2>10, <2>11, <2>12 DEF Next
<1>. QED BY <1>1, <1>2

\* Where new loads wait for the children of stopped ones, nothing is received and no
\* retry prepared while a load closes, and no restart comes before the close of a load
\* that exited 0, the order of loads is always that of the plans; and what is loaded is
\* complete as long as every transfer had a cycle and none was let through only by the
\* name of a run that did not write its baseline.
THEOREM CalmLoadsAreOrderedAndComplete ==
    Spec /\ [][Calm]_vars =>
        /\ [](\A i, j \in DOMAIN loaded : i < j => loaded[i] < loaded[j])
        /\ [](~unordered => \A p \in Range(loaded) : made[p].produced \subseteq dest)
<1>1. Init => RecordInv
  BY DEF Init, RecordInv
<1>2. Spec /\ [][Calm]_vars => []RecordInv
  BY <1>1, RecordStep, InvAlways, PTL DEF Spec
<1>3. RecordInv /\ NoRollback => \A i, j \in DOMAIN loaded : i < j => loaded[i] < loaded[j]
  BY DEF RecordInv, NoRollback
<1>4. RecordInv /\ NoSilentLoss => (~unordered => \A p \in Range(loaded) : made[p].produced \subseteq dest)
  BY DEF RecordInv, NoSilentLoss
<1>. QED BY <1>2, <1>3, <1>4, NothingRolledBack, NothingSilentlyLost, PTL
=============================================================================
