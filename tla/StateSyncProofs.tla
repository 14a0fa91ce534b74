--------------------------- MODULE StateSyncProofs ---------------------------
(***************************************************************************)
(* What the browser may believe of the server's document, for any fields   *)
(* and any number of generations: SavedIsOnServer and ExportIsCurrent.     *)
(***************************************************************************)
EXTENDS StateSync, TLAPS

-----------------------------------------------------------------------------
(* The invariant *)

\* TypeOK, that edits is a sequence, and that a browser that is hydrated or about to save
\* shows something.
Typed == TypeOK /\ edits \in Seq(Docs) /\ (Hydrated \/ timer => Gen > 0)

\* A save counts as answered or saved once the server has handled it or a newer one; a
\* flush asks for a generation there is, and reads once the server has that or a newer one.
WatermarkInv ==
    /\ saved <= newest
    /\ answered => call <= newest
    /\ flush # NoFlush => flush.at # "idle" /\ flush.asked > 0
    /\ flush.at = "saving" => flush.on >= flush.asked
    /\ flush.at = "reading" => newest >= flush.asked

\* The server has the newest generation it was sent, a later one that a reset brought,
\* or what a reset is still to bring.
ServerInv ==
    Regular /\ newest > 0 =>
        \/ \E g \in newest..Gen : server = edits[g]
        \/ replacing.at = "handled" /\ server = replacing.data

IInv == Typed /\ WatermarkInv /\ ServerInv

-----------------------------------------------------------------------------
(* Steps *)

LEMMA GenIsNat == Typed => Gen \in 0..MaxGen
  BY SyncAssumption DEF Typed, TypeOK, Gen, SyncAssumption

LEMMA ConstantDocs ==
    /\ Empty \in Docs /\ \A v \in 0..(MaxGen + 3) : [f \in Fields |-> v] \in Docs
    /\ Absent \in 0..(MaxGen + 3) /\ Stored \in 0..(MaxGen + 3) /\ Newer \in 0..(MaxGen + 3)
    /\ Imported \in 0..(MaxGen + 3)
  BY SyncAssumption DEF SyncAssumption, Empty, Docs, Absent, Stored, Newer, Imported

\* The document the browser shows next is of the next generation; the others stay.
LEMMA NewGeneration ==
    ASSUME Typed, NEW doc \in Docs, NewState(doc)
    PROVE  /\ edits' \in Seq(Docs) /\ Gen' = Gen + 1 /\ Gen' <= MaxGen
           /\ edits'[Gen'] = doc /\ \A g \in 1..Gen : edits'[g] = edits[g]
           /\ timer' = TRUE /\ call' = 0 /\ answered' = FALSE
           /\ \A g \in DOMAIN edits' : edits'[g] \in Docs
<1>1. edits \in Seq(Docs) /\ edits' = Append(edits, doc) /\ Gen < MaxGen
  BY DEF Typed, NewState
<1>2. edits' \in Seq(Docs) /\ Len(edits') = Len(edits) + 1
  BY <1>1
<1>. QED BY <1>1, <1>2, SyncAssumption DEF NewState, Gen, SyncAssumption

\* A save that keeps no key the browser had taken out is the document itself.
LEMMA MergeIsPatch ==
    ASSUME NEW d \in Docs, NEW p \in Docs, p = Empty \/ \A f \in Fields : p[f] = Absent => d[f] = Absent
    PROVE  Merge(d, p) = p
<1>1. CASE p = Empty
  BY <1>1 DEF Merge
<1>2. CASE p # Empty
  <2>1. \A f \in Fields : (IF p[f] = Absent THEN d[f] ELSE p[f]) = p[f]
    BY <1>2
  <2>2. p = [f \in Fields |-> p[f]]
    BY DEF Docs
  <2>. QED BY <1>2, <2>1, <2>2 DEF Merge
<1>. QED BY <1>1, <1>2

LEMMA MergeType == ASSUME NEW d \in Docs, NEW p \in Docs PROVE Merge(d, p) \in Docs
  BY ConstantDocs DEF Merge, Docs

Hydrations == [at : {"asked", "answered", "done", "failed"}, data : Docs]
Resets     == [at : {"no", "sent", "handled"}, data : Docs]
Flushes    == [at : {"idle", "waiting", "saving", "reading"}, asked : 0..Gen, on : 0..Gen, error : BOOLEAN]

\* The types of what a step that makes no generation changes.
Moved ==
    /\ server' \in Docs /\ hydration' \in Hydrations /\ (Hydrated' \/ timer' => Gen > 0)
    /\ replacing' \in Resets
    /\ saved' \in 0..Gen /\ call' \in 0..Gen /\ net' \subseteq 1..Gen /\ newest' \in 0..Gen
    /\ timer' \in BOOLEAN /\ answered' \in BOOLEAN /\ saveError' \in BOOLEAN
    /\ flush' \in Flushes
    /\ late' \in BOOLEAN /\ missed' \in BOOLEAN /\ kept' \in BOOLEAN

LEMMA MovedTypes == Typed /\ edits' = edits /\ Moved => Typed'
<1> SUFFICES ASSUME Typed, edits' = edits, Moved PROVE Typed'
  OBVIOUS
<1>1. Gen' = Gen
  BY DEF Gen
<1>. QED BY <1>1 DEF Typed, TypeOK, Moved, Hydrations, Resets, Flushes

LEMMA TypesKnown ==
    ASSUME Typed
    PROVE  /\ server \in Docs /\ hydration \in Hydrations /\ replacing \in Resets
           /\ saved \in 0..Gen /\ call \in 0..Gen /\ net \subseteq 1..Gen /\ newest \in 0..Gen
           /\ timer \in BOOLEAN /\ answered \in BOOLEAN /\ saveError \in BOOLEAN
           /\ flush \in Flushes
           /\ late \in BOOLEAN /\ missed \in BOOLEAN /\ kept \in BOOLEAN
           /\ Gen \in 0..MaxGen /\ Gen = Len(edits) /\ (Hydrated \/ timer => Gen > 0)
           /\ edits \in Seq(Docs) /\ \A g \in 1..Gen : edits[g] \in Docs
  BY GenIsNat DEF Typed, TypeOK, Gen, Hydrations, Resets, Flushes

LEMMA FlushTypes ==
    ASSUME Typed
    PROVE  /\ NoFlush \in Flushes
           /\ \A f \in Flushes, a \in {"idle", "waiting", "saving", "reading"}, g \in 0..Gen :
                 [f EXCEPT !.at = a] \in Flushes /\ [f EXCEPT !.at = a, !.on = g] \in Flushes
<1>1. 0 \in 0..Gen
  BY TypesKnown
<1>. QED BY <1>1 DEF NoFlush, Flushes

LEMMA TypesStep == Typed /\ [Next]_vars => Typed'
<1> SUFFICES ASSUME Typed, [Next]_vars PROVE Typed'
  OBVIOUS
<1>a. Empty \in Docs /\ \A a \in {"done", "failed"} : [NoData EXCEPT !.at = a] \in Hydrations
  BY ConstantDocs DEF NoData, Hydrations
<1>b. NoData \in Resets
  BY ConstantDocs DEF NoData, Resets
<1>1. ASSUME NEW g \in 1..MaxGen, HandleSave(g) PROVE Typed'
  <2>1. g \in 1..Gen /\ edits[g] \in Docs
    BY <1>1, TypesKnown DEF HandleSave
  <2>2. server' \in Docs
    BY <1>1, <2>1, MergeType, TypesKnown DEF HandleSave
  <2>3. newest' \in 0..Gen /\ net' \subseteq 1..Gen /\ answered' \in BOOLEAN /\ late' \in BOOLEAN /\ kept' \in BOOLEAN
    BY <1>1, <2>1, TypesKnown DEF HandleSave
  <2>. QED BY <1>1, <2>2, <2>3, TypesKnown, MovedTypes DEF HandleSave, Moved, Hydrated
<1>2. CASE TimerFires
  <2>1. Gen \in 1..Gen /\ Gen \in 0..Gen
    BY <1>2, TypesKnown, SyncAssumption DEF TimerFires, SyncAssumption
  <2>. QED BY <1>2, <2>1, TypesKnown, MovedTypes DEF TimerFires, Send, Moved, Hydrated
<1>3. CASE SaveSettles
  <2>1. saved' \in 0..Gen
    BY <1>3, TypesKnown DEF SaveSettles, SaveReturns, SaveFails
  <2>2. 0 \in 0..Gen
    BY TypesKnown, SyncAssumption DEF SyncAssumption
  <2>3. UNCHANGED <<server, edits, hydration, timer, net, replacing, newest, late, missed, kept, flush>>
    BY <1>3 DEF SaveSettles, SaveReturns, SaveFails
  <2>4. call' = 0 /\ answered' \in BOOLEAN /\ saveError' \in BOOLEAN
    BY <1>3 DEF SaveSettles, SaveReturns, SaveFails
  <2>. QED BY <2>1, <2>2, <2>3, <2>4, TypesKnown, MovedTypes DEF Moved, Hydrated
<1>4. ASSUME NEW doc \in Docs, NewState(doc), hydration' \in Hydrations, replacing' \in Resets,
             UNCHANGED <<server, saved, saveError, net, newest, late, missed, kept, flush>>
      PROVE  Typed'
  <2>1. /\ edits' \in Seq(Docs) /\ Gen' = Gen + 1 /\ Gen' <= MaxGen /\ timer' = TRUE /\ call' = 0 /\ answered' = FALSE
        /\ \A g \in DOMAIN edits' : edits'[g] \in Docs
    BY <1>4, NewGeneration
  <2>2. 0..Gen \subseteq 0..Gen' /\ 1..Gen \subseteq 1..Gen' /\ 0 \in 0..Gen' /\ Gen' > 0
    BY TypesKnown, <2>1, SyncAssumption DEF SyncAssumption
  <2>3. flush' \in [at : {"idle", "waiting", "saving", "reading"}, asked : 0..Gen', on : 0..Gen', error : BOOLEAN]
    BY <1>4, <2>2, TypesKnown DEF Flushes
  <2>4. saved' \in 0..Gen' /\ net' \subseteq 1..Gen' /\ newest' \in 0..Gen'
    BY <1>4, <2>2, TypesKnown
  <2>5. Len(edits') <= MaxGen
    BY <2>1 DEF Gen
  <2>. QED BY <1>4, <2>1, <2>2, <2>3, <2>4, <2>5, TypesKnown DEF Typed, TypeOK, Hydrations, Resets
<1>5. ASSUME NEW f \in Fields, Edit(f) \/ TakeOut(f) PROVE Typed'
  <2>1. Doc \in Docs /\ Gen < MaxGen /\ Gen \in Nat
    BY <1>5, TypesKnown, SyncAssumption DEF Edit, TakeOut, NewState, Doc, SyncAssumption
  <2>2. \A v \in 0..(MaxGen + 3) : [Doc EXCEPT ![f] = v] \in Docs
    BY <2>1 DEF Docs
  <2>3. Gen + 3 \in 0..(MaxGen + 3) /\ Absent \in 0..(MaxGen + 3)
    BY <2>1, ConstantDocs, SyncAssumption DEF SyncAssumption
  <2>. QED BY <1>4, <1>5, <2>2, <2>3, TypesKnown DEF Edit, TakeOut
<1>6. CASE HydrateHandled \/ HydrateFails
  <2>1. hydration' \in Hydrations /\ ~Hydrated'
    BY <1>6, <1>a, TypesKnown DEF HydrateHandled, HydrateFails, Hydrations, Hydrated, NoData
  <2>. QED BY <1>6, <2>1, TypesKnown, MovedTypes DEF HydrateHandled, HydrateFails, Moved, browserVars
<1>7. CASE HydrateReturns
  <2>1. hydration.data \in Docs /\ hydration' \in Hydrations
    BY <1>7, <1>a, TypesKnown DEF HydrateReturns, Hydrations
  <2>. QED BY <1>4, <1>7, <2>1, TypesKnown DEF HydrateReturns
<1>8. ASSUME NEW data \in [Fields -> {Absent, Imported}], Replace(data) PROVE Typed'
  <2>1. data \in Docs
    BY ConstantDocs DEF Docs
  <2>2. replacing' \in Resets
    BY <1>8, <2>1 DEF Replace, Resets
  <2>. QED BY <1>8, <2>2, TypesKnown, MovedTypes DEF Replace, Moved, browserVars, Hydrated
<1>9. CASE ReplaceHandled \/ ReplaceFails
  <2>1. replacing' \in Resets /\ server' \in Docs /\ missed' \in BOOLEAN
    BY <1>9, <1>b, TypesKnown DEF ReplaceHandled, ReplaceFails, Resets
  <2>. QED BY <1>9, <2>1, TypesKnown, MovedTypes DEF ReplaceHandled, ReplaceFails, Moved, browserVars, Hydrated
<1>10. CASE ReplaceReturns
  <2>1. replacing.data \in Docs /\ replacing' \in Resets
    BY <1>10, <1>b, TypesKnown DEF ReplaceReturns, Resets
  <2>. QED BY <1>4, <1>10, <2>1, TypesKnown DEF ReplaceReturns
<1>11. CASE FlushBegins
  <2>1. flush' \in Flushes
    BY <1>11, TypesKnown, SyncAssumption DEF FlushBegins, Flushes, SyncAssumption
  <2>. QED BY <1>11, <2>1, TypesKnown, MovedTypes DEF FlushBegins, Moved, Hydrated
<1>12. CASE FlushGoesOn
  <2>1. Gen \in 0..Gen /\ (saved < Gen => Gen \in 1..Gen)
    BY TypesKnown, SyncAssumption DEF SyncAssumption
  <2>2. flush' \in Flushes
    <3>1. flush' \in {NoFlush, [flush EXCEPT !.at = "reading"], [flush EXCEPT !.at = "saving", !.on = Gen]}
      BY <1>12 DEF FlushGoesOn
    <3>2. [flush EXCEPT !.at = "reading"] \in Flushes
      BY TypesKnown, FlushTypes
    <3>3. [flush EXCEPT !.at = "saving", !.on = Gen] \in Flushes
      BY <2>1, TypesKnown, FlushTypes
    <3>. QED BY <3>1, <3>2, <3>3, FlushTypes
  <2>3. timer' \in BOOLEAN /\ answered' \in BOOLEAN /\ call' \in 0..Gen /\ net' \subseteq 1..Gen
    BY <1>12, <2>1, TypesKnown DEF FlushGoesOn, Send
  <2>4. UNCHANGED <<server, edits, hydration, saved, saveError, replacing, newest, late, missed, kept>>
    BY <1>12 DEF FlushGoesOn
  <2>5. timer' => Gen > 0
    <3>1. timer' = FALSE \/ timer' = timer
      BY <1>12 DEF FlushGoesOn, Send
    <3>. QED BY <3>1, TypesKnown
  <2>6. Hydrated' => Gen > 0
    BY <2>4, TypesKnown DEF Hydrated
  <2>7. Moved
    BY <2>2, <2>3, <2>4, <2>5, <2>6, TypesKnown DEF Moved
  <2>. QED BY <2>4, <2>7, MovedTypes
<1>13. CASE FlushEnds \/ Export
  <2>1. flush' \in Flushes
    BY <1>13, TypesKnown, FlushTypes DEF FlushEnds, Export
  <2>. QED BY <1>13, <2>1, TypesKnown, MovedTypes DEF FlushEnds, Export, Moved, Hydrated
<1>14. CASE UNCHANGED vars
  BY <1>14, TypesKnown, MovedTypes DEF vars, Moved, Hydrated
<1>. QED
  BY <1>1, <1>2, <1>3, <1>5, <1>6, <1>7, <1>8, <1>9, <1>10, <1>11, <1>12, <1>13, <1>14 DEF Next, Flushing

-----------------------------------------------------------------------------
(* The watermarks *)

\* No step moves a watermark past what the server handled or a flush ahead of it.
LEMMA WatermarkStep == Typed /\ WatermarkInv /\ [Next]_vars => WatermarkInv'
<1> SUFFICES ASSUME Typed, WatermarkInv, [Next]_vars PROVE WatermarkInv'
  OBVIOUS
<1>a. /\ Gen \in Nat /\ saved \in Nat /\ call \in Nat /\ newest \in Nat /\ flush.asked \in Nat /\ flush.on \in Nat
      /\ flush \in Flushes /\ saved <= Gen /\ call <= Gen /\ newest <= Gen /\ flush.asked <= Gen
  BY TypesKnown, SyncAssumption DEF Flushes, SyncAssumption
<1>1. ASSUME NEW g \in 1..MaxGen, HandleSave(g) PROVE WatermarkInv'
  <2>1. newest' >= newest /\ newest' >= g /\ newest' \in Nat
    BY <1>1, <1>a DEF HandleSave
  <2>2. answered' => call <= newest'
    <3>1. answered' => answered \/ g = call
      BY <1>1 DEF HandleSave
    <3>2. answered => call <= newest
      BY DEF WatermarkInv
    <3>. QED BY <1>a, <2>1, <3>1, <3>2
  <2>. QED BY <1>1, <1>a, <2>1, <2>2 DEF HandleSave, WatermarkInv
<1>2. CASE TimerFires
  BY <1>2 DEF TimerFires, Send, WatermarkInv
<1>3. CASE SaveSettles
  BY <1>3, <1>a DEF SaveSettles, SaveReturns, SaveFails, WatermarkInv
<1>4. CASE UNCHANGED <<saved, newest, flush>> /\ answered' = FALSE
  BY <1>4 DEF WatermarkInv
<1>5. CASE UNCHANGED <<saved, newest, flush, answered, call>>
  BY <1>5 DEF WatermarkInv
<1>6. ASSUME NEW f \in Fields, Edit(f) \/ TakeOut(f) PROVE WatermarkInv'
  BY <1>4, <1>6 DEF Edit, TakeOut, NewState
<1>7. CASE HydrateReturns \/ ReplaceReturns
  BY <1>4, <1>7 DEF HydrateReturns, ReplaceReturns, NewState
<1>8. ASSUME NEW data, HydrateHandled \/ HydrateFails \/ Replace(data) \/ ReplaceHandled \/ ReplaceFails PROVE WatermarkInv'
  BY <1>5, <1>8 DEF HydrateHandled, HydrateFails, Replace, ReplaceHandled, ReplaceFails, browserVars
<1>9. CASE FlushBegins
  <2>1. flush' = [at |-> "waiting", asked |-> Gen, on |-> call, error |-> saveError] /\ Gen > 0
    BY <1>9, TypesKnown DEF FlushBegins
  <2>. QED BY <1>9, <2>1 DEF FlushBegins, WatermarkInv
<1>10. CASE FlushGoesOn
  <2>0. flush # NoFlush /\ flush.asked > 0 /\ UNCHANGED <<saved, newest>>
    BY <1>10 DEF FlushGoesOn, WatermarkInv, NoFlush
  <2>1. CASE saved < Gen
    <3>1. flush' = [flush EXCEPT !.at = "saving", !.on = Gen] /\ answered' = FALSE
      BY <1>10, <2>1 DEF FlushGoesOn, Send
    <3>2. flush'.at = "saving" /\ flush'.on = Gen /\ flush'.asked = flush.asked
      BY <1>a, <3>1 DEF Flushes
    <3>. QED BY <1>a, <2>0, <3>1, <3>2 DEF WatermarkInv
  <2>2. CASE ~(saved < Gen) /\ ~flush.error
    <3>1. flush' = [flush EXCEPT !.at = "reading"] /\ UNCHANGED <<answered, call>>
      BY <1>10, <2>2 DEF FlushGoesOn
    <3>2. flush'.at = "reading" /\ flush'.asked = flush.asked
      BY <1>a, <3>1 DEF Flushes
    <3>. QED BY <1>a, <2>0, <2>2, <3>1, <3>2 DEF WatermarkInv
  <2>3. CASE ~(saved < Gen) /\ flush.error
    BY <1>10, <2>0, <2>3 DEF FlushGoesOn, WatermarkInv, NoFlush
  <2>. QED BY <2>1, <2>2, <2>3
<1>11. CASE FlushEnds
  <2>0. flush.at = "saving" /\ flush # NoFlush /\ flush.on >= flush.asked /\ UNCHANGED <<saved, newest, answered, call>>
    BY <1>11 DEF FlushEnds, WatermarkInv, NoFlush
  <2>1. CASE saved >= flush.on
    <3>1. flush' = [flush EXCEPT !.at = "reading"]
      BY <1>11, <2>1 DEF FlushEnds
    <3>2. flush'.at = "reading" /\ flush'.asked = flush.asked
      BY <1>a, <3>1 DEF Flushes
    <3>. QED BY <1>a, <2>0, <2>1, <3>1, <3>2 DEF WatermarkInv
  <2>2. CASE ~(saved >= flush.on)
    BY <1>11, <2>0, <2>2 DEF FlushEnds, WatermarkInv, NoFlush
  <2>. QED BY <2>1, <2>2
<1>12. CASE Export
  BY <1>12 DEF Export, WatermarkInv, NoFlush
<1>13. CASE UNCHANGED vars
  BY <1>5, <1>13 DEF vars
<1>. QED
  BY <1>1, <1>2, <1>3, <1>6, <1>7, <1>8, <1>9, <1>10, <1>11, <1>12, <1>13 DEF Next, Flushing

-----------------------------------------------------------------------------
(* The server *)

LEMMA ServerStep == Typed /\ WatermarkInv /\ ServerInv /\ [Next]_vars => ServerInv'
<1> SUFFICES ASSUME Typed, WatermarkInv, ServerInv, [Next]_vars PROVE ServerInv'
  OBVIOUS
<1>a. Gen \in Nat /\ newest \in 0..Gen /\ edits \in Seq(Docs) /\ Gen = Len(edits)
  BY TypesKnown, SyncAssumption DEF SyncAssumption
<1>1. ASSUME NEW g \in 1..MaxGen, HandleSave(g) PROVE ServerInv'
  <2>1. SUFFICES ASSUME ~late', ~kept' PROVE \E h \in newest'..Gen' : server' = edits'[h]
    BY DEF ServerInv, Regular
  <2>2. g \in 1..Gen /\ edits[g] \in Docs /\ server \in Docs
    BY <1>1, TypesKnown DEF HandleSave
  <2>3. newest' = g /\ edits' = edits
    <3>1. ~(g < newest)
      BY <1>1, <2>1 DEF HandleSave
    <3>2. newest' = (IF g > newest THEN g ELSE newest) /\ edits' = edits
      BY <1>1 DEF HandleSave
    <3>. QED BY <1>a, <2>2, <3>1, <3>2
  <2>4. edits[g] = Empty \/ \A f \in Fields : edits[g][f] = Absent => server[f] = Absent
    BY <1>1, <2>1 DEF HandleSave
  <2>5. server' = edits[g]
    BY <1>1, <2>2, <2>4, MergeIsPatch DEF HandleSave
  <2>. QED BY <1>a, <2>2, <2>3, <2>5 DEF Gen
<1>2. CASE UNCHANGED <<server, edits, replacing, newest, late, missed, kept>>
  BY <1>2 DEF ServerInv, Regular, Gen
<1>3. ASSUME NEW doc \in Docs, NewState(doc), UNCHANGED <<server, newest, late, missed, kept>>,
             replacing' = replacing \/ (replacing.at = "handled" /\ doc = replacing.data)
      PROVE  ServerInv'
  <2>1. Gen' = Gen + 1 /\ edits'[Gen'] = doc /\ \A g \in 1..Gen : edits'[g] = edits[g]
    BY <1>3, NewGeneration
  <2>2. SUFFICES ASSUME Regular, newest > 0 PROVE ServerInv'
    BY <1>3 DEF ServerInv, Regular
  <2>3. CASE \E g \in newest..Gen : server = edits[g]
    <3>1. PICK g \in newest..Gen : server = edits[g]
      BY <2>3
    <3>2. g \in newest'..Gen' /\ server' = edits'[g]
      BY <1>3, <1>a, <2>1, <2>2, <3>1
    <3>. QED BY <3>2 DEF ServerInv
  <2>4. CASE replacing.at = "handled" /\ server = replacing.data
    <3>1. Gen' \in newest'..Gen'
      BY <1>3, <1>a, <2>1
    <3>. QED BY <1>3, <2>1, <2>4, <3>1 DEF ServerInv
  <2>. QED BY <2>2, <2>3, <2>4 DEF ServerInv
<1>4. ASSUME NEW f \in Fields, Edit(f) \/ TakeOut(f) PROVE ServerInv'
  <2>1. Doc \in Docs /\ Gen < MaxGen
    BY <1>4, <1>a, TypesKnown DEF Edit, TakeOut, NewState, Doc
  <2>2. \A v \in 0..(MaxGen + 3) : [Doc EXCEPT ![f] = v] \in Docs
    BY <2>1 DEF Docs
  <2>3. Gen + 3 \in 0..(MaxGen + 3) /\ Absent \in 0..(MaxGen + 3)
    BY <1>a, <2>1, ConstantDocs, SyncAssumption DEF SyncAssumption
  <2>. QED BY <1>3, <1>4, <2>2, <2>3 DEF Edit, TakeOut
<1>5. CASE HydrateReturns
  <2>1. hydration.data \in Docs
    BY TypesKnown DEF Hydrations
  <2>. QED BY <1>3, <1>5, <2>1 DEF HydrateReturns
<1>6. CASE ReplaceReturns
  <2>1. replacing.data \in Docs
    BY TypesKnown DEF Resets
  <2>. QED BY <1>3, <1>6, <2>1 DEF ReplaceReturns
<1>7. CASE ReplaceHandled
  <2>1. replacing'.at = "handled" /\ server' = replacing'.data
    BY <1>7, TypesKnown DEF ReplaceHandled, Resets
  <2>. QED BY <2>1 DEF ServerInv
<1>8. ASSUME NEW data, Replace(data) PROVE ServerInv'
  <2>1. replacing.at # "handled" /\ UNCHANGED <<server, edits, newest, late, missed, kept>>
    BY <1>8 DEF Replace, NoData, browserVars
  <2>. QED BY <2>1 DEF ServerInv, Regular, Gen
<1>9. CASE ReplaceFails
  <2>1. ~missed' => replacing.at # "handled" /\ ~missed
    BY <1>9 DEF ReplaceFails
  <2>2. UNCHANGED <<server, edits, newest, late, kept>>
    BY <1>9 DEF ReplaceFails, browserVars
  <2>. QED BY <2>1, <2>2 DEF ServerInv, Regular, Gen
<1>10. CASE TimerFires \/ SaveSettles \/ HydrateHandled \/ HydrateFails \/ FlushBegins \/ Flushing
  BY <1>2, <1>10 DEF TimerFires, SaveSettles, SaveReturns, SaveFails, HydrateHandled, HydrateFails, FlushBegins,
       Flushing, FlushGoesOn, FlushEnds, Export, browserVars
<1>11. CASE UNCHANGED vars
  BY <1>2, <1>11 DEF vars
<1>. QED
  BY <1>1, <1>4, <1>5, <1>6, <1>7, <1>8, <1>9, <1>10, <1>11 DEF Next

-----------------------------------------------------------------------------
(* The theorems *)

LEMMA InvInit == Init => IInv
<1> SUFFICES ASSUME Init PROVE IInv
  OBVIOUS
<1>1. /\ edits \in Seq(Docs) /\ Len(edits) \in {0, 1} /\ Len(edits) <= MaxGen
      /\ (edits # <<>> => Len(edits) = 1) /\ \A g \in DOMAIN edits : edits[g] \in Docs
  <2>1. [f \in Fields |-> Stored] \in Docs
    BY ConstantDocs
  <2>2. CASE edits = <<>>
    BY <2>2, SyncAssumption DEF SyncAssumption
  <2>3. CASE edits = <<[f \in Fields |-> Stored]>>
    BY <2>1, <2>3, SyncAssumption DEF SyncAssumption
  <2>. QED BY <2>2, <2>3 DEF Init
<1>2. server \in Docs
  BY ConstantDocs DEF Init, Docs
<1>3. Typed
  <2>1. NoData \in Resets /\ hydration \in Hydrations /\ ~Hydrated
    BY ConstantDocs DEF Init, NoData, Resets, Hydrations, Hydrated
  <2>2. 0 \in 0..Gen /\ NoFlush \in [at : {"idle", "waiting", "saving", "reading"}, asked : 0..Gen, on : 0..Gen, error : BOOLEAN]
    BY <1>1 DEF Gen, NoFlush
  <2>3. timer \in BOOLEAN /\ (timer => Gen > 0)
    <3>1. timer = (edits # <<>>)
      BY DEF Init
    <3>2. timer \in BOOLEAN
      BY <3>1
    <3>3. timer => edits # <<>>
      BY <3>1
    <3>. QED BY <1>1, <3>2, <3>3 DEF Gen
  <2>4. saved \in 0..Gen /\ call \in 0..Gen /\ newest \in 0..Gen /\ net \subseteq 1..Gen
    BY <2>2 DEF Init
  <2>5. replacing \in Resets /\ flush = NoFlush
    BY <2>1 DEF Init
  <2>6. answered \in BOOLEAN /\ saveError \in BOOLEAN /\ late \in BOOLEAN /\ missed \in BOOLEAN /\ kept \in BOOLEAN
    BY DEF Init
  <2>7. TypeOK
    BY <1>1, <1>2, <2>1, <2>2, <2>3, <2>4, <2>5, <2>6 DEF TypeOK, Hydrations, Resets
  <2>. QED BY <1>1, <2>1, <2>3, <2>7 DEF Typed
<1>4. WatermarkInv /\ ServerInv
  BY DEF Init, WatermarkInv, ServerInv, NoFlush
<1>. QED BY <1>3, <1>4 DEF IInv

LEMMA InvAlways == Spec => []IInv
<1>1. IInv /\ [Next]_vars => IInv'
  BY TypesStep, WatermarkStep, ServerStep DEF IInv
<1>. QED BY <1>1, InvInit, PTL DEF Spec

\* Every reachable state of browser, network and server is well typed.
THEOREM SyncTypes == Spec => []TypeOK
<1>1. IInv => TypeOK
  BY DEF IInv, Typed
<1>. QED BY <1>1, InvAlways, PTL

\* savedGenerationRef never runs ahead of the server: while saves arrive in order, resets
\* are answered and no key has to go, what it names or something later is there.
THEOREM SavedReachedServer == Spec => []SavedIsOnServer
<1>1. IInv => SavedIsOnServer
  <2> SUFFICES ASSUME IInv, Regular, saved > 0, replacing.at # "handled" PROVE \E g \in saved..Gen : server = edits[g]
    BY DEF SavedIsOnServer
  <2>1. saved \in Nat /\ newest \in Nat /\ Gen \in Nat /\ saved <= newest
    BY TypesKnown, SyncAssumption DEF IInv, WatermarkInv, SyncAssumption
  <2>2. PICK g \in newest..Gen : server = edits[g]
    BY <2>1 DEF IInv, ServerInv
  <2>. QED BY <2>1, <2>2
<1>. QED BY <1>1, InvAlways, PTL

\* What an export reads after flushPendingSave is no older than what the browser showed
\* when it was asked for, or is what a reset has just brought.
THEOREM ExportedIsCurrent == Spec => []ExportIsCurrent
<1>1. IInv => ExportIsCurrent
  <2> SUFFICES ASSUME IInv, Regular, flush.at = "reading"
               PROVE  (\E g \in flush.asked..Gen : server = edits[g]) \/ (replacing.at = "handled" /\ server = replacing.data)
    BY DEF ExportIsCurrent
  <2>1. flush.asked \in Nat /\ newest \in Nat /\ Gen \in Nat
    BY TypesKnown, SyncAssumption DEF IInv, Flushes, SyncAssumption
  <2>2. newest >= flush.asked /\ flush.asked > 0
    BY DEF IInv, WatermarkInv, NoFlush
  <2>3. (\E g \in newest..Gen : server = edits[g]) \/ (replacing.at = "handled" /\ server = replacing.data)
    BY <2>1, <2>2 DEF IInv, ServerInv
  <2>. QED BY <2>1, <2>2, <2>3
<1>. QED BY <1>1, InvAlways, PTL
=============================================================================
