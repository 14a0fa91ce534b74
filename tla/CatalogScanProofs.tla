-------------------------- MODULE CatalogScanProofs --------------------------
(***************************************************************************)
(* What holds of CatalogScan for any requests, catalogs, digests and        *)
(* blobs: how long the pull secret of a request lives, that a stopped scan  *)
(* stays stopped, and that no layout goes while it is listed.               *)
(***************************************************************************)
EXTENDS CatalogScan, FiniteSetTheorems, TLAPS

-----------------------------------------------------------------------------
(* The invariant *)

Fetches == [at : Fetching \cup {"none", "done"}, of : Digests \cup {None}, next : Nat]

\* TypeOK with numbers of any size and without the cache's order, which the invariants
\* of the scans do not depend on.
CoreTypes ==
    /\ asked \in [Requests -> {"new", "resolving", "done"}] /\ auth \subseteq Requests
    /\ left \in [Requests -> Int]
    /\ row \in [Scans -> Terminal \cup {"absent", "running", "deleted"}]
    /\ entry \in [Scans -> {"none", "fetch", "child"}]
    /\ fetch \in [Scans -> Fetches]
    /\ server \in [Scans -> {"none", "open", "closed"}]
    /\ child \in [Scans -> {"none", "lists", "exited", "closed"}]
    /\ timer \in [Scans -> {"off", "armed", "grace"}]
    /\ layouts \in [Catalogs -> [Digests -> SUBSET Nat]]
    /\ inUse \in [Catalogs -> [Digests -> Int]]
    /\ stopped \subseteq Scans

\* A scan exists once its request has a binary; it is listed after its fetch.
PhaseInv ==
    /\ \A s \in Scans : asked[s[1]] # "done" => row[s] = "absent" /\ entry[s] = "none" /\ fetch[s].at = "none" /\ s \notin stopped
    /\ \A s \in Scans : fetch[s].at # "done" => server[s] = "none" /\ child[s] = "none"
    /\ \A s \in Scans : fetch[s].at \in Fetching \ {"manifest"} \/ server[s] = "open" => Dig(s) \in Digests
    /\ \A s \in stopped : entry[s] = "none"

Fetchers(q) == {s \in Of(q) : fetch[s].at \in Fetching}

\* The secret's counter has the scans that still fetch.
SecretInv ==
    /\ \A q \in Requests : left[q] = Cardinality(Fetchers(q))
    /\ SecretLivesWithFetches

\* Who has opened a layout, and who a certain one.
Uses(s) == fetch[s].at = "serve" \/ server[s] = "open"
Users(c, d) == {s \in Scans : Cat(s) = c /\ Dig(s) = d /\ Uses(s)}

\* A layout's count has the scans that opened it.
CountInv == \A c \in Catalogs, d \in Digests : inUse[c][d] = Cardinality(Users(c, d))

IInv == CoreTypes /\ PhaseInv /\ SecretInv /\ CountInv

-----------------------------------------------------------------------------
(* Counting *)

LEMMA Smallest ==
    ASSUME NEW S, S \subseteq Nat, S # {}
    PROVE  \E x \in S : \A y \in S : x <= y
<1>1. PICK x \in S : \A y \in S : <<y, x>> \notin OpToRel(<, Nat)
  BY NatLessThanWellFounded, WFMin
<1>2. \A y \in S : <<y, x>> \in OpToRel(<, Nat) <=> y < x
  BY DEF OpToRel
<1>3. \A y \in S : ~(y < x)
  BY <1>1, <1>2
<1>4. \A y \in S : x <= y
  BY <1>3
<1>. QED BY <1>4

LEMMA ScanFacts ==
    ASSUME NEW s \in Scans
    PROVE  s[1] \in Requests /\ Cat(s) \in Catalogs
  BY ScanAssumption DEF ScanAssumption, Cat

\* Sets of scans are finite; one scan more or less is one more or less in their number.
LEMMA OneLess ==
    ASSUME NEW S, NEW T, NEW s, S \subseteq Scans, s \in S, T = S \ {s}
    PROVE  /\ Cardinality(S) \in Nat /\ Cardinality(T) = Cardinality(S) - 1
           /\ Cardinality(S) > 1 <=> T # {}
<1>1. IsFiniteSet(S) /\ IsFiniteSet(T)
  BY ScanAssumption, FS_Subset DEF ScanAssumption
<1>2. Cardinality(S) \in Nat /\ Cardinality(T) \in Nat /\ Cardinality(T) = Cardinality(S) - 1
  BY <1>1, FS_RemoveElement, FS_CardinalityType
<1>3. Cardinality(T) = 0 <=> T = {}
  BY <1>1, FS_EmptySet
<1>. QED BY <1>2, <1>3

-----------------------------------------------------------------------------
(* Types *)

LEMMA GoOnTypes ==
    ASSUME CoreTypes, NEW s \in Scans, NEW d \in Digests, NEW n \in Nat, NEW files \in SUBSET Nat, GoOn(s, d, n, files)
    PROVE  /\ fetch' \in [Scans -> Fetches]
           /\ layouts' \in [Catalogs -> [Digests -> SUBSET Nat]]
           /\ fetch'[s].at \in {"wait", "close"} /\ fetch'[s].of = d
           /\ \A r \in Scans \ {s} : fetch'[r] = fetch[r]
           /\ files \subseteq layouts'[Cat(s)][d]
           /\ \A c \in Catalogs, e \in Digests : c # Cat(s) \/ e # d => layouts'[c][e] = layouts[c][e]
<1> DEFINE missing == {b \in n..Blobs : b \notin files}
           b == CHOOSE e \in missing : \A f \in missing : e <= f
<1>a. Blobs \in Nat /\ Cat(s) \in Catalogs
  BY ScanFacts, ScanAssumption DEF ScanAssumption
<1>1. CASE missing # {}
  <2>1. missing \subseteq Nat
    BY <1>a
  <2>2. \E e \in missing : \A f \in missing : e <= f
    BY <1>1, <2>1, Smallest
  <2>3. b \in missing
    BY <2>2
  <2>4. /\ fetch' = [fetch EXCEPT ![s] = [at |-> "wait", of |-> d, next |-> b]]
        /\ layouts' = [layouts EXCEPT ![Cat(s)][d] = files]
    BY <1>1 DEF GoOn
  <2>5. b \in Nat
    BY <2>1, <2>3
  <2>. HIDE DEF b, missing
  <2>6. [at |-> "wait", of |-> d, next |-> b] \in Fetches
    BY <2>5 DEF Fetches, Fetching
  <2>. QED BY <1>a, <2>4, <2>6 DEF CoreTypes
<1>2. CASE missing = {}
  <2>1. /\ fetch' = [fetch EXCEPT ![s] = [at |-> "close", of |-> d, next |-> Blobs]]
        /\ layouts' = [layouts EXCEPT ![Cat(s)][d] = files \cup {0}]
    BY <1>2 DEF GoOn
  <2>2. [at |-> "close", of |-> d, next |-> Blobs] \in Fetches
    BY <1>a DEF Fetches, Fetching
  <2>. QED BY <1>a, <2>1, <2>2 DEF CoreTypes
<1>. QED BY <1>1, <1>2

\* Pruning empties layouts at most.
LEMMA PruneTypes ==
    ASSUME CoreTypes, NEW s \in Scans, Prune(s)
    PROVE  /\ layouts' \in [Catalogs -> [Digests -> SUBSET Nat]]
           /\ \A c \in Catalogs, d \in Digests :
                 c # Cat(s) \/ d \notin Prunable(s) => layouts'[c][d] = layouts[c][d]
  BY ScanFacts DEF Prune, CoreTypes

\* A fetch that moves keeps its digest.
LEMMA FetchMoves ==
    ASSUME NEW f \in Fetches, NEW a \in Fetching \cup {"none", "done"}
    PROVE  [f EXCEPT !.at = a] \in Fetches /\ [f EXCEPT !.at = a].at = a /\ [f EXCEPT !.at = a].of = f.of
  BY DEF Fetches

\* What the handler of a fetch that succeeded does to all fetches.
LEMMA ListensMoves ==
    ASSUME CoreTypes, NEW s \in Scans, Listens(s)
    PROVE  /\ fetch' \in [Scans -> Fetches]
           /\ fetch[s].at = "serve" /\ fetch'[s].at = "done" /\ fetch'[s].of = fetch[s].of
           /\ \A r \in Scans \ {s} :
                 /\ fetch'[r].of = fetch[r].of
                 /\ fetch'[r] = fetch[r] \/ (fetch[r].at = "load" /\ fetch'[r].at = "lost")
<1>1. "lost" \in Fetching \cup {"none", "done"} /\ "done" \in Fetching \cup {"none", "done"}
  BY DEF Fetching
<1>2. \A r \in Scans : fetch[r] \in Fetches
  BY DEF CoreTypes
<1>3. \A r \in Scans : \A a \in {"lost", "done"} :
        /\ [fetch[r] EXCEPT !.at = a] \in Fetches
        /\ [fetch[r] EXCEPT !.at = a].at = a /\ [fetch[r] EXCEPT !.at = a].of = fetch[r].of
  BY <1>1, <1>2, FetchMoves
<1>. QED BY <1>2, <1>3 DEF Listens, Lost

\* The files a fetch goes on from: what is there, and the blob it has loaded.
LEMMA GoOnFacts ==
    ASSUME CoreTypes, PhaseInv, NEW s \in Scans,
           BlobLoaded(s) \/ \E d \in Digests : ManifestReturns(s, d)
    PROVE  \E d \in Digests, n \in Nat, files \in SUBSET Nat :
              /\ GoOn(s, d, n, files) /\ layouts[Cat(s)][d] \subseteq files /\ fetch[s].at \in {"manifest", "load"}
              /\ UNCHANGED <<asked, auth, left, row, entry, stopped, server, child, timer, inUse>>
<1>1. ASSUME NEW d \in Digests, ManifestReturns(s, d)
      PROVE  /\ GoOn(s, d, 1, layouts[Cat(s)][d]) /\ layouts[Cat(s)][d] \in SUBSET Nat /\ fetch[s].at = "manifest"
             /\ UNCHANGED <<asked, auth, left, row, entry, stopped, server, child, timer, inUse>>
  BY <1>1, ScanFacts DEF ManifestReturns, CoreTypes, authVars, jobVars
<1>2. CASE BlobLoaded(s)
  <2>a. fetch[s].at = "load" /\ fetch[s].at \in Fetching
    BY <1>2 DEF BlobLoaded, Fetching
  <2>1. Dig(s) \in Digests /\ fetch[s] \in Fetches
    BY <2>a DEF PhaseInv, Fetching, CoreTypes
  <2>2. fetch[s].next \in Nat /\ fetch[s].next + 1 \in Nat
    BY <2>1 DEF Fetches
  <2>3. Used(s) \cup {fetch[s].next} \in SUBSET Nat /\ layouts[Cat(s)][Dig(s)] \subseteq Used(s) \cup {fetch[s].next}
    BY <2>1, <2>2, ScanFacts DEF CoreTypes, Used
  <2>4. GoOn(s, Dig(s), fetch[s].next + 1, Used(s) \cup {fetch[s].next})
    BY <1>2 DEF BlobLoaded
  <2>5. UNCHANGED <<asked, auth, left, row, entry, stopped, server, child, timer, inUse>>
    BY <1>2 DEF BlobLoaded, authVars, jobVars
  <2>. QED BY <2>a, <2>1, <2>2, <2>3, <2>4, <2>5
<1>. QED BY <1>1, <1>2

\* One count of a table becomes x.
LEMMA CountChanged ==
    ASSUME NEW f \in [Catalogs -> [Digests -> Int]], NEW c \in Catalogs, NEW d, NEW x, d \in Digests => x \in Int
    PROVE  /\ [f EXCEPT ![c][d] = x] \in [Catalogs -> [Digests -> Int]]
           /\ d \in Digests => [f EXCEPT ![c][d] = x][c][d] = x
           /\ \A e \in Catalogs, g \in Digests : e # c \/ g # d => [f EXCEPT ![c][d] = x][e][g] = f[e][g]
<1> DEFINE row2 == [f[c] EXCEPT ![d] = x]
<1>1. row2 \in [Digests -> Int] /\ (d \in Digests => row2[d] = x) /\ \A g \in Digests : g # d => row2[g] = f[c][g]
  <2>1. CASE d \in Digests
    BY <2>1
  <2>2. CASE d \notin Digests
    BY <2>2
  <2>. QED BY <2>1, <2>2
<1>2. [f EXCEPT ![c][d] = x] = [f EXCEPT ![c] = row2]
  OBVIOUS
<1>. HIDE DEF row2
<1>. QED BY <1>1, <1>2

\* What the counters and the outcome become.
LEMMA UnusedTypes ==
    ASSUME CoreTypes, NEW s \in Scans
    PROVE  /\ Unused(s) \in [Catalogs -> [Digests -> Int]]
           /\ Dig(s) \in Digests => Unused(s)[Cat(s)][Dig(s)] = inUse[Cat(s)][Dig(s)] - 1
           /\ \A c \in Catalogs, d \in Digests :
                 c # Cat(s) \/ d # Dig(s) => Unused(s)[c][d] = inUse[c][d]
<1>1. Cat(s) \in Catalogs /\ inUse \in [Catalogs -> [Digests -> Int]]
  BY ScanFacts DEF CoreTypes
<1>2. Dig(s) \in Digests => inUse[Cat(s)][Dig(s)] - 1 \in Int
  BY <1>1
<1>. QED BY <1>1, <1>2, CountChanged DEF Unused

LEMMA ReleaseTypes ==
    ASSUME CoreTypes, NEW s \in Scans, Release(s[1])
    PROVE  left' \in [Requests -> Int] /\ auth' \subseteq Requests
  BY ScanFacts DEF Release, CoreTypes

LEMMA RejectedTypes ==
    ASSUME CoreTypes, NEW s \in Scans, Rejected(s)
    PROVE  /\ left' \in [Requests -> Int] /\ auth' \subseteq Requests
           /\ row' \in [Scans -> Terminal \cup {"absent", "running", "deleted"}]
           /\ entry' \in [Scans -> {"none", "fetch", "child"}]
<1>1. left' \in [Requests -> Int] /\ auth' \subseteq Requests
  BY ReleaseTypes DEF Rejected
<1>2. row' \in [Scans -> Terminal \cup {"absent", "running", "deleted"}]
  BY DEF Rejected, CoreTypes, Terminal
<1>3. entry' \in [Scans -> {"none", "fetch", "child"}]
  BY DEF Rejected, CoreTypes
<1>. QED BY <1>1, <1>2, <1>3

LEMMA SettleTypes ==
    ASSUME CoreTypes, NEW s \in Scans, NEW outcome \in Terminal, Settle(s, outcome)
    PROVE  /\ server' \in [Scans -> {"none", "open", "closed"}]
           /\ inUse' \in [Catalogs -> [Digests -> Int]]
           /\ row' \in [Scans -> Terminal \cup {"absent", "running", "deleted"}]
<1>1. server' \in [Scans -> {"none", "open", "closed"}]
  BY DEF Settle, CoreTypes
<1>2. inUse' \in [Catalogs -> [Digests -> Int]]
  BY UnusedTypes DEF Settle, CoreTypes
<1>3. row' \in [Scans -> Terminal \cup {"absent", "running", "deleted"}]
  BY DEF Settle, CoreTypes
<1>. QED BY <1>1, <1>2, <1>3

LEMMA TypesStep == CoreTypes /\ PhaseInv /\ [Next]_vars => CoreTypes'
<1> SUFFICES ASSUME CoreTypes, PhaseInv, [Next]_vars PROVE CoreTypes'
  OBVIOUS
<1>a. \A a \in Fetching \cup {"none", "done"} : \A s \in Scans : [fetch EXCEPT ![s].at = a] \in [Scans -> Fetches]
  BY FetchMoves DEF CoreTypes
<1>b. NoFetch \in Fetches /\ Done \in Fetches /\ [NoFetch EXCEPT !.at = "manifest"] \in Fetches
  BY DEF NoFetch, Done, Fetches, Fetching
<1>c. /\ {"manifest", "wait", "load", "lost", "close", "serve", "none", "done"} = Fetching \cup {"none", "done"}
        /\ Terminal = {"completed", "failed", "cancelled"}
  BY DEF Fetching, Terminal
<1>1. ASSUME NEW q \in Requests, Ask(q) \/ Begin(q) \/ BinaryFails(q) PROVE CoreTypes'
  <2>1. Cardinality(Of(q)) \in Int
    BY ScanAssumption, FS_Subset, FS_CardinalityType DEF ScanAssumption, Of
  <2>2. CASE Ask(q)
    BY <2>2 DEF Ask, CoreTypes, jobVars, phaseVars, cacheVars
  <2>3. CASE Begin(q)
    BY <1>b, <1>c, <2>1, <2>3 DEF Begin, CoreTypes, cacheVars
  <2>4. CASE BinaryFails(q)
    BY <1>c, <2>4 DEF BinaryFails, CoreTypes, phaseVars, cacheVars
  <2>. QED BY <1>1, <2>2, <2>3, <2>4
<1>2. ASSUME NEW s \in Scans, BlobLoaded(s) \/ \E d \in Digests : ManifestReturns(s, d) PROVE CoreTypes'
  <2>1. PICK d \in Digests, n \in Nat, files \in SUBSET Nat :
              /\ GoOn(s, d, n, files)
              /\ UNCHANGED <<asked, auth, left, row, entry, stopped, server, child, timer, inUse>>
    BY <1>2, GoOnFacts
  <2>2. fetch' \in [Scans -> Fetches] /\ layouts' \in [Catalogs -> [Digests -> SUBSET Nat]]
    BY <2>1, GoOnTypes
  <2>. QED BY <2>1, <2>2 DEF CoreTypes
<1>3. ASSUME NEW s \in Scans, BlobAnswered(s) PROVE CoreTypes'
  BY <1>a, <1>c, <1>3 DEF BlobAnswered, CoreTypes, authVars, jobVars, cacheVars
<1>4. ASSUME NEW s \in Scans, ClientCloses(s) PROVE CoreTypes'
  <2>1. fetch' \in [Scans -> Fetches]
    BY <1>a, <1>c, <1>4 DEF ClientCloses
  <2>2. Cat(s) \in Catalogs /\ inUse \in [Catalogs -> [Digests -> Int]]
    BY ScanFacts DEF CoreTypes
  <2>3. inUse' \in [Catalogs -> [Digests -> Int]]
    BY <1>4, <2>2, CountChanged DEF ClientCloses
  <2>. QED BY <1>4, <2>1, <2>3 DEF ClientCloses, CoreTypes, authVars, jobVars
<1>5. ASSUME NEW s \in Scans, Opened(s) PROVE CoreTypes'
  <2>1. layouts' \in [Catalogs -> [Digests -> SUBSET Nat]] /\ fetch' \in [Scans -> Fetches]
    BY <1>5, PruneTypes, ListensMoves DEF Opened, Listens
  <2>2. left' \in [Requests -> Int] /\ auth' \subseteq Requests
    BY <1>5, ReleaseTypes DEF Opened
  <2>3. inUse' \in [Catalogs -> [Digests -> Int]]
    BY <1>5, UnusedTypes DEF Opened, CoreTypes
  <2>4. /\ entry' \in [Scans -> {"none", "fetch", "child"}]
        /\ server' \in [Scans -> {"none", "open", "closed"}]
        /\ child' \in [Scans -> {"none", "lists", "exited", "closed"}]
        /\ timer' \in [Scans -> {"off", "armed", "grace"}]
    <3>1. CASE MayList(s)
      BY <1>5, <3>1 DEF Opened, CoreTypes
    <3>2. CASE ~MayList(s)
      <4>1. /\ entry' = [entry EXCEPT ![s] = IF @ = "fetch" THEN "none" ELSE @]
            /\ server' = [server EXCEPT ![s] = "closed"] /\ child' = child /\ timer' = timer
        BY <1>5, <3>2 DEF Opened
      <4>2. entry' \in [Scans -> {"none", "fetch", "child"}]
        BY <4>1 DEF CoreTypes
      <4>. QED BY <4>1, <4>2 DEF CoreTypes
    <3>. QED BY <3>1, <3>2
  <2>. QED BY <1>5, <2>1, <2>2, <2>3, <2>4 DEF Opened, CoreTypes
<1>6. ASSUME NEW s \in Scans, ListingUnprepared(s) PROVE CoreTypes'
  <2>1. layouts' \in [Catalogs -> [Digests -> SUBSET Nat]] /\ fetch' \in [Scans -> Fetches]
    BY <1>6, PruneTypes, ListensMoves DEF ListingUnprepared, Listens
  <2>2. /\ left' \in [Requests -> Int] /\ auth' \subseteq Requests
        /\ row' \in [Scans -> Terminal \cup {"absent", "running", "deleted"}]
        /\ entry' \in [Scans -> {"none", "fetch", "child"}]
    BY <1>6, RejectedTypes DEF ListingUnprepared
  <2>. QED BY <1>6, <2>1, <2>2 DEF ListingUnprepared, CoreTypes
<1>7. ASSUME NEW s \in Scans, FetchFails(s) PROVE CoreTypes'
  <2>1. fetch' \in [Scans -> Fetches]
    BY <1>a, <1>c, <1>7 DEF FetchFails
  <2>2. inUse' \in [Catalogs -> [Digests -> Int]]
    BY <1>7, UnusedTypes DEF FetchFails, CoreTypes
  <2>3. /\ left' \in [Requests -> Int] /\ auth' \subseteq Requests
        /\ row' \in [Scans -> Terminal \cup {"absent", "running", "deleted"}]
        /\ entry' \in [Scans -> {"none", "fetch", "child"}]
    BY <1>7, RejectedTypes DEF FetchFails
  <2>. QED BY <1>7, <2>1, <2>2, <2>3 DEF FetchFails, CoreTypes
<1>8. ASSUME NEW s \in Scans, ChildExits(s) \/ GraceEnds(s) PROVE CoreTypes'
  BY <1>8 DEF ChildExits, GraceEnds, CoreTypes, authVars, jobVars, cacheVars
<1>9. ASSUME NEW s \in Scans, NEW ok \in BOOLEAN, SpawnErrors(s) \/ Timeout(s) \/ Close(s, ok)
       PROVE  CoreTypes'
  <2>1. PICK outcome \in Terminal : Settle(s, outcome)
    BY <1>c, <1>9 DEF SpawnErrors, Timeout, Close
  <2>2. /\ server' \in [Scans -> {"none", "open", "closed"}]
        /\ inUse' \in [Catalogs -> [Digests -> Int]]
        /\ row' \in [Scans -> Terminal \cup {"absent", "running", "deleted"}]
    BY <2>1, SettleTypes
  <2>3. /\ entry' \in [Scans -> {"none", "fetch", "child"}]
        /\ child' \in [Scans -> {"none", "lists", "exited", "closed"}]
        /\ timer' \in [Scans -> {"off", "armed", "grace"}]
    BY <1>9 DEF SpawnErrors, Timeout, Close, CoreTypes
  <2>. QED BY <1>9, <2>2, <2>3 DEF SpawnErrors, Timeout, Close, CoreTypes, authVars
<1>10. ASSUME NEW s \in Scans, Stop(s) \/ Forget(s) PROVE CoreTypes'
  <2>1. row' \in [Scans -> Terminal \cup {"absent", "running", "deleted"}]
    BY <1>c, <1>10 DEF Stop, Forget, CoreTypes
  <2>2. entry' \in [Scans -> {"none", "fetch", "child"}] /\ stopped' \subseteq Scans
    BY <1>10 DEF Stop, Forget, CoreTypes
  <2>. QED BY <1>10, <2>1, <2>2 DEF Stop, Forget, CoreTypes, authVars, phaseVars, cacheVars
<1>11. CASE Restart
  BY <1>b, <1>c, <1>11 DEF Restart, CoreTypes
<1>12. CASE UNCHANGED vars
  BY <1>12 DEF vars, CoreTypes
<1>. QED
  BY <1>1, <1>2, <1>3, <1>4, <1>5, <1>6, <1>7, <1>8, <1>9, <1>10, <1>11, <1>12
  DEF Next, Served, FetchStep

-----------------------------------------------------------------------------
(* The phases *)

\* A step that changes one scan, of a request whose scans exist, and fetches that lose
\* their part file.
LEMMA PhaseKept ==
    ASSUME CoreTypes, PhaseInv, NEW s \in Scans, asked' = asked, asked[s[1]] = "done",
           \A r \in Scans \ {s} :
              /\ row'[r] = row[r] /\ entry'[r] = entry[r] /\ server'[r] = server[r] /\ child'[r] = child[r]
              /\ fetch'[r].of = fetch[r].of /\ (r \in stopped' <=> r \in stopped)
              /\ fetch'[r] = fetch[r] \/ (fetch[r].at = "load" /\ fetch'[r].at = "lost"),
           stopped' \subseteq Scans,
           fetch'[s].at # "done" => server'[s] = "none" /\ child'[s] = "none",
           fetch'[s].at \in Fetching \ {"manifest"} \/ server'[s] = "open" => fetch'[s].of \in Digests,
           s \in stopped' => entry'[s] = "none"
    PROVE  PhaseInv'
<1>1. \A r \in Scans : asked'[r[1]] # "done" => r # s
  OBVIOUS
<1>2. \A r \in Scans \ {s} : asked'[r[1]] # "done" => row'[r] = "absent" /\ entry'[r] = "none" /\ fetch'[r].at = "none" /\ r \notin stopped'
  BY DEF PhaseInv
<1>3. \A r \in Scans \ {s} : fetch'[r].at # "done" => server'[r] = "none" /\ child'[r] = "none"
  BY DEF PhaseInv
<1>4. \A r \in Scans \ {s} : fetch'[r].at \in Fetching \ {"manifest"} \/ server'[r] = "open" => fetch'[r].of \in Digests
  BY DEF PhaseInv, Dig, Fetching
<1>5. \A r \in stopped' \ {s} : entry'[r] = "none"
  BY DEF PhaseInv
<1>. QED BY <1>1, <1>2, <1>3, <1>4, <1>5 DEF PhaseInv, Dig

LEMMA PhaseStep == CoreTypes /\ PhaseInv /\ [Next]_vars => PhaseInv'
<1> SUFFICES ASSUME CoreTypes, PhaseInv, [Next]_vars PROVE PhaseInv'
  OBVIOUS
<1>a. \A s \in Scans : fetch[s].at # "none" \/ entry[s] # "none" \/ row[s] # "absent" \/ s \in stopped => asked[s[1]] = "done"
  BY DEF PhaseInv
<1>b. \A s \in Scans : server[s] # "none" \/ child[s] # "none" => fetch[s].at = "done"
  BY DEF PhaseInv
<1>c. fetch \in [Scans -> Fetches] /\ \A s \in Scans : s[1] \in Requests
  BY ScanFacts DEF CoreTypes
<1>1. ASSUME NEW q \in Requests, Ask(q) \/ Begin(q) \/ BinaryFails(q) PROVE PhaseInv'
  <2>1. CASE Ask(q)
    BY <1>c, <2>1 DEF Ask, PhaseInv, Dig, CoreTypes, jobVars, phaseVars, cacheVars
  <2>2. CASE Begin(q)
    <3>1. asked' = [asked EXCEPT ![q] = "done"] /\ asked[q] = "resolving" /\ UNCHANGED <<server, child, stopped>>
      BY <2>2 DEF Begin
    <3>2. \A s \in Scans \ Of(q) : row'[s] = row[s] /\ entry'[s] = entry[s] /\ fetch'[s] = fetch[s] /\ asked'[s[1]] = asked[s[1]]
      BY <2>2, <1>c, <3>1 DEF Begin, Of, CoreTypes
    <3>3. \A s \in Of(q) :
            /\ fetch'[s].at = "manifest" /\ asked'[s[1]] = "done"
            /\ server[s] = "none" /\ child[s] = "none" /\ s \notin stopped
      BY <2>2, <1>a, <1>b, <3>1 DEF Begin, Of, CoreTypes, NoFetch
    <3>4. \A s \in Scans \ Of(q) :
            /\ asked'[s[1]] # "done" => row'[s] = "absent" /\ entry'[s] = "none" /\ fetch'[s].at = "none" /\ s \notin stopped'
            /\ fetch'[s].at # "done" => server'[s] = "none" /\ child'[s] = "none"
            /\ fetch'[s].at \in Fetching \ {"manifest"} \/ server'[s] = "open" => fetch'[s].of \in Digests
            /\ s \in stopped' => entry'[s] = "none"
      BY <3>1, <3>2 DEF PhaseInv, Dig
    <3>5. stopped' \subseteq Scans
      BY <3>1 DEF CoreTypes
    <3>. QED BY <3>1, <3>3, <3>4, <3>5 DEF PhaseInv, Dig
  <2>3. CASE BinaryFails(q)
    BY <1>c, <2>3 DEF BinaryFails, PhaseInv, Dig, CoreTypes, Of, phaseVars
  <2>. QED BY <1>1, <2>1, <2>2, <2>3
<1>2. ASSUME NEW s \in Scans, BlobLoaded(s) \/ \E d \in Digests : ManifestReturns(s, d) PROVE PhaseInv'
  <2>1. PICK d \in Digests, n \in Nat, files \in SUBSET Nat :
              /\ GoOn(s, d, n, files) /\ fetch[s].at \in {"manifest", "load"}
              /\ UNCHANGED <<asked, row, entry, stopped, server, child>>
    BY <1>2, GoOnFacts
  <2>2. fetch'[s].of = d /\ \A r \in Scans \ {s} : fetch'[r] = fetch[r]
    BY <2>1, GoOnTypes
  <2>3. fetch[s].at # "done" /\ asked[s[1]] = "done"
    BY <1>a, <2>1
  <2>4. fetch'[s].at # "done" => server'[s] = "none" /\ child'[s] = "none"
    BY <2>1, <2>3 DEF PhaseInv
  <2>5. s \in stopped' => entry'[s] = "none"
    BY <2>1 DEF PhaseInv
  <2>6. stopped' \subseteq Scans /\ server'[s] # "open"
    BY <2>1, <2>3 DEF PhaseInv, CoreTypes
  <2>. QED BY <2>1, <2>2, <2>3, <2>4, <2>5, <2>6, PhaseKept
<1>3. ASSUME NEW s \in Scans, BlobAnswered(s) \/ ClientCloses(s) PROVE PhaseInv'
  <2>1. /\ fetch[s].at \in {"wait", "close"} /\ fetch' = [fetch EXCEPT ![s].at = IF fetch[s].at = "wait" THEN "load" ELSE "serve"]
        /\ UNCHANGED <<asked, row, entry, stopped, server, child>>
    BY <1>3 DEF BlobAnswered, ClientCloses, jobVars
  <2>2. fetch[s].at # "done" /\ asked[s[1]] = "done" /\ Dig(s) \in Digests
    BY <1>a, <2>1 DEF PhaseInv, Fetching
  <2>3. fetch[s] \in Fetches /\ fetch'[s].of = fetch[s].of /\ fetch'[s].at # "done" /\ \A r \in Scans \ {s} : fetch'[r] = fetch[r]
    BY <1>c, <2>1 DEF Fetches
  <2>. QED BY <2>1, <2>2, <2>3, PhaseKept DEF PhaseInv, CoreTypes, Dig
<1>4. ASSUME NEW s \in Scans, Opened(s) PROVE PhaseInv'
  <2>1. Listens(s) /\ fetch[s].at = "serve" /\ asked[s[1]] = "done" /\ Dig(s) \in Digests
    BY <1>a, <1>4 DEF Opened, Listens, PhaseInv, Fetching
  <2>2. UNCHANGED <<asked, row, stopped>>
    BY <1>4 DEF Opened
  <2>3. \A r \in Scans \ {s} : entry'[r] = entry[r] /\ server'[r] = server[r] /\ child'[r] = child[r]
    <3>1. CASE MayList(s)
      BY <1>4, <3>1 DEF Opened, CoreTypes
    <3>2. CASE ~MayList(s)
      BY <1>4, <3>2 DEF Opened, CoreTypes
    <3>. QED BY <3>1, <3>2
  <2>4. s \in stopped => entry[s] = "none" /\ ~MayList(s)
    BY DEF PhaseInv, MayList
  <2>5. s \in stopped => entry'[s] = "none"
    BY <1>4, <2>4 DEF Opened, CoreTypes
  <2>. QED BY <2>1, <2>2, <2>3, <2>5, PhaseKept, ListensMoves DEF CoreTypes, Dig
<1>5. ASSUME NEW s \in Scans, ListingUnprepared(s) PROVE PhaseInv'
  <2>1. Listens(s) /\ fetch[s].at = "serve" /\ asked[s[1]] = "done" /\ Dig(s) \in Digests
    BY <1>a, <1>5 DEF ListingUnprepared, Listens, PhaseInv, Fetching
  <2>2. UNCHANGED <<asked, child, stopped>>
    BY <1>5 DEF ListingUnprepared
  <2>3. \A r \in Scans \ {s} : entry'[r] = entry[r] /\ server'[r] = server[r] /\ row'[r] = row[r]
    BY <1>5 DEF ListingUnprepared, Rejected, CoreTypes
  <2>4. s \in stopped => entry'[s] = "none"
    BY <1>5 DEF ListingUnprepared, Rejected, PhaseInv, CoreTypes
  <2>. QED BY <2>1, <2>2, <2>3, <2>4, PhaseKept, ListensMoves DEF CoreTypes, Dig
<1>6. ASSUME NEW s \in Scans, FetchFails(s) PROVE PhaseInv'
  <2>1. fetch[s].at \in Fetching /\ asked[s[1]] = "done" /\ server[s] = "none"
    BY <1>a, <1>b, <1>6 DEF FetchFails, Fetching
  <2>2. /\ UNCHANGED <<asked, child, server, stopped>> /\ fetch'[s].at = "done"
        /\ \A r \in Scans \ {s} : fetch'[r] = fetch[r]
    BY <1>c, <1>6 DEF FetchFails, Fetches
  <2>3. \A r \in Scans \ {s} : entry'[r] = entry[r] /\ row'[r] = row[r]
    BY <1>6 DEF FetchFails, Rejected, CoreTypes
  <2>4. s \in stopped => entry'[s] = "none"
    BY <1>6 DEF FetchFails, Rejected, PhaseInv, CoreTypes
  <2>5. stopped' \subseteq Scans /\ "done" \notin Fetching /\ server'[s] = "none"
    BY <2>1, <2>2 DEF CoreTypes, Fetching
  <2>. QED BY <2>1, <2>2, <2>3, <2>4, <2>5, PhaseKept
<1>7. ASSUME NEW s \in Scans, NEW ok \in BOOLEAN, SpawnErrors(s) \/ Timeout(s) \/ Close(s, ok) PROVE PhaseInv'
  <2>1. fetch[s].at = "done" /\ asked[s[1]] = "done"
    BY <1>a, <1>b, <1>7 DEF SpawnErrors, Timeout, Close, Unsettled
  <2>2. PICK outcome \in {"completed", "failed"} : Settle(s, outcome)
    BY <1>7 DEF SpawnErrors, Timeout, Close
  <2>3. \A r \in Scans \ {s} : row'[r] = row[r] /\ server'[r] = server[r]
    BY <2>2 DEF Settle, CoreTypes
  <2>4. server'[s] = "open" => server[s] = "open" /\ FALSE
    BY <2>2 DEF Settle, CoreTypes
  <2>5. UNCHANGED <<asked, fetch, stopped>> /\ \A r \in Scans \ {s} : child'[r] = child[r] /\ entry'[r] = entry[r]
    BY <1>7 DEF SpawnErrors, Timeout, Close, CoreTypes
  <2>6. entry'[s] \in {entry[s], "none"}
    BY <1>7 DEF SpawnErrors, Timeout, Close, CoreTypes
  <2>7. s \in stopped => entry'[s] = "none"
    BY <2>6 DEF PhaseInv
  <2>. QED BY <2>1, <2>3, <2>4, <2>5, <2>7, PhaseKept DEF CoreTypes, Fetching
<1>8. ASSUME NEW s \in Scans, ChildExits(s) \/ GraceEnds(s) PROVE PhaseInv'
  <2>1. UNCHANGED <<asked, fetch, row, entry, stopped, server>> /\ \A r \in Scans : child[r] = "none" => child'[r] = "none"
    BY <1>8 DEF ChildExits, GraceEnds, CoreTypes, jobVars
  <2>. QED BY <2>1 DEF PhaseInv, Dig
<1>9. ASSUME NEW s \in Scans, Stop(s) \/ Forget(s) PROVE PhaseInv'
  <2>1. UNCHANGED <<asked, fetch, server, child>> /\ \A r \in Scans \ {s} : row'[r] = row[r] /\ entry'[r] = entry[r]
    BY <1>9 DEF Stop, Forget, CoreTypes, phaseVars
  <2>2. asked[s[1]] = "done"
    BY <1>a, <1>9 DEF Stop, Forget, Terminal
  <2>3. stopped' \in {stopped, stopped \cup {s}} /\ (s \in stopped' => entry'[s] = "none")
    BY <1>9 DEF Stop, Forget, CoreTypes, PhaseInv
  <2>. QED BY <2>1, <2>2, <2>3 DEF PhaseInv, Dig, CoreTypes
<1>10. CASE Restart
  <2>1. \A s \in Scans : asked'[s[1]] # "done" => asked[s[1]] # "done"
    BY <1>10, <1>c DEF Restart
  <2>2. \A s \in Scans :
            /\ server'[s] = "none" /\ child'[s] = "none" /\ entry'[s] = "none"
            /\ fetch'[s].at \in {"none", "done"} /\ (fetch[s].at = "none" => fetch'[s].at = "none")
            /\ row[s] = "absent" => row'[s] = "absent"
    BY <1>10 DEF Restart, NoFetch, Done
  <2>3. stopped' = stopped /\ stopped \subseteq Scans
    BY <1>10 DEF Restart, CoreTypes
  <2>4. \A s \in Scans : asked'[s[1]] # "done" => row'[s] = "absent" /\ entry'[s] = "none" /\ fetch'[s].at = "none" /\ s \notin stopped'
    BY <2>1, <2>2, <2>3 DEF PhaseInv
  <2>5. \A s \in Scans : ~(fetch'[s].at \in Fetching \ {"manifest"} \/ server'[s] = "open")
    BY <2>2 DEF Fetching
  <2>. QED BY <2>2, <2>3, <2>4, <2>5 DEF PhaseInv
<1>11. CASE UNCHANGED vars
  BY <1>11 DEF vars, PhaseInv, Dig
<1>. QED
  BY <1>1, <1>2, <1>3, <1>4, <1>5, <1>6, <1>7, <1>8, <1>9, <1>10, <1>11
  DEF Next, Served, FetchStep

-----------------------------------------------------------------------------
(* The secret *)

\* Nobody starts or ends fetching.
LEMMA SecretKept ==
    ASSUME SecretInv, UNCHANGED <<auth, left, asked>>,
           \A s \in Scans : fetch'[s].at \in Fetching <=> fetch[s].at \in Fetching
    PROVE  SecretInv'
<1>1. \A q \in Requests : Fetchers(q)' = Fetchers(q)
  BY DEF Fetchers, Of
<1>2. \A q \in Requests : (\E s \in Of(q) : fetch[s].at \in Fetching)' <=> \E s \in Of(q) : fetch[s].at \in Fetching
  BY DEF Of
<1>. QED BY <1>1, <1>2 DEF SecretInv, SecretLivesWithFetches

\* One fetch ends and releases the secret.
LEMMA SecretReleased ==
    ASSUME CoreTypes, PhaseInv, SecretInv, NEW s \in Scans, Release(s[1]), asked' = asked,
           fetch[s].at \in Fetching, fetch'[s].at \notin Fetching,
           \A r \in Scans \ {s} : fetch'[r].at \in Fetching <=> fetch[r].at \in Fetching
    PROVE  SecretInv'
<1>1. s[1] \in Requests /\ asked[s[1]] = "done" /\ s \in Fetchers(s[1])
  BY ScanFacts DEF PhaseInv, Fetching, Fetchers, Of
<1>2. \A q \in Requests : q # s[1] => Fetchers(q)' = Fetchers(q)
  BY DEF Fetchers, Of
<1>3. Fetchers(s[1])' = Fetchers(s[1]) \ {s}
  BY DEF Fetchers, Of
<1>4. Fetchers(s[1]) \subseteq Scans
  BY DEF Fetchers, Of
<1>5. /\ Cardinality(Fetchers(s[1])') = left[s[1]] - 1
      /\ left[s[1]] > 1 <=> Fetchers(s[1])' # {}
  <2> DEFINE S == Fetchers(s[1])
             T == S \ {s}
  <2>1. S \subseteq Scans /\ s \in S /\ left[s[1]] = Cardinality(S)
    BY <1>1, <1>4 DEF SecretInv
  <2>2. Cardinality(T) = Cardinality(S) - 1 /\ (Cardinality(S) > 1 <=> T # {})
    <3>. HIDE DEF S
    <3>. QED BY <2>1, OneLess
  <2>3. Fetchers(s[1])' = T
    BY <1>3
  <2>. HIDE DEF S, T
  <2>. QED BY <2>1, <2>2, <2>3
<1>6. left' = [left EXCEPT ![s[1]] = @ - 1] /\ auth' = IF left[s[1]] > 1 THEN auth ELSE auth \ {s[1]}
  BY DEF Release
<1>7. \A q \in Requests : left'[q] = Cardinality(Fetchers(q)')
  BY <1>1, <1>2, <1>5, <1>6 DEF SecretInv, CoreTypes
<1>8. \A q \in Requests : q \in auth <=> asked[q] = "resolving" \/ Fetchers(q) # {}
  BY DEF SecretInv, SecretLivesWithFetches, Fetchers
<1>9. \A q \in Requests : q \in auth' <=> asked'[q] = "resolving" \/ Fetchers(q)' # {}
  BY <1>1, <1>2, <1>5, <1>6, <1>8
<1>10. SecretLivesWithFetches'
  BY <1>9 DEF SecretLivesWithFetches, Fetchers, Of
<1>. QED BY <1>7, <1>10 DEF SecretInv

LEMMA SecretStep == CoreTypes /\ PhaseInv /\ SecretInv /\ [Next]_vars => SecretInv'
<1> SUFFICES ASSUME CoreTypes, PhaseInv, SecretInv, [Next]_vars PROVE SecretInv'
  OBVIOUS
<1>a. fetch \in [Scans -> Fetches] /\ asked \in [Requests -> {"new", "resolving", "done"}]
      /\ left \in [Requests -> Int] /\ auth \subseteq Requests
  BY DEF CoreTypes
<1>b. \A q \in Requests : q \in auth <=> asked[q] = "resolving" \/ Fetchers(q) # {}
  BY DEF SecretInv, SecretLivesWithFetches, Fetchers
<1>c. (\A q \in Requests : left'[q] = Cardinality(Fetchers(q)') /\ (q \in auth' <=> asked'[q] = "resolving" \/ Fetchers(q)' # {}))
        => SecretInv'
  <2> SUFFICES ASSUME \A q \in Requests : left'[q] = Cardinality(Fetchers(q)') /\ (q \in auth' <=> asked'[q] = "resolving" \/ Fetchers(q)' # {})
      PROVE  SecretInv'
    OBVIOUS
  <2>1. SecretLivesWithFetches'
    BY DEF SecretLivesWithFetches, Fetchers, Of
  <2>. QED BY <2>1 DEF SecretInv
<1>d. \A q \in Requests : asked[q] # "done" => Fetchers(q) = {}
  BY DEF Fetchers, Of, PhaseInv, Fetching
<1>1. ASSUME NEW q \in Requests, Ask(q) PROVE SecretInv'
  <2>1. \A p \in Requests : Fetchers(p)' = Fetchers(p)
    BY <1>1 DEF Ask, Fetchers, Of, phaseVars
  <2>. QED BY <1>a, <1>b, <1>c, <1>1, <2>1 DEF Ask, SecretInv
<1>2. ASSUME NEW q \in Requests, Begin(q) PROVE SecretInv'
  <2>1. \A p \in Requests \ {q} : Fetchers(p)' = Fetchers(p)
    BY <1>2, <1>a DEF Begin, Fetchers, Of
  <2>2. Fetchers(q)' = Of(q)
    BY <1>2, <1>a DEF Begin, Fetchers, Of, NoFetch, Fetching
  <2>3. Of(q) # {}
    BY ScanAssumption DEF ScanAssumption, Of
  <2>4. left' = [left EXCEPT ![q] = Cardinality(Of(q))] /\ auth' = auth /\ asked[q] = "resolving" /\ asked' = [asked EXCEPT ![q] = "done"]
    BY <1>2 DEF Begin
  <2>. QED BY <1>a, <1>b, <1>c, <2>1, <2>2, <2>3, <2>4 DEF SecretInv
<1>3. ASSUME NEW q \in Requests, BinaryFails(q) PROVE SecretInv'
  <2>1. \A p \in Requests : Fetchers(p)' = Fetchers(p)
    BY <1>3 DEF BinaryFails, Fetchers, Of, phaseVars
  <2>2. Fetchers(q) = {}
    BY <1>3, <1>d DEF BinaryFails
  <2>. QED BY <1>a, <1>b, <1>c, <1>3, <2>1, <2>2 DEF BinaryFails, SecretInv
<1>4. ASSUME NEW s \in Scans, BlobLoaded(s) \/ \E d \in Digests : ManifestReturns(s, d) PROVE SecretInv'
  <2>1. PICK d \in Digests, n \in Nat, files \in SUBSET Nat :
              /\ GoOn(s, d, n, files) /\ fetch[s].at \in {"manifest", "load"}
              /\ UNCHANGED <<asked, auth, left>>
    BY <1>4, GoOnFacts
  <2>2. fetch'[s].at \in {"wait", "close"} /\ \A r \in Scans \ {s} : fetch'[r] = fetch[r]
    BY <2>1, GoOnTypes
  <2>. QED BY <2>1, <2>2, SecretKept DEF Fetching
<1>5. ASSUME NEW s \in Scans, BlobAnswered(s) \/ ClientCloses(s) PROVE SecretInv'
  <2>1. /\ fetch[s].at \in {"wait", "close"} /\ fetch' = [fetch EXCEPT ![s].at = IF fetch[s].at = "wait" THEN "load" ELSE "serve"]
        /\ UNCHANGED <<auth, left, asked>>
    BY <1>5 DEF BlobAnswered, ClientCloses, authVars
  <2>2. fetch'[s].at \in {"load", "serve"} /\ \A r \in Scans \ {s} : fetch'[r] = fetch[r]
    BY <1>a, <2>1 DEF Fetches
  <2>. QED BY <2>1, <2>2, SecretKept DEF Fetching
<1>6. ASSUME NEW s \in Scans, Opened(s) \/ ListingUnprepared(s) PROVE SecretInv'
  <2>1. Listens(s) /\ Release(s[1]) /\ asked' = asked
    BY <1>6 DEF Opened, ListingUnprepared, Rejected
  <2>2. fetch[s].at \in Fetching /\ fetch'[s].at \notin Fetching
    BY <2>1, ListensMoves DEF Fetching
  <2>3. \A r \in Scans \ {s} : fetch'[r].at \in Fetching <=> fetch[r].at \in Fetching
    BY <2>1, ListensMoves DEF Fetching
  <2>. QED BY <2>1, <2>2, <2>3, SecretReleased
<1>7. ASSUME NEW s \in Scans, FetchFails(s) PROVE SecretInv'
  <2>1. Release(s[1]) /\ asked' = asked /\ fetch[s].at \in Fetching /\ fetch' = [fetch EXCEPT ![s].at = "done"]
    BY <1>7 DEF FetchFails, Rejected
  <2>2. fetch'[s].at = "done" /\ \A r \in Scans \ {s} : fetch'[r] = fetch[r]
    BY <1>a, <2>1 DEF Fetches
  <2>3. fetch'[s].at \notin Fetching
    BY <2>2 DEF Fetching
  <2>. QED BY <2>1, <2>2, <2>3, SecretReleased
<1>8. ASSUME NEW s \in Scans, NEW ok \in BOOLEAN,
             SpawnErrors(s) \/ ChildExits(s) \/ Timeout(s) \/ GraceEnds(s) \/ Close(s, ok) \/ Stop(s) \/ Forget(s)
      PROVE  SecretInv'
  <2>1. UNCHANGED <<auth, left, asked, fetch>>
    BY <1>8 DEF SpawnErrors, ChildExits, Timeout, GraceEnds, Close, Stop, Forget, authVars, phaseVars
  <2>. QED BY <2>1, SecretKept
<1>9. CASE Restart
  <2>1. \A s \in Scans : fetch'[s].at \notin Fetching
    BY <1>9 DEF Restart, NoFetch, Done, Fetching
  <2>2. \A q \in Requests : Fetchers(q)' = {}
    BY <2>1 DEF Fetchers, Of
  <2>3. \A q \in Requests : left'[q] = 0 /\ q \notin auth' /\ asked'[q] # "resolving"
    BY <1>9, <1>a DEF Restart
  <2>. QED BY <1>c, <2>2, <2>3, FS_EmptySet
<1>10. CASE UNCHANGED vars
  BY <1>10, SecretKept DEF vars
<1>. QED
  BY <1>1, <1>2, <1>3, <1>4, <1>5, <1>6, <1>7, <1>8, <1>9, <1>10 DEF Next, Served, FetchStep

-----------------------------------------------------------------------------
(* The counts *)

\* Nobody begins or ends using a layout.
LEMMA CountKept ==
    ASSUME CountInv, inUse' = inUse,
           \A s \in Scans : (Uses(s)' <=> Uses(s)) /\ (Uses(s) => fetch'[s].of = fetch[s].of)
    PROVE  CountInv'
<1>1. \A c \in Catalogs, d \in Digests : Users(c, d)' = Users(c, d)
  BY DEF Users, Dig, Cat
<1>. QED BY <1>1 DEF CountInv

\* One scan begins.
LEMMA CountMore ==
    ASSUME CoreTypes, CountInv, NEW s \in Scans, ClientCloses(s), Dig(s) \in Digests, server[s] = "none"
    PROVE  CountInv'
<1>1. /\ fetch' = [fetch EXCEPT ![s].at = "serve"] /\ server' = server /\ fetch[s].at = "close"
      /\ inUse' = [inUse EXCEPT ![Cat(s)][Dig(s)] = @ + 1]
  BY DEF ClientCloses
<1>2. fetch'[s].at = "serve" /\ fetch'[s].of = fetch[s].of /\ \A r \in Scans \ {s} : fetch'[r] = fetch[r]
  BY <1>1 DEF CoreTypes, Fetches
<1>3. Uses(s)' /\ ~Uses(s) /\ \A r \in Scans \ {s} : Uses(r)' <=> Uses(r)
  BY <1>1, <1>2 DEF Uses
<1>4. \A c \in Catalogs, d \in Digests : c # Cat(s) \/ d # Dig(s) => Users(c, d)' = Users(c, d)
  BY <1>2, <1>3 DEF Users, Dig, Cat
<1>5. \A c \in Catalogs, d \in Digests : c # Cat(s) \/ d # Dig(s) => inUse'[c][d] = inUse[c][d]
  BY <1>1, ScanFacts, CountChanged DEF CoreTypes
<1>6. Users(Cat(s), Dig(s)) = Users(Cat(s), Dig(s))' \ {s} /\ s \in Users(Cat(s), Dig(s))'
  BY <1>2, <1>3 DEF Users, Dig, Cat
<1>7. Cardinality(Users(Cat(s), Dig(s))) = Cardinality(Users(Cat(s), Dig(s))') - 1 /\ Cardinality(Users(Cat(s), Dig(s))') \in Nat
  <2> DEFINE S == Users(Cat(s), Dig(s))'
             T == Users(Cat(s), Dig(s))
  <2>1. S \subseteq Scans /\ s \in S /\ T = S \ {s}
    BY <1>6 DEF Users
  <2>2. Cardinality(T) = Cardinality(S) - 1 /\ Cardinality(S) \in Nat
    <3>. HIDE DEF S, T
    <3>. QED BY <2>1, OneLess
  <2>. QED BY <2>2
<1>8. inUse'[Cat(s)][Dig(s)] = inUse[Cat(s)][Dig(s)] + 1
  BY <1>1, ScanFacts, CountChanged DEF CoreTypes
<1>9. Cardinality(Users(Cat(s), Dig(s))') = inUse[Cat(s)][Dig(s)] + 1
  BY <1>7, ScanFacts DEF CountInv
<1>10. \A c \in Catalogs, d \in Digests : inUse'[c][d] = Cardinality(Users(c, d)')
  <2>1. \A c \in Catalogs, d \in Digests : c = Cat(s) /\ d = Dig(s) => inUse'[c][d] = Cardinality(Users(c, d)')
    <3>1. inUse'[Cat(s)][Dig(s)] = Cardinality(Users(Cat(s), Dig(s))')
      BY <1>8, <1>9
    <3>2. \A c \in Catalogs, d \in Digests : c = Cat(s) /\ d = Dig(s) => Users(c, d)' = Users(Cat(s), Dig(s))'
      BY <1>2 DEF Users, Dig, Cat
    <3>. QED BY <3>1, <3>2
  <2>. QED BY <1>4, <1>5, <2>1 DEF CountInv
<1>. QED BY <1>10 DEF CountInv

\* One scan ends.
LEMMA CountLess ==
    ASSUME CoreTypes, CountInv, NEW s \in Scans, inUse' = Unused(s), Dig(s) \in Digests, Uses(s), ~Uses(s)',
           \A r \in Scans \ {s} : (Uses(r)' <=> Uses(r)) /\ fetch'[r].of = fetch[r].of
    PROVE  CountInv'
<1>4. \A c \in Catalogs, d \in Digests : c # Cat(s) \/ d # Dig(s) => Users(c, d)' = Users(c, d)
  BY DEF Users, Dig, Cat
<1>5. \A c \in Catalogs, d \in Digests : c # Cat(s) \/ d # Dig(s) => inUse'[c][d] = inUse[c][d]
  BY UnusedTypes
<1> DEFINE S == Users(Cat(s), Dig(s))
           T == S \ {s}
<1>6. S \subseteq Scans /\ s \in S
  BY DEF Users
<1>7. Cardinality(T) = Cardinality(S) - 1
  <2>. HIDE DEF S
  <2>. QED BY <1>6, OneLess
<1>8. inUse'[Cat(s)][Dig(s)] = inUse[Cat(s)][Dig(s)] - 1 /\ inUse[Cat(s)][Dig(s)] = Cardinality(S)
  BY UnusedTypes, ScanFacts DEF CountInv
<1>9. \A c \in Catalogs, d \in Digests : c = Cat(s) /\ d = Dig(s) => Users(c, d)' = T
  BY DEF Users, Dig, Cat
<1>10. \A c \in Catalogs, d \in Digests : inUse'[c][d] = Cardinality(Users(c, d)')
  <2>. HIDE DEF S, T
  <2>. QED BY <1>4, <1>5, <1>7, <1>8, <1>9 DEF CountInv
<1>. QED BY <1>10 DEF CountInv

LEMMA CountStep == CoreTypes /\ PhaseInv /\ CountInv /\ [Next]_vars => CountInv'
<1> SUFFICES ASSUME CoreTypes, PhaseInv, CountInv, [Next]_vars PROVE CountInv'
  OBVIOUS
<1>a. fetch \in [Scans -> Fetches]
  BY DEF CoreTypes
<1>b. \A s \in Scans : fetch[s].at # "done" => server[s] = "none"
  BY DEF PhaseInv
<1>c. \A s \in Scans : Uses(s) => Dig(s) \in Digests
  BY DEF PhaseInv, Uses, Fetching
<1>1. ASSUME NEW q \in Requests, Ask(q) \/ BinaryFails(q) PROVE CountInv'
  BY <1>1, CountKept DEF Ask, BinaryFails, phaseVars, cacheVars, Uses
<1>2. ASSUME NEW q \in Requests, Begin(q) PROVE CountInv'
  <2>1. \A s \in Of(q) : fetch[s].at = "none" /\ fetch'[s].at = "manifest" /\ server[s] = "none"
    BY <1>a, <1>2 DEF Begin, Of, PhaseInv, NoFetch
  <2>2. inUse' = inUse /\ server' = server /\ \A s \in Scans \ Of(q) : fetch'[s] = fetch[s]
    BY <1>2 DEF Begin, cacheVars
  <2>3. \A s \in Of(q) : ~Uses(s) /\ ~Uses(s)'
    BY <2>1, <2>2 DEF Uses, Of
  <2>. QED BY <2>2, <2>3, CountKept DEF Uses
<1>3. ASSUME NEW s \in Scans, BlobLoaded(s) \/ \E d \in Digests : ManifestReturns(s, d) PROVE CountInv'
  <2>1. PICK d \in Digests, n \in Nat, files \in SUBSET Nat :
              /\ GoOn(s, d, n, files) /\ fetch[s].at \in {"manifest", "load"}
              /\ UNCHANGED <<server, inUse>>
    BY <1>3, GoOnFacts
  <2>2. fetch'[s].at \in {"wait", "close"} /\ \A r \in Scans \ {s} : fetch'[r] = fetch[r]
    BY <2>1, GoOnTypes
  <2>3. ~Uses(s) /\ ~Uses(s)'
    BY <1>b, <2>1, <2>2 DEF Uses
  <2>. QED BY <2>1, <2>2, <2>3, CountKept DEF Uses
<1>4. ASSUME NEW s \in Scans, BlobAnswered(s) PROVE CountInv'
  <2>1. fetch[s].at = "wait" /\ fetch' = [fetch EXCEPT ![s].at = "load"] /\ UNCHANGED <<server, inUse>>
    BY <1>4 DEF BlobAnswered, cacheVars
  <2>2. fetch'[s].at = "load" /\ \A r \in Scans \ {s} : fetch'[r] = fetch[r]
    BY <1>a, <2>1 DEF Fetches
  <2>3. ~Uses(s) /\ ~Uses(s)'
    BY <1>b, <2>1, <2>2 DEF Uses
  <2>. QED BY <2>1, <2>2, <2>3, CountKept DEF Uses
<1>5. ASSUME NEW s \in Scans, ClientCloses(s) PROVE CountInv'
  <2>1. fetch[s].at = "close" /\ Dig(s) \in Digests /\ server[s] = "none"
    BY <1>b, <1>5 DEF ClientCloses, PhaseInv, Fetching
  <2>. QED BY <1>5, <2>1, CountMore
<1>6. ASSUME NEW s \in Scans, Opened(s) \/ ListingUnprepared(s) PROVE CountInv'
  <2>1. Listens(s) /\ fetch[s].at = "serve" /\ Uses(s)
    BY <1>6 DEF Opened, ListingUnprepared, Listens, Uses
  <2>2. fetch'[s].at = "done" /\ \A r \in Scans : fetch'[r].of = fetch[r].of
    BY <2>1, ListensMoves
  <2>3. \A r \in Scans \ {s} : fetch'[r].at = "serve" <=> fetch[r].at = "serve"
    BY <2>1, ListensMoves
  <2>4. \A r \in Scans \ {s} : server'[r] = server[r]
    <3>1. CASE ListingUnprepared(s)
      BY <3>1 DEF ListingUnprepared, CoreTypes
    <3>2. CASE Opened(s) /\ MayList(s)
      BY <3>2 DEF Opened, CoreTypes
    <3>3. CASE Opened(s) /\ ~MayList(s)
      BY <3>3 DEF Opened, CoreTypes
    <3>. QED BY <1>6, <3>1, <3>2, <3>3
  <2>5. \A r \in Scans \ {s} : Uses(r)' <=> Uses(r)
    BY <2>3, <2>4 DEF Uses
  <2>6. CASE ListingUnprepared(s) \/ (Opened(s) /\ MayList(s))
    <3>1. inUse' = inUse /\ server'[s] = "open"
      BY <2>6 DEF ListingUnprepared, Opened, CoreTypes
    <3>2. Uses(s)'
      BY <3>1 DEF Uses
    <3>. QED BY <2>1, <2>2, <2>5, <3>1, <3>2, CountKept
  <2>7. CASE Opened(s) /\ ~MayList(s)
    <3>1. inUse' = Unused(s) /\ server'[s] = "closed"
      BY <2>7 DEF Opened, CoreTypes
    <3>2. ~Uses(s)'
      BY <2>2, <3>1 DEF Uses
    <3>. QED BY <1>c, <2>1, <2>2, <2>5, <3>1, <3>2, CountLess
  <2>. QED BY <1>6, <2>6, <2>7
<1>7. ASSUME NEW s \in Scans, FetchFails(s) PROVE CountInv'
  <2>1. fetch[s].at # "done" /\ server' = server /\ fetch' = [fetch EXCEPT ![s].at = "done"]
        /\ inUse' = IF fetch[s].at = "serve" THEN Unused(s) ELSE inUse
    BY <1>7 DEF FetchFails, Fetching
  <2>2. fetch'[s].at = "done" /\ \A r \in Scans \ {s} : fetch'[r] = fetch[r]
    BY <1>a, <2>1 DEF Fetches
  <2>3. ~Uses(s)' /\ (Uses(s) <=> fetch[s].at = "serve") /\ \A r \in Scans \ {s} : Uses(r)' <=> Uses(r)
    BY <1>b, <2>1, <2>2 DEF Uses
  <2>4. CASE fetch[s].at = "serve"
    BY <1>c, <2>1, <2>2, <2>3, <2>4, CountLess
  <2>5. CASE fetch[s].at # "serve"
    BY <2>1, <2>2, <2>3, <2>5, CountKept
  <2>. QED BY <2>4, <2>5
<1>8. ASSUME NEW s \in Scans, NEW ok \in BOOLEAN, SpawnErrors(s) \/ Timeout(s) \/ Close(s, ok) PROVE CountInv'
  <2>1. PICK outcome \in {"completed", "failed"} : Settle(s, outcome)
    BY <1>8 DEF SpawnErrors, Timeout, Close
  <2>2. fetch' = fetch /\ \A r \in Scans \ {s} : server'[r] = server[r]
    BY <1>8, <2>1 DEF SpawnErrors, Timeout, Close, Settle, CoreTypes
  <2>3. server'[s] # "open"
    BY <2>1 DEF Settle, CoreTypes
  <2>4. \A r \in Scans \ {s} : Uses(r)' <=> Uses(r)
    BY <2>2 DEF Uses
  <2>5. CASE server[s] = "open"
    <3>1. fetch[s].at = "done" /\ inUse' = Unused(s)
      BY <1>b, <2>1, <2>5 DEF Settle, Unsettled
    <3>2. Uses(s) /\ ~Uses(s)'
      BY <2>2, <2>3, <2>5, <3>1 DEF Uses
    <3>. QED BY <1>c, <2>2, <2>4, <3>1, <3>2, CountLess
  <2>6. CASE server[s] # "open"
    <3>1. inUse' = inUse
      BY <2>1, <2>6 DEF Settle, Unsettled
    <3>2. Uses(s)' <=> Uses(s)
      BY <2>2, <2>3, <2>6 DEF Uses
    <3>. QED BY <2>2, <2>4, <3>1, <3>2, CountKept
  <2>. QED BY <2>5, <2>6
<1>9. ASSUME NEW s \in Scans, ChildExits(s) \/ GraceEnds(s) \/ Stop(s) \/ Forget(s) PROVE CountInv'
  <2>1. UNCHANGED <<fetch, server, inUse>>
    BY <1>9 DEF ChildExits, GraceEnds, Stop, Forget, phaseVars, cacheVars
  <2>. QED BY <2>1, CountKept DEF Uses
<1>10. CASE Restart
  <2>1. \A s \in Scans : ~Uses(s)'
    BY <1>10 DEF Restart, NoFetch, Done, Uses
  <2>2. \A c \in Catalogs, d \in Digests : Users(c, d)' = {} /\ inUse'[c][d] = 0
    BY <1>10, <2>1 DEF Restart, Users
  <2>. QED BY <2>2, FS_EmptySet DEF CountInv
<1>11. CASE UNCHANGED vars
  BY <1>11, CountKept DEF vars, Uses
<1>. QED
  BY <1>1, <1>2, <1>3, <1>4, <1>5, <1>6, <1>7, <1>8, <1>9, <1>10, <1>11 DEF Next, Served, FetchStep

-----------------------------------------------------------------------------
(* The theorems *)

LEMMA InvInit == Init => IInv
<1> SUFFICES ASSUME Init PROVE IInv
  OBVIOUS
<1>1. NoFetch \in Fetches /\ NoFetch.at = "none"
  BY DEF NoFetch, Fetches
<1>2. layouts \in [Catalogs -> [Digests -> SUBSET Nat]]
  <2>1. (SUBSET (1..Blobs)) \cup {Whole} \subseteq SUBSET Nat
    BY ScanAssumption DEF ScanAssumption, Whole
  <2>2. PICK old \in {{}} \cup {{d} : d \in Old}, files \in (SUBSET (1..Blobs)) \cup {Whole} :
          layouts = [c \in Catalogs |-> [d \in Digests |-> IF d \in old THEN files ELSE {}]]
    BY DEF Init
  <2>. QED BY <2>1, <2>2
<1>3. CoreTypes
  BY <1>1, <1>2 DEF Init, CoreTypes, Terminal
<1>4. PhaseInv
  BY <1>1 DEF Init, PhaseInv, Fetching
<1>5. \A q \in Requests : Fetchers(q) = {}
  BY <1>1 DEF Init, Fetchers, Of, Fetching
<1>6. SecretInv
  BY <1>5, FS_EmptySet DEF Init, SecretInv, SecretLivesWithFetches, Fetchers
<1>7. \A c \in Catalogs, d \in Digests : Users(c, d) = {}
  BY <1>1 DEF Init, Users, Uses
<1>8. CountInv
  BY <1>7, FS_EmptySet DEF Init, CountInv
<1>. QED BY <1>3, <1>4, <1>6, <1>8 DEF IInv

LEMMA InvAlways == Spec => []IInv
<1>1. Init => IInv
  BY InvInit
<1>2. IInv /\ [Next]_vars => IInv'
  BY TypesStep, PhaseStep, SecretStep, CountStep DEF IInv
<1>. QED BY <1>1, <1>2, PTL DEF Spec

\* The pull secret of a request is on disk exactly as long as its binary is resolved or one
\* of its scans fetches: createSharedAuthRelease counts the right scans down, for any number.
THEOREM SecretReleasedInTime == Spec => []SecretLivesWithFetches
<1>1. IInv => SecretLivesWithFetches
  BY DEF IInv, SecretInv
<1>. QED BY <1>1, InvAlways, PTL

\* The count of a layout in verifiedCatalog.js is the number of scans that opened it and
\* have not closed it, so it never falls below zero.
THEOREM CountsAreUsers == Spec => []CountInv
<1>1. IInv => CountInv
  BY DEF IInv
<1>. QED BY <1>1, InvAlways, PTL

LEMMA StopStep ==
    ASSUME CoreTypes, PhaseInv, [Next]_vars, NEW s \in Scans
    PROVE  /\ s \in stopped /\ child[s] = "none" => child'[s] = "none"
           /\ row[s] \in Terminal => row'[s] \in {row[s], "deleted"}
<1> DEFINE Keeps == /\ s \in stopped /\ child[s] = "none" => child'[s] = "none"
                    /\ row[s] \in Terminal => row'[s] \in {row[s], "deleted"}
<1>a. "running" \notin Terminal /\ "absent" \notin Terminal
  BY DEF Terminal
<1>1. ASSUME NEW q \in Requests, Ask(q) \/ Begin(q) \/ BinaryFails(q) PROVE Keeps
  <2>1. s \in Of(q) /\ asked[q] # "done" => row[s] = "absent"
    BY DEF PhaseInv, Of
  <2>. QED BY <1>a, <1>1, <2>1 DEF Ask, Begin, BinaryFails, jobVars, phaseVars
<1>2. ASSUME NEW r \in Scans, BlobLoaded(r) \/ (\E d \in Digests : ManifestReturns(r, d)) \/ BlobAnswered(r) \/ ClientCloses(r)
      PROVE  Keeps
  BY <1>2 DEF BlobLoaded, ManifestReturns, BlobAnswered, ClientCloses, jobVars
<1>3. ASSUME NEW r \in Scans, Opened(r) PROVE Keeps
  <2>1. r \in stopped => ~MayList(r)
    BY DEF PhaseInv, MayList
  <2>2. CASE MayList(r)
    BY <1>3, <2>1, <2>2 DEF Opened, CoreTypes
  <2>3. CASE ~MayList(r)
    BY <1>3, <2>3 DEF Opened
  <2>. QED BY <2>2, <2>3
<1>4. ASSUME NEW r \in Scans, ListingUnprepared(r) \/ FetchFails(r) PROVE Keeps
  BY <1>a, <1>4 DEF ListingUnprepared, FetchFails, Rejected, CoreTypes
<1>5. ASSUME NEW r \in Scans, NEW ok \in BOOLEAN, SpawnErrors(r) \/ Timeout(r) \/ Close(r, ok) PROVE Keeps
  <2>1. PICK outcome : Settle(r, outcome)
    BY <1>5 DEF SpawnErrors, Timeout, Close
  <2>2. row[s] \in Terminal => row'[s] = row[s]
    BY <1>a, <2>1 DEF Settle, CoreTypes
  <2>3. child[s] = "none" => child'[s] = "none"
    BY <1>5 DEF SpawnErrors, Timeout, Close, CoreTypes
  <2>. QED BY <2>2, <2>3
<1>6. ASSUME NEW r \in Scans, ChildExits(r) \/ GraceEnds(r) PROVE Keeps
  BY <1>6 DEF ChildExits, GraceEnds, CoreTypes, jobVars
<1>7. ASSUME NEW r \in Scans, Stop(r) \/ Forget(r) PROVE Keeps
  BY <1>a, <1>7 DEF Stop, Forget, CoreTypes, phaseVars
<1>8. CASE Restart
  BY <1>a, <1>8 DEF Restart
<1>9. CASE UNCHANGED vars
  BY <1>9 DEF vars
<1>. QED
  BY <1>1, <1>2, <1>3, <1>4, <1>5, <1>6, <1>7, <1>8, <1>9 DEF Next, Served, FetchStep

\* A scan stopped before its listing starts no child, whatever overtakes it, and an outcome
\* is never exchanged for another.
THEOREM StoppedStaysStopped == Spec => StopIsFinal
<1>1. IInv /\ [Next]_vars => \A s \in Scans :
        /\ s \in stopped /\ child[s] = "none" => child'[s] = "none"
        /\ row[s] \in Terminal => row'[s] \in {row[s], "deleted"}
  BY StopStep DEF IInv
<1>. QED BY <1>1, InvAlways, PTL DEF Spec, StopIsFinal

\* What is counted is not pruned: prune leaves every layout in use as it is.
LEMMA PruneSpares ==
    ASSUME CoreTypes, CountInv, NEW r \in Scans, Prune(r), NEW s \in Scans, Uses(s), Dig(s) \in Digests
    PROVE  layouts'[Cat(s)][Dig(s)] = Used(s)
<1>1. s \in Users(Cat(s), Dig(s)) /\ Users(Cat(s), Dig(s)) \subseteq Scans
  BY DEF Users
<1>2. IsFiniteSet(Users(Cat(s), Dig(s)))
  BY <1>1, ScanAssumption, FS_Subset DEF ScanAssumption
<1>3. inUse[Cat(s)][Dig(s)] # 0
  BY <1>1, <1>2, ScanFacts, FS_EmptySet DEF CountInv
<1>4. \A d \in Prunable(r) : inUse[Cat(r)][d] = 0
  BY DEF Prunable
<1>5. Cat(s) # Cat(r) \/ Dig(s) \notin Prunable(r)
  BY <1>3, <1>4
<1>. QED BY <1>5, PruneTypes, ScanFacts DEF Used

LEMMA KeptStep ==
    ASSUME CoreTypes, PhaseInv, CountInv, [Next]_vars, NEW s \in Scans, server[s] = "open"
    PROVE  Used(s) \subseteq layouts'[Cat(s)][Dig(s)]
<1>a. Dig(s) \in Digests /\ Uses(s) /\ Cat(s) \in Catalogs
  BY ScanFacts DEF PhaseInv, Uses
<1>1. ASSUME NEW r \in Scans, Opened(r) \/ ListingUnprepared(r) PROVE Used(s) \subseteq layouts'[Cat(s)][Dig(s)]
  <2>1. Prune(r)
    BY <1>1 DEF Opened, ListingUnprepared, Listens
  <2>. QED BY <1>a, <2>1, PruneSpares
<1>2. ASSUME NEW r \in Scans, BlobLoaded(r) \/ \E d \in Digests : ManifestReturns(r, d)
      PROVE  Used(s) \subseteq layouts'[Cat(s)][Dig(s)]
  <2>1. PICK d \in Digests, n \in Nat, files \in SUBSET Nat : GoOn(r, d, n, files) /\ layouts[Cat(r)][d] \subseteq files
    BY <1>2, GoOnFacts
  <2>2. /\ files \subseteq layouts'[Cat(r)][d]
        /\ \A c \in Catalogs, e \in Digests : c # Cat(r) \/ e # d => layouts'[c][e] = layouts[c][e]
    BY <2>1, GoOnTypes
  <2>3. CASE Cat(s) = Cat(r) /\ Dig(s) = d
    BY <2>1, <2>2, <2>3 DEF Used
  <2>4. CASE Cat(s) # Cat(r) \/ Dig(s) # d
    BY <1>a, <2>2, <2>4 DEF Used
  <2>. QED BY <2>3, <2>4
<1>3. CASE layouts' = layouts
  BY <1>3 DEF Used
<1>4. ASSUME NEW q \in Requests, Ask(q) \/ Begin(q) \/ BinaryFails(q) PROVE layouts' = layouts
  BY <1>4 DEF Ask, Begin, BinaryFails, cacheVars
<1>5. ASSUME NEW r \in Scans, NEW ok \in BOOLEAN,
             \/ BlobAnswered(r) \/ ClientCloses(r) \/ FetchFails(r) \/ SpawnErrors(r) \/ ChildExits(r)
             \/ Timeout(r) \/ GraceEnds(r) \/ Close(r, ok) \/ Stop(r) \/ Forget(r)
      PROVE  layouts' = layouts
  BY <1>5 DEF BlobAnswered, ClientCloses, FetchFails, SpawnErrors, ChildExits, Timeout, GraceEnds, Close, Stop, Forget, cacheVars
<1>6. CASE Restart
  BY <1>3, <1>6 DEF Restart
<1>7. CASE UNCHANGED vars
  BY <1>3, <1>7 DEF vars
<1>. QED
  BY <1>1, <1>2, <1>3, <1>4, <1>5, <1>6, <1>7 DEF Next, Served, FetchStep

\* prune never takes a file from under a listing, of any scan of any request: a listing's
\* layout is counted until its server closes.
THEOREM ListingsKeepTheirFiles == Spec => ListedIsKept
<1>1. IInv /\ [Next]_vars => \A s \in Scans : child[s] = "lists" /\ server[s] = "open" => Used(s) \subseteq layouts'[Cat(s)][Dig(s)]
  BY KeptStep DEF IInv
<1>. QED BY <1>1, InvAlways, PTL DEF Spec, ListedIsKept

-----------------------------------------------------------------------------
(* The cache *)

\* The order of mtimes: total, antisymmetric and transitive on the layouts that exist.
Order(R) ==
    /\ R \subseteq Digests \X Digests
    /\ \A x, y \in Digests : <<x, y>> \in R => <<x, x>> \in R /\ <<y, y>> \in R
    /\ \A x, y \in Digests : <<x, x>> \in R /\ <<y, y>> \in R => <<x, y>> \in R \/ <<y, x>> \in R
    /\ \A x, y \in Digests : <<x, y>> \in R /\ <<y, x>> \in R => x = y
    /\ \A x, y, z \in Digests : <<x, y>> \in R /\ <<y, z>> \in R => <<x, z>> \in R

\* The layouts of a repository are ordered, files are only in directories that exist, and
\* no fetch is past the last blob.
CacheInv ==
    /\ recent \in [Catalogs -> SUBSET (Digests \X Digests)] /\ \A c \in Catalogs : Order(recent[c])
    /\ layouts \in [Catalogs -> [Digests -> SUBSET Whole]]
    /\ \A c \in Catalogs, d \in Digests : layouts[c][d] # {} => Exists(c, d)
    /\ \A s \in Scans : fetch[s].next \in 0..Blobs

LEMMA OrderIsOrder ==
    ASSUME NEW c \in Catalogs, Order(recent[c])
    PROVE  IsOrder(c)
<1>1. \A p \in recent[c] : p = <<p[1], p[2]>> /\ p[1] \in Digests /\ p[2] \in Digests
  BY DEF Order
<1>2. \A p \in recent[c] : Exists(c, p[1]) /\ Exists(c, p[2])
  BY <1>1 DEF Order, Exists
<1>. QED BY <1>1, <1>2 DEF IsOrder, Order, Present, Exists

\* Removing layouts keeps the order of the others.
LEMMA OrderKept ==
    ASSUME NEW R, Order(R), NEW gone, NEW T, T = {p \in R : p[1] \notin gone /\ p[2] \notin gone}
    PROVE  /\ Order(T)
           /\ \A x \in Digests : <<x, x>> \in T <=> <<x, x>> \in R /\ x \notin gone
<1>1. \A x, y \in Digests : <<x, y>> \in T <=> <<x, y>> \in R /\ x \notin gone /\ y \notin gone
  OBVIOUS
<1>2. T \subseteq Digests \X Digests
  BY DEF Order
<1>. QED BY <1>1, <1>2 DEF Order

\* So does making one of them, or a new one, the newest.
LEMMA OrderNewest ==
    ASSUME NEW R, Order(R), NEW d \in Digests, NEW T,
           T = {p \in R : p[1] \notin {d} /\ p[2] \notin {d}}
               \cup ({d} \X ({e \in Digests : <<e, e>> \in R} \cup {d}))
    PROVE  /\ Order(T)
           /\ \A x \in Digests : <<x, x>> \in T <=> <<x, x>> \in R \/ x = d
<1>1. \A x, y \in Digests : <<x, y>> \in T <=> \/ <<x, y>> \in R /\ x # d /\ y # d
                                               \/ x = d /\ (y = d \/ <<y, y>> \in R)
  OBVIOUS
<1>2. T \subseteq Digests \X Digests
  BY DEF Order
<1>3. \A x, y \in Digests : <<x, y>> \in T => <<x, x>> \in T /\ <<y, y>> \in T
  BY <1>1 DEF Order
<1>4. \A x, y \in Digests : <<x, x>> \in T /\ <<y, y>> \in T => <<x, y>> \in T \/ <<y, x>> \in T
  BY <1>1 DEF Order
<1>5. \A x, y \in Digests : <<x, y>> \in T /\ <<y, x>> \in T => x = y
  BY <1>1 DEF Order
<1>6. \A x, y, z \in Digests : <<x, y>> \in T /\ <<y, z>> \in T => <<x, z>> \in T
  <2>1. SUFFICES ASSUME NEW x \in Digests, NEW y \in Digests, NEW z \in Digests,
                        <<x, y>> \in T, <<y, z>> \in T
                 PROVE  <<x, z>> \in T
    OBVIOUS
  <2>2. CASE x = d
    <3>1. <<z, z>> \in T
      BY <2>1, <1>3
    <3>2. z = d \/ <<z, z>> \in R
      BY <3>1, <1>1
    <3>. QED BY <2>2, <3>2, <1>1
  <2>3. CASE x # d
    BY <2>1, <2>3, <1>1 DEF Order
  <2>. QED BY <2>2, <2>3
<1>7. \A x \in Digests : <<x, x>> \in T <=> <<x, x>> \in R \/ x = d
  BY <1>1
<1>. QED BY <1>2, <1>3, <1>4, <1>5, <1>6, <1>7 DEF Order

LEMMA NewestKeeps ==
    ASSUME CacheInv, NEW c \in Catalogs, NEW d \in Digests, recent' = Newest(c, d)
    PROVE  /\ recent' \in [Catalogs -> SUBSET (Digests \X Digests)]
           /\ \A b \in Catalogs : Order(recent'[b])
           /\ \A b \in Catalogs, e \in Digests : Exists(b, e)' <=> Exists(b, e) \/ (b = c /\ e = d)
<1> DEFINE T == Kept(c, {d}) \cup ({d} \X (Present(c) \cup {d}))
<1>1. Order(recent[c])
  BY DEF CacheInv
<1>2. T = {p \in recent[c] : p[1] \notin {d} /\ p[2] \notin {d}}
          \cup ({d} \X ({e \in Digests : <<e, e>> \in recent[c]} \cup {d}))
  BY DEF Kept, Present, Exists
<1> HIDE DEF T
<1>3. Order(T) /\ \A x \in Digests : <<x, x>> \in T <=> <<x, x>> \in recent[c] \/ x = d
  BY <1>1, <1>2, OrderNewest
<1>4. recent' = [recent EXCEPT ![c] = T] /\ recent \in [Catalogs -> SUBSET (Digests \X Digests)]
  BY DEF Newest, CacheInv, T
<1>5. T \subseteq Digests \X Digests
  BY <1>3 DEF Order
<1>6. recent'[c] = T /\ \A b \in Catalogs \ {c} : recent'[b] = recent[b]
  BY <1>4
<1>. QED BY <1>3, <1>4, <1>5, <1>6 DEF CacheInv, Exists

LEMMA PruneKeeps ==
    ASSUME CacheInv, NEW s \in Scans, Prune(s)
    PROVE  /\ recent' \in [Catalogs -> SUBSET (Digests \X Digests)]
           /\ \A b \in Catalogs : Order(recent'[b])
           /\ layouts' \in [Catalogs -> [Digests -> SUBSET Whole]]
           /\ \A b \in Catalogs, e \in Digests : layouts'[b][e] # {} => Exists(b, e)'
<1> DEFINE gone == Prunable(s)
           c == Cat(s)
           T == Kept(c, gone)
<1>1. Order(recent[c]) /\ c \in Catalogs
  BY ScanFacts DEF CacheInv
<1>2. T = {p \in recent[c] : p[1] \notin gone /\ p[2] \notin gone}
  BY DEF Kept
<1>3. recent' = [recent EXCEPT ![c] = T] /\ recent \in [Catalogs -> SUBSET (Digests \X Digests)]
  BY DEF Prune, CacheInv
<1>4. layouts' = [layouts EXCEPT ![c] = [d \in Digests |-> IF d \in gone THEN {} ELSE layouts[c][d]]]
  BY DEF Prune
<1> HIDE DEF gone, c, T
<1>5. Order(T) /\ \A x \in Digests : <<x, x>> \in T <=> <<x, x>> \in recent[c] /\ x \notin gone
  BY <1>1, <1>2, OrderKept
<1>6. T \subseteq Digests \X Digests
  BY <1>5 DEF Order
<1>7. recent'[c] = T /\ \A b \in Catalogs \ {c} : recent'[b] = recent[b]
  BY <1>1, <1>3
<1>8. layouts' \in [Catalogs -> [Digests -> SUBSET Whole]]
  BY <1>1, <1>4 DEF CacheInv
<1>9. \A e \in Digests : layouts'[c][e] = IF e \in gone THEN {} ELSE layouts[c][e]
  BY <1>1, <1>4 DEF CacheInv
<1>10. \A b \in Catalogs \ {c} : layouts'[b] = layouts[b]
  BY <1>4 DEF CacheInv
<1>11. \A b \in Catalogs, e \in Digests : layouts'[b][e] # {} => Exists(b, e)'
  BY <1>5, <1>7, <1>9, <1>10 DEF CacheInv, Exists
<1>. QED BY <1>1, <1>3, <1>5, <1>6, <1>7, <1>8, <1>11 DEF CacheInv

\* A fetch that goes on from blob n with those files.
LEMMA GoOnKeeps ==
    ASSUME CoreTypes, CacheInv, NEW s \in Scans, NEW d \in Digests, NEW n \in Nat,
           NEW files \in SUBSET Whole, GoOn(s, d, n, files)
    PROVE  CacheInv'
<1> DEFINE c == Cat(s)
           missing == {b \in n..Blobs : b \notin files}
           b == CHOOSE e \in missing : \A f \in missing : e <= f
<1>1. Blobs \in Nat /\ c \in Catalogs
  BY ScanFacts, ScanAssumption DEF ScanAssumption
<1>2. missing \subseteq Nat /\ missing \subseteq 0..Blobs
  BY <1>1
<1>3. missing # {} => b \in 0..Blobs
  <2>1. missing # {} => \E e \in missing : \A f \in missing : e <= f
    BY <1>2, Smallest
  <2>. QED BY <1>2, <2>1
<1>4. /\ fetch' = [fetch EXCEPT ![s] = IF missing # {} THEN [at |-> "wait", of |-> d, next |-> b]
                                       ELSE [at |-> "close", of |-> d, next |-> Blobs]]
      /\ \/ layouts' = [layouts EXCEPT ![c][d] = files]
         \/ layouts' = [layouts EXCEPT ![c][d] = files \cup {0}]
      /\ (recent' = recent /\ Exists(c, d)) \/ recent' = Newest(c, d)
  BY DEF GoOn
<1> HIDE DEF b, missing, c
<1>5. \A r \in Scans : fetch'[r].next \in 0..Blobs
  BY <1>1, <1>3, <1>4 DEF CacheInv, CoreTypes
<1>6. layouts' \in [Catalogs -> [Digests -> SUBSET Whole]]
  <2>1. files \cup {0} \in SUBSET Whole
    BY <1>1 DEF Whole
  <2>2. \A X \in SUBSET Whole : [layouts EXCEPT ![c][d] = X] \in [Catalogs -> [Digests -> SUBSET Whole]]
    BY DEF CacheInv
  <2>. QED BY <1>4, <2>1, <2>2
<1>7. \A x \in Catalogs, e \in Digests : x # c \/ e # d => layouts'[x][e] = layouts[x][e]
  BY <1>1, <1>4 DEF CacheInv
<1>8. /\ recent' \in [Catalogs -> SUBSET (Digests \X Digests)]
      /\ \A x \in Catalogs : Order(recent'[x])
      /\ \A x \in Catalogs, e \in Digests : Exists(x, e)' <=> Exists(x, e) \/ (x = c /\ e = d)
  <2>1. CASE recent' = recent /\ Exists(c, d)
    BY <2>1 DEF CacheInv, Exists
  <2>2. CASE recent' = Newest(c, d)
    BY <1>1, <2>2, NewestKeeps
  <2>. QED BY <1>4, <2>1, <2>2
<1>9. \A x \in Catalogs, e \in Digests : layouts'[x][e] # {} => Exists(x, e)'
  BY <1>7, <1>8 DEF CacheInv
<1>. QED BY <1>5, <1>6, <1>8, <1>9 DEF CacheInv

\* Fetches that move without another blob keep their place in the list of blobs.
LEMMA CacheStep == CoreTypes /\ PhaseInv /\ CacheInv /\ [Next]_vars => CacheInv'
<1> SUFFICES ASSUME CoreTypes, PhaseInv, CacheInv, [Next]_vars PROVE CacheInv'
  OBVIOUS
<1>a. Blobs \in Nat /\ \A s \in Scans : fetch[s] \in Fetches /\ fetch[s].next \in 0..Blobs
  BY ScanAssumption DEF ScanAssumption, CoreTypes, CacheInv
<1>b. \A f \in Fetches : \A a : [f EXCEPT !.at = a].next = f.next
  BY DEF Fetches
<1>c. NoFetch.next = 0 /\ Done.next = 0 /\ [NoFetch EXCEPT !.at = "manifest"].next = 0
  BY DEF NoFetch, Done
<1>d. ASSUME UNCHANGED <<layouts, recent>>, \A s \in Scans : fetch'[s].next \in 0..Blobs PROVE CacheInv'
  BY <1>d DEF CacheInv, Exists
<1>1. ASSUME NEW q \in Requests, Ask(q) \/ Begin(q) \/ BinaryFails(q) PROVE CacheInv'
  <2>1. UNCHANGED <<layouts, recent>>
    BY <1>1 DEF Ask, Begin, BinaryFails, cacheVars
  <2>2. \A s \in Scans : fetch'[s].next \in 0..Blobs
    <3>1. fetch' = fetch \/ fetch' = [s \in Scans |-> IF s \in Of(q) THEN [NoFetch EXCEPT !.at = "manifest"] ELSE fetch[s]]
      BY <1>1 DEF Ask, Begin, BinaryFails, phaseVars
    <3>2. \A s \in Scans : fetch'[s] = fetch[s] \/ fetch'[s] = [NoFetch EXCEPT !.at = "manifest"]
      BY <3>1
    <3>3. 0 \in 0..Blobs
      BY <1>a
    <3>. QED BY <3>2, <3>3, <1>a, <1>c
  <2>. QED BY <1>d, <2>1, <2>2
<1>2. ASSUME NEW s \in Scans, NEW d \in Digests, ManifestReturns(s, d) PROVE CacheInv'
  <2>1. GoOn(s, d, 1, layouts[Cat(s)][d]) /\ layouts[Cat(s)][d] \in SUBSET Whole
    BY <1>2, ScanFacts DEF ManifestReturns, CacheInv
  <2>. QED BY <2>1, GoOnKeeps
<1>3. ASSUME NEW s \in Scans, BlobLoaded(s) PROVE CacheInv'
  <2>1. Dig(s) \in Digests
    BY <1>3 DEF BlobLoaded, PhaseInv, Fetching
  <2>2. Used(s) \cup {fetch[s].next} \in SUBSET Whole
    BY <1>a, <2>1, ScanFacts DEF CacheInv, Used, Whole
  <2>3. fetch[s].next + 1 \in Nat
    BY <1>a
  <2>4. GoOn(s, Dig(s), fetch[s].next + 1, Used(s) \cup {fetch[s].next})
    BY <1>3 DEF BlobLoaded
  <2>. QED BY <2>1, <2>2, <2>3, <2>4, GoOnKeeps
<1>4. ASSUME NEW s \in Scans, NEW a, fetch' = [fetch EXCEPT ![s].at = a]
      PROVE  \A r \in Scans : fetch'[r].next \in 0..Blobs
  BY <1>4, <1>a, <1>b DEF CoreTypes
<1>5. ASSUME NEW s \in Scans, BlobAnswered(s) \/ FetchFails(s) PROVE CacheInv'
  BY <1>4, <1>5, <1>d DEF BlobAnswered, FetchFails, cacheVars
<1>6. ASSUME NEW s \in Scans, ClientCloses(s) PROVE CacheInv'
  <2>1. \A r \in Scans : fetch'[r].next \in 0..Blobs
    BY <1>4, <1>6 DEF ClientCloses
  <2>2. CASE recent' = recent
    BY <1>6, <1>d, <2>1, <2>2 DEF ClientCloses
  <2>3. CASE recent' = Newest(Cat(s), Dig(s))
    <3>1. Dig(s) \in Digests /\ Cat(s) \in Catalogs
      BY <1>6, ScanFacts DEF ClientCloses, PhaseInv, Fetching
    <3>2. /\ recent' \in [Catalogs -> SUBSET (Digests \X Digests)]
          /\ \A b \in Catalogs : Order(recent'[b])
          /\ \A b \in Catalogs, e \in Digests : Exists(b, e) => Exists(b, e)'
      BY <2>3, <3>1, NewestKeeps
    <3>3. layouts' = layouts
      BY <1>6 DEF ClientCloses
    <3>. QED BY <2>1, <3>2, <3>3 DEF CacheInv
  <2>. QED BY <1>6, <2>2, <2>3 DEF ClientCloses
<1>7. ASSUME NEW s \in Scans, Opened(s) \/ ListingUnprepared(s) PROVE CacheInv'
  <2>1. Listens(s) /\ Prune(s)
    BY <1>7 DEF Opened, ListingUnprepared, Listens
  <2>2. fetch' = [r \in Scans |-> IF r = s THEN [fetch[s] EXCEPT !.at = "done"]
                                  ELSE IF Lost(r, s) THEN [fetch[r] EXCEPT !.at = "lost"] ELSE fetch[r]]
    BY <2>1 DEF Listens
  <2>3. \A r \in Scans : fetch'[r].next \in 0..Blobs
    BY <2>2, <1>a, <1>b
  <2>. QED BY <2>1, <2>3, PruneKeeps DEF CacheInv
<1>8. ASSUME NEW s \in Scans, NEW ok \in BOOLEAN,
             \/ SpawnErrors(s) \/ ChildExits(s) \/ Timeout(s) \/ GraceEnds(s) \/ Close(s, ok)
             \/ Stop(s) \/ Forget(s)
      PROVE  CacheInv'
  <2>1. UNCHANGED <<layouts, recent, fetch>>
    BY <1>8 DEF SpawnErrors, ChildExits, Timeout, GraceEnds, Close, Stop, Forget, cacheVars, phaseVars
  <2>. QED BY <1>a, <1>d, <2>1
<1>9. CASE Restart
  <2>1. \A s \in Scans : fetch'[s].next \in 0..Blobs
    BY <1>9, <1>a, <1>c DEF Restart
  <2>. QED BY <1>9, <1>d, <2>1 DEF Restart
<1>10. CASE UNCHANGED vars
  BY <1>10, <1>a, <1>d DEF vars
<1>. QED
  BY <1>1, <1>2, <1>3, <1>5, <1>6, <1>7, <1>8, <1>9, <1>10 DEF Next, Served, FetchStep

LEMMA CacheInit == Init => CacheInv
<1> SUFFICES ASSUME Init PROVE CacheInv
  OBVIOUS
<1>1. PICK old \in {{}} \cup {{d} : d \in Old}, files \in (SUBSET (1..Blobs)) \cup {Whole} :
         /\ recent = [c \in Catalogs |-> {<<d, d>> : d \in old}]
         /\ layouts = [c \in Catalogs |-> [d \in Digests |-> IF d \in old THEN files ELSE {}]]
  BY DEF Init
<1>2. Blobs \in Nat /\ Old \subseteq Digests
  BY ScanAssumption DEF ScanAssumption
<1>3. old \subseteq Digests /\ files \subseteq Whole /\ \A x, y \in old : x = y
  BY <1>1, <1>2 DEF Whole
<1> DEFINE R == {<<d, d>> : d \in old}
<1>4. R \subseteq Digests \X Digests /\ \A x, y \in Digests : <<x, y>> \in R <=> x = y /\ x \in old
  BY <1>3
<1> HIDE DEF R
<1>5. Order(R)
  BY <1>3, <1>4 DEF Order
<1>6. \A c \in Catalogs : recent[c] = R
  BY <1>1 DEF R
<1>7. \A c \in Catalogs, d \in Digests : layouts[c][d] = IF d \in old THEN files ELSE {}
  BY <1>1
<1>8. \A s \in Scans : fetch[s].next = 0
  BY DEF Init, NoFetch
<1>9. recent \in [Catalogs -> SUBSET (Digests \X Digests)] /\ \A c \in Catalogs : Order(recent[c])
  BY <1>1, <1>4, <1>5, <1>6 DEF R
<1>10. layouts \in [Catalogs -> [Digests -> SUBSET Whole]]
  BY <1>1, <1>3
<1>11. \A c \in Catalogs, d \in Digests : layouts[c][d] # {} => Exists(c, d)
  BY <1>4, <1>6, <1>7 DEF Exists
<1>. QED BY <1>2, <1>8, <1>9, <1>10, <1>11 DEF CacheInv

LEMMA CacheAlways == Spec => [](IInv /\ CacheInv)
<1>1. IInv /\ CacheInv /\ [Next]_vars => CacheInv'
  BY CacheStep DEF IInv
<1>. QED BY <1>1, InvAlways, CacheInit, PTL DEF Spec

\* Counters and use counts never leave 0..number of scans: every release and every close
\* belongs to a scan that was counted.
LEMMA BoundedCounts ==
    ASSUME CoreTypes, SecretInv, CountInv
    PROVE  /\ left \in [Requests -> 0..Cardinality(Scans)]
           /\ inUse \in [Catalogs -> [Digests -> 0..Cardinality(Scans)]]
<1>1. \A S : S \subseteq Scans => Cardinality(S) \in 0..Cardinality(Scans)
  <2>1. \A S : S \subseteq Scans => IsFiniteSet(S) /\ Cardinality(S) <= Cardinality(Scans)
    BY ScanAssumption, FS_Subset DEF ScanAssumption
  <2>2. \A S : IsFiniteSet(S) => Cardinality(S) \in Nat
    BY FS_CardinalityType
  <2>. QED BY <2>1, <2>2, ScanAssumption DEF ScanAssumption
<1>2. \A q \in Requests : left[q] \in 0..Cardinality(Scans)
  <2>1. \A q \in Requests : Fetchers(q) \subseteq Scans /\ left[q] = Cardinality(Fetchers(q))
    BY DEF SecretInv, Fetchers, Of
  <2>. QED BY <1>1, <2>1
<1>3. \A c \in Catalogs, d \in Digests : inUse[c][d] \in 0..Cardinality(Scans)
  <2>1. \A c \in Catalogs, d \in Digests : Users(c, d) \subseteq Scans /\ inUse[c][d] = Cardinality(Users(c, d))
    BY DEF CountInv, Users
  <2>. QED BY <1>1, <2>1
<1>. QED BY <1>2, <1>3 DEF CoreTypes

\* Requests, jobs, fetches, children and cache keep their types; the counts stay between 0
\* and the number of scans, and the mtimes order the layouts that exist.
THEOREM ScanTypes == Spec => []TypeOK
<1>1. IInv /\ CacheInv => TypeOK
  <2>1. SUFFICES ASSUME IInv, CacheInv PROVE TypeOK
    OBVIOUS
  <2>2. fetch \in [Scans -> [at : Fetching \cup {"none", "done"}, of : Digests \cup {None}, next : 0..Blobs]]
    BY <2>1 DEF IInv, CoreTypes, CacheInv, Fetches
  <2>3. \A c \in Catalogs : IsOrder(c)
    BY <2>1, OrderIsOrder DEF CacheInv
  <2>. QED BY <2>1, <2>2, <2>3, BoundedCounts DEF IInv, CoreTypes, CacheInv, TypeOK
<1>. QED BY <1>1, CacheAlways, PTL
=============================================================================
