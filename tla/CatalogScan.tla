----------------------------- MODULE CatalogScan -----------------------------
(***************************************************************************)
(* Operator catalog scans (operators.js, the scan and prefetch routes) and *)
(* the cache of verified catalogs below them (verifiedCatalog.js,          *)
(* verifiedRegistry.js).  A request starts one scan per catalog; they      *)
(* share the pull secret the request wrote.  A scan fetches its catalog    *)
(* into a layout named by digest, serves that on loopback and lets an      *)
(* oc-mirror child list it, under a timeout that escalates to SIGKILL.     *)
(*                                                                         *)
(* A layout is the set of its files: 0 is the manifest (with index.json),  *)
(* 1..Blobs the blobs.  recent orders the layouts whose directory exists   *)
(* by mtime: it has <<e, d>> when e is d or was touched after it.  A        *)
(* settled promise runs its handler at once.                               *)
(***************************************************************************)
EXTENDS Naturals, FiniteSets

CONSTANTS
    Requests,   \* POST .../scan or .../prefetch with a pull secret of its own
    Catalogs,   \* one repository each
    Scans,      \* the scans looked at: <<request, catalog>>
    Digests,    \* manifest digests a catalog's tag may resolve to
    Old,        \* those that earlier scans may have left
    Blobs,      \* number of blobs of an image
    Keep,       \* KEEP_PER_REPOSITORY
    None        \* not resolved yet

ASSUME ScanAssumption ==
    /\ Scans \subseteq Requests \X Catalogs /\ Old \subseteq Digests /\ None \notin Digests
    /\ IsFiniteSet(Scans) /\ Blobs \in Nat /\ Keep \in Nat
    /\ \A q \in Requests : \E s \in Scans : s[1] = q

VARIABLES
    asked,      \* a request: new, resolving (its binary), done
    auth,       \* requests whose auth file exists
    left,       \* outstanding of createSharedAuthRelease
    row,        \* the job's row
    entry,      \* the job's entry in activeProcesses: none, fetch, child
    fetch,      \* phase 1: [at, of, next], the digest and the next blob
    server,     \* the loopback server: none, open, closed
    child,      \* oc-mirror: none, lists, exited, closed
    timer,      \* off, armed, grace (SIGTERM sent)
    layouts,    \* the files of every layout
    recent,
    inUse,      \* the counts of verifiedCatalog.js
    stopped     \* scans an operator stopped (ghost)

vars == <<asked, auth, left, row, entry, fetch, server, child, timer, layouts, recent, inUse,
          stopped>>
jobVars   == <<row, entry, stopped>>
authVars  == <<auth, left>>
phaseVars == <<fetch, server, child, timer>>
cacheVars == <<layouts, recent, inUse>>

Terminal == {"completed", "failed", "cancelled"}
Whole    == 0..Blobs
NoFetch  == [at |-> "none", of |-> None, next |-> 0]
Done     == [at |-> "done", of |-> None, next |-> 0]
Fetching == {"manifest", "wait", "load", "lost", "close", "serve"}

Of(q)   == {s \in Scans : s[1] = q}
Cat(s)  == s[2]
Dig(s)  == fetch[s].of
Used(s) == layouts[Cat(s)][Dig(s)]

Exists(c, d) == <<d, d>> \in recent[c]
Present(c)   == {d \in Digests : Exists(c, d)}
Kept(c, gone) == {p \in recent[c] : p[1] \notin gone /\ p[2] \notin gone}

\* d becomes the newest of its repository.
Newest(c, d) == [recent EXCEPT ![c] = Kept(c, {d}) \cup ({d} \X (Present(c) \cup {d}))]

-----------------------------------------------------------------------------
(* The request *)

\* The auth file is written, then the binary is resolved.
Ask(q) ==
    /\ asked[q] = "new"
    /\ asked' = [asked EXCEPT ![q] = "resolving"]
    /\ auth' = auth \cup {q}
    /\ UNCHANGED <<left, jobVars, phaseVars, cacheVars>>

\* One job per catalog is registered, marked running and starts to fetch.
Begin(q) ==
    /\ asked[q] = "resolving"
    /\ asked' = [asked EXCEPT ![q] = "done"]
    /\ left' = [left EXCEPT ![q] = Cardinality(Of(q))]
    /\ row' = [s \in Scans |-> IF s \in Of(q) THEN "running" ELSE row[s]]
    /\ entry' = [s \in Scans |-> IF s \in Of(q) THEN "fetch" ELSE entry[s]]
    /\ fetch' = [s \in Scans |-> IF s \in Of(q) THEN [NoFetch EXCEPT !.at = "manifest"] ELSE fetch[s]]
    /\ UNCHANGED <<auth, server, child, timer, cacheVars, stopped>>

\* Without a binary every job fails at once.
BinaryFails(q) ==
    /\ asked[q] = "resolving"
    /\ asked' = [asked EXCEPT ![q] = "done"]
    /\ auth' = auth \ {q}
    /\ row' = [s \in Scans |-> IF s \in Of(q) THEN "failed" ELSE row[s]]
    /\ UNCHANGED <<left, entry, phaseVars, cacheVars, stopped>>

-----------------------------------------------------------------------------
(* Phase 1: fetchVerifiedImage and openVerifiedCatalog *)

\* From blob n on: the blobs that are there are skipped in the same stretch; the manifest
\* is written after the last one.
GoOn(s, d, n, files) ==
    LET missing == {b \in n..Blobs : b \notin files}
        b == CHOOSE e \in missing : \A f \in missing : e <= f
    IN  IF missing # {}
        THEN /\ fetch' = [fetch EXCEPT ![s] = [at |-> "wait", of |-> d, next |-> b]]
             /\ layouts' = [layouts EXCEPT ![Cat(s)][d] = files]
             /\ recent' = IF Exists(Cat(s), d) THEN recent ELSE Newest(Cat(s), d)
        ELSE /\ fetch' = [fetch EXCEPT ![s] = [at |-> "close", of |-> d, next |-> Blobs]]
             /\ layouts' = [layouts EXCEPT ![Cat(s)][d] = files \cup {0}]
             /\ recent' = IF Exists(Cat(s), d) /\ 0 \in files THEN recent ELSE Newest(Cat(s), d)

\* The tag resolves; the layout's directory is made.
ManifestReturns(s, d) ==
    /\ fetch[s].at = "manifest"
    /\ GoOn(s, d, 1, layouts[Cat(s)][d])
    /\ UNCHANGED <<asked, authVars, jobVars, server, child, timer, inUse>>

\* A blob's response arrives; its part file is opened.
BlobAnswered(s) ==
    /\ fetch[s].at = "wait" /\ Exists(Cat(s), Dig(s))
    /\ fetch' = [fetch EXCEPT ![s].at = "load"]
    /\ UNCHANGED <<asked, authVars, jobVars, server, child, timer, cacheVars>>

\* The part file has the digest and is renamed.
BlobLoaded(s) ==
    /\ fetch[s].at = "load"
    /\ GoOn(s, Dig(s), fetch[s].next + 1, Used(s) \cup {fetch[s].next})
    /\ UNCHANGED <<asked, authVars, jobVars, server, child, timer, inUse>>

\* Wrong form of ClientCloses: the layout is touched but not counted.
ClientClosesUncounted(s) ==
    /\ fetch[s].at = "close"
    /\ fetch' = [fetch EXCEPT ![s].at = "serve"]
    /\ recent' = IF Exists(Cat(s), Dig(s)) THEN Newest(Cat(s), Dig(s)) ELSE recent
    /\ UNCHANGED <<asked, authVars, jobVars, server, child, timer, layouts, inUse>>

\* The registry client is closed; only now the layout is marked as used and touched.
ClientCloses(s) ==
    /\ fetch[s].at = "close"
    /\ fetch' = [fetch EXCEPT ![s].at = "serve"]
    /\ inUse' = [inUse EXCEPT ![Cat(s)][Dig(s)] = @ + 1]
    /\ recent' = IF Exists(Cat(s), Dig(s)) THEN Newest(Cat(s), Dig(s)) ELSE recent
    /\ UNCHANGED <<asked, authVars, jobVars, server, child, timer, layouts>>

\* The place of a layout in the order of mtimes, from 1.
Place(c, d) == Cardinality({e \in Digests : <<e, d>> \in recent[c]})

\* Wrong form of Prunable: the counts are not looked at.
PrunableByAge(s) == {d \in Present(Cat(s)) : Place(Cat(s), d) > Keep} \ {Dig(s)}

\* Older layouts of the repository that nothing is known to use.
Prunable(s) ==
    {d \in Present(Cat(s)) : Place(Cat(s), d) > Keep /\ inUse[Cat(s)][d] = 0} \ {Dig(s)}

\* prune; a fetch that is loading into a removed layout loses its part file.
Prune(s) ==
    LET gone == Prunable(s) IN
    /\ layouts' = [layouts EXCEPT ![Cat(s)] = [d \in Digests |-> IF d \in gone THEN {} ELSE @[d]]]
    /\ recent' = [recent EXCEPT ![Cat(s)] = Kept(Cat(s), gone)]

Lost(r, s) == Cat(r) = Cat(s) /\ fetch[r].at = "load" /\ Dig(r) \in Prunable(s)

\* Wrong form of Release: the first scan takes the secret of the others.
ReleaseAtOnce(q) == auth' = auth \ {q} /\ left' = [left EXCEPT ![q] = @ - 1]

\* createSharedAuthRelease: the last scan of the request removes the file.
Release(q) ==
    /\ left' = [left EXCEPT ![q] = @ - 1]
    /\ auth' = IF left[q] > 1 THEN auth ELSE auth \ {q}

\* Wrong form of MayList: a row that is gone has no outcome.
RowAllows(s) == row[s] \notin Terminal

\* The then-handler: still registered by this fetch, and no outcome.
MayList(s) == entry[s] = "fetch" /\ row[s] \notin Terminal

Unused(s) == [inUse EXCEPT ![Cat(s)][Dig(s)] = @ - 1]

\* The loopback server listens; older layouts go, under other fetches too.
Listens(s) ==
    /\ fetch[s].at = "serve"
    /\ Prune(s)
    /\ fetch' = [r \in Scans |-> IF r = s THEN [fetch[s] EXCEPT !.at = "done"]
                                 ELSE IF Lost(r, s) THEN [fetch[r] EXCEPT !.at = "lost"] ELSE fetch[r]]

\* The child is spawned and registered, or the catalog closed.
Opened(s) ==
    /\ Listens(s) /\ Release(s[1])
    /\ IF MayList(s)
       THEN /\ entry' = [entry EXCEPT ![s] = "child"] /\ child' = [child EXCEPT ![s] = "lists"]
            /\ timer' = [timer EXCEPT ![s] = "armed"] /\ server' = [server EXCEPT ![s] = "open"]
       ELSE /\ entry' = [entry EXCEPT ![s] = IF @ = "fetch" THEN "none" ELSE @]
            /\ server' = [server EXCEPT ![s] = "closed"]
            /\ UNCHANGED <<child, timer>>
    /\ inUse' = IF MayList(s) THEN inUse ELSE Unused(s)
    /\ UNCHANGED <<asked, row, stopped>>

\* The rejection handler.
Rejected(s) ==
    /\ Release(s[1])
    /\ entry' = [entry EXCEPT ![s] = IF @ = "fetch" THEN "none" ELSE @]
    /\ row' = [row EXCEPT ![s] = IF @ = "running" THEN "failed" ELSE @]

\* No temp directory for the empty auth file of the listing: server and count stay.
ListingUnprepared(s) ==
    /\ Listens(s) /\ Rejected(s)
    /\ server' = [server EXCEPT ![s] = "open"]
    /\ UNCHANGED <<asked, child, timer, inUse, stopped>>

\* Refused, broken, aborted, the layout removed, or no port.
FetchFails(s) ==
    /\ fetch[s].at \in Fetching \ {"close"}
    /\ fetch' = [fetch EXCEPT ![s].at = "done"]
    /\ inUse' = IF fetch[s].at = "serve" THEN Unused(s) ELSE inUse
    /\ Rejected(s)
    /\ UNCHANGED <<asked, server, child, timer, layouts, recent, stopped>>

-----------------------------------------------------------------------------
(* Phase 2: listCatalog *)

Unsettled(s) == server[s] = "open"

\* settle: once per child the catalog is closed and an outcome written if there is none.
\* The count goes down when the server has closed, which only takes longer.
Settle(s, outcome) ==
    /\ server' = [server EXCEPT ![s] = IF @ = "open" THEN "closed" ELSE @]
    /\ inUse' = IF Unsettled(s) THEN Unused(s) ELSE inUse
    /\ row' = [row EXCEPT ![s] = IF Unsettled(s) /\ @ = "running" THEN outcome ELSE @]

\* Node reports error and, later, close.
SpawnErrors(s) ==
    /\ child[s] = "lists" /\ timer[s] = "armed"
    /\ child' = [child EXCEPT ![s] = "exited"] /\ timer' = [timer EXCEPT ![s] = "off"]
    /\ Settle(s, "failed")
    /\ UNCHANGED <<asked, authVars, fetch, layouts, recent, entry, stopped>>

ChildExits(s) ==
    /\ child[s] = "lists"
    /\ child' = [child EXCEPT ![s] = "exited"]
    /\ UNCHANGED <<asked, authVars, jobVars, fetch, server, timer, cacheVars>>

\* The limit is reached: SIGTERM, an outcome, and a grace period.
Timeout(s) ==
    /\ timer[s] = "armed" /\ Unsettled(s)
    /\ timer' = [timer EXCEPT ![s] = "grace"]
    /\ Settle(s, "failed")
    /\ UNCHANGED <<asked, authVars, fetch, child, layouts, recent, entry, stopped>>

\* SIGKILL cannot be ignored.
GraceEnds(s) ==
    /\ timer[s] = "grace"
    /\ timer' = [timer EXCEPT ![s] = "off"]
    /\ child' = [child EXCEPT ![s] = IF @ = "lists" THEN "exited" ELSE @]
    /\ UNCHANGED <<asked, authVars, jobVars, fetch, server, cacheVars>>

\* The close handler; exit code 0 stores what was parsed.
Close(s, ok) ==
    /\ child[s] = "exited"
    /\ child' = [child EXCEPT ![s] = "closed"] /\ timer' = [timer EXCEPT ![s] = "off"]
    /\ entry' = [entry EXCEPT ![s] = "none"]
    /\ Settle(s, IF ok THEN "completed" ELSE "failed")
    /\ UNCHANGED <<asked, authVars, fetch, layouts, recent, stopped>>

-----------------------------------------------------------------------------
(* The job routes and the process *)

\* Wrong form of Stop: the timer of a stopped child is switched off.
StopSwitchesOff(s) ==
    /\ entry[s] # "none"
    /\ entry' = [entry EXCEPT ![s] = "none"] /\ timer' = [timer EXCEPT ![s] = "off"]
    /\ row' = [row EXCEPT ![s] = IF @ = "running" THEN "cancelled" ELSE @]
    /\ stopped' = stopped \cup {s}
    /\ UNCHANGED <<asked, authVars, fetch, server, child, cacheVars>>

\* The fetch is aborted or the child sent SIGTERM, which it may ignore.
Stop(s) ==
    /\ entry[s] # "none"
    /\ entry' = [entry EXCEPT ![s] = "none"]
    /\ row' = [row EXCEPT ![s] = IF @ = "running" THEN "cancelled" ELSE @]
    /\ stopped' = stopped \cup {s}
    /\ UNCHANGED <<asked, authVars, phaseVars, cacheVars>>

\* DELETE /api/jobs and retention.
Forget(s) ==
    /\ row[s] \in Terminal
    /\ row' = [row EXCEPT ![s] = "deleted"]
    /\ UNCHANGED <<asked, authVars, entry, phaseVars, cacheVars, stopped>>

\* Shutdown or crash, and boot: the rows get an outcome and the auth files go; the layouts stay.
Restart ==
    /\ (\E q \in Requests : asked[q] = "resolving")
       \/ \E s \in Scans : fetch[s].at \in Fetching \/ server[s] = "open" \/ child[s] \in {"lists", "exited"}
    /\ asked' = [q \in Requests |-> IF asked[q] = "new" THEN "new" ELSE "done"]
    /\ auth' = {} /\ left' = [q \in Requests |-> 0]
    /\ \E outcome \in {"cancelled", "failed"} :
          row' = [s \in Scans |-> IF row[s] = "running" THEN outcome ELSE row[s]]
    /\ entry' = [s \in Scans |-> "none"]
    /\ fetch' = [s \in Scans |-> IF fetch[s].at = "none" THEN NoFetch ELSE Done]
    /\ server' = [s \in Scans |-> "none"] /\ child' = [s \in Scans |-> "none"]
    /\ timer' = [s \in Scans |-> "off"]
    /\ inUse' = [c \in Catalogs |-> [d \in Digests |-> 0]]
    /\ UNCHANGED <<layouts, recent, stopped>>

-----------------------------------------------------------------------------
\* Earlier scans may have left layouts, whole or broken off.
Init ==
    /\ asked = [q \in Requests |-> "new"] /\ auth = {} /\ left = [q \in Requests |-> 0]
    /\ row = [s \in Scans |-> "absent"] /\ entry = [s \in Scans |-> "none"]
    /\ fetch = [s \in Scans |-> NoFetch] /\ server = [s \in Scans |-> "none"]
    /\ child = [s \in Scans |-> "none"] /\ timer = [s \in Scans |-> "off"]
    /\ \E old \in {{}} \cup {{d} : d \in Old}, files \in (SUBSET (1..Blobs)) \cup {Whole} :
          /\ recent = [c \in Catalogs |-> {<<d, d>> : d \in old}]
          /\ layouts = [c \in Catalogs |-> [d \in Digests |-> IF d \in old THEN files ELSE {}]]
    /\ inUse = [c \in Catalogs |-> [d \in Digests |-> 0]]
    /\ stopped = {}

FetchStep(s) == (\E d \in Digests : ManifestReturns(s, d)) \/ BlobAnswered(s) \/ BlobLoaded(s)
                \/ ClientCloses(s) \/ Opened(s) \/ ListingUnprepared(s) \/ FetchFails(s)
Served(s) == FetchStep(s) \/ Close(s, TRUE) \/ Close(s, FALSE) \/ Timeout(s) \/ GraceEnds(s)

Next ==
    \/ \E q \in Requests : Ask(q) \/ Begin(q) \/ BinaryFails(q)
    \/ \E s \in Scans : Served(s) \/ SpawnErrors(s) \/ ChildExits(s) \/ Stop(s) \/ Forget(s)
    \/ Restart

\* The event loop serves what is ready, requests to a registry have timeouts, timers fire.
\* Nothing makes a child exit by itself or on SIGTERM.
Fairness == \A s \in Scans : WF_vars(Served(s))

Spec == Init /\ [][Next]_vars /\ Fairness

-----------------------------------------------------------------------------
(* Properties *)

\* recent has the existing layouts of a repository one after the other.
IsOrder(c) ==
    /\ \A p \in recent[c] : p[1] \in Present(c) /\ p[2] \in Present(c)
    /\ \A d, e \in Present(c) : <<d, e>> \in recent[c] \/ <<e, d>> \in recent[c]
    /\ \A d, e \in Present(c) : <<d, e>> \in recent[c] /\ <<e, d>> \in recent[c] => d = e
    /\ \A d, e, f \in Present(c) : <<d, e>> \in recent[c] /\ <<e, f>> \in recent[c] => <<d, f>> \in recent[c]

TypeOK ==
    /\ asked \in [Requests -> {"new", "resolving", "done"}] /\ auth \subseteq Requests
    /\ left \in [Requests -> 0..Cardinality(Scans)]
    /\ row \in [Scans -> Terminal \cup {"absent", "running", "deleted"}]
    /\ entry \in [Scans -> {"none", "fetch", "child"}]
    /\ fetch \in [Scans -> [at : Fetching \cup {"none", "done"}, of : Digests \cup {None}, next : 0..Blobs]]
    /\ server \in [Scans -> {"none", "open", "closed"}]
    /\ child \in [Scans -> {"none", "lists", "exited", "closed"}]
    /\ timer \in [Scans -> {"off", "armed", "grace"}]
    /\ layouts \in [Catalogs -> [Digests -> SUBSET Whole]]
    /\ recent \in [Catalogs -> SUBSET (Digests \X Digests)] /\ \A c \in Catalogs : IsOrder(c)
    /\ inUse \in [Catalogs -> [Digests -> 0..Cardinality(Scans)]]
    /\ stopped \subseteq Scans

\* The pull secret of a request is on disk exactly as long as its binary is resolved or
\* one of its scans still fetches, however they fail, are stopped or overtake each other.
SecretLivesWithFetches ==
    \A q \in Requests : q \in auth <=>
        asked[q] = "resolving" \/ \E s \in Of(q) : fetch[s].at \in Fetching

\* A scan that was stopped before its listing starts no child, also when its row is
\* deleted while the fetch notices; and a scan with an outcome stores no results.
StopIsFinal ==
    [][\A s \in Scans :
        /\ s \in stopped /\ child[s] = "none" => child'[s] = "none"
        /\ row[s] \in Terminal => row'[s] \in {row[s], "deleted"}]_vars

\* No scan removes a layout, or a file of it, that a running listing of another uses.
ListedIsKept ==
    [][\A s \in Scans : child[s] = "lists" /\ server[s] = "open" => Used(s) \subseteq layouts'[Cat(s)][Dig(s)]]_vars

\* Every scan gets an outcome and every child ends, also one that ignores SIGTERM, was
\* stopped, or whose row is gone.
EveryScanEnds ==
    \A s \in Scans : row[s] = "running" \/ child[s] \in {"lists", "exited"}
        ~> row[s] # "running" /\ child[s] \notin {"lists", "exited"}
=============================================================================
