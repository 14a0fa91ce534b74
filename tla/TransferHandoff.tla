--------------------------- MODULE TransferHandoff ---------------------------
(***************************************************************************)
(* One plan's archives across the air gap (mirroringTransfer.js and its    *)
(* routes): prepareTransfer writes the checksums, the plan and the         *)
(* manifest beside the archives; the operator carries them; receive        *)
(* verifies the carried folder, copies it into the profile and records it; *)
(* disk to mirror reads the copy.                                          *)
(*                                                                         *)
(* The operator may change the carried folder between any two reads of it, *)
(* so it is no variable: every read finds whatever may be there by then.   *)
(* A file is what it holds.  Files 1..Archives are the archives, all of    *)
(* one size; then come the papers (plan.json and imageset-config.yaml,     *)
(* which belong to the plan and never change) and the manifest.            *)
(***************************************************************************)
EXTENDS Naturals, FiniteSets

CONSTANTS
    Archives,   \* number of archive files
    MaxPrep,    \* manifests the connected side completes (bound)
    Receives,   \* requests to receive that may be served at a time
    Loads,      \* disk-to-mirror runs that may exist at a time
    None        \* nobody

ASSUME HandoffAssumption ==
    /\ Archives \in Nat \ {0} /\ MaxPrep \in Nat
    /\ None \notin Receives

VARIABLES
    arch,       \* the connected side's archives: the run that wrote each
    src,        \* the other files beside them: [papers, manifest, sums]
    prep,       \* prepareTransfer: [at, listing]
    listing,    \* what each manifest written so far lists
    staged,     \* the copy in the receiving profile
    record,     \* the manifest in the profile's received record, or 0
    exists,     \* the profile exists
    busy,       \* the receive in runningTransferJobs
    receive,    \* what a receive does next: [at, of, next]
    load,       \* a disk-to-mirror run: idle, queued, running, stopped
    overtaken   \* runs that were queued when a receive began to copy

vars == <<arch, src, prep, listing, staged, record, exists, busy, receive, load, overtaken>>
highVars == <<staged, record, exists, busy, receive, load, overtaken>>
lowVars  == <<arch, src, prep, listing>>

Runs     == {"run1", "run2"}        \* a run and the retry that shares its plan
Contents == Runs \cup {"none", "part", "other", "good"}
Tars     == 1..Archives
Papers   == Archives + 1
Manifest == Archives + 2
Files    == 1..Manifest
Preps    == 1..MaxPrep
NoList   == [f \in Tars |-> "none"]
Nowhere  == [f \in Files |-> "none"]
IdlePrep == [at |-> "idle", listing |-> NoList]
NoReceive == [at |-> "idle", of |-> 0, next |-> 0]

Known == {g \in Preps : listing[g] # NoList}

\* What manifest g says of a file.
Want(g, f) == IF f \in Tars THEN listing[g][f] ELSE "good"

-----------------------------------------------------------------------------
(* The connected side: POST .../transfer *)

\* A run launched meanwhile, or before, replaces archives that have no set of their own.
Rewrite(f) ==
    /\ arch' = [arch EXCEPT ![f] = "run2"]
    /\ UNCHANGED <<src, prep, listing, highVars>>

PrepareBegins ==
    /\ prep = IdlePrep /\ Cardinality(Known) < MaxPrep
    /\ prep' = [IdlePrep EXCEPT !.at = "hash"]
    /\ UNCHANGED <<arch, src, listing, highVars>>

\* Wrong form of HashArchive: the listing is taken as complete too early.
HashInAnyOrder(f) ==
    /\ prep.at = "hash" /\ prep.listing[f] = "none"
    /\ prep' = [at |-> IF f = Archives THEN "dropSums" ELSE "hash",
                listing |-> [prep.listing EXCEPT ![f] = arch[f]]]
    /\ UNCHANGED <<arch, src, listing, highVars>>

\* One archive after the other is inspected and hashed.
HashArchive(f) ==
    /\ prep.at = "hash" /\ prep.listing[f] = "none"
    /\ \A e \in Tars : e < f => prep.listing[e] # "none"
    /\ prep' = [at |-> IF f = Archives THEN "dropSums" ELSE "hash",
                listing |-> [prep.listing EXCEPT ![f] = arch[f]]]
    /\ UNCHANGED <<arch, src, listing, highVars>>

Then(step) == prep' = [prep EXCEPT !.at = step]

\* Wrong form of DropSums: the old checksums stay until the new ones are written.
KeepSums ==
    /\ prep.at = "dropSums"
    /\ Then("dropFolder")
    /\ UNCHANGED <<arch, src, listing, highVars>>

\* The checksum list goes first.
DropSums ==
    /\ prep.at = "dropSums"
    /\ src' = [src EXCEPT !.sums = 0]
    /\ Then("dropFolder")
    /\ UNCHANGED <<arch, listing, highVars>>

DropFolder ==
    /\ prep.at = "dropFolder"
    /\ src' = [src EXCEPT !.papers = "none", !.manifest = 0]
    /\ Then("papers")
    /\ UNCHANGED <<arch, listing, highVars>>

WritePapers ==
    /\ prep.at = "papers"
    /\ src' = [src EXCEPT !.papers = "good"]
    /\ Then("manifest")
    /\ UNCHANGED <<arch, listing, highVars>>

WriteManifest ==
    LET g == Cardinality(Known) + 1 IN
    /\ prep.at = "manifest"
    /\ src' = [src EXCEPT !.manifest = g]
    /\ listing' = [listing EXCEPT ![g] = prep.listing]
    /\ Then("sums")
    /\ UNCHANGED <<arch, highVars>>

\* With the manifest's own hash in it.
WriteSums ==
    /\ prep.at = "sums"
    /\ src' = [src EXCEPT !.sums = Cardinality(Known)]
    /\ prep' = IdlePrep
    /\ UNCHANGED <<arch, listing, highVars>>

\* A check fails, a file operation throws or the process ends: what the step was at is
\* partly removed, torn (0, like missing, where its whole content matters) or absent.
PrepareBreaks ==
    /\ prep # IdlePrep
    /\ prep' = IdlePrep
    /\ CASE prep.at = "dropFolder" -> \E m \in {0, src.manifest}, p \in {"none", src.papers} :
                                         src' = [src EXCEPT !.papers = p, !.manifest = m]
         [] prep.at = "papers"     -> src' = [src EXCEPT !.papers = "part"]
         [] OTHER                  -> UNCHANGED src
    /\ UNCHANGED <<arch, listing, highVars>>

-----------------------------------------------------------------------------
(* The disconnected side: POST /api/mirroring/receive *)

At(r, step) == receive[r].at = step
Goto(r, step) == receive' = [receive EXCEPT ![r].at = step]

\* The manifest is read; the folder is verified file by file.
ReceiveBegins(r, g) ==
    /\ receive[r] = NoReceive /\ exists
    /\ receive' = [receive EXCEPT ![r] = [at |-> "verify", of |-> g, next |-> 1]]
    /\ UNCHANGED <<lowVars, staged, record, exists, busy, load, overtaken>>

\* Wrong form of Settle: whoever ends frees the profile.
SettleAny(r) ==
    /\ receive' = [receive EXCEPT ![r] = NoReceive]
    /\ busy' = None

\* The job has its outcome; finally: only the receive that holds the profile frees it.
Settle(r) ==
    /\ receive' = [receive EXCEPT ![r] = NoReceive]
    /\ busy' = IF busy = r THEN None ELSE busy

\* mirroringProfileRunning looks at running rows.
MayStage == busy = None /\ \A l \in Loads : load[l] # "running"

\* stageTransfer removes an earlier copy of the plan first; that may break midway.
StageBegins(r) ==
    /\ At(r, "verify") /\ exists /\ MayStage
    /\ \/ staged' = Nowhere /\ busy' = r /\ Goto(r, "open")
       \/ \E kept \in SUBSET Files :
             /\ staged' = [f \in Files |-> IF f \in kept THEN staged[f] ELSE "none"]
             /\ Settle(r)
    /\ overtaken' = overtaken \cup {l \in Loads : load[l] = "queued"}
    /\ UNCHANGED <<lowVars, record, exists, load>>

\* Wrong form of FileAt: the papers come before the archives.
FileAtPapersFirst(n) == IF n = 1 THEN Papers ELSE IF n = Manifest THEN n ELSE n - 1

\* The n-th file to be copied.
FileAt(n) == n

\* createWriteStream with wx: a file that exists is an error.
CopyBegins(r) ==
    LET f == FileAt(receive[r].next) IN
    /\ At(r, "open") /\ staged[f] = "none"
    /\ staged' = [staged EXCEPT ![f] = "part"]
    /\ Goto(r, "copy")
    /\ UNCHANGED <<lowVars, record, exists, busy, load, overtaken>>

\* All of what the source holds by now is copied and hashed on the way; a difference
\* ends the receive and leaves the file.
CopyEnds(r, c) ==
    LET f == FileAt(receive[r].next) IN
    /\ At(r, "copy")
    /\ staged' = [staged EXCEPT ![f] = c]
    /\ IF c # Want(receive[r].of, f)
       THEN Settle(r)
       ELSE /\ receive' = [receive EXCEPT ![r].at = IF f = Manifest THEN "staged" ELSE "open",
                                          ![r].next = IF f = Manifest THEN @ ELSE @ + 1]
            /\ UNCHANGED busy
    /\ UNCHANGED <<lowVars, record, exists, load, overtaken>>

\* The slice is read again; a profile that is gone ends the receive.
ReadSlice(r) ==
    /\ At(r, "staged")
    /\ IF exists THEN Goto(r, "identity") /\ UNCHANGED busy ELSE Settle(r)
    /\ UNCHANGED <<lowVars, staged, record, exists, load, overtaken>>

\* After the local tool is identified the slice is written as it was read, so that a
\* profile deleted meanwhile comes back.
Record(r) ==
    /\ At(r, "identity")
    /\ record' = receive[r].of /\ exists' = TRUE
    /\ Settle(r)
    /\ UNCHANGED <<lowVars, staged, load, overtaken>>

\* Verification fails, the profile is busy or gone, or the file system fails.
ReceiveFails(r) ==
    /\ receive[r] # NoReceive
    /\ Settle(r)
    /\ UNCHANGED <<lowVars, staged, record, exists, load, overtaken>>

-----------------------------------------------------------------------------
(* Disk to mirror *)

\* checkStaged: every archive has its size, the configuration its hash.
CheckStaged == (\A f \in Tars : staged[f] \notin {"none", "part"}) /\ staged[Papers] = "good"

Request(l) ==
    /\ exists /\ record # 0 /\ CheckStaged
    /\ load[l] = "idle" /\ \A k \in Loads : load[k] \notin {"queued", "running"}
    /\ load' = [load EXCEPT ![l] = "queued"]
    /\ UNCHANGED <<lowVars, staged, record, exists, busy, receive, overtaken>>

Launch(l) ==
    /\ load[l] = "queued"
    /\ load' = [load EXCEPT ![l] = "running"]
    /\ UNCHANGED <<lowVars, staged, record, exists, busy, receive, overtaken>>

\* The launch fails, or the child of a run ends.
Ends(l) ==
    /\ load[l] # "idle"
    /\ load' = [load EXCEPT ![l] = "idle"]
    /\ overtaken' = overtaken \ {l}
    /\ UNCHANGED <<lowVars, staged, record, exists, busy, receive>>

\* The row is cancelled at once, the child goes on until it notices.
Stop(l) ==
    /\ load[l] = "running"
    /\ load' = [load EXCEPT ![l] = "stopped"]
    /\ UNCHANGED <<lowVars, staged, record, exists, busy, receive, overtaken>>

\* DELETE the profile (not while a row is running), or Mirroring Start Over (which
\* cancels running rows); the files stay.
Delete ==
    /\ exists
    /\ exists' = FALSE /\ record' = 0
    /\ load' = [l \in Loads |-> IF load[l] = "running" THEN "stopped" ELSE load[l]]
    /\ UNCHANGED <<lowVars, staged, busy, receive, overtaken>>

\* The process ends, with its children, and starts again.
Restart ==
    /\ \/ \E r \in Receives : receive[r] # NoReceive
       \/ \E l \in Loads : load[l] # "idle"
    /\ busy' = None /\ receive' = [r \in Receives |-> NoReceive]
    /\ load' = [l \in Loads |-> "idle"] /\ overtaken' = {}
    /\ UNCHANGED <<lowVars, staged, record, exists>>

-----------------------------------------------------------------------------
Init ==
    /\ arch = [f \in Tars |-> "run1"]
    /\ src = [papers |-> "none", manifest |-> 0, sums |-> 0]
    /\ prep = IdlePrep /\ listing = [g \in Preps |-> NoList]
    /\ staged = Nowhere /\ record = 0 /\ exists = TRUE
    /\ busy = None /\ receive = [r \in Receives |-> NoReceive]
    /\ load = [l \in Loads |-> "idle"] /\ overtaken = {}

Prepare == PrepareBegins \/ (\E f \in Tars : HashArchive(f)) \/ DropSums \/ DropFolder
           \/ WritePapers \/ WriteManifest \/ WriteSums \/ PrepareBreaks

Receive(r) == CopyBegins(r) \/ (\E c \in Contents \ {"none"} : CopyEnds(r, c)) \/ ReadSlice(r) \/ Record(r) \/ ReceiveFails(r)

Next ==
    \/ Prepare \/ \E f \in Tars : Rewrite(f)
    \/ \E r \in Receives : (\E g \in Known : ReceiveBegins(r, g)) \/ StageBegins(r) \/ Receive(r)
    \/ \E l \in Loads : Request(l) \/ Launch(l) \/ Ends(l) \/ Stop(l)
    \/ Delete \/ Restart

Spec == Init /\ [][Next]_vars

-----------------------------------------------------------------------------
(* Properties *)

TypeOK ==
    /\ arch \in [Tars -> Runs]
    /\ src \in [papers : {"none", "part", "good"}, manifest : 0..MaxPrep, sums : 0..MaxPrep]
    /\ prep \in [at : {"idle", "hash", "dropSums", "dropFolder", "papers", "manifest", "sums"},
                 listing : [Tars -> Runs \cup {"none"}]]
    /\ listing \in [Preps -> [Tars -> Runs] \cup {NoList}]
    /\ staged \in [Files -> Contents] /\ record \in {0} \cup Known /\ exists \in BOOLEAN
    /\ busy \in Receives \cup {None}
    /\ receive \in [Receives -> [at : {"idle", "verify", "open", "copy", "staged", "identity"},
                                 of : {0} \cup Known, next : 0..Manifest]]
    /\ load \in [Loads -> {"idle", "queued", "running", "stopped"}] /\ overtaken \subseteq Loads

\* A folder that has checksums has the manifest they were made for and whole papers,
\* however many preparations failed, tore a file or were cut off by a crash before.
SumsDescribeFolder ==
    src.sums # 0 => src.manifest = src.sums /\ src.papers = "good"

\* As long as oc-mirror reads the copy of a transfer, it is complete and every archive
\* in it is the one some manifest lists, whatever receives of the same plan failed,
\* crashed or read a folder that changed under them; only a receive that began between
\* the run's request and its launch, or after Stop, is not kept out.
CopyInUseIsWhole ==
    \A l \in Loads : load[l] = "running" /\ l \notin overtaken =>
        \E g \in Known : \A f \in Files \ {Manifest} : staged[f] = Want(g, f)

\* The profile is occupied by exactly the receive that is copying into it, through every
\* way a receive can end: no two write one copy, and none that is gone keeps others out.
OccupiedByItsWriter ==
    \A r \in Receives : busy = r <=> receive[r].at \in {"open", "copy", "staged", "identity"}
=============================================================================
