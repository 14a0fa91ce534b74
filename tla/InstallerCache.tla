---------------------------- MODULE InstallerCache ----------------------------
(***************************************************************************)
(* One cached openshift-install binary and the verified tarball it comes   *)
(* from: acquireVerifiedArtifact (verifiedDownload.js), the provenance     *)
(* record (binaryProvenance.js) and the two functions built on them,       *)
(* ensureInstaller (installer.js), which runs the binary, and              *)
(* ensureOpenshiftInstaller (openshiftInstaller.js), which exports it.     *)
(* They use directories of their own; inPlace says whose this cache is:    *)
(* the second one lets tar write into the cache directory and removes the  *)
(* tarball afterwards, the first one extracts aside, renames and keeps it. *)
(*                                                                         *)
(* Callers are requests of one process.  A file is what it holds: the      *)
(* published bytes (good), the beginning of them (part, by the tar of a    *)
(* caller), other bytes (bad) or nothing.  A digest is the bytes it is of. *)
(***************************************************************************)
EXTENDS FiniteSets

CONSTANTS
    Callers,    \* requests for the binary
    None        \* nobody

ASSUME CacheAssumption == None \notin Callers

VARIABLES
    inPlace,    \* ensureOpenshiftInstaller's cache, else ensureInstaller's
    tar,        \* the tarball at its cache path
    sidecar,    \* its .sha256 file: none, torn, or the digest of the good bytes
    bin,        \* the binary at its cache path: [bytes, by]
    rec,        \* binarySha256 of the binary's provenance record
    pc,         \* what a caller does next
    note,       \* bytes a caller has staged or hashed
    flight,     \* the caller whose acquisition is in inFlightAcquisitions
    got,        \* the bytes a caller used in the end
    overlap,    \* a request began while another was served
    rewritten   \* tar began to write the binary in place while another request was served

vars == <<inPlace, tar, sidecar, bin, rec, pc, note, flight, got, overlap, rewritten>>
tarVars == <<tar, sidecar>>
binVars == <<bin, rec>>

NoFile == [bytes |-> "none", by |-> None]
File(bytes) == [bytes |-> bytes, by |-> None]
Rest == {"idle", "used", "failed"}
Leading == {"look", "hashTar", "fetch", "check", "publish", "note", "noted"}
Steps == Rest \cup Leading \cup {"verify", "hashBin", "discard", "forget", "acquire", "wait",
         "extract", "extracting", "place", "hash", "record", "clean", "cleaned", "returned"}

Goto(c, step) == pc' = [pc EXCEPT ![c] = step]
Serving(c) == pc[c] \notin Rest

\* The request begins; ensure* looks at the cached binary first.
Begin(c) ==
    /\ ~Serving(c)
    /\ Goto(c, "verify")
    /\ got' = [got EXCEPT ![c] = "none"]
    /\ note' = [note EXCEPT ![c] = "none"]
    /\ overlap' = (overlap \/ \E d \in Callers : Serving(d))
    /\ UNCHANGED <<inPlace, tarVars, binVars, flight, rewritten>>

-----------------------------------------------------------------------------
(* verifyCachedBinary and discardUnverifiedBinary *)

\* lstat and the record; a binary without a record is discarded, one with it hashed.
LookAtBinary(c) ==
    /\ pc[c] = "verify"
    /\ Goto(c, IF bin = NoFile THEN "acquire" ELSE IF rec = "none" THEN "discard" ELSE "hashBin")
    /\ note' = [note EXCEPT ![c] = rec]
    /\ UNCHANGED <<inPlace, tarVars, binVars, flight, got, overlap, rewritten>>

\* Wrong form of HashBinary: the record is taken for the check.
HashBinaryNot(c) ==
    /\ pc[c] = "hashBin"
    /\ Goto(c, "returned")
    /\ UNCHANGED <<inPlace, tarVars, binVars, note, flight, got, overlap, rewritten>>

\* The hash decides; a binary that is gone by now makes the request fail.
HashBinary(c) ==
    /\ pc[c] = "hashBin"
    /\ Goto(c, IF bin = NoFile THEN "failed" ELSE IF bin.bytes = note[c] THEN "returned" ELSE "discard")
    /\ UNCHANGED <<inPlace, tarVars, binVars, note, flight, got, overlap, rewritten>>

DiscardBinary(c) ==
    /\ pc[c] = "discard"
    /\ bin' = NoFile
    /\ Goto(c, "forget")
    /\ UNCHANGED <<inPlace, tarVars, rec, note, flight, got, overlap, rewritten>>

DiscardRecord(c) ==
    /\ pc[c] = "forget"
    /\ rec' = "none"
    /\ Goto(c, "acquire")
    /\ UNCHANGED <<inPlace, tarVars, bin, note, flight, got, overlap, rewritten>>

-----------------------------------------------------------------------------
(* acquireVerifiedArtifact *)

\* One acquisition per destination; whoever comes later waits for its result.
Acquire(c) ==
    /\ pc[c] = "acquire"
    /\ IF flight = None THEN flight' = c /\ Goto(c, "look") ELSE Goto(c, "wait") /\ UNCHANGED flight
    /\ UNCHANGED <<inPlace, tarVars, binVars, note, got, overlap, rewritten>>

\* Wrong form of Settle: a failed acquisition stays in the map.
SettleKeepsFailure(step) ==
    /\ pc' = [d \in Callers |-> IF d = flight THEN step
                                ELSE IF pc[d] = "wait" /\ step # "failed" THEN step ELSE pc[d]]
    /\ flight' = IF step = "failed" THEN flight ELSE None

\* The promise settles: everyone who waited goes on in the same tick, the entry goes.
Settle(step) ==
    /\ pc' = [d \in Callers |-> IF d = flight \/ pc[d] = "wait" THEN step ELSE pc[d]]
    /\ flight' = None

\* Wrong form of LookAtTar: the sidecar is taken for the check.
LookAtTarTrusts(c) ==
    /\ pc[c] = "look"
    /\ IF sidecar = "good" /\ tar # "none" THEN Settle("extract") ELSE Goto(c, "fetch") /\ UNCHANGED flight
    /\ UNCHANGED <<inPlace, tarVars, binVars, note, got, overlap, rewritten>>

\* A tarball is hashed when the sidecar is readable, and fetched otherwise.
LookAtTar(c) ==
    /\ pc[c] = "look"
    /\ Goto(c, IF sidecar = "good" /\ tar # "none" THEN "hashTar" ELSE "fetch")
    /\ UNCHANGED <<inPlace, tarVars, binVars, note, flight, got, overlap, rewritten>>

\* Reused when its bytes still have the recorded digest; else the sidecar goes.
HashTar(c) ==
    /\ pc[c] = "hashTar"
    /\ CASE tar = "none" -> Settle("failed") /\ UNCHANGED sidecar
         [] tar = "good" -> Settle("extract") /\ UNCHANGED sidecar
         [] OTHER        -> sidecar' = "none" /\ Goto(c, "fetch") /\ UNCHANGED flight
    /\ UNCHANGED <<inPlace, tar, binVars, note, got, overlap, rewritten>>

\* The channel's manifest, and the body streamed to a staging file of its own.
Fetch(c, bytes) ==
    /\ pc[c] = "fetch"
    /\ note' = [note EXCEPT ![c] = bytes]
    /\ Goto(c, "check")
    /\ UNCHANGED <<inPlace, tarVars, binVars, flight, got, overlap, rewritten>>

\* Wrong form of Check: what arrived is published as it is.
CheckNothing(c) ==
    /\ pc[c] = "check"
    /\ Goto(c, "publish") /\ UNCHANGED flight
    /\ UNCHANGED <<inPlace, tarVars, binVars, note, got, overlap, rewritten>>

\* The staged bytes are hashed before they are published.
Check(c) ==
    /\ pc[c] = "check"
    /\ IF note[c] = "good" THEN Goto(c, "publish") /\ UNCHANGED flight ELSE Settle("failed")
    /\ UNCHANGED <<inPlace, tarVars, binVars, note, got, overlap, rewritten>>

Publish(c) ==
    /\ pc[c] = "publish"
    /\ tar' = note[c]
    /\ Goto(c, "note")
    /\ UNCHANGED <<inPlace, sidecar, binVars, note, flight, got, overlap, rewritten>>

\* recordDigest truncates the sidecar and writes it.
NoteBegins(c) ==
    /\ pc[c] = "note"
    /\ sidecar' = "torn"
    /\ Goto(c, "noted")
    /\ UNCHANGED <<inPlace, tar, binVars, note, flight, got, overlap, rewritten>>

\* The size is read last; a tarball another caller has removed makes it fail.
NoteEnds(c) ==
    /\ pc[c] = "noted"
    /\ sidecar' = "good"
    /\ Settle(IF tar = "none" THEN "failed" ELSE "extract")
    /\ UNCHANGED <<inPlace, tar, binVars, note, got, overlap, rewritten>>

-----------------------------------------------------------------------------
(* Extraction, record and cleaning up *)

\* tar opens the tarball; in place it replaces the cached binary by a new file at once.
ExtractBegins(c) ==
    /\ pc[c] = "extract" /\ tar # "none"
    /\ note' = [note EXCEPT ![c] = tar]
    /\ bin' = IF inPlace THEN [bytes |-> "part", by |-> c] ELSE bin
    /\ rewritten' = (rewritten \/ (inPlace /\ \E d \in Callers \ {c} : Serving(d)))
    /\ Goto(c, "extracting")
    /\ UNCHANGED <<inPlace, tarVars, rec, flight, got, overlap>>

\* The file is whole, if it is still the one at the path.
ExtractEnds(c) ==
    /\ pc[c] = "extracting"
    /\ bin' = IF bin.by = c THEN File(note[c]) ELSE bin
    /\ Goto(c, "place")
    /\ UNCHANGED <<inPlace, tarVars, rec, note, flight, got, overlap, rewritten>>

\* The extracted file is renamed to the cache path (onto itself when it was extracted
\* there) and made executable; both fail when it is gone.
Place(c) ==
    /\ pc[c] = "place"
    /\ bin' = IF inPlace THEN bin ELSE File(note[c])
    /\ Goto(c, IF bin' = NoFile THEN "failed" ELSE "hash")
    /\ UNCHANGED <<inPlace, tarVars, rec, note, flight, got, overlap, rewritten>>

\* writeBinaryProvenance hashes whatever the cache path holds by now.
HashExtracted(c) ==
    /\ pc[c] = "hash"
    /\ note' = [note EXCEPT ![c] = bin.bytes]
    /\ Goto(c, IF bin = NoFile THEN "failed" ELSE "record")
    /\ UNCHANGED <<inPlace, tarVars, binVars, flight, got, overlap, rewritten>>

\* Wrong form of WriteRecord: a binary that is gone by now is recorded as absent.
WriteRecordOfNow(c) ==
    /\ pc[c] = "record"
    /\ rec' = IF bin = NoFile THEN "absent" ELSE note[c]
    /\ Goto(c, IF inPlace THEN "clean" ELSE "returned")
    /\ UNCHANGED <<inPlace, tarVars, bin, note, flight, got, overlap, rewritten>>

\* And renames the record into place.
WriteRecord(c) ==
    /\ pc[c] = "record"
    /\ rec' = note[c]
    /\ Goto(c, IF inPlace THEN "clean" ELSE "returned")
    /\ UNCHANGED <<inPlace, tarVars, bin, note, flight, got, overlap, rewritten>>

\* unlink throws when another caller has removed the tarball.
RemoveTar(c) ==
    /\ pc[c] = "clean"
    /\ tar' = "none"
    /\ Goto(c, IF tar = "none" THEN "failed" ELSE "cleaned")
    /\ UNCHANGED <<inPlace, sidecar, binVars, note, flight, got, overlap, rewritten>>

RemoveSidecar(c) ==
    /\ pc[c] = "cleaned"
    /\ sidecar' = "none"
    /\ Goto(c, "returned")
    /\ UNCHANGED <<inPlace, tar, binVars, note, flight, got, overlap, rewritten>>

\* The request is served: the path is spawned, or read when the archive gets to it.
Use(c) ==
    /\ pc[c] = "returned"
    /\ got' = [got EXCEPT ![c] = IF bin = NoFile THEN "absent" ELSE bin.bytes]
    /\ Goto(c, "used")
    /\ UNCHANGED <<inPlace, tarVars, binVars, note, flight, overlap, rewritten>>

\* The network, the disk or the tar process fails; what was staged aside is removed.
Throws(c) ==
    /\ IF c = flight
       THEN /\ pc[c] \in Leading \ {"look", "hashTar"}
            /\ Settle("failed")
       ELSE /\ pc[c] \in {"extract", "extracting", "place", "hash", "record", "clean"}
            /\ Goto(c, "failed") /\ UNCHANGED flight
    /\ UNCHANGED <<inPlace, tarVars, binVars, note, got, overlap, rewritten>>

\* The process ends with its children; flights and staging files are forgotten.
Crash ==
    /\ \E c \in Callers : Serving(c)
    /\ pc' = [c \in Callers |-> "idle"]
    /\ note' = [c \in Callers |-> "none"]
    /\ got' = [c \in Callers |-> "none"]
    /\ flight' = None
    /\ bin' = [bin EXCEPT !.by = None]
    /\ UNCHANGED <<inPlace, tarVars, rec, overlap, rewritten>>

-----------------------------------------------------------------------------
\* A cache an older build, a crash or a bad disk has left.
Init ==
    /\ inPlace \in BOOLEAN
    /\ tar \in {"none", "good", "bad"} /\ sidecar \in {"none", "torn", "good"}
    /\ bin \in {NoFile, File("good"), File("part"), File("bad")} /\ rec \in {"none", "good"}
    /\ pc = [c \in Callers |-> "idle"] /\ note = [c \in Callers |-> "none"]
    /\ flight = None /\ got = [c \in Callers |-> "none"] /\ overlap = FALSE /\ rewritten = FALSE

Proceed(c) ==
    \/ LookAtBinary(c) \/ HashBinary(c) \/ DiscardBinary(c) \/ DiscardRecord(c)
    \/ Acquire(c) \/ LookAtTar(c) \/ HashTar(c)
    \/ \E bytes \in {"good", "bad"} : Fetch(c, bytes)
    \/ Check(c) \/ Publish(c) \/ NoteBegins(c) \/ NoteEnds(c)
    \/ ExtractBegins(c) \/ ExtractEnds(c) \/ Place(c) \/ HashExtracted(c) \/ WriteRecord(c)
    \/ RemoveTar(c) \/ RemoveSidecar(c) \/ Use(c) \/ Throws(c)

Next == Crash \/ \E c \in Callers : Begin(c) \/ Proceed(c)

\* The event loop serves every request that can go on; a connection that delivers
\* nothing is given up by the HTTP client.
Fairness == \A c \in Callers : WF_vars(Proceed(c))

Spec == Init /\ [][Next]_vars /\ Fairness

-----------------------------------------------------------------------------
(* Properties *)

Bytes == {"none", "good", "part", "bad"}

TypeOK ==
    /\ inPlace \in BOOLEAN
    /\ tar \in {"none", "good", "bad"} /\ sidecar \in {"none", "torn", "good"}
    /\ bin \in [bytes : Bytes, by : Callers \cup {None}] /\ rec \in Bytes
    /\ pc \in [Callers -> Steps] /\ note \in [Callers -> Bytes]
    /\ flight \in Callers \cup {None}
    /\ got \in [Callers -> Bytes \cup {"absent"}] /\ overlap \in BOOLEAN
    /\ rewritten \in BOOLEAN

\* No tarball is extracted that was not checked against its channel's manifest,
\* whatever an earlier process left at its path and whoever acquired it.
OnlyVerifiedIsExtracted ==
    \A c \in Callers : pc[c] = "extract" => tar # "bad"

\* A binary that would be reused is the published one, through crashes and failures at
\* any step and over a cache of any origin, until tar writes in place under another
\* request for the same variant.
ProvenIsGenuine ==
    ~rewritten /\ bin # NoFile /\ bin.bytes = rec => rec = "good"

\* What is run or exported in the end is the published binary, never other bytes.  Two
\* exceptions: a request that met another one may find it discarded; and once tar wrote in
\* place under another request, which two exports over an empty cache do, the beginning of
\* the binary may be exported, and recorded for later ones.
UsedIsGenuine ==
    \A c \in Callers : pc[c] = "used" =>
        /\ got[c] # "bad"
        /\ ~rewritten => got[c] = "good" \/ (overlap /\ got[c] = "absent")

\* Nobody waits for ever for somebody else's acquisition.
WaitersSettle == \A c \in Callers : pc[c] = "wait" ~> pc[c] # "wait"
=============================================================================
