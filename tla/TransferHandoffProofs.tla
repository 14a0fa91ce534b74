------------------------ MODULE TransferHandoffProofs ------------------------
(***************************************************************************)
(* What holds of TransferHandoff for any number of archives, manifests,     *)
(* receives and loads.                                                      *)
(***************************************************************************)
EXTENDS TransferHandoff, FiniteSetTheorems, TLAPS

-----------------------------------------------------------------------------
(* The invariant *)

\* Manifests are numbered as they are written, and one can be written when all archives
\* are hashed.
ListingInv ==
    /\ Known = 1..Cardinality(Known)
    /\ prep # IdlePrep /\ prep.at # "sums" => Cardinality(Known) < MaxPrep
    /\ prep.at \in {"idle", "hash"} \/ prep.listing \in [Tars -> Runs]

\* Checksums are there only between two preparations.
FolderInv ==
    /\ SumsDescribeFolder
    /\ prep.at \in {"dropFolder", "papers", "manifest", "sums"} => src.sums = 0
    /\ prep.at \in {"manifest", "sums"} => src.papers = "good"
    /\ prep.at = "sums" => src.manifest = Cardinality(Known) /\ Known # {}

\* What a receive has copied so far is what its manifest lists, the rest is not there.
CopyInv ==
    \A r \in Receives :
        /\ receive[r] # NoReceive => receive[r].at # "idle" /\ receive[r].of \in Known
        /\ At(r, "verify") => receive[r].next = 1
        /\ At(r, "open") \/ At(r, "copy") =>
              /\ receive[r].next \in Files
              /\ \A f \in Files : f < receive[r].next => staged[f] = Want(receive[r].of, f)
              /\ \A f \in Files : f > receive[r].next => staged[f] = "none"
              /\ staged[receive[r].next] = IF At(r, "open") THEN "none" ELSE "part"

\* The papers come after the archives: beside whole papers no archive is another one than
\* some manifest lists.
PapersInv ==
    staged[Papers] = "good" =>
        \E g \in Known : \A f \in Tars : staged[f] \in {"none", listing[g][f]}

Complete == \E g \in Known : \A f \in Files \ {Manifest} : staged[f] = Want(g, f)

\* A load that was not overtaken found a complete copy and still does.
LoadInv == \A l \in Loads : load[l] \in {"queued", "running"} /\ l \notin overtaken => Complete

LowInv == ListingInv /\ FolderInv

HighInv == OccupiedByItsWriter /\ CopyInv /\ PapersInv /\ LoadInv

-----------------------------------------------------------------------------
(* Manifests *)

\* The steps of the connected side.
LowStep == Prepare \/ \E f \in Tars : Rewrite(f)

LEMMA KnownIsFinite == Cardinality(Known) \in 0..MaxPrep
<1>1. Known \subseteq Preps
  BY DEF Known
<1>2. IsFiniteSet(Preps) /\ Cardinality(Preps) = MaxPrep
  BY HandoffAssumption, FS_Interval DEF HandoffAssumption, Preps
<1>. QED BY <1>1, <1>2, FS_Subset, FS_CardinalityType, HandoffAssumption DEF HandoffAssumption

\* A manifest that is written gets the next number and changes no other.
LEMMA ManifestIsNew ==
    ASSUME TypeOK, ListingInv, WriteManifest
    PROVE  LET g == Cardinality(Known) + 1 IN
           /\ g \in Preps /\ g \notin Known
           /\ listing' = [listing EXCEPT ![g] = prep.listing] /\ prep.listing \in [Tars -> Runs]
           /\ Known' = Known \cup {g} /\ Known' = 1..g /\ Cardinality(Known') = g
<1> DEFINE n == Cardinality(Known)
           g == n + 1
<1>1. n \in 0..MaxPrep /\ Known = 1..n /\ n < MaxPrep /\ prep.listing \in [Tars -> Runs]
  BY KnownIsFinite DEF ListingInv, WriteManifest, IdlePrep
<1>2. g \in Preps /\ g \notin Known /\ g \in Nat
  BY <1>1, HandoffAssumption DEF Preps, HandoffAssumption
<1>3. prep.listing # NoList
  <2>1. 1 \in Tars
    BY HandoffAssumption DEF Tars, HandoffAssumption
  <2>2. prep.listing[1] # "none"
    BY <1>1, <2>1 DEF Runs
  <2>. QED BY <2>1, <2>2 DEF NoList
<1>4. listing' = [listing EXCEPT ![g] = prep.listing]
  BY DEF WriteManifest
<1>5. Known' = Known \cup {g}
  <2>1. DOMAIN listing = Preps
    BY DEF TypeOK
  <2>2. \A h \in Preps : listing'[h] = IF h = g THEN prep.listing ELSE listing[h]
    BY <1>4, <2>1
  <2>. QED BY <1>2, <1>3, <2>2 DEF Known
<1>6. Known' = 1..g
  BY <1>1, <1>5
<1>7. Cardinality(Known') = g
  BY <1>2, <1>6, FS_Interval
<1>. QED BY <1>1, <1>2, <1>4, <1>5, <1>6, <1>7

\* Whatever the connected side does, manifests are only added.
LEMMA ManifestsStay ==
    ASSUME TypeOK, ListingInv, LowStep
    PROVE  /\ Known \subseteq Known' /\ UNCHANGED highVars
           /\ \A g \in Known : listing'[g] = listing[g]
<1>1. CASE WriteManifest
  BY <1>1, ManifestIsNew DEF WriteManifest, TypeOK, Known
<1>2. CASE listing' = listing
  <2>1. Known' = Known
    BY <1>2 DEF Known
  <2>2. UNCHANGED highVars
    BY DEF LowStep, Prepare, Rewrite, PrepareBegins, HashArchive, DropSums, DropFolder, WritePapers, WriteManifest,
       WriteSums, PrepareBreaks
  <2>. QED BY <1>2, <2>1, <2>2
<1>. QED BY <1>1, <1>2 DEF LowStep, Prepare, Rewrite, PrepareBegins, HashArchive, DropSums, DropFolder, WritePapers,
     WriteSums, PrepareBreaks

\* The types of what both sides know of each other.
LEMMA LowTypes == TypeOK /\ ListingInv /\ LowStep => TypeOK'
<1> SUFFICES ASSUME TypeOK, ListingInv, LowStep PROVE TypeOK'
  OBVIOUS
<1> DEFINE Steps == {"idle", "hash", "dropSums", "dropFolder", "papers", "manifest", "sums"}
           Listings == [Tars -> Runs \cup {"none"}]
           Sources == [papers : {"none", "part", "good"}, manifest : 0..MaxPrep, sums : 0..MaxPrep]
<1>0. /\ prep \in [at : Steps, listing : Listings] /\ src \in Sources /\ arch \in [Tars -> Runs]
      /\ 0 \in 0..MaxPrep /\ MaxPrep \in Nat
  BY HandoffAssumption DEF TypeOK, HandoffAssumption
<1>1. arch' \in [Tars -> Runs]
  BY <1>0 DEF LowStep, Prepare, Rewrite, PrepareBegins, HashArchive, DropSums, DropFolder, WritePapers, WriteManifest,
     WriteSums, PrepareBreaks, Runs
<1>2. prep' \in [at : Steps, listing : Listings]
  <2>1. IdlePrep \in [at : Steps, listing : Listings]
    BY DEF IdlePrep, NoList
  <2>2. ASSUME NEW f \in Tars, HashArchive(f) PROVE prep' \in [at : Steps, listing : Listings]
    BY <1>0, <2>2 DEF HashArchive
  <2>3. CASE PrepareBegins
    BY <2>1, <2>3 DEF PrepareBegins
  <2>4. CASE WriteSums \/ PrepareBreaks
    BY <2>1, <2>4 DEF WriteSums, PrepareBreaks
  <2>5. CASE DropSums \/ DropFolder \/ WritePapers \/ WriteManifest
    BY <1>0, <2>5 DEF DropSums, DropFolder, WritePapers, WriteManifest, Then
  <2>. QED BY <1>0, <2>2, <2>3, <2>4, <2>5 DEF LowStep, Prepare, Rewrite
<1>3. src' \in Sources
  <2>1. CASE WriteManifest
    <3>1. Cardinality(Known) + 1 \in 0..MaxPrep
      BY <2>1, ManifestIsNew DEF Preps
    <3>. QED BY <1>0, <2>1, <3>1 DEF WriteManifest
  <2>2. CASE WriteSums
    BY <1>0, <2>2, KnownIsFinite DEF WriteSums
  <2>3. CASE DropSums \/ DropFolder \/ WritePapers
    BY <1>0, <2>3 DEF DropSums, DropFolder, WritePapers
  <2>4. CASE PrepareBreaks
    BY <1>0, <2>4 DEF PrepareBreaks
  <2>. QED BY <1>0, <2>1, <2>2, <2>3, <2>4 DEF LowStep, Prepare, Rewrite, PrepareBegins, HashArchive
<1>4. listing' \in [Preps -> [Tars -> Runs] \cup {NoList}]
  <2>1. CASE WriteManifest
    BY <2>1, ManifestIsNew DEF TypeOK
  <2>2. CASE listing' = listing
    BY <2>2 DEF TypeOK
  <2>. QED BY <2>1, <2>2 DEF LowStep, Prepare, Rewrite, PrepareBegins, HashArchive, DropSums, DropFolder, WritePapers,
     WriteSums, PrepareBreaks
<1>. QED BY <1>1, <1>2, <1>3, <1>4, ManifestsStay DEF TypeOK, highVars

\* The disconnected side leaves the connected one alone.
HighStep ==
    \/ \E r \in Receives : (\E g \in Known : ReceiveBegins(r, g)) \/ StageBegins(r) \/ Receive(r)
    \/ \E l \in Loads : Request(l) \/ Launch(l) \/ Ends(l) \/ Stop(l)
    \/ Delete \/ Restart

LEMMA LowStays == HighStep => UNCHANGED <<arch, src, prep, listing>>
  BY DEF HighStep, Receive, ReceiveBegins, StageBegins, CopyBegins, CopyEnds, ReadSlice, Record, ReceiveFails, Request, Launch,
     Ends, Stop, Delete, Restart, lowVars

LEMMA LowInvStep == TypeOK /\ LowInv /\ LowStep => LowInv'
<1> SUFFICES ASSUME TypeOK, LowInv, LowStep PROVE LowInv'
  OBVIOUS
<1>0. /\ Cardinality(Known) \in 0..MaxPrep /\ MaxPrep \in Nat
      /\ prep \in [at : {"idle", "hash", "dropSums", "dropFolder", "papers", "manifest", "sums"},
                   listing : [Tars -> Runs \cup {"none"}]]
      /\ src \in [papers : {"none", "part", "good"}, manifest : 0..MaxPrep, sums : 0..MaxPrep]
      /\ IdlePrep.at = "idle"
  BY KnownIsFinite, HandoffAssumption DEF TypeOK, HandoffAssumption, IdlePrep
<1> USE <1>0 DEF LowInv, ListingInv, FolderInv, SumsDescribeFolder
<1>1. CASE WriteManifest
  <2>1. /\ Cardinality(Known') = Cardinality(Known) + 1 /\ Known' = 1..Cardinality(Known')
        /\ Known' # {} /\ prep.listing \in [Tars -> Runs]
    BY <1>1, ManifestIsNew
  <2>2. prep'.at = "sums" /\ prep'.listing = prep.listing /\ prep' # IdlePrep
    BY <1>1 DEF WriteManifest, Then
  <2>3. src'.manifest = Cardinality(Known) + 1 /\ src'.sums = src.sums /\ src'.papers = src.papers
    BY <1>1 DEF WriteManifest
  <2>4. src.sums = 0 /\ src.papers = "good"
    BY <1>1 DEF WriteManifest
  <2>. QED BY <2>1, <2>2, <2>3, <2>4
<1>2. ASSUME listing' = listing PROVE Known' = Known
  BY <1>2 DEF Known
<1>3. ASSUME NEW f \in Tars, Rewrite(f) PROVE LowInv'
  BY <1>2, <1>3 DEF Rewrite
<1>4. CASE PrepareBegins
  <2>1. prep'.at = "hash" /\ prep'.listing = NoList /\ prep' # IdlePrep
    BY <1>4 DEF PrepareBegins, IdlePrep
  <2>. QED BY <1>2, <1>4, <2>1 DEF PrepareBegins
<1>5. ASSUME NEW f \in Tars, HashArchive(f) PROVE LowInv'
  <2>1. /\ prep'.at = IF f = Archives THEN "dropSums" ELSE "hash"
        /\ prep'.listing = [prep.listing EXCEPT ![f] = arch[f]] /\ prep' # IdlePrep /\ arch[f] \in Runs
    BY <1>5 DEF HashArchive, TypeOK
  <2>2. f = Archives => prep'.listing \in [Tars -> Runs]
    BY <1>5, <2>1, HandoffAssumption DEF HashArchive, Tars, HandoffAssumption
  <2>3. prep # IdlePrep /\ prep.at = "hash"
    BY <1>5 DEF HashArchive
  <2>. QED BY <1>2, <1>5, <2>1, <2>2, <2>3 DEF HashArchive
<1>6. CASE DropSums
  BY <1>2, <1>6 DEF DropSums, Then
<1>7. CASE DropFolder
  BY <1>2, <1>7 DEF DropFolder, Then
<1>8. CASE WritePapers
  BY <1>2, <1>8 DEF WritePapers, Then
<1>9. CASE WriteSums
  <2>1. /\ src'.sums = Cardinality(Known) /\ src'.manifest = Cardinality(Known) /\ src'.papers = "good"
        /\ prep' = IdlePrep
    BY <1>9 DEF WriteSums
  <2>. QED BY <1>2, <1>9, <2>1 DEF WriteSums
<1>10. CASE PrepareBreaks
  <2>1. src'.sums = src.sums /\ (src.sums # 0 => src' = src) /\ prep' = IdlePrep
    BY <1>10 DEF PrepareBreaks
  <2>. QED BY <1>2, <1>10, <2>1 DEF PrepareBreaks
<1>. QED BY <1>1, <1>3, <1>4, <1>5, <1>6, <1>7, <1>8, <1>9, <1>10 DEF LowStep, Prepare

\* The types of the disconnected side.
LEMMA HighTypes == TypeOK /\ HighStep => TypeOK'
<1> SUFFICES ASSUME TypeOK, HighStep PROVE TypeOK'
  OBVIOUS
<1> DEFINE Places == [at : {"idle", "verify", "open", "copy", "staged", "identity"}, of : {0} \cup Known, next : 0..Manifest]
<1>0. /\ Known' = Known /\ UNCHANGED <<arch, src, prep, listing>>
      /\ Archives \in Nat \ {0} /\ Manifest \in Nat /\ Papers \in Files /\ Manifest \in Files
      /\ Tars \subseteq Files /\ 0 \in 0..Manifest /\ 1 \in 0..Manifest /\ Nowhere \in [Files -> Contents]
      /\ NoReceive \in Places /\ receive \in [Receives -> Places] /\ staged \in [Files -> Contents]
      /\ busy \in Receives \cup {None} /\ load \in [Loads -> {"idle", "queued", "running", "stopped"}]
      /\ record \in {0} \cup Known
  BY LowStays, HandoffAssumption DEF Known, HandoffAssumption, Manifest, Papers, Files, Tars, Nowhere, Contents,
     NoReceive, TypeOK
<1>1. ASSUME NEW r \in Receives, Settle(r) PROVE receive' \in [Receives -> Places] /\ busy' \in Receives \cup {None}
  BY <1>0, <1>1 DEF Settle
<1>2. ASSUME NEW r \in Receives, NEW g \in Known, ReceiveBegins(r, g) PROVE TypeOK'
  BY <1>0, <1>2 DEF ReceiveBegins, TypeOK
<1>3. ASSUME NEW r \in Receives, StageBegins(r) PROVE TypeOK'
  <2>1. staged' \in [Files -> Contents]
    BY <1>0, <1>3 DEF StageBegins, Contents
  <2>2. receive' \in [Receives -> Places] /\ busy' \in Receives \cup {None}
    BY <1>0, <1>1, <1>3 DEF StageBegins, Goto
  <2>. QED BY <1>0, <1>3, <2>1, <2>2 DEF StageBegins, TypeOK
<1>4. ASSUME NEW r \in Receives, CopyBegins(r) PROVE TypeOK'
  <2>1. staged' \in [Files -> Contents]
    BY <1>0, <1>4 DEF CopyBegins, Contents
  <2>. QED BY <1>0, <1>4, <2>1 DEF CopyBegins, Goto, TypeOK
<1>5. ASSUME NEW r \in Receives, NEW c \in Contents \ {"none"}, CopyEnds(r, c) PROVE TypeOK'
  <2>1. staged' \in [Files -> Contents]
    BY <1>0, <1>5 DEF CopyEnds
  <2>2. receive' \in [Receives -> Places] /\ busy' \in Receives \cup {None}
    <3>1. CASE c # Want(receive[r].of, receive[r].next)
      BY <1>1, <1>5, <3>1 DEF CopyEnds, FileAt
    <3>2. CASE c = Want(receive[r].of, receive[r].next)
      <4>1. receive[r] \in Places
        BY <1>0
      <4>2. receive[r].next # Manifest => receive[r].next + 1 \in 0..Manifest
        BY <1>0, <4>1
      <4>. QED BY <1>0, <1>5, <3>2, <4>1, <4>2 DEF CopyEnds, FileAt
    <3>. QED BY <3>1, <3>2
  <2>. QED BY <1>0, <1>5, <2>1, <2>2 DEF CopyEnds, TypeOK
<1>6. ASSUME NEW r \in Receives, ReadSlice(r) \/ Record(r) \/ ReceiveFails(r) PROVE TypeOK'
  <2>1. ASSUME Settle(r), UNCHANGED <<staged, load, overtaken>>, record' \in {0} \cup Known, exists' \in BOOLEAN
        PROVE  TypeOK'
    BY <1>0, <1>1, <2>1 DEF TypeOK
  <2>2. CASE ReadSlice(r) /\ exists
    BY <1>0, <2>2 DEF ReadSlice, Goto, TypeOK
  <2>3. CASE ReadSlice(r) /\ ~exists
    BY <1>0, <2>1, <2>3 DEF ReadSlice, TypeOK
  <2>4. CASE Record(r) \/ ReceiveFails(r)
    <3>1. receive[r].of \in {0} \cup Known /\ exists \in BOOLEAN
      BY <1>0 DEF TypeOK
    <3>. QED BY <1>0, <2>1, <2>4, <3>1 DEF Record, ReceiveFails
  <2>. QED BY <1>6, <2>2, <2>3, <2>4
<1>7. ASSUME NEW l \in Loads, Request(l) \/ Launch(l) \/ Ends(l) \/ Stop(l) PROVE TypeOK'
  BY <1>0, <1>7 DEF Request, Launch, Ends, Stop, TypeOK
<1>8. CASE Delete
  BY <1>0, <1>8 DEF Delete, TypeOK
<1>9. CASE Restart
  BY <1>0, <1>9 DEF Restart, TypeOK
<1>. QED BY <1>2, <1>3, <1>4, <1>5, <1>6, <1>7, <1>8, <1>9 DEF HighStep, Receive

LEMMA TypeStep == TypeOK /\ ListingInv /\ [Next]_vars => TypeOK'
<1>1. CASE UNCHANGED vars
  BY <1>1 DEF vars, TypeOK, Known
<1>. QED BY <1>1, LowTypes, HighTypes DEF Next, LowStep, HighStep

LEMMA LowInvariant == TypeOK /\ LowInv /\ [Next]_vars => LowInv'
<1>1. CASE UNCHANGED <<arch, src, prep, listing>>
  BY <1>1 DEF LowInv, ListingInv, FolderInv, SumsDescribeFolder, Known
<1>. QED BY <1>1, LowInvStep, LowStays DEF Next, LowStep, HighStep, vars

LEMMA InitialLow == Init => TypeOK /\ LowInv
<1> SUFFICES ASSUME Init PROVE TypeOK /\ LowInv
  OBVIOUS
<1>1. Known = {} /\ Cardinality(Known) = 0 /\ Known = 1..0
  <2>1. Known = {}
    BY DEF Init, Known
  <2>2. 1..0 = {}
    OBVIOUS
  <2>. QED BY <2>1, <2>2, FS_EmptySet
<1>2. TypeOK
  BY HandoffAssumption DEF Init, TypeOK, HandoffAssumption, Runs, IdlePrep, NoList, NoReceive, Nowhere, Contents, Manifest
<1>3. LowInv
  BY <1>1 DEF Init, LowInv, ListingInv, FolderInv, SumsDescribeFolder, IdlePrep
<1>. QED BY <1>2, <1>3

\* A folder with checksums is the one they were made for, after any number of broken
\* preparations.
THEOREM ChecksumsDescribe == Spec => []SumsDescribeFolder
<1>1. LowInv => SumsDescribeFolder
  BY DEF LowInv, FolderInv
<1>2. LowInv => ListingInv
  BY DEF LowInv
<1>. QED BY <1>1, <1>2, InitialLow, LowInvariant, TypeStep, PTL DEF Spec

\* Both sides keep their types.
THEOREM HandoffTypes == Spec => []TypeOK
<1>1. LowInv => ListingInv
  BY DEF LowInv
<1>. QED BY <1>1, InitialLow, LowInvariant, TypeStep, PTL DEF Spec

-----------------------------------------------------------------------------
(* The receiving profile *)

\* What the steps of the disconnected side build on.
LEMMA HighFacts ==
    ASSUME TypeOK
    PROVE  /\ Archives \in Nat \ {0} /\ Papers = Archives + 1 /\ Manifest = Archives + 2
           /\ Files = 1..Manifest /\ Tars = 1..Archives
           /\ staged \in [Files -> Contents] /\ NoReceive.at = "idle"
           /\ DOMAIN receive = Receives /\ DOMAIN load = Loads
           /\ \A r \in Receives : receive[r] = [at |-> receive[r].at, of |-> receive[r].of, next |-> receive[r].next]
           /\ \A r \in Receives : busy = r => busy # None
  BY HandoffAssumption DEF TypeOK, HandoffAssumption, Papers, Manifest, Files, Tars, NoReceive

LEMMA LowKeepsHigh == TypeOK /\ ListingInv /\ HighInv /\ LowStep => HighInv'
<1> SUFFICES ASSUME TypeOK, ListingInv, HighInv, LowStep PROVE HighInv'
  OBVIOUS
<1>1. /\ Known \subseteq Known' /\ UNCHANGED <<staged, record, exists, busy, receive, load, overtaken>>
      /\ \A g \in Known, f \in Files : Want(g, f)' = Want(g, f)
      /\ \A g \in Known : listing'[g] = listing[g]
  BY ManifestsStay DEF highVars, Want
<1>2. OccupiedByItsWriter'
  BY <1>1 DEF HighInv, OccupiedByItsWriter
<1>3. ASSUME NEW r \in Receives
      PROVE  /\ receive'[r] # NoReceive => receive'[r].at # "idle" /\ receive'[r].of \in Known'
             /\ At(r, "verify")' => receive'[r].next = 1
             /\ At(r, "open")' \/ At(r, "copy")' =>
                   /\ receive'[r].next \in Files
                   /\ \A f \in Files : f < receive'[r].next => staged'[f] = Want(receive[r].of, f)'
                   /\ \A f \in Files : f > receive'[r].next => staged'[f] = "none"
                   /\ staged'[receive'[r].next] = IF At(r, "open")' THEN "none" ELSE "part"
  <2>1. receive'[r] = receive[r] /\ staged' = staged
    BY <1>1
  <2>2. At(r, "open") \/ At(r, "copy") => receive[r].of \in Known
    BY HighFacts DEF HighInv, CopyInv, At
  <2>3. At(r, "open") \/ At(r, "copy") => \A f \in Files : Want(receive[r].of, f)' = Want(receive[r].of, f)
    BY <1>1, <2>1, <2>2, ManifestsStay DEF Want
  <2>. QED BY <1>1, <2>1, <2>2, <2>3 DEF HighInv, CopyInv, At
<1>3a. CopyInv'
  BY <1>3 DEF CopyInv
<1>4. PapersInv'
  BY <1>1 DEF HighInv, PapersInv
<1>5. LoadInv'
  BY <1>1 DEF HighInv, LoadInv, Complete
<1>. QED BY <1>2, <1>3a, <1>4, <1>5 DEF HighInv

LEMMA OccupiedStep == TypeOK /\ OccupiedByItsWriter /\ HighStep => OccupiedByItsWriter'
<1> SUFFICES ASSUME TypeOK, OccupiedByItsWriter, HighStep PROVE OccupiedByItsWriter'
  OBVIOUS
<1>0. /\ DOMAIN receive = Receives /\ NoReceive.at = "idle" /\ None \notin Receives
      /\ busy \in Receives \cup {None}
  BY HighFacts, HandoffAssumption DEF TypeOK, HandoffAssumption
<1>00. receive \in [Receives -> [at : {"idle", "verify", "open", "copy", "staged", "identity"}, of : {0} \cup Known, next : 0..Manifest]]
  BY DEF TypeOK
<1> USE DEF OccupiedByItsWriter
<1>1. ASSUME NEW r \in Receives, Settle(r) PROVE OccupiedByItsWriter'
  BY <1>0, <1>1 DEF Settle
<1>2. ASSUME NEW r \in Receives, NEW g \in Known, ReceiveBegins(r, g) PROVE OccupiedByItsWriter'
  BY <1>0, <1>2 DEF ReceiveBegins
<1>3. ASSUME NEW r \in Receives, StageBegins(r) PROVE OccupiedByItsWriter'
  <2>1. CASE busy' = r /\ Goto(r, "open")
    BY <1>0, <1>00, <1>3, <2>1 DEF StageBegins, MayStage, Goto
  <2>. QED BY <1>1, <1>3, <2>1 DEF StageBegins
<1>4. ASSUME NEW r \in Receives, CopyBegins(r) PROVE OccupiedByItsWriter'
  BY <1>0, <1>00, <1>4 DEF CopyBegins, At, Goto
<1>5. ASSUME NEW r \in Receives, NEW c \in Contents \ {"none"}, CopyEnds(r, c) PROVE OccupiedByItsWriter'
  <2>1. CASE Settle(r)
    BY <1>1, <2>1
  <2>2. CASE /\ busy' = busy
             /\ receive' = [receive EXCEPT ![r].at = IF FileAt(receive[r].next) = Manifest THEN "staged" ELSE "open",
                                           ![r].next = IF FileAt(receive[r].next) = Manifest THEN @ ELSE @ + 1]
    BY <1>0, <1>00, <1>5, <2>2 DEF CopyEnds, At
  <2>. QED BY <1>5, <2>1, <2>2 DEF CopyEnds
<1>6. ASSUME NEW r \in Receives, ReadSlice(r) \/ Record(r) \/ ReceiveFails(r) PROVE OccupiedByItsWriter'
  <2>1. CASE ReadSlice(r) /\ exists
    BY <1>0, <1>00, <2>1 DEF ReadSlice, Goto, At
  <2>. QED BY <1>1, <1>6, <2>1 DEF ReadSlice, Record, ReceiveFails
<1>7. ASSUME NEW l \in Loads, Request(l) \/ Launch(l) \/ Ends(l) \/ Stop(l) PROVE OccupiedByItsWriter'
  BY <1>7 DEF Request, Launch, Ends, Stop
<1>8. CASE Delete \/ Restart
  BY <1>0, <1>8 DEF Delete, Restart
<1>. QED BY <1>2, <1>3, <1>4, <1>5, <1>6, <1>7, <1>8 DEF HighStep, Receive

\* A receive that ends has no part in the copy any more.
LEMMA SettleKeeps ==
    ASSUME TypeOK, CopyInv, NEW r \in Receives, Settle(r), listing' = listing,
           \A k \in Receives \ {r} : At(k, "open") \/ At(k, "copy") => staged' = staged
    PROVE  CopyInv'
<1>1. receive'[r] = NoReceive /\ \A k \in Receives \ {r} : receive'[k] = receive[k]
  BY HighFacts DEF Settle
<1>2. Known' = Known /\ \A g, f : Want(g, f)' = Want(g, f)
  BY DEF Known, Want
<1>3. NoReceive.at = "idle"
  BY HighFacts
<1>4. ASSUME NEW k \in Receives, k # r
      PROVE  /\ At(k, "verify")' <=> At(k, "verify")
             /\ At(k, "open")' <=> At(k, "open")
             /\ At(k, "copy")' <=> At(k, "copy")
  BY <1>1, <1>4 DEF At
<1>5. ~(At(r, "verify")') /\ ~(At(r, "open")') /\ ~(At(r, "copy")')
  BY <1>1, <1>3 DEF At
<1>. QED BY <1>1, <1>2, <1>3, <1>4, <1>5 DEF CopyInv

LEMMA CopyStep == TypeOK /\ OccupiedByItsWriter /\ CopyInv /\ HighStep => CopyInv'
<1> SUFFICES ASSUME TypeOK, OccupiedByItsWriter, CopyInv, HighStep PROVE CopyInv'
  OBVIOUS
<1>0. /\ listing' = listing /\ Known' = Known /\ \A g, f : Want(g, f)' = Want(g, f)
  BY LowStays DEF Known, Want
<1>00. receive \in [Receives -> [at : {"idle", "verify", "open", "copy", "staged", "identity"}, of : {0} \cup Known, next : 0..Manifest]]
  BY DEF TypeOK
<1>000. \A r, k \in Receives : /\ At(r, "open") \/ At(r, "copy") \/ At(r, "staged") \/ At(r, "identity")
                               /\ At(k, "open") \/ At(k, "copy") \/ At(k, "staged") \/ At(k, "identity")
                               => r = k
  BY DEF OccupiedByItsWriter, At
<1>1. ASSUME NEW r \in Receives, NEW g \in Known, ReceiveBegins(r, g) PROVE CopyInv'
  <2>1. /\ receive'[r] = [at |-> "verify", of |-> g, next |-> 1] /\ staged' = staged
        /\ \A k \in Receives \ {r} : receive'[k] = receive[k]
    BY <1>00, <1>1 DEF ReceiveBegins
  <2>2. receive'[r] # NoReceive
    BY <2>1 DEF NoReceive
  <2>. QED BY <1>0, <2>1, <2>2 DEF CopyInv, At
<1>2. ASSUME NEW r \in Receives, StageBegins(r) PROVE CopyInv'
  <2>0. At(r, "verify") /\ \A k \in Receives : ~(At(k, "open") \/ At(k, "copy"))
    BY <1>2, HandoffAssumption DEF StageBegins, MayStage, OccupiedByItsWriter, At, HandoffAssumption
  <2>1. CASE Settle(r)
    BY <1>0, <2>0, <2>1, SettleKeeps
  <2>2. CASE staged' = Nowhere /\ Goto(r, "open")
    <3>1. /\ receive'[r].at = "open" /\ receive'[r].of = receive[r].of /\ receive'[r].next = receive[r].next
          /\ \A k \in Receives \ {r} : receive'[k] = receive[k]
      BY <1>00, <2>2 DEF Goto
    <3>2. receive[r].next = 1 /\ receive[r].of \in Known
      BY <2>0, HighFacts DEF CopyInv, At
    <3>3. 1 \in Files /\ \A f \in Files : ~(f < 1) /\ staged'[f] = "none"
      BY <2>2, HighFacts DEF Nowhere
    <3>. QED BY <1>0, <2>0, <3>1, <3>2, <3>3 DEF CopyInv, At
  <2>. QED BY <1>2, <2>1, <2>2 DEF StageBegins
<1>3. ASSUME NEW r \in Receives, CopyBegins(r) PROVE CopyInv'
  <2>1. /\ At(r, "open") /\ staged' = [staged EXCEPT ![receive[r].next] = "part"]
        /\ receive'[r].at = "copy" /\ receive'[r].of = receive[r].of /\ receive'[r].next = receive[r].next
        /\ \A k \in Receives \ {r} : receive'[k] = receive[k]
    BY <1>00, <1>3 DEF CopyBegins, FileAt, Goto
  <2>2. \A k \in Receives \ {r} : ~(At(k, "open") \/ At(k, "copy"))
    BY <1>000, <2>1
  <2>3. receive[r].next \in Files /\ receive[r].of \in Known /\ staged \in [Files -> Contents]
    BY <2>1, HighFacts DEF CopyInv, At
  <2>. QED BY <1>0, <2>1, <2>2, <2>3, HighFacts DEF CopyInv, At
<1>4. ASSUME NEW r \in Receives, NEW c \in Contents \ {"none"}, CopyEnds(r, c) PROVE CopyInv'
  <2>1. At(r, "copy") /\ staged' = [staged EXCEPT ![receive[r].next] = c]
    BY <1>4 DEF CopyEnds, FileAt
  <2>2. \A k \in Receives \ {r} : ~(At(k, "open") \/ At(k, "copy"))
    BY <1>000, <2>1
  <2>3. receive[r].next \in Files /\ receive[r].of \in Known /\ staged \in [Files -> Contents]
    BY <2>1, HighFacts DEF CopyInv, At
  <2>4. CASE Settle(r)
    BY <1>0, <2>2, <2>4, SettleKeeps
  <2>5. CASE c = Want(receive[r].of, receive[r].next)
    <3>1. /\ receive'[r].at = IF receive[r].next = Manifest THEN "staged" ELSE "open"
          /\ receive'[r].of = receive[r].of
          /\ receive'[r].next = IF receive[r].next = Manifest THEN receive[r].next ELSE receive[r].next + 1
          /\ \A k \in Receives \ {r} : receive'[k] = receive[k]
      BY <1>00, <1>4, <2>5 DEF CopyEnds, FileAt
    <3>2. /\ \A f \in Files : f < receive[r].next => staged[f] = Want(receive[r].of, f)
          /\ \A f \in Files : f > receive[r].next => staged[f] = "none"
      BY <2>1 DEF CopyInv
    <3>3. CASE receive[r].next = Manifest
      BY <1>0, <2>2, <2>3, <3>1, <3>3 DEF CopyInv, At, NoReceive
    <3>4. CASE receive[r].next # Manifest
      <4>1. receive[r].next + 1 \in Files
        BY <2>3, <3>4, HighFacts
      <4>2. \A f \in Files : f < receive[r].next + 1 => staged'[f] = Want(receive[r].of, f)
        BY <2>1, <2>3, <2>5, <3>2, HighFacts
      <4>3. \A f \in Files : f > receive[r].next => staged'[f] = "none"
        BY <2>1, <2>3, <3>2, HighFacts
      <4>4. \A f \in Files : f > receive[r].next + 1 => staged'[f] = "none"
        BY <2>3, <4>3, HighFacts
      <4>5. staged'[receive[r].next + 1] = "none"
        BY <2>3, <4>1, <4>3, HighFacts
      <4>. QED BY <1>0, <2>2, <2>3, <3>1, <3>4, <4>1, <4>2, <4>4, <4>5 DEF CopyInv, At
    <3>. QED BY <3>3, <3>4
  <2>. QED BY <1>4, <2>4, <2>5 DEF CopyEnds, FileAt
<1>5. ASSUME NEW r \in Receives, ReadSlice(r) \/ Record(r) \/ ReceiveFails(r) PROVE CopyInv'
  <2>1. CASE ReadSlice(r) /\ exists
    <3>1. /\ receive'[r].at = "identity" /\ receive'[r].of = receive[r].of /\ staged' = staged
          /\ \A k \in Receives \ {r} : receive'[k] = receive[k]
      BY <1>00, <2>1 DEF ReadSlice, Goto
    <3>2. receive[r].at = "staged" /\ receive[r] # NoReceive
      BY <2>1, HighFacts DEF ReadSlice, At
    <3>. QED BY <1>0, <3>1, <3>2 DEF CopyInv, At
  <2>. QED BY <1>0, <1>5, <2>1, SettleKeeps DEF ReadSlice, Record, ReceiveFails
<1>6. CASE UNCHANGED <<staged, receive>>
  BY <1>0, <1>6 DEF CopyInv, At
<1>7. CASE Restart
  BY <1>7 DEF Restart, CopyInv, At, NoReceive
<1>. QED BY <1>1, <1>2, <1>3, <1>4, <1>5, <1>6, <1>7 DEF HighStep, Receive, Request, Launch, Ends, Stop, Delete

\* Whatever is removed or copied, the papers are the last of a transfer.
LEMMA PapersStep == TypeOK /\ CopyInv /\ PapersInv /\ HighStep => PapersInv'
<1> SUFFICES ASSUME TypeOK, CopyInv, PapersInv, HighStep PROVE PapersInv'
  OBVIOUS
<1>0. listing' = listing /\ Known' = Known
  BY LowStays DEF Known
<1>1. CASE \A f \in Files : staged'[f] \in {"none", staged[f]}
  <2>1. Papers \in Files /\ Tars \subseteq Files
    BY HighFacts
  <2>. QED BY <1>0, <1>1, <2>1 DEF PapersInv
<1>2. ASSUME NEW r \in Receives, NEW c \in Contents, staged' = [staged EXCEPT ![receive[r].next] = c],
             At(r, "open") \/ At(r, "copy"), c = "part" \/ At(r, "copy")
      PROVE  PapersInv'
  <2>1. /\ receive[r].next \in Files /\ receive[r].of \in Known
        /\ \A f \in Files : f < receive[r].next => staged[f] = Want(receive[r].of, f)
        /\ \A f \in Files : f > receive[r].next => staged[f] = "none"
    BY <1>2, HighFacts DEF CopyInv, At
  <2>2. CASE receive[r].next < Papers
    <3>1. staged'[Papers] = "none"
      BY <1>2, <2>1, <2>2, HighFacts
    <3>. QED BY <3>1 DEF PapersInv
  <2>3. CASE receive[r].next = Papers
    <3>1. \A f \in Tars : staged'[f] = listing[receive[r].of][f]
      BY <1>2, <2>1, <2>3, HighFacts DEF Want
    <3>. QED BY <1>0, <2>1, <3>1 DEF PapersInv
  <2>4. CASE receive[r].next > Papers
    <3>1. staged'[Papers] = staged[Papers] /\ \A f \in Tars : staged'[f] = staged[f]
      BY <1>2, <2>1, <2>4, HighFacts
    <3>. QED BY <1>0, <3>1 DEF PapersInv
  <2>. QED BY <2>1, <2>2, <2>3, <2>4, HighFacts
<1>3. ASSUME NEW r \in Receives, StageBegins(r) PROVE \A f \in Files : staged'[f] \in {"none", staged[f]}
  BY <1>3 DEF StageBegins, Nowhere
<1>4. ASSUME NEW r \in Receives, CopyBegins(r) PROVE PapersInv'
  BY <1>2, <1>4 DEF CopyBegins, FileAt, Contents
<1>5. ASSUME NEW r \in Receives, NEW c \in Contents \ {"none"}, CopyEnds(r, c) PROVE PapersInv'
  BY <1>2, <1>5 DEF CopyEnds, FileAt
<1>6. CASE staged' = staged
  BY <1>0, <1>6 DEF PapersInv
<1>. QED
  BY <1>1, <1>3, <1>4, <1>5, <1>6
  DEF HighStep, Receive, ReceiveBegins, ReadSlice, Record, ReceiveFails, Request, Launch, Ends, Stop, Delete, Restart

\* A copy that passes the check of a request is complete, and stays so until the load has
\* ended or a receive has found it queued.
LEMMA LoadStep ==
    TypeOK /\ OccupiedByItsWriter /\ CopyInv /\ PapersInv /\ LoadInv /\ HighStep => LoadInv'
<1> SUFFICES ASSUME TypeOK, OccupiedByItsWriter, CopyInv, PapersInv, LoadInv, HighStep PROVE LoadInv'
  OBVIOUS
<1>0. listing' = listing /\ Known' = Known /\ \A g, f : Want(g, f)' = Want(g, f)
  BY LowStays DEF Known, Want
<1>1. \A g \in Known, f \in Files \ {Manifest} : Want(g, f) \notin {"none", "part"}
  <2>1. \A g \in Known : listing[g] \in [Tars -> Runs]
    BY DEF Known, TypeOK
  <2>. QED BY <2>1, HighFacts DEF Want, Runs
<1>2. CheckStaged => Complete
  <2>1. ASSUME CheckStaged PROVE Complete
    <3>1. PICK g \in Known : \A f \in Tars : staged[f] \in {"none", listing[g][f]}
      BY <2>1 DEF CheckStaged, PapersInv
    <3>2. \A f \in Files \ {Manifest} : staged[f] = Want(g, f)
      BY <2>1, <3>1, HighFacts DEF CheckStaged, Want
    <3>. QED BY <3>2 DEF Complete
  <2>. QED BY <2>1
<1>3. CASE UNCHANGED <<load, overtaken>> /\ (Complete => Complete')
  BY <1>3 DEF LoadInv
<1>4. CASE staged' = staged
  <2>1. Complete => Complete'
    BY <1>0, <1>4 DEF Complete
  <2>2. ASSUME NEW l \in Loads, Request(l) \/ Launch(l) \/ Ends(l) \/ Stop(l) PROVE LoadInv'
    <3>1. \A k \in Loads \ {l} : load'[k] = load[k]
      BY <2>2, HighFacts DEF Request, Launch, Ends, Stop
    <3>2. CASE Request(l)
      BY <1>2, <2>1, <3>1, <3>2 DEF Request, LoadInv
    <3>3. CASE Launch(l)
      BY <2>1, <3>1, <3>3 DEF Launch, LoadInv
    <3>4. CASE Ends(l)
      BY <2>1, <3>1, <3>4, HighFacts DEF Ends, LoadInv
    <3>5. CASE Stop(l)
      BY <2>1, <3>1, <3>5, HighFacts DEF Stop, LoadInv
    <3>. QED BY <2>2, <3>2, <3>3, <3>4, <3>5
  <2>3. CASE Delete \/ Restart
    BY <2>1, <2>3 DEF Delete, Restart, LoadInv
  <2>4. CASE UNCHANGED <<load, overtaken>>
    BY <1>3, <2>1, <2>4
  <2>5. ASSUME NEW r \in Receives, StageBegins(r) PROVE LoadInv'
    BY <2>1, <2>5 DEF StageBegins, MayStage, LoadInv
  <2>. QED BY <2>2, <2>3, <2>4, <2>5 DEF HighStep, Receive, ReceiveBegins, CopyBegins, CopyEnds, ReadSlice, Record, ReceiveFails
<1>5. ASSUME NEW r \in Receives, StageBegins(r) PROVE LoadInv'
  BY <1>5 DEF StageBegins, MayStage, LoadInv
<1>6. ASSUME NEW r \in Receives, NEW c \in Contents, staged' = [staged EXCEPT ![receive[r].next] = c],
             At(r, "open") \/ At(r, "copy"), UNCHANGED <<load, overtaken>>
      PROVE  LoadInv'
  <2>1. receive[r].next \in Files /\ staged[receive[r].next] \in {"none", "part"}
    BY <1>6 DEF CopyInv
  <2>2. Complete => Complete'
    BY <1>0, <1>1, <1>6, <2>1, HighFacts DEF Complete
  <2>. QED BY <1>3, <1>6, <2>2
<1>7. ASSUME NEW r \in Receives, CopyBegins(r) PROVE LoadInv'
  BY <1>6, <1>7 DEF CopyBegins, FileAt, Contents
<1>8. ASSUME NEW r \in Receives, NEW c \in Contents \ {"none"}, CopyEnds(r, c) PROVE LoadInv'
  BY <1>6, <1>8 DEF CopyEnds, FileAt
<1>. QED
  BY <1>4, <1>5, <1>7, <1>8
  DEF HighStep, Receive, ReceiveBegins, ReadSlice, Record, ReceiveFails, Request, Launch, Ends, Stop, Delete, Restart

LEMMA Inductive == Spec => [](TypeOK /\ LowInv /\ HighInv)
<1>1. Init => HighInv
  BY HandoffAssumption DEF Init, HighInv, OccupiedByItsWriter, CopyInv, PapersInv, LoadInv, At, NoReceive, Nowhere,
     Papers, Files, Manifest, HandoffAssumption
<1>2. LowInv => ListingInv
  BY DEF LowInv
<1>3. TypeOK /\ LowInv /\ HighInv /\ [Next]_vars => HighInv'
  <2>1. ASSUME TypeOK, HighInv, HighStep PROVE HighInv'
    BY <2>1, OccupiedStep, CopyStep, PapersStep, LoadStep DEF HighInv
  <2>2. ASSUME HighInv, UNCHANGED vars PROVE HighInv'
    BY <2>2 DEF vars, HighInv, OccupiedByItsWriter, CopyInv, PapersInv, LoadInv, Complete, At, Want, Known
  <2>. QED BY <1>2, <2>1, <2>2, LowKeepsHigh DEF Next, LowStep, HighStep
<1>. QED BY <1>1, <1>2, <1>3, InitialLow, LowInvariant, TypeStep, PTL DEF Spec

\* A profile is occupied by the receive that copies into it and by no other.
THEOREM WriterOccupies == Spec => []OccupiedByItsWriter
<1>1. HighInv => OccupiedByItsWriter
  BY DEF HighInv
<1>. QED BY <1>1, Inductive, PTL

\* oc-mirror reads a complete copy of a transfer that was prepared, whatever receives of
\* the same plan failed before or came later.
THEOREM LoadsReadWholeCopies == Spec => []CopyInUseIsWhole
<1>1. HighInv => CopyInUseIsWhole
  BY DEF HighInv, LoadInv, Complete, CopyInUseIsWhole
<1>. QED BY <1>1, Inductive, PTL
=============================================================================
