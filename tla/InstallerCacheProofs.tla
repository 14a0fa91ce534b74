------------------------- MODULE InstallerCacheProofs -------------------------
(***************************************************************************)
(* What holds of InstallerCache for any number of requests and whatever an  *)
(* earlier process left in the cache: only a verified tarball is extracted, *)
(* other bytes are never used, and only the whole published binary is       *)
(* reused or used until tar writes in place under another request.          *)
(***************************************************************************)
EXTENDS InstallerCache, TLAPS

-----------------------------------------------------------------------------
(* The invariant *)

\* The map of flights has the one request that leads an acquisition.
FlightInv == \A c \in Callers : pc[c] \in Leading <=> flight = c

\* What is published has been checked, so that from then on the tarball is genuine or gone.
TarInv ==
    \A c \in Callers :
        /\ pc[c] = "publish" => note[c] = "good"
        /\ pc[c] \in {"note", "noted", "extract"} => tar \in {"good", "none"}
        /\ pc[c] \in {"extracting", "place"} => note[c] = "good"

\* Steps after the binary was placed, or found as it was recorded.
PlacedSteps == {"hash", "record", "clean", "cleaned", "returned"}

\* A request that met no other is the only one.
AloneInv == ~overlap => \A c, d \in Callers : Serving(c) /\ Serving(d) => c = d

PlacingSteps == {"extracting", "place"} \cup PlacedSteps

\* As long as tar did not write in place under another request: only the published bytes
\* are recorded; while tar writes in place nobody else extracts, records or is served, and
\* the path holds its file or nothing; a placed binary is genuine or gone, and not gone
\* when no request has met another.
BinInv ==
    ~rewritten =>
        /\ rec \in {"none", "good"}
        /\ \A c \in Callers :
             /\ pc[c] \in {"hashBin", "record"} => note[c] = "good"
             /\ pc[c] \in PlacedSteps => bin \in {NoFile, File("good")}
             /\ pc[c] \in PlacedSteps /\ ~overlap => bin # NoFile
             /\ inPlace /\ pc[c] = "place" => bin \in {NoFile, File("good")}
             /\ inPlace /\ pc[c] = "extracting" =>
                  /\ bin = NoFile \/ (bin.bytes = "part" /\ bin.by = c)
                  /\ \A d \in Callers : d # c => pc[d] \notin PlacingSteps
             /\ inPlace /\ pc[c] \in {"extracting", "place"} /\ ~overlap => bin # NoFile
             /\ pc[c] = "used" => got[c] = "good" \/ (overlap /\ got[c] = "absent")

\* Whatever meets: other bytes are never recorded, and a binary of other bytes is one that
\* every request that got past its look at it has discarded.
BadInv ==
    /\ rec # "bad"
    /\ bin.bytes = "bad" => \A c \in Callers : pc[c] \in Rest \cup {"verify", "hashBin", "discard"}
    /\ \A c \in Callers : /\ pc[c] \in {"hashBin", "record"} => note[c] # "bad"
                          /\ pc[c] = "used" => got[c] # "bad"

Basics ==
    /\ TypeOK /\ FlightInv /\ TarInv /\ AloneInv
    /\ bin.bytes # "part" => bin.by = None

IInv == Basics /\ BinInv /\ BadInv

-----------------------------------------------------------------------------
(* Every step *)

\* When an acquisition settles, its leader and all who waited go on, and nobody else moves.
LEMMA SettleMoves ==
    ASSUME Basics, NEW c \in Callers, flight = c, NEW step \in {"extract", "failed"}, Settle(step)
    PROVE  /\ pc' \in [Callers -> Steps] /\ flight' = None
           /\ \A d \in Callers : pc[d] \in Leading \cup {"wait"} => pc'[d] = step
           /\ \A d \in Callers : pc[d] \notin Leading \cup {"wait"} => pc'[d] = pc[d]
<1>1. pc \in [Callers -> Steps] /\ step \in Steps
  BY DEF Basics, TypeOK, Steps, Rest
<1>2. \A d \in Callers : pc[d] \in Leading <=> d = c
  BY DEF Basics, FlightInv
<1>. QED BY <1>1, <1>2 DEF Settle

LEMMA BasicStep == Basics /\ [Next]_vars => Basics'
<1> SUFFICES ASSUME Basics, [Next]_vars PROVE Basics'
  OBVIOUS
<1> USE CacheAssumption
<1>0. /\ bin \in [bytes : Bytes, by : Callers \cup {None}] /\ pc \in [Callers -> Steps]
      /\ note \in [Callers -> Bytes] /\ NoFile \in [bytes : Bytes, by : Callers \cup {None}]
      /\ File("good") \in [bytes : Bytes, by : Callers \cup {None}] /\ File("good").bytes = "good"
      /\ File("good").by = None /\ NoFile.by = None
  BY DEF Basics, TypeOK, NoFile, File, Bytes
<1>1. ASSUME NEW c \in Callers, Begin(c) PROVE Basics'
  <2>1. AloneInv'
    <3>1. ASSUME ~overlap', NEW d \in Callers, d # c PROVE ~(Serving(d)')
      BY <1>0, <1>1, <3>1 DEF Begin, Goto, Serving
    <3>. QED BY <3>1 DEF AloneInv
  <2>2. TypeOK' /\ FlightInv' /\ TarInv' /\ bin' = bin
    BY <1>0, <1>1 DEF Begin, Goto, Basics, TypeOK, FlightInv, TarInv, Serving, tarVars, binVars,
       Leading, Rest, Steps, Bytes
  <2>. QED BY <2>1, <2>2 DEF Basics
<1>2a. ASSUME NEW c \in Callers, LookAtBinary(c) PROVE Basics'
  BY <1>0, <1>2a DEF LookAtBinary, Goto, Basics, TypeOK, FlightInv,
     TarInv, AloneInv, Serving, tarVars, binVars, Leading, Rest, Steps, Bytes
<1>2b. ASSUME NEW c \in Callers, HashBinary(c) PROVE Basics'
  BY <1>0, <1>2b DEF HashBinary, Goto, Basics, TypeOK, FlightInv,
     TarInv, AloneInv, Serving, tarVars, binVars, Leading, Rest, Steps, Bytes
<1>2c. ASSUME NEW c \in Callers, DiscardBinary(c) PROVE Basics'
  BY <1>0, <1>2c DEF DiscardBinary, Goto, Basics, TypeOK, FlightInv,
     TarInv, AloneInv, Serving, tarVars, binVars, Leading, Rest, Steps, Bytes
<1>2d. ASSUME NEW c \in Callers, DiscardRecord(c) PROVE Basics'
  BY <1>0, <1>2d DEF DiscardRecord, Goto, Basics, TypeOK, FlightInv,
     TarInv, AloneInv, Serving, tarVars, binVars, Leading, Rest, Steps, Bytes
<1>3. ASSUME NEW c \in Callers, Acquire(c) PROVE Basics'
  BY <1>0, <1>3 DEF Acquire, Goto, Basics, TypeOK, FlightInv, TarInv, AloneInv, Serving, tarVars, binVars,
     Leading, Rest, Steps, Bytes
<1>4. ASSUME NEW c \in Callers, LookAtTar(c) \/ (\E bytes \in {"good", "bad"} : Fetch(c, bytes))
                                 \/ Publish(c) \/ NoteBegins(c)
      PROVE  Basics'
  BY <1>0, <1>4 DEF LookAtTar, Fetch, Publish, NoteBegins, Goto, Basics, TypeOK, FlightInv,
     TarInv, AloneInv, Serving, tarVars, binVars, Leading, Rest, Steps, Bytes
<1>5a. ASSUME NEW c \in Callers, NEW step \in {"extract", "failed"}, Settle(step), flight = c,
              UNCHANGED <<inPlace, tar, binVars, note, got, overlap, rewritten>>, sidecar' \in {"none", "torn", "good"},
              step = "extract" => tar \in {"good", "none"}
       PROVE  Basics'
  BY <1>0, <1>5a, SettleMoves DEF Basics, TypeOK, FlightInv, TarInv, AloneInv, Serving, binVars, Leading, Rest,
     Steps, Bytes
<1>5b. ASSUME NEW c \in Callers, HashTar(c) PROVE Basics'
  <2>1. flight = c /\ tar \in {"none", "good", "bad"} /\ sidecar \in {"none", "torn", "good"}
    BY <1>5b DEF HashTar, Basics, FlightInv, TypeOK, Leading
  <2>2. CASE tar \in {"none", "good"}
    BY <1>5a, <1>5b, <2>1, <2>2 DEF HashTar
  <2>3. CASE tar = "bad"
    BY <1>0, <1>5b, <2>3 DEF HashTar, Goto, Basics, TypeOK, FlightInv,
     TarInv, AloneInv, Serving, tarVars, binVars, Leading, Rest, Steps, Bytes
  <2>. QED BY <2>1, <2>2, <2>3
<1>5c. ASSUME NEW c \in Callers, Check(c) PROVE Basics'
  <2>1. flight = c /\ sidecar \in {"none", "torn", "good"}
    BY <1>5c DEF Check, Basics, FlightInv, TypeOK, Leading
  <2>2. CASE note[c] # "good"
    BY <1>5a, <1>5c, <2>1, <2>2 DEF Check, tarVars
  <2>3. CASE note[c] = "good"
    BY <1>0, <1>5c, <2>3 DEF Check, Goto, Basics, TypeOK, FlightInv,
     TarInv, AloneInv, Serving, tarVars, binVars, Leading, Rest, Steps, Bytes
  <2>. QED BY <2>2, <2>3
<1>5d. ASSUME NEW c \in Callers, NoteEnds(c) PROVE Basics'
  <2>1. flight = c /\ tar \in {"good", "none"}
    BY <1>5d DEF NoteEnds, Basics, FlightInv, TarInv, Leading
  <2>. QED BY <1>5a, <1>5d, <2>1 DEF NoteEnds
<1>5e. ASSUME NEW c \in Callers, Throws(c) PROVE Basics'
  <2>1. CASE c = flight
    <3>1. sidecar \in {"none", "torn", "good"}
      BY DEF Basics, TypeOK
    <3>. QED BY <1>5a, <1>5e, <2>1, <3>1 DEF Throws, tarVars
  <2>2. CASE c # flight
    BY <1>0, <1>5e, <2>2 DEF Throws, Goto, Basics, TypeOK, FlightInv,
     TarInv, AloneInv, Serving, tarVars, binVars, Leading, Rest, Steps, Bytes
  <2>. QED BY <2>1, <2>2
<1>6. ASSUME NEW c \in Callers, ExtractBegins(c) \/ ExtractEnds(c) \/ Place(c) PROVE Basics'
  BY <1>0, <1>6 DEF ExtractBegins, ExtractEnds, Place, Goto, Basics, TypeOK, FlightInv,
     TarInv, AloneInv, Serving, tarVars, binVars, Leading, Rest, Steps, Bytes
<1>7. ASSUME NEW c \in Callers, HashExtracted(c) \/ WriteRecord(c) \/ RemoveTar(c) \/ RemoveSidecar(c) \/ Use(c)
      PROVE  Basics'
  BY <1>0, <1>7 DEF HashExtracted, WriteRecord, RemoveTar, RemoveSidecar, Use, Goto, Basics, TypeOK, FlightInv,
     TarInv, AloneInv, Serving, tarVars, binVars, Leading, Rest, Steps, Bytes
<1>8. CASE Crash
  BY <1>0, <1>8 DEF Crash, Basics, TypeOK, FlightInv, TarInv, AloneInv, Serving, tarVars, NoFile, Leading, Rest,
     Steps, Bytes
<1>9. CASE UNCHANGED vars
  BY <1>9 DEF vars, tarVars, binVars, Basics, TypeOK, FlightInv, TarInv, AloneInv, Serving
<1>. QED
  BY <1>1, <1>2a, <1>2b, <1>2c, <1>2d, <1>3, <1>4, <1>5b, <1>5c, <1>5d, <1>5e, <1>6, <1>7, <1>8, <1>9 DEF Next, Proceed

\* In the cache that tar writes into, a request that is extracting is alone with the path.
LEMMA BinStep == IInv /\ [Next]_vars => BinInv'
<1> USE CacheAssumption
<1> SUFFICES ASSUME Basics, BinInv, [Next]_vars, ~rewritten' PROVE BinInv'
  BY DEF BinInv, IInv
<1>00. ~rewritten
  BY DEF Next, Proceed, Begin, LookAtBinary, HashBinary, DiscardBinary, DiscardRecord, Acquire, LookAtTar, HashTar,
     Fetch, Check, Publish, NoteBegins, NoteEnds, ExtractBegins, ExtractEnds, Place, HashExtracted, WriteRecord,
     RemoveTar, RemoveSidecar, Use, Throws, Crash, vars
<1>0. /\ ~rewritten /\ pc \in [Callers -> Steps] /\ note \in [Callers -> Bytes]
      /\ rec \in {"none", "good"} /\ NoFile # File("good") /\ File("good").bytes = "good"
      /\ bin.bytes = "good" => bin = File("good")
      /\ ~overlap => \A c, d \in Callers : c # d => pc[c] \in Rest \/ pc[d] \in Rest
  BY <1>00 DEF Basics, TypeOK, BinInv, AloneInv, Serving, NoFile, File
<1>0a. /\ NoFile.bytes = "none" /\ NoFile.by = None /\ File("good").by = None
       /\ bin \in [bytes : Bytes, by : Callers \cup {None}]
  BY DEF NoFile, File, Basics, TypeOK
<1>1. ASSUME NEW c \in Callers, Begin(c) PROVE BinInv'
  BY <1>0, <1>0a, <1>1 DEF Begin, Goto, Basics, TypeOK, TarInv, BinInv, tarVars, binVars, PlacingSteps, PlacedSteps, Leading, Rest
<1>2. ASSUME NEW c \in Callers, LookAtBinary(c) PROVE BinInv'
  BY <1>0, <1>0a, <1>2 DEF LookAtBinary, Goto, Basics, TypeOK, TarInv, BinInv, tarVars, binVars, PlacingSteps, PlacedSteps, Leading, Rest
<1>3. ASSUME NEW c \in Callers, HashBinary(c) PROVE BinInv'
  BY <1>0, <1>0a, <1>3 DEF HashBinary, Goto, Basics, TypeOK, TarInv, BinInv, tarVars, binVars, PlacingSteps, PlacedSteps, Leading, Rest
<1>4. ASSUME NEW c \in Callers, DiscardBinary(c) PROVE BinInv'
  BY <1>0, <1>0a, <1>4 DEF DiscardBinary, Goto, Basics, TypeOK, TarInv, BinInv, tarVars, binVars, PlacingSteps, PlacedSteps, Leading, Rest
<1>5. ASSUME NEW c \in Callers, DiscardRecord(c) PROVE BinInv'
  BY <1>0, <1>0a, <1>5 DEF DiscardRecord, Goto, Basics, TypeOK, TarInv, BinInv, tarVars, binVars, PlacingSteps, PlacedSteps, Leading, Rest
<1>6. ASSUME NEW c \in Callers, Acquire(c) PROVE BinInv'
  BY <1>0, <1>0a, <1>6 DEF Acquire, Goto, Basics, TypeOK, TarInv, BinInv, tarVars, binVars, PlacingSteps, PlacedSteps, Leading, Rest
<1>7. ASSUME NEW c \in Callers, LookAtTar(c) PROVE BinInv'
  BY <1>0, <1>0a, <1>7 DEF LookAtTar, Goto, Basics, TypeOK, TarInv, BinInv, tarVars, binVars, PlacingSteps, PlacedSteps, Leading, Rest
<1>8. ASSUME NEW c \in Callers, NEW step \in {"extract", "failed"}, Settle(step), flight = c,
             UNCHANGED <<inPlace, binVars, note, got, overlap, rewritten>>
      PROVE  BinInv'
  BY <1>0, <1>0a, <1>8, SettleMoves DEF BinInv, binVars, PlacingSteps, PlacedSteps, Leading
<1>9. ASSUME NEW c \in Callers, HashTar(c) PROVE BinInv'
  <2>1. flight = c
    BY <1>9 DEF HashTar, Basics, FlightInv, Leading
  <2>2. CASE tar \in {"none", "good"}
    BY <1>8, <1>9, <2>1, <2>2 DEF HashTar
  <2>3. CASE tar \notin {"none", "good"}
    BY <1>0, <1>0a, <1>9, <2>3 DEF HashTar, Goto, Basics, TypeOK, TarInv, BinInv, tarVars, binVars, PlacingSteps, PlacedSteps, Leading, Rest
  <2>. QED BY <2>2, <2>3
<1>10. ASSUME NEW c \in Callers, Check(c) PROVE BinInv'
  <2>1. flight = c
    BY <1>10 DEF Check, Basics, FlightInv, Leading
  <2>2. CASE note[c] # "good"
    BY <1>8, <1>10, <2>1, <2>2 DEF Check
  <2>3. CASE note[c] = "good"
    BY <1>0, <1>0a, <1>10, <2>3 DEF Check, Goto, Basics, TypeOK, TarInv, BinInv, tarVars, binVars, PlacingSteps, PlacedSteps, Leading, Rest
  <2>. QED BY <2>2, <2>3
<1>11. ASSUME NEW c \in Callers, NoteEnds(c) PROVE BinInv'
  <2>1. flight = c
    BY <1>11 DEF NoteEnds, Basics, FlightInv, Leading
  <2>. QED BY <1>8, <1>11, <2>1 DEF NoteEnds
<1>12. ASSUME NEW c \in Callers, Throws(c) PROVE BinInv'
  <2>1. CASE c = flight
    BY <1>8, <1>12, <2>1 DEF Throws
  <2>2. CASE c # flight
    BY <1>0, <1>0a, <1>12, <2>2 DEF Throws, Goto, Basics, TypeOK, TarInv, BinInv, tarVars, binVars, PlacingSteps, PlacedSteps, Leading, Rest
  <2>. QED BY <2>1, <2>2
<1>13. ASSUME NEW c \in Callers, NEW bytes \in {"good", "bad"}, Fetch(c, bytes) PROVE BinInv'
  BY <1>0, <1>0a, <1>13 DEF Fetch, Goto, Basics, TypeOK, TarInv, BinInv, tarVars, binVars, PlacingSteps, PlacedSteps, Leading, Rest
<1>14. ASSUME NEW c \in Callers, Publish(c) PROVE BinInv'
  BY <1>0, <1>0a, <1>14 DEF Publish, Goto, Basics, TypeOK, TarInv, BinInv, tarVars, binVars, PlacingSteps, PlacedSteps, Leading, Rest
<1>15. ASSUME NEW c \in Callers, NoteBegins(c) PROVE BinInv'
  BY <1>0, <1>0a, <1>15 DEF NoteBegins, Goto, Basics, TypeOK, TarInv, BinInv, tarVars, binVars, PlacingSteps, PlacedSteps, Leading, Rest
<1>16. ASSUME NEW c \in Callers, ExtractBegins(c) PROVE BinInv'
  BY <1>0, <1>0a, <1>16 DEF Serving, ExtractBegins, Goto, Basics, TypeOK, TarInv, BinInv, tarVars, binVars, PlacingSteps, PlacedSteps, Leading, Rest
<1>17. ASSUME NEW c \in Callers, ExtractEnds(c) PROVE BinInv'
  BY <1>0, <1>0a, <1>17 DEF ExtractEnds, Goto, Basics, TypeOK, TarInv, BinInv, tarVars, binVars, PlacingSteps, PlacedSteps, Leading, Rest
<1>18. ASSUME NEW c \in Callers, Place(c) PROVE BinInv'
  BY <1>0, <1>0a, <1>18 DEF Place, Goto, Basics, TypeOK, TarInv, BinInv, tarVars, binVars, PlacingSteps, PlacedSteps, Leading, Rest
<1>19. ASSUME NEW c \in Callers, HashExtracted(c) PROVE BinInv'
  BY <1>0, <1>0a, <1>19 DEF HashExtracted, Goto, Basics, TypeOK, TarInv, BinInv, tarVars, binVars, PlacingSteps, PlacedSteps, Leading, Rest
<1>20. ASSUME NEW c \in Callers, WriteRecord(c) PROVE BinInv'
  BY <1>0, <1>0a, <1>20 DEF WriteRecord, Goto, Basics, TypeOK, TarInv, BinInv, tarVars, binVars, PlacingSteps, PlacedSteps, Leading, Rest
<1>21. ASSUME NEW c \in Callers, RemoveTar(c) PROVE BinInv'
  BY <1>0, <1>0a, <1>21 DEF RemoveTar, Goto, Basics, TypeOK, TarInv, BinInv, tarVars, binVars, PlacingSteps, PlacedSteps, Leading, Rest
<1>22. ASSUME NEW c \in Callers, RemoveSidecar(c) PROVE BinInv'
  BY <1>0, <1>0a, <1>22 DEF RemoveSidecar, Goto, Basics, TypeOK, TarInv, BinInv, tarVars, binVars, PlacingSteps, PlacedSteps, Leading, Rest
<1>23. ASSUME NEW c \in Callers, Use(c) PROVE BinInv'
  BY <1>0, <1>0a, <1>23 DEF Use, Goto, Basics, TypeOK, TarInv, BinInv, tarVars, binVars, PlacingSteps, PlacedSteps, Leading, Rest
<1>24. CASE Crash
  BY <1>0, <1>0a, <1>24 DEF Crash, BinInv, PlacingSteps, PlacedSteps
<1>25. CASE UNCHANGED vars
  BY <1>25 DEF vars, tarVars, binVars, BinInv
<1>. QED
  BY <1>1, <1>2, <1>3, <1>4, <1>5, <1>6, <1>7, <1>9, <1>10, <1>11, <1>12, <1>13, <1>14, <1>15, <1>16, <1>17, <1>18, <1>19, <1>20, <1>21, <1>22, <1>23, <1>24, <1>25 DEF Next, Proceed

\* No step brings other bytes back.
LEMMA BadStep == IInv /\ [Next]_vars => BadInv'
<1> SUFFICES ASSUME Basics, BadInv, [Next]_vars PROVE BadInv'
  BY DEF IInv
<1>0. /\ pc \in [Callers -> Steps] /\ note \in [Callers -> Bytes]
      /\ NoFile.bytes = "none" /\ \A b : File(b).bytes = b
  BY DEF Basics, TypeOK, NoFile, File
<1>1. ASSUME NEW c \in Callers, Begin(c) PROVE BadInv'
  BY <1>0, <1>1 DEF Begin, Goto, Basics, TypeOK, TarInv, BadInv, tarVars, binVars, Leading, Rest
<1>2. ASSUME NEW c \in Callers, LookAtBinary(c) PROVE BadInv'
  BY <1>0, <1>2 DEF LookAtBinary, Goto, Basics, TypeOK, TarInv, BadInv, tarVars, binVars, Leading, Rest
<1>3. ASSUME NEW c \in Callers, HashBinary(c) PROVE BadInv'
  BY <1>0, <1>3 DEF HashBinary, Goto, Basics, TypeOK, TarInv, BadInv, tarVars, binVars, Leading, Rest
<1>4. ASSUME NEW c \in Callers, DiscardBinary(c) PROVE BadInv'
  BY <1>0, <1>4 DEF DiscardBinary, Goto, Basics, TypeOK, TarInv, BadInv, tarVars, binVars, Leading, Rest
<1>5. ASSUME NEW c \in Callers, DiscardRecord(c) PROVE BadInv'
  BY <1>0, <1>5 DEF DiscardRecord, Goto, Basics, TypeOK, TarInv, BadInv, tarVars, binVars, Leading, Rest
<1>6. ASSUME NEW c \in Callers, Acquire(c) PROVE BadInv'
  BY <1>0, <1>6 DEF Acquire, Goto, Basics, TypeOK, TarInv, BadInv, tarVars, binVars, Leading, Rest
<1>7. ASSUME NEW c \in Callers, LookAtTar(c) PROVE BadInv'
  BY <1>0, <1>7 DEF LookAtTar, Goto, Basics, TypeOK, TarInv, BadInv, tarVars, binVars, Leading, Rest
<1>8. ASSUME NEW c \in Callers, NEW step \in {"extract", "failed"}, Settle(step), flight = c,
             UNCHANGED <<inPlace, binVars, note, got, overlap, rewritten>>
      PROVE  BadInv'
  BY <1>0, <1>8, SettleMoves DEF BadInv, binVars, Leading, Rest
<1>9. ASSUME NEW c \in Callers, HashTar(c) PROVE BadInv'
  <2>1. flight = c
    BY <1>9 DEF HashTar, Basics, FlightInv, Leading
  <2>2. CASE tar \in {"none", "good"}
    BY <1>8, <1>9, <2>1, <2>2 DEF HashTar
  <2>3. CASE tar \notin {"none", "good"}
    BY <1>0, <1>9, <2>3 DEF HashTar, Goto, Basics, TypeOK, TarInv, BadInv, tarVars, binVars, Leading, Rest
  <2>. QED BY <2>2, <2>3
<1>10. ASSUME NEW c \in Callers, Check(c) PROVE BadInv'
  <2>1. flight = c
    BY <1>10 DEF Check, Basics, FlightInv, Leading
  <2>2. CASE note[c] # "good"
    BY <1>8, <1>10, <2>1, <2>2 DEF Check
  <2>3. CASE note[c] = "good"
    BY <1>0, <1>10, <2>3 DEF Check, Goto, Basics, TypeOK, TarInv, BadInv, tarVars, binVars, Leading, Rest
  <2>. QED BY <2>2, <2>3
<1>11. ASSUME NEW c \in Callers, NoteEnds(c) PROVE BadInv'
  <2>1. flight = c
    BY <1>11 DEF NoteEnds, Basics, FlightInv, Leading
  <2>. QED BY <1>8, <1>11, <2>1 DEF NoteEnds
<1>12. ASSUME NEW c \in Callers, Throws(c) PROVE BadInv'
  <2>1. CASE c = flight
    BY <1>8, <1>12, <2>1 DEF Throws
  <2>2. CASE c # flight
    BY <1>0, <1>12, <2>2 DEF Throws, Goto, Basics, TypeOK, TarInv, BadInv, tarVars, binVars, Leading, Rest
  <2>. QED BY <2>1, <2>2
<1>13. ASSUME NEW c \in Callers, NEW bytes \in {"good", "bad"}, Fetch(c, bytes) PROVE BadInv'
  BY <1>0, <1>13 DEF Fetch, Goto, Basics, TypeOK, TarInv, BadInv, tarVars, binVars, Leading, Rest
<1>14. ASSUME NEW c \in Callers, Publish(c) PROVE BadInv'
  BY <1>0, <1>14 DEF Publish, Goto, Basics, TypeOK, TarInv, BadInv, tarVars, binVars, Leading, Rest
<1>15. ASSUME NEW c \in Callers, NoteBegins(c) PROVE BadInv'
  BY <1>0, <1>15 DEF NoteBegins, Goto, Basics, TypeOK, TarInv, BadInv, tarVars, binVars, Leading, Rest
<1>16. ASSUME NEW c \in Callers, ExtractBegins(c) PROVE BadInv'
  BY <1>0, <1>16 DEF ExtractBegins, Goto, Basics, TypeOK, TarInv, BadInv, tarVars, binVars, Leading, Rest
<1>17. ASSUME NEW c \in Callers, ExtractEnds(c) PROVE BadInv'
  BY <1>0, <1>17 DEF ExtractEnds, Goto, Basics, TypeOK, TarInv, BadInv, tarVars, binVars, Leading, Rest
<1>18. ASSUME NEW c \in Callers, Place(c) PROVE BadInv'
  BY <1>0, <1>18 DEF Place, Goto, Basics, TypeOK, TarInv, BadInv, tarVars, binVars, Leading, Rest
<1>19. ASSUME NEW c \in Callers, HashExtracted(c) PROVE BadInv'
  BY <1>0, <1>19 DEF HashExtracted, Goto, Basics, TypeOK, TarInv, BadInv, tarVars, binVars, Leading, Rest
<1>20. ASSUME NEW c \in Callers, WriteRecord(c) PROVE BadInv'
  BY <1>0, <1>20 DEF WriteRecord, Goto, Basics, TypeOK, TarInv, BadInv, tarVars, binVars, Leading, Rest
<1>21. ASSUME NEW c \in Callers, RemoveTar(c) PROVE BadInv'
  BY <1>0, <1>21 DEF RemoveTar, Goto, Basics, TypeOK, TarInv, BadInv, tarVars, binVars, Leading, Rest
<1>22. ASSUME NEW c \in Callers, RemoveSidecar(c) PROVE BadInv'
  BY <1>0, <1>22 DEF RemoveSidecar, Goto, Basics, TypeOK, TarInv, BadInv, tarVars, binVars, Leading, Rest
<1>23. ASSUME NEW c \in Callers, Use(c) PROVE BadInv'
  BY <1>0, <1>23 DEF Use, Goto, Basics, TypeOK, TarInv, BadInv, tarVars, binVars, Leading, Rest
<1>24. CASE Crash
  BY <1>0, <1>24 DEF Crash, BadInv, Rest
<1>25. CASE UNCHANGED vars
  BY <1>25 DEF vars, tarVars, binVars, BadInv
<1>. QED
  BY <1>1, <1>2, <1>3, <1>4, <1>5, <1>6, <1>7, <1>9, <1>10, <1>11, <1>12, <1>13, <1>14, <1>15, <1>16, <1>17, <1>18, <1>19, <1>20, <1>21, <1>22, <1>23, <1>24, <1>25 DEF Next, Proceed

LEMMA Inductive == Spec => []IInv
<1>1. ASSUME Init PROVE IInv
  <2>1. \A c \in Callers : pc[c] = "idle" /\ ~Serving(c)
    BY <1>1 DEF Init, Serving, Rest
  <2>2. bin \in [bytes : Bytes, by : Callers \cup {None}] /\ bin.by = None
    BY <1>1 DEF Init, NoFile, File, Bytes
  <2>3. TypeOK
    BY <1>1, <2>2 DEF Init, TypeOK, Bytes, Steps, Rest
  <2>4. FlightInv /\ TarInv /\ AloneInv
    BY <1>1, <2>1, CacheAssumption DEF Init, FlightInv, TarInv, AloneInv, Leading
  <2>5. BinInv
    BY <1>1, <2>1 DEF Init, BinInv, PlacingSteps, PlacedSteps
  <2>6. BadInv
    BY <1>1, <2>1 DEF Init, BadInv, Rest
  <2>. QED BY <2>2, <2>3, <2>4, <2>5, <2>6 DEF IInv, Basics
<1>2. IInv /\ [Next]_vars => IInv'
  BY BasicStep, BinStep, BadStep DEF IInv
<1>. QED BY <1>1, <1>2, PTL DEF Spec

\* Every file keeps to what it can hold and every request to its steps.
THEOREM CacheTypes == Spec => []TypeOK
<1>1. IInv => TypeOK
  BY DEF IInv, Basics
<1>. QED BY <1>1, Inductive, PTL

\* No request extracts a tarball that was not checked, whoever acquired it.
THEOREM VerifiedBeforeExtracted == Spec => []OnlyVerifiedIsExtracted
<1>1. IInv => OnlyVerifiedIsExtracted
  BY DEF IInv, Basics, TarInv, OnlyVerifiedIsExtracted
<1>. QED BY <1>1, Inductive, PTL

\* A cached binary is reused only when it is the published one, until tar writes in place
\* under another request.
THEOREM ReusedIsGenuine == Spec => []ProvenIsGenuine
<1>1. IInv => ProvenIsGenuine
  BY DEF IInv, Basics, BinInv, ProvenIsGenuine, TypeOK, NoFile
<1>. QED BY <1>1, Inductive, PTL

\* What a request runs or exports, however many meet, is never other bytes; it is the
\* published binary, or one that another request has discarded, until tar writes in place
\* under another request.
THEOREM ServedIsGenuine == Spec => []UsedIsGenuine
<1>1. IInv => UsedIsGenuine
  BY DEF IInv, BinInv, BadInv, UsedIsGenuine
<1>. QED BY <1>1, Inductive, PTL
=============================================================================
