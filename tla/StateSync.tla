------------------------------ MODULE StateSync ------------------------------
(***************************************************************************)
(* One browser and the server keeping the Install state document in step:  *)
(* hydration, the debounced save with its generations, abort of a          *)
(* superseded save, flushPendingSave and what is read after it             *)
(* (frontend store.jsx, App.jsx), and POST /api/state, start-over and      *)
(* run/import on the server (index.js).                                    *)
(*                                                                         *)
(* The document is one map of it: a value for each field, or Absent.  A    *)
(* value stands for the moment it was entered, so no two edits look alike. *)
(* Every request that has left the browser may reach the server late, in   *)
(* another order, or never; abort only makes the browser stop listening.   *)
(***************************************************************************)
EXTENDS Naturals, Sequences, FiniteSets

CONSTANTS
    Fields,     \* keys of a map of the document
    MaxGen      \* generations the browser makes (bound)

ASSUME SyncAssumption == MaxGen \in Nat \ {0}

Absent   == 0
Stored   == 1           \* what this browser last saw
Newer    == 2           \* what another browser has saved since
Imported == MaxGen + 3  \* what an import brings; generation g enters g + 2
Docs     == [Fields -> 0..(MaxGen + 3)]
Empty    == [f \in Fields |-> Absent]

VARIABLES
    server,     \* the document in SQLite
    edits,      \* edits[g]: the browser's document of generation g
    hydration,  \* GET /api/state: [at, data]
    saved,      \* savedGenerationRef
    timer,      \* the debounce timer of the latest generation is armed
    call,       \* generation of the save the browser waits for, or 0
    answered,   \* the server has answered it
    saveError,  \* the last save failed and the user is told
    net,        \* generations whose request may still reach the server
    replacing,  \* start-over or import: [at, data]
    flush,      \* flushPendingSave and the read after it: [at, asked, on, error]
    newest,     \* latest generation the server has handled
    late,       \* a save was handled after a newer one
    missed,     \* the reply of a reset was lost
    kept        \* a save kept a key on the server that the browser no longer had

vars == <<server, edits, hydration, saved, timer, call, answered, saveError, net,
          replacing, flush, newest, late, missed, kept>>
browserVars == <<edits, saved, timer, call, answered, saveError>>

Gen == Len(edits)
Doc == edits[Gen]
NoData  == [at |-> "no", data |-> Empty]
NoFlush == [at |-> "idle", asked |-> 0, on |-> 0, error |-> FALSE]
Hydrated == hydration.at = "done"

-----------------------------------------------------------------------------
(* The server *)

\* deepMerge: an empty map clears; else a key that is missing is left alone.
Merge(current, patch) ==
    IF patch = Empty THEN Empty
    ELSE [f \in Fields |-> IF patch[f] = Absent THEN current[f] ELSE patch[f]]

\* POST /api/state.
HandleSave(g) ==
    /\ g \in net
    /\ server' = Merge(server, edits[g])
    /\ net' = net \ {g}
    /\ answered' = (answered \/ g = call)
    /\ newest' = IF g > newest THEN g ELSE newest
    /\ late' = (late \/ g < newest)
    /\ kept' = (kept \/ (edits[g] # Empty /\ \E f \in Fields : edits[g][f] = Absent /\ server[f] # Absent))
    /\ UNCHANGED <<edits, hydration, saved, timer, call, saveError, replacing, missed, flush>>

-----------------------------------------------------------------------------
(* The store in the browser *)

\* The effect of every state change: the debounce starts again, a save on its way is
\* aborted (it may be handled all the same).
NewState(doc) ==
    /\ Gen < MaxGen
    /\ edits' = Append(edits, doc)
    /\ timer' = TRUE
    /\ call' = 0 /\ answered' = FALSE

\* persist: the whole document of the latest generation.
Send ==
    /\ call' = Gen /\ answered' = FALSE
    /\ net' = net \cup {Gen}
    /\ timer' = FALSE

TimerFires ==
    /\ timer
    /\ Send
    /\ UNCHANGED <<server, edits, hydration, saved, saveError, replacing, newest,
                   late, missed, kept, flush>>

\* Wrong form of SaveReturns: the watermark takes the next generation number.
SaveReturnsAhead ==
    /\ call # 0 /\ answered
    /\ saved' = call + 1
    /\ saveError' = FALSE
    /\ call' = 0 /\ answered' = FALSE
    /\ UNCHANGED <<server, edits, hydration, timer, net, replacing, newest,
                   late, missed, kept, flush>>

SaveReturns ==
    /\ call # 0 /\ answered
    /\ saved' = IF call > saved THEN call ELSE saved
    /\ saveError' = FALSE
    /\ call' = 0 /\ answered' = FALSE
    /\ UNCHANGED <<server, edits, hydration, timer, net, replacing, newest,
                   late, missed, kept, flush>>

\* Wrong form of SaveFails: a failure is swallowed and the save taken for done.
SaveFailsSilently ==
    /\ call # 0
    /\ saved' = IF call > saved THEN call ELSE saved
    /\ call' = 0 /\ answered' = FALSE
    /\ UNCHANGED <<server, edits, hydration, timer, saveError, net, replacing, newest,
                   late, missed, kept, flush>>

\* Refused, or the connection breaks before or after the server has handled it.  There
\* is no other attempt until the next edit or flush.
SaveFails ==
    /\ call # 0
    /\ saveError' = TRUE
    /\ call' = 0 /\ answered' = FALSE
    /\ UNCHANGED <<server, edits, hydration, saved, timer, net, replacing, newest,
                   late, missed, kept, flush>>

Edit(f) ==
    /\ Hydrated
    /\ NewState([Doc EXCEPT ![f] = Gen + 3])
    /\ UNCHANGED <<server, hydration, saved, saveError, net, replacing, newest,
                   late, missed, kept, flush>>

TakeOut(f) ==
    /\ Hydrated /\ Doc[f] # Absent
    /\ NewState([Doc EXCEPT ![f] = Absent])
    /\ UNCHANGED <<server, hydration, saved, saveError, net, replacing, newest,
                   late, missed, kept, flush>>

-----------------------------------------------------------------------------
(* Hydration *)

HydrateHandled ==
    /\ hydration.at = "asked"
    /\ hydration' = [at |-> "answered", data |-> server]
    /\ UNCHANGED <<server, browserVars, net, replacing, newest, late, missed, kept, flush>>

HydrateReturns ==
    /\ hydration.at = "answered"
    /\ hydration' = [NoData EXCEPT !.at = "done"]
    /\ NewState(hydration.data)
    /\ UNCHANGED <<server, saved, saveError, net, replacing, newest, late, missed, kept, flush>>

\* The user sees the error and can do nothing else; the timer is not stopped.
HydrateFails ==
    /\ hydration.at \in {"asked", "answered"}
    /\ hydration' = [NoData EXCEPT !.at = "failed"]
    /\ UNCHANGED <<server, browserVars, net, replacing, newest, late, missed, kept, flush>>

-----------------------------------------------------------------------------
(* Start Over and import: the server's document is replaced, the reply adopted *)

Replace(data) ==
    /\ Hydrated /\ replacing = NoData
    /\ replacing' = [at |-> "sent", data |-> data]
    /\ UNCHANGED <<server, hydration, browserVars, net, newest, late, missed, kept, flush>>

ReplaceHandled ==
    /\ replacing.at = "sent"
    /\ replacing' = [replacing EXCEPT !.at = "handled"]
    /\ server' = replacing.data
    /\ UNCHANGED <<hydration, browserVars, net, newest, late, missed, kept, flush>>

ReplaceReturns ==
    /\ replacing.at = "handled"
    /\ replacing' = NoData
    /\ NewState(replacing.data)
    /\ UNCHANGED <<server, hydration, saved, saveError, net, newest, late, missed, kept, flush>>

\* A reply that is lost leaves the browser with what was to be replaced.
ReplaceFails ==
    /\ replacing # NoData
    /\ replacing' = NoData
    /\ missed' = (missed \/ replacing.at = "handled")
    /\ UNCHANGED <<server, hydration, browserVars, net, newest, late, kept, flush>>

-----------------------------------------------------------------------------
(* flushPendingSave, and the export that reads the server's copy after it *)

\* It waits for the save on its way; what it knows of errors is from when it was called.
FlushBegins ==
    /\ Hydrated /\ flush = NoFlush
    /\ flush' = [at |-> "waiting", asked |-> Gen, on |-> call, error |-> saveError]
    /\ UNCHANGED <<server, edits, hydration, saved, timer, call, answered, saveError, net,
                   replacing, newest, late, missed, kept>>

\* Wrong form of FlushGoesOn: a save that has not been sent yet is forgotten.
FlushGoesOnAtOnce ==
    /\ flush.at = "waiting" /\ (flush.on = 0 \/ flush.on # call)
    /\ flush' = IF flush.error THEN NoFlush ELSE [flush EXCEPT !.at = "reading"]
    /\ UNCHANGED <<server, edits, hydration, saved, timer, call, answered, saveError, net,
                   replacing, newest, late, missed, kept>>

\* Then saves what is pending, or says how the last save ended.
FlushGoesOn ==
    /\ flush.at = "waiting" /\ (flush.on = 0 \/ flush.on # call)
    /\ IF saved < Gen
       THEN Send /\ flush' = [flush EXCEPT !.at = "saving", !.on = Gen]
       ELSE /\ flush' = IF flush.error THEN NoFlush ELSE [flush EXCEPT !.at = "reading"]
            /\ UNCHANGED <<timer, call, answered, net>>
    /\ UNCHANGED <<server, edits, hydration, saved, saveError,
                   replacing, newest, late, missed, kept>>

\* The export is refused when the save failed or was superseded.
FlushEnds ==
    /\ flush.at = "saving" /\ flush.on # call
    /\ flush' = IF saved >= flush.on THEN [flush EXCEPT !.at = "reading"] ELSE NoFlush
    /\ UNCHANGED <<server, edits, hydration, saved, timer, call, answered, saveError, net,
                   replacing, newest, late, missed, kept>>

\* GET /api/run/export.
Export ==
    /\ flush.at = "reading"
    /\ flush' = NoFlush
    /\ UNCHANGED <<server, edits, hydration, saved, timer, call, answered, saveError, net,
                   replacing, newest, late, missed, kept>>

-----------------------------------------------------------------------------
\* The page is opened with or without a copy in localStorage.
Init ==
    /\ server \in [Fields -> {Absent, Newer}] \cup {[f \in Fields |-> Stored]}
    /\ edits \in {<<>>, <<[f \in Fields |-> Stored]>>}
    /\ timer = (edits # <<>>)
    /\ hydration = [at |-> "asked", data |-> Empty]
    /\ saved = 0 /\ call = 0 /\ answered = FALSE /\ saveError = FALSE /\ net = {}
    /\ replacing = NoData /\ flush = NoFlush
    /\ newest = 0 /\ late = FALSE /\ missed = FALSE /\ kept = FALSE

Flushing == FlushGoesOn \/ FlushEnds \/ Export
SaveSettles == SaveReturns \/ SaveFails

Next ==
    \/ \E g \in 1..MaxGen : HandleSave(g)
    \/ TimerFires \/ SaveSettles
    \/ \E f \in Fields : Edit(f) \/ TakeOut(f)
    \/ HydrateHandled \/ HydrateReturns \/ HydrateFails
    \/ \E data \in [Fields -> {Absent, Imported}] : Replace(data)
    \/ ReplaceHandled \/ ReplaceReturns \/ ReplaceFails
    \/ FlushBegins \/ Flushing

Spec == Init /\ [][Next]_vars

-----------------------------------------------------------------------------
(* Properties *)

TypeOK ==
    /\ server \in Docs
    /\ Len(edits) <= MaxGen /\ \A g \in DOMAIN edits : edits[g] \in Docs
    /\ hydration \in [at : {"asked", "answered", "done", "failed"}, data : Docs]
    /\ replacing \in [at : {"no", "sent", "handled"}, data : Docs]
    /\ saved \in 0..Gen /\ call \in 0..Gen /\ net \subseteq 1..Gen
    /\ timer \in BOOLEAN /\ answered \in BOOLEAN /\ saveError \in BOOLEAN
    /\ flush \in [at : {"idle", "waiting", "saving", "reading"}, asked : 0..Gen, on : 0..Gen, error : BOOLEAN]
    /\ newest \in 0..Gen
    /\ late \in BOOLEAN /\ missed \in BOOLEAN /\ kept \in BOOLEAN

\* Saves reached the server in order, every reset the browser, and no save had to
\* take a key out of a map that keeps others.
Regular == ~late /\ ~missed /\ ~kept

\* What the store believes saved is on the server, as that generation or a later one,
\* through aborts, failures, replies that overtake each other, resets and imports.
SavedIsOnServer ==
    Regular /\ saved > 0 /\ replacing.at # "handled" => \E g \in saved..Gen : server = edits[g]

\* An export, whenever the server gets to it, is exactly what the browser showed when
\* it was asked for or since, never an older document; or what a reset has brought.
ExportIsCurrent ==
    Regular /\ flush.at = "reading" =>
        \/ \E g \in flush.asked..Gen : server = edits[g]
        \/ replacing.at = "handled" /\ server = replacing.data

-----------------------------------------------------------------------------
(* A statement of the repository that the code does not keep *)

\* store.jsx:71 says a failed hydration shows its error instead of silently using a
\* stale localStorage copy: such a copy never replaces what another browser has saved.
StaleCopyIsNotUsed ==
    [][\A f \in Fields : server[f] = Newer => server'[f] # Stored]_vars
=============================================================================
