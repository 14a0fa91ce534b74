----------------------------- MODULE RunService -----------------------------
(***************************************************************************)
(* What the run service promises a client of the API, without processes,   *)
(* handlers or files: one run holds the service at a time, a row moves      *)
(* forward through queued and running to one outcome, a run that ended by   *)
(* itself may be followed by one retry that takes the service over without  *)
(* letting another request in, and an interruption ends every running row.  *)
(***************************************************************************)
CONSTANTS Jobs, None

VARIABLES
    row,      \* status of each job row
    holder    \* the run that holds the service, or None

vars == <<row, holder>>

Outcomes  == {"completed", "completed_with_warnings", "failed", "cancelled"}
Clearable == Outcomes \ {"completed_with_warnings"}

Init == row = [j \in Jobs |-> "absent"] /\ holder = None

\* A request is accepted only when nothing holds the service.
Accept(j) ==
    /\ holder = None /\ row[j] = "absent"
    /\ holder' = j /\ row' = [row EXCEPT ![j] = "queued"]

\* A request that ends before it holds the service leaves a row.
Reject(j) ==
    /\ holder = None /\ row[j] = "absent"
    /\ \E s \in {"queued", "failed"} : row' = [row EXCEPT ![j] = s]
    /\ UNCHANGED holder

\* The holder starts, or fails to.
Start(j) ==
    /\ holder = j /\ row[j] = "queued"
    /\ \/ row' = [row EXCEPT ![j] = "running"] /\ UNCHANGED holder
       \/ row' = [row EXCEPT ![j] = "failed"] /\ holder' = None

\* The running holder gets its outcome and frees the service.
Finish(j, outcome) ==
    /\ holder = j /\ row[j] = "running"
    /\ row' = [row EXCEPT ![j] = outcome]
    /\ holder' = None

\* The running holder gets its outcome and its retry holds the service at once.
FinishAndRetry(j, r, outcome) ==
    /\ holder = j /\ row[j] = "running" /\ row[r] = "absent"
    /\ outcome # "cancelled"
    /\ row' = [row EXCEPT ![j] = outcome, ![r] = "queued"]
    /\ holder' = r

\* The service goes away; a running row may be left without an outcome.
Interrupt == holder' = None /\ UNCHANGED row

\* Rows left running get one when the service is back.
Reconcile ==
    /\ holder = None
    /\ row' = [j \in Jobs |-> IF row[j] = "running" THEN "failed" ELSE row[j]]
    /\ UNCHANGED holder

Forget(S) ==
    /\ \A j \in S : row[j] \in Clearable
    /\ row' = [j \in Jobs |-> IF j \in S THEN "deleted" ELSE row[j]]
    /\ UNCHANGED holder

Next ==
    \/ \E j \in Jobs : Accept(j) \/ Reject(j) \/ Start(j)
    \/ \E j \in Jobs, outcome \in Outcomes : Finish(j, outcome)
    \/ \E j, r \in Jobs, outcome \in Outcomes : FinishAndRetry(j, r, outcome)
    \/ Interrupt \/ Reconcile
    \/ \E S \in SUBSET Jobs : Forget(S)

Spec == Init /\ [][Next]_vars
=============================================================================
