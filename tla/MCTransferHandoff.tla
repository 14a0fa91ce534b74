-------------------------- MODULE MCTransferHandoff --------------------------
(* Small instances of TransferHandoff for TLC. *)
EXTENDS TransferHandoff, TLC

\* Requests are jobs with random ids.
JobSymmetry == Permutations(Receives) \cup Permutations(Loads)

Untouched ==
    /\ staged = Nowhere /\ record = 0 /\ exists
    /\ \A r \in Receives : receive[r] = NoReceive

\* Nothing flows back over the air gap and a manifest once carried can be kept, so every
\* disconnected behaviour is one in which the connected side does its work first.
ConnectedSideFirst == lowVars' # lowVars => Untouched

\* From then on only the manifests matter.
WhatIsCarried ==
    <<IF Untouched THEN <<arch, src, prep>> ELSE <<>>, listing, highVars>>
=============================================================================
