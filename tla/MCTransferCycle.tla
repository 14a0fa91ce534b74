--------------------------- MODULE MCTransferCycle ---------------------------
(* Small instances of TransferCycle for TLC. *)
EXTENDS TransferCycle, TLC

\* Attempts are jobs with random ids.
LoadSymmetry == Permutations(Loads)

\* Nothing flows back over the air gap, so every behaviour has the same disconnected
\* side as one in which the connected side makes all its transfers first.
ConnectedSideFirst == lowVars' # lowVars => received = {} /\ receiving = NoReceive

\* No step depends on the destination, and what a broken attempt pushes can only help.
BrokenPushesNothing == dest' # dest => loaded' # loaded

Reduced == ConnectedSideFirst /\ BrokenPushesNothing

\* From then on only what was made matters, not the histories it was made from; the
\* content of a transfer without a cycle, and the destination after one, promise nothing.
Ordered == [p \in Plans |-> IF Known(p) THEN made[p] ELSE made[p].kind]

WhatIsCarried ==
    <<IF received = {} /\ receiving = NoReceive THEN <<histories, planned>> ELSE <<>>,
      Ordered, misnamed, IF unordered THEN {} ELSE dest,
      received, applied, receiving, retrying, att, slot, loaded, stale, unordered>>

\* The properties promise nothing once a load was decided, or the next one would be,
\* on a record that is not true.
RecordTrue == ~stale /\ (loaded = applied \/ \E a \in Loads : att[a].phase = "ended")
=============================================================================
