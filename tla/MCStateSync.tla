----------------------------- MODULE MCStateSync -----------------------------
(* Small instances of StateSync for TLC. *)
EXTENDS StateSync, TLC

\* No step looks at the name of a field.
FieldSymmetry == Permutations(Fields)

\* A generation matters while it may still be handled, or is one of those that a
\* property compares the server with.
Live(g) == g \in net \/ g >= saved \/ (flush # NoFlush /\ g >= flush.asked)

WhatMatters ==
    <<[g \in DOMAIN edits |-> IF Live(g) THEN edits[g] ELSE Empty], server, hydration, saved,
      timer, call, answered, saveError, net, replacing, flush, newest>>
=============================================================================
