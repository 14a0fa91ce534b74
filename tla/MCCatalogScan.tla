---------------------------- MODULE MCCatalogScan ----------------------------
(* A small instance of CatalogScan for TLC. *)
EXTENDS CatalogScan

CONSTANTS q1, q2, c1, c2

\* q1 scans both catalogs with one secret; of q2 only the scan that meets q1's.
SomeScans == {<<q1, c1>>, <<q1, c2>>, <<q2, c1>>}

\* What two catalogs share is the secret: of the second one it only matters how long it
\* fetches.
SecondOnlyFetches ==
    \A s \in Scans : Cat(s) = c2 =>
        fetch'[s].at \in {"none", "manifest", "done"} /\ row'[s] \in {"absent", "running", "failed"}
=============================================================================
