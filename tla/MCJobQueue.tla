----------------------------- MODULE MCJobQueue -----------------------------
(* Small instances of JobQueue for TLC.                                    *)
EXTENDS JobQueue

CONSTANTS w1, w2, w3

MCWorkers == {w1, w2, w3}
BeyondOne == 2 * Cap + Cardinality(MCWorkers) + 1
BeyondTwo == BeyondOne + 1

=============================================================================
