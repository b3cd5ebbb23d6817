-------------------------- MODULE MCImageRepository --------------------------
(* Small instances of ImageRepository for TLC.                             *)
EXTENDS ImageRepository

CONSTANTS a, b, w1, w2

OneName    == {a}
TwoNames   == {a, b}
OneWorker  == {w1}
TwoWorkers == {w1, w2}
OneSize    == {1}
TwoSizes   == {1, 2}

Symmetry == Permutations(Names) \union Permutations(Workers)

=============================================================================
