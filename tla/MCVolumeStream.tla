--------------------------- MODULE MCVolumeStream ---------------------------
(* A small instance of VolumeStream for TLC.                               *)
EXTENDS VolumeStream

CONSTANTS a, p1, p2, g1

OneName  == {a}
TwoPuts  == {p1, p2}
OneGet   == {g1}
TwoModes == {"Download", "Both"}
SameFile == [r \in {p1, p2, g1} |-> a]

=============================================================================
