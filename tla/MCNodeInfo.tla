---------------------------- MODULE MCNodeInfo ------------------------------
(* A small instance of NodeInfo for TLC.                                   *)
EXTENDS NodeInfo

CONSTANTS c1, c2

TwoConns == {c1, c2}

=============================================================================
