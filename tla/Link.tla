-------------------------------- MODULE Link --------------------------------
(***************************************************************************)
(* What the connector promises a daemon: it holds at most one connection   *)
(* to libvirtd, hears of a new one only without one, and gives up only one *)
(* that is lost.  This is the connection ImageRepository and VMShim use.   *)
(***************************************************************************)

VARIABLES
  proc,   \* the daemon's process: down, up
  link    \* its connection: down (none), up, lost (held, but closed)

Init == proc = "down" /\ link = "down"

Start  == proc = "down" /\ proc' = "up" /\ UNCHANGED link
End    == proc = "up" /\ proc' = "down" /\ link' = "down"

(* A connection may be lost already when the daemon hears that it is ready. *)
Ready  == proc = "up" /\ link = "down" /\ link' \in {"up", "lost"} /\ UNCHANGED proc
Lose   == link = "up" /\ link' = "lost" /\ UNCHANGED proc
Failed == link = "lost" /\ link' = "down" /\ UNCHANGED proc

Next == Start \/ End \/ Ready \/ Lose \/ Failed

Spec == Init /\ [][Next]_<<proc, link>>

=============================================================================
