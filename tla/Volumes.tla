------------------------------ MODULE Volumes -------------------------------
(***************************************************************************)
(* What a repository promises those who use the volume handles in r.files: *)
(* the volume of a usable handle exists, and is removed only after the     *)
(* handle has been given up.  ImageRepository keeps the promise,           *)
(* VolumeStream relies on it.                                              *)
(***************************************************************************)

VARIABLES
  stored,  \* names of the volumes libvirtd has
  held     \* names of the files whose handle is usable

Init == stored = {} /\ held = {}

MayHold(n)   == n \in stored
MayRemove(n) == n \notin held

Next ==
  /\ \A n \in held' \ held : MayHold(n) /\ n \in stored'
  /\ \A n \in stored \ stored' : MayRemove(n)

Spec == Init /\ [][Next]_<<stored, held>>

=============================================================================
