------------------------------ MODULE MCVMShim ------------------------------
(* Small instances of VMShim for TLC.                                      *)
EXTENDS VMShim, TLC

CONSTANTS c1, c2, m1, m2

TwoClients  == {c1, c2}
OneMachine  == {m1}
TwoMachines == {m1, m2}

(* A machine with two disks, and what users may make of it: more memory    *)
(* and a negative number of slots (which the designer does not mind), no   *)
(* slots, a disk without a source.                                         *)
Plain    == [arch |-> "x86_64", boot |-> "firmware", firmware |-> "efi",
             initial |-> 2, maximum |-> 4, slots |-> 2, disks |-> <<"rbd", "image">>]
Bigger   == [Plain EXCEPT !.initial = 4, !.slots = -2]
NoSlots  == [Plain EXCEPT !.slots = 0]
NoSource == [Plain EXCEPT !.disks = <<"image", "empty">>]

AllSpecs == {Plain, Bigger, NoSlots, NoSource}
OneSpec  == {Plain}

Apart    == (c1 :> m1) @@ (c2 :> m2)
Together == [c \in {c1, c2} |-> m1]

=============================================================================
