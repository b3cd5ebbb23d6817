------------------------------ MODULE Designer ------------------------------
(***************************************************************************)
(* DomainDesigner.ApplyVirtMachine: from the hardware a Virtmachine asks   *)
(* for to the description libvirt creates a guest from.  The parts are set *)
(* in order - operating system, memory, devices - and the first that       *)
(* cannot be set decides.  Claims, volumes, secrets, image files and       *)
(* repositories are read from the API server disk by disk, and each read   *)
(* may fail, so that hardware has a set of possible outcomes.              *)
(*                                                                         *)
(* Left out: names, paths, UUIDs and the secrets' contents.                *)
(***************************************************************************)
EXTENDS Integers, Sequences

CONSTANT Hardware   \* values of spec.hardware

(* A disk's source: a nil pointer; neither a claim nor an image file; a    *)
(* claim of an RBD (with or without monitors), ISCSI or another volume; an *)
(* image file.                                                             *)
Sources == {"nil", "empty", "rbd", "rbd without monitors", "iscsi", "other", "image"}

HardwareType ==
  [arch : {"x86_64", "aarch64", "i686", "other"}, boot : {"direct", "firmware", "other"},
   firmware : {"none", "efi", "bios", "other"},
   initial : Int, maximum : Int, slots : Int, disks : Seq(Sources)]

ASSUME HardwareAssumption == Hardware \subseteq HardwareType

-----------------------------------------------------------------------------
(* setOSConfig: the volumes of a direct boot can never be set up.          *)

Supported(type) == CASE type = "none" -> {"x86_64", "aarch64", "i686", "other"}
                     [] type = "efi"  -> {"x86_64", "aarch64"}
                     [] type = "bios" -> {"x86_64", "i686"}
                     [] OTHER         -> {}

OSFails(hw) == hw.boot # "firmware" \/ hw.arch \notin Supported(hw.firmware)

(* setMemoryConfig.  Integer division panics on zero: the remainder by     *)
(* Slots, and the quotient by slotSize when that is 0.  Of the values,     *)
(* signed in the code, only the absolute ones matter: Go's division        *)
(* truncates, and both are 0 for x and y exactly when they are for -x, -y. *)
Size(x) == IF x < 0 THEN -x ELSE x

Slotted(hw) == Size(hw.initial) % Size(hw.slots) = 0 /\ Size(hw.maximum) % Size(hw.slots) = 0

MemoryPanics(hw) == hw.slots = 0 \/ (Slotted(hw) /\ Size(hw.maximum) \div Size(hw.slots) = 0)
MemoryFails(hw)  == hw.slots # 0 /\ ~Slotted(hw)

(* setDiskConfig.                                                          *)
DiskOutcomes_NoElse(source) ==   \* mutant: no source is taken for an image file
  CASE source \in {"nil", "empty"}       -> {"panic"}
    [] source = "rbd without monitors"   -> {"panic", "error"}
    [] source = "other"                  -> {"error"}
    [] source \in {"rbd", "iscsi", "image"} -> {"set", "error"}

DiskOutcomes(source) ==
  CASE source = "nil"                    -> {"panic"}
    [] source \in {"empty", "other"}     -> {"error"}
    [] source = "rbd without monitors"   -> {"panic", "error"}
    [] source \in {"rbd", "iscsi", "image"} -> {"set", "error"}

(* setDeviceConfig comes to disk i when those before it could be set.      *)
Reached(hw, i) == \A j \in 1..(i - 1) : "set" \in DiskOutcomes(hw.disks[j])

DevicesEnd(hw) ==
  {o \in {"panic", "error"} :
     \E i \in DOMAIN hw.disks : Reached(hw, i) /\ o \in DiskOutcomes(hw.disks[i])}
  \union {o \in {"domain"} : \A i \in DOMAIN hw.disks : "set" \in DiskOutcomes(hw.disks[i])}

(* ApplyVirtMachine: domain, error, or a panic that ends the process.      *)
Outcomes(hw) ==
  CASE OSFails(hw)                        -> {"error"}
    [] ~OSFails(hw) /\ MemoryPanics(hw)   -> {"panic"}
    [] ~OSFails(hw) /\ MemoryFails(hw)    -> {"error"}
    [] OTHER                              -> DevicesEnd(hw)

-----------------------------------------------------------------------------
(* Hardware that cannot make the designer panic: memory with slots and a   *)
(* size, and disks with a source and, for RBD, monitors.                   *)
Safe(hw) ==
  /\ hw.slots # 0 /\ hw.maximum # 0
  /\ \A i \in DOMAIN hw.disks : hw.disks[i] \notin {"nil", "rbd without monitors"}

(* Hardware a guest may be started with: "Total number of DIMM slots -     *)
(* must be a divisor of both Present and Maximum" (virtmachine.go), of an  *)
(* architecture its firmware supports, every disk with a source.           *)
Sound(hw) ==
  /\ hw.slots # 0 /\ Slotted(hw) /\ hw.arch \in Supported(hw.firmware)
  /\ \A i \in DOMAIN hw.disks : hw.disks[i] \in {"rbd", "iscsi", "image"}

=============================================================================
