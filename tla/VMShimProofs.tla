---------------------------- MODULE VMShimProofs ----------------------------
(***************************************************************************)
(* Proofs about VMShim, for every set of clients, machines and hardware    *)
(* and every bound on the faults.                                          *)
(***************************************************************************)
EXTENDS VMShim, FiniteSetTheorems, WellFoundedInduction, TLAPS

-----------------------------------------------------------------------------
(* The designer.                                                           *)

(* Hardware a guest can be started from is sound,                          *)
LEMMA DesignedSound ==
  ASSUME NEW hw \in Hardware, "domain" \in Outcomes(hw)
  PROVE  Sound(hw)
<1>1. hw \in HardwareType
  BY HardwareAssumption
<1>2. ~OSFails(hw) /\ ~MemoryPanics(hw) /\ ~MemoryFails(hw) /\ "domain" \in DevicesEnd(hw)
  BY DEF Outcomes
<1>3. hw.slots # 0 /\ Slotted(hw) /\ hw.arch \in Supported(hw.firmware)
  BY <1>2 DEF OSFails, MemoryPanics, MemoryFails
<1>4. \A i \in DOMAIN hw.disks : "set" \in DiskOutcomes(hw.disks[i])
  BY <1>2 DEF DevicesEnd
<1>5. ASSUME NEW i \in DOMAIN hw.disks
      PROVE  hw.disks[i] \in {"rbd", "iscsi", "image"}
  <2>1. hw.disks[i] \in Sources
    BY <1>1 DEF HardwareType
  <2> QED  BY <1>4, <2>1 DEF Sources, DiskOutcomes
<1> QED  BY <1>3, <1>5 DEF Sound

(* A quotient that is exact is 0 only of 0.                                *)
LEMMA SizeZero ==
  ASSUME NEW x \in Int
  PROVE  Size(x) \in Nat /\ (Size(x) = 0 <=> x = 0)
BY DEF Size

LEMMA NoQuotient ==
  ASSUME NEW m \in Nat, NEW s \in Nat, s # 0, m % s = 0
  PROVE  m \div s = 0 <=> m = 0
OBVIOUS

(* and the designer panics only on hardware that is not safe.              *)
LEMMA PanicUnsafe ==
  ASSUME NEW hw \in Hardware, "panic" \in Outcomes(hw)
  PROVE  ~Safe(hw)
<1>1. hw \in HardwareType
  BY HardwareAssumption
<1>2. CASE MemoryPanics(hw)
  <2>1. hw.slots = 0 \/ (/\ Size(hw.maximum) % Size(hw.slots) = 0
                         /\ Size(hw.maximum) \div Size(hw.slots) = 0)
    BY <1>2 DEF MemoryPanics, Slotted
  <2>2. hw.slots \in Int /\ hw.maximum \in Int
    BY <1>1 DEF HardwareType
  <2> QED  BY <2>1, <2>2, SizeZero, NoQuotient DEF Safe
<1>3. CASE ~MemoryPanics(hw)
  <2>1. "panic" \in DevicesEnd(hw)
    BY <1>3 DEF Outcomes
  <2>2. PICK i \in DOMAIN hw.disks : "panic" \in DiskOutcomes(hw.disks[i])
    BY <2>1 DEF DevicesEnd
  <2>3. hw.disks[i] \in Sources
    BY <1>1 DEF HardwareType
  <2>4. hw.disks[i] \in {"nil", "rbd without monitors"}
    BY <2>2, <2>3 DEF Sources, DiskOutcomes
  <2> QED  BY <2>4 DEF Safe
<1> QED  BY <1>2, <1>3

(* A set of numbers that is not empty has a least one.                     *)
LEMMA Least ==
  ASSUME NEW T, T \subseteq Nat, T # {}
  PROVE  \E x \in T : \A y \in T : x <= y
<1> DEFINE R == {ss \in Nat \X Nat : ss[1] < ss[2]}
<1>1. IsWellFoundedOn(R, Nat)
  BY NatLessThanWellFounded DEF OpToRel
<1>2. \A x, y \in Nat : x < y => <<x, y>> \in R
  OBVIOUS
<1> HIDE DEF R
<1>3. PICK x \in T : \A y \in T : ~(<<y, x>> \in R)
  BY <1>1, WFMin
<1>4. x \in Nat /\ \A y \in T : ~(y < x)
  BY <1>2, <1>3
<1> QED  BY <1>4

LEMMA DevicesCome ==
  ASSUME NEW hw \in Hardware
  PROVE  DevicesEnd(hw) # {}
<1>1. /\ hw.disks \in Seq(Sources)
      /\ DOMAIN hw.disks = 1..Len(hw.disks) /\ Len(hw.disks) \in Nat
      /\ \A i \in DOMAIN hw.disks : hw.disks[i] \in Sources
  BY HardwareAssumption DEF HardwareType
<1> DEFINE T == {i \in DOMAIN hw.disks : "set" \notin DiskOutcomes(hw.disks[i])}
<1>2. CASE T = {}
  BY <1>2 DEF DevicesEnd
<1>3. CASE T # {}
  <2>1. T \subseteq Nat
    BY <1>1
  <2>2. PICK i \in T : \A k \in T : i <= k
    BY <1>3, <2>1, Least
  <2>3. Reached(hw, i)
    BY <1>1, <2>2 DEF Reached
  <2>4. PICK o \in {"panic", "error"} : o \in DiskOutcomes(hw.disks[i])
    BY <1>1, <2>2 DEF Sources, DiskOutcomes
  <2> QED  BY <2>2, <2>3, <2>4 DEF DevicesEnd
<1> QED  BY <1>2, <1>3

(* The designer decides about all hardware, whatever its disks are and     *)
(* however their reads end; a guest may come of it exactly if it is sound, *)
(* is booted from firmware and has memory; and while nothing unsafe is     *)
(* asked for there is no panic.                                            *)
THEOREM DesignerDecides ==
  ASSUME NEW hw \in Hardware
  PROVE  /\ Outcomes(hw) # {} /\ Outcomes(hw) \subseteq {"domain", "error", "panic"}
         /\ "domain" \in Outcomes(hw) <=> Sound(hw) /\ hw.boot = "firmware" /\ hw.maximum # 0
         /\ Safe(hw) => "panic" \notin Outcomes(hw)
<1>1. hw \in HardwareType /\ hw.slots \in Int /\ hw.maximum \in Int
  BY HardwareAssumption DEF HardwareType
<1>2. DevicesEnd(hw) # {} /\ DevicesEnd(hw) \subseteq {"domain", "error", "panic"}
  BY DevicesCome DEF DevicesEnd
<1>3. Outcomes(hw) # {} /\ Outcomes(hw) \subseteq {"domain", "error", "panic"}
  BY <1>2 DEF Outcomes
<1>4. ASSUME hw.slots # 0, Size(hw.maximum) % Size(hw.slots) = 0
      PROVE  Size(hw.maximum) \div Size(hw.slots) = 0 <=> hw.maximum = 0
  BY <1>1, <1>4, SizeZero, NoQuotient
<1>5. ASSUME "domain" \in Outcomes(hw)
      PROVE  Sound(hw) /\ hw.boot = "firmware" /\ hw.maximum # 0
  <2>1. ~OSFails(hw) /\ ~MemoryPanics(hw) /\ ~MemoryFails(hw)
    BY <1>5 DEF Outcomes
  <2> QED  BY <1>4, <1>5, <2>1, DesignedSound DEF OSFails, MemoryPanics, MemoryFails, Slotted
<1>6. ASSUME Sound(hw), hw.boot = "firmware", hw.maximum # 0
      PROVE  "domain" \in Outcomes(hw)
  <2>1. ~OSFails(hw) /\ ~MemoryPanics(hw) /\ ~MemoryFails(hw)
    BY <1>4, <1>6 DEF Sound, OSFails, MemoryPanics, MemoryFails, Slotted
  <2>2. \A i \in DOMAIN hw.disks : "set" \in DiskOutcomes(hw.disks[i])
    BY <1>6 DEF Sound, DiskOutcomes
  <2>3. "domain" \in DevicesEnd(hw)
    BY <2>2 DEF DevicesEnd
  <2> QED  BY <2>1, <2>3 DEF Outcomes
<1> QED  BY <1>3, <1>5, <1>6, PanicUnsafe

-----------------------------------------------------------------------------
(* The inductive invariant.                                                *)

(* The shim knows nothing of a guardian that has not dialled.              *)
Unasked == \A c \in Clients : guardian[c] = "new" => thread[c] = "none"

(* Goroutines only live in a shim that does.                               *)
Running == \A c \in Clients : thread[c] \notin {"none", "done"} => shim = "up"

(* Only a goroutine that has ended leaves a guest behind.                  *)
Guarded == \A c \in Clients : guest[c] # Nil => Kept(c) \/ thread[c] = "done"

(* A goroutine that has taken its connection has a domain designed from    *)
(* its copy of the machine, and a guest it looks after is that domain.     *)
Designed == \A c \in Clients :
  thread[c] \notin {"none", "get", "connect", "done"} =>
    /\ "domain" \in Outcomes(copy[c].spec)
    /\ guest[c] # Nil => guest[c] = copy[c].spec

(* A copy is never newer than the object, and one that is as new has its   *)
(* spec: users' changes give new versions.                                 *)
Versions == \A c \in Clients :
  LET o == api[MachineOf[c]]
  IN copy[c] # Nil /\ o # Nil =>
       copy[c].rev <= o.rev /\ (copy[c].rev = o.rev => copy[c].spec = o.spec)

Bounded == budget["active"] <= ActiveErrors

Inv == TypeOK /\ Unasked /\ Running /\ Guarded /\ Designed /\ Versions /\ GuestSound /\ Bounded

-----------------------------------------------------------------------------
(* A fault is taken off its bound and off no other.                        *)
LEMMA SpendType ==
  ASSUME TypeOK, NEW f \in Faults, Spend(f)
  PROVE  /\ budget' \in [Faults -> Nat]
         /\ budget'[f] = budget[f] - 1
         /\ \A g \in Faults \ {f} : budget'[g] = budget[g]
<1>1. budget \in [Faults -> Nat] /\ budget[f] > 0 /\ budget' = [budget EXCEPT ![f] = @ - 1]
  BY DEF TypeOK, Spend
<1>2. budget[f] \in Nat /\ budget[f] - 1 \in Nat
  BY <1>1
<1> QED  BY <1>1, <1>2

(* A PUT stores an object that is as new as before or newer.               *)
LEMMA StoredType ==
  ASSUME TypeOK, NEW c \in Clients, NEW o \in Object, Accepted(c), o.rev = copy[c].rev
  PROVE  /\ api[MachineOf[c]] \in Object /\ Stored(c, o) \in Object
         /\ Stored(c, o).spec = o.spec /\ Stored(c, o).hw = o.hw
         /\ Stored(c, o).rev \in {o.rev, o.rev + 1}
         /\ Stored(c, o) = api[MachineOf[c]] \/ Stored(c, o).rev = o.rev + 1
<1>1. MachineOf[c] \in Machines
  BY ClientsAssumption
<1>2. api[MachineOf[c]] \in Object /\ api[MachineOf[c]].rev = o.rev
  BY <1>1 DEF TypeOK, Accepted
<1> QED  BY <1>2 DEF Stored, Object
LEMMA SpendLess ==
  ASSUME TypeOK, NEW f \in Faults, Spend(f)
  PROVE  /\ budget' \in [Faults -> Nat]
         /\ budget["active"] \in Nat /\ budget'["active"] <= budget["active"]
<1>1. budget["active"] \in Nat
  BY DEF TypeOK, Faults
<1> QED  BY <1>1, SpendType DEF Faults

-----------------------------------------------------------------------------
(* The guardians, the main loop, the guests and most of startMachine.      *)

LEMMA DialKeeps ==
  ASSUME Inv, NEW c \in Clients, Dial(c)
  PROVE  Inv'
<1> USE ClientsAssumption, NilAssumption DEF Inv
<1>1. TypeOK'
  BY DEF Dial, TypeOK, Goto, Phases, Faults, Unasked
<1>2. Unasked'
  BY DEF Dial, Unasked, Goto, TypeOK
<1>3. Running'
  BY DEF Dial, Running, Goto, TypeOK
<1>4. Guarded'
  BY DEF Dial, Guarded, Kept, Goto, TypeOK, Unasked
<1>5. Designed'
  BY DEF Dial, Designed, Goto, TypeOK
<1>6. Versions'
  BY DEF Dial, Versions, TypeOK
<1>7. GuestSound'
  BY DEF Dial, GuestSound
<1>8. Bounded'
  BY DEF Dial, Bounded
<1> QED  BY <1>1, <1>2, <1>3, <1>4, <1>5, <1>6, <1>7, <1>8

LEMMA SignalKeeps ==
  ASSUME Inv, NEW c \in Clients, Signal(c)
  PROVE  Inv'
<1> USE ClientsAssumption, NilAssumption DEF Inv
<1>1. TypeOK'
  BY DEF Signal, TypeOK, Goto, Phases, Faults
<1>2. Unasked'
  BY DEF Signal, Unasked, Goto, TypeOK
<1>3. Running'
  BY DEF Signal, Running, Goto, TypeOK
<1>4. Guarded'
  BY DEF Signal, Guarded, Kept, Goto, TypeOK
<1>5. Designed'
  BY DEF Signal, Designed, Goto, TypeOK
<1>6. Versions'
  BY DEF Signal, Versions, TypeOK
<1>7. GuestSound'
  BY DEF Signal, GuestSound
<1>8. Bounded'
  BY DEF Signal, Bounded
<1> QED  BY <1>1, <1>2, <1>3, <1>4, <1>5, <1>6, <1>7, <1>8

LEMMA SeeEndKeeps ==
  ASSUME Inv, NEW c \in Clients, SeeEnd(c)
  PROVE  Inv'
<1> USE ClientsAssumption, NilAssumption DEF Inv
<1>1. TypeOK'
  BY DEF SeeEnd, TypeOK, Goto, Phases, Faults
<1>2. Unasked'
  BY DEF SeeEnd, Unasked, Goto, TypeOK
<1>3. Running'
  BY DEF SeeEnd, Running, Goto, TypeOK
<1>4. Guarded'
  BY DEF SeeEnd, Guarded, Kept, Goto, TypeOK
<1>5. Designed'
  BY DEF SeeEnd, Designed, Goto, TypeOK
<1>6. Versions'
  BY DEF SeeEnd, Versions, TypeOK
<1>7. GuestSound'
  BY DEF SeeEnd, GuestSound
<1>8. Bounded'
  BY DEF SeeEnd, Bounded
<1> QED  BY <1>1, <1>2, <1>3, <1>4, <1>5, <1>6, <1>7, <1>8

LEMMA BootKeeps ==
  ASSUME Inv, Boot
  PROVE  Inv'
<1> USE ClientsAssumption, NilAssumption DEF Inv
<1>1. TypeOK'
  BY DEF Boot, TypeOK, Goto, Phases, Faults
<1>2. Unasked'
  BY DEF Boot, Unasked, Goto, TypeOK
<1>3. Running'
  BY DEF Boot, Running, Goto, TypeOK
<1>4. Guarded'
  BY DEF Boot, Guarded, Kept, Goto, TypeOK
<1>5. Designed'
  BY DEF Boot, Designed, Goto, TypeOK
<1>6. Versions'
  BY DEF Boot, Versions, TypeOK
<1>7. GuestSound'
  BY DEF Boot, GuestSound
<1>8. Bounded'
  BY DEF Boot, Bounded
<1> QED  BY <1>1, <1>2, <1>3, <1>4, <1>5, <1>6, <1>7, <1>8

LEMMA ConnectKeeps ==
  ASSUME Inv, Connect
  PROVE  Inv'
<1> USE ClientsAssumption, NilAssumption DEF Inv
<1>1. TypeOK'
  BY DEF Connect, TypeOK, Goto, Phases, Faults
<1>2. Unasked'
  BY DEF Connect, Unasked, Goto, TypeOK
<1>3. Running'
  BY DEF Connect, Running, Goto, TypeOK
<1>4. Guarded'
  BY DEF Connect, Guarded, Kept, Goto, TypeOK
<1>5. Designed'
  BY DEF Connect, Designed, Goto, TypeOK
<1>6. Versions'
  BY DEF Connect, Versions, TypeOK
<1>7. GuestSound'
  BY DEF Connect, GuestSound
<1>8. Bounded'
  BY DEF Connect, Bounded
<1> QED  BY <1>1, <1>2, <1>3, <1>4, <1>5, <1>6, <1>7, <1>8

LEMMA ConnectFailedKeeps ==
  ASSUME Inv, ConnectFailed
  PROVE  Inv'
<1> USE ClientsAssumption, NilAssumption DEF Inv
<1>1. TypeOK'
  BY DEF ConnectFailed, TypeOK, Goto, Phases, Faults
<1>2. Unasked'
  BY DEF ConnectFailed, Unasked, Goto, TypeOK
<1>3. Running'
  BY DEF ConnectFailed, Running, Goto, TypeOK
<1>4. Guarded'
  BY DEF ConnectFailed, Guarded, Kept, Goto, TypeOK
<1>5. Designed'
  BY DEF ConnectFailed, Designed, Goto, TypeOK
<1>6. Versions'
  BY DEF ConnectFailed, Versions, TypeOK
<1>7. GuestSound'
  BY DEF ConnectFailed, GuestSound
<1>8. Bounded'
  BY DEF ConnectFailed, Bounded
<1> QED  BY <1>1, <1>2, <1>3, <1>4, <1>5, <1>6, <1>7, <1>8

LEMMA QuitKeeps ==
  ASSUME Inv, NEW c \in Clients, Quit(c)
  PROVE  Inv'
<1> USE ClientsAssumption, NilAssumption DEF Inv
<1>1. TypeOK'
  BY DEF Quit, TypeOK, Goto, Phases, Faults
<1>2. Unasked'
  BY DEF Quit, Unasked, Goto, TypeOK
<1>3. Running'
  BY DEF Quit, Running, Goto, TypeOK
<1>4. Guarded'
  BY DEF Quit, Guarded, Kept, Goto, TypeOK
<1>5. Designed'
  BY DEF Quit, Designed, Goto, TypeOK
<1>6. Versions'
  BY DEF Quit, Versions, TypeOK
<1>7. GuestSound'
  BY DEF Quit, GuestSound
<1>8. Bounded'
  BY DEF Quit, Bounded
<1> QED  BY <1>1, <1>2, <1>3, <1>4, <1>5, <1>6, <1>7, <1>8

LEMMA GetKeeps ==
  ASSUME Inv, NEW c \in Clients, Get(c)
  PROVE  Inv'
<1> USE ClientsAssumption, NilAssumption DEF Inv
<1>1. TypeOK'
  BY DEF Get, TypeOK, Goto, Phases, Faults
<1>2. Unasked'
  BY DEF Get, Unasked, Goto, TypeOK
<1>3. Running'
  BY DEF Get, Running, Goto, TypeOK
<1>4. Guarded'
  BY DEF Get, Guarded, Kept, Goto, TypeOK
<1>5. Designed'
  BY DEF Get, Designed, Goto, TypeOK
<1>6. Versions'
  <2>1. MachineOf[c] \in Machines
    OBVIOUS
  <2>2. api[MachineOf[c]] \in Object
    BY <2>1 DEF Get, TypeOK
  <2>3. api' = api /\ copy' = [copy EXCEPT ![c] = api[MachineOf[c]]]
    BY DEF Get
  <2>4. api[MachineOf[c]].rev \in Nat
    BY <2>2 DEF Object
  <2> QED  BY <2>3, <2>4 DEF Versions, TypeOK
<1>7. GuestSound'
  BY DEF Get, GuestSound
<1>8. Bounded'
  BY DEF Get, Bounded
<1> QED  BY <1>1, <1>2, <1>3, <1>4, <1>5, <1>6, <1>7, <1>8

LEMMA TakeConnKeeps ==
  ASSUME Inv, NEW c \in Clients, TakeConn(c)
  PROVE  Inv'
<1> USE ClientsAssumption, NilAssumption DEF Inv
<1>1. TypeOK'
  BY DEF TakeConn, TypeOK, Goto, Phases, Faults
<1>2. Unasked'
  BY DEF TakeConn, Unasked, Goto, TypeOK
<1>3. Running'
  BY DEF TakeConn, Running, Goto, TypeOK
<1>4. Guarded'
  BY DEF TakeConn, Guarded, Kept, Goto, TypeOK
<1>5. Designed'
  BY DEF TakeConn, Designed, Goto, TypeOK, Guarded, Kept
<1>6. Versions'
  BY DEF TakeConn, Versions, TypeOK
<1>7. GuestSound'
  BY DEF TakeConn, GuestSound
<1>8. Bounded'
  BY DEF TakeConn, Bounded
<1> QED  BY <1>1, <1>2, <1>3, <1>4, <1>5, <1>6, <1>7, <1>8

LEMMA CreateKeeps ==
  ASSUME Inv, NEW c \in Clients, Create(c)
  PROVE  Inv'
<1> USE ClientsAssumption, NilAssumption DEF Inv
<1>1. TypeOK'
  BY DEF Create, TypeOK, Goto, Phases, Faults, Object
<1>2. Unasked'
  BY DEF Create, Unasked, Goto, TypeOK
<1>3. Running'
  BY DEF Create, Running, Goto, TypeOK
<1>4. Guarded'
  BY DEF Create, Guarded, Kept, Goto, TypeOK
<1>5. Designed'
  BY DEF Create, Designed, Goto, TypeOK
<1>6. Versions'
  BY DEF Create, Versions, TypeOK
<1>7. GuestSound'
  BY DesignedSound DEF Create, GuestSound, Designed, TypeOK, Object
<1>8. Bounded'
  BY DEF Create, Bounded
<1> QED  BY <1>1, <1>2, <1>3, <1>4, <1>5, <1>6, <1>7, <1>8

LEMMA UndoKeeps ==
  ASSUME Inv, NEW c \in Clients, Undo(c)
  PROVE  Inv'
<1> USE ClientsAssumption, NilAssumption DEF Inv
<1>1. TypeOK'
  BY DEF Undo, Destroys, TypeOK, Goto, Phases, Faults
<1>2. Unasked'
  BY DEF Undo, Destroys, Unasked, Goto, TypeOK
<1>3. Running'
  BY DEF Undo, Destroys, Running, Goto, TypeOK
<1>4. Guarded'
  BY DEF Undo, Destroys, Guarded, Kept, Goto, TypeOK
<1>5. Designed'
  BY DEF Undo, Destroys, Designed, Goto, TypeOK
<1>6. Versions'
  BY DEF Undo, Destroys, Versions, TypeOK
<1>7. GuestSound'
  BY DEF Undo, Destroys, GuestSound
<1>8. Bounded'
  BY DEF Undo, Destroys, Bounded
<1> QED  BY <1>1, <1>2, <1>3, <1>4, <1>5, <1>6, <1>7, <1>8

LEMMA SeeEOFKeeps ==
  ASSUME Inv, NEW c \in Clients, SeeEOF(c)
  PROVE  Inv'
<1> USE ClientsAssumption, NilAssumption DEF Inv
<1>1. TypeOK'
  BY DEF SeeEOF, TypeOK, Goto, Phases, Faults
<1>2. Unasked'
  BY DEF SeeEOF, Unasked, Goto, TypeOK
<1>3. Running'
  BY DEF SeeEOF, Running, Goto, TypeOK
<1>4. Guarded'
  BY DEF SeeEOF, Guarded, Kept, Goto, TypeOK
<1>5. Designed'
  BY DEF SeeEOF, Designed, Goto, TypeOK
<1>6. Versions'
  BY DEF SeeEOF, Versions, TypeOK
<1>7. GuestSound'
  BY DEF SeeEOF, GuestSound
<1>8. Bounded'
  BY DEF SeeEOF, Bounded
<1> QED  BY <1>1, <1>2, <1>3, <1>4, <1>5, <1>6, <1>7, <1>8

LEMMA StopKeeps ==
  ASSUME Inv, NEW c \in Clients, Stop(c)
  PROVE  Inv'
<1> USE ClientsAssumption, NilAssumption DEF Inv
<1>1. TypeOK'
  BY DEF Stop, Destroys, TypeOK, Goto, Phases, Faults
<1>2. Unasked'
  BY DEF Stop, Destroys, Unasked, Goto, TypeOK
<1>3. Running'
  BY DEF Stop, Destroys, Running, Goto, TypeOK
<1>4. Guarded'
  BY DEF Stop, Destroys, Guarded, Kept, Goto, TypeOK
<1>5. Designed'
  BY DEF Stop, Destroys, Designed, Goto, TypeOK
<1>6. Versions'
  BY DEF Stop, Destroys, Versions, TypeOK
<1>7. GuestSound'
  BY DEF Stop, Destroys, GuestSound
<1>8. Bounded'
  BY DEF Stop, Destroys, Bounded
<1> QED  BY <1>1, <1>2, <1>3, <1>4, <1>5, <1>6, <1>7, <1>8

LEMMA GiveUpKeeps ==
  ASSUME Inv, NEW c \in Clients, GiveUp(c)
  PROVE  Inv'
<1> USE ClientsAssumption, NilAssumption DEF Inv
<1>1. TypeOK'
  BY DEF GiveUp, Fail, TypeOK, Goto, Phases, Faults
<1>2. Unasked'
  BY DEF GiveUp, Fail, Unasked, Goto, TypeOK
<1>3. Running'
  BY DEF GiveUp, Fail, Running, Goto, TypeOK
<1>4. Guarded'
  BY DEF GiveUp, Fail, Guarded, Kept, Goto, TypeOK
<1>5. Designed'
  BY DEF GiveUp, Fail, Designed, Goto, TypeOK
<1>6. Versions'
  BY DEF GiveUp, Fail, Versions, TypeOK
<1>7. GuestSound'
  BY DEF GiveUp, Fail, GuestSound
<1>8. Bounded'
  BY DEF GiveUp, Fail, Bounded
<1> QED  BY <1>1, <1>2, <1>3, <1>4, <1>5, <1>6, <1>7, <1>8

LEMMA CheckKeeps ==
  ASSUME Inv, NEW c \in Clients, Check(c)
  PROVE  Inv'
<1> USE ClientsAssumption, NilAssumption DEF Inv
<1>1. TypeOK'
  BY SpendLess DEF Check, Fail, TypeOK, Goto, Phases, Faults
<1>2. Unasked'
  BY DEF Check, Fail, Unasked, Goto, TypeOK
<1>3. Running'
  BY DEF Check, Fail, Running, Goto, TypeOK
<1>4. Guarded'
  BY DEF Check, Fail, Guarded, Kept, Goto, TypeOK
<1>5. Designed'
  BY DEF Check, Fail, Designed, Goto, TypeOK
<1>6. Versions'
  BY DEF Check, Fail, Versions, TypeOK
<1>7. GuestSound'
  BY DEF Check, Fail, GuestSound
<1>8. Bounded'
  BY SpendLess DEF Check, Fail, Bounded, TypeOK, Faults
<1> QED  BY <1>1, <1>2, <1>3, <1>4, <1>5, <1>6, <1>7, <1>8

-----------------------------------------------------------------------------
(* What ends the shim or its connection, and what users do.                *)

(* The end of the process, whatever bound it has cost.                     *)
LEMMA EndKeeps ==
  ASSUME Inv, End, budget' \in [Faults -> Nat], budget'["active"] <= budget["active"]
  PROVE  Inv'
<1> USE ClientsAssumption, NilAssumption DEF Inv
<1>1. TypeOK'
  BY DEF End, AutoDestroy, TypeOK, Goto, Phases, Faults
<1>2. Unasked'
  BY DEF End, AutoDestroy, Unasked, Goto, TypeOK
<1>3. Running'
  BY DEF End, AutoDestroy, Running, Goto, TypeOK
<1>4. Guarded'
  BY DEF End, AutoDestroy, Guarded, Kept, Goto, TypeOK
<1>5. Designed'
  BY DEF End, AutoDestroy, Designed, Goto, TypeOK
<1>6. Versions'
  BY DEF End, AutoDestroy, Versions, TypeOK
<1>7. GuestSound'
  BY DEF End, AutoDestroy, GuestSound
<1>8. Bounded'
  BY DEF Bounded, TypeOK, Faults
<1> QED  BY <1>1, <1>2, <1>3, <1>4, <1>5, <1>6, <1>7, <1>8

LEMMA KillKeeps ==
  ASSUME Inv, Kill
  PROVE  Inv'
BY EndKeeps, SpendLess DEF Kill, Inv, Faults

LEMMA CrashKeeps ==
  ASSUME Inv, NEW c \in Clients, Crash(c)
  PROVE  Inv'
<1>1. budget["active"] \in Nat
  BY DEF Inv, TypeOK, Faults
<1> QED  BY <1>1, EndKeeps DEF Crash, Inv, TypeOK

LEMMA ConnLostKeeps ==
  ASSUME Inv, ConnLost
  PROVE  Inv'
<1> USE ClientsAssumption, NilAssumption DEF Inv
<1>1. TypeOK'
  BY SpendLess DEF ConnLost, AutoDestroy, TypeOK, Faults
<1>2. Unasked'
  BY DEF ConnLost, AutoDestroy, Unasked, Goto, TypeOK
<1>3. Running'
  BY DEF ConnLost, AutoDestroy, Running, Goto, TypeOK
<1>4. Guarded'
  BY DEF ConnLost, AutoDestroy, Guarded, Kept, Goto, TypeOK
<1>5. Designed'
  BY DEF ConnLost, AutoDestroy, Designed, Goto, TypeOK
<1>6. Versions'
  BY DEF ConnLost, AutoDestroy, Versions, TypeOK
<1>7. GuestSound'
  BY DEF ConnLost, AutoDestroy, GuestSound
<1>8. Bounded'
  BY SpendLess DEF ConnLost, Bounded, TypeOK, Faults
<1> QED  BY <1>1, <1>2, <1>3, <1>4, <1>5, <1>6, <1>7, <1>8

LEMMA UserModifyKeeps ==
  ASSUME Inv, NEW m \in Machines, UserModify(m)
  PROVE  Inv'
<1> USE ClientsAssumption, NilAssumption DEF Inv
<1>1. TypeOK'
  BY SpendLess DEF UserModify, TypeOK, Faults, Object
<1>2. Unasked'
  BY DEF UserModify, Unasked, Goto, TypeOK
<1>3. Running'
  BY DEF UserModify, Running, Goto, TypeOK
<1>4. Guarded'
  BY DEF UserModify, Guarded, Kept, Goto, TypeOK
<1>5. Designed'
  BY DEF UserModify, Designed, Goto, TypeOK
<1>6. Versions'
  BY DEF UserModify, Versions, TypeOK, Object
<1>7. GuestSound'
  BY DEF UserModify, GuestSound
<1>8. Bounded'
  BY SpendLess DEF UserModify, Bounded, TypeOK, Faults
<1> QED  BY <1>1, <1>2, <1>3, <1>4, <1>5, <1>6, <1>7, <1>8

LEMMA UserDeleteKeeps ==
  ASSUME Inv, NEW m \in Machines, UserDelete(m)
  PROVE  Inv'
<1> USE ClientsAssumption, NilAssumption DEF Inv
<1>1. TypeOK'
  BY SpendLess DEF UserDelete, TypeOK, Faults, Object
<1>2. Unasked'
  BY DEF UserDelete, Unasked, Goto, TypeOK
<1>3. Running'
  BY DEF UserDelete, Running, Goto, TypeOK
<1>4. Guarded'
  BY DEF UserDelete, Guarded, Kept, Goto, TypeOK
<1>5. Designed'
  BY DEF UserDelete, Designed, Goto, TypeOK
<1>6. Versions'
  BY DEF UserDelete, Versions, TypeOK, Object
<1>7. GuestSound'
  BY DEF UserDelete, GuestSound
<1>8. Bounded'
  BY SpendLess DEF UserDelete, Bounded, TypeOK, Faults
<1> QED  BY <1>1, <1>2, <1>3, <1>4, <1>5, <1>6, <1>7, <1>8

-----------------------------------------------------------------------------
(* The updates of the object.                                              *)

(* An update accepted from a copy keeps the spec, as the copy has it, and  *)
(* leaves no other copy newer than the object, nor as new and different.   *)
LEMMA PutKeeps ==
  ASSUME Inv, NEW c \in Clients, NEW o \in Object, Accepted(c), Put(c, o),
         o.rev = copy[c].rev, o.spec = copy[c].spec, copy[c] \in Object
  PROVE  /\ api' \in [Machines -> Object \union {Nil}]
         /\ api'[MachineOf[c]] = Stored(c, o) /\ Stored(c, o) \in Object
         /\ Stored(c, o).spec = o.spec /\ Stored(c, o).hw = o.hw
         /\ \A m \in Machines : api[m] # Nil => api'[m] # Nil /\ api'[m].spec = api[m].spec
         /\ \A m \in Machines : api'[m] # Nil => api[m] # Nil /\ api[m].rev <= api'[m].rev
                                  /\ (api'[m] = api[m] \/ api[m].rev < api'[m].rev)
<1> DEFINE m == MachineOf[c]
           n == Stored(c, o)
<1>1. m \in Machines /\ api \in [Machines -> Object \union {Nil}] /\ Nil \notin Object
  BY ClientsAssumption, NilAssumption DEF Inv, TypeOK
<1>2. /\ api[m] \in Object /\ n \in Object /\ n.spec = o.spec /\ n.hw = o.hw
      /\ n.rev \in {o.rev, o.rev + 1} /\ (n = api[m] \/ n.rev = o.rev + 1)
  BY StoredType DEF Inv
<1>3. api[m].rev = copy[c].rev /\ o.rev \in Nat
  BY DEF Accepted, Object
<1>4. api[m].spec = o.spec
  BY <1>1, <1>2, <1>3 DEF Inv, Versions
<1>5. api' = [api EXCEPT ![m] = n]
  BY DEF Put
<1>6. \A k \in Machines : api[k] # Nil => api[k].rev \in Nat
  BY <1>1 DEF Object
<1> HIDE DEF m, n
<1>7. api' \in [Machines -> Object \union {Nil}] /\ api'[m] = n
      /\ \A k \in Machines \ {m} : api'[k] = api[k]
  BY <1>1, <1>2, <1>5
<1>8. n # Nil /\ api[m] # Nil
  BY <1>1, <1>2
<1>9. api[m].rev <= n.rev /\ (n = api[m] \/ api[m].rev < n.rev)
  BY <1>2, <1>3
<1>10. ASSUME NEW k \in Machines, api[k] # Nil
       PROVE  api'[k] # Nil /\ api'[k].spec = api[k].spec
  BY <1>2, <1>4, <1>7, <1>8, <1>10
<1>11. ASSUME NEW k \in Machines, api'[k] # Nil
       PROVE  api[k] # Nil /\ api[k].rev <= api'[k].rev
              /\ (api'[k] = api[k] \/ api[k].rev < api'[k].rev)
  BY <1>6, <1>7, <1>8, <1>9, <1>11
<1> QED  BY <1>2, <1>7, <1>10, <1>11 DEF m, n

(* Copies that are not touched stay old enough.                            *)
LEMMA OthersOld ==
  ASSUME Inv, NEW d \in Clients, copy[d] # Nil, api'[MachineOf[d]] # Nil,
         \A m \in Machines : api'[m] # Nil => api[m] # Nil /\ api[m].rev <= api'[m].rev
                               /\ (api'[m] = api[m] \/ api[m].rev < api'[m].rev),
         api' \in [Machines -> Object \union {Nil}]
  PROVE  /\ copy[d].rev <= api'[MachineOf[d]].rev
         /\ copy[d].rev = api'[MachineOf[d]].rev => copy[d].spec = api'[MachineOf[d]].spec
<1> DEFINE m == MachineOf[d]
<1>1. m \in Machines
  BY ClientsAssumption
<1>2. copy[d] \in Object /\ api[m] \in Object /\ api'[m] \in Object
  BY <1>1 DEF Inv, TypeOK
<1>3. copy[d].rev \in Nat /\ api[m].rev \in Nat /\ api'[m].rev \in Nat
  BY <1>2 DEF Object
<1>4. copy[d].rev <= api[m].rev /\ (copy[d].rev = api[m].rev => copy[d].spec = api[m].spec)
  BY <1>1 DEF Inv, Versions
<1> QED  BY <1>1, <1>3, <1>4

LEMMA ReportedIs ==
  ASSUME Inv, NEW c \in Clients, thread[c] = "report"
  PROVE  /\ copy[c] \in Object /\ Reported(c) \in Object
         /\ Reported(c).rev = copy[c].rev /\ Reported(c).spec = copy[c].spec
         /\ Reported(c).hw = copy[c].spec
BY DEF Inv, TypeOK, Object, Reported

LEMMA ReportKeeps ==
  ASSUME Inv, NEW c \in Clients, Report(c)
  PROVE  Inv'
<1> DEFINE n == Stored(c, Reported(c))
<1>1. thread[c] = "report" /\ UNCHANGED <<guest, shim, link, guardian, handle, budget>>
  BY DEF Report
<1>2. CASE Rejected(c) /\ UNCHANGED copy /\ ((Accepted(c) /\ Put(c, Reported(c))) \/ UNCHANGED api)
  <2> USE NilAssumption, <1>1, <1>2 DEF Rejected
  <2>0. /\ api' \in [Machines -> Object \union {Nil}]
        /\ \A m \in Machines : api'[m] # Nil => api[m] # Nil /\ api[m].rev <= api'[m].rev
                                  /\ (api'[m] = api[m] \/ api[m].rev < api'[m].rev)
    <3>1. CASE Accepted(c) /\ Put(c, Reported(c))
      BY <3>1, ReportedIs, PutKeeps
    <3>2. CASE UNCHANGED api
      BY <3>2 DEF Inv, TypeOK, Object
    <3> QED  BY <3>1, <3>2
  <2>1. TypeOK'
    BY <2>0 DEF Inv, TypeOK, Goto, Phases
  <2>2. Unasked' /\ Running' /\ Guarded' /\ Designed'
    BY DEF Inv, Unasked, Running, Guarded, Kept, Designed, Goto, TypeOK
  <2>3. Versions' /\ GuestSound' /\ Bounded'
    BY <2>0, OthersOld DEF Inv, Versions, GuestSound, Bounded
  <2> QED  BY <2>1, <2>2, <2>3 DEF Inv
<1>3. CASE Accepted(c) /\ Put(c, Reported(c)) /\ copy' = [copy EXCEPT ![c] = n] /\ Goto(c, "check")
  <2>1. /\ api' \in [Machines -> Object \union {Nil}] /\ api'[MachineOf[c]] = n
        /\ n \in Object /\ n.spec = copy[c].spec /\ MachineOf[c] \in Machines
        /\ \A m \in Machines : api'[m] # Nil => api[m] # Nil /\ api[m].rev <= api'[m].rev
                                  /\ (api'[m] = api[m] \/ api[m].rev < api'[m].rev)
    BY <1>1, <1>3, ReportedIs, PutKeeps, ClientsAssumption
  <2> HIDE DEF n
  <2>2. copy' = [copy EXCEPT ![c] = n] /\ thread' = [thread EXCEPT ![c] = "check"]
    BY <1>3 DEF Goto
  <2>3. TypeOK'
    BY <1>1, <2>1, <2>2, NilAssumption DEF Inv, TypeOK, Phases
  <2>4. Unasked' /\ Running' /\ Guarded'
    BY <1>1, <2>2 DEF Inv, Unasked, Running, Guarded, Kept, TypeOK
  <2>5. Designed'
    BY <1>1, <2>1, <2>2 DEF Inv, Designed, TypeOK
  <2>6. ASSUME NEW d \in Clients, copy'[d] # Nil, api'[MachineOf[d]] # Nil
        PROVE  /\ copy'[d].rev <= api'[MachineOf[d]].rev
               /\ copy'[d].rev = api'[MachineOf[d]].rev => copy'[d].spec = api'[MachineOf[d]].spec
    <3>1. CASE d = c
      <4>1. copy'[d] = n /\ n.rev \in Nat
        BY <2>1, <2>2, <3>1 DEF Inv, TypeOK, Object
      <4> QED  BY <2>1, <3>1, <4>1
    <3>2. CASE d # c
      <4>1. copy'[d] = copy[d]
        BY <2>2, <3>2 DEF Inv, TypeOK
      <4> QED  BY <2>1, <2>6, <4>1, OthersOld
    <3> QED  BY <3>1, <3>2
  <2>7. Versions' /\ GuestSound' /\ Bounded'
    BY <1>1, <2>6 DEF Inv, Versions, GuestSound, Bounded
  <2> QED  BY <2>3, <2>4, <2>5, <2>7 DEF Inv
<1> QED  BY <1>2, <1>3 DEF Report

LEMMA ClearKeeps ==
  ASSUME Inv, NEW c \in Clients, Clear(c)
  PROVE  Inv'
<1> DEFINE o == [copy[c] EXCEPT !.hw = Nil]
<1>1. /\ thread[c] = "clear" /\ UNCHANGED <<guest, shim, link, guardian, budget>>
      /\ thread' = [thread EXCEPT ![c] = "done"] /\ copy' = [copy EXCEPT ![c] = Nil]
      /\ handle' = [handle EXCEPT ![c] = "nil"]
  BY DEF Clear, Fail, Goto
<1>2. /\ copy[c] \in Object /\ o \in Object
      /\ o.rev = copy[c].rev /\ o.spec = copy[c].spec
  BY <1>1 DEF Inv, TypeOK, Object
<1>3. /\ api' \in [Machines -> Object \union {Nil}]
      /\ \A m \in Machines : api'[m] # Nil => api[m] # Nil /\ api[m].rev <= api'[m].rev
                               /\ (api'[m] = api[m] \/ api[m].rev < api'[m].rev)
  <2>1. CASE Accepted(c) /\ Put(c, o)
    <3> HIDE DEF o
    <3> QED  BY <1>2, <2>1, PutKeeps
  <2>2. CASE UNCHANGED api
    BY <2>2 DEF Inv, TypeOK, Object
  <2> QED  BY <2>1, <2>2 DEF Clear
<1> HIDE DEF o
<1>4. TypeOK'
  BY <1>1, <1>3, NilAssumption DEF Inv, TypeOK, Phases
<1>5. Unasked' /\ Running' /\ Guarded' /\ Designed'
  BY <1>1 DEF Inv, Unasked, Running, Guarded, Kept, Designed, TypeOK
<1>6. ASSUME NEW d \in Clients, copy'[d] # Nil, api'[MachineOf[d]] # Nil
      PROVE  /\ copy'[d].rev <= api'[MachineOf[d]].rev
             /\ copy'[d].rev = api'[MachineOf[d]].rev => copy'[d].spec = api'[MachineOf[d]].spec
  <2>1. copy'[d] = copy[d]
    BY <1>1, <1>6 DEF Inv, TypeOK
  <2> QED  BY <1>3, <1>6, <2>1, OthersOld
<1>7. Versions' /\ GuestSound' /\ Bounded'
  BY <1>1, <1>6 DEF Inv, Versions, GuestSound, Bounded
<1> QED  BY <1>4, <1>5, <1>7 DEF Inv

-----------------------------------------------------------------------------
(* The theorems.                                                           *)

LEMMA InitInv == Init => Inv
<1> SUFFICES ASSUME Init PROVE Inv
  OBVIOUS
<1>1. budget \in [Faults -> Nat] /\ budget["active"] = ActiveErrors
  BY ClientsAssumption DEF Init, Faults
<1>2. api \in [Machines -> Object \union {Nil}]
  BY DEF Init, Object
<1>3. TypeOK
  BY <1>1, <1>2 DEF Init, TypeOK, Phases
<1>4. Unasked /\ Running /\ Guarded /\ Designed /\ Versions /\ GuestSound
  BY DEF Init, Unasked, Running, Guarded, Designed, Versions, GuestSound
<1>5. Bounded
  BY <1>1, ClientsAssumption DEF Bounded
<1> QED  BY <1>3, <1>4, <1>5 DEF Inv

LEMMA StepInv ==
  ASSUME Inv, [Next]_vars
  PROVE  Inv'
<1>1. CASE \E c \in Clients : Angel(c)
  BY <1>1, DialKeeps, SignalKeeps, SeeEndKeeps DEF Angel
<1>2. CASE \E c \in Clients : Serve(c)
  BY <1>2, GiveUpKeeps, GetKeeps, TakeConnKeeps, CrashKeeps, CreateKeeps, ReportKeeps,
     UndoKeeps, CheckKeeps, SeeEOFKeeps, StopKeeps, ClearKeeps DEF Serve
<1>3. CASE UNCHANGED vars
  <2> USE <1>3 DEF vars, Inv
  <2>1. TypeOK' /\ Unasked' /\ Running' /\ Guarded'
    BY DEF TypeOK, Unasked, Running, Guarded, Kept
  <2>2. Designed' /\ Versions' /\ GuestSound' /\ Bounded'
    BY DEF Designed, Versions, GuestSound, Bounded
  <2> QED  BY <2>1, <2>2
<1> QED
  BY <1>1, <1>2, <1>3, BootKeeps, ConnectKeeps, ConnectFailedKeeps, ConnLostKeeps, KillKeeps,
     QuitKeeps, UserModifyKeeps, UserDeleteKeeps DEF Next

LEMMA Invariance == Spec => []Inv
BY InitInv, StepInv, PTL DEF Spec

(* The state keeps its types for all clients, machines and hardware.       *)
THEOREM TypeCorrect == Spec => []TypeOK
<1>1. Inv => TypeOK
  BY DEF Inv
<1> QED  BY <1>1, Invariance, PTL

(* Every guest that runs was designed from sound hardware.                 *)
THEOREM GuestsSound == Spec => []GuestSound
<1>1. Inv => GuestSound
  BY DEF Inv
<1> QED  BY <1>1, Invariance, PTL

(* The shim never takes a change of a machine's spec back.                 *)
THEOREM KeepsSpecs == Spec => ShimKeepsSpecs
<1> DEFINE Keeps == \A m \in Machines : api[m] # Nil => api'[m] # Nil /\ api'[m].spec = api[m].spec
           A == budget'["user"] = budget["user"] => Keeps
<1>1. ASSUME Inv, [Next]_vars PROVE [A]_vars
  <2>1. CASE UNCHANGED api
    BY <2>1
  <2>2. ASSUME NEW m \in Machines, UserModify(m) \/ UserDelete(m) PROVE A
    BY <1>1, <2>2, SpendType DEF Inv, TypeOK, Faults, UserModify, UserDelete
  <2>3. ASSUME NEW c \in Clients, Report(c) PROVE A
    <3>1. CASE UNCHANGED api
      BY <3>1
    <3>2. CASE Accepted(c) /\ Put(c, Reported(c))
      BY <1>1, <2>3, <3>2, ReportedIs, PutKeeps DEF Report
    <3> QED  BY <2>3, <3>1, <3>2 DEF Report
  <2>4. ASSUME NEW c \in Clients, Clear(c) PROVE A
    <3> DEFINE o == [copy[c] EXCEPT !.hw = Nil]
    <3>1. CASE UNCHANGED api
      BY <3>1
    <3>2. CASE Accepted(c) /\ Put(c, o)
      <4>1. copy[c] \in Object /\ o \in Object /\ o.rev = copy[c].rev /\ o.spec = copy[c].spec
        BY <1>1, <2>4 DEF Clear, Inv, TypeOK, Object
      <4> HIDE DEF o
      <4> QED  BY <1>1, <3>2, <4>1, PutKeeps
    <3> QED  BY <2>4, <3>1, <3>2 DEF Clear
  <2>5. CASE UNCHANGED vars
    BY <2>5 DEF vars
  <2>6. ASSUME NEW c \in Clients, Angel(c) \/ Serve(c) \/ Quit(c), ~Report(c), ~Clear(c)
        PROVE  UNCHANGED api
    BY <2>6 DEF Angel, Serve, Quit, Dial, Signal, SeeEnd, GiveUp, Get, TakeConn, Crash, End,
                Create, Undo, Check, SeeEOF, Stop
  <2>7. Boot \/ Connect \/ ConnectFailed \/ ConnLost \/ Kill => UNCHANGED api
    BY DEF Boot, Connect, ConnectFailed, ConnLost, Kill, End
  <2> HIDE DEF A
  <2> QED  BY <1>1, <2>1, <2>2, <2>3, <2>4, <2>5, <2>6, <2>7 DEF Next
<1> QED  BY <1>1, Invariance, PTL DEF Spec, ShimKeepsSpecs

-----------------------------------------------------------------------------
(* Guests that are left behind.                                            *)

Left == {c \in Clients : guest[c] # Nil /\ ~Kept(c)}

LEMMA LeftIs ==
  ASSUME Inv
  PROVE  /\ Left = {c \in Clients : guest[c] # Nil /\ thread[c] = "done"}
         /\ IsFiniteSet(Left) /\ Cardinality(Left) \in Nat
<1>1. Left = {c \in Clients : guest[c] # Nil /\ thread[c] = "done"}
  BY DEF Inv, Guarded, Kept, Left
<1>2. IsFiniteSet(Left)
  BY ClientsAssumption, FS_Subset DEF Left
<1> QED  BY <1>1, <1>2, FS_CardinalityType

(* Only the failure of IsActive leaves a guest behind, one at a time.      *)
LEMMA LeftStep ==
  ASSUME Inv, Inv', [Next]_vars
  PROVE  \/ Left' \subseteq Left /\ budget'["active"] <= budget["active"]
         \/ \E c \in Clients : Left' \subseteq Left \union {c}
                               /\ budget'["active"] = budget["active"] - 1
<1> DEFINE Behind(c) == guest[c] # Nil /\ thread[c] = "done"
<1>1. Left = {c \in Clients : Behind(c)}
  BY LeftIs
<1>2. Left' = {c \in Clients : Behind(c)'}
  BY DEF Inv, Guarded, Kept, Left
<1>3. budget["active"] \in Nat /\ "active" \in Faults
  BY DEF Inv, TypeOK, Faults
<1>4. ASSUME NEW f \in Faults, Spend(f)
      PROVE  budget'["active"] <= budget["active"]
  BY <1>4, SpendLess DEF Inv
<1>5. ASSUME NEW d \in Clients, Check(d)
      PROVE  \/ Left' \subseteq Left /\ budget'["active"] <= budget["active"]
             \/ Left' \subseteq Left \union {d} /\ budget'["active"] = budget["active"] - 1
  <2> USE <1>5 DEF Inv, TypeOK, Check, Fail, Goto
  <2>1. CASE guest[d] # Nil /\ Goto(d, "wait") /\ UNCHANGED <<copy, handle, budget>>
    BY <1>1, <1>2, <1>3, <2>1
  <2>2. CASE guest[d] = Nil /\ (Fail(d) \/ Goto(d, "clear")) /\ UNCHANGED budget
    BY <1>1, <1>2, <1>3, <2>2
  <2>3. CASE Fail(d) /\ Spend("active")
    <3>1. budget'["active"] = budget["active"] - 1
      BY <1>3, <2>3, SpendType
    <3> QED  BY <1>1, <1>2, <2>3, <3>1
  <2> QED  BY <2>1, <2>2, <2>3
<1>6. ASSUME NEW d \in Clients, Dial(d) \/ Signal(d) \/ SeeEnd(d) \/ Get(d) \/ TakeConn(d)
                                \/ Create(d) \/ SeeEOF(d) \/ Stop(d) \/ Quit(d)
      PROVE  Left' \subseteq Left /\ budget' = budget
  BY <1>1, <1>2, <1>6
     DEF Inv, TypeOK, Unasked, Dial, Signal, SeeEnd, Get, TakeConn, Create, SeeEOF, Stop, Destroys,
         Quit, Goto
<1>7. ASSUME NEW d \in Clients, GiveUp(d) \/ Undo(d) \/ Clear(d)
      PROVE  Left' \subseteq Left /\ budget' = budget
  BY <1>1, <1>2, <1>7
     DEF Inv, TypeOK, Guarded, Kept, GiveUp, Undo, Clear, Destroys, Fail, Goto
<1>8. ASSUME NEW d \in Clients, Report(d)
      PROVE  Left' \subseteq Left /\ budget' = budget
  BY <1>1, <1>2, <1>8 DEF Inv, TypeOK, Report, Rejected, Goto
<1>9. End \/ ConnLost => Left' = {}
  BY <1>2 DEF End, ConnLost, AutoDestroy
<1>10. ASSUME NEW d \in Clients, Crash(d)
       PROVE  Left' \subseteq Left /\ budget' = budget
  BY <1>9, <1>10 DEF Crash
<1>11. Kill \/ ConnLost => Left' \subseteq Left /\ budget'["active"] <= budget["active"]
  BY <1>4, <1>9 DEF Kill, ConnLost, Faults
<1>12. ASSUME NEW m \in Machines, UserModify(m) \/ UserDelete(m)
       PROVE  Left' \subseteq Left /\ budget'["active"] <= budget["active"]
  BY <1>1, <1>2, <1>4, <1>12 DEF UserModify, UserDelete, Faults
<1>13. Boot \/ Connect \/ ConnectFailed \/ UNCHANGED vars => Left' \subseteq Left /\ budget' = budget
  BY <1>1, <1>2 DEF Boot, Connect, ConnectFailed, vars
<1>14. budget' = budget => budget'["active"] <= budget["active"]
  BY <1>3
<1> HIDE DEF Behind
<1>15. CASE \E d \in Clients : Angel(d) \/ Serve(d) \/ Quit(d)
  BY <1>5, <1>6, <1>7, <1>8, <1>10, <1>14, <1>15 DEF Angel, Serve
<1> QED  BY <1>11, <1>12, <1>13, <1>14, <1>15 DEF Next

(* A guest without a goroutine that will stop it is one IsActive failed for. *)
THEOREM GuestsKept == Spec => []GuestKept
<1>1. Init => GuestKept
  <2> SUFFICES ASSUME Init PROVE GuestKept
    OBVIOUS
  <2>1. Left = {} /\ budget["active"] = ActiveErrors
    BY DEF Init, Left, Faults
  <2> QED  BY <2>1, ClientsAssumption, FS_EmptySet DEF GuestKept, Left, Failed
<1>2. Inv /\ Inv' /\ GuestKept /\ [Next]_vars => GuestKept'
  <2> SUFFICES ASSUME Inv, Inv', GuestKept, [Next]_vars PROVE GuestKept'
    OBVIOUS
  <2>1. /\ IsFiniteSet(Left) /\ Cardinality(Left) \in Nat
        /\ IsFiniteSet(Left') /\ Cardinality(Left') \in Nat
    <3>1. IsFiniteSet(Left')
      BY ClientsAssumption, FS_Subset DEF Left
    <3> QED  BY <3>1, LeftIs, FS_CardinalityType
  <2>2. Cardinality(Left) <= ActiveErrors - budget["active"]
    BY DEF GuestKept, Left, Failed
  <2>3. budget["active"] \in Nat /\ budget'["active"] \in Nat /\ ActiveErrors \in Nat
    BY ClientsAssumption DEF Inv, TypeOK, Faults
  <2>4. CASE Left' \subseteq Left /\ budget'["active"] <= budget["active"]
    <3>1. Cardinality(Left') <= Cardinality(Left)
      BY <2>1, <2>4, FS_Subset
    <3>2. Cardinality(Left') <= ActiveErrors - budget'["active"]
      BY <2>1, <2>2, <2>3, <2>4, <3>1
    <3> QED  BY <3>2 DEF GuestKept, Left, Failed
  <2>5. ASSUME NEW c \in Clients, Left' \subseteq Left \union {c},
               budget'["active"] = budget["active"] - 1
        PROVE  GuestKept'
    <3>1. /\ IsFiniteSet(Left \union {c}) /\ Cardinality(Left \union {c}) \in Nat
          /\ Cardinality(Left \union {c}) <= Cardinality(Left) + 1
      <4>1. CASE c \in Left
        BY <2>1, <4>1, Left \union {c} = Left
      <4>2. CASE c \notin Left
        BY <2>1, <4>2, FS_AddElement
      <4> QED  BY <4>1, <4>2
    <3>2. Cardinality(Left') <= Cardinality(Left \union {c})
      BY <2>5, <3>1, FS_Subset
    <3>3. Cardinality(Left') <= ActiveErrors - budget'["active"]
      BY <2>1, <2>2, <2>3, <2>5, <3>1, <3>2
    <3> QED  BY <3>3 DEF GuestKept, Left, Failed
  <2> QED  BY <2>4, <2>5, LeftStep
<1> QED  BY <1>1, <1>2, Invariance, PTL DEF Spec

(* What is asked for one machine costs another its guest only if it is     *)
(* hardware that is not safe.                                              *)
THEOREM GuestsIsolated == Spec => Isolated
<1> DEFINE Goes(c) == guest[c] # Nil /\ guest'[c] = Nil
           Why(c)  == \/ thread' = thread
                      \/ thread[c] \in {"undo", "stop"} /\ shim' = "up"
                      \/ budget' # budget
                      \/ \E d \in Clients : copy[d] # Nil /\ ~Safe(copy[d].spec)
<1>1. ASSUME Inv, [Next]_vars, NEW c \in Clients, Goes(c)
      PROVE  Why(c)
  <2>1. CASE UNCHANGED guest
    BY <1>1, <2>1
  <2>2. CASE ConnLost \/ Kill
    <3>1. \A f \in Faults : Spend(f) => budget'[f] = budget[f] - 1 /\ budget[f] \in Nat
      BY <1>1, SpendType DEF Inv, TypeOK
    <3>2. Spend("loss") \/ Spend("kill") => budget' # budget
      BY <3>1 DEF Faults
    <3> QED  BY <2>2, <3>2 DEF ConnLost, Kill
  <2>3. ASSUME NEW d \in Clients, Crash(d)
        PROVE  Why(c)
    <3>1. copy[d] \in Object /\ copy[d] # Nil
      BY <1>1, <2>3, NilAssumption DEF Inv, TypeOK, Crash
    <3>2. copy[d].spec \in Hardware
      BY <3>1 DEF Object
    <3>3. ~Safe(copy[d].spec)
      BY <2>3, <3>2, PanicUnsafe DEF Crash
    <3> QED  BY <3>1, <3>3
  <2>4. ASSUME NEW d \in Clients, Undo(d) \/ Stop(d)
        PROVE  Why(c)
    <3>1. c = d
      BY <1>1, <2>4 DEF Inv, TypeOK, Undo, Stop, Destroys
    <3> QED  BY <1>1, <2>4, <3>1 DEF Inv, Running, Undo, Stop
  <2>5. ASSUME NEW d \in Clients, Quit(d)
        PROVE  Why(c)
    BY <2>5 DEF Quit
  <2>6. ASSUME NEW d \in Clients, Create(d)
        PROVE  Why(c)
    <3>1. copy[d] \in Object
      BY <1>1, <2>6 DEF Inv, TypeOK, Create
    <3>2. copy[d].spec # Nil
      BY <3>1, NilAssumption DEF Object
    <3>3. guest'[c] # Nil
      BY <1>1, <2>6, <3>2 DEF Inv, TypeOK, Create
    <3> QED  BY <1>1, <3>3
  <2>7. ASSUME NEW d \in Clients, Angel(d) \/ Serve(d), ~Crash(d), ~Undo(d), ~Stop(d), ~Create(d)
        PROVE  UNCHANGED guest
    BY <2>7 DEF Angel, Serve, Dial, Signal, SeeEnd, GiveUp, Get, TakeConn, Report, Check, SeeEOF,
                Clear
  <2>8. /\ Boot \/ Connect \/ ConnectFailed \/ UNCHANGED vars => UNCHANGED guest
        /\ \A m \in Machines : UserModify(m) \/ UserDelete(m) => UNCHANGED guest
    BY DEF Boot, Connect, ConnectFailed, vars, UserModify, UserDelete
  <2> HIDE DEF Goes, Why
  <2> QED  BY <1>1, <2>1, <2>2, <2>3, <2>4, <2>5, <2>6, <2>7, <2>8 DEF Next
<1>2. Inv /\ [Next]_vars => [\A c \in Clients : Goes(c) => Why(c)]_vars
  BY <1>1
<1> QED  BY <1>2, Invariance, PTL DEF Spec, Isolated

(* The status shows the hardware of the guest that is waited for, if there *)
(* is one pod for a machine; with more there is not, see the README.       *)
THEOREM HardwareShown ==
  ASSUME \A c, d \in Clients : MachineOf[c] = MachineOf[d] => c = d
  PROVE  Spec => []ShownHardware
<1>1. Init => ShownHardware
  BY DEF Init, ShownHardware
<1>2. ASSUME Inv, ShownHardware, [Next]_vars
      PROVE  ShownHardware'
  <2> DEFINE Waits(c) == thread[c] \in {"check", "wait"} /\ guest[c] # Nil
             Shows(c) == api[MachineOf[c]] # Nil => api[MachineOf[c]].hw = guest[c]
  <2> SUFFICES ASSUME NEW c \in Clients, Waits(c)' PROVE Shows(c)'
    BY DEF ShownHardware
  <2>1. MachineOf[c] \in Machines
    BY ClientsAssumption
  <2>2. Waits(c) => Shows(c)
    BY <1>2 DEF ShownHardware
  <2>3. CASE Waits(c) /\ guest'[c] = guest[c] /\ api'[MachineOf[c]] = api[MachineOf[c]]
    BY <2>2, <2>3
  <2>4. CASE Report(c)
    <3>1. thread[c] = "report" /\ guest' = guest /\ guest[c] # Nil
      BY <2>4 DEF Report
    <3>2. Accepted(c) /\ Put(c, Reported(c))
      BY <1>2, <2>4, <3>1 DEF Report, Rejected, Goto, Inv, TypeOK
    <3>3. api'[MachineOf[c]] = Stored(c, Reported(c)) /\ Stored(c, Reported(c)).hw = copy[c].spec
      BY <1>2, <3>1, <3>2, ReportedIs, PutKeeps
    <3>4. guest[c] = copy[c].spec
      BY <1>2, <3>1 DEF Inv, Designed
    <3> QED  BY <3>1, <3>3, <3>4
  <2>5. ASSUME NEW d \in Clients, d # c, Report(d) \/ Clear(d)
        PROVE  Waits(c) /\ guest'[c] = guest[c] /\ api'[MachineOf[c]] = api[MachineOf[c]]
    <3>1. MachineOf[d] # MachineOf[c]
      BY <2>5
    <3>2. thread'[c] = thread[c] /\ guest' = guest
      BY <1>2, <2>5 DEF Inv, TypeOK, Report, Clear, Rejected, Fail, Goto
    <3>3. api'[MachineOf[c]] = api[MachineOf[c]]
      BY <1>2, <2>1, <2>5, <3>1 DEF Inv, TypeOK, Report, Clear, Put
    <3> QED  BY <3>2, <3>3
  <2>6. ~Clear(c)
    BY <1>2 DEF Inv, TypeOK, Clear, Fail, Goto
  <2>7. ASSUME NEW m \in Machines, UserModify(m) \/ UserDelete(m)
        PROVE  Shows(c)'
    <3>1. Waits(c) /\ guest' = guest
      BY <2>7 DEF UserModify, UserDelete
    <3>2. api[MachineOf[c]] # Nil => api[MachineOf[c]] \in Object
      BY <1>2, <2>1 DEF Inv, TypeOK
    <3>3. CASE m # MachineOf[c]
      <4>1. api'[MachineOf[c]] = api[MachineOf[c]]
        BY <1>2, <2>1, <2>7, <3>3 DEF Inv, TypeOK, UserModify, UserDelete
      <4> QED  BY <2>2, <3>1, <4>1
    <3>4. CASE m = MachineOf[c] /\ UserDelete(m)
      BY <1>2, <3>4 DEF Inv, TypeOK, UserDelete
    <3>5. CASE m = MachineOf[c] /\ UserModify(m)
      <4>1. api[m] # Nil /\ api'[m].hw = api[m].hw
        BY <1>2, <3>2, <3>5 DEF Inv, TypeOK, UserModify, Object
      <4> QED  BY <2>2, <3>1, <3>5, <4>1
    <3> QED  BY <2>7, <3>3, <3>4, <3>5
  <2>8. ASSUME NEW d \in Clients, Angel(d) \/ Serve(d) \/ Quit(d), ~Report(d), ~Clear(d)
        PROVE  Waits(c) /\ guest'[c] = guest[c] /\ api' = api
    BY <1>2, <2>8
       DEF Inv, TypeOK, Unasked, Angel, Serve, Quit, Dial, Signal, SeeEnd, GiveUp, Get, TakeConn,
           Crash, End, AutoDestroy, Create, Undo, Check, SeeEOF, Stop, Destroys, Fail, Goto
  <2>9. ASSUME Boot \/ Connect \/ ConnectFailed \/ ConnLost \/ Kill \/ UNCHANGED vars
        PROVE  Waits(c) /\ guest'[c] = guest[c] /\ api' = api
    BY <2>9 DEF Boot, Connect, ConnectFailed, ConnLost, Kill, End, AutoDestroy, vars
  <2> HIDE DEF Waits, Shows
  <2> QED  BY <1>2, <2>3, <2>4, <2>5, <2>6, <2>7, <2>8, <2>9 DEF Next
<1> QED  BY <1>1, <1>2, Invariance, PTL DEF Spec

-----------------------------------------------------------------------------
(* The connection.                                                         *)

Connection == INSTANCE Link WITH proc <- shim

(* The shim's connection is the one the connector promises (Link): a new   *)
(* one only while there is none, none given up before it is lost, whenever *)
(* the shim is killed or panics.                                           *)
THEOREM ConnectionIsLink == Spec => Connection!Spec
<1>1. Init => Connection!Init
  BY DEF Init, Connection!Init
<1>2. Inv /\ [Next]_vars => [Connection!Next]_<<shim, link>>
  <2> SUFFICES ASSUME Inv, [Next]_vars
               PROVE  [Connection!Next]_<<shim, link>>
    OBVIOUS
  <2> USE DEF Connection!Next, Connection!Start, Connection!End, Connection!Ready,
              Connection!Lose, Connection!Failed
  <2>1. CASE Boot \/ Connect \/ ConnectFailed \/ ConnLost
    BY <2>1 DEF Boot, Connect, ConnectFailed, ConnLost
  <2>2. CASE Kill
    BY <2>2 DEF Kill, End
  <2>3. ASSUME NEW c \in Clients, Crash(c)
        PROVE  Connection!End
    <3>1. shim = "up"
      BY <2>3 DEF Inv, Running, Crash
    <3> QED  BY <2>3, <3>1 DEF Crash, End
  <2>4. ASSUME NEW c \in Clients, Angel(c) \/ (Serve(c) /\ ~Crash(c)) \/ Quit(c)
        PROVE  UNCHANGED <<shim, link>>
    BY <2>4 DEF Angel, Dial, Signal, SeeEnd, Serve, GiveUp, Get, TakeConn, Create, Report, Undo,
                Check, SeeEOF, Stop, Clear, Quit
  <2>5. ASSUME NEW m \in Machines, UserModify(m) \/ UserDelete(m)
        PROVE  UNCHANGED <<shim, link>>
    BY <2>5 DEF UserModify, UserDelete
  <2>6. CASE UNCHANGED vars
    BY <2>6 DEF vars
  <2>7. CASE \E c \in Clients : Serve(c)
    BY <2>3, <2>4, <2>7
  <2> QED  BY <2>1, <2>2, <2>4, <2>5, <2>6, <2>7 DEF Next
<1> QED  BY <1>1, <1>2, Invariance, PTL DEF Spec, Connection!Spec

=============================================================================
