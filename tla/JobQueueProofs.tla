--------------------------- MODULE JobQueueProofs ---------------------------
(***************************************************************************)
(* Proofs about JobQueue, for every set of workers and every capacity.     *)
(***************************************************************************)
EXTENDS JobQueue, FiniteSetTheorems, TLAPS

(* Moving a worker between the sets of workers moves one unit between      *)
(* their cardinalities.                                                    *)
LEMMA Moves ==
  ASSUME NEW S, IsFiniteSet(S), NEW x
  PROVE  /\ IsFiniteSet(S \union {x}) /\ IsFiniteSet(S \ {x})
         /\ Cardinality(S) \in Nat
         /\ x \notin S => Cardinality(S \union {x}) = Cardinality(S) + 1
         /\ x \in S => Cardinality(S \ {x}) = Cardinality(S) - 1
BY FS_AddElement, FS_RemoveElement, FS_CardinalityType

(* The channels keep to their capacity and every worker to one job.        *)
THEOREM TypeCorrect == Spec => []TypeOK
<1>1. Init => TypeOK
  BY QueueAssumption DEF Init, TypeOK
<1>2. TypeOK /\ [Next]_vars => TypeOK'
  <2> SUFFICES ASSUME TypeOK, [Next]_vars PROVE TypeOK'
    OBVIOUS
  <2> USE QueueAssumption DEF TypeOK, Room
  <2>1. CASE StartHandler
    BY <2>1 DEF StartHandler
  <2>2. CASE Push
    BY <2>2 DEF Push
  <2>3. CASE StartRefresh
    BY <2>3 DEF StartRefresh
  <2>4. CASE Finish
    BY <2>4 DEF Finish
  <2>5. CASE EndRefresh
    BY <2>5 DEF EndRefresh
  <2>6. ASSUME NEW w \in Workers, Take(w) PROVE TypeOK'
    BY <2>6 DEF Take
  <2>7. ASSUME NEW w \in Workers, Process(w) PROVE TypeOK'
    BY <2>7 DEF Process
  <2>8. ASSUME NEW w \in Workers, HandOver(w) PROVE TypeOK'
    BY <2>8 DEF HandOver
  <2>9. CASE UNCHANGED vars
    BY <2>9 DEF vars
  <2> QED
    BY <2>1, <2>2, <2>3, <2>4, <2>5, <2>6, <2>7, <2>8, <2>9 DEF Next
<1> QED
  BY <1>1, <1>2, PTL DEF Spec

LEMMA WorkersFinite ==
  ASSUME TypeOK
  PROVE  IsFiniteSet(busy) /\ IsFiniteSet(handing)
BY QueueAssumption, FS_Subset DEF TypeOK

(* No job is lost or finished twice, with any number of workers: what is   *)
(* outstanding is in a channel or with a worker.                           *)
THEOREM JobsConserved == Spec => []Conservation
<1>1. Init => Conservation
  BY FS_EmptySet DEF Init, Conservation, Outstanding
<1>2. TypeOK /\ Conservation /\ [Next]_vars => Conservation'
  <2> SUFFICES ASSUME TypeOK, Conservation, [Next]_vars PROVE Conservation'
    OBVIOUS
  <2> USE DEF Conservation, Outstanding
  <2>0. IsFiniteSet(busy) /\ IsFiniteSet(handing)
    BY WorkersFinite
  <2>c. /\ Cardinality(busy) \in Int /\ Cardinality(handing) \in Int
        /\ pending \in Int /\ completed \in Int /\ issued \in Int /\ finished \in Int
    BY <2>0, FS_CardinalityType, QueueAssumption DEF TypeOK
  <2>1. CASE StartHandler
    BY <2>1 DEF StartHandler
  <2>2. CASE Push
    <3>1. /\ pending' = pending + 1 /\ issued' = issued + 1
          /\ UNCHANGED <<busy, handing, completed, finished>>
      BY <2>2 DEF Push
    <3> QED
      BY <3>1, <2>c
  <2>3. CASE StartRefresh
    BY <2>3 DEF StartRefresh
  <2>4. CASE Finish
    <3>1. /\ completed' = completed - 1 /\ finished' = finished + 1
          /\ UNCHANGED <<pending, busy, handing, issued>>
      BY <2>4 DEF Finish
    <3> QED
      BY <3>1, <2>c
  <2>5. CASE EndRefresh
    BY <2>5 DEF EndRefresh
  <2>6. ASSUME NEW w \in Workers, Take(w) PROVE Conservation'
    <3>1. Cardinality(busy') = Cardinality(busy) + 1
      BY <2>0, <2>6, Moves DEF Take
    <3> QED
      BY <2>6, <2>c, <3>1 DEF Take
  <2>7. ASSUME NEW w \in Workers, Process(w) PROVE Conservation'
    <3>1. Cardinality(busy') = Cardinality(busy) - 1
      BY <2>0, <2>7, Moves DEF Process
    <3>2. w \notin handing
      BY <2>7 DEF Process, TypeOK
    <3>3. Cardinality(handing') = Cardinality(handing) + 1
      BY <2>0, <2>7, <3>2, Moves DEF Process
    <3> QED
      BY <2>7, <2>c, <3>1, <3>3 DEF Process
  <2>8. ASSUME NEW w \in Workers, HandOver(w) PROVE Conservation'
    <3>1. Cardinality(handing') = Cardinality(handing) - 1
      BY <2>0, <2>8, Moves DEF HandOver
    <3>2. /\ completed' = completed + 1
          /\ UNCHANGED <<pending, busy, issued, finished>>
      BY <2>8 DEF HandOver
    <3> QED
      BY <2>c, <3>1, <3>2
  <2>9. CASE UNCHANGED vars
    BY <2>9 DEF vars
  <2> QED
    BY <2>1, <2>2, <2>3, <2>4, <2>5, <2>6, <2>7, <2>8, <2>9 DEF Next
<1> QED
  BY <1>1, <1>2, TypeCorrect, PTL DEF Spec

(* The only deadlock of the goroutines: both channels full, every worker   *)
(* with a job it cannot send back and the main loop with one more to queue.*)
(* So 2 * Cap + Cardinality(Workers) outstanding jobs, 203 as the code     *)
(* ships, is exactly where the daemon starts to hang.                      *)
THEOREM StuckBound == Spec => []StuckOnlyAtBound
<1>1. TypeOK /\ Conservation => StuckOnlyAtBound
  <2> SUFFICES ASSUME TypeOK, Conservation, Stuck
               PROVE  Outstanding = Bound /\ todo > 0
    BY DEF StuckOnlyAtBound
  <2>1. busy = {}
    BY DEF TypeOK, Stuck
  <2>2. Cardinality(busy) = 0
    BY <2>1, FS_EmptySet
  <2>3. pending = Cap /\ completed = Cap /\ handing = Workers /\ todo > 0
    BY QueueAssumption DEF TypeOK, Stuck, Room
  <2>4. Cardinality(Workers) \in Nat
    BY QueueAssumption, FS_CardinalityType
  <2> QED
    BY <2>2, <2>3, <2>4, QueueAssumption DEF Conservation, Bound
<1> QED
  BY <1>1, TypeCorrect, JobsConserved, PTL

(* While a handler queues, its remaining jobs and the outstanding ones     *)
(* stay within Limit.                                                      *)
WithinLimit == Outstanding + todo <= Limit

LEMMA LimitKept == Spec => []WithinLimit
<1>1. Init => WithinLimit
  BY QueueAssumption DEF Init, WithinLimit, Outstanding
<1>2. TypeOK /\ WithinLimit /\ [Next]_vars => WithinLimit'
  <2> SUFFICES ASSUME TypeOK, WithinLimit, [Next]_vars PROVE WithinLimit'
    OBVIOUS
  <2> USE QueueAssumption DEF WithinLimit, Outstanding, TypeOK
  <2>1. CASE StartHandler
    BY <2>1 DEF StartHandler
  <2>2. CASE Push
    BY <2>2 DEF Push
  <2>3. CASE StartRefresh \/ EndRefresh
    BY <2>3 DEF StartRefresh, EndRefresh
  <2>4. CASE Finish
    BY <2>4 DEF Finish
  <2>5. ASSUME NEW w \in Workers, Take(w) \/ Process(w) \/ HandOver(w) PROVE WithinLimit'
    BY <2>5 DEF Take, Process, HandOver
  <2>6. CASE UNCHANGED vars
    BY <2>6 DEF vars
  <2> QED
    BY <2>1, <2>2, <2>3, <2>4, <2>5, <2>6 DEF Next
<1> QED
  BY <1>1, <1>2, TypeCorrect, PTL DEF Spec

(* A daemon that never has more than 2 * Cap + Cardinality(Workers) jobs   *)
(* to do at once never hangs.                                              *)
THEOREM FewJobsNeverStuck ==
  ASSUME Limit <= Bound
  PROVE  Spec => []NeverStuck
<1>1. Cardinality(Workers) \in Nat
  BY QueueAssumption, FS_CardinalityType
<1>2. TypeOK /\ WithinLimit /\ StuckOnlyAtBound => NeverStuck
  BY <1>1, QueueAssumption
  DEF TypeOK, WithinLimit, StuckOnlyAtBound, NeverStuck, Bound, Outstanding
<1> QED
  BY <1>2, TypeCorrect, LimitKept, StuckBound, PTL

=============================================================================
