------------------------ MODULE ImageRepositoryProofs ------------------------
(***************************************************************************)
(* Proofs about ImageRepository, for every set of names, sizes and workers *)
(* and every bound on the faults.                                          *)
(***************************************************************************)
EXTENDS ImageRepository, FiniteSetTheorems, SequenceTheorems, TLAPS

(* A job of a file that r.files still has finds it there: Finish updates   *)
(* the entry it was queued for and never an entry that is not there.       *)
MappedJobs == {j \in Job : j.mapped => files[j.name] # Nil}
JobsMapped ==
  /\ pending \in Seq(MappedJobs) /\ completed \in Seq(MappedJobs)
  /\ working \in [Workers -> MappedJobs \union {Nil}]

(* A worker that has run a job still holds it.                             *)
RanHold == \A w \in ran : working[w] # Nil

(* A daemon that has not loaded its files has no jobs.                     *)
NoJobsYet == proc \in {"down", "booted"} =>
  pending = <<>> /\ completed = <<>> /\ \A w \in Workers : working[w] = Nil

IndInv == TypeOK /\ JobsMapped /\ RanHold /\ NoJobsYet

-----------------------------------------------------------------------------
(* Sequences.                                                              *)

(* A sequence mapped element by element is a sequence.                     *)
LEMMA MapSeq ==
  ASSUME NEW A, NEW B, NEW q \in Seq(A), NEW f, DOMAIN f = DOMAIN q,
         f = [i \in DOMAIN q |-> f[i]], \A i \in DOMAIN q : f[i] \in B
  PROVE  f \in Seq(B) /\ Len(f) = Len(q)
<1>1. DOMAIN q = 1..Len(q) /\ Len(q) \in Nat
  OBVIOUS
<1>2. f \in [1..Len(q) -> B]
  BY <1>1
<1> QED
  BY <1>1, <1>2

LEMMA SeqOfMore ==
  ASSUME NEW A, NEW B, A \subseteq B, NEW q \in Seq(A)
  PROVE  q \in Seq(B)
OBVIOUS

(* An order of a finite set is a sequence of its elements.                 *)
LEMMA OrderSeq ==
  ASSUME NEW S, IsFiniteSet(S), NEW order \in SetToSeqs(S)
  PROVE  order \in Seq(S)
<1>1. Cardinality(S) \in Nat
  BY FS_CardinalityType
<1>2. order \in [1..Cardinality(S) -> S]
  BY DEF SetToSeqs
<1> QED
  BY <1>1, <1>2

(* ... each at one place.                                                  *)
LEMMA OrderAll ==
  ASSUME NEW S, IsFiniteSet(S), NEW order \in SetToSeqs(S)
  PROVE  /\ \A x \in S : \E i \in DOMAIN order : order[i] = x
         /\ \A i, k \in DOMAIN order : order[i] = order[k] => i = k
<1> DEFINE D == 1..Cardinality(S)
<1>1. Cardinality(S) \in Nat
  BY FS_CardinalityType
<1>2. order \in [D -> S] /\ \A i, k \in D : order[i] = order[k] => i = k
  BY DEF SetToSeqs
<1>3. Cardinality(D) = Cardinality(S)
  BY <1>1, FS_Interval
<1>4. order \in Injection(D, S)
  BY <1>2 DEF Injection, IsInjective
<1> HIDE DEF D
<1>5. order \in Surjection(D, S)
  BY <1>3, <1>4, FS_Injection
<1>6. \A x \in S : \E i \in D : order[i] = x
  BY <1>5 DEF Surjection
<1> QED  BY <1>2, <1>6

-----------------------------------------------------------------------------
(* The API server.                                                         *)

IsObjects(objs) == DOMAIN objs \subseteq Names /\ \A n \in DOMAIN objs : objs[n] \in Object

LEMMA WrittenFinite ==
  ASSUME NEW objs, IsObjects(objs)
  PROVE  IsFiniteSet(Written(objs)) /\ Written(objs) \subseteq DOMAIN objs
BY ConstantsAssumption, FS_Subset DEF IsObjects, Written, Accepted

LEMMA StoredType ==
  ASSUME TypeOK, NEW objs, IsObjects(objs), NEW n \in DOMAIN objs
  PROVE  /\ Stored(objs, n) \in Object
         /\ Stored(objs, n).spec = objs[n].spec
<1>1. n \in Names /\ objs[n] \in Object /\ revs[n] \in Nat
  BY DEF IsObjects, TypeOK
<1>2. ASSUME NEW r \in Nat
      PROVE  [objs[n] EXCEPT !.rev = r] \in Object /\ [objs[n] EXCEPT !.rev = r].spec = objs[n].spec
  BY <1>1 DEF Object, ObjectOf
<1> QED
  BY <1>1, <1>2 DEF Stored

LEMMA PutType ==
  ASSUME TypeOK, NEW objs, IsObjects(objs), Put(objs)
  PROVE  api' \in [Names -> Object \union {Nil}] /\ revs' \in [Names -> Nat] /\ UNCHANGED server
<1>1. \A n \in Written(objs) : n \in DOMAIN objs /\ Stored(objs, n) \in Object
  BY WrittenFinite, StoredType
<1> QED
  BY <1>1 DEF Put, TypeOK

LEMMA NotifyType ==
  ASSUME TypeOK, NEW objs, IsObjects(objs), PutAndNotify(objs)
  PROVE  /\ api' \in [Names -> Object \union {Nil}] /\ revs' \in [Names -> Nat]
         /\ watch' \in Seq(Event) /\ UNCHANGED server
<1>1. PICK order \in SetToSeqs(Written(objs)) :
        watch' = watch \o [i \in DOMAIN order |->
                             NewEvent("Modified", order[i], Stored(objs, order[i]))]
  BY DEF PutAndNotify
<1>2. order \in Seq(Names) /\ \A i \in DOMAIN order : order[i] \in DOMAIN objs
  BY OrderSeq, WrittenFinite DEF IsObjects
<1> DEFINE ev == [i \in DOMAIN order |-> NewEvent("Modified", order[i], Stored(objs, order[i]))]
<1>3. \A i \in DOMAIN order : ev[i] \in Event
  BY <1>2, StoredType DEF NewEvent, Event, IsObjects
<1>4. ev \in Seq(Event)
  BY <1>2, <1>3, MapSeq
<1>5. watch' \in Seq(Event)
  BY <1>1, <1>4 DEF TypeOK
<1> QED
  BY <1>5, PutType DEF PutAndNotify

LEMMA OpenWatchType ==
  ASSUME TypeOK, OpenWatch
  PROVE  watch' \in Seq(Event)
<1>1. PICK order \in SetToSeqs(Present) :
        watch' = [i \in DOMAIN order |-> NewEvent("Added", order[i], api[order[i]])]
  BY DEF OpenWatch
<1>2. IsFiniteSet(Present)
  BY ConstantsAssumption, FS_Subset DEF Present
<1>3. order \in Seq(Names) /\ \A i \in DOMAIN order : order[i] \in Present
  BY <1>2, OrderSeq DEF Present
<1>4. \A i \in DOMAIN order : watch'[i] \in Event
  BY <1>1, <1>3 DEF NewEvent, Event, Present, TypeOK
<1> QED
  BY <1>1, <1>3, <1>4, MapSeq

-----------------------------------------------------------------------------
(* The end of the daemon.                                                  *)

LEMMA ForgetInv ==
  ASSUME IndInv, Forget,
         api' \in [Names -> Object \union {Nil}], revs' \in [Names -> Nat],
         UNCHANGED server, vols' \in [Names -> Sizes \union {Nil}], budget' \in [Faults -> Nat]
  PROVE  IndInv'
<1>1. TypeOK'
  BY DEF IndInv, TypeOK, Forget, NoLoads, Handles
<1>2. JobsMapped' /\ RanHold' /\ NoJobsYet'
  BY DEF JobsMapped, RanHold, NoJobsYet, Forget
<1> QED
  BY <1>1, <1>2 DEF IndInv

LEMMA PanicInv ==
  ASSUME IndInv, Panic
  PROVE  IndInv'
BY ForgetInv DEF Panic, IndInv, TypeOK

LEMMA PanicInLoopInv ==
  ASSUME IndInv, NEW objs, NEW fine, NEW queued, PanicInLoop(objs, fine, queued),
         fine \subseteq DOMAIN objs, queued \subseteq fine, IsObjects(objs),
         \A n \in DOMAIN objs : objs[n].spec # Elsewhere
  PROVE  IndInv'
<1>1. PICK S \in SUBSET fine : Put([n \in S |-> objs[n]])
  BY DEF PanicInLoop
<1>2. IsObjects([n \in S |-> objs[n]])
  BY DEF IsObjects
<1>3. api' \in [Names -> Object \union {Nil}] /\ revs' \in [Names -> Nat]
  BY <1>1, <1>2, PutType DEF IndInv
<1>4. vols' \in [Names -> Sizes \union {Nil}]
  <2>1. PICK made \in SUBSET queued :
          vols' = [n \in Names |-> IF n \in made THEN objs[n].spec ELSE vols[n]]
    BY DEF PanicInLoop
  <2>2. \A n \in made : objs[n].spec \in Sizes
    BY DEF IsObjects, Object, ObjectOf
  <2> QED
    BY <2>1, <2>2 DEF IndInv, TypeOK
<1>5. UNCHANGED server
  BY <1>1 DEF PanicInLoop, Put
<1> QED
  BY <1>3, <1>4, <1>5, ForgetInv DEF PanicInLoop, IndInv, TypeOK

-----------------------------------------------------------------------------
(* Objects, files and jobs.                                                *)

LEMMA OursType ==
  ASSUME NEW o \in Object, o.spec # Elsewhere
  PROVE  o \in OurObject
BY DEF Object, OurObject, ObjectOf

LEMMA ObjectType ==
  ASSUME NEW o \in OurObject
  PROVE  o \in Object /\ o.spec \in Sizes /\ o.spec # Elsewhere
BY ConstantsAssumption DEF Object, OurObject, ObjectOf

LEMMA PhaseType ==
  ASSUME NEW o \in Object, NEW p \in Phases
  PROVE  [o EXCEPT !.phase = p] \in Object /\ [o EXCEPT !.phase = p].spec = o.spec
BY DEF Object, ObjectOf

LEMMA CapType ==
  ASSUME NEW o \in Object, NEW c \in Sizes \union {0}
  PROVE  [o EXCEPT !.cap = c] \in Object /\ [o EXCEPT !.cap = c].spec = o.spec
BY DEF Object, ObjectOf

LEMMA AnswerType ==
  ASSUME TypeOK, NEW objs, IsObjects(objs), NEW n \in DOMAIN objs, objs[n].spec # Elsewhere,
         NEW otherwise \in {Nil, objs[n]}
  PROVE  Answer(objs, n, otherwise) \in OurObject \union {otherwise}
BY StoredType, OursType DEF Answer

LEMMA JobTypes ==
  ASSUME NEW n \in Names, NEW h \in {"live", "dead"}, NEW s \in Sizes
  PROVE  /\ CreateJob(n, h, s) \in Job /\ CreateJob(n, h, s).name = n
         /\ ResizeJob(n, h, s) \in Job /\ ~ResizeJob(n, h, s).mapped
         /\ DeleteJob(n, h) \in Job /\ ~DeleteJob(n, h).mapped
BY DEF CreateJob, ResizeJob, DeleteJob, Job, JobOf, Handles

LEMMA DeleteJobType ==
  ASSUME NEW n \in Names, NEW h \in {"live", "dead"}
  PROVE  DeleteJob(n, h) \in Job /\ ~DeleteJob(n, h).mapped
BY DEF DeleteJob, Job, JobOf, Handles

LEMMA UnmapType ==
  ASSUME NEW j \in Job, NEW n \in Names
  PROVE  /\ Unmap(j, n) \in Job /\ Unmap(j, n) # Nil /\ Unmap(j, n).name = j.name
         /\ Unmap(j, n).mapped => j.mapped /\ j.name # n
BY NilAssumption DEF Unmap, Job, JobOf

LEMMA SeverType ==
  ASSUME NEW j \in Job
  PROVE  /\ SeverJob(j) \in Job /\ SeverJob(j) # Nil
         /\ SeverJob(j).name = j.name /\ SeverJob(j).mapped = j.mapped
BY NilAssumption DEF SeverJob, Sever, Job, JobOf, Handles

LEMMA SpendType ==
  ASSUME TypeOK, NEW f \in Faults, Spend(f)
  PROVE  budget' \in [Faults -> Nat]
<1>1. budget[f] - 1 \in Nat
  BY DEF Spend, TypeOK
<1> QED
  BY <1>1 DEF Spend, TypeOK

LEMMA FileType ==
  ASSUME NEW r \in OurObject \union {Nil}, NEW v \in Handles
  PROVE  [res |-> r, vol |-> v] \in File /\ [res |-> r, vol |-> v] # Nil
BY NilAssumption DEF File

-----------------------------------------------------------------------------
(* One lemma per action.                                                   *)

LEMMA BootInv ==
  ASSUME IndInv, Boot PROVE IndInv'
<1>1. watch' \in Seq(Event)
  BY OpenWatchType DEF Boot, IndInv
<1> QED
  BY <1>1 DEF Boot, IndInv, TypeOK, JobsMapped, MappedJobs, RanHold, NoJobsYet, linkVars, queueVars

LEMMA LoadFileResourcesInv ==
  ASSUME IndInv, LoadFileResources PROVE IndInv'
<1>1. ASSUME NEW n \in Names, Ours(n)
      PROVE  [res |-> api[n], vol |-> "nil"] \in File
  BY <1>1, OursType, FileType DEF Ours, IndInv, TypeOK, Handles
<1>2. files' \in [Names -> File \union {Nil}]
  BY <1>1 DEF LoadFileResources
<1> QED
  BY <1>2 DEF LoadFileResources, IndInv, TypeOK, JobsMapped, MappedJobs, RanHold, NoJobsYet, storeVars, linkVars, queueVars

LEMMA AddFileInv ==
  ASSUME IndInv, NEW e \in Event, proc = "run", watch # <<>>, AddFile(e)
  PROVE  IndInv'
<1> USE DEF IndInv
<1> DEFINE n    == e.name
           new  == e.obj.spec # Elsewhere /\ files[n] = Nil
           objs == [m \in {n} |-> [e.obj EXCEPT !.phase = "Pending"]]
<1>1. CASE ~new /\ Ignore
  BY <1>1 DEF Ignore, TypeOK, JobsMapped, MappedJobs, RanHold, NoJobsYet, linkVars, queueVars
<1>2. CASE Panic
  BY <1>2, PanicInv
<1>3. CASE /\ new /\ pool # "nil"
           /\ pending' = Append(pending, CreateJob(n, pool, e.obj.spec))
           /\ Put(objs)
           /\ watch' = Tail(watch) \o
                (IF n \in Written(objs) THEN <<NewEvent("Modified", n, Stored(objs, n))>> ELSE <<>>)
           /\ files' = [files EXCEPT ![n] = [res |-> Answer(objs, n, objs[n]), vol |-> "nil"]]
           /\ UNCHANGED <<vols, proc, linkVars, working, ran, completed, budget>>
  <2>1. n \in Names /\ e.obj \in Object /\ e.obj.spec \in Sizes
    BY <1>3 DEF Event, Object, ObjectOf
  <2>2. objs[n] \in Object /\ objs[n].spec = e.obj.spec
    BY <2>1, PhaseType DEF Phases
  <2>3. IsObjects(objs)
    BY <2>1, <2>2 DEF IsObjects
  <2>4. Answer(objs, n, objs[n]) \in OurObject
    BY <1>3, <2>2, <2>3, AnswerType, OursType
  <2>5. files' \in [Names -> File \union {Nil}] /\ files'[n] # Nil
        /\ \A m \in Names : files[m] # Nil => files'[m] # Nil
    BY <1>3, <2>1, <2>4, FileType DEF TypeOK, Handles
  <2>6. api' \in [Names -> Object \union {Nil}] /\ revs' \in [Names -> Nat] /\ UNCHANGED server
    BY <1>3, <2>3, PutType
  <2>7. Stored(objs, n) \in Object
    BY <2>3, StoredType
  <2>8. watch' \in Seq(Event)
    <3>1. NewEvent("Modified", n, Stored(objs, n)) \in Event
      BY <2>1, <2>7 DEF NewEvent, Event
    <3>2. Tail(watch) \in Seq(Event)
      BY DEF TypeOK
    <3> QED
      BY <1>3, <3>1, <3>2
  <2>9. MappedJobs \subseteq MappedJobs'
    BY <2>5 DEF MappedJobs, Job, JobOf
  <2>10. CreateJob(n, pool, e.obj.spec) \in MappedJobs'
    <3>1. CreateJob(n, pool, e.obj.spec) \in Job /\ CreateJob(n, pool, e.obj.spec).name = n
      BY <1>3, <2>1, JobTypes DEF TypeOK, Handles
    <3> QED
      BY <2>5, <3>1 DEF MappedJobs
  <2>11. pending' \in Seq(MappedJobs')
    <3>1. pending \in Seq(MappedJobs')
      BY <2>9, SeqOfMore DEF JobsMapped
    <3> QED
      BY <1>3, <2>10, <3>1
  <2>12. JobsMapped'
    BY <1>3, <2>9, <2>11, SeqOfMore DEF JobsMapped
  <2>13. pending' \in Seq(Job)
    BY <2>11, SeqOfMore DEF MappedJobs
  <2>14. TypeOK'
    BY <1>3, <2>5, <2>6, <2>8, <2>13 DEF TypeOK, linkVars
  <2> QED
    BY <1>3, <2>12, <2>14 DEF RanHold, NoJobsYet
<1> QED
  BY <1>1, <1>2, <1>3 DEF AddFile

LEMMA ModifyFileInv ==
  ASSUME IndInv, NEW e \in Event, proc = "run", watch # <<>>, ModifyFile(e)
  PROVE  IndInv'
<1> USE DEF IndInv
<1> DEFINE n       == e.name
           mapped  == e.obj.spec # Elsewhere /\ files[n] # Nil
           changed == mapped /\ files[n].res # Nil /\ Unseen(e)
           resized == changed /\ e.obj.spec # files[n].res.spec
<1>1. CASE Ignore
  BY <1>1 DEF Ignore, TypeOK, JobsMapped, MappedJobs, RanHold, NoJobsYet, linkVars, queueVars
<1>2. CASE Panic
  BY <1>2, PanicInv
<1>3. CASE /\ changed /\ (resized => files[n].vol # "nil")
           /\ watch' = Tail(watch)
           /\ files' = [files EXCEPT ![n].res = e.obj]
           /\ pending' = IF resized
                         THEN Append(pending, ResizeJob(n, files[n].vol, e.obj.spec))
                         ELSE pending
           /\ UNCHANGED <<api, revs, server, vols, proc, linkVars, working, ran, completed, budget>>
  <2>1. n \in Names /\ e.obj \in OurObject /\ e.obj.spec \in Sizes /\ files[n] \in File
    BY <1>3, OursType, ObjectType DEF Event, TypeOK
  <2>2. [files[n] EXCEPT !.res = e.obj] \in File /\ [files[n] EXCEPT !.res = e.obj] # Nil
    BY <2>1, NilAssumption DEF File
  <2>3. files' \in [Names -> File \union {Nil}] /\ \A m \in Names : files[m] # Nil => files'[m] # Nil
    BY <1>3, <2>1, <2>2 DEF TypeOK
  <2>4. MappedJobs \subseteq MappedJobs'
    BY <2>3 DEF MappedJobs, Job, JobOf
  <2>5. pending' \in Seq(MappedJobs')
    <3>1. pending \in Seq(MappedJobs')
      BY <2>4, SeqOfMore DEF JobsMapped
    <3>2. CASE resized
      <4>1. files[n].vol \in {"live", "dead"}
        BY <1>3, <2>1, <3>2 DEF File, Handles
      <4>2. ResizeJob(n, files[n].vol, e.obj.spec) \in MappedJobs'
        BY <2>1, <4>1, JobTypes DEF MappedJobs
      <4> QED
        BY <1>3, <3>1, <3>2, <4>2
    <3> QED
      BY <1>3, <3>1, <3>2
  <2>6. JobsMapped'
    BY <1>3, <2>4, <2>5, SeqOfMore DEF JobsMapped
  <2>7. pending' \in Seq(Job)
    BY <2>5, SeqOfMore DEF MappedJobs
  <2>8. watch' \in Seq(Event)
    BY <1>3 DEF TypeOK
  <2>9. TypeOK'
    BY <1>3, <2>3, <2>7, <2>8 DEF TypeOK, linkVars
  <2> QED
    BY <1>3, <2>6, <2>9 DEF RanHold, NoJobsYet
<1> QED
  BY <1>1, <1>2, <1>3 DEF ModifyFile

LEMMA DeleteFileInv ==
  ASSUME IndInv, NEW e \in Event, proc = "run", watch # <<>>, DeleteFile(e)
  PROVE  IndInv'
<1> USE DEF IndInv
<1> DEFINE n      == e.name
           mapped == e.obj.spec # Elsewhere /\ files[n] # Nil
           kept   == [i \in DOMAIN pending |-> Unmap(pending[i], n)]
<1>1. CASE Ignore
  BY <1>1 DEF Ignore, TypeOK, JobsMapped, MappedJobs, RanHold, NoJobsYet, linkVars, queueVars
<1>2. CASE /\ mapped
           /\ watch' = Tail(watch)
           /\ files' = [files EXCEPT ![n] = Nil]
           /\ pending' = kept \o DeleteOf(n)
           /\ working' = [w \in Workers |-> IF working[w] = Nil THEN Nil ELSE Unmap(working[w], n)]
           /\ completed' = [i \in DOMAIN completed |-> Unmap(completed[i], n)]
           /\ UNCHANGED <<api, revs, server, vols, proc, linkVars, ran, budget>>
  <2>1. n \in Names /\ files[n] \in File
    BY <1>2 DEF Event, TypeOK
  <2>2. files' \in [Names -> File \union {Nil}] /\ \A m \in Names \ {n} : files'[m] = files[m]
    BY <1>2, <2>1 DEF TypeOK
  <2>3. ASSUME NEW j \in MappedJobs
        PROVE  Unmap(j, n) \in MappedJobs' /\ Unmap(j, n) # Nil
    BY <2>1, <2>2, UnmapType DEF MappedJobs, Job, JobOf
  <2>4. kept \in Seq(MappedJobs')
    <3>1. \A i \in DOMAIN pending : kept[i] \in MappedJobs'
      BY <2>3 DEF JobsMapped
    <3> QED
      BY <3>1, MapSeq DEF JobsMapped
  <2>5. completed' \in Seq(MappedJobs')
    <3>1. \A i \in DOMAIN completed : completed'[i] \in MappedJobs'
      BY <1>2, <2>3 DEF JobsMapped
    <3> QED
      BY <1>2, <3>1, MapSeq DEF JobsMapped
  <2>6. working' \in [Workers -> MappedJobs' \union {Nil}]
        /\ \A w \in Workers : working[w] # Nil => working'[w] # Nil
    BY <1>2, <2>3 DEF JobsMapped
  <2>7. DeleteOf(n) \in Seq(MappedJobs')
    <3>1. CASE files[n].vol = "nil"
      BY <3>1 DEF DeleteOf
    <3>2. CASE files[n].vol # "nil"
      <4>1. DeleteJob(n, files[n].vol) \in MappedJobs'
        BY <2>1, <3>2, DeleteJobType DEF MappedJobs, File, Handles
      <4> QED
        BY <3>2, <4>1 DEF DeleteOf
    <3> QED
      BY <3>1, <3>2
  <2>8. pending' \in Seq(MappedJobs')
    BY <1>2, <2>4, <2>7
  <2>9. JobsMapped'
    BY <2>5, <2>6, <2>8 DEF JobsMapped
  <2>10. pending' \in Seq(Job) /\ completed' \in Seq(Job) /\ working' \in [Workers -> Job \union {Nil}]
    BY <2>5, <2>6, <2>8, SeqOfMore DEF MappedJobs
  <2>11. watch' \in Seq(Event)
    BY <1>2 DEF TypeOK
  <2>12. TypeOK'
    BY <1>2, <2>2, <2>10, <2>11 DEF TypeOK, linkVars
  <2>13. RanHold'
    BY <1>2, <2>6 DEF RanHold, TypeOK
  <2> QED
    BY <1>2, <2>9, <2>12, <2>13 DEF NoJobsYet
<1> QED
  BY <1>1, <1>2 DEF DeleteFile

LEMMA WatchEventInv ==
  ASSUME IndInv, WatchEvent PROVE IndInv'
<1>1. proc = "run" /\ watch # <<>> /\ Head(watch) \in Event
  BY DEF WatchEvent, IndInv, TypeOK
<1> QED
  BY <1>1, AddFileInv, ModifyFileInv, DeleteFileInv DEF WatchEvent

LEMMA WatchEOFInv ==
  ASSUME IndInv, WatchEOF PROVE IndInv'
<1>1. watch' \in Seq(Event)
  BY OpenWatchType DEF WatchEOF, IndInv
<1>2. budget' \in [Faults -> Nat]
  BY DEF WatchEOF, Spend, IndInv, TypeOK, Faults
<1> QED
  BY <1>1, <1>2 DEF WatchEOF, IndInv, TypeOK, JobsMapped, MappedJobs, RanHold, NoJobsYet, linkVars, queueVars

LEMMA ConnectInv ==
  ASSUME IndInv, Connect PROVE IndInv'
BY DEF Connect, IndInv, TypeOK, JobsMapped, MappedJobs, RanHold, NoJobsYet, storeVars, queueVars

LEMMA ConnLostInv ==
  ASSUME IndInv, ConnLost PROVE IndInv'
<1> USE DEF IndInv
<1>1. budget' \in [Faults -> Nat]
  BY DEF ConnLost, Spend, TypeOK, Faults
<1>2. \A v \in Handles : Sever(v) \in Handles
  BY DEF Sever, Handles
<1>3. ASSUME NEW f \in File
      PROVE  [f EXCEPT !.vol = Sever(@)] \in File /\ [f EXCEPT !.vol = Sever(@)] # Nil
  BY <1>2, NilAssumption DEF File
<1>4. /\ files' \in [Names -> File \union {Nil}]
      /\ \A n \in Names : files[n] # Nil => files'[n] # Nil
  BY <1>3 DEF ConnLost, TypeOK
<1>5. ASSUME NEW j \in MappedJobs
      PROVE  SeverJob(j) \in MappedJobs' /\ SeverJob(j) # Nil
  BY <1>4, SeverType DEF MappedJobs, Job, JobOf
<1>6. pending' \in Seq(MappedJobs')
  <2>1. \A i \in DOMAIN pending : pending'[i] \in MappedJobs'
    BY <1>5 DEF ConnLost, JobsMapped
  <2> QED
    BY <2>1, MapSeq DEF ConnLost, JobsMapped
<1>7. completed' \in Seq(MappedJobs')
  <2>1. \A i \in DOMAIN completed : completed'[i] \in MappedJobs'
    BY <1>5 DEF ConnLost, JobsMapped
  <2> QED
    BY <2>1, MapSeq DEF ConnLost, JobsMapped
<1>8. working' \in [Workers -> MappedJobs' \union {Nil}]
      /\ \A w \in Workers : working[w] # Nil <=> working'[w] # Nil
  BY <1>5 DEF ConnLost, JobsMapped
<1>9. pending' \in Seq(Job) /\ completed' \in Seq(Job) /\ working' \in [Workers -> Job \union {Nil}]
  BY <1>6, <1>7, <1>8, SeqOfMore DEF MappedJobs
<1>10. loads' \in [{"live", "dead"} -> Nat] /\ pool' \in Handles
  BY <1>2 DEF ConnLost, TypeOK
<1>11. TypeOK'
  BY <1>1, <1>4, <1>9, <1>10 DEF ConnLost, TypeOK, storeVars
<1>12. JobsMapped'
  BY <1>6, <1>7, <1>8 DEF JobsMapped
<1>13. RanHold'
  BY <1>8 DEF ConnLost, RanHold, TypeOK
<1>14. NoJobsYet'
  <2> SUFFICES ASSUME proc \in {"down", "booted"}
               PROVE  pending' = <<>> /\ completed' = <<>> /\ \A w \in Workers : working'[w] = Nil
    BY DEF NoJobsYet, ConnLost
  <2>1. pending = <<>> /\ completed = <<>> /\ \A w \in Workers : working[w] = Nil
    BY DEF NoJobsYet
  <2> QED
    BY <1>8, <2>1 DEF ConnLost
<1> QED
  BY <1>11, <1>12, <1>13, <1>14

LEMMA ConnectFailedInv ==
  ASSUME IndInv, ConnectFailed PROVE IndInv'
<1> USE DEF IndInv
<1>1. CASE Panic
  BY <1>1, PanicInv
<1>2. CASE /\ link' = "down" /\ pool' = "nil" /\ proc' = "drain"
           /\ files' = [n \in Names |-> IF files[n] = Nil THEN Nil
                                        ELSE [files[n] EXCEPT !.vol = "nil"]]
           /\ UNCHANGED <<storeVars, vols, loads, queueVars, budget>>
  <2>1. ASSUME NEW f \in File
        PROVE  [f EXCEPT !.vol = "nil"] \in File /\ [f EXCEPT !.vol = "nil"] # Nil
    BY NilAssumption DEF File, Handles
  <2>2. /\ files' \in [Names -> File \union {Nil}]
        /\ \A n \in Names : files[n] # Nil => files'[n] # Nil
    BY <1>2, <2>1 DEF TypeOK
  <2>3. MappedJobs \subseteq MappedJobs'
    BY <2>2 DEF MappedJobs, Job, JobOf
  <2>4. JobsMapped'
    BY <1>2, <2>3, SeqOfMore DEF JobsMapped, queueVars
  <2> QED
    BY <1>2, <2>2, <2>4 DEF TypeOK, RanHold, NoJobsYet, storeVars, queueVars, Handles
<1> QED
  BY <1>1, <1>2 DEF ConnectFailed

LEMMA PoolLoadFailsInv ==
  ASSUME IndInv, PoolLoadFails PROVE IndInv'
<1>1. budget' \in [Faults -> Nat]
  BY DEF PoolLoadFails, Spend, IndInv, TypeOK, Faults
<1>2. loads' \in [{"live", "dead"} -> Nat]
  BY DEF PoolLoadFails, IndInv, TypeOK
<1> QED
  BY <1>1, <1>2 DEF PoolLoadFails, IndInv, TypeOK, JobsMapped, MappedJobs, RanHold, NoJobsYet,
                    storeVars, queueVars

(* The objects loadVolumes updates are those of the files it has.          *)
LEMMA LoadedType ==
  ASSUME TypeOK
  PROVE  /\ DOMAIN LoadedObjects = Mapped \ NoRes
         /\ IsObjects(LoadedObjects)
         /\ \A n \in Mapped \ NoRes : LoadedObjects[n].spec # Elsewhere
<1>1. ASSUME NEW n \in Mapped \ NoRes
      PROVE  LoadedObjects[n] \in Object /\ LoadedObjects[n].spec # Elsewhere
  <2>1. files[n].res \in OurObject
    BY DEF Mapped, NoRes, TypeOK, File
  <2>2. PICK p \in Phases : LoadedObjects[n] = [files[n].res EXCEPT !.phase = p]
    BY DEF LoadedObjects, Phases
  <2>3. files[n].res \in Object /\ files[n].res.spec # Elsewhere
    BY <2>1, ObjectType
  <2> QED
    BY <2>2, <2>3, PhaseType
<1>2. DOMAIN LoadedObjects = Mapped \ NoRes
  BY DEF LoadedObjects
<1> QED
  BY <1>1, <1>2 DEF IsObjects, Mapped

LEMMA LoadVolumesInv ==
  ASSUME IndInv, LoadVolumes, NoRes = {}, proc = "run", proc' \in {"run", "drain"},
         link' = link, pool' = "live", loads' \in [{"live", "dead"} -> Nat]
  PROVE  IndInv'
<1> USE DEF IndInv
<1>1. /\ api' \in [Names -> Object \union {Nil}] /\ revs' \in [Names -> Nat]
      /\ watch' \in Seq(Event) /\ UNCHANGED server
  BY LoadedType, NotifyType DEF LoadVolumes
<1>2. ASSUME NEW n \in Mapped
      PROVE  /\ n \in Names /\ files[n] \in File /\ files[n].res \in OurObject
             /\ Answer(LoadedObjects, n, LoadedObjects[n]) \in OurObject
  <2>1. n \in Names /\ files[n] \in File /\ files[n].res \in OurObject
    BY DEF Mapped, NoRes, TypeOK, File
  <2>2. LoadedObjects[n] \in OurObject
    BY LoadedType, OursType DEF IsObjects
  <2> QED
    BY <2>1, <2>2, LoadedType, AnswerType
<1>3. /\ files' \in [Names -> File \union {Nil}]
      /\ \A n \in Mapped : files'[n] # Nil
  <2>1. ASSUME NEW n \in Mapped
        PROVE  files'[n] \in File /\ files'[n] # Nil
    <3>1. (IF n \in Found THEN "live" ELSE files[n].vol) \in Handles
      BY <1>2 DEF File, Handles
    <3> QED
      BY <1>2, <3>1, FileType DEF LoadVolumes
  <2> QED
    BY <2>1 DEF LoadVolumes
<1>4. MappedJobs \subseteq MappedJobs'
  BY <1>3 DEF MappedJobs, Job, JobOf, Mapped
<1>5. PICK creates \in SetToSeqs(Mapped \ Found), deletes \in SetToSeqs(Extra) :
        pending' = pending
                   \o [i \in DOMAIN creates |->
                         CreateJob(creates[i], "live", files[creates[i]].res.spec)]
                   \o [i \in DOMAIN deletes |-> DeleteJob(deletes[i], "live")]
  BY DEF LoadVolumes
<1>6. creates \in Seq(Mapped \ Found) /\ deletes \in Seq(Extra)
  <2>1. IsFiniteSet(Mapped \ Found) /\ IsFiniteSet(Extra)
    BY ConstantsAssumption, FS_Subset DEF Mapped, Found, Extra
  <2> QED
    BY <2>1, OrderSeq
<1> DEFINE cjobs == [i \in DOMAIN creates |->
                       CreateJob(creates[i], "live", files[creates[i]].res.spec)]
           djobs == [i \in DOMAIN deletes |-> DeleteJob(deletes[i], "live")]
<1>7. cjobs \in Seq(MappedJobs')
  <2>1. ASSUME NEW i \in DOMAIN creates PROVE cjobs[i] \in MappedJobs'
    <3>1. creates[i] \in Mapped
      BY <1>6
    <3>2. files[creates[i]].res.spec \in Sizes
      BY <1>2, <3>1, ObjectType
    <3> QED
      BY <1>2, <1>3, <3>1, <3>2, JobTypes DEF MappedJobs
  <2> QED
    BY <1>6, <2>1, MapSeq
<1>8. djobs \in Seq(MappedJobs')
  <2>1. ASSUME NEW i \in DOMAIN deletes PROVE djobs[i] \in MappedJobs'
    <3>1. deletes[i] \in Names
      BY <1>6 DEF Extra
    <3> QED
      BY <3>1, DeleteJobType DEF MappedJobs
  <2> QED
    BY <1>6, <2>1, MapSeq
<1>9. pending' \in Seq(MappedJobs')
  <2>1. pending \in Seq(MappedJobs')
    BY <1>4, SeqOfMore DEF JobsMapped
  <2> QED
    BY <1>5, <1>7, <1>8, <2>1
<1>10. JobsMapped'
  BY <1>4, <1>9, SeqOfMore DEF JobsMapped, LoadVolumes
<1>11. pending' \in Seq(Job)
  BY <1>9, SeqOfMore DEF MappedJobs
<1>12. TypeOK'
  BY <1>1, <1>3, <1>11 DEF TypeOK, LoadVolumes, Handles
<1> QED
  BY <1>10, <1>12 DEF LoadVolumes, RanHold, NoJobsYet

LEMMA PoolReadyInv ==
  ASSUME IndInv, PoolReady PROVE IndInv'
<1> USE DEF IndInv
<1>1. CASE /\ loads["dead"] > 0
           /\ loads' = [loads EXCEPT !["dead"] = @ - 1]
           /\ pool' = IF link = "down" THEN pool ELSE "dead"
           /\ proc' \in IF link = "down" THEN {"run"} ELSE {"run", "drain"}
           /\ UNCHANGED <<storeVars, vols, link, files, queueVars, budget>>
  <2>1. loads' \in [{"live", "dead"} -> Nat] /\ pool' \in Handles /\ proc' \in {"run", "drain"}
    BY <1>1 DEF TypeOK, Handles
  <2>2. TypeOK'
    BY <1>1, <2>1 DEF TypeOK, storeVars, queueVars
  <2>3. JobsMapped' /\ RanHold'
    BY <1>1 DEF JobsMapped, MappedJobs, RanHold, queueVars
  <2> QED
    BY <2>1, <2>2, <2>3 DEF NoJobsYet
<1>2. CASE /\ loads["live"] > 0 /\ NoRes = {}
           /\ loads' = [loads EXCEPT !["live"] = @ - 1]
           /\ pool' = "live" /\ proc' \in {"drain", "run"}
           /\ LoadVolumes
           /\ UNCHANGED link
  <2>1. loads' \in [{"live", "dead"} -> Nat]
    BY <1>2 DEF TypeOK
  <2> QED
    BY <1>2, <2>1, LoadVolumesInv DEF PoolReady
<1>3. CASE PanicInLoop(LoadedObjects, Mapped \ NoRes, Mapped \ (NoRes \union Found))
  BY <1>3, LoadedType, PanicInLoopInv
<1>4. CASE /\ loads["live"] > 0 /\ Spend("error")
           /\ loads' = [loads EXCEPT !["live"] = @ - 1]
           /\ pool' = "live" /\ proc' \in {"drain", "run"}
           /\ UNCHANGED <<storeVars, vols, link, files, queueVars>>
  <2>1. loads' \in [{"live", "dead"} -> Nat] /\ pool' \in Handles
    BY <1>4 DEF TypeOK, Handles
  <2>2. budget' \in [Faults -> Nat]
    BY <1>4, SpendType DEF Faults
  <2>3. TypeOK'
    BY <1>4, <2>1, <2>2 DEF TypeOK, storeVars, queueVars
  <2>4. JobsMapped' /\ RanHold'
    BY <1>4 DEF JobsMapped, MappedJobs, RanHold, queueVars
  <2> QED
    BY <1>4, <2>3, <2>4 DEF NoJobsYet
<1> QED
  BY <1>1, <1>2, <1>3, <1>4 DEF PoolReady

LEMMA TickInv ==
  ASSUME IndInv, Tick PROVE IndInv'
BY DEF Tick, IndInv, TypeOK, JobsMapped, MappedJobs, RanHold, NoJobsYet, storeVars, linkVars, queueVars

LEMMA FinishJobInv ==
  ASSUME IndInv, FinishJob PROVE IndInv'
<1> USE DEF IndInv
<1> DEFINE j       == Head(completed)
           n       == j.name
           awaited == j.op = "create" /\ j.mapped /\ files[n].vol = "nil"
<1>0. j \in MappedJobs /\ j \in Job /\ proc = "drain"
  BY DEF FinishJob, JobsMapped, MappedJobs
<1>1. CASE Panic
  BY <1>1, PanicInv
<1>2. CASE /\ awaited => files[n].res # Nil
           /\ completed' = Tail(completed)
           /\ files' = IF ~awaited THEN files
                       ELSE [files EXCEPT ![n].vol = j.made,
                                          ![n].res.phase = IF j.made = "nil" THEN "Failed"
                                                           ELSE "Available"]
           /\ UNCHANGED <<storeVars, vols, proc, linkVars, pending, working, ran, budget>>
  <2>1. /\ files' \in [Names -> File \union {Nil}]
        /\ \A m \in Names : files[m] # Nil => files'[m] # Nil
    <3>1. CASE awaited
      <4>1. n \in Names /\ files[n] \in File /\ files[n].res \in OurObject /\ j.made \in Handles
        BY <1>0, <1>2, <3>1 DEF MappedJobs, Job, JobOf, TypeOK, File
      <4>2. PICK p \in Phases : files' = [files EXCEPT ![n].vol = j.made, ![n].res.phase = p]
        BY <1>2, <3>1 DEF Phases
      <4>3. [files[n].res EXCEPT !.phase = p] \in OurObject
        BY <4>1, ObjectType, PhaseType, OursType
      <4>4. [files[n] EXCEPT !.vol = j.made, !.res.phase = p] \in File
        BY <4>1, <4>3 DEF File
      <4>5. files' = [files EXCEPT ![n] = [files[n] EXCEPT !.vol = j.made, !.res.phase = p]]
        BY <4>1, <4>2 DEF TypeOK, File
      <4> QED
        BY <4>1, <4>4, <4>5, NilAssumption DEF TypeOK
    <3> QED
      BY <1>2, <3>1 DEF TypeOK
  <2>2. MappedJobs \subseteq MappedJobs'
    BY <2>1 DEF MappedJobs, Job, JobOf
  <2>3. completed' \in Seq(MappedJobs) /\ completed' \in Seq(Job)
    BY <1>2 DEF FinishJob, JobsMapped, TypeOK
  <2>4. JobsMapped'
    BY <1>2, <2>2, <2>3, SeqOfMore DEF JobsMapped
  <2>5. TypeOK'
    BY <1>2, <2>1, <2>3 DEF TypeOK, storeVars, linkVars
  <2> QED
    BY <1>0, <1>2, <2>4, <2>5 DEF RanHold, NoJobsYet
<1> QED
  BY <1>1, <1>2 DEF FinishJob

(* The objects refreshSizes updates are those of the files with a handle.  *)
LEMMA RefreshedType ==
  ASSUME TypeOK, NEW bad, Gone \subseteq bad
  PROVE  /\ DOMAIN RefreshedObjects(bad) = Held \ NoRes
         /\ IsObjects(RefreshedObjects(bad))
         /\ \A n \in Held \ NoRes : RefreshedObjects(bad)[n].spec # Elsewhere
<1>1. ASSUME NEW n \in Held \ NoRes
      PROVE  /\ RefreshedObjects(bad)[n] \in Object
             /\ RefreshedObjects(bad)[n].spec # Elsewhere
  <2>1. files[n].res \in OurObject /\ n \in Names
    BY DEF Held, Mapped, NoRes, TypeOK, File
  <2>2. files[n].res \in Object /\ files[n].res.spec # Elsewhere
    BY <2>1, ObjectType
  <2>3. CASE n \in bad
    BY <2>2, <2>3, PhaseType DEF RefreshedObjects, Phases
  <2>4. CASE n \notin bad
    <3>1. vols[n] \in Sizes
      BY <2>1, <2>4 DEF Gone, TypeOK
    <3> QED
      BY <2>2, <2>4, <3>1, CapType DEF RefreshedObjects
  <2> QED
    BY <2>3, <2>4
<1>2. DOMAIN RefreshedObjects(bad) = Held \ NoRes
  BY DEF RefreshedObjects
<1> QED
  BY <1>1, <1>2 DEF IsObjects, Held, Mapped

LEMMA RefreshSizesInv ==
  ASSUME IndInv, RefreshSizes PROVE IndInv'
<1> USE DEF IndInv
<1>1. CASE pool # "live" /\ proc' = "run"
           /\ UNCHANGED <<storeVars, vols, linkVars, files, queueVars, budget>>
  BY <1>1 DEF TypeOK, JobsMapped, MappedJobs, RanHold, NoJobsYet, storeVars, linkVars, queueVars
<1>2. ASSUME NEW bad \in SUBSET Held, Gone \subseteq bad,
             PanicInLoop(RefreshedObjects(bad), Held \ NoRes, {})
      PROVE  IndInv'
  BY <1>2, RefreshedType, PanicInLoopInv
<1>3. ASSUME NEW bad \in SUBSET Held, Gone \subseteq bad,
             Cardinality(bad \ Gone) <= budget["error"],
             Held \intersect NoRes = {},
             PutAndNotify(RefreshedObjects(bad)),
             files' = [n \in Names |->
               IF n \notin Held THEN files[n]
               ELSE [res |-> Answer(RefreshedObjects(bad), n, Nil),
                     vol |-> IF n \in bad THEN "nil" ELSE files[n].vol]],
             budget' = [budget EXCEPT !["error"] = @ - Cardinality(bad \ Gone)],
             proc' = "run",
             UNCHANGED <<vols, linkVars, queueVars>>
      PROVE  IndInv'
  <2>1. /\ api' \in [Names -> Object \union {Nil}] /\ revs' \in [Names -> Nat]
        /\ watch' \in Seq(Event) /\ UNCHANGED server
    BY <1>3, RefreshedType, NotifyType
  <2>2. ASSUME NEW n \in Held
        PROVE  files'[n] \in File /\ files'[n] # Nil
    <3>1. n \in Names /\ files[n] \in File /\ n \in DOMAIN RefreshedObjects(bad)
      BY <1>3, RefreshedType DEF Held, Mapped, TypeOK
    <3>2. RefreshedObjects(bad)[n] \in Object /\ RefreshedObjects(bad)[n].spec # Elsewhere
      BY <1>3, <3>1, RefreshedType DEF IsObjects
    <3>3. Answer(RefreshedObjects(bad), n, Nil) \in OurObject \union {Nil}
      BY <1>3, <3>1, <3>2, RefreshedType, AnswerType
    <3>4. (IF n \in bad THEN "nil" ELSE files[n].vol) \in Handles
      BY <3>1 DEF File, Handles
    <3> QED
      BY <1>3, <3>1, <3>3, <3>4, FileType
  <2>3. /\ files' \in [Names -> File \union {Nil}]
        /\ \A n \in Names : files[n] # Nil => files'[n] # Nil
    BY <1>3, <2>2 DEF TypeOK
  <2>4. budget' \in [Faults -> Nat]
    <3>1. Cardinality(bad \ Gone) \in Nat
      BY ConstantsAssumption, FS_Subset, FS_CardinalityType DEF Held, Mapped
    <3> QED
      BY <1>3, <3>1 DEF TypeOK, Faults
  <2>5. MappedJobs \subseteq MappedJobs'
    BY <2>3 DEF MappedJobs, Job, JobOf
  <2>6. JobsMapped'
    BY <1>3, <2>5, SeqOfMore DEF JobsMapped, queueVars
  <2>7. TypeOK'
    BY <1>3, <2>1, <2>3, <2>4 DEF TypeOK, linkVars, queueVars
  <2> QED
    BY <1>3, <2>6, <2>7 DEF RanHold, NoJobsYet, queueVars
<1> QED
  BY <1>1, <1>2, <1>3 DEF RefreshSizes

LEMMA TakeInv ==
  ASSUME IndInv, NEW w \in Workers, Take(w) PROVE IndInv'
<1> USE DEF IndInv
<1>1. /\ Head(pending) \in MappedJobs /\ Tail(pending) \in Seq(MappedJobs)
      /\ Head(pending) \in Job /\ Tail(pending) \in Seq(Job)
  BY DEF Take, JobsMapped, TypeOK
<1>2. Head(pending) # Nil
  BY <1>1, NilAssumption
<1>3. TypeOK'
  BY <1>1 DEF Take, TypeOK, storeVars, linkVars
<1>4. JobsMapped'
  BY <1>1 DEF Take, JobsMapped, MappedJobs
<1>5. RanHold'
  BY <1>2 DEF Take, RanHold, TypeOK
<1>6. NoJobsYet'
  BY DEF Take, NoJobsYet
<1> QED
  BY <1>3, <1>4, <1>5, <1>6

LEMMA ProcessInv ==
  ASSUME IndInv, NEW w \in Workers, Process(w) PROVE IndInv'
<1> USE DEF IndInv
<1> DEFINE j    == working[w]
           made == [working EXCEPT ![w].made = "live"]
<1>1. j \in Job /\ j \in MappedJobs /\ j.name \in Names
  BY DEF Process, JobsMapped, MappedJobs, Job, JobOf
<1>2. [j EXCEPT !.made = "live"] \in Job /\ [j EXCEPT !.made = "live"].name = j.name
      /\ [j EXCEPT !.made = "live"].mapped = j.mapped
  BY <1>1 DEF Job, JobOf, Handles
<1>3. /\ made \in [Workers -> MappedJobs \union {Nil}]
      /\ \A v \in Workers : working[v] # Nil => made[v] # Nil
  BY <1>1, <1>2, NilAssumption DEF JobsMapped, MappedJobs, TypeOK
<1>4. working' \in {working, made}
  BY DEF Process
<1>5. vols' \in [Names -> Sizes \union {Nil}]
  <2>1. j.op # "delete" => j.size \in Sizes
    BY <1>1 DEF Job, JobOf
  <2> QED
    BY <1>1, <2>1 DEF Process, TypeOK
<1>6. budget' \in [Faults -> Nat]
  <2>1. UNCHANGED budget \/ Spend("error")
    BY DEF Process
  <2> QED
    BY <2>1, SpendType DEF Faults, TypeOK
<1>7. UNCHANGED <<storeVars, proc, linkVars, files, pending, completed>> /\ ran' = ran \union {w}
      /\ working[w] # Nil
  BY DEF Process
<1>8. working' \in [Workers -> MappedJobs' \union {Nil}]
  BY <1>3, <1>4, <1>7 DEF JobsMapped, MappedJobs
<1>9. JobsMapped'
  BY <1>7, <1>8 DEF JobsMapped, MappedJobs
<1>10. working' \in [Workers -> Job \union {Nil}]
  BY <1>8 DEF MappedJobs
<1>11. TypeOK'
  BY <1>5, <1>6, <1>7, <1>10 DEF TypeOK, storeVars, linkVars
<1>12. RanHold'
  BY <1>3, <1>4, <1>7 DEF RanHold, TypeOK
<1>13. NoJobsYet'
  BY <1>7 DEF NoJobsYet
<1> QED
  BY <1>9, <1>11, <1>12, <1>13

LEMMA HandOverInv ==
  ASSUME IndInv, NEW w \in Workers, HandOver(w) PROVE IndInv'
<1> USE DEF IndInv
<1>1. working[w] \in Job /\ working[w] \in MappedJobs
  BY DEF HandOver, RanHold, JobsMapped, MappedJobs
<1>2. TypeOK'
  BY <1>1 DEF HandOver, TypeOK, storeVars, linkVars
<1>3. JobsMapped'
  BY <1>1 DEF HandOver, JobsMapped, MappedJobs
<1>4. RanHold'
  BY DEF HandOver, RanHold, TypeOK
<1>5. NoJobsYet'
  BY <1>1, NilAssumption DEF HandOver, NoJobsYet
<1> QED
  BY <1>2, <1>3, <1>4, <1>5

LEMMA NotifyInv ==
  ASSUME TypeOK, NEW e \in Event, Notify(e)
  PROVE  watch' \in Seq(Event)
BY DEF Notify, TypeOK

LEMMA UserInv ==
  ASSUME IndInv, NEW n \in Names, UserCreate(n) \/ UserModify(n) \/ UserDelete(n)
  PROVE  IndInv'
<1> USE DEF IndInv
<1>1. budget' \in [Faults -> Nat]
  <2>1. CASE UserCreate(n) \/ UserDelete(n)
    BY <2>1, SpendType DEF UserCreate, UserDelete, Faults
  <2>2. CASE UserModify(n)
    <3> DEFINE move(s) == Elsewhere \in {s, api[n].spec}
    <3>1. PICK s \in Specs \ {api[n].spec} :
            /\ move(s) => budget["move"] > 0
            /\ budget' = [budget EXCEPT !["user"] = @ - 1, !["move"] = IF move(s) THEN @ - 1 ELSE @]
      BY <2>2, Zenon DEF UserModify
    <3>2. budget["user"] > 0
      BY <2>2, Zenon DEF UserModify
    <3>3. budget \in [Faults -> Nat] /\ "user" \in Faults /\ "move" \in Faults
      BY DEF TypeOK, Faults
    <3> DEFINE left == IF move(s) THEN budget["move"] - 1 ELSE budget["move"]
    <3>4. budget["user"] - 1 \in Nat /\ left \in Nat
      BY <3>1, <3>2, <3>3
    <3>5. budget' = [budget EXCEPT !["user"] = budget["user"] - 1, !["move"] = left]
      BY <3>1
    <3> HIDE DEF move, left
    <3> QED
      BY <3>3, <3>4, <3>5
  <2> QED
    BY <2>1, <2>2
<1>2. \A s \in Specs : s \in Sizes \union {Elsewhere}
  BY DEF Specs
<1>3. /\ api' \in [Names -> Object \union {Nil}] /\ revs' \in [Names -> Nat]
      /\ watch' \in Seq(Event)
  <2>1. CASE UserCreate(n)
    <3> DEFINE o(s) == [rev |-> revs[n] + 1, spec |-> s, phase |-> "", cap |-> 0]
    <3>1. PICK s \in Specs : api' = [api EXCEPT ![n] = o(s)] /\ Notify(NewEvent("Added", n, o(s)))
      BY <2>1 DEF UserCreate
    <3>2. revs[n] + 1 \in Nat /\ s \in Sizes \union {Elsewhere}
      BY <1>2 DEF TypeOK
    <3>3. o(s) \in Object
      BY <3>2 DEF Object, ObjectOf, Phases
    <3>4. NewEvent("Added", n, o(s)) \in Event
      BY <3>3 DEF NewEvent, Event
    <3>5. watch' \in Seq(Event)
      BY <3>1, <3>4, NotifyInv
    <3>6. api' \in [Names -> Object \union {Nil}]
      BY <3>1, <3>3 DEF TypeOK
    <3> QED
      BY <2>1, <3>2, <3>5, <3>6 DEF UserCreate, TypeOK
  <2>2. CASE UserModify(n)
    <3> DEFINE o(s) == [api[n] EXCEPT !.rev = revs[n] + 1, !.spec = s]
    <3>1. PICK s \in Specs \ {api[n].spec} :
            api' = [api EXCEPT ![n] = o(s)] /\ Notify(NewEvent("Modified", n, o(s)))
      BY <2>2, Zenon DEF UserModify
    <3>2. revs[n] + 1 \in Nat /\ s \in Sizes \union {Elsewhere} /\ api[n] \in Object
      <4>1. api[n] # Nil
        BY <2>2, Zenon DEF UserModify
      <4> QED
        BY <1>2, <4>1 DEF TypeOK
    <3>3. o(s) \in Object
      BY <3>2 DEF Object, ObjectOf
    <3>4. NewEvent("Modified", n, o(s)) \in Event
      BY <3>3 DEF NewEvent, Event
    <3>5. watch' \in Seq(Event)
      BY <3>1, <3>4, NotifyInv
    <3>6. api' \in [Names -> Object \union {Nil}]
      BY <3>1, <3>3 DEF TypeOK
    <3> QED
      BY <2>2, <3>2, <3>5, <3>6 DEF UserModify, TypeOK
  <2>3. CASE UserDelete(n)
    <3>1. NewEvent("Deleted", n, api[n]) \in Event
      BY <2>3 DEF UserDelete, TypeOK, NewEvent, Event
    <3> QED
      BY <2>3, <3>1, NotifyInv DEF UserDelete, TypeOK
  <2> QED
    BY <2>1, <2>2, <2>3
<1>4. UNCHANGED <<server, vols, proc, linkVars, files, queueVars>>
  BY DEF UserCreate, UserModify, UserDelete
<1> QED
  BY <1>1, <1>3, <1>4
  DEF TypeOK, JobsMapped, MappedJobs, RanHold, NoJobsYet, linkVars, queueVars

LEMMA OutageInv ==
  ASSUME IndInv, NEW n \in Names, Outage(n) \/ OutageEnds(n)
  PROVE  IndInv'
<1> USE DEF IndInv
<1>1. server' \in [Names -> PutModes]
  BY DEF Outage, OutageEnds, TypeOK, PutModes
<1>2. budget' \in [Faults -> Nat]
  BY SpendType DEF Outage, OutageEnds, TypeOK, Faults
<1>3. UNCHANGED <<api, revs, watch, vols, proc, linkVars, files, queueVars>>
  BY DEF Outage, OutageEnds
<1> QED
  BY <1>1, <1>2, <1>3
  DEF TypeOK, JobsMapped, MappedJobs, RanHold, NoJobsYet, linkVars, queueVars

LEMMA KillInv ==
  ASSUME IndInv, Kill PROVE IndInv'
<1>1. budget' \in [Faults -> Nat]
  BY DEF Kill, Spend, IndInv, TypeOK, Faults
<1> QED
  BY <1>1, ForgetInv DEF Kill, IndInv, TypeOK

-----------------------------------------------------------------------------
(* The theorems.                                                           *)

LEMMA InitInv == Init => IndInv
<1> SUFFICES ASSUME Init PROVE IndInv
  OBVIOUS
<1>1. budget \in [Faults -> Nat]
  <2>1. \A f \in Faults : budget[f] \in Nat
    BY ConstantsAssumption DEF Init, Faults
  <2> QED
    BY <2>1 DEF Init
<1>2. /\ api \in [Names -> Object \union {Nil}] /\ revs \in [Names -> Nat]
      /\ server \in [Names -> PutModes]
      /\ vols \in [Names -> Sizes \union {Nil}] /\ files \in [Names -> File \union {Nil}]
      /\ working \in [Workers -> Job \union {Nil}] /\ loads \in [{"live", "dead"} -> Nat]
  BY DEF Init, NoLoads, PutModes
<1>3. watch \in Seq(Event) /\ pending \in Seq(Job) /\ completed \in Seq(Job)
  BY DEF Init
<1>4. TypeOK
  BY <1>1, <1>2, <1>3 DEF Init, TypeOK, Handles
<1>5. /\ pending \in Seq(MappedJobs) /\ completed \in Seq(MappedJobs)
      /\ working \in [Workers -> MappedJobs \union {Nil}]
  BY DEF Init
<1> QED
  BY <1>4, <1>5 DEF Init, IndInv, JobsMapped, RanHold, NoJobsYet

LEMMA StepInv == IndInv /\ [Next]_vars => IndInv'
<1> SUFFICES ASSUME IndInv, [Next]_vars PROVE IndInv'
  OBVIOUS
<1>1. CASE Boot \/ LoadFileResources \/ WatchEvent \/ WatchEOF \/ Connect \/ ConnectFailed
  BY <1>1, BootInv, LoadFileResourcesInv, WatchEventInv, WatchEOFInv, ConnectInv, ConnectFailedInv
<1>2. CASE PoolLoadFails \/ PoolReady \/ Tick \/ FinishJob \/ RefreshSizes
  BY <1>2, PoolLoadFailsInv, PoolReadyInv, TickInv, FinishJobInv, RefreshSizesInv
<1>3. ASSUME NEW w \in Workers, Take(w) \/ Process(w) \/ HandOver(w) PROVE IndInv'
  BY <1>3, TakeInv, ProcessInv, HandOverInv
<1>4. ASSUME NEW n \in Names,
             UserCreate(n) \/ UserModify(n) \/ UserDelete(n) \/ Outage(n) \/ OutageEnds(n)
      PROVE  IndInv'
  BY <1>4, UserInv, OutageInv
<1>5. CASE ConnLost \/ Kill
  BY <1>5, ConnLostInv, KillInv
<1>6. CASE UNCHANGED vars
  BY <1>6 DEF vars, storeVars, linkVars, queueVars, IndInv, TypeOK, JobsMapped, MappedJobs,
              RanHold, NoJobsYet
<1> QED
  BY <1>1, <1>2, <1>3, <1>4, <1>5, <1>6 DEF Next, MainLoop

LEMMA Invariance == Spec => []IndInv
BY InitInv, StepInv, PTL DEF Spec

(* The types hold for every instance.  They include that r.files and the   *)
(* jobs are only ever about objects of this repository, whatever repoName  *)
(* users give to a file and whenever they change it.                       *)
THEOREM TypeCorrect == Spec => []TypeOK
<1>1. IndInv => TypeOK
  BY DEF IndInv
<1> QED
  BY <1>1, Invariance, PTL

(* The completed creation of a file that r.files has dropped is never      *)
(* stored in an entry: a job whose file is still mapped finds it.          *)
THEOREM FinishFindsItsFile == Spec => []JobsMapped
<1>1. IndInv => JobsMapped
  BY DEF IndInv
<1> QED
  BY <1>1, Invariance, PTL

=============================================================================
