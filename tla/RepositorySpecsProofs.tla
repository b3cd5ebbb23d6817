------------------------ MODULE RepositorySpecsProofs ------------------------
(***************************************************************************)
(* Proof that an image repository keeps the specs of its users and knows   *)
(* the objects it has been told of, for every set of names, sizes and      *)
(* workers and every bound on the faults.  The types are those of          *)
(* ImageRepositoryProofs.                                                  *)
(***************************************************************************)
EXTENDS ImageRepositoryProofs

-----------------------------------------------------------------------------
(* The inductive invariant.                                                *)

toldVars == <<api, revs, watch>>    \* what the daemon can learn of

(* A copy or an event of the current version has the current spec.         *)
Current(o, n) ==
  /\ o.rev <= revs[n]
  /\ api[n] # Nil /\ o.rev = api[n].rev => o.spec = api[n].spec

SpecInv ==
  /\ \A n \in Names : api[n] # Nil => api[n].rev = revs[n]
  /\ \A n \in Names : files[n] # Nil /\ files[n].res # Nil => Current(files[n].res, n)
  /\ \A i \in DOMAIN watch : Current(watch[i].obj, watch[i].name)

-----------------------------------------------------------------------------
(* The specs.                                                              *)

(* An object is replaced by one of the next version, goes or stays.        *)
Moved(n) ==
  \/ revs'[n] = revs[n] /\ api'[n] \in {api[n], Nil}
  \/ revs'[n] = revs[n] + 1 /\ (api'[n] # Nil => api'[n].rev = revs'[n])

CurrentNext(o, n) ==
  /\ o.rev <= revs'[n]
  /\ api'[n] # Nil /\ o.rev = api'[n].rev => o.spec = api'[n].spec

SpecKept(n) == api[n] # Nil => api'[n] # Nil /\ api'[n].spec = api[n].spec

LEMMA CurrentStays ==
  ASSUME TypeOK, NEW n \in Names, Moved(n), NEW o, o.rev \in Nat, Current(o, n)
  PROVE  CurrentNext(o, n)
<1>1. revs[n] \in Nat
  BY DEF TypeOK
<1>2. CASE revs'[n] = revs[n] /\ api'[n] \in {api[n], Nil}
  BY <1>2 DEF Current, CurrentNext
<1>3. CASE revs'[n] = revs[n] + 1 /\ (api'[n] # Nil => api'[n].rev = revs'[n])
  BY <1>1, <1>3 DEF Current, CurrentNext
<1> QED  BY <1>2, <1>3 DEF Moved

LEMMA ObjectRev ==
  ASSUME NEW o, o \in Object \/ o \in OurObject
  PROVE  o.rev \in Nat
BY DEF Object, OurObject, ObjectOf

(* The copies and the events stay current; those that a step adds are left *)
(* to prove.                                                               *)
LEMMA CopyStays ==
  ASSUME TypeOK, SpecInv, NEW n \in Names, Moved(n), files[n] # Nil, files[n].res # Nil
  PROVE  CurrentNext(files[n].res, n)
<1>1. files[n].res \in OurObject
  BY DEF TypeOK, File
<1> QED  BY <1>1, ObjectRev, CurrentStays DEF SpecInv

LEMMA EventStays ==
  ASSUME TypeOK, SpecInv, \A n \in Names : Moved(n), NEW i \in DOMAIN watch
  PROVE  CurrentNext(watch[i].obj, watch[i].name)
<1>1. watch[i] \in Event
  BY DEF TypeOK
<1>2. watch[i].obj \in Object /\ watch[i].name \in Names
  BY <1>1 DEF Event
<1>3. Current(watch[i].obj, watch[i].name)
  BY DEF SpecInv
<1> HIDE DEF Event
<1> QED  BY <1>2, <1>3, ObjectRev, CurrentStays

(* A PUT from current copies changes no spec.                              *)
LEMMA PutKeeps ==
  ASSUME TypeOK, SpecInv, NEW objs, IsObjects(objs), Put(objs),
         \A n \in DOMAIN objs : Current(objs[n], n)
  PROVE  /\ \A n \in Names : Moved(n) /\ SpecKept(n) /\ (api'[n] # Nil => api'[n].rev = revs'[n])
         /\ \A n \in DOMAIN objs : n \in Accepted(objs) => CurrentNext(Stored(objs, n), n)
         /\ \A n \in DOMAIN objs : CurrentNext(objs[n], n)
<1>1. /\ api' = [n \in Names |-> IF n \in Written(objs) THEN Stored(objs, n) ELSE api[n]]
      /\ revs' = [n \in Names |-> IF n \in Written(objs) THEN revs[n] + 1 ELSE revs[n]]
  BY DEF Put
<1>2. DOMAIN objs \subseteq Names /\ revs \in [Names -> Nat]
  BY DEF IsObjects, TypeOK
<1>3. ASSUME NEW n \in Written(objs)
      PROVE  /\ n \in DOMAIN objs /\ n \in Names /\ api[n] # Nil /\ api[n].rev = objs[n].rev
             /\ Stored(objs, n).rev = revs[n] + 1 /\ Stored(objs, n).spec = objs[n].spec
  <2>1. n \in DOMAIN objs /\ api[n] # Nil /\ api[n].rev = objs[n].rev /\ objs[n] \in Object
    BY DEF Written, Accepted, IsObjects
  <2>2. Stored(objs, n) = [objs[n] EXCEPT !.rev = revs[n] + 1]
    BY DEF Stored
  <2>3. Stored(objs, n).rev = revs[n] + 1 /\ Stored(objs, n).spec = objs[n].spec
    BY <2>1, <2>2 DEF Object, ObjectOf
  <2> QED  BY <1>2, <2>1, <2>3
<1>4. ASSUME NEW n \in Names
      PROVE  Moved(n) /\ SpecKept(n) /\ (api'[n] # Nil => api'[n].rev = revs'[n])
  <2>1. CASE n \in Written(objs)
    <3>1. api'[n] = Stored(objs, n) /\ revs'[n] = revs[n] + 1
      BY <1>1, <2>1
    <3>2. objs[n].spec = api[n].spec
      BY <1>3, <2>1 DEF Current
    <3>3. Stored(objs, n) # Nil
      BY <1>3, <2>1, StoredType, NilAssumption
    <3> QED  BY <1>3, <2>1, <3>1, <3>2, <3>3 DEF Moved, SpecKept
  <2>2. CASE n \notin Written(objs)
    <3>1. api'[n] = api[n] /\ revs'[n] = revs[n]
      BY <1>1, <2>2
    <3> QED  BY <3>1 DEF Moved, SpecKept, SpecInv
  <2> QED  BY <2>1, <2>2
<1>5. ASSUME NEW n \in DOMAIN objs
      PROVE  CurrentNext(objs[n], n)
  <2>1. n \in Names /\ objs[n].rev \in Nat
    BY ObjectRev DEF IsObjects
  <2> QED  BY <1>4, <2>1, CurrentStays
<1>6. ASSUME NEW n \in DOMAIN objs, n \in Accepted(objs)
      PROVE  CurrentNext(Stored(objs, n), n)
  <2>1. CASE n \in Written(objs)
    <3>1. api'[n] = Stored(objs, n) /\ revs'[n] = revs[n] + 1
      BY <1>1, <1>3, <2>1
    <3> QED  BY <1>2, <1>3, <2>1, <3>1 DEF CurrentNext
  <2>2. CASE n \notin Written(objs)
    BY <1>5, <2>2 DEF Stored
  <2> QED  BY <2>1, <2>2
<1> QED  BY <1>4, <1>5, <1>6

LEMMA NotifyKeeps ==
  ASSUME TypeOK, SpecInv, NEW objs, IsObjects(objs), PutAndNotify(objs),
         \A n \in DOMAIN objs : Current(objs[n], n)
  PROVE  \A i \in DOMAIN watch' : CurrentNext(watch'[i].obj, watch'[i].name)
<1>1. PICK order \in SetToSeqs(Written(objs)) :
        watch' = watch \o [i \in DOMAIN order |->
                             NewEvent("Modified", order[i], Stored(objs, order[i]))]
  BY DEF PutAndNotify
<1> DEFINE new == [i \in DOMAIN order |-> NewEvent("Modified", order[i], Stored(objs, order[i]))]
<1>2. Put(objs)
  BY DEF PutAndNotify
<1>3. order \in Seq(Written(objs)) /\ Written(objs) \subseteq DOMAIN objs
  BY OrderSeq, WrittenFinite
<1>4. \A i \in DOMAIN order : order[i] \in Accepted(objs) /\ order[i] \in DOMAIN objs
  BY <1>3 DEF Written
<1>5. ASSUME NEW i \in DOMAIN new
      PROVE  CurrentNext(new[i].obj, new[i].name)
  <2>1. new[i].obj = Stored(objs, order[i]) /\ new[i].name = order[i] /\ i \in DOMAIN order
    BY DEF NewEvent
  <2>2. CurrentNext(Stored(objs, order[i]), order[i])
    BY <1>2, <1>4, <2>1, PutKeeps
  <2> HIDE DEF new
  <2> QED  BY <2>1, <2>2
<1>6. \A i \in DOMAIN watch : CurrentNext(watch[i].obj, watch[i].name)
  BY <1>2, PutKeeps, EventStays
<1>7. watch \in Seq(Event) /\ new \in Seq(Event)
  <2>1. \A i \in DOMAIN order : new[i] \in Event
    <3>1. \A i \in DOMAIN order : Stored(objs, order[i]) \in Object /\ order[i] \in Names
      BY <1>4, StoredType DEF IsObjects
    <3> QED  BY <3>1 DEF NewEvent, Event
  <2> HIDE DEF new
  <2>2. DOMAIN new = DOMAIN order /\ new = [i \in DOMAIN order |-> new[i]]
    BY DEF new
  <2> QED  BY <1>3, <2>1, <2>2, MapSeq DEF TypeOK
<1> HIDE DEF new
<1>8. watch' = watch \o new
  BY <1>1 DEF new
<1>9. ASSUME NEW i \in DOMAIN watch'
      PROVE  CurrentNext(watch'[i].obj, watch'[i].name)
  <2>1. CASE i \in DOMAIN watch
    <3>1. watch'[i] = watch[i]
      BY <1>7, <1>8, <2>1
    <3> QED  BY <1>6, <2>1, <3>1
  <2>2. CASE i \notin DOMAIN watch
    <3>1. i - Len(watch) \in DOMAIN new /\ watch'[i] = new[i - Len(watch)]
      BY <1>7, <1>8, <2>2
    <3> QED  BY <1>5, <3>1
  <2> QED  BY <2>1, <2>2
<1> QED  BY <1>9

-----------------------------------------------------------------------------
(* The specs, step by step.                                                *)

KeepsSpecs == budget'["user"] = budget["user"] => \A n \in Names : SpecKept(n)
SpecStep   == SpecInv' /\ KeepsSpecs

(* What has to be shown of a step that PUTs no object.                     *)
LEMMA StoreRests ==
  ASSUME TypeOK, SpecInv, UNCHANGED <<api, revs>>,
         \A n \in Names : files'[n] # Nil /\ files'[n].res # Nil =>
                            CurrentNext(files'[n].res, n),
         \A i \in DOMAIN watch' : CurrentNext(watch'[i].obj, watch'[i].name)
  PROVE  SpecStep
BY DEF SpecStep, SpecInv, KeepsSpecs, SpecKept, Current, CurrentNext

(* ... and of one that does.                                               *)
LEMMA StoreMoves ==
  ASSUME \A n \in Names : Moved(n) /\ (api'[n] # Nil => api'[n].rev = revs'[n]),
         KeepsSpecs,
         \A n \in Names : files'[n] # Nil /\ files'[n].res # Nil =>
                            CurrentNext(files'[n].res, n),
         \A i \in DOMAIN watch' : CurrentNext(watch'[i].obj, watch'[i].name)
  PROVE  SpecStep
BY DEF SpecStep, SpecInv, Current, CurrentNext

LEMMA MovedRests ==
  ASSUME UNCHANGED <<api, revs>>
  PROVE  \A n \in Names : Moved(n)
BY DEF Moved

LEMMA CopiesRest ==
  ASSUME TypeOK, SpecInv, \A n \in Names : Moved(n),
         \A n \in Names : files'[n] # Nil /\ files'[n].res # Nil =>
                            files[n] # Nil /\ files'[n].res = files[n].res
  PROVE  \A n \in Names : files'[n] # Nil /\ files'[n].res # Nil =>
                            CurrentNext(files'[n].res, n)
<1> SUFFICES ASSUME NEW n \in Names, files'[n] # Nil, files'[n].res # Nil
             PROVE  CurrentNext(files'[n].res, n)
  OBVIOUS
<1>1. files[n] # Nil /\ files[n].res # Nil /\ files'[n].res = files[n].res
  OBVIOUS
<1>2. CurrentNext(files[n].res, n)
  BY <1>1, CopyStays
<1> QED  BY <1>1, <1>2

(* Events that are handled leave the others as they are.                   *)
LEMMA TailStays ==
  ASSUME TypeOK, SpecInv, \A n \in Names : Moved(n), watch # <<>>, watch' = Tail(watch)
  PROVE  \A i \in DOMAIN watch' : CurrentNext(watch'[i].obj, watch'[i].name)
<1> SUFFICES ASSUME NEW i \in DOMAIN watch'
             PROVE  CurrentNext(watch'[i].obj, watch'[i].name)
  OBVIOUS
<1>1. i + 1 \in DOMAIN watch /\ watch'[i] = watch[i + 1]
  BY DEF TypeOK
<1>2. CurrentNext(watch[i + 1].obj, watch[i + 1].name)
  BY <1>1, EventStays
<1> QED  BY <1>1, <1>2

LEMMA WatchStays ==
  ASSUME TypeOK, SpecInv, \A n \in Names : Moved(n), UNCHANGED watch
  PROVE  \A i \in DOMAIN watch' : CurrentNext(watch'[i].obj, watch'[i].name)
BY EventStays

LEMMA AppendStays ==
  ASSUME TypeOK, SpecInv, \A n \in Names : Moved(n), NEW q, NEW e, q \in Seq(Event), e \in Event,
         q = watch \/ (watch # <<>> /\ q = Tail(watch)), watch' = Append(q, e),
         CurrentNext(e.obj, e.name)
  PROVE  \A i \in DOMAIN watch' : CurrentNext(watch'[i].obj, watch'[i].name)
<1> SUFFICES ASSUME NEW i \in DOMAIN watch'
             PROVE  CurrentNext(watch'[i].obj, watch'[i].name)
  OBVIOUS
<1> HIDE DEF Event
<1>1. CASE i = Len(q) + 1
  <2>1. watch'[i] = e
    BY <1>1
  <2> QED  BY <2>1
<1>2. CASE i # Len(q) + 1
  <2>1. i \in DOMAIN q /\ watch'[i] = q[i]
    BY <1>2
  <2>2. PICK k \in DOMAIN watch : q[i] = watch[k]
    <3>1. CASE q = watch
      BY <2>1, <3>1
    <3>2. CASE watch # <<>> /\ q = Tail(watch)
      <4>1. i + 1 \in DOMAIN watch /\ q[i] = watch[i + 1]
        BY <2>1, <3>2 DEF TypeOK
      <4> QED  BY <4>1
    <3> QED  BY <3>1, <3>2
  <2>3. CurrentNext(watch[k].obj, watch[k].name)
    BY EventStays
  <2> QED  BY <2>1, <2>2, <2>3
<1> QED  BY <1>1, <1>2

(* A watch that is opened sends the objects as they are.                   *)
LEMMA OpenWatchSpecs ==
  ASSUME TypeOK, SpecInv, OpenWatch, UNCHANGED <<api, revs>>
  PROVE  \A i \in DOMAIN watch' : CurrentNext(watch'[i].obj, watch'[i].name)
<1>1. PICK order \in SetToSeqs(Present) :
        watch' = [i \in DOMAIN order |-> NewEvent("Added", order[i], api[order[i]])]
  BY DEF OpenWatch
<1>2. IsFiniteSet(Present)
  BY ConstantsAssumption, FS_Subset DEF Present
<1>3. order \in Seq(Present)
  BY <1>2, OrderSeq
<1> SUFFICES ASSUME NEW i \in DOMAIN watch'
             PROVE  CurrentNext(watch'[i].obj, watch'[i].name)
  OBVIOUS
<1>4. order[i] \in Names /\ api[order[i]] # Nil
  BY <1>1, <1>3 DEF Present
<1>5. watch'[i].obj = api[order[i]] /\ watch'[i].name = order[i]
  BY <1>1 DEF NewEvent
<1>6. revs[order[i]] \in Nat /\ api[order[i]].rev = revs[order[i]]
  BY <1>4 DEF TypeOK, SpecInv
<1>7. CurrentNext(api[order[i]], order[i])
  BY <1>4, <1>6 DEF CurrentNext
<1> QED  BY <1>5, <1>7

LEMMA ForgetSpecs ==
  ASSUME TypeOK, SpecInv, Forget,
         \A n \in Names : /\ Moved(n) /\ SpecKept(n)
                          /\ api'[n] # Nil => api'[n].rev = revs'[n]
  PROVE  SpecStep
<1>1. files' = [n \in Names |-> Nil] /\ watch' = <<>>
  BY DEF Forget
<1>2. KeepsSpecs
  BY DEF KeepsSpecs
<1> QED  BY <1>1, <1>2, StoreMoves

LEMMA PanicSpecs ==
  ASSUME TypeOK, SpecInv, Forget, UNCHANGED <<api, revs>>
  PROVE  SpecStep
BY ForgetSpecs DEF Moved, SpecKept, SpecInv

LEMMA PanicInLoopSpecs ==
  ASSUME TypeOK, SpecInv, NEW objs, NEW fine, NEW queued, PanicInLoop(objs, fine, queued),
         fine \subseteq Names, \A n \in fine : objs[n] \in Object /\ Current(objs[n], n)
  PROVE  SpecStep
<1>1. PICK S \in SUBSET fine : Put([n \in S |-> objs[n]])
  BY DEF PanicInLoop
<1> DEFINE part == [n \in S |-> objs[n]]
<1>2. IsObjects(part) /\ \A n \in DOMAIN part : Current(part[n], n)
  BY DEF IsObjects
<1> HIDE DEF part
<1>3. Put(part)
  BY <1>1 DEF part
<1> QED  BY <1>2, <1>3, PutKeeps, ForgetSpecs DEF PanicInLoop

(* A step that leaves the objects, the events and the copies.              *)
LEMMA SpecsRest ==
  ASSUME TypeOK, SpecInv, UNCHANGED toldVars,
         \A n \in Names : files'[n] # Nil /\ files'[n].res # Nil =>
                            files[n] # Nil /\ files'[n].res = files[n].res
  PROVE  SpecStep
BY MovedRests, CopiesRest, WatchStays, StoreRests DEF storeVars, toldVars

(* A copy with another phase or capacity is of the same version.           *)
LEMMA SameVersion ==
  ASSUME NEW o \in Object, NEW p, NEW c
  PROVE  /\ [o EXCEPT !.phase = p].rev = o.rev /\ [o EXCEPT !.phase = p].spec = o.spec
         /\ [o EXCEPT !.cap = c].rev = o.rev /\ [o EXCEPT !.cap = c].spec = o.spec
BY DEF Object, ObjectOf

LEMMA AnswerCurrent ==
  ASSUME TypeOK, SpecInv, NEW objs, IsObjects(objs), Put(objs),
         \A n \in DOMAIN objs : Current(objs[n], n), NEW n \in DOMAIN objs
  PROVE  /\ CurrentNext(Answer(objs, n, objs[n]), n)
         /\ Answer(objs, n, Nil) # Nil => CurrentNext(Answer(objs, n, Nil), n)
<1>1. CurrentNext(objs[n], n) /\ (n \in Accepted(objs) => CurrentNext(Stored(objs, n), n))
  BY PutKeeps
<1> QED  BY <1>1 DEF Answer

LEMMA BootSpecs ==
  ASSUME TypeOK, SpecInv, Boot PROVE SpecStep
BY MovedRests, CopiesRest, OpenWatchSpecs, StoreRests DEF Boot

LEMMA WatchEOFSpecs ==
  ASSUME TypeOK, SpecInv, WatchEOF PROVE SpecStep
BY MovedRests, CopiesRest, OpenWatchSpecs, StoreRests DEF WatchEOF

LEMMA LoadFilesSpecs ==
  ASSUME TypeOK, SpecInv, LoadFileResources PROVE SpecStep
<1>1. UNCHANGED <<api, revs, watch>>
  BY DEF LoadFileResources, storeVars, toldVars
<1>2. ASSUME NEW n \in Names, files'[n] # Nil, files'[n].res # Nil
      PROVE  CurrentNext(files'[n].res, n)
  <2>1. api[n] # Nil /\ files'[n].res = api[n]
    BY <1>2 DEF LoadFileResources, Ours
  <2>2. revs[n] \in Nat /\ api[n].rev = revs[n]
    BY <2>1 DEF TypeOK, SpecInv
  <2> QED  BY <1>1, <2>1, <2>2 DEF CurrentNext
<1> QED  BY <1>1, <1>2, MovedRests, WatchStays, StoreRests

LEMMA AddFileSpecs ==
  ASSUME IndInv, SpecInv, NEW e \in Event, watch # <<>>, Current(e.obj, e.name), AddFile(e)
  PROVE  SpecStep
<1> DEFINE n    == e.name
           new  == e.obj.spec # Elsewhere /\ files[n] = Nil
           objs == [m \in {n} |-> [e.obj EXCEPT !.phase = "Pending"]]
<1>0. TypeOK
  BY DEF IndInv
<1>1. CASE Ignore
  BY <1>0, <1>1, MovedRests, CopiesRest, TailStays, StoreRests DEF Ignore
<1>2. CASE Panic
  BY <1>0, <1>2, PanicSpecs DEF Panic
<1>3. CASE /\ new /\ Put(objs)
           /\ watch' = Tail(watch) \o
                (IF n \in Written(objs) THEN <<NewEvent("Modified", n, Stored(objs, n))>> ELSE <<>>)
           /\ files' = [files EXCEPT ![n] = [res |-> Answer(objs, n, objs[n]), vol |-> "nil"]]
  <2>1. n \in Names /\ e.obj \in Object
    BY DEF Event
  <2>2. DOMAIN objs = {n} /\ objs[n] = [e.obj EXCEPT !.phase = "Pending"]
    OBVIOUS
  <2> HIDE DEF objs
  <2>3. objs[n] \in Object /\ objs[n].rev = e.obj.rev /\ objs[n].spec = e.obj.spec
    <3>1. "Pending" \in Phases
      BY DEF Phases
    <3>2. [e.obj EXCEPT !.phase = "Pending"] \in Object
      BY <2>1, <3>1, PhaseType
    <3>3. /\ [e.obj EXCEPT !.phase = "Pending"].rev = e.obj.rev
          /\ [e.obj EXCEPT !.phase = "Pending"].spec = e.obj.spec
      BY <2>1, SameVersion
    <3> QED  BY <2>2, <3>2, <3>3
  <2>4. IsObjects(objs) /\ \A m \in DOMAIN objs : Current(objs[m], m)
    BY <2>1, <2>2, <2>3 DEF IsObjects, Current
  <2>5. Put(objs)
    BY <1>3
  <2>6. /\ \A m \in Names : Moved(m) /\ SpecKept(m) /\ (api'[m] # Nil => api'[m].rev = revs'[m])
        /\ CurrentNext(Answer(objs, n, objs[n]), n)
        /\ n \in Accepted(objs) => CurrentNext(Stored(objs, n), n)
    BY <1>0, <2>2, <2>4, <2>5, PutKeeps, AnswerCurrent
  <2>7. ASSUME NEW m \in Names, files'[m] # Nil, files'[m].res # Nil
        PROVE  CurrentNext(files'[m].res, m)
    <3>1. CASE m = n
      <4>1. files'[m].res = Answer(objs, n, objs[n])
        BY <1>0, <1>3, <3>1 DEF TypeOK
      <4> QED  BY <2>6, <3>1, <4>1
    <3>2. CASE m # n
      <4>1. files'[m] = files[m]
        BY <1>0, <1>3, <3>2 DEF TypeOK
      <4>2. CurrentNext(files[m].res, m)
        BY <1>0, <2>6, <2>7, <4>1, CopyStays
      <4> QED  BY <4>1, <4>2
    <3> QED  BY <3>1, <3>2
  <2>8. \A i \in DOMAIN watch' : CurrentNext(watch'[i].obj, watch'[i].name)
    <3>1. CASE n \in Written(objs)
      <4> DEFINE ev == NewEvent("Modified", n, Stored(objs, n))
      <4>1. ev.obj = Stored(objs, n) /\ ev.name = n
        BY DEF NewEvent
      <4>2. ev \in Event
        BY <1>0, <2>1, <2>2, <2>4, StoredType DEF NewEvent, Event
      <4>3. n \in Accepted(objs)
        BY <3>1 DEF Written
      <4>4. Tail(watch) \in Seq(Event) /\ watch' = Tail(watch) \o <<ev>>
        BY <1>0, <1>3, <3>1 DEF TypeOK
      <4> HIDE DEF ev
      <4>5. watch' = Append(Tail(watch), ev)
        BY <4>2, <4>4
      <4>6. CurrentNext(ev.obj, ev.name)
        BY <2>6, <4>1, <4>3
      <4> QED  BY <1>0, <2>6, <4>2, <4>4, <4>5, <4>6, AppendStays
    <3>2. CASE n \notin Written(objs)
      <4>1. watch' = Tail(watch)
        BY <1>0, <1>3, <3>2 DEF TypeOK
      <4> QED  BY <1>0, <2>6, <4>1, TailStays
    <3> QED  BY <3>1, <3>2
  <2>9. KeepsSpecs
    BY <2>6 DEF KeepsSpecs
  <2> QED  BY <2>6, <2>7, <2>8, <2>9, StoreMoves
<1> QED  BY <1>1, <1>2, <1>3 DEF AddFile

LEMMA ModifyFileSpecs ==
  ASSUME IndInv, SpecInv, NEW e \in Event, watch # <<>>, Current(e.obj, e.name), ModifyFile(e)
  PROVE  SpecStep
<1>0. TypeOK
  BY DEF IndInv
<1>1. CASE Ignore
  BY <1>0, <1>1, MovedRests, CopiesRest, TailStays, StoreRests DEF Ignore
<1>2. CASE Panic
  BY <1>0, <1>2, PanicSpecs DEF Panic
<1>3. CASE /\ files[e.name] # Nil /\ files' = [files EXCEPT ![e.name].res = e.obj]
           /\ watch' = Tail(watch) /\ UNCHANGED <<api, revs>>
  <2>1. ASSUME NEW m \in Names, files'[m] # Nil, files'[m].res # Nil
        PROVE  CurrentNext(files'[m].res, m)
    <3>1. CASE m = e.name /\ files'[m].res = e.obj
      BY <1>3, <3>1 DEF Current, CurrentNext
    <3>2. CASE files'[m] = files[m]
      <4>1. CurrentNext(files[m].res, m)
        BY <1>0, <1>3, <2>1, <3>2, MovedRests, CopyStays
      <4> QED  BY <3>2, <4>1
    <3>3. CASE m = e.name /\ files[m] \in File
      <4>1. files'[m].res = e.obj
        BY <1>0, <1>3, <3>3 DEF TypeOK, File
      <4> QED  BY <3>1, <3>3, <4>1
    <3>4. files[m] \in File \union {Nil}
      BY <1>0 DEF TypeOK
    <3>5. m # e.name => files'[m] = files[m]
      BY <1>0, <1>3 DEF TypeOK
    <3> QED  BY <1>3, <3>2, <3>3, <3>4, <3>5
  <2> QED  BY <1>0, <1>3, <2>1, MovedRests, TailStays, StoreRests
<1> QED  BY <1>1, <1>2, <1>3 DEF ModifyFile

LEMMA DeleteFileSpecs ==
  ASSUME IndInv, SpecInv, NEW e \in Event, watch # <<>>, DeleteFile(e)
  PROVE  SpecStep
<1>0. TypeOK
  BY DEF IndInv
<1>1. CASE Ignore
  BY <1>0, <1>1, MovedRests, CopiesRest, TailStays, StoreRests DEF Ignore
<1>2. CASE /\ files' = [files EXCEPT ![e.name] = Nil]
           /\ watch' = Tail(watch) /\ UNCHANGED <<api, revs>>
  <2>1. \A m \in Names : files'[m] # Nil => files'[m] = files[m]
    BY <1>0, <1>2 DEF TypeOK
  <2> QED  BY <1>0, <1>2, <2>1, MovedRests, CopiesRest, TailStays, StoreRests
<1> QED  BY <1>1, <1>2 DEF DeleteFile

LEMMA WatchEventSpecs ==
  ASSUME IndInv, SpecInv, WatchEvent PROVE SpecStep
<1> DEFINE e == Head(watch)
<1>1. watch # <<>> /\ e \in Event
  BY DEF WatchEvent, IndInv, TypeOK
<1>2. Current(e.obj, e.name)
  <2>1. 1 \in DOMAIN watch /\ e = watch[1]
    BY <1>1 DEF IndInv, TypeOK
  <2>2. Current(watch[1].obj, watch[1].name)
    BY <2>1 DEF SpecInv
  <2> QED  BY <2>1, <2>2
<1>3. AddFile(e) \/ ModifyFile(e) \/ DeleteFile(e)
  BY DEF WatchEvent
<1> HIDE DEF e
<1> QED  BY <1>1, <1>2, <1>3, AddFileSpecs, ModifyFileSpecs, DeleteFileSpecs

LEMMA ConnLostSpecs ==
  ASSUME TypeOK, SpecInv, ConnLost PROVE SpecStep
<1>1. \A n \in Names : files'[n] # Nil => files[n] # Nil /\ files'[n].res = files[n].res
  BY DEF ConnLost, TypeOK, File
<1> QED  BY <1>1, SpecsRest DEF ConnLost, storeVars, toldVars

LEMMA ConnectFailedSpecs ==
  ASSUME TypeOK, SpecInv, ConnectFailed PROVE SpecStep
<1>1. CASE Panic
  BY <1>1, PanicSpecs DEF Panic
<1>2. CASE /\ files' = [n \in Names |-> IF files[n] = Nil THEN Nil
                                        ELSE [files[n] EXCEPT !.vol = "nil"]]
           /\ UNCHANGED toldVars
  <2>1. \A n \in Names : files'[n] # Nil => files[n] # Nil /\ files'[n].res = files[n].res
    BY <1>2 DEF TypeOK, File
  <2> QED  BY <1>2, <2>1, SpecsRest
<1> QED  BY <1>1, <1>2 DEF ConnectFailed, storeVars, toldVars

LEMMA LoadedSpecs ==
  ASSUME TypeOK, SpecInv, NEW n \in Mapped \ NoRes
  PROVE  Current(LoadedObjects[n], n)
<1>1. n \in Names /\ files[n] # Nil /\ files[n].res # Nil /\ files[n].res \in OurObject
  BY DEF Mapped, NoRes, TypeOK, File
<1>2. files[n].res \in Object /\ Current(files[n].res, n)
  BY <1>1, ObjectType DEF SpecInv
<1>3. PICK p : LoadedObjects[n] = [files[n].res EXCEPT !.phase = p]
  BY DEF LoadedObjects
<1>4. LoadedObjects[n].rev = files[n].res.rev /\ LoadedObjects[n].spec = files[n].res.spec
  BY <1>2, <1>3, SameVersion
<1> QED  BY <1>2, <1>4 DEF Current

LEMMA RefreshedSpecs ==
  ASSUME TypeOK, SpecInv, NEW bad, NEW n \in Held \ NoRes
  PROVE  Current(RefreshedObjects(bad)[n], n)
<1>1. n \in Names /\ files[n] # Nil /\ files[n].res # Nil /\ files[n].res \in OurObject
  BY DEF Held, Mapped, NoRes, TypeOK, File
<1>2. files[n].res \in Object /\ Current(files[n].res, n)
  BY <1>1, ObjectType DEF SpecInv
<1>3. RefreshedObjects(bad)[n] = [files[n].res EXCEPT !.phase = "Failed"]
      \/ RefreshedObjects(bad)[n] = [files[n].res EXCEPT !.cap = vols[n]]
  BY DEF RefreshedObjects
<1>4. /\ RefreshedObjects(bad)[n].rev = files[n].res.rev
      /\ RefreshedObjects(bad)[n].spec = files[n].res.spec
  <2>1. CASE RefreshedObjects(bad)[n] = [files[n].res EXCEPT !.phase = "Failed"]
    BY <1>2, <2>1, SameVersion
  <2>2. CASE RefreshedObjects(bad)[n] = [files[n].res EXCEPT !.cap = vols[n]]
    BY <1>2, <2>2, SameVersion
  <2> QED  BY <1>3, <2>1, <2>2
<1> QED  BY <1>2, <1>4 DEF Current

LEMMA PoolReadySpecs ==
  ASSUME TypeOK, SpecInv, PoolReady PROVE SpecStep
<1>1. CASE UNCHANGED <<toldVars, files>>
  BY <1>1, SpecsRest
<1>2. CASE NoRes = {} /\ LoadVolumes
  <2> DEFINE objs == LoadedObjects
  <2>1. /\ DOMAIN objs = Mapped /\ IsObjects(objs) /\ PutAndNotify(objs)
        /\ \A n \in DOMAIN objs : Current(objs[n], n)
    BY <1>2, LoadedType, LoadedSpecs DEF LoadVolumes
  <2>2. \A n \in Names : files'[n] # Nil => n \in Mapped /\ files'[n].res = Answer(objs, n, objs[n])
    BY <1>2 DEF LoadVolumes
  <2> HIDE DEF objs
  <2>3. Put(objs)
    BY <2>1 DEF PutAndNotify
  <2>4. \A n \in Names : Moved(n) /\ SpecKept(n) /\ (api'[n] # Nil => api'[n].rev = revs'[n])
    BY <2>1, <2>3, PutKeeps
  <2>5. \A n \in DOMAIN objs : CurrentNext(Answer(objs, n, objs[n]), n)
    BY <2>1, <2>3, AnswerCurrent
  <2>6. \A n \in Names : files'[n] # Nil /\ files'[n].res # Nil => CurrentNext(files'[n].res, n)
    BY <2>1, <2>2, <2>5
  <2>7. \A i \in DOMAIN watch' : CurrentNext(watch'[i].obj, watch'[i].name)
    BY <2>1, NotifyKeeps
  <2>8. KeepsSpecs
    BY <2>4 DEF KeepsSpecs
  <2> QED  BY <2>4, <2>6, <2>7, <2>8, StoreMoves
<1>3. CASE PanicInLoop(LoadedObjects, Mapped \ NoRes, Mapped \ (NoRes \union Found))
  <2>1. /\ Mapped \ NoRes \subseteq Names
        /\ \A n \in Mapped \ NoRes : LoadedObjects[n] \in Object /\ Current(LoadedObjects[n], n)
    BY LoadedType, LoadedSpecs DEF IsObjects, Mapped
  <2> QED  BY <1>3, <2>1, PanicInLoopSpecs
<1> QED  BY <1>1, <1>2, <1>3 DEF PoolReady, storeVars, toldVars

LEMMA FinishJobSpecs ==
  ASSUME IndInv, SpecInv, FinishJob PROVE SpecStep
<1>0. TypeOK
  BY DEF IndInv
<1> DEFINE j == Head(completed)
           n == j.name
<1>1. CASE Panic
  BY <1>0, <1>1, PanicSpecs DEF Panic
<1>2. CASE UNCHANGED <<toldVars, files>>
  BY <1>0, <1>2, SpecsRest
<1>3. CASE /\ UNCHANGED toldVars /\ j.mapped /\ files[n].res # Nil
           /\ files' = [files EXCEPT ![n].vol = j.made,
                                     ![n].res.phase = IF j.made = "nil" THEN "Failed"
                                                      ELSE "Available"]
  <2>1. n \in Names /\ files[n] # Nil
    <3>1. j \in MappedJobs
      BY DEF FinishJob, IndInv, JobsMapped
    <3> QED  BY <1>3, <3>1 DEF MappedJobs, Job, JobOf
  <2>2. files[n] \in File /\ files[n].res \in OurObject
    BY <1>0, <1>3, <2>1 DEF TypeOK, File
  <2> HIDE DEF n, j
  <2>3. PICK p : files' = [files EXCEPT ![n].vol = j.made, ![n].res.phase = p]
    BY <1>3
  <2>4. files'[n].res = [files[n].res EXCEPT !.phase = p]
    BY <1>0, <2>1, <2>2, <2>3 DEF TypeOK, File
  <2>5. files'[n].res.rev = files[n].res.rev /\ files'[n].res.spec = files[n].res.spec
    BY <2>2, <2>4, ObjectType, SameVersion
  <2>6. UNCHANGED <<api, revs, watch>>
    BY <1>3 DEF storeVars, toldVars
  <2>7. CurrentNext(files[n].res, n)
    BY <1>0, <1>3, <2>1, <2>6, MovedRests, CopyStays
  <2>8. ASSUME NEW m \in Names, files'[m] # Nil, files'[m].res # Nil
        PROVE  CurrentNext(files'[m].res, m)
    <3>1. CASE m = n
      BY <2>5, <2>7, <3>1 DEF CurrentNext
    <3>2. CASE m # n
      <4>1. files'[m] = files[m]
        BY <1>0, <2>3, <3>2 DEF TypeOK
      <4>2. CurrentNext(files[m].res, m)
        BY <1>0, <2>6, <2>8, <4>1, MovedRests, CopyStays
      <4> QED  BY <4>1, <4>2
    <3> QED  BY <3>1, <3>2
  <2> QED  BY <1>0, <2>6, <2>8, MovedRests, WatchStays, StoreRests
<1> QED  BY <1>1, <1>2, <1>3 DEF FinishJob, storeVars, toldVars

LEMMA RefreshSizesSpecs ==
  ASSUME TypeOK, SpecInv, RefreshSizes PROVE SpecStep
<1>1. CASE UNCHANGED <<toldVars, files>>
  BY <1>1, SpecsRest
<1>2. ASSUME NEW bad \in SUBSET Held, Gone \subseteq bad,
             PanicInLoop(RefreshedObjects(bad), Held \ NoRes, {})
      PROVE  SpecStep
  <2>1. /\ Held \ NoRes \subseteq Names
        /\ \A n \in Held \ NoRes : /\ RefreshedObjects(bad)[n] \in Object
                                   /\ Current(RefreshedObjects(bad)[n], n)
    BY <1>2, RefreshedType, RefreshedSpecs DEF IsObjects, Held, Mapped
  <2> QED  BY <1>2, <2>1, PanicInLoopSpecs
<1>3. ASSUME NEW bad \in SUBSET Held, Gone \subseteq bad, Held \intersect NoRes = {},
             PutAndNotify(RefreshedObjects(bad)),
             files' = [n \in Names |->
                         IF n \notin Held THEN files[n]
                         ELSE [res |-> Answer(RefreshedObjects(bad), n, Nil),
                               vol |-> IF n \in bad THEN "nil" ELSE files[n].vol]]
      PROVE  SpecStep
  <2> DEFINE objs == RefreshedObjects(bad)
  <2>1. /\ DOMAIN objs = Held /\ IsObjects(objs) /\ PutAndNotify(objs)
        /\ \A n \in DOMAIN objs : Current(objs[n], n)
    BY <1>3, RefreshedType, RefreshedSpecs
  <2>2. \A n \in Names : IF n \in Held THEN files'[n].res = Answer(objs, n, Nil)
                         ELSE files'[n] = files[n]
    BY <1>3
  <2> HIDE DEF objs
  <2>3. Put(objs)
    BY <2>1 DEF PutAndNotify
  <2>4. \A n \in Names : Moved(n) /\ SpecKept(n) /\ (api'[n] # Nil => api'[n].rev = revs'[n])
    BY <2>1, <2>3, PutKeeps
  <2>5. \A n \in DOMAIN objs : Answer(objs, n, Nil) # Nil => CurrentNext(Answer(objs, n, Nil), n)
    BY <2>1, <2>3, AnswerCurrent
  <2>6. ASSUME NEW n \in Names, files'[n] # Nil, files'[n].res # Nil
        PROVE  CurrentNext(files'[n].res, n)
    <3>1. CASE n \in Held
      BY <2>1, <2>2, <2>5, <2>6, <3>1
    <3>2. CASE n \notin Held
      <4>1. files'[n] = files[n]
        BY <2>2, <3>2
      <4>2. CurrentNext(files[n].res, n)
        BY <2>4, <2>6, <4>1, CopyStays
      <4> QED  BY <4>1, <4>2
    <3> QED  BY <3>1, <3>2
  <2>7. \A i \in DOMAIN watch' : CurrentNext(watch'[i].obj, watch'[i].name)
    BY <2>1, NotifyKeeps
  <2>8. KeepsSpecs
    BY <2>4 DEF KeepsSpecs
  <2> QED  BY <2>4, <2>6, <2>7, <2>8, StoreMoves
<1> QED  BY <1>1, <1>2, <1>3 DEF RefreshSizes, storeVars, toldVars

LEMMA SpecTypes ==
  Specs \subseteq Sizes \union {Elsewhere}
BY DEF Specs

(* What users do: an object of a new version, or of none, and its event.   *)
LEMMA UserSpecs ==
  ASSUME IndInv, SpecInv, NEW n \in Names, UserCreate(n) \/ UserModify(n) \/ UserDelete(n)
  PROVE  SpecStep
<1>0. TypeOK /\ revs \in [Names -> Nat] /\ api \in [Names -> Object \union {Nil}]
  BY DEF IndInv, TypeOK
<1>1. KeepsSpecs
  <2>1. "user" \in Faults /\ "move" \in Faults /\ budget \in [Faults -> Nat]
    BY <1>0 DEF Faults, TypeOK
  <2>2. budget'["user"] = budget["user"] - 1
    BY <2>1 DEF UserCreate, UserModify, UserDelete, Spend
  <2> QED  BY <2>1, <2>2 DEF KeepsSpecs
<1>2. UNCHANGED files
  BY DEF UserCreate, UserModify, UserDelete
<1>3. ASSUME NEW o, NEW t, NEW a \in Object \union {Nil}, a # Nil => a.rev = revs[n] + 1,
             api' = [api EXCEPT ![n] = a],
             revs' = (IF a = Nil THEN revs ELSE [revs EXCEPT ![n] = revs[n] + 1]),
             Notify(NewEvent(t, n, o)), NewEvent(t, n, o) \in Event,
             (a # Nil /\ o = a) \/ (a = Nil /\ o.rev = revs[n])
      PROVE  SpecStep
  <2>1. \A m \in Names : Moved(m)
    BY <1>0, <1>3 DEF Moved
  <2>2. \A m \in Names : api'[m] # Nil => api'[m].rev = revs'[m]
    BY <1>0, <1>3 DEF SpecInv
  <2>3. CurrentNext(o, n)
    <3>1. api'[n] = a /\ revs[n] \in Nat /\ revs'[n] = (IF a = Nil THEN revs[n] ELSE revs[n] + 1)
      BY <1>0, <1>3
    <3> QED  BY <1>3, <3>1 DEF CurrentNext
  <2>4. NewEvent(t, n, o).obj = o /\ NewEvent(t, n, o).name = n
    BY DEF NewEvent
  <2>5. \A i \in DOMAIN watch' : CurrentNext(watch'[i].obj, watch'[i].name)
    <3>1. CASE watch' = watch
      BY <1>0, <2>1, <3>1, WatchStays
    <3>2. CASE watch' = Append(watch, NewEvent(t, n, o))
      <4>1. watch \in Seq(Event)
        BY <1>0 DEF TypeOK
      <4> QED  BY <1>0, <1>3, <2>1, <2>3, <2>4, <3>2, <4>1, AppendStays
    <3> QED  BY <1>3, <3>1, <3>2 DEF Notify
  <2>6. \A m \in Names : files'[m] # Nil /\ files'[m].res # Nil => CurrentNext(files'[m].res, m)
    BY <1>0, <1>2, <2>1, CopiesRest
  <2> QED  BY <1>1, <2>1, <2>2, <2>5, <2>6, StoreMoves
<1>4. ASSUME UserCreate(n) PROVE SpecStep
  <2>1. PICK s \in Specs :
          /\ api' = [api EXCEPT ![n] = [rev |-> revs[n] + 1, spec |-> s, phase |-> "", cap |-> 0]]
          /\ Notify(NewEvent("Added", n, [rev |-> revs[n] + 1, spec |-> s, phase |-> "", cap |-> 0]))
    BY <1>4 DEF UserCreate
  <2> DEFINE o == [rev |-> revs[n] + 1, spec |-> s, phase |-> "", cap |-> 0]
  <2>2. o \in Object /\ o.rev = revs[n] + 1 /\ revs' = [revs EXCEPT ![n] = revs[n] + 1]
    <3>1. revs[n] + 1 \in Nat /\ s \in Sizes \union {Elsewhere}
      BY <1>0, SpecTypes
    <3>2. o \in Object /\ o.rev = revs[n] + 1
      BY <3>1 DEF Object, ObjectOf, Phases
    <3> QED  BY <1>4, <3>2 DEF UserCreate
  <2>3. api' = [api EXCEPT ![n] = o] /\ Notify(NewEvent("Added", n, o))
    BY <2>1
  <2> HIDE DEF o
  <2>4. NewEvent("Added", n, o) \in Event /\ o # Nil
    BY <2>2, NilAssumption DEF NewEvent, Event
  <2> QED  BY <1>3, <2>2, <2>3, <2>4
<1>5. ASSUME UserModify(n) PROVE SpecStep
  <2>1. PICK s \in Specs :
          /\ api' = [api EXCEPT ![n] = [api[n] EXCEPT !.rev = revs[n] + 1, !.spec = s]]
          /\ Notify(NewEvent("Modified", n, [api[n] EXCEPT !.rev = revs[n] + 1, !.spec = s]))
    BY <1>5 DEF UserModify
  <2> DEFINE o == [api[n] EXCEPT !.rev = revs[n] + 1, !.spec = s]
  <2>2. o \in Object /\ o.rev = revs[n] + 1 /\ revs' = [revs EXCEPT ![n] = revs[n] + 1]
    <3>0. api[n] # Nil
      BY <1>5 DEF UserModify
    <3>1. api[n] \in Object /\ revs[n] + 1 \in Nat /\ s \in Sizes \union {Elsewhere}
      BY <1>0, <3>0, SpecTypes
    <3>2. o \in Object /\ o.rev = revs[n] + 1
      BY <3>1 DEF Object, ObjectOf
    <3> QED  BY <1>5, <3>2 DEF UserModify
  <2>3. api' = [api EXCEPT ![n] = o] /\ Notify(NewEvent("Modified", n, o))
    BY <2>1
  <2> HIDE DEF o
  <2>4. NewEvent("Modified", n, o) \in Event /\ o # Nil
    BY <2>2, NilAssumption DEF NewEvent, Event
  <2> QED  BY <1>3, <2>2, <2>3, <2>4
<1>6. ASSUME UserDelete(n) PROVE SpecStep
  <2>1. /\ api[n] \in Object /\ api' = [api EXCEPT ![n] = Nil] /\ revs' = revs
        /\ Notify(NewEvent("Deleted", n, api[n])) /\ api[n].rev = revs[n]
    BY <1>0, <1>6 DEF UserDelete, SpecInv
  <2>2. NewEvent("Deleted", n, api[n]) \in Event
    BY <2>1 DEF NewEvent, Event
  <2> QED  BY <1>3, <2>1, <2>2
<1> QED  BY <1>4, <1>5, <1>6

LEMMA SpecStepInv ==
  ASSUME IndInv, SpecInv, [Next]_vars
  PROVE  SpecStep
<1>0. TypeOK
  BY DEF IndInv
<1>1. CASE UNCHANGED <<toldVars, files>>
  BY <1>0, <1>1, SpecsRest
<1>2. CASE Kill
  BY <1>0, <1>2, PanicSpecs DEF Kill
<1>3. CASE Connect \/ PoolLoadFails \/ Tick \/ \E w \in Workers : Take(w) \/ Process(w) \/ HandOver(w)
  BY <1>1, <1>3 DEF Connect, PoolLoadFails, Tick, Take, Process, HandOver, storeVars, toldVars
<1>4. CASE WatchEvent \/ WatchEOF \/ Boot \/ LoadFileResources
  BY <1>0, <1>4, WatchEventSpecs, WatchEOFSpecs, BootSpecs, LoadFilesSpecs
<1>5. CASE ConnLost \/ ConnectFailed \/ PoolReady \/ FinishJob \/ RefreshSizes
  BY <1>0, <1>5, ConnLostSpecs, ConnectFailedSpecs, PoolReadySpecs, FinishJobSpecs, RefreshSizesSpecs
<1>6. CASE \E n \in Names : UserCreate(n) \/ UserModify(n) \/ UserDelete(n)
  BY <1>6, UserSpecs
<1>7. CASE \E n \in Names : Outage(n) \/ OutageEnds(n)
  BY <1>1, <1>7 DEF Outage, OutageEnds, toldVars
<1>8. CASE UNCHANGED vars
  BY <1>1, <1>8 DEF vars, storeVars, toldVars
<1> QED  BY <1>2, <1>3, <1>4, <1>5, <1>6, <1>7, <1>8 DEF Next, MainLoop

(* No PUT of the daemon, made from the copy it has, takes back what a user *)
(* has asked for, whatever it has missed: the watch may have ended, the    *)
(* PUT before it been refused, its copy be of any age.                     *)
THEOREM KeepsUserSpecs == Spec => DaemonKeepsSpecs
<1>1. Init => SpecInv
  BY DEF Init, SpecInv
<1>2. IndInv /\ SpecInv /\ [Next]_vars => SpecInv'
  BY SpecStepInv DEF SpecStep
<1>3. Spec => []SpecInv
  BY <1>1, <1>2, Invariance, PTL DEF Spec
<1>4. IndInv /\ SpecInv /\ [Next]_vars =>
        [budget'["user"] = budget["user"] =>
           \A n \in Names : api[n] # Nil => api'[n] # Nil /\ api'[n].spec = api[n].spec]_vars
  BY SpecStepInv DEF SpecStep, KeepsSpecs, SpecKept
<1> QED  BY <1>3, <1>4, Invariance, PTL DEF Spec, DaemonKeepsSpecs

-----------------------------------------------------------------------------
(* What the daemon has been told: the inductive invariant.                 *)

About(q, n) == {i \in DOMAIN q : q[i].name = n}   \* events of the file n in the queue q

IsOurs(o) == o # Nil /\ o.spec # Elsewhere
Begins(e) == e.type = "Added" /\ IsOurs(e.obj)    \* the daemon adds the file
Ends(e)   == e.type = "Deleted" /\ IsOurs(e.obj)  \* ... and drops it
HasRes(f) == f # Nil /\ f.res # Nil

(* Of the events q about n, the object o and the entry f of r.files: an    *)
(* object of this repository that q tells of is there or its end is told,  *)
Told(n, q, o) ==
  \A i \in About(q, n) : IsOurs(q[i].obj) =>
    IsOurs(o) \/ \E j \in About(q, n) : i <= j /\ Ends(q[j])

(* it does not begin anew before its end is told,                          *)
Parted(n, q) ==
  \A i, k \in About(q, n) : i < k /\ IsOurs(q[i].obj) /\ Begins(q[k]) =>
    \E j \in About(q, n) : i <= j /\ j < k /\ Ends(q[j])

(* the last event tells what the object is,                                *)
LastTells(n, q, o) ==
  \A i \in About(q, n) : (\A k \in About(q, n) : k <= i) =>
    IF q[i].type = "Deleted" THEN o = Nil ELSE o = q[i].obj

(* the daemon has an object of this repository or will add it for good,    *)
Known(n, q, o, f) ==
  IsOurs(o) =>
    \/ f # Nil /\ \A j \in About(q, n) : ~Ends(q[j])
    \/ \E i \in About(q, n) : Begins(q[i]) /\ \A j \in About(q, n) : i < j => ~Ends(q[j])

(* what it has is such an object or its end is told,                       *)
Leaves(n, q, o, f) == f # Nil => IsOurs(o) \/ \E j \in About(q, n) : Ends(q[j])

(* an ADDED that it will ignore is no news,                                *)
Newer(n, q, f) ==
  \A k \in About(q, n) :
    HasRes(f) /\ Begins(q[k]) /\ (\A j \in About(q, n) : j < k => ~Ends(q[j])) =>
      f.res.rev >= q[k].obj.rev

(* and with nothing left to be told it has the right spec.                 *)
Settled(n, q, o, f) == About(q, n) = {} /\ HasRes(f) => f.res.spec = o.spec

View(n, q, o, f) ==
  /\ Told(n, q, o) /\ Parted(n, q) /\ LastTells(n, q, o)
  /\ Known(n, q, o, f) /\ Leaves(n, q, o, f) /\ Newer(n, q, f) /\ Settled(n, q, o, f)

AllView == \A n \in Names : View(n, watch, api[n], files[n])

(* The watch has not ended and no file has changed repositories.           *)
Quiet == budget["eof"] = WatchEOFs /\ budget["move"] = Moves

NoFilesYet == proc \in {"down", "booted"} => \A n \in Names : files[n] = Nil

ViewInv ==
  /\ budget["eof"] <= WatchEOFs /\ budget["move"] <= Moves
  /\ NoFilesYet
  /\ Quiet /\ proc # "down" => AllView

-----------------------------------------------------------------------------
(* The queue of events, seen from one file.                                *)

LEMMA AboutNat ==
  ASSUME NEW q \in Seq(Event), NEW n
  PROVE  About(q, n) \subseteq Nat \ {0}
BY DEF About

(* p has the events of q about n, *)
Same(n, q, p) == About(p, n) = About(q, n) /\ \A i \in About(q, n) : p[i] = q[i]

(* one more, at the place k, *)
More(n, q, p, k) ==
  /\ About(p, n) = About(q, n) \union {k}
  /\ \A i \in About(q, n) : p[i] = q[i] /\ i < k

(* or all but the first event of q. *)
Less(n, q, p) ==
  /\ \A i \in About(p, n) : i + 1 \in About(q, n) /\ p[i] = q[i + 1]
  /\ \A j \in About(q, n) : j # 1 => j - 1 \in About(p, n) /\ p[j - 1] = q[j]

LEMMA TailLess ==
  ASSUME NEW q \in Seq(Event), q # <<>>, NEW n
  PROVE  Less(n, q, Tail(q))
<1>1. /\ DOMAIN Tail(q) = 1 .. Len(q) - 1 /\ DOMAIN q = 1 .. Len(q) /\ Len(q) \in Nat
      /\ \A i \in DOMAIN Tail(q) : Tail(q)[i] = q[i + 1]
  OBVIOUS
<1>2. \A i \in About(Tail(q), n) : i + 1 \in About(q, n) /\ Tail(q)[i] = q[i + 1]
  BY <1>1 DEF About
<1>3. ASSUME NEW j \in About(q, n), j # 1
      PROVE  j - 1 \in About(Tail(q), n) /\ Tail(q)[j - 1] = q[j]
  <2>1. j - 1 \in DOMAIN Tail(q) /\ (j - 1) + 1 = j
    BY <1>1, <1>3 DEF About
  <2>2. Tail(q)[j - 1] = q[j]
    BY <1>1, <2>1
  <2> QED  BY <1>3, <2>1, <2>2 DEF About
<1> QED  BY <1>2, <1>3 DEF Less

LEMMA AppendMore ==
  ASSUME NEW q \in Seq(Event), NEW e \in Event, NEW n
  PROVE  /\ e.name = n => More(n, q, Append(q, e), Len(q) + 1)
         /\ e.name # n => Same(n, q, Append(q, e))
         /\ Append(q, e)[Len(q) + 1] = e
<1> HIDE DEF Event
<1>1. /\ DOMAIN Append(q, e) = 1 .. Len(q) + 1 /\ DOMAIN q = 1 .. Len(q) /\ Len(q) \in Nat
      /\ \A i \in DOMAIN q : Append(q, e)[i] = q[i]
      /\ Append(q, e)[Len(q) + 1] = e
  OBVIOUS
<1> QED  BY <1>1 DEF About, More, Same

-----------------------------------------------------------------------------
(* The view of one file, event by event.                                   *)

(* An entry that stays, of a version at least as new and of the same spec. *)
Keeps(f, g) ==
  /\ g = Nil <=> f = Nil
  /\ HasRes(g) => HasRes(f) /\ g.res.spec = f.res.spec /\ g.res.rev >= f.res.rev

(* The versions are those of SpecInv.                                      *)
Copy(o, f) ==
  HasRes(f) /\ o # Nil =>
    f.res.rev <= o.rev /\ (f.res.rev = o.rev => f.res.spec = o.spec)

Numbered(q, f) ==
  /\ \A i \in DOMAIN q : q[i].obj.rev \in Nat
  /\ HasRes(f) => f.res.rev \in Nat

LEMMA ViewStays ==
  ASSUME NEW n, NEW q \in Seq(Event), NEW p, NEW o, NEW f, NEW g,
         View(n, q, o, f), Same(n, q, p), Keeps(f, g), Numbered(q, f), Numbered(q, g)
  PROVE  View(n, p, o, g)
<1>1. About(q, n) \subseteq DOMAIN q
  BY DEF About
<1>2. Told(n, p, o) /\ Parted(n, p) /\ LastTells(n, p, o)
  BY DEF View, Same, Told, Parted, LastTells
<1>3. Known(n, p, o, g) /\ Leaves(n, p, o, g) /\ Settled(n, p, o, g)
  BY DEF View, Same, Keeps, Known, Leaves, Settled
<1>4. Newer(n, p, g)
  <2>1. ASSUME NEW k \in About(p, n), HasRes(g), Begins(p[k]),
               \A j \in About(p, n) : j < k => ~Ends(p[j])
        PROVE  g.res.rev >= p[k].obj.rev
    <3>1. k \in About(q, n) /\ p[k] = q[k] /\ \A j \in About(q, n) : j < k => ~Ends(q[j])
      BY <2>1 DEF Same
    <3>2. HasRes(f) /\ g.res.rev >= f.res.rev
      BY <2>1 DEF Keeps
    <3>3. f.res.rev >= q[k].obj.rev
      BY <2>1, <3>1, <3>2 DEF View, Newer
    <3>4. f.res.rev \in Nat /\ g.res.rev \in Nat /\ q[k].obj.rev \in Nat
      BY <1>1, <2>1, <3>1, <3>2 DEF Numbered
    <3> QED  BY <3>1, <3>2, <3>3, <3>4
  <2> QED  BY <2>1 DEF Newer
<1> QED  BY <1>2, <1>3, <1>4 DEF View

(* A MODIFIED of an object that stays in, or out of, this repository.      *)
LEMMA ViewModified ==
  ASSUME NEW n, NEW q \in Seq(Event), NEW p, NEW k \in Nat, NEW o, NEW a, NEW f, NEW g,
         View(n, q, o, f), More(n, q, p, k), p[k] = NewEvent("Modified", n, a),
         a # Nil, IsOurs(a) <=> IsOurs(o), Keeps(f, g), Numbered(q, f), Numbered(q, g)
  PROVE  View(n, p, a, g)
<1>1. ~Begins(p[k]) /\ ~Ends(p[k]) /\ p[k].obj = a /\ p[k].type = "Modified"
  BY DEF NewEvent, Begins, Ends
<1>2. About(q, n) \subseteq DOMAIN q /\ About(q, n) \subseteq Nat
  BY AboutNat DEF About
<1>3. Told(n, p, a)
  BY <1>1 DEF View, More, Told
<1>4. Parted(n, p)
  <2>1. ASSUME NEW i \in About(p, n), NEW m \in About(p, n), i < m, IsOurs(p[i].obj), Begins(p[m])
        PROVE  \E j \in About(p, n) : i <= j /\ j < m /\ Ends(p[j])
    <3>1. m # k /\ m \in About(q, n) /\ m < k
      BY <1>1, <2>1 DEF More
    <3>2. i \in About(q, n)
      BY <1>2, <2>1, <3>1 DEF More
    <3>3. q[i] = p[i] /\ q[m] = p[m]
      BY <3>1, <3>2 DEF More
    <3>4. PICK j \in About(q, n) : i <= j /\ j < m /\ Ends(q[j])
      BY <2>1, <3>1, <3>2, <3>3 DEF View, Parted
    <3> QED  BY <3>4 DEF More
  <2> QED  BY <2>1 DEF Parted
<1>5. LastTells(n, p, a)
  <2>1. ASSUME NEW i \in About(p, n), \A m \in About(p, n) : m <= i
        PROVE  i = k
    BY <1>2, <2>1 DEF More
  <2> QED  BY <1>1, <2>1 DEF LastTells
<1>6. Known(n, p, a, g) /\ Leaves(n, p, a, g)
  BY <1>1 DEF View, More, Keeps, Known, Leaves
<1>7. Newer(n, p, g)
  <2>1. ASSUME NEW m \in About(p, n), HasRes(g), Begins(p[m]),
               \A j \in About(p, n) : j < m => ~Ends(p[j])
        PROVE  g.res.rev >= p[m].obj.rev
    <3>1. m \in About(q, n) /\ p[m] = q[m] /\ \A j \in About(q, n) : j < m => ~Ends(q[j])
      BY <1>1, <2>1 DEF More
    <3>2. HasRes(f) /\ g.res.rev >= f.res.rev
      BY <2>1 DEF Keeps
    <3>3. f.res.rev >= q[m].obj.rev
      BY <2>1, <3>1, <3>2 DEF View, Newer
    <3>4. f.res.rev \in Nat /\ g.res.rev \in Nat /\ q[m].obj.rev \in Nat
      BY <1>2, <2>1, <3>1, <3>2 DEF Numbered
    <3> QED  BY <3>1, <3>2, <3>3, <3>4
  <2> QED  BY <2>1 DEF Newer
<1>8. Settled(n, p, a, g)
  BY DEF More, Settled
<1> QED  BY <1>3, <1>4, <1>5, <1>6, <1>7, <1>8 DEF View

(* An ADDED of an object that was not there.                               *)
LEMMA ViewAdded ==
  ASSUME NEW n, NEW q \in Seq(Event), NEW p, NEW k \in Nat, NEW a, NEW f,
         View(n, q, Nil, f), More(n, q, p, k), p[k] = NewEvent("Added", n, a), a # Nil
  PROVE  View(n, p, a, f)
<1>1. ~Ends(p[k]) /\ p[k].obj = a /\ p[k].type = "Added" /\ (IsOurs(a) => Begins(p[k]))
  BY DEF NewEvent, Begins, Ends
<1>2. About(q, n) \subseteq Nat /\ ~IsOurs(Nil)
  BY AboutNat DEF IsOurs
<1>3. Told(n, p, a)
  BY <1>1, <1>2 DEF View, More, Told
<1>4. Parted(n, p)
  <2>1. ASSUME NEW i \in About(p, n), NEW m \in About(p, n), i < m, IsOurs(p[i].obj), Begins(p[m])
        PROVE  \E j \in About(p, n) : i <= j /\ j < m /\ Ends(p[j])
    <3>1. i \in About(q, n) /\ q[i] = p[i]
      BY <1>2, <2>1 DEF More
    <3>2. CASE m = k
      <4>1. PICK j \in About(q, n) : i <= j /\ Ends(q[j])
        BY <1>2, <2>1, <3>1 DEF View, Told
      <4> QED  BY <3>2, <4>1 DEF More
    <3>3. CASE m # k
      <4>1. m \in About(q, n) /\ q[m] = p[m]
        BY <3>3 DEF More
      <4>2. PICK j \in About(q, n) : i <= j /\ j < m /\ Ends(q[j])
        BY <2>1, <3>1, <4>1 DEF View, Parted
      <4> QED  BY <4>2 DEF More
    <3> QED  BY <3>2, <3>3
  <2> QED  BY <2>1 DEF Parted
<1>5. LastTells(n, p, a)
  <2>1. ASSUME NEW i \in About(p, n), \A m \in About(p, n) : m <= i
        PROVE  i = k
    BY <1>2, <2>1 DEF More
  <2> QED  BY <1>1, <2>1 DEF LastTells
<1>6. Known(n, p, a, f)
  <2>1. k \in About(p, n) /\ \A j \in About(p, n) : ~(k < j)
    BY <1>2 DEF More
  <2> QED  BY <1>1, <2>1 DEF Known
<1>7. f # Nil => \E j \in About(q, n) : Ends(q[j])
  BY <1>2 DEF View, Leaves
<1>8. Leaves(n, p, a, f)
  BY <1>7 DEF More, Leaves
<1>9. Newer(n, p, f)
  <2>1. ASSUME NEW m \in About(p, n), HasRes(f), Begins(p[m]),
               \A j \in About(p, n) : j < m => ~Ends(p[j])
        PROVE  f.res.rev >= p[m].obj.rev
    <3>1. m # k
      BY <1>7, <2>1 DEF More, HasRes
    <3>2. m \in About(q, n) /\ p[m] = q[m] /\ \A j \in About(q, n) : j < m => ~Ends(q[j])
      BY <2>1, <3>1 DEF More
    <3> QED  BY <2>1, <3>2 DEF View, Newer
  <2> QED  BY <2>1 DEF Newer
<1>10. Settled(n, p, a, f)
  BY DEF More, Settled
<1> QED  BY <1>3, <1>4, <1>5, <1>6, <1>8, <1>9, <1>10 DEF View

(* A DELETED.                                                              *)
LEMMA ViewDeleted ==
  ASSUME NEW n, NEW q \in Seq(Event), NEW p, NEW k \in Nat, NEW o, NEW f,
         View(n, q, o, f), More(n, q, p, k), p[k] = NewEvent("Deleted", n, o)
  PROVE  View(n, p, Nil, f)
<1>1. ~Begins(p[k]) /\ p[k].obj = o /\ p[k].type = "Deleted" /\ (IsOurs(o) => Ends(p[k]))
  BY DEF NewEvent, Begins, Ends
<1>2. About(q, n) \subseteq Nat /\ ~IsOurs(Nil)
  BY AboutNat DEF IsOurs
<1>3. Told(n, p, Nil)
  <2>1. ASSUME NEW i \in About(p, n), IsOurs(p[i].obj)
        PROVE  \E j \in About(p, n) : i <= j /\ Ends(p[j])
    <3>1. CASE i = k
      BY <1>1, <2>1, <3>1
    <3>2. CASE i # k
      <4>1. i \in About(q, n) /\ q[i] = p[i] /\ i < k /\ k \in About(p, n)
        BY <3>2 DEF More
      <4>2. CASE IsOurs(o)
        BY <1>1, <1>2, <4>1, <4>2
      <4>3. CASE \E j \in About(q, n) : i <= j /\ Ends(q[j])
        BY <4>3 DEF More
      <4> QED  BY <2>1, <4>1, <4>2, <4>3 DEF View, Told
    <3> QED  BY <3>1, <3>2
  <2> QED  BY <2>1 DEF Told
<1>4. Parted(n, p)
  <2>1. ASSUME NEW i \in About(p, n), NEW m \in About(p, n), i < m, IsOurs(p[i].obj), Begins(p[m])
        PROVE  \E j \in About(p, n) : i <= j /\ j < m /\ Ends(p[j])
    <3>1. m # k /\ m \in About(q, n) /\ m < k
      BY <1>1, <2>1 DEF More
    <3>2. i \in About(q, n)
      BY <1>2, <2>1, <3>1 DEF More
    <3>3. q[i] = p[i] /\ q[m] = p[m]
      BY <3>1, <3>2 DEF More
    <3>4. PICK j \in About(q, n) : i <= j /\ j < m /\ Ends(q[j])
      BY <2>1, <3>1, <3>2, <3>3 DEF View, Parted
    <3> QED  BY <3>4 DEF More
  <2> QED  BY <2>1 DEF Parted
<1>5. LastTells(n, p, Nil)
  <2>1. ASSUME NEW i \in About(p, n), \A m \in About(p, n) : m <= i
        PROVE  i = k
    BY <1>2, <2>1 DEF More
  <2> QED  BY <1>1, <2>1 DEF LastTells
<1>6. Known(n, p, Nil, f) /\ Settled(n, p, Nil, f)
  BY <1>2 DEF More, Known, Settled
<1>7. Leaves(n, p, Nil, f)
  BY <1>1 DEF View, More, Leaves
<1>8. Newer(n, p, f)
  <2>1. ASSUME NEW m \in About(p, n), HasRes(f), Begins(p[m]),
               \A j \in About(p, n) : j < m => ~Ends(p[j])
        PROVE  f.res.rev >= p[m].obj.rev
    <3>1. m \in About(q, n) /\ p[m] = q[m] /\ \A j \in About(q, n) : j < m => ~Ends(q[j])
      BY <1>1, <2>1 DEF More
    <3> QED  BY <2>1, <3>1 DEF View, Newer
  <2> QED  BY <2>1 DEF Newer
<1> QED  BY <1>3, <1>4, <1>5, <1>6, <1>7, <1>8 DEF View

(* The first event is handled: what q says without it.                     *)
LEMMA ViewLess ==
  ASSUME NEW n, NEW q \in Seq(Event), NEW p \in Seq(Event), NEW o, NEW f,
         View(n, q, o, f), Less(n, q, p)
  PROVE  Told(n, p, o) /\ Parted(n, p) /\ LastTells(n, p, o)
<1>1. About(q, n) \subseteq Nat \ {0} /\ About(p, n) \subseteq Nat \ {0}
  BY AboutNat
<1>2. ASSUME NEW i \in About(p, n), IsOurs(p[i].obj), ~IsOurs(o)
      PROVE  \E j \in About(p, n) : i <= j /\ Ends(p[j])
  <2>1. i + 1 \in About(q, n) /\ IsOurs(q[i + 1].obj)
    BY <1>2 DEF Less
  <2>2. PICK j \in About(q, n) : i + 1 <= j /\ Ends(q[j])
    BY <1>2, <2>1 DEF View, Told
  <2>3. j - 1 \in About(p, n) /\ Ends(p[j - 1]) /\ i <= j - 1
    BY <1>1, <2>2 DEF Less
  <2> QED  BY <2>3
<1>3. ASSUME NEW i \in About(p, n), NEW k \in About(p, n),
             i < k, IsOurs(p[i].obj), Begins(p[k])
      PROVE  \E j \in About(p, n) : i <= j /\ j < k /\ Ends(p[j])
  <2>1. /\ i + 1 \in About(q, n) /\ IsOurs(q[i + 1].obj)
        /\ k + 1 \in About(q, n) /\ Begins(q[k + 1])
        /\ i + 1 < k + 1
    BY <1>1, <1>3 DEF Less
  <2>2. PICK j \in About(q, n) : i + 1 <= j /\ j < k + 1 /\ Ends(q[j])
    BY <2>1 DEF View, Parted
  <2>3. j - 1 \in About(p, n) /\ Ends(p[j - 1]) /\ i <= j - 1 /\ j - 1 < k
    BY <1>1, <2>2 DEF Less
  <2> QED  BY <2>3
<1>4. ASSUME NEW i \in About(p, n), \A k \in About(p, n) : k <= i
      PROVE  IF p[i].type = "Deleted" THEN o = Nil ELSE o = p[i].obj
  <2>1. i + 1 \in About(q, n) /\ q[i + 1] = p[i]
    BY DEF Less
  <2>2. \A k \in About(q, n) : k <= i + 1
    BY <1>1, <1>4 DEF Less
  <2> QED  BY <2>1, <2>2 DEF View, LastTells
<1> QED  BY <1>2, <1>3, <1>4 DEF Told, Parted, LastTells

LEMMA NewerLess ==
  ASSUME NEW n, NEW q \in Seq(Event), NEW p \in Seq(Event), NEW f,
         Newer(n, q, f), Less(n, q, p), 1 \notin About(q, n) \/ ~Ends(q[1])
  PROVE  Newer(n, p, f)
<1>1. About(q, n) \subseteq Nat \ {0} /\ About(p, n) \subseteq Nat \ {0}
  BY AboutNat
<1>2. ASSUME NEW k \in About(p, n), HasRes(f), Begins(p[k]),
             \A j \in About(p, n) : j < k => ~Ends(p[j])
      PROVE  f.res.rev >= p[k].obj.rev
  <2>1. k + 1 \in About(q, n) /\ q[k + 1] = p[k]
    BY DEF Less
  <2>2. ASSUME NEW j \in About(q, n), j < k + 1
        PROVE  ~Ends(q[j])
    <3>1. CASE j = 1
      BY <3>1
    <3>2. CASE j # 1
      <4>1. j - 1 \in About(p, n) /\ p[j - 1] = q[j] /\ j - 1 < k
        BY <1>1, <2>2, <3>2 DEF Less
      <4> QED  BY <1>2, <4>1
    <3> QED  BY <3>1, <3>2
  <2> QED  BY <1>2, <2>1, <2>2 DEF Newer
<1> QED  BY <1>2 DEF Newer

(* An event of another file.                                               *)
LEMMA ViewOther ==
  ASSUME NEW n, NEW q \in Seq(Event), NEW p \in Seq(Event), NEW o, NEW f,
         View(n, q, o, f), Less(n, q, p), 1 \notin About(q, n)
  PROVE  View(n, p, o, f)
<1>1. About(q, n) \subseteq Nat \ {0} /\ About(p, n) \subseteq Nat \ {0}
  BY AboutNat
<1>2. \A j \in About(q, n) : j - 1 \in About(p, n) /\ p[j - 1] = q[j]
  BY DEF Less
<1>3. \A i \in About(p, n) : i + 1 \in About(q, n) /\ p[i] = q[i + 1]
  BY DEF Less
<1>4. Known(n, p, o, f)
  <2>1. SUFFICES ASSUME IsOurs(o) PROVE Known(n, p, o, f)
    BY DEF Known
  <2>2. CASE f # Nil /\ \A j \in About(q, n) : ~Ends(q[j])
    BY <1>3, <2>2 DEF Known
  <2>3. CASE \E i \in About(q, n) : Begins(q[i]) /\ \A j \in About(q, n) : i < j => ~Ends(q[j])
    <3>1. PICK i \in About(q, n) : Begins(q[i]) /\ \A j \in About(q, n) : i < j => ~Ends(q[j])
      BY <2>3
    <3>2. i - 1 \in About(p, n) /\ Begins(p[i - 1])
      BY <1>2, <3>1
    <3>3. \A j \in About(p, n) : i - 1 < j => ~Ends(p[j])
      BY <1>1, <1>3, <3>1
    <3> QED  BY <3>2, <3>3 DEF Known
  <2> QED  BY <2>1, <2>2, <2>3 DEF View, Known
<1>5. Leaves(n, p, o, f) /\ Settled(n, p, o, f)
  BY <1>2 DEF View, Leaves, Settled
<1> QED  BY <1>4, <1>5, ViewLess, NewerLess DEF View

(* The end of an object: the daemon drops the file, if it has it.          *)
LEMMA ViewEnded ==
  ASSUME NEW n, NEW q \in Seq(Event), NEW p \in Seq(Event), NEW o, NEW f,
         View(n, q, o, f), Less(n, q, p), 1 \in About(q, n), Ends(q[1])
  PROVE  View(n, p, o, Nil)
<1>1. About(q, n) \subseteq Nat \ {0} /\ About(p, n) \subseteq Nat \ {0}
  BY AboutNat
<1>2. Known(n, p, o, Nil)
  <2>1. SUFFICES ASSUME IsOurs(o) PROVE Known(n, p, o, Nil)
    BY DEF Known
  <2>2. PICK i \in About(q, n) : Begins(q[i]) /\ \A j \in About(q, n) : i < j => ~Ends(q[j])
    BY <2>1 DEF View, Known
  <2>3. i # 1
    BY <2>2 DEF Begins, Ends
  <2>4. i - 1 \in About(p, n) /\ Begins(p[i - 1])
    BY <2>2, <2>3 DEF Less
  <2>5. \A j \in About(p, n) : i - 1 < j => ~Ends(p[j])
    BY <1>1, <2>2 DEF Less
  <2> QED  BY <2>4, <2>5 DEF Known
<1>3. Leaves(n, p, o, Nil) /\ Newer(n, p, Nil) /\ Settled(n, p, o, Nil)
  BY DEF Leaves, Newer, Settled, HasRes
<1> QED  BY <1>2, <1>3, ViewLess DEF View

LEMMA OnlyFirst ==
  ASSUME NEW n, NEW q \in Seq(Event), NEW p \in Seq(Event), NEW o,
         Less(n, q, p), 1 \in About(q, n), About(p, n) = {}, LastTells(n, q, o)
  PROVE  /\ IF q[1].type = "Deleted" THEN o = Nil ELSE o = q[1].obj
         /\ \A j \in About(q, n) : j = 1
<1>1. \A j \in About(q, n) : j = 1
  BY DEF Less
<1>2. \A k \in About(q, n) : k <= 1
  BY <1>1
<1> QED  BY <1>1, <1>2 DEF LastTells

(* An event the daemon ignores.                                            *)
Ignored(e, f) ==
  \/ ~IsOurs(e.obj)
  \/ e.type = "Added" /\ f # Nil
  \/ e.type = "Modified" /\ (HasRes(f) => f.res.rev = e.obj.rev)

LEMMA ViewIgnored ==
  ASSUME NEW n, NEW q \in Seq(Event), NEW p \in Seq(Event), NEW o, NEW f,
         View(n, q, o, f), Less(n, q, p), 1 \in About(q, n), Ignored(q[1], f),
         Copy(o, f), Numbered(q, f), o # Nil => o.rev \in Nat
  PROVE  View(n, p, o, f)
<1>1. About(q, n) \subseteq Nat \ {0} /\ About(p, n) \subseteq Nat \ {0} /\ 1 \in DOMAIN q
  BY AboutNat DEF About
<1>2. ~Ends(q[1])
  BY DEF Ignored, Ends
<1>3. Known(n, p, o, f)
  <2>1. SUFFICES ASSUME IsOurs(o) PROVE Known(n, p, o, f)
    BY DEF Known
  <2>2. CASE f # Nil /\ \A j \in About(q, n) : ~Ends(q[j])
    BY <2>2 DEF Known, Less
  <2>3. CASE \E i \in About(q, n) : Begins(q[i]) /\ \A j \in About(q, n) : i < j => ~Ends(q[j])
    <3>1. PICK i \in About(q, n) : Begins(q[i]) /\ \A j \in About(q, n) : i < j => ~Ends(q[j])
      BY <2>3
    <3>2. \A j \in About(p, n) : i - 1 < j => ~Ends(p[j])
      BY <1>1, <3>1 DEF Less
    <3>3. CASE i = 1
      <4>1. f # Nil
        BY <3>1, <3>3 DEF Ignored, Begins
      <4> QED  BY <1>1, <3>2, <3>3, <4>1 DEF Known
    <3>4. CASE i # 1
      BY <3>1, <3>2, <3>4 DEF Known, Less
    <3> QED  BY <3>3, <3>4
  <2> QED  BY <2>1, <2>2, <2>3 DEF View, Known
<1>4. Leaves(n, p, o, f)
  <2>1. ASSUME NEW j \in About(q, n), Ends(q[j])
        PROVE  j - 1 \in About(p, n) /\ Ends(p[j - 1])
    BY <1>2, <2>1 DEF Less
  <2> QED  BY <2>1 DEF View, Leaves
<1>5. Newer(n, p, f)
  BY <1>2, NewerLess DEF View
<1>6. Settled(n, p, o, f)
  <2>1. SUFFICES ASSUME About(p, n) = {}, HasRes(f) PROVE f.res.spec = o.spec
    BY DEF Settled
  <2>2. /\ IF q[1].type = "Deleted" THEN o = Nil ELSE o = q[1].obj
        /\ \A j \in About(q, n) : j = 1
    BY <2>1, OnlyFirst DEF View
  <2>3. IsOurs(o)
    BY <1>2, <2>1, <2>2 DEF View, Leaves, HasRes
  <2>4. o = q[1].obj /\ q[1].type # "Deleted"
    BY <2>2, <2>3 DEF IsOurs
  <2>5. CASE q[1].type = "Modified"
    BY <2>1, <2>3, <2>4, <2>5 DEF Ignored, Copy, IsOurs
  <2>6. CASE q[1].type # "Modified"
    <3>1. Begins(q[1]) /\ \A j \in About(q, n) : j < 1 => ~Ends(q[j])
      BY <1>1, <2>3, <2>4, <2>6 DEF Begins, Ignored
    <3>2. f.res.rev >= o.rev
      BY <2>1, <2>4, <3>1 DEF View, Newer
    <3> QED  BY <2>1, <2>3, <3>2 DEF Copy, Numbered, IsOurs
  <2> QED  BY <2>5, <2>6
<1> QED  BY <1>3, <1>4, <1>5, <1>6, ViewLess DEF View

(* An event that gives the daemon its copy, of the file it adds or has.    *)
LEMMA ViewTaken ==
  ASSUME NEW n, NEW q \in Seq(Event), NEW p \in Seq(Event), NEW o, NEW f, NEW g,
         View(n, q, o, f), Less(n, q, p), 1 \in About(q, n), IsOurs(q[1].obj), ~Ends(q[1]),
         f # Nil \/ Begins(q[1]), g # Nil, HasRes(g) => g.res.spec = q[1].obj.spec
  PROVE  View(n, p, o, g)
<1>1. About(q, n) \subseteq Nat \ {0} /\ About(p, n) \subseteq Nat \ {0} /\ 1 \in DOMAIN q
  BY AboutNat DEF About
<1>2. Known(n, p, o, g)
  <2>1. SUFFICES ASSUME IsOurs(o) PROVE Known(n, p, o, g)
    BY DEF Known
  <2>2. CASE \A j \in About(q, n) : ~Ends(q[j])
    BY <2>2 DEF Known, Less
  <2>3. CASE \E i \in About(q, n) : Begins(q[i]) /\ \A j \in About(q, n) : i < j => ~Ends(q[j])
    <3>1. PICK i \in About(q, n) : Begins(q[i]) /\ \A j \in About(q, n) : i < j => ~Ends(q[j])
      BY <2>3
    <3>2. \A j \in About(p, n) : i - 1 < j => ~Ends(p[j])
      BY <1>1, <3>1 DEF Less
    <3>3. CASE i = 1
      BY <1>1, <3>2, <3>3 DEF Known
    <3>4. CASE i # 1
      BY <3>1, <3>2, <3>4 DEF Known, Less
    <3> QED  BY <3>3, <3>4
  <2> QED  BY <2>1, <2>2, <2>3 DEF View, Known
<1>3. Leaves(n, p, o, g)
  <2>1. ASSUME NEW j \in About(q, n), Ends(q[j])
        PROVE  j - 1 \in About(p, n) /\ Ends(p[j - 1])
    BY <2>1 DEF Less
  <2>2. IsOurs(o) \/ \E j \in About(q, n) : Ends(q[j])
    BY DEF View, Told
  <2> QED  BY <2>1, <2>2 DEF Leaves
<1>4. Newer(n, p, g)
  <2>1. ASSUME NEW k \in About(p, n), Begins(p[k])
        PROVE  \E j \in About(p, n) : j < k /\ Ends(p[j])
    <3>1. k + 1 \in About(q, n) /\ Begins(q[k + 1]) /\ 1 < k + 1
      BY <1>1, <2>1 DEF Less
    <3>2. PICK j \in About(q, n) : 1 <= j /\ j < k + 1 /\ Ends(q[j])
      BY <3>1 DEF View, Parted
    <3>3. j - 1 \in About(p, n) /\ Ends(p[j - 1]) /\ j - 1 < k
      BY <1>1, <3>2 DEF Less
    <3> QED  BY <3>3
  <2> QED  BY <2>1 DEF Newer
<1>5. Settled(n, p, o, g)
  <2>1. SUFFICES ASSUME About(p, n) = {}, HasRes(g) PROVE g.res.spec = o.spec
    BY DEF Settled
  <2>2. IF q[1].type = "Deleted" THEN o = Nil ELSE o = q[1].obj
    BY <2>1, OnlyFirst DEF View
  <2>3. q[1].type # "Deleted"
    BY DEF Ends
  <2> QED  BY <2>1, <2>2, <2>3
<1> QED  BY <1>2, <1>3, <1>4, <1>5, ViewLess DEF View

(* The files are loaded: the copies are the objects.                       *)
LEMMA ViewLoaded ==
  ASSUME NEW n, NEW q, NEW o, NEW g, View(n, q, o, Nil), g # Nil => IsOurs(o) /\ g.res = o,
         \A i \in About(q, n) : q[i].obj.rev \in Nat, o # Nil => o.rev \in Nat,
         o # Nil => \A i \in About(q, n) : q[i].obj.rev <= o.rev
  PROVE  View(n, q, o, g)
<1>1. Known(n, q, o, g)
  BY DEF View, Known
<1>2. Leaves(n, q, o, g) /\ Newer(n, q, g) /\ Settled(n, q, o, g)
  BY DEF Leaves, Newer, Settled, HasRes, IsOurs
<1> QED  BY <1>1, <1>2 DEF View

-----------------------------------------------------------------------------
(* The view, step by step.                                                 *)

(* A step that keeps the types and the versions.                           *)
StepOK == TypeOK /\ SpecInv /\ TypeOK'

LEMMA CopyNow ==
  ASSUME StepOK, NEW n \in Names
  PROVE  /\ Copy(api[n], files[n]) /\ (api[n] # Nil => api[n].rev \in Nat)
         /\ Numbered(watch, files[n]) /\ Numbered(watch, files'[n])
<1>1. ASSUME NEW i \in DOMAIN watch
      PROVE  watch[i].obj.rev \in Nat
  <2>1. watch[i] \in Event
    BY DEF StepOK, TypeOK
  <2>2. watch[i].obj \in Object
    BY <2>1 DEF Event
  <2> QED  BY <2>2, ObjectRev
<1>2. HasRes(files[n]) => files[n].res \in OurObject
  BY DEF StepOK, TypeOK, File, HasRes
<1>3. HasRes(files'[n]) => files'[n].res \in OurObject
  BY DEF StepOK, TypeOK, File, HasRes
<1>4. Numbered(watch, files[n]) /\ Numbered(watch, files'[n])
  BY <1>1, <1>2, <1>3, ObjectRev DEF Numbered
<1>5. api[n] # Nil => api[n].rev \in Nat /\ api[n].rev = revs[n]
  BY ObjectRev DEF StepOK, TypeOK, SpecInv
<1>6. Copy(api[n], files[n])
  BY <1>5 DEF Copy, HasRes, StepOK, SpecInv, Current
<1> QED  BY <1>4, <1>5, <1>6

LEMMA KeepsSame ==
  ASSUME StepOK, NEW n \in Names, files'[n] = files[n]
  PROVE  Keeps(files[n], files'[n])
<1>1. HasRes(files[n]) => files[n].res.rev \in Nat
  BY CopyNow DEF Numbered
<1> QED  BY <1>1 DEF Keeps

LEMMA ViewRests ==
  ASSUME StepOK, AllView, UNCHANGED toldVars, \A n \in Names : Keeps(files[n], files'[n])
  PROVE  AllView'
<1> SUFFICES ASSUME NEW n \in Names
             PROVE  View(n, watch', api'[n], files'[n])
  BY DEF AllView
<1>1. watch \in Seq(Event) /\ watch' = watch /\ api' = api
  BY DEF StepOK, TypeOK, storeVars, toldVars
<1>2. Same(n, watch, watch)
  BY DEF Same
<1> QED  BY <1>1, <1>2, CopyNow, ViewStays DEF AllView

(* Handles come and go, the copies stay.                                   *)
LEMMA ViewRestsFiles ==
  ASSUME StepOK, AllView, UNCHANGED toldVars,
         \A n \in Names : (files'[n] = Nil <=> files[n] = Nil)
                          /\ (files[n] # Nil => files'[n].res = files[n].res)
  PROVE  AllView'
<1>1. ASSUME NEW n \in Names
      PROVE  Keeps(files[n], files'[n])
  <2>1. HasRes(files[n]) => files[n].res.rev \in Nat
    BY CopyNow DEF Numbered
  <2> QED  BY <2>1 DEF Keeps, HasRes
<1> QED  BY <1>1, ViewRests

LEMMA NotifiesOf ==
  ASSUME TypeOK, NEW objs, IsObjects(objs), PutAndNotify(objs), NEW n \in Names
  PROVE  IF n \in Written(objs)
         THEN /\ api'[n] = Stored(objs, n)
              /\ \E k \in Nat : /\ More(n, watch, watch', k)
                                /\ watch'[k] = NewEvent("Modified", n, api'[n])
         ELSE api'[n] = api[n] /\ Same(n, watch, watch')
<1>1. PICK order \in SetToSeqs(Written(objs)) :
        watch' = watch \o [i \in DOMAIN order |->
                             NewEvent("Modified", order[i], Stored(objs, order[i]))]
  BY DEF PutAndNotify
<1> DEFINE new == [i \in DOMAIN order |-> NewEvent("Modified", order[i], Stored(objs, order[i]))]
           L   == Len(watch)
<1>2. api' = [m \in Names |-> IF m \in Written(objs) THEN Stored(objs, m) ELSE api[m]]
  BY DEF PutAndNotify, Put
<1>3. /\ order \in Seq(Written(objs)) /\ Written(objs) \subseteq DOMAIN objs
      /\ \A x \in Written(objs) : \E i \in DOMAIN order : order[i] = x
      /\ \A i, k \in DOMAIN order : order[i] = order[k] => i = k
  BY OrderSeq, OrderAll, WrittenFinite
<1>4. /\ L \in Nat /\ DOMAIN watch = 1..L /\ DOMAIN new = 1..Len(order) /\ Len(order) \in Nat
      /\ DOMAIN order = 1..Len(order)
      /\ \A i \in DOMAIN order : new[i].name = order[i]
    BY <1>3 DEF TypeOK, NewEvent
<1>5. /\ DOMAIN watch' = 1..(L + Len(order))
      /\ \A i \in 1..L : watch'[i] = watch[i]
      /\ \A i \in 1..Len(order) : watch'[L + i] = new[i]
  <2>1. \A i \in DOMAIN order : new[i] \in Event
    <3>1. \A i \in DOMAIN order : order[i] \in DOMAIN objs
      BY <1>3
    <3>2. \A i \in DOMAIN order : Stored(objs, order[i]) \in Object /\ order[i] \in Names
      BY <3>1, StoredType DEF IsObjects
    <3> QED  BY <3>2 DEF NewEvent, Event
  <2> HIDE DEF new
  <2>2. DOMAIN new = DOMAIN order /\ new = [i \in DOMAIN order |-> new[i]]
    BY DEF new
  <2>3. new \in Seq(Event) /\ Len(new) = Len(order)
    BY <1>3, <2>1, <2>2, MapSeq
  <2>4. watch \in Seq(Event)
    BY DEF TypeOK
  <2>5. watch' = watch \o new
    BY <1>1 DEF new
  <2> HIDE DEF Event
  <2>6. Len(watch') = L + Len(order) /\ DOMAIN watch' = 1..Len(watch')
    <3>1. watch' \in Seq(Event) /\ Len(watch') = Len(watch) + Len(new)
      BY <2>3, <2>4, <2>5, ConcatProperties
    <3> QED  BY <2>3, <3>1
  <2>7. \A i \in 1..L : watch'[i] = watch[i]
    BY <2>3, <2>4, <2>5
  <2>8. \A i \in 1..Len(order) : watch'[L + i] = new[i]
    BY <2>3, <2>4, <2>5
  <2> QED  BY <2>6, <2>7, <2>8
<1>6. ASSUME NEW i \in DOMAIN watch'
      PROVE  i \in DOMAIN watch \/ (i - L \in DOMAIN order /\ watch'[i] = new[i - L] /\ i = L + (i - L))
  BY <1>4, <1>5
<1>7. CASE n \in Written(objs)
  <2>1. PICK m \in DOMAIN order : order[m] = n
    BY <1>3, <1>7
  <2>2. /\ L + m \in DOMAIN watch' /\ watch'[L + m] = new[m] /\ \A i \in DOMAIN watch : i < L + m
        /\ L + m \in Nat
    BY <1>4, <1>5
  <2>3. new[m] = NewEvent("Modified", n, Stored(objs, n)) /\ new[m].name = n
    BY <1>4, <2>1
  <2>4. \A i \in DOMAIN order : new[i].name = n => i = m
    BY <1>3, <1>4, <2>1
  <2> HIDE DEF new
  <2>5. About(watch', n) = About(watch, n) \union {L + m}
    <3>1. \A i \in About(watch', n) : i \in About(watch, n) \/ i = L + m
      BY <1>4, <1>5, <1>6, <2>4 DEF About
    <3>2. About(watch, n) \subseteq About(watch', n) /\ L + m \in About(watch', n)
      BY <1>4, <1>5, <2>2, <2>3 DEF About
    <3> QED  BY <3>1, <3>2
  <2>6. More(n, watch, watch', L + m)
    BY <1>4, <1>5, <2>2, <2>5 DEF More, About
  <2> QED  BY <1>2, <1>7, <2>2, <2>3, <2>6
<1>8. CASE n \notin Written(objs)
  <2>1. \A i \in DOMAIN order : new[i].name # n
    BY <1>3, <1>4, <1>8
  <2> HIDE DEF new
  <2>2. About(watch', n) = About(watch, n)
    <3>1. \A i \in About(watch', n) : i \in About(watch, n)
      BY <1>4, <1>5, <1>6, <2>1 DEF About
    <3>2. About(watch, n) \subseteq About(watch', n)
      BY <1>4, <1>5 DEF About
    <3> QED  BY <3>1, <3>2
  <2> QED  BY <1>2, <1>4, <1>5, <1>8, <2>2 DEF Same, About
<1> QED  BY <1>7, <1>8

(* The daemon tells of its PUTs, which leave every object in its           *)
(* repository.                                                             *)
LEMMA ViewPut ==
  ASSUME StepOK, AllView, NEW objs, IsObjects(objs), PutAndNotify(objs),
         \A n \in DOMAIN objs : Current(objs[n], n),
         \A n \in Names : Keeps(files[n], files'[n])
  PROVE  AllView'
<1> SUFFICES ASSUME NEW n \in Names
             PROVE  View(n, watch', api'[n], files'[n])
  BY DEF AllView
<1>1. /\ watch \in Seq(Event) /\ View(n, watch, api[n], files[n])
      /\ Numbered(watch, files[n]) /\ Numbered(watch, files'[n])
  BY CopyNow DEF StepOK, TypeOK, AllView
<1>2. CASE n \in Written(objs)
  <2>1. PICK k \in Nat : /\ More(n, watch, watch', k)
                         /\ watch'[k] = NewEvent("Modified", n, api'[n])
    BY <1>2, NotifiesOf DEF StepOK
  <2>2. api[n] # Nil
    BY <1>2 DEF Written, Accepted
  <2>3. api'[n] # Nil /\ (IsOurs(api'[n]) <=> IsOurs(api[n]))
    BY <2>2, PutKeeps DEF StepOK, PutAndNotify, SpecKept, IsOurs
  <2> QED  BY <1>1, <2>1, <2>3, ViewModified
<1>3. CASE n \notin Written(objs)
  <2>1. api'[n] = api[n] /\ Same(n, watch, watch')
    BY <1>3, NotifiesOf DEF StepOK
  <2> QED  BY <1>1, <2>1, ViewStays
<1> QED  BY <1>2, <1>3

(* What a PUT answers is a version at least as new.                        *)
LEMMA AnswerKeeps ==
  ASSUME StepOK, NEW objs, IsObjects(objs), NEW n \in DOMAIN objs, NEW f, HasRes(f),
         objs[n].rev = f.res.rev, objs[n].spec = f.res.spec, f.res.rev <= revs[n],
         NEW otherwise \in {Nil, objs[n]}, NEW g, g # Nil, g.res = Answer(objs, n, otherwise)
  PROVE  Keeps(f, g)
<1>1. objs[n] \in Object /\ n \in Names /\ revs[n] \in Nat /\ objs[n].rev \in Nat
  BY ObjectRev DEF IsObjects, StepOK, TypeOK
<1>2. ASSUME g.res = Stored(objs, n)
      PROVE  g.res.spec = f.res.spec /\ g.res.rev >= f.res.rev
  <2>1. CASE n \in Written(objs)
    <3>1. g.res = [objs[n] EXCEPT !.rev = revs[n] + 1]
      BY <1>2, <2>1 DEF Stored
    <3>2. g.res.spec = objs[n].spec /\ g.res.rev = revs[n] + 1
      BY <1>1, <3>1 DEF Object, ObjectOf
    <3> QED  BY <1>1, <3>2
  <2>2. CASE n \notin Written(objs)
    BY <1>1, <1>2, <2>2 DEF Stored
  <2> QED  BY <2>1, <2>2
<1>3. f # Nil
  BY DEF HasRes
<1>4. CASE g.res = Stored(objs, n)
  BY <1>2, <1>3, <1>4 DEF Keeps
<1>5. CASE g.res = otherwise
  BY <1>1, <1>3, <1>5 DEF Keeps, HasRes
<1> QED  BY <1>4, <1>5 DEF Answer

LEMMA LoadVolumesView ==
  ASSUME StepOK, AllView, NoRes = {}, LoadVolumes PROVE AllView'
<1> DEFINE objs == LoadedObjects
<1>1. /\ DOMAIN objs = Mapped /\ IsObjects(objs) /\ PutAndNotify(objs)
      /\ \A n \in DOMAIN objs : Current(objs[n], n)
  BY LoadedType, LoadedSpecs DEF LoadVolumes, StepOK
<1>2. \A n \in Names : IF n \notin Mapped THEN files'[n] = Nil
                       ELSE files'[n] # Nil /\ files'[n].res = Answer(objs, n, objs[n])
  <2>1. ASSUME NEW n \in Mapped PROVE files'[n] # Nil
    <3>1. n \in Names /\ files'[n] = [res |-> files'[n].res, vol |-> files'[n].vol]
      BY DEF LoadVolumes, Mapped
    <3>2. files'[n].res \in OurObject \union {Nil} /\ files'[n].vol \in Handles
      <4>1. /\ Answer(objs, n, objs[n]) \in OurObject \union {objs[n]}
            /\ objs[n] \in Object /\ objs[n].spec # Elsewhere
        BY <1>1, LoadedType, AnswerType DEF StepOK, IsObjects
      <4>2. files'[n].res = Answer(objs, n, objs[n])
            /\ files'[n].vol = IF n \in Found THEN "live" ELSE files[n].vol
        BY <3>1 DEF LoadVolumes
      <4>3. files[n].vol \in Handles
        BY <3>1 DEF StepOK, TypeOK, File, Mapped
      <4> QED  BY <4>1, <4>2, <4>3, OursType DEF Handles
    <3> QED  BY <3>1, <3>2, FileType
  <2> QED  BY <2>1 DEF LoadVolumes
<1>3. ASSUME NEW n \in Names
      PROVE  Keeps(files[n], files'[n])
  <2>1. CASE n \notin Mapped
    BY <1>2, <2>1 DEF Keeps, Mapped, HasRes
  <2>2. CASE n \in Mapped
    <3>1. HasRes(files[n]) /\ files[n].res \in OurObject
      BY <2>2 DEF HasRes, NoRes, Mapped, StepOK, TypeOK, File
    <3>2. files[n].res.rev <= revs[n] /\ files[n].res \in Object
      BY <3>1, ObjectType DEF StepOK, SpecInv, Current, HasRes
    <3>3. PICK p : objs[n] = [files[n].res EXCEPT !.phase = p]
      BY <2>2 DEF LoadedObjects
    <3>4. objs[n].rev = files[n].res.rev /\ objs[n].spec = files[n].res.spec
      BY <3>2, <3>3, SameVersion
    <3>5. files'[n] # Nil /\ files'[n].res = Answer(objs, n, objs[n])
      BY <1>2, <2>2
    <3> HIDE DEF objs
    <3> QED  BY <1>1, <2>2, <3>1, <3>2, <3>4, <3>5, AnswerKeeps
  <2> QED  BY <2>1, <2>2
<1> HIDE DEF objs
<1> QED  BY <1>1, <1>3, ViewPut

LEMMA RefreshSizesView ==
  ASSUME StepOK, AllView, NEW bad \in SUBSET Held, Gone \subseteq bad, Held \intersect NoRes = {},
         PutAndNotify(RefreshedObjects(bad)),
         files' = [n \in Names |->
                     IF n \notin Held THEN files[n]
                     ELSE [res |-> Answer(RefreshedObjects(bad), n, Nil),
                           vol |-> IF n \in bad THEN "nil" ELSE files[n].vol]]
  PROVE  AllView'
<1> DEFINE objs == RefreshedObjects(bad)
<1>1. /\ DOMAIN objs = Held /\ IsObjects(objs) /\ PutAndNotify(objs)
      /\ \A n \in DOMAIN objs : Current(objs[n], n) /\ objs[n].spec # Elsewhere
  BY RefreshedType, RefreshedSpecs DEF StepOK
<1>2. ASSUME NEW n \in Held
      PROVE  Keeps(files[n], files'[n])
  <2>1. n \in Names /\ HasRes(files[n]) /\ files[n].res \in OurObject /\ files[n].vol \in Handles
    BY DEF HasRes, NoRes, Held, Mapped, StepOK, TypeOK, File
  <2>2. files[n].res.rev <= revs[n] /\ files[n].res \in Object
    BY <2>1, ObjectType DEF StepOK, SpecInv, Current, HasRes
  <2>3. objs[n] = [files[n].res EXCEPT !.phase = "Failed"] \/ objs[n] = [files[n].res EXCEPT !.cap = vols[n]]
    BY <1>1 DEF RefreshedObjects
  <2>4. objs[n].rev = files[n].res.rev /\ objs[n].spec = files[n].res.spec
    <3>1. CASE objs[n] = [files[n].res EXCEPT !.phase = "Failed"]
      BY <2>2, <3>1, SameVersion
    <3>2. CASE objs[n] = [files[n].res EXCEPT !.cap = vols[n]]
      BY <2>2, <3>2, SameVersion
    <3> QED  BY <2>3, <3>1, <3>2
  <2>5. files'[n].res = Answer(objs, n, Nil) /\ files'[n] # Nil
    <3>1. Answer(objs, n, Nil) \in OurObject \union {Nil}
      BY <1>1, AnswerType DEF StepOK
    <3>2. (IF n \in bad THEN "nil" ELSE files[n].vol) \in Handles
      BY <2>1 DEF Handles
    <3>3. files'[n] = [res |-> Answer(objs, n, Nil), vol |-> IF n \in bad THEN "nil" ELSE files[n].vol]
      BY <2>1
    <3> HIDE DEF objs
    <3> QED  BY <3>1, <3>2, <3>3, FileType
  <2> HIDE DEF objs
  <2> QED  BY <1>1, <2>1, <2>2, <2>4, <2>5, AnswerKeeps
<1>3. ASSUME NEW n \in Names, n \notin Held
      PROVE  Keeps(files[n], files'[n])
  <2>1. files'[n] = files[n]
    BY <1>3
  <2> QED  BY <2>1, KeepsSame
<1> HIDE DEF objs
<1> QED  BY <1>1, <1>2, <1>3, ViewPut

(* The main loop handles the first event.                                  *)
LEMMA HeadFacts ==
  ASSUME TypeOK, watch # <<>>
  PROVE  /\ Head(watch) \in Event /\ watch[1] = Head(watch) /\ Tail(watch) \in Seq(Event)
         /\ \A n : Less(n, watch, Tail(watch))
         /\ \A n : 1 \in About(watch, n) <=> n = Head(watch).name
         /\ \A f : Numbered(watch, f) => Numbered(Tail(watch), f)
<1>1. watch \in Seq(Event)
  BY DEF TypeOK
<1>2. /\ Head(watch) \in Event /\ watch[1] = Head(watch) /\ Tail(watch) \in Seq(Event)
      /\ 1 \in DOMAIN watch
      /\ \A i \in DOMAIN Tail(watch) : i + 1 \in DOMAIN watch /\ Tail(watch)[i] = watch[i + 1]
  BY <1>1
<1>3. \A n : Less(n, watch, Tail(watch))
  BY <1>1, TailLess
<1>4. \A n : 1 \in About(watch, n) <=> n = Head(watch).name
  BY <1>2 DEF About
<1>5. \A f : Numbered(watch, f) => Numbered(Tail(watch), f)
  BY <1>2 DEF Numbered
<1> QED  BY <1>2, <1>3, <1>4, <1>5

LEMMA OthersView ==
  ASSUME StepOK, AllView, watch # <<>>, NEW n \in Names, n # Head(watch).name
  PROVE  View(n, Tail(watch), api[n], files[n])
<1>1. watch \in Seq(Event) /\ View(n, watch, api[n], files[n])
  BY DEF StepOK, TypeOK, AllView
<1>2. Tail(watch) \in Seq(Event) /\ Less(n, watch, Tail(watch)) /\ 1 \notin About(watch, n)
  BY HeadFacts DEF StepOK
<1> QED  BY <1>1, <1>2, ViewOther

(* A step of the main loop that only takes the event.                      *)
LEMMA TailView ==
  ASSUME StepOK, AllView, watch # <<>>, watch' = Tail(watch), UNCHANGED api,
         \A n \in Names : n # Head(watch).name => files'[n] = files[n],
         View(Head(watch).name, Tail(watch), api[Head(watch).name], files'[Head(watch).name])
  PROVE  AllView'
BY OthersView DEF AllView

LEMMA IgnoreView ==
  ASSUME StepOK, AllView, watch # <<>>, Ignore,
         \/ Ignored(Head(watch), files[Head(watch).name])
         \/ Ends(Head(watch)) /\ files[Head(watch).name] = Nil
  PROVE  AllView'
<1> DEFINE e == Head(watch)
           n == e.name
<1>1. /\ watch \in Seq(Event) /\ Tail(watch) \in Seq(Event) /\ e \in Event /\ watch[1] = e
      /\ Less(n, watch, Tail(watch)) /\ 1 \in About(watch, n)
  BY HeadFacts DEF StepOK, TypeOK
<1>2. n \in Names
  BY <1>1 DEF Event
<1> HIDE DEF e
<1>3. /\ View(n, watch, api[n], files[n]) /\ Copy(api[n], files[n]) /\ Numbered(watch, files[n])
      /\ api[n] # Nil => api[n].rev \in Nat
  BY <1>2, CopyNow DEF AllView
<1>4. View(n, Tail(watch), api[n], files[n])
  <2>1. CASE Ignored(e, files[n])
    BY <1>1, <1>3, <2>1, ViewIgnored
  <2>2. CASE Ends(e) /\ files[n] = Nil
    BY <1>1, <1>3, <2>2, ViewEnded
  <2> QED  BY <2>1, <2>2 DEF e
<1>5. watch' = Tail(watch) /\ UNCHANGED api /\ UNCHANGED files
  BY DEF Ignore
<1> QED  BY <1>4, <1>5, TailView DEF e

LEMMA AddFileView ==
  ASSUME StepOK, AllView, watch # <<>>, Head(watch).type = "Added", AddFile(Head(watch))
  PROVE  AllView' \/ proc' = "down"
<1> DEFINE e    == Head(watch)
           n    == e.name
           new  == e.obj.spec # Elsewhere /\ files[n] = Nil
           objs == [m \in {n} |-> [e.obj EXCEPT !.phase = "Pending"]]
<1>0. /\ watch \in Seq(Event) /\ Tail(watch) \in Seq(Event) /\ e \in Event /\ watch[1] = e
      /\ Less(n, watch, Tail(watch)) /\ 1 \in About(watch, n)
  BY HeadFacts DEF StepOK, TypeOK
<1>1. CASE Ignore /\ ~new
  <2>1. Ignored(e, files[n])
    BY <1>1 DEF Ignored, IsOurs
  <2> QED  BY <1>1, <2>1, IgnoreView
<1>2. CASE Panic
  BY <1>2 DEF Panic, Forget
<1>3. CASE /\ new /\ Put(objs)
           /\ watch' = Tail(watch) \o
                (IF n \in Written(objs) THEN <<NewEvent("Modified", n, Stored(objs, n))>> ELSE <<>>)
           /\ files' = [files EXCEPT ![n] = [res |-> Answer(objs, n, objs[n]), vol |-> "nil"]]
  <2>1. n \in Names /\ e.obj \in Object /\ e.obj # Nil
    BY <1>0, NilAssumption DEF Event
  <2>2. DOMAIN objs = {n} /\ objs[n] = [e.obj EXCEPT !.phase = "Pending"]
    OBVIOUS
  <2>3. Current(e.obj, n)
    <3>1. 1 \in DOMAIN watch
      BY <1>0 DEF About
    <3> QED  BY <1>0, <3>1 DEF StepOK, SpecInv
  <2> DEFINE f == [res |-> objs[n], vol |-> "nil"]
             g == files'[n]
  <2> HIDE DEF objs, e
  <2>4. objs[n] \in Object /\ objs[n].rev = e.obj.rev /\ objs[n].spec = e.obj.spec /\ e.obj.rev \in Nat
    <3>1. "Pending" \in Phases
      BY DEF Phases
    <3>2. [e.obj EXCEPT !.phase = "Pending"] \in Object
      BY <2>1, <3>1, PhaseType
    <3>3. /\ [e.obj EXCEPT !.phase = "Pending"].rev = e.obj.rev
          /\ [e.obj EXCEPT !.phase = "Pending"].spec = e.obj.spec
      BY <2>1, SameVersion
    <3> QED  BY <2>1, <2>2, <3>2, <3>3, ObjectRev
  <2>5. IsObjects(objs) /\ \A m \in DOMAIN objs : Current(objs[m], m)
    BY <2>1, <2>2, <2>3, <2>4 DEF IsObjects, Current
  <2>6. HasRes(f) /\ f \in File /\ f.res = objs[n] /\ f # Nil
    <3>1. objs[n] \in OurObject
      BY <1>3, <2>4, OursType
    <3>2. f \in File /\ f # Nil /\ f.res = objs[n]
      BY <3>1, FileType DEF Handles
    <3> QED  BY <2>4, <3>2, NilAssumption DEF HasRes
  <2>7. g.res = Answer(objs, n, objs[n]) /\ g # Nil
    <3>1. files \in [Names -> File \union {Nil}]
      BY DEF StepOK, TypeOK
    <3>2. g = [res |-> Answer(objs, n, objs[n]), vol |-> "nil"]
      BY <1>3, <2>1, <3>1
    <3>3. Answer(objs, n, objs[n]) \in OurObject \union {objs[n]} /\ objs[n] \in OurObject
      BY <1>3, <2>2, <2>4, <2>5, OursType, AnswerType DEF StepOK
    <3>4. "nil" \in Handles
      BY DEF Handles
    <3>5. Answer(objs, n, objs[n]) \in OurObject \union {Nil}
      BY <3>3
    <3> QED  BY <3>2, <3>4, <3>5, FileType
  <2> HIDE DEF f, g
  <2>8. Keeps(f, g)
    BY <2>2, <2>3, <2>4, <2>5, <2>6, <2>7, AnswerKeeps DEF Current
  <2>9. View(n, Tail(watch), api[n], f)
    <3>1. IsOurs(watch[1].obj) /\ Begins(watch[1]) /\ ~Ends(watch[1])
      BY <1>0, <1>3, <2>1 DEF IsOurs, Begins, Ends, e
    <3>2. View(n, watch, api[n], files[n]) /\ files[n] = Nil
      BY <1>3, <2>1 DEF AllView
    <3> QED  BY <1>0, <2>4, <2>6, <3>1, <3>2, ViewTaken
  <2>10. Numbered(Tail(watch), f) /\ Numbered(Tail(watch), g)
    <3>1. Numbered(watch, files[n]) /\ Numbered(watch, g)
      BY <2>1, CopyNow DEF g
    <3>2. Numbered(watch, f)
      BY <2>4, <2>6, <3>1 DEF Numbered
    <3> QED  BY <3>1, <3>2, HeadFacts DEF StepOK
  <2>11. ASSUME NEW m \in Names, m # n
         PROVE  /\ View(m, Tail(watch), api[m], files[m]) /\ files'[m] = files[m]
                /\ api'[m] = api[m]
                /\ Numbered(Tail(watch), files[m])
    <3>1. View(m, Tail(watch), api[m], files[m])
      BY <2>11, OthersView DEF e
    <3>2. files'[m] = files[m]
      BY <1>3, <2>1, <2>11 DEF StepOK, TypeOK
    <3>3. m \notin Written(objs)
      BY <2>2, <2>11 DEF Written, Accepted
    <3>4. api'[m] = api[m]
      BY <1>3, <3>3 DEF Put
    <3>5. Numbered(watch, files[m])
      BY CopyNow
    <3> QED  BY <3>1, <3>2, <3>4, <3>5, HeadFacts DEF StepOK
  <2>12. CASE n \in Written(objs)
    <3> DEFINE ev == NewEvent("Modified", n, Stored(objs, n))
               k  == Len(Tail(watch)) + 1
    <3>1. ev \in Event /\ ev.name = n
      BY <2>1, <2>2, <2>5, StoredType DEF NewEvent, Event, StepOK
    <3>2. api'[n] = Stored(objs, n)
      BY <1>3, <2>1, <2>12 DEF Put
    <3>3. k \in Nat
      BY <1>0
    <3>4. ev = NewEvent("Modified", n, api'[n])
      BY <3>2
    <3> HIDE DEF ev
    <3>5. watch' = Append(Tail(watch), ev)
      BY <1>0, <1>3, <2>12, <3>1 DEF ev
    <3>6. /\ More(n, Tail(watch), watch', k) /\ watch'[k] = ev
          /\ \A m : m # n => Same(m, Tail(watch), watch')
      BY <1>0, <3>1, <3>5, AppendMore
    <3> HIDE DEF k
    <3>7. api'[n] # Nil /\ (IsOurs(api'[n]) <=> IsOurs(api[n]))
      <4>1. api[n] # Nil
        BY <2>12 DEF Written, Accepted
      <4>2. SpecKept(n)
        BY <1>3, <2>1, <2>5, PutKeeps DEF StepOK
      <4> QED  BY <4>1, <4>2 DEF SpecKept, IsOurs
    <3>8. View(n, watch', api'[n], g)
      BY <1>0, <2>8, <2>9, <2>10, <3>3, <3>4, <3>6, <3>7, ViewModified
    <3>9. ASSUME NEW m \in Names, m # n
          PROVE  View(m, watch', api'[m], files'[m])
      <4>1. Keeps(files[m], files[m])
        <5>1. HasRes(files[m]) => files[m].res.rev \in Nat
          BY <2>11, <3>9 DEF Numbered
        <5> QED  BY <5>1 DEF Keeps
      <4> QED  BY <1>0, <2>11, <3>6, <3>9, <4>1, ViewStays
    <3> QED  BY <3>8, <3>9 DEF AllView, g
  <2>13. CASE n \notin Written(objs)
    <3>1. watch' = Tail(watch)
      BY <1>0, <1>3, <2>13
    <3>2. api'[n] = api[n]
      BY <1>3, <2>1, <2>13 DEF Put
    <3>3. View(n, Tail(watch), api[n], g)
      <4>1. Same(n, Tail(watch), Tail(watch))
        BY DEF Same
      <4> QED  BY <1>0, <2>8, <2>9, <2>10, <4>1, ViewStays
    <3> QED  BY <2>11, <3>1, <3>2, <3>3 DEF AllView, g
  <2> QED  BY <2>12, <2>13
<1> QED  BY <1>1, <1>2, <1>3 DEF AddFile

LEMMA ModifyFileView ==
  ASSUME StepOK, AllView, watch # <<>>, Head(watch).type = "Modified", ModifyFile(Head(watch))
  PROVE  AllView' \/ proc' = "down"
<1> DEFINE e       == Head(watch)
           n       == e.name
           mapped  == e.obj.spec # Elsewhere /\ files[n] # Nil
           changed == mapped /\ files[n].res # Nil /\ Unseen(e)
<1>0. /\ watch \in Seq(Event) /\ Tail(watch) \in Seq(Event) /\ e \in Event /\ watch[1] = e
      /\ Less(n, watch, Tail(watch)) /\ 1 \in About(watch, n)
  BY HeadFacts DEF StepOK, TypeOK
<1>1. CASE Ignore /\ ~changed
  <2>1. Ignored(e, files[n])
    BY <1>1 DEF Ignored, IsOurs, HasRes, Unseen
  <2> QED  BY <1>1, <2>1, IgnoreView
<1>2. CASE Panic
  BY <1>2 DEF Panic, Forget
<1>3. CASE /\ changed /\ watch' = Tail(watch) /\ files' = [files EXCEPT ![n].res = e.obj]
           /\ UNCHANGED api
  <2>1. n \in Names /\ e.obj \in Object /\ e.obj # Nil
    BY <1>0, NilAssumption DEF Event
  <2> HIDE DEF e
  <2>2. files \in [Names -> File \union {Nil}] /\ files[n] \in File
    BY <1>3, <2>1 DEF StepOK, TypeOK
  <2>3. files'[n].res = e.obj /\ files'[n] # Nil
    <3>1. files'[n] = [files[n] EXCEPT !.res = e.obj]
      BY <1>3, <2>1, <2>2
    <3>2. files'[n] = [res |-> e.obj, vol |-> files[n].vol] /\ files[n].vol \in Handles
      BY <2>2, <3>1 DEF File
    <3>3. e.obj \in OurObject
      BY <1>3, <2>1, OursType
    <3> QED  BY <3>2, <3>3, FileType
  <2>4. IsOurs(watch[1].obj) /\ ~Ends(watch[1]) /\ watch[1].obj = e.obj
    BY <1>0, <1>3, <2>1 DEF IsOurs, Ends, e
  <2>5. View(n, watch, api[n], files[n])
    BY <2>1 DEF AllView
  <2>6. View(n, Tail(watch), api[n], files'[n])
    BY <1>0, <1>3, <2>3, <2>4, <2>5, ViewTaken
  <2>7. \A m \in Names : m # n => files'[m] = files[m]
    BY <1>3, <2>1, <2>2
  <2> QED  BY <1>3, <2>6, <2>7, TailView DEF e
<1> QED  BY <1>1, <1>2, <1>3 DEF ModifyFile

LEMMA DeleteFileView ==
  ASSUME StepOK, AllView, watch # <<>>, Head(watch).type = "Deleted", DeleteFile(Head(watch))
  PROVE  AllView'
<1> DEFINE e      == Head(watch)
           n      == e.name
           mapped == e.obj.spec # Elsewhere /\ files[n] # Nil
<1>0. /\ watch \in Seq(Event) /\ Tail(watch) \in Seq(Event) /\ e \in Event /\ watch[1] = e
      /\ Less(n, watch, Tail(watch)) /\ 1 \in About(watch, n)
  BY HeadFacts DEF StepOK, TypeOK
<1>1. n \in Names /\ e.obj \in Object /\ e.obj # Nil
  BY <1>0, NilAssumption DEF Event
<1>2. CASE Ignore /\ ~mapped
  <2>1. Ignored(e, files[n]) \/ (Ends(e) /\ files[n] = Nil)
    BY <1>1, <1>2 DEF Ignored, Ends, IsOurs
  <2> QED  BY <1>2, <2>1, IgnoreView
<1>3. CASE mapped /\ watch' = Tail(watch) /\ files' = [files EXCEPT ![n] = Nil] /\ UNCHANGED api
  <2>1. Ends(watch[1])
    BY <1>0, <1>1, <1>3 DEF Ends, IsOurs
  <2>2. files \in [Names -> File \union {Nil}] /\ View(n, watch, api[n], files[n])
    BY <1>1 DEF StepOK, TypeOK, AllView
  <2>3. View(n, Tail(watch), api[n], Nil)
    BY <1>0, <2>1, <2>2, ViewEnded
  <2>4. files'[n] = Nil /\ \A m \in Names : m # n => files'[m] = files[m]
    BY <1>1, <1>3, <2>2
  <2> QED  BY <1>3, <2>3, <2>4, TailView
<1> QED  BY <1>2, <1>3 DEF DeleteFile

(* A watch that is opened while the daemon has no files.                   *)
LEMMA OpenWatchView ==
  ASSUME StepOK, OpenWatch, UNCHANGED api, \A n \in Names : files'[n] = Nil
  PROVE  AllView'
<1>1. PICK order \in SetToSeqs(Present) :
        watch' = [i \in DOMAIN order |-> NewEvent("Added", order[i], api[order[i]])]
  BY DEF OpenWatch
<1>2. IsFiniteSet(Present)
  BY ConstantsAssumption, FS_Subset DEF Present
<1>3. /\ order \in Seq(Present)
      /\ \A x \in Present : \E i \in DOMAIN order : order[i] = x
      /\ \A i, k \in DOMAIN order : order[i] = order[k] => i = k
  BY <1>2, OrderSeq, OrderAll
<1>4. /\ DOMAIN watch' = DOMAIN order /\ DOMAIN order \subseteq Nat
      /\ \A i \in DOMAIN order : watch'[i] = NewEvent("Added", order[i], api[order[i]])
  BY <1>1, <1>3
<1> SUFFICES ASSUME NEW n \in Names
             PROVE  View(n, watch', api[n], Nil)
  BY DEF AllView
<1>5. ASSUME NEW i \in About(watch', n)
      PROVE  /\ i \in DOMAIN order /\ i \in Nat /\ order[i] = n /\ api[n] # Nil
             /\ watch'[i].type = "Added" /\ watch'[i].obj = api[n] /\ ~Ends(watch'[i])
  <2>1. i \in DOMAIN order /\ watch'[i].name = n
    BY <1>4 DEF About
  <2>2. watch'[i] = NewEvent("Added", order[i], api[order[i]])
    BY <1>4, <2>1
  <2>3. order[i] = n /\ watch'[i].type = "Added" /\ watch'[i].obj = api[n]
    BY <2>1, <2>2 DEF NewEvent
  <2>4. n \in Present
    BY <1>3, <2>1, <2>3
  <2> QED  BY <1>4, <2>1, <2>3, <2>4 DEF Present, Ends
<1>6. \A i, k \in About(watch', n) : i = k
  BY <1>3, <1>5
<1>7. Told(n, watch', api[n]) /\ LastTells(n, watch', api[n])
  BY <1>5 DEF Told, LastTells
<1>8. Parted(n, watch')
  BY <1>5, <1>6 DEF Parted
<1>9. Known(n, watch', api[n], Nil)
  <2>1. SUFFICES ASSUME IsOurs(api[n]) PROVE Known(n, watch', api[n], Nil)
    BY DEF Known
  <2>2. n \in Present
    BY <2>1 DEF IsOurs, Present
  <2>3. PICK i \in DOMAIN order : order[i] = n
    BY <1>3, <2>2
  <2>4. i \in About(watch', n)
    BY <1>4, <2>3 DEF About, NewEvent
  <2>5. Begins(watch'[i])
    BY <1>5, <2>1, <2>4 DEF Begins
  <2> QED  BY <1>5, <2>4, <2>5 DEF Known
<1>10. Leaves(n, watch', api[n], Nil) /\ Newer(n, watch', Nil) /\ Settled(n, watch', api[n], Nil)
  BY DEF Leaves, Newer, Settled, HasRes
<1> QED  BY <1>7, <1>8, <1>9, <1>10 DEF View

LEMMA LoadFilesView ==
  ASSUME StepOK, AllView, NoFilesYet, LoadFileResources PROVE AllView'
<1> SUFFICES ASSUME NEW n \in Names
             PROVE  View(n, watch, api[n], files'[n])
  BY DEF AllView, LoadFileResources, storeVars, toldVars
<1>1. files[n] = Nil
  BY DEF NoFilesYet, LoadFileResources
<1>2. View(n, watch, api[n], Nil)
  BY <1>1 DEF AllView
<1>3. files'[n] # Nil => IsOurs(api[n]) /\ files'[n].res = api[n]
  BY DEF LoadFileResources, Ours, IsOurs
<1>4. ASSUME NEW i \in About(watch, n), api[n] # Nil
      PROVE  watch[i].obj.rev <= api[n].rev
  BY <1>4 DEF About, StepOK, SpecInv, Current
<1>5. \A i \in About(watch, n) : watch[i].obj.rev \in Nat
  BY CopyNow DEF Numbered, About
<1>6. api[n] # Nil => api[n].rev \in Nat
  BY CopyNow
<1> QED  BY <1>2, <1>3, <1>4, <1>5, <1>6, ViewLoaded

(* Users: one object changes, and the daemon is told.                      *)
LEMMA UserOthers ==
  ASSUME StepOK, AllView, NEW n \in Names, NEW e \in Event, e.name = n, watch' = Append(watch, e),
         UNCHANGED files, \A m \in Names : m # n => api'[m] = api[m],
         NEW k, k = Len(watch) + 1,
         More(n, watch, watch', k) /\ watch'[k] = e => View(n, watch', api'[n], files[n])
  PROVE  AllView'
<1>1. watch \in Seq(Event)
  BY DEF StepOK, TypeOK
<1>2. /\ More(n, watch, watch', k) /\ watch'[k] = e
      /\ \A m : m # n => Same(m, watch, watch')
  BY <1>1, AppendMore
<1>3. ASSUME NEW m \in Names, m # n
      PROVE  View(m, watch', api'[m], files'[m])
  <2>1. /\ Keeps(files[m], files'[m]) /\ Numbered(watch, files[m]) /\ Numbered(watch, files'[m])
        /\ View(m, watch, api[m], files[m]) /\ api'[m] = api[m]
    BY <1>3, KeepsSame, CopyNow DEF AllView
  <2> QED  BY <1>1, <1>2, <1>3, <2>1, ViewStays
<1> QED  BY <1>2, <1>3 DEF AllView

LEMMA UserView ==
  ASSUME StepOK, AllView, proc # "down", NEW n \in Names,
         UserCreate(n) \/ UserModify(n) \/ UserDelete(n), budget'["move"] = budget["move"]
  PROVE  AllView'
<1>1. /\ watch \in Seq(Event) /\ api \in [Names -> Object \union {Nil}] /\ revs \in [Names -> Nat]
      /\ View(n, watch, api[n], files[n]) /\ Len(watch) + 1 \in Nat
  BY DEF StepOK, TypeOK, AllView
<1>2. /\ Numbered(watch, files[n]) /\ Keeps(files[n], files[n]) /\ UNCHANGED files
  <2>1. UNCHANGED files
    BY DEF UserCreate, UserModify, UserDelete
  <2> QED  BY <2>1, CopyNow, KeepsSame
<1> DEFINE k == Len(watch) + 1
<1>3. CASE UserCreate(n)
  <2>1. PICK s \in Specs :
          /\ api' = [api EXCEPT ![n] = [rev |-> revs[n] + 1, spec |-> s, phase |-> "", cap |-> 0]]
          /\ Notify(NewEvent("Added", n, [rev |-> revs[n] + 1, spec |-> s, phase |-> "", cap |-> 0]))
    BY <1>3 DEF UserCreate
  <2> DEFINE o  == [rev |-> revs[n] + 1, spec |-> s, phase |-> "", cap |-> 0]
             ev == NewEvent("Added", n, o)
  <2>2. o \in Object
    <3>1. revs[n] + 1 \in Nat /\ s \in Sizes \union {Elsewhere}
      BY <1>1, SpecTypes
    <3> QED  BY <3>1 DEF Object, ObjectOf, Phases
  <2>3. api' = [api EXCEPT ![n] = o] /\ Notify(ev)
    BY <2>1
  <2> HIDE DEF o
  <2>4. o # Nil /\ api[n] = Nil /\ api'[n] = o /\ \A m \in Names : m # n => api'[m] = api[m]
    <3>1. o # Nil /\ api[n] = Nil
      BY <1>3, <2>2, NilAssumption DEF UserCreate
    <3> QED  BY <1>1, <2>3, <3>1
  <2>5. ev \in Event /\ ev.name = n
    BY <2>2 DEF NewEvent, Event
  <2>6. ev = NewEvent("Added", n, o) /\ watch' = Append(watch, ev)
    BY <2>3 DEF Notify
  <2> HIDE DEF ev
  <2>7. More(n, watch, watch', k) /\ watch'[k] = ev => View(n, watch', api'[n], files[n])
    BY <1>1, <2>4, <2>6, ViewAdded
  <2> QED  BY <1>2, <2>4, <2>5, <2>6, <2>7, UserOthers
<1>4. CASE UserModify(n)
  <2>1. PICK s \in Specs \ {api[n].spec} :
          /\ api' = [api EXCEPT ![n] = [api[n] EXCEPT !.rev = revs[n] + 1, !.spec = s]]
          /\ Notify(NewEvent("Modified", n, [api[n] EXCEPT !.rev = revs[n] + 1, !.spec = s]))
          /\ budget' = [budget EXCEPT !["user"] = @ - 1,
                           !["move"] = IF Elsewhere \in {s, api[n].spec} THEN @ - 1 ELSE @]
    BY <1>4 DEF UserModify
  <2> DEFINE o  == [api[n] EXCEPT !.rev = revs[n] + 1, !.spec = s]
             ev == NewEvent("Modified", n, o)
  <2>2. api[n] # Nil /\ api[n] \in Object
    BY <1>1, <1>4 DEF UserModify
  <2>3. o \in Object /\ o.spec = s
    <3>1. revs[n] + 1 \in Nat /\ s \in Sizes \union {Elsewhere}
      BY <1>1, SpecTypes
    <3> QED  BY <2>2, <3>1 DEF Object, ObjectOf
  <2>4. s # Elsewhere /\ api[n].spec # Elsewhere
    <3>1. budget'["move"] = IF Elsewhere \in {s, api[n].spec} THEN budget["move"] - 1
                            ELSE budget["move"]
      BY <2>1 DEF StepOK, TypeOK, Faults
    <3>2. budget["move"] \in Nat
      BY DEF StepOK, TypeOK, Faults
    <3> QED  BY <3>1, <3>2
  <2>5. o # Nil /\ api'[n] = o /\ \A m \in Names : m # n => api'[m] = api[m]
    BY <1>1, <2>1, <2>3, NilAssumption
  <2>6. IsOurs(o) <=> IsOurs(api[n])
    BY <2>2, <2>3, <2>4, <2>5 DEF IsOurs
  <2>7. watch' = Append(watch, ev)
    BY <2>1 DEF Notify
  <2> HIDE DEF o
  <2>8. ev \in Event /\ ev.name = n
    BY <2>3 DEF NewEvent, Event
  <2>9. ev = NewEvent("Modified", n, o)
    OBVIOUS
  <2> HIDE DEF ev
  <2>10. More(n, watch, watch', k) /\ watch'[k] = ev => View(n, watch', api'[n], files[n])
    BY <1>1, <1>2, <2>5, <2>6, <2>9, ViewModified
  <2> QED  BY <1>2, <2>5, <2>7, <2>8, <2>10, UserOthers
<1>5. CASE UserDelete(n)
  <2> DEFINE ev == NewEvent("Deleted", n, api[n])
  <2>1. api[n] # Nil /\ api[n] \in Object /\ api' = [api EXCEPT ![n] = Nil]
        /\ watch' = Append(watch, ev)
    BY <1>1, <1>5 DEF UserDelete, Notify
  <2>2. api'[n] = Nil /\ \A m \in Names : m # n => api'[m] = api[m]
    BY <1>1, <2>1
  <2>3. ev \in Event /\ ev.name = n
    BY <2>1 DEF NewEvent, Event
  <2>4. ev = NewEvent("Deleted", n, api[n])
    OBVIOUS
  <2> HIDE DEF ev
  <2>5. More(n, watch, watch', k) /\ watch'[k] = ev => View(n, watch', api'[n], files[n])
    BY <1>1, <2>2, <2>4, ViewDeleted
  <2> QED  BY <1>2, <2>1, <2>2, <2>3, <2>5, UserOthers
<1> QED  BY <1>3, <1>4, <1>5

(* No step gives back what a fault has taken.                              *)
LEMMA BudgetFalls ==
  ASSUME TypeOK, TypeOK', [Next]_vars
  PROVE  /\ budget'["eof"] <= budget["eof"] /\ budget'["move"] <= budget["move"]
         /\ WatchEOF => budget'["eof"] < budget["eof"]
<1>1. /\ budget \in [Faults -> Nat] /\ budget' \in [Faults -> Nat]
      /\ "eof" \in Faults /\ "move" \in Faults
  BY DEF TypeOK, Faults
<1>2. CASE UNCHANGED budget
  BY <1>1, <1>2 DEF WatchEOF, Spend
<1>3. CASE \E f \in Faults : Spend(f)
  <2>1. PICK f \in Faults : Spend(f)
    BY <1>3
  <2> QED  BY <1>1, <2>1 DEF Spend, WatchEOF
<1>4. CASE \E n \in Names : UserModify(n)
  <2>1. PICK n \in Names : UserModify(n)
    BY <1>4
  <2>2. PICK b : budget' = [budget EXCEPT !["user"] = @ - 1, !["move"] = IF b THEN @ - 1 ELSE @]
    BY <2>1 DEF UserModify
  <2>3. ~WatchEOF
    BY <1>1, <2>2 DEF WatchEOF, Spend
  <2> QED  BY <1>1, <2>2, <2>3
<1>5. CASE RefreshSizes
  <2>1. UNCHANGED budget \/ \E x : budget' = [budget EXCEPT !["error"] = x]
    BY <1>5 DEF RefreshSizes, PanicInLoop
  <2>2. ASSUME NEW x, budget' = [budget EXCEPT !["error"] = x]
        PROVE  budget'["eof"] = budget["eof"] /\ budget'["move"] = budget["move"]
    BY <1>1, <2>2
  <2>3. ~WatchEOF
    BY <1>1, <2>1, <2>2 DEF WatchEOF, Spend
  <2> QED  BY <1>1, <2>1, <2>2, <2>3
<1>6. CASE Boot \/ LoadFileResources \/ UNCHANGED vars
  BY <1>2, <1>6 DEF Boot, LoadFileResources, vars
<1>7. CASE Connect \/ ConnectFailed \/ Tick
  BY <1>2, <1>7 DEF Connect, ConnectFailed, Panic, Tick
<1>8. CASE WatchEvent \/ FinishJob
  <2>1. Panic => UNCHANGED budget
    BY DEF Panic
  <2>2. Ignore => UNCHANGED budget
    BY DEF Ignore
  <2>3. ASSUME NEW e, AddFile(e) \/ ModifyFile(e) \/ DeleteFile(e)
        PROVE  UNCHANGED budget
    BY <2>1, <2>2, <2>3 DEF AddFile, ModifyFile, DeleteFile
  <2>4. UNCHANGED budget
    BY <1>8, <2>1, <2>3 DEF WatchEvent, FinishJob
  <2> QED  BY <1>2, <2>4
<1>9. CASE PoolLoadFails \/ PoolReady
  <2>1. UNCHANGED budget \/ \E f \in Faults : Spend(f)
    BY <1>9 DEF PoolLoadFails, PoolReady, LoadVolumes, PanicInLoop, Faults
  <2> QED  BY <1>2, <1>3, <2>1
<1>10. CASE \E w \in Workers : Take(w) \/ Process(w) \/ HandOver(w)
  <2>1. UNCHANGED budget \/ \E f \in Faults : Spend(f)
    BY <1>10 DEF Take, Process, HandOver, Faults
  <2> QED  BY <1>2, <1>3, <2>1
<1>11. CASE ConnLost \/ Kill \/ WatchEOF \/ \E n \in Names : UserCreate(n) \/ UserDelete(n) \/ Outage(n)
  <2>1. \E f \in Faults : Spend(f)
    BY <1>11 DEF ConnLost, Kill, WatchEOF, UserCreate, UserDelete, Outage, Faults
  <2> QED  BY <1>3, <2>1
<1>12. CASE \E n \in Names : OutageEnds(n)
  BY <1>2, <1>12 DEF OutageEnds
<1> QED
  BY <1>4, <1>5, <1>6, <1>7, <1>8, <1>9, <1>10, <1>11, <1>12 DEF Next, MainLoop

-----------------------------------------------------------------------------
(* The view agrees.                                                        *)

(* Handles come and go with the connection and the jobs.                   *)
LEMMA HandleView ==
  ASSUME IndInv, StepOK, AllView, ConnLost \/ ConnectFailed \/ FinishJob
  PROVE  AllView' \/ proc' = "down"
<1>0. files \in [Names -> File \union {Nil}] /\ files' \in [Names -> File \union {Nil}]
  BY DEF StepOK, TypeOK
<1>1. CASE Panic
  BY <1>1 DEF Panic, Forget
<1>2. CASE /\ UNCHANGED toldVars
           /\ \E s \in [Names -> Handles] :
                files' = [n \in Names |-> IF files[n] = Nil THEN Nil
                                          ELSE [files[n] EXCEPT !.vol = s[n]]]
  <2>1. ASSUME NEW n \in Names
        PROVE  /\ files'[n] = Nil <=> files[n] = Nil
               /\ files[n] # Nil => files'[n].res = files[n].res
    <3>1. CASE files[n] = Nil
      BY <1>2, <3>1
    <3>2. CASE files[n] # Nil
      <4>1. files[n] \in File
        BY <1>0, <3>2
      <4>2. PICK v \in Handles : files'[n] = [files[n] EXCEPT !.vol = v]
        BY <1>2, <3>2
      <4>3. files'[n] = [res |-> files[n].res, vol |-> v] /\ files[n].res \in OurObject \union {Nil}
        BY <4>1, <4>2 DEF File
      <4>4. files'[n] # Nil
        BY <4>3, FileType
      <4> QED  BY <3>2, <4>3, <4>4
    <3> QED  BY <3>1, <3>2
  <2> QED  BY <1>2, <2>1, ViewRestsFiles
<1>3. CASE UNCHANGED <<toldVars, files>>
  BY <1>3, KeepsSame, ViewRests
<1>4. CASE ConnLost
  <2> DEFINE s == [n \in Names |-> IF files[n] = Nil THEN "nil" ELSE Sever(files[n].vol)]
  <2>1. s \in [Names -> Handles]
    BY <1>0 DEF File, Sever, Handles
  <2>2. files' = [n \in Names |-> IF files[n] = Nil THEN Nil ELSE [files[n] EXCEPT !.vol = s[n]]]
    BY <1>4 DEF ConnLost
  <2>3. UNCHANGED toldVars
    BY <1>4 DEF ConnLost, storeVars, toldVars
  <2> HIDE DEF s
  <2> QED  BY <1>2, <2>1, <2>2, <2>3
<1>5. CASE ConnectFailed
  <2>1. CASE /\ UNCHANGED toldVars
             /\ files' = [n \in Names |-> IF files[n] = Nil THEN Nil
                                          ELSE [files[n] EXCEPT !.vol = "nil"]]
    <3> DEFINE s == [n \in Names |-> "nil"]
    <3>1. s \in [Names -> Handles]
      BY DEF Handles
    <3>2. files' = [n \in Names |-> IF files[n] = Nil THEN Nil ELSE [files[n] EXCEPT !.vol = s[n]]]
      BY <2>1
    <3> HIDE DEF s
    <3> QED  BY <1>2, <2>1, <3>1, <3>2
  <2> QED  BY <1>1, <1>5, <2>1 DEF ConnectFailed, storeVars, toldVars
<1>6. CASE FinishJob
  <2> DEFINE j == Head(completed)
             n == j.name
  <2>1. CASE /\ UNCHANGED toldVars /\ j.mapped /\ files[n].res # Nil
             /\ files' = [files EXCEPT ![n].vol = j.made,
                                       ![n].res.phase = IF j.made = "nil" THEN "Failed"
                                                        ELSE "Available"]
    <3>1. j \in MappedJobs
      BY <1>6 DEF FinishJob, IndInv, JobsMapped
    <3>2. n \in Names /\ files[n] # Nil /\ j.made \in Handles
      BY <2>1, <3>1 DEF MappedJobs, Job, JobOf
    <3>3. files[n] \in File /\ files[n].res \in OurObject /\ HasRes(files[n])
      BY <1>0, <2>1, <3>2 DEF File, HasRes
    <3> HIDE DEF n, j
    <3>4. PICK p \in Phases : files' = [files EXCEPT ![n].vol = j.made, ![n].res.phase = p]
      BY <2>1 DEF Phases
    <3> DEFINE r == [files[n].res EXCEPT !.phase = p]
    <3>5. files'[n] = [res |-> r, vol |-> j.made]
      BY <1>0, <3>2, <3>3, <3>4 DEF File
    <3>6. r.rev = files[n].res.rev /\ r.spec = files[n].res.spec /\ r \in OurObject
      BY <3>3, ObjectType, SameVersion, PhaseType, OursType
    <3> HIDE DEF r
    <3>7. files'[n] # Nil
      BY <3>2, <3>5, <3>6, FileType
    <3>8. files[n].res.rev \in Nat
      BY <3>3, ObjectRev
    <3>9. Keeps(files[n], files'[n])
      BY <3>2, <3>3, <3>5, <3>6, <3>7, <3>8 DEF Keeps
    <3>10. ASSUME NEW m \in Names, m # n
           PROVE  Keeps(files[m], files'[m])
      <4>1. files'[m] = files[m]
        BY <1>0, <3>4, <3>10
      <4> QED  BY <4>1, KeepsSame
    <3> QED  BY <2>1, <3>9, <3>10, ViewRests
  <2> QED  BY <1>1, <1>3, <1>6, <2>1 DEF FinishJob, storeVars, toldVars
<1> QED  BY <1>4, <1>5, <1>6

LEMMA PoolReadyView ==
  ASSUME StepOK, AllView, PoolReady PROVE AllView' \/ proc' = "down"
<1>1. CASE UNCHANGED <<toldVars, files>>
  BY <1>1, KeepsSame, ViewRests
<1>2. CASE NoRes = {} /\ LoadVolumes
  BY <1>2, LoadVolumesView
<1>3. CASE PanicInLoop(LoadedObjects, Mapped \ NoRes, Mapped \ (NoRes \union Found))
  BY <1>3 DEF PanicInLoop, Forget
<1> QED  BY <1>1, <1>2, <1>3 DEF PoolReady, storeVars, toldVars

LEMMA RefreshView ==
  ASSUME StepOK, AllView, RefreshSizes PROVE AllView' \/ proc' = "down"
<1>1. CASE UNCHANGED <<toldVars, files>>
  BY <1>1, KeepsSame, ViewRests
<1>2. ASSUME NEW bad, PanicInLoop(RefreshedObjects(bad), Held \ NoRes, {})
      PROVE  proc' = "down"
  BY <1>2 DEF PanicInLoop, Forget
<1> QED  BY <1>1, <1>2, RefreshSizesView DEF RefreshSizes, storeVars, toldVars

LEMMA WatchEventView ==
  ASSUME StepOK, AllView, WatchEvent PROVE AllView' \/ proc' = "down"
BY AddFileView, ModifyFileView, DeleteFileView DEF WatchEvent

(* A step of a daemon that runs or has just started keeps the view, unless *)
(* it ends the watch or moves a file.                                      *)
LEMMA AllViewStep ==
  ASSUME IndInv, StepOK, AllView, NoFilesYet, proc # "down", [Next]_vars, Quiet, Quiet'
  PROVE  AllView' \/ proc' = "down"
<1>1. ~WatchEOF /\ budget'["move"] = budget["move"]
  <2>1. WatchEOF => budget'["eof"] < budget["eof"]
    BY BudgetFalls DEF StepOK
  <2>2. budget'["eof"] = budget["eof"] /\ budget["eof"] \in Nat
    BY DEF Quiet, StepOK, TypeOK, Faults
  <2> QED  BY <2>1, <2>2 DEF Quiet
<1>2. CASE UNCHANGED <<toldVars, files>>
  BY <1>2, KeepsSame, ViewRests
<1>3. CASE Kill
  BY <1>3 DEF Kill, Forget
<1>4. CASE Connect \/ PoolLoadFails \/ Tick \/ \E w \in Workers : Take(w) \/ Process(w) \/ HandOver(w)
  BY <1>2, <1>4 DEF Connect, PoolLoadFails, Tick, Take, Process, HandOver, storeVars, toldVars
<1>5. CASE Boot \/ LoadFileResources
  BY <1>5, LoadFilesView DEF Boot
<1>6. CASE WatchEvent \/ PoolReady \/ RefreshSizes
  BY <1>6, WatchEventView, PoolReadyView, RefreshView
<1>7. CASE ConnLost \/ ConnectFailed \/ FinishJob
  BY <1>7, HandleView
<1>8. CASE \E n \in Names : UserCreate(n) \/ UserModify(n) \/ UserDelete(n)
  BY <1>1, <1>8, UserView
<1>9. CASE \E n \in Names : Outage(n) \/ OutageEnds(n)
  BY <1>2, <1>9 DEF Outage, OutageEnds, toldVars
<1>10. CASE UNCHANGED vars
  BY <1>2, <1>10 DEF vars, storeVars, toldVars
<1> QED  BY <1>1, <1>3, <1>4, <1>5, <1>6, <1>7, <1>8, <1>9, <1>10 DEF Next, MainLoop

(* Only a daemon that runs has files.                                      *)
LEMMA NoFilesStep ==
  ASSUME NoFilesYet, [Next]_vars
  PROVE  NoFilesYet'
<1>1. CASE Forget
  BY <1>1 DEF Forget, NoFilesYet
<1>2. CASE proc' \notin {"down", "booted"}
  BY <1>2 DEF NoFilesYet
<1>3. CASE UNCHANGED files /\ (proc' = proc \/ proc = "down")
  BY <1>3 DEF NoFilesYet
<1>4. CASE ConnLost
  BY <1>4 DEF ConnLost, NoFilesYet
<1>5. CASE Boot \/ LoadFileResources \/ UNCHANGED vars \/ Kill
  BY <1>1, <1>2, <1>3, <1>5 DEF Boot, LoadFileResources, vars, Kill
<1>6. CASE MainLoop
  <2>1. Forget \/ proc' \notin {"down", "booted"}
    <3>1. CASE WatchEvent
      <4>1. PICK e : AddFile(e) \/ ModifyFile(e) \/ DeleteFile(e)
        BY <3>1 DEF WatchEvent
      <4>2. proc = "run"
        BY <3>1 DEF WatchEvent
      <4> QED  BY <4>1, <4>2 DEF AddFile, ModifyFile, DeleteFile, Ignore, Panic
    <3>2. CASE FinishJob
      BY <3>2 DEF FinishJob, Panic
    <3>3. CASE RefreshSizes
      BY <3>3 DEF RefreshSizes, PanicInLoop
    <3>4. CASE PoolReady
      BY <3>4 DEF PoolReady, PanicInLoop
    <3>5. CASE WatchEOF \/ Connect \/ ConnectFailed \/ PoolLoadFails \/ Tick
      BY <3>5 DEF WatchEOF, Connect, ConnectFailed, Panic, PoolLoadFails, Tick
    <3> QED  BY <1>6, <3>1, <3>2, <3>3, <3>4, <3>5 DEF MainLoop
  <2> QED  BY <1>1, <1>2, <2>1
<1>7. CASE \E w \in Workers : Take(w) \/ Process(w) \/ HandOver(w)
  BY <1>3, <1>7 DEF Take, Process, HandOver
<1>8. CASE \E n \in Names : UserCreate(n) \/ UserModify(n) \/ UserDelete(n)
  BY <1>3, <1>8 DEF UserCreate, UserModify, UserDelete
<1>9. CASE \E n \in Names : Outage(n) \/ OutageEnds(n)
  BY <1>3, <1>9 DEF Outage, OutageEnds
<1> QED  BY <1>4, <1>5, <1>6, <1>7, <1>8, <1>9 DEF Next

LEMMA ViewStep ==
  ASSUME IndInv, SpecInv, ViewInv, [Next]_vars
  PROVE  ViewInv'
<1>1. TypeOK /\ TypeOK' /\ StepOK
  BY StepInv DEF IndInv, StepOK
<1>2. /\ budget["eof"] \in Nat /\ budget["move"] \in Nat
      /\ budget'["eof"] \in Nat /\ budget'["move"] \in Nat
      /\ WatchEOFs \in Nat /\ Moves \in Nat
  BY <1>1, ConstantsAssumption DEF TypeOK, Faults
<1>3. budget'["eof"] <= budget["eof"] /\ budget'["move"] <= budget["move"]
  BY <1>1, BudgetFalls
<1>4. /\ budget'["eof"] <= WatchEOFs /\ budget'["move"] <= Moves
      /\ Quiet' => Quiet
  BY <1>2, <1>3 DEF ViewInv, Quiet
<1>5. NoFilesYet /\ NoFilesYet'
  BY NoFilesStep DEF ViewInv
<1>6. ASSUME Quiet', proc' # "down"
      PROVE  AllView'
  <2>1. CASE proc = "down"
    <3>1. Boot \/ UNCHANGED <<toldVars, files, proc>>
      BY <1>6, <2>1 DEF Next, LoadFileResources, MainLoop, WatchEvent, WatchEOF, Connect,
         ConnectFailed, PoolLoadFails, PoolReady, Tick, FinishJob, RefreshSizes, Take, Process,
         HandOver, UserCreate, UserModify, UserDelete, Outage, OutageEnds, ConnLost, Kill, vars,
         storeVars, toldVars
    <3>2. Boot
      BY <1>6, <2>1, <3>1
    <3>3. OpenWatch /\ UNCHANGED api /\ \A n \in Names : files'[n] = Nil
      BY <1>5, <2>1, <3>2 DEF Boot, NoFilesYet
    <3> QED  BY <1>1, <3>3, OpenWatchView
  <2>2. CASE proc # "down"
    BY <1>1, <1>4, <1>5, <1>6, <2>2, AllViewStep DEF ViewInv
  <2> QED  BY <2>1, <2>2
<1> QED  BY <1>4, <1>5, <1>6 DEF ViewInv

LEMMA ViewAlways == Spec => [](IndInv /\ SpecInv /\ ViewInv)
<1>1. Init => ViewInv
  <2>1. SUFFICES ASSUME Init PROVE ViewInv
    OBVIOUS
  <2>2. budget["eof"] = WatchEOFs /\ budget["move"] = Moves
    BY <2>1 DEF Init, Faults
  <2>3. proc = "down" /\ NoFilesYet
    BY <2>1 DEF Init, NoFilesYet
  <2> QED  BY <2>2, <2>3, ConstantsAssumption DEF ViewInv
<1>2. Init => SpecInv
  BY DEF Init, SpecInv
<1>3. IndInv /\ SpecInv /\ ViewInv /\ [Next]_vars => SpecInv' /\ ViewInv'
  BY SpecStepInv, ViewStep DEF SpecStep
<1> QED  BY <1>1, <1>2, <1>3, Invariance, PTL DEF Spec

(* The daemon that has heard everything the watch had to say knows exactly *)
(* the objects of its repository, with their specs, however the events of  *)
(* users and those of its own PUTs, the connections, the jobs and the      *)
(* restarts were interleaved.                                              *)
THEOREM ViewIsRight == Spec => []ViewAgrees
<1>1. IndInv /\ SpecInv /\ ViewInv => ViewAgrees
  <2>1. SUFFICES ASSUME TypeOK, AllView, watch = <<>>, NEW n \in Names
                 PROVE  /\ files[n] # Nil <=> Ours(n)
                        /\ files[n] # Nil /\ files[n].res # Nil => files[n].res.spec = api[n].spec
    BY DEF IndInv, ViewInv, ViewAgrees, Agrees, Quiet
  <2>2. About(watch, n) = {}
    BY <2>1 DEF About
  <2>3. View(n, watch, api[n], files[n])
    BY <2>1 DEF AllView
  <2> QED  BY <2>2, <2>3 DEF View, Known, Leaves, Settled, IsOurs, Ours, HasRes
<1> QED  BY <1>1, ViewAlways, PTL

=============================================================================
