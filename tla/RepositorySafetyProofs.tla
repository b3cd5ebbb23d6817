----------------------- MODULE RepositorySafetyProofs -----------------------
(***************************************************************************)
(* Proofs that an image repository keeps the volumes it uses, that objects *)
(* and volumes come to say the same, and that a connection gets its pool:  *)
(* for every set of names, sizes and workers and every bound on the faults. *)
(* The types are those of ImageRepositoryProofs, what the daemon has been  *)
(* told of the objects is from RepositorySpecsProofs.                      *)
(***************************************************************************)
EXTENDS RepositorySpecsProofs

-----------------------------------------------------------------------------
(* The inductive invariant.                                                *)

Jobs == {pending[i] : i \in DOMAIN pending} \union {completed[i] : i \in DOMAIN completed}
        \union ({working[w] : w \in Workers} \ {Nil})

Loading == loads["live"] + loads["dead"]

(* A connection has one load, which is over before its pool is there.      *)
LinkInv ==
  /\ link = "down" => Loading = 0 /\ pool = "nil"
  /\ pool # "nil" => Loading = 0
  /\ Loading <= 1
  /\ link # "up" => loads["live"] = 0 /\ pool # "live"

(* Handles and jobs are of the connection of the pool: while there is no   *)
(* pool that works, nothing else works.                                    *)
LiveJob(j) == j.handle = "live" \/ j.made = "live"
UsedBy(n)  == files[n] # Nil /\ files[n].vol = "live"
NothingLive == (\A n \in Names : ~UsedBy(n)) /\ (\A j \in Jobs : ~LiveJob(j))
LiveInv == pool # "live" => NothingLive

(* The deletions of a volume that are still to run: one at most, and none  *)
(* of a volume that is in use, or will be when a creation is finished,     *)
(* be it over a connection that has gone since.                            *)
Queued(n)  == {i \in DOMAIN pending : pending[i] = DeleteJob(n, "live")}
Running(n) == {w \in Workers \ ran : working[w] = DeleteJob(n, "live")}
Spared(n)  == Queued(n) = {} /\ Running(n) = {}
Once(n)    == /\ \A i, k \in Queued(n) : i = k
              /\ \A v, w \in Running(n) : v = w
              /\ Queued(n) = {} \/ Running(n) = {}
HasVol(n)  == files[n] # Nil /\ files[n].vol # "nil"
Made(j, n) == j.name = n /\ j.mapped /\ j.made # "nil"
Used(n)    == HasVol(n) \/ \E j \in Jobs : Made(j, n)

VolInv == \A n \in Names :
  /\ Once(n)
  /\ vols[n] = Nil => Spared(n)
  /\ Used(n) => vols[n] # Nil /\ Spared(n)

(* The job of a deletion is of no file and makes no volume.                *)
PlainInv == \A j \in Jobs : j.op = "delete" => ~j.mapped /\ j.made = "nil"

SafeInv == LinkInv /\ LiveInv /\ VolInv /\ PlainInv

-----------------------------------------------------------------------------
(* Jobs.                                                                   *)

LEMMA JobsType ==
  ASSUME TypeOK
  PROVE  Jobs \subseteq Job
BY DEF TypeOK, Jobs

LEMMA JobFields ==
  ASSUME NEW j \in Job
  PROVE  /\ j.op \in {"create", "resize", "delete"} /\ j.name \in Names
         /\ j.handle \in {"live", "dead"} /\ j.made \in Handles /\ j.mapped \in BOOLEAN
         /\ j.op # "delete" => j.size \in Sizes
BY DEF Job, JobOf

LEMMA DeleteIsLive ==
  ASSUME NEW n
  PROVE  /\ LiveJob(DeleteJob(n, "live")) /\ DeleteJob(n, "live").op = "delete"
         /\ ~\E m : Made(DeleteJob(n, "live"), m)
BY DEF LiveJob, DeleteJob, Made

(* The only job that deletes the volume of n over a connection that works. *)
LEMMA DeleteUnique ==
  ASSUME NEW j \in Job, j.op = "delete", j.handle = "live", ~j.mapped, j.made = "nil"
  PROVE  j = DeleteJob(j.name, "live")
BY DEF Job, JobOf, DeleteJob

LEMMA UnmapFields ==
  ASSUME NEW j \in Job, NEW n, j.op = "delete" => ~j.mapped
  PROVE  /\ Unmap(j, n).op = j.op /\ Unmap(j, n).name = j.name /\ Unmap(j, n).made = j.made
         /\ Unmap(j, n).handle = j.handle
         /\ Unmap(j, n).mapped => j.mapped /\ j.name # n
         /\ j.op = "delete" => Unmap(j, n) = j
BY DEF Job, JobOf, Unmap

LEMMA SeverFields ==
  ASSUME NEW j \in Job
  PROVE  /\ SeverJob(j).op = j.op /\ SeverJob(j).name = j.name /\ SeverJob(j).mapped = j.mapped
         /\ SeverJob(j).handle # "live" /\ SeverJob(j).made # "live"
         /\ SeverJob(j).made = "nil" <=> j.made = "nil"
BY DEF Job, JobOf, SeverJob, Sever

LEMMA AppendJobs ==
  ASSUME TypeOK, NEW x \in Job, pending' = Append(pending, x), UNCHANGED <<working, ran, completed>>
  PROVE  /\ Jobs' = Jobs \union {x}
         /\ \A n \in Names : Running(n)' = Running(n)
         /\ \A n \in Names : \A i \in Queued(n)' :
               i \in Queued(n) \/ (i = Len(pending) + 1 /\ x = DeleteJob(n, "live"))
<1>1. /\ pending \in Seq(Job) /\ DOMAIN pending' = DOMAIN pending \union {Len(pending) + 1}
      /\ Len(pending) + 1 \notin DOMAIN pending
      /\ pending'[Len(pending) + 1] = x /\ \A i \in DOMAIN pending : pending'[i] = pending[i]
  BY DEF TypeOK
<1>2. {pending'[i] : i \in DOMAIN pending'} = {pending[i] : i \in DOMAIN pending} \union {x}
  BY <1>1
<1>3. Jobs' = Jobs \union {x}
  BY <1>2, NilAssumption DEF Jobs
<1>4. \A n \in Names : \A i \in Queued(n)' :
        i \in Queued(n) \/ (i = Len(pending) + 1 /\ x = DeleteJob(n, "live"))
  BY <1>1 DEF Queued
<1> QED  BY <1>3, <1>4 DEF Running

-----------------------------------------------------------------------------
(* What a step may do to the volumes and their deletions.                  *)

Fewer(n) == Queued(n)' \subseteq Queued(n) /\ Running(n)' \subseteq Running(n)

LEMMA VolStays ==
  ASSUME VolInv, \A n \in Names : Fewer(n),
         \A n \in Names : vols'[n] = Nil => vols[n] = Nil \/ Spared(n)',
         \A n \in Names : Used(n)' => vols'[n] # Nil /\ Spared(n)'
  PROVE  VolInv'
<1> SUFFICES ASSUME NEW n \in Names
             PROVE  /\ Once(n)'
                    /\ vols'[n] = Nil => Spared(n)'
                    /\ Used(n)' => vols'[n] # Nil /\ Spared(n)'
  BY DEF VolInv
<1>1. Queued(n)' \subseteq Queued(n) /\ Running(n)' \subseteq Running(n)
  BY DEF Fewer
<1>2. Once(n)'
  BY <1>1 DEF VolInv, Once
<1>3. vols'[n] = Nil => Spared(n)'
  BY <1>1 DEF VolInv, Spared
<1> QED  BY <1>2, <1>3

LEMMA VolSame ==
  ASSUME VolInv, \A n \in Names : Fewer(n), UNCHANGED vols, \A n \in Names : Used(n)' => Used(n)
  PROVE  VolInv'
<1>1. \A n \in Names : Used(n)' => vols'[n] # Nil /\ Spared(n)'
  BY DEF VolInv, Spared, Fewer
<1> QED  BY <1>1, VolStays

LEMMA QueueRests ==
  ASSUME UNCHANGED queueVars
  PROVE  Jobs' = Jobs /\ \A n : Queued(n)' = Queued(n) /\ Running(n)' = Running(n)
BY DEF queueVars, Jobs, Queued, Running

GivesUp(n) == HasVol(n)' => HasVol(n) /\ files'[n].vol = files[n].vol

LEMMA GivenUp ==
  ASSUME \A n \in Names : GivesUp(n)
  PROVE  /\ \A n \in Names : UsedBy(n)' => UsedBy(n)
         /\ \A n \in Names : HasVol(n)' => HasVol(n)
BY DEF GivesUp, HasVol, UsedBy

LEMMA GivesNone ==
  ASSUME UNCHANGED files
  PROVE  \A n \in Names : GivesUp(n)
BY DEF GivesUp, HasVol

(* A step that leaves the jobs, and at most gives handles up.              *)
LEMMA SafeRests ==
  ASSUME SafeInv, UNCHANGED <<vols, linkVars, queueVars>>, \A n \in Names : GivesUp(n)
  PROVE  SafeInv'
<1>1. Jobs' = Jobs /\ \A n : Queued(n)' = Queued(n) /\ Running(n)' = Running(n)
  BY QueueRests
<1>2. LinkInv' /\ LiveInv' /\ PlainInv'
  BY <1>1, GivenUp DEF SafeInv, LinkInv, Loading, LiveInv, NothingLive, PlainInv, linkVars
<1>3. VolInv'
  BY <1>1, GivenUp, VolSame DEF SafeInv, Fewer, Used
<1> QED  BY <1>2, <1>3 DEF SafeInv

LEMMA SafeForget ==
  ASSUME SafeInv, Forget
  PROVE  SafeInv'
<1>1. /\ link' = "down" /\ loads' = NoLoads /\ pool' = "nil" /\ files' = [n \in Names |-> Nil]
      /\ pending' = <<>> /\ working' = [w \in Workers |-> Nil] /\ completed' = <<>>
  BY DEF Forget
<1>2. Jobs' = {}
  BY <1>1 DEF Jobs
<1>3. \A n \in Names : ~UsedBy(n)' /\ ~HasVol(n)' /\ Queued(n)' = {} /\ Running(n)' = {}
  <2>1. ASSUME NEW n \in Names PROVE DeleteJob(n, "live") # Nil
    BY DeleteJobType, NilAssumption
  <2> QED  BY <1>1, <2>1 DEF UsedBy, HasVol, Queued, Running
<1>4. LinkInv'
  BY <1>1 DEF LinkInv, Loading, NoLoads
<1>5. VolInv'
  BY <1>2, <1>3 DEF VolInv, Once, Spared, Used
<1> QED  BY <1>2, <1>3, <1>4, <1>5 DEF SafeInv, LiveInv, NothingLive, PlainInv

-----------------------------------------------------------------------------
(* The volumes, step by step.                                              *)

LEMMA LoadFilesSafe ==
  ASSUME IndInv, SafeInv, LoadFileResources PROVE SafeInv'
<1>1. \A n \in Names : GivesUp(n)
  BY DEF LoadFileResources, GivesUp, HasVol
<1> QED  BY <1>1, SafeRests DEF LoadFileResources

LEMMA AddFileSafe ==
  ASSUME IndInv, SafeInv, NEW e \in Event, AddFile(e) PROVE SafeInv'
<1> DEFINE n   == e.name
           new == e.obj.spec # Elsewhere /\ files[n] = Nil
           x   == CreateJob(n, pool, e.obj.spec)
<1>0. TypeOK
  BY DEF IndInv
<1>1. CASE Ignore
  BY <1>1, GivesNone, SafeRests DEF Ignore
<1>2. CASE Panic
  BY <1>2, SafeForget DEF Panic
<1>3. CASE /\ new /\ pool # "nil" /\ pending' = Append(pending, x)
           /\ \E r : files' = [files EXCEPT ![n] = [res |-> r, vol |-> "nil"]]
           /\ UNCHANGED <<vols, linkVars, working, ran, completed>>
  <2>1. n \in Names /\ e.obj.spec \in Sizes /\ pool \in {"live", "dead"}
    BY <1>0, <1>3 DEF Event, Object, ObjectOf, TypeOK, Handles
  <2>2. x \in Job /\ x.op = "create" /\ x.made = "nil" /\ x.handle = pool
    BY <2>1, JobTypes DEF CreateJob
  <2> HIDE DEF x
  <2>3. /\ Jobs' = Jobs \union {x}
        /\ \A m \in Names : Fewer(m)
    BY <1>0, <1>3, <2>2, AppendJobs, DeleteIsLive DEF Fewer
  <2>4. \A m \in Names : (UsedBy(m)' => UsedBy(m)) /\ (HasVol(m)' => HasVol(m))
    BY <1>0, <1>3, GivenUp DEF GivesUp, HasVol, TypeOK
  <2>5. VolInv'
    <3>1. \A m \in Names : Used(m)' => Used(m)
      BY <2>2, <2>3, <2>4 DEF Used, Made
    <3> QED  BY <1>3, <2>3, <3>1, VolSame DEF SafeInv
  <2>6. LinkInv' /\ PlainInv'
    BY <1>3, <2>2, <2>3 DEF SafeInv, LinkInv, Loading, PlainInv, linkVars
  <2>7. LiveInv'
    BY <1>3, <2>2, <2>3, <2>4 DEF SafeInv, LiveInv, NothingLive, LiveJob, linkVars
  <2> QED  BY <2>5, <2>6, <2>7 DEF SafeInv
<1> HIDE DEF x
<1>4. AddFile(e) => \/ Ignore \/ Panic
                    \/ /\ new /\ pool # "nil" /\ pending' = Append(pending, x)
                       /\ \E r : files' = [files EXCEPT ![n] = [res |-> r, vol |-> "nil"]]
                       /\ UNCHANGED <<vols, linkVars, working, ran, completed>>
  BY DEF AddFile, x
<1> QED  BY <1>1, <1>2, <1>3, <1>4

LEMMA ModifyFileSafe ==
  ASSUME IndInv, SafeInv, NEW e \in Event, ModifyFile(e) PROVE SafeInv'
<1> DEFINE n == e.name
           x == ResizeJob(n, files[n].vol, e.obj.spec)
<1>0. TypeOK
  BY DEF IndInv
<1>1. CASE Ignore
  BY <1>1, GivesNone, SafeRests DEF Ignore
<1>2. CASE Panic
  BY <1>2, SafeForget DEF Panic
<1>3. CASE /\ files' = [files EXCEPT ![n].res = e.obj] /\ UNCHANGED <<vols, linkVars, working, ran, completed>>
           /\ files[n] # Nil /\ e.obj.spec # Elsewhere
           /\ pending' = pending \/ (files[n].vol # "nil" /\ pending' = Append(pending, x))
  <2>1. n \in Names /\ e.obj.spec \in Sizes /\ files[n] \in File
    BY <1>0, <1>3 DEF Event, Object, ObjectOf, TypeOK
  <2>2. \A m \in Names : GivesUp(m)
    BY <1>0, <1>3 DEF GivesUp, HasVol, TypeOK, File
  <2>3. CASE pending' = pending
    BY <1>3, <2>2, <2>3, SafeRests DEF queueVars
  <2>4. CASE files[n].vol # "nil" /\ pending' = Append(pending, x)
    <3>1. files[n].vol \in {"live", "dead"}
      BY <2>1, <2>4 DEF File, Handles
    <3>2. x \in Job /\ x.op = "resize" /\ x.made = "nil" /\ x.handle = files[n].vol
      BY <2>1, <3>1, JobTypes DEF ResizeJob
    <3> HIDE DEF x
    <3>3. Jobs' = Jobs \union {x} /\ \A m \in Names : Fewer(m)
      BY <1>0, <1>3, <2>4, <3>2, AppendJobs, DeleteIsLive DEF Fewer
    <3>4. \A m \in Names : Used(m)' => Used(m)
      BY <2>2, <3>2, <3>3, GivenUp DEF Used, Made
    <3>5. VolInv'
      BY <1>3, <3>3, <3>4, VolSame DEF SafeInv
    <3>6. LinkInv' /\ PlainInv'
      BY <1>3, <3>2, <3>3 DEF SafeInv, LinkInv, Loading, PlainInv, linkVars
    <3>7. pool # "live" => x.handle # "live"
      BY <1>3, <2>1, <3>2 DEF SafeInv, LiveInv, NothingLive, UsedBy
    <3>8. LiveInv'
      BY <1>3, <2>2, <3>2, <3>3, <3>7, GivenUp DEF SafeInv, LiveInv, NothingLive, LiveJob, linkVars
    <3> QED  BY <3>5, <3>6, <3>8 DEF SafeInv
  <2> QED  BY <1>3, <2>3, <2>4
<1> HIDE DEF x
<1>4. ModifyFile(e) => \/ Ignore \/ Panic
        \/ /\ files' = [files EXCEPT ![n].res = e.obj] /\ UNCHANGED <<vols, linkVars, working, ran, completed>>
           /\ files[n] # Nil /\ e.obj.spec # Elsewhere
           /\ pending' = pending \/ (files[n].vol # "nil" /\ pending' = Append(pending, x))
  BY DEF ModifyFile, x
<1> QED  BY <1>1, <1>2, <1>3, <1>4

(* The jobs after a deletion of the file n: those before, which are of no  *)
(* file any more if they were of n, and perhaps the deletion of its volume.*)
LEMMA DeleteFileJobs ==
  ASSUME IndInv, SafeInv, NEW n \in Names, files[n] # Nil,
         pending' = [i \in DOMAIN pending |-> Unmap(pending[i], n)] \o DeleteOf(n),
         working' = [w \in Workers |-> IF working[w] = Nil THEN Nil ELSE Unmap(working[w], n)],
         completed' = [i \in DOMAIN completed |-> Unmap(completed[i], n)], UNCHANGED ran
  PROVE  /\ \A j \in Jobs' : \/ \E k \in Jobs : j = Unmap(k, n)
                             \/ files[n].vol # "nil" /\ j = DeleteJob(n, files[n].vol)
         /\ \A m \in Names : Running(m)' \subseteq Running(m)
         /\ \A m \in Names : \A i \in Queued(m)' :
              \/ i \in Queued(m)
              \/ i = Len(pending) + 1 /\ m = n /\ files[n].vol = "live"
<1> DEFINE kept == [i \in DOMAIN pending |-> Unmap(pending[i], n)]
<1>1. /\ pending \in Seq(Job) /\ completed \in Seq(Job) /\ working \in [Workers -> Job \union {Nil}]
      /\ files[n] \in File
  BY DEF IndInv, TypeOK
<1>2. \A i \in DOMAIN pending : pending[i] \in Job /\ pending[i] \in Jobs
  BY <1>1 DEF Jobs
<1>3. kept \in Seq(Job) /\ Len(kept) = Len(pending) /\ DOMAIN kept = DOMAIN pending
  <2>1. \A i \in DOMAIN pending : kept[i] \in Job
    BY <1>2, UnmapType
  <2>2. DOMAIN kept = DOMAIN pending
    OBVIOUS
  <2>3. kept \in Seq(Job)
    BY <1>1, <2>1, MapSeq
  <2>4. Len(kept) = Len(pending)
    BY <1>1, <2>1, MapSeq
  <2> QED  BY <2>2, <2>3, <2>4
<1>4. files[n].vol \in Handles /\ (files[n].vol # "nil" => DeleteJob(n, files[n].vol) \in Job)
  BY <1>1, DeleteJobType DEF File, Handles
<1>5. \A i \in DOMAIN kept : kept[i] = Unmap(pending[i], n)
  OBVIOUS
<1>6. pending' = kept \o DeleteOf(n)
  OBVIOUS
<1> HIDE DEF kept
<1>7. ASSUME NEW i \in DOMAIN pending'
      PROVE  \/ i \in DOMAIN pending /\ pending'[i] = Unmap(pending[i], n)
             \/ /\ i = Len(pending) + 1 /\ files[n].vol # "nil"
                /\ pending'[i] = DeleteJob(n, files[n].vol)
  <2>1. CASE files[n].vol = "nil"
    <3>1. pending' = kept
      BY <1>3, <1>6, <2>1 DEF DeleteOf
    <3> QED  BY <1>3, <1>5, <3>1
  <2>2. CASE files[n].vol # "nil"
    <3>1. pending' = Append(kept, DeleteJob(n, files[n].vol))
      BY <1>3, <1>4, <1>6, <2>2 DEF DeleteOf
    <3>2. CASE i \in DOMAIN kept
      BY <1>3, <1>5, <3>1, <3>2
    <3>3. CASE i \notin DOMAIN kept
      BY <1>3, <1>4, <2>2, <3>1, <3>3
    <3> QED  BY <3>2, <3>3
  <2> QED  BY <2>1, <2>2
<1>8. \A j \in Jobs' : \/ \E k \in Jobs : j = Unmap(k, n)
                       \/ files[n].vol # "nil" /\ j = DeleteJob(n, files[n].vol)
  <2>1. \A i \in DOMAIN pending' : \/ \E k \in Jobs : pending'[i] = Unmap(k, n)
                                   \/ files[n].vol # "nil" /\ pending'[i] = DeleteJob(n, files[n].vol)
    BY <1>2, <1>7
  <2>2. \A i \in DOMAIN completed' : \E k \in Jobs : completed'[i] = Unmap(k, n)
    BY DEF Jobs
  <2>3. \A w \in Workers : working'[w] # Nil => \E k \in Jobs : working'[w] = Unmap(k, n)
    BY DEF Jobs
  <2>4. ASSUME NEW j \in Jobs'
        PROVE  \/ \E i \in DOMAIN pending' : j = pending'[i]
               \/ \E i \in DOMAIN completed' : j = completed'[i]
               \/ \E w \in Workers : j = working'[w] /\ working'[w] # Nil
    BY DEF Jobs
  <2> QED  BY <2>1, <2>2, <2>3, <2>4
<1>9. \A k \in Jobs, m \in Names : Unmap(k, n) = DeleteJob(m, "live") => k = DeleteJob(m, "live")
  <2> SUFFICES ASSUME NEW k \in Jobs, NEW m \in Names, Unmap(k, n) = DeleteJob(m, "live")
               PROVE  k = DeleteJob(m, "live")
    OBVIOUS
  <2>1. k \in Job /\ (k.op = "delete" => ~k.mapped)
    BY JobsType DEF IndInv, SafeInv, PlainInv
  <2>2. Unmap(k, n).op = "delete"
    BY DeleteIsLive
  <2> QED  BY <2>1, <2>2, UnmapFields
<1>10. ASSUME NEW m \in Names PROVE Running(m)' \subseteq Running(m)
  <2>1. DeleteJob(m, "live") # Nil
    BY DeleteJobType, NilAssumption
  <2>2. ASSUME NEW w \in Running(m)' PROVE w \in Running(m)
    <3>1. w \in Workers \ ran /\ working'[w] = DeleteJob(m, "live")
      BY DEF Running
    <3>2. working[w] # Nil /\ working'[w] = Unmap(working[w], n) /\ working[w] \in Jobs
      BY <2>1, <3>1 DEF Jobs
    <3> QED  BY <1>9, <3>1, <3>2 DEF Running
  <2> QED  BY <2>2
<1>11. ASSUME NEW m \in Names, NEW i \in Queued(m)'
       PROVE  i \in Queued(m) \/ (i = Len(pending) + 1 /\ m = n /\ files[n].vol = "live")
  <2>1. i \in DOMAIN pending' /\ pending'[i] = DeleteJob(m, "live")
    BY DEF Queued
  <2>2. CASE i \in DOMAIN pending /\ pending'[i] = Unmap(pending[i], n)
    BY <1>2, <1>9, <2>1, <2>2 DEF Queued
  <2>3. CASE i = Len(pending) + 1 /\ pending'[i] = DeleteJob(n, files[n].vol)
    BY <2>1, <2>3 DEF DeleteJob
  <2> QED  BY <1>7, <2>1, <2>2, <2>3
<1> QED  BY <1>8, <1>10, <1>11

LEMMA DeleteFileSafe ==
  ASSUME IndInv, SafeInv, NEW e \in Event, DeleteFile(e) PROVE SafeInv'
<1> DEFINE n == e.name
<1>0. TypeOK /\ n \in Names
  BY DEF IndInv, Event
<1>1. CASE Ignore
  BY <1>1, GivesNone, SafeRests DEF Ignore
<1>2. CASE /\ files[n] # Nil /\ files' = [files EXCEPT ![n] = Nil]
           /\ pending' = [i \in DOMAIN pending |-> Unmap(pending[i], n)] \o DeleteOf(n)
           /\ working' = [w \in Workers |-> IF working[w] = Nil THEN Nil ELSE Unmap(working[w], n)]
           /\ completed' = [i \in DOMAIN completed |-> Unmap(completed[i], n)]
           /\ UNCHANGED <<vols, linkVars, ran>>
  <2> HIDE DEF n
  <2>1. /\ \A j \in Jobs' : \/ \E k \in Jobs : j = Unmap(k, n)
                            \/ files[n].vol # "nil" /\ j = DeleteJob(n, files[n].vol)
        /\ \A m \in Names : Running(m)' \subseteq Running(m)
        /\ \A m \in Names : \A i \in Queued(m)' :
              \/ i \in Queued(m)
              \/ i = Len(pending) + 1 /\ m = n /\ files[n].vol = "live"
    BY <1>0, <1>2, DeleteFileJobs
  <2>2. ASSUME NEW j \in Jobs'
        PROVE  \/ /\ files[n].vol # "nil" /\ j = DeleteJob(n, files[n].vol)
                  /\ j.op = "delete" /\ ~j.mapped /\ j.made = "nil" /\ j.handle = files[n].vol
               \/ \E k \in Jobs : /\ j.op = k.op /\ j.name = k.name /\ j.made = k.made
                                  /\ j.handle = k.handle /\ (j.mapped => k.mapped /\ k.name # n)
    <3>1. CASE files[n].vol # "nil" /\ j = DeleteJob(n, files[n].vol)
      BY <3>1 DEF DeleteJob
    <3>2. ASSUME NEW k \in Jobs, j = Unmap(k, n)
          PROVE  /\ j.op = k.op /\ j.name = k.name /\ j.made = k.made
                 /\ j.handle = k.handle /\ (j.mapped => k.mapped /\ k.name # n)
      <4>1. k \in Job /\ (k.op = "delete" => ~k.mapped)
        BY <1>0, JobsType DEF SafeInv, PlainInv
      <4> QED  BY <3>2, <4>1, UnmapFields
    <3> QED  BY <2>1, <3>1, <3>2
  <2>3. \A m \in Names : (UsedBy(m)' => UsedBy(m)) /\ (HasVol(m)' => HasVol(m) /\ m # n)
    BY <1>0, <1>2 DEF UsedBy, HasVol, TypeOK
  <2>4. \A m \in Names : Used(m)' => Used(m) /\ m # n
    BY <2>2, <2>3 DEF Used, Made
  <2>5. PlainInv'
    BY <2>2 DEF PlainInv, SafeInv
  <2>6. LinkInv'
    BY <1>2 DEF SafeInv, LinkInv, Loading, linkVars
  <2>7. LiveInv'
    <3>1. ASSUME pool # "live", NEW j \in Jobs' PROVE ~LiveJob(j)
      BY <1>2, <2>2, <3>1, <1>0 DEF SafeInv, LiveInv, NothingLive, LiveJob, UsedBy
    <3> QED  BY <1>2, <2>3, <3>1 DEF SafeInv, LiveInv, NothingLive, linkVars
  <2>8. VolInv'
    <3>1. CASE files[n].vol = "live"
      <4>1. vols[n] # Nil /\ Queued(n) = {} /\ Running(n) = {}
        BY <1>0, <1>2, <3>1 DEF SafeInv, VolInv, Used, HasVol, Spared
      <4>2. ASSUME NEW m \in Names
            PROVE  /\ Once(m)' /\ (vols'[m] = Nil => Spared(m)')
                   /\ Used(m)' => vols'[m] # Nil /\ Spared(m)'
        <5>1. CASE m = n
          <6>1. Running(n)' = {} /\ \A i \in Queued(n)' : i = Len(pending) + 1
            BY <1>0, <2>1, <4>1
          <6>2. Once(n)'
            BY <6>1 DEF Once
          <6> QED  BY <1>2, <2>4, <4>1, <5>1, <6>2
        <5>2. CASE m # n
          <6>1. Queued(m)' \subseteq Queued(m) /\ Running(m)' \subseteq Running(m)
            BY <2>1, <5>2
          <6> QED  BY <1>2, <2>4, <6>1 DEF SafeInv, VolInv, Once, Spared
        <5> QED  BY <5>1, <5>2
      <4> QED  BY <4>2 DEF VolInv
    <3>2. CASE files[n].vol # "live"
      <4>1. \A m \in Names : Fewer(m)
        BY <2>1, <3>2 DEF Fewer
      <4> QED  BY <1>2, <2>4, <4>1, VolSame DEF SafeInv
    <3> QED  BY <3>1, <3>2
  <2> QED  BY <2>5, <2>6, <2>7, <2>8 DEF SafeInv
<1>3. DeleteFile(e) => \/ Ignore
        \/ /\ files[n] # Nil /\ files' = [files EXCEPT ![n] = Nil]
           /\ pending' = [i \in DOMAIN pending |-> Unmap(pending[i], n)] \o DeleteOf(n)
           /\ working' = [w \in Workers |-> IF working[w] = Nil THEN Nil ELSE Unmap(working[w], n)]
           /\ completed' = [i \in DOMAIN completed |-> Unmap(completed[i], n)]
           /\ UNCHANGED <<vols, linkVars, ran>>
  BY DEF DeleteFile
<1> QED  BY <1>1, <1>2, <1>3

LEMMA WatchEventSafe ==
  ASSUME IndInv, SafeInv, WatchEvent PROVE SafeInv'
<1>1. watch # <<>> /\ watch \in Seq(Event)
  BY DEF WatchEvent, IndInv, TypeOK
<1>2. Head(watch) \in Event
  BY <1>1
<1>3. AddFile(Head(watch)) \/ ModifyFile(Head(watch)) \/ DeleteFile(Head(watch))
  BY DEF WatchEvent
<1> QED  BY <1>2, <1>3, AddFileSafe, ModifyFileSafe, DeleteFileSafe

LEMMA ConnectSafe ==
  ASSUME IndInv, SafeInv, Connect PROVE SafeInv'
<1>1. loads \in [{"live", "dead"} -> Nat] /\ link = "down"
  BY DEF IndInv, TypeOK, Connect
<1>2. loads["live"] = 0 /\ loads["dead"] = 0 /\ pool = "nil"
  BY <1>1 DEF SafeInv, LinkInv, Loading
<1>3. loads'["live"] = 1 /\ loads'["dead"] = 0 /\ pool' = "nil" /\ link' = "up"
  BY <1>1, <1>2 DEF Connect
<1>4. LinkInv'
  BY <1>3 DEF LinkInv, Loading
<1>5. Jobs' = Jobs /\ \A n : Queued(n)' = Queued(n) /\ Running(n)' = Running(n)
  BY QueueRests DEF Connect
<1>6. LiveInv' /\ PlainInv'
  BY <1>2, <1>5 DEF SafeInv, LiveInv, NothingLive, PlainInv, Connect, UsedBy
<1>7. VolInv'
  BY <1>5, VolSame DEF SafeInv, Fewer, Used, HasVol, Connect
<1> QED  BY <1>4, <1>6, <1>7 DEF SafeInv

(* Where nothing works, no deletion can touch a volume.                    *)
LEMMA DeadSafe ==
  ASSUME VolInv, NothingLive', UNCHANGED vols, \A n \in Names : Used(n)' => Used(n)
  PROVE  VolInv'
<1> SUFFICES ASSUME NEW n \in Names PROVE Queued(n)' = {} /\ Running(n)' = {}
  BY DEF VolInv, Once, Spared
<1>1. LiveJob(DeleteJob(n, "live")) /\ DeleteJob(n, "live") # Nil
  BY DeleteIsLive, DeleteJobType, NilAssumption
<1>2. DeleteJob(n, "live") \notin Jobs'
  BY <1>1 DEF NothingLive, LiveJob
<1>3. Queued(n)' = {}
  BY <1>2 DEF Queued, Jobs
<1>4. Running(n)' = {}
  BY <1>1, <1>2 DEF Running, Jobs
<1> QED  BY <1>3, <1>4

LEMMA ConnLostSafe ==
  ASSUME IndInv, SafeInv, ConnLost PROVE SafeInv'
<1>1. TypeOK
  BY DEF IndInv
<1>2. \A j \in Jobs' : \E k \in Jobs : j = SeverJob(k)
  <2>1. \A i \in DOMAIN pending' : \E k \in Jobs : pending'[i] = SeverJob(k)
    BY DEF ConnLost, Jobs
  <2>2. \A i \in DOMAIN completed' : \E k \in Jobs : completed'[i] = SeverJob(k)
    BY DEF ConnLost, Jobs
  <2>3. \A w \in Workers : working'[w] # Nil => \E k \in Jobs : working'[w] = SeverJob(k)
    BY DEF ConnLost, Jobs
  <2>4. ASSUME NEW j \in Jobs'
        PROVE  \/ \E i \in DOMAIN pending' : j = pending'[i]
               \/ \E i \in DOMAIN completed' : j = completed'[i]
               \/ \E w \in Workers : j = working'[w] /\ working'[w] # Nil
    BY DEF Jobs
  <2> QED  BY <2>1, <2>2, <2>3, <2>4
<1>3. \A j \in Jobs' : \E k \in Jobs : /\ j.op = k.op /\ j.name = k.name /\ j.mapped = k.mapped
                                       /\ j.handle # "live" /\ j.made # "live"
                                       /\ k.made = "nil" <=> j.made = "nil"
  BY <1>1, <1>2, JobsType, SeverFields
<1>4. \A n \in Names : ~UsedBy(n)' /\ (HasVol(n)' => HasVol(n))
  BY <1>1 DEF ConnLost, UsedBy, HasVol, Sever, TypeOK, File
<1>5. NothingLive'
  BY <1>3, <1>4 DEF NothingLive, LiveJob
<1>6. PlainInv' /\ \A n \in Names : Used(n)' => Used(n)
  BY <1>3, <1>4 DEF SafeInv, PlainInv, Used, Made
<1>7. LinkInv'
  <2>1. loads["live"] \in Nat /\ loads["dead"] \in Nat /\ pool \in Handles
    BY <1>1 DEF TypeOK
  <2>2. /\ link' = "lost" /\ loads'["live"] = 0 /\ loads'["dead"] = loads["dead"] + loads["live"]
        /\ pool' # "live" /\ (pool = "nil" <=> pool' = "nil")
    BY <2>1 DEF ConnLost, Sever, Handles
  <2> QED  BY <2>1, <2>2 DEF SafeInv, LinkInv, Loading
<1>8. UNCHANGED vols
  BY DEF ConnLost
<1> QED  BY <1>5, <1>6, <1>7, <1>8, DeadSafe DEF SafeInv, LiveInv

LEMMA ConnectFailedSafe ==
  ASSUME IndInv, SafeInv, ConnectFailed PROVE SafeInv'
<1>1. CASE Panic
  BY <1>1, SafeForget DEF Panic
<1>2. CASE /\ link = "lost" /\ pool # "nil" /\ link' = "down" /\ pool' = "nil"
           /\ files' = [n \in Names |-> IF files[n] = Nil THEN Nil ELSE [files[n] EXCEPT !.vol = "nil"]]
           /\ UNCHANGED <<vols, loads, queueVars>>
  <2>1. Jobs' = Jobs
    BY <1>2, QueueRests
  <2>2. NothingLive /\ Loading = 0
    BY <1>2 DEF SafeInv, LinkInv, LiveInv
  <2>3. \A n \in Names : ~UsedBy(n)' /\ ~HasVol(n)'
    BY <1>2 DEF UsedBy, HasVol, IndInv, TypeOK, File
  <2>4. NothingLive' /\ PlainInv' /\ \A n \in Names : Used(n)' => Used(n)
    BY <2>1, <2>2, <2>3 DEF NothingLive, SafeInv, PlainInv, Used
  <2>5. LinkInv'
    BY <1>2, <2>2 DEF SafeInv, LinkInv, Loading
  <2> QED  BY <1>2, <2>4, <2>5, DeadSafe DEF SafeInv, LiveInv
<1> QED  BY <1>1, <1>2 DEF ConnectFailed, UnsetPanics

LEMMA PoolLoadFailsSafe ==
  ASSUME IndInv, SafeInv, PoolLoadFails PROVE SafeInv'
<1>1. loads \in [{"live", "dead"} -> Nat] /\ UNCHANGED <<vols, link, pool, files, queueVars>>
  BY DEF IndInv, TypeOK, PoolLoadFails
<1>2. \/ loads["live"] > 0 /\ loads' = [loads EXCEPT !["live"] = @ - 1]
      \/ loads["dead"] > 0 /\ loads' = [loads EXCEPT !["dead"] = @ - 1]
  BY DEF PoolLoadFails
<1>3. LinkInv'
  BY <1>1, <1>2 DEF SafeInv, LinkInv, Loading
<1>4. Jobs' = Jobs /\ \A n : Queued(n)' = Queued(n) /\ Running(n)' = Running(n)
  BY <1>1, QueueRests
<1>5. LiveInv' /\ PlainInv'
  BY <1>1, <1>4 DEF SafeInv, LiveInv, NothingLive, PlainInv, UsedBy
<1>6. VolInv'
  BY <1>1, <1>4, VolSame DEF SafeInv, Fewer, Used, HasVol
<1> QED  BY <1>3, <1>5, <1>6 DEF SafeInv

(* The jobs a new pool queues: a creation for each file without a volume   *)
(* and one deletion for each volume without a file.                        *)
LEMMA LoadVolumesJobs ==
  ASSUME IndInv, LoadVolumes, NoRes = {}
  PROVE  /\ \A i \in DOMAIN pending' :
              \/ i \in DOMAIN pending /\ pending'[i] = pending[i]
              \/ i \notin DOMAIN pending /\ \E n, s : pending'[i] = CreateJob(n, "live", s)
              \/ i \notin DOMAIN pending /\ \E n \in Extra : pending'[i] = DeleteJob(n, "live")
         /\ \A i, k \in DOMAIN pending' : \A n \in Extra :
              /\ pending'[i] = DeleteJob(n, "live") /\ pending'[k] = DeleteJob(n, "live")
              => i \in DOMAIN pending \/ k \in DOMAIN pending \/ i = k
<1>1. PICK creates \in SetToSeqs(Mapped \ Found), deletes \in SetToSeqs(Extra) :
        pending' = pending
                   \o [i \in DOMAIN creates |->
                         CreateJob(creates[i], "live", files[creates[i]].res.spec)]
                   \o [i \in DOMAIN deletes |-> DeleteJob(deletes[i], "live")]
  BY DEF LoadVolumes
<1>2. /\ creates \in Seq(Mapped \ Found) /\ deletes \in Seq(Extra)
      /\ \A i, k \in DOMAIN deletes : deletes[i] = deletes[k] => i = k
  <2>1. IsFiniteSet(Mapped \ Found) /\ IsFiniteSet(Extra)
    BY ConstantsAssumption, FS_Subset DEF Mapped, Found, Extra
  <2>2. creates \in Seq(Mapped \ Found) /\ deletes \in Seq(Extra)
    BY <2>1, OrderSeq
  <2>3. \A i, k \in DOMAIN deletes : deletes[i] = deletes[k] => i = k
    BY DEF SetToSeqs
  <2> QED  BY <2>2, <2>3
<1> DEFINE cjobs == [i \in DOMAIN creates |->
                       CreateJob(creates[i], "live", files[creates[i]].res.spec)]
           djobs == [i \in DOMAIN deletes |-> DeleteJob(deletes[i], "live")]
<1>3. cjobs \in Seq(Job) /\ \A i \in DOMAIN cjobs : \E n, s : cjobs[i] = CreateJob(n, "live", s)
  <2>1. ASSUME NEW i \in DOMAIN creates PROVE cjobs[i] \in Job
    <3>1. /\ creates[i] \in Names /\ files[creates[i]] \in File
          /\ files[creates[i]].res # Nil
      BY <1>2 DEF IndInv, TypeOK, Mapped, NoRes
    <3>2. files[creates[i]].res.spec \in Sizes
      BY <3>1, ObjectType DEF File
    <3> QED  BY <3>1, <3>2, JobTypes
  <2> QED  BY <1>2, <2>1, MapSeq
<1>4. djobs \in Seq(Job)
  <2>1. ASSUME NEW i \in DOMAIN deletes PROVE djobs[i] \in Job
    BY <1>2, DeleteJobType DEF Extra
  <2> QED  BY <1>2, <2>1, MapSeq
<1>5. \A i \in DOMAIN djobs : deletes[i] \in Extra /\ djobs[i] = DeleteJob(deletes[i], "live")
  BY <1>2
<1>6. \A i, k \in DOMAIN djobs : \A n :
        djobs[i] = DeleteJob(n, "live") /\ djobs[k] = DeleteJob(n, "live") => i = k
  BY <1>2 DEF DeleteJob
<1>7. \A i \in DOMAIN cjobs : \A n : cjobs[i] # DeleteJob(n, "live")
  BY <1>3 DEF CreateJob, DeleteJob
<1>8. pending' = pending \o cjobs \o djobs /\ pending \in Seq(Job)
  BY <1>1 DEF IndInv, TypeOK
<1> HIDE DEF cjobs, djobs
<1> DEFINE a == Len(pending)  b == Len(pending) + Len(cjobs)
<1>9. ASSUME NEW i \in DOMAIN pending'
      PROVE  \/ i \in DOMAIN pending /\ pending'[i] = pending[i]
             \/ i \notin DOMAIN pending /\ i - a \in DOMAIN cjobs /\ pending'[i] = cjobs[i - a]
             \/ i \notin DOMAIN pending /\ i - b \in DOMAIN djobs /\ pending'[i] = djobs[i - b]
  BY <1>3, <1>4, <1>8
<1>10. b \in Nat /\ \A i \in DOMAIN pending' : i \in Nat
  BY <1>3, <1>4, <1>8
<1> HIDE DEF a, b
<1>11. ASSUME NEW i \in DOMAIN pending', NEW k \in DOMAIN pending', NEW n \in Extra,
              pending'[i] = DeleteJob(n, "live"), pending'[k] = DeleteJob(n, "live"),
              i \notin DOMAIN pending, k \notin DOMAIN pending
       PROVE  i = k
  <2>1. /\ i - b \in DOMAIN djobs /\ djobs[i - b] = DeleteJob(n, "live")
        /\ k - b \in DOMAIN djobs /\ djobs[k - b] = DeleteJob(n, "live")
    BY <1>7, <1>9, <1>11
  <2>2. i - b = k - b
    BY <1>6, <2>1
  <2> QED  BY <1>10, <2>2
<1>12. ASSUME NEW i \in DOMAIN pending'
       PROVE  \/ i \in DOMAIN pending /\ pending'[i] = pending[i]
              \/ i \notin DOMAIN pending /\ \E n, s : pending'[i] = CreateJob(n, "live", s)
              \/ i \notin DOMAIN pending /\ \E n \in Extra : pending'[i] = DeleteJob(n, "live")
  BY <1>3, <1>5, <1>9
<1> QED  BY <1>11, <1>12

(* A job of a file that is still there finds it.                           *)
LEMMA JobIsMapped ==
  ASSUME IndInv, NEW j \in Jobs, j.mapped
  PROVE  files[j.name] # Nil
<1>1. /\ \A i \in DOMAIN pending : pending[i] \in MappedJobs
      /\ \A i \in DOMAIN completed : completed[i] \in MappedJobs
  BY DEF IndInv, JobsMapped
<1>2. j \in MappedJobs
  BY <1>1 DEF IndInv, JobsMapped, Jobs
<1> QED  BY <1>2 DEF MappedJobs

LEMMA LoadVolumesSafe ==
  ASSUME IndInv, SafeInv, LoadVolumes, NoRes = {}, loads["live"] > 0,
         loads' = [loads EXCEPT !["live"] = @ - 1], pool' = "live", UNCHANGED link
  PROVE  SafeInv'
<1>0. TypeOK /\ UNCHANGED <<vols, working, ran, completed>>
  BY DEF IndInv, LoadVolumes
<1>1. loads \in [{"live", "dead"} -> Nat]
  BY <1>0 DEF TypeOK
<1>2. loads["live"] = 1 /\ loads["dead"] = 0 /\ pool = "nil" /\ link = "up"
  BY <1>0, <1>1 DEF SafeInv, LinkInv, Loading, TypeOK, Handles
<1>3. LinkInv'
  BY <1>1, <1>2 DEF LinkInv, Loading
<1>4. LiveInv'
  BY DEF LiveInv
<1>5. NothingLive
  BY <1>2 DEF SafeInv, LiveInv
<1>6. /\ \A i \in DOMAIN pending' :
           \/ i \in DOMAIN pending /\ pending'[i] = pending[i]
           \/ i \notin DOMAIN pending /\ \E n, s : pending'[i] = CreateJob(n, "live", s)
           \/ i \notin DOMAIN pending /\ \E n \in Extra : pending'[i] = DeleteJob(n, "live")
      /\ \A i, k \in DOMAIN pending' : \A n \in Extra :
           /\ pending'[i] = DeleteJob(n, "live") /\ pending'[k] = DeleteJob(n, "live")
           => i \in DOMAIN pending \/ k \in DOMAIN pending \/ i = k
  BY LoadVolumesJobs
<1>7. \A j \in Jobs' : j \in Jobs \/ (\E n, s : j = CreateJob(n, "live", s))
                                 \/ \E n \in Extra : j = DeleteJob(n, "live")
  <2>1. ASSUME NEW j \in Jobs'
        PROVE  j \in Jobs \/ \E i \in DOMAIN pending' : j = pending'[i]
    BY <1>0 DEF Jobs
  <2>2. \A i \in DOMAIN pending : pending[i] \in Jobs
    BY DEF Jobs
  <2> QED  BY <1>6, <2>1, <2>2
<1>8. PlainInv'
  BY <1>7 DEF SafeInv, PlainInv, CreateJob, DeleteJob
<1>9. \A n \in Names : \A j \in Jobs' : Made(j, n) => Used(n) /\ n \in Mapped
  <2>1. ASSUME NEW n \in Names, NEW j \in Jobs', Made(j, n) PROVE j \in Jobs
    BY <1>7, <2>1 DEF Made, CreateJob, DeleteJob
  <2> QED  BY <2>1, JobIsMapped DEF Used, Made, Mapped
<1>10. ASSUME NEW n \in Names PROVE Running(n)' = {}
  <2>1. DeleteJob(n, "live") \notin Jobs /\ DeleteJob(n, "live") # Nil
    BY <1>5, DeleteIsLive, DeleteJobType, NilAssumption DEF NothingLive
  <2> QED  BY <1>0, <2>1 DEF Running, Jobs
<1>11. ASSUME NEW n \in Names, NEW i \in Queued(n)'
       PROVE  i \notin DOMAIN pending /\ n \in Extra
  <2>1. DeleteJob(n, "live") \notin Jobs
    BY <1>5, DeleteIsLive DEF NothingLive
  <2>2. i \in DOMAIN pending' /\ pending'[i] = DeleteJob(n, "live")
    BY DEF Queued
  <2>3. i \in DOMAIN pending => pending[i] # DeleteJob(n, "live")
    BY <2>1 DEF Jobs
  <2>4. \/ i \in DOMAIN pending /\ pending'[i] = pending[i]
        \/ i \notin DOMAIN pending /\ \E m, s : pending'[i] = CreateJob(m, "live", s)
        \/ i \notin DOMAIN pending /\ \E m \in Extra : pending'[i] = DeleteJob(m, "live")
    BY <1>6, <2>2
  <2>5. i \notin DOMAIN pending /\ \E m \in Extra : DeleteJob(n, "live") = DeleteJob(m, "live")
    <3>1. \A m, s : CreateJob(m, "live", s) # DeleteJob(n, "live")
      BY DEF CreateJob, DeleteJob
    <3> QED  BY <2>2, <2>3, <2>4, <3>1
  <2> QED  BY <2>5 DEF DeleteJob
<1>12. \A n \in Names : HasVol(n)' => n \in Found \/ (Used(n) /\ n \in Mapped)
  <2>1. ASSUME NEW n \in Names, HasVol(n)', n \notin Found PROVE Used(n) /\ n \in Mapped
    <3>1. n \in Mapped /\ files'[n].vol = files[n].vol /\ files[n] # Nil
      BY <2>1 DEF LoadVolumes, HasVol, Mapped
    <3> QED  BY <2>1, <3>1 DEF HasVol, Used
  <2> QED  BY <2>1
<1>13. ASSUME NEW n \in Names
       PROVE  /\ Once(n)' /\ (vols'[n] = Nil => Spared(n)')
              /\ Used(n)' => vols'[n] # Nil /\ Spared(n)'
  <2>1. \A i, k \in Queued(n)' : i = k
    BY <1>6, <1>11 DEF Queued
  <2>2. Once(n)'
    BY <1>10, <2>1 DEF Once
  <2>3. vols[n] = Nil \/ n \in Mapped => Queued(n)' = {}
    BY <1>11 DEF Extra
  <2>4. Used(n)' => n \in Found \/ (Used(n) /\ n \in Mapped)
    BY <1>9, <1>12 DEF Used
  <2>5. Used(n)' => vols[n] # Nil /\ n \in Mapped
    BY <2>4 DEF SafeInv, VolInv, Found
  <2> QED  BY <1>0, <1>10, <2>2, <2>3, <2>5 DEF Spared
<1> QED  BY <1>3, <1>4, <1>8, <1>13 DEF SafeInv, VolInv

LEMMA PoolReadySafe ==
  ASSUME IndInv, SafeInv, PoolReady PROVE SafeInv'
<1>1. CASE /\ loads["dead"] > 0 /\ loads' = [loads EXCEPT !["dead"] = @ - 1]
           /\ pool' = (IF link = "down" THEN pool ELSE "dead")
           /\ UNCHANGED <<vols, link, files, queueVars>>
  <2>1. loads \in [{"live", "dead"} -> Nat]
    BY DEF IndInv, TypeOK
  <2>2. loads["dead"] = 1 /\ loads["live"] = 0 /\ pool = "nil" /\ link # "down"
    BY <1>1, <2>1 DEF SafeInv, LinkInv, Loading, IndInv, TypeOK, Handles
  <2>3. LinkInv'
    BY <1>1, <2>1, <2>2 DEF LinkInv, Loading
  <2>4. Jobs' = Jobs /\ NothingLive
    BY <1>1, <2>2, QueueRests DEF SafeInv, LiveInv
  <2>5. NothingLive' /\ PlainInv' /\ \A n \in Names : Used(n)' => Used(n)
    BY <1>1, <2>4 DEF NothingLive, UsedBy, HasVol, Used, SafeInv, PlainInv
  <2> QED  BY <1>1, <2>3, <2>5, DeadSafe DEF SafeInv, LiveInv
<1>2. CASE /\ loads["live"] > 0 /\ NoRes = {} /\ loads' = [loads EXCEPT !["live"] = @ - 1]
           /\ pool' = "live" /\ LoadVolumes /\ UNCHANGED link
  BY <1>2, LoadVolumesSafe
<1>3. CASE PanicInLoop(LoadedObjects, Mapped \ NoRes, Mapped \ (NoRes \union Found))
  BY <1>3, SafeForget DEF PanicInLoop
<1>4. CASE /\ loads["live"] > 0 /\ loads' = [loads EXCEPT !["live"] = @ - 1] /\ pool' = "live"
           /\ UNCHANGED <<vols, link, files, queueVars>>
  <2>1. loads \in [{"live", "dead"} -> Nat]
    BY DEF IndInv, TypeOK
  <2>2. loads["live"] = 1 /\ loads["dead"] = 0 /\ link = "up"
    BY <1>4, <2>1 DEF SafeInv, LinkInv, Loading, IndInv, TypeOK
  <2>3. LinkInv' /\ LiveInv'
    BY <1>4, <2>1, <2>2 DEF LinkInv, LiveInv, Loading
  <2>4. Jobs' = Jobs /\ \A n : Queued(n)' = Queued(n) /\ Running(n)' = Running(n)
    BY <1>4, QueueRests
  <2>5. PlainInv'
    BY <2>4 DEF SafeInv, PlainInv
  <2>6. \A n \in Names : Used(n)' => Used(n)
    BY <1>4, <2>4 DEF HasVol, Used
  <2>7. VolInv'
    BY <1>4, <2>4, <2>6, VolSame DEF SafeInv, Fewer
  <2> QED  BY <2>3, <2>5, <2>7 DEF SafeInv
<1> QED  BY <1>1, <1>2, <1>3, <1>4 DEF PoolReady

LEMMA FinishJobSafe ==
  ASSUME IndInv, SafeInv, FinishJob PROVE SafeInv'
<1> DEFINE j       == Head(completed)
           n       == j.name
           awaited == j.op = "create" /\ j.mapped /\ files[n].vol = "nil"
<1>0. TypeOK /\ completed # <<>>
  BY DEF IndInv, FinishJob
<1>1. CASE Panic
  BY <1>1, SafeForget DEF Panic
<1>2. CASE /\ completed' = Tail(completed)
           /\ \/ files' = files
              \/ awaited /\ files' = [files EXCEPT ![n].vol = j.made,
                                                   ![n].res.phase = IF j.made = "nil" THEN "Failed"
                                                                    ELSE "Available"]
           /\ UNCHANGED <<vols, linkVars, pending, working, ran>>
  <2>1. completed \in Seq(Job) /\ j \in Jobs /\ j \in Job
    <3>1. completed \in Seq(Job)
      BY <1>0 DEF TypeOK
    <3>2. 1 \in DOMAIN completed /\ j = completed[1]
      BY <1>0, <3>1
    <3> QED  BY <3>1, <3>2, <1>0, JobsType DEF Jobs
  <2>2. Jobs' \subseteq Jobs
    <3>1. \A i \in DOMAIN Tail(completed) : i + 1 \in DOMAIN completed /\ Tail(completed)[i] = completed[i + 1]
      BY <1>0, <2>1
    <3> QED  BY <1>2, <3>1 DEF Jobs
  <2> HIDE DEF j
  <2>3. ASSUME NEW m \in Names, HasVol(m)'
        PROVE  \/ HasVol(m) /\ files'[m].vol = files[m].vol
               \/ m = n /\ Made(j, m) /\ files'[m].vol = j.made
    <3>1. CASE files' = files
      BY <2>3, <3>1 DEF HasVol
    <3>2. CASE awaited /\ files' = [files EXCEPT ![n].vol = j.made,
                                                 ![n].res.phase = IF j.made = "nil" THEN "Failed"
                                                                  ELSE "Available"]
      <4>1. n \in Names
        BY <2>1, JobFields
      <4>2. CASE m # n
        BY <1>0, <2>3, <3>2, <4>1, <4>2 DEF HasVol, TypeOK
      <4>3. CASE m = n
        <5>1. files[n] # Nil
          BY <2>1, <3>2, JobIsMapped
        <5>2. files[n] \in File
          BY <1>0, <4>1, <5>1 DEF TypeOK
        <5>3. files'[n].vol = j.made
          BY <1>0, <3>2, <4>1, <5>2 DEF TypeOK, File
        <5> QED  BY <2>3, <3>2, <4>3, <5>3 DEF HasVol, Made
      <4> QED  BY <4>2, <4>3
    <3> QED  BY <1>2, <3>1, <3>2
  <2>4. \A m \in Names : Used(m)' => Used(m)
    BY <2>1, <2>2, <2>3 DEF Used
  <2>5. VolInv'
    <3>1. \A m \in Names : Fewer(m)
      BY <1>2 DEF Fewer, Queued, Running
    <3> QED  BY <1>2, <2>4, <3>1, VolSame DEF SafeInv
  <2>6. LinkInv' /\ PlainInv'
    BY <1>2, <2>2 DEF SafeInv, LinkInv, Loading, linkVars, PlainInv
  <2>7. LiveInv'
    <3>1. \A m \in Names : UsedBy(m)' => UsedBy(m) \/ j.made = "live"
      BY <2>3 DEF UsedBy, HasVol
    <3> QED  BY <1>2, <2>1, <2>2, <3>1 DEF SafeInv, LiveInv, NothingLive, LiveJob, linkVars
  <2> QED  BY <2>5, <2>6, <2>7 DEF SafeInv
<1> QED  BY <1>1, <1>2 DEF FinishJob

LEMMA RefreshSizesSafe ==
  ASSUME IndInv, SafeInv, RefreshSizes PROVE SafeInv'
<1>1. CASE UNCHANGED <<vols, linkVars, files, queueVars>>
  BY <1>1, GivesNone, SafeRests
<1>2. CASE \E bad \in SUBSET Held :
             /\ \A n \in Names : files'[n] = IF n \notin Held THEN files[n]
                  ELSE [res |-> Answer(RefreshedObjects(bad), n, Nil),
                        vol |-> IF n \in bad THEN "nil" ELSE files[n].vol]
             /\ UNCHANGED <<vols, linkVars, queueVars>>
  <2>1. \A n \in Names : GivesUp(n)
    <3>1. ASSUME NEW n \in Names, HasVol(n)' PROVE HasVol(n) /\ files'[n].vol = files[n].vol
      <4>1. PICK bad \in SUBSET Held : files'[n] = IF n \notin Held THEN files[n]
                ELSE [res |-> Answer(RefreshedObjects(bad), n, Nil),
                      vol |-> IF n \in bad THEN "nil" ELSE files[n].vol]
        BY <1>2
      <4>2. n \in Held => files'[n].vol \in {"nil", files[n].vol}
        BY <4>1
      <4>3. n \in Held => files[n] # Nil
        BY DEF Held, Mapped
      <4> QED  BY <3>1, <4>1, <4>2, <4>3 DEF HasVol
    <3> QED  BY <3>1 DEF GivesUp
  <2> QED  BY <1>2, <2>1, SafeRests
<1>3. CASE \E objs, fine : PanicInLoop(objs, fine, {})
  BY <1>3, SafeForget DEF PanicInLoop
<1>4. \/ UNCHANGED <<vols, linkVars, files, queueVars>>
      \/ \E bad \in SUBSET Held :
           \/ PanicInLoop(RefreshedObjects(bad), Held \ NoRes, {})
           \/ /\ files' = [n \in Names |->
                   IF n \notin Held THEN files[n]
                   ELSE [res |-> Answer(RefreshedObjects(bad), n, Nil),
                         vol |-> IF n \in bad THEN "nil" ELSE files[n].vol]]
              /\ UNCHANGED <<vols, linkVars, queueVars>>
  BY DEF RefreshSizes
<1> QED  BY <1>1, <1>2, <1>3, <1>4

LEMMA TakeSafe ==
  ASSUME IndInv, SafeInv, NEW w \in Workers, Take(w) PROVE SafeInv'
<1>0. TypeOK /\ w \notin ran /\ working[w] = Nil /\ pending # <<>>
  BY DEF IndInv, RanHold, Take
<1>1. /\ pending \in Seq(Job) /\ 1 \in DOMAIN pending /\ Head(pending) = pending[1]
      /\ Len(pending) \in Nat /\ DOMAIN pending = 1..Len(pending)
      /\ DOMAIN Tail(pending) = 1..(Len(pending) - 1)
      /\ \A i \in DOMAIN Tail(pending) : Tail(pending)[i] = pending[i + 1]
  BY <1>0 DEF TypeOK
<1>2. /\ pending' = Tail(pending) /\ working \in [Workers -> Job \union {Nil}]
      /\ working' = [working EXCEPT ![w] = pending[1]]
      /\ UNCHANGED <<vols, link, loads, pool, files, ran, completed>>
  BY <1>0, <1>1 DEF Take, TypeOK, linkVars
<1>3. Jobs' \subseteq Jobs
  <2>1. \A i \in DOMAIN pending' : pending'[i] \in Jobs
    BY <1>1, <1>2 DEF Jobs
  <2>2. \A v \in Workers : working'[v] \in Jobs \/ working'[v] = Nil
    BY <1>1, <1>2 DEF Jobs
  <2>3. \A j \in Jobs' : \/ \E i \in DOMAIN pending' : j = pending'[i]
                         \/ \E i \in DOMAIN completed : j = completed[i]
                         \/ \E v \in Workers : j = working'[v] /\ j # Nil
    BY <1>2 DEF Jobs
  <2> QED  BY <2>1, <2>2, <2>3 DEF Jobs
<1>4. LinkInv' /\ PlainInv' /\ LiveInv'
  BY <1>2, <1>3 DEF SafeInv, LinkInv, Loading, PlainInv, LiveInv, NothingLive, UsedBy
<1>5. \A n \in Names : Used(n)' => Used(n)
  BY <1>2, <1>3 DEF Used, HasVol
<1>6. \A n \in Names : DeleteJob(n, "live") # Nil
  BY DeleteJobType, NilAssumption
<1>7. ASSUME NEW n \in Names, NEW i \in Queued(n)' PROVE i + 1 \in Queued(n) /\ i \in Nat /\ i > 0
  BY <1>1, <1>2 DEF Queued
<1>8. ASSUME NEW n \in Names, NEW v \in Running(n)'
      PROVE  v \in Running(n) \/ (v = w /\ 1 \in Queued(n))
  BY <1>1, <1>2 DEF Queued, Running
<1>9. ASSUME NEW n \in Names
      PROVE  /\ Once(n)' /\ (vols'[n] = Nil => Spared(n)')
             /\ Used(n)' => vols'[n] # Nil /\ Spared(n)'
  <2>1. CASE 1 \in Queued(n)
    <3>1. Running(n) = {} /\ \A i \in Queued(n) : i = 1
      BY <2>1 DEF SafeInv, VolInv, Once
    <3>2. Queued(n)' = {}
      <4>1. ASSUME NEW i \in Queued(n)' PROVE FALSE
        BY <1>7, <3>1
      <4> QED  BY <4>1
    <3>3. \A v \in Running(n)' : v = w
      BY <1>8, <3>1
    <3>4. vols[n] # Nil /\ ~Used(n)
      BY <2>1 DEF SafeInv, VolInv, Spared
    <3> QED  BY <1>2, <1>5, <3>2, <3>3, <3>4 DEF Once
  <2>2. CASE 1 \notin Queued(n)
    <3>1. Running(n)' \subseteq Running(n)
      BY <1>8, <2>2
    <3>2. \A i, k \in Queued(n)' : i = k
      <4>1. ASSUME NEW i \in Queued(n)', NEW k \in Queued(n)' PROVE i = k
        <5>1. i + 1 \in Queued(n) /\ k + 1 \in Queued(n) /\ i \in Nat /\ k \in Nat
          BY <1>7
        <5>2. i + 1 = k + 1
          BY <5>1 DEF SafeInv, VolInv, Once
        <5> QED  BY <5>1, <5>2
      <4> QED  BY <4>1
    <3>3. Queued(n) = {} => Queued(n)' = {}
      BY <1>7
    <3>4. Once(n)'
      BY <3>1, <3>2, <3>3 DEF SafeInv, VolInv, Once
    <3>5. Spared(n) => Spared(n)'
      BY <3>1, <3>3 DEF Spared
    <3> QED  BY <1>2, <1>5, <3>4, <3>5 DEF SafeInv, VolInv
  <2> QED  BY <2>1, <2>2
<1> QED  BY <1>4, <1>9 DEF SafeInv, VolInv

LEMMA HandOverSafe ==
  ASSUME IndInv, SafeInv, NEW w \in Workers, HandOver(w) PROVE SafeInv'
<1>0. TypeOK /\ w \in ran /\ working[w] # Nil
  BY DEF IndInv, RanHold, HandOver
<1>1. /\ working \in [Workers -> Job \union {Nil}] /\ working[w] \in Job
      /\ completed \in Seq(Job)
      /\ completed' = Append(completed, working[w]) /\ working' = [working EXCEPT ![w] = Nil]
      /\ ran' = ran \ {w} /\ UNCHANGED <<vols, link, loads, pool, files, pending>>
  BY <1>0 DEF HandOver, TypeOK, linkVars
<1>2. /\ DOMAIN completed' = DOMAIN completed \union {Len(completed) + 1}
      /\ completed'[Len(completed) + 1] = working[w]
      /\ \A i \in DOMAIN completed : completed'[i] = completed[i]
  BY <1>1
<1>3. Jobs' \subseteq Jobs
  <2>1. \A i \in DOMAIN completed' : completed'[i] \in Jobs
    BY <1>0, <1>1, <1>2 DEF Jobs
  <2>2. \A v \in Workers : working'[v] \in Jobs \/ working'[v] = Nil
    BY <1>1 DEF Jobs
  <2>3. \A j \in Jobs' : \/ \E i \in DOMAIN completed' : j = completed'[i]
                         \/ \E i \in DOMAIN pending : j = pending[i]
                         \/ \E v \in Workers : j = working'[v] /\ j # Nil
    BY <1>1 DEF Jobs
  <2> QED  BY <2>1, <2>2, <2>3 DEF Jobs
<1>4. LinkInv' /\ PlainInv' /\ LiveInv'
  BY <1>1, <1>3 DEF SafeInv, LinkInv, Loading, PlainInv, LiveInv, NothingLive, UsedBy
<1>5. \A n \in Names : Used(n)' => Used(n)
  BY <1>1, <1>3 DEF Used, HasVol
<1>6. ASSUME NEW n \in Names PROVE Fewer(n)
  <2>1. DeleteJob(n, "live") # Nil
    BY DeleteJobType, NilAssumption
  <2> QED  BY <1>1, <2>1 DEF Fewer, Queued, Running
<1>7. VolInv'
  BY <1>1, <1>5, <1>6, VolSame DEF SafeInv
<1> QED  BY <1>4, <1>7 DEF SafeInv

(* The call of a job that is not possible, or fails, changes no volume.    *)
LEMMA FailedSafe ==
  ASSUME IndInv, SafeInv, NEW w \in Workers, ran' = ran \union {w},
         UNCHANGED <<vols, link, loads, pool, files, pending, working, completed>>
  PROVE  SafeInv'
<1>1. Jobs' = Jobs
  BY DEF Jobs
<1>2. LinkInv' /\ PlainInv' /\ LiveInv'
  BY <1>1 DEF SafeInv, LinkInv, Loading, PlainInv, LiveInv, NothingLive, UsedBy
<1>3. \A n \in Names : Fewer(n) /\ (Used(n)' => Used(n))
  BY <1>1 DEF Fewer, Queued, Running, Used, HasVol
<1>4. VolInv'
  BY <1>3, VolSame DEF SafeInv
<1> QED  BY <1>2, <1>4 DEF SafeInv

LEMMA ProcessSafe ==
  ASSUME IndInv, SafeInv, NEW w \in Workers, Process(w) PROVE SafeInv'
<1>1. PICK j \in Jobs : j = working[w]
  BY DEF Process, IndInv, TypeOK, Jobs
<1>2. PICK n \in Names : n = j.name
  BY JobsType, JobFields DEF IndInv
<1>3. TypeOK /\ j \in Job /\ w \notin ran
  BY JobsType DEF Process, IndInv
<1>4. ran' = ran \union {w} /\ UNCHANGED <<link, loads, pool, files, pending, completed>>
  BY DEF Process, linkVars
<1>5. CASE UNCHANGED <<vols, working>>
  BY <1>4, <1>5, FailedSafe
<1>6. CASE /\ Possible(j)
           /\ vols' = [vols EXCEPT ![n] = IF j.op = "delete" THEN Nil ELSE j.size]
           /\ working' = IF j.op = "create" THEN [working EXCEPT ![w].made = "live"] ELSE working
  <2>1. j.handle = "live" /\ (j.op = "create" <=> vols[n] = Nil)
    BY <1>2, <1>6 DEF Possible
  <2>2. pool = "live"
    BY <1>3, <2>1 DEF SafeInv, LiveInv, NothingLive, LiveJob
  <2>3. LinkInv' /\ LiveInv'
    BY <1>4, <2>2 DEF SafeInv, LinkInv, LiveInv, Loading
  <2>4. /\ vols \in [Names -> Sizes \union {Nil}] /\ working \in [Workers -> Job \union {Nil}]
        /\ \A m \in Names \ {n} : vols'[m] = vols[m]
        /\ vols'[n] = IF j.op = "delete" THEN Nil ELSE j.size
    BY <1>3, <1>6 DEF TypeOK
  <2>5. CASE j.op = "delete"
    <3>1. working' = working /\ Jobs' = Jobs
      BY <1>4, <1>6, <2>5 DEF Jobs
    <3>2. j = DeleteJob(n, "live")
      BY <1>3, <1>2, <2>1, <2>5, DeleteUnique DEF SafeInv, PlainInv
    <3>3. w \in Running(n) /\ w \notin Running(n)'
      BY <1>3, <1>4, <1>1, <3>2 DEF Running
    <3>4. Running(n)' = {} /\ Queued(n)' = {}
      <4>1. Running(n) = {w} /\ Queued(n) = {}
        BY <1>3, <3>3 DEF SafeInv, VolInv, Once
      <4>2. Running(n)' \subseteq Running(n) /\ Queued(n)' = Queued(n)
        BY <1>4, <3>1 DEF Running, Queued
      <4> QED  BY <3>3, <4>1, <4>2
    <3>5. ~Used(n)
      BY <1>3, <3>3 DEF SafeInv, VolInv, Spared
    <3>6. \A m \in Names : Fewer(m) /\ (Used(m)' => Used(m))
      BY <1>4, <3>1 DEF Fewer, Queued, Running, Used, HasVol
    <3>7. \A m \in Names : vols'[m] = Nil => vols[m] = Nil \/ Spared(m)'
      BY <1>3, <2>4, <3>4 DEF Spared
    <3>8. \A m \in Names : Used(m)' => vols'[m] # Nil /\ Spared(m)'
      BY <2>4, <3>5, <3>6 DEF SafeInv, VolInv, Spared, Fewer
    <3>9. VolInv'
      BY <3>6, <3>7, <3>8, VolStays DEF SafeInv
    <3>10. PlainInv'
      BY <3>1 DEF SafeInv, PlainInv
    <3> QED  BY <2>3, <3>9, <3>10 DEF SafeInv
  <2>6. CASE j.op # "delete"
    <3>1. vols'[n] # Nil
      BY <1>3, <2>4, <2>6, JobFields, NilAssumption
    <3>2. CASE j.op = "create"
      <4>1. /\ working' = [working EXCEPT ![w] = [j EXCEPT !.made = "live"]]
            /\ working'[w] = [j EXCEPT !.made = "live"]
            /\ \A v \in Workers \ {w} : working'[v] = working[v]
        BY <1>1, <1>6, <2>4, <3>2
      <4>2. [j EXCEPT !.made = "live"].op = "create" /\ [j EXCEPT !.made = "live"].name = n
        BY <1>3, <1>2, <3>2 DEF Job, JobOf
      <4>3. Spared(n)
        BY <1>3, <2>1, <3>2 DEF SafeInv, VolInv
      <4> DEFINE k == [j EXCEPT !.made = "live"]
      <4> HIDE DEF k
      <4>4. \A i \in Jobs' : i \in Jobs \/ i = k
        BY <1>4, <4>1 DEF Jobs, k
      <4>5. PlainInv'
        BY <4>2, <4>4 DEF SafeInv, PlainInv, k
      <4>6. \A m \in Names : Used(m)' => Used(m) \/ m = n
        BY <1>4, <4>2, <4>4 DEF Used, HasVol, Made, k
      <4>7. \A m \in Names : Fewer(m)
        BY <1>4, <4>1 DEF Fewer, Queued, Running
      <4>8. \A m \in Names : vols'[m] = Nil => vols[m] = Nil \/ Spared(m)'
        BY <2>4, <3>1
      <4>9. \A m \in Names : Used(m)' => vols'[m] # Nil /\ Spared(m)'
        BY <2>4, <3>1, <4>3, <4>6, <4>7 DEF SafeInv, VolInv, Spared, Fewer
      <4>10. VolInv'
        BY <4>7, <4>8, <4>9, VolStays DEF SafeInv
      <4> QED  BY <2>3, <4>5, <4>10 DEF SafeInv
    <3>3. CASE j.op # "create"
      <4>1. working' = working /\ Jobs' = Jobs
        BY <1>4, <1>6, <3>3 DEF Jobs
      <4>2. \A m \in Names : Fewer(m) /\ (Used(m)' => Used(m))
        BY <1>4, <4>1 DEF Fewer, Queued, Running, Used, HasVol
      <4>3. \A m \in Names : vols'[m] = Nil => vols[m] = Nil
        BY <2>4, <3>1
      <4>4. \A m \in Names : Used(m)' => vols'[m] # Nil /\ Spared(m)'
        BY <4>2, <4>3 DEF SafeInv, VolInv, Spared, Fewer
      <4>5. VolInv'
        BY <4>2, <4>3, <4>4, VolStays DEF SafeInv
      <4>6. PlainInv'
        BY <4>1 DEF SafeInv, PlainInv
      <4> QED  BY <2>3, <4>5, <4>6 DEF SafeInv
    <3> QED  BY <3>2, <3>3
  <2> QED  BY <2>5, <2>6
<1> QED  BY <1>1, <1>2, <1>5, <1>6 DEF Process

LEMMA InitSafe == Init => SafeInv
<1> SUFFICES ASSUME Init PROVE SafeInv
  OBVIOUS
<1>1. /\ link = "down" /\ loads = NoLoads /\ pool = "nil" /\ files = [n \in Names |-> Nil]
      /\ pending = <<>> /\ working = [w \in Workers |-> Nil] /\ completed = <<>>
  BY DEF Init
<1>2. Jobs = {}
  BY <1>1 DEF Jobs
<1>3. \A n \in Names : ~UsedBy(n) /\ ~HasVol(n) /\ Queued(n) = {} /\ Running(n) = {}
  <2>1. ASSUME NEW n \in Names PROVE DeleteJob(n, "live") # Nil
    BY DeleteJobType, NilAssumption
  <2> QED  BY <1>1, <2>1 DEF UsedBy, HasVol, Queued, Running
<1>4. LinkInv
  BY <1>1 DEF LinkInv, Loading, NoLoads
<1>5. VolInv
  BY <1>2, <1>3 DEF VolInv, Once, Spared, Used
<1> QED  BY <1>2, <1>3, <1>4, <1>5 DEF SafeInv, LiveInv, NothingLive, PlainInv

LEMMA SafeStep == IndInv /\ SafeInv /\ [Next]_vars => SafeInv'
<1> SUFFICES ASSUME IndInv, SafeInv, [Next]_vars PROVE SafeInv'
  OBVIOUS
<1>1. CASE UNCHANGED vars
  BY <1>1, GivesNone, SafeRests DEF vars
<1>2. CASE Boot \/ WatchEOF \/ Tick \/ \E n \in Names : UserCreate(n) \/ UserModify(n) \/ UserDelete(n)
  <2>1. UNCHANGED <<vols, linkVars, files, queueVars>>
    BY <1>2 DEF Boot, WatchEOF, Tick, UserCreate, UserModify, UserDelete
  <2> QED  BY <2>1, GivesNone, SafeRests
<1>3. CASE Kill
  BY <1>3, SafeForget DEF Kill
<1>4. CASE LoadFileResources
  BY <1>4, LoadFilesSafe
<1>5. CASE WatchEvent
  BY <1>5, WatchEventSafe
<1>6. CASE Connect \/ ConnectFailed \/ ConnLost
  BY <1>6, ConnectSafe, ConnectFailedSafe, ConnLostSafe
<1>7. CASE PoolLoadFails \/ PoolReady
  BY <1>7, PoolLoadFailsSafe, PoolReadySafe
<1>8. CASE FinishJob \/ RefreshSizes
  BY <1>8, FinishJobSafe, RefreshSizesSafe
<1>9. CASE \E w \in Workers : Take(w) \/ Process(w) \/ HandOver(w)
  BY <1>9, TakeSafe, ProcessSafe, HandOverSafe
<1>10. CASE \E n \in Names : Outage(n) \/ OutageEnds(n)
  <2>1. UNCHANGED <<vols, linkVars, files, queueVars>>
    BY <1>10 DEF Outage, OutageEnds, linkVars
  <2> QED  BY <2>1, GivesNone, SafeRests
<1> QED
  BY <1>1, <1>2, <1>3, <1>4, <1>5, <1>6, <1>7, <1>8, <1>9, <1>10 DEF Next, MainLoop

LEMMA Safe == Spec => [](IndInv /\ SafeInv)
<1>1. Init => IndInv /\ SafeInv
  BY InitInv, InitSafe
<1>2. IndInv /\ SafeInv /\ [Next]_vars => (IndInv /\ SafeInv)'
  BY StepInv, SafeStep
<1> QED  BY <1>1, <1>2, PTL DEF Spec

-----------------------------------------------------------------------------
(* What the invariant says.                                                *)

LEMMA AtMostOne ==
  ASSUME NEW S, \A x, y \in S : x = y
  PROVE  Cardinality(S) \in {0, 1} /\ (Cardinality(S) = 0 <=> S = {})
<1>1. CASE S = {}
  BY <1>1, FS_EmptySet
<1>2. CASE S # {}
  <2>1. PICK x \in S : TRUE
    BY <1>2
  <2>2. S = {x}
    BY <2>1
  <2> QED  BY <2>2, FS_Singleton
<1> QED  BY <1>1, <1>2

LEMMA DeletingCount ==
  ASSUME VolInv, NEW n \in Names
  PROVE  Deleting(n) \in {0, 1} /\ (Deleting(n) = 0 <=> Spared(n))
<1>1. Deleting(n) = Cardinality(Queued(n)) + Cardinality(Running(n))
  BY DEF Deleting, Queued, Running
<1>2. /\ \A i, k \in Queued(n) : i = k
      /\ \A v, w \in Running(n) : v = w
      /\ Queued(n) = {} \/ Running(n) = {}
  BY DEF VolInv, Once
<1> HIDE DEF Queued, Running
<1>3. /\ Cardinality(Queued(n)) \in {0, 1} /\ (Cardinality(Queued(n)) = 0 <=> Queued(n) = {})
      /\ Cardinality(Running(n)) \in {0, 1} /\ (Cardinality(Running(n)) = 0 <=> Running(n) = {})
  BY <1>2, AtMostOne
<1> QED  BY <1>1, <1>2, <1>3 DEF Spared

(* A volume the daemon has a usable handle of exists and no job is about   *)
(* to delete it (removeFileVolume, jobVolumeDelete, SetPool).              *)
THEOREM HeldVolumesExist == Spec => []HeldVolumeSafe
<1>1. SafeInv => HeldVolumeSafe
  <2> SUFFICES ASSUME SafeInv, NEW n \in Names, UsedBy(n)
               PROVE  vols[n] # Nil /\ Deleting(n) = 0
    BY DEF HeldVolumeSafe, UsedBy
  <2>1. vols[n] # Nil /\ Spared(n)
    BY DEF SafeInv, VolInv, Used, HasVol, UsedBy
  <2> QED  BY <2>1, DeletingCount DEF SafeInv
<1> QED  BY <1>1, Safe, PTL

(* A volume is deleted by one job at most, which still finds it: no late   *)
(* deletion reaches the volume of a file added again.                      *)
THEOREM DeletesOnce == Spec => []DeleteOnce
<1>1. SafeInv => DeleteOnce
  <2> SUFFICES ASSUME SafeInv, NEW n \in Names
               PROVE  Deleting(n) <= 1 /\ (Deleting(n) = 1 => vols[n] # Nil)
    BY DEF DeleteOnce
  <2>1. Deleting(n) \in {0, 1} /\ (Deleting(n) = 0 <=> Spared(n))
    BY DeletingCount DEF SafeInv
  <2>2. vols[n] = Nil => Spared(n)
    BY DEF SafeInv, VolInv
  <2> QED  BY <2>1, <2>2
<1> QED  BY <1>1, Safe, PTL

(* A pool on its way finds the daemon with a connection: connectFailed of  *)
(* a connection whose pool has not come yet exits the daemon.              *)
THEOREM LoadsHaveConnection == Spec => []PoolHasConnection
<1>1. IndInv /\ SafeInv => PoolHasConnection
  BY DEF PoolHasConnection, SafeInv, LinkInv, Loading
<1> QED  BY <1>1, Safe, PTL

CreatesAndForgets ==
  /\ \A n \in Names : vols[n] # Nil => vols'[n] # Nil
  /\ files' = [n \in Names |-> Nil]

LEMMA PanicForgets ==
  ASSUME NEW objs, NEW fine, NEW queued, PanicInLoop(objs, fine, queued),
         \A n \in queued : n \in Names => vols[n] = Nil
  PROVE  CreatesAndForgets
BY DEF PanicInLoop, Forget, CreatesAndForgets

(* No step changes both the volumes and what is known of them, except the  *)
(* panic of a loop some of whose creations the workers have run.           *)
LEMMA OneSide ==
  ASSUME [Next]_vars
  PROVE  UNCHANGED vols \/ UNCHANGED files \/ CreatesAndForgets
<1>1. CASE UNCHANGED vars
  BY <1>1 DEF vars
<1>2. CASE \E w \in Workers : Take(w) \/ Process(w) \/ HandOver(w)
  BY <1>2 DEF Take, Process, HandOver
<1>3. CASE Boot \/ LoadFileResources \/ \E n \in Names : UserCreate(n) \/ UserModify(n) \/ UserDelete(n)
  BY <1>3 DEF Boot, LoadFileResources, UserCreate, UserModify, UserDelete
<1>4. CASE WatchEvent
  BY <1>4 DEF WatchEvent, AddFile, ModifyFile, DeleteFile, Ignore, Panic
<1>5. CASE WatchEOF \/ Connect \/ ConnectFailed \/ PoolLoadFails \/ Tick \/ ConnLost \/ Kill
  BY <1>5 DEF WatchEOF, Connect, ConnectFailed, PoolLoadFails, Tick, ConnLost, Kill, Panic
<1>6. CASE PoolReady
  <2>1. \A n \in Mapped \ (NoRes \union Found) : vols[n] = Nil
    BY DEF Found
  <2>2. CASE PanicInLoop(LoadedObjects, Mapped \ NoRes, Mapped \ (NoRes \union Found))
    BY <2>1, <2>2, PanicForgets
  <2> QED  BY <1>6, <2>2 DEF PoolReady, LoadVolumes
<1>7. CASE FinishJob
  BY <1>7 DEF FinishJob, Panic
<1>8. CASE RefreshSizes
  <2>1. ASSUME NEW bad \in SUBSET Held, PanicInLoop(RefreshedObjects(bad), Held \ NoRes, {})
        PROVE  CreatesAndForgets
    BY <2>1, PanicForgets
  <2> QED  BY <1>8, <2>1 DEF RefreshSizes
<1>9. CASE \E n \in Names : Outage(n) \/ OutageEnds(n)
  BY <1>9 DEF Outage, OutageEnds
<1> QED
  BY <1>1, <1>2, <1>3, <1>4, <1>5, <1>6, <1>7, <1>8, <1>9 DEF Next, MainLoop

(* The repository keeps the promise of Volumes to those who stream: a      *)
(* handle becomes usable while its volume exists, and no volume goes       *)
(* before its handle has been given up.                                    *)
THEOREM KeepsPromise == Spec => IsVolumes
<1> DEFINE stored == {n \in Names : vols[n] # Nil}
           held   == {n \in Mapped : files[n].vol = "live"}
<1>1. Init => Promise!Init
  BY DEF Init, Promise!Init, Mapped
<1>2. ASSUME IndInv, SafeInv, SafeInv', [Next]_vars PROVE Promise!Next
  <2>1. held \subseteq stored /\ held' \subseteq stored'
    BY <1>2 DEF SafeInv, VolInv, Used, HasVol, Mapped
  <2>2. CASE UNCHANGED vols
    <3>1. stored' = stored
      BY <2>2
    <3> QED  BY <2>1, <3>1 DEF Promise!Next, Promise!MayHold, Promise!MayRemove
  <2>3. CASE UNCHANGED files
    <3>1. held' = held
      BY <2>3 DEF Mapped
    <3> QED  BY <2>1, <3>1 DEF Promise!Next, Promise!MayHold, Promise!MayRemove
  <2>4. CASE CreatesAndForgets
    <3>1. held' = {} /\ stored \subseteq stored'
      BY <2>4 DEF CreatesAndForgets, Mapped
    <3> QED  BY <3>1 DEF Promise!Next, Promise!MayRemove
  <2> QED  BY <1>2, <2>2, <2>3, <2>4, OneSide
<1> QED  BY <1>1, <1>2, Safe, PTL DEF Spec, IsVolumes, Promise!Spec

-----------------------------------------------------------------------------
(* The jobs whose libvirt call is still to come, step by step.             *)

Fresh == {pending[i] : i \in DOMAIN pending} \union ({working[w] : w \in Workers \ ran} \ {Nil})

LEMMA FreshJobs == Fresh \subseteq Jobs
BY DEF Fresh, Jobs

LEMMA SparedFresh ==
  ASSUME NEW n \in Names
  PROVE  /\ Spared(n) <=> DeleteJob(n, "live") \notin Fresh
         /\ Spared(n)' <=> DeleteJob(n, "live") \notin Fresh'
<1>1. DeleteJob(n, "live") # Nil
  BY DeleteJobType, NilAssumption
<1> QED  BY <1>1 DEF Spared, Queued, Running, Fresh

LEMMA FreshRests ==
  ASSUME UNCHANGED queueVars
  PROVE  Fresh' = Fresh
BY DEF queueVars, Fresh

LEMMA FreshForget ==
  ASSUME Forget
  PROVE  Fresh' = {}
BY DEF Forget, Fresh

LEMMA FreshAppend ==
  ASSUME TypeOK, NEW x \in Job, pending' = Append(pending, x), UNCHANGED <<working, ran>>
  PROVE  Fresh' = Fresh \union {x}
<1>1. /\ pending \in Seq(Job) /\ DOMAIN pending' = DOMAIN pending \union {Len(pending) + 1}
      /\ pending'[Len(pending) + 1] = x /\ \A i \in DOMAIN pending : pending'[i] = pending[i]
  BY DEF TypeOK
<1>2. \A i \in DOMAIN pending : Len(pending) + 1 # i
  BY <1>1
<1>3. {pending'[i] : i \in DOMAIN pending'} = {pending[i] : i \in DOMAIN pending} \union {x}
  BY <1>1, <1>2
<1> QED  BY <1>3, NilAssumption DEF Fresh

LEMMA FreshTake ==
  ASSUME IndInv, NEW w \in Workers, Take(w)
  PROVE  Fresh' = Fresh /\ Jobs' = Jobs
<1>1. /\ pending \in Seq(Job) /\ pending # <<>> /\ working \in [Workers -> Job \union {Nil}]
      /\ w \notin ran /\ working[w] = Nil /\ UNCHANGED <<ran, completed>>
  BY DEF Take, IndInv, TypeOK, RanHold
<1>2. /\ 1 \in DOMAIN pending /\ Head(pending) = pending[1]
      /\ \A i \in DOMAIN Tail(pending) : i + 1 \in DOMAIN pending /\ Tail(pending)[i] = pending[i + 1]
      /\ \A i \in DOMAIN pending : i # 1 =>
           i - 1 \in DOMAIN Tail(pending) /\ Tail(pending)[i - 1] = pending[i]
  <2>1. Len(pending) \in Nat /\ DOMAIN pending = 1 .. Len(pending) /\ Len(pending) # 0
    BY <1>1
  <2>2. DOMAIN Tail(pending) = 1 .. (Len(pending) - 1)
        /\ \A i \in 1 .. (Len(pending) - 1) : Tail(pending)[i] = pending[i + 1]
    BY <1>1
  <2>3. ASSUME NEW i \in DOMAIN pending, i # 1
        PROVE  i - 1 \in DOMAIN Tail(pending) /\ Tail(pending)[i - 1] = pending[i]
    <3>1. i - 1 \in 1 .. (Len(pending) - 1) /\ (i - 1) + 1 = i
      BY <2>1, <2>3
    <3> QED  BY <2>2, <3>1
  <2> QED  BY <1>1, <2>1, <2>2, <2>3
<1>3. pending' = Tail(pending) /\ working' = [working EXCEPT ![w] = pending[1]]
  BY <1>2 DEF Take
<1>4. {pending'[i] : i \in DOMAIN pending'} \union {pending[1]} = {pending[i] : i \in DOMAIN pending}
  <2>1. \A i \in DOMAIN pending' : \E k \in DOMAIN pending : pending'[i] = pending[k]
    BY <1>2, <1>3
  <2>2. \A k \in DOMAIN pending : k # 1 => \E i \in DOMAIN pending' : pending'[i] = pending[k]
    BY <1>2, <1>3
  <2> QED  BY <1>2, <2>1, <2>2
<1>5. pending[1] # Nil
  BY <1>1, <1>2, NilAssumption
<1>6. /\ {working'[v] : v \in Workers \ ran} \ {Nil} = ({working[v] : v \in Workers \ ran} \ {Nil}) \union {pending[1]}
      /\ {working'[v] : v \in Workers} \ {Nil} = ({working[v] : v \in Workers} \ {Nil}) \union {pending[1]}
  <2>1. /\ working'[w] = pending[1] /\ \A v \in Workers : v # w => working'[v] = working[v]
        /\ w \in Workers \ ran
    BY <1>1, <1>3
  <2> QED  BY <1>1, <1>5, <2>1
<1> DEFINE P  == {pending[i] : i \in DOMAIN pending}
           Q  == {pending'[i] : i \in DOMAIN pending'}
           V  == {working[v] : v \in Workers \ ran} \ {Nil}
           V2 == {working'[v] : v \in Workers \ ran} \ {Nil}
           U  == {working[v] : v \in Workers} \ {Nil}
           U2 == {working'[v] : v \in Workers} \ {Nil}
           C  == {completed[i] : i \in DOMAIN completed}
<1>7. /\ Fresh = P \union V /\ Jobs = P \union C \union U
      /\ Fresh' = Q \union V2 /\ Jobs' = Q \union C \union U2
  BY <1>1 DEF Fresh, Jobs
<1>8. Q \union {pending[1]} = P /\ V2 = V \union {pending[1]} /\ U2 = U \union {pending[1]}
  BY <1>4, <1>6
<1> HIDE DEF P, Q, V, V2, U, U2, C
<1> QED  BY <1>7, <1>8

LEMMA FreshHandOver ==
  ASSUME IndInv, NEW w \in Workers, HandOver(w)
  PROVE  Fresh' = Fresh /\ Jobs' = Jobs
<1>1. /\ working \in [Workers -> Job \union {Nil}] /\ w \in ran /\ completed \in Seq(Job)
      /\ working[w] \in Job /\ UNCHANGED pending
      /\ completed' = Append(completed, working[w])
      /\ ran' = ran \ {w} /\ working' = [working EXCEPT ![w] = Nil]
  BY DEF HandOver, IndInv, TypeOK, RanHold
<1>2. /\ working'[w] = Nil /\ \A v \in Workers : v # w => working'[v] = working[v]
  BY <1>1
<1>3. {working'[v] : v \in Workers \ ran'} \ {Nil} = {working[v] : v \in Workers \ ran} \ {Nil}
  BY <1>1, <1>2
<1>4. {completed'[i] : i \in DOMAIN completed'} = {completed[i] : i \in DOMAIN completed} \union {working[w]}
  <2>1. /\ DOMAIN completed' = DOMAIN completed \union {Len(completed) + 1}
        /\ completed'[Len(completed) + 1] = working[w]
        /\ \A i \in DOMAIN completed : completed'[i] = completed[i]
    BY <1>1
  <2> QED  BY <2>1
<1>5. ({working'[v] : v \in Workers} \ {Nil}) \union {working[w]} = {working[v] : v \in Workers} \ {Nil}
  BY <1>1, <1>2, NilAssumption
<1> DEFINE P  == {pending[i] : i \in DOMAIN pending}
           V  == {working[v] : v \in Workers \ ran} \ {Nil}
           V2 == {working'[v] : v \in Workers \ ran'} \ {Nil}
           U  == {working[v] : v \in Workers} \ {Nil}
           U2 == {working'[v] : v \in Workers} \ {Nil}
           C  == {completed[i] : i \in DOMAIN completed}
           C2 == {completed'[i] : i \in DOMAIN completed'}
<1>6. /\ Fresh = P \union V /\ Jobs = P \union C \union U
      /\ Fresh' = P \union V2 /\ Jobs' = P \union C2 \union U2
  BY <1>1 DEF Fresh, Jobs
<1>7. V2 = V /\ C2 = C \union {working[w]} /\ U2 \union {working[w]} = U
  BY <1>3, <1>4, <1>5
<1> HIDE DEF P, V, V2, U, U2, C, C2
<1> QED  BY <1>6, <1>7
-----------------------------------------------------------------------------
(* What the objects say of the volumes, to users who wait until the daemon *)
(* is idle: the inductive invariant.                                       *)

Backed(n) == vols[n] # Nil /\ Spared(n)

(* If o is the current version of the object and says Available, there is  *)
(* a volume and it stays.                                                  *)
Shown(o, n) == o.phase = "Available" /\ o.rev = api[n].rev => Backed(n)
ShownNext(o, n) == o.phase = "Available" /\ o.rev = api'[n].rev => Backed(n)'

(* An event of the current version says what the object says.              *)
Tells(o, n)     == o.rev = api[n].rev => o.phase = api[n].phase
TellsNext(o, n) == o.rev = api'[n].rev => o.phase = api'[n].phase

Serving == proc \in {"run", "drain"}

(* That holds of the object of a file and of the daemon's copy; the daemon *)
(* is not told of an end while there is an object, and what r.files does   *)
(* not list has not been made.                                             *)
ShowsTrue(n) == IsOurs(api[n]) =>
  /\ Shown(api[n], n)
  /\ HasRes(files[n]) => Shown(files[n].res, n)
  /\ \A i \in About(watch, n) : Tells(watch[i].obj, n) /\ ~Ends(watch[i])
  /\ Serving /\ files[n] = Nil => api[n].phase # "Available"

AllShowTrue == \A n \in Names : ShowsTrue(n)

(* Users wait, and no file has changed repositories.                       *)
Patient == Manners = "idle" /\ budget["move"] = Moves

ShowInv == budget["move"] <= Moves /\ (Patient => AllShowTrue)

-----------------------------------------------------------------------------
(* What a step may do to what is shown of one file.                        *)

LEMMA ShowStays ==
  ASSUME NEW n \in Names, ShowsTrue(n), api'[n] = api[n], Backed(n) => Backed(n)',
         \A i \in About(watch', n) : \E k \in About(watch, n) : watch'[i] = watch[k],
         HasRes(files'[n]) => \/ HasRes(files[n]) /\ files'[n].res = files[n].res
                              \/ ShownNext(files'[n].res, n),
         Serving' /\ files'[n] = Nil => Serving /\ files[n] = Nil
  PROVE  ShowsTrue(n)'
BY DEF ShowsTrue, Shown, ShownNext, Tells

LEMMA BackedStays ==
  ASSUME UNCHANGED vols, NEW n, Fewer(n)
  PROVE  Backed(n) => Backed(n)'
BY DEF Backed, Spared, Fewer

LEMMA BackedRests ==
  ASSUME UNCHANGED vols, UNCHANGED queueVars, NEW n
  PROVE  Backed(n) => Backed(n)'
BY QueueRests DEF Backed, Spared

(* After the end of the daemon no deletion is queued.                      *)
LEMMA BackedForget ==
  ASSUME Forget, NEW n \in Names
  PROVE  /\ Backed(n)' <=> vols'[n] # Nil
         /\ About(watch', n) = {} /\ files'[n] = Nil /\ ~Serving'
<1>1. DeleteJob(n, "live") # Nil
  BY DeleteJobType, NilAssumption
<1> QED  BY <1>1 DEF Forget, Backed, Spared, Queued, Running, About, Serving

(* What is in use is there and stays.                                      *)
LEMMA UsedBacked ==
  ASSUME SafeInv, NEW n \in Names, Used(n)
  PROVE  Backed(n)
BY DEF SafeInv, VolInv, Backed

(* The objects that are PUT with the current version.                      *)
Matched(objs) == {n \in DOMAIN objs : api[n] # Nil /\ api[n].rev = objs[n].rev}

(* A PUT: what it says is the new version, everything else is older.       *)
LEMMA PutShown ==
  ASSUME TypeOK, SpecInv, NEW objs, IsObjects(objs), Put(objs),
         \A m \in DOMAIN objs : Current(objs[m], m), NEW n \in Names,
         ShowsTrue(n), Backed(n) => Backed(n)',
         IsOurs(api[n]) /\ n \in Matched(objs) /\ objs[n].phase = "Available" => Backed(n)',
         IsOurs(api'[n])
  PROVE  /\ IsOurs(api[n]) /\ ShownNext(api'[n], n)
         /\ n \in Accepted(objs) => Stored(objs, n) = api'[n]
         /\ \A o : o.rev \in Nat /\ o.rev <= revs[n] /\ Shown(o, n) => ShownNext(o, n)
         /\ \A o : o.rev \in Nat /\ o.rev <= revs[n] /\ Tells(o, n) => TellsNext(o, n)
         /\ n \in Written(objs) \/ api'[n] = api[n]
<1>1. api' = [m \in Names |-> IF m \in Written(objs) THEN Stored(objs, m) ELSE api[m]]
  BY DEF Put
<1>2. api[n] # Nil => api'[n] # Nil /\ api'[n].spec = api[n].spec
  BY PutKeeps DEF SpecKept
<1>3. CASE n \notin Written(objs)
  <2>1. api'[n] = api[n]
    BY <1>1, <1>3
  <2>2. n \in Accepted(objs) => api[n] = objs[n]
    BY <1>3 DEF Written
  <2>3. ShownNext(api'[n], n)
    BY <2>1 DEF ShowsTrue, Shown, ShownNext
  <2>4. \A o : (Shown(o, n) => ShownNext(o, n)) /\ (Tells(o, n) => TellsNext(o, n))
    BY <2>1 DEF Shown, ShownNext, Tells, TellsNext
  <2> QED  BY <1>3, <2>1, <2>2, <2>3, <2>4 DEF Stored
<1>4. CASE n \in Written(objs)
  <2>1. api'[n] = Stored(objs, n) /\ api'[n] = [objs[n] EXCEPT !.rev = revs[n] + 1]
    BY <1>1, <1>4 DEF Stored
  <2>2. /\ n \in DOMAIN objs /\ objs[n] \in Object /\ revs[n] \in Nat /\ api[n] # Nil
        /\ api[n].rev = objs[n].rev
    BY <1>4 DEF Written, Accepted, IsObjects, TypeOK
  <2>3. api'[n].rev = revs[n] + 1 /\ api'[n].phase = objs[n].phase
    BY <2>1, <2>2 DEF Object, ObjectOf
  <2>4. IsOurs(api[n])
    BY <1>2, <2>2 DEF IsOurs
  <2>5. ASSUME NEW o, o.rev \in Nat, o.rev <= revs[n] PROVE ShownNext(o, n) /\ TellsNext(o, n)
    BY <2>2, <2>3, <2>5 DEF ShownNext, TellsNext
  <2>6. ShownNext(api'[n], n)
    BY <1>4, <2>2, <2>3, <2>4 DEF ShownNext, Matched
  <2> QED  BY <1>4, <2>1, <2>4, <2>5, <2>6
<1> QED  BY <1>3, <1>4

LEMMA StoredRev ==
  ASSUME TypeOK, NEW objs, IsObjects(objs), NEW n \in DOMAIN objs, n \in Written(objs)
  PROVE  Stored(objs, n).rev = revs[n] + 1
<1>1. objs[n] \in Object
  BY DEF IsObjects
<1> QED  BY <1>1 DEF Stored, Object, ObjectOf

(* What has not been made is not shown, whatever becomes of a volume.      *)
LEMMA ShowUnmade ==
  ASSUME NEW n \in Names, ShowsTrue(n), api'[n] = api[n], Serving, files[n] = Nil, files'[n] = Nil,
         \A i \in About(watch', n) : \E k \in About(watch, n) : watch'[i] = watch[k]
  PROVE  ShowsTrue(n)'
BY DEF ShowsTrue, Shown, Tells, HasRes

(* ... that the daemon is told of, and that answers its copies.            *)
LEMMA ShowPut ==
  ASSUME StepOK, NEW objs, IsObjects(objs), PutAndNotify(objs),
         \A m \in DOMAIN objs : Current(objs[m], m), NEW n \in Names,
         ShowsTrue(n), Backed(n) => Backed(n)',
         IsOurs(api[n]) /\ n \in Matched(objs) /\ objs[n].phase = "Available" => Backed(n)',
         HasRes(files'[n]) => \/ HasRes(files[n]) /\ files'[n].res = files[n].res
                              \/ \E x \in {Nil, objs[n]} : /\ n \in DOMAIN objs
                                                          /\ files'[n].res = Answer(objs, n, x),
         Serving' /\ files'[n] = Nil => Serving /\ files[n] = Nil /\ n \notin DOMAIN objs
  PROVE  ShowsTrue(n)'
<1> SUFFICES ASSUME IsOurs(api'[n]) PROVE ShowsTrue(n)'
  BY DEF ShowsTrue
<1>1. TypeOK /\ SpecInv /\ TypeOK' /\ Put(objs)
  BY DEF StepOK, PutAndNotify
<1>2. /\ IsOurs(api[n]) /\ ShownNext(api'[n], n)
      /\ n \in Accepted(objs) => Stored(objs, n) = api'[n]
      /\ \A o : o.rev \in Nat /\ o.rev <= revs[n] /\ Shown(o, n) => ShownNext(o, n)
      /\ \A o : o.rev \in Nat /\ o.rev <= revs[n] /\ Tells(o, n) => TellsNext(o, n)
      /\ n \in Written(objs) \/ api'[n] = api[n]
  BY <1>1, PutShown
<1>3. n \in Written(objs) => n \in Accepted(objs) /\ n \in DOMAIN objs
  BY DEF Written, Accepted
<1>4. HasRes(files'[n]) => ShownNext(files'[n].res, n)
  <2>1. CASE HasRes(files[n]) /\ files'[n].res = files[n].res
    <3>1. files[n].res.rev \in Nat /\ files[n].res.rev <= revs[n] /\ Shown(files[n].res, n)
      BY <1>1, <1>2, <2>1, CopyNow DEF Numbered, SpecInv, Current, HasRes, ShowsTrue
    <3> QED  BY <1>2, <2>1, <3>1
  <2>2. CASE n \in Accepted(objs) /\ files'[n].res = Stored(objs, n)
    BY <1>2, <2>2
  <2>3. CASE n \in DOMAIN objs /\ files'[n].res = objs[n]
    <3>1. CASE n \in Written(objs)
      <4>1. objs[n].rev \in Nat /\ objs[n].rev <= revs[n] /\ revs[n] \in Nat
        BY <1>1, <2>3, ObjectRev DEF IsObjects, Current, TypeOK
      <4>2. api'[n].rev = revs[n] + 1
        BY <1>1, <2>3, <3>1, StoredRev DEF Put
      <4> QED  BY <2>3, <4>1, <4>2 DEF ShownNext
    <3>2. CASE n \notin Written(objs)
      BY <1>2, <2>3, <3>2 DEF ShownNext, Matched, IsOurs
    <3> QED  BY <3>1, <3>2
  <2> QED  BY <2>1, <2>2, <2>3 DEF Answer, HasRes
<1>5. \A i \in About(watch', n) : TellsNext(watch'[i].obj, n) /\ ~Ends(watch'[i])
  <2>1. ASSUME NEW i \in About(watch, n)
        PROVE  TellsNext(watch[i].obj, n) /\ ~Ends(watch[i])
    <3>1. watch[i].obj.rev \in Nat /\ watch[i].obj.rev <= revs[n]
      BY <1>1, CopyNow DEF Numbered, SpecInv, Current, About
    <3> QED  BY <1>2, <3>1 DEF ShowsTrue
  <2>2. CASE n \in Written(objs)
    <3>1. PICK k \in Nat : More(n, watch, watch', k) /\ watch'[k] = NewEvent("Modified", n, api'[n])
      BY <1>1, <2>2, NotifiesOf
    <3>2. TellsNext(watch'[k].obj, n) /\ ~Ends(watch'[k])
      BY <1>2, <3>1 DEF NewEvent, Ends, TellsNext
    <3> QED  BY <2>1, <3>1, <3>2 DEF More
  <2>3. CASE n \notin Written(objs)
    BY <1>1, <2>1, <2>3, NotifiesOf DEF Same
  <2> QED  BY <2>2, <2>3
<1>6. Serving' /\ files'[n] = Nil => api'[n].phase # "Available"
  BY <1>2, <1>3 DEF ShowsTrue
<1> QED  BY <1>2, <1>4, <1>5, <1>6 DEF ShowsTrue, Shown, ShownNext, Tells, TellsNext

(* A loop that panics has made some volumes,                               *)
LEMMA PanicMakes ==
  ASSUME NEW objs, NEW fine, NEW queued, PanicInLoop(objs, fine, queued),
         \A n \in queued : objs[n].spec \in Sizes, NEW n \in Names, vols[n] # Nil
  PROVE  vols'[n] # Nil
<1>1. PICK made \in SUBSET queued :
        vols' = [m \in Names |-> IF m \in made THEN objs[m].spec ELSE vols[m]]
  BY DEF PanicInLoop
<1> QED  BY <1>1, NilAssumption

(* and updated some of the objects.                                        *)
LEMMA ShowPanicInLoop ==
  ASSUME StepOK, AllShowTrue, NEW objs, NEW fine, NEW queued, PanicInLoop(objs, fine, queued),
         fine \subseteq Names, \A n \in queued : objs[n].spec \in Sizes,
         \A n \in fine : /\ objs[n] \in Object /\ Current(objs[n], n)
                         /\ objs[n].phase = "Available" =>
                              vols[n] # Nil \/ (HasRes(files[n]) /\ files[n].res.phase = "Available"
                                                /\ files[n].res.rev = objs[n].rev)
  PROVE  AllShowTrue'
<1> SUFFICES ASSUME NEW n \in Names, IsOurs(api'[n]) PROVE ShowsTrue(n)'
  BY DEF AllShowTrue, ShowsTrue
<1>1. PICK S \in SUBSET fine : Put([m \in S |-> objs[m]])
  BY DEF PanicInLoop
<1> DEFINE part == [m \in S |-> objs[m]]
<1>2. /\ IsObjects(part) /\ DOMAIN part \subseteq fine /\ Put(part)
      /\ \A m \in DOMAIN part : part[m] = objs[m] /\ Current(part[m], m)
  BY <1>1 DEF IsObjects
<1> HIDE DEF part
<1>3. Forget /\ TypeOK /\ SpecInv /\ ShowsTrue(n)
  BY DEF PanicInLoop, StepOK, AllShowTrue
<1>4. /\ vols[n] # Nil => Backed(n)'
      /\ About(watch', n) = {} /\ files'[n] = Nil /\ ~Serving'
  <2>1. /\ Backed(n)' <=> vols'[n] # Nil
        /\ About(watch', n) = {} /\ files'[n] = Nil /\ ~Serving'
    BY <1>3, BackedForget
  <2> QED  BY <2>1, PanicMakes
<1>5. Backed(n) => Backed(n)'
  BY <1>4 DEF Backed
<1>6. IsOurs(api[n])
  BY <1>2, <1>3, PutKeeps DEF SpecKept, IsOurs, Put, Written, Accepted
<1>7. n \in Matched(part) /\ part[n].phase = "Available" => Backed(n)'
  <2>1. SUFFICES ASSUME n \in Matched(part), part[n].phase = "Available", vols[n] = Nil PROVE FALSE
    BY <1>4
  <2>2. /\ HasRes(files[n]) /\ files[n].res.phase = "Available"
        /\ files[n].res.rev = api[n].rev
    BY <1>2, <2>1 DEF Matched
  <2> QED  BY <1>3, <1>6, <2>1, <2>2 DEF ShowsTrue, Shown, Backed
<1>8. ShownNext(api'[n], n)
  BY <1>2, <1>3, <1>5, <1>7, PutShown
<1> QED  BY <1>4, <1>8 DEF ShowsTrue, ShownNext, Shown, HasRes

(* A step that runs no deletion and loses no volume.                       *)
LEMMA BackedFresh ==
  ASSUME Fresh' \subseteq Fresh, NEW n \in Names, vols'[n] = Nil => vols[n] = Nil
  PROVE  Backed(n) => Backed(n)'
BY SparedFresh DEF Backed

(* Over a dead connection nothing is deleted.                              *)
LEMMA DeadSpared ==
  ASSUME SafeInv', pool' # "live", NEW n \in Names
  PROVE  Spared(n)'
<1>1. LiveJob(DeleteJob(n, "live"))
  BY DeleteIsLive
<1>2. DeleteJob(n, "live") \notin Jobs'
  BY <1>1 DEF SafeInv, LiveInv, NothingLive, LiveJob
<1>3. Fresh' \subseteq Jobs'
  BY DEF Fresh, Jobs
<1> QED  BY <1>2, <1>3, SparedFresh

LEMMA ShowRests ==
  ASSUME AllShowTrue, UNCHANGED <<toldVars, vols, files, queueVars>>, Serving' => Serving
  PROVE  AllShowTrue'
<1> SUFFICES ASSUME NEW n \in Names PROVE ShowsTrue(n)'
  BY DEF AllShowTrue
<1>1. UNCHANGED <<api, watch, files, vols>> /\ ShowsTrue(n)
  BY DEF storeVars, toldVars, AllShowTrue
<1>2. Backed(n) => Backed(n)'
  BY BackedRests
<1>3. \A i \in About(watch', n) : \E k \in About(watch, n) : watch'[i] = watch[k]
  BY <1>1 DEF About
<1> QED  BY <1>1, <1>2, <1>3, ShowStays

LEMMA ShowForget ==
  ASSUME AllShowTrue, Forget, UNCHANGED <<api, vols>>
  PROVE  AllShowTrue'
<1> SUFFICES ASSUME NEW n \in Names PROVE ShowsTrue(n)'
  BY DEF AllShowTrue
<1>1. ShowsTrue(n)
  BY DEF AllShowTrue
<1>2. Backed(n) => Backed(n)'
  BY BackedForget DEF Backed
<1> QED  BY <1>1, <1>2, BackedForget, ShowStays DEF HasRes

(* A new watch tells what the objects are.                                 *)
LEMMA OpenWatchTells ==
  ASSUME OpenWatch, NEW n \in Names, NEW i \in About(watch', n)
  PROVE  api[n] # Nil /\ watch'[i] = NewEvent("Added", n, api[n])
<1>1. PICK order \in SetToSeqs(Present) :
        watch' = [k \in DOMAIN order |-> NewEvent("Added", order[k], api[order[k]])]
  BY DEF OpenWatch
<1>2. IsFiniteSet(Present)
  BY ConstantsAssumption, FS_Subset DEF Present
<1>3. order \in Seq(Present)
  BY <1>2, OrderSeq
<1>4. i \in DOMAIN order /\ watch'[i].name = n
  BY <1>1 DEF About
<1>5. watch'[i] = NewEvent("Added", order[i], api[order[i]]) /\ order[i] \in Present
  BY <1>1, <1>3, <1>4
<1>6. order[i] = n
  BY <1>4, <1>5 DEF NewEvent
<1> QED  BY <1>5, <1>6 DEF Present

LEMMA ShowOpenWatch ==
  ASSUME AllShowTrue, OpenWatch, UNCHANGED <<api, vols, files, queueVars>>, Serving' => Serving
  PROVE  AllShowTrue'
<1> SUFFICES ASSUME NEW n \in Names PROVE ShowsTrue(n)'
  BY DEF AllShowTrue
<1>1. ShowsTrue(n)
  BY DEF AllShowTrue
<1>2. Backed(n) => Backed(n)'
  BY BackedRests
<1>3. ASSUME NEW i \in About(watch', n)
      PROVE  Tells(watch'[i].obj, n) /\ ~Ends(watch'[i])
  <2>1. watch'[i] = NewEvent("Added", n, api[n])
    BY OpenWatchTells
  <2> QED  BY <2>1 DEF Tells, NewEvent, Ends
<1> QED  BY <1>1, <1>2, <1>3 DEF ShowsTrue, Shown, Tells

LEMMA ShowLoadFiles ==
  ASSUME TypeOK, AllShowTrue, LoadFileResources PROVE AllShowTrue'
<1> SUFFICES ASSUME NEW n \in Names, IsOurs(api[n]) PROVE ShowsTrue(n)'
  BY DEF AllShowTrue, ShowsTrue, LoadFileResources, storeVars, toldVars
<1>1. ShowsTrue(n) /\ UNCHANGED <<api, watch, vols, queueVars>>
  BY DEF AllShowTrue, LoadFileResources, storeVars, toldVars
<1>2. Backed(n) => Backed(n)'
  BY <1>1, BackedRests
<1>3. files'[n] = [res |-> api[n], vol |-> "nil"]
  BY DEF LoadFileResources, IsOurs, Ours
<1>4. files'[n].res = api[n] /\ files'[n] # Nil
  <2>1. api[n] \in OurObject
    BY OursType DEF IsOurs, TypeOK
  <2>2. "nil" \in Handles
    BY DEF Handles
  <2> QED  BY <1>3, <2>1, <2>2, FileType
<1> QED  BY <1>1, <1>2, <1>4 DEF ShowsTrue, Shown, Tells

(* The main loop handles the first event: what is left tells the same.     *)
LEMMA TailTells ==
  ASSUME TypeOK, watch # <<>>, NEW n
  PROVE  \A i \in About(Tail(watch), n) : \E k \in About(watch, n) : Tail(watch)[i] = watch[k]
BY HeadFacts DEF Less

LEMMA ShowIgnore ==
  ASSUME TypeOK, AllShowTrue, watch # <<>>, Ignore PROVE AllShowTrue'
<1> SUFFICES ASSUME NEW n \in Names PROVE ShowsTrue(n)'
  BY DEF AllShowTrue
<1>1. UNCHANGED <<api, files, vols, queueVars, proc>> /\ watch' = Tail(watch) /\ ShowsTrue(n)
  BY DEF Ignore, AllShowTrue
<1>2. Backed(n) => Backed(n)'
  BY <1>1, BackedRests
<1> QED  BY <1>1, <1>2, TailTells, ShowStays DEF Serving

LEMMA ShowModifyFile ==
  ASSUME StepOK, AllShowTrue, watch # <<>>, ModifyFile(Head(watch)) PROVE AllShowTrue'
<1> DEFINE e == Head(watch)
           n == e.name
           x == ResizeJob(n, files[n].vol, e.obj.spec)
<1>0. TypeOK /\ e \in Event /\ watch[1] = e /\ 1 \in About(watch, n)
  BY HeadFacts DEF StepOK
<1>1. CASE Ignore
  BY <1>0, <1>1, ShowIgnore
<1>2. CASE Panic
  BY <1>2, ShowForget DEF Panic
<1>3. CASE /\ files' = [files EXCEPT ![n].res = e.obj] /\ watch' = Tail(watch)
           /\ UNCHANGED <<api, vols, proc, working, ran, completed>>
           /\ files[n] # Nil /\ e.obj.spec # Elsewhere
           /\ pending' = pending \/ (files[n].vol # "nil" /\ pending' = Append(pending, x))
  <2>1. n \in Names /\ e.obj.spec \in Sizes /\ files[n] \in File
    BY <1>0, <1>3 DEF Event, Object, ObjectOf, TypeOK
  <2>2. \A m \in Names : Fewer(m)
    <3>1. CASE pending' = pending
      BY <1>3, <3>1 DEF Fewer, Queued, Running
    <3>2. CASE files[n].vol # "nil" /\ pending' = Append(pending, x)
      <4>1. files[n].vol \in {"live", "dead"}
        BY <2>1, <3>2 DEF File, Handles
      <4>2. x \in Job /\ x.op = "resize"
        BY <2>1, <4>1, JobTypes DEF ResizeJob
      <4> HIDE DEF x
      <4> QED  BY <1>0, <1>3, <3>2, <4>2, AppendJobs, DeleteIsLive DEF Fewer
    <3> QED  BY <1>3, <3>1, <3>2
  <2> HIDE DEF x, e
  <2> SUFFICES ASSUME NEW m \in Names, IsOurs(api'[m]) PROVE ShowsTrue(m)'
    BY DEF AllShowTrue, ShowsTrue
  <2>3. ShowsTrue(m) /\ (Backed(m) => Backed(m)') /\ IsOurs(api[m])
    BY <1>3, <2>2, BackedStays DEF AllShowTrue
  <2>4. HasRes(files'[m]) => \/ HasRes(files[m]) /\ files'[m].res = files[m].res
                             \/ ShownNext(files'[m].res, m)
    <3>1. CASE m # n
      <4>1. files'[m] = files[m]
        BY <1>0, <1>3, <2>1, <3>1 DEF TypeOK
      <4> QED  BY <4>1
    <3>2. CASE m = n
      <4>1. files'[n].res = e.obj
        BY <1>0, <1>3, <2>1 DEF TypeOK, File
      <4>2. Tells(e.obj, n) /\ Shown(api[n], n)
        BY <1>0, <2>3, <3>2 DEF ShowsTrue
      <4> QED  BY <1>3, <2>3, <3>2, <4>1, <4>2 DEF Tells, Shown, ShownNext
    <3> QED  BY <3>1, <3>2
  <2>5. Serving' /\ files'[m] = Nil => Serving /\ files[m] = Nil
    <3>1. m # n => files'[m] = files[m]
      BY <1>0, <1>3, <2>1 DEF TypeOK
    <3>2. files'[n] # Nil
      <4>1. files'[n] = [res |-> e.obj, vol |-> files[n].vol] /\ files[n].vol \in Handles
        BY <1>0, <1>3, <2>1 DEF TypeOK, File
      <4>2. e.obj \in OurObject
        BY <1>0, <1>3, OursType DEF Event
      <4> QED  BY <4>1, <4>2, FileType
    <3> QED  BY <1>3, <3>1, <3>2 DEF Serving
  <2>6. \A i \in About(watch', m) : \E k \in About(watch, m) : watch'[i] = watch[k]
    BY <1>0, <1>3, TailTells
  <2> QED  BY <1>3, <2>3, <2>4, <2>5, <2>6, ShowStays
<1> HIDE DEF x
<1>4. ModifyFile(e) => \/ Ignore \/ Panic
        \/ /\ files' = [files EXCEPT ![n].res = e.obj] /\ watch' = Tail(watch)
           /\ UNCHANGED <<api, vols, proc, working, ran, completed>>
           /\ files[n] # Nil /\ e.obj.spec # Elsewhere
           /\ pending' = pending \/ (files[n].vol # "nil" /\ pending' = Append(pending, x))
  BY DEF ModifyFile, x
<1> QED  BY <1>1, <1>2, <1>3, <1>4

LEMMA ShowDeleteFile ==
  ASSUME IndInv, StepOK, SafeInv, AllShowTrue, watch # <<>>, Head(watch).type = "Deleted",
         DeleteFile(Head(watch))
  PROVE  AllShowTrue'
<1> DEFINE e == Head(watch)
           n == e.name
<1>0. TypeOK /\ e \in Event /\ watch[1] = e /\ 1 \in About(watch, n) /\ n \in Names
  BY HeadFacts DEF StepOK, Event
<1>1. CASE Ignore
  BY <1>0, <1>1, ShowIgnore
<1>2. CASE /\ e.obj.spec # Elsewhere /\ files[n] # Nil /\ files' = [files EXCEPT ![n] = Nil]
           /\ pending' = [i \in DOMAIN pending |-> Unmap(pending[i], n)] \o DeleteOf(n)
           /\ working' = [w \in Workers |-> IF working[w] = Nil THEN Nil ELSE Unmap(working[w], n)]
           /\ completed' = [i \in DOMAIN completed |-> Unmap(completed[i], n)]
           /\ watch' = Tail(watch) /\ UNCHANGED <<api, vols, proc, ran>>
  <2>1. Ends(watch[1])
    BY <1>0, <1>2, NilAssumption DEF Ends, IsOurs, Event
  <2> HIDE DEF e
  <2> SUFFICES ASSUME NEW m \in Names, IsOurs(api'[m]) PROVE ShowsTrue(m)'
    BY DEF AllShowTrue, ShowsTrue
  <2>2. ShowsTrue(m) /\ IsOurs(api[m])
    BY <1>2 DEF AllShowTrue
  <2>3. m # n
    BY <1>0, <2>1, <2>2 DEF ShowsTrue
  <2>4. Fewer(m)
    BY <1>0, <1>2, <2>3, DeleteFileJobs DEF Fewer
  <2>5. Backed(m) => Backed(m)'
    BY <1>2, <2>4, BackedStays
  <2>6. files'[m] = files[m]
    BY <1>0, <1>2, <2>3 DEF TypeOK
  <2>7. \A i \in About(watch', m) : \E k \in About(watch, m) : watch'[i] = watch[k]
    BY <1>0, <1>2, TailTells
  <2> QED  BY <1>2, <2>2, <2>5, <2>6, <2>7, ShowStays DEF Serving
<1> QED  BY <1>1, <1>2 DEF DeleteFile

LEMMA ShowAddFile ==
  ASSUME StepOK, AllShowTrue, watch # <<>>, AddFile(Head(watch)) PROVE AllShowTrue'
<1> DEFINE e    == Head(watch)
           n    == e.name
           new  == e.obj.spec # Elsewhere /\ files[n] = Nil
           x    == CreateJob(n, pool, e.obj.spec)
           objs == [m \in {n} |-> [e.obj EXCEPT !.phase = "Pending"]]
           ev   == NewEvent("Modified", n, Stored(objs, n))
<1>0. TypeOK /\ SpecInv /\ e \in Event /\ watch[1] = e /\ 1 \in About(watch, n) /\ n \in Names
  BY HeadFacts DEF StepOK, Event
<1>1. CASE Ignore
  BY <1>0, <1>1, ShowIgnore
<1>2. CASE Panic
  BY <1>2, ShowForget DEF Panic
<1>3. CASE /\ new /\ pool # "nil" /\ pending' = Append(pending, x) /\ Put(objs)
           /\ watch' = Tail(watch) \o (IF n \in Written(objs) THEN <<ev>> ELSE <<>>)
           /\ files' = [files EXCEPT ![n] = [res |-> Answer(objs, n, objs[n]), vol |-> "nil"]]
           /\ UNCHANGED <<vols, proc, working, ran, completed>>
  <2>1. e.obj \in Object /\ e.obj.spec \in Sizes /\ pool \in {"live", "dead"}
    BY <1>0, <1>3 DEF Event, Object, ObjectOf, TypeOK, Handles
  <2>2. \A m \in Names : Fewer(m)
    <3>1. x \in Job /\ x.op = "create"
      BY <1>0, <2>1, JobTypes DEF CreateJob
    <3> HIDE DEF x
    <3> QED  BY <1>0, <1>3, <3>1, AppendJobs, DeleteIsLive DEF Fewer
  <2>3. DOMAIN objs = {n} /\ objs[n] = [e.obj EXCEPT !.phase = "Pending"]
    OBVIOUS
  <2>4. objs[n] \in Object /\ objs[n].rev = e.obj.rev /\ objs[n].spec = e.obj.spec /\ objs[n].phase = "Pending"
    <3>1. "Pending" \in Phases
      BY DEF Phases
    <3>2. [e.obj EXCEPT !.phase = "Pending"] \in Object /\ [e.obj EXCEPT !.phase = "Pending"].phase = "Pending"
      BY <2>1, <3>1, PhaseType DEF Object, ObjectOf
    <3>3. /\ [e.obj EXCEPT !.phase = "Pending"].rev = e.obj.rev
          /\ [e.obj EXCEPT !.phase = "Pending"].spec = e.obj.spec
      BY <2>1, SameVersion
    <3> QED  BY <2>3, <3>2, <3>3
  <2>5. Current(e.obj, n)
    <3>1. 1 \in DOMAIN watch
      BY <1>0 DEF About
    <3> QED  BY <1>0, <3>1 DEF SpecInv
  <2> HIDE DEF x, e, objs
  <2>6. IsObjects(objs) /\ \A m \in DOMAIN objs : Current(objs[m], m)
    BY <1>0, <2>3, <2>4, <2>5 DEF IsObjects, Current
  <2> SUFFICES ASSUME NEW m \in Names, IsOurs(api'[m]) PROVE ShowsTrue(m)'
    BY DEF AllShowTrue, ShowsTrue
  <2>7. ShowsTrue(m) /\ (Backed(m) => Backed(m)')
    BY <1>3, <2>2, BackedStays DEF AllShowTrue
  <2>8. /\ IsOurs(api[m]) /\ ShownNext(api'[m], m)
        /\ m \in Accepted(objs) => Stored(objs, m) = api'[m]
        /\ \A o : o.rev \in Nat /\ o.rev <= revs[m] /\ Shown(o, m) => ShownNext(o, m)
        /\ \A o : o.rev \in Nat /\ o.rev <= revs[m] /\ Tells(o, m) => TellsNext(o, m)
        /\ m \in Written(objs) \/ api'[m] = api[m]
    <3>1. m \in Matched(objs) => objs[m].phase # "Available"
      BY <2>3, <2>4 DEF Matched
    <3> QED  BY <1>0, <1>3, <2>6, <2>7, <3>1, PutShown
  <2>9. \A i \in About(Tail(watch), m) : TellsNext(Tail(watch)[i].obj, m) /\ ~Ends(Tail(watch)[i])
    <3>1. ASSUME NEW k \in About(watch, m)
          PROVE  TellsNext(watch[k].obj, m) /\ ~Ends(watch[k])
      <4>1. watch[k].obj.rev \in Nat /\ watch[k].obj.rev <= revs[m]
        BY <1>0, CopyNow DEF Numbered, SpecInv, Current, About
      <4> QED  BY <2>7, <2>8, <4>1 DEF ShowsTrue
    <3> QED  BY <1>0, <3>1, TailTells
  <2>10. \A i \in About(watch', m) : TellsNext(watch'[i].obj, m) /\ ~Ends(watch'[i])
    <3>1. CASE n \notin Written(objs)
      <4>1. watch' = Tail(watch)
        BY <1>0, <1>3, <3>1 DEF TypeOK
      <4> QED  BY <2>9, <4>1
    <3>2. CASE n \in Written(objs)
      <4>1. ev \in Event /\ ev.name = n
        BY <1>0, <2>3, <2>6, StoredType DEF NewEvent, Event
      <4>2. m = n => ev.obj = api'[m] /\ ~Ends(ev)
        BY <2>8, <3>2 DEF NewEvent, Ends, Written
      <4> HIDE DEF ev
      <4>3. watch' = Append(Tail(watch), ev) /\ Tail(watch) \in Seq(Event)
        BY <1>0, <1>3, <3>2, <4>1 DEF TypeOK
      <4>4. ASSUME NEW i \in About(watch', m)
            PROVE  \/ i \in About(Tail(watch), m) /\ watch'[i] = Tail(watch)[i]
                   \/ watch'[i] = ev /\ m = n
        <5>1. i \in DOMAIN watch' /\ watch'[i].name = m
          BY DEF About
        <5>2. (i \in DOMAIN Tail(watch) /\ watch'[i] = Tail(watch)[i]) \/ watch'[i] = ev
          BY <4>1, <4>3, <5>1
        <5> QED  BY <4>1, <5>1, <5>2 DEF About
      <4> QED  BY <2>9, <4>2, <4>4 DEF TellsNext
    <3> QED  BY <3>1, <3>2
  <2>11. files[n] = Nil /\ files'[n] # Nil /\ files'[n].res = Answer(objs, n, objs[n])
    <3>1. files'[n] = [res |-> Answer(objs, n, objs[n]), vol |-> "nil"]
      BY <1>0, <1>3 DEF TypeOK
    <3>2. objs[n] \in OurObject
      BY <1>3, <2>4, OursType
    <3>3. Answer(objs, n, objs[n]) \in OurObject \union {Nil}
      <4>1. n \in DOMAIN objs /\ objs[n].spec # Elsewhere
        BY <1>3, <2>3, <2>4
      <4>2. Answer(objs, n, objs[n]) \in OurObject \union {objs[n]}
        BY <1>0, <2>6, <4>1, AnswerType
      <4> QED  BY <3>2, <4>2
    <3>4. "nil" \in Handles
      BY DEF Handles
    <3>5. files'[n] # Nil
      BY <3>1, <3>3, <3>4, FileType
    <3> QED  BY <1>3, <3>1, <3>5
  <2>12. HasRes(files'[m]) => ShownNext(files'[m].res, m)
    <3>1. CASE m # n
      <4>1. files'[m] = files[m]
        BY <1>0, <1>3, <3>1 DEF TypeOK
      <4>2. HasRes(files[m]) => files[m].res.rev \in Nat /\ files[m].res.rev <= revs[m]
        BY <1>0, CopyNow DEF Numbered, SpecInv, Current, HasRes
      <4> QED  BY <2>7, <2>8, <4>1, <4>2 DEF ShowsTrue
    <3>2. CASE m = n
      BY <2>4, <2>8, <2>11, <3>2 DEF Answer, ShownNext
    <3> QED  BY <3>1, <3>2
  <2>13. Serving' /\ files'[m] = Nil => api'[m].phase # "Available"
    <3>1. CASE m # n
      <4>1. files'[m] = files[m] /\ m \notin Written(objs)
        BY <1>0, <1>3, <2>3, <3>1 DEF TypeOK, Written, Accepted
      <4> QED  BY <1>3, <2>7, <2>8, <4>1 DEF ShowsTrue, Serving
    <3> QED  BY <2>11, <3>1
  <2> QED  BY <2>8, <2>10, <2>12, <2>13 DEF ShowsTrue, Shown, ShownNext, Tells, TellsNext
<1>4. AddFile(e) => \/ Ignore \/ Panic
        \/ /\ new /\ pool # "nil" /\ pending' = Append(pending, x) /\ Put(objs)
           /\ watch' = Tail(watch) \o (IF n \in Written(objs) THEN <<ev>> ELSE <<>>)
           /\ files' = [files EXCEPT ![n] = [res |-> Answer(objs, n, objs[n]), vol |-> "nil"]]
           /\ UNCHANGED <<vols, proc, working, ran, completed>>
  BY DEF AddFile
<1> QED  BY <1>1, <1>2, <1>3, <1>4

LEMMA ShowWatchEvent ==
  ASSUME IndInv, StepOK, SafeInv, AllShowTrue, WatchEvent PROVE AllShowTrue'
BY ShowAddFile, ShowModifyFile, ShowDeleteFile DEF WatchEvent

(* The connection.                                                         *)
LEMMA ShowConnLost ==
  ASSUME TypeOK, SafeInv', AllShowTrue, ConnLost PROVE AllShowTrue'
<1> SUFFICES ASSUME NEW n \in Names PROVE ShowsTrue(n)'
  BY DEF AllShowTrue
<1>1. ShowsTrue(n) /\ UNCHANGED <<api, watch, vols, proc>>
  BY DEF AllShowTrue, ConnLost, storeVars, toldVars
<1>2. pool' # "live"
  BY DEF ConnLost, Sever
<1>3. Backed(n) => Backed(n)'
  BY <1>1, <1>2, DeadSpared DEF Backed
<1>4. CASE files[n] = Nil
  <2>1. files'[n] = Nil
    BY <1>4 DEF ConnLost
  <2> QED  BY <1>1, <1>3, <1>4, <2>1, ShowStays DEF HasRes, About, Serving
<1>5. CASE files[n] # Nil
  <2>1. files[n] \in File /\ files'[n] = [files[n] EXCEPT !.vol = Sever(@)]
    BY <1>5 DEF ConnLost, TypeOK
  <2>2. files'[n] = [res |-> files[n].res, vol |-> Sever(files[n].vol)] /\ Sever(files[n].vol) \in Handles
    BY <2>1 DEF File, Sever, Handles
  <2>3. files'[n] # Nil /\ files'[n].res = files[n].res
    BY <2>1, <2>2, FileType DEF File
  <2> QED  BY <1>1, <1>3, <1>5, <2>3, ShowStays DEF HasRes, About
<1> QED  BY <1>4, <1>5

LEMMA ShowConnectFailed ==
  ASSUME TypeOK, AllShowTrue, ConnectFailed PROVE AllShowTrue'
<1>1. CASE Panic
  BY <1>1, ShowForget DEF Panic
<1>2. CASE /\ files' = [n \in Names |-> IF files[n] = Nil THEN Nil ELSE [files[n] EXCEPT !.vol = "nil"]]
           /\ UNCHANGED <<toldVars, vols, queueVars>> /\ proc = "run"
  <2> SUFFICES ASSUME NEW n \in Names PROVE ShowsTrue(n)'
    BY DEF AllShowTrue
  <2>1. ShowsTrue(n) /\ UNCHANGED <<api, watch>> /\ Serving
    BY <1>2 DEF AllShowTrue, storeVars, toldVars, Serving
  <2>2. Backed(n) => Backed(n)'
    BY <1>2, BackedRests
  <2>3. CASE files[n] = Nil
    <3>1. files'[n] = Nil
      BY <1>2, <2>3
    <3> QED  BY <2>1, <2>2, <2>3, <3>1, ShowStays DEF HasRes, About
  <2>4. CASE files[n] # Nil
    <3>1. files[n] \in File /\ files'[n] = [files[n] EXCEPT !.vol = "nil"]
      BY <1>2, <2>4 DEF TypeOK
    <3>2. files'[n] = [res |-> files[n].res, vol |-> "nil"] /\ "nil" \in Handles
      BY <3>1 DEF File, Handles
    <3>3. files'[n] # Nil /\ files'[n].res = files[n].res
      BY <3>1, <3>2, FileType DEF File
    <3> QED  BY <2>1, <2>2, <2>4, <3>3, ShowStays DEF HasRes, About
  <2> QED  BY <2>3, <2>4
<1> QED  BY <1>1, <1>2 DEF ConnectFailed, storeVars, toldVars

LEMMA ShowLoadVolumes ==
  ASSUME IndInv, StepOK, SafeInv, SafeInv', AllShowTrue, LoadVolumes, NoRes = {}, Serving
  PROVE  AllShowTrue'
<1> DEFINE objs == LoadedObjects
<1>1. /\ DOMAIN objs = Mapped /\ IsObjects(objs) /\ PutAndNotify(objs) /\ UNCHANGED vols
      /\ \A n \in DOMAIN objs : Current(objs[n], n)
  BY LoadedType, LoadedSpecs DEF LoadVolumes, StepOK
<1> SUFFICES ASSUME NEW n \in Names PROVE ShowsTrue(n)'
  BY DEF AllShowTrue
<1>2. ShowsTrue(n)
  BY DEF AllShowTrue
<1>3. CASE n \notin Mapped
  <2>1. files[n] = Nil /\ files'[n] = Nil
    BY <1>3 DEF Mapped, LoadVolumes
  <2>2. n \notin Written(objs)
    BY <1>1, <1>3 DEF Written, Accepted
  <2> HIDE DEF objs
  <2>3. api'[n] = api[n] /\ Same(n, watch, watch')
    BY <1>1, <2>2, NotifiesOf DEF StepOK
  <2> QED  BY <1>2, <2>1, <2>3, ShowUnmade DEF Same
<1>4. CASE n \in Mapped
  <2>1. objs[n] = [files[n].res EXCEPT !.phase = IF n \in Found THEN "Available" ELSE "Pending"]
    BY <1>1, <1>4 DEF LoadedObjects
  <2>2. files[n] # Nil /\ HasRes(files[n]) /\ files[n] \in File
    BY <1>4 DEF Mapped, NoRes, HasRes, StepOK, TypeOK
  <2>3. objs[n].phase = "Available" => n \in Found
    BY <2>1, <2>2 DEF HasRes, File, OurObject, ObjectOf
  <2>4. /\ files'[n].res = Answer(objs, n, objs[n]) /\ files'[n] # Nil
        /\ n \in Found => files'[n].vol = "live"
    <3>1. files'[n] = [res |-> Answer(objs, n, objs[n]), vol |-> IF n \in Found THEN "live" ELSE files[n].vol]
      BY <1>4 DEF LoadVolumes
    <3>2. files'[n] \in File \union {Nil}
      BY DEF StepOK, TypeOK
    <3>3. Answer(objs, n, objs[n]) \in OurObject \union {Nil}
      <4>1. objs[n].spec # Elsewhere
        BY <1>4, <2>2, LoadedType DEF StepOK, HasRes, NoRes
      <4>2. objs[n] \in OurObject
        BY <1>1, <1>4, <4>1, OursType DEF IsObjects
      <4> HIDE DEF objs
      <4> QED  BY <1>1, <1>4, <4>1, <4>2, AnswerType DEF StepOK
    <3>4. (IF n \in Found THEN "live" ELSE files[n].vol) \in Handles
      BY <2>2 DEF File, Handles
    <3> HIDE DEF objs
    <3> QED  BY <3>1, <3>3, <3>4, FileType
  <2> HIDE DEF objs
  <2>5. n \in Found => Backed(n)'
    <3>1. n \in Found => Used(n)'
      BY <2>4 DEF Used, HasVol
    <3> QED  BY <3>1 DEF SafeInv, VolInv, Backed
  <2>6. Backed(n) => Backed(n)'
    BY <1>4, <2>5 DEF Backed, Found
  <2> QED  BY <1>1, <1>2, <1>4, <2>2, <2>3, <2>4, <2>5, <2>6, ShowPut
<1> QED  BY <1>3, <1>4

LEMMA ShowPoolReady ==
  ASSUME IndInv, StepOK, SafeInv, SafeInv', AllShowTrue, PoolReady PROVE AllShowTrue'
<1>0. Serving
  BY DEF PoolReady, Serving
<1>1. CASE UNCHANGED <<toldVars, vols, files, queueVars>>
  BY <1>0, <1>1, ShowRests
<1>2. CASE NoRes = {} /\ LoadVolumes
  BY <1>0, <1>2, ShowLoadVolumes
<1>3. CASE PanicInLoop(LoadedObjects, Mapped \ NoRes, Mapped \ (NoRes \union Found))
  <2>1. ASSUME NEW n \in Mapped \ NoRes
        PROVE  /\ LoadedObjects[n] \in Object /\ Current(LoadedObjects[n], n)
               /\ LoadedObjects[n].phase = "Available" => vols[n] # Nil
    <3>1. LoadedObjects[n] = [files[n].res EXCEPT !.phase = IF n \in Found THEN "Available" ELSE "Pending"]
      BY DEF LoadedObjects
    <3>2. files[n].res \in OurObject
      BY DEF Mapped, NoRes, StepOK, TypeOK, File
    <3>3. LoadedObjects[n].phase = "Available" => n \in Found
      BY <3>1, <3>2 DEF OurObject, ObjectOf
    <3> QED  BY <3>3, LoadedType, LoadedSpecs DEF StepOK, IsObjects, Found
  <2>2. Mapped \ NoRes \subseteq Names
    BY DEF Mapped
  <2>3. \A n \in Mapped \ (NoRes \union Found) : LoadedObjects[n].spec \in Sizes
    <3>1. \A n \in Mapped \ NoRes : LoadedObjects[n] \in Object /\ LoadedObjects[n].spec # Elsewhere
      BY <2>1, LoadedType DEF StepOK
    <3> QED  BY <3>1 DEF Object, ObjectOf
  <2> QED  BY <1>3, <2>1, <2>2, <2>3, ShowPanicInLoop
<1> QED  BY <1>1, <1>2, <1>3 DEF PoolReady, storeVars, toldVars

LEMMA ShowFinishJob ==
  ASSUME IndInv, StepOK, SafeInv, AllShowTrue, FinishJob PROVE AllShowTrue'
<1> DEFINE j       == Head(completed)
           n       == j.name
           awaited == j.op = "create" /\ j.mapped /\ files[n].vol = "nil"
<1>0. TypeOK /\ completed # <<>> /\ proc = "drain"
  BY DEF IndInv, FinishJob
<1>1. CASE Panic
  BY <1>1, ShowForget DEF Panic
<1>2. CASE /\ UNCHANGED <<toldVars, vols, proc, pending, working, ran>>
           /\ \/ files' = files
              \/ /\ awaited /\ files[n].res # Nil
                 /\ files' = [files EXCEPT ![n].vol = j.made,
                                           ![n].res.phase = IF j.made = "nil" THEN "Failed"
                                                            ELSE "Available"]
  <2>1. j \in Jobs /\ j \in Job
    <3>1. completed \in Seq(Job)
      BY <1>0 DEF TypeOK
    <3>2. 1 \in DOMAIN completed /\ j = completed[1]
      BY <1>0, <3>1
    <3> QED  BY <3>1, <3>2 DEF Jobs
  <2> SUFFICES ASSUME NEW m \in Names PROVE ShowsTrue(m)'
    BY DEF AllShowTrue
  <2>2. ShowsTrue(m) /\ UNCHANGED <<api, watch>> /\ Serving
    BY <1>0, <1>2 DEF AllShowTrue, storeVars, toldVars, Serving
  <2>3. Backed(m) => Backed(m)'
    <3>1. Fresh' = Fresh
      BY <1>2 DEF Fresh
    <3> QED  BY <1>2, <3>1, BackedFresh
  <2>4. ASSUME files'[m] # files[m]
        PROVE  files'[m] # Nil /\ ShownNext(files'[m].res, m)
    <3> HIDE DEF j
    <3>1. n \in Names /\ awaited /\ files[n] # Nil /\ files[n].res # Nil
      BY <1>2, <2>1, <2>4, JobFields, JobIsMapped
    <3>2. m = n
      BY <1>0, <1>2, <2>4, <3>1 DEF TypeOK
    <3>3. files[n] \in File /\ files[n].res \in OurObject /\ j.made \in Handles
      BY <1>0, <2>1, <3>1, JobFields DEF TypeOK, File
    <3> DEFINE p == IF j.made = "nil" THEN "Failed" ELSE "Available"
               r == [files[n].res EXCEPT !.phase = p]
    <3>4. files'[n] = [res |-> r, vol |-> j.made]
      BY <1>0, <1>2, <2>4, <3>1, <3>3 DEF TypeOK, File
    <3>5. r \in OurObject /\ r.phase = p
      <4>1. p \in Phases
        BY DEF Phases
      <4> QED  BY <3>3, <4>1 DEF OurObject, ObjectOf
    <3> HIDE DEF r
    <3>6. files'[n] # Nil /\ files'[n].res = r
      BY <3>3, <3>4, <3>5, FileType
    <3>7. j.made # "nil" => Backed(m)'
      <4>1. j.made # "nil" => Used(m)
        BY <2>1, <3>1, <3>2 DEF Used, Made
      <4> QED  BY <2>3, <4>1, UsedBacked
    <3> QED  BY <3>2, <3>5, <3>6, <3>7 DEF ShownNext
  <2> HIDE DEF j
  <2>5. Serving' /\ files'[m] = Nil => Serving /\ files[m] = Nil
    BY <2>2, <2>4
  <2>6. HasRes(files'[m]) => \/ HasRes(files[m]) /\ files'[m].res = files[m].res
                             \/ ShownNext(files'[m].res, m)
    BY <2>4
  <2>7. \A i \in About(watch', m) : \E k \in About(watch, m) : watch'[i] = watch[k]
    BY <2>2 DEF About
  <2> QED  BY <2>2, <2>3, <2>5, <2>6, <2>7, ShowStays
<1>3. FinishJob => \/ Panic
        \/ /\ UNCHANGED <<toldVars, vols, proc, pending, working, ran>>
           /\ \/ files' = files
              \/ /\ awaited /\ files[n].res # Nil
                 /\ files' = [files EXCEPT ![n].vol = j.made,
                                           ![n].res.phase = IF j.made = "nil" THEN "Failed"
                                                            ELSE "Available"]
  BY DEF FinishJob, storeVars, toldVars
<1> QED  BY <1>1, <1>2, <1>3

(* A copy that still says Available is of a volume that answers.           *)
LEMMA RefreshedPhase ==
  ASSUME TypeOK, NEW bad \in SUBSET Held, Gone \subseteq bad, NEW n \in Held \ NoRes,
         RefreshedObjects(bad)[n].phase = "Available"
  PROVE  /\ vols[n] # Nil /\ HasRes(files[n]) /\ files[n].res.phase = "Available"
         /\ RefreshedObjects(bad)[n].rev = files[n].res.rev
<1>1. HasRes(files[n]) /\ files[n].res \in OurObject
  BY DEF Held, Mapped, NoRes, TypeOK, File, HasRes
<1>2. RefreshedObjects(bad)[n] = IF n \in bad THEN [files[n].res EXCEPT !.phase = "Failed"]
                                 ELSE [files[n].res EXCEPT !.cap = vols[n]]
  BY DEF RefreshedObjects
<1>3. n \notin bad
  BY <1>1, <1>2 DEF OurObject, ObjectOf
<1>4. vols[n] # Nil
  BY <1>3 DEF Gone
<1> QED  BY <1>1, <1>2, <1>3, <1>4 DEF OurObject, ObjectOf

LEMMA ShowRefreshed ==
  ASSUME StepOK, AllShowTrue, NEW bad \in SUBSET Held, Gone \subseteq bad,
         Held \intersect NoRes = {}, PutAndNotify(RefreshedObjects(bad)), Serving,
         files' = [n \in Names |->
                     IF n \notin Held THEN files[n]
                     ELSE [res |-> Answer(RefreshedObjects(bad), n, Nil),
                           vol |-> IF n \in bad THEN "nil" ELSE files[n].vol]],
         UNCHANGED <<vols, queueVars>>
  PROVE  AllShowTrue'
<1> DEFINE objs == RefreshedObjects(bad)
<1>1. /\ DOMAIN objs = Held /\ IsObjects(objs) /\ PutAndNotify(objs) /\ TypeOK
      /\ \A n \in DOMAIN objs : Current(objs[n], n) /\ objs[n].spec # Elsewhere
  BY RefreshedType, RefreshedSpecs DEF StepOK
<1> SUFFICES ASSUME NEW n \in Names PROVE ShowsTrue(n)'
  BY DEF AllShowTrue
<1>2. ShowsTrue(n) /\ (Backed(n) => Backed(n)')
  BY BackedRests DEF AllShowTrue
<1>3. IsOurs(api[n]) /\ n \in Matched(objs) /\ objs[n].phase = "Available" => Backed(n)'
  <2>1. SUFFICES ASSUME IsOurs(api[n]), n \in Matched(objs), objs[n].phase = "Available"
                 PROVE  Backed(n)
    BY <1>2
  <2>2. n \in Held \ NoRes /\ objs[n].rev = api[n].rev
    BY <1>1, <2>1 DEF Matched
  <2>3. HasRes(files[n]) /\ files[n].res.phase = "Available" /\ files[n].res.rev = api[n].rev
    BY <1>1, <2>1, <2>2, RefreshedPhase
  <2> QED  BY <1>2, <2>1, <2>3 DEF ShowsTrue, Shown
<1>4. /\ n \notin Held => files'[n] = files[n]
      /\ n \in Held => files'[n].res = Answer(objs, n, Nil) /\ files[n] # Nil /\ files'[n] # Nil
  <2>1. n \in Held => /\ files'[n].res = Answer(objs, n, Nil) /\ files[n] # Nil
                      /\ files'[n] = [res |-> Answer(objs, n, Nil), vol |-> IF n \in bad THEN "nil" ELSE files[n].vol]
    BY DEF Held, Mapped
  <2>2. ASSUME n \in Held PROVE files'[n] # Nil
    <3>1. Answer(objs, n, Nil) \in OurObject \union {Nil}
      BY <1>1, <2>2, AnswerType
    <3>2. files[n] \in File /\ (IF n \in bad THEN "nil" ELSE files[n].vol) \in Handles
      BY <1>1, <2>1, <2>2 DEF TypeOK, File, Handles
    <3> HIDE DEF objs
    <3> QED  BY <2>1, <2>2, <3>1, <3>2, FileType
  <2> QED  BY <2>1, <2>2
<1>5. HasRes(files'[n]) => \/ HasRes(files[n]) /\ files'[n].res = files[n].res
                           \/ \E x \in {Nil, objs[n]} : n \in DOMAIN objs /\ files'[n].res = Answer(objs, n, x)
  <2>1. CASE n \in Held
    BY <1>1, <1>4, <2>1
  <2>2. CASE n \notin Held
    BY <1>4, <2>2
  <2> QED  BY <2>1, <2>2
<1>6. Serving' /\ files'[n] = Nil => Serving /\ files[n] = Nil /\ n \notin DOMAIN objs
  BY <1>1, <1>4
<1> HIDE DEF objs
<1> QED  BY <1>1, <1>2, <1>3, <1>5, <1>6, ShowPut

LEMMA ShowRefresh ==
  ASSUME StepOK, AllShowTrue, RefreshSizes PROVE AllShowTrue'
<1>0. Serving /\ TypeOK
  BY DEF RefreshSizes, Serving, StepOK
<1>1. CASE UNCHANGED <<toldVars, vols, files, queueVars>>
  BY <1>0, <1>1, ShowRests
<1>2. ASSUME NEW bad \in SUBSET Held, Gone \subseteq bad,
             PanicInLoop(RefreshedObjects(bad), Held \ NoRes, {})
      PROVE  AllShowTrue'
  <2> DEFINE objs == RefreshedObjects(bad)
  <2>1. ASSUME NEW n \in Held \ NoRes
        PROVE  /\ objs[n] \in Object /\ Current(objs[n], n)
               /\ objs[n].phase = "Available" => vols[n] # Nil
    BY <1>0, <1>2, RefreshedType, RefreshedSpecs, RefreshedPhase DEF StepOK, IsObjects
  <2>2. Held \ NoRes \subseteq Names
    BY DEF Held, Mapped
  <2>3. PanicInLoop(objs, Held \ NoRes, {})
    BY <1>2
  <2> HIDE DEF objs
  <2> QED  BY <2>1, <2>2, <2>3, ShowPanicInLoop
<1>3. \/ UNCHANGED <<toldVars, vols, files, queueVars>>
      \/ \E bad \in SUBSET Held : /\ Gone \subseteq bad
                                  /\ PanicInLoop(RefreshedObjects(bad), Held \ NoRes, {})
      \/ \E bad \in SUBSET Held :
           /\ Gone \subseteq bad /\ Held \intersect NoRes = {}
           /\ PutAndNotify(RefreshedObjects(bad))
           /\ files' = [n \in Names |->
                IF n \notin Held THEN files[n]
                ELSE [res |-> Answer(RefreshedObjects(bad), n, Nil),
                      vol |-> IF n \in bad THEN "nil" ELSE files[n].vol]]
           /\ UNCHANGED <<vols, queueVars>>
  BY DEF RefreshSizes, storeVars, toldVars
<1> QED  BY <1>0, <1>1, <1>2, <1>3, ShowRefreshed

(* The workers run no deletion of a volume that is shown.                  *)
LEMMA ShowWorker ==
  ASSUME IndInv, SafeInv, AllShowTrue, NEW w \in Workers, Take(w) \/ Process(w) \/ HandOver(w)
  PROVE  AllShowTrue'
<1>1. UNCHANGED <<toldVars, proc, files>>
  BY DEF Take, Process, HandOver, storeVars, toldVars
<1>2. ASSUME NEW n \in Names
      PROVE  Backed(n) => Backed(n)'
  <2>1. CASE Take(w)
    BY <2>1, FreshTake, BackedFresh DEF Take
  <2>2. CASE HandOver(w)
    BY <2>2, FreshHandOver, BackedFresh DEF HandOver
  <2>3. CASE Process(w)
    <3>1. PICK j \in Jobs : j = working[w]
      BY <2>3 DEF Process, IndInv, TypeOK, Jobs
    <3>2. /\ j \in Job /\ w \in Workers \ ran /\ ran' = ran \union {w} /\ UNCHANGED pending
          /\ vols \in [Names -> Sizes \union {Nil}] /\ working \in [Workers -> Job \union {Nil}]
      BY <2>3, JobsType DEF Process, IndInv, TypeOK
    <3>3. Fresh' \subseteq Fresh
      <4>1. \A v \in Workers \ ran' : v \in Workers \ ran /\ working'[v] = working[v]
        BY <2>3, <3>2 DEF Process
      <4> QED  BY <3>2, <4>1 DEF Fresh
    <3>4. ASSUME Backed(n)
          PROVE  vols'[n] # Nil
      <4>1. CASE UNCHANGED vols
        BY <3>4, <4>1 DEF Backed
      <4>2. CASE Possible(j) /\ vols' = [vols EXCEPT ![j.name] = IF j.op = "delete" THEN Nil ELSE j.size]
        <5>1. CASE j.op # "delete"
          <6>1. j.size \in Sizes /\ j.size # Nil
            BY <3>2, <5>1, JobFields, NilAssumption
          <6> QED  BY <3>2, <3>4, <4>2, <5>1, <6>1 DEF Backed
        <5>2. CASE j.op = "delete"
          <6>1. j = DeleteJob(j.name, "live")
            BY <3>1, <3>2, <4>2, <5>2, DeleteUnique DEF Possible, SafeInv, PlainInv
          <6>2. j.name # n
            BY <3>1, <3>2, <3>4, <6>1 DEF Backed, Spared, Running
          <6> QED  BY <3>2, <3>4, <4>2, <6>2 DEF Backed
        <5> QED  BY <5>1, <5>2
      <4> QED  BY <2>3, <3>1, <4>1, <4>2 DEF Process
    <3> QED  BY <3>3, <3>4, BackedFresh
  <2> QED  BY <2>1, <2>2, <2>3
<1> SUFFICES ASSUME NEW n \in Names PROVE ShowsTrue(n)'
  BY DEF AllShowTrue
<1>3. ShowsTrue(n) /\ UNCHANGED <<api, watch, files, proc>>
  BY <1>1 DEF AllShowTrue, storeVars, toldVars
<1>4. \A i \in About(watch', n) : \E k \in About(watch, n) : watch'[i] = watch[k]
  BY <1>3 DEF About
<1> QED  BY <1>2, <1>3, <1>4, ShowStays DEF Serving

(* The object a user creates.                                              *)
LEMMA NewObject ==
  ASSUME TypeOK, NEW n \in Names, UserCreate(n)
  PROVE  api'[n].rev = revs[n] + 1 /\ api'[n].phase # "Available"
<1> DEFINE o(s, p) == [rev |-> revs[n] + 1, spec |-> s, phase |-> p, cap |-> 0]
<1>1. PICK s \in Specs : api' = [api EXCEPT ![n] = o(s, "")]
  BY DEF UserCreate
<1>2. \A p : o(s, p).rev = revs[n] + 1 /\ o(s, p).phase = p
  OBVIOUS
<1>3. "" # "Available"
  OBVIOUS
<1> HIDE DEF o
<1>4. api'[n] = o(s, "")
  BY <1>1, Zenon DEF TypeOK
<1> QED  BY <1>2, <1>3, <1>4, Zenon

(* Users that wait until the daemon is idle find no event on the watch.    *)
LEMMA ShowUser ==
  ASSUME StepOK, AllShowTrue, NEW n \in Names, Idle,
         UserCreate(n) \/ UserModify(n) \/ UserDelete(n), budget'["move"] = budget["move"]
  PROVE  AllShowTrue'
<1>0. /\ api \in [Names -> Object \union {Nil}] /\ revs \in [Names -> Nat] /\ TypeOK
      /\ budget \in [Faults -> Nat] /\ SpecInv
  BY DEF StepOK, TypeOK
<1>1. UNCHANGED <<vols, proc, files, queueVars>> /\ watch = <<>> /\ proc = "run" /\ Serving
  BY DEF UserCreate, UserModify, UserDelete, Idle, Serving
<1>2. PICK e : e.name = n /\ watch' = <<e>> /\ (api'[n] # Nil => e.obj = api'[n] /\ ~Ends(e))
  <2>1. CASE UserCreate(n)
    <3>1. PICK o : api' = [api EXCEPT ![n] = o] /\ Notify(NewEvent("Added", n, o))
      BY <2>1 DEF UserCreate
    <3> QED  BY <1>0, <1>1, <3>1 DEF Notify, NewEvent, Ends
  <2>2. CASE UserModify(n)
    <3>1. PICK o : api' = [api EXCEPT ![n] = o] /\ Notify(NewEvent("Modified", n, o))
      BY <2>2 DEF UserModify
    <3> QED  BY <1>0, <1>1, <3>1 DEF Notify, NewEvent, Ends
  <2>3. CASE UserDelete(n)
    <3>1. api' = [api EXCEPT ![n] = Nil] /\ Notify(NewEvent("Deleted", n, api[n]))
      BY <2>3 DEF UserDelete
    <3> QED  BY <1>0, <1>1, <3>1 DEF Notify, NewEvent
  <2> QED  BY <2>1, <2>2, <2>3
<1> SUFFICES ASSUME NEW m \in Names, IsOurs(api'[m]) PROVE ShowsTrue(m)'
  BY DEF AllShowTrue, ShowsTrue
<1>3. ShowsTrue(m) /\ (Backed(m) => Backed(m)')
  BY <1>1, BackedRests DEF AllShowTrue
<1>4. \A i \in About(watch', m) : m = n /\ watch'[i] = e
  BY <1>2 DEF About
<1>5. CASE m # n
  <2>1. api'[m] = api[m]
    BY <1>0, <1>5 DEF UserCreate, UserModify, UserDelete
  <2> QED  BY <1>1, <1>3, <1>4, <1>5, <2>1, ShowStays
<1>6. CASE m = n
  <2>1. \A i \in About(watch', n) : TellsNext(watch'[i].obj, n) /\ ~Ends(watch'[i])
    BY <1>2, <1>4, <1>6 DEF TellsNext, IsOurs
  <2>2. HasRes(files'[n]) => ShownNext(files'[n].res, n)
    <3>1. SUFFICES ASSUME HasRes(files[n]) PROVE files[n].res.rev # api'[n].rev
      BY <1>1 DEF ShownNext
    <3>2. files[n].res.rev \in Nat /\ files[n].res.rev <= revs[n] /\ revs[n] \in Nat
      BY <1>0, <3>1, CopyNow DEF Numbered, SpecInv, Current, HasRes
    <3>3. api'[n].rev = revs[n] + 1
      <4>1. CASE UserCreate(n)
        BY <1>0, <4>1, NewObject
      <4>2. CASE UserModify(n)
        BY <1>0, <4>2 DEF UserModify, Object, ObjectOf
      <4>3. CASE UserDelete(n)
        BY <1>0, <1>6, <4>3 DEF UserDelete, IsOurs
      <4> QED  BY <4>1, <4>2, <4>3
    <3> QED  BY <3>2, <3>3
  <2>3. api'[n].phase = "Available" => IsOurs(api[n]) /\ api[n].phase = "Available"
    <3>1. CASE UserCreate(n)
      BY <1>0, <3>1, NewObject
    <3>2. CASE UserModify(n)
      <4>1. PICK s \in Specs \ {api[n].spec} :
              /\ api' = [api EXCEPT ![n] = [api[n] EXCEPT !.rev = revs[n] + 1, !.spec = s]]
              /\ budget' = [budget EXCEPT !["user"] = @ - 1,
                               !["move"] = IF Elsewhere \in {s, api[n].spec} THEN @ - 1 ELSE @]
        BY <3>2 DEF UserModify
      <4>2. api[n].spec # Elsewhere
        <5>1. budget'["move"] = IF Elsewhere \in {s, api[n].spec} THEN budget["move"] - 1
                                ELSE budget["move"]
          BY <1>0, <4>1 DEF Faults
        <5>2. budget["move"] \in Nat
          BY <1>0 DEF Faults
        <5> QED  BY <5>1, <5>2
      <4>3. api[n] \in Object /\ api[n] # Nil
        BY <1>0, <3>2 DEF UserModify
      <4>4. api'[n].phase = api[n].phase
        BY <1>0, <4>1, <4>3 DEF Object, ObjectOf
      <4> QED  BY <4>2, <4>3, <4>4 DEF IsOurs
    <3>3. CASE UserDelete(n)
      BY <1>0, <1>6, <3>3 DEF UserDelete, IsOurs
    <3> QED  BY <3>1, <3>2, <3>3
  <2>4. ShownNext(api'[n], n)
    BY <1>3, <1>6, <2>3 DEF ShownNext, ShowsTrue, Shown
  <2>5. Serving' /\ files'[n] = Nil => api'[n].phase # "Available"
    BY <1>1, <1>3, <1>6, <2>3 DEF ShowsTrue
  <2> QED  BY <1>6, <2>1, <2>2, <2>4, <2>5 DEF ShowsTrue, Shown, ShownNext, Tells, TellsNext
<1> QED  BY <1>5, <1>6

LEMMA ShowStep ==
  ASSUME IndInv, SpecInv, SafeInv, ShowInv, [Next]_vars
  PROVE  ShowInv'
<1>1. TypeOK /\ TypeOK' /\ StepOK /\ SafeInv'
  BY StepInv, SafeStep DEF IndInv, StepOK
<1>2. budget["move"] \in Nat /\ budget'["move"] \in Nat /\ Moves \in Nat
  BY <1>1, ConstantsAssumption DEF TypeOK, Faults
<1>3. budget'["move"] <= budget["move"]
  BY <1>1, BudgetFalls
<1>4. budget'["move"] <= Moves /\ (Patient' => Patient /\ budget'["move"] = budget["move"])
  BY <1>2, <1>3 DEF ShowInv, Patient
<1> SUFFICES ASSUME Patient' PROVE AllShowTrue'
  BY <1>4 DEF ShowInv
<1>5. AllShowTrue /\ Manners = "idle" /\ budget'["move"] = budget["move"]
  BY <1>4 DEF ShowInv, Patient
<1>6. CASE UNCHANGED vars
  BY <1>5, <1>6, ShowRests DEF vars, Serving, storeVars, toldVars
<1>7. CASE Kill
  BY <1>5, <1>7, ShowForget DEF Kill
<1>8. CASE Boot \/ WatchEOF
  BY <1>5, <1>8, ShowOpenWatch DEF Boot, WatchEOF, Serving
<1>9. CASE LoadFileResources \/ WatchEvent
  BY <1>1, <1>5, <1>9, ShowLoadFiles, ShowWatchEvent
<1>10. CASE Connect \/ PoolLoadFails \/ Tick
  BY <1>5, <1>10, ShowRests DEF Connect, PoolLoadFails, Tick, Serving, storeVars, toldVars
<1>11. CASE ConnLost \/ ConnectFailed \/ PoolReady
  BY <1>1, <1>5, <1>11, ShowConnLost, ShowConnectFailed, ShowPoolReady
<1>12. CASE FinishJob \/ RefreshSizes
  BY <1>1, <1>5, <1>12, ShowFinishJob, ShowRefresh
<1>13. CASE \E w \in Workers : Take(w) \/ Process(w) \/ HandOver(w)
  BY <1>5, <1>13, ShowWorker
<1>14. CASE \E n \in Names : UserCreate(n) \/ UserModify(n) \/ UserDelete(n)
  <2>1. PICK n \in Names : UserCreate(n) \/ UserModify(n) \/ UserDelete(n)
    BY <1>14
  <2>2. Idle
    BY <1>5, <2>1 DEF UserCreate, UserModify, UserDelete, MayAct
  <2> QED  BY <1>1, <1>5, <2>1, <2>2, ShowUser
<1>15. CASE \E n \in Names : Outage(n) \/ OutageEnds(n)
  BY <1>5, <1>15, ShowRests DEF Outage, OutageEnds, Serving, toldVars, queueVars
<1> QED
  BY <1>6, <1>7, <1>8, <1>9, <1>10, <1>11, <1>12, <1>13, <1>14, <1>15 DEF Next, MainLoop

LEMMA ShowAlways == Spec => [](IndInv /\ SpecInv /\ SafeInv /\ ShowInv)
<1>1. Init => ShowInv
  <2>1. SUFFICES ASSUME Init PROVE ShowInv
    OBVIOUS
  <2>2. budget["move"] = Moves
    BY <2>1 DEF Init, Faults
  <2>3. \A n \in Names : api[n] = Nil
    BY <2>1 DEF Init
  <2> QED  BY <2>2, <2>3, ConstantsAssumption DEF ShowInv, AllShowTrue, ShowsTrue, IsOurs
<1>2. Init => SpecInv
  BY DEF Init, SpecInv
<1>3. IndInv /\ SpecInv /\ SafeInv /\ ShowInv /\ [Next]_vars => SpecInv' /\ ShowInv'
  BY SpecStepInv, ShowStep DEF SpecStep
<1> QED  BY <1>1, <1>2, <1>3, Safe, PTL DEF Spec

(* Where users wait for an idle daemon before they act, and no file has    *)
(* changed repositories, an idle daemon shows no volume that is not there: *)
(* not after a creation that failed late or over a connection that is      *)
(* gone, a PUT that was refused, a deletion that was still queued, nor a   *)
(* crash in the middle of an update (createFileVolume, loadVolumes,        *)
(* refreshSizes, jobVolumeCreate.Finish).                                  *)
THEOREM ShownVolumesExist ==
  Spec => [](Manners = "idle" /\ budget["move"] = Moves => AvailableExists)
<1>1. ShowInv => (Manners = "idle" /\ budget["move"] = Moves => AvailableExists)
  BY DEF ShowInv, Patient, AllShowTrue, ShowsTrue, Shown, Backed, AvailableExists, IsOurs, Ours
<1> QED  BY <1>1, ShowAlways, PTL

-----------------------------------------------------------------------------
(* The volumes correspond with the objects: the inductive invariant.  The  *)
(* deletions and creations that run over a connection that works,          *)
Creates(j, n) == j.op = "create" /\ j.name = n /\ j.handle = "live"
Deletes(j, n) == j.op = "delete" /\ j.name = n /\ j.handle = "live"

(* the creations whose file waits for them *)
Awaits(j, n) == j.op = "create" /\ j.name = n /\ j.mapped

Creating(n) == \/ vols[n] = Nil /\ \E j \in Fresh : Creates(j, n) /\ Awaits(j, n)
               \/ \E j \in Jobs : Awaits(j, n) /\ j.made = "live"

(* and what the watch has still to tell.                                   *)
AddIn(n) == \E i \in About(watch, n) : Begins(watch[i])
DelIn(n) == \E i \in About(watch, n) : Ends(watch[i])

(* A file that is told of anew has no volume; one whose end is told has    *)
(* its volume, and the daemon holds it.                                    *)
Heard(n) ==
  /\ DelIn(n) => Serving /\ ~AddIn(n)
  /\ Serving /\ AddIn(n) /\ files[n] = Nil => vols[n] = Nil
  /\ DelIn(n) /\ files[n] # Nil => vols[n] # Nil /\ (pool = "live" => files[n].vol = "live")

(* No volume is made for a file that goes or has gone, or deleted for one  *)
(* that is there.                                                          *)
Asked(n) == \A j \in Fresh :
  /\ Creates(j, n) => j.mapped /\ ~DelIn(n)
  /\ Deletes(j, n) => files[n] = Nil

(* Once the volumes are loaded, a job is there for each volume too many or *)
(* too few, and no creation of an earlier connection is taken for one of   *)
(* this.                                                                   *)
Cared(n) == pool = "live" =>
  /\ files[n] = Nil /\ vols[n] # Nil => \E j \in Fresh : Deletes(j, n)
  /\ files[n] # Nil => files[n].vol = "live" \/ (files[n].vol = "nil" /\ Creating(n))
  /\ \A j \in Jobs : Awaits(j, n) /\ j.made = "dead" => files[n] # Nil /\ files[n].vol = "live"

Match(n) == Heard(n) /\ Asked(n) /\ Cared(n)
AllMatch == \A n \in Names : Match(n)

(* A daemon that has not loaded its files has no connection.               *)
NoLinkYet == proc \in {"down", "booted"} => link = "down"

(* Users wait, no watch has ended, no file has changed repositories and no *)
(* libvirt call has failed on a working connection.                        *)
Calm == Manners = "idle" /\ Quiet /\ NoErrors

MatchInv ==
  /\ budget["error"] <= OpErrors
  /\ NoLinkYet
  /\ Calm /\ proc # "down" => AllMatch

-----------------------------------------------------------------------------
(* The jobs still to run, after a step that queues several.                *)

LEMMA ConcatSet ==
  ASSUME NEW A, NEW p \in Seq(A), NEW q \in Seq(A)
  PROVE  ToSet(p \o q) = ToSet(p) \union ToSet(q)
<1>1. /\ DOMAIN (p \o q) = 1 .. (Len(p) + Len(q)) /\ Len(p) \in Nat /\ Len(q) \in Nat
      /\ DOMAIN p = 1 .. Len(p) /\ DOMAIN q = 1 .. Len(q)
      /\ \A i \in 1 .. (Len(p) + Len(q)) : (p \o q)[i] = IF i <= Len(p) THEN p[i] ELSE q[i - Len(p)]
  OBVIOUS
<1>2. ASSUME NEW i \in DOMAIN (p \o q)
      PROVE  (\E k \in DOMAIN p : (p \o q)[i] = p[k]) \/ (\E k \in DOMAIN q : (p \o q)[i] = q[k])
  <2>1. CASE i <= Len(p)
    BY <1>1, <2>1
  <2>2. CASE ~(i <= Len(p))
    <3>1. i - Len(p) \in DOMAIN q /\ (p \o q)[i] = q[i - Len(p)]
      BY <1>1, <2>2
    <3> QED  BY <3>1
  <2> QED  BY <2>1, <2>2
<1>3. ASSUME NEW k \in DOMAIN p
      PROVE  k \in DOMAIN (p \o q) /\ (p \o q)[k] = p[k]
  BY <1>1
<1>4. ASSUME NEW k \in DOMAIN q
      PROVE  k + Len(p) \in DOMAIN (p \o q) /\ (p \o q)[k + Len(p)] = q[k]
  <2>1. k + Len(p) \in 1 .. (Len(p) + Len(q)) /\ ~(k + Len(p) <= Len(p)) /\ (k + Len(p)) - Len(p) = k
    BY <1>1
  <2> QED  BY <1>1, <2>1
<1> DEFINE r == p \o q
<1> HIDE DEF r
<1>5. /\ \A i \in DOMAIN r : (\E k \in DOMAIN p : r[i] = p[k]) \/ (\E k \in DOMAIN q : r[i] = q[k])
      /\ \A k \in DOMAIN p : \E i \in DOMAIN r : r[i] = p[k]
      /\ \A k \in DOMAIN q : \E i \in DOMAIN r : r[i] = q[k]
  BY <1>2, <1>3, <1>4 DEF r
<1>6. ToSet(r) = ToSet(p) \union ToSet(q)
  BY <1>5 DEF ToSet
<1> QED  BY <1>6 DEF r

(* What the workers hold is left out of these sets: *)
Held0 == {working[w] : w \in Workers \ ran} \ {Nil}
Rest0 == ToSet(completed) \union ({working[w] : w \in Workers} \ {Nil})

LEMMA FreshParts == Fresh = ToSet(pending) \union Held0 /\ Jobs = ToSet(pending) \union Rest0
BY DEF Fresh, Jobs, Held0, Rest0, ToSet

LEMMA FreshLoad ==
  ASSUME IndInv, LoadVolumes, NoRes = {}
  PROVE  /\ \A j \in Fresh' : \/ j \in Fresh
                              \/ \E n \in Mapped \ Found : \E s : j = CreateJob(n, "live", s)
                              \/ \E n \in Extra : j = DeleteJob(n, "live")
         /\ \A n \in Mapped \ Found : \E s : CreateJob(n, "live", s) \in Fresh'
         /\ \A n \in Extra : DeleteJob(n, "live") \in Fresh'
         /\ Fresh \subseteq Fresh' /\ Jobs \subseteq Jobs'
         /\ \A j \in Jobs' : j \in Jobs \/ j.made = "nil"
<1>1. PICK creates \in SetToSeqs(Mapped \ Found), deletes \in SetToSeqs(Extra) :
        pending' = pending
                   \o [i \in DOMAIN creates |->
                         CreateJob(creates[i], "live", files[creates[i]].res.spec)]
                   \o [i \in DOMAIN deletes |-> DeleteJob(deletes[i], "live")]
  BY DEF LoadVolumes
<1>2. /\ creates \in Seq(Mapped \ Found) /\ deletes \in Seq(Extra)
      /\ \A x \in Mapped \ Found : \E i \in DOMAIN creates : creates[i] = x
      /\ \A x \in Extra : \E i \in DOMAIN deletes : deletes[i] = x
  <2>1. IsFiniteSet(Mapped \ Found) /\ IsFiniteSet(Extra)
    BY ConstantsAssumption, FS_Subset DEF Mapped, Found, Extra
  <2> QED  BY <2>1, OrderSeq, OrderAll
<1> DEFINE cjobs == [i \in DOMAIN creates |->
                       CreateJob(creates[i], "live", files[creates[i]].res.spec)]
           djobs == [i \in DOMAIN deletes |-> DeleteJob(deletes[i], "live")]
<1>3. cjobs \in Seq(Job)
  <2>1. ASSUME NEW i \in DOMAIN creates PROVE cjobs[i] \in Job
    <3>1. /\ creates[i] \in Names /\ files[creates[i]] \in File
          /\ files[creates[i]].res # Nil
      BY <1>2 DEF IndInv, TypeOK, Mapped, NoRes
    <3>2. files[creates[i]].res.spec \in Sizes
      BY <3>1, ObjectType DEF File
    <3> QED  BY <3>1, <3>2, JobTypes
  <2> QED  BY <1>2, <2>1, MapSeq
<1>4. djobs \in Seq(Job)
  <2>1. ASSUME NEW i \in DOMAIN deletes PROVE djobs[i] \in Job
    BY <1>2, DeleteJobType DEF Extra
  <2> QED  BY <1>2, <2>1, MapSeq
<1>5. /\ \A i \in DOMAIN cjobs : \E n \in Mapped \ Found : \E s : cjobs[i] = CreateJob(n, "live", s)
      /\ \A n \in Mapped \ Found : \E i \in DOMAIN cjobs : \E s : cjobs[i] = CreateJob(n, "live", s)
      /\ \A i \in DOMAIN djobs : \E n \in Extra : djobs[i] = DeleteJob(n, "live")
      /\ \A n \in Extra : \E i \in DOMAIN djobs : djobs[i] = DeleteJob(n, "live")
  <2>1. /\ DOMAIN cjobs = DOMAIN creates /\ DOMAIN djobs = DOMAIN deletes
        /\ \A i \in DOMAIN cjobs : cjobs[i] = CreateJob(creates[i], "live", files[creates[i]].res.spec)
        /\ \A i \in DOMAIN djobs : djobs[i] = DeleteJob(deletes[i], "live")
    OBVIOUS
  <2>2. /\ \A i \in DOMAIN creates : creates[i] \in Mapped \ Found
        /\ \A i \in DOMAIN deletes : deletes[i] \in Extra
    BY <1>2
  <2> HIDE DEF cjobs, djobs
  <2>3. \A i \in DOMAIN cjobs : \E n \in Mapped \ Found : \E s : cjobs[i] = CreateJob(n, "live", s)
    BY <2>1, <2>2, ZenonT(30)
  <2>4. \A n \in Mapped \ Found : \E i \in DOMAIN cjobs : \E s : cjobs[i] = CreateJob(n, "live", s)
    <3>1. SUFFICES ASSUME NEW n \in Mapped \ Found
                   PROVE  \E i \in DOMAIN cjobs : \E s : cjobs[i] = CreateJob(n, "live", s)
      OBVIOUS
    <3>2. PICK i \in DOMAIN creates : creates[i] = n
      BY <1>2
    <3>3. cjobs[i] = CreateJob(n, "live", files[n].res.spec) /\ i \in DOMAIN cjobs
      BY <2>1, <3>2
    <3> QED  BY <3>3, ZenonT(30)
  <2>5. \A i \in DOMAIN djobs : \E n \in Extra : djobs[i] = DeleteJob(n, "live")
    BY <2>1, <2>2, ZenonT(30)
  <2>6. \A n \in Extra : \E i \in DOMAIN djobs : djobs[i] = DeleteJob(n, "live")
    BY <1>2, <2>1, ZenonT(30)
  <2> QED  BY <2>3, <2>4, <2>5, <2>6
<1>6. pending' = pending \o cjobs \o djobs /\ pending \in Seq(Job)
  BY <1>1 DEF IndInv, TypeOK
<1> HIDE DEF cjobs, djobs
<1>7. ToSet(pending') = ToSet(pending) \union ToSet(cjobs) \union ToSet(djobs)
  <2>1. pending \o cjobs \in Seq(Job)
    BY <1>3, <1>6
  <2>2. ToSet(pending') = ToSet(pending \o cjobs) \union ToSet(djobs)
    BY <1>4, <1>6, <2>1, ConcatSet
  <2>3. ToSet(pending \o cjobs) = ToSet(pending) \union ToSet(cjobs)
    BY <1>3, <1>6, ConcatSet
  <2> QED  BY <2>2, <2>3
<1>8. /\ \A j \in ToSet(cjobs) : \E n \in Mapped \ Found : \E s : j = CreateJob(n, "live", s)
      /\ \A n \in Mapped \ Found : \E s : CreateJob(n, "live", s) \in ToSet(cjobs)
      /\ \A j \in ToSet(djobs) : \E n \in Extra : j = DeleteJob(n, "live")
      /\ \A n \in Extra : DeleteJob(n, "live") \in ToSet(djobs)
  BY <1>5 DEF ToSet
<1>9. Held0' = Held0 /\ Rest0' = Rest0
  BY DEF LoadVolumes, Held0, Rest0
<1>10. Fresh' = ToSet(pending') \union Held0 /\ Jobs' = ToSet(pending') \union Rest0
  BY <1>9 DEF Fresh, Jobs, Held0, Rest0, ToSet
<1>11. \A j \in ToSet(cjobs) \union ToSet(djobs) : j.made = "nil"
  <2>1. \A n, s : CreateJob(n, "live", s).made = "nil" /\ DeleteJob(n, "live").made = "nil"
    BY DEF CreateJob, DeleteJob
  <2> QED  BY <1>8, <2>1
<1> DEFINE P == ToSet(pending)  C == ToSet(cjobs)  D == ToSet(djobs)
<1> HIDE DEF P, C, D
<1>12. /\ Fresh = P \union Held0 /\ Jobs = P \union Rest0
       /\ Fresh' = P \union C \union D \union Held0 /\ Jobs' = P \union C \union D \union Rest0
  BY <1>7, <1>10, FreshParts DEF P, C, D
<1>13. /\ \A j \in C : \E n \in Mapped \ Found : \E s : j = CreateJob(n, "live", s)
       /\ \A n \in Mapped \ Found : \E s : CreateJob(n, "live", s) \in C
       /\ \A j \in D : \E n \in Extra : j = DeleteJob(n, "live")
       /\ \A n \in Extra : DeleteJob(n, "live") \in D
       /\ \A j \in C \union D : j.made = "nil"
  BY <1>8, <1>11 DEF C, D
<1> QED  BY <1>12, <1>13

(* A deletion of the file n queues one job and unmaps those of n.          *)
LEMMA FreshDelete ==
  ASSUME IndInv, NEW n \in Names, files[n] # Nil,
         pending' = [i \in DOMAIN pending |-> Unmap(pending[i], n)] \o DeleteOf(n),
         working' = [w \in Workers |-> IF working[w] = Nil THEN Nil ELSE Unmap(working[w], n)],
         completed' = [i \in DOMAIN completed |-> Unmap(completed[i], n)], UNCHANGED ran
  PROVE  /\ \A j \in Fresh' : \/ \E k \in Fresh : j = Unmap(k, n)
                              \/ files[n].vol # "nil" /\ j = DeleteJob(n, files[n].vol)
         /\ \A k \in Fresh : Unmap(k, n) \in Fresh'
         /\ files[n].vol # "nil" => DeleteJob(n, files[n].vol) \in Fresh'
         /\ \A j \in Jobs' : \/ \E k \in Jobs : j = Unmap(k, n)
                             \/ files[n].vol # "nil" /\ j = DeleteJob(n, files[n].vol)
         /\ \A k \in Jobs : Unmap(k, n) \in Jobs'
<1> DEFINE kept == [i \in DOMAIN pending |-> Unmap(pending[i], n)]
<1>1. /\ pending \in Seq(Job) /\ completed \in Seq(Job) /\ working \in [Workers -> Job \union {Nil}]
      /\ files[n] \in File
  BY DEF IndInv, TypeOK
<1>2. \A i \in DOMAIN pending : pending[i] \in Job
  BY <1>1
<1>3. kept \in Seq(Job)
  <2>1. \A i \in DOMAIN pending : kept[i] \in Job
    BY <1>2, UnmapType
  <2>2. DOMAIN kept = DOMAIN pending
    OBVIOUS
  <2> QED  BY <1>1, <2>1, MapSeq
<1>4. files[n].vol # "nil" => DeleteJob(n, files[n].vol) \in Job
  <2>1. files[n].vol # "nil" => files[n].vol \in {"live", "dead"}
    BY <1>1 DEF File, Handles
  <2> QED  BY <2>1, DeleteJobType
<1>5. DeleteOf(n) \in Seq(Job) /\ ToSet(DeleteOf(n)) = IF files[n].vol = "nil" THEN {} ELSE {DeleteJob(n, files[n].vol)}
  <2>1. CASE files[n].vol = "nil"
    BY <2>1 DEF DeleteOf, ToSet
  <2>2. CASE files[n].vol # "nil"
    <3> DEFINE x == DeleteJob(n, files[n].vol)
    <3>1. x \in Job /\ DeleteOf(n) = <<x>>
      BY <1>4, <2>2 DEF DeleteOf
    <3> HIDE DEF x
    <3>2. <<x>> \in Seq(Job) /\ ToSet(<<x>>) = {x}
      BY <3>1 DEF ToSet
    <3> QED  BY <2>2, <3>1, <3>2 DEF x
  <2> QED  BY <2>1, <2>2
<1>6. ToSet(kept) = {Unmap(k, n) : k \in ToSet(pending)}
  BY DEF ToSet
<1>7. ToSet(pending') = {Unmap(k, n) : k \in ToSet(pending)} \union ToSet(DeleteOf(n))
  <2>1. pending' = kept \o DeleteOf(n)
    OBVIOUS
  <2> HIDE DEF kept
  <2>2. ToSet(pending') = ToSet(kept) \union ToSet(DeleteOf(n))
    <3> DEFINE d == DeleteOf(n)
    <3>1. kept \in Seq(Job) /\ d \in Seq(Job)
      BY <1>3, <1>5
    <3> HIDE DEF d
    <3>2. ToSet(kept \o d) = ToSet(kept) \union ToSet(d)
      BY <3>1, ConcatSet
    <3> QED  BY <2>1, <3>2 DEF d
  <2> QED  BY <1>6, <2>2
<1>8. \A j \in Job : Unmap(j, n) # Nil
  BY UnmapType
<1>9. Held0' = {Unmap(k, n) : k \in Held0}
  <2>1. \A w \in Workers : /\ working[w] = Nil => working'[w] = Nil
                           /\ working[w] # Nil => working'[w] = Unmap(working[w], n) /\ working'[w] # Nil
    BY <1>1, <1>8
  <2>2. \A j \in Held0' : \E k \in Held0 : j = Unmap(k, n)
    BY <2>1 DEF Held0
  <2>3. \A k \in Held0 : Unmap(k, n) \in Held0'
    <3>1. SUFFICES ASSUME NEW w \in Workers \ ran, working[w] # Nil PROVE Unmap(working[w], n) \in Held0'
      BY DEF Held0
    <3> QED  BY <2>1, <3>1 DEF Held0
  <2> QED  BY <2>2, <2>3
<1>10. Rest0' = {Unmap(k, n) : k \in Rest0}
  <2>1. \A w \in Workers : /\ working[w] = Nil => working'[w] = Nil
                           /\ working[w] # Nil => working'[w] = Unmap(working[w], n) /\ working'[w] # Nil
    BY <1>1, <1>8
  <2>2. ToSet(completed') = {Unmap(k, n) : k \in ToSet(completed)}
    BY DEF ToSet
  <2>3. {working'[w] : w \in Workers} \ {Nil} = {Unmap(k, n) : k \in {working[w] : w \in Workers} \ {Nil}}
    BY <2>1
  <2> QED  BY <2>2, <2>3 DEF Rest0
<1> DEFINE P == ToSet(pending)  H == Held0  R == Rest0  D == ToSet(DeleteOf(n))
           P2 == ToSet(pending') H2 == Held0'  R2 == Rest0'
<1>11. /\ Fresh = P \union H /\ Jobs = P \union R
       /\ P2 = {Unmap(k, n) : k \in P} \union D /\ H2 = {Unmap(k, n) : k \in H}
       /\ R2 = {Unmap(k, n) : k \in R}
  BY <1>7, <1>9, <1>10, FreshParts
<1>12. Fresh' = P2 \union H2 /\ Jobs' = P2 \union R2
  BY DEF Fresh, Jobs, Held0, Rest0, ToSet
<1>13. D = IF files[n].vol = "nil" THEN {} ELSE {DeleteJob(n, files[n].vol)}
  BY <1>5
<1> HIDE DEF P, H, R, D, P2, H2, R2
<1> QED  BY <1>11, <1>12, <1>13

-----------------------------------------------------------------------------
(* What a step may do to the match of one file.                            *)

(* The watch tells of no more beginnings and ends.                         *)
Quieter(n) == (AddIn(n)' => AddIn(n)) /\ (DelIn(n)' => DelIn(n))

LEMMA QuieterRests ==
  ASSUME NEW n, \A i \in About(watch', n) : \E k \in About(watch, n) : watch'[i] = watch[k]
  PROVE  Quieter(n)
BY DEF Quieter, AddIn, DelIn

LEMMA QuieterSame ==
  ASSUME UNCHANGED watch, NEW n
  PROVE  Quieter(n)
BY DEF Quieter, AddIn, DelIn

LEMMA QuieterPut ==
  ASSUME TypeOK, NEW objs, IsObjects(objs), PutAndNotify(objs), NEW n \in Names
  PROVE  Quieter(n)
<1>1. CASE n \notin Written(objs)
  <2>1. Same(n, watch, watch')
    BY <1>1, NotifiesOf
  <2> QED  BY <2>1, QuieterRests DEF Same
<1>2. CASE n \in Written(objs)
  <2>1. PICK k : More(n, watch, watch', k) /\ watch'[k] = NewEvent("Modified", n, api'[n])
    BY <1>2, NotifiesOf
  <2>2. ~Begins(watch'[k]) /\ ~Ends(watch'[k])
    BY <2>1 DEF NewEvent, Begins, Ends
  <2> QED  BY <2>1, <2>2 DEF More, Quieter, AddIn, DelIn
<1> QED  BY <1>1, <1>2

(* The entry of n stays, but for a handle that it gets.                    *)
KeepsFile(n) ==
  /\ files'[n] = Nil <=> files[n] = Nil
  /\ files[n] # Nil /\ pool' = "live" =>
       files'[n].vol = files[n].vol \/ (files[n].vol = "nil" /\ files'[n].vol = "live")

(* No job of n comes, and none goes that somebody counts on.               *)
KeepsJobs(n) ==
  /\ \A j \in Fresh' : Creates(j, n) \/ Deletes(j, n) => j \in Fresh
  /\ pool' = "live" =>
       /\ \A j \in Fresh : (Creates(j, n) /\ vols[n] = Nil) \/ (Deletes(j, n) /\ vols[n] # Nil) => j \in Fresh'
       /\ \A j \in Jobs' : Awaits(j, n) /\ j.made # "nil" => j \in Jobs
       /\ \A j \in Jobs : Awaits(j, n) /\ j.made = "live" => j \in Jobs' \/ files'[n].vol = "live"

LEMMA MatchStays ==
  ASSUME NEW n \in Names, Match(n), Quieter(n), Serving' <=> Serving,
         vols'[n] = Nil <=> vols[n] = Nil, pool' = "live" => pool = "live",
         KeepsFile(n), KeepsJobs(n)
  PROVE  Match(n)'
<1>1. Heard(n)'
  BY DEF Match, Heard, Quieter, KeepsFile, Cared
<1>2. Asked(n)'
  <2>1. Asked(n) /\ Heard(n)
    BY DEF Match
  <2>2. ASSUME NEW j \in Fresh', Creates(j, n) \/ Deletes(j, n)
        PROVE  /\ Creates(j, n) => j.mapped /\ ~DelIn(n)'
               /\ Deletes(j, n) => files'[n] = Nil
    <3>1. j \in Fresh
      BY <2>2 DEF KeepsJobs
    <3> QED  BY <2>1, <3>1 DEF Asked, Quieter, KeepsFile
  <2> QED  BY <2>2 DEF Asked, Creates, Deletes
<1>3. Cared(n)'
  <2>1. SUFFICES ASSUME pool' = "live" PROVE Cared(n)'
    BY DEF Cared
  <2>2. Cared(n) /\ pool = "live"
    BY <2>1 DEF Match
  <2>3. files'[n] = Nil /\ vols'[n] # Nil => \E j \in Fresh' : Deletes(j, n)
    BY <2>1, <2>2 DEF Cared, KeepsFile, KeepsJobs
  <2>4. files'[n] # Nil /\ files'[n].vol # "live" => files'[n].vol = "nil" /\ Creating(n)'
    <3>1. SUFFICES ASSUME files'[n] # Nil, files'[n].vol # "live"
                   PROVE  files'[n].vol = "nil" /\ Creating(n)'
      OBVIOUS
    <3>2. files[n] # Nil /\ files[n].vol = "nil" /\ files'[n].vol = "nil" /\ Creating(n)
      BY <2>1, <2>2, <3>1 DEF Cared, KeepsFile
    <3> QED  BY <2>1, <3>1, <3>2 DEF Creating, KeepsJobs, Creates, Awaits
  <2>5. \A j \in Jobs' : Awaits(j, n) /\ j.made = "dead" => files'[n] # Nil /\ files'[n].vol = "live"
    <3>1. SUFFICES ASSUME NEW j \in Jobs', Awaits(j, n), j.made = "dead"
                   PROVE  files'[n] # Nil /\ files'[n].vol = "live"
      OBVIOUS
    <3>2. j \in Jobs
      BY <2>1, <3>1 DEF KeepsJobs
    <3> QED  BY <2>1, <2>2, <3>1, <3>2 DEF Cared, KeepsFile
  <2> QED  BY <2>3, <2>4, <2>5 DEF Cared, Creates, Deletes, Awaits
<1> QED  BY <1>1, <1>2, <1>3 DEF Match

LEMMA KeepsSameJobs ==
  ASSUME Fresh' = Fresh, Jobs' = Jobs, NEW n
  PROVE  KeepsJobs(n)
BY DEF KeepsJobs

LEMMA JobsRest ==
  ASSUME UNCHANGED queueVars
  PROVE  Fresh' = Fresh /\ Jobs' = Jobs
BY DEF queueVars, Fresh, Jobs

LEMMA MatchRests ==
  ASSUME AllMatch, UNCHANGED <<vols, files, queueVars>>, Serving' <=> Serving,
         pool' = "live" => pool = "live", \A n \in Names : Quieter(n)
  PROVE  AllMatch'
<1> SUFFICES ASSUME NEW n \in Names PROVE Match(n)'
  BY DEF AllMatch
<1>1. Match(n) /\ KeepsFile(n)
  BY DEF AllMatch, KeepsFile
<1>2. KeepsJobs(n)
  BY JobsRest, KeepsSameJobs
<1> QED  BY <1>1, <1>2, MatchStays

-----------------------------------------------------------------------------
(* The steps.                                                              *)

LEMMA MatchBoot ==
  ASSUME IndInv, SafeInv, NoLinkYet, Boot
  PROVE  AllMatch'
<1> SUFFICES ASSUME NEW n \in Names PROVE Match(n)'
  BY DEF AllMatch
<1>1. proc = "down" /\ proc' = "booted" /\ OpenWatch /\ UNCHANGED <<linkVars, queueVars>>
  BY DEF Boot
<1>2. pool' # "live" /\ ~Serving'
  BY <1>1 DEF NoLinkYet, SafeInv, LinkInv, linkVars, Serving
<1>3. ~DelIn(n)'
  <2>1. \A i \in About(watch', n) : watch'[i] = NewEvent("Added", n, api[n])
    BY <1>1, OpenWatchTells
  <2> QED  BY <2>1 DEF DelIn, Ends, NewEvent
<1>4. Fresh' = {}
  <2>1. Fresh' = Fresh
    BY <1>1, FreshRests
  <2> QED  BY <1>1, <2>1 DEF Fresh, IndInv, NoJobsYet
<1> QED  BY <1>2, <1>3, <1>4 DEF Match, Heard, Asked, Cared

LEMMA MatchLoadFiles ==
  ASSUME IndInv, SafeInv, NoLinkYet, AllView, AllMatch, LoadFileResources
  PROVE  AllMatch'
<1> SUFFICES ASSUME NEW n \in Names PROVE Match(n)'
  BY DEF AllMatch
<1>1. /\ proc = "booted" /\ UNCHANGED <<api, watch, vols, linkVars, queueVars>> /\ Match(n)
      /\ files'[n] = IF Ours(n) THEN [res |-> api[n], vol |-> "nil"] ELSE Nil
  BY DEF LoadFileResources, storeVars, toldVars, AllMatch
<1>2. pool' # "live" /\ ~Serving
  BY <1>1 DEF NoLinkYet, SafeInv, LinkInv, linkVars, Serving
<1>3. ~DelIn(n) /\ ~DelIn(n)'
  BY <1>1, <1>2 DEF Match, Heard, DelIn
<1>4. AddIn(n)' => files'[n] # Nil
  <2>1. SUFFICES ASSUME AddIn(n)' PROVE files'[n] # Nil
    OBVIOUS
  <2>2. PICK i \in About(watch, n) : Begins(watch[i])
    BY <1>1, <2>1 DEF AddIn
  <2>3. IsOurs(api[n])
    BY <1>3, <2>2 DEF AllView, View, Told, Begins, DelIn
  <2>4. api[n] \in OurObject /\ "nil" \in Handles
    BY <2>3, OursType DEF IsOurs, IndInv, TypeOK, Handles
  <2> QED  BY <1>1, <2>3, <2>4, FileType DEF IsOurs, Ours
<1>5. Fresh' = {}
  <2>1. Fresh' = Fresh
    BY <1>1, FreshRests
  <2> QED  BY <1>1, <2>1 DEF Fresh, IndInv, NoJobsYet
<1> QED  BY <1>2, <1>3, <1>4, <1>5 DEF Match, Heard, Asked, Cared

LEMMA MatchIgnore ==
  ASSUME TypeOK, AllMatch, watch # <<>>, Ignore PROVE AllMatch'
<1>1. UNCHANGED <<vols, proc, pool, files, queueVars>> /\ watch' = Tail(watch)
  BY DEF Ignore, linkVars
<1>2. \A n \in Names : Quieter(n)
  BY <1>1, TailTells, QuieterRests
<1> QED  BY <1>1, <1>2, MatchRests DEF Serving

(* The handler adds a file with its first event: no volume is there yet,   *)
(* and the creation it queues makes one.                                   *)
LEMMA MatchAddFile ==
  ASSUME IndInv, SafeInv, AllMatch, proc = "run", watch # <<>>, Head(watch).type = "Added",
         AddFile(Head(watch)), proc' # "down"
  PROVE  AllMatch'
<1> DEFINE e    == Head(watch)
           n    == e.name
           x    == CreateJob(n, pool, e.obj.spec)
           objs == [m \in {n} |-> [e.obj EXCEPT !.phase = "Pending"]]
           ev   == NewEvent("Modified", n, Stored(objs, n))
<1>0. TypeOK /\ e \in Event /\ watch[1] = e /\ 1 \in About(watch, n) /\ n \in Names /\ Serving
  BY HeadFacts DEF IndInv, Event, Serving
<1>1. CASE Ignore
  BY <1>0, <1>1, MatchIgnore
<1>2. CASE /\ e.obj.spec # Elsewhere /\ files[n] = Nil /\ pool # "nil" /\ pending' = Append(pending, x)
           /\ watch' = Tail(watch) \o (IF n \in Written(objs) THEN <<ev>> ELSE <<>>)
           /\ files' = [files EXCEPT ![n] = [res |-> Answer(objs, n, objs[n]), vol |-> "nil"]]
           /\ UNCHANGED <<vols, proc, linkVars, working, ran, completed>>
  <2>1. e.obj \in Object /\ e.obj.spec \in Sizes /\ pool \in {"live", "dead"}
    BY <1>0, <1>2 DEF Event, Object, ObjectOf, TypeOK, Handles
  <2>2. /\ x \in Job /\ x.op = "create" /\ x.name = n /\ x.handle = pool /\ x.mapped /\ x.made = "nil"
    BY <1>0, <2>1, JobTypes DEF CreateJob
  <2>3. files'[n] # Nil /\ files'[n].vol = "nil"
    <3>1. files'[n] = [res |-> Answer(objs, n, objs[n]), vol |-> "nil"]
      BY <1>0, <1>2 DEF TypeOK
    <3>3. Answer(objs, n, objs[n]) \in OurObject \union {Nil}
      <4>1. objs[n] = [e.obj EXCEPT !.phase = "Pending"] /\ DOMAIN objs = {n}
        OBVIOUS
      <4>2. "Pending" \in Phases
        BY DEF Phases
      <4>3. objs[n] \in Object /\ objs[n].spec # Elsewhere
        BY <1>2, <2>1, <4>1, <4>2, PhaseType, SameVersion
      <4>4. objs[n] \in OurObject
        BY <4>3, OursType
      <4> HIDE DEF objs, e
      <4>5. IsObjects(objs)
        BY <1>0, <4>1, <4>3 DEF IsObjects
      <4>6. Answer(objs, n, objs[n]) \in OurObject \union {objs[n]}
        BY <1>0, <4>1, <4>3, <4>5, AnswerType
      <4> QED  BY <4>4, <4>6
    <3>4. "nil" \in Handles
      BY DEF Handles
    <3> HIDE DEF objs, e
    <3> QED  BY <3>1, <3>3, <3>4, FileType
  <2>4. Begins(watch[1])
    BY <1>0, <1>2, <2>1, NilAssumption DEF Begins, IsOurs
  <2>5. \A m \in Names : Quieter(m)
    <3>1. CASE n \notin Written(objs)
      <4>1. watch' = Tail(watch)
        BY <1>0, <1>2, <3>1 DEF TypeOK
      <4> QED  BY <1>0, <4>1, TailTells, QuieterRests
    <3>2. CASE n \in Written(objs)
      <4>1. ~Begins(ev) /\ ~Ends(ev)
        BY DEF NewEvent, Begins, Ends
      <4> HIDE DEF ev
      <4>2. watch' = Append(Tail(watch), ev) /\ Tail(watch) \in Seq(Event)
        BY <1>0, <1>2, <3>2 DEF TypeOK
      <4>3. ASSUME NEW m \in Names, NEW i \in About(watch', m), Begins(watch'[i]) \/ Ends(watch'[i])
            PROVE  \E k \in About(watch, m) : watch'[i] = watch[k]
        <5>1. i \in DOMAIN Tail(watch) /\ watch'[i] = Tail(watch)[i] /\ watch'[i].name = m
          BY <4>1, <4>2, <4>3 DEF About
        <5>2. i \in About(Tail(watch), m)
          BY <5>1 DEF About
        <5> QED  BY <1>0, <5>1, <5>2, TailTells
      <4> QED  BY <4>3 DEF Quieter, AddIn, DelIn
    <3> QED  BY <3>1, <3>2
  <2>6. Fresh' = Fresh \union {x} /\ Jobs' = Jobs \union {x}
    <3> HIDE DEF x, e, objs, ev
    <3> QED  BY <1>0, <1>2, <2>2, FreshAppend, AppendJobs
  <2>7. UNCHANGED <<pool, vols, proc>>
    BY <1>2 DEF linkVars
  <2> HIDE DEF x, e, objs, ev
  <2>8. ASSUME NEW m \in Names, m # n
        PROVE  Match(m)'
    <3>1. files'[m] = files[m]
      BY <1>0, <1>2, <2>8 DEF TypeOK
    <3>2. ~Creates(x, m) /\ ~Deletes(x, m) /\ ~Awaits(x, m)
      BY <2>2, <2>8 DEF Creates, Deletes, Awaits
    <3>3. KeepsJobs(m)
      BY <2>6, <3>2 DEF KeepsJobs
    <3> QED  BY <2>5, <2>7, <3>1, <3>3, MatchStays DEF AllMatch, KeepsFile, Serving
  <2>9. ASSUME NEW m \in Names, m = n
        PROVE  Match(m)'
    <3>0. /\ files[m] = Nil /\ files'[m] # Nil /\ files'[m].vol = "nil" /\ x.name = m
          /\ 1 \in About(watch, m) /\ Match(m)
      BY <1>0, <1>2, <2>2, <2>3, <2>9 DEF AllMatch
    <3>1. AddIn(m) /\ ~DelIn(m) /\ vols[m] = Nil /\ ~DelIn(m)'
      <4>1. AddIn(m)
        BY <2>4, <3>0 DEF AddIn
      <4> QED  BY <1>0, <2>5, <3>0, <4>1 DEF Match, Heard, Quieter
    <3>2. \A j \in Fresh : ~Deletes(j, m)
      <4>1. SUFFICES ASSUME NEW j \in Fresh, Deletes(j, m) PROVE FALSE
        OBVIOUS
      <4>2. j \in Jobs /\ j \in Job
        BY <1>0, FreshJobs, JobsType
      <4>3. j = DeleteJob(m, "live")
        BY <4>1, <4>2, DeleteUnique DEF Deletes, SafeInv, PlainInv
      <4> QED  BY <3>1, <4>1, <4>3, SparedFresh DEF SafeInv, VolInv
    <3>3. Asked(m)'
      <4>1. \A j \in Fresh : Creates(j, m) => j.mapped
        BY <3>0 DEF Match, Asked
      <4> QED  BY <2>2, <2>6, <3>1, <3>2, <4>1 DEF Asked, Creates, Deletes
    <3>4. \A j \in Jobs' : Awaits(j, m) => j.made # "dead"
      <4>1. \A j \in Jobs : ~Awaits(j, m)
        BY <3>0, JobIsMapped DEF Awaits
      <4> QED  BY <2>2, <2>6, <4>1
    <3>5. Cared(m)'
      <4>1. pool' = "live" => Creating(m)'
        <5>1. SUFFICES ASSUME pool' = "live" PROVE Creating(m)'
          OBVIOUS
        <5>2. x \in Fresh' /\ vols'[m] = Nil /\ x.handle = "live"
          BY <2>2, <2>6, <2>7, <3>1, <5>1
        <5> QED  BY <2>2, <3>0, <5>2 DEF Creating, Creates, Awaits
      <4> QED  BY <3>0, <3>4, <4>1 DEF Cared, Awaits
    <3>6. Heard(m)'
      BY <3>0, <3>1 DEF Heard
    <3> QED  BY <3>3, <3>5, <3>6 DEF Match
  <2> QED  BY <2>8, <2>9 DEF AllMatch
<1>3. CASE Panic
  BY <1>3 DEF Panic, Forget
<1> QED  BY <1>1, <1>2, <1>3 DEF AddFile

LEMMA MatchModifyFile ==
  ASSUME IndInv, AllMatch, watch # <<>>, ModifyFile(Head(watch)), proc' # "down"
  PROVE  AllMatch'
<1> DEFINE e == Head(watch)
           n == e.name
           x == ResizeJob(n, files[n].vol, e.obj.spec)
<1>0. TypeOK /\ e \in Event /\ watch[1] = e
  BY HeadFacts DEF IndInv
<1>1. CASE Ignore
  BY <1>0, <1>1, MatchIgnore
<1>2. CASE Panic
  BY <1>2 DEF Panic, Forget
<1>3. CASE /\ files' = [files EXCEPT ![n].res = e.obj] /\ watch' = Tail(watch)
           /\ UNCHANGED <<vols, proc, pool, working, ran, completed>>
           /\ files[n] # Nil /\ e.obj.spec # Elsewhere
           /\ pending' = pending \/ (files[n].vol # "nil" /\ pending' = Append(pending, x))
  <2>1. n \in Names /\ e.obj.spec \in Sizes /\ files[n] \in File
    BY <1>0, <1>3 DEF Event, Object, ObjectOf, TypeOK
  <2>2. \A m \in Names : KeepsJobs(m)
    <3>1. CASE pending' = pending
      BY <1>3, <3>1, JobsRest, KeepsSameJobs DEF queueVars
    <3>2. CASE files[n].vol # "nil" /\ pending' = Append(pending, x)
      <4>1. files[n].vol \in {"live", "dead"}
        BY <2>1, <3>2 DEF File, Handles
      <4>2. x \in Job /\ x.op = "resize"
        BY <2>1, <4>1, JobTypes DEF ResizeJob
      <4> HIDE DEF x, e
      <4>3. Fresh' = Fresh \union {x} /\ Jobs' = Jobs \union {x}
        BY <1>0, <1>3, <3>2, <4>2, FreshAppend, AppendJobs
      <4> QED  BY <4>2, <4>3 DEF KeepsJobs, Creates, Deletes, Awaits
    <3> QED  BY <1>3, <3>1, <3>2
  <2> HIDE DEF x, e
  <2> SUFFICES ASSUME NEW m \in Names PROVE Match(m)'
    BY DEF AllMatch
  <2>3. KeepsFile(m)
    <3>1. CASE m # n
      BY <1>0, <1>3, <2>1, <3>1 DEF TypeOK, KeepsFile
    <3>2. CASE m = n
      <4>1. files'[n] = [res |-> e.obj, vol |-> files[n].vol] /\ files[n].vol \in Handles
        BY <1>0, <1>3, <2>1 DEF TypeOK, File
      <4>2. e.obj \in OurObject
        BY <1>0, <1>3, OursType DEF Event
      <4>3. files'[n] # Nil /\ files'[n].vol = files[n].vol
        BY <4>1, <4>2, FileType
      <4> QED  BY <1>3, <3>2, <4>3 DEF KeepsFile
    <3> QED  BY <3>1, <3>2
  <2>4. Quieter(m)
    BY <1>0, <1>3, TailTells, QuieterRests
  <2> QED  BY <1>3, <2>2, <2>3, <2>4, MatchStays DEF AllMatch, Serving
<1> HIDE DEF x
<1>4. ModifyFile(e) => \/ Ignore \/ Panic
        \/ /\ files' = [files EXCEPT ![n].res = e.obj] /\ watch' = Tail(watch)
           /\ UNCHANGED <<vols, proc, pool, working, ran, completed>>
           /\ files[n] # Nil /\ e.obj.spec # Elsewhere
           /\ pending' = pending \/ (files[n].vol # "nil" /\ pending' = Append(pending, x))
  BY DEF ModifyFile, x, linkVars
<1> QED  BY <1>1, <1>2, <1>3, <1>4

(* The handler drops a file whose end is told: its volume is there, and    *)
(* the deletion it queues is of a handle that works.                       *)
LEMMA MatchDeleteFile ==
  ASSUME IndInv, AllMatch, proc = "run", watch # <<>>, Head(watch).type = "Deleted",
         DeleteFile(Head(watch))
  PROVE  AllMatch'
<1> DEFINE e == Head(watch)
           n == e.name
<1>0. TypeOK /\ e \in Event /\ watch[1] = e /\ 1 \in About(watch, n) /\ n \in Names
  BY HeadFacts DEF IndInv, Event
<1>1. CASE Ignore
  BY <1>0, <1>1, MatchIgnore
<1>2. CASE /\ e.obj.spec # Elsewhere /\ files[n] # Nil /\ files' = [files EXCEPT ![n] = Nil]
           /\ pending' = [i \in DOMAIN pending |-> Unmap(pending[i], n)] \o DeleteOf(n)
           /\ working' = [w \in Workers |-> IF working[w] = Nil THEN Nil ELSE Unmap(working[w], n)]
           /\ completed' = [i \in DOMAIN completed |-> Unmap(completed[i], n)]
           /\ watch' = Tail(watch) /\ UNCHANGED <<vols, proc, pool, ran>>
  <2>1. Ends(watch[1])
    BY <1>0, <1>2, NilAssumption DEF Ends, IsOurs, Event
  <2> HIDE DEF e
  <2> DEFINE v == files[n].vol
             x == DeleteJob(n, v)
  <2>2. /\ \A j \in Fresh' : (\E k \in Fresh : j = Unmap(k, n)) \/ (v # "nil" /\ j = x)
        /\ \A k \in Fresh : Unmap(k, n) \in Fresh'
        /\ v # "nil" => x \in Fresh'
        /\ \A j \in Jobs' : (\E k \in Jobs : j = Unmap(k, n)) \/ (v # "nil" /\ j = x)
        /\ \A k \in Jobs : Unmap(k, n) \in Jobs'
    BY <1>0, <1>2, FreshDelete
  <2>3. x.op = "delete" /\ x.name = n /\ x.handle = v /\ ~x.mapped
    BY DEF DeleteJob
  <2>4. \A k \in Jobs : /\ k.name # n => Unmap(k, n) = k
                        /\ Unmap(k, n).name = k.name /\ Unmap(k, n).op = k.op
                        /\ Unmap(k, n).handle = k.handle
                        /\ k.name = n => ~Unmap(k, n).mapped
    <3>1. SUFFICES ASSUME NEW k \in Jobs
                   PROVE  /\ k.name # n => Unmap(k, n) = k
                          /\ Unmap(k, n).name = k.name /\ Unmap(k, n).op = k.op
                          /\ Unmap(k, n).handle = k.handle
                          /\ k.name = n => ~Unmap(k, n).mapped
      OBVIOUS
    <3>2. k \in Job
      BY <1>0, JobsType
    <3> QED  BY <3>2 DEF Unmap, Job, JobOf
  <2>5. Fresh \subseteq Jobs
    BY FreshJobs
  <2> HIDE DEF x
  <2>6. \A m \in Names : Quieter(m)
    BY <1>0, <1>2, TailTells, QuieterRests
  <2>7. ASSUME NEW m \in Names, m # n
        PROVE  Match(m)'
    <3>1. files'[m] = files[m]
      BY <1>0, <1>2, <2>7 DEF TypeOK
    <3>2. /\ \A j \in Fresh' : j.name = m => j \in Fresh
          /\ \A j \in Jobs' : j.name = m => j \in Jobs
          /\ \A j \in Fresh : j.name = m => j \in Fresh'
          /\ \A j \in Jobs : j.name = m => j \in Jobs'
      BY <2>2, <2>3, <2>4, <2>5, <2>7
    <3>3. KeepsJobs(m)
      BY <3>2 DEF KeepsJobs, Creates, Deletes, Awaits
    <3> QED  BY <1>2, <2>6, <3>1, <3>3, MatchStays DEF AllMatch, KeepsFile, Serving
  <2>8. ASSUME NEW m \in Names, m = n
        PROVE  Match(m)'
    <3>1. DelIn(m) /\ Match(m) /\ files[m] # Nil /\ proc = "run" /\ Serving
      BY <1>0, <1>2, <2>1, <2>8 DEF DelIn, AllMatch, Match, Heard
    <3>2. Serving' /\ ~AddIn(m)' /\ (pool' = "live" => v = "live") /\ files'[m] = Nil
      <4>1. files'[m] = Nil
        BY <1>0, <1>2, <2>8 DEF TypeOK
      <4> QED  BY <1>2, <2>6, <2>8, <3>1, <4>1 DEF Match, Heard, Quieter, Serving
    <3>3. \A j \in Fresh' : ~Creates(j, m)
      <4>1. \A k \in Fresh : ~Creates(k, m)
        BY <3>1 DEF Match, Asked
      <4> QED  BY <2>2, <2>3, <2>4, <2>5, <4>1 DEF Creates
    <3>4. \A j \in Jobs' : ~Awaits(j, m)
      BY <2>2, <2>3, <2>4, <2>8 DEF Awaits
    <3>5. pool' = "live" => Deletes(x, m) /\ x \in Fresh'
      BY <2>2, <2>3, <2>8, <3>2 DEF Deletes
    <3>6. Heard(m)'
      BY <3>2 DEF Heard
    <3>7. Asked(m)'
      BY <3>2, <3>3 DEF Asked
    <3>8. Cared(m)'
      BY <3>2, <3>4, <3>5 DEF Cared
    <3> QED  BY <3>6, <3>7, <3>8 DEF Match
  <2> QED  BY <2>7, <2>8 DEF AllMatch
<1> QED  BY <1>1, <1>2 DEF DeleteFile, linkVars

LEMMA MatchWatchEvent ==
  ASSUME IndInv, SafeInv, AllMatch, WatchEvent, proc' # "down" PROVE AllMatch'
BY MatchAddFile, MatchModifyFile, MatchDeleteFile DEF WatchEvent

(* Over a connection that does not work there is not much to match.        *)
LEMMA MatchDead ==
  ASSUME SafeInv', AllMatch, pool' # "live", UNCHANGED vols, Serving' <=> Serving,
         \A n \in Names : Quieter(n) /\ (files'[n] = Nil <=> files[n] = Nil)
  PROVE  AllMatch'
<1> SUFFICES ASSUME NEW n \in Names PROVE Match(n)'
  BY DEF AllMatch
<1>1. \A j \in Fresh' : j.handle # "live"
  <2>1. Fresh' \subseteq Jobs'
    BY DEF Fresh, Jobs
  <2> QED  BY <2>1 DEF SafeInv, LiveInv, NothingLive, LiveJob
<1>2. KeepsFile(n) /\ KeepsJobs(n)
  BY <1>1 DEF KeepsFile, KeepsJobs, Creates, Deletes
<1> QED  BY <1>2, MatchStays DEF AllMatch

LEMMA MatchConnLost ==
  ASSUME IndInv, SafeInv', AllMatch, ConnLost PROVE AllMatch'
<1>1. pool' # "live" /\ UNCHANGED <<vols, watch, proc>>
  BY DEF ConnLost, Sever, storeVars, toldVars
<1>2. ASSUME NEW n \in Names
      PROVE  files'[n] = Nil <=> files[n] = Nil
  <2>1. CASE files[n] = Nil
    BY <2>1 DEF ConnLost
  <2>2. CASE files[n] # Nil
    <3>1. files[n] \in File /\ files'[n] = [files[n] EXCEPT !.vol = Sever(@)]
      BY <2>2 DEF ConnLost, IndInv, TypeOK
    <3>2. files'[n] \in File
      BY <3>1 DEF File, Sever, Handles
    <3> QED  BY <2>2, <3>2, NilAssumption
  <2> QED  BY <2>1, <2>2
<1> QED  BY <1>1, <1>2, QuieterSame, MatchDead DEF Serving

LEMMA MatchConnectFailed ==
  ASSUME IndInv, SafeInv', AllMatch, ConnectFailed, proc' # "down" PROVE AllMatch'
<1>1. /\ pool' = "nil" /\ UNCHANGED <<vols, watch>> /\ proc = "run" /\ proc' = "drain"
      /\ files' = [n \in Names |-> IF files[n] = Nil THEN Nil ELSE [files[n] EXCEPT !.vol = "nil"]]
  BY DEF ConnectFailed, Panic, Forget, storeVars, toldVars
<1>2. ASSUME NEW n \in Names
      PROVE  files'[n] = Nil <=> files[n] = Nil
  <2>1. CASE files[n] = Nil
    BY <1>1, <2>1
  <2>2. CASE files[n] # Nil
    <3>1. files[n] \in File /\ files'[n] = [files[n] EXCEPT !.vol = "nil"]
      BY <1>1, <2>2 DEF IndInv, TypeOK
    <3>2. files'[n] \in File
      BY <3>1 DEF File, Handles
    <3> QED  BY <2>2, <3>2, NilAssumption
  <2> QED  BY <2>1, <2>2
<1> QED  BY <1>1, <1>2, QuieterSame, MatchDead DEF Serving

(* The load of the volumes queues what is missing and what is too many.    *)
LEMMA MatchLoadVolumes ==
  ASSUME IndInv, SafeInv, AllMatch, LoadVolumes, NoRes = {}, pool = "nil", pool' = "live",
         proc = "run", Serving'
  PROVE  AllMatch'
<1> SUFFICES ASSUME NEW n \in Names PROVE Match(n)'
  BY DEF AllMatch
<1>0. TypeOK /\ Match(n) /\ Serving /\ UNCHANGED vols
  BY DEF IndInv, AllMatch, Serving, LoadVolumes
<1>1. NothingLive
  BY DEF SafeInv, LiveInv
<1>2. Quieter(n)
  BY <1>0, LoadedType, QuieterPut DEF LoadVolumes
<1>3. /\ files[n] = Nil => files'[n] = Nil
      /\ files[n] # Nil => files'[n] # Nil /\ files'[n].vol = IF n \in Found THEN "live" ELSE files[n].vol
  <2>1. files[n] = Nil => files'[n] = Nil
    BY DEF LoadVolumes, Mapped
  <2>2. ASSUME files[n] # Nil
        PROVE  files'[n] # Nil /\ files'[n].vol = IF n \in Found THEN "live" ELSE files[n].vol
    <3> DEFINE v == IF n \in Found THEN "live" ELSE files[n].vol
               a == Answer(LoadedObjects, n, LoadedObjects[n])
    <3>1. files'[n] = [res |-> a, vol |-> v]
      BY <2>2 DEF LoadVolumes, Mapped
    <3>2. v \in Handles
      BY <1>0, <2>2 DEF TypeOK, File, Handles
    <3>3. a \in OurObject \union {Nil}
      <4>1. DOMAIN LoadedObjects = Mapped /\ IsObjects(LoadedObjects) /\ n \in Mapped /\ n \notin NoRes
        BY <1>0, <2>2, LoadedType DEF Mapped
      <4>2. LoadedObjects[n] \in Object /\ LoadedObjects[n].spec # Elsewhere
        BY <1>0, <4>1, LoadedType DEF IsObjects
      <4>3. LoadedObjects[n] \in OurObject
        BY <4>2, OursType
      <4>4. a \in OurObject \union {LoadedObjects[n]}
        BY <1>0, <4>1, <4>2, AnswerType
      <4> QED  BY <4>3, <4>4
    <3> HIDE DEF a, v
    <3>4. files'[n] # Nil /\ files'[n].vol = v
      BY <3>1, <3>2, <3>3, FileType
    <3> QED  BY <3>4 DEF v
  <2> QED  BY <2>1, <2>2
<1>4. /\ \A j \in Fresh' : \/ j \in Fresh
                           \/ \E m \in Mapped \ Found : \E s : j = CreateJob(m, "live", s)
                           \/ \E m \in Extra : j = DeleteJob(m, "live")
      /\ \A m \in Mapped \ Found : \E s : CreateJob(m, "live", s) \in Fresh'
      /\ \A m \in Extra : DeleteJob(m, "live") \in Fresh'
      /\ \A j \in Jobs' : j \in Jobs \/ j.made = "nil"
  BY FreshLoad
<1>5. \A m, s : /\ Creates(CreateJob(m, "live", s), m) /\ Awaits(CreateJob(m, "live", s), m)
                /\ CreateJob(m, "live", s).op = "create" /\ CreateJob(m, "live", s).name = m
                /\ CreateJob(m, "live", s).mapped
                /\ Deletes(DeleteJob(m, "live"), m)
                /\ DeleteJob(m, "live").op = "delete" /\ DeleteJob(m, "live").name = m
  BY DEF CreateJob, DeleteJob, Creates, Deletes, Awaits
<1>6. \A j \in Fresh : j.handle # "live"
  BY <1>1, FreshJobs DEF NothingLive, LiveJob
<1>7. /\ n \in Found <=> files[n] # Nil /\ vols[n] # Nil
      /\ n \in Extra <=> files[n] = Nil /\ vols[n] # Nil
      /\ n \in Mapped <=> files[n] # Nil
  BY DEF Found, Extra, Mapped
<1>8. Heard(n)'
  <2>1. Heard(n)
    BY <1>0 DEF Match
  <2>2. /\ DelIn(n)' => Serving' /\ ~AddIn(n)'
        /\ AddIn(n)' /\ files'[n] = Nil => vols'[n] = Nil
    BY <1>0, <1>2, <1>3, <2>1 DEF Heard, Quieter
  <2>3. DelIn(n)' /\ files'[n] # Nil => vols'[n] # Nil /\ files'[n].vol = "live"
    BY <1>0, <1>2, <1>3, <1>7, <2>1 DEF Heard, Quieter
  <2> QED  BY <2>2, <2>3 DEF Heard
<1>9. ASSUME NEW j \in Fresh'
      PROVE  /\ Creates(j, n) => j.mapped /\ ~DelIn(n)'
             /\ Deletes(j, n) => files'[n] = Nil
  <2>1. CASE j \in Fresh
    BY <1>6, <2>1 DEF Creates, Deletes
  <2>2. CASE \E m \in Mapped \ Found : \E s : j = CreateJob(m, "live", s)
    <3>1. PICK m \in Mapped \ Found : \E s : j = CreateJob(m, "live", s)
      BY <2>2
    <3>2. j.op = "create" /\ j.name = m /\ j.mapped
      BY <1>5, <3>1
    <3>3. m = n => ~DelIn(n)
      BY <1>0, <1>7, <3>1 DEF Match, Heard
    <3> QED  BY <1>2, <3>2, <3>3 DEF Creates, Deletes, Quieter
  <2>3. CASE \E m \in Extra : j = DeleteJob(m, "live")
    <3>1. PICK m \in Extra : j = DeleteJob(m, "live")
      BY <2>3
    <3>2. j.op = "delete" /\ j.name = m
      BY <1>5, <3>1
    <3> QED  BY <1>3, <1>7, <3>1, <3>2 DEF Creates, Deletes
  <2> QED  BY <1>4, <2>1, <2>2, <2>3
<1>10. Asked(n)'
  BY <1>9 DEF Asked, Creates, Deletes
<1>11. files'[n] = Nil /\ vols'[n] # Nil => \E j \in Fresh' : Deletes(j, n)
  BY <1>0, <1>3, <1>4, <1>5, <1>7
<1>12. files'[n] # Nil => files'[n].vol = "live" \/ (files'[n].vol = "nil" /\ Creating(n)')
  <2>1. SUFFICES ASSUME files[n] # Nil, n \notin Found PROVE files[n].vol = "nil" /\ Creating(n)'
    BY <1>3
  <2>2. vols[n] = Nil /\ files[n].vol = "nil"
    BY <1>7, <2>1 DEF SafeInv, VolInv, Used, HasVol
  <2>3. PICK s : CreateJob(n, "live", s) \in Fresh'
    BY <1>4, <1>7, <2>1
  <2> QED  BY <1>0, <1>5, <2>2, <2>3 DEF Creating
<1>13. ASSUME NEW j \in Jobs', Awaits(j, n), j.made = "dead"
       PROVE  files'[n] # Nil /\ files'[n].vol = "live"
  <2>1. j \in Jobs
    BY <1>4, <1>13
  <2>2. files[n] # Nil /\ vols[n] # Nil
    BY <1>13, <2>1, JobIsMapped DEF Awaits, SafeInv, VolInv, Used, Made
  <2> QED  BY <1>3, <1>7, <2>2
<1>14. Cared(n)'
  BY <1>11, <1>12, <1>13 DEF Cared, Deletes, Awaits
<1> QED  BY <1>8, <1>10, <1>14 DEF Match

LEMMA MatchPoolReady ==
  ASSUME IndInv, SafeInv, AllMatch, PoolReady, proc' # "down", budget'["error"] = budget["error"]
  PROVE  AllMatch'
<1>1. CASE /\ loads["dead"] > 0 /\ pool' = IF link = "down" THEN pool ELSE "dead"
           /\ proc = "run" /\ proc' \in {"run", "drain"} /\ UNCHANGED <<toldVars, vols, files, queueVars>>
  BY <1>1, QuieterSame, MatchRests DEF storeVars, toldVars, Serving
<1>2. CASE /\ loads["live"] > 0 /\ NoRes = {} /\ pool' = "live" /\ proc = "run" /\ proc' \in {"drain", "run"}
           /\ LoadVolumes
  <2>1. pool = "nil"
    BY <1>2 DEF SafeInv, LinkInv, Loading, IndInv, TypeOK
  <2> QED  BY <1>2, <2>1, MatchLoadVolumes DEF Serving
<1>3. CASE PanicInLoop(LoadedObjects, Mapped \ NoRes, Mapped \ (NoRes \union Found))
  BY <1>3 DEF PanicInLoop, Forget
<1>4. ~Spend("error")
  <2>1. budget \in [Faults -> Nat] /\ "error" \in Faults
    BY DEF IndInv, TypeOK, Faults
  <2> QED  BY <2>1 DEF Spend
<1> QED  BY <1>1, <1>2, <1>3, <1>4 DEF PoolReady, storeVars, toldVars

LEMMA MatchFinishJob ==
  ASSUME IndInv, SafeInv, AllMatch, FinishJob, proc' # "down" PROVE AllMatch'
<1> DEFINE j       == Head(completed)
           n       == j.name
           awaited == j.op = "create" /\ j.mapped /\ files[n].vol = "nil"
<1>0. TypeOK /\ completed # <<>> /\ proc = "drain"
  BY DEF IndInv, FinishJob
<1>1. CASE Panic
  BY <1>1 DEF Panic, Forget
<1>2. CASE /\ completed' = Tail(completed)
           /\ UNCHANGED <<toldVars, vols, proc, linkVars, pending, working, ran>>
           /\ awaited => files[n].res # Nil
           /\ files' = IF ~awaited THEN files
                       ELSE [files EXCEPT ![n].vol = j.made,
                                          ![n].res.phase = IF j.made = "nil" THEN "Failed"
                                                           ELSE "Available"]
  <2>1. completed \in Seq(Job) /\ j \in Jobs /\ j \in Job
    <3>1. completed \in Seq(Job)
      BY <1>0 DEF TypeOK
    <3>2. 1 \in DOMAIN completed /\ j = completed[1]
      BY <1>0, <3>1
    <3> QED  BY <3>1, <3>2 DEF Jobs
  <2>2. Jobs' \subseteq Jobs /\ Jobs \subseteq Jobs' \union {j} /\ Fresh' = Fresh
    <3>1. \A i \in DOMAIN Tail(completed) : i + 1 \in DOMAIN completed /\ Tail(completed)[i] = completed[i + 1]
      BY <1>0, <2>1
    <3>2. \A i \in DOMAIN completed : i # 1 =>
            i - 1 \in DOMAIN Tail(completed) /\ Tail(completed)[i - 1] = completed[i]
      BY <1>0, <2>1
    <3>3. completed[1] = j
      BY <1>0, <2>1
    <3>4. \A i \in DOMAIN completed : completed[i] = j \/ \E k \in DOMAIN Tail(completed) : Tail(completed)[k] = completed[i]
      BY <3>2, <3>3
    <3> HIDE DEF j
    <3> QED  BY <1>2, <3>1, <3>4 DEF Jobs, Fresh
  <2> HIDE DEF j
  <2> SUFFICES ASSUME NEW m \in Names PROVE Match(m)'
    BY DEF AllMatch
  <2>3. Match(m) /\ UNCHANGED <<vols, watch, pool, proc>> /\ n \in Names
    BY <1>2, <2>1, JobFields DEF AllMatch, linkVars, storeVars, toldVars
  <2>4. CASE awaited /\ m = n
    <3>1. files[n] # Nil /\ files[n].res # Nil
      BY <1>2, <2>1, <2>4, JobIsMapped
    <3>2. files[n] \in File /\ files[n].res \in OurObject /\ j.made \in Handles
      BY <1>0, <2>1, <2>3, <3>1, JobFields DEF TypeOK, File
    <3> DEFINE p == IF j.made = "nil" THEN "Failed" ELSE "Available"
               r == [files[n].res EXCEPT !.phase = p]
    <3>3. files'[n] = [res |-> r, vol |-> j.made]
      BY <1>0, <1>2, <2>3, <2>4, <3>1, <3>2 DEF TypeOK, File
    <3>4. r \in OurObject
      <4>1. p \in Phases
        BY DEF Phases
      <4> QED  BY <3>2, <4>1 DEF OurObject, ObjectOf
    <3> HIDE DEF r
    <3>5. files'[m] # Nil /\ files'[m].vol = j.made /\ files[m].vol = "nil" /\ files[m] # Nil
      BY <2>4, <3>1, <3>2, <3>3, <3>4, FileType
    <3>6. Awaits(j, m)
      BY <2>4 DEF Awaits
    <3>7. pool' = "live" => j.made # "dead"
      BY <2>1, <2>3, <3>5, <3>6 DEF Match, Cared
    <3>8. KeepsFile(m)
      BY <3>2, <3>5, <3>7 DEF KeepsFile, Handles
    <3>9. KeepsJobs(m)
      BY <2>2, <3>5 DEF KeepsJobs
    <3> QED  BY <2>3, <3>8, <3>9, QuieterSame, MatchStays DEF Serving
  <2>5. CASE ~(awaited /\ m = n)
    <3>1. files'[m] = files[m]
      <4>1. CASE ~awaited
        BY <1>2, <4>1
      <4>2. CASE m # n
        BY <1>0, <1>2, <2>3, <4>2 DEF TypeOK
      <4> QED  BY <2>5, <4>1, <4>2
    <3>2. pool' = "live" /\ Awaits(j, m) => files'[m].vol = "live"
      <4>1. SUFFICES ASSUME pool' = "live", Awaits(j, m) PROVE files[m].vol = "live"
        BY <3>1
      <4>2. m = n /\ files[m] # Nil /\ files[m].vol # "nil"
        BY <2>1, <2>5, <4>1, JobIsMapped DEF Awaits
      <4> QED  BY <2>3, <4>1, <4>2 DEF Match, Cared
    <3>3. KeepsJobs(m)
      BY <2>2, <3>2 DEF KeepsJobs
    <3> QED  BY <2>3, <3>1, <3>3, QuieterSame, MatchStays DEF KeepsFile, Serving
  <2> QED  BY <2>4, <2>5
<1> QED  BY <1>1, <1>2 DEF FinishJob, storeVars, toldVars

(* A refresh gives up no handle: while no call fails, those that it would  *)
(* give up have a volume that is there.                                    *)
LEMMA MatchRefresh ==
  ASSUME IndInv, SafeInv, AllMatch, RefreshSizes, budget'["error"] = budget["error"],
         proc' # "down"
  PROVE  AllMatch'
<1>0. TypeOK /\ Serving
  BY DEF IndInv, RefreshSizes, Serving
<1>1. CASE UNCHANGED <<toldVars, vols, linkVars, files, queueVars>> /\ proc' = "run"
  BY <1>0, <1>1, QuieterSame, MatchRests DEF storeVars, toldVars, linkVars, Serving
<1>2. ASSUME NEW bad \in SUBSET Held, PanicInLoop(RefreshedObjects(bad), Held \ NoRes, {})
      PROVE  FALSE
  BY <1>2 DEF PanicInLoop, Forget
<1>3. ASSUME NEW bad \in SUBSET Held, Gone \subseteq bad, pool = "live",
             Held \intersect NoRes = {}, PutAndNotify(RefreshedObjects(bad)), proc' = "run",
             files' = [n \in Names |->
                  IF n \notin Held THEN files[n]
                  ELSE [res |-> Answer(RefreshedObjects(bad), n, Nil),
                        vol |-> IF n \in bad THEN "nil" ELSE files[n].vol]],
             budget' = [budget EXCEPT !["error"] = @ - Cardinality(bad \ Gone)],
             UNCHANGED <<vols, linkVars, queueVars>>
      PROVE  AllMatch'
  <2>1. bad \ Gone = {}
    <3>1. IsFiniteSet(bad \ Gone)
      BY ConstantsAssumption, FS_Subset DEF Held, Mapped
    <3>2. Cardinality(bad \ Gone) \in Nat
      BY <3>1, FS_CardinalityType
    <3>3. budget'["error"] = budget["error"] - Cardinality(bad \ Gone) /\ budget["error"] \in Nat
      BY <1>0, <1>3 DEF TypeOK, Faults
    <3>4. Cardinality(bad \ Gone) = 0
      BY <3>2, <3>3
    <3> QED  BY <3>1, <3>4, FS_EmptySet
  <2> DEFINE objs == RefreshedObjects(bad)
  <2>2. /\ DOMAIN objs = Held /\ IsObjects(objs) /\ PutAndNotify(objs)
        /\ \A n \in DOMAIN objs : objs[n].spec # Elsewhere
    BY <1>0, <1>3, RefreshedType
  <2> HIDE DEF objs
  <2> SUFFICES ASSUME NEW n \in Names PROVE Match(n)'
    BY DEF AllMatch
  <2>3. Match(n) /\ Quieter(n)
    BY <1>0, <2>2, QuieterPut DEF AllMatch
  <2>4. n \in Held => n \notin bad
    <3>1. SUFFICES ASSUME n \in Held PROVE n \notin Gone
      BY <2>1
    <3>2. files[n] # Nil /\ files[n].vol # "nil"
      BY <3>1 DEF Held, Mapped
    <3>3. files[n].vol = "live"
      BY <1>3, <2>3, <3>2 DEF Match, Cared
    <3>4. vols[n] # Nil
      BY <3>2 DEF SafeInv, VolInv, Used, HasVol
    <3> QED  BY <3>3, <3>4 DEF Gone
  <2>5. KeepsFile(n)
    <3>1. CASE n \notin Held
      BY <1>3, <3>1 DEF KeepsFile
    <3>2. CASE n \in Held
      <4> DEFINE a == Answer(objs, n, Nil)
      <4>1. files'[n] = [res |-> a, vol |-> files[n].vol]
        BY <1>3, <2>4, <3>2 DEF objs
      <4>2. a \in OurObject \union {Nil}
        BY <1>0, <2>2, <3>2, AnswerType
      <4>3. files[n] \in File /\ files[n].vol \in Handles /\ files[n] # Nil
        BY <1>0, <3>2 DEF Held, Mapped, TypeOK, File
      <4> HIDE DEF a
      <4>4. files'[n] # Nil /\ files'[n].vol = files[n].vol
        BY <4>1, <4>2, <4>3, FileType
      <4> QED  BY <4>3, <4>4 DEF KeepsFile
    <3> QED  BY <3>1, <3>2
  <2>6. KeepsJobs(n)
    BY <1>3, JobsRest, KeepsSameJobs
  <2> QED  BY <1>0, <1>3, <2>3, <2>5, <2>6, MatchStays DEF linkVars, Serving
<1>4. \/ UNCHANGED <<toldVars, vols, linkVars, files, queueVars>> /\ proc' = "run"
      \/ \E bad \in SUBSET Held : PanicInLoop(RefreshedObjects(bad), Held \ NoRes, {})
      \/ \E bad \in SUBSET Held :
           /\ Gone \subseteq bad /\ Held \intersect NoRes = {} /\ pool = "live"
           /\ PutAndNotify(RefreshedObjects(bad)) /\ proc' = "run"
           /\ files' = [n \in Names |->
                IF n \notin Held THEN files[n]
                ELSE [res |-> Answer(RefreshedObjects(bad), n, Nil),
                      vol |-> IF n \in bad THEN "nil" ELSE files[n].vol]]
           /\ budget' = [budget EXCEPT !["error"] = @ - Cardinality(bad \ Gone)]
           /\ UNCHANGED <<vols, linkVars, queueVars>>
  BY DEF RefreshSizes, storeVars, toldVars
<1> QED  BY <1>1, <1>2, <1>3, <1>4

(* A job that can do its work does it.                                     *)
LEMMA MatchProcess ==
  ASSUME IndInv, SafeInv, AllMatch, NEW w \in Workers, Process(w),
         budget'["error"] = budget["error"]
  PROVE  AllMatch'
<1>0. /\ TypeOK /\ w \notin ran /\ working[w] # Nil /\ UNCHANGED <<watch, proc, pool, files>>
      /\ ran' = ran \union {w} /\ UNCHANGED <<pending, completed>>
  BY DEF IndInv, Process, storeVars, toldVars, linkVars
<1>1. PICK j \in Fresh : j = working[w]
  BY <1>0 DEF Fresh
<1>2. j \in Jobs /\ j \in Job /\ j.name \in Names
  BY <1>0, FreshJobs, JobsType, JobFields
<1>3. /\ vols \in [Names -> Sizes \union {Nil}] /\ working \in [Workers -> Job \union {Nil}]
      /\ \A n \in Names : Quieter(n)
  BY <1>0, QuieterSame DEF TypeOK
<1>4. ASSUME \A v \in Workers : v # w => working'[v] = working[v]
      PROVE  Fresh' \subseteq Fresh /\ Fresh \subseteq Fresh' \union {j}
  BY <1>0, <1>1, <1>4 DEF Fresh
<1>5. CASE ~Possible(j) /\ UNCHANGED <<vols, working>>
  <2>1. Fresh' \subseteq Fresh /\ Fresh \subseteq Fresh' \union {j} /\ Jobs' = Jobs
    BY <1>0, <1>4, <1>5 DEF Jobs
  <2>2. \A n \in Names : ~((Creates(j, n) /\ vols[n] = Nil) \/ (Deletes(j, n) /\ vols[n] # Nil))
    BY <1>5 DEF Possible, Creates, Deletes
  <2> SUFFICES ASSUME NEW n \in Names PROVE Match(n)'
    BY DEF AllMatch
  <2>3. KeepsJobs(n) /\ KeepsFile(n)
    BY <1>0, <2>1, <2>2 DEF KeepsJobs, KeepsFile
  <2> QED  BY <1>0, <1>3, <1>5, <2>3, MatchStays DEF AllMatch, Serving
<1>6. CASE /\ Possible(j)
           /\ vols' = [vols EXCEPT ![j.name] = IF j.op = "delete" THEN Nil ELSE j.size]
           /\ working' = IF j.op = "create" THEN [working EXCEPT ![w].made = "live"] ELSE working
  <2>1. j.handle = "live" /\ (j.op = "create" <=> vols[j.name] = Nil)
    BY <1>6 DEF Possible
  <2>2. /\ vols'[j.name] = IF j.op = "delete" THEN Nil ELSE j.size
        /\ \A n \in Names : n # j.name => vols'[n] = vols[n]
    BY <1>2, <1>3, <1>6
  <2>3. Fresh' \subseteq Fresh /\ Fresh \subseteq Fresh' \union {j}
    BY <1>3, <1>4, <1>6
  <2> DEFINE k == [j EXCEPT !.made = "live"]
  <2>4. /\ k.name = j.name /\ k.op = j.op /\ k.mapped = j.mapped /\ k.made = "live"
        /\ j.op = "create" => k \in Job
    BY <1>2 DEF Job, JobOf, Handles
  <2>5. /\ Jobs' \subseteq Jobs \union {k} /\ Jobs \subseteq Jobs' \union {j}
        /\ j.op # "create" => Jobs' = Jobs
        /\ j.op = "create" => k \in Jobs'
    <3>1. CASE j.op # "create"
      <4>1. Jobs' = Jobs
        BY <1>0, <1>6, <3>1 DEF Jobs
      <4> QED  BY <3>1, <4>1
    <3>2. CASE j.op = "create"
      <4>1. working'[w] = k /\ \A v \in Workers : v # w => working'[v] = working[v]
        BY <1>1, <1>3, <1>6, <3>2
      <4>2. k # Nil
        BY <2>4, <3>2, NilAssumption
      <4> HIDE DEF k
      <4> QED  BY <1>0, <1>1, <3>2, <4>1, <4>2 DEF Jobs
    <3> QED  BY <3>1, <3>2
  <2> HIDE DEF k
  <2> SUFFICES ASSUME NEW n \in Names PROVE Match(n)'
    BY DEF AllMatch
  <2>6. Match(n) /\ KeepsFile(n)
    BY <1>0 DEF AllMatch, KeepsFile
  <2>7. CASE n # j.name
    <3>1. ~Creates(j, n) /\ ~Deletes(j, n) /\ ~Awaits(j, n) /\ ~Awaits(k, n)
      BY <2>4, <2>7 DEF Creates, Deletes, Awaits
    <3>2. KeepsJobs(n)
      BY <2>3, <2>5, <3>1 DEF KeepsJobs
    <3> QED  BY <1>0, <1>3, <2>2, <2>6, <2>7, <3>2, MatchStays DEF Serving
  <2>8. CASE n = j.name /\ j.op = "resize"
    <3>1. vols[n] # Nil /\ vols'[n] # Nil
      <4>1. j.size \in Sizes
        BY <1>2, <2>8, JobFields
      <4> QED  BY <2>1, <2>2, <2>8, <4>1, NilAssumption
    <3>2. ~Creates(j, n) /\ ~Deletes(j, n) /\ Jobs' = Jobs
      BY <2>5, <2>8 DEF Creates, Deletes
    <3>3. KeepsJobs(n)
      BY <2>3, <3>2 DEF KeepsJobs
    <3> QED  BY <1>0, <1>3, <2>6, <3>1, <3>3, MatchStays DEF Serving
  <2>9. CASE n = j.name /\ j.op = "create"
    <3>1. vols[n] = Nil /\ vols'[n] # Nil
      <4>1. j.size \in Sizes
        BY <1>2, <2>9, JobFields
      <4> QED  BY <2>1, <2>2, <2>9, <4>1, NilAssumption
    <3>2. Creates(j, n) /\ j.mapped /\ ~DelIn(n) /\ files[n] # Nil
      <4>1. Creates(j, n)
        BY <2>1, <2>9 DEF Creates
      <4>2. j.mapped /\ ~DelIn(n)
        BY <1>1, <2>6, <4>1 DEF Match, Asked
      <4> QED  BY <1>2, <2>9, <4>1, <4>2, JobIsMapped
    <3>3. ~DelIn(n)' /\ files'[n] # Nil
      BY <1>0, <1>3, <3>2 DEF Quieter
    <3>4. Heard(n)'
      BY <3>3 DEF Heard
    <3>5. Asked(n)'
      BY <1>0, <2>3, <2>6, <3>3 DEF Match, Asked
    <3>6. Creating(n)'
      BY <2>4, <2>5, <2>9, <3>2 DEF Creating, Awaits
    <3>7. \A i \in Jobs' : Awaits(i, n) /\ i.made = "dead" => i \in Jobs
      BY <2>4, <2>5
    <3>8. Cared(n)'
      BY <1>0, <2>6, <3>3, <3>6, <3>7 DEF Match, Cared
    <3> QED  BY <3>4, <3>5, <3>8 DEF Match
  <2>10. CASE n = j.name /\ j.op = "delete"
    <3>1. vols'[n] = Nil /\ Jobs' = Jobs
      BY <2>2, <2>5, <2>10
    <3>2. Deletes(j, n) /\ files[n] = Nil
      <4>1. Deletes(j, n)
        BY <2>1, <2>10 DEF Deletes
      <4> QED  BY <1>1, <2>6, <4>1 DEF Match, Asked
    <3>3. Heard(n)'
      BY <1>0, <1>3, <2>6, <3>1, <3>2 DEF Match, Heard, Quieter, Serving
    <3>4. Asked(n)'
      BY <1>0, <1>3, <2>3, <2>6 DEF Match, Asked, Quieter
    <3>5. Cared(n)'
      BY <1>0, <2>6, <3>1, <3>2 DEF Match, Cared
    <3> QED  BY <3>3, <3>4, <3>5 DEF Match
  <2> QED  BY <1>2, <2>7, <2>8, <2>9, <2>10, JobFields
<1>7. ~Spend("error")
  BY <1>0 DEF Spend, TypeOK, Faults
<1> QED  BY <1>1, <1>5, <1>6, <1>7 DEF Process

LEMMA MatchWorker ==
  ASSUME IndInv, SafeInv, AllMatch, NEW w \in Workers, Take(w) \/ Process(w) \/ HandOver(w),
         budget'["error"] = budget["error"]
  PROVE  AllMatch'
<1>1. CASE Take(w) \/ HandOver(w)
  <2> SUFFICES ASSUME NEW n \in Names PROVE Match(n)'
    BY DEF AllMatch
  <2>1. UNCHANGED <<watch, vols, proc, pool, files>> /\ Match(n)
    BY <1>1 DEF Take, HandOver, storeVars, toldVars, linkVars, AllMatch
  <2>2. Fresh' = Fresh /\ Jobs' = Jobs
    BY <1>1, FreshTake, FreshHandOver
  <2>3. KeepsFile(n) /\ KeepsJobs(n) /\ Quieter(n)
    BY <2>1, <2>2, KeepsSameJobs, QuieterSame DEF KeepsFile
  <2> QED  BY <2>1, <2>3, MatchStays DEF Serving
<1> QED  BY <1>1, MatchProcess

(* An idle daemon has the volumes of its files and no others, so that what *)
(* a user does next finds them as it should.                               *)
LEMMA MatchUser ==
  ASSUME IndInv, SafeInv, AllMatch, NEW n \in Names, Idle,
         UserCreate(n) \/ UserModify(n) \/ UserDelete(n)
  PROVE  AllMatch'
<1>1. /\ TypeOK /\ UNCHANGED <<vols, proc, pool, files, queueVars>> /\ watch = <<>> /\ proc = "run"
      /\ pool = "live" /\ Serving /\ Serving'
  BY DEF IndInv, UserCreate, UserModify, UserDelete, Idle, Serving, linkVars
<1>2. Fresh = {} /\ Jobs = {} /\ Fresh' = {} /\ Jobs' = {}
  <2>1. Fresh = {} /\ Jobs = {}
    BY DEF Idle, Fresh, Jobs
  <2> QED  BY <1>1, <2>1, JobsRest
<1>3. PICK e : watch' = <<e>>
  <2>1. \E e : Notify(e)
    BY DEF UserCreate, UserModify, UserDelete
  <2> QED  BY <1>1, <2>1 DEF Notify
<1> SUFFICES ASSUME NEW m \in Names PROVE Match(m)'
  BY DEF AllMatch
<1>4. /\ files[m] = Nil => vols[m] = Nil
      /\ files[m] # Nil => files[m].vol = "live" /\ vols[m] # Nil
  <2>1. Cared(m)
    BY DEF AllMatch, Match
  <2>2. files[m] # Nil => files[m].vol = "live"
    BY <1>1, <1>2, <2>1 DEF Cared, Creating
  <2>3. files[m] = Nil => vols[m] = Nil
    BY <1>1, <1>2, <2>1 DEF Cared
  <2> QED  BY <2>2, <2>3 DEF SafeInv, VolInv, Used, HasVol
<1>5. DelIn(m)' => ~AddIn(m)'
  <2>1. \A i \in About(watch', m) : watch'[i] = e
    BY <1>3 DEF About
  <2> QED  BY <2>1 DEF DelIn, AddIn, Begins, Ends
<1> QED  BY <1>1, <1>2, <1>4, <1>5 DEF Match, Heard, Asked, Cared

-----------------------------------------------------------------------------
(* Every step.                                                             *)

LEMMA ErrorFalls ==
  ASSUME TypeOK, TypeOK', [Next]_vars
  PROVE  budget'["error"] <= budget["error"]
<1>1. /\ budget \in [Faults -> Nat] /\ budget' \in [Faults -> Nat] /\ "error" \in Faults
  BY DEF TypeOK, Faults
<1>2. CASE UNCHANGED budget
  BY <1>1, <1>2
<1>3. CASE \E f \in Faults : Spend(f)
  BY <1>1, <1>3 DEF Spend
<1>4. CASE \E n \in Names : UserModify(n)
  <2>1. PICK b : budget' = [budget EXCEPT !["user"] = @ - 1, !["move"] = IF b THEN @ - 1 ELSE @]
    BY <1>4 DEF UserModify
  <2> QED  BY <1>1, <2>1
<1>5. CASE RefreshSizes
  <2>1. UNCHANGED budget
        \/ \E bad \in SUBSET Held : budget' = [budget EXCEPT !["error"] = @ - Cardinality(bad \ Gone)]
    BY <1>5 DEF RefreshSizes, PanicInLoop
  <2>2. ASSUME NEW bad \in SUBSET Held, budget' = [budget EXCEPT !["error"] = @ - Cardinality(bad \ Gone)]
        PROVE  budget'["error"] <= budget["error"]
    <3>1. IsFiniteSet(bad \ Gone)
      BY ConstantsAssumption, FS_Subset DEF Held, Mapped
    <3>2. Cardinality(bad \ Gone) \in Nat
      BY <3>1, FS_CardinalityType
    <3> QED  BY <1>1, <2>2, <3>2
  <2>3. CASE UNCHANGED budget
    BY <1>1, <2>3
  <2> QED  BY <2>1, <2>2, <2>3
<1>6. CASE Boot \/ LoadFileResources \/ UNCHANGED vars
  BY <1>2, <1>6 DEF Boot, LoadFileResources, vars
<1>7. CASE Connect \/ ConnectFailed \/ Tick
  BY <1>2, <1>7 DEF Connect, ConnectFailed, Panic, Tick
<1>8. CASE WatchEvent \/ FinishJob
  <2>1. Panic => UNCHANGED budget
    BY DEF Panic
  <2>2. Ignore => UNCHANGED budget
    BY DEF Ignore
  <2>3. ASSUME NEW e, AddFile(e) \/ ModifyFile(e) \/ DeleteFile(e)
        PROVE  UNCHANGED budget
    BY <2>1, <2>2, <2>3 DEF AddFile, ModifyFile, DeleteFile
  <2>4. UNCHANGED budget
    BY <1>8, <2>1, <2>3 DEF WatchEvent, FinishJob
  <2> QED  BY <1>2, <2>4
<1>9. CASE PoolLoadFails \/ PoolReady
  <2>1. UNCHANGED budget \/ \E f \in Faults : Spend(f)
    BY <1>9 DEF PoolLoadFails, PoolReady, LoadVolumes, PanicInLoop, Faults
  <2> QED  BY <1>2, <1>3, <2>1
<1>10. CASE \E w \in Workers : Take(w) \/ Process(w) \/ HandOver(w)
  <2>1. UNCHANGED budget \/ \E f \in Faults : Spend(f)
    BY <1>10 DEF Take, Process, HandOver, Faults
  <2> QED  BY <1>2, <1>3, <2>1
<1>11. CASE ConnLost \/ Kill \/ WatchEOF \/ \E n \in Names : UserCreate(n) \/ UserDelete(n) \/ Outage(n)
  <2>1. \E f \in Faults : Spend(f)
    BY <1>11 DEF ConnLost, Kill, WatchEOF, UserCreate, UserDelete, Outage, Faults
  <2> QED  BY <1>3, <2>1
<1>12. CASE \E n \in Names : OutageEnds(n)
  BY <1>2, <1>12 DEF OutageEnds
<1> QED
  BY <1>4, <1>5, <1>6, <1>7, <1>8, <1>9, <1>10, <1>11, <1>12 DEF Next, MainLoop

(* The main loop serves until it panics.                                   *)
LEMMA StaysServing ==
  ASSUME MainLoop
  PROVE  Serving /\ (Serving' \/ Forget)
<1>1. Serving
  BY DEF MainLoop, WatchEvent, WatchEOF, Connect, ConnectFailed, PoolLoadFails, PoolReady,
     Tick, FinishJob, RefreshSizes, Serving
<1>2. CASE WatchEvent
  <2>1. PICK e : AddFile(e) \/ ModifyFile(e) \/ DeleteFile(e)
    BY <1>2 DEF WatchEvent
  <2>2. proc = "run"
    BY <1>2 DEF WatchEvent
  <2>3. Serving' \/ Forget
    BY <2>1, <2>2 DEF AddFile, ModifyFile, DeleteFile, Ignore, Panic, Serving
  <2> QED  BY <1>1, <2>3
<1>3. CASE FinishJob
  BY <1>1, <1>3 DEF FinishJob, Panic, Serving
<1>4. CASE RefreshSizes
  BY <1>1, <1>4 DEF RefreshSizes, PanicInLoop, Serving
<1>5. CASE PoolReady
  BY <1>1, <1>5 DEF PoolReady, PanicInLoop, Serving
<1>6. CASE WatchEOF \/ Connect \/ ConnectFailed \/ PoolLoadFails \/ Tick
  BY <1>1, <1>6 DEF WatchEOF, Connect, ConnectFailed, Panic, PoolLoadFails, Tick, Serving
<1> QED  BY <1>2, <1>3, <1>4, <1>5, <1>6 DEF MainLoop

LEMMA NoLinkStep ==
  ASSUME NoLinkYet, [Next]_vars
  PROVE  NoLinkYet'
<1>1. CASE Forget
  BY <1>1 DEF Forget, NoLinkYet
<1>2. CASE Serving'
  BY <1>2 DEF NoLinkYet, Serving
<1>3. CASE UNCHANGED link /\ (proc' = proc \/ proc = "down")
  BY <1>3 DEF NoLinkYet
<1>4. CASE ConnLost
  BY <1>4 DEF ConnLost, NoLinkYet
<1>5. CASE MainLoop
  BY <1>1, <1>2, <1>5, StaysServing
<1>6. CASE Boot \/ LoadFileResources \/ UNCHANGED vars \/ Kill
  BY <1>1, <1>2, <1>3, <1>6 DEF Boot, LoadFileResources, linkVars, vars, Kill, Serving
<1>7. CASE \E w \in Workers : Take(w) \/ Process(w) \/ HandOver(w)
  BY <1>3, <1>7 DEF Take, Process, HandOver, linkVars
<1>8. CASE \E n \in Names : UserCreate(n) \/ UserModify(n) \/ UserDelete(n)
  BY <1>3, <1>8 DEF UserCreate, UserModify, UserDelete, linkVars
<1>9. CASE \E n \in Names : Outage(n) \/ OutageEnds(n)
  BY <1>3, <1>9 DEF Outage, OutageEnds, linkVars
<1> QED  BY <1>4, <1>5, <1>6, <1>7, <1>8, <1>9 DEF Next

LEMMA MatchStep ==
  ASSUME IndInv, SpecInv, ViewInv, SafeInv, MatchInv, [Next]_vars
  PROVE  MatchInv'
<1>1. TypeOK /\ TypeOK' /\ SafeInv' /\ ViewInv' /\ NoLinkYet /\ NoLinkYet'
  BY StepInv, SafeStep, ViewStep, NoLinkStep DEF IndInv, MatchInv
<1>2. /\ budget["eof"] \in Nat /\ budget["move"] \in Nat /\ budget["error"] \in Nat
      /\ budget'["eof"] \in Nat /\ budget'["move"] \in Nat /\ budget'["error"] \in Nat
      /\ WatchEOFs \in Nat /\ Moves \in Nat /\ OpErrors \in Nat
  BY <1>1, ConstantsAssumption DEF TypeOK, Faults
<1>3. /\ budget'["eof"] <= budget["eof"] /\ budget'["move"] <= budget["move"]
      /\ budget'["error"] <= budget["error"] /\ (WatchEOF => budget'["eof"] < budget["eof"])
  BY <1>1, BudgetFalls, ErrorFalls
<1>4. /\ budget'["error"] <= OpErrors
      /\ Calm' => Calm /\ budget'["error"] = budget["error"] /\ ~WatchEOF
  BY <1>2, <1>3 DEF ViewInv, MatchInv, Calm, Quiet, NoErrors
<1> SUFFICES ASSUME Calm', proc' # "down" PROVE AllMatch'
  BY <1>1, <1>4 DEF MatchInv
<1>5. Calm /\ budget'["error"] = budget["error"] /\ ~WatchEOF /\ Manners = "idle"
  BY <1>4 DEF Calm
<1>6. CASE Boot
  BY <1>1, <1>6, MatchBoot
<1>7. CASE UNCHANGED vars
  <2>1. UNCHANGED <<watch, vols, proc, pool, files, queueVars>>
    BY <1>7 DEF vars, storeVars, toldVars, linkVars
  <2> QED  BY <1>5, <2>1, QuieterSame, MatchRests DEF MatchInv, Serving
<1>8. CASE ~Boot /\ Next
  <2>1. proc # "down"
    <3>1. MainLoop \/ LoadFileResources => proc # "down"
      BY StaysServing DEF LoadFileResources, Serving
    <3>2. Kill => proc' = "down"
      BY DEF Kill, Forget
    <3>3. ConnLost => proc' = proc
      BY DEF ConnLost
    <3>4. \A w \in Workers : Take(w) \/ Process(w) \/ HandOver(w) => proc' = proc
      BY DEF Take, Process, HandOver
    <3>5. \A n \in Names : UserCreate(n) \/ UserModify(n) \/ UserDelete(n) \/ Outage(n) \/ OutageEnds(n)
            => proc' = proc
      BY DEF UserCreate, UserModify, UserDelete, Outage, OutageEnds
    <3> QED  BY <1>8, <3>1, <3>2, <3>3, <3>4, <3>5 DEF Next
  <2>2. AllMatch /\ AllView
    BY <1>5, <2>1 DEF MatchInv, ViewInv, Calm
  <2>3. CASE LoadFileResources
    BY <1>1, <2>2, <2>3, MatchLoadFiles
  <2>4. CASE WatchEvent
    BY <2>2, <2>4, MatchWatchEvent
  <2>5. CASE Connect \/ PoolLoadFails \/ Tick
    <3>1. UNCHANGED <<watch, vols, pool, files, queueVars>> /\ Serving /\ Serving'
      BY <2>5 DEF Connect, PoolLoadFails, Tick, storeVars, toldVars, linkVars, Serving
    <3> QED  BY <2>2, <3>1, QuieterSame, MatchRests
  <2>6. CASE ConnLost \/ ConnectFailed \/ PoolReady
    BY <1>1, <1>5, <2>2, <2>6, MatchConnLost, MatchConnectFailed, MatchPoolReady
  <2>7. CASE FinishJob \/ RefreshSizes
    BY <1>5, <2>2, <2>7, MatchFinishJob, MatchRefresh
  <2>8. CASE \E w \in Workers : Take(w) \/ Process(w) \/ HandOver(w)
    BY <1>5, <2>2, <2>8, MatchWorker
  <2>9. CASE \E n \in Names : UserCreate(n) \/ UserModify(n) \/ UserDelete(n)
    <3>1. PICK n \in Names : UserCreate(n) \/ UserModify(n) \/ UserDelete(n)
      BY <2>9
    <3>2. Idle
      BY <1>5, <3>1 DEF UserCreate, UserModify, UserDelete, MayAct
    <3> QED  BY <2>2, <3>1, <3>2, MatchUser
  <2>10. ~Kill
    BY DEF Kill, Forget
  <2>11. CASE \E n \in Names : Outage(n) \/ OutageEnds(n)
    <3>1. UNCHANGED <<watch, vols, pool, files, queueVars>> /\ (Serving' <=> Serving)
      BY <2>11 DEF Outage, OutageEnds, linkVars, Serving
    <3> QED  BY <2>2, <3>1, QuieterSame, MatchRests
  <2> QED  BY <1>5, <1>8, <2>3, <2>4, <2>5, <2>6, <2>7, <2>8, <2>9, <2>10, <2>11 DEF Next, MainLoop
<1> QED  BY <1>6, <1>7, <1>8

LEMMA MatchAlways == Spec => [](IndInv /\ SpecInv /\ ViewInv /\ SafeInv /\ MatchInv)
<1>1. Init => MatchInv
  <2>1. SUFFICES ASSUME Init PROVE MatchInv
    OBVIOUS
  <2>2. budget["error"] = OpErrors /\ proc = "down" /\ link = "down"
    BY <2>1 DEF Init, Faults
  <2> QED  BY <2>2, ConstantsAssumption DEF MatchInv, NoLinkYet
<1>2. IndInv /\ SpecInv /\ ViewInv /\ SafeInv /\ MatchInv /\ [Next]_vars => MatchInv'
  BY MatchStep
<1> QED  BY <1>1, <1>2, ViewAlways, Safe, PTL DEF Spec

(* Where users wait for an idle daemon before they act, the watch has not  *)
(* ended and no file has changed repositories, an idle daemon has brought  *)
(* the volumes in step with the objects: whatever connections were lost,   *)
(* creations and deletions overtaken and processes killed on the way, none *)
(* is missing and none is left over (loadVolumes, AddFile, DeleteFile,     *)
(* jobVolumeCreate, jobVolumeDelete).                                      *)
THEOREM IdleVolumesMatch ==
  Spec => [](Manners = "idle" /\ Quiet => VolumesMatch)
<1>1. ASSUME IndInv, ViewInv, SafeInv, MatchInv, Manners = "idle", Quiet, Idle, NoErrors
      PROVE  \A n \in Names : vols[n] # Nil <=> Ours(n)
  <2>1. Calm /\ proc = "run" /\ pool = "live" /\ watch = <<>>
    BY <1>1 DEF Calm, Idle
  <2>2. Fresh = {} /\ Jobs = {}
    BY <1>1 DEF Idle, Fresh, Jobs
  <2> SUFFICES ASSUME NEW n \in Names PROVE vols[n] # Nil <=> Ours(n)
    OBVIOUS
  <2>3. Cared(n) /\ View(n, watch, api[n], files[n])
    BY <1>1, <2>1 DEF MatchInv, AllMatch, Match, ViewInv, AllView
  <2>4. files[n] # Nil <=> Ours(n)
    <3>1. About(watch, n) = {}
      BY <2>1 DEF About
    <3> QED  BY <2>3, <3>1 DEF View, Known, Leaves, IsOurs, Ours
  <2>5. files[n] # Nil => vols[n] # Nil
    <3>1. files[n] # Nil => files[n].vol = "live"
      BY <2>1, <2>2, <2>3 DEF Cared, Creating
    <3> QED  BY <1>1, <3>1 DEF SafeInv, VolInv, Used, HasVol
  <2>6. files[n] = Nil => vols[n] = Nil
    BY <2>1, <2>2, <2>3 DEF Cared
  <2> QED  BY <2>4, <2>5, <2>6
<1>2. IndInv /\ ViewInv /\ SafeInv /\ MatchInv => (Manners = "idle" /\ Quiet => VolumesMatch)
  BY <1>1 DEF VolumesMatch
<1> QED  BY <1>2, MatchAlways, PTL

-----------------------------------------------------------------------------
(* The safety half of Recovers.                                            *)

PoolInv == NoErrors /\ link = "up" => pool = "live" \/ loads["live"] = 1

LEMMA PoolStep ==
  ASSUME IndInv, SafeInv, MatchInv, PoolInv, [Next]_vars
  PROVE  PoolInv'
<1>1. /\ TypeOK /\ TypeOK'
      /\ budget["error"] \in Nat /\ budget'["error"] \in Nat /\ OpErrors \in Nat
      /\ loads \in [{"live", "dead"} -> Nat]
  BY StepInv, ConstantsAssumption DEF IndInv, MatchInv, TypeOK, Faults
<1>2. budget'["error"] <= budget["error"] /\ budget["error"] <= OpErrors
  BY <1>1, ErrorFalls DEF MatchInv
<1> SUFFICES ASSUME NoErrors', link' = "up" PROVE pool' = "live" \/ loads'["live"] = 1
  BY DEF PoolInv
<1>3. NoErrors /\ budget'["error"] = budget["error"]
  BY <1>1, <1>2 DEF NoErrors
<1>4. ~Forget /\ ~ConnLost
  BY DEF Forget, ConnLost
<1>5. CASE UNCHANGED linkVars
  BY <1>3, <1>5 DEF PoolInv, linkVars
<1>6. CASE Connect
  <2>1. Loading = 0 /\ loads'["live"] = loads["live"] + 1
    BY <1>1, <1>6 DEF Connect, SafeInv, LinkInv
  <2> QED  BY <1>1, <2>1 DEF Loading
<1>7. ~ConnectFailed
  BY <1>4 DEF ConnectFailed, Panic
(* a load does not fail, and while the connection works it is not of an    *)
(* earlier one                                                             *)
<1>8. CASE PoolLoadFails \/ PoolReady
  <2>1. link = "up" /\ (pool = "live" \/ loads["live"] = 1)
    <3>1. link' = link
      BY <1>4, <1>8 DEF PoolLoadFails, PoolReady, PanicInLoop
    <3> QED  BY <1>3, <3>1 DEF PoolInv
  <2>2. loads["dead"] = 0
    BY <1>1, <2>1 DEF SafeInv, LinkInv, Loading
  <2>3. ~Spend("error")
    BY <1>1, <1>3 DEF Spend, TypeOK, Faults
  <2>4. ~PoolLoadFails
    BY <1>1, <2>2, <2>3 DEF PoolLoadFails
  <2> QED  BY <1>1, <1>4, <1>8, <2>2, <2>3, <2>4 DEF PoolReady, PanicInLoop
<1>9. CASE WatchEvent
  <2>1. \A e : AddFile(e) \/ ModifyFile(e) \/ DeleteFile(e) => UNCHANGED linkVars
    BY <1>4 DEF AddFile, ModifyFile, DeleteFile, Ignore, Panic
  <2> QED  BY <1>5, <1>9, <2>1 DEF WatchEvent
<1>10. CASE FinishJob \/ RefreshSizes \/ WatchEOF \/ Tick
  BY <1>4, <1>5, <1>10 DEF FinishJob, RefreshSizes, WatchEOF, Tick, Panic, PanicInLoop
<1>11. CASE \E w \in Workers : Take(w) \/ Process(w) \/ HandOver(w)
  BY <1>5, <1>11 DEF Take, Process, HandOver
<1>12. CASE \E n \in Names : UserCreate(n) \/ UserModify(n) \/ UserDelete(n) \/ Outage(n) \/ OutageEnds(n)
  BY <1>5, <1>12 DEF UserCreate, UserModify, UserDelete, Outage, OutageEnds
<1>13. CASE Boot \/ LoadFileResources \/ Kill \/ UNCHANGED vars
  BY <1>4, <1>5, <1>13 DEF Boot, LoadFileResources, Kill, vars
<1> QED
  BY <1>4, <1>6, <1>7, <1>8, <1>9, <1>10, <1>11, <1>12, <1>13 DEF Next, MainLoop

(* What Recovers rests on: as long as no libvirt call has failed on a      *)
(* working connection, a daemon that is connected has its pool or a load   *)
(* of it under way, however often the connection was lost; a daemon that   *)
(* is connected never waits for a pool nobody loads (Service.Run,          *)
(* PoolManager.load).                                                      *)
THEOREM PoolIsComing == Spec => [](NoErrors /\ link = "up" => pool = "live" \/ loads["live"] = 1)
<1>1. Init => PoolInv
  BY DEF Init, PoolInv
<1>2. IndInv /\ SpecInv /\ ViewInv /\ SafeInv /\ MatchInv /\ PoolInv /\ [Next]_vars => PoolInv'
  BY PoolStep
<1>3. Spec => []PoolInv
  BY <1>1, <1>2, MatchAlways, PTL DEF Spec
<1> QED  BY <1>3, PTL DEF PoolInv

-----------------------------------------------------------------------------
(* The connection.                                                         *)

Daemon     == IF proc = "down" THEN "down" ELSE "up"
Connection == INSTANCE Link WITH proc <- Daemon

(* The service has a connection only from the connector, in the order the  *)
(* connector promises (Link), through every exit and panic.                *)
THEOREM ConnectionIsLink == Spec => Connection!Spec
<1>1. Init => Connection!Init
  BY DEF Init, Connection!Init, Daemon
<1>2. IndInv /\ [Next]_vars => [Connection!Next]_<<Daemon, link>>
  <2> SUFFICES ASSUME IndInv, [Next]_vars
               PROVE  [Connection!Next]_<<Daemon, link>>
    OBVIOUS
  <2> USE DEF Connection!Next, Connection!Start, Connection!End, Connection!Ready,
              Connection!Lose, Connection!Failed, Daemon
  <2>1. ASSUME proc # "down", Forget
        PROVE  [Connection!Next]_<<Daemon, link>>
    BY <2>1 DEF Forget
  <2>2. CASE Boot \/ LoadFileResources \/ Connect \/ ConnLost \/ Tick \/ PoolLoadFails \/ WatchEOF
    BY <2>2 DEF Boot, LoadFileResources, Connect, ConnLost, Tick, PoolLoadFails, WatchEOF, linkVars
  <2>3. CASE WatchEvent
    BY <2>1, <2>3 DEF WatchEvent, AddFile, ModifyFile, DeleteFile, Ignore, Panic, linkVars
  <2>4. CASE ConnectFailed
    BY <2>1, <2>4 DEF ConnectFailed, Panic
  <2>5. CASE PoolReady
    <3>1. proc = "run" /\ (Forget \/ (link' = link /\ proc' \in {"run", "drain"}))
      BY <2>5 DEF PoolReady, PanicInLoop
    <3> QED  BY <2>1, <3>1
  <2>6. CASE FinishJob \/ Kill
    BY <2>1, <2>6 DEF FinishJob, Kill, Panic, linkVars
  <2>7. CASE RefreshSizes
    <3>1. proc = "drain" /\ (Forget \/ (link' = link /\ proc' = "run"))
      BY <2>7 DEF RefreshSizes, PanicInLoop, linkVars
    <3> QED  BY <2>1, <3>1
  <2>8. CASE \E w \in Workers : Take(w) \/ Process(w) \/ HandOver(w)
    BY <2>8 DEF Take, Process, HandOver, linkVars
  <2>9. CASE \E n \in Names : UserCreate(n) \/ UserModify(n) \/ UserDelete(n) \/ Outage(n) \/ OutageEnds(n)
    BY <2>9 DEF UserCreate, UserModify, UserDelete, Outage, OutageEnds, linkVars
  <2>10. CASE UNCHANGED vars
    BY <2>10 DEF vars, linkVars
  <2> QED
    BY <2>2, <2>3, <2>4, <2>5, <2>6, <2>7, <2>8, <2>9, <2>10 DEF Next, MainLoop
<1> QED  BY <1>1, <1>2, Safe, PTL DEF Spec, Connection!Spec

=============================================================================
