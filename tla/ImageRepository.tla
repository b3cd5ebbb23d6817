--------------------------- MODULE ImageRepository ---------------------------
(***************************************************************************)
(* The image repository daemon (virtkubeimagerepo): one main loop that     *)
(* keeps the volumes of a libvirt storage pool in step with the            *)
(* Virtimagefile objects of the Kubernetes API server, and JobWorkers      *)
(* goroutines that create, resize and delete the volumes.                  *)
(*                                                                         *)
(*   Service.Run        WatchEvent, WatchEOF, Connect, ConnectFailed,      *)
(*                      PoolReady, Tick: the cases of its select           *)
(*   Repository         AddFile, ModifyFile, DeleteFile, SetPool,          *)
(*                      UnsetPool, Refresh (Tick, FinishJob, RefreshSizes) *)
(*   jobWorker          Take, Process, HandOver                            *)
(*   outside the daemon the users of the API, the API server, libvirtd,    *)
(*                      and the restart of the daemon after it exits       *)
(*                                                                         *)
(* A handler of the main loop is one action, except Refresh, whose drain   *)
(* of the completed jobs interleaves with the workers.  What a handler     *)
(* does to one file commutes with what the others may do to another file   *)
(* meanwhile, see the README.                                              *)
(***************************************************************************)
EXTENDS Integers, Sequences, FiniteSets, SequencesExt

CONSTANTS
  Names,       \* names of the image files
  Sizes,       \* capacities a user may ask for
  Workers,     \* the job workers of the repository
  Nil,         \* a nil pointer, an absent object, volume or job
  UserOps,     \* bound: creations, modifications and deletions by users
  OpErrors,    \* bound: libvirt calls that fail on a working connection
  ConnLosses,  \* bound: times the connection to libvirtd is lost
  WatchEOFs,   \* bound: times the API server ends the watch
  Kills,       \* bound: times the daemon is killed
  PutErrors,   \* bound: times the API server ceases to take the updates of an object
  Manners,     \* when users act: "any" time, on files whose status "shows" the last
               \* change is done, or once the daemon is "idle"
  Moves        \* bound: times users change the repoName of a file

Elsewhere == 0  \* stands for the spec of a file whose repoName is another repository

ASSUME ConstantsAssumption ==
  /\ IsFiniteSet(Names)
  /\ Sizes \subseteq Nat \ {Elsewhere}
  /\ IsFiniteSet(Workers) /\ Workers # {}
  /\ UserOps \in Nat /\ OpErrors \in Nat /\ ConnLosses \in Nat
  /\ WatchEOFs \in Nat /\ Kills \in Nat /\ PutErrors \in Nat
  /\ Manners \in {"any", "shows", "idle"} /\ Moves \in Nat

VARIABLES
  api,        \* API server: the Virtimagefile of each name, or Nil
  revs,       \* API server: the last resourceVersion given to each name
  server,     \* API server: whether it takes the PUTs of each object, and answers them
  watch,      \* events sent on the file monitor and not yet handled
  vols,       \* libvirtd: the capacity of the volume of each name, or Nil
  proc,       \* main loop: down, booted (watch open), run (in select), drain (in Refresh)
  link,       \* s.conn: down (nil), up, lost (not nil, its connection is closed)
  loads,      \* pools on their way to the main loop, by the state of their connection
  pool,       \* r.pool
  files,      \* r.files: Nil or [res: file.resource, vol: file.vol]
  pending,    \* r.pendingJobs
  working,    \* the job each worker has taken, or Nil
  ran,        \* the workers whose job's Process has returned
  completed,  \* r.completedJobs
  budget      \* what is left of each bound

storeVars == <<api, revs, server, watch>>
queueVars == <<pending, working, ran, completed>>
linkVars  == <<link, loads, pool>>
vars == <<storeVars, vols, proc, linkVars, files, queueVars, budget>>

-----------------------------------------------------------------------------
(* Data.  A libvirt handle dies with its connection: calls on it fail.     *)

Specs   == IF Moves > 0 THEN Sizes \union {Elsewhere} ELSE Sizes
Phases  == {"", "Pending", "Available", "Failed"}
Handles == {"nil", "live", "dead"}
Faults  == {"user", "move", "error", "loss", "eof", "kill", "put"}
PutModes == {"takes", "fails", "mute"}     \* mute: it takes the PUT, the answer gets lost

ObjectOf(specs) == [rev : Nat, spec : specs, phase : Phases, cap : Sizes \union {0}]
OurObject == ObjectOf(Sizes)                          \* volRepoMatches
Object    == ObjectOf(Sizes \union {Elsewhere})
Event     == [type : {"Added", "Modified", "Deleted"}, name : Names, obj : Object]
File      == [res : OurObject \union {Nil}, vol : Handles]

(* mapped: j.file is still the entry of r.files; made: the output j.vol.    *)
JobOf(ops, sizes) == [op : ops, name : Names, handle : {"live", "dead"}, size : sizes,
                      mapped : BOOLEAN, made : Handles]
Job == JobOf({"create", "resize"}, Sizes) \union JobOf({"delete"}, {0})

CreateJob(n, h, s) == [op |-> "create", name |-> n, handle |-> h, size |-> s,
                       mapped |-> TRUE, made |-> "nil"]
ResizeJob(n, h, s) == [op |-> "resize", name |-> n, handle |-> h, size |-> s,
                       mapped |-> FALSE, made |-> "nil"]
DeleteJob(n, h)    == [op |-> "delete", name |-> n, handle |-> h, size |-> 0,
                       mapped |-> FALSE, made |-> "nil"]

ASSUME NilAssumption ==
  Nil \notin Sizes /\ Nil \notin Object /\ Nil \notin File /\ Nil \notin Job

NewEvent(t, n, o) == [type |-> t, name |-> n, obj |-> o]

Ours(n)   == api[n] # Nil /\ api[n].spec # Elsewhere      \* volRepoMatches, of the stored object
Mapped    == {n \in Names : files[n] # Nil}               \* the keys of r.files
NoRes     == {n \in Mapped : files[n].res = Nil}          \* entries with a nil resource
NoLoads   == [h \in {"live", "dead"} |-> 0]

Spend(f)  == budget[f] > 0 /\ budget' = [budget EXCEPT ![f] = @ - 1]

-----------------------------------------------------------------------------
(* The API server: optimistic updates of a set of objects, one per name.   *)

(* A PUT needs the current resourceVersion; one that changes nothing gives *)
(* no new version and no event.                                            *)
Accepted(objs) ==
  {n \in DOMAIN objs : server[n] # "fails" /\ api[n] # Nil /\ api[n].rev = objs[n].rev}
Written(objs)  == {n \in Accepted(objs) : api[n] # objs[n]}
Stored(objs, n) == IF n \in Written(objs) THEN [objs[n] EXCEPT !.rev = revs[n] + 1] ELSE objs[n]

Put(objs) ==
  /\ api'  = [n \in Names |-> IF n \in Written(objs) THEN Stored(objs, n) ELSE api[n]]
  /\ revs' = [n \in Names |-> IF n \in Written(objs) THEN revs[n] + 1 ELSE revs[n]]
  /\ UNCHANGED server

PutAndNotify(objs) ==
  /\ Put(objs)
  /\ \E order \in SetToSeqs(Written(objs)) :
       watch' = watch \o [i \in DOMAIN order |->
                            NewEvent("Modified", order[i], Stored(objs, order[i]))]

(* What a PUT hands back when it is answered, and otherwise what the caller *)
(* keeps: its own copy (createFileVolume, loadVolumes) or the nil that     *)
(* Update returned with the error (refreshSizes).                          *)
Answer_Rebased(objs, n, otherwise) ==      \* mutant: after a conflict, only the version is fetched again
  IF n \in Accepted(objs) /\ server[n] # "mute" THEN Stored(objs, n)
  ELSE IF api[n] = Nil THEN otherwise ELSE [objs[n] EXCEPT !.rev = api[n].rev]

Answer(objs, n, otherwise) ==
  IF n \in Accepted(objs) /\ server[n] # "mute" THEN Stored(objs, n) ELSE otherwise

(* A watch without a resourceVersion starts with an ADDED of every object. *)
Present == {n \in Names : api[n] # Nil}
OpenWatch ==
  \E order \in SetToSeqs(Present) :
    watch' = [i \in DOMAIN order |-> NewEvent("Added", order[i], api[order[i]])]

-----------------------------------------------------------------------------
(* The daemon's memory goes when it exits; a panic of any goroutine exits. *)

Forget ==
  /\ proc' = "down" /\ link' = "down" /\ loads' = NoLoads /\ pool' = "nil"
  /\ files' = [n \in Names |-> Nil]
  /\ pending' = <<>> /\ working' = [w \in Workers |-> Nil] /\ ran' = {} /\ completed' = <<>>
  /\ watch' = <<>>

Panic == Forget /\ UNCHANGED <<api, revs, server, vols, budget>>

(* A loop over r.files, in the order the map gives, that panics at a file  *)
(* outside "fine": it has updated some of the fine ones by then, and the   *)
(* workers have run some of the creations it has queued.                   *)
PanicInLoop(objs, fine, queued) ==
  /\ \E S \in SUBSET fine : Put([n \in S |-> objs[n]])
  /\ \E made \in SUBSET queued :
       vols' = [n \in Names |-> IF n \in made THEN objs[n].spec ELSE vols[n]]
  /\ Forget
  /\ UNCHANGED budget

Init ==
  /\ api = [n \in Names |-> Nil] /\ revs = [n \in Names |-> 0] /\ watch = <<>>
  /\ server = [n \in Names |-> "takes"]
  /\ vols = [n \in Names |-> Nil]
  /\ proc = "down" /\ link = "down" /\ loads = NoLoads /\ pool = "nil"
  /\ files = [n \in Names |-> Nil]
  /\ pending = <<>> /\ working = [w \in Workers |-> Nil] /\ ran = {} /\ completed = <<>>
  /\ budget = [f \in Faults |-> CASE f = "user"  -> UserOps
                                  [] f = "move"  -> Moves
                                  [] f = "error" -> OpErrors
                                  [] f = "loss"  -> ConnLosses
                                  [] f = "eof"   -> WatchEOFs
                                  [] f = "kill"  -> Kills
                                  [] f = "put"   -> PutErrors]

(* NewService: the watch is open before Run lists the files.               *)
Boot ==
  /\ proc = "down"
  /\ proc' = "booted"
  /\ OpenWatch
  /\ UNCHANGED <<api, revs, server, vols, linkVars, files, queueVars, budget>>

LoadFileResources ==
  /\ proc = "booted"
  /\ proc' = "run"
  /\ files' = [n \in Names |-> IF Ours(n) THEN [res |-> api[n], vol |-> "nil"] ELSE Nil]
  /\ UNCHANGED <<storeVars, vols, linkVars, queueVars, budget>>

-----------------------------------------------------------------------------
(* The file monitor: handlers of one event e.                              *)

Ignore == /\ watch' = Tail(watch)
          /\ UNCHANGED <<api, revs, server, vols, proc, linkVars, files, queueVars, budget>>

AddFile(e) ==
  LET n    == e.name
      new  == e.obj.spec # Elsewhere /\ files[n] = Nil
      objs == [m \in {n} |-> [e.obj EXCEPT !.phase = "Pending"]]
  IN  \/ ~new /\ Ignore
      \/ new /\ pool = "nil" /\ Panic              \* createFileVolume: r.pool.Ref()
      \/ /\ new /\ pool # "nil"
         /\ pending' = Append(pending, CreateJob(n, pool, e.obj.spec))
         /\ Put(objs)
         /\ watch' = Tail(watch) \o
              (IF n \in Written(objs) THEN <<NewEvent("Modified", n, Stored(objs, n))>> ELSE <<>>)
         /\ files' = [files EXCEPT ![n] = [res |-> Answer(objs, n, objs[n]), vol |-> "nil"]]
         /\ UNCHANGED <<vols, proc, linkVars, working, ran, completed, budget>>

Unseen_Inverted(e) == e.obj.rev = files[e.name].res.rev   \* mutant: the comparison is inverted
Unseen(e)          == e.obj.rev # files[e.name].res.rev

ModifyFile(e) ==
  LET n       == e.name
      mapped  == e.obj.spec # Elsewhere /\ files[n] # Nil
      changed == mapped /\ files[n].res # Nil /\ Unseen(e)
      resized == changed /\ e.obj.spec # files[n].res.spec
  IN  \/ (mapped => files[n].res # Nil) /\ ~changed /\ Ignore
      \/ mapped /\ files[n].res = Nil /\ Panic     \* fileState.resource.Metadata
      \/ resized /\ files[n].vol = "nil" /\ Panic  \* fileState.vol.Ref()
      \/ /\ changed /\ (resized => files[n].vol # "nil")
         /\ watch' = Tail(watch)
         /\ files' = [files EXCEPT ![n].res = e.obj]
         /\ pending' = IF resized
                       THEN Append(pending, ResizeJob(n, files[n].vol, e.obj.spec))
                       ELSE pending
         /\ UNCHANGED <<api, revs, server, vols, proc, linkVars, working, ran, completed, budget>>

(* The file leaves r.files, so that Finish no longer finds it.             *)
Unmap(j, n) == IF j.name = n THEN [j EXCEPT !.mapped = FALSE] ELSE j

DeleteOf_Always(n) == <<DeleteJob(n, files[n].vol)>>      \* mutant: file.vol may be nil
DeleteOf_Never(n)  == <<>>                                \* mutant: the volume is forgotten
DeleteOf(n) == IF files[n].vol = "nil" THEN <<>> ELSE <<DeleteJob(n, files[n].vol)>>

DeleteFile(e) ==
  LET n      == e.name
      mapped == e.obj.spec # Elsewhere /\ files[n] # Nil
      kept   == [i \in DOMAIN pending |-> Unmap(pending[i], n)]
  IN  \/ ~mapped /\ Ignore
      \/ /\ mapped
         /\ watch' = Tail(watch)
         /\ files' = [files EXCEPT ![n] = Nil]
         /\ pending' = kept \o DeleteOf(n)
         /\ working' = [w \in Workers |-> IF working[w] = Nil THEN Nil ELSE Unmap(working[w], n)]
         /\ completed' = [i \in DOMAIN completed |-> Unmap(completed[i], n)]
         /\ UNCHANGED <<api, revs, server, vols, proc, linkVars, ran, budget>>

WatchEvent ==
  /\ proc = "run" /\ watch # <<>>
  /\ LET e == Head(watch)
     IN \/ e.type = "Added" /\ AddFile(e)
        \/ e.type = "Modified" /\ ModifyFile(e)
        \/ e.type = "Deleted" /\ DeleteFile(e)

(* The API server ends the watch; Run opens another one and goes on.  What *)
(* the old one had not delivered is gone.                                  *)
WatchEOF ==
  /\ proc = "run"
  /\ Spend("eof")
  /\ OpenWatch
  /\ UNCHANGED <<api, revs, server, vols, proc, linkVars, files, queueVars>>

-----------------------------------------------------------------------------
(* The connection to libvirtd and the pool.                                *)

(* ConnectReady: connectReady starts PoolManager.load.                     *)
Connect ==
  /\ proc = "run" /\ link = "down"
  /\ link' = "up"
  /\ loads' = [loads EXCEPT !["live"] = @ + 1]
  /\ UNCHANGED <<storeVars, vols, proc, pool, files, queueVars, budget>>

Sever(h)    == IF h = "live" THEN "dead" ELSE h
SeverJob(j) == [j EXCEPT !.handle = Sever(@), !.made = Sever(@)]

(* libvirtd closes the connection: every handle got from it is dead.       *)
ConnLost ==
  /\ link = "up"
  /\ Spend("loss")
  /\ link' = "lost"
  /\ loads' = [h \in {"live", "dead"} |->
                 IF h = "live" THEN 0 ELSE loads["dead"] + loads["live"]]
  /\ pool' = Sever(pool)
  /\ files' = [n \in Names |-> IF files[n] = Nil THEN Nil
                               ELSE [files[n] EXCEPT !.vol = Sever(@)]]
  /\ pending' = [i \in DOMAIN pending |-> SeverJob(pending[i])]
  /\ working' = [w \in Workers |-> IF working[w] = Nil THEN Nil ELSE SeverJob(working[w])]
  /\ completed' = [i \in DOMAIN completed |-> SeverJob(completed[i])]
  /\ UNCHANGED <<storeVars, vols, proc, ran>>

(* connectFailed: UnsetPool, then Refresh.                                 *)
UnsetPanics_Never == FALSE                                \* mutant: nil is checked first
UnsetPanics       == pool = "nil"                         \* r.pool.Free()

ConnectFailed ==
  /\ proc = "run" /\ link = "lost"
  /\ \/ UnsetPanics /\ Panic
     \/ /\ ~UnsetPanics
        /\ link' = "down" /\ pool' = "nil" /\ proc' = "drain"
        /\ files' = [n \in Names |-> IF files[n] = Nil THEN Nil
                                     ELSE [files[n] EXCEPT !.vol = "nil"]]
        /\ UNCHANGED <<storeVars, vols, loads, queueVars, budget>>

(* PoolManager.load got an error and notifies nil.                         *)
PoolLoadFails ==
  /\ proc = "run"
  /\ \/ /\ loads["live"] > 0 /\ Spend("error")
        /\ loads' = [loads EXCEPT !["live"] = @ - 1]
     \/ /\ loads["dead"] > 0 /\ UNCHANGED budget
        /\ loads' = [loads EXCEPT !["dead"] = @ - 1]
  /\ UNCHANGED <<storeVars, vols, proc, link, pool, files, queueVars>>

(* loadVolumes adopts the volumes of the files, queues a creation for the  *)
(* files without one and a deletion for the volumes without a file.        *)
Found == {n \in Mapped : vols[n] # Nil}
Extra_Found == {n \in Names : vols[n] # Nil}              \* mutant: adopted volumes stay listed
Extra_None  == {}                                         \* mutant: leftovers are kept
Extra == {n \in Names \ Mapped : vols[n] # Nil}

LoadedObjects_Early == [n \in Mapped \ NoRes |->          \* mutant: a creation counts once queued
  [files[n].res EXCEPT !.phase = "Available"]]

LoadedObjects == [n \in Mapped \ NoRes |->
  [files[n].res EXCEPT !.phase = IF n \in Found THEN "Available" ELSE "Pending"]]

LoadVolumes ==
  /\ PutAndNotify(LoadedObjects)
  /\ files' = [n \in Names |->
                 IF n \notin Mapped THEN Nil
                 ELSE [res |-> Answer(LoadedObjects, n, LoadedObjects[n]),
                       vol |-> IF n \in Found THEN "live" ELSE files[n].vol]]
  /\ \E creates \in SetToSeqs(Mapped \ Found), deletes \in SetToSeqs(Extra) :
       pending' = pending
                  \o [i \in DOMAIN creates |->
                        CreateJob(creates[i], "live", files[creates[i]].res.spec)]
                  \o [i \in DOMAIN deletes |-> DeleteJob(deletes[i], "live")]
  /\ UNCHANGED <<vols, working, ran, completed, budget>>

(* The main loop takes a pool from the pool manager and, if it has a       *)
(* connection (not necessarily the pool's), calls SetPool; a Refresh       *)
(* follows unless saveRepo fails, also when the volumes cannot be listed.  *)
PoolReady ==
  /\ proc = "run"
  /\ \/ /\ loads["dead"] > 0
        /\ loads' = [loads EXCEPT !["dead"] = @ - 1]
        /\ pool' = IF link = "down" THEN pool ELSE "dead"
        /\ proc' \in IF link = "down" THEN {"run"} ELSE {"run", "drain"}
        /\ UNCHANGED <<storeVars, vols, link, files, queueVars, budget>>
     \/ /\ loads["live"] > 0 /\ Spend("error")        \* ListAllStorageVolumes fails
        /\ loads' = [loads EXCEPT !["live"] = @ - 1]
        /\ pool' = "live" /\ proc' \in {"drain", "run"}
        /\ UNCHANGED <<storeVars, vols, link, files, queueVars>>
     \/ /\ loads["live"] > 0 /\ NoRes = {}
        /\ loads' = [loads EXCEPT !["live"] = @ - 1]
        /\ pool' = "live" /\ proc' \in {"drain", "run"}
        /\ LoadVolumes
        /\ UNCHANGED link
     \/ /\ loads["live"] > 0 /\ NoRes # {}          \* file.resource.Metadata
        /\ PanicInLoop(LoadedObjects, Mapped \ NoRes, Mapped \ (NoRes \union Found))

-----------------------------------------------------------------------------
(* Repository.Refresh.                                                     *)

Tick ==
  /\ proc = "run"
  /\ proc' = "drain"
  /\ UNCHANGED <<storeVars, vols, linkVars, files, queueVars, budget>>

(* Finish of one completed job.                                            *)
FinishJob ==
  /\ proc = "drain" /\ completed # <<>>
  /\ LET j       == Head(completed)
         n       == j.name
         awaited == j.op = "create" /\ j.mapped /\ files[n].vol = "nil"
     IN \/ awaited /\ files[n].res = Nil /\ Panic  \* file.resource.Status
        \/ /\ awaited => files[n].res # Nil
           /\ completed' = Tail(completed)
           /\ files' = IF ~awaited THEN files
                       ELSE [files EXCEPT ![n].vol = j.made,
                                          ![n].res.phase = IF j.made = "nil" THEN "Failed"
                                                           ELSE "Available"]
           /\ UNCHANGED <<storeVars, vols, proc, linkVars, pending, working, ran, budget>>

(* The rest of Refresh, once there is nothing left to drain: refreshSizes  *)
(* reports the capacity of each volume, or Failed for the files in bad,    *)
(* whose GetInfo fails: their handle is dead, their volume gone, or libvirt*)
(* has an error.                                                           *)
Held == {n \in Mapped : files[n].vol # "nil"}
Gone == {n \in Held : files[n].vol = "dead" \/ vols[n] = Nil}

RefreshedObjects(bad) == [n \in Held \ NoRes |->
  IF n \in bad THEN [files[n].res EXCEPT !.phase = "Failed"]
               ELSE [files[n].res EXCEPT !.cap = vols[n]]]

RefreshSizes ==
  /\ proc = "drain" /\ completed = <<>>
  /\ \/ /\ pool # "live"
        /\ proc' = "run"
        /\ UNCHANGED <<storeVars, vols, linkVars, files, queueVars, budget>>
     \/ /\ pool = "live"
        /\ \E bad \in SUBSET Held :
             /\ Gone \subseteq bad
             /\ Cardinality(bad \ Gone) <= budget["error"]
             /\ \/ /\ Held \intersect NoRes # {}         \* file.resource.Status
                   /\ PanicInLoop(RefreshedObjects(bad), Held \ NoRes, {})
                \/ /\ Held \intersect NoRes = {}
                   /\ PutAndNotify(RefreshedObjects(bad))
                   /\ files' = [n \in Names |->
                        IF n \notin Held THEN files[n]
                        ELSE [res |-> Answer(RefreshedObjects(bad), n, Nil),
                              vol |-> IF n \in bad THEN "nil" ELSE files[n].vol]]
                   /\ budget' = [budget EXCEPT !["error"] = @ - Cardinality(bad \ Gone)]
                   /\ proc' = "run"
                   /\ UNCHANGED <<vols, linkVars, queueVars>>

-----------------------------------------------------------------------------
(* jobWorker.                                                              *)

Take(w) ==
  /\ working[w] = Nil /\ pending # <<>>
  /\ working' = [working EXCEPT ![w] = Head(pending)]
  /\ pending' = Tail(pending)
  /\ UNCHANGED <<storeVars, vols, proc, linkVars, files, ran, completed, budget>>

Possible_Adopts(j) ==                                     \* mutant: create adopts an old volume
  j.handle = "live" /\ (j.op = "create" \/ vols[j.name] # Nil)

(* The libvirt call of job j fails on a dead handle, on a volume that      *)
(* exists (create) or does not (resize, delete), or for its own reasons.   *)
Possible(j) == j.handle = "live" /\ (j.op = "create" <=> vols[j.name] = Nil)

Process(w) ==
  /\ working[w] # Nil /\ w \notin ran
  /\ ran' = ran \union {w}
  /\ LET j == working[w]
     IN \/ /\ Possible(j)
           /\ vols' = [vols EXCEPT ![j.name] = IF j.op = "delete" THEN Nil ELSE j.size]
           /\ working' = IF j.op = "create" THEN [working EXCEPT ![w].made = "live"] ELSE working
           /\ UNCHANGED budget
        \/ /\ IF Possible(j) THEN Spend("error") ELSE UNCHANGED budget
           /\ UNCHANGED <<vols, working>>
  /\ UNCHANGED <<storeVars, proc, linkVars, files, pending, completed>>

HandOver(w) ==
  /\ w \in ran
  /\ completed' = Append(completed, working[w])
  /\ working' = [working EXCEPT ![w] = Nil]
  /\ ran' = ran \ {w}
  /\ UNCHANGED <<storeVars, vols, proc, linkVars, files, pending, budget>>

-----------------------------------------------------------------------------
(* Users and outages of the API, and the end of the daemon.                *)

Notify(e) == watch' = IF proc = "down" THEN watch ELSE Append(watch, e)

(* Nothing is left for the daemon to do until somebody acts.               *)
Idle == /\ proc = "run" /\ pool = "live" /\ watch = <<>>
        /\ pending = <<>> /\ completed = <<>> /\ \A w \in Workers : working[w] = Nil

MayAct(n) == CASE Manners = "any"   -> TRUE
               [] Manners = "shows" -> api[n] # Nil => api[n].phase = "Available" /\ api[n].cap = api[n].spec
               [] Manners = "idle"  -> Idle

UserCreate(n) ==
  /\ api[n] = Nil /\ MayAct(n)
  /\ Spend("user")
  /\ \E s \in Specs :
       LET o == [rev |-> revs[n] + 1, spec |-> s, phase |-> "", cap |-> 0]
       IN api' = [api EXCEPT ![n] = o] /\ Notify(NewEvent("Added", n, o))
  /\ revs' = [revs EXCEPT ![n] = @ + 1]
  /\ UNCHANGED <<server, vols, proc, linkVars, files, queueVars>>

UserModify(n) ==
  /\ api[n] # Nil /\ MayAct(n)
  /\ budget["user"] > 0
  /\ \E s \in Specs \ {api[n].spec} :
       LET o    == [api[n] EXCEPT !.rev = revs[n] + 1, !.spec = s]
           move == Elsewhere \in {s, api[n].spec}
       IN /\ api' = [api EXCEPT ![n] = o] /\ Notify(NewEvent("Modified", n, o))
          /\ move => budget["move"] > 0
          /\ budget' = [budget EXCEPT !["user"] = @ - 1, !["move"] = IF move THEN @ - 1 ELSE @]
  /\ revs' = [revs EXCEPT ![n] = @ + 1]
  /\ UNCHANGED <<server, vols, proc, linkVars, files, queueVars>>

UserDelete(n) ==
  /\ api[n] # Nil /\ MayAct(n)
  /\ Spend("user")
  /\ api' = [api EXCEPT ![n] = Nil]
  /\ Notify(NewEvent("Deleted", n, api[n]))
  /\ UNCHANGED <<revs, server, vols, proc, linkVars, files, queueVars>>

(* For a while the daemon's updates of an object fail, or their answers.   *)
Outage(n) ==
  /\ server[n] = "takes" /\ Spend("put")
  /\ \E s \in PutModes \ {"takes"} : server' = [server EXCEPT ![n] = s]
  /\ UNCHANGED <<api, revs, watch, vols, proc, linkVars, files, queueVars>>

OutageEnds(n) ==
  /\ server[n] # "takes"
  /\ server' = [server EXCEPT ![n] = "takes"]
  /\ UNCHANGED <<api, revs, watch, vols, proc, linkVars, files, queueVars, budget>>

Kill ==
  /\ proc # "down"
  /\ Spend("kill")
  /\ Forget
  /\ UNCHANGED <<api, revs, server, vols>>

MainLoop == WatchEvent \/ WatchEOF \/ Connect \/ ConnectFailed \/ PoolLoadFails \/ PoolReady
            \/ Tick \/ FinishJob \/ RefreshSizes

Next ==
  \/ Boot \/ LoadFileResources \/ MainLoop
  \/ \E w \in Workers : Take(w) \/ Process(w) \/ HandOver(w)
  \/ \E n \in Names : UserCreate(n) \/ UserModify(n) \/ UserDelete(n) \/ Outage(n) \/ OutageEnds(n)
  \/ ConnLost \/ Kill

(* select picks at random among the ready cases, so a case that is ready   *)
(* again and again is taken (SF); the workers and the restart of the       *)
(* daemon only need to be scheduled (WF).  Outages of the API server end.  *)
Fairness ==
  /\ WF_vars(Boot) /\ WF_vars(LoadFileResources) /\ \A n \in Names : WF_vars(OutageEnds(n))
  /\ SF_vars(WatchEvent) /\ SF_vars(Connect) /\ SF_vars(ConnectFailed) /\ SF_vars(PoolReady)
  /\ SF_vars(Tick) /\ WF_vars(FinishJob) /\ WF_vars(RefreshSizes)
  /\ \A w \in Workers : WF_vars(Take(w)) /\ WF_vars(Process(w)) /\ WF_vars(HandOver(w))

Spec     == Init /\ [][Next]_vars
FairSpec == Spec /\ Fairness
-----------------------------------------------------------------------------
(* Properties.                                                             *)

(* The state has its type: in particular every event is about a whole      *)
(* object and every job names a file.                                      *)
TypeOK ==
  /\ api \in [Names -> Object \union {Nil}]
  /\ revs \in [Names -> Nat]
  /\ server \in [Names -> PutModes]
  /\ watch \in Seq(Event)
  /\ vols \in [Names -> Sizes \union {Nil}]
  /\ proc \in {"down", "booted", "run", "drain"}
  /\ link \in {"down", "up", "lost"}
  /\ loads \in [{"live", "dead"} -> Nat]
  /\ pool \in Handles
  /\ files \in [Names -> File \union {Nil}]
  /\ pending \in Seq(Job)
  /\ working \in [Workers -> Job \union {Nil}]
  /\ ran \in SUBSET Workers
  /\ completed \in Seq(Job)
  /\ budget \in [Faults -> Nat]

(* Deletions of the volume of n whose libvirt call is still to come.       *)
Deleting(n) == Cardinality({i \in DOMAIN pending : pending[i] = DeleteJob(n, "live")})
             + Cardinality({w \in Workers \ ran : working[w] = DeleteJob(n, "live")})

(* A volume the daemon has a usable handle of exists, whatever jobs are    *)
(* under way, and no job is about to delete it: uploads, downloads and     *)
(* refreshes that find file.vol set find the volume.                       *)
HeldVolumeSafe ==
  \A n \in Names : files[n] # Nil /\ files[n].vol = "live" =>
    vols[n] # Nil /\ Deleting(n) = 0

(* At most one deletion of a volume is ever queued and the volume is still *)
(* there for it: a deletion that could run late, after the file was added  *)
(* again, would destroy the data of the new file.                          *)
DeleteOnce ==
  \A n \in Names : Deleting(n) <= 1 /\ (Deleting(n) = 1 => vols[n] # Nil)

(* Only users change the spec of an object: an update the daemon makes     *)
(* from its cached copy never takes a user's change back.                  *)
DaemonKeepsSpecs ==
  [][budget'["user"] = budget["user"] =>
       \A n \in Names : api[n] # Nil => api'[n] # Nil /\ api'[n].spec = api[n].spec]_vars

Promise == INSTANCE Volumes WITH stored <- {n \in Names : vols[n] # Nil},
                                 held <- {n \in Mapped : files[n].vol = "live"}

(* The promise VolumeStream relies on: through jobs, reloads and           *)
(* reconnects, a handle becomes usable only while its volume exists, and   *)
(* no volume goes before its handle has been given up.                     *)
IsVolumes == Promise!Spec

(* r.files holds exactly the API's objects of this repository, with their  *)
(* specs.                                                                  *)
Agrees ==
  \A n \in Names :
    /\ files[n] # Nil <=> Ours(n)
    /\ files[n] # Nil /\ files[n].res # Nil => files[n].res.spec = api[n].spec

(* Once the daemon has handled every event of an unbroken watch, its view  *)
(* agrees with the API, unless a file has changed repositories.            *)
ViewAgrees ==
  proc = "run" /\ watch = <<>> /\ budget["eof"] = WatchEOFs /\ budget["move"] = Moves => Agrees

(* docs/storage.txt has the daemon "monitor" the files that reference the  *)
(* repository: its view agrees with the API also after the watch has ended *)
(* and been opened again.                                                  *)
ViewSurvives == proc = "run" /\ watch = <<>> => Agrees

(* An object that an idle daemon shows as Available has its volume: a      *)
(* creation that fails after its handler has returned, or on a connection  *)
(* that is gone, does not end up shown as a success.                       *)
AvailableExists ==
  Idle => \A n \in Names : Ours(n) /\ api[n].phase = "Available" => vols[n] # Nil

(* A pool that reaches the main loop finds the daemon with a connection:   *)
(* a stale pool never waits for the next connection and takes the place of *)
(* the pool of that one, which nothing would repair.                       *)
PoolHasConnection == loads["live"] + loads["dead"] <= IF link = "down" THEN 0 ELSE 1

NoErrors == budget["error"] = OpErrors

(* docs/storage.txt: the volumes correspond with the objects, as long as   *)
(* no libvirt call fails on a working connection.                          *)
VolumesMatch == Idle /\ NoErrors => \A n \in Names : vols[n] # Nil <=> Ours(n)

(* An idle daemon has brought every volume to the capacity its object asks *)
(* for (the status capacity "may different from spec capacity if a resize  *)
(* is pending", virtimagefile.go).                                         *)
SizesMatch == Idle => \A n \in Names : Ours(n) /\ vols[n] # Nil => vols[n] = api[n].spec

(* After the last fault the daemon comes back: it runs, for good, with a   *)
(* pool it can use - unless a call fails: a failed load is not repeated.   *)
Recovers == <>[](NoErrors => proc # "down" /\ pool = "live")

(* The volumes end up as the objects say, through restarts and reconnects. *)
Converges == <>[](NoErrors => \A n \in Names : vols[n] # Nil <=> Ours(n))

=============================================================================
