------------------------------ MODULE RepoStatus ------------------------------
(***************************************************************************)
(* What an image repository shows of itself: the phase in the status of    *)
(* its Virtimagerepo object, from the start of the daemon, over the        *)
(* connections to libvirtd and the loads of the storage pool, to the PUT   *)
(* that publishes it.  The files and their volumes are in ImageRepository. *)
(*                                                                         *)
(*   NewService        StartRepo                                           *)
(*   PoolManager       Connected (Load), LookupPool, CreatePool,           *)
(*                     CheckPool, StartPool                                *)
(*   Service.Run       Connected, Failed, TakePool, Tick                   *)
(*   Repository        SetPool, UnsetPool, Refresh, and saveRepo in Save   *)
(*                                                                         *)
(* A handler is one action, except that SetPool and the Refresh after it   *)
(* are two, as a user may write between their PUTs.  A name whose escaped  *)
(* form differs, any with a dot in it, is a dotted name.                   *)
(***************************************************************************)
EXTENDS Registration

CONSTANTS
  Repo,         \* the daemon of the image repository
  UserEdits,    \* bound: changes of its object by users
  ConnLosses,   \* bound: times the connection is lost
  LoadErrors,   \* bound: calls that load the pool, over a connection that works, and fail
  InfoErrors,   \* bound: calls that ask the pool, and fail
  SaveErrors    \* bound: PUTs of the object that fail or whose answer is lost

ASSUME RepoAssumption ==
  /\ Repo \in Daemons
  /\ {UserEdits, ConnLosses, LoadErrors, InfoErrors, SaveErrors} \subseteq Nat

VARIABLES
  dotted,   \* whether EscapeObjectName changes the name of the repository
  api,      \* API server: the phase and the users' edits of the Virtimagerepo
  copy,     \* r.resource
  fresh,    \* whether copy has the current version
  stored,   \* libvirtd: the pool under the escaped name: absent, inactive, active
  link,     \* s.conn: down (nil), up, lost (not nil, its connection is closed)
  loads,    \* the load of each connection of this process, and how it stands
  pool,     \* r.pool: nil, live, dead
  pc        \* the main loop: select, or the Refresh that follows SetPool

objVars  == <<api, copy, fresh>>
poolVars == <<stored, link, loads, pool>>
vars     == <<regVars, dotted, objVars, poolVars, pc, spent>>

Bounds ==
  [start |-> StartErrors, kill |-> Kills, edit |-> UserEdits, loss |-> ConnLosses,
   load |-> LoadErrors, info |-> InfoErrors, save |-> SaveErrors]
Faults == DOMAIN Bounds
Fault(f) == Spends(f, Bounds[f])

Object == [phase : {"New", "Ready", "Failed", "Offline"}, edits : Nat]
Blank  == [phase |-> "New", edits |-> 0]

Init ==
  /\ RegInit
  /\ dotted \in BOOLEAN
  /\ api = Blank /\ copy = Blank /\ fresh = TRUE
  /\ stored \in {"absent", "inactive", "active"}
  /\ link = "down" /\ loads = <<>> /\ pool = "nil" /\ pc = "select"
  /\ spent = [f \in Faults |-> 0]

Selects == step[Repo] = "up" /\ pc = "select"

-----------------------------------------------------------------------------
(* The process.                                                            *)

Forget ==
  /\ copy' = Blank /\ fresh' = TRUE
  /\ link' = "down" /\ loads' = <<>> /\ pool' = "nil" /\ pc' = "select"
  /\ UNCHANGED <<dotted, api, stored>>

(* NewService gets the object when it first reads one.                     *)
StartRepo ==
  /\ Start(Repo)
  /\ IF step[Repo] = "read" /\ todo[Repo] = Reads[Repo] /\ step'[Repo] # "down"
     THEN copy' = api /\ fresh' = TRUE
     ELSE UNCHANGED <<copy, fresh>>
  /\ UNCHANGED <<dotted, api, poolVars, pc>>

Panic    == Exits(Repo) /\ Forget /\ UNCHANGED spent
KillRepo == Killed(Repo) /\ Forget

(* Another daemon, or the API server with a type.                          *)
Elsewhere ==
  /\ \/ \E d \in Daemons \ {Repo} : Start(d) \/ Killed(d)
     \/ \E t \in Types : Serve(t)
  /\ UNCHANGED <<dotted, objVars, poolVars, pc>>

BootAny(d) == Boot(d) /\ UNCHANGED <<dotted, objVars, poolVars, pc, spent>>

-----------------------------------------------------------------------------
(* saveRepo: the PUT of r.resource in phase p.  One that is refused leaves *)
(* r.resource as it is, with the phase and the old version, and one whose  *)
(* answer is lost leaves the version behind that it got, if it got one.    *)

Draft(p) == [copy EXCEPT !.phase = p]

(* What asking the pool and the PUT have cost of the bounds.               *)
Charge(info, save) ==
  /\ spent' = [spent EXCEPT !["info"] = @ + info, !["save"] = @ + save]
  /\ spent'["info"] <= InfoErrors /\ spent'["save"] <= SaveErrors

Saved(p, info) ==
  copy' = Draft(p) /\ fresh /\ api' = Draft(p) /\ UNCHANGED fresh /\ Charge(info, 0)

SaveFails(p, info) ==
  /\ copy' = Draft(p)
  /\ \/ UNCHANGED <<api, fresh>> /\ Charge(info, IF fresh THEN 1 ELSE 0)
     \/ /\ fresh /\ Charge(info, 1)
        /\ api' = Draft(p) /\ fresh' \in {FALSE, api = Draft(p)}

Save(p, info) == Saved(p, info) \/ SaveFails(p, info)

-----------------------------------------------------------------------------
(* PoolManager.load, in a goroutine for each connection.                   *)

Alive(i)   == i = Len(loads) /\ link = "up"
Loading(i, s) == i \in DOMAIN loads /\ loads[i] = s
Goes(i, s) == loads' = [loads EXCEPT ![i] = s]

LoadRest == UNCHANGED <<regVars, dotted, objVars, link, pool, pc>>

(* An error of any call but the lookup's "no such pool" gives a nil pool.  *)
LoadFails(i) ==
  /\ i \in DOMAIN loads /\ loads[i] \in {"lookup", "create", "check", "start"}
  /\ Goes(i, "nil")
  /\ (~Alive(i) /\ UNCHANGED spent) \/ Fault("load")
  /\ UNCHANGED stored
  /\ LoadRest

(* The lookup is by the name as it is, the pool by its escaped form.       *)
Missing == dotted \/ stored = "absent"

LookupPool(i) ==
  /\ Loading(i, "lookup") /\ Alive(i)
  /\ Goes(i, IF Missing THEN "create" ELSE "check")
  /\ UNCHANGED <<stored, spent>> /\ LoadRest

CreatePool(i) ==
  /\ Loading(i, "create") /\ Alive(i)
  /\ IF stored = "absent" THEN Goes(i, "found") ELSE Goes(i, "nil")
  /\ stored' = IF stored = "absent" THEN "active" ELSE stored
  /\ UNCHANGED spent /\ LoadRest

CheckPool(i) ==
  /\ Loading(i, "check") /\ Alive(i)
  /\ Goes(i, IF stored = "active" THEN "found" ELSE "start")
  /\ UNCHANGED <<stored, spent>> /\ LoadRest

StartPool(i) ==
  /\ Loading(i, "start") /\ Alive(i)
  /\ Goes(i, "found")
  /\ stored' = "active"
  /\ UNCHANGED spent /\ LoadRest

Load(i) == LoadFails(i) \/ LookupPool(i) \/ CreatePool(i) \/ CheckPool(i) \/ StartPool(i)

-----------------------------------------------------------------------------
(* The cases of Service.Run.                                               *)

Connected ==
  /\ Selects /\ link = "down"
  /\ link' = "up"
  /\ loads' = Append(loads, "lookup")
  /\ UNCHANGED <<regVars, dotted, objVars, stored, pool, pc, spent>>

ConnLost ==
  /\ link = "up" /\ Fault("loss")
  /\ link' = "lost"
  /\ pool' = IF pool = "live" THEN "dead" ELSE pool
  /\ UNCHANGED <<regVars, dotted, objVars, stored, loads, pc>>

UnsetPanics_Never == FALSE      \* mutant: no pool is nothing to free
UnsetPanics == pool = "nil"     \* r.pool.Free()

UnsetPool_Silent == pool' = "nil" /\ UNCHANGED <<objVars, spent>>   \* mutant: nothing is saved
UnsetPool == pool' = "nil" /\ Save("Offline", 0)

(* UnsetPool, and a Refresh without a pool.                                *)
Failed ==
  /\ Selects /\ link = "lost"
  /\ \/ UnsetPanics /\ Panic
     \/ /\ ~UnsetPanics
        /\ UnsetPool
        /\ link' = "down"
        /\ UNCHANGED <<regVars, dotted, stored, loads, pc>>

(* The phase after asking a pool, and whether a call has failed for it:    *)
(* all fail on a dead one.                                                 *)
Asked(h) ==
  IF h = "dead" THEN {[phase |-> "Failed", cost |-> 0]}
  ELSE {[phase |-> "Ready", cost |-> 0], [phase |-> "Failed", cost |-> 1]}

(* SetPool: loadVolumes decides on the phase, and without an error of the  *)
(* PUT a Refresh follows.                                                  *)
SetPool(h) ==
  /\ pool' = h
  /\ \E a \in Asked(h) :
       \/ Saved(a.phase, a.cost) /\ pc' = "refresh"
       \/ SaveFails(a.phase, a.cost) /\ pc' = "select"

(* What PoolManager.load notifies; the connection it was loaded over may   *)
(* have gone, and another be there.                                        *)
TakePool_Unchecked(i) ==        \* mutant: a nil pool is set as any other
  /\ Selects /\ i \in DOMAIN loads /\ loads[i] \in {"nil", "found"}
  /\ Goes(i, "done")
  /\ IF link # "down"
     THEN SetPool(IF loads[i] = "nil" THEN "nil" ELSE IF Alive(i) THEN "live" ELSE "dead")
     ELSE UNCHANGED <<objVars, pool, pc, spent>>
  /\ UNCHANGED <<regVars, dotted, stored, link>>

TakePool(i) ==
  /\ Selects /\ i \in DOMAIN loads /\ loads[i] \in {"nil", "found"}
  /\ Goes(i, "done")
  /\ IF loads[i] = "found" /\ link # "down"
     THEN SetPool(IF Alive(i) THEN "live" ELSE "dead")
     ELSE UNCHANGED <<objVars, pool, pc, spent>>
  /\ UNCHANGED <<regVars, dotted, stored, link>>

(* Refresh, in which GetInfo decides on the phase; without a pool there is *)
(* nothing to save.                                                        *)
Refresh_Quiet ==                \* mutant: the phase is not set back to Ready
  \E a \in Asked(pool) :
     Save(IF a.phase = "Ready" THEN copy.phase ELSE a.phase, a.cost)

Refresh == \E a \in Asked(pool) : Save(a.phase, a.cost)

Tick ==
  /\ step[Repo] = "up"
  /\ IF pool = "nil" THEN UNCHANGED <<objVars, spent>> ELSE Refresh
  /\ pc' = "select"
  /\ UNCHANGED <<regVars, dotted, poolVars>>

-----------------------------------------------------------------------------

UserEdit ==
  /\ Fault("edit")
  /\ api' = [api EXCEPT !.edits = @ + 1]
  /\ fresh' = FALSE
  /\ UNCHANGED <<regVars, dotted, copy, poolVars, pc>>

Next ==
  \/ StartRepo \/ KillRepo \/ Elsewhere \/ \E d \in Daemons : BootAny(d)
  \/ Connected \/ ConnLost \/ Failed \/ Tick \/ UserEdit
  \/ \E i \in DOMAIN loads : Load(i) \/ TakePool(i)

(* Daemons are restarted and scheduled, types come to be served, libvirtd  *)
(* can be connected to and answers; select picks at random.                *)
Others(d) == Start(d) /\ UNCHANGED <<dotted, objVars, poolVars, pc>>
Serving   == (\E t \in Types : Serve(t)) /\ UNCHANGED <<dotted, objVars, poolVars, pc>>
Loads     == \E i \in DOMAIN loads : Load(i)
Taking    == \E i \in DOMAIN loads : TakePool(i)

Fairness ==
  /\ \A d \in Daemons : WF_vars(BootAny(d))
  /\ \A d \in Daemons \ {Repo} : WF_vars(Others(d))
  /\ WF_vars(Serving) /\ WF_vars(StartRepo) /\ WF_vars(Loads)
  /\ SF_vars(Connected) /\ SF_vars(Failed) /\ SF_vars(Taking) /\ SF_vars(Tick)

Spec     == Init /\ [][Next]_vars
FairSpec == Spec /\ Fairness

-----------------------------------------------------------------------------
(* Properties.                                                             *)

(* The state has its type; only a daemon that runs has a connection.       *)
TypeOK ==
  /\ RegTypeOK
  /\ dotted \in BOOLEAN /\ fresh \in BOOLEAN
  /\ api \in Object /\ copy \in Object
  /\ stored \in {"absent", "inactive", "active"}
  /\ link \in {"down", "up", "lost"} /\ pool \in {"nil", "live", "dead"}
  /\ loads \in Seq({"lookup", "create", "check", "start", "nil", "found", "done"})
  /\ pc \in {"select", "refresh"}
  /\ spent \in [Faults -> Nat]
  /\ step[Repo] # "up" => link = "down" /\ loads = <<>> /\ pool = "nil" /\ pc = "select"
  /\ pc = "refresh" => pool # "nil"

(* The pool that reaches the main loop is of the connection it has: the    *)
(* check "Connection might have closed in meanwhile" (service.go) is for   *)
(* any connection, and it is only the panic of UnsetPool that ends a       *)
(* daemon whose pool is still being loaded when its connection goes.       *)
PoolOfConnection == \A i \in DOMAIN loads : i # Len(loads) => loads[i] = "done"

(* A repository whose connection is lost is not shown as Ready for good,   *)
(* unless the daemon ends or its PUT fails, which nothing repeats.         *)
Excused   == ~fresh \/ spent["save"] > 0
LossShown == link = "lost" ~> (api.phase # "Ready" \/ step[Repo] # "up" \/ Excused)

(* While the connection works the repository comes to have its pool and to *)
(* show it, for good - unless a user's edit or a lost answer has made its  *)
(* copy old, or the load has failed: nothing loads a pool again, and under *)
(* a dotted name the pool is created but never found.                      *)
LoadLost == pool = "nil" /\ (dotted \/ spent["load"] > 0)
Shown    == pool = "live" /\ api.phase = "Ready"

Settles == <>[](link = "up") => <>[](Shown \/ ~fresh \/ LoadLost)

(* A daemon never takes a user's edit of the repository back.              *)
EditsKept == [][api'.edits >= api.edits]_vars

=============================================================================
