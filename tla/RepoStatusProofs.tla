-------------------------- MODULE RepoStatusProofs --------------------------
(***************************************************************************)
(* Proofs about Registration and RepoStatus, for every set of daemons and  *)
(* types, whatever they register and read, and every bound on the faults.  *)
(***************************************************************************)
EXTENDS RepoStatus, SequenceTheorems, TLAPS

-----------------------------------------------------------------------------
(* The inductive invariant.                                                *)

Has(d)    == \A t \in ToSet(Registers[d]) : types[t] # "absent"
Finds(d)  == \A t \in ToSet(Registers[d]) : t \in ToSet(todo[d]) \/ types[t] # "absent"
HasRead(d) == \A t \in ToSet(Reads[d]) : t \in ToSet(todo[d]) \/ types[t] = "served"

(* Types a starting daemon has behind it are registered, or have been read. *)
Progress == \A d \in Daemons :
  /\ step[d] \in {"lookup", "create", "await"} => Finds(d)
  /\ step[d] = "await" => types[Head(todo[d])] # "absent"
  /\ step[d] \in {"read", "up"} => Has(d) /\ HasRead(d)
  /\ step[d] = "up" => todo[d] = <<>>

(* A daemon that has no connection, or has its pool, waits for no load; a  *)
(* load of an earlier connection has been taken.                           *)
LoadsTaken ==
  /\ link = "down" => \A i \in DOMAIN loads : loads[i] = "done"
  /\ link = "down" => pool = "nil"
  /\ pool # "nil" => \A i \in DOMAIN loads : loads[i] = "done"

(* A copy that has the current version has the users' edits.               *)
Fetched == step[Repo] = "up" \/ (step[Repo] = "read" /\ todo[Repo] # Reads[Repo])
CopyRight == Fetched /\ fresh => copy.edits = api.edits

DataOK ==
  /\ dotted \in BOOLEAN /\ fresh \in BOOLEAN /\ api \in Object /\ copy \in Object
  /\ spent \in [Faults -> Nat]

LoadState == {"lookup", "create", "check", "start", "nil", "found", "done"}

ConnOK ==
  /\ stored \in {"absent", "inactive", "active"}
  /\ link \in {"down", "up", "lost"} /\ pool \in {"nil", "live", "dead"}
  /\ loads \in Seq(LoadState)
  /\ pc \in {"select", "refresh"}
  /\ step[Repo] # "up" => link = "down" /\ loads = <<>> /\ pool = "nil" /\ pc = "select"
  /\ pc = "refresh" => pool # "nil"
  /\ LoadsTaken /\ PoolOfConnection

RegInv == RegTypeOK /\ Progress
Inv    == RegInv /\ DataOK /\ ConnOK /\ CopyRight

-----------------------------------------------------------------------------
(* Sequences.                                                              *)

LEMMA HeadTail ==
  ASSUME NEW S, NEW q \in Seq(S), q # <<>>
  PROVE  /\ Head(q) \in S /\ Tail(q) \in Seq(S)
         /\ \A t \in ToSet(q) : t = Head(q) \/ t \in ToSet(Tail(q))
<1>1. Head(q) \in S /\ Tail(q) \in Seq(S)
  OBVIOUS
<1>2. ASSUME NEW i \in DOMAIN q
      PROVE  q[i] = Head(q) \/ q[i] \in ToSet(Tail(q))
  <2>1. CASE i = 1
    BY <2>1
  <2>2. CASE i # 1
    <3>1. i - 1 \in DOMAIN Tail(q) /\ Tail(q)[i - 1] = q[i]
      BY <2>2
    <3> QED  BY <3>1 DEF ToSet
  <2> QED  BY <2>1, <2>2
<1> QED  BY <1>1, <1>2 DEF ToSet

-----------------------------------------------------------------------------
(* Registration, of one daemon d.                                          *)

(* A daemon moves to a place its progress allows, and the types only grow. *)
LEMMA EntersKeeps ==
  ASSUME RegInv, NEW d \in Daemons, NEW s, NEW ts \in Seq(Types), Enters(d, s, ts),
         s \in {"down", "lookup", "create", "await", "read", "up"},
         s \in {"lookup", "create", "await"} => ts # <<>>,
         types' \in [Types -> {"absent", "registered", "served"}],
         \A t \in Types : types[t] # "absent" => types'[t] # "absent",
         \A t \in Types : types[t] = "served" => types'[t] = "served",
         s \in {"lookup", "create", "await"} =>
           \A t \in ToSet(Registers[d]) : t \in ToSet(ts) \/ types'[t] # "absent",
         s = "await" => types'[Head(ts)] # "absent",
         s \in {"read", "up"} =>
           /\ \A t \in ToSet(Registers[d]) : types'[t] # "absent"
           /\ \A t \in ToSet(Reads[d]) : t \in ToSet(ts) \/ types'[t] = "served",
         s = "up" => ts = <<>>
  PROVE  RegInv'
<1>1. /\ step' = [step EXCEPT ![d] = s] /\ todo' = [todo EXCEPT ![d] = ts]
      /\ step \in [Daemons -> {"down", "lookup", "create", "await", "read", "up"}]
      /\ todo \in [Daemons -> Seq(Types)]
  BY DEF Enters, RegInv, RegTypeOK
<1>2. RegTypeOK'
  BY <1>1 DEF RegInv, RegTypeOK
<1>3. ASSUME NEW e \in Daemons
      PROVE  /\ step'[e] \in {"lookup", "create", "await"} => Finds(e)'
             /\ step'[e] = "await" => types'[Head(todo'[e])] # "absent"
             /\ step'[e] \in {"read", "up"} => Has(e)' /\ HasRead(e)'
             /\ step'[e] = "up" => todo'[e] = <<>>
  <2>1. CASE e = d
    <3>1. step'[e] = s /\ todo'[e] = ts
      BY <1>1, <2>1
    <3> QED  BY <2>1, <3>1 DEF Finds, Has, HasRead
  <2>2. CASE e # d
    <3>1. step'[e] = step[e] /\ todo'[e] = todo[e]
      BY <1>1, <2>2
    <3>2. /\ \A t \in ToSet(Registers[e]) : t \in Types
          /\ \A t \in ToSet(Reads[e]) : t \in Types
      BY DaemonsAssumption DEF ToSet
    <3>3. step[e] = "await" => Head(todo[e]) \in Types
      BY <1>1, HeadTail DEF RegInv, RegTypeOK
    <3> QED  BY <3>1, <3>2, <3>3 DEF RegInv, Progress, Finds, Has, HasRead
  <2> QED  BY <2>1, <2>2
<1> QED  BY <1>2, <1>3 DEF RegInv, Progress

(* Where a daemon goes when it has registered, or read, the types before ts. *)
LEMMA ContinueKeeps ==
  ASSUME RegInv, NEW d \in Daemons, NEW ts \in Seq(Types), Continue(d, ts), UNCHANGED types,
         \A t \in ToSet(Registers[d]) : t \in ToSet(ts) \/ types[t] # "absent"
  PROVE  RegInv'
<1>1. types' \in [Types -> {"absent", "registered", "served"}]
  BY DEF RegInv, RegTypeOK
<1>2. CASE ts = <<>>
  <2>1. Enters(d, "read", Reads[d]) /\ Reads[d] \in Seq(Types)
    BY <1>2, DaemonsAssumption DEF Continue
  <2>2. \A t \in ToSet(Registers[d]) : types'[t] # "absent"
    BY <1>2 DEF ToSet
  <2> QED  BY <1>1, <2>1, <2>2, EntersKeeps
<1>3. CASE ts # <<>>
  <2>1. Enters(d, "lookup", ts)
    BY <1>3 DEF Continue
  <2> QED  BY <1>1, <1>3, <2>1, EntersKeeps
<1> QED  BY <1>2, <1>3

LEMMA DownKeeps ==
  ASSUME RegInv, NEW d \in Daemons, Enters(d, "down", <<>>),
         types' \in [Types -> {"absent", "registered", "served"}],
         \A t \in Types : types[t] # "absent" => types'[t] # "absent",
         \A t \in Types : types[t] = "served" => types'[t] = "served"
  PROVE  RegInv'
<1>1. /\ step' = [step EXCEPT ![d] = "down"] /\ todo' = [todo EXCEPT ![d] = <<>>]
      /\ step \in [Daemons -> {"down", "lookup", "create", "await", "read", "up"}]
      /\ todo \in [Daemons -> Seq(Types)]
  BY DEF Enters, RegInv, RegTypeOK
<1>2. <<>> \in Seq(Types)
  OBVIOUS
<1> QED  BY <1>1, <1>2, EntersKeeps

LEMMA ExitsKeeps ==
  ASSUME RegInv, NEW d \in Daemons, Exits(d)
  PROVE  RegInv'
<1>1. /\ Enters(d, "down", <<>>) /\ types' \in [Types -> {"absent", "registered", "served"}]
      /\ types' = types
  BY DEF Exits, RegInv, RegTypeOK
<1> QED  BY <1>1, DownKeeps

LEMMA BootKeeps ==
  ASSUME RegInv, NEW d \in Daemons, Boot(d)
  PROVE  RegInv'
BY ContinueKeeps, DaemonsAssumption DEF Boot

LEMMA LookupKeeps ==
  ASSUME RegInv, NEW d \in Daemons, Lookup(d)
  PROVE  RegInv'
<1>1. /\ step[d] = "lookup" /\ todo[d] \in Seq(Types) /\ todo[d] # <<>> /\ Finds(d)
      /\ types \in [Types -> {"absent", "registered", "served"}]
  BY DEF Lookup, At, RegInv, RegTypeOK, Progress
<1>2. /\ Tail(todo[d]) \in Seq(Types)
      /\ \A t \in ToSet(todo[d]) : t = Head(todo[d]) \/ t \in ToSet(Tail(todo[d]))
  BY <1>1, HeadTail
<1>3. CASE Enters(d, "create", todo[d]) /\ UNCHANGED types
  BY <1>1, <1>3, EntersKeeps DEF Finds
<1>4. CASE types[Head(todo[d])] # "absent" /\ Continue(d, Tail(todo[d])) /\ UNCHANGED types
  BY <1>1, <1>2, <1>4, ContinueKeeps DEF Finds
<1>5. CASE Fails(d)
  BY <1>5, ExitsKeeps DEF Fails
<1> QED  BY <1>3, <1>4, <1>5 DEF Lookup

LEMMA CreateKeeps ==
  ASSUME RegInv, NEW d \in Daemons, Create(d)
  PROVE  RegInv'
<1>1. /\ step[d] = "create" /\ todo[d] \in Seq(Types) /\ todo[d] # <<>> /\ Finds(d)
      /\ types \in [Types -> {"absent", "registered", "served"}]
  BY DEF Create, At, RegInv, RegTypeOK, Progress
<1> DEFINE t == Head(todo[d])
<1>2. t \in Types
  BY <1>1, HeadTail
<1>3. CASE types[t] = "absent" /\ types' = [types EXCEPT ![t] = "registered"]
  <2>1. /\ types' \in [Types -> {"absent", "registered", "served"}]
        /\ types'[t] = "registered" /\ \A u \in Types : u # t => types'[u] = types[u]
    BY <1>1, <1>2, <1>3
  <2>2. \A u \in ToSet(Registers[d]) : u \in Types
    BY DaemonsAssumption DEF ToSet
  <2>3. \A u \in Types : /\ types[u] # "absent" => types'[u] # "absent"
                         /\ types[u] = "served" => types'[u] = "served"
    BY <1>3, <2>1
  <2>4. CASE Enters(d, "await", todo[d])
    <3>1. \A u \in ToSet(Registers[d]) : u \in ToSet(todo[d]) \/ types'[u] # "absent"
      BY <1>1, <2>2, <2>3 DEF Finds
    <3>2. types'[Head(todo[d])] # "absent"
      BY <2>1
    <3> HIDE DEF t
    <3> QED  BY <1>1, <2>1, <2>3, <2>4, <3>1, <3>2, EntersKeeps
  <2>5. CASE Enters(d, "down", <<>>)
    <3> HIDE DEF t
    <3> QED  BY <2>1, <2>3, <2>5, DownKeeps
  <2>6. Enters(d, "await", todo[d]) \/ Enters(d, "down", <<>>)
    BY <1>3 DEF Create, Fails, Exits
  <2> QED  BY <2>4, <2>5, <2>6
<1>4. CASE Exits(d)
  BY <1>4, ExitsKeeps
<1> QED  BY <1>3, <1>4 DEF Create, Fails

LEMMA AwaitKeeps ==
  ASSUME RegInv, NEW d \in Daemons, Await(d)
  PROVE  RegInv'
<1>1. /\ step[d] = "await" /\ todo[d] \in Seq(Types) /\ todo[d] # <<>> /\ Finds(d)
      /\ types[Head(todo[d])] # "absent" /\ Continue(d, Tail(todo[d])) /\ UNCHANGED types
  BY DEF Await, At, RegInv, RegTypeOK, Progress
<1>2. /\ Tail(todo[d]) \in Seq(Types)
      /\ \A t \in ToSet(todo[d]) : t = Head(todo[d]) \/ t \in ToSet(Tail(todo[d]))
  BY <1>1, HeadTail
<1> QED  BY <1>1, <1>2, ContinueKeeps DEF Finds

LEMMA ReadKeeps ==
  ASSUME RegInv, NEW d \in Daemons, Read(d)
  PROVE  RegInv'
<1>1. /\ step[d] = "read" /\ todo[d] \in Seq(Types) /\ Has(d) /\ HasRead(d)
      /\ types \in [Types -> {"absent", "registered", "served"}]
  BY DEF Read, At, RegInv, RegTypeOK, Progress
<1>2. ASSUME NEW ts \in Seq(Types), Reading(d, ts), UNCHANGED types,
             \A t \in ToSet(Reads[d]) : t \in ToSet(ts) \/ types[t] = "served"
      PROVE  RegInv'
  <2>1. CASE ts = <<>>
    BY <1>1, <1>2, <2>1, EntersKeeps DEF Reading, Has
  <2>2. CASE ts # <<>>
    BY <1>1, <1>2, <2>2, EntersKeeps DEF Reading, Has
  <2> QED  BY <2>1, <2>2
<1>3. CASE todo[d] = <<>> /\ Reading(d, <<>>) /\ UNCHANGED types
  BY <1>1, <1>2, <1>3 DEF HasRead
<1>4. CASE /\ todo[d] # <<>> /\ types[Head(todo[d])] = "served"
           /\ Reading(d, Tail(todo[d])) /\ UNCHANGED types
  <2>1. /\ Tail(todo[d]) \in Seq(Types)
        /\ \A t \in ToSet(todo[d]) : t = Head(todo[d]) \/ t \in ToSet(Tail(todo[d]))
    BY <1>1, <1>4, HeadTail
  <2> QED  BY <1>1, <1>2, <1>4, <2>1 DEF HasRead
<1>5. CASE Exits(d)
  BY <1>5, ExitsKeeps
<1> QED  BY <1>3, <1>4, <1>5 DEF Read, Fails

LEMMA ServeKeeps ==
  ASSUME RegInv, NEW u \in Types, Serve(u)
  PROVE  RegInv'
<1>1. /\ types' \in [Types -> {"absent", "registered", "served"}]
      /\ UNCHANGED <<step, todo>>
      /\ \A t \in Types : /\ types[t] # "absent" => types'[t] # "absent"
                          /\ types[t] = "served" => types'[t] = "served"
  BY DEF Serve, RegInv, RegTypeOK
<1>2. RegTypeOK'
  BY <1>1 DEF RegInv, RegTypeOK
<1>3. \A d \in Daemons : /\ \A t \in ToSet(Registers[d]) : t \in Types
                         /\ \A t \in ToSet(Reads[d]) : t \in Types
  BY DaemonsAssumption DEF ToSet
<1>4. \A d \in Daemons : step[d] = "await" => Head(todo[d]) \in Types
  BY HeadTail DEF RegInv, RegTypeOK
<1>5. Progress'
  BY <1>1, <1>3, <1>4 DEF RegInv, Progress, Finds, Has, HasRead
<1> QED  BY <1>2, <1>5 DEF RegInv

LEMMA StartKeeps ==
  ASSUME RegInv, NEW d \in Daemons, Start(d)
  PROVE  RegInv'
BY LookupKeeps, CreateKeeps, AwaitKeeps, ReadKeeps DEF Start

(* What a step of a starting daemon leaves of the rest. *)
LEMMA StartShape ==
  ASSUME RegInv, DataOK, NEW d \in Daemons, Start(d)
  PROVE  /\ step[d] \in {"lookup", "create", "await", "read"}
         /\ \A e \in Daemons \ {d} : step'[e] = step[e] /\ todo'[e] = todo[e]
         /\ step[d] # "read" =>
              step'[d] # "up" /\ (step'[d] = "read" => todo'[d] = Reads[d])
         /\ spent' \in [Faults -> Nat]
<1>1. /\ step \in [Daemons -> {"down", "lookup", "create", "await", "read", "up"}]
      /\ todo \in [Daemons -> Seq(Types)] /\ spent \in [Faults -> Nat]
  BY DEF RegInv, RegTypeOK, DataOK
<1>2. step[d] \in {"lookup", "create", "await", "read"}
  BY DEF Start, Lookup, Create, Await, Read, At
<1>3. UNCHANGED spent \/ Spends("start", StartErrors)
  BY DEF Start, Lookup, Create, Await, Read, Fails
<1>4. spent' \in [Faults -> Nat]
  BY <1>1, <1>3 DEF Spends
<1>5. PICK s, ts : Enters(d, s, ts) /\ (step[d] # "read" => s # "up" /\ (s = "read" => ts = Reads[d]))
  <2>1. CASE Lookup(d)
    BY <2>1 DEF Lookup, Continue, Fails, Exits
  <2>2. CASE Create(d)
    BY <2>2 DEF Create, Fails, Exits
  <2>3. CASE Await(d)
    BY <2>3 DEF Await, Continue
  <2>4. CASE Read(d)
    BY <2>4 DEF Read, Reading, Fails, Exits, At
  <2> QED  BY <2>1, <2>2, <2>3, <2>4 DEF Start
<1>6. /\ step' = [step EXCEPT ![d] = s] /\ todo' = [todo EXCEPT ![d] = ts]
  BY <1>5 DEF Enters
<1> QED  BY <1>1, <1>2, <1>4, <1>5, <1>6

LEMMA FaultNames ==
  Faults = {"start", "kill", "edit", "loss", "load", "info", "save"}
BY DEF Faults, Bounds

LEMMA SpendType ==
  ASSUME spent \in [Faults -> Nat], NEW f \in Faults, NEW b, Spends(f, b)
  PROVE  spent' \in [Faults -> Nat]
<1>1. spent' = [spent EXCEPT ![f] = spent[f] + 1] /\ spent[f] + 1 \in Nat
  BY DEF Spends
<1> QED  BY <1>1

-----------------------------------------------------------------------------
(* The object.                                                             *)

(* A PUT has the edits of the object that it replaces. *)
LEMMA SaveKeeps ==
  ASSUME DataOK, CopyRight, step[Repo] = "up", NEW p, NEW info, Save(p, info),
         p \in {"New", "Ready", "Failed", "Offline"}, info \in {0, 1}, UNCHANGED dotted
  PROVE  DataOK' /\ CopyRight' /\ api'.edits >= api.edits
<1>1. /\ copy \in Object /\ api \in Object /\ fresh \in BOOLEAN
      /\ spent \in [Faults -> Nat] /\ dotted \in BOOLEAN
      /\ fresh => copy.edits = api.edits
  BY DEF DataOK, CopyRight, Fetched
<1>2. /\ Draft(p) \in Object /\ Draft(p).edits = copy.edits
      /\ api.edits \in Nat
  BY <1>1 DEF Draft, Object
<1>3. /\ copy' = Draft(p)
      /\ \/ api' = api /\ fresh' = fresh
         \/ fresh /\ api' = Draft(p) /\ fresh' = fresh
         \/ fresh /\ api' = Draft(p) /\ fresh' \in {FALSE, api = Draft(p)}
  BY DEF Save, Saved, SaveFails
<1>4. \E m, n \in {0, 1} : Charge(m, n)
  BY <1>1 DEF Save, Saved, SaveFails
<1>5. spent' \in [Faults -> Nat]
  <2>1. PICK m, n \in {0, 1} : Charge(m, n)
    BY <1>4
  <2>2. spent' = [spent EXCEPT !["info"] = @ + m, !["save"] = @ + n]
    BY <2>1 DEF Charge
  <2>3. "info" \in Faults /\ "save" \in Faults
    BY FaultNames
  <2> QED  BY <1>1, <2>2, <2>3
<1>6. DataOK'
  BY <1>1, <1>2, <1>3, <1>5 DEF DataOK
<1>7. fresh' => copy'.edits = api'.edits
  BY <1>1, <1>2, <1>3
<1>8. api'.edits = api.edits
  BY <1>1, <1>2, <1>3
<1>9. CopyRight'
  BY <1>7 DEF CopyRight
<1> QED  BY <1>2, <1>6, <1>8, <1>9

LEMMA AskedType ==
  ASSUME NEW h, NEW a \in Asked(h)
  PROVE  a.phase \in {"New", "Ready", "Failed", "Offline"} /\ a.cost \in {0, 1}
BY DEF Asked

(* A step that leaves the object alone, and the daemon in its place. *)
LEMMA ObjectRests ==
  ASSUME DataOK, CopyRight, UNCHANGED <<dotted, api, copy, fresh>>, spent' \in [Faults -> Nat],
         step'[Repo] = step[Repo], todo'[Repo] = todo[Repo]
  PROVE  DataOK' /\ CopyRight' /\ api'.edits >= api.edits
<1>1. api.edits \in Nat
  BY DEF DataOK, Object
<1>2. DataOK'
  BY DEF DataOK
<1>3. CopyRight'
  BY DEF CopyRight, Fetched
<1> QED  BY <1>1, <1>2, <1>3

-----------------------------------------------------------------------------
(* The actions.                                                            *)

Kept == Inv' /\ api'.edits >= api.edits

LEMMA RegRests ==
  ASSUME RegInv, UNCHANGED regVars
  PROVE  RegInv' /\ step'[Repo] = step[Repo] /\ todo'[Repo] = todo[Repo]
BY DEF RegInv, regVars, RegTypeOK, Progress, Finds, Has, HasRead

LEMMA ConnRests ==
  ASSUME ConnOK, UNCHANGED <<poolVars, pc>>, step'[Repo] = "up" \/ step[Repo] # "up"
  PROVE  ConnOK'
BY DEF ConnOK, poolVars, LoadsTaken, PoolOfConnection

LEMMA ForgetKeeps ==
  ASSUME Inv, Exits(Repo), Forget, spent' \in [Faults -> Nat]
  PROVE  Kept
<1>1. RegInv'
  BY ExitsKeeps, RepoAssumption DEF Inv
<1>2. step'[Repo] = "down"
  BY RepoAssumption DEF Exits, Enters, Inv, RegInv, RegTypeOK
<1>3. DataOK' /\ api'.edits >= api.edits
  BY DEF Inv, DataOK, Forget, Object, Blank
<1>4. ConnOK'
  <2>1. loads' = <<>> /\ link' = "down" /\ pool' = "nil" /\ pc' = "select" /\ stored' = stored
    BY DEF Forget
  <2>2. \A i \in DOMAIN loads' : loads'[i] = "done"
    BY <2>1
  <2> QED  BY <2>1, <2>2 DEF Inv, ConnOK, LoadsTaken, PoolOfConnection
<1>5. CopyRight'
  BY <1>2 DEF CopyRight, Fetched
<1> QED  BY <1>1, <1>3, <1>4, <1>5 DEF Kept, Inv

LEMMA StartRepoKeeps ==
  ASSUME Inv, StartRepo
  PROVE  Kept
<1>1. Start(Repo) /\ UNCHANGED <<dotted, api, poolVars, pc>>
  BY DEF StartRepo
<1>2. RegInv'
  BY <1>1, StartKeeps, RepoAssumption DEF Inv
<1>3. /\ step[Repo] \in {"lookup", "create", "await", "read"}
      /\ step[Repo] # "read" =>
           step'[Repo] # "up" /\ (step'[Repo] = "read" => todo'[Repo] = Reads[Repo])
      /\ spent' \in [Faults -> Nat]
  BY <1>1, StartShape, RepoAssumption DEF Inv
<1>4. DataOK' /\ api'.edits >= api.edits
  <2>1. DataOK /\ api' = api /\ dotted' = dotted
    BY <1>1 DEF Inv
  <2>2. copy' \in {copy, api} /\ fresh' \in {fresh, TRUE}
    BY DEF StartRepo
  <2>3. api.edits \in Nat
    BY <2>1 DEF DataOK, Object
  <2>4. copy' \in Object /\ fresh' \in BOOLEAN
    BY <2>1, <2>2 DEF DataOK
  <2>5. DataOK'
    BY <1>3, <2>1, <2>4 DEF DataOK
  <2> QED  BY <2>1, <2>3, <2>5
<1>5. ConnOK'
  BY <1>1, <1>3, ConnRests DEF Inv
<1>6. CopyRight'
  <2>1. CASE step[Repo] = "read" /\ todo[Repo] = Reads[Repo] /\ step'[Repo] # "down"
    BY <1>1, <2>1 DEF StartRepo, CopyRight
  <2>2. CASE step[Repo] = "read" /\ todo[Repo] # Reads[Repo]
    BY <1>1, <2>2 DEF StartRepo, Inv, CopyRight, Fetched
  <2>3. CASE step[Repo] # "read" \/ step'[Repo] = "down"
    BY <1>3, <2>3 DEF CopyRight, Fetched
  <2> QED  BY <2>1, <2>2, <2>3
<1> QED  BY <1>2, <1>4, <1>5, <1>6 DEF Kept, Inv

LEMMA KillRepoKeeps ==
  ASSUME Inv, KillRepo
  PROVE  Kept
<1>1. spent' \in [Faults -> Nat]
  BY SpendType, FaultNames DEF KillRepo, Killed, Inv, DataOK
<1> QED  BY <1>1, ForgetKeeps DEF KillRepo, Killed

LEMMA ElsewhereKeeps ==
  ASSUME Inv, Elsewhere
  PROVE  Kept
<1>1. UNCHANGED <<dotted, api, copy, fresh, poolVars, pc>>
  BY DEF Elsewhere, objVars
<1>2. ASSUME RegInv', step'[Repo] = step[Repo], todo'[Repo] = todo[Repo],
             spent' \in [Faults -> Nat]
      PROVE  Kept
  BY <1>1, <1>2, ObjectRests, ConnRests DEF Inv, Kept
<1>3. ASSUME NEW d \in Daemons \ {Repo}, Start(d)
      PROVE  Kept
  BY <1>2, <1>3, StartKeeps, StartShape, RepoAssumption DEF Inv
<1>4. ASSUME NEW d \in Daemons \ {Repo}, Killed(d)
      PROVE  Kept
  <2>1. spent' \in [Faults -> Nat]
    BY <1>4, SpendType, FaultNames DEF Killed, Inv, DataOK
  <2>2. step'[Repo] = step[Repo] /\ todo'[Repo] = todo[Repo]
    BY <1>4, RepoAssumption DEF Killed, Exits, Enters, Inv, RegInv, RegTypeOK
  <2> QED  BY <1>2, <1>4, <2>1, <2>2, ExitsKeeps DEF Killed, Inv
<1>5. ASSUME NEW t \in Types, Serve(t)
      PROVE  Kept
  BY <1>2, <1>5, ServeKeeps DEF Serve, Inv, DataOK
<1> QED  BY <1>3, <1>4, <1>5 DEF Elsewhere

LEMMA BootAnyKeeps ==
  ASSUME Inv, NEW d \in Daemons, BootAny(d)
  PROVE  Kept
<1>1. Boot(d) /\ UNCHANGED <<dotted, api, copy, fresh, poolVars, pc, spent>>
  BY DEF BootAny, objVars
<1>2. RegInv'
  BY <1>1, BootKeeps DEF Inv
<1>3. spent' \in [Faults -> Nat]
  BY <1>1 DEF Inv, DataOK
<1>4. PICK s, ts : Enters(d, s, ts) /\ s # "up" /\ (s = "read" => ts = Reads[d])
  BY <1>1 DEF Boot, Continue
<1>5. /\ step' = [step EXCEPT ![d] = s] /\ todo' = [todo EXCEPT ![d] = ts]
      /\ step \in [Daemons -> {"down", "lookup", "create", "await", "read", "up"}]
      /\ todo \in [Daemons -> Seq(Types)]
  BY <1>4 DEF Enters, Inv, RegInv, RegTypeOK
<1>6. CASE d = Repo
  <2>1. step[Repo] = "down" /\ step'[Repo] = s /\ todo'[Repo] = ts
    BY <1>1, <1>5, <1>6, RepoAssumption DEF Boot, At
  <2>2. CopyRight'
    BY <1>4, <1>6, <2>1 DEF CopyRight, Fetched
  <2>3. DataOK' /\ api'.edits >= api.edits
    BY <1>1 DEF Inv, DataOK, Object
  <2> QED  BY <1>1, <1>2, <2>1, <2>2, <2>3, ConnRests DEF Inv, Kept
<1>7. CASE d # Repo
  <2>1. step'[Repo] = step[Repo] /\ todo'[Repo] = todo[Repo]
    BY <1>5, <1>7, RepoAssumption
  <2> QED  BY <1>1, <1>2, <1>3, <2>1, ObjectRests, ConnRests DEF Inv, Kept
<1> QED  BY <1>6, <1>7

LEMMA ConnectedKeeps ==
  ASSUME Inv, Connected
  PROVE  Kept
<1>1. /\ step[Repo] = "up" /\ link = "down" /\ link' = "up" /\ loads' = Append(loads, "lookup")
      /\ UNCHANGED <<regVars, dotted, api, copy, fresh, stored, pool, pc, spent>>
  BY DEF Connected, Selects, objVars
<1>2. RegInv' /\ step'[Repo] = step[Repo] /\ todo'[Repo] = todo[Repo]
  BY <1>1, RegRests DEF Inv
<1>3. DataOK' /\ CopyRight' /\ api'.edits >= api.edits
  BY <1>1, <1>2, ObjectRests DEF Inv, DataOK
<1>4. ConnOK'
  <2>1. /\ loads \in Seq(LoadState) /\ pool = "nil"
        /\ \A i \in DOMAIN loads : loads[i] = "done"
    BY <1>1 DEF Inv, ConnOK, LoadsTaken
  <2>2. loads' \in Seq(LoadState)
    BY <1>1, <2>1 DEF LoadState
  <2>3. \A i \in DOMAIN loads' : i # Len(loads') => loads'[i] = "done"
    BY <1>1, <2>1
  <2>4. pool' = "nil" /\ link' = "up"
    BY <1>1, <2>1
  <2>5. LoadsTaken' /\ PoolOfConnection'
    BY <2>3, <2>4 DEF LoadsTaken, PoolOfConnection
  <2> QED  BY <1>1, <1>2, <2>1, <2>2, <2>4, <2>5 DEF Inv, ConnOK
<1> QED  BY <1>2, <1>3, <1>4 DEF Kept, Inv

LEMMA ConnLostKeeps ==
  ASSUME Inv, ConnLost
  PROVE  Kept
<1>1. /\ link = "up" /\ link' = "lost" /\ pool' = (IF pool = "live" THEN "dead" ELSE pool)
      /\ UNCHANGED <<regVars, dotted, api, copy, fresh, stored, loads, pc>>
  BY DEF ConnLost, objVars
<1>2. RegInv' /\ step'[Repo] = step[Repo] /\ todo'[Repo] = todo[Repo]
  BY <1>1, RegRests DEF Inv
<1>3. spent' \in [Faults -> Nat]
  BY SpendType, FaultNames DEF ConnLost, Fault, Inv, DataOK
<1>4. DataOK' /\ CopyRight' /\ api'.edits >= api.edits
  BY <1>1, <1>2, <1>3, ObjectRests DEF Inv
<1>5. pool' \in {"nil", "live", "dead"} /\ (pool' = "nil" <=> pool = "nil")
  BY <1>1 DEF Inv, ConnOK
<1>6. ConnOK'
  BY <1>1, <1>2, <1>5 DEF Inv, ConnOK, LoadsTaken, PoolOfConnection
<1> QED  BY <1>2, <1>4, <1>6 DEF Kept, Inv

LEMMA FailedKeeps ==
  ASSUME Inv, Failed
  PROVE  Kept
<1>1. CASE Panic
  BY <1>1, ForgetKeeps DEF Panic, Inv, DataOK
<1>2. CASE UnsetPool /\ ~UnsetPanics
  <2>1. /\ step[Repo] = "up" /\ pool # "nil" /\ pool' = "nil" /\ link' = "down"
        /\ Save("Offline", 0) /\ UNCHANGED <<regVars, dotted, stored, loads, pc>>
    BY <1>2 DEF Failed, Selects, UnsetPanics, UnsetPool, Panic, Forget, Exits
  <2>2. pc = "select"
    BY DEF Failed, Selects
  <2>3. RegInv' /\ step'[Repo] = step[Repo]
    BY <2>1, RegRests DEF Inv
  <2>4. DataOK' /\ CopyRight' /\ api'.edits >= api.edits
    BY <2>1, SaveKeeps DEF Inv
  <2>5. ConnOK'
    BY <2>1, <2>2, <2>3 DEF Inv, ConnOK, LoadsTaken, PoolOfConnection
  <2> QED  BY <2>3, <2>4, <2>5 DEF Kept, Inv
<1> QED  BY <1>1, <1>2 DEF Failed

(* A load that stands is the one of the connection there is. *)
LEMMA LastLoad ==
  ASSUME ConnOK, NEW i \in DOMAIN loads, loads[i] # "done", NEW s \in LoadState, Goes(i, s)
  PROVE  /\ i = Len(loads) /\ link # "down" /\ pool = "nil" /\ step[Repo] = "up"
         /\ loads' \in Seq(LoadState)
         /\ \A j \in DOMAIN loads' : j # Len(loads') => loads'[j] = "done"
         /\ s = "done" => \A j \in DOMAIN loads' : loads'[j] = "done"
<1>1. i = Len(loads) /\ link # "down" /\ pool = "nil" /\ loads \in Seq(LoadState)
  BY DEF ConnOK, LoadsTaken, PoolOfConnection
<1>2. step[Repo] = "up"
  BY <1>1 DEF ConnOK
<1>3. loads' = [loads EXCEPT ![i] = s]
  BY DEF Goes
<1>4. loads' \in Seq(LoadState) /\ DOMAIN loads' = DOMAIN loads /\ Len(loads') = Len(loads)
  BY <1>1, <1>3
<1>5. \A j \in DOMAIN loads' : j # Len(loads') => loads'[j] = "done"
  BY <1>1, <1>3, <1>4 DEF ConnOK, PoolOfConnection
<1>6. s = "done" => \A j \in DOMAIN loads' : loads'[j] = "done"
  BY <1>1, <1>3, <1>4, <1>5
<1> QED  BY <1>1, <1>2, <1>4, <1>5, <1>6

LEMMA LoadKeeps ==
  ASSUME Inv, NEW i, i \in DOMAIN loads, Load(i)
  PROVE  Kept
<1>1. /\ UNCHANGED <<regVars, dotted, api, copy, fresh, link, pool, pc>>
      /\ loads[i] # "done" /\ stored' \in {stored, "active"}
      /\ \E s \in LoadState : Goes(i, s)
      /\ UNCHANGED spent \/ Spends("load", LoadErrors)
  BY Zenon DEF Load, LoadFails, LookupPool, CreatePool, CheckPool, StartPool, LoadRest, Loading,
     LoadState, Fault, Bounds, objVars
<1>2. PICK s \in LoadState : Goes(i, s)
  BY <1>1
<1>3. /\ i = Len(loads) /\ link # "down" /\ pool = "nil" /\ step[Repo] = "up"
      /\ loads' \in Seq(LoadState)
      /\ \A j \in DOMAIN loads' : j # Len(loads') => loads'[j] = "done"
  BY <1>1, <1>2, LastLoad DEF Inv
<1>4. RegInv' /\ step'[Repo] = step[Repo] /\ todo'[Repo] = todo[Repo]
  BY <1>1, RegRests DEF Inv
<1>5. spent' \in [Faults -> Nat]
  BY <1>1, SpendType, FaultNames DEF Inv, DataOK
<1>6. DataOK' /\ CopyRight' /\ api'.edits >= api.edits
  BY <1>1, <1>4, <1>5, ObjectRests DEF Inv
<1>7. ConnOK'
  BY <1>1, <1>3, <1>4 DEF Inv, ConnOK, LoadsTaken, PoolOfConnection
<1> QED  BY <1>4, <1>6, <1>7 DEF Kept, Inv

LEMMA TakePoolKeeps ==
  ASSUME Inv, NEW i, TakePool(i)
  PROVE  Kept
<1>1. /\ i \in DOMAIN loads /\ loads[i] # "done" /\ Goes(i, "done") /\ "done" \in LoadState
      /\ step[Repo] = "up" /\ pc = "select" /\ UNCHANGED <<regVars, dotted, stored, link>>
  BY DEF TakePool, Selects, LoadState
<1>2. /\ link # "down" /\ pool = "nil" /\ loads' \in Seq(LoadState)
      /\ \A j \in DOMAIN loads' : loads'[j] = "done"
  BY <1>1, LastLoad DEF Inv
<1>3. RegInv' /\ step'[Repo] = step[Repo] /\ todo'[Repo] = todo[Repo]
  BY <1>1, RegRests DEF Inv
<1>4. /\ DataOK' /\ CopyRight' /\ api'.edits >= api.edits
      /\ pool' \in {"nil", "live", "dead"} /\ pc' \in {"select", "refresh"}
      /\ pc' = "refresh" => pool' # "nil"
  <2>1. CASE UNCHANGED <<api, copy, fresh, pool, pc, spent>>
    BY <1>1, <1>2, <1>3, <2>1, ObjectRests DEF Inv, DataOK
  <2>2. CASE \E h \in {"live", "dead"} : SetPool(h)
    <3>1. PICK h \in {"live", "dead"} : SetPool(h)
      BY <2>2
    <3>2. PICK a \in Asked(h) :
            /\ Saved(a.phase, a.cost) \/ SaveFails(a.phase, a.cost)
            /\ pc' \in {"select", "refresh"}
      BY <3>1 DEF SetPool
    <3>3. DataOK' /\ CopyRight' /\ api'.edits >= api.edits
      BY <1>1, <3>2, AskedType, SaveKeeps DEF Inv, Save
    <3> QED  BY <3>1, <3>2, <3>3 DEF SetPool
  <2> QED  BY <2>1, <2>2 DEF TakePool, objVars
<1>5. ConnOK'
  BY <1>1, <1>2, <1>3, <1>4 DEF Inv, ConnOK, LoadsTaken, PoolOfConnection
<1> QED  BY <1>3, <1>4, <1>5 DEF Kept, Inv

LEMMA TickKeeps ==
  ASSUME Inv, Tick
  PROVE  Kept
<1>1. step[Repo] = "up" /\ pc' = "select" /\ UNCHANGED <<regVars, dotted, poolVars>>
  BY DEF Tick
<1>2. RegInv' /\ step'[Repo] = step[Repo] /\ todo'[Repo] = todo[Repo]
  BY <1>1, RegRests DEF Inv
<1>3. DataOK' /\ CopyRight' /\ api'.edits >= api.edits
  <2>1. CASE UNCHANGED <<api, copy, fresh, spent>>
    BY <1>1, <1>2, <2>1, ObjectRests DEF Inv, DataOK
  <2>2. CASE Refresh
    <3>1. PICK a \in Asked(pool) : Save(a.phase, a.cost)
      BY <2>2 DEF Refresh
    <3> QED  BY <1>1, <3>1, AskedType, SaveKeeps DEF Inv
  <2> QED  BY <2>1, <2>2 DEF Tick, objVars
<1>4. ConnOK'
  BY <1>1, <1>2 DEF poolVars, Inv, ConnOK, LoadsTaken, PoolOfConnection
<1> QED  BY <1>2, <1>3, <1>4 DEF Kept, Inv

LEMMA UserEditKeeps ==
  ASSUME Inv, UserEdit
  PROVE  Kept
<1>1. /\ api' = [api EXCEPT !.edits = api.edits + 1] /\ fresh' = FALSE
      /\ UNCHANGED <<regVars, dotted, copy, poolVars, pc>> /\ api \in Object
  BY DEF UserEdit, Inv, DataOK
<1>2. RegInv' /\ step'[Repo] = step[Repo]
  BY <1>1, RegRests DEF Inv
<1>3. spent' \in [Faults -> Nat]
  BY SpendType, FaultNames DEF UserEdit, Fault, Inv, DataOK
<1>4. api' \in Object /\ api'.edits >= api.edits
  BY <1>1 DEF Object
<1>5. DataOK' /\ CopyRight'
  BY <1>1, <1>3, <1>4 DEF Inv, DataOK, CopyRight
<1>6. ConnOK'
  BY <1>1, <1>2, ConnRests DEF Inv
<1> QED  BY <1>2, <1>4, <1>5, <1>6 DEF Kept, Inv

-----------------------------------------------------------------------------
(* The invariant and the theorems.                                         *)

LEMMA StartsRight ==
  Init => Inv
<1> SUFFICES ASSUME Init PROVE Inv
  OBVIOUS
<1>1. RegInv
  <2>1. /\ types = [t \in Types |-> "absent"] /\ step = [d \in Daemons |-> "down"]
        /\ todo = [d \in Daemons |-> <<>>]
    BY DEF Init, RegInit
  <2>2. <<>> \in Seq(Types)
    OBVIOUS
  <2>3. RegTypeOK
    BY <2>1, <2>2 DEF RegTypeOK
  <2> QED  BY <2>1, <2>3 DEF RegInv, Progress
<1>2. DataOK
  BY DEF Init, DataOK, Object, Blank
<1>3. ConnOK
  BY DEF Init, ConnOK, LoadsTaken, PoolOfConnection
<1>4. CopyRight
  BY DEF Init, CopyRight
<1> QED  BY <1>1, <1>2, <1>3, <1>4 DEF Inv

LEMMA StepKeeps ==
  ASSUME Inv, [Next]_vars
  PROVE  Kept
<1>1. CASE UNCHANGED vars
  BY <1>1, RegRests, ObjectRests, ConnRests
     DEF vars, objVars, poolVars, Inv, DataOK, ConnOK, LoadsTaken, PoolOfConnection, Kept
<1>2. CASE Next
  BY <1>2, StartRepoKeeps, KillRepoKeeps, ElsewhereKeeps, BootAnyKeeps, ConnectedKeeps,
     ConnLostKeeps, FailedKeeps, TickKeeps, UserEditKeeps, LoadKeeps, TakePoolKeeps DEF Next
<1> QED  BY <1>1, <1>2

LEMMA Invariance == Spec => []Inv
<1>1. Inv /\ [Next]_vars => Inv'
  BY StepKeeps DEF Kept
<1> QED  BY StartsRight, <1>1, PTL DEF Spec

(* The state has its type in every behaviour, and a daemon that does not   *)
(* run has no connection, no load and no pool.                             *)
THEOREM TypeCorrect == Spec => []TypeOK
<1>1. Inv => TypeOK
  BY DEF Inv, RegInv, DataOK, ConnOK, TypeOK, LoadState
<1> QED  BY <1>1, Invariance, PTL

(* A daemon runs only with the types it knows registered, however many     *)
(* daemons race for them, and with those it has read served.               *)
THEOREM TypesRegistered == Spec => []Registered
<1>1. Inv => Registered
  BY DEF Inv, RegInv, Progress, Registered, Has, HasRead, ToSet
<1> QED  BY <1>1, Invariance, PTL

(* A pool that is loaded is the one of the connection there is, over any   *)
(* number of connections: the panic of UnsetPool ends the daemon before a  *)
(* load could outlive its connection.                                      *)
THEOREM PoolIsOfConnection == Spec => []PoolOfConnection
<1>1. Inv => PoolOfConnection
  BY DEF Inv, ConnOK
<1> QED  BY <1>1, Invariance, PTL

(* No PUT of the daemon takes a user's edit of the repository back,        *)
(* whatever PUTs are refused or lose their answer.                         *)
THEOREM KeepsEdits == Spec => EditsKept
<1>1. Inv /\ [Next]_vars => [api'.edits >= api.edits]_vars
  BY StepKeeps DEF Kept
<1> QED  BY <1>1, Invariance, PTL DEF Spec, EditsKept

-----------------------------------------------------------------------------
(* The pool of a connection that works.                                    *)

LoadStands == \E i \in DOMAIN loads : loads[i] \in LoadState \ {"nil", "done"}

Comes == link = "up" /\ ~dotted /\ spent["load"] = 0 => pool = "live" \/ LoadStands

(* A pool that was not found is not there when it is created: between the  *)
(* two, nobody else makes pools.                                           *)
CreateFree == ~dotted => \A i \in DOMAIN loads : loads[i] = "create" => stored = "absent"

LoadInv == Comes /\ CreateFree

LEMMA LoadRests ==
  ASSUME LoadInv, UNCHANGED <<dotted, stored, link, loads, pool>>, spent'["load"] >= spent["load"],
         spent \in [Faults -> Nat], spent' \in [Faults -> Nat]
  PROVE  LoadInv'
<1>1. spent["load"] \in Nat /\ spent'["load"] \in Nat
  BY FaultNames
<1> QED  BY <1>1 DEF LoadInv, Comes, LoadStands, CreateFree

LEMMA LoadForgets ==
  ASSUME Forget
  PROVE  LoadInv'
BY DEF Forget, LoadInv, Comes, CreateFree

(* The faults are only counted up.                                         *)
LEMMA SpendsUp ==
  ASSUME Inv, NEW f \in Faults, NEW b, UNCHANGED spent \/ Spends(f, b)
  PROVE  spent'["load"] >= spent["load"]
<1>1. spent \in [Faults -> Nat] /\ "load" \in Faults
  BY FaultNames DEF Inv, DataOK
<1> QED  BY <1>1 DEF Spends

LEMMA ChargesUp ==
  ASSUME Inv, NEW m, NEW n, Charge(m, n)
  PROVE  spent'["load"] = spent["load"]
<1>1. spent \in [Faults -> Nat] /\ "load" \in Faults
  BY FaultNames DEF Inv, DataOK
<1> QED  BY <1>1 DEF Charge

LEMMA SavesUp ==
  ASSUME Inv, NEW p, NEW m \in Nat, Save(p, m)
  PROVE  spent'["load"] = spent["load"]
BY ChargesUp DEF Save, Saved, SaveFails

LEMMA LoadStep ==
  ASSUME Inv, LoadInv, NEW i \in DOMAIN loads, Load(i)
  PROVE  LoadInv'
<1>1. /\ loads \in Seq(LoadState) /\ loads[i] # "done" /\ UNCHANGED <<dotted, link, pool>>
      /\ spent \in [Faults -> Nat] /\ "load" \in Faults
  BY FaultNames DEF Load, LoadFails, LookupPool, CreatePool, CheckPool, StartPool, LoadRest, Loading,
     Inv, ConnOK, DataOK
<1>2. i = Len(loads) /\ \A k \in DOMAIN loads : k # i => loads[k] = "done"
  BY <1>1 DEF Inv, ConnOK, LoadsTaken, PoolOfConnection
<1>3. ASSUME NEW s, Goes(i, s)
      PROVE  /\ DOMAIN loads' = DOMAIN loads /\ loads'[i] = s
             /\ \A k \in DOMAIN loads : k # i => loads'[k] = "done"
  BY <1>1, <1>2, <1>3 DEF Goes
<1>4. CASE LoadFails(i)
  <2>1. Goes(i, "nil")
    BY <1>4 DEF LoadFails
  <2>2. CreateFree'
    BY <1>3, <2>1 DEF CreateFree
  <2>3. ~(link = "up" /\ spent'["load"] = 0)
    <3>1. CASE ~Alive(i)
      BY <1>2, <3>1 DEF Alive
    <3>2. CASE Fault("load")
      BY <1>1, <3>2 DEF Fault, Spends
    <3> QED  BY <1>4, <3>1, <3>2 DEF LoadFails
  <2> QED  BY <1>1, <2>2, <2>3 DEF LoadInv, Comes
<1>5. CASE LookupPool(i)
  <2>1. Goes(i, IF Missing THEN "create" ELSE "check") /\ stored' = stored
    BY <1>5 DEF LookupPool
  <2>2. loads'[i] \in {"create", "check"} /\ (loads'[i] = "create" => Missing)
    BY <1>3, <2>1
  <2> QED  BY <1>1, <1>3, <2>1, <2>2 DEF LoadInv, Comes, CreateFree, LoadStands, LoadState, Missing
<1>6. CASE CreatePool(i)
  <2>1. dotted \/ stored = "absent"
    BY <1>6 DEF CreatePool, Loading, LoadInv, CreateFree
  <2>2. CASE dotted
    BY <1>1, <2>2 DEF LoadInv, Comes, CreateFree
  <2>3. CASE ~dotted
    <3>1. Goes(i, "found")
      BY <1>6, <2>1, <2>3 DEF CreatePool
    <3> QED  BY <1>1, <1>3, <3>1 DEF LoadInv, Comes, CreateFree, LoadStands, LoadState
  <2> QED  BY <2>2, <2>3
<1>7. CASE CheckPool(i) \/ StartPool(i)
  <2>1. \E s \in {"found", "start"} : Goes(i, s)
    BY <1>7 DEF CheckPool, StartPool
  <2>2. PICK s \in {"found", "start"} : Goes(i, s)
    BY <2>1
  <2> QED  BY <1>1, <1>3, <2>2 DEF LoadInv, Comes, CreateFree, LoadStands, LoadState
<1> QED  BY <1>4, <1>5, <1>6, <1>7 DEF Load

LEMMA TakeStep ==
  ASSUME Inv, LoadInv, NEW i \in DOMAIN loads, TakePool(i)
  PROVE  LoadInv'
<1>1. /\ loads \in Seq(LoadState) /\ loads[i] \in {"nil", "found"} /\ UNCHANGED <<dotted, stored, link>>
      /\ loads' = [loads EXCEPT ![i] = "done"] /\ spent \in [Faults -> Nat] /\ "load" \in Faults
  BY FaultNames DEF TakePool, Goes, Inv, ConnOK, DataOK
<1>2. i = Len(loads) /\ link # "down" /\ \A k \in DOMAIN loads : k # i => loads[k] = "done"
  BY <1>1 DEF Inv, ConnOK, LoadsTaken, PoolOfConnection
<1>3. CreateFree'
  BY <1>1, <1>2 DEF CreateFree
<1>4. Comes'
  <2>1. CASE loads[i] = "found"
    <3>1. link = "up" => pool' = "live"
      BY <1>1, <1>2, <2>1 DEF TakePool, Alive, SetPool
    <3> QED  BY <1>1, <3>1 DEF Comes
  <2>2. CASE loads[i] = "nil"
    <3>1. ~LoadStands /\ UNCHANGED <<pool, spent>>
      BY <1>1, <1>2, <2>2 DEF LoadStands, TakePool
    <3> QED  BY <1>1, <3>1 DEF LoadInv, Comes
  <2> QED  BY <1>1, <2>1, <2>2
<1> QED  BY <1>3, <1>4 DEF LoadInv

LEMMA LoadInvStep ==
  ASSUME Inv, LoadInv, [Next]_vars
  PROVE  LoadInv'
<1>0. spent \in [Faults -> Nat] /\ spent' \in [Faults -> Nat] /\ spent["load"] \in Nat
  BY StepKeeps, FaultNames DEF Kept, Inv, DataOK
<1>1. ASSUME NEW d \in Daemons, Start(d) \/ Killed(d)
      PROVE  spent'["load"] >= spent["load"]
  <2>1. UNCHANGED spent \/ Spends("start", StartErrors) \/ Spends("kill", Kills)
    BY <1>1 DEF Start, Lookup, Create, Await, Read, Fails, Killed
  <2> QED  BY <2>1, SpendsUp, FaultNames
<1>2. CASE StartRepo
  BY <1>0, <1>1, <1>2, LoadRests, RepoAssumption DEF StartRepo, poolVars
<1>3. CASE KillRepo
  BY <1>3, LoadForgets DEF KillRepo
<1>4. CASE Elsewhere
  <2>1. spent'["load"] >= spent["load"]
    BY <1>0, <1>1, <1>4 DEF Elsewhere, Serve
  <2> QED  BY <1>0, <1>4, <2>1, LoadRests DEF Elsewhere, poolVars
<1>5. CASE \E d \in Daemons : BootAny(d)
  BY <1>0, <1>5, LoadRests DEF BootAny, poolVars
<1>6. CASE Connected
  <2>1. /\ loads \in Seq(LoadState) /\ loads' = Append(loads, "lookup") /\ UNCHANGED <<dotted, stored>>
        /\ \A i \in DOMAIN loads : loads[i] = "done"
    BY <1>6 DEF Connected, Inv, ConnOK, LoadsTaken
  <2>2. /\ Len(loads) + 1 \in DOMAIN loads' /\ loads'[Len(loads) + 1] = "lookup"
        /\ \A i \in DOMAIN loads' : loads'[i] # "create"
    BY <2>1
  <2> QED  BY <2>1, <2>2 DEF LoadInv, Comes, CreateFree, LoadStands, LoadState
<1>7. CASE ConnLost
  BY <1>7 DEF ConnLost, LoadInv, Comes, CreateFree
<1>8. CASE Failed
  <2>1. CASE Panic
    BY <2>1, LoadForgets DEF Panic
  <2>2. CASE ~UnsetPanics
    BY <1>8, <2>2 DEF Failed, Panic, UnsetPanics, LoadInv, Comes, CreateFree
  <2> QED  BY <1>8, <2>1, <2>2 DEF Failed
<1>9. CASE Tick
  <2>1. spent'["load"] = spent["load"]
    BY <1>0, <1>9, SavesUp DEF Tick, Refresh, Asked
  <2> QED  BY <1>0, <1>9, <2>1, LoadRests DEF Tick, poolVars
<1>10. CASE UserEdit
  <2>1. spent'["load"] >= spent["load"]
    BY <1>10, SpendsUp, FaultNames DEF UserEdit, Fault
  <2> QED  BY <1>0, <1>10, <2>1, LoadRests DEF UserEdit, poolVars
<1>11. CASE \E i \in DOMAIN loads : Load(i) \/ TakePool(i)
  BY <1>11, LoadStep, TakeStep
<1>12. CASE UNCHANGED vars
  BY <1>0, <1>12, LoadRests DEF vars, poolVars
<1> QED
  BY <1>2, <1>3, <1>4, <1>5, <1>6, <1>7, <1>8, <1>9, <1>10, <1>11, <1>12 DEF Next

(* A daemon whose connection works has its pool, or a load of it that has  *)
(* not failed, unless a call of a load has failed or the name has a dot:   *)
(* PoolManager.load is started once for each connection and no other load  *)
(* gets in its way.  This is the part of Settles that needs no fairness.   *)
THEOREM PoolIsComing == Spec => []Comes
<1>1. Init => LoadInv
  BY DEF Init, LoadInv, Comes, CreateFree
<1>2. Inv /\ LoadInv /\ [Next]_vars => LoadInv'
  BY LoadInvStep
<1>3. LoadInv => Comes
  BY DEF LoadInv
<1> QED  BY <1>1, <1>2, <1>3, Invariance, PTL DEF Spec

-----------------------------------------------------------------------------
(* The connection.                                                         *)

Process == IF step[Repo] = "up" THEN "up" ELSE "down"
Connection == INSTANCE Link WITH proc <- Process

LEMMA ElsewhereSame ==
  ASSUME Inv, Elsewhere
  PROVE  UNCHANGED <<step[Repo], link>>
<1>1. step \in [Daemons -> {"down", "lookup", "create", "await", "read", "up"}]
  BY DEF Inv, RegInv, RegTypeOK
<1>2. ASSUME NEW d \in Daemons \ {Repo}, Start(d) \/ Killed(d)
      PROVE  step'[Repo] = step[Repo]
  BY <1>1, <1>2, StartShape, RepoAssumption DEF Inv, Killed, Exits, Enters
<1>3. ASSUME NEW t \in Types, Serve(t)
      PROVE  step'[Repo] = step[Repo]
  BY <1>3 DEF Serve
<1> QED  BY <1>2, <1>3 DEF Elsewhere, poolVars

LEMMA BootsDown ==
  ASSUME Inv, NEW d \in Daemons, BootAny(d)
  PROVE  UNCHANGED <<Process, link>>
<1>1. step \in [Daemons -> {"down", "lookup", "create", "await", "read", "up"}]
      /\ step[d] = "down"
  BY DEF Inv, RegInv, RegTypeOK, BootAny, Boot, At
<1>2. PICK s \in {"read", "lookup"} : step' = [step EXCEPT ![d] = s]
  BY DEF BootAny, Boot, Continue, Enters
<1> QED  BY <1>1, <1>2, RepoAssumption DEF BootAny, Process, poolVars

(* The connection of the repository's status is the one the connector      *)
(* promises (Link), from any start of the daemon, whatever panics.         *)
THEOREM ConnectionIsLink == Spec => Connection!Spec
<1>1. Init => Connection!Init
  BY RepoAssumption DEF Init, RegInit, Process, Connection!Init
<1>2. Inv /\ [Next]_vars => [Connection!Next]_<<Process, link>>
  <2> SUFFICES ASSUME Inv, [Next]_vars
               PROVE  [Connection!Next]_<<Process, link>>
    OBVIOUS
  <2> USE DEF Connection!Next, Connection!Start, Connection!End, Connection!Ready,
              Connection!Lose, Connection!Failed
  <2>0. /\ step \in [Daemons -> {"down", "lookup", "create", "await", "read", "up"}]
        /\ step[Repo] # "up" => link = "down"
    BY DEF Inv, RegInv, RegTypeOK, ConnOK
  <2>1. CASE StartRepo
    <3>1. step[Repo] # "up" /\ link' = link
      BY <2>1, StartShape, RepoAssumption DEF StartRepo, Inv, poolVars
    <3> QED  BY <2>0, <3>1 DEF Process
  <2>2. ASSUME Exits(Repo), Forget
        PROVE  [Connection!Next]_<<Process, link>>
    <3>1. Process' = "down" /\ link' = "down"
      BY <2>0, <2>2, RepoAssumption DEF Exits, Enters, Forget, Process
    <3> QED  BY <2>0, <3>1 DEF Process
  <2>3. CASE KillRepo
    BY <2>2, <2>3 DEF KillRepo, Killed
  <2>4. CASE Elsewhere
    BY <2>4, ElsewhereSame DEF Process
  <2>5. CASE \E d \in Daemons : BootAny(d)
    BY <2>5, BootsDown
  <2>6. CASE Connected \/ ConnLost
    BY <2>6 DEF Connected, ConnLost, Selects, regVars, Process
  <2>7. CASE Failed
    BY <2>2, <2>7 DEF Failed, Panic, regVars, Process
  <2>8. CASE Tick \/ UserEdit
    BY <2>8 DEF Tick, UserEdit, regVars, poolVars, Process
  <2>9. CASE \E i \in DOMAIN loads : Load(i) \/ TakePool(i)
    BY <2>9 DEF Load, LoadFails, LookupPool, CreatePool, CheckPool, StartPool, LoadRest, TakePool,
                regVars, Process
  <2>10. CASE UNCHANGED vars
    BY <2>10 DEF vars, regVars, poolVars, Process
  <2> QED  BY <2>1, <2>3, <2>4, <2>5, <2>6, <2>7, <2>8, <2>9, <2>10 DEF Next
<1> QED  BY <1>1, <1>2, Invariance, PTL DEF Spec, Connection!Spec

=============================================================================
