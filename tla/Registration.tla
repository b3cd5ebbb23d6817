----------------------------- MODULE Registration -----------------------------
(***************************************************************************)
(* How the daemons start: each registers the resource types it knows and   *)
(* then reads the objects it needs.  Daemons of one cluster start at the   *)
(* same time and register the same types.  A daemon that gets an error     *)
(* exits and is restarted.                                                 *)
(*                                                                         *)
(*   RegisterResourceExtension   Lookup, Create, Await                     *)
(*   NewService, NewShim         Boot, Read                                *)
(***************************************************************************)
EXTENDS Integers, Sequences, SequencesExt

CONSTANTS
  Daemons,
  Types,
  Registers,   \* the types each daemon registers, in this order
  Reads,       \* the types it then reads an object of, in this order
  StartErrors, \* bound: calls of a starting daemon that fail
  Kills        \* bound: daemons that are killed

ASSUME DaemonsAssumption ==
  /\ Registers \in [Daemons -> Seq(Types)]
  /\ Reads \in [Daemons -> Seq(Types)]
  /\ \A d \in Daemons : ToSet(Reads[d]) \subseteq ToSet(Registers[d])
  /\ StartErrors \in Nat /\ Kills \in Nat

VARIABLES
  types,   \* API server: each type is absent, registered, or served
  step,    \* where each daemon is: down, lookup, create, await, read, up
  todo,    \* the types it has still to register, or to read
  spent    \* how often each bounded fault has happened

regVars == <<types, step, todo>>

Spends(fault, bound) == spent[fault] < bound /\ spent' = [spent EXCEPT ![fault] = @ + 1]

RegInit ==
  /\ types = [t \in Types |-> "absent"]
  /\ step = [d \in Daemons |-> "down"]
  /\ todo = [d \in Daemons |-> <<>>]

-----------------------------------------------------------------------------

At(d, s) == step[d] = s
Enters(d, s, ts) == step' = [step EXCEPT ![d] = s] /\ todo' = [todo EXCEPT ![d] = ts]

Exits(d) == Enters(d, "down", <<>>) /\ UNCHANGED types

(* What comes after the types in ts are registered, or read.               *)
Continue(d, ts) == IF ts = <<>> THEN Enters(d, "read", Reads[d]) ELSE Enters(d, "lookup", ts)
Reading(d, ts)  == Enters(d, IF ts = <<>> THEN "up" ELSE "read", ts)

Boot(d) == At(d, "down") /\ Continue(d, Registers[d]) /\ UNCHANGED types

Fails(d) == Exits(d) /\ Spends("start", StartErrors)

Lookup_Strict(d) ==             \* mutant: a type that is not found is an error too
  /\ At(d, "lookup")
  /\ IF types[Head(todo[d])] = "absent" THEN Exits(d)
     ELSE Continue(d, Tail(todo[d])) /\ UNCHANGED types
  /\ UNCHANGED spent

Lookup_Trusts(d) ==             \* mutant: an error is taken for "already exists"
  /\ At(d, "lookup")
  /\ \/ /\ types[Head(todo[d])] = "absent"
        /\ Enters(d, "create", todo[d]) /\ UNCHANGED <<types, spent>>
     \/ /\ types[Head(todo[d])] # "absent"
        /\ Continue(d, Tail(todo[d])) /\ UNCHANGED <<types, spent>>
     \/ Continue(d, Tail(todo[d])) /\ UNCHANGED types /\ Spends("start", StartErrors)

(* A type that exists is not waited for: it may not be served yet.         *)
Lookup(d) ==
  /\ At(d, "lookup")
  /\ \/ /\ types[Head(todo[d])] = "absent"
        /\ Enters(d, "create", todo[d]) /\ UNCHANGED <<types, spent>>
     \/ /\ types[Head(todo[d])] # "absent"
        /\ Continue(d, Tail(todo[d])) /\ UNCHANGED <<types, spent>>
     \/ Fails(d)

(* "Already exists", after another daemon was faster, is an error; and an  *)
(* error may hide that the type has been created.                          *)
Create(d) ==
  /\ At(d, "create")
  /\ LET t == Head(todo[d])
     IN \/ /\ types[t] = "absent"
           /\ types' = [types EXCEPT ![t] = "registered"]
           /\ \/ Enters(d, "await", todo[d]) /\ UNCHANGED spent
              \/ Enters(d, "down", <<>>) /\ Spends("start", StartErrors)
        \/ types[t] # "absent" /\ Exits(d) /\ UNCHANGED spent
        \/ Fails(d)

(* waitForResourceReady; its error, or the end of its 30 s, is dropped.    *)
Await(d) ==
  /\ At(d, "await")
  /\ Continue(d, Tail(todo[d]))
  /\ UNCHANGED <<types, spent>>

(* The reads of objects that need a type: without it they are errors.      *)
Read(d) ==
  /\ At(d, "read")
  /\ \/ /\ todo[d] = <<>>
        /\ Reading(d, <<>>) /\ UNCHANGED <<types, spent>>
     \/ /\ todo[d] # <<>> /\ types[Head(todo[d])] = "served"
        /\ Reading(d, Tail(todo[d])) /\ UNCHANGED <<types, spent>>
     \/ /\ todo[d] # <<>> /\ types[Head(todo[d])] # "served"
        /\ Exits(d) /\ UNCHANGED spent
     \/ todo[d] # <<>> /\ Fails(d)

(* The API server comes to serve a type that is registered.                *)
Serve(t) ==
  /\ types[t] = "registered"
  /\ types' = [types EXCEPT ![t] = "served"]
  /\ UNCHANGED <<step, todo, spent>>

Killed(d) == ~At(d, "down") /\ Exits(d) /\ Spends("kill", Kills)

Start(d) == Lookup(d) \/ Create(d) \/ Await(d) \/ Read(d)

RegTypeOK ==
  /\ types \in [Types -> {"absent", "registered", "served"}]
  /\ step \in [Daemons -> {"down", "lookup", "create", "await", "read", "up"}]
  /\ todo \in [Daemons -> Seq(Types)]
  /\ \A d \in Daemons : step[d] \in {"lookup", "create", "await"} => todo[d] # <<>>

-----------------------------------------------------------------------------
(* Properties.                                                             *)

(* A daemon that runs has the types it knows registered, whoever of the    *)
(* daemons racing for them did it, and those it has read are served.       *)
Registered ==
  \A d \in Daemons : step[d] = "up" =>
    /\ \A t \in ToSet(Registers[d]) : types[t] # "absent"
    /\ \A t \in ToSet(Reads[d]) : types[t] = "served"

(* All daemons come to run: none is kept from it by another that registers *)
(* the same types, nor by a type that is served late.                      *)
Starts == \A d \in Daemons : <>[](step[d] = "up")

=============================================================================
