------------------------------- MODULE VMShim -------------------------------
(***************************************************************************)
(* virtkubevmshim and its clients.  A pod of a virtual machine runs        *)
(* virtkubevmangel, whose Guardian asks the shim over a UNIX socket to     *)
(* start the guest and keeps the socket open for as long as the guest is   *)
(* wanted.  The shim has one goroutine per client, that starts the guest,  *)
(* reports its hardware in the status of the Virtmachine object, waits and *)
(* stops the guest.  Guests are transient and AUTODESTROY: libvirtd        *)
(* destroys them when the shim's connection ends.                          *)
(*                                                                         *)
(*   Guardian.Watch          Dial, Signal, SeeEnd                          *)
(*   Shim.Run                Boot, Connect, ConnectFailed                  *)
(*   startMachine            Get, TakeConn, Crash, Create, Report, Undo    *)
(*   waitForMachineStop      Check, SeeEOF, Stop, Clear                    *)
(*                                                                         *)
(* Left out: the lookups for a domain of the same UUID or name, which the  *)
(* designer draws at random for every start; the secrets, which it draws   *)
(* too; and Shim.machines, which only domainLifecycleEvent reads, that     *)
(* nothing registers or calls.                                             *)
(***************************************************************************)
EXTENDS Designer, FiniteSets

CONSTANTS
  Clients,       \* guardians, each with its connection and its goroutine in the shim
  Machines,      \* names of the Virtmachine objects
  MachineOf,     \* the machine each client asks for
  Nil,           \* an absent object, guest or status
  UserOps,       \* bound: modifications and deletions of Virtmachine objects
  ConnLosses,    \* bound: times the connection to libvirtd is lost
  Kills,         \* bound: times the shim is killed
  ActiveErrors   \* bound: calls of IsActive that fail although the guest runs

ASSUME ClientsAssumption ==
  /\ IsFiniteSet(Clients)
  /\ MachineOf \in [Clients -> Machines]
  /\ UserOps \in Nat /\ ConnLosses \in Nat /\ Kills \in Nat /\ ActiveErrors \in Nat

VARIABLES
  api,       \* API server: the Virtmachine of each name, or Nil
  guest,     \* libvirtd: the hardware of the guest each client started, or Nil
  shim,      \* the process: down, up
  link,      \* s.conn: down (nil), up, lost (not nil, its connection is closed)
  guardian,  \* each guardian: new, waiting (in Watch's select), gone
  thread,    \* where the goroutine of each client is
  copy,      \* the machine object each goroutine has got, or Nil
  handle,    \* its conn or domain: nil, live, dead
  budget     \* what is left of each bound

vars == <<api, guest, shim, link, guardian, thread, copy, handle, budget>>

Object  == [rev : Nat, spec : Hardware, hw : Hardware \union {Nil}]
Phases  == {"none", "get", "connect", "create", "report", "undo", "check", "wait", "stop",
            "clear", "done"}
Faults  == {"user", "loss", "kill", "active"}

ASSUME NilAssumption == Nil \notin Object /\ Nil \notin Hardware

Spend(f) == budget[f] > 0 /\ budget' = [budget EXCEPT ![f] = @ - 1]

Goto(c, p) == thread' = [thread EXCEPT ![c] = p]

Init ==
  /\ api \in [Machines -> {[rev |-> 1, spec |-> s, hw |-> Nil] : s \in Hardware}]
  /\ guest = [c \in Clients |-> Nil]
  /\ shim = "down" /\ link = "down"
  /\ guardian = [c \in Clients |-> "new"]
  /\ thread = [c \in Clients |-> "none"]
  /\ copy = [c \in Clients |-> Nil]
  /\ handle = [c \in Clients |-> "nil"]
  /\ budget = [f \in Faults |-> CASE f = "user"   -> UserOps
                                  [] f = "loss"   -> ConnLosses
                                  [] f = "kill"   -> Kills
                                  [] f = "active" -> ActiveErrors]

-----------------------------------------------------------------------------
(* The guardian of a client.                                               *)

(* Watch connects and sends its request; without a shim it returns.        *)
Dial(c) ==
  /\ guardian[c] = "new"
  /\ \/ /\ shim = "up"
        /\ guardian' = [guardian EXCEPT ![c] = "waiting"]
        /\ Goto(c, "get")
     \/ /\ shim = "down"
        /\ guardian' = [guardian EXCEPT ![c] = "gone"]
        /\ UNCHANGED thread
  /\ UNCHANGED <<api, guest, shim, link, copy, handle, budget>>

Signal(c) ==
  /\ guardian[c] = "waiting"
  /\ guardian' = [guardian EXCEPT ![c] = "gone"]
  /\ UNCHANGED <<api, guest, shim, link, thread, copy, handle, budget>>

(* waitForError reads the answer of the shim, or the end of the socket.    *)
SeeEnd(c) ==
  /\ guardian[c] = "waiting" /\ thread[c] = "done"
  /\ guardian' = [guardian EXCEPT ![c] = "gone"]
  /\ UNCHANGED <<api, guest, shim, link, thread, copy, handle, budget>>

-----------------------------------------------------------------------------
(* The main loop of the shim.                                              *)

Boot ==
  /\ shim = "down"
  /\ shim' = "up"
  /\ UNCHANGED <<api, guest, link, guardian, thread, copy, handle, budget>>

Connect ==
  /\ shim = "up" /\ link = "down"
  /\ link' = "up"
  /\ UNCHANGED <<api, guest, shim, guardian, thread, copy, handle, budget>>

ConnectFailed ==
  /\ link = "lost"
  /\ link' = "down"
  /\ UNCHANGED <<api, guest, shim, guardian, thread, copy, handle, budget>>

(* libvirtd destroys the guests of a connection that ends.                 *)
AutoDestroy == guest' = [c \in Clients |-> Nil]

ConnLost ==
  /\ link = "up"
  /\ Spend("loss")
  /\ link' = "lost"
  /\ AutoDestroy
  /\ handle' = [c \in Clients |-> IF handle[c] = "live" THEN "dead" ELSE handle[c]]
  /\ UNCHANGED <<api, shim, guardian, thread, copy>>

(* The shim ends, and with it all its goroutines and sockets.              *)
End ==
  /\ shim' = "down" /\ link' = "down"
  /\ AutoDestroy
  /\ thread' = [c \in Clients |-> IF thread[c] = "none" THEN "none" ELSE "done"]
  /\ copy' = [c \in Clients |-> Nil]
  /\ handle' = [c \in Clients |-> "nil"]
  /\ UNCHANGED <<api, guardian>>

Kill == shim = "up" /\ Spend("kill") /\ End

-----------------------------------------------------------------------------
(* The API server: a PUT needs the current resourceVersion, and gives a    *)
(* new one if it changes the object.                                       *)

Accepted(c) == LET o == api[MachineOf[c]] IN o # Nil /\ o.rev = copy[c].rev
Stored(c, o) == IF o = api[MachineOf[c]] THEN o ELSE [o EXCEPT !.rev = @ + 1]
Put(c, o) == api' = [api EXCEPT ![MachineOf[c]] = Stored(c, o)]

-----------------------------------------------------------------------------
(* startMachine, in the goroutine of client c.  An error ends runClient,   *)
(* which closes the socket.                                                *)

Fail(c) ==
  /\ Goto(c, "done")
  /\ copy' = [copy EXCEPT ![c] = Nil]
  /\ handle' = [handle EXCEPT ![c] = "nil"]

(* Any error before there is a guest: of the request, of the client's      *)
(* identity, of the API server, of the designer, of libvirt.               *)
GiveUp(c) ==
  /\ \/ thread[c] \in {"get", "create"}
     \/ thread[c] = "connect" /\ (link = "down" \/ "error" \in Outcomes(copy[c].spec))
  /\ Fail(c)
  /\ UNCHANGED <<api, guest, shim, link, guardian, budget>>

Get(c) ==
  /\ thread[c] = "get" /\ api[MachineOf[c]] # Nil
  /\ copy' = [copy EXCEPT ![c] = api[MachineOf[c]]]
  /\ Goto(c, "connect")
  /\ UNCHANGED <<api, guest, shim, link, guardian, handle, budget>>

TakeConn_Unchecked(c) ==        \* mutant: s.conn is not compared with nil
  /\ thread[c] = "connect" /\ "domain" \in Outcomes(copy[c].spec)
  /\ handle' = [handle EXCEPT ![c] = CASE link = "up" -> "live" [] link = "lost" -> "dead"
                                                             [] OTHER -> "nil"]
  /\ Goto(c, "create")
  /\ UNCHANGED <<api, guest, shim, link, guardian, copy, budget>>

(* The domain is designed and, under the lock, the connection taken.       *)
TakeConn(c) ==
  /\ thread[c] = "connect" /\ "domain" \in Outcomes(copy[c].spec) /\ link # "down"
  /\ handle' = [handle EXCEPT ![c] = IF link = "up" THEN "live" ELSE "dead"]
  /\ Goto(c, "create")
  /\ UNCHANGED <<api, guest, shim, link, guardian, copy, budget>>

(* A panic of the designer ends the shim, for all machines.                *)
Crash(c) ==
  /\ thread[c] = "connect" /\ "panic" \in Outcomes(copy[c].spec)
  /\ End
  /\ UNCHANGED budget

Create(c) ==
  /\ thread[c] = "create" /\ handle[c] = "live"
  /\ guest' = [guest EXCEPT ![c] = copy[c].spec]
  /\ Goto(c, "report")
  /\ UNCHANGED <<api, shim, link, guardian, copy, handle, budget>>

Reported(c) == [copy[c] EXCEPT !.hw = copy[c].spec]

Rejected_Ignores(c) ==          \* mutant: the guest is left running
  Goto(c, "done")
Rejected(c) == Goto(c, "undo")

Report_Retries(c) ==            \* mutant: a conflict has the object fetched and reported again
  /\ thread[c] = "report" /\ api[MachineOf[c]] # Nil
  /\ LET o == [api[MachineOf[c]] EXCEPT !.hw = api[MachineOf[c]].spec]
     IN Put(c, o) /\ copy' = [copy EXCEPT ![c] = Stored(c, o)]
  /\ Goto(c, "check")
  /\ UNCHANGED <<guest, shim, link, guardian, handle, budget>>

(* The status, then s.machines; any error of the PUT, an answer that gets  *)
(* lost included, has the guest stopped.                                   *)
Report(c) ==
  /\ thread[c] = "report"
  /\ \/ /\ Accepted(c)
        /\ Put(c, Reported(c))
        /\ copy' = [copy EXCEPT ![c] = Stored(c, Reported(c))]
        /\ Goto(c, "check")
     \/ /\ (Accepted(c) /\ Put(c, Reported(c))) \/ UNCHANGED api
        /\ Rejected(c)
        /\ UNCHANGED copy
  /\ UNCHANGED <<guest, shim, link, guardian, handle, budget>>

-----------------------------------------------------------------------------
(* stopMachine: Destroy until it succeeds.  libvirt's errors are values of *)
(* type libvirt.Error, so the assertion to *libvirt.Error never holds and  *)
(* the loop goes on when the guest or the connection is gone.              *)
Destroys(c) == handle[c] = "live" /\ guest[c] # Nil /\ guest' = [guest EXCEPT ![c] = Nil]

(* The domain is not freed: its handle stays with the process.             *)
Undo(c) ==
  /\ thread[c] = "undo"
  /\ Destroys(c)
  /\ Goto(c, "done")
  /\ copy' = [copy EXCEPT ![c] = Nil]
  /\ UNCHANGED <<api, shim, link, guardian, handle, budget>>

(* waitForMachineStop.  IsActive is an error on a dead handle and, as the  *)
(* guest is transient, on one whose guest libvirt has removed; a guest it  *)
(* is about to remove is not active.                                       *)
Check(c) ==
  /\ thread[c] = "check"
  /\ \/ /\ guest[c] # Nil
        /\ Goto(c, "wait")
        /\ UNCHANGED <<copy, handle, budget>>
     \/ /\ guest[c] = Nil /\ handle[c] = "live"
        /\ Goto(c, "clear")
        /\ UNCHANGED <<copy, handle, budget>>
     \/ /\ guest[c] = Nil /\ Fail(c) /\ UNCHANGED budget
     \/ /\ guest[c] # Nil /\ Fail(c) /\ Spend("active")
  /\ UNCHANGED <<api, guest, shim, link, guardian>>

SeeEOF(c) ==
  /\ thread[c] = "wait" /\ guardian[c] = "gone"
  /\ Goto(c, "stop")
  /\ UNCHANGED <<api, guest, shim, link, guardian, copy, handle, budget>>

Stop_Once(c) ==                 \* mutant: a Destroy that fails is not tried again
  /\ thread[c] = "stop"
  /\ guest' = guest
  /\ Goto(c, "clear")
  /\ UNCHANGED <<api, shim, link, guardian, copy, handle, budget>>

Stop(c) ==
  /\ thread[c] = "stop"
  /\ Destroys(c)
  /\ Goto(c, "clear")
  /\ UNCHANGED <<api, shim, link, guardian, copy, handle, budget>>

Clear_Overwrites(c) ==          \* mutant: the PUT has no resourceVersion
  /\ thread[c] = "clear" /\ api[MachineOf[c]] # Nil
  /\ Put(c, [copy[c] EXCEPT !.hw = Nil])
  /\ Fail(c)
  /\ UNCHANGED <<guest, shim, link, guardian, budget>>

Clear(c) ==
  /\ thread[c] = "clear"
  /\ (Accepted(c) /\ Put(c, [copy[c] EXCEPT !.hw = Nil])) \/ UNCHANGED api
  /\ Fail(c)
  /\ UNCHANGED <<guest, shim, link, guardian, budget>>

-----------------------------------------------------------------------------
(* The guests and the users of the API.                                    *)

(* The guest powers itself off.                                            *)
Quit(c) ==
  /\ guest[c] # Nil
  /\ guest' = [guest EXCEPT ![c] = Nil]
  /\ UNCHANGED <<api, shim, link, guardian, thread, copy, handle, budget>>

UserModify(m) ==
  /\ api[m] # Nil
  /\ Spend("user")
  /\ \E s \in Hardware \ {api[m].spec} :
       api' = [api EXCEPT ![m].spec = s, ![m].rev = @ + 1]
  /\ UNCHANGED <<guest, shim, link, guardian, thread, copy, handle>>

UserDelete(m) ==
  /\ api[m] # Nil
  /\ Spend("user")
  /\ api' = [api EXCEPT ![m] = Nil]
  /\ UNCHANGED <<guest, shim, link, guardian, thread, copy, handle>>

Angel(c)   == Dial(c) \/ Signal(c) \/ SeeEnd(c)
Serve(c)   == GiveUp(c) \/ Get(c) \/ TakeConn(c) \/ Crash(c) \/ Create(c) \/ Report(c) \/ Undo(c)
              \/ Check(c) \/ SeeEOF(c) \/ Stop(c) \/ Clear(c)

Next ==
  \/ Boot \/ Connect \/ ConnectFailed \/ ConnLost \/ Kill
  \/ \E c \in Clients : Angel(c) \/ Serve(c) \/ Quit(c)
  \/ \E m \in Machines : UserModify(m) \/ UserDelete(m)

(* Goroutines and guardians are scheduled, and the shim is restarted.      *)
Fairness ==
  /\ WF_vars(Boot) /\ WF_vars(Connect) /\ WF_vars(ConnectFailed)
  /\ \A c \in Clients : WF_vars(Serve(c)) /\ WF_vars(Dial(c)) /\ WF_vars(SeeEnd(c))

Spec     == Init /\ [][Next]_vars
FairSpec == Spec /\ Fairness

-----------------------------------------------------------------------------
(* Properties.                                                             *)

(* The state has its type; a goroutine past its Get has an object, and one *)
(* that uses its connection or domain has it.                              *)
TypeOK ==
  /\ api \in [Machines -> Object \union {Nil}]
  /\ guest \in [Clients -> Hardware \union {Nil}]
  /\ shim \in {"down", "up"} /\ link \in {"down", "up", "lost"}
  /\ guardian \in [Clients -> {"new", "waiting", "gone"}]
  /\ thread \in [Clients -> Phases]
  /\ copy \in [Clients -> Object \union {Nil}]
  /\ handle \in [Clients -> {"nil", "live", "dead"}]
  /\ budget \in [Faults -> Nat]
  /\ \A c \in Clients :
       /\ thread[c] \in {"none", "get", "done"} <=> copy[c] = Nil
       /\ thread[c] \in {"none", "get", "connect"} => handle[c] = "nil"
       /\ thread[c] \notin {"none", "get", "connect", "done"} => handle[c] # "nil"

(* A guest that runs has a goroutine that will stop it, over a connection  *)
(* that works: no failure between the creation of the guest and the wait   *)
(* leaves a guest behind that nobody knows of, but one of IsActive.        *)
Kept(c) == handle[c] = "live" /\ thread[c] \in {"report", "undo", "check", "wait", "stop"}
Failed  == ActiveErrors - budget["active"]

GuestKept == Cardinality({c \in Clients : guest[c] # Nil /\ ~Kept(c)}) <= Failed

(* "closing the socket is the sign the shim uses to kill off the VM"       *)
(* (guardian.go): a guest whose guardian has gone does not stay, unless    *)
(* IsActive failed for it.                                                 *)
Stopped ==
  <>[](Cardinality({c \in Clients : guardian[c] = "gone" /\ guest[c] # Nil}) <= Failed)

(* "The hardware currently applied to the running instance"                *)
(* (virtmachine.go): while the shim waits for a guest the status of its    *)
(* machine is the hardware it was started with, whatever users write to    *)
(* the object meanwhile.                                                   *)
ShownHardware ==
  \A c \in Clients :
    LET o == api[MachineOf[c]]
    IN thread[c] \in {"check", "wait"} /\ guest[c] # Nil /\ o # Nil => o.hw = guest[c]

(* Only users change the spec of a machine: the shim's updates, made from  *)
(* the copy it got before the guest started, never take a change back.     *)
ShimKeepsSpecs ==
  [][budget'["user"] = budget["user"] =>
       \A m \in Machines : api[m] # Nil => api'[m] # Nil /\ api'[m].spec = api[m].spec]_vars

(* What is asked for one machine does not cost another its guest: a guest  *)
(* goes by itself, by its own goroutine, with the connection or a killed   *)
(* shim - or because a machine is started whose hardware, with no memory   *)
(* or a disk without a source, has the designer panic.                     *)
Isolated ==
  [][\A c \in Clients : guest[c] # Nil /\ guest'[c] = Nil =>
       \/ thread' = thread
       \/ thread[c] \in {"undo", "stop"} /\ shim' = "up"
       \/ budget' # budget
       \/ \E d \in Clients : copy[d] # Nil /\ ~Safe(copy[d].spec)]_vars

(* No guest is started from hardware the designer has to refuse.           *)
GuestSound == \A c \in Clients : guest[c] # Nil => Sound(guest[c])

(* "After this point we're guaranteed an event" (shim.go): the wait for a  *)
(* guest that has quit comes to an end.                                    *)
QuitNoticed ==
  \A c \in Clients : (thread[c] = "wait" /\ guest[c] = Nil) ~> (thread[c] = "done")

=============================================================================
