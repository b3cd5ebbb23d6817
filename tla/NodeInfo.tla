------------------------------ MODULE NodeInfo ------------------------------
(***************************************************************************)
(* virtkubenodeinfo: it keeps the Virtnode object of its host.  The main   *)
(* loop receives the events of its Connector and a tick every 15 seconds;  *)
(* for each it sets the phase of its copy of the object, asks libvirtd for *)
(* the capabilities if it has a connection, and PUTs the copy.             *)
(*                                                                         *)
(*   NewService                        Boot                                *)
(*   Run                               ConnReady, ConnFailed, Tick         *)
(*   VirtNodeUpdateFromHypervisor      Query, QueryFails                   *)
(*   the PUT of updateNode             Update, UpdateRefused, UpdateLost   *)
(***************************************************************************)
EXTENDS Connector

CONSTANTS
  UserEdits,     \* bound: changes of the object by users
  HostChanges,   \* bound: changes of the host's capabilities
  QueryErrors,   \* bound: calls of libvirt that fail on a working connection
  UpdateErrors   \* bound: PUTs that fail, or whose answer is lost

ASSUME BoundsAssumption ==
  /\ UserEdits \in Nat /\ HostChanges \in Nat /\ QueryErrors \in Nat
  /\ UpdateErrors \in Nat

VARIABLES
  host,     \* the capabilities the host has, by the number of changes
  api,      \* the Virtnode object; label counts the edits of users
  node,     \* s.nodeinfo, the copy of the service
  fresh,    \* whether its resourceVersion is that of the object
  pc,       \* the main loop: select, query, update
  budget    \* what is left of each bound

nodeVars == <<host, api, node, fresh, pc, budget>>
vars     == <<connVars, nodeVars>>

Hosts  == 0..HostChanges
Phases == {"", "Ready", "Failed", "Offline"}
Object == [phase : Phases, caps : Hosts \union {Nil}, label : 0..UserEdits]
Blank  == [phase |-> "", caps |-> Nil, label |-> 0]
Faults == {"edit", "host", "query", "update"}

Spend(f) == budget[f] > 0 /\ budget' = [budget EXCEPT ![f] = @ - 1]

Init ==
  /\ ConnInit
  /\ host = 0
  /\ api = Blank /\ node = Blank /\ fresh = TRUE /\ pc = "select"
  /\ budget = [f \in Faults |-> CASE f = "edit"   -> UserEdits
                                  [] f = "host"   -> HostChanges
                                  [] f = "query"  -> QueryErrors
                                  [] f = "update" -> UpdateErrors]

-----------------------------------------------------------------------------
(* NewService and Run.                                                     *)

Boot ==
  /\ OpenConnect
  /\ node' = api /\ fresh' = TRUE
  /\ UNCHANGED <<host, api, pc, budget>>

Begin_Keeps(phase, step) ==     \* mutant: the tick refreshes without setting the phase
  /\ pc = "select"
  /\ node' = [node EXCEPT !.phase = IF step = "update" THEN phase ELSE @]
  /\ pc' = step
  /\ UNCHANGED <<host, api, fresh, budget>>

(* updateNode up to its first call.                                        *)
Begin(phase, step) ==
  /\ pc = "select"
  /\ node' = [node EXCEPT !.phase = phase]
  /\ pc' = step
  /\ UNCHANGED <<host, api, fresh, budget>>

ConnReady == TakeReady /\ Begin("Ready", "query")

ConnFailed_Skips ==             \* mutant: the object is not updated
  TakeFailed /\ pc = "select" /\ UNCHANGED nodeVars

ConnFailed_Asks ==              \* mutant: libvirtd is asked without a connection
  TakeFailed /\ Begin("Offline", "query")

ConnFailed == TakeFailed /\ Begin("Offline", "update")

Tick == proc = "up" /\ conn # Nil /\ Begin("Ready", "query") /\ UNCHANGED connVars

(* The copy dies with the process.                                         *)
Forget ==
  /\ node' = Blank /\ fresh' = TRUE /\ pc' = "select"
  /\ UNCHANGED <<host, api, budget>>

Panic == pc = "select" /\ PanicOnFailed /\ Forget

Kill == EndProcess /\ Forget

-----------------------------------------------------------------------------
(* updateNode, on s.conn as it is now.                                     *)

Query ==
  /\ pc = "query" /\ sock[conn] = "up"
  /\ node' = [node EXCEPT !.caps = host]
  /\ pc' = "update"
  /\ UNCHANGED <<connVars, host, api, fresh, budget>>

(* On an error the copy keeps the capabilities it has.                     *)
QueryFails ==
  /\ pc = "query"
  /\ (sock[conn] = "down" /\ UNCHANGED budget) \/ Spend("query")
  /\ node' = [node EXCEPT !.phase = "Failed"]
  /\ pc' = "update"
  /\ UNCHANGED <<connVars, host, api, fresh>>

Update_Forced ==                \* mutant: the PUT has no resourceVersion
  /\ pc = "update"
  /\ api' = node /\ fresh' = TRUE
  /\ pc' = "select"
  /\ UNCHANGED <<connVars, host, node, budget>>

(* The PUT is accepted, and its answer is the new copy.                    *)
Update ==
  /\ pc = "update" /\ fresh
  /\ api' = node
  /\ pc' = "select"
  /\ UNCHANGED <<connVars, host, node, fresh, budget>>

(* The copy stays: once its version is old every PUT is refused.           *)
UpdateRefused ==
  /\ pc = "update"
  /\ (~fresh /\ UNCHANGED budget) \/ Spend("update")
  /\ pc' = "select"
  /\ UNCHANGED <<connVars, host, api, node, fresh>>

(* The answer is lost; a PUT that changed nothing gave no new version.     *)
UpdateLost ==
  /\ pc = "update" /\ fresh
  /\ Spend("update")
  /\ api' = node
  /\ fresh' = (api = node)
  /\ pc' = "select"
  /\ UNCHANGED <<connVars, host, node>>

-----------------------------------------------------------------------------
(* Users and the host.                                                     *)

UserEdit ==
  /\ Spend("edit")
  /\ api' = [api EXCEPT !.label = @ + 1]
  /\ fresh' = FALSE
  /\ UNCHANGED <<connVars, host, node, pc>>

HostChange ==
  /\ Spend("host")
  /\ host' = host + 1
  /\ UNCHANGED <<connVars, api, node, fresh, pc>>

Next ==
  \/ \E c \in Conns : Background(c) /\ UNCHANGED nodeVars
  \/ Boot \/ ConnReady \/ ConnFailed \/ Tick \/ Panic \/ Kill
  \/ Query \/ QueryFails \/ Update \/ UpdateRefused \/ UpdateLost
  \/ UserEdit \/ HostChange

(* select picks at random among what is ready, so that neither the ticks   *)
(* nor the events starve each other; what follows only has to be scheduled. *)
(* libvirtd answers sooner or later.                                       *)
Event  == ConnReady \/ ConnFailed \/ Panic
Report == Query \/ QueryFails \/ Update \/ UpdateRefused \/ UpdateLost

Some(A(_)) == \E c \in Conns : A(c) /\ UNCHANGED nodeVars

Connecting(c) == Register(c) \/ RegisterFails(c) \/ SendReady(c)
Closing(c)    == OnClose(c) \/ SendFailed(c)

Fairness ==
  /\ WF_vars(Boot) /\ SF_vars(Event) /\ SF_vars(Tick) /\ WF_vars(Report)
  /\ SF_vars(Some(Dial)) /\ SF_vars(Some(Register))
  /\ WF_vars(Some(Connecting)) /\ WF_vars(Some(Closing)) /\ WF_vars(Some(LazyUnregister))

Spec     == Init /\ [][Next]_vars
FairSpec == Spec /\ Fairness

-----------------------------------------------------------------------------
(* Properties.                                                             *)

(* The state has its type; the main loop has a connection while it asks.   *)
TypeOK ==
  /\ ConnTypeOK
  /\ host \in Hosts /\ api \in Object /\ node \in Object /\ fresh \in BOOLEAN
  /\ pc \in {"select", "query", "update"}
  /\ budget \in [Faults -> Nat]
  /\ pc = "query" => conn # Nil
  /\ pc # "select" => proc = "up"

(* Whether a PUT has gone wrong, or a user's edit has made the copy old:   *)
(* the code neither repeats an update nor fetches the object again.        *)
Excused == ~fresh \/ budget["update"] < UpdateErrors

(* A node whose connection is lost is not shown as Ready for good, unless  *)
(* the service ends or its PUT is refused.                                 *)
Lost == conn # Nil /\ sock[conn] = "down"

LossShown == Lost ~> (api.phase # "Ready" \/ proc = "down" \/ Excused)

(* While a connection works the object comes to show the host as it is,    *)
(* whatever queries and PUTs have failed, unless the copy is old.          *)
Works == proc = "up" /\ conn # Nil /\ sock[conn] = "up"
Shown == api.phase = "Ready" /\ api.caps = host

Current == <>[]Works => <>[](Shown \/ ~fresh)

(* A service without a connection gets one, or ends: the chain of          *)
(* connectors and callbacks never breaks.                                  *)
Reconnects == (proc = "up" /\ conn = Nil) ~> (conn # Nil \/ proc = "down")

(* The service never takes an edit of a user back.                         *)
EditsKept == [][api'.label >= api.label]_vars

=============================================================================
