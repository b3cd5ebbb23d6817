----------------------------- MODULE Connector ------------------------------
(***************************************************************************)
(* pkg/libvirtutil/connect.go: how a daemon gets, loses and gets again its *)
(* connection to libvirtd.  Who runs:                                      *)
(*                                                                         *)
(*   connector        a goroutine that dials until it has a connection,    *)
(*                    registers the close callback and sends "ready"       *)
(*   close callback   on the event loop: takes a reference, sends "failed" *)
(*                    and starts the next connector                        *)
(*   lazyUnregister   a goroutine that gives that reference back           *)
(*   main loop        of the daemon, that receives both events             *)
(*                                                                         *)
(* All of them block on one channel.  A connection is open as long as the  *)
(* program holds a reference to it.  Left out: the delays between dials,   *)
(* and dials that fail, which change nothing.                              *)
(***************************************************************************)
EXTENDS Integers, Sequences

CONSTANTS
  Conns,      \* connections; one can be used again when all its references have gone
  Nil         \* no connection

ASSUME ConnsAssumption == Nil \notin Conns

VARIABLES
  proc,       \* the daemon's process: down, up
  dialers,    \* connectors that dial
  sock,       \* each connection's socket: up, down
  refs,       \* references to each connection
  maker,      \* the connector that made it: none, register, send (of "ready")
  closer,     \* its close callback: none, armed, send (of "failed")
  lazy,       \* whether its lazyUnregister runs
  notify,     \* the channel
  conn        \* the connection of the main loop, s.conn, or Nil

connVars == <<proc, dialers, sock, refs, maker, closer, lazy, notify, conn>>

Ready(c) == [type |-> "ready", conn |-> c]
Failed   == [type |-> "failed", conn |-> Nil]

ConnInit ==
  /\ proc = "down" /\ dialers = 0
  /\ sock = [c \in Conns |-> "down"]
  /\ refs = [c \in Conns |-> 0]
  /\ maker = [c \in Conns |-> "none"]
  /\ closer = [c \in Conns |-> "none"]
  /\ lazy = [c \in Conns |-> FALSE]
  /\ notify = <<>>
  /\ conn = Nil

-----------------------------------------------------------------------------
(* connector and connect.                                                  *)

Dial(c) ==
  /\ proc = "up" /\ dialers > 0 /\ refs[c] = 0
  /\ dialers' = dialers - 1
  /\ sock' = [sock EXCEPT ![c] = "up"]
  /\ refs' = [refs EXCEPT ![c] = 1]
  /\ maker' = [maker EXCEPT ![c] = "register"]
  /\ UNCHANGED <<proc, closer, lazy, notify, conn>>

(* RegisterCloseCallback is a call to libvirtd: it needs the connection.   *)
Register(c) ==
  /\ maker[c] = "register" /\ sock[c] = "up"
  /\ maker' = [maker EXCEPT ![c] = "send"]
  /\ closer' = [closer EXCEPT ![c] = "armed"]
  /\ UNCHANGED <<proc, dialers, sock, refs, lazy, notify, conn>>

RegisterFails_Ends(c) ==        \* mutant: the connector returns
  /\ maker[c] = "register"
  /\ maker' = [maker EXCEPT ![c] = "none"]
  /\ refs' = [refs EXCEPT ![c] = @ - 1]
  /\ sock' = [sock EXCEPT ![c] = "down"]
  /\ UNCHANGED <<proc, dialers, closer, lazy, notify, conn>>

(* An error has the connection closed, and the connector dials again.      *)
RegisterFails(c) ==
  /\ maker[c] = "register"
  /\ maker' = [maker EXCEPT ![c] = "none"]
  /\ refs' = [refs EXCEPT ![c] = @ - 1]
  /\ sock' = [sock EXCEPT ![c] = "down"]
  /\ dialers' = dialers + 1
  /\ UNCHANGED <<proc, closer, lazy, notify, conn>>

(* make(chan ConnectEvent, 1)                                              *)
Room == notify = <<>>

SendReady(c) ==
  /\ maker[c] = "send" /\ Room
  /\ maker' = [maker EXCEPT ![c] = "none"]
  /\ notify' = Append(notify, Ready(c))
  /\ UNCHANGED <<proc, dialers, sock, refs, closer, lazy, conn>>

-----------------------------------------------------------------------------
(* The end of a connection.                                                *)

(* libvirtd goes away.                                                     *)
Drop(c) ==
  /\ sock[c] = "up"
  /\ sock' = [sock EXCEPT ![c] = "down"]
  /\ UNCHANGED <<proc, dialers, refs, maker, closer, lazy, notify, conn>>

OnClose_NoRef(c) ==             \* mutant: the callback does not take a reference
  /\ closer[c] = "armed" /\ sock[c] = "down"
  /\ lazy' = [lazy EXCEPT ![c] = TRUE]
  /\ closer' = [closer EXCEPT ![c] = "send"]
  /\ UNCHANGED <<proc, dialers, sock, refs, maker, notify, conn>>

(* The event loop runs the callback: conn.Ref(), go lazyUnregister(conn).  *)
OnClose(c) ==
  /\ closer[c] = "armed" /\ sock[c] = "down"
  /\ refs' = [refs EXCEPT ![c] = @ + 1]
  /\ lazy' = [lazy EXCEPT ![c] = TRUE]
  /\ closer' = [closer EXCEPT ![c] = "send"]
  /\ UNCHANGED <<proc, dialers, sock, maker, notify, conn>>

SendFailed_Late(c) ==           \* mutant: the next connector starts before the event is sent
  /\ closer[c] = "send"
  /\ \/ /\ dialers = 0
        /\ dialers' = 1
        /\ UNCHANGED <<closer, notify>>
     \/ /\ Room
        /\ closer' = [closer EXCEPT ![c] = "none"]
        /\ notify' = Append(notify, Failed)
        /\ UNCHANGED dialers
  /\ UNCHANGED <<proc, sock, refs, maker, lazy, conn>>

(* notify <- failed, then go connector(uri, notify).                       *)
SendFailed(c) ==
  /\ closer[c] = "send" /\ Room
  /\ closer' = [closer EXCEPT ![c] = "none"]
  /\ notify' = Append(notify, Failed)
  /\ dialers' = dialers + 1
  /\ UNCHANGED <<proc, sock, refs, maker, lazy, conn>>

LazyUnregister(c) ==
  /\ lazy[c]
  /\ lazy' = [lazy EXCEPT ![c] = FALSE]
  /\ refs' = [refs EXCEPT ![c] = @ - 1]
  /\ UNCHANGED <<proc, dialers, sock, maker, closer, notify, conn>>

-----------------------------------------------------------------------------
(* The main loop's side, in nodeinfo and in the shim.                      *)

Receive(type) ==
  /\ notify # <<>> /\ Head(notify).type = type
  /\ notify' = Tail(notify)

TakeReady ==
  /\ Receive("ready")
  /\ conn' = Head(notify).conn
  /\ UNCHANGED <<proc, dialers, sock, refs, maker, closer, lazy>>

(* s.conn.Close() and s.conn = nil.                                        *)
TakeFailed ==
  /\ Receive("failed") /\ conn # Nil
  /\ refs' = [refs EXCEPT ![conn] = @ - 1]
  /\ conn' = Nil
  /\ UNCHANGED <<proc, dialers, sock, maker, closer, lazy>>

(* The process ends: its connections and goroutines are gone.              *)
EndProcess ==
  /\ proc = "up"
  /\ proc' = "down" /\ dialers' = 0
  /\ sock' = [c \in Conns |-> "down"]
  /\ refs' = [c \in Conns |-> 0]
  /\ maker' = [c \in Conns |-> "none"]
  /\ closer' = [c \in Conns |-> "none"]
  /\ lazy' = [c \in Conns |-> FALSE]
  /\ notify' = <<>>
  /\ conn' = Nil

(* Close of a nil connection: "failed" has overtaken "ready".              *)
PanicOnFailed ==
  /\ notify # <<>> /\ Head(notify).type = "failed" /\ conn = Nil
  /\ EndProcess

OpenConnect ==
  /\ proc = "down"
  /\ proc' = "up" /\ dialers' = 1
  /\ UNCHANGED <<sock, refs, maker, closer, lazy, notify, conn>>

(* What happens without the main loop.                                     *)
Background(c) ==
  \/ Dial(c) \/ Register(c) \/ RegisterFails(c) \/ SendReady(c)
  \/ Drop(c) \/ OnClose(c) \/ SendFailed(c) \/ LazyUnregister(c)

-----------------------------------------------------------------------------
(* Properties.                                                             *)

ConnTypeOK ==
  /\ proc \in {"down", "up"} /\ dialers \in {0, 1}
  /\ sock \in [Conns -> {"down", "up"}]
  /\ refs \in [Conns -> 0..2]
  /\ maker \in [Conns -> {"none", "register", "send"}]
  /\ closer \in [Conns -> {"none", "armed", "send"}]
  /\ lazy \in [Conns -> BOOLEAN]
  /\ notify = <<>> \/ \E e \in {Ready(c) : c \in Conns} \union {Failed} : notify = <<e>>
  /\ conn \in Conns \union {Nil}

(* A connection has a reference for the one that owns it - its connector,  *)
(* the event on its way or the main loop - and one for lazyUnregister: it  *)
(* is neither closed under anyone's hands nor held for nothing, whatever   *)
(* the order of callback, events and dials.                                *)
Owned(c) == maker[c] # "none" \/ conn = c \/ notify = <<Ready(c)>>
Count(b) == IF b THEN 1 ELSE 0

RefsCounted == \A c \in Conns : refs[c] = Count(Owned(c)) + Count(lazy[c])

(* The main loop's connection is a link as the other daemons' models take  *)
(* it to be: a "ready" never replaces a connection and a "failed" never    *)
(* closes one that works, although the two are sent by different threads.  *)
LinkOf ==
  IF conn = Nil THEN "down" ELSE IF sock[conn] = "up" THEN "up" ELSE "lost"

Abstract == INSTANCE Link WITH link <- LinkOf

IsLink == Abstract!Spec

=============================================================================
