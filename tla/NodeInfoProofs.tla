--------------------------- MODULE NodeInfoProofs ---------------------------
(***************************************************************************)
(* Proofs about NodeInfo and its Connector, for any set of connections and *)
(* any bounds: the types, the references, and that the main loop's         *)
(* connection is a Link.                                                   *)
(***************************************************************************)
EXTENDS NodeInfo, TLAPS

-----------------------------------------------------------------------------
(* The inductive invariant.                                                *)

(* One thread at most will bring the next connection: a connector that     *)
(* dials or registers, or the close callback of the last connection.       *)
Source(c) == maker[c] = "register" \/ closer[c] # "none"

OneSource ==
  /\ dialers = 1 => \A c \in Conns : ~Source(c)
  /\ \A c, d \in Conns : Source(c) /\ Source(d) => c = d
  /\ \A c \in Conns : maker[c] = "register" => closer[c] = "none"

(* A connection has one owner, from its dial to its "failed".              *)
OneOwner ==
  \A c \in Conns :
    /\ conn = c => maker[c] = "none" /\ notify # <<Ready(c)>>
    /\ notify = <<Ready(c)>> => maker[c] = "none"
    /\ closer[c] # "none" => Owned(c)

(* lazyUnregister is started by the callback, which runs once.             *)
Lazily ==
  \A c \in Conns :
    /\ maker[c] = "register" \/ closer[c] = "armed" => ~lazy[c]
    /\ closer[c] = "send" => sock[c] = "down"

(* What is in the channel.  If "failed" is sent before "ready" it stays    *)
(* there, with no connection in the main loop: taking it ends the process. *)
InOrder ==
  /\ \A c \in Conns :
       /\ maker[c] = "send" /\ closer[c] = "none" => notify = <<Failed>> /\ conn = Nil
       /\ notify = <<Ready(c)>> => closer[c] # "none" /\ conn = Nil
       /\ conn = c /\ closer[c] = "none" => notify = <<Failed>>
  /\ conn # Nil /\ notify = <<Failed>> => sock[conn] = "down" /\ closer[conn] = "none"

Quiet ==
  proc = "down" =>
    /\ dialers = 0 /\ notify = <<>> /\ conn = Nil
    /\ \A c \in Conns :
         refs[c] = 0 /\ maker[c] = "none" /\ closer[c] = "none" /\ ~lazy[c]

ConnInv ==
  /\ ConnTypeOK /\ RefsCounted
  /\ OneSource /\ OneOwner /\ Lazily /\ InOrder /\ Quiet

-----------------------------------------------------------------------------
(* The channel holds one event, and the events differ.                     *)
LEMMA Events ==
  /\ \A c, d : <<Ready(c)>> = <<Ready(d)>> => c = d
  /\ \A c : <<Ready(c)>> # <<Failed>> /\ <<Ready(c)>> # <<>>
  /\ <<Failed>> # <<>>
  /\ \A e : Head(<<e>>) = e /\ Tail(<<e>>) = <<>> /\ Append(<<>>, e) = <<e>>
<1>1. \A c, d : Ready(c) = Ready(d) => c = d
  BY DEF Ready
<1>2. \A c : Ready(c) # Failed
  BY DEF Ready, Failed
<1>3. \A e, f : (<<e>> = <<f>> => e = f) /\ <<e>> # <<>>
  OBVIOUS
<1>4. \A e : Head(<<e>>) = e /\ Tail(<<e>>) = <<>> /\ Append(<<>>, e) = <<e>>
  OBVIOUS
<1> QED  BY <1>1, <1>2, <1>3, <1>4

(* A connector dials only when there is no other source, and only with a    *)
(* connection nobody holds.                                                 *)
LEMMA DialKeeps ==
  ASSUME NEW c \in Conns, ConnInv, Dial(c)
  PROVE  ConnInv'
<1> USE ConnsAssumption DEF ConnInv
<1>1. ConnTypeOK'
  BY DEF Dial, ConnTypeOK
<1>2. RefsCounted'
  BY DEF Dial, ConnTypeOK, RefsCounted, Owned, Count
<1>3. OneSource'
  BY DEF Dial, ConnTypeOK, OneSource, Source
<1>4. OneOwner'
  BY DEF Dial, RefsCounted, Owned, Count, OneSource, OneOwner
<1>5. Lazily'
  BY Events DEF Dial, ConnTypeOK, RefsCounted, Count, OneSource, Source, Lazily, InOrder
<1>6. InOrder'
  BY DEF Dial, RefsCounted, Owned, Count, InOrder
<1>7. Quiet'
  BY DEF Dial, Quiet
<1> QED  BY <1>1, <1>2, <1>3, <1>4, <1>5, <1>6, <1>7

(* The connector has a connection now that the callback will replace.       *)
LEMMA RegisterKeeps ==
  ASSUME NEW c \in Conns, ConnInv, Register(c)
  PROVE  ConnInv'
<1> USE ConnsAssumption DEF ConnInv
<1>1. ConnTypeOK'
  BY DEF Register, ConnTypeOK
<1>2. RefsCounted'
  BY DEF Register, RefsCounted, Owned
<1>3. OneSource'
  BY DEF Register, ConnTypeOK, OneSource, Source
<1>4. OneOwner'
  BY DEF Register, Owned, OneOwner
<1>5. Lazily'
  BY DEF Register, Lazily
<1>6. InOrder'
  BY DEF Register, ConnTypeOK, InOrder
<1>7. Quiet'
  BY DEF Register, Quiet
<1> QED  BY <1>1, <1>2, <1>3, <1>4, <1>5, <1>6, <1>7

(* The connection is closed by its only owner, who dials again.             *)
LEMMA RegisterFailsKeeps ==
  ASSUME NEW c \in Conns, ConnInv, RegisterFails(c)
  PROVE  ConnInv'
<1> USE ConnsAssumption DEF ConnInv
<1>1. ConnTypeOK'
  BY DEF RegisterFails, ConnTypeOK, RefsCounted, Owned, Count, OneSource, Source
<1>2. RefsCounted'
  BY DEF RegisterFails, ConnTypeOK, RefsCounted, Owned, Count, OneOwner
<1>3. OneSource'
  BY DEF RegisterFails, ConnTypeOK, OneSource, Source
<1>4. OneOwner'
  BY DEF RegisterFails, Owned, OneSource, OneOwner
<1>5. Lazily'
  BY DEF RegisterFails, Lazily
<1>6. InOrder'
  BY DEF RegisterFails, InOrder
<1>7. Quiet'
  BY DEF RegisterFails, Quiet
<1> QED  BY <1>1, <1>2, <1>3, <1>4, <1>5, <1>6, <1>7

(* The event owns the connection now.  There is room only while the main    *)
(* loop has no connection, as that would have another source.               *)
LEMMA SendReadyKeeps ==
  ASSUME NEW c \in Conns, ConnInv, SendReady(c)
  PROVE  ConnInv'
<1> USE ConnsAssumption DEF ConnInv
<1>1. ConnTypeOK'
  BY DEF SendReady, ConnTypeOK, Room
<1>2. RefsCounted'
  BY Events DEF SendReady, RefsCounted, Owned, Room
<1>3. OneSource'
  BY DEF SendReady, OneSource, Source
<1>4. OneOwner'
  BY Events DEF SendReady, ConnTypeOK, Owned, OneOwner, Room
<1>5. Lazily'
  BY DEF SendReady, Lazily
<1>6. InOrder'
  BY Events DEF SendReady, ConnTypeOK, OneSource, Source, OneOwner, InOrder, Room
<1>7. Quiet'
  BY DEF SendReady, Quiet
<1> QED  BY <1>1, <1>2, <1>3, <1>4, <1>5, <1>6, <1>7

LEMMA DropKeeps ==
  ASSUME NEW c \in Conns, ConnInv, Drop(c)
  PROVE  ConnInv'
<1> USE ConnsAssumption DEF ConnInv
<1>1. ConnTypeOK'
  BY DEF Drop, ConnTypeOK
<1>2. RefsCounted'
  BY DEF Drop, RefsCounted, Owned
<1>3. OneSource'
  BY DEF Drop, OneSource, Source
<1>4. OneOwner'
  BY DEF Drop, Owned, OneOwner
<1>5. Lazily'
  BY DEF Drop, Lazily
<1>6. InOrder'
  BY DEF Drop, InOrder
<1>7. Quiet'
  BY DEF Drop, Quiet
<1> QED  BY <1>1, <1>2, <1>3, <1>4, <1>5, <1>6, <1>7

(* The callback runs once: lazyUnregister is not running.                   *)
LEMMA OnCloseKeeps ==
  ASSUME NEW c \in Conns, ConnInv, OnClose(c)
  PROVE  ConnInv'
<1> USE ConnsAssumption DEF ConnInv
<1>1. ConnTypeOK'
  BY DEF OnClose, ConnTypeOK, RefsCounted, Count, OneSource, Lazily, InOrder
<1>2. RefsCounted'
  BY DEF OnClose, ConnTypeOK, RefsCounted, Owned, Count, Lazily
<1>3. OneSource'
  BY DEF OnClose, OneSource, Source
<1>4. OneOwner'
  BY DEF OnClose, Owned, OneOwner
<1>5. Lazily'
  BY DEF OnClose, ConnTypeOK, OneSource, Lazily
<1>6. InOrder'
  BY DEF OnClose, InOrder
<1>7. Quiet'
  BY DEF OnClose, Quiet
<1> QED  BY <1>1, <1>2, <1>3, <1>4, <1>5, <1>6, <1>7

(* With room in the channel, the main loop has this connection or none.     *)
LEMMA SendFailedKeeps ==
  ASSUME NEW c \in Conns, ConnInv, SendFailed(c)
  PROVE  ConnInv'
<1> USE ConnsAssumption DEF ConnInv
<1>1. ConnTypeOK'
  BY DEF SendFailed, ConnTypeOK, OneSource, Source, Room
<1>2. RefsCounted'
  BY Events DEF SendFailed, RefsCounted, Owned, Room
<1>3. OneSource'
  BY DEF SendFailed, ConnTypeOK, OneSource, Source
<1>4. OneOwner'
  BY Events DEF SendFailed, Owned, OneOwner, Room
<1>5. Lazily'
  BY DEF SendFailed, Lazily
<1>6. InOrder'
  BY Events DEF SendFailed, ConnTypeOK, OneSource, Source, OneOwner, Lazily, InOrder, Room
<1>7. Quiet'
  BY DEF SendFailed, Quiet
<1> QED  BY <1>1, <1>2, <1>3, <1>4, <1>5, <1>6, <1>7

LEMMA LazyUnregisterKeeps ==
  ASSUME NEW c \in Conns, ConnInv, LazyUnregister(c)
  PROVE  ConnInv'
<1> USE ConnsAssumption DEF ConnInv
<1>1. ConnTypeOK'
  BY DEF LazyUnregister, ConnTypeOK, RefsCounted, Count
<1>2. RefsCounted'
  BY DEF LazyUnregister, ConnTypeOK, RefsCounted, Owned, Count
<1>3. OneSource'
  BY DEF LazyUnregister, OneSource, Source
<1>4. OneOwner'
  BY DEF LazyUnregister, Owned, OneOwner
<1>5. Lazily'
  BY DEF LazyUnregister, Lazily
<1>6. InOrder'
  BY DEF LazyUnregister, InOrder
<1>7. Quiet'
  BY DEF LazyUnregister, Quiet
<1> QED  BY <1>1, <1>2, <1>3, <1>4, <1>5, <1>6, <1>7

(* The event is the owner, and hands it to the main loop.                   *)
LEMMA TakeReadyKeeps ==
  ASSUME ConnInv, TakeReady
  PROVE  ConnInv'
<1> USE ConnsAssumption DEF ConnInv
<1>0. PICK c \in Conns : /\ notify = <<Ready(c)>> /\ notify' = <<>>
                          /\ conn = Nil /\ conn' = c
  <2>1. PICK e \in {Ready(c) : c \in Conns} \union {Failed} : notify = <<e>>
    BY DEF TakeReady, Receive, ConnTypeOK
  <2>2. Head(notify) = e /\ Tail(notify) = <<>>
    BY <2>1, Events
  <2>3. e.type = "ready" /\ notify' = <<>> /\ conn' = e.conn
    BY <2>2 DEF TakeReady, Receive
  <2>4. PICK c \in Conns : e = Ready(c)
    BY <2>3 DEF Failed
  <2>5. conn' = c
    BY <2>3, <2>4 DEF Ready
  <2> QED  BY <2>1, <2>3, <2>4, <2>5 DEF InOrder
<1>1. ConnTypeOK'
  BY <1>0 DEF TakeReady, ConnTypeOK
<1>2. RefsCounted'
  BY <1>0, Events DEF TakeReady, RefsCounted, Owned
<1>3. OneSource'
  BY <1>0 DEF TakeReady, OneSource, Source
<1>4. OneOwner'
  BY <1>0, Events DEF TakeReady, Owned, OneOwner
<1>5. Lazily'
  BY <1>0 DEF TakeReady, Lazily
<1>6. InOrder'
  BY <1>0, Events DEF TakeReady, InOrder
<1>7. Quiet'
  BY <1>0 DEF TakeReady, Quiet
<1> QED  BY <1>1, <1>2, <1>3, <1>4, <1>5, <1>6, <1>7

(* The main loop's connection is closed and has no other owner.             *)
LEMMA TakeFailedKeeps ==
  ASSUME ConnInv, TakeFailed
  PROVE  ConnInv'
<1> USE ConnsAssumption DEF ConnInv
<1>0. notify = <<Failed>> /\ notify' = <<>> /\ conn \in Conns
  <2>1. PICK e \in {Ready(c) : c \in Conns} \union {Failed} : notify = <<e>>
    BY DEF TakeFailed, Receive, ConnTypeOK
  <2>2. Head(notify) = e /\ Tail(notify) = <<>>
    BY <2>1, Events
  <2>3. e.type = "failed" /\ notify' = <<>> /\ conn \in Conns
    BY <2>2 DEF TakeFailed, Receive, ConnTypeOK
  <2>4. e = Failed
    BY <2>3 DEF Ready
  <2> QED  BY <2>1, <2>3, <2>4
<1>1. ConnTypeOK'
  BY <1>0 DEF TakeFailed, ConnTypeOK, RefsCounted, Owned, Count
<1>2. RefsCounted'
  BY <1>0, Events DEF TakeFailed, ConnTypeOK, RefsCounted, Owned, Count, OneOwner
<1>3. OneSource'
  BY <1>0 DEF TakeFailed, OneSource, Source
<1>4. OneOwner'
  BY <1>0 DEF TakeFailed, Owned, OneOwner, InOrder
<1>5. Lazily'
  BY <1>0 DEF TakeFailed, Lazily
<1>6. InOrder'
  BY <1>0 DEF TakeFailed, InOrder
<1>7. Quiet'
  BY <1>0 DEF TakeFailed, Quiet
<1> QED  BY <1>1, <1>2, <1>3, <1>4, <1>5, <1>6, <1>7

LEMMA EndProcessKeeps ==
  ASSUME ConnInv, EndProcess
  PROVE  ConnInv'
<1> USE ConnsAssumption DEF ConnInv
<1>1. ConnTypeOK'
  BY DEF EndProcess, ConnTypeOK
<1>2. RefsCounted'
  BY DEF EndProcess, RefsCounted, Owned, Count
<1>3. OneSource'
  BY DEF EndProcess, OneSource, Source
<1>4. OneOwner'
  BY DEF EndProcess, OneOwner
<1>5. Lazily'
  BY DEF EndProcess, Lazily
<1>6. InOrder'
  BY DEF EndProcess, InOrder
<1>7. Quiet'
  BY DEF EndProcess, Quiet
<1> QED  BY <1>1, <1>2, <1>3, <1>4, <1>5, <1>6, <1>7

(* The first source.                                                        *)
LEMMA OpenConnectKeeps ==
  ASSUME ConnInv, OpenConnect
  PROVE  ConnInv'
<1> USE ConnsAssumption DEF ConnInv
<1>1. ConnTypeOK'
  BY DEF OpenConnect, ConnTypeOK
<1>2. RefsCounted'
  BY DEF OpenConnect, RefsCounted, Owned
<1>3. OneSource'
  BY DEF OpenConnect, OneSource, Source, Quiet
<1>4. OneOwner'
  BY DEF OpenConnect, Owned, OneOwner
<1>5. Lazily'
  BY DEF OpenConnect, Lazily
<1>6. InOrder'
  BY DEF OpenConnect, InOrder
<1>7. Quiet'
  BY DEF OpenConnect, Quiet
<1> QED  BY <1>1, <1>2, <1>3, <1>4, <1>5, <1>6, <1>7

LEMMA StutterKeeps ==
  ASSUME ConnInv, UNCHANGED connVars
  PROVE  ConnInv'
BY DEF connVars, ConnInv, ConnTypeOK, RefsCounted, Owned, Count, OneSource, Source, OneOwner, Lazily, InOrder, Quiet

(* A step of the service is a step of its Connector, or none.              *)
ConnStep ==
  \/ \E c \in Conns : Background(c)
  \/ TakeReady \/ TakeFailed \/ EndProcess \/ OpenConnect
  \/ UNCHANGED connVars

LEMMA NextIsConnStep ==
  ASSUME [Next]_vars
  PROVE  ConnStep
<1>1. CASE \E c \in Conns : Background(c) /\ UNCHANGED nodeVars
  BY <1>1 DEF ConnStep
<1>2. CASE Boot \/ ConnReady \/ ConnFailed \/ Tick \/ Panic \/ Kill
  BY <1>2 DEF ConnStep, Boot, ConnReady, ConnFailed, Tick, Panic, PanicOnFailed, Kill
<1>3. CASE Query \/ QueryFails \/ Update \/ UpdateRefused \/ UpdateLost \/ UserEdit \/ HostChange
  BY <1>3 DEF ConnStep, Query, QueryFails, Update, UpdateRefused, UpdateLost, UserEdit, HostChange
<1>4. CASE UNCHANGED vars
  BY <1>4 DEF ConnStep, vars
<1> QED  BY <1>1, <1>2, <1>3, <1>4 DEF Next

LEMMA ConnInductive ==
  ASSUME ConnInv, ConnStep
  PROVE  ConnInv'
<1>1. ASSUME NEW c \in Conns, Background(c)
      PROVE  ConnInv'
  BY <1>1, DialKeeps, RegisterKeeps, RegisterFailsKeeps, SendReadyKeeps, DropKeeps,
     OnCloseKeeps, SendFailedKeeps, LazyUnregisterKeeps DEF Background
<1> QED
  BY <1>1, TakeReadyKeeps, TakeFailedKeeps, EndProcessKeeps, OpenConnectKeeps, StutterKeeps
     DEF ConnStep

LEMMA ConnInitial == Init => ConnInv
BY ConnsAssumption, Events DEF Init, ConnInit, ConnInv, ConnTypeOK, RefsCounted, Owned, Count, OneSource, Source, OneOwner, Lazily, InOrder, Quiet

LEMMA ConnAlways == Spec => []ConnInv
<1>1. ConnInv /\ [Next]_vars => ConnInv'
  BY NextIsConnStep, ConnInductive
<1> QED  BY ConnInitial, <1>1, PTL DEF Spec

(* Nothing leaks a connection and nothing closes one that someone holds,   *)
(* for any number of connections, losses and restarts.                     *)
THEOREM ReferencesRight == Spec => []RefsCounted
<1>1. ConnInv => RefsCounted
  BY DEF ConnInv
<1> QED  BY ConnAlways, <1>1, PTL

-----------------------------------------------------------------------------
(* The chain of connectors and callbacks.                                  *)

(* OneSource says that at most one thread will bring the next connection,  *)
(* this that one does.                                                     *)
HasSource == proc = "up" => dialers = 1 \/ \E c \in Conns : Source(c)

LEMMA BackgroundSource ==
  ASSUME ConnInv, HasSource, NEW c \in Conns, Background(c)
  PROVE  HasSource'
<1> USE DEF HasSource, Source, ConnInv, ConnTypeOK
<1>1. CASE Dial(c)
  BY <1>1 DEF Dial
<1>2. CASE Register(c)
  BY <1>2 DEF Register
<1>3. CASE RegisterFails(c)
  <2>1. dialers = 0
    BY <1>3 DEF RegisterFails, OneSource
  <2> QED  BY <1>3, <2>1 DEF RegisterFails
<1>4. CASE SendReady(c) \/ Drop(c) \/ LazyUnregister(c)
  <2>1. \A d \in Conns : Source(d) => Source(d)'
    BY <1>4 DEF SendReady, Drop, LazyUnregister
  <2> QED  BY <1>4, <2>1 DEF SendReady, Drop, LazyUnregister
<1>5. CASE OnClose(c)
  BY <1>5 DEF OnClose
<1>6. CASE SendFailed(c)
  <2>1. dialers = 0
    BY <1>6 DEF SendFailed, OneSource
  <2> QED  BY <1>6, <2>1 DEF SendFailed
<1> QED  BY <1>1, <1>2, <1>3, <1>4, <1>5, <1>6 DEF Background

LEMMA SourceStep ==
  ASSUME ConnInv, HasSource, ConnStep
  PROVE  HasSource'
<1>1. ASSUME NEW c \in Conns, Background(c) PROVE HasSource'
  BY <1>1, BackgroundSource
<1>2. CASE TakeReady \/ TakeFailed \/ UNCHANGED connVars
  BY <1>2 DEF TakeReady, TakeFailed, connVars, HasSource, Source
<1>3. CASE EndProcess \/ OpenConnect
  BY <1>3 DEF EndProcess, OpenConnect, HasSource
<1> QED  BY <1>1, <1>2, <1>3 DEF ConnStep

(* The chain does not break: a service without a connection has a          *)
(* connector at work on the next one, or its "ready" is in the channel,    *)
(* however many connections failed and in whatever order their events were *)
(* sent.  With the scheduler's fairness this is why Reconnects holds.      *)
THEOREM ConnectionIsComing ==
  Spec => [](proc = "up" /\ conn = Nil =>
               dialers = 1 \/ \E c \in Conns : maker[c] # "none" \/ notify = <<Ready(c)>>)
<1>1. Init => HasSource
  BY DEF Init, ConnInit, HasSource
<1>2. ConnInv /\ HasSource /\ [Next]_vars => HasSource'
  BY NextIsConnStep, SourceStep
<1>3. ASSUME ConnInv, HasSource, proc = "up", conn = Nil, dialers # 1
      PROVE  \E c \in Conns : maker[c] # "none" \/ notify = <<Ready(c)>>
  <2>1. PICK c \in Conns : Source(c)
    BY <1>3 DEF HasSource
  <2>2. maker[c] = "register" \/ Owned(c)
    BY <1>3, <2>1 DEF Source, ConnInv, OneOwner
  <2>3. conn # c
    BY <1>3, ConnsAssumption
  <2> QED  BY <2>2, <2>3 DEF Owned
<1>4. ConnInv /\ HasSource =>
        (proc = "up" /\ conn = Nil =>
           dialers = 1 \/ \E c \in Conns : maker[c] # "none" \/ notify = <<Ready(c)>>)
  BY <1>3
<1> QED  BY <1>1, <1>2, <1>4, ConnAlways, PTL DEF Spec

-----------------------------------------------------------------------------
(* The connection is a Link.                                               *)

LinkVars == <<proc, LinkOf>>

LEMMA BackgroundIsLink ==
  ASSUME ConnInv, NEW c \in Conns, Background(c)
  PROVE  [Abstract!Next]_LinkVars
<1> USE ConnsAssumption DEF ConnInv
<1>1. CASE Dial(c)
  <2>1. c # conn
    BY <1>1 DEF Dial, RefsCounted, Owned, Count, ConnTypeOK
  <2> QED  BY <1>1, <2>1 DEF Dial, LinkOf, LinkVars, ConnTypeOK
<1>2. CASE RegisterFails(c)
  <2>1. c # conn
    BY <1>2 DEF RegisterFails, OneOwner
  <2> QED  BY <1>2, <2>1 DEF RegisterFails, LinkOf, LinkVars, ConnTypeOK
<1>3. CASE Drop(c)
  BY <1>3 DEF Drop, LinkOf, LinkVars, ConnTypeOK, Abstract!Next, Abstract!Lose
<1>4. CASE Register(c) \/ SendReady(c) \/ OnClose(c) \/ SendFailed(c) \/ LazyUnregister(c)
  BY <1>4 DEF Register, SendReady, OnClose, SendFailed, LazyUnregister, LinkOf, LinkVars
<1> QED  BY <1>1, <1>2, <1>3, <1>4 DEF Background

LEMMA ConnStepIsLink ==
  ASSUME ConnInv, ConnStep
  PROVE  [Abstract!Next]_LinkVars
<1> USE ConnsAssumption, Events DEF ConnInv
<1>1. ASSUME NEW c \in Conns, Background(c)
      PROVE  [Abstract!Next]_LinkVars
  BY <1>1, BackgroundIsLink
<1>2. CASE TakeReady
  <2>1. conn = Nil /\ proc = "up" /\ conn' \in Conns
    BY <1>2 DEF TakeReady, Receive, ConnTypeOK, InOrder, Quiet, Ready, Failed
  <2> QED  BY <1>2, <2>1 DEF TakeReady, LinkOf, LinkVars, ConnTypeOK, Abstract!Next, Abstract!Ready
<1>3. CASE TakeFailed
  <2>1. notify = <<Failed>>
    BY <1>3 DEF TakeFailed, Receive, ConnTypeOK, Ready, Failed
  <2>2. sock[conn] = "down"
    BY <1>3, <2>1 DEF TakeFailed, InOrder
  <2> QED  BY <1>3, <2>2 DEF TakeFailed, LinkOf, LinkVars, Abstract!Next, Abstract!Failed
<1>4. CASE EndProcess
  BY <1>4 DEF EndProcess, LinkOf, Abstract!Next, Abstract!End
<1>5. CASE OpenConnect
  BY <1>5 DEF OpenConnect, LinkOf, Abstract!Next, Abstract!Start
<1>6. CASE UNCHANGED connVars
  BY <1>6 DEF connVars, LinkOf, LinkVars
<1> QED  BY <1>1, <1>2, <1>3, <1>4, <1>5, <1>6 DEF ConnStep

(* A "ready" never replaces a connection and a "failed" never closes one   *)
(* that works, in whatever order connectors, callbacks and the main loop   *)
(* run: what the other daemons' models assume of their connection.         *)
THEOREM ImplementsLink == Spec => IsLink
<1>1. Init => Abstract!Init
  BY DEF Init, ConnInit, LinkOf, Abstract!Init
<1>2. ConnInv /\ [Next]_vars => [Abstract!Next]_LinkVars
  BY NextIsConnStep, ConnStepIsLink
<1> QED  BY <1>1, <1>2, ConnAlways, PTL DEF Spec, IsLink, Abstract!Spec, LinkVars

-----------------------------------------------------------------------------
(* The record of the node.                                                 *)

(* The bounds count edits and changes, and a copy of the current version   *)
(* has every edit.                                                         *)
Counted ==
  /\ api.label = UserEdits - budget["edit"]
  /\ host = HostChanges - budget["host"]

CopyCurrent == proc = "up" /\ fresh => node.label = api.label

NodeInv == TypeOK /\ Counted /\ CopyCurrent

LEMMA BlankObject == Blank \in Object /\ Blank.label = 0
<1>1. 0 \in 0..UserEdits
  BY BoundsAssumption
<1> QED  BY <1>1 DEF Blank, Object, Phases

LEMMA Spending ==
  ASSUME budget \in [Faults -> Nat], NEW f \in Faults, Spend(f)
  PROVE  /\ budget' \in [Faults -> Nat] /\ budget'[f] = budget[f] - 1 /\ budget[f] > 0
         /\ \A g \in Faults \ {f} : budget'[g] = budget[g]
BY DEF Spend

LEMMA NodeInitial == Init => NodeInv
<1> SUFFICES ASSUME Init PROVE NodeInv
  OBVIOUS
<1>1. ConnTypeOK
  BY ConnInitial DEF ConnInv
<1>2. /\ budget \in [Faults -> Nat]
      /\ budget["edit"] = UserEdits /\ budget["host"] = HostChanges
  BY BoundsAssumption DEF Init, Faults
<1>3. api = Blank /\ node = Blank /\ host = 0 /\ fresh /\ pc = "select" /\ proc = "down"
  BY DEF Init, ConnInit
<1>4. TypeOK
  BY <1>1, <1>2, <1>3, BlankObject, BoundsAssumption DEF TypeOK, Hosts
<1>5. Counted
  BY <1>2, <1>3, BlankObject, BoundsAssumption DEF Counted
<1>6. CopyCurrent
  BY <1>3 DEF CopyCurrent
<1> QED  BY <1>4, <1>5, <1>6 DEF NodeInv

(* What the steps of the connector leave alone.                            *)
LEMMA BackgroundLeaves ==
  ASSUME NEW c \in Conns, Background(c)
  PROVE  proc' = proc /\ conn' = conn
BY DEF Background, Dial, Register, RegisterFails, SendReady, Drop, OnClose, SendFailed,
       LazyUnregister

LEMMA BackgroundKeepsNode ==
  ASSUME NodeInv, ConnTypeOK', NEW c \in Conns, Background(c), UNCHANGED nodeVars
  PROVE  NodeInv'
<1> USE BoundsAssumption DEF NodeInv
<1>1. TypeOK'
  BY BackgroundLeaves DEF nodeVars, TypeOK
<1>2. Counted'
  BY DEF nodeVars, Counted
<1>3. CopyCurrent'
  BY BackgroundLeaves DEF nodeVars, CopyCurrent
<1> QED  BY <1>1, <1>2, <1>3

(* The service fetches the object, with all its edits.                     *)
LEMMA BootKeeps ==
  ASSUME NodeInv, ConnTypeOK', Boot
  PROVE  NodeInv'
<1> USE BoundsAssumption DEF NodeInv
<1>1. TypeOK'
  BY DEF Boot, OpenConnect, TypeOK
<1>2. Counted'
  BY DEF Boot, OpenConnect, Counted
<1>3. CopyCurrent'
  BY DEF Boot, OpenConnect, CopyCurrent
<1> QED  BY <1>1, <1>2, <1>3

(* The main loop has a connection when it goes to ask.                      *)
LEMMA ConnReadyKeeps ==
  ASSUME NodeInv, ConnInv, ConnTypeOK', ConnReady
  PROVE  NodeInv'
<1> USE ConnsAssumption, BoundsAssumption DEF NodeInv
<1>1. conn' # Nil /\ proc = "up"
  <2>1. PICK e \in {Ready(c) : c \in Conns} \union {Failed} : notify = <<e>>
    BY DEF ConnReady, TakeReady, Receive, ConnTypeOK, TypeOK
  <2>2. e.type = "ready" /\ conn' = e.conn
    BY <2>1, Events DEF ConnReady, TakeReady, Receive
  <2>3. PICK c \in Conns : e = Ready(c)
    BY <2>2 DEF Failed
  <2> QED  BY <2>1, <2>2, <2>3 DEF Ready, ConnInv, Quiet, TypeOK, ConnTypeOK
<1>2. TypeOK'
  BY <1>1 DEF ConnReady, TakeReady, Begin, TypeOK, Object, Phases
<1>3. Counted'
  BY DEF ConnReady, Begin, Counted
<1>4. CopyCurrent'
  BY DEF ConnReady, TakeReady, Begin, CopyCurrent, TypeOK, Object
<1> QED  BY <1>2, <1>3, <1>4

LEMMA ConnFailedKeeps ==
  ASSUME NodeInv, ConnInv, ConnTypeOK', ConnFailed
  PROVE  NodeInv'
<1> USE BoundsAssumption DEF NodeInv
<1>1. proc = "up"
  BY DEF ConnFailed, TakeFailed, Receive, ConnInv, Quiet, TypeOK, ConnTypeOK
<1>2. TypeOK'
  BY <1>1 DEF ConnFailed, TakeFailed, Begin, TypeOK, Object, Phases
<1>3. Counted'
  BY DEF ConnFailed, Begin, Counted
<1>4. CopyCurrent'
  BY DEF ConnFailed, TakeFailed, Begin, CopyCurrent, TypeOK, Object
<1> QED  BY <1>2, <1>3, <1>4

LEMMA TickKeeps ==
  ASSUME NodeInv, ConnTypeOK', Tick
  PROVE  NodeInv'
<1> USE BoundsAssumption DEF NodeInv
<1>1. TypeOK'
  BY DEF Tick, connVars, Begin, TypeOK, Object, Phases
<1>2. Counted'
  BY DEF Tick, Begin, Counted
<1>3. CopyCurrent'
  BY DEF Tick, connVars, Begin, CopyCurrent, TypeOK, Object
<1> QED  BY <1>1, <1>2, <1>3

(* A service that has ended has no copy.                                   *)
LEMMA ForgetKeeps ==
  ASSUME NodeInv, ConnTypeOK', EndProcess, Forget
  PROVE  NodeInv'
<1> USE BoundsAssumption DEF NodeInv
<1>1. TypeOK'
  BY BlankObject DEF EndProcess, Forget, TypeOK
<1>2. Counted'
  BY DEF Forget, Counted
<1>3. CopyCurrent'
  BY DEF EndProcess, CopyCurrent
<1> QED  BY <1>1, <1>2, <1>3

LEMMA QueryKeeps ==
  ASSUME NodeInv, ConnTypeOK', Query
  PROVE  NodeInv'
<1> USE BoundsAssumption DEF NodeInv
<1>1. TypeOK'
  BY DEF Query, connVars, TypeOK, Object, Phases, Hosts, Faults
<1>2. Counted'
  BY DEF Query, connVars, Counted, CopyCurrent, TypeOK, Object, Phases, Hosts, Faults
<1>3. CopyCurrent'
  BY DEF Query, connVars, CopyCurrent, TypeOK, Object, Phases, Hosts, Faults
<1> QED  BY <1>1, <1>2, <1>3

LEMMA QueryFailsKeeps ==
  ASSUME NodeInv, ConnTypeOK', QueryFails
  PROVE  NodeInv'
<1> USE BoundsAssumption DEF NodeInv
<1>0. budget' \in [Faults -> Nat] /\ budget'["edit"] = budget["edit"] /\ budget'["host"] = budget["host"]
  BY Spending DEF QueryFails, TypeOK, Faults
<1>1. TypeOK'
  BY <1>0 DEF QueryFails, connVars, TypeOK, Object, Phases, Hosts, Faults
<1>2. Counted'
  BY <1>0 DEF QueryFails, connVars, Counted, CopyCurrent, TypeOK, Object, Phases, Hosts, Faults
<1>3. CopyCurrent'
  BY <1>0 DEF QueryFails, connVars, CopyCurrent, TypeOK, Object, Phases, Hosts, Faults
<1> QED  BY <1>1, <1>2, <1>3

(* An accepted copy is of the current version: it has every edit.          *)
LEMMA UpdateKeeps ==
  ASSUME NodeInv, ConnTypeOK', Update
  PROVE  NodeInv'
<1> USE BoundsAssumption DEF NodeInv
<1>1. TypeOK'
  BY DEF Update, connVars, TypeOK, Object, Phases, Hosts, Faults
<1>2. Counted'
  BY DEF Update, connVars, Counted, CopyCurrent, TypeOK, Object, Phases, Hosts, Faults
<1>3. CopyCurrent'
  BY DEF Update, connVars, CopyCurrent, TypeOK, Object, Phases, Hosts, Faults
<1> QED  BY <1>1, <1>2, <1>3

LEMMA UpdateRefusedKeeps ==
  ASSUME NodeInv, ConnTypeOK', UpdateRefused
  PROVE  NodeInv'
<1> USE BoundsAssumption DEF NodeInv
<1>0. budget' \in [Faults -> Nat] /\ budget'["edit"] = budget["edit"] /\ budget'["host"] = budget["host"]
  BY Spending DEF UpdateRefused, TypeOK, Faults
<1>1. TypeOK'
  BY <1>0 DEF UpdateRefused, connVars, TypeOK, Object, Phases, Hosts, Faults
<1>2. Counted'
  BY <1>0 DEF UpdateRefused, connVars, Counted, CopyCurrent, TypeOK, Object, Phases, Hosts, Faults
<1>3. CopyCurrent'
  BY <1>0 DEF UpdateRefused, connVars, CopyCurrent, TypeOK, Object, Phases, Hosts, Faults
<1> QED  BY <1>1, <1>2, <1>3

LEMMA UpdateLostKeeps ==
  ASSUME NodeInv, ConnTypeOK', UpdateLost
  PROVE  NodeInv'
<1> USE BoundsAssumption DEF NodeInv
<1>0. budget' \in [Faults -> Nat] /\ budget'["edit"] = budget["edit"] /\ budget'["host"] = budget["host"]
  BY Spending DEF UpdateLost, TypeOK, Faults
<1>1. TypeOK'
  BY <1>0 DEF UpdateLost, connVars, TypeOK, Object, Phases, Hosts, Faults
<1>2. Counted'
  BY <1>0 DEF UpdateLost, connVars, Counted, CopyCurrent, TypeOK, Object, Phases, Hosts, Faults
<1>3. CopyCurrent'
  BY <1>0 DEF UpdateLost, connVars, CopyCurrent, TypeOK, Object, Phases, Hosts, Faults
<1> QED  BY <1>1, <1>2, <1>3

LEMMA UserEditKeeps ==
  ASSUME NodeInv, ConnTypeOK', UserEdit
  PROVE  NodeInv'
<1> USE BoundsAssumption DEF NodeInv
<1>0. /\ budget' \in [Faults -> Nat] /\ budget'["host"] = budget["host"]
      /\ budget'["edit"] = budget["edit"] - 1 /\ budget["edit"] \in Nat \ {0}
  BY Spending DEF UserEdit, TypeOK, Faults
<1>a. /\ api.label + 1 \in 0..UserEdits
      /\ api' \in Object /\ api'.label = api.label + 1
  BY <1>0 DEF UserEdit, TypeOK, Object, Counted
<1>1. TypeOK'
  BY <1>0, <1>a DEF UserEdit, connVars, TypeOK
<1>2. Counted'
  BY <1>0, <1>a DEF UserEdit, Counted, TypeOK, Object
<1>3. CopyCurrent'
  BY <1>0 DEF UserEdit, connVars, CopyCurrent
<1> QED  BY <1>1, <1>2, <1>3

LEMMA HostChangeKeeps ==
  ASSUME NodeInv, ConnTypeOK', HostChange
  PROVE  NodeInv'
<1> USE BoundsAssumption DEF NodeInv
<1>0. /\ budget' \in [Faults -> Nat] /\ budget'["edit"] = budget["edit"]
      /\ budget'["host"] = budget["host"] - 1 /\ budget["host"] \in Nat \ {0}
  BY Spending DEF HostChange, TypeOK, Faults
<1>a. host' \in Hosts
  BY <1>0 DEF HostChange, TypeOK, Hosts, Counted
<1>1. TypeOK'
  BY <1>0, <1>a DEF HostChange, connVars, TypeOK
<1>2. Counted'
  BY <1>0 DEF HostChange, Counted, TypeOK, Hosts
<1>3. CopyCurrent'
  BY <1>0 DEF HostChange, connVars, CopyCurrent
<1> QED  BY <1>1, <1>2, <1>3

LEMMA NodeAlways == Spec => []NodeInv
<1>1. ASSUME NodeInv, ConnInv, ConnInv', [Next]_vars
      PROVE  NodeInv'
  <2>0. ConnTypeOK'
    BY <1>1 DEF ConnInv
  <2>1. CASE \E c \in Conns : Background(c) /\ UNCHANGED nodeVars
    BY <1>1, <2>0, <2>1, BackgroundKeepsNode
  <2>2. CASE Boot \/ ConnReady \/ ConnFailed \/ Tick
    BY <1>1, <2>0, <2>2, BootKeeps, ConnReadyKeeps, ConnFailedKeeps, TickKeeps
  <2>3. CASE Panic \/ Kill
    BY <1>1, <2>0, <2>3, ForgetKeeps DEF Panic, PanicOnFailed, Kill
  <2>4. CASE Query \/ QueryFails \/ Update \/ UpdateRefused \/ UpdateLost
    BY <1>1, <2>0, <2>4, QueryKeeps, QueryFailsKeeps, UpdateKeeps, UpdateRefusedKeeps,
       UpdateLostKeeps
  <2>5. CASE UserEdit \/ HostChange
    BY <1>1, <2>0, <2>5, UserEditKeeps, HostChangeKeeps
  <2>6. CASE UNCHANGED vars
    BY <1>1, <2>0, <2>6 DEF vars, connVars, nodeVars, NodeInv, TypeOK, Counted, CopyCurrent
  <2> QED  BY <1>1, <2>1, <2>2, <2>3, <2>4, <2>5, <2>6 DEF Next
<1>2. NodeInv /\ ConnInv /\ ConnInv' /\ [Next]_vars => NodeInv'
  BY <1>1
<1> QED  BY NodeInitial, <1>2, ConnAlways, PTL DEF Spec

(* The state of the service keeps its types, for any bounds, and the main  *)
(* loop never asks libvirtd without a connection.                          *)
THEOREM TypeCorrect == Spec => []TypeOK
<1>1. NodeInv => TypeOK
  BY DEF NodeInv
<1> QED  BY NodeAlways, <1>1, PTL

(* The service never takes an edit of a user back, whatever PUTs fail and  *)
(* whatever answers are lost.                                              *)
THEOREM KeepsEdits == Spec => EditsKept
<1>1. ASSUME NodeInv, [Next]_vars
      PROVE  [api'.label >= api.label]_vars
  <2> USE DEF NodeInv, TypeOK, Object
  <2>1. CASE Update \/ UpdateLost
    BY <1>1, <2>1 DEF Update, UpdateLost, CopyCurrent
  <2>2. CASE UserEdit
    BY <1>1, <2>2 DEF UserEdit
  <2>3. CASE api' = api
    BY <1>1, <2>3
  <2>4. CASE UNCHANGED vars
    BY <2>4
  <2>5. Update \/ UpdateLost \/ UserEdit \/ api' = api \/ UNCHANGED vars
    BY <1>1 DEF Next, nodeVars, Boot, ConnReady, ConnFailed, Tick, Begin, Panic, Kill, Forget,
                Query, QueryFails, UpdateRefused, HostChange
  <2> QED  BY <2>1, <2>2, <2>3, <2>4, <2>5
<1>2. NodeInv /\ [Next]_vars => [api'.label >= api.label]_vars
  BY <1>1
<1> QED  BY NodeAlways, <1>2, PTL DEF Spec, EditsKept

=============================================================================
