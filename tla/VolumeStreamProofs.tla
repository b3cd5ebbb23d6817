------------------------- MODULE VolumeStreamProofs -------------------------
(***************************************************************************)
(* Proofs about VolumeStream, for every set of files and of requests,      *)
(* every size of the volumes and every bound on the faults.                *)
(***************************************************************************)
EXTENDS VolumeStream, TLAPS

-----------------------------------------------------------------------------
(* The inductive invariant.                                                *)

(* A request is asked once and has its stream until its handler returns,   *)
(* or after that if the handler did not close it.                          *)
PlaceInv == \A r \in Requests :
  /\ pc[r] \in {"new", "wait"} => stream[r] = Nil
  /\ pc[r] = "copy" => stream[r] # Nil
  /\ stream[r] # Nil => pc[r] = "copy" \/ answer[r] \in {"failed", "cut"}

Queued(op) ==
  /\ \A i \in DOMAIN channel[op] : pc[channel[op][i]] = "wait" /\ Op(channel[op][i]) = op
  /\ \A i, k \in DOMAIN channel[op] : channel[op][i] = channel[op][k] => i = k

ChannelInv == \A op \in {"upload", "download"} : Queued(op)

(* A usable handle is of a volume that exists (Volumes).                   *)
HandleInv == Held \subseteq Stored

(* The streams libvirtd still writes, or may write, to a volume.           *)
Open(r) == stream[r] # Nil /\ ~stream[r].broken

(* What an upload has written is there, unless another one that it knows   *)
(* of has overwritten it.                                                  *)
WroteInv == \A r \in Puts : Open(r) /\ stream[r].attached =>
  /\ vols[FileOf[r]] # Nil
  /\ \A b \in 1..stream[r].written : vols[FileOf[r]][b] \in {r} \union rivals[r]

RivalInv == \A r, q \in Puts : Open(r) /\ Open(q) /\ r # q /\ FileOf[r] = FileOf[q] => q \in rivals[r]

RequestInv == PlaceInv /\ ChannelInv /\ WroteInv /\ RivalInv
IndInv     == TypeOK /\ HandleInv /\ RequestInv

-----------------------------------------------------------------------------
(* Types.                                                                  *)

LEMMA FileType ==
  ASSUME NEW f \in File
  PROVE  /\ f # Nil /\ f.mode \in Modes \union {Nil} /\ f.vol \in {"nil", "live", "dead"}
         /\ \A v \in {"nil", "live", "dead"} : [f EXCEPT !.vol = v] \in File /\ [f EXCEPT !.vol = v].vol = v
BY NilAssumption DEF File

LEMMA ModeType ==
  ASSUME NEW f \in File, NEW m \in Modes \union {Nil}
  PROVE  [f EXCEPT !.mode = m] \in File /\ [f EXCEPT !.mode = m].vol = f.vol
BY DEF File

LEMMA StreamType ==
  ASSUME NEW s \in Stream
  PROVE  /\ s # Nil /\ s.broken \in BOOLEAN /\ s.attached \in BOOLEAN
         /\ s.sent \in 0..Size /\ s.written \in 0..Size
         /\ [s EXCEPT !.broken = TRUE] \in Stream /\ [s EXCEPT !.attached = FALSE] \in Stream
         /\ \A x \in 0..Size : [s EXCEPT !.sent = x] \in Stream /\ [s EXCEPT !.written = x] \in Stream
BY NilAssumption DEF Stream

LEMMA NewStreamType == NewStream \in Stream /\ NewStream # Nil
<1>1. 0 \in 0..Size
  BY ConstantsAssumption
<1>2. NewStream \in Stream
  BY <1>1 DEF NewStream, Stream
<1> QED  BY <1>2, NilAssumption

LEMMA PutOrGet ==
  ASSUME NEW r \in Requests
  PROVE  FileOf[r] \in Names /\ Op(r) \in {"upload", "download"}
         /\ (Op(r) = "upload" <=> r \in Puts) /\ (r \in Puts \/ r \in Gets)
BY ConstantsAssumption DEF Op, Requests

(* What a request knows depends on nothing else.                           *)
LEMMA RequestRests ==
  ASSUME RequestInv, UNCHANGED <<reqVars, vols>>
  PROVE  RequestInv'
BY DEF RequestInv, PlaceInv, ChannelInv, Queued, WroteInv, RivalInv, Open, reqVars

LEMMA RequestTypes ==
  ASSUME TypeOK, UNCHANGED reqVars, proc' \in {"down", "up"}, link' \in {"down", "up", "lost"},
         files' \in [Names -> File \union {Nil}], vols' \in [Names -> Content \union {Nil}],
         faults' \in Nat
  PROVE  TypeOK'
BY DEF TypeOK, reqVars

LEMMA FaultType ==
  ASSUME TypeOK, Fault
  PROVE  faults' \in Nat
BY DEF TypeOK, Fault

-----------------------------------------------------------------------------
(* The daemon and its files.                                               *)

LEMMA SetFileInv ==
  ASSUME IndInv, NEW n \in Names, NEW f \in File \union {Nil}, SetFile(n, f), faults' \in Nat,
         f # Nil /\ f.vol = "live" => n \in Stored
  PROVE  IndInv'
<1>1. /\ files' = [files EXCEPT ![n] = f] /\ files \in [Names -> File \union {Nil}]
      /\ UNCHANGED <<proc, link, vols, reqVars>>
  BY DEF SetFile, IndInv, TypeOK
<1>2. TypeOK'
  BY <1>1, RequestTypes DEF IndInv, TypeOK
<1>3. HandleInv'
  BY <1>1 DEF IndInv, HandleInv, Held, Stored
<1> QED  BY <1>1, <1>2, <1>3, RequestRests DEF IndInv

LEMMA FilesInv ==
  ASSUME IndInv, NEW n \in Names,
         AddFile(n) \/ ModifyFile(n) \/ LoseResource(n) \/ DeleteFile(n) \/ TakeHandle(n) \/ DropHandle(n)
  PROVE  IndInv'
<1>0. TypeOK /\ (files[n] # Nil => files[n] \in File) /\ faults \in Nat
  BY DEF IndInv, TypeOK
<1>1. files[n] # Nil /\ files[n].vol = "live" => n \in Stored
  BY DEF IndInv, HandleInv, Held
<1>2. CASE AddFile(n)
  <2>1. PICK m \in Modes : SetFile(n, [mode |-> m, vol |-> "nil"])
    BY <1>2 DEF AddFile
  <2>2. [mode |-> m, vol |-> "nil"] \in File
    BY DEF File
  <2>3. faults' \in Nat
    BY <1>0, <1>2 DEF AddFile
  <2> QED  BY <2>1, <2>2, <2>3, SetFileInv
<1>3. CASE ModifyFile(n)
  <2>1. PICK m \in Modes : SetFile(n, [files[n] EXCEPT !.mode = m])
    BY <1>3 DEF ModifyFile
  <2>2. [files[n] EXCEPT !.mode = m] \in File /\ [files[n] EXCEPT !.mode = m].vol = files[n].vol
        /\ files[n] # Nil
    <3>1. files[n] \in File /\ m \in Modes \union {Nil}
      BY <1>0, <1>3 DEF ModifyFile
    <3>2. [files[n] EXCEPT !.mode = m] \in File /\ [files[n] EXCEPT !.mode = m].vol = files[n].vol
      BY <3>1, ModeType
    <3>3. files[n] # Nil
      BY <1>3 DEF ModifyFile
    <3> QED  BY <3>2, <3>3
  <2>3. faults' \in Nat
    BY <1>0, <1>3 DEF ModifyFile
  <2> QED  BY <1>1, <2>1, <2>2, <2>3, SetFileInv
<1>4. CASE LoseResource(n)
  <2>1. SetFile(n, [files[n] EXCEPT !.mode = Nil]) /\ Fault /\ files[n] # Nil
    BY <1>4 DEF LoseResource
  <2>2. [files[n] EXCEPT !.mode = Nil] \in File /\ [files[n] EXCEPT !.mode = Nil].vol = files[n].vol
    BY <1>0, <2>1, ModeType
  <2> QED  BY <1>0, <1>1, <2>1, <2>2, FaultType, SetFileInv
<1>5. CASE DeleteFile(n)
  BY <1>0, <1>5, SetFileInv DEF DeleteFile
<1>6. CASE TakeHandle(n)
  <2>1. faults' \in Nat /\ files[n] # Nil
    BY <1>0, <1>6 DEF TakeHandle
  <2>2. CASE Repository!MayHold(n) /\ SetFile(n, [files[n] EXCEPT !.vol = "live"])
    <3>1. [files[n] EXCEPT !.vol = "live"] \in File /\ n \in Stored
      BY <1>0, <2>1, <2>2, FileType DEF Repository!MayHold
    <3> QED  BY <2>1, <2>2, <3>1, SetFileInv
  <2>3. CASE SetFile(n, [files[n] EXCEPT !.vol = "dead"])
    <3>1. [files[n] EXCEPT !.vol = "dead"] \in File /\ [files[n] EXCEPT !.vol = "dead"].vol # "live"
      BY <1>0, <2>1, FileType
    <3> QED  BY <2>1, <2>3, <3>1, SetFileInv
  <2> QED  BY <1>6, <2>2, <2>3 DEF TakeHandle
<1>7. CASE DropHandle(n)
  <2>1. SetFile(n, [files[n] EXCEPT !.vol = "nil"]) /\ files[n] # Nil /\ faults' \in Nat
    BY <1>0, <1>7, FaultType DEF DropHandle
  <2>2. [files[n] EXCEPT !.vol = "nil"] \in File /\ [files[n] EXCEPT !.vol = "nil"].vol # "live"
    BY <1>0, <2>1, FileType
  <2> QED  BY <2>1, <2>2, SetFileInv
<1> QED  BY <1>2, <1>3, <1>4, <1>5, <1>6, <1>7

LEMMA BootConnectInv ==
  ASSUME IndInv, Boot \/ Connect \/ ConnectFailed
  PROVE  IndInv'
<1>1. UNCHANGED <<vols, reqVars, faults>>
  BY DEF Boot, Connect, ConnectFailed
<1>2. /\ files' \in [Names -> File \union {Nil}]
      /\ \A n \in Names : files'[n] = files[n] \/ files'[n] = Nil \/ files'[n].vol = "nil"
  <2>1. CASE UNCHANGED files
    BY <2>1 DEF IndInv, TypeOK
  <2>2. CASE files' = [n \in Names |-> IF files[n] = Nil THEN Nil ELSE [files[n] EXCEPT !.vol = "nil"]]
    <3>1. ASSUME NEW n \in Names, files[n] # Nil
          PROVE  [files[n] EXCEPT !.vol = "nil"] \in File /\ [files[n] EXCEPT !.vol = "nil"].vol = "nil"
      <4>1. files[n] \in File
        BY <3>1 DEF IndInv, TypeOK
      <4> QED  BY <4>1, FileType
    <3> QED  BY <2>2, <3>1
  <2> QED  BY <2>1, <2>2 DEF Boot, Connect, ConnectFailed
<1>3. proc' \in {"down", "up"} /\ link' \in {"down", "up", "lost"}
  BY DEF IndInv, TypeOK, Boot, Connect, ConnectFailed
<1>4. TypeOK'
  BY <1>1, <1>2, <1>3, RequestTypes DEF IndInv, TypeOK
<1>5. HandleInv'
  BY <1>1, <1>2 DEF IndInv, HandleInv, Held, Stored
<1> QED  BY <1>1, <1>4, <1>5, RequestRests DEF IndInv

LEMMA CreateVolumeInv ==
  ASSUME IndInv, NEW n \in Names, CreateVolume(n)
  PROVE  IndInv'
<1> DEFINE new == [b \in Blocks |-> Blank]
<1>1. /\ vols \in [Names -> Content \union {Nil}] /\ vols[n] = Nil
      /\ vols' = [vols EXCEPT ![n] = new]
      /\ UNCHANGED <<proc, link, files, reqVars, faults>>
  BY DEF IndInv, TypeOK, CreateVolume
<1>2. new \in Content /\ new # Nil
  BY NilAssumption DEF Content
<1> HIDE DEF new
<1>3. TypeOK'
  BY <1>1, <1>2, RequestTypes DEF IndInv, TypeOK
<1>4. HandleInv'
  BY <1>1, <1>2 DEF IndInv, HandleInv, Held, Stored
<1>5. WroteInv'
  <2> SUFFICES ASSUME NEW r \in Puts, Open(r), stream[r].attached
               PROVE  /\ vols'[FileOf[r]] # Nil
                      /\ \A b \in 1..stream[r].written : vols'[FileOf[r]][b] \in {r} \union rivals[r]
    BY <1>1 DEF WroteInv, Open, reqVars
  <2>1. FileOf[r] # n
    BY <1>1 DEF IndInv, RequestInv, WroteInv
  <2>2. FileOf[r] \in Names
    BY PutOrGet DEF Requests
  <2> QED  BY <1>1, <2>1, <2>2 DEF IndInv, RequestInv, WroteInv
<1>6. PlaceInv' /\ ChannelInv' /\ RivalInv'
  BY <1>1 DEF IndInv, RequestInv, PlaceInv, ChannelInv, Queued, RivalInv, Open, reqVars
<1> QED  BY <1>3, <1>4, <1>5, <1>6 DEF IndInv, RequestInv

-----------------------------------------------------------------------------
(* The streams.                                                            *)

(* A step that may close, break or detach streams and changes no volume    *)
(* that an upload is still attached to.                                    *)
LEMMA OpenRests ==
  ASSUME RequestInv,
         \A r \in Puts : Open(r)' =>
           /\ Open(r) /\ rivals'[r] = rivals[r]
           /\ stream'[r].attached => /\ stream[r].attached /\ stream'[r].written = stream[r].written
                                     /\ vols'[FileOf[r]] = vols[FileOf[r]]
  PROVE  WroteInv' /\ RivalInv'
<1>1. ASSUME NEW r \in Puts, Open(r)', stream'[r].attached
      PROVE  /\ vols'[FileOf[r]] # Nil
             /\ \A b \in 1..stream'[r].written : vols'[FileOf[r]][b] \in {r} \union rivals'[r]
  BY <1>1 DEF RequestInv, WroteInv
<1>2. WroteInv'
  BY <1>1 DEF WroteInv
<1>3. RivalInv'
  BY DEF RequestInv, RivalInv
<1> QED  BY <1>2, <1>3

(* A step after which every stream is closed, or as it was but for what it *)
(* has sent and whether it still works.                                    *)
LEMMA StreamsRest ==
  ASSUME IndInv, UNCHANGED <<vols, rivals>>, DOMAIN stream' = Requests,
         \A r \in Requests : stream'[r] = Nil \/
           /\ stream[r] # Nil /\ stream'[r] # Nil
           /\ stream'[r].written = stream[r].written /\ stream'[r].attached = stream[r].attached
           /\ stream[r].broken => stream'[r].broken
  PROVE  WroteInv' /\ RivalInv'
<1>1. \A r \in Puts : Open(r)' =>
        /\ Open(r) /\ rivals'[r] = rivals[r]
        /\ stream'[r].attached => /\ stream[r].attached /\ stream'[r].written = stream[r].written
                                  /\ vols'[FileOf[r]] = vols[FileOf[r]]
  BY DEF Open, Requests
<1> QED  BY <1>1, OpenRests DEF IndInv

LEMMA EndInv ==
  ASSUME IndInv, End, faults' \in Nat
  PROVE  IndInv'
<1>1. /\ proc' = "down" /\ link' = "down" /\ files' = [n \in Names |-> Nil]
      /\ pc' = [r \in Requests |-> IF pc[r] = "new" THEN "new" ELSE "done"]
      /\ channel' = [op \in {"upload", "download"} |-> <<>>]
      /\ stream' = [r \in Requests |-> Nil]
      /\ answer' = [r \in Requests |-> IF pc[r] # "new" /\ answer[r] = "none" THEN "cut" ELSE answer[r]]
      /\ UNCHANGED <<vols, rivals>>
  BY DEF End
<1>2. TypeOK'
  <2>1. channel' \in [{"upload", "download"} -> Seq(Requests)]
    BY <1>1
  <2>2. pc' \in [Requests -> Places] /\ answer' \in [Requests -> Answers]
    BY <1>1 DEF IndInv, TypeOK, Places, Answers
  <2>3. stream' \in [Requests -> Stream \union {Nil}] /\ files' \in [Names -> File \union {Nil}]
    BY <1>1
  <2> QED  BY <1>1, <2>1, <2>2, <2>3 DEF IndInv, TypeOK
<1>3. PlaceInv' /\ ChannelInv'
  BY <1>1 DEF PlaceInv, ChannelInv, Queued
<1>4. WroteInv' /\ RivalInv' /\ HandleInv'
  BY <1>1, PutOrGet DEF WroteInv, RivalInv, HandleInv, Held, Open, Requests
<1> QED  BY <1>2, <1>3, <1>4 DEF IndInv, RequestInv

LEMMA ConnLostInv ==
  ASSUME IndInv, ConnLost
  PROVE  IndInv'
<1>1. /\ link' = "lost" /\ faults' \in Nat
      /\ files' = [n \in Names |-> IF files[n] # Nil /\ files[n].vol = "live"
                                   THEN [files[n] EXCEPT !.vol = "dead"] ELSE files[n]]
      /\ stream' = [r \in Requests |-> IF stream[r] = Nil THEN Nil ELSE [stream[r] EXCEPT !.broken = TRUE]]
      /\ UNCHANGED <<proc, vols, pc, channel, answer, rivals>>
  BY FaultType DEF ConnLost, IndInv
<1>2. ASSUME NEW n \in Names
      PROVE  /\ files'[n] \in File \union {Nil}
             /\ ~(files'[n] # Nil /\ files'[n].vol = "live")
  <2>1. files[n] # Nil => files[n] \in File
    BY DEF IndInv, TypeOK
  <2>2. files[n] # Nil => [files[n] EXCEPT !.vol = "dead"] \in File /\ [files[n] EXCEPT !.vol = "dead"].vol = "dead"
    BY <2>1, FileType
  <2> QED  BY <1>1, <2>1, <2>2
<1>3. ASSUME NEW r \in Requests
      PROVE  /\ stream'[r] \in Stream \union {Nil} /\ (stream'[r] = Nil <=> stream[r] = Nil)
             /\ stream'[r] # Nil => /\ stream'[r].written = stream[r].written
                                    /\ stream'[r].attached = stream[r].attached /\ stream'[r].broken
  <2>1. stream[r] # Nil => stream[r] \in Stream
    BY DEF IndInv, TypeOK
  <2>2. stream[r] # Nil => /\ [stream[r] EXCEPT !.broken = TRUE] \in Stream
                           /\ [stream[r] EXCEPT !.broken = TRUE] # Nil
    BY <2>1, StreamType, NilAssumption
  <2>3. stream[r] # Nil => /\ [stream[r] EXCEPT !.broken = TRUE].broken
                           /\ [stream[r] EXCEPT !.broken = TRUE].written = stream[r].written
                           /\ [stream[r] EXCEPT !.broken = TRUE].attached = stream[r].attached
    BY <2>1 DEF Stream
  <2> QED  BY <1>1, <2>2, <2>3
<1>4. stream' \in [Requests -> Stream \union {Nil}] /\ files' \in [Names -> File \union {Nil}]
  BY <1>1, <1>2, <1>3
<1>5. TypeOK'
  BY <1>1, <1>4 DEF IndInv, TypeOK
<1>6. HandleInv'
  BY <1>2 DEF HandleInv, Held
<1>7. PlaceInv' /\ ChannelInv'
  BY <1>1, <1>3 DEF IndInv, RequestInv, PlaceInv, ChannelInv, Queued
<1>8. WroteInv' /\ RivalInv'
  BY <1>1, <1>3, <1>4, StreamsRest
<1> QED  BY <1>5, <1>6, <1>7, <1>8 DEF IndInv, RequestInv

LEMMA DeleteVolumeInv ==
  ASSUME IndInv, NEW n \in Names, DeleteVolume(n)
  PROVE  IndInv'
<1>1. /\ vols' = [vols EXCEPT ![n] = Nil] /\ n \notin Held
      /\ stream' = [r \in Requests |-> IF stream[r] # Nil /\ FileOf[r] = n
                                       THEN [stream[r] EXCEPT !.attached = FALSE] ELSE stream[r]]
      /\ UNCHANGED <<proc, link, files, pc, channel, answer, rivals, faults>>
  BY DEF DeleteVolume, Repository!MayRemove
<1>2. vols \in [Names -> Content \union {Nil}]
  BY DEF IndInv, TypeOK
<1>3. ASSUME NEW r \in Requests
      PROVE  /\ stream'[r] \in Stream \union {Nil} /\ (stream'[r] = Nil <=> stream[r] = Nil)
             /\ stream'[r] # Nil => /\ stream'[r].written = stream[r].written
                                    /\ stream'[r].broken = stream[r].broken
                                    /\ stream'[r].attached => stream[r].attached /\ FileOf[r] # n
  <2>1. stream[r] # Nil => stream[r] \in Stream
    BY DEF IndInv, TypeOK
  <2>2. stream[r] # Nil => /\ [stream[r] EXCEPT !.attached = FALSE] \in Stream
                           /\ [stream[r] EXCEPT !.attached = FALSE] # Nil
    BY <2>1, StreamType, NilAssumption
  <2>3. stream[r] # Nil => /\ ~[stream[r] EXCEPT !.attached = FALSE].attached
                           /\ [stream[r] EXCEPT !.attached = FALSE].written = stream[r].written
                           /\ [stream[r] EXCEPT !.attached = FALSE].broken = stream[r].broken
    BY <2>1 DEF Stream
  <2> QED  BY <1>1, <2>1, <2>2, <2>3
<1>4. stream' \in [Requests -> Stream \union {Nil}] /\ vols' \in [Names -> Content \union {Nil}]
  BY <1>1, <1>2, <1>3
<1>5. TypeOK'
  BY <1>1, <1>4 DEF IndInv, TypeOK
<1>6. HandleInv'
  BY <1>1, <1>2 DEF IndInv, HandleInv, Held, Stored
<1>7. PlaceInv' /\ ChannelInv'
  BY <1>1, <1>3 DEF IndInv, RequestInv, PlaceInv, ChannelInv, Queued
<1>8. \A r \in Puts : Open(r)' =>
        /\ Open(r) /\ rivals'[r] = rivals[r]
        /\ stream'[r].attached => /\ stream[r].attached /\ stream'[r].written = stream[r].written
                                  /\ vols'[FileOf[r]] = vols[FileOf[r]]
  BY <1>1, <1>2, <1>3, PutOrGet DEF Open, Requests
<1>9. WroteInv' /\ RivalInv'
  BY <1>8, OpenRests DEF IndInv
<1> QED  BY <1>5, <1>6, <1>7, <1>9 DEF IndInv, RequestInv

-----------------------------------------------------------------------------
(* The handlers.                                                           *)

(* A handler that is not waiting returns, and closes its stream or not.    *)
LEMMA ReturnInv ==
  ASSUME IndInv, NEW r \in Requests, pc[r] \in {"new", "copy"}, NEW a \in Answers, Return(r, a),
         stream' = [stream EXCEPT ![r] = Nil] \/ (UNCHANGED stream /\ (stream[r] = Nil \/ a \in {"failed", "cut"})),
         UNCHANGED <<repoVars, channel, rivals, faults>>
  PROVE  IndInv'
<1>1. /\ pc' = [pc EXCEPT ![r] = "done"] /\ answer' = [answer EXCEPT ![r] = a]
      /\ stream' \in [Requests -> Stream \union {Nil}]
      /\ \A q \in Requests \ {r} : stream'[q] = stream[q]
      /\ stream'[r] = Nil \/ (stream'[r] = stream[r] /\ a \in {"failed", "cut"})
  BY DEF Return, Goto, IndInv, TypeOK
<1>2. pc \in [Requests -> Places] /\ answer \in [Requests -> Answers]
  BY DEF IndInv, TypeOK
<1>3. TypeOK'
  BY <1>1, <1>2 DEF IndInv, TypeOK, repoVars, Places
<1>4. HandleInv'
  BY DEF IndInv, HandleInv, Held, Stored, repoVars
<1>5. PlaceInv'
  BY <1>1, <1>2 DEF IndInv, RequestInv, PlaceInv
<1>6. ChannelInv'
  BY <1>1, <1>2 DEF IndInv, RequestInv, ChannelInv, Queued
<1>7. WroteInv' /\ RivalInv'
  <2>1. \A q \in Requests : stream'[q] = Nil \/
           /\ stream[q] # Nil /\ stream'[q] # Nil
           /\ stream'[q].written = stream[q].written /\ stream'[q].attached = stream[q].attached
           /\ stream[q].broken => stream'[q].broken
    BY <1>1
  <2> QED  BY <1>1, <2>1, StreamsRest DEF repoVars
<1> QED  BY <1>3, <1>4, <1>5, <1>6, <1>7 DEF IndInv, RequestInv

LEMMA ReturnsInv ==
  ASSUME IndInv, NEW r \in Requests,
         Reject(r) \/ WrongLength(r) \/ Break(r) \/ CloseUpload(r) \/ CloseDownload(r)
  PROVE  IndInv'
<1>1. CASE Reject(r)
  <2>1. stream[r] = Nil
    BY <1>1 DEF Reject, IndInv, RequestInv, PlaceInv
  <2> QED  BY <1>1, <2>1, ReturnInv DEF Reject, Answers
<1>2. CASE WrongLength(r)
  BY <1>2, ReturnInv DEF WrongLength, Answers
<1>3. CASE Break(r)
  BY <1>3, ReturnInv DEF Break, Answers
<1>4. CASE CloseUpload(r)
  BY <1>4, ReturnInv DEF CloseUpload, Answers
<1>5. CASE CloseDownload(r)
  BY <1>5, ReturnInv DEF CloseDownload, Answers
<1> QED  BY <1>1, <1>2, <1>3, <1>4, <1>5

LEMMA AskInv ==
  ASSUME IndInv, NEW r \in Requests, Ask(r)
  PROVE  IndInv'
<1>1. /\ pc[r] = "new" /\ pc' = [pc EXCEPT ![r] = "wait"]
      /\ channel' = [channel EXCEPT ![Op(r)] = Append(@, r)]
      /\ UNCHANGED <<repoVars, stream, answer, rivals, faults>>
  BY DEF Ask, Goto
<1>2. /\ pc \in [Requests -> Places] /\ channel \in [{"upload", "download"} -> Seq(Requests)]
      /\ Op(r) \in {"upload", "download"}
  BY PutOrGet DEF IndInv, TypeOK
<1>3. channel'[Op(r)] = Append(channel[Op(r)], r) /\ channel[Op(r)] \in Seq(Requests)
      /\ \A op \in {"upload", "download"} : op # Op(r) => channel'[op] = channel[op]
  BY <1>1, <1>2
<1>4. channel' \in [{"upload", "download"} -> Seq(Requests)]
  <2>1. Append(channel[Op(r)], r) \in Seq(Requests)
    BY <1>3
  <2> QED  BY <1>1, <1>2, <2>1
<1>5. TypeOK'
  BY <1>1, <1>2, <1>4 DEF IndInv, TypeOK, repoVars, Places
<1>6. HandleInv'
  BY <1>1 DEF IndInv, HandleInv, Held, Stored, repoVars
<1>7. PlaceInv'
  BY <1>1, <1>2 DEF IndInv, RequestInv, PlaceInv
<1>8. ChannelInv'
  <2>1. ASSUME NEW op \in {"upload", "download"}, op # Op(r) PROVE Queued(op)'
    BY <1>1, <1>2, <1>3, <2>1 DEF IndInv, RequestInv, ChannelInv, Queued, TypeOK
  <2>2. Queued(Op(r))'
    <3> DEFINE c == channel[Op(r)]
    <3>1. /\ DOMAIN Append(c, r) = DOMAIN c \union {Len(c) + 1} /\ Append(c, r)[Len(c) + 1] = r
          /\ \A i \in DOMAIN c : Append(c, r)[i] = c[i] /\ c[i] \in Requests
      BY <1>3
    <3>2. \A i \in DOMAIN c : pc[c[i]] = "wait" /\ Op(c[i]) = Op(r) /\ c[i] # r
      BY <1>1, <1>2 DEF IndInv, RequestInv, ChannelInv, Queued
    <3>3. \A i, k \in DOMAIN c : c[i] = c[k] => i = k
      BY <1>2 DEF IndInv, RequestInv, ChannelInv, Queued
    <3> HIDE DEF c
    <3>4. channel'[Op(r)] = Append(c, r)
      BY <1>3 DEF c
    <3>5. \A i \in DOMAIN Append(c, r) : pc'[Append(c, r)[i]] = "wait" /\ Op(Append(c, r)[i]) = Op(r)
      BY <1>1, <1>2, <3>1, <3>2
    <3>6. \A i, k \in DOMAIN Append(c, r) : Append(c, r)[i] = Append(c, r)[k] => i = k
      BY <3>1, <3>2, <3>3
    <3> QED  BY <3>4, <3>5, <3>6 DEF Queued
  <2> QED  BY <2>1, <2>2 DEF ChannelInv
<1>9. WroteInv' /\ RivalInv'
  BY <1>1 DEF IndInv, RequestInv, WroteInv, RivalInv, Open, repoVars
<1> QED  BY <1>5, <1>6, <1>7, <1>8, <1>9 DEF IndInv, RequestInv

(* A block goes to or comes from libvirtd, or a write fails.               *)
LEMMA MoveInv ==
  ASSUME IndInv, NEW r \in Requests, Send(r) \/ Recv(r) \/ WriteFails(r)
  PROVE  IndInv'
<1>1. /\ stream[r] # Nil /\ UNCHANGED <<repoVars, pc, channel, answer, rivals>> /\ faults' \in Nat
      /\ \/ stream[r].sent < Size /\ stream' = [stream EXCEPT ![r].sent = @ + 1]
         \/ stream' = [stream EXCEPT ![r].broken = TRUE]
  BY FaultType DEF IndInv, TypeOK, RequestInv, PlaceInv, Send, Recv, WriteFails, Moves, Pending
<1>2. stream \in [Requests -> Stream \union {Nil}] /\ stream[r] \in Stream
  BY <1>1 DEF IndInv, TypeOK
<1>3. PICK s : s = stream'[r]
  OBVIOUS
<1>4. stream' = [stream EXCEPT ![r] = s]
  BY <1>1, <1>2, <1>3
<1>5. s \in Stream /\ s # Nil
  <2>1. CASE stream[r].sent < Size /\ stream' = [stream EXCEPT ![r].sent = @ + 1]
    <3>1. stream[r].sent + 1 \in 0..Size
      <4>1. stream[r].sent \in 0..Size /\ Size \in Nat
        BY <1>2, StreamType, ConstantsAssumption
      <4> QED  BY <2>1, <4>1
    <3>2. s = [stream[r] EXCEPT !.sent = stream[r].sent + 1]
      BY <1>2, <1>3, <2>1
    <3> QED  BY <1>2, <3>1, <3>2, StreamType, NilAssumption
  <2>2. CASE stream' = [stream EXCEPT ![r].broken = TRUE]
    <3>1. s = [stream[r] EXCEPT !.broken = TRUE]
      BY <1>2, <1>3, <2>2
    <3> QED  BY <1>2, <3>1, StreamType, NilAssumption
  <2> QED  BY <1>1, <2>1, <2>2
<1>6. /\ s.written = stream[r].written /\ s.attached = stream[r].attached
      /\ stream[r].broken => s.broken
  BY <1>1, <1>2, <1>3 DEF Stream
<1>7. TypeOK'
  BY <1>1, <1>2, <1>4, <1>5 DEF IndInv, TypeOK, repoVars
<1>8. HandleInv'
  BY <1>1 DEF IndInv, HandleInv, Held, Stored, repoVars
<1>9. PlaceInv' /\ ChannelInv'
  BY <1>1, <1>2, <1>4, <1>5 DEF IndInv, RequestInv, PlaceInv, ChannelInv, Queued
<1>10. WroteInv' /\ RivalInv'
  <2>1. \A q \in Requests : stream'[q] = Nil \/
           /\ stream[q] # Nil /\ stream'[q] # Nil
           /\ stream'[q].written = stream[q].written /\ stream'[q].attached = stream[q].attached
           /\ stream[q].broken => stream'[q].broken
    BY <1>1, <1>2, <1>4, <1>5, <1>6
  <2> QED  BY <1>1, <1>2, <1>4, <2>1, StreamsRest DEF repoVars
<1> QED  BY <1>7, <1>8, <1>9, <1>10 DEF IndInv, RequestInv

-----------------------------------------------------------------------------
(* The main loop and libvirtd.                                             *)

(* The first of a channel is a request that waits, and it waits there once.*)
LEMMA HeadWaits ==
  ASSUME IndInv, NEW op \in {"upload", "download"}, channel[op] # <<>>
  PROVE  /\ Head(channel[op]) \in Requests /\ pc[Head(channel[op])] = "wait"
         /\ Op(Head(channel[op])) = op
<1>1. channel[op] \in Seq(Requests) /\ Queued(op)
  BY DEF IndInv, TypeOK, RequestInv, ChannelInv
<1>2. 1 \in DOMAIN channel[op] /\ Head(channel[op]) = channel[op][1] /\ Head(channel[op]) \in Requests
  BY <1>1
<1> QED  BY <1>1, <1>2 DEF Queued

LEMMA TakenInv ==
  ASSUME IndInv, NEW op \in {"upload", "download"}, channel[op] # <<>>,
         NEW r, r = Head(channel[op]), Taken(r), NEW p \in Places, Goto(r, p)
  PROVE  ChannelInv' /\ channel' \in [{"upload", "download"} -> Seq(Requests)]
<1> DEFINE c == channel[op]
<1>1. /\ r \in Requests /\ Op(r) = op /\ c \in Seq(Requests) /\ c # <<>>
      /\ channel \in [{"upload", "download"} -> Seq(Requests)] /\ pc \in [Requests -> Places]
      /\ pc' = [pc EXCEPT ![r] = p]
  BY HeadWaits DEF IndInv, TypeOK, Goto
<1>2. \A o \in {"upload", "download"} : Queued(o)
  BY DEF IndInv, RequestInv, ChannelInv
<1>3. /\ channel'[op] = Tail(c) /\ \A o \in {"upload", "download"} : o # op => channel'[o] = channel[o]
      /\ channel' = [channel EXCEPT ![op] = Tail(c)]
  BY <1>1 DEF Taken
<1>4. Tail(c) \in Seq(Requests)
  BY <1>1
<1>5. /\ \A i \in DOMAIN Tail(c) : i + 1 \in DOMAIN c /\ Tail(c)[i] = c[i + 1] /\ i \in Nat /\ i # 0
      /\ 1 \in DOMAIN c /\ c[1] = r
  BY <1>1
<1>6. \A i, k \in DOMAIN c : pc[c[i]] = "wait" /\ Op(c[i]) = op /\ (c[i] = c[k] => i = k)
  BY <1>2 DEF Queued
<1>7. \A i \in DOMAIN c : c[i] \in Requests
  BY <1>1
<1> HIDE DEF c
<1>8. ASSUME NEW o \in {"upload", "download"}, o # op PROVE Queued(o)'
  <2>1. \A i \in DOMAIN channel[o] : channel[o][i] \in Requests /\ channel[o][i] # r
    <3>1. channel[o] \in Seq(Requests)
      BY <1>1
    <3> QED  BY <1>1, <1>2, <1>8, <3>1 DEF Queued
  <2> QED  BY <1>1, <1>2, <1>3, <1>8, <2>1 DEF Queued
<1>9. Queued(op)'
  <2>1. \A i \in DOMAIN Tail(c) : Tail(c)[i] # r /\ pc[Tail(c)[i]] = "wait" /\ Op(Tail(c)[i]) = op
                                  /\ Tail(c)[i] \in Requests
    <3>1. ASSUME NEW i \in DOMAIN Tail(c) PROVE c[i + 1] # r
      <4>1. i + 1 \in DOMAIN c /\ i + 1 # 1
        BY <1>5
      <4> QED  BY <1>5, <1>6, <4>1
    <3> QED  BY <1>5, <1>6, <1>7, <3>1
  <2>2. \A i, k \in DOMAIN Tail(c) : Tail(c)[i] = Tail(c)[k] => i = k
    <3>1. ASSUME NEW i \in DOMAIN Tail(c), NEW k \in DOMAIN Tail(c), Tail(c)[i] = Tail(c)[k] PROVE i = k
      <4>1. i + 1 = k + 1
        BY <1>5, <1>6, <3>1
      <4> QED  BY <1>5, <4>1
    <3> QED  BY <3>1
  <2> QED  BY <1>1, <1>3, <2>1, <2>2 DEF Queued
<1>10. channel' \in [{"upload", "download"} -> Seq(Requests)]
  BY <1>1, <1>3, <1>4
<1> QED  BY <1>8, <1>9, <1>10 DEF ChannelInv

LEMMA GrantInv ==
  ASSUME IndInv, NEW op \in {"upload", "download"}, channel[op] # <<>>, NEW r, r = Head(channel[op]),
         NEW token, Checked(r, token), Taken(r), Grant(r)
  PROVE  IndInv'
<1>1. r \in Requests /\ pc[r] = "wait" /\ Goto(r, "copy") /\ FileOf[r] \in Names
  BY HeadWaits, PutOrGet DEF Grant
<1>2. /\ pc' = [pc EXCEPT ![r] = "copy"] /\ stream' = [stream EXCEPT ![r] = NewStream]
      /\ rivals' = [q \in Requests |->
                      IF q = r THEN {p \in Puts : Overlaps(r, p)}
                      ELSE IF Overlaps(r, q) /\ r \in Puts THEN rivals[q] \union {r}
                      ELSE rivals[q]]
      /\ UNCHANGED <<repoVars, answer, faults>>
  BY DEF Grant, Goto
<1>3. /\ pc \in [Requests -> Places] /\ stream \in [Requests -> Stream \union {Nil}]
      /\ rivals \in [Requests -> SUBSET Puts] /\ NewStream \in Stream /\ NewStream # Nil
  BY NewStreamType DEF IndInv, TypeOK
<1>4. ChannelInv' /\ channel' \in [{"upload", "download"} -> Seq(Requests)]
  BY <1>1, TakenInv DEF Places
<1>5. rivals' \in [Requests -> SUBSET Puts]
  BY <1>2, <1>3
<1>6. TypeOK'
  BY <1>2, <1>3, <1>4, <1>5 DEF IndInv, TypeOK, repoVars, Places
<1>7. HandleInv'
  BY <1>2 DEF IndInv, HandleInv, Held, Stored, repoVars
<1>8. PlaceInv'
  BY <1>1, <1>2, <1>3 DEF IndInv, RequestInv, PlaceInv
<1>9. /\ stream'[r] = NewStream /\ \A q \in Requests \ {r} : stream'[q] = stream[q] /\ rivals[q] \subseteq rivals'[q]
      /\ UNCHANGED vols /\ \A q \in Puts : q \in Requests
  BY <1>1, <1>2, <1>3 DEF repoVars, Requests
<1>10. WroteInv'
  <2>1. ASSUME NEW q \in Puts, q # r, Open(q)', stream'[q].attached
        PROVE  /\ vols'[FileOf[q]] # Nil
               /\ \A b \in 1..stream'[q].written : vols'[FileOf[q]][b] \in {q} \union rivals'[q]
    BY <1>9, <2>1 DEF IndInv, RequestInv, WroteInv, Open
  <2>2. vols[FileOf[r]] # Nil
    BY <1>1 DEF Checked, IndInv, HandleInv, Held, Stored
  <2>3. 1..stream'[r].written = {}
    BY <1>9 DEF NewStream
  <2> QED  BY <1>9, <2>1, <2>2, <2>3 DEF WroteInv
<1>11. RivalInv'
  <2> SUFFICES ASSUME NEW p \in Puts, NEW q \in Puts, Open(p)', Open(q)', p # q, FileOf[p] = FileOf[q]
               PROVE  q \in rivals'[p]
    BY DEF RivalInv
  <2>1. CASE p = r
    <3>1. Overlaps(r, q)
      BY <1>9, <2>1 DEF Overlaps, Open
    <3> QED  BY <1>1, <1>2, <2>1, <3>1
  <2>2. CASE q = r
    <3>1. Overlaps(r, p)
      BY <1>9, <2>2 DEF Overlaps, Open
    <3> QED  BY <1>2, <1>9, <2>2, <3>1
  <2>3. CASE p # r /\ q # r
    BY <1>9, <2>3 DEF IndInv, RequestInv, RivalInv, Open
  <2> QED  BY <2>1, <2>2, <2>3
<1> QED  BY <1>4, <1>6, <1>7, <1>8, <1>10, <1>11 DEF IndInv, RequestInv

LEMMA RefuseInv ==
  ASSUME IndInv, NEW op \in {"upload", "download"}, channel[op] # <<>>, NEW r, r = Head(channel[op]),
         Taken(r), Refuse(r), faults' \in Nat
  PROVE  IndInv'
<1>1. r \in Requests /\ pc[r] = "wait" /\ Goto(r, "done") /\ stream[r] = Nil
  BY HeadWaits DEF Refuse, Return, IndInv, RequestInv, PlaceInv
<1>2. /\ pc' = [pc EXCEPT ![r] = "done"] /\ answer' = [answer EXCEPT ![r] = "refused"]
      /\ UNCHANGED <<repoVars, stream, rivals>>
  BY DEF Refuse, Return, Goto
<1>3. pc \in [Requests -> Places] /\ answer \in [Requests -> Answers]
  BY DEF IndInv, TypeOK
<1>4. ChannelInv' /\ channel' \in [{"upload", "download"} -> Seq(Requests)]
  BY <1>1, TakenInv DEF Places
<1>5. TypeOK'
  BY <1>2, <1>3, <1>4 DEF IndInv, TypeOK, repoVars, Places, Answers
<1>6. HandleInv'
  BY <1>2 DEF IndInv, HandleInv, Held, Stored, repoVars
<1>7. PlaceInv'
  BY <1>1, <1>2, <1>3 DEF IndInv, RequestInv, PlaceInv
<1>8. WroteInv' /\ RivalInv'
  BY <1>2 DEF IndInv, RequestInv, WroteInv, RivalInv, Open, repoVars
<1> QED  BY <1>4, <1>5, <1>6, <1>7, <1>8 DEF IndInv, RequestInv

LEMMA ServeInv ==
  ASSUME IndInv, NEW op \in {"upload", "download"}, Serve(op)
  PROVE  IndInv'
<1>1. PICK r : r = Head(channel[op])
  OBVIOUS
<1>2. faults \in Nat /\ channel[op] # <<>>
  BY DEF IndInv, TypeOK, Serve
<1>3. \/ \E token : Checked(r, token) /\ Taken(r) /\ Grant(r)
      \/ Taken(r) /\ Refuse(r) /\ faults' = faults
      \/ Fault /\ Taken(r) /\ Refuse(r)
      \/ End /\ faults' = faults
  BY <1>1 DEF Serve
<1> QED  BY <1>1, <1>2, <1>3, FaultType, GrantInv, RefuseInv, EndInv DEF IndInv

LEMMA WriteInv ==
  ASSUME IndInv, NEW r \in Requests, Write(r)
  PROVE  IndInv'
<1>1. /\ r \in Puts /\ Open(r) /\ stream[r].written < stream[r].sent
      /\ stream' = [stream EXCEPT ![r].written = @ + 1]
      /\ vols' = (IF stream[r].attached
                  THEN [vols EXCEPT ![FileOf[r]][stream[r].written + 1] = r] ELSE vols)
      /\ UNCHANGED <<proc, link, files, pc, channel, answer, rivals, faults>>
  BY DEF Write, Pending, Open
<1>2. stream \in [Requests -> Stream \union {Nil}] /\ stream[r] \in Stream /\ FileOf[r] \in Names
      /\ vols \in [Names -> Content \union {Nil}]
  BY <1>1, PutOrGet DEF IndInv, TypeOK, Open
<1>3. PICK w : w = stream[r].written + 1
  OBVIOUS
<1>4. w \in 1..Size /\ w \in 0..Size /\ stream[r].written \in Nat
  <2>1. stream[r].written \in 0..Size /\ stream[r].sent \in 0..Size /\ Size \in Nat
    BY <1>2, StreamType, ConstantsAssumption
  <2> QED  BY <1>1, <1>3, <2>1
<1>5. PICK s : s = [stream[r] EXCEPT !.written = w]
  OBVIOUS
<1>6. s \in Stream /\ s # Nil
  BY <1>2, <1>4, <1>5, StreamType
<1>7. s.written = w /\ s.attached = stream[r].attached /\ s.broken = stream[r].broken
  BY <1>2, <1>5 DEF Stream
<1>8. /\ stream' = [stream EXCEPT ![r] = s] /\ stream'[r] = s
      /\ \A q \in Requests \ {r} : stream'[q] = stream[q]
  BY <1>1, <1>2, <1>3, <1>5
<1>9. stream[r].attached => vols[FileOf[r]] \in Content
  BY <1>1, <1>2 DEF IndInv, RequestInv, WroteInv
<1>10. /\ vols' \in [Names -> Content \union {Nil}]
       /\ \A n \in Names : vols'[n] = Nil <=> vols[n] = Nil
       /\ \A n \in Names : n # FileOf[r] => vols'[n] = vols[n]
       /\ stream[r].attached => \A b \in Blocks : vols'[FileOf[r]][b] = IF b = w THEN r ELSE vols[FileOf[r]][b]
       /\ ~stream[r].attached => vols' = vols
  <2>1. CASE stream[r].attached
    <3>1. vols' = [vols EXCEPT ![FileOf[r]] = [vols[FileOf[r]] EXCEPT ![w] = r]]
      BY <1>1, <1>2, <1>3, <2>1
    <3>2. PICK c : c = [vols[FileOf[r]] EXCEPT ![w] = r]
      OBVIOUS
    <3>3. c \in Content /\ \A b \in Blocks : c[b] = IF b = w THEN r ELSE vols[FileOf[r]][b]
      BY <1>1, <1>9, <2>1, <3>2 DEF Content
    <3>4. c # Nil /\ vols[FileOf[r]] # Nil
      BY <1>9, <2>1, <3>3, NilAssumption
    <3> QED  BY <1>2, <2>1, <3>1, <3>2, <3>3, <3>4
  <2>2. CASE ~stream[r].attached
    BY <1>1, <1>2, <2>2
  <2> QED  BY <2>1, <2>2
<1>11. TypeOK'
  BY <1>1, <1>2, <1>6, <1>8, <1>10 DEF IndInv, TypeOK
<1>12. HandleInv'
  BY <1>1, <1>10 DEF IndInv, HandleInv, Held, Stored
<1>13. PlaceInv' /\ ChannelInv'
  BY <1>1, <1>6, <1>8 DEF IndInv, RequestInv, PlaceInv, ChannelInv, Queued, Open
<1>14. \A q \in Puts : q \in Requests /\ FileOf[q] \in Names
         /\ (Open(q)' <=> Open(q)) /\ stream'[q].attached = stream[q].attached
  BY <1>6, <1>7, <1>8, <1>1, PutOrGet DEF Open, Requests
<1>15. RivalInv'
  BY <1>1, <1>14 DEF IndInv, RequestInv, RivalInv
<1>16. WroteInv'
  <2> SUFFICES ASSUME NEW q \in Puts, Open(q), stream[q].attached
               PROVE  /\ vols'[FileOf[q]] # Nil
                      /\ \A b \in 1..stream'[q].written : vols'[FileOf[q]][b] \in {q} \union rivals'[q]
    BY <1>14 DEF WroteInv
  <2>1. /\ vols[FileOf[q]] # Nil /\ q \in Requests /\ FileOf[q] \in Names
        /\ \A b \in 1..stream[q].written : vols[FileOf[q]][b] \in {q} \union rivals[q]
    BY <1>14 DEF IndInv, RequestInv, WroteInv
  <2>2. stream'[q].written \in 0..Size
    <3>1. stream'[q] \in Stream
      BY <1>11, <1>14, <2>1 DEF TypeOK, Open
    <3> QED  BY <3>1, StreamType
  <2>3. ASSUME NEW b \in 1..stream'[q].written PROVE vols'[FileOf[q]][b] \in {q} \union rivals'[q]
    <3>1. b \in Blocks /\ b \in Nat
      BY <2>2, ConstantsAssumption DEF Blocks
    <3>2. CASE q = r /\ b = w
      BY <1>1, <1>10, <3>1, <3>2
    <3>3. CASE q = r /\ b # w
      <4>1. b \in 1..stream[q].written
        BY <1>3, <1>4, <1>7, <1>8, <3>3
      <4> QED  BY <1>1, <1>10, <2>1, <3>1, <3>3, <4>1
    <3>4. CASE q # r
      <4>1. b \in 1..stream[q].written
        BY <1>8, <2>1, <3>4
      <4>2. CASE vols'[FileOf[q]][b] = vols[FileOf[q]][b]
        BY <1>1, <2>1, <4>1, <4>2
      <4>3. CASE vols'[FileOf[q]][b] # vols[FileOf[q]][b]
        <5>1. FileOf[q] = FileOf[r] /\ vols'[FileOf[q]][b] = r
          BY <1>10, <2>1, <3>1, <4>3
        <5>2. r \in rivals[q]
          BY <1>1, <3>4, <5>1 DEF IndInv, RequestInv, RivalInv
        <5> QED  BY <1>1, <5>1, <5>2
      <4> QED  BY <4>2, <4>3
    <3> QED  BY <3>2, <3>3, <3>4
  <2> QED  BY <1>10, <2>1, <2>3
<1> QED  BY <1>11, <1>12, <1>13, <1>15, <1>16 DEF IndInv, RequestInv

-----------------------------------------------------------------------------
(* What the invariant says.                                                *)

LEMMA InitInv == Init => IndInv
<1> SUFFICES ASSUME Init PROVE IndInv
  OBVIOUS
<1>1. TypeOK
  <2>1. channel \in [{"upload", "download"} -> Seq(Requests)]
    BY DEF Init
  <2>2. pc \in [Requests -> Places] /\ answer \in [Requests -> Answers]
    BY DEF Init, Places, Answers
  <2> QED  BY <2>1, <2>2, ConstantsAssumption DEF Init, TypeOK
<1>2. HandleInv
  BY DEF Init, HandleInv, Held
<1>3. PlaceInv /\ ChannelInv
  BY DEF Init, PlaceInv, ChannelInv, Queued
<1>4. WroteInv /\ RivalInv
  BY DEF Init, WroteInv, RivalInv, Open, Requests
<1> QED  BY <1>1, <1>2, <1>3, <1>4 DEF IndInv, RequestInv

LEMMA StepInv == IndInv /\ [Next]_vars => IndInv'
<1> SUFFICES ASSUME IndInv, [Next]_vars PROVE IndInv'
  OBVIOUS
<1>1. CASE UNCHANGED vars
  <2>1. UNCHANGED <<proc, link, files, vols, reqVars, faults>>
    BY <1>1 DEF vars, repoVars
  <2>2. TypeOK'
    BY <2>1, RequestTypes DEF IndInv, TypeOK
  <2> QED  BY <2>1, <2>2, RequestRests DEF IndInv, HandleInv, Held, Stored
<1>2. CASE Boot \/ Connect \/ ConnectFailed
  BY <1>2, BootConnectInv
<1>3. CASE Exit
  BY <1>3, FaultType, EndInv DEF Exit, IndInv
<1>4. CASE ConnLost
  BY <1>4, ConnLostInv
<1>5. CASE \E op \in {"upload", "download"} : Serve(op)
  BY <1>5, ServeInv
<1>6. CASE \E n \in Names : Files(n)
  BY <1>6, FilesInv, CreateVolumeInv, DeleteVolumeInv DEF Files
<1>7. CASE \E r \in Requests : Handler(r)
  BY <1>7, ReturnsInv, AskInv, MoveInv DEF Handler
<1>8. CASE \E r \in Requests : Write(r) \/ WriteFails(r)
  BY <1>8, WriteInv, MoveInv
<1> QED
  BY <1>1, <1>2, <1>3, <1>4, <1>5, <1>6, <1>7, <1>8 DEF Next, Daemon

LEMMA Invariance == Spec => []IndInv
<1> QED  BY InitInv, StepInv, PTL DEF Spec

(* Types, for every number of requests.                                    *)
THEOREM TypeCorrect == Spec => []TypeOK
<1>1. IndInv => TypeOK
  BY DEF IndInv
<1> QED  BY <1>1, Invariance, PTL

(* A stream that is left open is of a request that did not go well: handle *)
(* closes those of the others.                                             *)
THEOREM StreamsClosed == Spec => []StreamsEnd
<1>1. IndInv => StreamsEnd
  BY DEF IndInv, RequestInv, PlaceInv, StreamsEnd
<1> QED  BY <1>1, Invariance, PTL

(* Only Serve starts a copy.                                               *)
LEMMA StartsByGrant ==
  ASSUME IndInv, [Next]_vars, NEW r \in Requests, pc[r] = "wait", pc'[r] = "copy"
  PROVE  FileOf[r] \in Stored
<1>0. pc \in [Requests -> Places]
  BY DEF IndInv, TypeOK
<1>1. ASSUME UNCHANGED pc PROVE FALSE
  BY <1>1
<1>2. ASSUME NEW q \in Requests, NEW p, p # "copy", Goto(q, p) PROVE FALSE
  BY <1>0, <1>2 DEF Goto
<1>3. ASSUME End PROVE FALSE
  BY <1>3 DEF End
<1>4. CASE UNCHANGED vars \/ Boot \/ Connect \/ ConnectFailed \/ ConnLost \/ Exit
  BY <1>1, <1>3, <1>4 DEF vars, reqVars, Boot, Connect, ConnectFailed, ConnLost, Exit
<1>5. CASE \E n \in Names : Files(n)
  BY <1>1, <1>5 DEF reqVars, Files, AddFile, ModifyFile, LoseResource, DeleteFile, TakeHandle, DropHandle,
                    CreateVolume, DeleteVolume, SetFile
<1>6. CASE \E q \in Requests : Handler(q)
  <2>1. PICK q \in Requests : Handler(q)
    BY <1>6
  <2>2. UNCHANGED pc \/ \E p : p # "copy" /\ Goto(q, p)
    BY <2>1 DEF Handler, Reject, Ask, WrongLength, Send, Recv, Break, CloseUpload, CloseDownload, Return
  <2> QED  BY <1>1, <1>2, <2>2
<1>7. CASE \E q \in Requests : Write(q) \/ WriteFails(q)
  BY <1>1, <1>7 DEF Write, WriteFails
<1>8. ASSUME NEW op \in {"upload", "download"}, Serve(op) PROVE FileOf[r] \in Stored
  <2>1. PICK q \in Requests : q = Head(channel[op])
    BY <1>8, HeadWaits DEF Serve
  <2>2. \/ \E token : Checked(q, token) /\ Grant(q)
        \/ Refuse(q)
        \/ End
    BY <1>8, <2>1 DEF Serve
  <2>3. CASE \E token : Checked(q, token) /\ Grant(q)
    <3>1. q = r
      BY <1>0, <2>3 DEF Grant, Goto
    <3> QED  BY <2>3, <3>1, PutOrGet DEF Checked, IndInv, HandleInv, Held
  <2>4. CASE Refuse(q)
    BY <1>2, <2>4 DEF Refuse, Return
  <2> QED  BY <1>3, <2>2, <2>3, <2>4
<1> QED
  BY <1>4, <1>5, <1>6, <1>7, <1>8 DEF Next, Daemon

(* A transfer starts on a volume that exists, by the promise of Volumes    *)
(* and the checks of UploadVolume and DownloadVolume.                      *)
THEOREM TransfersFindVolumes == Spec => GrantedExists
<1>1. IndInv /\ [Next]_vars =>
        [\A r \in Requests : pc[r] = "wait" /\ pc'[r] = "copy" => FileOf[r] \in Stored]_vars
  BY StartsByGrant
<1> QED  BY <1>1, Invariance, PTL DEF Spec, GrantedExists

(* Only an upload that is complete and finished is answered OK.            *)
LEMMA OkByClose ==
  ASSUME IndInv, [Next]_vars, NEW r \in Puts, answer[r] = "none", answer'[r] = "ok"
  PROVE  CloseUpload(r)
<1>0. answer \in [Requests -> Answers] /\ r \in Requests /\ r \notin Gets
  BY ConstantsAssumption DEF IndInv, TypeOK, Requests
<1>1. ASSUME UNCHANGED answer PROVE FALSE
  BY <1>1
<1>2. ASSUME NEW q \in Requests, NEW a, Return(q, a), q # r \/ a # "ok" PROVE FALSE
  BY <1>0, <1>2 DEF Return
<1>3. ASSUME End PROVE FALSE
  BY <1>0, <1>3 DEF End
<1>4. CASE UNCHANGED vars \/ Boot \/ Connect \/ ConnectFailed \/ ConnLost \/ Exit
  BY <1>1, <1>3, <1>4 DEF vars, reqVars, Boot, Connect, ConnectFailed, ConnLost, Exit
<1>5. CASE \E n \in Names : Files(n)
  BY <1>1, <1>5 DEF reqVars, Files, AddFile, ModifyFile, LoseResource, DeleteFile, TakeHandle, DropHandle,
                    CreateVolume, DeleteVolume, SetFile
<1>6. ASSUME NEW q \in Requests, Handler(q) PROVE CloseUpload(r)
  <2>1. \/ UNCHANGED answer
        \/ \E a : a # "ok" /\ Return(q, a)
        \/ CloseUpload(q) /\ Return(q, "ok")
        \/ q \in Gets /\ Return(q, "ok")
    BY <1>6 DEF Handler, Reject, Ask, WrongLength, Send, Recv, Break, CloseUpload, CloseDownload
  <2> QED  BY <1>0, <1>1, <1>2, <2>1
<1>7. CASE \E q \in Requests : Write(q) \/ WriteFails(q)
  BY <1>1, <1>7 DEF Write, WriteFails
<1>8. ASSUME NEW op \in {"upload", "download"}, Serve(op) PROVE FALSE
  <2>1. PICK q \in Requests : q = Head(channel[op])
    BY <1>8, HeadWaits DEF Serve
  <2>2. Grant(q) \/ Refuse(q) \/ End
    BY <1>8, <2>1 DEF Serve
  <2> QED  BY <1>1, <1>2, <1>3, <2>2 DEF Grant, Refuse
<1> QED
  BY <1>4, <1>5, <1>6, <1>7, <1>8 DEF Next, Daemon

LEMMA OkWritten ==
  ASSUME IndInv, NEW r \in Puts, CloseUpload(r), ~stream[r].broken, stream[r].attached
  PROVE  \A b \in Blocks : vols[FileOf[r]][b] \in {r} \union rivals[r]
<1>1. r \in Requests /\ Open(r) /\ stream[r].written = Size
  BY DEF CloseUpload, Complete, Finished, IndInv, RequestInv, PlaceInv, Open, Requests
<1> QED  BY <1>1 DEF IndInv, RequestInv, WroteInv, Blocks

(* What is answered OK is in the volume, but for blocks of overlapping     *)
(* uploads: the main invariant is that libvirt still has every block it    *)
(* has written for a stream, or a rival's in its place.                    *)
THEOREM OkIsSaved == Spec => OkSaved
<1>1. ASSUME IndInv, [Next]_vars, NEW r \in Puts, answer[r] = "none", answer'[r] = "ok"
      PROVE  stream[r].broken \/ ~stream[r].attached
             \/ \A b \in Blocks : vols[FileOf[r]][b] \in {r} \union rivals[r]
  BY <1>1, OkByClose, OkWritten
<1>2. IndInv /\ [Next]_vars =>
        [\A r \in Puts : answer[r] = "none" /\ answer'[r] = "ok" =>
           stream[r].broken \/ ~stream[r].attached
           \/ \A b \in Blocks : vols[FileOf[r]][b] \in {r} \union rivals[r]]_vars
  BY <1>1
<1> QED  BY <1>2, Invariance, PTL DEF Spec, OkSaved

-----------------------------------------------------------------------------
(* Requests on their way to the main loop.                                 *)

InChannel(r) == \E i \in DOMAIN channel[Op(r)] : channel[Op(r)][i] = r
AllInChannel == \A r \in Requests : pc[r] = "wait" => InChannel(r)

(* How a step changes places and channels.                                 *)
TakesFirst(op) ==
  /\ channel[op] # <<>> /\ Taken(Head(channel[op]))
  /\ \E p \in {"copy", "done"} : Goto(Head(channel[op]), p)

LEMMA PlacesStep ==
  ASSUME IndInv, [Next]_vars
  PROVE  \/ UNCHANGED <<pc, channel>>
         \/ End
         \/ \E r \in Requests : Goto(r, "done") /\ UNCHANGED channel
         \/ \E r \in Requests : Ask(r)
         \/ \E op \in {"upload", "download"} : TakesFirst(op)
<1>1. CASE UNCHANGED vars \/ Boot \/ Connect \/ ConnectFailed \/ ConnLost \/ Exit
  BY <1>1 DEF vars, reqVars, Boot, Connect, ConnectFailed, ConnLost, Exit
<1>2. CASE \E n \in Names : Files(n)
  BY <1>2 DEF reqVars, Files, AddFile, ModifyFile, LoseResource, DeleteFile, TakeHandle, DropHandle,
              CreateVolume, DeleteVolume, SetFile
<1>3. CASE \E r \in Requests : Handler(r)
  BY <1>3 DEF Handler, Reject, WrongLength, Send, Recv, Break, CloseUpload, CloseDownload, Return
<1>4. CASE \E r \in Requests : Write(r) \/ WriteFails(r)
  BY <1>4 DEF Write, WriteFails
<1>5. ASSUME NEW op \in {"upload", "download"}, Serve(op)
      PROVE  TakesFirst(op) \/ End
  BY <1>5 DEF Serve, Grant, Refuse, Return, TakesFirst
<1> QED  BY <1>1, <1>2, <1>3, <1>4, <1>5 DEF Next, Daemon

LEMMA TakenStays ==
  ASSUME IndInv, AllInChannel, NEW op \in {"upload", "download"}, TakesFirst(op)
  PROVE  AllInChannel'
<1> DEFINE c == channel[op]
           h == Head(channel[op])
<1>1. /\ h \in Requests /\ Op(h) = op /\ c \in Seq(Requests) /\ c # <<>>
      /\ channel \in [{"upload", "download"} -> Seq(Requests)] /\ pc \in [Requests -> Places]
  BY HeadWaits DEF IndInv, TypeOK, TakesFirst
<1>2. channel' = [channel EXCEPT ![op] = Tail(c)]
  BY <1>1 DEF TakesFirst, Taken
<1>3. PICK p \in {"copy", "done"} : pc' = [pc EXCEPT ![h] = p]
  BY DEF TakesFirst, Goto
<1>4. /\ \A i \in DOMAIN c : i # 1 => i - 1 \in DOMAIN Tail(c) /\ Tail(c)[i - 1] = c[i]
      /\ h = c[1]
  BY <1>1
<1> SUFFICES ASSUME NEW r \in Requests, pc'[r] = "wait"
             PROVE  InChannel(r)'
  BY DEF AllInChannel
<1>5. r # h /\ pc[r] = "wait"
  BY <1>1, <1>3
<1>6. PICK i \in DOMAIN channel[Op(r)] : channel[Op(r)][i] = r
  BY <1>5 DEF AllInChannel, InChannel
<1>7. Op(r) \in {"upload", "download"}
  BY PutOrGet
<1>8. CASE Op(r) = op
  <2>1. i - 1 \in DOMAIN Tail(c) /\ Tail(c)[i - 1] = r
    BY <1>4, <1>5, <1>6, <1>8
  <2>2. channel'[Op(r)] = Tail(c)
    BY <1>1, <1>2, <1>8
  <2> HIDE DEF c
  <2> QED  BY <2>1, <2>2 DEF InChannel, Op
<1>9. CASE Op(r) # op
  <2>1. channel'[Op(r)] = channel[Op(r)]
    BY <1>1, <1>2, <1>7, <1>9
  <2> QED  BY <1>6, <2>1 DEF InChannel, Op
<1> QED  BY <1>8, <1>9

LEMMA AskedStays ==
  ASSUME IndInv, AllInChannel, NEW q \in Requests, Ask(q)
  PROVE  AllInChannel'
<1> DEFINE c == channel[Op(q)]
<1>1. /\ Op(q) \in {"upload", "download"} /\ c \in Seq(Requests)
      /\ channel \in [{"upload", "download"} -> Seq(Requests)] /\ pc \in [Requests -> Places]
  BY PutOrGet DEF IndInv, TypeOK
<1>2. channel' = [channel EXCEPT ![Op(q)] = Append(c, q)] /\ pc' = [pc EXCEPT ![q] = "wait"]
  BY <1>1 DEF Ask, Goto
<1>3. /\ \A i \in DOMAIN c : i \in DOMAIN Append(c, q) /\ Append(c, q)[i] = c[i]
      /\ Len(c) + 1 \in DOMAIN Append(c, q) /\ Append(c, q)[Len(c) + 1] = q
  BY <1>1
<1>4. channel'[Op(q)] = Append(c, q)
      /\ \A o \in {"upload", "download"} : o # Op(q) => channel'[o] = channel[o]
  BY <1>1, <1>2
<1> HIDE DEF c
<1> SUFFICES ASSUME NEW r \in Requests, pc'[r] = "wait"
             PROVE  InChannel(r)'
  BY DEF AllInChannel
<1>5. CASE r = q
  BY <1>3, <1>4, <1>5 DEF InChannel, Op
<1>6. CASE r # q
  <2>1. PICK i \in DOMAIN channel[Op(r)] : channel[Op(r)][i] = r
    BY <1>1, <1>2, <1>6 DEF AllInChannel, InChannel
  <2>2. Op(r) \in {"upload", "download"}
    BY PutOrGet
  <2>3. CASE Op(r) = Op(q)
    <3>1. i \in DOMAIN Append(c, q) /\ Append(c, q)[i] = r
      BY <1>3, <2>1, <2>3 DEF c
    <3>2. channel'[Op(r)] = Append(c, q)
      BY <1>4, <2>3
    <3> QED  BY <3>1, <3>2 DEF InChannel, Op
  <2>4. CASE Op(r) # Op(q)
    <3>1. channel'[Op(r)] = channel[Op(r)]
      BY <1>4, <2>2, <2>4
    <3> QED  BY <2>1, <3>1 DEF InChannel, Op
  <2> QED  BY <2>3, <2>4
<1> QED  BY <1>5, <1>6

(* No request is forgotten: one whose goroutine waits for the main loop is *)
(* in the channel the main loop reads, through refusals, failed calls and  *)
(* panics.  With the fairness of select this is why Served holds.          *)
THEOREM WaitersInChannel == Spec => []AllInChannel
<1>1. Init => AllInChannel
  BY DEF Init, AllInChannel
<1>2. ASSUME IndInv, AllInChannel, [Next]_vars
      PROVE  AllInChannel'
  <2>0. pc \in [Requests -> Places]
    BY <1>2 DEF IndInv, TypeOK
  <2>1. CASE UNCHANGED <<pc, channel>>
    BY <1>2, <2>1 DEF AllInChannel, InChannel
  <2>2. CASE End
    BY <2>2 DEF End, AllInChannel
  <2>3. CASE \E r \in Requests : Goto(r, "done") /\ UNCHANGED channel
    <3>1. PICK r \in Requests : pc' = [pc EXCEPT ![r] = "done"] /\ UNCHANGED channel
      BY <2>3 DEF Goto
    <3>2. \A q \in Requests : pc'[q] = "wait" => pc[q] = "wait"
      BY <2>0, <3>1
    <3> QED  BY <1>2, <3>1, <3>2 DEF AllInChannel, InChannel
  <2> QED  BY <1>2, <2>1, <2>2, <2>3, PlacesStep, TakenStays, AskedStays
<1> QED  BY <1>1, <1>2, Invariance, PTL DEF Spec

-----------------------------------------------------------------------------
(* The components around the streams.                                      *)

Connection == INSTANCE Link

(* The requests leave the daemon, its files and its connection alone, but  *)
(* for a panic.                                                            *)
LEMMA ServeOutside ==
  ASSUME NEW op \in {"upload", "download"}, Serve(op)
  PROVE  UNCHANGED repoVars \/ End
BY DEF Serve, Grant, Refuse, repoVars

LEMMA HandlerOutside ==
  ASSUME NEW r \in Requests, Handler(r) \/ WriteFails(r)
  PROVE  UNCHANGED repoVars
BY DEF Handler, Reject, Ask, WrongLength, Send, Recv, Break, CloseUpload, CloseDownload, WriteFails

(* A block is written to a volume, which stays.                            *)
LEMMA WriteOutside ==
  ASSUME IndInv, NEW r \in Requests, Write(r)
  PROVE  UNCHANGED <<proc, link, files, Stored>>
<1>1. /\ UNCHANGED <<proc, link, files>> /\ vols \in [Names -> Content \union {Nil}]
      /\ stream[r] \in Stream /\ FileOf[r] \in Names /\ r \in Puts
  BY PutOrGet DEF Write, Pending, IndInv, TypeOK
<1>2. CASE ~stream[r].attached
  BY <1>1, <1>2 DEF Write, Stored
<1>3. CASE stream[r].attached
  <2>1. vols[FileOf[r]] # Nil
    BY <1>1, <1>3 DEF Write, Pending, IndInv, RequestInv, WroteInv, Open
  <2>2. vols[FileOf[r]] \in Content
    BY <1>1, <2>1
  <2>3. vols' = [vols EXCEPT ![FileOf[r]][stream[r].written + 1] = r]
    BY <1>3 DEF Write
  <2>4. [vols[FileOf[r]] EXCEPT ![stream[r].written + 1] = r] \in Content
    BY <1>1, <2>2 DEF Content
  <2>5. vols'[FileOf[r]] # Nil
    BY <1>1, <2>3, <2>4, NilAssumption
  <2>6. \A n \in Names \ {FileOf[r]} : vols'[n] = vols[n]
    BY <1>1, <2>3
  <2> QED  BY <1>1, <2>1, <2>5, <2>6 DEF Stored
<1> QED  BY <1>2, <1>3

(* The connection the streams depend on is the one the connector promises, *)
(* so that what is shown of uploads and downloads is not for want of some  *)
(* order of its events.                                                    *)
THEOREM ConnectionIsLink == Spec => Connection!Spec
<1>1. Init => Connection!Init
  BY DEF Init, Connection!Init
<1>2. IndInv /\ [Next]_vars => [Connection!Next]_<<proc, link>>
  <2> SUFFICES ASSUME IndInv, [Next]_vars
               PROVE  [Connection!Next]_<<proc, link>>
    OBVIOUS
  <2> USE DEF Connection!Next, Connection!Start, Connection!End, Connection!Ready,
              Connection!Lose, Connection!Failed
  <2>1. CASE Boot \/ Connect \/ ConnLost \/ ConnectFailed
    BY <2>1 DEF Boot, Connect, ConnLost, ConnectFailed
  <2>2. CASE Exit
    BY <2>2 DEF Exit, End
  <2>3. CASE \E op \in {"upload", "download"} : Serve(op)
    BY <2>3, ServeOutside DEF End, repoVars
  <2>4. CASE \E n \in Names : Files(n)
    BY <2>4 DEF Files, AddFile, ModifyFile, LoseResource, DeleteFile, TakeHandle, DropHandle,
                CreateVolume, DeleteVolume, SetFile
  <2>5. CASE \E r \in Requests : Handler(r) \/ Write(r) \/ WriteFails(r)
    BY <2>5, HandlerOutside DEF repoVars, Write
  <2>6. CASE UNCHANGED vars
    BY <2>6 DEF vars, repoVars
  <2> QED  BY <2>1, <2>2, <2>3, <2>4, <2>5, <2>6 DEF Next, Daemon
<1> QED  BY <1>1, <1>2, Invariance, PTL DEF Spec, Connection!Spec

(* Nothing happens to files and volumes here but what Volumes promises,    *)
(* which ImageRepository keeps: streams write into volumes, but never make *)
(* or remove one.                                                          *)
THEOREM VolumesArePromised == Spec => Repository!Spec
<1>1. Init => Repository!Init
  BY DEF Init, Repository!Init, Stored, Held
<1>2. IndInv /\ IndInv' /\ [Next]_vars => [Repository!Next]_<<Stored, Held>>
  <2> SUFFICES ASSUME IndInv, IndInv', [Next]_vars
               PROVE  [Repository!Next]_<<Stored, Held>>
    OBVIOUS
  <2>1. Held \subseteq Stored /\ Held' \subseteq Stored'
    BY DEF IndInv, HandleInv
  <2>2. ASSUME Stored \subseteq Stored', Held' \subseteq Stored
        PROVE  Repository!Next
    BY <2>1, <2>2 DEF Repository!Next, Repository!MayHold
  <2>3. ASSUME UNCHANGED vols
        PROVE  Repository!Next
    <3>1. Stored' = Stored
      BY <2>3 DEF Stored
    <3> QED  BY <2>1, <2>2, <3>1
  <2>4. CASE Boot \/ Exit \/ Connect \/ ConnLost \/ ConnectFailed
    BY <2>3, <2>4 DEF Boot, Exit, End, Connect, ConnLost, ConnectFailed
  <2>5. CASE \E op \in {"upload", "download"} : Serve(op)
    BY <2>3, <2>5, ServeOutside DEF End, repoVars
  <2>6. ASSUME NEW n \in Names, Files(n)
        PROVE  Repository!Next
    <3>1. CASE CreateVolume(n)
      <4>1. vols \in [Names -> Content \union {Nil}] /\ Held' = Held
        BY <3>1 DEF IndInv, TypeOK, CreateVolume, Held
      <4>2. Stored \subseteq Stored'
        <5>1. \A m \in Names \ {n} : vols'[m] = vols[m]
          BY <3>1, <4>1 DEF CreateVolume
        <5> QED  BY <3>1, <5>1 DEF CreateVolume, Stored
      <4> QED  BY <2>1, <2>2, <4>1, <4>2
    <3>2. CASE DeleteVolume(n)
      <4>1. vols \in [Names -> Content \union {Nil}] /\ Held' = Held /\ n \notin Held
            /\ vols' = [vols EXCEPT ![n] = Nil]
        BY <3>2 DEF IndInv, TypeOK, DeleteVolume, Held, Repository!MayRemove
      <4>2. \A m \in Stored \ Stored' : m = n
        BY <4>1 DEF Stored
      <4> QED  BY <4>1, <4>2 DEF Repository!Next, Repository!MayRemove
    <3>3. CASE UNCHANGED vols
      BY <2>3, <3>3
    <3> QED  BY <2>6, <3>1, <3>2, <3>3
             DEF Files, AddFile, ModifyFile, LoseResource, DeleteFile, TakeHandle, DropHandle, SetFile
  <2>7. CASE \E r \in Requests : Handler(r) \/ WriteFails(r)
    BY <2>3, <2>7, HandlerOutside DEF repoVars
  <2>8. CASE \E r \in Requests : Write(r)
    <3>1. Stored' = Stored /\ Held' = Held
      <4>1. UNCHANGED <<files, Stored>>
        BY <2>8, WriteOutside
      <4> QED  BY <4>1 DEF Held
    <3> QED  BY <3>1
  <2>9. CASE UNCHANGED vars
    BY <2>3, <2>9 DEF vars, repoVars
  <2> QED  BY <2>4, <2>5, <2>6, <2>7, <2>8, <2>9 DEF Next, Daemon
<1> QED  BY <1>1, <1>2, Invariance, PTL DEF Spec, Repository!Spec

=============================================================================
