---------------------------- MODULE VolumeStream ----------------------------
(***************************************************************************)
(* Uploads and downloads of the image repository: an HTTP goroutine per    *)
(* request asks the main loop for a libvirt stream over one of two         *)
(* channels and then copies between the stream and its client, while the   *)
(* main loop and its workers go on with files, volumes and connections.    *)
(*                                                                         *)
(*   VolumeStreamer.handle     Reject, WrongLength, Send, Recv, Break,     *)
(*                             CloseUpload, CloseDownload                  *)
(*   Service.UploadVolume,     Ask                                         *)
(*     DownloadVolume                                                      *)
(*   Service.Run, Repository   Serve (Grant, Refuse, or a panic)           *)
(*   libvirtd                  Write, WriteFails                           *)
(*   outside                   what ImageRepository does to the files (it  *)
(*                             keeps the promise of Volumes), the          *)
(*                             connection (Link), the end of the daemon    *)
(*                                                                         *)
(* Sends are asynchronous: libvirtd writes a block later, and only Finish  *)
(* waits for it.  A volume that is deleted lives on for the streams that   *)
(* have it open.  Left out: the length of a volume, which is always Size   *)
(* blocks, so that resizing does not show.                                 *)
(***************************************************************************)
EXTENDS Integers, Sequences, FiniteSets

CONSTANTS
  Names,     \* names of the image files
  Puts,      \* upload requests
  Gets,      \* download requests
  FileOf,    \* the file each request names
  Size,      \* blocks of a volume
  Nil,       \* an absent file, resource, volume or stream
  Blank,     \* what a block holds before anything is uploaded
  Modes,     \* the values of spec.stream.accessMode
  Faults     \* bound: calls that fail, lost connections, kills

Requests == Puts \union Gets
Blocks   == 1..Size

ASSUME ConstantsAssumption ==
  /\ Puts \intersect Gets = {}
  /\ FileOf \in [Requests -> Names]
  /\ Size \in Nat \ {0} /\ Faults \in Nat
  /\ Modes \subseteq {"Upload", "Download", "Both"}
  /\ Blank \notin Requests

VARIABLES
  proc,       \* the daemon's process: down, up
  link,       \* s.conn: down (nil), up, lost (not nil, its connection is closed)
  files,      \* r.files: Nil or [mode: of file.resource, or Nil without one; vol: file.vol]
  vols,       \* libvirtd: who wrote each block of the volume of each name, or Nil
  pc,         \* each request's goroutine: new, wait (for its answer), copy, done
  channel,    \* s.uploadOp and s.downloadOp with their blocked senders
  stream,     \* each request's stream, or Nil
  answer,     \* what each client has been answered
  rivals,     \* the uploads of the same file that overlapped with each stream
  faults      \* what is left of the bound

repoVars == <<proc, link, files, vols>>
reqVars  == <<pc, channel, stream, answer, rivals>>
vars == <<repoVars, reqVars, faults>>

File    == [mode : Modes \union {Nil}, vol : {"nil", "live", "dead"}]
Content == [Blocks -> Puts \union {Blank}]
Stream  == [broken : BOOLEAN, attached : BOOLEAN, sent : 0..Size, written : 0..Size]
Places  == {"new", "wait", "copy", "done"}
Answers == {"none", "ok", "refused", "failed", "cut"}

ASSUME NilAssumption == Nil \notin File /\ Nil \notin Content /\ Nil \notin Stream /\ Nil \notin Modes

NewStream == [broken |-> FALSE, attached |-> TRUE, sent |-> 0, written |-> 0]

Stored == {n \in Names : vols[n] # Nil}
Held   == {n \in Names : files[n] # Nil /\ files[n].vol = "live"}

Repository == INSTANCE Volumes WITH stored <- Stored, held <- Held

Fault == faults > 0 /\ faults' = faults - 1

Init ==
  /\ proc = "down" /\ link = "down"
  /\ files = [n \in Names |-> Nil] /\ vols = [n \in Names |-> Nil]
  /\ pc = [r \in Requests |-> "new"]
  /\ channel = [op \in {"upload", "download"} |-> <<>>]
  /\ stream = [r \in Requests |-> Nil]
  /\ answer = [r \in Requests |-> "none"]
  /\ rivals = [r \in Requests |-> {}]
  /\ faults = Faults

-----------------------------------------------------------------------------
(* The daemon, its connection and its files.                               *)

Boot ==
  /\ proc = "down" /\ proc' = "up"
  /\ UNCHANGED <<link, files, vols, reqVars, faults>>

(* The end of the process, and with it of requests, streams and connection. *)
End ==
  /\ proc = "up"
  /\ proc' = "down" /\ link' = "down"
  /\ files' = [n \in Names |-> Nil]
  /\ pc' = [r \in Requests |-> IF pc[r] = "new" THEN "new" ELSE "done"]
  /\ channel' = [op \in {"upload", "download"} |-> <<>>]
  /\ stream' = [r \in Requests |-> Nil]
  /\ answer' = [r \in Requests |-> IF pc[r] # "new" /\ answer[r] = "none" THEN "cut" ELSE answer[r]]
  /\ UNCHANGED <<vols, rivals>>

(* It is killed, or the HTTP server returns.                               *)
Exit == End /\ Fault

Connect ==
  /\ proc = "up" /\ link = "down" /\ link' = "up"
  /\ UNCHANGED <<proc, files, vols, reqVars, faults>>

(* Handles die and streams break; what libvirtd has not written is lost.   *)
ConnLost ==
  /\ link = "up" /\ link' = "lost" /\ Fault
  /\ files' = [n \in Names |-> IF files[n] # Nil /\ files[n].vol = "live"
                               THEN [files[n] EXCEPT !.vol = "dead"] ELSE files[n]]
  /\ stream' = [r \in Requests |-> IF stream[r] = Nil THEN Nil
                                   ELSE [stream[r] EXCEPT !.broken = TRUE]]
  /\ UNCHANGED <<proc, vols, pc, channel, answer, rivals>>

ConnectFailed ==
  /\ link = "lost" /\ link' = "down"
  /\ files' = [n \in Names |-> IF files[n] = Nil THEN Nil ELSE [files[n] EXCEPT !.vol = "nil"]]
  /\ UNCHANGED <<proc, vols, reqVars, faults>>

SetFile(n, f) ==
  /\ files' = [files EXCEPT ![n] = f]
  /\ UNCHANGED <<proc, link, vols, reqVars>>

AddFile(n) ==
  /\ proc = "up" /\ files[n] = Nil
  /\ \E m \in Modes : SetFile(n, [mode |-> m, vol |-> "nil"])
  /\ UNCHANGED faults

ModifyFile(n) ==
  /\ files[n] # Nil
  /\ \E m \in Modes : SetFile(n, [files[n] EXCEPT !.mode = m])
  /\ UNCHANGED faults

(* refreshSizes after a refused update.                                    *)
LoseResource(n) ==
  /\ files[n] # Nil /\ files[n].vol # "nil"
  /\ SetFile(n, [files[n] EXCEPT !.mode = Nil])
  /\ Fault

DeleteFile(n) ==
  /\ files[n] # Nil
  /\ SetFile(n, Nil)
  /\ UNCHANGED faults

(* Finish or loadVolumes store a handle: of the volume, or of a connection *)
(* that has gone.                                                          *)
TakeHandle(n) ==
  /\ files[n] # Nil /\ files[n].vol = "nil"
  /\ \/ link = "up" /\ Repository!MayHold(n) /\ SetFile(n, [files[n] EXCEPT !.vol = "live"])
     \/ faults < Faults /\ SetFile(n, [files[n] EXCEPT !.vol = "dead"])
  /\ UNCHANGED faults

(* refreshVol after an error.                                              *)
DropHandle(n) ==
  /\ files[n] # Nil
  /\ \/ files[n].vol = "dead" /\ UNCHANGED faults
     \/ files[n].vol = "live" /\ Fault
  /\ SetFile(n, [files[n] EXCEPT !.vol = "nil"])

CreateVolume(n) ==
  /\ link = "up" /\ vols[n] = Nil
  /\ vols' = [vols EXCEPT ![n] = [b \in Blocks |-> Blank]]
  /\ UNCHANGED <<proc, link, files, reqVars, faults>>

DeleteVolume(n) ==
  /\ link = "up" /\ vols[n] # Nil /\ Repository!MayRemove(n)
  /\ vols' = [vols EXCEPT ![n] = Nil]
  /\ stream' = [r \in Requests |-> IF stream[r] # Nil /\ FileOf[r] = n
                                   THEN [stream[r] EXCEPT !.attached = FALSE] ELSE stream[r]]
  /\ UNCHANGED <<proc, link, files, pc, channel, answer, rivals, faults>>

-----------------------------------------------------------------------------
(* A request on its way to the main loop.                                  *)

Op(r) == IF r \in Puts THEN "upload" ELSE "download"

Goto(r, p) == pc' = [pc EXCEPT ![r] = p]

(* The handler returns.  It leaves a stream it does not close open.        *)
Return(r, a) ==
  /\ Goto(r, "done")
  /\ answer' = [answer EXCEPT ![r] = a]

(* A path of another form, or another method.                              *)
Reject(r) ==
  /\ proc = "up" /\ pc[r] = "new"
  /\ Return(r, "refused")
  /\ UNCHANGED <<repoVars, channel, stream, rivals, faults>>

(* The channels hold one request each; Go queues the senders that find     *)
(* theirs full in the order they came, so the sequence is both.            *)
Ask(r) ==
  /\ proc = "up" /\ pc[r] = "new"
  /\ Goto(r, "wait")
  /\ channel' = [channel EXCEPT ![Op(r)] = Append(@, r)]
  /\ UNCHANGED <<repoVars, stream, answer, rivals, faults>>

-----------------------------------------------------------------------------
(* The main loop takes a request.                                          *)

Permits(m, r) == m \in {"Both", IF r \in Puts THEN "Upload" ELSE "Download"}

(* The checks of Repository.UploadVolume and DownloadVolume, in order.     *)
Checked_AnyHandle(r, token) ==   \* mutant: the handle is not asked for its size
  LET f == files[FileOf[r]]
  IN link # "down" /\ f # Nil /\ Permits(f.mode, r) /\ token = "right" /\ f.vol # "nil"

Checked(r, token) ==
  LET f == files[FileOf[r]]
  IN link # "down" /\ f # Nil /\ Permits(f.mode, r) /\ token = "right" /\ f.vol = "live"

(* file.resource.Spec of a nil resource.                                   *)
Panics(r) == link # "down" /\ files[FileOf[r]] # Nil /\ files[FileOf[r]].mode = Nil

Taken(r) == channel' = [channel EXCEPT ![Op(r)] = Tail(@)]

Overlaps(r, q) == stream[q] # Nil /\ ~stream[q].broken /\ q # r /\ FileOf[q] = FileOf[r]

Grant(r) ==
  /\ Goto(r, "copy")
  /\ stream' = [stream EXCEPT ![r] = NewStream]
  /\ rivals' = [q \in Requests |->
                  IF q = r THEN {p \in Puts : Overlaps(r, p)}
                  ELSE IF Overlaps(r, q) /\ r \in Puts THEN rivals[q] \union {r}
                  ELSE rivals[q]]
  /\ UNCHANGED <<repoVars, answer, faults>>

Refuse_Silently(r) ==            \* mutant: nothing is sent on data.done
  UNCHANGED <<repoVars, pc, stream, answer, rivals>>

Refuse(r) ==
  /\ Return(r, "refused")
  /\ UNCHANGED <<repoVars, stream, rivals>>

Serve(op) ==
  /\ proc = "up" /\ channel[op] # <<>>
  /\ LET r == Head(channel[op])
     IN \E token \in {"right", "wrong"} :
          \/ Checked(r, token) /\ Taken(r) /\ Grant(r)
          \/ ~Checked(r, token) /\ ~Panics(r) /\ Taken(r) /\ Refuse(r) /\ UNCHANGED faults
          \/ link # "down" /\ Fault /\ Taken(r) /\ Refuse(r)   \* NewStream, GetInfoFlags, Upload
          \/ Panics(r) /\ End /\ UNCHANGED faults

-----------------------------------------------------------------------------
(* The handler again, with its stream.                                     *)

(* An upload whose length is unknown or not that of the volume.            *)
WrongLength(r) ==
  /\ r \in Puts /\ pc[r] = "copy" /\ stream[r].sent = 0
  /\ Return(r, "failed")
  /\ UNCHANGED <<repoVars, channel, stream, rivals, faults>>

Moves_Past(r) ==                 \* mutant: off by one at the end of the volume
  pc[r] = "copy" /\ ~stream[r].broken /\ stream[r].sent <= Size

Moves(r) == pc[r] = "copy" /\ ~stream[r].broken /\ stream[r].sent < Size

Send(r) ==
  /\ r \in Puts /\ Moves(r)
  /\ stream' = [stream EXCEPT ![r].sent = @ + 1]
  /\ UNCHANGED <<repoVars, pc, channel, answer, rivals, faults>>

Recv(r) ==
  /\ r \in Gets /\ Moves(r)
  /\ stream' = [stream EXCEPT ![r].sent = @ + 1]
  /\ UNCHANGED <<repoVars, pc, channel, answer, rivals, faults>>

(* io.Copy ends early: the client goes away or the stream has an error,    *)
(* which a download may still meet when it reads the end of the volume.    *)
Break(r) ==
  /\ pc[r] = "copy"
  /\ stream[r].sent < Size \/ (r \in Gets /\ stream[r].broken)
  /\ Return(r, IF r \in Puts THEN "failed" ELSE "cut")
  /\ UNCHANGED <<repoVars, channel, stream, rivals, faults>>

(* StreamIO.Close: Finish waits for libvirtd, Abort does not.              *)
Finished_AtOnce(r) == TRUE       \* mutant: the stream is aborted
Finished(r) == stream[r].written = stream[r].sent \/ stream[r].broken

Complete_NoEOF(r) == stream[r].sent > 0      \* mutant: the bytes copied are not counted
Complete(r) == stream[r].sent = Size

CloseUpload_Forgets(r) ==        \* mutant: the stream is not closed
  /\ r \in Puts /\ pc[r] = "copy" /\ Complete(r)
  /\ Return(r, "ok")
  /\ UNCHANGED <<repoVars, channel, stream, rivals, faults>>

(* The error of Close is dropped: the answer is OK when Finish fails too.  *)
CloseUpload(r) ==
  /\ r \in Puts /\ pc[r] = "copy" /\ Complete(r) /\ Finished(r)
  /\ stream' = [stream EXCEPT ![r] = Nil]
  /\ Return(r, "ok")
  /\ UNCHANGED <<repoVars, channel, rivals, faults>>

(* At the end of the volume Recv returned an error, EOF: Close aborts.     *)
CloseDownload(r) ==
  /\ r \in Gets /\ pc[r] = "copy" /\ Complete(r) /\ ~stream[r].broken
  /\ stream' = [stream EXCEPT ![r] = Nil]
  /\ Return(r, "ok")
  /\ UNCHANGED <<repoVars, channel, rivals, faults>>

-----------------------------------------------------------------------------
(* libvirtd writes the next block of an upload, also after its handler has *)
(* returned without closing the stream.                                    *)

Pending(r) == r \in Puts /\ stream[r] # Nil /\ ~stream[r].broken
              /\ stream[r].written < stream[r].sent

Write(r) ==
  /\ Pending(r)
  /\ stream' = [stream EXCEPT ![r].written = @ + 1]
  /\ vols' = IF stream[r].attached
             THEN [vols EXCEPT ![FileOf[r]][stream[r].written + 1] = r] ELSE vols
  /\ UNCHANGED <<proc, link, files, pc, channel, answer, rivals, faults>>

WriteFails(r) ==
  /\ Pending(r) /\ Fault
  /\ stream' = [stream EXCEPT ![r].broken = TRUE]
  /\ UNCHANGED <<repoVars, pc, channel, answer, rivals>>

-----------------------------------------------------------------------------
Daemon  == Boot \/ Exit \/ Connect \/ ConnLost \/ ConnectFailed
           \/ \E op \in {"upload", "download"} : Serve(op)
Files(n) == AddFile(n) \/ ModifyFile(n) \/ LoseResource(n) \/ DeleteFile(n) \/ TakeHandle(n)
            \/ DropHandle(n) \/ CreateVolume(n) \/ DeleteVolume(n)
Handler(r) == Reject(r) \/ Ask(r) \/ WrongLength(r) \/ Send(r) \/ Recv(r) \/ Break(r)
              \/ CloseUpload(r) \/ CloseDownload(r)

Next ==
  \/ Daemon
  \/ \E n \in Names : Files(n)
  \/ \E r \in Requests : Handler(r) \/ Write(r) \/ WriteFails(r)

(* The main loop comes back to its select and Go chooses among the ready   *)
(* channels at random.  Nothing is assumed of clients: they may stall for  *)
(* ever, as the HTTP server has no timeouts.                               *)
Fairness == \A op \in {"upload", "download"} : WF_vars(Serve(op))

Spec     == Init /\ [][Next]_vars
FairSpec == Spec /\ Fairness

-----------------------------------------------------------------------------
(* Properties.                                                             *)

(* The variables have their types.                                         *)
TypeOK ==
  /\ proc \in {"down", "up"} /\ link \in {"down", "up", "lost"}
  /\ files \in [Names -> File \union {Nil}]
  /\ vols \in [Names -> Content \union {Nil}]
  /\ pc \in [Requests -> Places]
  /\ channel \in [{"upload", "download"} -> Seq(Requests)]
  /\ stream \in [Requests -> Stream \union {Nil}]
  /\ answer \in [Requests -> Answers]
  /\ rivals \in [Requests -> SUBSET Puts]
  /\ faults \in Nat

(* Streams end: what is open at libvirtd belongs to a request under way,   *)
(* or to one that did not go well.  (handle returns without closing the    *)
(* stream when lengths differ or a copy ends early.)                       *)
StreamsEnd ==
  \A r \in Requests : stream[r] # Nil =>
    pc[r] = "copy" \/ answer[r] \in {"failed", "cut"}

(* An upload that is answered OK is in the volume, whole, with nothing     *)
(* else but blocks of uploads that overlapped with it - whatever the       *)
(* connection, deletions and other requests do meanwhile.  Excepted are a  *)
(* volume deleted under the upload, and a Finish that fails: its error is  *)
(* dropped and the answer is OK.                                           *)
OkSaved ==
  [][\A r \in Puts : answer[r] = "none" /\ answer'[r] = "ok" =>
       stream[r].broken \/ ~stream[r].attached
       \/ \A b \in Blocks : vols[FileOf[r]][b] \in {r} \union rivals[r]]_vars

(* A transfer starts on a volume that exists.                              *)
GrantedExists ==
  [][\A r \in Requests : pc[r] = "wait" /\ pc'[r] = "copy" => FileOf[r] \in Stored]_vars

(* Every request the daemon has taken gets its answer or its stream,       *)
(* however long other clients stall and whatever fails, unless the daemon  *)
(* ends.                                                                   *)
Served == \A r \in Requests : pc[r] = "wait" ~> pc[r] # "wait"

=============================================================================
