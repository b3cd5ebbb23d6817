# libvirt-kube: specifications, model checking and proofs

libvirt-kube runs KVM guests under Kubernetes. Its daemons keep objects of the
API server (third party resources), the state of libvirtd and their own memory
in step. The hard part is not any one call. It is that the three change on
their own: users write objects at any time, watches deliver late, workers run
libvirt calls in parallel, connections drop, daemons die and restart.

## 1. Inventory

| Component | Source | State | Operations | Talks to |
|---|---|---|---|---|
| Image repository main loop | `pkg/imagerepo/service.go` | connection, file monitor, upload and download requests | one `select`: connection events, pools, file events, EOF of the monitor, ticker, uploads, downloads | all below |
| Repository | `pkg/imagerepo/repo.go` | `files` (object and volume handle per name), `pool`, own resource | AddFile, ModifyFile, DeleteFile, SetPool, UnsetPool, Refresh, loadFileResources | API client, job channels, libvirt |
| Job workers | `pkg/imagerepo/repo.go` | the job each has taken | Process of create, resize, delete jobs | channels `pendingJobs`, `completedJobs` (100 each), libvirt |
| Pool manager | `pkg/imagerepo/poolmanager.go` | one goroutine per connection | load: look up, create or start the pool | libvirt, unbuffered channel to the main loop |
| Volume streaming | `pkg/imagerepo/stream.go`, `pkg/libvirtutil/stream.go` | a goroutine per HTTP request, its libvirt stream | parse, ask, copy, close | main loop through two channels of 1, libvirt |
| Registration | `pkg/api/tpr.go` | the types the API server knows | look up, create, wait | API server, every daemon at its start |
| Connector | `pkg/libvirtutil/connect.go` | connect loop, close callback | connect, retry, notify | every daemon, channel of 1 |
| API client | `pkg/api` | none | List, Get, Watch, Update of each resource | API server |
| VM shim | `pkg/vmshim/shim.go` | connection, `machines`, a goroutine per client | startMachine, waitForMachineStop, stopMachine | libvirt, API client, guardians over a UNIX socket |
| VM angel | `pkg/vmangel/guardian.go` | socket to the shim | Watch | shim |
| Domain designer | `pkg/designer/domain.go` | none (pure) | operating system, memory, devices of a domain description | API client for claims, volumes, secrets, image files |
| Node information | `pkg/nodeinfo` | connection, node record | updateNode every 15 s | libvirt, API client |
| CRI service | `pkg/cri/service.go` | none | stubs, "not implemented" | kubelet |
| Resource partition, commands | `pkg/resource`, `cmd` | none | parse `/proc`, flags | |

What makes each correct, and what is hard about it:

* **Image repository.** The volumes of the pool end up those of the objects
  (`docs/storage.txt`); no volume in use is ever deleted; users' changes are
  never taken back; the status tells the truth. Hard: handlers race with the
  workers and with the API server, jobs complete out of order, the pool is
  reloaded while jobs of the previous connection are under way, a PUT is refused.
* **Job channels.** No job is lost; the main loop always returns to its select.
  Hard: one goroutine both fills `pendingJobs` and drains `completedJobs`.
* **Shim and angel.** A guest runs only while a guardian holds its socket, and
  the status shows the hardware of the running instance. Hard: failure between
  the steps of a start, guests that end by themselves, pods that overlap.
* **Connector.** Events reach the daemon in the order of the connections; no
  connection is used after its last reference has gone. Hard: the close
  callback runs on the event loop, possibly before `connect` has sent.
* **Streaming.** Every request is served; a transfer starts on a volume that
  exists; an answer OK means that the data is in the volume. Hard: HTTP
  goroutines copy while the main loop frees handles, jobs delete volumes, other
  uploads write the same file and the connection drops.
* **Status of a repository.** It is Ready with a pool that works, not without.
  Hard: the pool is loaded by a goroutine that may outlive its connection, and
  a PUT that is refused is not repeated.
* **Registration.** Every daemon comes to run, with its types. Hard: daemons
  race for the same types, which are served some time after they exist.
* **Node information.** The record shows the node: Ready with a connection, not
  without, and never at the price of a user's edit.
* **Designer.** Hardware becomes a guest only if it is sound. Hard: it runs in
  the goroutine of one client of the shim, and a panic there ends all of them.

The full list of hazards, each at its line, is in `PROJECT.json`.

## 2. Modules

| Module | About |
|---|---|
| `ImageRepository` | the daemon of an image repository and everything around it |
| `Volumes` | what a repository promises of its volumes, abstractly |
| `VolumeStream` | uploads and downloads, against a repository that keeps `Volumes` |
| `RepoStatus` | the pool of a repository and the phase it shows of itself |
| `Registration` | the start of the daemons, which `RepoStatus` EXTENDS |
| `JobQueue` | the goroutines and bounded channels of a repository |
| `VMShim` | the shim, its clients, the guests and the Virtmachine objects |
| `Designer` | what becomes of the hardware a machine asks for, which `VMShim` EXTENDS |
| `Connector` | how a daemon gets, loses and gets again its connection to libvirtd |
| `Link` | what the connector promises, abstractly |
| `NodeInfo` | the node information service, composed with its `Connector` |
| `MCImageRepository`, `MCVolumeStream`, `MCRepoStatus`, `MCJobQueue`, `MCVMShim`, `MCNodeInfo` | constants of the instances TLC checks |
| `ImageRepositoryProofs`, `RepositorySafetyProofs`, `RepositorySpecsProofs`, `VolumeStreamProofs`, `RepoStatusProofs`, `JobQueueProofs`, `VMShimProofs`, `NodeInfoProofs` | theorems |

How they fit together: `ImageRepository` implements `Volumes` and `VolumeStream`
uses `Volumes` for its environment, so that transfers need not be checked
together with all of the repository. `Connector` implements `Link`, and the
connections of `ImageRepository`, `VolumeStream`, `RepoStatus` and `VMShim` are
proved to be `Link`s too: no model makes more of a connection than a connector
gives. `JobQueue` is the part of the repository
where capacities matter, `RepoStatus` the part about the pool's loading and the
repository's own object; `ImageRepository` has both as one free choice each.

### ImageRepository

State. `api` and `revs` are the API server, `server` whether it takes the
updates of each object and answers them, `watch` the events it has sent and
the daemon has not handled, `vols` the volumes libvirtd has, `budget` what is
left of each bound. The rest is the daemon: `files`, `pool` as in `Repository`,
`link` is `Service.conn` (nil, open, or not nil and closed), `loads` the pools
on their way from the pool manager, `pending`, `working`, `ran`, `completed` the
jobs, `proc` where the main loop is. A libvirt handle is `nil`, `live` or
`dead`; all handles die with the connection they came from. An object keeps
its version, its capacity (or `Elsewhere`, when its `repoName` is another
repository), its phase and the capacity of its status.

Actions. Each case of `Service.Run` is an action: `WatchEvent` (`AddFile`,
`ModifyFile`, `DeleteFile`), `WatchEOF`, `Connect`, `ConnectFailed`,
`PoolReady` / `PoolLoadFails`, `Tick`. `Refresh` is the exception: it drains
`completedJobs` one `FinishJob` at a time, during which workers go on, and ends
with `RefreshSizes`. `Boot` is `NewService` with its watch, `LoadFileResources`
the list that comes after. `Take`, `Process` and `HandOver` are `jobWorker`. A
nil dereference is `Panic`: it ends the process and loses all its memory; the
replication controller starts it again. A panic inside a loop over `files`
happens after any subset of the other files has been updated, as the order of a
Go map is arbitrary, and after the workers have run any of the creations that the
loop has queued. `Kill` also stands for the exits on errors of List, Watch
and the streamer. `Outage` and `OutageEnds` are the API server, which for a while
fails the updates of an object, or takes them and loses the answers; the code
treats both, and a conflict, as one error. A pool whose volumes cannot be listed
(`ListAllStorageVolumes`) is kept and nothing is adopted: a disjunct of
`PoolReady`.

Why a handler may be one action although workers and users interleave with it:

* A handler touches a file, its volume handle and its object once, and jobs of
  other files touch none of these, so steps for different files commute.
* The PUTs of a loop over files are independent; each either finds the version
  it holds or does not, and a user's write before or after the whole loop gives
  the same outcomes. The order of their events is chosen freely.
* A job queued early in a handler could run before the handler ends, but
  handlers read nothing a job writes, except the volume list and `GetInfo`,
  which are read before any job for that file is queued.
* A connection that drops inside a handler equals one that drops before it (the
  remaining calls fail) or after it.

Left out: physical usage and preallocation; the repository's own resource,
whose refused update is the free choice in `PoolReady` and which is
`RepoStatus`'s subject; the capacity of the channels, which is `JobQueue`'s; the
names of volumes, whose escaping is injective on names Kubernetes allows. A PUT that changes
nothing gives no version and no event, as the API server does.

Properties (hazards in brackets):

* `HeldVolumeSafe`: a volume the daemon has a usable handle of exists and no
  deletion of it is on its way. [reload with jobs under way, job order]
* `DeleteOnce`: at most one deletion of a volume is under way, and the volume is
  there for it. [late deletions that would hit the next file's data]
* `DaemonKeepsSpecs`: no step of the daemon changes a spec. [stale copies]
* `IsVolumes`: a handle becomes usable only while its volume exists, no volume
  goes before its handle is given up; the promise the streams rely on. [the same]
* `ViewAgrees`: with every event of one watch handled, `files` agrees with the
  API, unless a file has changed repositories; `ViewSurvives` claims it also
  across the end of a watch.
* `PoolHasConnection`: no pool outlives its connection on the way to the loop.
* `VolumesMatch`, `SizesMatch`: an idle daemon has the right volumes, of the
  right capacity. `Converges`, `Recovers`: it gets there and stays there.
* `AvailableExists`: what is shown as available has its volume. [a creation that
  fails after its handler has returned]

What the code does and no property claims: a file deleted before its creation
has finished leaves its volume behind until the pool is loaded again; a file whose
`repoName` changes keeps its volume in the old repository and gets none in the new
one; a creation that failed is shown as Pending, as `refreshSizes` publishes no
phase of a file without a volume.

### Volumes and VolumeStream

`Volumes` has two variables, the volumes libvirtd has (`stored`) and the files
whose handle is usable (`held`), and says what a step may do to them.

In `VolumeStream` each request is a goroutine of the HTTP server: `pc` says
whether it is new, waits for its answer, copies or is done. `Reject` to
`CloseDownload` are the steps of `VolumeStreamer.handle`; `Ask` is the send on
`uploadOp` or `downloadOp`, each a channel of one request whose blocked senders
Go queues in order, hence a sequence. `Serve` is the case of the main loop with
all the checks of `Repository.UploadVolume` and `DownloadVolume`; a resource
that a refused update left nil makes it panic. Sends on a libvirt stream return
before the block is written: `Write` and `WriteFails` are libvirtd, and only
`Finish` in `CloseUpload` waits for it. `WrongLength` and `Break` are the returns
that leave the stream open; a download may meet the broken stream as late as in
the read that should find its end. The rest is what the repository does to `files`,
`vols` and `link`, each step allowed by `Volumes`.

`rivals` is a history variable: the uploads of the same file that were under way
at the same time. Every block of a volume holds who wrote it last.

Properties: `OkSaved` (an upload that is answered OK is in the volume, whole, but
for blocks of its rivals; the code drops the error of `Finish` and does not
notice a volume deleted under the upload, so those two are excepted),
`GrantedExists`, `StreamsEnd` (a stream is left open only by a request that went
wrong), `Served` (whatever clients do, requests get their answer or their
stream, unless the daemon ends).

### Registration and RepoStatus

`Registration` has, for each daemon, the types it has still to register (`Lookup`,
`Create`, `Await` are `RegisterResourceExtension`) and then to read an object of
(`Read`). A type is absent, registered or served, which comes later (`Serve`).
"Already exists" after another daemon was faster is an error, and every error
ends the daemon; the wait for a type drops its error.

`RepoStatus` EXTENDS it with a repository. `loads` has the load of each connection
of this process and what call it is at: `LookupPool`, `CreatePool`, `CheckPool`,
`StartPool` are `PoolManager.load`. `dotted` says that `EscapeObjectName` changes the
repository's name: the lookup uses the name as it is, the pool has the escaped
one. `Connected`, `Failed`, `TakePool`, `Tick` are cases of the main loop. `copy` is
`r.resource` and `fresh` whether its version is the object's; `Save` is `saveRepo`,
which is refused with an old version and whose answer may be lost.

Properties: `Registered`, `Starts` (no daemon is kept from running by another one
or by a type that is served late), `PoolOfConnection` (the pool that reaches the
main loop is of the connection it has), `LossShown`, `Settles` (with a connection
the repository comes to show its pool as Ready, for good). The exceptions of the
last two are what the code does not handle: a PUT that fails is not repeated, a
copy whose version is old is never read again, a load that fails is not
repeated, and a dotted name's second load always fails.

### JobQueue

Jobs are counted, not told apart. `StartHandler` picks how many jobs a handler
will queue: any number up to `Limit`, the most that are ever outstanding (each
file and each leftover volume has few). `Push` waits for room in `pendingJobs`
and `HandOver` for room in `completedJobs`; `Finish` and `EndRefresh` are the
drain with its `default` case. `StuckOnlyAtBound` says how many outstanding jobs
it takes for the main loop and the workers to wait for each other: what the
channels and the workers hold, and one more to queue. `RespondsIfFits` and
`FinishedIfFits` are about behaviours that stay below.

### VMShim

`guardian`, `thread` and `guest` follow one client: the process in the pod, its
goroutine in the shim and the guest it started. `copy` is the machine object
the goroutine has got, `handle` its connection or domain. `Get` to `Report` are
`startMachine`, one action for each call that other goroutines, users or
libvirtd can come between; `TakeConn` includes the designer, and `Crash` is a
designer that panics, which ends the shim and all its guests. The PUT of `Report`
may be applied although its answer is lost; the guest is then stopped all the
same. `Undo` and `Stop` are `stopMachine`; `Undo` never frees the domain, so its
handle stays. `Check`, `SeeEOF` and `Clear` are `waitForMachineStop`. Guests are
transient and `AUTODESTROY`: they go with the connection, and a domain that is
gone is an error for `Destroy`; for `IsActive` it is an error or, while libvirt
still removes it, the answer no. libvirt's errors are values of type
`libvirt.Error` (`poolmanager.go` asserts that type), so the assertion to
`*libvirt.Error` in `stopMachine` never holds and the loop ends only with a
`Destroy` that succeeds.

Left out: the two lookups before the creation, of a UUID and a name drawn at
random for this very start; secrets, whose UUIDs are drawn too;
`Shim.machines`, read only by `domainLifecycleEvent`, which nothing registers.

Properties: `GuestKept` (a running guest has a goroutine that will stop it, or
`IsActive` has failed for it), `Stopped` (no guest stays when its guardian has
gone, with the same exception: the goroutine of a failed `IsActive` returns and
leaves the guest), `ShownHardware` (the status is that of the running guest),
`ShimKeepsSpecs`, `Isolated` (what is asked for one machine costs no other its
guest, unless its hardware makes the designer panic), `QuitNoticed`. `GuestSound`
(no guest has hardware the designer should refuse) is proved and in no run.

### Designer

Pure operators: `Outcomes` is the set of what `ApplyVirtMachine` can come to for a
value of `spec.hardware`: a domain, an error, or a panic. The parts are set in the
order of the code and the first that cannot be set decides. Divisions are Go's:
the remainder by zero slots and the quotient by a slot size of zero panic. The
numbers are signed, as in the code; only their absolute values matter. Reads
of claims, volumes, secrets and image files may fail, hence the set. `Safe` and
`Sound` are the reference definitions: what cannot panic, and what a guest may be
started with ("must be a divisor of both Present and Maximum",
`virtmachine.go`).

### Connector, Link and NodeInfo

`Connector` has the three kinds of goroutines of `connect.go` and the thread of
the event loop, all blocked on one channel: `maker` and `closer` say what the
connector and the close callback of a connection are at, `lazy` whether its
`lazyUnregister` runs, `refs` how many references the program holds, `conn` is
the main loop's `s.conn`. `Dial` to `LazyUnregister` are their steps; `TakeReady`
and `TakeFailed` what a main loop does with an event, `PanicOnFailed` the `Close`
of a nil connection when "failed" has overtaken "ready". Connections are used
again, so that losses are not bounded. The channel is handed to any waiting
sender, which includes Go's first-come order. External: libvirt does not
register a callback on a dead connection, and calls a registered one once.

`Link` is the connection as `ImageRepository` and `VMShim` take it to be: down,
up, lost, and down again. `IsLink` says that `Connector` implements it. It is not
obvious, as "ready" and "failed" are sent by different threads and "failed" does
not say of which connection: it holds because the callback sends before it
starts the next connector, and because the panic ends the daemon when the two
arrive in the wrong order.

`NodeInfo` EXTENDS `Connector` with the main loop of `virtkubenodeinfo`: `api` is
the Virtnode object, `node` the copy `s.nodeinfo`, `fresh` whether its version is
the object's, `pc` where `updateNode` is. Between its steps users, libvirtd and
the connector go on.

Properties: `RefsCounted` (a connection has as many references as holders:
nothing leaks, nothing is closed under anyone's hands), `IsLink`, `Reconnects`,
`LossShown` (a node whose connection is lost is not shown as Ready for good),
`Current` (while the connection works the object comes to show the host as it
is), `EditsKept`. `LossShown` and `Current` except what the code does not
handle: an update that fails is not repeated, and a copy whose version is old
is never fetched again.

## 3. What the runs show

| Run | Instance | Result |
|---|---|---|
| `RepoSafety` | 1 file, 2 sizes, 2 workers, 3 user operations at any time, one of them a move to another repository, a failing call, a lost connection, the end of the watch | `TypeOK`, `HeldVolumeSafe`, `DeleteOnce`, `ViewAgrees`, `PoolHasConnection`, `DaemonKeepsSpecs`, `IsVolumes` hold |
| `RepoIdle` | 1 file, 1 size, 1 worker, 3 user operations on an idle daemon, updates that are not taken or not answered for a while, a failing call, a lost connection, a kill | `VolumesMatch`, `AvailableExists`, `Recovers`, `Converges` hold |
| `RepoSizes` | a resize crosses a refresh | `SizesMatch` fails |
| `RepoReorder` | 2 workers, delete and add again | `VolumesMatch` fails |
| `RepoEOF` | the watch ends once | `ViewSurvives` fails |
| `StreamTransfers` | 2 uploads and a download of 1 file of 2 blocks, a fault | `TypeOK`, `StreamsEnd`, `OkSaved`, `GrantedExists`, `Served` hold |
| `RepoStarts` | a repository and a shim, 2 types, a pool in any state under a name with and without a dot, one each of failing start, kill, edit, loss, failing load, failing query, failing PUT | `TypeOK`, `Registered`, `PoolOfConnection`, `Starts`, `LossShown`, `Settles` hold |
| `JobQueueChannels` | 3 workers, channels of 2, up to 9 jobs outstanding where 7 fit | `TypeOK`, `Conservation`, `StuckOnlyAtBound`, `RespondsIfFits`, `FinishedIfFits` hold |
| `ShimGuests` | 2 clients, 2 machines, 4 kinds of hardware, a user operation, loss, kill, failing `IsActive` | `TypeOK`, `GuestKept`, `ShownHardware`, `ShimKeepsSpecs`, `Isolated`, `Stopped` hold |
| `ShimQuit` | guests end by themselves | `QuitNoticed` fails |
| `ShimShared` | 2 clients of 1 machine | `ShownHardware` fails |
| `NodeShown` | 2 connections used again and again, panics and kills at any time, an edit, a change of the host, a failing query, a failing PUT | `TypeOK`, `RefsCounted`, `IsLink`, `EditsKept`, `LossShown`, `Current`, `Reconnects` hold |

Each failing run is a disagreement of the code with a sentence of its own
documentation or comments; `PROJECT.json` quotes it and tells the story.

Two of the lessons. First, the panics on nil pools, volumes and resources are
what keeps the repository right in many histories: a restart reads everything
again. `PoolHasConnection` and `PoolOfConnection` hold only because `UnsetPool`
panics without a pool: a daemon that let that pass would take the pool of a
connection that has gone for the pool of the next one. Second, the shim protects its status by versions, but an update that
changes nothing gives no new version, and that is enough for two pods of one
machine to break it.

Bounds. `UserOps`, `Moves`, `OpErrors`, `ConnLosses`, `WatchEOFs`, `Kills`,
`PutErrors`, `ActiveErrors`, `MaxJobs`, `UserEdits`, `HostChanges`, `QueryErrors`,
`UpdateErrors`, `StartErrors`, `LoadErrors`, `InfoErrors`, `SaveErrors` and `Faults`
bound how often the environment acts; nothing else is bounded, and every
one is a guard of the action it counts. In `ImageRepository` no handler relates
more than one file to another, so that one file shows the properties; a loop over
several files that panics among them is covered by the proofs, and by `RepoIdle` with
`Names <- TwoNames` and `PutErrors = 0`, which holds as well. Two workers are the least that
reorder; two to three user operations make a file appear, change and disappear,
or appear twice; a loss gives a reload while jobs of the first connection are
under way. For the safety
properties that are proved, any number of losses and outages is covered by the
proofs, with users who act at any time as well. In
`VolumeStream` two uploads overlap with each other and with the deletion of the
file, and two blocks tell a part of a volume from all of it. In `RepoStatus` two
types and two daemons let each be faster once. `Manners` says when users act:
at any time, on files whose status shows the last change is done, or when the
daemon is idle. The stronger claims hold only for the better mannered users; the
failing runs show why. Channels of two jobs fill and block like channels of
100; `JobQueueProofs` covers all capacities. The four kinds of hardware of
`ShimGuests` are taken, refused and panicked on; workers are symmetric in
`RepoSafety`, which has no liveness property.

Fairness. Go's `select` picks at random among ready cases, so a case that is
ready again and again is taken: strong fairness for the cases of the main loop.
`FinishJob` and `RefreshSizes` are consecutive statements: weak fairness, as for
workers, guardians and client goroutines, which only need to be scheduled. The
restart is weakly fair: the pods are under controllers that restart them
(`manifests`). Outages of the API server end (weak fairness of `OutageEnds`); while
one lasts nothing is assumed. No fairness is assumed of users, faults, guests or loads that
fail. In `VMShim` the libvirt call of `Stop` succeeds eventually while it can. In
`NodeInfo` libvirtd answers sooner or later: dialling and registering, tried
again and again, succeed (strong fairness). In `RepoStatus` the same holds of its
connections, and types that are registered come to be served. In `VolumeStream`
only the main loop's two cases are fair: a channel that has a request keeps it,
so weak fairness is all it takes. Nothing is assumed of clients, which may stall
for ever: the HTTP server sets no timeouts.

`CHECK_DEADLOCK FALSE` is set where the system may stop: the `JobQueue` runs
(the deadlock under study) and the `VMShim` runs, whose clients each ask once.

## 4. What is proved

`JobQueueProofs`, for any finite set of workers, any capacity and any number of jobs:

* `JobsConserved`: `Spec => []Conservation`. The inductive invariant is the types
  with `Conservation`; each action moves one job from one place to the next, and
  the cardinality lemmas of the library count the workers.
* `StuckBound`: `Spec => []StuckOnlyAtBound`, from `Conservation` and the types:
  full channels and busy workers leave no other number.
* `FewJobsNeverStuck`: if `Limit` is at most `Bound`, `Spec => []NeverStuck`. It
  needs that what is outstanding and what is still to queue never exceed
  `Limit`, which is part of the invariant.

* `TypeCorrect`: `Spec => []TypeOK`.

`ImageRepositoryProofs`, for any finite sets of names and workers, any set of
capacities and any bounds:

* `TypeCorrect`: `Spec => []TypeOK`.
* `FinishFindsItsFile`: `Spec => []JobsMapped`: a creation whose entry is still
  in `files` finds it there, so that `Finish` never writes to a dropped entry.

The inductive invariant `IndInv` adds to `TypeOK`: `JobsMapped`; `RanHold`, that
a worker past `Process` still holds its job (else `HandOver` would queue nil);
and `NoJobsYet`, that a daemon which has not loaded its files has no jobs (else
loading them could drop an entry a job still points to). There is one lemma per
action, on lemmas about updates of objects, sequences and jobs. Assumed are only
`ConstantsAssumption`, `NilAssumption` and `QueueAssumption`, which TLC
evaluates in every run of the modules.

`RepositorySafetyProofs`, on top of it and for the same constants:

* `HeldVolumesExist`: `Spec => []HeldVolumeSafe`.
* `DeletesOnce`: `Spec => []DeleteOnce`.
* `LoadsHaveConnection`: `Spec => []PoolHasConnection`.
* `KeepsPromise`: `Spec => IsVolumes`, the refinement of `Volumes`.

None of the three invariants is inductive. That no volume in use has a deletion
on its way depends on what will be in use when a creation is finished, on what
a reload finds of the jobs of the connection before, and on how a pool comes to
the main loop. `SafeInv` has four parts. `LinkInv`: a connection has one load, which
is over before its pool is there. `LiveInv`: without a pool that works, no handle
and no job works; so a reload, which may queue anything, starts from nothing.
`VolInv`: of a volume there is at most one deletion, queued or running, and none if
it is used or a creation on its way will use it; a volume in use, or made by a
creation on its way, exists. `PlainInv`: a deletion is the job of no file. The panic
of `UnsetPool` is where `LinkInv` needs the code.

`RepositorySpecsProofs`, on the API and the watch, for the same constants:

* `KeepsUserSpecs`, `Spec => DaemonKeepsSpecs`, from `SpecInv`: any copy and any
  event of the current version of an object has its current spec. A PUT that is
  accepted was made from such a copy.
* `ViewIsRight`, `Spec => []ViewAgrees`. That the view is right when no event is left
  says nothing of the queue before. `ViewInv` says what the events of one file, its
  object and its entry in `r.files` have to do with each other at any time: an
  object that is told of is there or its end is told (`Told`); it does not begin anew
  before (`Parted`); the last event is the object as it is (`LastTells`); an object
  is in `r.files` or will come, and nothing else is in it for good (`Known`, `Leaves`);
  an ADDED that is ignored is no news (`Newer`); without events the spec is right
  (`Settled`). The list that `Run` takes after the watch is open tells files twice,
  and `Newer` is why that does no harm.

`RepositorySafetyProofs` goes on to what the objects say of the volumes:

* `ShownVolumesExist`: `AvailableExists` holds if users wait for an idle daemon
  (`Manners = "idle"`) and no file has changed repositories.
* `IdleVolumesMatch`: `VolumesMatch` holds if users wait, no watch has ended and no
  file has changed repositories.
* `PoolIsComing`: while the connection works and no call has failed, the pool is
  there or its only load is under way: a part of `Recovers` that needs no fairness.

None of these hypotheses can be dropped: TLC finds `VolumesMatch` violated with any
one of them less (`RepoReorder` is the case of users who do not wait), and
`AvailableExists` when users do not wait or a file moves away and comes back. They
are the hypotheses of the run `RepoIdle`, in which `Moves` and `WatchEOFs` are 0; the
theorems also cover behaviours in which such faults are still to come.
`ShowInv` follows the claim "Available" through every copy: the object, the
daemon's copy of it and the events on their way may say so, of the current
version, only if the volume is there and no deletion of it is. `MatchInv` does the
same for the jobs, with the jobs whose libvirt call is still to come apart
(`Fresh`): what the watch has still to tell (`Heard`), that no job works against
it (`Asked`), and that with a pool there is a job for each volume too many or too
few (`Cared`). The last has a part nobody wrote down: a creation of the connection
before, which will report a failure, must not be taken for the creation of this
one. Both were checked by TLC as invariants of small instances before they were
proved.

`VolumeStreamProofs`, for any sets of files and requests, any size and any bound:

* `TypeCorrect`, `StreamsClosed` (`StreamsEnd`), `TransfersFindVolumes`
  (`GrantedExists`), `OkIsSaved` (`OkSaved`).

Its `IndInv`: `PlaceInv`, what a request has at each place; `ChannelInv`, that it is
in its channel once while it waits; `HandleInv`, the promise of `Volumes` as an
invariant; `WroteInv`, what an upload has written is in the volume or overwritten
by a rival; `RivalInv`, two open uploads of one file know of each other.

* `WaitersInChannel`: a request that waits is in the channel the main loop reads, the
  part of `Served` that needs no fairness.
* `VolumesArePromised`, `Spec => Repository!Spec`: files and volumes change only as
  `Volumes` lets them; with `KeepsPromise` the repository and the streams agree on
  their interface from both sides.

`RepoStatusProofs`, for any daemons, any types they register and read, any bounds:

* `TypeCorrect`; `TypesRegistered` (`Registered`); `PoolIsOfConnection`
  (`PoolOfConnection`); `KeepsEdits`, `Spec => EditsKept`: the repository never takes
  an edit of its own object back (in no run, as the proof covers it).
* `PoolIsComing`: while the connection works the pool is there or a load of it stands,
  unless a load has failed or the name has a dot. It needs that nobody makes the
  pool between a lookup that does not find it and its creation (`CreateFree`).

The invariant: `Progress`, the types a daemon has behind it are registered or
read; `LoadsTaken`, a daemon with a pool or without a connection waits for no
load; `CopyRight`, a copy of the current version has every edit.

`VMShimProofs`, for any clients, machines, hardware and bounds:

* `TypeCorrect`; `GuestsKept` (`GuestKept`); `KeepsSpecs` (`ShimKeepsSpecs`);
  `GuestsIsolated` (`Isolated`); `GuestsSound` (`GuestSound`).
* `HardwareShown`: `Spec => []ShownHardware` if no two clients share a machine, the
  hypothesis without which `ShimShared` refutes it.

The invariant says where goroutines and guests may be (`Unasked`, `Running`,
`Guarded`), that a guest is of the hardware its goroutine designed (`Designed`), and
that copies are never newer than objects and, when as new, have their spec
(`Versions`).

* `DesignerDecides`, of `Designer`, for any hardware with any number of disks: the
  designer comes to some outcome; a domain is possible exactly if the hardware is
  `Sound`, is booted from firmware and has memory; and there is no panic if it is
  `Safe`. The first part takes the first disk that cannot be set, which exists as
  the naturals are well-founded.

`HardwareAssumption` gives hardware its type and `ClientsAssumption` each client a
machine.

`NodeInfoProofs`, for any set of connections and any bounds:

* `ReferencesRight`: `Spec => []RefsCounted`.
* `ImplementsLink`: `Spec => IsLink`, the refinement of `Link`. In
  `RepositorySafetyProofs`, `VolumeStreamProofs`, `RepoStatusProofs` and `VMShimProofs`
  it has a counterpart, `ConnectionIsLink`, for the connection of the daemon.
* `ConnectionIsComing`: without a connection there is always a connector at work or a
  "ready" in the channel, the part of `Reconnects` that needs no fairness.
* `KeepsEdits`: `Spec => EditsKept`.
* `TypeCorrect`: `Spec => []TypeOK`.

The inductive invariant of the connector, `ConnInv`, says how its threads hand
over to each other. `OneSource`: one connector that dials or registers, or one
close callback still to come, is all that will bring the next connection.
`OneOwner`: a connection belongs to its connector, then to its event, then to the
main loop, never to two. `Lazily`: the callback runs once, on a dead connection.
`InOrder`: what the event in the channel says of the others; in particular, if
"failed" has been sent before "ready" the main loop has no connection, so that
taking it ends the process. The steps of the service are steps of the connector
or leave it alone (`NextIsConnStep`), so the invariant is proved once, one lemma
per step of the connector. `KeepsEdits` rests on `CopyCurrent`: a copy of the
current version has every edit of the users.

Assumed are, besides those named, `ConnsAssumption` and `BoundsAssumption` here
and in the other modules the assumptions on their constants (`ConstantsAssumption`,
`NilAssumption`, `QueueAssumption`, `DaemonsAssumption`, `RepoAssumption`), which
say that sets are finite where they are counted, bounds are naturals and model
values differ. TLC evaluates all of them in the runs.

Every safety invariant and every action property that a passing run checks is the
subject of a theorem. Only model-checked are the liveness properties (fairness and
ENABLED are out of the prover's reach): `Recovers`, `Converges`, `Served`, `Starts`,
`LossShown`, `Settles`, `RespondsIfFits`, `FinishedIfFits`, `Stopped`, `Reconnects` and
`Current`. Of four of them the safety half is proved: that there always is something
whose turn, once it comes, brings the promised state nearer (`PoolIsComing` twice,
`WaitersInChannel`, `ConnectionIsComing`). What the failing runs refute is of course not proved.

## 5. Not modelled

* **What libvirt holds of a connection.** `connectReady` gives its own reference
  away after it has asked for the pool (`service.go:131`); that the connection stays
  open is up to the references libvirt's objects hold, which is not in the
  repository.
* **CRI service.** Its methods return "not implemented"; there is no state.
* **Resource partition.** Parses a file of `/proc`: pure input.
* **Commands.** Flags and wiring. That a daemon exits on an error and is started
  again by its controller is in the models.
* **Scheduler extender.** Named by the documentation; there is no code.
* **`Post` and `Delete` of the API client.** Nothing calls them.
* **Secrets.** Their content and UUIDs; that reading one fails is an outcome of
  `Designer`.
* **The status of a machine or node whose daemon has stopped.** Nothing writes it
  and no document says what it should show.
* **Physical sizes** in the status of files and repositories: values libvirt
  reports, on which nothing depends.

An abstraction a reader may want to revisit: that the job queue of
`ImageRepository` is the one of `JobQueue`, with channels of any capacity, is not
stated as a refinement.
