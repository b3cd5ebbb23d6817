------------------------------ MODULE JobQueue ------------------------------
(***************************************************************************)
(* The goroutines and channels of an image repository: the main loop       *)
(* queues jobs on r.pendingJobs, the workers run them and send them back   *)
(* on r.completedJobs, and the main loop, which does nothing else while it *)
(* waits to send, drains that channel when it refreshes.  Both channels    *)
(* hold at most Cap jobs, 100 in the code; ImageRepository, which is about *)
(* what the jobs do, leaves this bound out.                                *)
(***************************************************************************)
EXTENDS Integers, FiniteSets

CONSTANTS
  Workers,  \* the job workers of the repository
  Cap,      \* capacity of r.pendingJobs and of r.completedJobs
  Limit,    \* most jobs ever outstanding: those of all files and leftover volumes
  MaxJobs   \* bound: jobs queued in a behaviour

ASSUME QueueAssumption ==
  /\ IsFiniteSet(Workers)
  /\ Cap \in Nat /\ Limit \in Nat /\ MaxJobs \in Nat

VARIABLES
  main,       \* the main loop: select, push (queueing jobs), drain (in Refresh)
  todo,       \* jobs its handler has still to queue
  pending,    \* jobs in r.pendingJobs
  busy,       \* workers in Process
  handing,    \* workers sending their job back
  completed,  \* jobs in r.completedJobs
  issued,     \* jobs queued so far
  finished    \* jobs finished so far

vars == <<main, todo, pending, busy, handing, completed, issued, finished>>

Outstanding == issued - finished

Init ==
  /\ main = "select" /\ todo = 0
  /\ pending = 0 /\ completed = 0
  /\ busy = {} /\ handing = {}
  /\ issued = 0 /\ finished = 0

-----------------------------------------------------------------------------
(* A handler that queues k jobs: 1 for an event of the file monitor, any   *)
(* number when loadVolumes compares the pool with the files.               *)
StartHandler ==
  /\ main = "select"
  /\ \E k \in 1..Limit :
       /\ Outstanding + k <= Limit
       /\ issued + k <= MaxJobs
       /\ todo' = k
  /\ main' = "push"
  /\ UNCHANGED <<pending, busy, handing, completed, issued, finished>>

Room_OneMore(n) == n <= Cap     \* mutant: a channel that is full takes one job more
Room_OneLess(n) == n + 1 < Cap  \* mutant: a channel is made for one job less
Room(n)         == n < Cap      \* a send on a channel with n jobs does not wait

Push ==
  /\ main = "push" /\ Room(pending)
  /\ pending' = pending + 1
  /\ issued' = issued + 1
  /\ todo' = todo - 1
  /\ main' = IF todo = 1 THEN "select" ELSE "push"
  /\ UNCHANGED <<busy, handing, completed, finished>>

(* The loop of jobWorker.                                                  *)
Take(w) ==
  /\ w \notin busy \union handing /\ pending > 0
  /\ pending' = pending - 1
  /\ busy' = busy \union {w}
  /\ UNCHANGED <<main, todo, handing, completed, issued, finished>>

Process_Drops(w) ==             \* mutant: a job that fails is not sent back
  /\ w \in busy
  /\ busy' = busy \ {w}
  /\ handing' \in {handing, handing \union {w}}
  /\ UNCHANGED <<main, todo, pending, completed, issued, finished>>

Process(w) ==
  /\ w \in busy
  /\ busy' = busy \ {w}
  /\ handing' = handing \union {w}
  /\ UNCHANGED <<main, todo, pending, completed, issued, finished>>

HandOver(w) ==
  /\ w \in handing /\ Room(completed)
  /\ handing' = handing \ {w}
  /\ completed' = completed + 1
  /\ UNCHANGED <<main, todo, pending, busy, issued, finished>>

(* The loop at the start of Refresh: finish what has arrived, do not wait. *)
StartRefresh ==
  /\ main = "select"
  /\ main' = "drain"
  /\ UNCHANGED <<todo, pending, busy, handing, completed, issued, finished>>

Finish ==
  /\ main = "drain" /\ completed > 0
  /\ completed' = completed - 1
  /\ finished' = finished + 1
  /\ UNCHANGED <<main, todo, pending, busy, handing, issued>>

EndRefresh_Waits ==             \* mutant: the select that receives has no default case
  main = "drain" /\ completed = 0 /\ UNCHANGED vars

EndRefresh ==
  /\ main = "drain" /\ completed = 0
  /\ main' = "select"
  /\ UNCHANGED <<todo, pending, busy, handing, completed, issued, finished>>

Next ==
  \/ StartHandler \/ Push \/ StartRefresh \/ Finish \/ EndRefresh
  \/ \E w \in Workers : Take(w) \/ Process(w) \/ HandOver(w)

(* The ticker and the file monitor share a select, which is fair; a        *)
(* libvirt call returns; and nobody queues for ever behind other workers.  *)
Fairness ==
  /\ SF_vars(StartRefresh)
  /\ WF_vars(Push) /\ WF_vars(Finish) /\ WF_vars(EndRefresh)
  /\ \A w \in Workers : WF_vars(Take(w)) /\ WF_vars(Process(w)) /\ WF_vars(HandOver(w))

Spec     == Init /\ [][Next]_vars
FairSpec == Spec /\ Fairness

-----------------------------------------------------------------------------
(* The channels never hold more than their capacity, and a worker has at   *)
(* most one job.                                                           *)
TypeOK ==
  /\ main \in {"select", "push", "drain"}
  /\ todo \in Nat /\ (main = "push" <=> todo > 0)
  /\ pending \in 0..Cap /\ completed \in 0..Cap
  /\ busy \subseteq Workers /\ handing \subseteq Workers /\ busy \intersect handing = {}
  /\ issued \in Nat /\ finished \in Nat

(* No job is lost or finished twice between Push and Finish: the ones that *)
(* are outstanding are in a channel or with a worker.                      *)
Conservation ==
  Outstanding = pending + Cardinality(busy) + Cardinality(handing) + completed

(* Everyone waits: the main loop for room in r.pendingJobs, the workers    *)
(* for room in r.completedJobs, which only the main loop makes.            *)
Stuck ==
  /\ main = "push" /\ ~Room(pending)
  /\ handing = Workers /\ ~Room(completed)

NeverStuck == ~Stuck

(* As many jobs as the channels and the workers can hold may be            *)
(* outstanding; the handler that needs one more never returns.             *)
Bound == 2 * Cap + Cardinality(Workers)
StuckOnlyAtBound == Stuck => Outstanding = Bound /\ todo > 0

(* The main loop always comes back to its select: it answers connection    *)
(* events, uploads and downloads, and finishes what the workers did.       *)
Responds == []<>(main = "select")

(* What may ever be outstanding fits in the channels and the workers.      *)
Fits == Outstanding + todo <= Bound

(* It does come back when all the jobs fit,                                *)
RespondsIfFits == []Fits => Responds

(* and then every job that was queued is finished in the end.              *)
FinishedIfFits == []Fits => <>[](Outstanding = 0)

=============================================================================
