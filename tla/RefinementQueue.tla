-------------------------- MODULE RefinementQueue --------------------------
(***************************************************************************)
(* The refinement queue of app/api/services/refinement_queue.py: finalized *)
(* segments are refined by a language model in the background, one at a    *)
(* time, and only the newest segment of a session is worth refining.       *)
(*                                                                         *)
(* Four kinds of threads meet in it: the callers of enqueue, a             *)
(* threading.Timer per enqueued segment (the debounce), the one worker of  *)
(* the executor, and the caller of shutdown.  The body of each "with       *)
(* self._lock" is one action.  A segment is named by its place in the      *)
(* order in which its session's segments were enqueued.                    *)
(***************************************************************************)
EXTENDS Naturals, Sequences

CONSTANTS Sessions,
          MaxSegments   \* bound: segments enqueued for one session

ASSUME RefinementAssumption == MaxSegments \in Nat

VARIABLES
  jobs,       \* self._jobs: revision and segment, revision 0 without a job
  timer,      \* the Timer of each segment
  rev,        \* the revision each Timer was created with
  execQ,      \* work items of the executor: session and revision
  wpc, item,  \* the worker threads and their work items
  snap,       \* the segment _run_job copied out of the job
  down,       \* how far shutdown() has gone
  enq,        \* segments enqueued so far, by session
  shown       \* the last segment whose refine_final event was published

vars == <<jobs, timer, rev, execQ, wpc, item, snap, down, enq, shown>>

\* Variant of Pool: a second worker.
PoolOfTwo == {"refiner_0", "refiner_1"}

\* ThreadPoolExecutor(max_workers=1)
Pool == {"refiner_0"}

Segments == 1 .. MaxSegments
NoJob == [rev |-> 0, seg |-> 0]
\* The arguments of _run_job.
WorkItem == [s : Sessions, rev : 0 .. MaxSegments]

Init ==
  /\ jobs = [s \in Sessions |-> NoJob]
  /\ timer = [s \in Sessions |-> [n \in Segments |-> "none"]]
  /\ rev = [s \in Sessions |-> [n \in Segments |-> 0]]
  /\ execQ = <<>>
  /\ wpc = [w \in Pool |-> "idle"]
  /\ \E s \in Sessions : item = [w \in Pool |-> [s |-> s, rev |-> 0]]
  /\ snap = [w \in Pool |-> 0]
  /\ down = "no"
  /\ enq = [s \in Sessions |-> 0]
  /\ shown = [s \in Sessions |-> 0]

\* Timer.cancel() stops a timer that still waits, and no other.
Cancelled(t) == IF t = "waiting" THEN "cancelled" ELSE t

\* Variant of Enqueue: the timer is given the revision after the job's.
EnqueueTimerAhead(s) ==
  LET n == enq[s] + 1
  IN /\ down = "no"
     /\ n \in Segments
     /\ enq' = [enq EXCEPT ![s] = n]
     /\ jobs' = [jobs EXCEPT ![s] = [rev |-> jobs[s].rev + 1, seg |-> n]]
     /\ rev' = [rev EXCEPT ![s][n] = jobs[s].rev + 2]
     /\ timer' = [timer EXCEPT ![s][n] = "waiting"]
     /\ UNCHANGED <<execQ, wpc, item, snap, down, shown>>

\* Variant of Enqueue: the pending timer is kept, for the new revision it is no
\* longer started.
EnqueueOnOldTimer(s) ==
  LET n == enq[s] + 1
  IN /\ down = "no"
     /\ n \in Segments
     /\ enq' = [enq EXCEPT ![s] = n]
     /\ jobs' = [jobs EXCEPT ![s] = [rev |-> jobs[s].rev + 1, seg |-> n]]
     /\ rev' = [rev EXCEPT ![s][n] = jobs[s].rev + 1]
     /\ timer' = [timer EXCEPT ![s][n] = IF jobs[s].rev = 0 THEN "waiting" ELSE "none"]
     /\ UNCHANGED <<execQ, wpc, item, snap, down, shown>>

\* enqueue(): the new segment takes the place of the job there may be.  Nobody
\* enqueues after shutdown().
Enqueue(s) ==
  LET n == enq[s] + 1
      cancelled == [k \in Segments |-> IF jobs[s].rev # 0 /\ k = jobs[s].seg
                                       THEN Cancelled(timer[s][k]) ELSE timer[s][k]]
  IN /\ down = "no"
     /\ n \in Segments
     /\ enq' = [enq EXCEPT ![s] = n]
     /\ jobs' = [jobs EXCEPT ![s] = [rev |-> jobs[s].rev + 1, seg |-> n]]
     /\ rev' = [rev EXCEPT ![s][n] = jobs[s].rev + 1]
     /\ timer' = [timer EXCEPT ![s] = [cancelled EXCEPT ![n] = "waiting"]]
     /\ UNCHANGED <<execQ, wpc, item, snap, down, shown>>

-----------------------------------------------------------------------------
(* Timers *)

\* The debounce interval is over.  Between this and the call of submit() the
\* timer can no longer be cancelled.
TimerFires(s, n) ==
  /\ timer[s][n] = "waiting"
  /\ timer' = [timer EXCEPT ![s][n] = "fired"]
  /\ UNCHANGED <<jobs, rev, execQ, wpc, item, snap, down, enq, shown>>

\* submit() raises in the timer's thread once the executor is shut down.
TimerSubmits(s, n) ==
  /\ timer[s][n] = "fired"
  /\ timer' = [timer EXCEPT ![s][n] = "over"]
  /\ execQ' = IF down = "yes" THEN execQ ELSE Append(execQ, [s |-> s, rev |-> rev[s][n]])
  /\ UNCHANGED <<jobs, rev, wpc, item, snap, down, enq, shown>>

-----------------------------------------------------------------------------
(* The workers of the executor run _run_job *)

WorkerTakes(w) ==
  /\ wpc[w] = "idle"
  /\ execQ # <<>>
  /\ item' = [item EXCEPT ![w] = Head(execQ)]
  /\ execQ' = Tail(execQ)
  /\ wpc' = [wpc EXCEPT ![w] = "check"]
  /\ UNCHANGED <<jobs, timer, rev, snap, down, enq, shown>>

\* Variant of Current: any job of the session will do.
CurrentAny(i) == jobs[i.s].rev # 0

\* job is not None and job["revision"] == revision
Current(i) == jobs[i.s].rev # 0 /\ jobs[i.s].rev = i.rev

WorkerChecks(w) ==
  /\ wpc[w] = "check"
  /\ IF Current(item[w])
     THEN /\ wpc' = [wpc EXCEPT ![w] = "refine"]
          /\ snap' = [snap EXCEPT ![w] = jobs[item[w].s].seg]
     ELSE /\ wpc' = [wpc EXCEPT ![w] = "idle"]
          /\ snap' = snap
  /\ UNCHANGED <<jobs, timer, rev, execQ, item, down, enq, shown>>

\* The model runs without the lock and never raises; its text is new, or not.
WorkerRefines(w) ==
  /\ wpc[w] = "refine"
  /\ \E outcome \in {"changed", "same"} : wpc' = [wpc EXCEPT ![w] = outcome]
  /\ UNCHANGED <<jobs, timer, rev, execQ, item, snap, down, enq, shown>>

WorkerRechecks(w) ==
  /\ wpc[w] \in {"changed", "same"}
  /\ wpc' = [wpc EXCEPT ![w] = IF Current(item[w]) /\ @ = "changed" THEN "publish" ELSE "idle"]
  /\ jobs' = IF Current(item[w]) THEN [jobs EXCEPT ![item[w].s] = NoJob] ELSE jobs
  /\ UNCHANGED <<timer, rev, execQ, item, snap, down, enq, shown>>

\* The event is published after the lock is released.
WorkerPublishes(w) ==
  /\ wpc[w] = "publish"
  /\ shown' = [shown EXCEPT ![item[w].s] = snap[w]]
  /\ wpc' = [wpc EXCEPT ![w] = "idle"]
  /\ UNCHANGED <<jobs, timer, rev, execQ, item, snap, down, enq>>

-----------------------------------------------------------------------------
(* shutdown() *)

\* Variant of ShutdownClears: the timers are cancelled, the jobs stay.
ShutdownCancelsTimers ==
  /\ down = "no"
  /\ down' = "cleared"
  /\ timer' = [s \in Sessions |-> [n \in Segments |-> Cancelled(timer[s][n])]]
  /\ UNCHANGED <<jobs, rev, execQ, wpc, item, snap, enq, shown>>

ShutdownClears ==
  /\ down = "no"
  /\ down' = "cleared"
  /\ timer' = [s \in Sessions |-> [n \in Segments |->
                 IF jobs[s].rev # 0 /\ n = jobs[s].seg THEN Cancelled(timer[s][n])
                                                       ELSE timer[s][n]]]
  /\ jobs' = [s \in Sessions |-> NoJob]
  /\ UNCHANGED <<rev, execQ, wpc, item, snap, enq, shown>>

\* executor.shutdown(wait=False, cancel_futures=True)
ShutdownExecutor ==
  /\ down = "cleared"
  /\ down' = "yes"
  /\ execQ' = <<>>
  /\ UNCHANGED <<jobs, timer, rev, wpc, item, snap, enq, shown>>

Timers == \E s \in Sessions, n \in Segments : TimerFires(s, n) \/ TimerSubmits(s, n)
Work(w) ==
  \/ WorkerTakes(w)
  \/ WorkerChecks(w)
  \/ WorkerRefines(w)
  \/ WorkerRechecks(w)
  \/ WorkerPublishes(w)

Next ==
  \/ \E s \in Sessions : Enqueue(s)
  \/ Timers
  \/ \E w \in Pool : Work(w)
  \/ ShutdownClears
  \/ ShutdownExecutor

Spec == Init /\ [][Next]_vars

\* Timers and the executor's workers run; the callers need not call.
FairSpec == Spec /\ WF_vars(Timers) /\ \A w \in Pool : WF_vars(Work(w))

-----------------------------------------------------------------------------
(* Properties *)

\* Every variable has its type.
TypeOK ==
  /\ jobs \in [Sessions -> [rev : 0 .. MaxSegments, seg : 0 .. MaxSegments]]
  /\ timer \in [Sessions -> [Segments -> {"none", "waiting", "cancelled", "fired", "over"}]]
  /\ rev \in [Sessions -> [Segments -> 0 .. MaxSegments]]
  /\ execQ \in Seq(WorkItem)
  /\ wpc \in [Pool -> {"idle", "check", "refine", "changed", "same", "publish"}]
  /\ item \in [Pool -> WorkItem]
  /\ snap \in [Pool -> 0 .. MaxSegments]
  /\ down \in {"no", "cleared", "yes"}
  /\ enq \in [Sessions -> 0 .. MaxSegments]
  /\ shown \in [Sessions -> 0 .. MaxSegments]

\* Revisions start at 1 again once a job is done, so a late timer of an older
\* job may carry the revision of a newer one.  All the same, when _run_job takes
\* a job out of the table to publish its refinement, the text it refined is
\* that of the newest segment of the session.
TakesNewest ==
  [][\A w \in Pool :
       wpc[w] \in {"changed", "same"} /\ wpc'[w] # wpc[w] /\ jobs' # jobs
       => snap[w] = enq[item[w].s]]_vars

\* Refinements of a session are published in the order of its segments, and none
\* twice, although publishing happens after the lock is released.
ShownInOrder ==
  [][\A s \in Sessions : shown'[s] # shown[s] => shown'[s] > shown[s]]_vars

\* A job is never left behind: a timer that will submit it, a queued work item or
\* the worker is still to deal with it.  The queue has no other way to find it.
Waiting(s) ==
  \/ timer[s][jobs[s].seg] \in {"waiting", "fired"}
  \/ \E i \in 1 .. Len(execQ) : execQ[i] = [s |-> s, rev |-> jobs[s].rev]
  \/ \E w \in Pool : /\ wpc[w] \in {"check", "refine", "changed", "same"}
                     /\ item[w] = [s |-> s, rev |-> jobs[s].rev]
JobIsScheduled == \A s \in Sessions : jobs[s].rev # 0 => Waiting(s)

\* The table of jobs, the timers and the queue of the worker fit together.
JobsInv == TypeOK /\ JobIsScheduled

\* Once shutdown() has cleared the jobs nothing is refined: the worker may end
\* what it was refining or publishing, and drops everything else.
ShutdownEndsRefining ==
  [][\A w \in Pool :
       down # "no" /\ wpc'[w] \in {"refine", "publish"} => wpc'[w] = wpc[w]]_vars

\* The newest segment of a session is dealt with in the end, by the worker or by
\* shutdown(), and its job leaves the table.
JobsEnd == \A s \in Sessions : jobs[s].rev # 0 ~> jobs[s].rev = 0
=============================================================================
