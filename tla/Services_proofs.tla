--------------------------- MODULE Services_proofs ---------------------------
(***************************************************************************)
(* Theorems about what the sessions hand their work to, for any number of  *)
(* sessions, calls, chunks, samples and settings: the refinement queue,    *)
(* the two engines that decode, the services that work on a text, and the  *)
(* settings file.                                                          *)
(***************************************************************************)
EXTENDS RefinementQueue, StreamingEngine, WhisperTranscriber, TextServices, SettingsFile,
        FiniteSetTheorems, SequenceTheorems, WellFoundedInduction, TLAPS

-----------------------------------------------------------------------------
(* RefinementQueue: what makes revisions that start again at 1 harmless is that the         *)
(* executor has one worker: while it refines, no other thread takes the job of its session *)
(* out of the table, so the revision only grows.                                           *)

Refining(w) == wpc[w] \in {"refine", "changed", "same"}

\* A job holds the newest segment of its session, which is not shown yet, that
\* segment's timer carries the revision of the job, and there were at least as many
\* segments as revisions.
Jobs == \A s \in Sessions :
  /\ shown[s] <= enq[s]
  /\ jobs[s].rev # 0 =>
       /\ down = "no"
       /\ jobs[s].seg = enq[s]
       /\ jobs[s].rev <= enq[s]
       /\ shown[s] < enq[s]
       /\ rev[s][enq[s]] = jobs[s].rev

\* The job the worker refines was not taken out by anyone else: either it is still
\* there, or a later revision is, or shutdown() cleared the table.
Snapshots == \A w \in Pool :
  /\ Refining(w) \/ wpc[w] = "publish" => snap[w] <= enq[item[w].s]
  /\ Refining(w) /\ down = "no" =>
       /\ item[w].rev # 0
       /\ item[w].rev <= jobs[item[w].s].rev
       /\ item[w].rev = jobs[item[w].s].rev => snap[w] = jobs[item[w].s].seg
  /\ wpc[w] = "publish" =>
       /\ shown[item[w].s] < snap[w]
       /\ jobs[item[w].s].rev # 0 => snap[w] < enq[item[w].s]

IInv == TypeOK /\ Jobs /\ Snapshots

\* There is one worker.
LEMMA OneWorker == \A w, v \in Pool : w = v
BY DEF Pool

LEMMA IInvInit == Init => IInv
<1> SUFFICES ASSUME Init PROVE IInv
  OBVIOUS
<1>1. TypeOK
  BY RefinementAssumption DEF Init, TypeOK, NoJob, Segments, WorkItem
<1>2. Jobs
  <2>1. ASSUME NEW s \in Sessions PROVE jobs[s].rev = 0 /\ enq[s] = 0 /\ shown[s] = 0
    BY DEF Init, NoJob
  <2>2. ASSUME NEW s \in Sessions PROVE shown[s] <= enq[s]
    BY <2>1
  <2> QED
    BY <2>1, <2>2 DEF Jobs
<1>3. Snapshots
  BY DEF Init, Snapshots, Refining, Pool
<1> QED
  BY <1>1, <1>2, <1>3 DEF IInv

LEMMA TypeNext == TypeOK /\ Jobs /\ [Next]_vars => TypeOK'
<1> SUFFICES ASSUME TypeOK, Jobs, [Next]_vars PROVE TypeOK'
  OBVIOUS
<1> USE RefinementAssumption DEF TypeOK, Segments
<1>1. ASSUME NEW s \in Sessions, Enqueue(s) PROVE TypeOK'
  <2>1. jobs[s] \in [rev : 0 .. MaxSegments, seg : 0 .. MaxSegments] /\ enq[s] \in 0 .. MaxSegments
    OBVIOUS
  <2>2. enq[s] + 1 \in 1 .. MaxSegments
    BY <1>1 DEF Enqueue
  <2>3. jobs[s].rev = 0 \/ jobs[s].rev <= enq[s]
    BY DEF Jobs
  <2>4. jobs[s].rev + 1 \in 0 .. MaxSegments
    BY <2>1, <2>2, <2>3
  <2>5. timer' \in [Sessions -> [Segments -> {"none", "waiting", "cancelled", "fired", "over"}]]
    BY <1>1 DEF Enqueue, Cancelled
  <2>6. jobs' \in [Sessions -> [rev : 0 .. MaxSegments, seg : 0 .. MaxSegments]]
    BY <1>1, <2>2, <2>4 DEF Enqueue
  <2>7. rev' \in [Sessions -> [Segments -> 0 .. MaxSegments]]
    BY <1>1, <2>4 DEF Enqueue
  <2>8. enq' \in [Sessions -> 0 .. MaxSegments]
    BY <1>1, <2>2 DEF Enqueue
  <2> QED
    BY <1>1, <2>5, <2>6, <2>7, <2>8 DEF Enqueue
<1>2. ASSUME NEW s \in Sessions, NEW n \in Segments, TimerFires(s, n) PROVE TypeOK'
  BY <1>2 DEF TimerFires
<1>3. ASSUME NEW s \in Sessions, NEW n \in Segments, TimerSubmits(s, n) PROVE TypeOK'
  <2>1. [s |-> s, rev |-> rev[s][n]] \in WorkItem
    BY DEF WorkItem
  <2>2. execQ' \in Seq(WorkItem)
    BY <1>3, <2>1, AppendProperties DEF TimerSubmits
  <2> QED
    BY <1>3, <2>2 DEF TimerSubmits
<1>4. ASSUME NEW w \in Pool, WorkerTakes(w) PROVE TypeOK'
  <2>1. Head(execQ) \in WorkItem /\ Tail(execQ) \in Seq(WorkItem)
    BY <1>4, HeadTailProperties DEF WorkerTakes
  <2> QED
    BY <1>4, <2>1 DEF WorkerTakes
<1>5. ASSUME NEW w \in Pool, WorkerChecks(w) PROVE TypeOK'
  BY <1>5 DEF WorkerChecks, WorkItem
<1>6. ASSUME NEW w \in Pool, WorkerRefines(w) PROVE TypeOK'
  BY <1>6 DEF WorkerRefines
<1>7. ASSUME NEW w \in Pool, WorkerRechecks(w) PROVE TypeOK'
  BY SMTT(60), <1>7 DEF WorkerRechecks, NoJob, WorkItem
<1>8. ASSUME NEW w \in Pool, WorkerPublishes(w) PROVE TypeOK'
  BY <1>8 DEF WorkerPublishes, WorkItem
<1>9. CASE ShutdownClears
  BY SMTT(60), <1>9 DEF ShutdownClears, Cancelled, NoJob
<1>10. CASE ShutdownExecutor
  BY <1>10 DEF ShutdownExecutor
<1>11. CASE UNCHANGED vars
  BY <1>11 DEF vars
<1> QED
  BY <1>1, <1>2, <1>3, <1>4, <1>5, <1>6, <1>7, <1>8, <1>9, <1>10, <1>11 DEF Next, Timers, Work

LEMMA JobsNext == IInv /\ [Next]_vars => Jobs'
<1> SUFFICES ASSUME IInv, [Next]_vars PROVE Jobs'
  OBVIOUS
<1> USE RefinementAssumption DEF IInv, TypeOK, Segments
<1>1. ASSUME NEW s \in Sessions, Enqueue(s) PROVE Jobs'
  <2>1. /\ \A t \in Sessions : t # s => enq'[t] = enq[t] /\ jobs'[t] = jobs[t] /\ rev'[t] = rev[t]
        /\ enq'[s] = enq[s] + 1 /\ jobs'[s].rev = jobs[s].rev + 1 /\ jobs'[s].seg = enq[s] + 1
        /\ rev'[s][enq[s] + 1] = jobs[s].rev + 1
        /\ down = "no" /\ UNCHANGED <<down, shown>>
    BY <1>1 DEF Enqueue
  <2>2. enq[s] \in Nat /\ shown[s] \in Nat /\ jobs[s].rev \in Nat
    OBVIOUS
  <2>3. shown[s] <= enq[s] /\ jobs[s].rev <= enq[s]
    BY <2>2 DEF Jobs
  <2>4. ASSUME NEW t \in Sessions, t # s PROVE UNCHANGED <<enq[t], jobs[t], rev[t], shown[t], down>>
    BY <2>1, <2>4
  <2>5. enq'[s] = enq[s] + 1 /\ shown'[s] = shown[s] /\ rev'[s][enq'[s]] = jobs'[s].rev
    BY <2>1
  <2>6. /\ shown'[s] <= enq'[s] /\ shown'[s] < enq'[s]
        /\ jobs'[s].rev <= enq'[s] /\ jobs'[s].seg = enq'[s] /\ down' = "no"
    BY <2>1, <2>2, <2>3, <2>5
  <2> HIDE DEF IInv, TypeOK
  <2>7. Jobs
    BY DEF IInv
  <2> QED
    BY <2>4, <2>5, <2>6, <2>7 DEF Jobs
<1>2. ASSUME NEW w \in Pool, WorkerRechecks(w) PROVE Jobs'
  BY <1>2 DEF WorkerRechecks, Jobs, NoJob, WorkItem
<1>3. ASSUME NEW w \in Pool, WorkerPublishes(w) PROVE Jobs'
  <2>1. item[w].s \in Sessions /\ shown[item[w].s] < snap[w] /\ snap[w] <= enq[item[w].s]
    BY <1>3 DEF WorkerPublishes, Snapshots, WorkItem
  <2> QED
    BY <1>3, <2>1 DEF WorkerPublishes, Jobs, Snapshots
<1>4. CASE ShutdownClears
  BY <1>4 DEF ShutdownClears, Jobs, NoJob
<1>5. CASE ShutdownExecutor
  BY <1>5 DEF ShutdownExecutor, Jobs
<1>6. ASSUME UNCHANGED <<jobs, rev, down, enq, shown>> PROVE Jobs'
  BY <1>6 DEF Jobs
<1>7. CASE \/ \E s \in Sessions, n \in Segments : TimerFires(s, n) \/ TimerSubmits(s, n)
           \/ \E w \in Pool : WorkerTakes(w) \/ WorkerChecks(w) \/ WorkerRefines(w)
           \/ UNCHANGED vars
  BY <1>6, <1>7 DEF TimerFires, TimerSubmits, WorkerTakes, WorkerChecks, WorkerRefines, vars
<1> QED
  BY <1>1, <1>2, <1>3, <1>4, <1>5, <1>7 DEF Next, Timers, Work

LEMMA SnapshotsNext == IInv /\ [Next]_vars => Snapshots'
<1> SUFFICES ASSUME IInv, [Next]_vars PROVE Snapshots'
  OBVIOUS
<1> USE RefinementAssumption DEF IInv, TypeOK, Segments
<1>0. ASSUME NEW w \in Pool PROVE item[w].s \in Sessions /\ item[w].rev \in Nat /\ snap[w] \in Nat
  BY DEF WorkItem
<1>1. ASSUME NEW s \in Sessions, Enqueue(s) PROVE Snapshots'
  <2>1. /\ enq[s] \in Nat /\ jobs[s].rev \in Nat
        /\ \A t \in Sessions : t # s => enq'[t] = enq[t] /\ jobs'[t] = jobs[t]
        /\ enq'[s] = enq[s] + 1 /\ jobs'[s].rev = jobs[s].rev + 1 /\ jobs'[s].seg = enq[s] + 1
        /\ UNCHANGED <<wpc, item, snap, down, shown>>
    BY <1>1 DEF Enqueue
  <2> SUFFICES ASSUME NEW v \in Pool
               PROVE  /\ Refining(v) \/ wpc[v] = "publish" => snap[v] <= enq'[item[v].s]
                      /\ Refining(v) /\ down = "no" =>
                           /\ item[v].rev # 0
                           /\ item[v].rev <= jobs'[item[v].s].rev
                           /\ item[v].rev = jobs'[item[v].s].rev =>
                                snap[v] = jobs'[item[v].s].seg
                      /\ wpc[v] = "publish" =>
                           /\ shown[item[v].s] < snap[v]
                           /\ jobs'[item[v].s].rev # 0 => snap[v] < enq'[item[v].s]
    BY <2>1 DEF Snapshots, Refining
  <2>2. CASE item[v].s = s
    BY SMTT(60), <1>0, <2>1, <2>2 DEF Snapshots
  <2>3. CASE item[v].s # s
    BY <1>0, <2>1, <2>3 DEF Snapshots
  <2> QED
    BY <2>2, <2>3
<1>2. ASSUME NEW w \in Pool, WorkerTakes(w) \/ WorkerPublishes(w) PROVE Snapshots'
  <2>1. \A v \in Pool : wpc'[v] \in {"check", "idle"}
    BY <1>2, OneWorker DEF WorkerTakes, WorkerPublishes
  <2> QED
    BY <2>1 DEF Snapshots, Refining
<1>3. ASSUME NEW w \in Pool, WorkerChecks(w) PROVE Snapshots'
  <2>1. CASE Current(item[w])
    <3>1. /\ wpc'[w] = "refine" /\ snap'[w] = jobs[item[w].s].seg
          /\ UNCHANGED <<jobs, item, down, enq, shown>>
      BY <1>3, <2>1 DEF WorkerChecks
    <3>2. /\ item[w].rev # 0 /\ item[w].rev = jobs[item[w].s].rev
          /\ snap'[w] = enq[item[w].s] /\ enq[item[w].s] \in Nat
      BY <1>0, <2>1, <3>1 DEF Current, Jobs
    <3> SUFFICES ASSUME NEW v \in Pool
                 PROVE  /\ snap'[v] <= enq[item[v].s]
                        /\ item[v].rev # 0
                        /\ item[v].rev <= jobs[item[v].s].rev
                        /\ snap'[v] = jobs[item[v].s].seg
                        /\ wpc'[v] # "publish"
      BY <3>1 DEF Snapshots, Refining
    <3>3. v = w
      BY OneWorker
    <3>4. item[w].rev \in Nat /\ enq[item[w].s] <= enq[item[w].s] /\ item[w].rev <= item[w].rev
      BY <1>0, <3>2
    <3>5. wpc'[w] # "publish"
      BY <3>1
    <3> HIDE DEF IInv, TypeOK
    <3> QED
      BY <3>1, <3>2, <3>3, <3>4, <3>5
  <2>2. CASE ~Current(item[w])
    <3>1. \A v \in Pool : wpc'[v] = "idle"
      BY <1>3, <2>2, OneWorker DEF WorkerChecks
    <3> QED
      BY <3>1 DEF Snapshots, Refining
  <2> QED
    BY <2>1, <2>2
<1>4. ASSUME NEW w \in Pool, WorkerRefines(w) PROVE Snapshots'
  <2>1. /\ wpc[w] = "refine" /\ wpc'[w] \in {"changed", "same"}
        /\ UNCHANGED <<jobs, item, snap, down, enq, shown>>
    BY <1>4 DEF WorkerRefines
  <2> QED
    BY <2>1, OneWorker DEF Snapshots, Refining
<1>5. ASSUME NEW w \in Pool, WorkerRechecks(w) PROVE Snapshots'
  <2>1. CASE Current(item[w]) /\ wpc[w] = "changed"
    <3>1. /\ wpc'[w] = "publish" /\ jobs'[item[w].s].rev = 0
          /\ UNCHANGED <<item, snap, down, enq, shown>>
      BY <1>0, <1>5, <2>1 DEF WorkerRechecks, NoJob
    <3>2. /\ jobs[item[w].s].rev # 0 /\ jobs[item[w].s].rev = item[w].rev
          /\ snap[w] = enq[item[w].s] /\ shown[item[w].s] < snap[w]
      BY <1>0, <2>1 DEF Current, Jobs, Snapshots, Refining
    <3> QED
      BY <1>0, <3>1, <3>2, OneWorker DEF Snapshots, Refining
  <2>2. CASE ~(Current(item[w]) /\ wpc[w] = "changed")
    <3>1. \A v \in Pool : wpc'[v] = "idle"
      BY <1>5, <2>2, OneWorker DEF WorkerRechecks
    <3> QED
      BY <3>1 DEF Snapshots, Refining
  <2> QED
    BY <2>1, <2>2
<1>6. CASE ShutdownClears
  <2>1. /\ down' = "cleared" /\ \A s \in Sessions : jobs'[s].rev = 0
        /\ UNCHANGED <<wpc, item, snap, enq, shown>>
    BY <1>6 DEF ShutdownClears, NoJob
  <2> QED
    BY <1>0, <2>1 DEF Snapshots, Refining
<1>7. ASSUME UNCHANGED <<jobs, wpc, item, snap, enq, shown>>, down' = down \/ down' = "yes"
      PROVE  Snapshots'
  BY <1>7 DEF Snapshots, Refining
<1>8. CASE \/ \E s \in Sessions, n \in Segments : TimerFires(s, n) \/ TimerSubmits(s, n)
           \/ ShutdownExecutor
           \/ UNCHANGED vars
  BY <1>7, <1>8 DEF TimerFires, TimerSubmits, ShutdownExecutor, vars
<1> QED
  BY <1>1, <1>2, <1>3, <1>4, <1>5, <1>6, <1>8 DEF Next, Timers, Work

LEMMA IInvNext == IInv /\ [Next]_vars => IInv'
BY TypeNext, JobsNext, SnapshotsNext DEF IInv

LEMMA AlwaysIInv == Spec => []IInv
BY IInvInit, IInvNext, PTL DEF Spec

\* Every variable of the queue keeps its type: no revision exceeds the number of
\* segments of its session.
THEOREM RefinementTypes == Spec => []TypeOK
<1>1. IInv => TypeOK
  BY DEF IInv
<1> QED
  BY <1>1, AlwaysIInv, PTL

\* The refinement that _run_job decides to publish is that of the newest segment of
\* its session, whatever late timers do.
THEOREM RefinesNewest == Spec => TakesNewest
<1>1. IInv /\ [Next]_vars =>
        [\A w \in Pool : wpc[w] \in {"changed", "same"} /\ wpc'[w] # wpc[w] /\ jobs' # jobs
                         => snap[w] = enq[item[w].s]]_vars
  <2> SUFFICES ASSUME IInv, [Next]_vars, NEW w \in Pool, wpc[w] \in {"changed", "same"},
                      wpc'[w] # wpc[w], jobs' # jobs
               PROVE  snap[w] = enq[item[w].s]
    OBVIOUS
  <2>1. PICK v \in Pool : WorkerRechecks(v)
    BY DEF Next, Enqueue, Timers, TimerFires, TimerSubmits, Work, WorkerTakes, WorkerChecks,
           WorkerRefines, WorkerPublishes, ShutdownClears, ShutdownExecutor, vars
  <2>2. Current(item[w]) /\ item[w].s \in Sessions
    BY <2>1, OneWorker DEF WorkerRechecks, IInv, TypeOK, WorkItem
  <2> QED
    BY <2>2 DEF Current, IInv, Jobs, Snapshots, Refining
<1> QED
  BY <1>1, AlwaysIInv, PTL DEF Spec, TakesNewest

\* Refinements of a session appear in the order of its segments, none twice.
THEOREM RefinesInOrder == Spec => ShownInOrder
<1>1. IInv /\ [Next]_vars =>
        [\A s \in Sessions : shown'[s] # shown[s] => shown'[s] > shown[s]]_vars
  <2> SUFFICES ASSUME IInv, [Next]_vars, NEW s \in Sessions, shown'[s] # shown[s]
               PROVE  shown'[s] > shown[s]
    OBVIOUS
  <2>1. PICK w \in Pool : WorkerPublishes(w)
    BY DEF Next, Enqueue, Timers, TimerFires, TimerSubmits, Work, WorkerTakes, WorkerChecks,
           WorkerRefines, WorkerRechecks, ShutdownClears, ShutdownExecutor, vars
  <2>2. item[w].s = s /\ shown'[s] = snap[w] /\ shown[s] < snap[w]
    BY <2>1 DEF WorkerPublishes, IInv, TypeOK, Snapshots, WorkItem
  <2> QED
    BY <2>2 DEF IInv, TypeOK
<1> QED
  BY <1>1, AlwaysIInv, PTL DEF Spec, ShownInOrder

\* After shutdown() cleared the jobs no refinement begins and none is published that
\* was not about to be.
THEOREM ShutdownIsFinal == Spec => ShutdownEndsRefining
<1>1. IInv /\ [Next]_vars =>
        [\A w \in Pool : down # "no" /\ wpc'[w] \in {"refine", "publish"} => wpc'[w] = wpc[w]]_vars
  <2> SUFFICES ASSUME IInv, [Next]_vars, NEW w \in Pool, down # "no",
                      wpc'[w] \in {"refine", "publish"}, wpc'[w] # wpc[w]
               PROVE  FALSE
    OBVIOUS
  <2>1. item[w].s \in Sessions /\ ~Current(item[w])
    BY DEF IInv, TypeOK, Jobs, Current, WorkItem
  <2>2. PICK v \in Pool : Work(v)
    BY DEF Next, Enqueue, Timers, TimerFires, TimerSubmits, ShutdownClears,
           ShutdownExecutor, vars
  <2>3. v = w /\ wpc \in [Pool -> {"idle", "check", "refine", "changed", "same", "publish"}]
    BY OneWorker DEF IInv, TypeOK
  <2> QED
    BY <2>1, <2>2, <2>3 DEF Work, WorkerTakes, WorkerChecks, WorkerRefines, WorkerRechecks,
                            WorkerPublishes
<1> QED
  BY <1>1, AlwaysIInv, PTL DEF Spec, ShutdownEndsRefining

-----------------------------------------------------------------------------
(* No job is left behind *)

LEMMA ScheduledNext == IInv /\ JobIsScheduled /\ [Next]_vars => JobIsScheduled'
<1> SUFFICES ASSUME IInv, JobIsScheduled, [Next]_vars, NEW s \in Sessions, jobs'[s].rev # 0
             PROVE  Waiting(s)'
  BY DEF JobIsScheduled
<1> USE DEF Segments
<1>0. TypeOK /\ execQ \in Seq(WorkItem)
  BY DEF IInv, TypeOK
<1>1. ASSUME NEW t \in Sessions, Enqueue(t) PROVE Waiting(s)'
  <2>1. CASE t = s
    BY <1>0, <1>1, <2>1 DEF Enqueue, Waiting, TypeOK
  <2>2. CASE t # s
    <3>1. jobs'[s] = jobs[s] /\ timer'[s] = timer[s] /\ Waiting(s)
      BY <1>0, <1>1, <2>2 DEF Enqueue, TypeOK, JobIsScheduled
    <3> QED
      BY <1>1, <3>1 DEF Enqueue, Waiting
  <2> QED
    BY <2>1, <2>2
<1>2. ASSUME NEW t \in Sessions, NEW n \in Segments, TimerFires(t, n) PROVE Waiting(s)'
  <2>1. Waiting(s)
    BY <1>2 DEF TimerFires, JobIsScheduled
  <2> QED
    BY <1>0, <1>2, <2>1 DEF TimerFires, Waiting, TypeOK
<1>3. ASSUME NEW t \in Sessions, NEW n \in Segments, TimerSubmits(t, n) PROVE Waiting(s)'
  <2>1. /\ Waiting(s) /\ down = "no" /\ rev[s][jobs[s].seg] = jobs[s].rev
        /\ UNCHANGED <<jobs, wpc, item>>
    BY <1>3 DEF TimerSubmits, JobIsScheduled, IInv, Jobs
  <2>2. [s |-> t, rev |-> rev[t][n]] \in WorkItem
    BY <1>0, RefinementAssumption DEF TypeOK, WorkItem
  <2>3. /\ execQ' = Append(execQ, [s |-> t, rev |-> rev[t][n]])
        /\ Len(execQ') = Len(execQ) + 1
        /\ \A i \in 1 .. Len(execQ) : execQ'[i] = execQ[i]
        /\ execQ'[Len(execQ) + 1] = [s |-> t, rev |-> rev[t][n]]
    BY <1>0, <1>3, <2>1, <2>2, AppendProperties DEF TimerSubmits
  <2>4. Len(execQ) \in Nat
    BY <1>0
  <2>5. CASE t = s /\ n = jobs[s].seg
    BY <2>1, <2>3, <2>4, <2>5 DEF Waiting
  <2>6. CASE ~(t = s /\ n = jobs[s].seg)
    <3>1. timer'[s][jobs[s].seg] = timer[s][jobs[s].seg]
      BY <1>0, <1>3, <2>6 DEF TimerSubmits, TypeOK
    <3> QED
      BY <2>1, <2>3, <2>4, <3>1 DEF Waiting
  <2> QED
    BY <2>5, <2>6
<1>4. ASSUME NEW w \in Pool, WorkerTakes(w) PROVE Waiting(s)'
  <2>1. Waiting(s) /\ UNCHANGED <<jobs, timer>>
    BY <1>4 DEF WorkerTakes, JobIsScheduled
  <2>2. /\ Len(execQ') = Len(execQ) - 1
        /\ \A i \in 1 .. Len(execQ') : execQ'[i] = execQ[i + 1]
        /\ Head(execQ) = execQ[1] /\ Len(execQ) \in Nat
    BY <1>0, <1>4, HeadTailProperties DEF WorkerTakes
  <2>3. wpc[w] = "idle" /\ wpc'[w] = "check" /\ item'[w] = Head(execQ)
    BY <1>0, <1>4 DEF WorkerTakes, TypeOK
  <2>4. CASE \E i \in 1 .. Len(execQ) : execQ[i] = [s |-> s, rev |-> jobs[s].rev]
    <3>1. PICK i \in 1 .. Len(execQ) : execQ[i] = [s |-> s, rev |-> jobs[s].rev]
      BY <2>4
    <3>2. CASE i = 1
      BY <2>1, <2>2, <2>3, <3>1, <3>2 DEF Waiting
    <3>3. CASE i # 1
      <4>1. i - 1 \in 1 .. Len(execQ') /\ execQ'[i - 1] = [s |-> s, rev |-> jobs[s].rev]
        BY <2>2, <3>1, <3>3
      <4> QED
        BY <2>1, <4>1 DEF Waiting
    <3> QED
      BY <3>2, <3>3
  <2>5. CASE timer[s][jobs[s].seg] \in {"waiting", "fired"}
    BY <2>1, <2>5 DEF Waiting
  <2> QED
    BY <2>1, <2>3, <2>4, <2>5, OneWorker DEF Waiting
<1>5. ASSUME NEW w \in Pool, WorkerChecks(w) \/ WorkerRefines(w) PROVE Waiting(s)'
  <2>1. Waiting(s) /\ UNCHANGED <<jobs, timer, execQ, item>>
    BY <1>5 DEF WorkerChecks, WorkerRefines, JobIsScheduled
  <2>2. item[w] = [s |-> s, rev |-> jobs[s].rev] => Current(item[w])
    BY <2>1 DEF Current
  <2>3. item[w] = [s |-> s, rev |-> jobs[s].rev] => wpc'[w] \in {"refine", "changed", "same"}
    BY <1>0, <1>5, <2>2 DEF WorkerChecks, WorkerRefines, TypeOK
  <2> QED
    BY <2>1, <2>3, OneWorker DEF Waiting
<1>6. ASSUME NEW w \in Pool, WorkerRechecks(w) PROVE Waiting(s)'
  <2>1. jobs'[s] = jobs[s] /\ ~(Current(item[w]) /\ item[w].s = s)
    BY <1>0, <1>6 DEF WorkerRechecks, NoJob, TypeOK
  <2>2. item[w] # [s |-> s, rev |-> jobs[s].rev] /\ Waiting(s)
    BY <2>1 DEF Current, JobIsScheduled
  <2> QED
    BY <1>6, <2>1, <2>2, OneWorker DEF WorkerRechecks, Waiting
<1>7. ASSUME NEW w \in Pool, WorkerPublishes(w) PROVE Waiting(s)'
  <2>1. /\ Waiting(s) /\ wpc[w] = "publish"
        /\ UNCHANGED <<jobs, timer, execQ, item>>
    BY <1>7 DEF WorkerPublishes, JobIsScheduled
  <2> QED
    BY <2>1, OneWorker DEF Waiting
<1>8. CASE ShutdownClears \/ ShutdownExecutor
  BY <1>8 DEF ShutdownClears, ShutdownExecutor, NoJob, IInv, Jobs
<1>9. CASE UNCHANGED vars
  BY <1>9 DEF vars, Waiting, JobIsScheduled
<1> QED
  BY <1>1, <1>2, <1>3, <1>4, <1>5, <1>6, <1>7, <1>8, <1>9 DEF Next, Timers, Work

\* A job in the table always has a timer, a work item or the worker to deal with it.
THEOREM NoJobIsLeft == Spec => []JobIsScheduled
<1>1. Init => JobIsScheduled
  BY DEF Init, NoJob, JobIsScheduled
<1> QED
  BY <1>1, ScheduledNext, AlwaysIInv, PTL DEF Spec

\* The table of jobs, the timers and the worker fit together: no job is left to nobody.
THEOREM JobsAreDealtWith == Spec => []JobsInv
<1>1. TypeOK /\ JobIsScheduled => JobsInv
  BY DEF JobsInv
<1> QED
  BY <1>1, RefinementTypes, NoJobIsLeft, PTL

-----------------------------------------------------------------------------
(* StreamingEngine: what the buffer, the window and the results say of each other.         *)

FinalRecords == [text : Texts, from : Nat, to : Nat, start : Nat, stream : Nat, nth : Nat,
                 how : {"stream", "flush"}]

\* The buffer, and what its times say.
BufferFits ==
  /\ pushed \in 0 .. NPushed /\ bufferFirst \in 1 .. pushed + 1 /\ Buffered <= BufferSize
  /\ bufferStart \in Nat /\ decodedTo \in 0 .. pushed /\ unheard \in Nat /\ untimed \in Nat
  /\ EverySampleIsTaken /\ bufferStart + untimed + 1 = bufferFirst

\* The histories are no longer than the results there were, and so is the beam.
HistoriesFit ==
  /\ partials \in Seq(Texts) /\ Len(partials) <= Stabilization /\ Len(partials) <= said
  /\ latencies \in Seq(Latencies) /\ Len(latencies) <= LatencyHistory /\ Len(latencies) <= said
  /\ said \in Nat /\ BeamFollowsResults

\* The window that is worked on was taken out of the buffer.
WindowIsTaken ==
  generator # "idle" =>
    /\ window.from \in Nat /\ window.to \in Nat /\ window.start \in Nat /\ window.stream \in Nat
    /\ window.start < window.from /\ (untimed = 0 => window.start + 1 = window.from)
    /\ window.to <= decodedTo /\ window.stream <= streams
    /\ window.stream \in {streams} \cup carried

\* Since the i-th final there were only those of flush().
FlushedSince(i) == \A k \in DOMAIN finals : i <= k => finals[k].how = "flush"

\* What is final already comes before it, but for what was flushed since it was taken.
WindowIsNext ==
  generator \in {"decode", "partial"} =>
    \A i \in DOMAIN finals : Follows(finals[i], window) \/ FlushedSince(i)

\* What was made of it.
WindowIsDecoded ==
  /\ generator \in {"partial", "final"} =>
       /\ window.text \in Texts /\ window.confidence \in Confidences /\ window.nth \in Nat
       /\ window.final => window.text \in Complete /\ window.nth >= 2
  /\ generator = "final" =>
       \E i \in DOMAIN finals : /\ finals[i].text = window.text
                                /\ finals[i].stream = window.stream

WindowFits ==
  /\ generator \in {"idle", "decode", "partial", "final"}
  /\ WindowIsTaken /\ WindowIsNext /\ WindowIsDecoded

\* What is final was decoded, in a stream that has begun, and is dated by the buffer.
FinalsFit ==
  /\ finals \in Seq(FinalRecords) /\ FinalsInOrder
  /\ \A i \in DOMAIN finals :
       /\ finals[i].to <= decodedTo /\ finals[i].stream <= streams
       /\ finals[i].start < finals[i].from
       /\ untimed = 0 => finals[i].start + 1 = finals[i].from

ContextFits ==
  /\ trust \in 0 .. Fully /\ streams \in 0 .. NStreamResets /\ carried \subseteq 0 .. streams
  /\ ContextIsOfTheStream

StreamingIInv == BufferFits /\ HistoriesFit /\ WindowFits /\ FinalsFit /\ ContextFits

\* What is kept through every step says what the engine promises.
LEMMA StreamingFits == StreamingIInv => StreamingInv
BY DEF StreamingIInv, StreamingInv, BufferFits, HistoriesFit, WindowFits, FinalsFit, ContextFits,
       StreamTypeOK, TimesLagBehind

\* What is taken of a history keeps it short.
LEMMA LatestFits ==
  ASSUME NEW T, NEW seq \in Seq(T), NEW x \in T, NEW n \in Nat \ {0}, NEW k \in Nat,
         Len(seq) <= n, Len(seq) <= k
  PROVE  /\ Latest(seq, x, n) \in Seq(T) /\ Len(Latest(seq, x, n)) \in Nat
         /\ Len(Latest(seq, x, n)) <= n /\ Len(Latest(seq, x, n)) <= k + 1
<1> DEFINE all == Append(seq, x)
<1>1. all \in Seq(T) /\ Len(all) = Len(seq) + 1 /\ Len(seq) \in Nat /\ all # <<>>
  BY AppendProperties, LenProperties
<1>2. Tail(all) \in Seq(T) /\ Len(Tail(all)) = Len(all) - 1
  BY <1>1, HeadTailProperties
<1> HIDE DEF all
<1>3. Latest(seq, x, n) = IF Len(all) > n THEN Tail(all) ELSE all
  BY DEF Latest, all
<1> QED
  BY <1>1, <1>2, <1>3

\* The beam moves by one, and gets wider from the third result on only.
LEMMA BeamMovesByOne ==
  ASSUME NEW latency, Adapts(latency)
  PROVE  /\ latencies' = Latest(latencies, latency, LatencyHistory)
         /\ \/ beam' = beam
            \/ beam' = beam - 1 /\ beam > MinBeam
            \/ beam' = beam + 1 /\ beam < MaxBeam /\ ~(Len(latencies') < 3)
<1> DEFINE recent == Latest(latencies, latency, LatencyHistory)
           slow == \E i \in DOMAIN recent : 10 * recent[i] > 12 * Target
           fast == 10 * Total(recent) < 6 * Target * Len(recent)
<1>1. /\ latencies' = recent
      /\ beam' = IF Len(recent) < 3 THEN beam
                 ELSE IF slow THEN (IF beam > MinBeam THEN beam - 1 ELSE beam)
                 ELSE IF fast /\ beam < MaxBeam THEN beam + 1 ELSE beam
  BY DEF Adapts
<1> HIDE DEF recent, slow, fast
<1>2. \/ beam' = beam
      \/ beam' = beam - 1 /\ beam > MinBeam
      \/ beam' = beam + 1 /\ beam < MaxBeam /\ ~(Len(recent) < 3)
  BY <1>1
<1> QED
  BY <1>1, <1>2 DEF recent

\* What leaves the buffer undecoded is counted.
LEMMA DropsAreCounted ==
  ASSUME NEW n \in Nat, Drops(n), bufferFirst \in Nat, decodedTo \in Nat, unheard \in Nat,
         untimed \in Nat, bufferStart \in Nat, n >= bufferFirst,
         bufferFirst <= decodedTo + 1 \/ unheard > 0,
         bufferStart + untimed + 1 = bufferFirst
  PROVE  /\ bufferFirst' = n /\ unheard' \in Nat /\ untimed' \in Nat
         /\ n <= decodedTo + 1 \/ unheard' > 0
         /\ bufferStart + untimed' + 1 = n
         /\ untimed' = 0 => untimed = 0
BY DEF Drops

\* Nothing was put in or decoded yet.
LEMMA StreamingBegins == StreamingInit => StreamingIInv
<1> SUFFICES ASSUME StreamingInit PROVE StreamingIInv
  OBVIOUS
<1> USE StreamingAssumption DEF StreamingInit
<1>1. /\ finals \in Seq(FinalRecords) /\ partials \in Seq(Texts) /\ latencies \in Seq(Latencies)
      /\ Len(partials) = 0 /\ Len(latencies) = 0 /\ DOMAIN finals = {}
  <2>1. /\ finals \in Seq(FinalRecords) /\ Len(finals) = 0
    BY EmptySeq
  <2>2. partials \in Seq(Texts) /\ latencies \in Seq(Latencies)
    BY EmptySeq
  <2> QED
    BY <2>1, <2>2, LenProperties
<1>2. BufferFits
  BY DEF BufferFits, Buffered, EverySampleIsTaken
<1>3. HistoriesFit
  BY <1>1 DEF HistoriesFit, BeamFollowsResults
<1>4. WindowFits
  BY DEF WindowFits, WindowIsTaken, WindowIsNext, WindowIsDecoded
<1>5. FinalsFit
  BY <1>1 DEF FinalsFit, FinalsInOrder
<1>6. ContextFits
  <2>1. Fully \in Nat
    BY DEF Fully
  <2>2. trust \in 0 .. Fully /\ streams \in 0 .. NStreamResets
    BY <2>1
  <2>3. carried \subseteq 0 .. streams /\ ContextIsOfTheStream
    BY DEF ContextIsOfTheStream
  <2> QED
    BY <2>2, <2>3 DEF ContextFits
<1> QED
  BY <1>2, <1>3, <1>4, <1>5, <1>6 DEF StreamingIInv

-----------------------------------------------------------------------------
(* A step of the streaming engine, one part of the invariant after the other.              *)

\* What is decoded and what is not dated only grows, and streams are only begun.
Grows ==
  /\ decodedTo' >= decodedTo /\ (untimed' = 0 => untimed = 0) /\ streams' \in {streams, streams + 1}

\* Samples that leave the buffer at once.
LEMMA DropsFit ==
  ASSUME BufferFits, NEW n \in Nat, Drops(n), n >= bufferFirst,
         UNCHANGED <<bufferStart, decodedTo>>,
         NEW p \in Nat, pushed' = p, p >= pushed, p <= NPushed, n <= p + 1,
         p + 1 - n <= BufferSize
  PROVE  BufferFits' /\ (untimed' = 0 => untimed = 0)
<1>1. /\ pushed \in Nat /\ bufferFirst \in Nat /\ bufferStart \in Nat /\ decodedTo \in Nat
      /\ unheard \in Nat /\ untimed \in Nat /\ bufferFirst >= 1 /\ decodedTo <= pushed
      /\ bufferFirst <= decodedTo + 1 \/ unheard > 0
      /\ decodedTo - WindowOverlap < bufferFirst
      /\ bufferStart + untimed + 1 = bufferFirst
      /\ NPushed \in Nat /\ WindowOverlap \in Nat
  BY StreamingAssumption DEF BufferFits, EverySampleIsTaken
<1>2. /\ bufferFirst' = n /\ unheard' \in Nat /\ untimed' \in Nat
      /\ n <= decodedTo + 1 \/ unheard' > 0
      /\ bufferStart + untimed' + 1 = n
      /\ untimed' = 0 => untimed = 0
  BY <1>1, DropsAreCounted
<1>3. /\ p \in 0 .. NPushed /\ n \in 1 .. p + 1
      /\ decodedTo \in 0 .. p
  BY <1>1
<1>4. EverySampleIsTaken'
  BY <1>1, <1>2 DEF EverySampleIsTaken
<1>5. /\ pushed' \in 0 .. NPushed /\ bufferFirst' \in 1 .. pushed' + 1
      /\ decodedTo' \in 0 .. pushed' /\ bufferStart' \in Nat /\ Buffered' <= BufferSize
  BY <1>1, <1>2, <1>3 DEF Buffered
<1> QED
  BY <1>2, <1>4, <1>5 DEF BufferFits

\* The buffer after a step: what is dropped from it is what was decoded, or too much.
LEMMA BufferSteps ==
  ASSUME StreamingIInv, [StreamingNext]_streamVars
  PROVE  BufferFits' /\ Grows
<1> USE StreamingAssumption
<1>0. /\ pushed \in 0 .. NPushed /\ bufferFirst \in 1 .. pushed + 1 /\ Buffered <= BufferSize
      /\ bufferStart \in Nat /\ decodedTo \in 0 .. pushed /\ unheard \in Nat /\ untimed \in Nat
      /\ bufferFirst <= decodedTo + 1 \/ unheard > 0
      /\ decodedTo - WindowOverlap < bufferFirst
      /\ bufferStart + untimed + 1 = bufferFirst
      /\ streams \in Nat /\ BufferFits
  BY DEF StreamingIInv, BufferFits, ContextFits, EverySampleIsTaken
<1>1. CASE PushAudio
  <2>1. PICK n \in Pushes :
          /\ pushed + n <= NPushed /\ pushed' = pushed + n
          /\ IF Buffered + n > BufferSize THEN Drops(pushed' + 1 - BufferSize)
             ELSE UNCHANGED <<bufferFirst, untimed, unheard>>
    BY <1>1 DEF PushAudio
  <2>2. n \in Nat /\ n > 0 /\ pushed' \in pushed .. NPushed
    BY <1>0, <2>1
  <2>3. UNCHANGED <<bufferStart, decodedTo, streams, carried>>
    BY <1>1 DEF PushAudio
  <2>4. CASE Buffered + n > BufferSize
    <3>1. /\ pushed' + 1 - BufferSize \in Nat /\ pushed' + 1 - BufferSize >= bufferFirst
          /\ pushed' + 1 - BufferSize <= pushed' + 1
          /\ pushed' + 1 - (pushed' + 1 - BufferSize) <= BufferSize
      BY <1>0, <2>1, <2>2, <2>4 DEF Buffered
    <3>2. Drops(pushed' + 1 - BufferSize)
      BY <2>1, <2>4
    <3> DEFINE p == pushed'
               m == p + 1 - BufferSize
    <3>3. p \in Nat /\ p >= pushed /\ p <= NPushed /\ BufferFits
      BY <1>0, <2>1, <2>2
    <3>4. /\ m \in Nat /\ m >= bufferFirst /\ m <= p + 1 /\ p + 1 - m <= BufferSize /\ Drops(m)
          /\ pushed' = p
      BY <3>1, <3>2
    <3> HIDE DEF p, m
    <3>5. BufferFits' /\ (untimed' = 0 => untimed = 0)
      BY <2>3, <3>3, <3>4, DropsFit
    <3> QED
      BY <1>0, <2>3, <3>5 DEF Grows
  <2>5. CASE ~(Buffered + n > BufferSize)
    <3>1. UNCHANGED <<bufferFirst, untimed, unheard>>
      BY <2>1, <2>5
    <3>2. BufferFits'
      BY <1>0, <2>1, <2>2, <2>3, <2>5, <3>1 DEF Buffered, BufferFits, EverySampleIsTaken
    <3> QED
      BY <1>0, <2>3, <3>1, <3>2 DEF Grows
  <2> QED
    BY <2>4, <2>5
<1>2. CASE TakeWindow
  <2>1. /\ Buffered >= Window
        /\ bufferFirst' = bufferFirst + Window - WindowOverlap
        /\ bufferStart' = bufferStart + Window - WindowOverlap
        /\ decodedTo' = IF bufferFirst + Window - 1 > decodedTo THEN bufferFirst + Window - 1
                        ELSE decodedTo
        /\ UNCHANGED <<pushed, unheard, untimed, streams, carried>>
    BY <1>2 DEF TakeWindow
  <2>2. BufferFits'
    BY <1>0, <2>1 DEF Buffered, BufferFits, EverySampleIsTaken
  <2> QED
    BY <1>0, <2>1, <2>2 DEF Grows
<1>3. CASE Flush
  <2>1. UNCHANGED <<pushed, bufferStart, streams>>
    BY <1>3 DEF Flush
  <2>2. CASE Drops(pushed + 1) /\ UNCHANGED decodedTo
    <3>1. /\ pushed + 1 \in Nat /\ pushed + 1 >= bufferFirst /\ pushed' \in pushed .. NPushed
          /\ pushed + 1 <= pushed' + 1 /\ pushed' + 1 - (pushed + 1) <= BufferSize
      BY <1>0, <2>1
    <3>2. BufferFits' /\ (untimed' = 0 => untimed = 0)
      BY <1>0, <2>1, <2>2, <3>1, DropsFit
    <3> QED
      BY <1>0, <2>1, <2>2, <3>2 DEF Grows
  <2>3. CASE /\ bufferFirst' = pushed + 1 /\ untimed' = untimed + Buffered
             /\ decodedTo' = pushed /\ UNCHANGED unheard
    <3>1. BufferFits'
      BY <1>0, <2>1, <2>3 DEF Buffered, BufferFits, EverySampleIsTaken
    <3> QED
      BY <1>0, <2>1, <2>3, <3>1 DEF Grows, Buffered
  <2> QED
    BY <1>3, <2>2, <2>3 DEF Flush
<1>4. CASE StreamReset
  <2>1. /\ UNCHANGED <<pushed, bufferStart, decodedTo>> /\ streams' = streams + 1
        /\ Drops(pushed + 1)
    BY <1>4 DEF StreamReset
  <2>2. /\ pushed + 1 \in Nat /\ pushed + 1 >= bufferFirst /\ pushed' \in pushed .. NPushed
        /\ pushed + 1 <= pushed' + 1 /\ pushed' + 1 - (pushed + 1) <= BufferSize
    BY <1>0, <2>1
  <2>3. BufferFits' /\ (untimed' = 0 => untimed = 0)
    BY <1>0, <2>1, <2>2, DropsFit
  <2> QED
    BY <1>0, <2>1, <2>3 DEF Grows
<1>5. CASE UNCHANGED <<bufferVars, streams, carried>>
  BY <1>0, <1>5 DEF bufferVars, BufferFits, Buffered, EverySampleIsTaken, Grows
<1>6. CASE DecodesNothing \/ Decodes \/ YieldsFinal \/ YieldsNoFinal \/ UpdateContext \/ Abandons
  BY <1>5, <1>6 DEF DecodesNothing, Decodes, YieldsFinal, YieldsNoFinal, UpdateContext, Abandons
<1>7. CASE UNCHANGED streamVars
  BY <1>5, <1>7 DEF streamVars
<1> QED
  BY <1>1, <1>2, <1>3, <1>4, <1>6, <1>7 DEF StreamingNext

\* The results that are remembered, and their number, after a step.
LEMMA HistoriesStep ==
  ASSUME StreamingIInv, [StreamingNext]_streamVars
  PROVE  HistoriesFit'
<1> USE StreamingAssumption
<1>0. /\ partials \in Seq(Texts) /\ Len(partials) <= Stabilization /\ Len(partials) <= said
      /\ latencies \in Seq(Latencies) /\ Len(latencies) <= LatencyHistory
      /\ Len(latencies) <= said
      /\ said \in Nat /\ beam \in MinBeam .. MaxBeam
      /\ beam > MinBeam => beam - MinBeam + 2 <= said
  BY DEF StreamingIInv, HistoriesFit, BeamFollowsResults
<1>1. CASE Decodes
  <2>1. PICK text \in Texts, latency \in Latencies :
          /\ Adapts(latency) /\ partials' = Latest(partials, text, Stabilization)
          /\ said' = said + 1
    BY <1>1 DEF Decodes
  <2>2. /\ partials' \in Seq(Texts) /\ Len(partials') <= Stabilization
        /\ Len(partials') <= said + 1
    BY <1>0, <2>1, LatestFits
  <2>3. /\ latencies' = Latest(latencies, latency, LatencyHistory)
        /\ \/ beam' = beam
           \/ beam' = beam - 1 /\ beam > MinBeam
           \/ beam' = beam + 1 /\ beam < MaxBeam /\ ~(Len(latencies') < 3)
    BY <2>1, BeamMovesByOne
  <2>4. LatencyHistory \in Nat \ {0}
    OBVIOUS
  <2>5. /\ latencies' \in Seq(Latencies) /\ Len(latencies') \in Nat
        /\ Len(latencies') <= LatencyHistory /\ Len(latencies') <= said + 1
    BY <1>0, <2>3, <2>4, LatestFits
  <2>6. BeamFollowsResults'
    <3>1. MinBeam \in Nat /\ MaxBeam \in Nat /\ Len(latencies') \in Nat /\ said \in Nat
      BY <1>0, <2>5
    <3>2. /\ beam \in MinBeam .. MaxBeam /\ (beam > MinBeam => beam - MinBeam + 2 <= said)
          /\ Len(latencies') <= said + 1 /\ said' = said + 1
      BY <1>0, <2>1, <2>5
    <3>3. CASE beam' = beam
      BY <3>1, <3>2, <3>3 DEF BeamFollowsResults
    <3>4. CASE beam' = beam - 1 /\ beam > MinBeam
      BY <3>1, <3>2, <3>4 DEF BeamFollowsResults
    <3>5. CASE beam' = beam + 1 /\ beam < MaxBeam /\ ~(Len(latencies') < 3)
      BY <3>1, <3>2, <3>5 DEF BeamFollowsResults
    <3> QED
      BY <2>3, <3>3, <3>4, <3>5
  <2>7. said' \in Nat /\ said' = said + 1
    BY <1>0, <2>1
  <2> QED
    BY <2>2, <2>5, <2>6, <2>7 DEF HistoriesFit
<1>2. CASE StreamReset
  <2>1. partials' = <<>> /\ said' = 0 /\ latencies' = <<>> /\ beam' = MinBeam
    BY <1>2 DEF StreamReset
  <2>2. partials' \in Seq(Texts) /\ latencies' \in Seq(Latencies)
        /\ Len(partials') = 0 /\ Len(latencies') = 0
    BY <2>1, EmptySeq
  <2> QED
    BY <2>1, <2>2 DEF HistoriesFit, BeamFollowsResults
<1>3. CASE UNCHANGED <<resultVars, beamVars>>
  BY <1>0, <1>3 DEF resultVars, beamVars, HistoriesFit, BeamFollowsResults
<1>4. CASE PushAudio \/ TakeWindow \/ DecodesNothing \/ YieldsFinal \/ YieldsNoFinal
           \/ UpdateContext \/ Abandons \/ Flush
  BY <1>3, <1>4 DEF PushAudio, TakeWindow, DecodesNothing, YieldsFinal, YieldsNoFinal,
                    UpdateContext, Abandons, Flush
<1>5. CASE UNCHANGED streamVars
  BY <1>3, <1>5 DEF streamVars
<1> QED
  BY <1>1, <1>2, <1>4, <1>5 DEF StreamingNext

\* What is appended to the finals is one of them, the last.
LEMMA FinalIsAdded ==
  ASSUME finals \in Seq(FinalRecords), NEW f \in FinalRecords, finals' = Append(finals, f)
  PROVE  /\ finals' \in Seq(FinalRecords)
         /\ DOMAIN finals \subseteq DOMAIN finals'
         /\ \A i \in DOMAIN finals : finals'[i] = finals[i]
         /\ \A i \in DOMAIN finals' : i \in DOMAIN finals \/ finals'[i] = f
         /\ \A i, j \in DOMAIN finals' : i < j => i \in DOMAIN finals
         /\ \E i \in DOMAIN finals' : finals'[i] = f
<1>1. /\ finals' \in Seq(FinalRecords) /\ Len(finals) \in Nat
      /\ DOMAIN finals' = 1 .. Len(finals) + 1 /\ DOMAIN finals = 1 .. Len(finals)
      /\ \A i \in 1 .. Len(finals) : finals'[i] = finals[i]
      /\ finals'[Len(finals) + 1] = f
  BY AppendProperties, LenProperties
<1> QED
  BY <1>1

\* A final that comes after all others, and is rightly dated, keeps them in order.
LEMMA AddedFinalFits ==
  ASSUME StreamingIInv, Grows, NEW f \in FinalRecords, finals' = Append(finals, f),
         decodedTo' \in Nat, streams' \in Nat,
         f.to <= decodedTo', f.stream <= streams', f.start < f.from,
         untimed' = 0 => f.start + 1 = f.from,
         f.how = "stream" => f.nth >= 2 /\ f.text \in Complete,
         \A i \in DOMAIN finals : \/ Follows(finals[i], f)
                                  \/ f.how = "stream" /\ FlushedSince(i)
  PROVE  FinalsFit'
<1>0. /\ finals \in Seq(FinalRecords) /\ FinalsInOrder
      /\ decodedTo \in Nat /\ streams \in Nat
      /\ \A i \in DOMAIN finals : /\ finals[i].to <= decodedTo /\ finals[i].stream <= streams
                                  /\ finals[i].start < finals[i].from
                                  /\ untimed = 0 => finals[i].start + 1 = finals[i].from
  BY StreamingAssumption DEF StreamingIInv, FinalsFit, BufferFits, ContextFits
<1>1. /\ finals' \in Seq(FinalRecords)
      /\ DOMAIN finals \subseteq DOMAIN finals'
      /\ \A i \in DOMAIN finals : finals'[i] = finals[i]
      /\ \A i \in DOMAIN finals' : i \in DOMAIN finals \/ finals'[i] = f
      /\ \A i, j \in DOMAIN finals' : i < j => i \in DOMAIN finals
  BY <1>0, FinalIsAdded
<1>2. \A i \in DOMAIN finals : finals[i].to \in Nat /\ finals[i].stream \in Nat
  <2>1. \A i \in DOMAIN finals : finals[i] \in FinalRecords
    BY <1>0, ElementOfSeq, LenProperties
  <2> QED
    BY <2>1 DEF FinalRecords
<1>3. ASSUME NEW i \in DOMAIN finals'
      PROVE  /\ finals'[i].to <= decodedTo' /\ finals'[i].stream <= streams'
             /\ finals'[i].start < finals'[i].from
             /\ untimed' = 0 => finals'[i].start + 1 = finals'[i].from
             /\ finals'[i].how = "stream" => finals'[i].nth >= 2 /\ finals'[i].text \in Complete
  <2>1. CASE i \in DOMAIN finals
    <3>1. finals'[i] = finals[i]
      BY <1>1, <2>1
    <3>2. finals[i].how = "stream" => finals[i].nth >= 2 /\ finals[i].text \in Complete
      BY <1>0, <2>1 DEF FinalsInOrder
    <3>3. finals[i].to <= decodedTo' /\ finals[i].stream <= streams'
      BY <1>0, <1>2, <2>1 DEF Grows
    <3> QED
      BY <1>0, <2>1, <3>1, <3>2, <3>3 DEF Grows
  <2>2. CASE finals'[i] = f
    BY <2>2
  <2> QED
    BY <1>1, <2>1, <2>2
<1>4. ASSUME NEW i \in DOMAIN finals', NEW j \in DOMAIN finals', i < j
      PROVE  \/ Follows(finals'[i], finals'[j])
             \/ /\ finals'[j].how = "stream"
                /\ \A k \in DOMAIN finals' : i <= k /\ k < j => finals'[k].how = "flush"
  <2>1. i \in DOMAIN finals /\ finals'[i] = finals[i]
    BY <1>1, <1>4
  <2>2. \A k \in DOMAIN finals' : k < j => k \in DOMAIN finals /\ finals'[k] = finals[k]
    BY <1>1
  <2>3. CASE j \in DOMAIN finals
    <3>1. finals'[j] = finals[j]
      BY <1>1, <2>3
    <3> QED
      BY <1>0, <1>4, <2>1, <2>2, <2>3, <3>1 DEF FinalsInOrder
  <2>4. CASE finals'[j] = f
    BY <1>4, <2>1, <2>2, <2>4 DEF FlushedSince
  <2> QED
    BY <1>1, <2>3, <2>4
<1> QED
  BY <1>1, <1>3, <1>4 DEF FinalsFit, FinalsInOrder, Follows

\* The numbers of the finals that are there stay below.
LEMMA KeptFinalsFit ==
  ASSUME StreamingIInv, Grows, UNCHANGED finals, decodedTo' \in Nat
  PROVE  FinalsFit'
<1>0. /\ finals \in Seq(FinalRecords) /\ FinalsInOrder
      /\ decodedTo \in Nat /\ streams \in Nat
      /\ \A i \in DOMAIN finals : /\ finals[i].to <= decodedTo /\ finals[i].stream <= streams
                                  /\ finals[i].start < finals[i].from
                                  /\ untimed = 0 => finals[i].start + 1 = finals[i].from
  BY StreamingAssumption DEF StreamingIInv, FinalsFit, BufferFits, ContextFits
<1>1. \A i \in DOMAIN finals : finals[i].to \in Nat /\ finals[i].stream \in Nat
  <2>1. \A i \in DOMAIN finals : finals[i] \in FinalRecords
    BY <1>0, ElementOfSeq, LenProperties
  <2> QED
    BY <2>1 DEF FinalRecords
<1>2. FinalsInOrder'
  BY <1>0 DEF FinalsInOrder, Follows
<1>3. \A i \in DOMAIN finals : finals[i].to <= decodedTo' /\ finals[i].stream <= streams'
  BY <1>0, <1>1 DEF Grows
<1> QED
  BY <1>0, <1>2, <1>3 DEF Grows, FinalsFit

\* The final results after a step, each behind the one before it in its stream.
LEMMA FinalsStep ==
  ASSUME StreamingIInv, [StreamingNext]_streamVars
  PROVE  FinalsFit'
<1>0. /\ decodedTo \in Nat /\ streams \in Nat /\ said \in Nat /\ bufferFirst \in Nat
      /\ pushed \in Nat /\ bufferStart \in Nat /\ untimed \in Nat /\ decodedTo <= pushed
      /\ bufferStart + untimed + 1 = bufferFirst /\ decodedTo - WindowOverlap < bufferFirst
      /\ WindowOverlap \in Nat /\ Complete \subseteq Texts
  BY StreamingAssumption
     DEF StreamingIInv, FinalsFit, BufferFits, ContextFits, HistoriesFit, EverySampleIsTaken
<1>1. Grows /\ decodedTo' \in Nat /\ streams' \in Nat
  <2>1. Grows /\ decodedTo' \in 0 .. pushed' /\ pushed' \in 0 .. NPushed
    BY BufferSteps DEF BufferFits
  <2> QED
    BY <1>0, <2>1 DEF Grows
<1>2. finals \in Seq(FinalRecords)
      /\ \A i \in DOMAIN finals : /\ finals[i].to <= decodedTo /\ finals[i].stream <= streams
                                  /\ finals[i].to \in Nat /\ finals[i].stream \in Nat
  <2>1. finals \in Seq(FinalRecords)
        /\ \A i \in DOMAIN finals : finals[i].to <= decodedTo /\ finals[i].stream <= streams
    BY DEF StreamingIInv, FinalsFit
  <2>2. \A i \in DOMAIN finals : finals[i] \in FinalRecords
    BY <2>1, ElementOfSeq, LenProperties
  <2> QED
    BY <2>1, <2>2 DEF FinalRecords
<1>3. CASE UNCHANGED finals
  BY <1>1, <1>3, KeptFinalsFit
<1>4. CASE YieldsFinal
  <2>1. generator = "partial" /\ window.final /\ finals' = Append(finals, Final(window, "stream"))
        /\ UNCHANGED <<bufferVars, streams>>
    BY <1>4 DEF YieldsFinal
  <2>2. /\ window.from \in Nat /\ window.to \in Nat /\ window.start \in Nat
        /\ window.stream \in Nat /\ window.start < window.from
        /\ (untimed = 0 => window.start + 1 = window.from)
        /\ window.to <= decodedTo /\ window.stream <= streams
        /\ window.text \in Texts /\ window.nth \in Nat
        /\ window.text \in Complete /\ window.nth >= 2
        /\ \A i \in DOMAIN finals : Follows(finals[i], window) \/ FlushedSince(i)
    BY <2>1 DEF StreamingIInv, WindowFits, WindowIsTaken, WindowIsNext, WindowIsDecoded
  <2> DEFINE f == Final(window, "stream")
  <2>3. /\ f \in FinalRecords /\ f.from = window.from /\ f.to = window.to
        /\ f.start = window.start /\ f.stream = window.stream /\ f.nth = window.nth
        /\ f.text = window.text /\ f.how = "stream"
    BY <2>2 DEF Final, FinalRecords
  <2>4. UNCHANGED <<decodedTo, untimed, streams>> /\ finals' = Append(finals, f)
    BY <2>1 DEF bufferVars
  <2> HIDE DEF f
  <2>5. \A i \in DOMAIN finals : Follows(finals[i], f) \/ (f.how = "stream" /\ FlushedSince(i))
    BY <2>2, <2>3 DEF Follows
  <2>6. /\ f.to <= decodedTo' /\ f.stream <= streams' /\ f.start < f.from
        /\ untimed' = 0 => f.start + 1 = f.from
        /\ f.how = "stream" => f.nth >= 2 /\ f.text \in Complete
    BY <2>2, <2>3, <2>4
  <2> QED
    BY <1>1, <2>3, <2>4, <2>5, <2>6, AddedFinalFits
<1>5. CASE Flush
  <2>1. CASE /\ bufferFirst' = pushed + 1 /\ untimed' = untimed + Buffered
             /\ decodedTo' = pushed
             /\ \E text \in Texts :
                  finals' = Append(finals,
                    Final([text |-> text, from |-> bufferFirst, to |-> pushed,
                           start |-> bufferStart, stream |-> streams, nth |-> said],
                          "flush"))
    <3>1. PICK text \in Texts :
            finals' = Append(finals,
                        Final([text |-> text, from |-> bufferFirst, to |-> pushed,
                               start |-> bufferStart, stream |-> streams, nth |-> said],
                              "flush"))
      BY <2>1
    <3> DEFINE f == Final([text |-> text, from |-> bufferFirst, to |-> pushed,
                           start |-> bufferStart, stream |-> streams, nth |-> said],
                          "flush")
    <3>2. /\ f \in FinalRecords /\ f.from = bufferFirst /\ f.to = pushed
          /\ f.start = bufferStart /\ f.stream = streams /\ f.how = "flush"
      BY <1>0 DEF Final, FinalRecords
    <3>3. finals' = Append(finals, f)
      BY <3>1
    <3> HIDE DEF f
    <3>4. UNCHANGED streams /\ (untimed' = 0 => untimed = 0)
      BY <1>1, <1>5 DEF Flush, Grows
    <3>5. \A i \in DOMAIN finals : Follows(finals[i], f)
      BY <1>0, <1>2, <3>2 DEF Follows
    <3>6. /\ f.to <= decodedTo' /\ f.stream <= streams' /\ f.start < f.from
          /\ untimed' = 0 => f.start + 1 = f.from
      BY <1>0, <2>1, <3>2, <3>4
    <3> QED
      BY <1>1, <3>2, <3>3, <3>5, <3>6, AddedFinalFits
  <2> QED
    BY <1>3, <1>5, <2>1 DEF Flush
<1>6. CASE PushAudio \/ TakeWindow \/ DecodesNothing \/ Decodes \/ YieldsNoFinal
           \/ UpdateContext \/ Abandons \/ StreamReset
  BY <1>3, <1>6 DEF PushAudio, TakeWindow, DecodesNothing, Decodes, YieldsNoFinal,
                    UpdateContext, Abandons, StreamReset
<1>7. CASE UNCHANGED streamVars
  BY <1>3, <1>7 DEF streamVars
<1> QED
  BY <1>4, <1>5, <1>6, <1>7 DEF StreamingNext

\* The result of the last window after a step.
LEMMA WindowStep ==
  ASSUME StreamingIInv, [StreamingNext]_streamVars
  PROVE  WindowFits'
<1>0. /\ decodedTo \in Nat /\ streams \in Nat /\ said \in Nat /\ bufferFirst \in Nat
      /\ pushed \in Nat /\ bufferStart \in Nat /\ untimed \in Nat /\ decodedTo <= pushed
      /\ bufferStart + untimed + 1 = bufferFirst /\ decodedTo - WindowOverlap < bufferFirst
      /\ WindowOverlap \in Nat /\ Complete \subseteq Texts /\ Window \in Nat \ {0}
      /\ Len(partials) <= said /\ partials \in Seq(Texts) /\ Stabilization \in Nat \ {0}
      /\ Len(partials) <= Stabilization
  BY StreamingAssumption
     DEF StreamingIInv, FinalsFit, BufferFits, ContextFits, HistoriesFit, EverySampleIsTaken
<1>1. Grows /\ decodedTo' \in Nat /\ streams' \in Nat
  <2>1. Grows /\ decodedTo' \in 0 .. pushed' /\ pushed' \in 0 .. NPushed
    BY BufferSteps DEF BufferFits
  <2> QED
    BY <1>0, <2>1 DEF Grows
<1>2. finals \in Seq(FinalRecords)
      /\ \A i \in DOMAIN finals : /\ finals[i].to <= decodedTo /\ finals[i].stream <= streams
                                  /\ finals[i].to \in Nat /\ finals[i].stream \in Nat
  <2>1. finals \in Seq(FinalRecords)
        /\ \A i \in DOMAIN finals : finals[i].to <= decodedTo /\ finals[i].stream <= streams
    BY DEF StreamingIInv, FinalsFit
  <2>2. \A i \in DOMAIN finals : finals[i] \in FinalRecords
    BY <2>1, ElementOfSeq, LenProperties
  <2> QED
    BY <2>1, <2>2 DEF FinalRecords
<1>3. WindowFits
  BY DEF StreamingIInv
<1>4. CASE generator' = "idle"
  BY <1>4 DEF WindowFits, WindowIsTaken, WindowIsNext, WindowIsDecoded
<1>5. CASE /\ UNCHANGED <<generator, window, finals>>
           /\ generator = "idle" \/ (streams' = streams /\ carried' = carried)
                \/ window.stream \in carried'
  <2>1. WindowIsTaken'
    BY <1>0, <1>1, <1>3, <1>5 DEF WindowFits, WindowIsTaken, Grows
  <2>2. WindowIsNext' /\ WindowIsDecoded'
    BY <1>1, <1>3, <1>5 DEF WindowFits, WindowIsNext, WindowIsDecoded, Follows, FlushedSince
  <2> QED
    BY <1>3, <1>5, <2>1, <2>2 DEF WindowFits
<1>6. CASE PushAudio
  BY <1>5, <1>6 DEF PushAudio
<1>7. CASE TakeWindow
  <2>1. /\ generator' = "decode"
        /\ window' = [from |-> bufferFirst, to |-> bufferFirst + Window - 1,
                      start |-> bufferStart, prefix |-> Prefix, stream |-> streams]
        /\ decodedTo' = IF window'.to > decodedTo THEN window'.to ELSE decodedTo
        /\ UNCHANGED <<untimed, streams, finals, carried>>
    BY <1>7 DEF TakeWindow
  <2>2. /\ window'.from = bufferFirst /\ window'.to = bufferFirst + Window - 1
        /\ window'.start = bufferStart /\ window'.stream = streams
    BY <2>1
  <2>3. WindowIsTaken'
    <3>1. window'.to \in Nat /\ window'.to <= decodedTo'
      BY <1>0, <2>1, <2>2
    <3>2. bufferStart < bufferFirst /\ (untimed = 0 => bufferStart + 1 = bufferFirst)
      BY <1>0
    <3> QED
      BY <1>0, <2>1, <2>2, <3>1, <3>2 DEF WindowIsTaken
  <2>4. WindowIsNext'
    BY <1>0, <1>2, <2>1, <2>2 DEF WindowIsNext, Follows
  <2>5. WindowIsDecoded'
    BY <2>1 DEF WindowIsDecoded
  <2> QED
    BY <2>1, <2>3, <2>4, <2>5 DEF WindowFits
<1>8. CASE Decodes
  <2>1. PICK text \in Texts, confidence \in Confidences :
          /\ partials' = Latest(partials, text, Stabilization)
          /\ window' = ResultOf(window, text, confidence,
                                CompleteUtterance(text) /\ Stable(partials', confidence))
    BY <1>8 DEF Decodes
  <2>2. /\ generator = "decode" /\ generator' = "partial"
        /\ UNCHANGED <<decodedTo, untimed, streams, finals, carried>>
    BY <1>8 DEF Decodes, bufferVars
  <2>3. /\ window'.from = window.from /\ window'.to = window.to /\ window'.start = window.start
        /\ window'.stream = window.stream /\ window'.text = text /\ window'.confidence = confidence
        /\ window'.nth = said + 1
        /\ window'.final = (CompleteUtterance(text) /\ Stable(partials', confidence))
    BY <2>1 DEF ResultOf
  <2>4. window'.final => window'.text \in Complete /\ window'.nth >= 2
    <3>1. Len(partials') \in Nat /\ Len(partials') <= said + 1
      BY <1>0, <2>1, LatestFits
    <3>2. Stable(partials', confidence) => Len(partials') >= 2
      BY DEF Stable
    <3>3. window'.final => text \in Complete /\ Len(partials') >= 2
      BY <2>3, <3>2 DEF CompleteUtterance
    <3>4. Len(partials') >= 2 => said + 1 >= 2
      BY <1>0, <3>1
    <3> QED
      BY <2>3, <3>3, <3>4
  <2>5. WindowIsTaken'
    BY <1>3, <2>2, <2>3 DEF WindowFits, WindowIsTaken
  <2>6. WindowIsNext'
    BY <1>3, <2>2, <2>3 DEF WindowFits, WindowIsNext, Follows, FlushedSince
  <2>7. WindowIsDecoded'
    BY <1>0, <2>2, <2>3, <2>4 DEF WindowIsDecoded
  <2> QED
    BY <2>2, <2>5, <2>6, <2>7 DEF WindowFits
<1>9. CASE YieldsFinal
  <2>1. /\ generator = "partial" /\ generator' = "final"
        /\ finals' = Append(finals, Final(window, "stream"))
        /\ UNCHANGED <<decodedTo, untimed, streams, window, carried>>
    BY <1>9 DEF YieldsFinal, bufferVars
  <2>2. WindowIsTaken'
    BY <1>3, <2>1 DEF WindowFits, WindowIsTaken
  <2>3. WindowIsNext'
    BY <2>1 DEF WindowIsNext
  <2>4. \E i \in DOMAIN finals' : /\ finals'[i].text = window'.text
                                  /\ finals'[i].stream = window'.stream
    <3> DEFINE f == Final(window, "stream")
    <3>1. f.text = window.text /\ f.stream = window.stream
      BY DEF Final
    <3> HIDE DEF f
    <3>2. /\ DOMAIN finals' = 1 .. Len(finals) + 1 /\ finals'[Len(finals) + 1] = f
          /\ Len(finals) \in Nat
      <4>1. f \in FinalRecords
        <5>1. /\ window.from \in Nat /\ window.to \in Nat /\ window.start \in Nat
              /\ window.stream \in Nat /\ window.text \in Texts /\ window.nth \in Nat
          BY <1>3, <2>1 DEF WindowFits, WindowIsTaken, WindowIsDecoded
        <5> QED
          BY <5>1 DEF f, Final, FinalRecords
      <4>2. finals' = Append(finals, f)
        BY <2>1 DEF f
      <4> QED
        BY <1>2, <4>1, <4>2, AppendProperties, LenProperties
    <3> QED
      BY <2>1, <3>1, <3>2
  <2>5. WindowIsDecoded'
    BY <1>3, <2>1, <2>4 DEF WindowFits, WindowIsDecoded
  <2> QED
    BY <2>1, <2>2, <2>3, <2>5 DEF WindowFits
<1>10. CASE Flush
  <2>1. UNCHANGED <<generator, window, streams, carried>> /\ generator # "decode"
    BY <1>10 DEF Flush
  <2>2. CASE generator = "idle"
    BY <1>4, <2>1, <2>2
  <2>3. CASE generator # "idle"
    <3>1. WindowIsTaken'
      BY <1>0, <1>1, <1>3, <2>1 DEF WindowFits, WindowIsTaken, Grows
    <3>2. \/ UNCHANGED finals
          \/ \E f \in FinalRecords : finals' = Append(finals, f) /\ f.how = "flush"
      <4>1. ASSUME NEW text \in Texts
            PROVE  LET f == Final([text |-> text, from |-> bufferFirst, to |-> pushed,
                                   start |-> bufferStart, stream |-> streams, nth |-> said],
                                  "flush")
                   IN  f \in FinalRecords /\ f.how = "flush"
        BY <1>0 DEF Final, FinalRecords
      <4> QED
        BY <1>10, <4>1 DEF Flush
    <3>3. /\ \A i \in DOMAIN finals : i \in DOMAIN finals' /\ finals'[i] = finals[i]
          /\ \A i \in DOMAIN finals' : i \in DOMAIN finals \/ finals'[i].how = "flush"
          /\ \A i, k \in DOMAIN finals' : i < k => i \in DOMAIN finals
          /\ DOMAIN finals' \subseteq Nat /\ DOMAIN finals \subseteq Nat
      <4>1. CASE UNCHANGED finals
        BY <1>2, <4>1, LenProperties
      <4>2. CASE \E f \in FinalRecords : finals' = Append(finals, f) /\ f.how = "flush"
        <5>1. PICK f \in FinalRecords : finals' = Append(finals, f) /\ f.how = "flush"
          BY <4>2
        <5>2. DOMAIN finals' \subseteq Nat /\ DOMAIN finals \subseteq Nat
          BY <1>2, <5>1, FinalIsAdded, LenProperties
        <5> QED
          BY <1>2, <5>1, <5>2, FinalIsAdded
      <4> QED
        BY <3>2, <4>1, <4>2
    <3>4. WindowIsNext'
      <4> SUFFICES ASSUME generator \in {"decode", "partial"}, NEW i \in DOMAIN finals'
                   PROVE  Follows(finals'[i], window) \/ FlushedSince(i)'
        BY <2>1 DEF WindowIsNext, Follows
      <4>1. CASE i \in DOMAIN finals
        BY <1>3, <3>3, <4>1 DEF WindowFits, WindowIsNext, FlushedSince
      <4>2. CASE i \notin DOMAIN finals
        <5>1. \A k \in DOMAIN finals : ~(i <= k)
          BY <3>3, <4>2
        <5> QED
          BY <3>3, <4>2, <5>1 DEF FlushedSince
      <4> QED
        BY <4>1, <4>2
    <3>5. WindowIsDecoded'
      BY <1>3, <2>1, <3>3 DEF WindowFits, WindowIsDecoded
    <3> QED
      BY <1>3, <2>1, <3>1, <3>4, <3>5 DEF WindowFits
  <2> QED
    BY <2>2, <2>3
<1>11. CASE StreamReset
  <2>1. /\ UNCHANGED <<generator, window, finals>>
        /\ generator = "idle" \/ window.stream \in carried'
    BY <1>11 DEF StreamReset
  <2> QED
    BY <1>5, <2>1
<1>12. CASE DecodesNothing \/ YieldsNoFinal \/ UpdateContext \/ Abandons
  BY <1>4, <1>12 DEF DecodesNothing, YieldsNoFinal, UpdateContext, Abandons
<1>13. CASE UNCHANGED streamVars
  BY <1>5, <1>13 DEF streamVars
<1> QED
  BY <1>6, <1>7, <1>8, <1>9, <1>10, <1>11, <1>12, <1>13 DEF StreamingNext

\* The context of the stream after a step, and how far it is trusted.
LEMMA ContextStep ==
  ASSUME StreamingIInv, [StreamingNext]_streamVars
  PROVE  ContextFits'
<1>0. /\ trust \in 0 .. Fully /\ streams \in 0 .. NStreamResets /\ carried \subseteq 0 .. streams
      /\ ContextIsOfTheStream /\ finals \in Seq(FinalRecords) /\ WindowFits
  BY DEF StreamingIInv, ContextFits, FinalsFit
<1>1. /\ Fully \in Nat \ {0} /\ Trusted["medium"] \in 0 .. Fully /\ Trusted["high"] \in 0 .. Fully
      /\ NStreamResets \in Nat
  BY StreamingAssumption DEF Fully
<1>2. ASSUME UNCHANGED <<context, trust, streams, carried>>,
             \A i \in DOMAIN finals : i \in DOMAIN finals' /\ finals'[i] = finals[i]
      PROVE  ContextFits'
  BY <1>0, <1>2 DEF ContextFits, ContextIsOfTheStream
<1>3. ASSUME NEW f \in FinalRecords, finals' = Append(finals, f)
      PROVE  \A i \in DOMAIN finals : i \in DOMAIN finals' /\ finals'[i] = finals[i]
  BY <1>0, <1>3, FinalIsAdded
<1>4. CASE YieldsFinal
  <2>1. /\ UNCHANGED <<context, trust, streams, carried>> /\ generator = "partial"
        /\ finals' = Append(finals, Final(window, "stream"))
    BY <1>4 DEF YieldsFinal, contextVars
  <2>2. Final(window, "stream") \in FinalRecords
    <3>1. /\ window.from \in Nat /\ window.to \in Nat /\ window.start \in Nat
          /\ window.stream \in Nat /\ window.text \in Texts /\ window.nth \in Nat
      BY <1>0, <2>1 DEF WindowFits, WindowIsTaken, WindowIsDecoded
    <3> QED
      BY <3>1 DEF Final, FinalRecords
  <2> QED
    BY <1>0, <1>2, <1>3, <2>1, <2>2
<1>5. CASE Flush
  <2>1. UNCHANGED <<context, trust, streams, carried>>
    BY <1>5 DEF Flush, contextVars
  <2>2. \A i \in DOMAIN finals : i \in DOMAIN finals' /\ finals'[i] = finals[i]
    <3>1. CASE UNCHANGED finals
      BY <3>1
    <3>2. ASSUME NEW text \in Texts
          PROVE  Final([text |-> text, from |-> bufferFirst, to |-> pushed,
                        start |-> bufferStart, stream |-> streams, nth |-> said],
                       "flush") \in FinalRecords
      <4>1. /\ bufferFirst \in Nat /\ pushed \in Nat /\ bufferStart \in Nat /\ streams \in Nat
            /\ said \in Nat
        BY StreamingAssumption DEF StreamingIInv, BufferFits, ContextFits, HistoriesFit
      <4> QED
        BY <4>1 DEF Final, FinalRecords
    <3> QED
      BY <1>3, <1>5, <3>1, <3>2 DEF Flush
  <2> QED
    BY <1>2, <2>1, <2>2
<1>6. CASE UpdateContext
  <2>1. generator = "final" /\ UNCHANGED <<streams, finals, carried>>
    BY <1>6 DEF UpdateContext
  <2>2. CASE window.confidence = "low"
    <3>1. context' = context /\ trust' = IF trust > 0 THEN trust - 1 ELSE 0
      BY <1>6, <2>2 DEF UpdateContext
    <3>2. trust' \in 0 .. Fully
      BY <1>0, <1>1, <3>1
    <3> QED
      BY <1>0, <2>1, <3>1, <3>2 DEF ContextFits, ContextIsOfTheStream
  <2>3. CASE window.confidence # "low"
    <3>1. /\ context' = [text |-> window.text, stream |-> window.stream]
          /\ trust' = Trusted[window.confidence]
      BY <1>6, <2>3 DEF UpdateContext
    <3>2. window.confidence \in {"medium", "high"}
      BY <1>0, <2>1, <2>3 DEF WindowFits, WindowIsDecoded, Confidences
    <3>3. trust' \in 0 .. Fully
      BY <1>1, <3>1, <3>2
    <3>4. /\ window.stream \in {streams} \cup carried
          /\ \E i \in DOMAIN finals : /\ finals[i].text = window.text
                                      /\ finals[i].stream = window.stream
      BY <1>0, <2>1 DEF WindowFits, WindowIsTaken, WindowIsDecoded
    <3>5. context'.text = window.text /\ context'.stream = window.stream
      BY <3>1
    <3>6. ContextIsOfTheStream'
      BY <2>1, <3>4, <3>5 DEF ContextIsOfTheStream
    <3> QED
      BY <1>0, <2>1, <3>3, <3>6 DEF ContextFits
  <2> QED
    BY <2>2, <2>3
<1>7. CASE StreamReset
  <2>1. /\ streams' = streams + 1 /\ streams < NStreamResets
        /\ context' = NoContext /\ trust' = Fully
        /\ carried' = IF generator = "idle" THEN {} ELSE {window.stream}
    BY <1>7 DEF StreamReset
  <2>2. streams' \in 0 .. NStreamResets /\ trust' \in 0 .. Fully
    <3>1. Fully' = Fully
      BY DEF Fully
    <3> QED
      BY <1>0, <1>1, <2>1, <3>1
  <2>3. carried' \subseteq 0 .. streams'
    <3>1. generator # "idle" => window.stream \in 0 .. streams
      BY <1>0 DEF WindowFits, WindowIsTaken
    <3> QED
      BY <1>0, <2>1, <3>1
  <2> QED
    BY <2>1, <2>2, <2>3 DEF ContextFits, ContextIsOfTheStream, NoContext
<1>8. CASE PushAudio \/ TakeWindow \/ DecodesNothing \/ Decodes \/ YieldsNoFinal \/ Abandons
  BY <1>0, <1>2, <1>8 DEF PushAudio, TakeWindow, DecodesNothing, Decodes, YieldsNoFinal, Abandons,
                          contextVars
<1>9. CASE UNCHANGED streamVars
  BY <1>0, <1>2, <1>9 DEF streamVars, contextVars
<1> QED
  BY <1>4, <1>5, <1>6, <1>7, <1>8, <1>9 DEF StreamingNext

\* Whatever is pushed, flushed and reset while results are taken: every sample is decoded or
\* known to be dropped, and results are dated and ordered as their audio is, their context is one
\* of their stream, and the histories stay within their limits: but for the one result that
\* process_stream() is suspended at, which may come after what a flush made of later audio, and
\* whose words a reset does not keep out of the next stream.
THEOREM StreamsAreDecoded == StreamingSpec => []StreamingInv
<1>1. StreamingIInv /\ [StreamingNext]_streamVars => StreamingIInv'
  BY BufferSteps, HistoriesStep, FinalsStep, WindowStep, ContextStep DEF StreamingIInv
<1> QED
  BY <1>1, StreamingBegins, StreamingFits, PTL DEF StreamingSpec

-----------------------------------------------------------------------------
(* WhisperTranscriber: the chunks that were submitted are decoded, in hand, waiting or     *)
(* about to be put in, and these places are in the order of the chunks.                    *)

Rising(q) == \A i, j \in DOMAIN q : i < j => q[i] < q[j]
Before(A, B) == \A x \in A, y \in B : x < y

HandPlace == IF inHand = NoChunk THEN {} ELSE {inHand}
NewPlace == IF caller = "idle" THEN {} ELSE {submits}

\* The places rise, each before the next, and with what is gone they hold each chunk once.
PlacesInOrder ==
  /\ Rising(decoded) /\ Rising(chunkQueue)
  /\ Before(ToSet(decoded), HandPlace) /\ Before(ToSet(decoded), ToSet(chunkQueue))
  /\ Before(ToSet(decoded), NewPlace) /\ Before(HandPlace, ToSet(chunkQueue))
  /\ Before(HandPlace, NewPlace) /\ Before(ToSet(chunkQueue), NewPlace)
Placed == ToSet(decoded) \cup HandPlace \cup ToSet(chunkQueue) \cup NewPlace
PlacedOnce == Placed \cap gone = {} /\ Placed \cup gone = 1 .. submits

\* A thread that has not loaded a model uses none.
LoadsFirst == whisper \in {"none", "load", "ended"} => local = "none"

WhisperIInv ==
  /\ WhisperTypeOK /\ PlacesInOrder /\ PlacedOnce /\ LoadsFirst /\ DeviceIsKnown /\ ModeIsKept

\* Places of which one is before the other share no chunk.
LEMMA ApartIfBefore ==
  ASSUME NEW A, NEW B, Before(A, B), A \subseteq Nat \/ B \subseteq Nat
  PROVE  A \cap B = {} /\ B \cap A = {}
BY DEF Before

\* A sequence of chunks that rises does so with a later one behind it.
LEMMA AppendRises ==
  ASSUME NEW q \in Seq(Nat), NEW x \in Nat
  PROVE  /\ Append(q, x) \in Seq(Nat) /\ ToSet(Append(q, x)) = ToSet(q) \cup {x}
         /\ Len(Append(q, x)) = Len(q) + 1
         /\ Rising(q) /\ Before(ToSet(q), {x}) => Rising(Append(q, x))
<1>1. /\ Append(q, x) \in Seq(Nat) /\ Len(Append(q, x)) = Len(q) + 1 /\ Len(q) \in Nat
      /\ DOMAIN Append(q, x) = 1 .. Len(q) + 1 /\ DOMAIN q = 1 .. Len(q)
      /\ \A i \in 1 .. Len(q) : Append(q, x)[i] = q[i]
      /\ Append(q, x)[Len(q) + 1] = x
  BY AppendProperties
<1>2. ToSet(Append(q, x)) = ToSet(q) \cup {x}
  BY <1>1 DEF ToSet
<1>3. ASSUME Rising(q), Before(ToSet(q), {x}) PROVE Rising(Append(q, x))
  <2>1. \A i \in 1 .. Len(q) : q[i] < x
    BY <1>1, <1>3 DEF Before, ToSet
  <2>2. ASSUME NEW i \in 1 .. Len(q) + 1, NEW j \in 1 .. Len(q) + 1, i < j
        PROVE Append(q, x)[i] < Append(q, x)[j]
    <3>1. CASE j = Len(q) + 1
      BY <1>1, <2>1, <2>2, <3>1
    <3>2. CASE j # Len(q) + 1
      BY <1>1, <1>3, <2>2, <3>2 DEF Rising
    <3> QED
      BY <3>1, <3>2
  <2> QED
    BY <1>1, <2>2 DEF Rising
<1> QED
  BY <1>1, <1>2, <1>3

\* The first of a sequence that rises is before the rest.
LEMMA TailRises ==
  ASSUME NEW S, S \subseteq Nat, NEW q \in Seq(S), q # <<>>
  PROVE  /\ Head(q) \in S /\ Tail(q) \in Seq(S) /\ Len(Tail(q)) <= Len(q)
         /\ ToSet(q) = {Head(q)} \cup ToSet(Tail(q))
         /\ Rising(q) => Rising(Tail(q)) /\ Before({Head(q)}, ToSet(Tail(q)))
<1>1. /\ Head(q) = q[1] /\ Tail(q) \in Seq(S) /\ Len(Tail(q)) = Len(q) - 1
      /\ Len(q) \in Nat \ {0} /\ DOMAIN q = 1 .. Len(q) /\ DOMAIN Tail(q) = 1 .. Len(q) - 1
      /\ \A i \in 1 .. Len(q) - 1 : Tail(q)[i] = q[i + 1]
      /\ \A i \in 1 .. Len(q) : q[i] \in S
  BY HeadTailProperties, EmptySeq, LenProperties, ElementOfSeq
<1>2. ToSet(q) = {Head(q)} \cup ToSet(Tail(q))
  <2>1. ASSUME NEW i \in 1 .. Len(q), i # 1 PROVE q[i] \in ToSet(Tail(q))
    <3>1. i - 1 \in 1 .. Len(q) - 1 /\ (i - 1) + 1 = i
      BY <1>1, <2>1
    <3> QED
      BY <3>1, <1>1 DEF ToSet
  <2>2. ASSUME NEW i \in 1 .. Len(q) - 1 PROVE Tail(q)[i] \in ToSet(q)
    <3>1. i + 1 \in 1 .. Len(q)
      BY <1>1, <2>2
    <3> QED
      BY <3>1, <1>1, <2>2 DEF ToSet
  <2>3. q[1] \in ToSet(q)
    BY <1>1 DEF ToSet
  <2>4. \A y \in ToSet(q) : y = q[1] \/ y \in ToSet(Tail(q))
    BY <2>1, <1>1 DEF ToSet
  <2>5. \A y \in ToSet(Tail(q)) : y \in ToSet(q)
    BY <2>2, <1>1 DEF ToSet
  <2> QED
    BY <2>3, <2>4, <2>5, <1>1
<1>3. ASSUME Rising(q) PROVE Rising(Tail(q)) /\ Before({Head(q)}, ToSet(Tail(q)))
  <2>1. ASSUME NEW i \in 1 .. Len(q) - 1, NEW j \in 1 .. Len(q) - 1, i < j
        PROVE Tail(q)[i] < Tail(q)[j]
    <3>1. i + 1 \in 1 .. Len(q) /\ j + 1 \in 1 .. Len(q) /\ i + 1 < j + 1
      BY <1>1, <2>1
    <3> QED
      BY <3>1, <1>1, <1>3 DEF Rising
  <2>2. ASSUME NEW i \in 1 .. Len(q) - 1 PROVE q[1] < Tail(q)[i]
    <3>1. i + 1 \in 1 .. Len(q) /\ 1 \in 1 .. Len(q) /\ 1 < i + 1
      BY <1>1, <2>2
    <3> QED
      BY <3>1, <1>1, <1>3 DEF Rising
  <2>3. Rising(Tail(q))
    BY <2>1, <1>1 DEF Rising
  <2>4. Before({Head(q)}, ToSet(Tail(q)))
    BY <2>2, <1>1 DEF Before, ToSet
  <2> QED
    BY <2>3, <2>4
<1> QED
  BY <1>1, <1>2, <1>3

\* Two sequences that rise, one before the other, rise when they are put together.
LEMMA JoinRises ==
  ASSUME NEW q \in Seq(Nat), NEW r \in Seq(Nat)
  PROVE  /\ q \o r \in Seq(Nat) /\ ToSet(q \o r) = ToSet(q) \cup ToSet(r)
         /\ Rising(q) /\ Rising(r) /\ Before(ToSet(q), ToSet(r)) => Rising(q \o r)
<1>1. /\ q \o r \in Seq(Nat) /\ Len(q) \in Nat /\ Len(r) \in Nat
      /\ DOMAIN q = 1 .. Len(q) /\ DOMAIN r = 1 .. Len(r)
      /\ DOMAIN (q \o r) = 1 .. Len(q) + Len(r)
      /\ \A i \in 1 .. Len(q) + Len(r) :
           (q \o r)[i] = IF i <= Len(q) THEN q[i] ELSE r[i - Len(q)]
  BY ConcatProperties, LenProperties
<1> DEFINE t == q \o r
<1> HIDE DEF t
<1>2. /\ \A i \in 1 .. Len(q) : i \in 1 .. Len(q) + Len(r) /\ t[i] = q[i]
      /\ \A i \in 1 .. Len(r) : /\ Len(q) + i \in 1 .. Len(q) + Len(r)
                                /\ t[Len(q) + i] = r[i]
  <2>1. ASSUME NEW i \in 1 .. Len(r)
        PROVE Len(q) + i \in 1 .. Len(q) + Len(r) /\ t[Len(q) + i] = r[i]
    <3>1. /\ Len(q) + i \in 1 .. Len(q) + Len(r) /\ ~(Len(q) + i <= Len(q))
          /\ (Len(q) + i) - Len(q) = i
      BY <1>1, <2>1
    <3> QED
      BY <3>1, <1>1 DEF t
  <2>2. ASSUME NEW i \in 1 .. Len(q) PROVE i \in 1 .. Len(q) + Len(r) /\ t[i] = q[i]
    <3>1. i \in 1 .. Len(q) + Len(r) /\ i <= Len(q)
      BY <1>1, <2>2
    <3> QED
      BY <3>1, <1>1 DEF t
  <2> QED
    BY <2>1, <2>2
<1>3. \A i \in 1 .. Len(q) + Len(r) :
        \/ i \in 1 .. Len(q) /\ t[i] = q[i]
        \/ i - Len(q) \in 1 .. Len(r) /\ t[i] = r[i - Len(q)]
  <2>1. ASSUME NEW i \in 1 .. Len(q) + Len(r)
        PROVE i \in 1 .. Len(q) \/ (i - Len(q) \in 1 .. Len(r) /\ ~(i <= Len(q)))
    BY <1>1, <2>1
  <2> QED
    BY <2>1, <1>1 DEF t
<1>4. ToSet(t) = ToSet(q) \cup ToSet(r)
  <2>1. \A y \in ToSet(t) : y \in ToSet(q) \cup ToSet(r)
    BY <1>1, <1>3 DEF ToSet, t
  <2>0. DOMAIN t = 1 .. Len(q) + Len(r)
    BY <1>1 DEF t
  <2>2. \A y \in ToSet(q) : y \in ToSet(t)
    <3>1. \A i \in 1 .. Len(q) : q[i] \in ToSet(t)
      BY <2>0, <1>2 DEF ToSet
    <3> QED
      BY <3>1, <1>1 DEF ToSet
  <2>3. \A y \in ToSet(r) : y \in ToSet(t)
    <3>1. \A i \in 1 .. Len(r) : r[i] \in ToSet(t)
      BY <2>0, <1>2 DEF ToSet
    <3> QED
      BY <3>1, <1>1 DEF ToSet
  <2> QED
    BY <2>1, <2>2, <2>3
<1>5. ASSUME Rising(q), Rising(r), Before(ToSet(q), ToSet(r)) PROVE Rising(t)
  <2>1. \A i \in 1 .. Len(q), j \in 1 .. Len(r) : q[i] < r[j]
    BY <1>1, <1>5 DEF Before, ToSet
  <2>2. ASSUME NEW i \in 1 .. Len(q) + Len(r), NEW j \in 1 .. Len(q) + Len(r), i < j
        PROVE t[i] < t[j]
    <3>1. CASE j \in 1 .. Len(q)
      <4>1. i \in 1 .. Len(q)
        BY <1>1, <2>2, <3>1
      <4> QED
        BY <4>1, <3>1, <2>2, <1>1, <1>2, <1>5 DEF Rising
    <3>2. CASE i \in 1 .. Len(q) /\ j \notin 1 .. Len(q)
      <4>1. j - Len(q) \in 1 .. Len(r) /\ t[j] = r[j - Len(q)]
        BY <3>2, <1>3
      <4> QED
        BY <4>1, <3>2, <2>1, <1>2
    <3>3. CASE i \notin 1 .. Len(q) /\ j \notin 1 .. Len(q)
      <4>1. /\ j - Len(q) \in 1 .. Len(r) /\ t[j] = r[j - Len(q)]
            /\ i - Len(q) \in 1 .. Len(r) /\ t[i] = r[i - Len(q)]
        BY <3>3, <1>3
      <4>2. i - Len(q) < j - Len(q)
        BY <1>1, <2>2
      <4> QED
        BY <4>1, <4>2, <1>1, <1>5 DEF Rising
    <3>4. i \in 1 .. Len(q) \/ i \notin 1 .. Len(q)
      OBVIOUS
    <3> QED
      BY <3>1, <3>2, <3>3, <3>4
  <2> QED
    BY <2>2, <1>1 DEF Rising, t
<1> QED
  BY <1>1, <1>4, <1>5 DEF t

\* Nothing was submitted yet.
LEMMA WhisperBegins == WhisperInit => WhisperIInv
<1> SUFFICES ASSUME WhisperInit PROVE WhisperIInv
  OBVIOUS
<1> USE WhisperAssumption DEF WhisperInit, NoChunk
<1>1. WhisperTypeOK
  <2>1. chunkQueue \in Seq(1 .. NSubmits) /\ Len(chunkQueue) <= MaxQueue
        /\ decoded \in Seq(1 .. NSubmits)
    BY EmptySeq
  <2>2. inHand \in 0 .. NSubmits /\ (inHand # NoChunk <=> whisper \in {"decode", "segments"})
    OBVIOUS
  <2>3. stopping \in BOOLEAN /\ halfLoaded \in BOOLEAN /\ gone \subseteq 1 .. NSubmits
    OBVIOUS
  <2>4. submits \in 0 .. NSubmits /\ whisperStarts \in 0 .. NWhisperStarts
    OBVIOUS
  <2>5. /\ execution \in {"auto", "gpu_only", "cpu_only"} /\ device \in {"cpu", "cuda"}
        /\ caller \in {"idle", "evict", "again"}
        /\ whisper \in {"none", "load", "loop", "get", "decode", "segments", "ended"}
        /\ loaded \in {"none", "cpu", "cuda"} /\ local \in {"none", "cpu", "cuda"}
        /\ reported \in {"unknown", "cpu", "cuda"}
    OBVIOUS
  <2> QED
    BY <2>1, <2>2, <2>3, <2>4, <2>5 DEF WhisperTypeOK
<1>2. ToSet(decoded) = {} /\ ToSet(chunkQueue) = {} /\ HandPlace = {} /\ NewPlace = {}
  BY DEF ToSet, HandPlace, NewPlace
<1>3. PlacesInOrder /\ PlacedOnce
  BY <1>2 DEF PlacesInOrder, PlacedOnce, Placed, Rising, Before
<1> QED
  BY <1>1, <1>3 DEF WhisperIInv, LoadsFirst, DeviceIsKnown, ModeIsKept

\* What a load and a reload may leave behind, and what of it was asked for.
LEMMA LoadsAreAllowed ==
  ASSUME WhisperTypeOK, DeviceIsKnown, ModeIsKept, NEW l \in Loads
  PROVE  /\ l.loaded \in {"none", "cpu", "cuda"} /\ l.reported \in {"unknown", "cpu", "cuda"}
         /\ l.ok \in BOOLEAN
         /\ l.ok => l.loaded # "none"
         /\ loaded # "none" => l.loaded = loaded /\ l.reported = reported /\ l.ok
         /\ loaded = "none" /\ l.ok => l.reported = l.loaded
         /\ l.reported = "cuda" => execution # "cpu_only" /\ device = "cuda"
         /\ execution = "gpu_only" /\ device = "cuda" => "cpu" \notin {l.loaded, l.reported}
         /\ execution = "cpu_only" => "cuda" \notin {l.loaded, l.reported}
<1>1. CASE loaded # "none"
  <2>1. l.loaded = loaded /\ l.reported = reported /\ l.ok = TRUE
    BY <1>1 DEF Loads, Load
  <2> QED
    BY <1>1, <2>1 DEF WhisperTypeOK, DeviceIsKnown, ModeIsKept
<1>2. CASE loaded = "none" /\ (execution = "cpu_only" \/ device = "cpu")
  <2>1. \/ l.loaded = "cpu" /\ l.reported = "cpu" /\ l.ok = TRUE
        \/ l.loaded = "none" /\ l.reported = reported /\ l.ok = FALSE
    BY <1>2 DEF Loads, Load, CpuLoads
  <2> QED
    BY <1>2, <2>1 DEF WhisperTypeOK, DeviceIsKnown, ModeIsKept
<1>3. CASE loaded = "none" /\ execution # "cpu_only" /\ device # "cpu"
  <2>1. device = "cuda" /\ execution \in {"auto", "gpu_only"}
    BY <1>3 DEF WhisperTypeOK
  <2>2. \/ l.loaded = "cuda" /\ l.reported = "cuda" /\ l.ok = TRUE
        \/ l.loaded = "cpu" /\ l.reported = "cpu" /\ l.ok = TRUE /\ execution # "gpu_only"
        \/ l.loaded \in {"none", "cuda"} /\ l.reported = reported /\ l.ok = FALSE
    BY <1>3, <2>1 DEF Loads, Load, CpuLoads
  <2> QED
    BY <1>3, <2>1, <2>2 DEF WhisperTypeOK, DeviceIsKnown, ModeIsKept
<1> QED
  BY <1>1, <1>2, <1>3 DEF WhisperTypeOK

\* The thread ends: what it had in hand is gone.
LEMMA DiesInOrder ==
  ASSUME WhisperIInv, Dies, UNCHANGED <<caller, submits, chunkQueue>>
  PROVE  PlacesInOrder' /\ PlacedOnce'
<1>1. /\ decoded' = decoded /\ chunkQueue' = chunkQueue /\ NewPlace' = NewPlace
      /\ HandPlace' = {} /\ gone' = gone \cup HandPlace /\ submits' = submits
  BY DEF Dies, HandPlace, NewPlace, NoChunk
<1>2. PlacesInOrder'
  BY <1>1 DEF WhisperIInv, PlacesInOrder, Before
<1>3. HandPlace \cap ToSet(decoded) = {} /\ HandPlace \cap ToSet(chunkQueue) = {}
      /\ HandPlace \cap NewPlace = {}
  <2>1. HandPlace \subseteq Nat
    BY DEF WhisperIInv, WhisperTypeOK, HandPlace
  <2> QED
    BY <2>1, ApartIfBefore DEF WhisperIInv, PlacesInOrder
<1> QED
  BY <1>1, <1>2, <1>3 DEF WhisperIInv, PlacedOnce, Placed

-----------------------------------------------------------------------------
(* A step of the transcriber, one part of the invariant after the other.                   *)

\* What the places hold are chunks that were submitted.
LEMMA PlacesAreChunks ==
  ASSUME WhisperIInv
  PROVE  /\ Placed \subseteq 1 .. submits /\ gone \subseteq 1 .. submits /\ submits \in Nat
         /\ HandPlace \subseteq Nat /\ NewPlace \subseteq Nat
         /\ ToSet(decoded) \subseteq Nat /\ ToSet(chunkQueue) \subseteq Nat
         /\ caller # "idle" => submits \in 1 .. NSubmits
<1>1. Placed \subseteq 1 .. submits /\ gone \subseteq 1 .. submits
  BY DEF WhisperIInv, PlacedOnce
<1>2. submits \in 0 .. NSubmits /\ NSubmits \in Nat
  BY WhisperAssumption DEF WhisperIInv, WhisperTypeOK
<1>3. caller # "idle" => submits \in 1 .. submits
  BY <1>1 DEF Placed, NewPlace
<1>4. 1 .. submits \subseteq Nat
  BY <1>2
<1> QED
  BY <1>1, <1>2, <1>3, <1>4 DEF Placed

\* The caller's steps keep the types.
LEMMA CallerKeepsTypes ==
  ASSUME WhisperIInv,
         WhisperStarts \/ WhisperStops \/ SubmitsChunk \/ EvictsOldest \/ PutsAgain
  PROVE  WhisperTypeOK'
<1>0. WhisperTypeOK
  BY DEF WhisperIInv
<1> USE <1>0, WhisperAssumption DEF NoChunk, asked, callerVars, threadVars, modelVars, fateVars
<1>1. CASE WhisperStarts
  <2>1. CASE WhisperLives
    BY <1>1, <2>1 DEF WhisperStarts, WhisperTypeOK
  <2>2. CASE ~WhisperLives
    <3>1. whisper \in {"none", "ended"} /\ inHand = 0
      BY <2>2 DEF WhisperLives, WhisperTypeOK
    <3>2. /\ stopping' = FALSE /\ whisperStarts' = whisperStarts + 1
          /\ whisperStarts < NWhisperStarts /\ whisper' = "load"
          /\ UNCHANGED <<inHand, local, asked, callerVars, chunkQueue, modelVars, fateVars>>
      BY <1>1, <2>2 DEF WhisperStarts
    <3>3. whisperStarts' \in 0 .. NWhisperStarts
      BY <3>2 DEF WhisperTypeOK
    <3> QED
      BY <3>1, <3>2, <3>3 DEF WhisperTypeOK
  <2> QED
    BY <2>1, <2>2
<1>2. CASE WhisperStops
  BY <1>2 DEF WhisperStops, WhisperTypeOK
<1>3. CASE SubmitsChunk
  <2>1. submits' = submits + 1 /\ submits' \in 1 .. NSubmits
    BY <1>3 DEF SubmitsChunk, WhisperTypeOK
  <2>2. chunkQueue' \in Seq(1 .. NSubmits) /\ Len(chunkQueue') <= MaxQueue
    <3>1. CASE chunkQueue' = chunkQueue
      BY <3>1 DEF WhisperTypeOK
    <3>2. CASE Len(chunkQueue) < MaxQueue /\ chunkQueue' = Append(chunkQueue, submits')
      BY <3>2, <2>1, AppendProperties, LenProperties DEF WhisperTypeOK
    <3> QED
      BY <1>3, <3>1, <3>2 DEF SubmitsChunk
  <2>3. gone' \subseteq 1 .. NSubmits /\ caller' \in {"idle", "evict", "again"}
    BY <1>3, <2>1 DEF SubmitsChunk, WhisperTypeOK
  <2>4. UNCHANGED <<asked, stopping, whisperStarts, threadVars, modelVars, decoded>>
    BY <1>3 DEF SubmitsChunk
  <2> QED
    BY <2>1, <2>2, <2>3, <2>4 DEF WhisperTypeOK
<1>4. CASE EvictsOldest
  <2>1. chunkQueue # <<>> => /\ Head(chunkQueue) \in 1 .. NSubmits
                             /\ Tail(chunkQueue) \in Seq(1 .. NSubmits)
                             /\ Len(Tail(chunkQueue)) <= MaxQueue
    <3>1. Len(chunkQueue) \in Nat
      BY LenProperties DEF WhisperTypeOK
    <3> QED
      BY <3>1, HeadTailProperties DEF WhisperTypeOK
  <2>2. chunkQueue' \in Seq(1 .. NSubmits) /\ Len(chunkQueue') <= MaxQueue
    BY <1>4, <2>1 DEF EvictsOldest, WhisperTypeOK
  <2>3. gone' \subseteq 1 .. NSubmits /\ caller' \in {"idle", "evict", "again"}
    <3>1. caller = "evict" /\ submits \in 0 .. NSubmits
      BY <1>4 DEF EvictsOldest, WhisperTypeOK
    <3>2. submits # 0
      BY <3>1, PlacesAreChunks
    <3>3. gone \subseteq 1 .. NSubmits /\ submits \in 1 .. NSubmits
      BY <3>1, <3>2 DEF WhisperTypeOK
    <3>4. \/ caller' = "idle" /\ gone' = gone \cup {submits}
          \/ chunkQueue # <<>> /\ caller' = "again" /\ gone' = gone \cup {Head(chunkQueue)}
      BY <1>4 DEF EvictsOldest
    <3> QED
      BY <2>1, <3>3, <3>4
  <2>4. UNCHANGED <<asked, submits, stopping, whisperStarts, threadVars, modelVars, decoded>>
    BY <1>4 DEF EvictsOldest
  <2> QED
    BY <2>2, <2>3, <2>4 DEF WhisperTypeOK
<1>5. CASE PutsAgain
  <2>1. submits \in 1 .. NSubmits
    BY <1>5, PlacesAreChunks DEF PutsAgain
  <2>2. chunkQueue' \in Seq(1 .. NSubmits) /\ Len(chunkQueue') <= MaxQueue
    <3>1. CASE chunkQueue' = chunkQueue
      BY <3>1 DEF WhisperTypeOK
    <3>2. CASE Len(chunkQueue) < MaxQueue /\ chunkQueue' = Append(chunkQueue, submits)
      BY <3>2, <2>1, AppendProperties, LenProperties DEF WhisperTypeOK
    <3> QED
      BY <1>5, <3>1, <3>2 DEF PutsAgain
  <2>3. gone' \subseteq 1 .. NSubmits /\ caller' = "idle"
    BY <1>5, <2>1 DEF PutsAgain, WhisperTypeOK
  <2>4. UNCHANGED <<asked, submits, stopping, whisperStarts, threadVars, modelVars, decoded>>
    BY <1>5 DEF PutsAgain
  <2> QED
    BY <2>2, <2>3, <2>4 DEF WhisperTypeOK
<1> QED
  BY <1>1, <1>2, <1>3, <1>4, <1>5

\* What loads and reloads leave behind has the types.
LEMMA ModelsHaveTypes ==
  ASSUME WhisperIInv, NEW l \in Loads \cup Reloads, TakesModel(l)
  PROVE  /\ loaded' \in {"none", "cpu", "cuda"} /\ reported' \in {"unknown", "cpu", "cuda"}
         /\ halfLoaded' \in BOOLEAN
<1>1. l.loaded \in {"none", "cpu", "cuda"} /\ l.reported \in {"unknown", "cpu", "cuda"}
  <2>1. CASE l \in Loads
    BY <2>1, LoadsAreAllowed DEF WhisperIInv
  <2>2. CASE l \in Reloads
    BY <2>2 DEF Reloads, Load
  <2> QED
    BY <2>1, <2>2
<1> QED
  BY <1>1 DEF TakesModel

\* The thread's steps, and those of the model, keep the types.
LEMMA ThreadKeepsTypes ==
  ASSUME WhisperIInv,
         \/ ValidatesRuntime \/ CleansUp
         \/ ThreadLoads \/ ThreadLooks \/ ThreadGets \/ ThreadDecodes \/ ThreadReads
  PROVE  WhisperTypeOK'
<1>0. WhisperTypeOK
  BY DEF WhisperIInv
<1> USE <1>0, WhisperAssumption DEF NoChunk, asked, callerVars, threadVars, modelVars, fateVars
<1>a. ASSUME Dies, UNCHANGED <<asked, callerVars, chunkQueue, stopping, whisperStarts>>,
             /\ loaded' \in {"none", "cpu", "cuda"} /\ reported' \in {"unknown", "cpu", "cuda"}
             /\ halfLoaded' \in BOOLEAN
      PROVE  WhisperTypeOK'
  <2>1. gone' \subseteq 1 .. NSubmits
    BY <1>a DEF Dies, WhisperTypeOK
  <2> QED
    BY <1>a, <2>1 DEF Dies, WhisperTypeOK
<1>1. CASE ValidatesRuntime
  <2>1. /\ loaded' \in {"none", "cpu", "cuda"} /\ reported' \in {"unknown", "cpu", "cuda"}
        /\ halfLoaded' \in BOOLEAN
    BY <1>1, ModelsHaveTypes DEF ValidatesRuntime
  <2>2. UNCHANGED <<asked, callerVars, chunkQueue, stopping, whisperStarts, threadVars,
                    fateVars>>
    BY <1>1 DEF ValidatesRuntime
  <2> QED
    BY <2>1, <2>2 DEF WhisperTypeOK
<1>2. CASE CleansUp
  BY <1>2 DEF CleansUp, WhisperTypeOK
<1>3. CASE ThreadLoads
  <2>1. PICK l \in Loads : TakesModel(l) /\ IF l.ok THEN /\ whisper' = "loop" /\ local' = l.loaded
                                                         /\ UNCHANGED <<inHand, fateVars>>
                                            ELSE Dies
    BY <1>3 DEF ThreadLoads
  <2>2. /\ loaded' \in {"none", "cpu", "cuda"} /\ reported' \in {"unknown", "cpu", "cuda"}
        /\ halfLoaded' \in BOOLEAN /\ l.loaded = loaded'
    BY <2>1, ModelsHaveTypes DEF TakesModel
  <2>3. whisper = "load" /\ UNCHANGED <<asked, callerVars, chunkQueue, stopping, whisperStarts>>
    BY <1>3 DEF ThreadLoads
  <2>4. CASE ~Dies
    BY <2>1, <2>2, <2>3, <2>4 DEF WhisperTypeOK
  <2> QED
    BY <1>a, <2>2, <2>3, <2>4
<1>4. CASE ThreadLooks
  BY <1>4 DEF ThreadLooks, WhisperTypeOK
<1>5. CASE ThreadGets
  <2>1. chunkQueue # <<>> => /\ Head(chunkQueue) \in 1 .. NSubmits
                             /\ Tail(chunkQueue) \in Seq(1 .. NSubmits)
                             /\ Len(Tail(chunkQueue)) <= MaxQueue
    <3>1. Len(chunkQueue) \in Nat
      BY LenProperties DEF WhisperTypeOK
    <3> QED
      BY <3>1, HeadTailProperties DEF WhisperTypeOK
  <2>2. UNCHANGED <<asked, callerVars, stopping, whisperStarts, local, modelVars, fateVars>>
    BY <1>5 DEF ThreadGets
  <2>3. CASE chunkQueue = <<>> /\ whisper' = "loop" /\ UNCHANGED <<inHand, chunkQueue>>
    BY <1>5, <2>2, <2>3 DEF ThreadGets, WhisperTypeOK
  <2>4. CASE /\ chunkQueue # <<>> /\ whisper' = "decode"
             /\ inHand' = Head(chunkQueue) /\ chunkQueue' = Tail(chunkQueue)
    <3>1. inHand' \in 1 .. NSubmits /\ inHand' # 0 /\ inHand' \in 0 .. NSubmits
          /\ chunkQueue' \in Seq(1 .. NSubmits) /\ Len(chunkQueue') <= MaxQueue
      BY <2>1, <2>4
    <3> QED
      BY <2>2, <2>4, <3>1 DEF WhisperTypeOK
  <2> QED
    BY <1>5, <2>3, <2>4 DEF ThreadGets
<1>6. CASE ThreadDecodes
  <2>0. whisper = "decode" /\ UNCHANGED <<asked, callerVars, chunkQueue, stopping, whisperStarts>>
    BY <1>6 DEF ThreadDecodes
  <2>1. CASE whisper' = "segments" /\ UNCHANGED <<inHand, local, modelVars, fateVars>>
    BY <2>0, <2>1 DEF WhisperTypeOK
  <2>2. CASE Dies /\ UNCHANGED modelVars
    BY <2>0, <2>2, <1>a DEF WhisperTypeOK
  <2>3. ASSUME NEW r \in Reloads, TakesModel(r),
               \/ /\ r.ok /\ local' = "cpu" /\ whisper' = "segments"
                  /\ UNCHANGED <<inHand, fateVars>>
               \/ Dies
        PROVE  WhisperTypeOK'
    <3>1. /\ loaded' \in {"none", "cpu", "cuda"} /\ reported' \in {"unknown", "cpu", "cuda"}
          /\ halfLoaded' \in BOOLEAN
      BY <2>3, ModelsHaveTypes
    <3>2. CASE Dies
      BY <3>1, <3>2, <2>0, <1>a
    <3>3. CASE local' = "cpu" /\ whisper' = "segments" /\ UNCHANGED <<inHand, fateVars>>
      BY <3>1, <3>3, <2>0 DEF WhisperTypeOK
    <3> QED
      BY <2>3, <3>2, <3>3
  <2> QED
    BY <1>6, <2>1, <2>2, <2>3 DEF ThreadDecodes
<1>7. CASE ThreadReads
  <2>0. /\ whisper = "segments"
        /\ UNCHANGED <<asked, callerVars, chunkQueue, stopping, whisperStarts, modelVars>>
    BY <1>7 DEF ThreadReads
  <2>1. CASE Dies
    BY <2>0, <2>1, <1>a DEF WhisperTypeOK
  <2>2. CASE /\ whisper' = "loop" /\ decoded' = Append(decoded, inHand) /\ inHand' = NoChunk
             /\ UNCHANGED <<local, gone>>
    <3>1. inHand \in 1 .. NSubmits
      BY <2>0 DEF WhisperTypeOK
    <3>2. decoded' \in Seq(1 .. NSubmits)
      BY <2>2, <3>1, AppendProperties DEF WhisperTypeOK
    <3> QED
      BY <2>0, <2>2, <3>2 DEF WhisperTypeOK
  <2> QED
    BY <1>7, <2>1, <2>2 DEF ThreadReads
<1> QED
  BY <1>1, <1>2, <1>3, <1>4, <1>5, <1>6, <1>7

-----------------------------------------------------------------------------
(* A step keeps the places of the chunks.                                                  *)

\* What a step leaves of the places keeps them.
LEMMA PlacesAreKept ==
  ASSUME WhisperIInv, UNCHANGED <<submits, caller, inHand, chunkQueue, decoded, gone>>
  PROVE  PlacesInOrder' /\ PlacedOnce'
<1>1. HandPlace' = HandPlace /\ NewPlace' = NewPlace
  BY DEF HandPlace, NewPlace, NoChunk
<1> QED
  BY <1>1 DEF WhisperIInv, PlacesInOrder, PlacedOnce, Placed, Before, Rising

\* A sequence of chunks is one of numbers.
LEMMA ChunksAreNumbers ==
  ASSUME NEW q \in Seq(1 .. NSubmits)
  PROVE  q \in Seq(Nat)
<1>1. \A i \in 1 .. Len(q) : q[i] \in Nat
  BY WhisperAssumption, ElementOfSeq
<1> QED
  BY <1>1, SeqDef, LenProperties, IsASeq

\* What is put behind chunks that rise, and is a later one, keeps them in order.
LEMMA ChunkAppends ==
  ASSUME NEW q \in Seq(1 .. NSubmits), NEW x \in 1 .. NSubmits,
         Rising(q), Before(ToSet(q), {x})
  PROVE  Rising(Append(q, x)) /\ ToSet(Append(q, x)) = ToSet(q) \cup {x}
<1>1. q \in Seq(Nat) /\ x \in Nat
  BY WhisperAssumption, ChunksAreNumbers
<1> QED
  BY <1>1, AppendRises

\* A chunk that is submitted is a new one: it is refused, waits last, or is about to.
LEMMA SubmitsLast ==
  ASSUME WhisperIInv, SubmitsChunk
  PROVE  PlacesInOrder' /\ PlacedOnce'
<1> DEFINE x == submits + 1
<1>1. /\ submits' = x /\ UNCHANGED <<inHand, decoded>> /\ NewPlace = {}
      /\ HandPlace' = HandPlace
  BY DEF SubmitsChunk, NewPlace, HandPlace, NoChunk, threadVars
<1>2. x \in 1 .. NSubmits /\ x \in Nat /\ 1 .. x = (1 .. submits) \cup {x}
      /\ x \notin 1 .. submits
  BY WhisperAssumption DEF SubmitsChunk, WhisperIInv, WhisperTypeOK
<1>3. /\ Before(ToSet(decoded), {x}) /\ Before(HandPlace, {x}) /\ Before(ToSet(chunkQueue), {x})
      /\ x \notin Placed /\ x \notin gone
  BY <1>2, PlacesAreChunks DEF Before, Placed
<1> HIDE DEF x
<1>a. /\ Rising(decoded) /\ Rising(chunkQueue) /\ Before(ToSet(decoded), HandPlace)
      /\ Before(ToSet(decoded), ToSet(chunkQueue)) /\ Before(HandPlace, ToSet(chunkQueue))
      /\ Placed = ToSet(decoded) \cup HandPlace \cup ToSet(chunkQueue)
      /\ Placed \cap gone = {} /\ Placed \cup gone = 1 .. submits
  BY <1>1 DEF WhisperIInv, PlacesInOrder, PlacedOnce, Placed
<1>4. CASE gone' = gone \cup {x} /\ UNCHANGED <<caller, chunkQueue>>
  <2>1. NewPlace' = {}
    BY <1>1, <1>4 DEF SubmitsChunk, NewPlace
  <2> QED
    BY <1>1, <1>2, <1>3, <1>a, <1>4, <2>1 DEF PlacesInOrder, PlacedOnce, Placed, Before, Rising
<1>5. CASE chunkQueue' = Append(chunkQueue, x) /\ UNCHANGED <<caller, gone>>
  <2>1. NewPlace' = {}
    BY <1>1, <1>5 DEF SubmitsChunk, NewPlace
  <2>2. Rising(chunkQueue') /\ ToSet(chunkQueue') = ToSet(chunkQueue) \cup {x}
    <3>1. chunkQueue \in Seq(1 .. NSubmits) /\ 1 .. NSubmits \subseteq Nat
      BY WhisperAssumption DEF WhisperIInv, WhisperTypeOK
    <3>2. Rising(Append(chunkQueue, x)) /\ ToSet(Append(chunkQueue, x)) = ToSet(chunkQueue) \cup {x}
      BY <3>1, <1>2, <1>3, <1>a, ChunkAppends
    <3> QED
      BY <3>2, <1>5
  <2>3. PlacesInOrder'
    BY <1>1, <1>3, <1>a, <2>1, <2>2 DEF PlacesInOrder, Before, Rising
  <2>4. PlacedOnce'
    BY <1>1, <1>2, <1>3, <1>a, <1>5, <2>1, <2>2 DEF PlacedOnce, Placed
  <2> QED
    BY <2>3, <2>4
<1>6. CASE caller' = "evict" /\ UNCHANGED <<chunkQueue, gone>>
  <2>1. NewPlace' = {x}
    BY <1>1, <1>6 DEF NewPlace
  <2>2. PlacesInOrder'
    BY <1>1, <1>3, <1>6, <1>a, <2>1 DEF PlacesInOrder, Before, Rising
  <2>3. PlacedOnce'
    BY <1>1, <1>2, <1>3, <1>6, <1>a, <2>1 DEF PlacedOnce, Placed
  <2> QED
    BY <2>2, <2>3
<1> QED
  BY <1>1, <1>4, <1>5, <1>6 DEF SubmitsChunk

\* What each place and the order say, in the form that the steps use.
LEMMA PlacesAre ==
  ASSUME WhisperIInv
  PROVE  /\ PlacesInOrder /\ Placed \cap gone = {} /\ Placed \cup gone = 1 .. submits
         /\ chunkQueue \in Seq(1 .. NSubmits) /\ decoded \in Seq(1 .. NSubmits)
         /\ 1 .. NSubmits \subseteq Nat
BY WhisperAssumption DEF WhisperIInv, PlacedOnce, WhisperTypeOK

\* The first chunk that waits goes, or the new one if none waits.
LEMMA EvictsFirst ==
  ASSUME WhisperIInv, EvictsOldest
  PROVE  PlacesInOrder' /\ PlacedOnce'
<1>1. /\ UNCHANGED <<submits, inHand, decoded>> /\ NewPlace = {submits}
      /\ HandPlace' = HandPlace
  BY DEF EvictsOldest, NewPlace, HandPlace, NoChunk, threadVars
<1>2. CASE chunkQueue = <<>>
  <2>1. /\ NewPlace' = {} /\ gone' = gone \cup {submits} /\ chunkQueue' = chunkQueue
    BY <1>2 DEF EvictsOldest, NewPlace
  <2>2. submits \notin ToSet(decoded) \cup HandPlace \cup ToSet(chunkQueue)
    BY <1>1, PlacesAre, PlacesAreChunks, ApartIfBefore DEF PlacesInOrder
  <2>3. PlacesInOrder'
    BY <1>1, <2>1, PlacesAre DEF PlacesInOrder, Before, Rising
  <2>4. PlacedOnce'
    BY <1>1, <2>1, <2>2, PlacesAre DEF PlacedOnce, Placed
  <2> QED
    BY <2>3, <2>4
<1>3. CASE chunkQueue # <<>>
  <2>1. /\ NewPlace' = NewPlace /\ gone' = gone \cup {Head(chunkQueue)}
        /\ chunkQueue' = Tail(chunkQueue)
    BY <1>1, <1>3 DEF EvictsOldest, NewPlace
  <2>2. /\ ToSet(chunkQueue) = {Head(chunkQueue)} \cup ToSet(chunkQueue')
        /\ Rising(chunkQueue') /\ Before({Head(chunkQueue)}, ToSet(chunkQueue'))
    BY <1>3, <2>1, PlacesAre, TailRises DEF PlacesInOrder
  <2>3. PlacesInOrder'
    BY <1>1, <2>1, <2>2, PlacesAre DEF PlacesInOrder, Before, Rising
  <2>4. Head(chunkQueue) \notin ToSet(decoded) \cup HandPlace \cup NewPlace \cup ToSet(chunkQueue')
    <3>1. /\ ToSet(decoded) \cap ToSet(chunkQueue) = {} /\ HandPlace \cap ToSet(chunkQueue) = {}
          /\ NewPlace \cap ToSet(chunkQueue) = {}
      BY PlacesAre, PlacesAreChunks, ApartIfBefore DEF PlacesInOrder
    <3>2. Head(chunkQueue) \notin ToSet(chunkQueue')
      <4>1. Head(chunkQueue) \in Nat
        BY <2>2, PlacesAreChunks
      <4>2. ~(Head(chunkQueue) < Head(chunkQueue))
        BY <4>1
      <4> QED
        BY <4>2, <2>2 DEF Before
    <3> QED
      BY <2>2, <3>1, <3>2
  <2>5. PlacedOnce'
    BY <1>1, <2>1, <2>2, <2>4, PlacesAre DEF PlacedOnce, Placed
  <2> QED
    BY <2>3, <2>5
<1> QED
  BY <1>2, <1>3

\* The new chunk waits last, or is gone.
LEMMA PutsLast ==
  ASSUME WhisperIInv, PutsAgain
  PROVE  PlacesInOrder' /\ PlacedOnce'
<1>1. /\ UNCHANGED <<submits, inHand, decoded>> /\ NewPlace = {submits} /\ NewPlace' = {}
      /\ HandPlace' = HandPlace
  BY DEF PutsAgain, NewPlace, HandPlace, NoChunk, threadVars
<1>2. CASE chunkQueue' = Append(chunkQueue, submits) /\ gone' = gone
  <2>1. Rising(chunkQueue') /\ ToSet(chunkQueue') = ToSet(chunkQueue) \cup {submits}
    <3>1. submits \in 1 .. NSubmits
      BY PlacesAreChunks DEF PutsAgain
    <3>2. Rising(chunkQueue) /\ Before(ToSet(chunkQueue), {submits})
      BY <1>1, PlacesAre DEF PlacesInOrder
    <3>3. /\ Rising(Append(chunkQueue, submits))
          /\ ToSet(Append(chunkQueue, submits)) = ToSet(chunkQueue) \cup {submits}
      BY <3>1, <3>2, PlacesAre, ChunkAppends
    <3> QED
      BY <3>3, <1>2
  <2>2. PlacesInOrder'
    BY <1>1, <2>1, PlacesAre DEF PlacesInOrder, Before, Rising
  <2>3. PlacedOnce'
    BY <1>1, <1>2, <2>1, PlacesAre DEF PlacedOnce, Placed
  <2> QED
    BY <2>2, <2>3
<1>3. CASE gone' = gone \cup {submits} /\ chunkQueue' = chunkQueue
  <2>1. submits \notin ToSet(decoded) \cup HandPlace \cup ToSet(chunkQueue)
    BY <1>1, PlacesAre, PlacesAreChunks, ApartIfBefore DEF PlacesInOrder
  <2>2. PlacesInOrder'
    BY <1>1, <1>3, PlacesAre DEF PlacesInOrder, Before, Rising
  <2>3. PlacedOnce'
    BY <1>1, <1>3, <2>1, PlacesAre DEF PlacedOnce, Placed
  <2> QED
    BY <2>2, <2>3
<1> QED
  BY <1>2, <1>3 DEF PutsAgain

\* The thread takes the first chunk that waits.
LEMMA GetsFirst ==
  ASSUME WhisperIInv, ThreadGets
  PROVE  PlacesInOrder' /\ PlacedOnce'
<1>1. /\ UNCHANGED <<submits, caller, decoded, gone>> /\ NewPlace' = NewPlace
      /\ inHand = 0
  BY DEF ThreadGets, NewPlace, callerVars, fateVars, WhisperIInv, WhisperTypeOK, NoChunk
<1>2. CASE UNCHANGED <<inHand, chunkQueue>>
  BY <1>1, <1>2, PlacesAreKept
<1>3. CASE chunkQueue # <<>> /\ inHand' = Head(chunkQueue) /\ chunkQueue' = Tail(chunkQueue)
  <2>1. /\ ToSet(chunkQueue) = {Head(chunkQueue)} \cup ToSet(chunkQueue')
        /\ Rising(chunkQueue') /\ Before({Head(chunkQueue)}, ToSet(chunkQueue'))
        /\ Head(chunkQueue) \in 1 .. NSubmits
    BY <1>3, PlacesAre, TailRises DEF PlacesInOrder
  <2>2. HandPlace' = {Head(chunkQueue)} /\ HandPlace = {}
    <3>1. Head(chunkQueue) # 0
      BY <2>1, WhisperAssumption
    <3> QED
      BY <1>1, <1>3, <3>1 DEF HandPlace, NoChunk
  <2>3. PlacesInOrder'
    BY <1>1, <2>1, <2>2, PlacesAre DEF PlacesInOrder, Before, Rising
  <2>4. PlacedOnce'
    BY <1>1, <2>1, <2>2, PlacesAre DEF PlacedOnce, Placed
  <2> QED
    BY <2>3, <2>4
<1> QED
  BY <1>2, <1>3 DEF ThreadGets

\* A chunk that was read is the last of those that are decoded.
LEMMA ReadsInOrder ==
  ASSUME WhisperIInv, ThreadReads
  PROVE  PlacesInOrder' /\ PlacedOnce'
<1>1. UNCHANGED <<caller, submits, chunkQueue>> /\ inHand \in 1 .. NSubmits /\ inHand # 0
  <2>1. inHand # 0 /\ inHand \in 0 .. NSubmits
    BY DEF ThreadReads, WhisperIInv, WhisperTypeOK, NoChunk
  <2> QED
    BY <2>1, WhisperAssumption DEF ThreadReads, callerVars
<1>2. CASE Dies
  BY <1>1, <1>2, DiesInOrder
<1>3. CASE decoded' = Append(decoded, inHand) /\ inHand' = NoChunk /\ gone' = gone
  <2>1. HandPlace = {inHand} /\ HandPlace' = {} /\ NewPlace' = NewPlace
    BY <1>1, <1>3 DEF HandPlace, NewPlace, NoChunk
  <2>2. Rising(decoded') /\ ToSet(decoded') = ToSet(decoded) \cup {inHand}
    <3>1. Rising(decoded) /\ Before(ToSet(decoded), {inHand})
      BY <2>1, PlacesAre DEF PlacesInOrder
    <3>2. /\ Rising(Append(decoded, inHand))
          /\ ToSet(Append(decoded, inHand)) = ToSet(decoded) \cup {inHand}
      BY <1>1, <3>1, PlacesAre, ChunkAppends
    <3> QED
      BY <3>2, <1>3
  <2>3. PlacesInOrder'
    BY <1>1, <2>1, <2>2, PlacesAre DEF PlacesInOrder, Before, Rising
  <2>4. PlacedOnce'
    BY <1>1, <1>3, <2>1, <2>2, PlacesAre DEF PlacedOnce, Placed
  <2> QED
    BY <2>3, <2>4
<1> QED
  BY <1>2, <1>3 DEF ThreadReads

\* A step keeps the places.
LEMMA StepKeepsPlaces ==
  ASSUME WhisperIInv, [WhisperNext]_whisperVars
  PROVE  PlacesInOrder' /\ PlacedOnce'
<1> USE DEF callerVars, threadVars, modelVars, fateVars, asked
<1>1. CASE UNCHANGED <<submits, caller, inHand, chunkQueue, decoded, gone>>
  BY <1>1, PlacesAreKept
<1>2. CASE WhisperStarts \/ WhisperStops
  BY <1>2, <1>1 DEF WhisperStarts, WhisperStops
<1>3. CASE ValidatesRuntime \/ CleansUp \/ ThreadLooks
  BY <1>3, <1>1 DEF ValidatesRuntime, CleansUp, ThreadLooks
<1>4. CASE ThreadLoads
  <2>1. UNCHANGED <<inHand, fateVars>> \/ Dies
    BY <1>4 DEF ThreadLoads
  <2>2. UNCHANGED <<submits, caller, chunkQueue>>
    BY <1>4 DEF ThreadLoads
  <2> QED
    BY <2>1, <2>2, <1>1, DiesInOrder
<1>5. CASE ThreadDecodes
  <2>1. UNCHANGED <<inHand, fateVars>> \/ Dies
    BY <1>5 DEF ThreadDecodes
  <2>2. UNCHANGED <<submits, caller, chunkQueue>>
    BY <1>5 DEF ThreadDecodes
  <2> QED
    BY <2>1, <2>2, <1>1, DiesInOrder
<1>6. CASE UNCHANGED whisperVars
  BY <1>6, <1>1 DEF whisperVars
<1> QED
  BY <1>2, <1>3, <1>4, <1>5, <1>6, SubmitsLast, EvictsFirst, PutsLast, GetsFirst, ReadsInOrder
     DEF WhisperNext

-----------------------------------------------------------------------------
(* A step keeps what is known of the model.                                                *)

\* What the models say of each other and of what was asked for.
ModelIInv == LoadsFirst /\ DeviceIsKnown /\ ModeIsKept

\* The caller's steps, which load no model.
LEMMA CallerKeepsModel ==
  ASSUME WhisperIInv,
         UNCHANGED <<asked, modelVars, local>>,
         whisper' = whisper \/ whisper' \notin {"none", "load", "ended"} \/ local = "none"
  PROVE  ModelIInv'
BY DEF WhisperIInv, ModelIInv, LoadsFirst, DeviceIsKnown, ModeIsKept, asked, modelVars

\* A model that is loaded while the thread uses none, or what it uses from then on.
LEMMA LoadKeepsModel ==
  ASSUME WhisperIInv, NEW l \in Loads, TakesModel(l), UNCHANGED asked,
         local = "none", local' = "none" \/ (l.ok /\ local' = l.loaded /\ whisper' = "loop")
  PROVE  ModelIInv'
<1>1. /\ l.loaded \in {"none", "cpu", "cuda"} /\ l.reported \in {"unknown", "cpu", "cuda"}
      /\ l.ok \in BOOLEAN
      /\ l.ok => l.loaded # "none"
      /\ loaded # "none" => l.loaded = loaded /\ l.reported = reported /\ l.ok
      /\ loaded = "none" /\ l.ok => l.reported = l.loaded
      /\ l.reported = "cuda" => execution # "cpu_only" /\ device = "cuda"
      /\ execution = "gpu_only" /\ device = "cuda" => "cpu" \notin {l.loaded, l.reported}
      /\ execution = "cpu_only" => "cuda" \notin {l.loaded, l.reported}
  BY LoadsAreAllowed DEF WhisperIInv
<1>2. /\ loaded' = l.loaded /\ reported' = l.reported
      /\ halfLoaded' = (l.loaded # "none" /\ (halfLoaded \/ ~l.ok))
  BY DEF TakesModel
<1>3. LoadsFirst'
  BY DEF LoadsFirst
<1>4. DeviceIsKnown'
  <2>1. loaded' # "none" /\ ~halfLoaded' => reported' = loaded'
    BY <1>1, <1>2 DEF WhisperIInv, DeviceIsKnown
  <2> QED
    BY <1>1, <1>2, <2>1 DEF DeviceIsKnown, asked
<1>5. ModeIsKept'
  BY <1>1, <1>2 DEF ModeIsKept, asked
<1> QED
  BY <1>3, <1>4, <1>5 DEF ModelIInv

\* A model that is loaded again on the CPU, in a mode that allows it.
LEMMA ReloadKeepsModel ==
  ASSUME WhisperIInv, NEW r \in Reloads, TakesModel(r), UNCHANGED asked,
         execution # "gpu_only", execution # "cpu_only", device = "cuda",
         local' = "none" \/ (r.ok /\ local' = "cpu" /\ whisper' = "segments")
  PROVE  ModelIInv'
<1>1. \/ r.loaded = "cpu" /\ r.reported = "cpu" /\ r.ok = TRUE
      \/ r.loaded = "none" /\ r.reported = "cuda" /\ r.ok = FALSE
  BY DEF Reloads, Load
<1>2. loaded' = r.loaded /\ reported' = r.reported
  BY DEF TakesModel
<1> QED
  BY <1>1, <1>2 DEF ModelIInv, LoadsFirst, DeviceIsKnown, ModeIsKept, asked

\* A step keeps what is known of the model.
LEMMA StepKeepsModel ==
  ASSUME WhisperIInv, [WhisperNext]_whisperVars
  PROVE  ModelIInv'
<1> USE DEF callerVars, threadVars, fateVars
<1>0. WhisperTypeOK /\ LoadsFirst
  BY DEF WhisperIInv
<1>1. CASE WhisperStarts
  <2>1. UNCHANGED <<asked, modelVars, local>> /\ (whisper' = whisper \/ ~WhisperLives)
    BY <1>1 DEF WhisperStarts
  <2>2. ~WhisperLives => local = "none"
    BY <1>0 DEF WhisperLives, LoadsFirst
  <2> QED
    BY <2>1, <2>2, CallerKeepsModel
<1>2. CASE WhisperStops \/ SubmitsChunk \/ EvictsOldest \/ PutsAgain
  <2>1. UNCHANGED <<asked, modelVars, local>> /\ whisper' = whisper
    BY <1>2 DEF WhisperStops, SubmitsChunk, EvictsOldest, PutsAgain
  <2> QED
    BY <2>1, CallerKeepsModel
<1>3. CASE ValidatesRuntime
  <2>1. /\ ~WhisperLives /\ UNCHANGED asked /\ local' = local
        /\ \E l \in Loads : \/ TakesModel(l)
                            \/ /\ l.ok /\ execution # "gpu_only" /\ l.reported = "cuda"
                               /\ \E r \in Reloads : TakesModel(r)
    BY <1>3 DEF ValidatesRuntime
  <2>2. local = "none" /\ local' = "none"
    BY <1>0, <2>1 DEF WhisperLives, LoadsFirst
  <2>3. ASSUME NEW l \in Loads, l.reported = "cuda"
        PROVE  execution # "cpu_only" /\ device = "cuda"
    BY <2>3, LoadsAreAllowed DEF WhisperIInv
  <2> QED
    BY <2>1, <2>2, <2>3, LoadKeepsModel, ReloadKeepsModel
<1>4. CASE CleansUp
  BY <1>4 DEF CleansUp, WhisperIInv, ModelIInv, LoadsFirst, DeviceIsKnown, ModeIsKept, asked
<1>5. CASE ThreadLoads
  <2>1. PICK l \in Loads : TakesModel(l) /\ IF l.ok THEN /\ whisper' = "loop" /\ local' = l.loaded
                                                         /\ UNCHANGED <<inHand, fateVars>>
                                            ELSE Dies
    BY <1>5 DEF ThreadLoads
  <2>2. local = "none" /\ UNCHANGED asked
    BY <1>0, <1>5 DEF ThreadLoads, LoadsFirst
  <2>3. local' = "none" \/ (l.ok /\ local' = l.loaded /\ whisper' = "loop")
    BY <2>1 DEF Dies
  <2> QED
    BY <2>1, <2>2, <2>3, LoadKeepsModel
<1>6. CASE ThreadLooks
  BY <1>6 DEF ThreadLooks, WhisperIInv, ModelIInv, LoadsFirst, DeviceIsKnown, ModeIsKept, asked,
              modelVars
<1>7. CASE ThreadGets
  <2>1. UNCHANGED <<asked, modelVars, local>> /\ whisper' \notin {"none", "load", "ended"}
    BY <1>7 DEF ThreadGets
  <2> QED
    BY <2>1, CallerKeepsModel
<1>8. CASE ThreadDecodes
  <2>0. UNCHANGED asked
    BY <1>8 DEF ThreadDecodes
  <2>1. CASE whisper' = "segments" /\ UNCHANGED <<inHand, local, modelVars, fateVars>>
    BY <2>0, <2>1, CallerKeepsModel
  <2>2. CASE Dies /\ UNCHANGED modelVars
    BY <2>0, <2>2 DEF Dies, WhisperIInv, ModelIInv, LoadsFirst, DeviceIsKnown, ModeIsKept, asked,
                      modelVars
  <2>3. CASE local = "cuda" /\ reported = "cuda" /\ execution # "gpu_only"
             /\ \E r \in Reloads :
                  /\ TakesModel(r)
                  /\ \/ /\ r.ok /\ local' = "cpu" /\ whisper' = "segments"
                        /\ UNCHANGED <<inHand, fateVars>>
                     \/ Dies
    <3>1. execution # "cpu_only" /\ device = "cuda"
      BY <2>3 DEF WhisperIInv, DeviceIsKnown
    <3> QED
      BY <2>0, <2>3, <3>1, ReloadKeepsModel DEF Dies
  <2> QED
    BY <1>8, <2>1, <2>2, <2>3 DEF ThreadDecodes
<1>9. CASE ThreadReads
  <2>1. UNCHANGED <<asked, modelVars>>
    BY <1>9 DEF ThreadReads
  <2>2. CASE Dies
    BY <2>1, <2>2 DEF Dies, WhisperIInv, ModelIInv, LoadsFirst, DeviceIsKnown, ModeIsKept, asked,
                      modelVars
  <2>3. CASE whisper' = "loop" /\ UNCHANGED local
    BY <2>1, <2>3, CallerKeepsModel
  <2> QED
    BY <1>9, <2>2, <2>3 DEF ThreadReads
<1>10. CASE UNCHANGED whisperVars
  BY <1>10, CallerKeepsModel DEF whisperVars, asked, modelVars
<1> QED
  BY <1>1, <1>2, <1>3, <1>4, <1>5, <1>6, <1>7, <1>8, <1>9, <1>10 DEF WhisperNext

\* Every step keeps the invariant.
LEMMA WhisperSteps == WhisperIInv /\ [WhisperNext]_whisperVars => WhisperIInv'
<1> SUFFICES ASSUME WhisperIInv, [WhisperNext]_whisperVars PROVE WhisperIInv'
  OBVIOUS
<1>1. WhisperTypeOK'
  <2>1. CASE UNCHANGED whisperVars
    BY <2>1 DEF WhisperIInv, WhisperTypeOK, whisperVars, callerVars, threadVars, modelVars,
                fateVars
  <2> QED
    BY <2>1, CallerKeepsTypes, ThreadKeepsTypes DEF WhisperNext
<1> QED
  BY <1>1, StepKeepsPlaces, StepKeepsModel DEF WhisperIInv, ModelIInv

\* The places, one after the other, are a sequence that rises.
LEMMA OrderedPlaces == WhisperIInv => OldestFirst
<1> SUFFICES ASSUME WhisperIInv PROVE OldestFirst
  OBVIOUS
<1> DEFINE hand == IF inHand = NoChunk THEN <<>> ELSE <<inHand>>
           new == IF caller = "idle" THEN <<>> ELSE <<submits>>
           one == decoded \o hand
           two == one \o chunkQueue
           all == two \o new
<1>0. /\ decoded \in Seq(Nat) /\ chunkQueue \in Seq(Nat)
      /\ inHand \in Nat /\ submits \in Nat
  BY PlacesAre, ChunksAreNumbers DEF WhisperIInv, WhisperTypeOK
<1>1. /\ hand \in Seq(Nat) /\ ToSet(hand) = HandPlace /\ Rising(hand)
  BY <1>0 DEF ToSet, HandPlace, Rising
<1>2. /\ new \in Seq(Nat) /\ ToSet(new) = NewPlace /\ Rising(new)
  BY <1>0 DEF ToSet, NewPlace, Rising
<1>a. PlacesInOrder /\ PlacedOnce
  BY DEF WhisperIInv
<1> HIDE DEF hand, new
<1>3. one \in Seq(Nat) /\ ToSet(one) = ToSet(decoded) \cup HandPlace /\ Rising(one)
  BY <1>0, <1>1, <1>a, JoinRises DEF PlacesInOrder
<1> HIDE DEF one
<1>4. /\ two \in Seq(Nat) /\ ToSet(two) = ToSet(decoded) \cup HandPlace \cup ToSet(chunkQueue)
      /\ Rising(two)
  <2>1. Before(ToSet(one), ToSet(chunkQueue)) /\ Rising(chunkQueue)
    BY <1>3, <1>a DEF PlacesInOrder, Before
  <2> QED
    BY <1>0, <1>3, <2>1, JoinRises
<1> HIDE DEF two
<1>5. all \in Seq(Nat) /\ ToSet(all) = Placed /\ Rising(all)
  <2>1. Before(ToSet(two), NewPlace)
    BY <1>4, <1>a DEF PlacesInOrder, Before
  <2> QED
    BY <1>2, <1>4, <2>1, JoinRises DEF Placed
<1>6. \A i \in 1 .. Len(all) - 1 : all[i] < all[i + 1]
  <2>1. Len(all) \in Nat /\ DOMAIN all = 1 .. Len(all)
    BY <1>5, LenProperties
  <2>2. ASSUME NEW i \in 1 .. Len(all) - 1 PROVE all[i] < all[i + 1]
    <3>1. i \in 1 .. Len(all) /\ i + 1 \in 1 .. Len(all) /\ i < i + 1
      BY <2>1, <2>2
    <3> HIDE DEF all
    <3> QED
      BY <1>5, <2>1, <3>1 DEF Rising
  <2> QED
    BY <2>2
<1>7. ToSet(all) \cap gone = {} /\ ToSet(all) \cup gone = 1 .. submits
  BY <1>5, <1>a DEF PlacedOnce
<1> QED
  BY <1>6, <1>7 DEF OldestFirst, all, two, one, hand, new

\* Whatever the caller and the thread do and in whatever order, over stops, starts and failures
\* of the GPU, each chunk is in one place, decoded in the order it was submitted or known to be
\* gone, and the model that is used is the one that was asked for and is reported.
THEOREM ChunksKeepTheirOrder == WhisperSpec => []WhisperInv
<1>1. WhisperIInv => WhisperInv
  BY OrderedPlaces DEF WhisperIInv, WhisperInv
<1> QED
  BY <1>1, WhisperBegins, WhisperSteps, PTL DEF WhisperSpec

-----------------------------------------------------------------------------
(* TextServices: the model a call asked for, what becomes of a text, and the cache.        *)

\* What a call has said or is about to say.
RefinementFits(call) ==
  /\ call.step # "idle" => call.text \in RefinerTexts
  /\ call.step = "idle" /\ "how" \in DOMAIN call =>
       /\ call.how = "used" => call.by = call.model
       /\ call.how \in {"skipped", "fallback", "refused", "used"} =>
            /\ Tokens(call.out) = Tokens(call.text) /\ ~OtherLength(call.text, call.out)
            /\ call.how # "used" => call.out = call.text
       /\ call.how = "refused" /\ call.unchanged =>
            \E i, j \in DOMAIN call.text :
              i < j /\ call.text[i] = call.text[j] /\ call.text[i] \in LongWords

CoachingFits(call) ==
  /\ call.step # "idle" => "privacy" \in DOMAIN call /\ call.privacy # "local_only"
  /\ call.step = "idle" /\ "how" \in DOMAIN call =>
       /\ call.how = "model" => call.out.by = call.model
       /\ call.how \in {"cache", "local", "fallback", "model"} =>
            /\ call.out.text = call.text /\ call.out.privacy = call.privacy
            /\ call.out.privacy = "local_only" => call.out.by = NoModel

CallFits(c, call) ==
  /\ "step" \in DOMAIN call /\ call.step \in {"idle", "ask", "load", "complete"}
  /\ call.step # "idle" =>
       {"text", "model"} \subseteq DOMAIN call /\ call.model \in LanguageModels
  /\ call.step = "complete" => "llm" \in DOMAIN call /\ call.llm = call.model
  /\ c \in RefineCalls => RefinementFits(call)
  /\ c \in CoachCalls => CoachingFits(call)

CallsFit == DOMAIN textCall = ServiceCalls /\ \A c \in ServiceCalls : CallFits(c, textCall[c])

ModelsFit ==
  /\ servedModel \in [Services -> LanguageModels \cup {NoModel}]
  /\ modelLock \in [Services -> ServiceCalls \cup {Free}] /\ OneIsLoaded

\* Entries are of the time of their last use, no two of the same, and about what they are
\* found by.
EntriesFit(entries, clock) ==
  /\ IsFiniteSet(DOMAIN entries) /\ Cardinality(DOMAIN entries) <= CacheLimit
  /\ \A k \in DOMAIN entries :
       /\ entries[k].at \in Nat /\ entries[k].at < clock
       /\ entries[k].result.text = k[1] /\ entries[k].result.privacy = k[2]
       /\ k[2] = "local_only" => entries[k].result.by = NoModel
  /\ \A x, y \in DOMAIN entries : entries[x].at = entries[y].at => x = y

CacheFits ==
  /\ cacheClock \in Nat /\ EntriesFit(cache, cacheClock)
  /\ cacheFile # NoCacheFile => EntriesFit(cacheFile[1], cacheClock)
  /\ RestartKeepsCache

\* The calls of the coach that may still write to the cache.
Working == {c \in CoachCalls : textCall[c].step # "idle"}

BoundsFit ==
  /\ callsLeft \in Nat /\ restartsLeft \in 0 .. NServiceRestarts
  /\ cacheClock + callsLeft + Cardinality(Working) <= NCalls

TextIInv == CallsFit /\ ModelsFit /\ CacheFits /\ BoundsFit

\* A service's calls are its own.
LEMMA CallsAre ==
  /\ \A c \in ServiceCalls : ServiceOf(c) \in Services /\ c # Free
  /\ \A c \in RefineCalls : ServiceOf(c) = "refiner" /\ c \in ServiceCalls /\ c \notin CoachCalls
  /\ \A c \in CoachCalls : ServiceOf(c) = "coach" /\ c \in ServiceCalls /\ c \notin RefineCalls
  /\ IsFiniteSet(CoachCalls)
<1>1. \A c \in RefineCalls : c[1] = "refiner"
  BY DEF RefineCalls
<1>2. \A c \in CoachCalls : c[1] = "coach"
  BY DEF CoachCalls
<1>3. Free[1] = "nobody"
  BY DEF Free
<1>4. IsFiniteSet(CoachCalls)
  <2>1. IsFiniteSet({"coach"})
    BY FS_Singleton
  <2>2. 1 \in Int /\ NCoachings \in Int
    BY TextAssumption
  <2>3. IsFiniteSet(1 .. NCoachings)
    BY <2>2, FS_Interval
  <2> QED
    BY <2>1, <2>3, FS_Product DEF CoachCalls
<1> QED
  BY <1>1, <1>2, <1>3, <1>4 DEF ServiceCalls, ServiceOf, Services

\* What is kept through every step says what the services promise.
LEMMA TextFits == TextIInv => TextInv
<1> SUFFICES ASSUME TextIInv PROVE TextInv
  OBVIOUS
<1>1. Cardinality(Working) \in Nat /\ NCalls \in Nat
  <2>1. IsFiniteSet(Working)
    BY CallsAre, FS_Subset DEF Working
  <2> QED
    BY <2>1, FS_CardinalityType, TextAssumption
<1>2. cacheClock \in 0 .. NCalls /\ callsLeft \in 0 .. NCalls
  BY <1>1 DEF TextIInv, BoundsFit, CacheFits
<1>3. TextTypeOK
  BY <1>2 DEF TextIInv, TextTypeOK, CallsFit, CallFits, ModelsFit, CacheFits, EntriesFit, BoundsFit
<1>4. AskedModelAnswers /\ WordsStay /\ UnchangedIsAccepted
  BY CallsAre DEF TextIInv, CallsFit, CallFits, RefinementFits, CoachingFits, Answered,
                  AskedModelAnswers, WordsStay, UnchangedIsAccepted
<1>5. LocalStaysLocal
  BY CallsAre DEF TextIInv, CallsFit, CallFits, CoachingFits, Answered, LocalStaysLocal
<1> QED
  BY <1>3, <1>4, <1>5 DEF TextIInv, TextInv, ModelsFit, CacheFits

\* No call has begun, and nothing is cached.
LEMMA TextBegins == TextInit => TextIInv
<1> SUFFICES ASSUME TextInit PROVE TextIInv
  OBVIOUS
<1> USE DEF TextInit
<1>1. \A c \in ServiceCalls : textCall[c] = Resting
  OBVIOUS
<1>2. CallsFit
  <2>1. \A c \in ServiceCalls : CallFits(c, Resting)
    BY DEF CallFits, Resting, RefinementFits, CoachingFits
  <2> QED
    BY <1>1, <2>1 DEF CallsFit
<1>3. ModelsFit
  BY <1>1, CallsAre DEF ModelsFit, OneIsLoaded, Resting
<1>4. CacheFits
  <2>1. DOMAIN NoEntries = {} /\ IsFiniteSet({}) /\ Cardinality({}) = 0
    BY FS_EmptySet DEF NoEntries
  <2> QED
    BY <2>1, TextAssumption DEF CacheFits, EntriesFit, RestartKeepsCache
<1>5. BoundsFit
  <2>1. Working = {}
    BY <1>1, CallsAre DEF Working, Resting
  <2>2. Cardinality(Working) = 0
    BY <2>1, FS_EmptySet
  <2> QED
    BY <2>2, TextAssumption DEF BoundsFit
<1> QED
  BY <1>2, <1>3, <1>4, <1>5 DEF TextIInv

-----------------------------------------------------------------------------
(* The cache                                                                               *)

\* A set of times that is not empty has a first one.
LEMMA FirstTime ==
  ASSUME NEW S, S \subseteq Nat, S # {}
  PROVE  \E x \in S : \A y \in S : x <= y
<1> DEFINE R == {ss \in Nat \X Nat : ss[1] < ss[2]}
<1>1. IsWellFoundedOn(R, Nat)
  BY NatLessThanWellFounded DEF OpToRel
<1>2. PICK x \in S : \A y \in S : <<y, x>> \notin R
  <2> HIDE DEF R
  <2> QED
    BY <1>1, WFMin
<1>3. ASSUME NEW y \in S, y < x PROVE FALSE
  BY <1>2, <1>3
<1> QED
  BY <1>3

\* The newest entries are some of the entries, and no more than may be kept: all that are kept
\* but the oldest of them are newer than it.
LEMMA NewestFit ==
  ASSUME NEW e, IsFiniteSet(DOMAIN e), \A x \in DOMAIN e : e[x].at \in Nat,
         \A x, y \in DOMAIN e : e[x].at = e[y].at => x = y
  PROVE  /\ DOMAIN Newest(e) \subseteq DOMAIN e
         /\ IsFiniteSet(DOMAIN Newest(e)) /\ Cardinality(DOMAIN Newest(e)) <= CacheLimit
         /\ \A k \in DOMAIN Newest(e) : Newest(e)[k] = e[k]
<1> DEFINE Newer(x) == {y \in DOMAIN e : e[y].at > e[x].at}
           D == {x \in DOMAIN e : Cardinality(Newer(x)) < CacheLimit}
<1>1. DOMAIN Newest(e) = D /\ \A k \in D : Newest(e)[k] = e[k]
  BY DEF Newest
<1>2. IsFiniteSet(D) /\ Cardinality(D) \in Nat
  BY FS_Subset, FS_CardinalityType
<1>3. Cardinality(D) <= CacheLimit
  <2>1. CASE D = {}
    <3> HIDE DEF D
    <3>1. Cardinality(D) = 0
      BY <2>1, FS_EmptySet
    <3> QED
      BY <3>1, TextAssumption
  <2>2. CASE D # {}
    <3>1. PICK x \in D : \A y \in D : e[x].at <= e[y].at
      <4> DEFINE S == {e[y].at : y \in D}
      <4>1. S \subseteq Nat /\ S # {}
        BY <2>2
      <4>2. PICK t \in S : \A u \in S : t <= u
        <5> HIDE DEF S
        <5> QED
          BY <4>1, FirstTime
      <4>3. PICK x \in D : e[x].at = t
        OBVIOUS
      <4>4. \A y \in D : e[y].at \in S
        OBVIOUS
      <4> HIDE DEF S
      <4> QED
        BY <4>2, <4>3, <4>4
    <3>2. D \ {x} \subseteq Newer(x)
      <4>1. ASSUME NEW y \in D, y # x PROVE e[y].at > e[x].at
        <5>1. e[y].at # e[x].at /\ e[x].at <= e[y].at /\ e[x].at \in Nat /\ e[y].at \in Nat
          BY <3>1, <4>1
        <5> QED
          BY <5>1
      <4> QED
        BY <4>1
    <3>3. IsFiniteSet(Newer(x)) /\ Cardinality(Newer(x)) \in Nat
          /\ Cardinality(Newer(x)) < CacheLimit
      <4>1. Newer(x) \subseteq DOMAIN e
        OBVIOUS
      <4> QED
        BY <3>1, <4>1, FS_Subset, FS_CardinalityType
    <3> HIDE DEF Newer, D
    <3>4. Cardinality(D \ {x}) <= Cardinality(Newer(x))
      BY <3>2, <3>3, FS_Subset
    <3>5. Cardinality(D \ {x}) = Cardinality(D) - 1
      BY <1>2, <3>1, FS_RemoveElement
    <3> QED
      BY <1>2, <3>3, <3>4, <3>5, TextAssumption
  <2> QED
    BY <2>1, <2>2
<1> QED
  BY <1>1, <1>2, <1>3

\* An entry that is used or made now is the newest.
LEMMA PersistsFit ==
  ASSUME CacheFits, NEW text, NEW privacy, NEW result, NEW ok \in BOOLEAN,
         result.text = text, result.privacy = privacy,
         privacy = "local_only" => result.by = NoModel,
         Persists(WithEntry(Key(text, privacy), result), ok)
  PROVE  CacheFits' /\ cacheClock' = cacheClock + 1
<1> DEFINE key == Key(text, privacy)
           e == WithEntry(key, result)
<1>1. /\ cache' = Newest(e) /\ cacheClock' = cacheClock + 1
      /\ \/ cacheFile' = <<cache'>> /\ cacheBehind' = FALSE
         \/ cacheFile' \in {cacheFile, NoCacheFile} /\ cacheBehind' = TRUE
  BY DEF Persists
<1>2. key[1] = text /\ key[2] = privacy
  BY DEF Key
<1> HIDE DEF key
<1>3. /\ DOMAIN e = DOMAIN cache \cup {key}
      /\ e[key] = [result |-> result, at |-> cacheClock]
      /\ \A k \in DOMAIN cache \ {key} : e[k] = cache[k]
  BY DEF WithEntry
<1> HIDE DEF e
<1>4. /\ cacheClock \in Nat /\ IsFiniteSet(DOMAIN cache)
      /\ \A k \in DOMAIN cache :
           /\ cache[k].at \in Nat /\ cache[k].at < cacheClock
           /\ cache[k].result.text = k[1] /\ cache[k].result.privacy = k[2]
           /\ k[2] = "local_only" => cache[k].result.by = NoModel
      /\ \A x, y \in DOMAIN cache : cache[x].at = cache[y].at => x = y
  BY DEF CacheFits, EntriesFit
<1>5. IsFiniteSet(DOMAIN e)
  BY <1>3, <1>4, FS_AddElement
<1>6. \A k \in DOMAIN e :
        /\ e[k].at \in Nat /\ e[k].at < cacheClock + 1
        /\ e[k].result.text = k[1] /\ e[k].result.privacy = k[2]
        /\ k[2] = "local_only" => e[k].result.by = NoModel
  <2>1. e[key].at = cacheClock /\ e[key].result = result
    BY <1>3
  <2>2. ASSUME NEW k \in DOMAIN e, k # key
        PROVE  /\ e[k].at \in Nat /\ e[k].at < cacheClock
               /\ e[k].result.text = k[1] /\ e[k].result.privacy = k[2]
               /\ k[2] = "local_only" => e[k].result.by = NoModel
    BY <1>3, <1>4, <2>2
  <2> QED
    BY <1>2, <1>4, <2>1, <2>2
<1>7. \A x, y \in DOMAIN e : e[x].at = e[y].at => x = y
  <2>1. e[key].at = cacheClock /\ \A k \in DOMAIN e \ {key} : k \in DOMAIN cache /\ e[k] = cache[k]
    BY <1>3
  <2>2. \A k \in DOMAIN e \ {key} : e[k].at # cacheClock
    BY <1>4, <2>1
  <2> QED
    BY <1>4, <2>1, <2>2
<1>8. EntriesFit(cache', cacheClock')
  <2>1. /\ DOMAIN Newest(e) \subseteq DOMAIN e
        /\ IsFiniteSet(DOMAIN Newest(e)) /\ Cardinality(DOMAIN Newest(e)) <= CacheLimit
        /\ \A k \in DOMAIN Newest(e) : Newest(e)[k] = e[k]
    BY <1>5, <1>6, <1>7, NewestFit
  <2> DEFINE n == Newest(e)
  <2> HIDE DEF n
  <2>2. EntriesFit(n, cacheClock + 1)
    BY <1>6, <1>7, <2>1 DEF EntriesFit, n
  <2> QED
    BY <1>1, <2>2 DEF n
<1>9. cacheFile' # NoCacheFile => EntriesFit(cacheFile'[1], cacheClock')
  <2>1. CASE cacheFile' = <<cache'>>
    BY <1>8, <2>1
  <2>2. CASE cacheFile' = cacheFile
    <3>1. \A x : EntriesFit(x, cacheClock) => EntriesFit(x, cacheClock + 1)
      BY <1>4 DEF EntriesFit
    <3> QED
      BY <1>1, <2>2, <3>1 DEF CacheFits
  <2> QED
    BY <1>1, <2>1, <2>2
<1>10. RestartKeepsCache'
  BY <1>1 DEF RestartKeepsCache, NoCacheFile
<1> QED
  BY <1>1, <1>4, <1>8, <1>9, <1>10 DEF CacheFits

-----------------------------------------------------------------------------
(* Texts                                                                                   *)

\* The fields of an updated record.
LEMMA UpdatedAre ==
  ASSUME NEW r, NEW fields
  PROVE  /\ DOMAIN Updated(r, fields) = DOMAIN r \cup DOMAIN fields
         /\ \A f \in DOMAIN fields : Updated(r, fields)[f] = fields[f]
         /\ \A f \in DOMAIN r \ DOMAIN fields : Updated(r, fields)[f] = r[f]
BY DEF Updated

\* A text has as many words as itself.
LEMMA NoOtherLength == \A text \in RefinerTexts : ~OtherLength(text, text)
<1> SUFFICES ASSUME NEW text \in RefinerTexts PROVE ~OtherLength(text, text)
  OBVIOUS
<1>1. Len(text) \in Nat
  BY TextAssumption
<1> QED
  BY <1>1 DEF OtherLength

\* A text in which no long word comes twice is accepted when it comes back unchanged: each of
\* its placeholders is there once, and restoring them gives the text.
LEMMA UnchangedPasses ==
  ASSUME NEW text \in RefinerTexts,
         ~ \E i, j \in DOMAIN text : i < j /\ text[i] = text[j] /\ text[i] \in LongWords
  PROVE  Accepts(text, Protected(text))
<1> DEFINE n == Len(text)
<1>1. text \in Seq(Word) /\ text # <<>>
  BY TextAssumption
<1>2. DOMAIN text = 1 .. n /\ n \in Nat /\ n >= 1 /\ text \in [1 .. n -> Word]
  BY <1>1
<1> HIDE DEF n
<1> DEFINE p == Protected(text)
<1>3. /\ DOMAIN p = 1 .. n
      /\ \A i \in 1 .. n : text[i] \in LongWords => p[i] = Keep(text[i])
      /\ \A i \in 1 .. n : text[i] \notin LongWords => p[i] = text[i]
  BY <1>2 DEF Protected
<1>4. \A v, w : Keep(v) = Keep(w) => v = w
  BY DEF Keep
<1>5. \A i \in 1 .. n : \A w \in LongWords : p[i] = Keep(w) => text[i] = w
  <2>1. \A i \in 1 .. n : text[i] \in Word
    BY <1>2
  <2>2. \A w \in LongWords : Keep(w) \notin Word
    BY TextAssumption DEF Word
  <2> QED
    BY <1>3, <1>4, <2>1, <2>2
<1>6. p # <<>>
  <2>1. 1 \in DOMAIN p
    BY <1>2, <1>3
  <2> QED
    BY <2>1
<1>7. PlaceholdersIntact(p, text)
  <2> SUFFICES ASSUME NEW w \in Kept(text)
               PROVE  Cardinality({i \in DOMAIN p : p[i] = Keep(w)}) = 1
    BY DEF PlaceholdersIntact
  <2>1. PICK k \in 1 .. n : text[k] = w
    BY <1>2 DEF Kept, ToSet
  <2>2. w \in LongWords
    BY DEF Kept
  <2>3. \A i \in 1 .. n : p[i] = Keep(w) => i = k
    BY <1>2, <1>5, <2>1, <2>2
  <2>4. {i \in DOMAIN p : p[i] = Keep(w)} = {k}
    BY <1>3, <2>1, <2>2, <2>3
  <2> QED
    BY <2>4, FS_Singleton
<1>8. Restored(p, text) = text
  <2>1. ASSUME NEW i \in 1 .. n PROVE Restored(p, text)[i] = text[i]
    <3> HIDE DEF p
    <3>1. CASE \E w \in Kept(text) : p[i] = Keep(w)
      <4>1. Restored(p, text)[i] = CHOOSE w \in Kept(text) : p[i] = Keep(w)
        BY <1>3, <3>1 DEF Restored
      <4>2. \A w \in Kept(text) : p[i] = Keep(w) => text[i] = w
        BY <1>5 DEF Kept
      <4> QED
        BY <3>1, <4>1, <4>2
    <3>2. CASE ~ \E w \in Kept(text) : p[i] = Keep(w)
      <4>1. Restored(p, text)[i] = p[i]
        BY <1>3, <3>2 DEF Restored
      <4>2. text[i] \notin LongWords
        <5>1. text[i] \in ToSet(text)
          BY <1>2 DEF ToSet
        <5> QED
          BY <1>3, <3>2, <5>1 DEF Kept
      <4> QED
        BY <1>3, <4>1, <4>2
    <3> QED
      BY <3>1, <3>2
  <2>2. DOMAIN Restored(p, text) = 1 .. n
    BY <1>3 DEF Restored
  <2>3. Restored(p, text) = [i \in DOMAIN Restored(p, text) |-> Restored(p, text)[i]]
    BY DEF Restored
  <2>4. text = [i \in 1 .. n |-> text[i]]
    BY <1>2
  <2> QED
    BY <2>1, <2>2, <2>3, <2>4
<1>9. ~UnsafeRewrite(text, text)
  BY NoOtherLength DEF UnsafeRewrite
<1> QED
  BY <1>6, <1>7, <1>8, <1>9 DEF Accepts

\* What becomes of a text.
LEMMA JudgedFits ==
  ASSUME NEW text \in RefinerTexts, NEW judged \in Judgements[text]
  PROVE  /\ DOMAIN judged = {"how", "out", "unchanged"} /\ judged.how \in {"used", "refused"}
         /\ Tokens(judged.out) = Tokens(text) /\ ~OtherLength(text, judged.out)
         /\ judged.how = "refused" => judged.out = text
         /\ judged.how = "refused" /\ judged.unchanged =>
              \E i, j \in DOMAIN text :
                i < j /\ text[i] = text[j] /\ text[i] \in LongWords
<1>1. PICK answer \in AnswersTo(text) : judged = Judged(text, answer)
  BY DEF Judgements
<1>2. /\ DOMAIN judged = {"how", "out", "unchanged"}
      /\ judged.how = IF Accepts(text, answer) THEN "used" ELSE "refused"
      /\ judged.out = IF Accepts(text, answer) THEN Restored(answer, text) ELSE text
      /\ judged.unchanged = (answer = Protected(text))
  BY <1>1 DEF Judged
<1>3. Accepts(text, answer) => /\ Tokens(Restored(answer, text)) = Tokens(text)
                               /\ ~OtherLength(text, Restored(answer, text))
  BY DEF Accepts, UnsafeRewrite
<1>5. ~OtherLength(text, text)
  BY NoOtherLength
<1>4. answer = Protected(text) /\ ~Accepts(text, answer) =>
        \E i, j \in DOMAIN text : i < j /\ text[i] = text[j] /\ text[i] \in LongWords
  BY UnchangedPasses
<1> QED
  BY <1>2, <1>3, <1>4, <1>5

-----------------------------------------------------------------------------
(* Steps                                                                                   *)

\* One call goes on: the others are where they were.
LEMMA CallSteps ==
  ASSUME CallsFit, NEW c \in ServiceCalls, NEW r, CallFits(c, r),
         textCall' = [textCall EXCEPT ![c] = r]
  PROVE  /\ CallsFit' /\ textCall'[c] = r
         /\ \A d \in ServiceCalls \ {c} : textCall'[d] = textCall[d]
<1>1. DOMAIN textCall' = ServiceCalls /\ textCall'[c] = r
  BY DEF CallsFit
<1>2. \A d \in ServiceCalls \ {c} : textCall'[d] = textCall[d]
  BY DEF CallsFit
<1>3. \A d \in ServiceCalls : CallFits(d, textCall'[d])
  BY <1>1, <1>2 DEF CallsFit
<1> QED
  BY <1>1, <1>2, <1>3 DEF CallsFit

\* How many calls of the coach are under way, when one call goes on.
LEMMA WorkingChanges ==
  ASSUME NEW c \in ServiceCalls, \A d \in ServiceCalls \ {c} : textCall'[d] = textCall[d]
  PROVE  /\ Cardinality(Working) \in Nat /\ Cardinality(Working') \in Nat
         /\ Cardinality(Working') <= Cardinality(Working) + 1
         /\ textCall'[c].step = "idle" \/ textCall[c].step # "idle" \/ c \notin CoachCalls =>
              Cardinality(Working') <= Cardinality(Working)
         /\ c \in CoachCalls /\ textCall[c].step # "idle" /\ textCall'[c].step = "idle" =>
              Cardinality(Working') + 1 <= Cardinality(Working)
<1>1. Working \subseteq CoachCalls /\ Working' \subseteq CoachCalls
  BY DEF Working
<1>2. IsFiniteSet(Working) /\ IsFiniteSet(Working')
  BY <1>1, CallsAre, FS_Subset
<1>3. Cardinality(Working) \in Nat /\ Cardinality(Working') \in Nat
  BY <1>2, FS_CardinalityType
<1>4. \A d \in CoachCalls \ {c} : d \in Working <=> d \in Working'
  BY CallsAre DEF Working
<1>5. c \in Working <=> c \in CoachCalls /\ textCall[c].step # "idle"
  BY DEF Working
<1>6. c \in Working' <=> c \in CoachCalls /\ textCall'[c].step # "idle"
  BY DEF Working
<1>7. Working' \subseteq Working \cup {c}
  BY <1>1, <1>4
<1>8. IsFiniteSet(Working \cup {c}) /\ Cardinality(Working \cup {c}) \in Nat
      /\ Cardinality(Working \cup {c}) <= Cardinality(Working) + 1
  <2>1. /\ IsFiniteSet(Working \cup {c})
        /\ Cardinality(Working \cup {c}) =
             IF c \in Working THEN Cardinality(Working) ELSE Cardinality(Working) + 1
    BY <1>2, FS_AddElement
  <2> QED
    BY <1>3, <2>1
<1>9. Cardinality(Working') <= Cardinality(Working) + 1
  <2>1. Cardinality(Working') <= Cardinality(Working \cup {c})
    BY <1>7, <1>8, FS_Subset
  <2> QED
    BY <1>3, <1>8, <2>1
<1>10. textCall'[c].step = "idle" \/ textCall[c].step # "idle" \/ c \notin CoachCalls =>
         Cardinality(Working') <= Cardinality(Working)
  <2> SUFFICES ASSUME textCall'[c].step = "idle" \/ textCall[c].step # "idle" \/ c \notin CoachCalls
               PROVE  Cardinality(Working') <= Cardinality(Working)
    OBVIOUS
  <2>1. Working' \subseteq Working
    BY <1>1, <1>4, <1>5, <1>6
  <2> QED
    BY <1>2, <2>1, FS_Subset
<1>11. c \in CoachCalls /\ textCall[c].step # "idle" /\ textCall'[c].step = "idle" =>
         Cardinality(Working') + 1 <= Cardinality(Working)
  <2> SUFFICES ASSUME c \in CoachCalls, textCall[c].step # "idle", textCall'[c].step = "idle"
               PROVE  Cardinality(Working') + 1 <= Cardinality(Working)
    OBVIOUS
  <2>1. Working' \subseteq Working \ {c} /\ c \in Working
    BY <1>1, <1>4, <1>5, <1>6
  <2>2. IsFiniteSet(Working \ {c}) /\ Cardinality(Working \ {c}) = Cardinality(Working) - 1
    BY <1>2, <2>1, FS_RemoveElement
  <2>3. Cardinality(Working') <= Cardinality(Working \ {c})
    BY <2>1, <2>2, FS_Subset
  <2> QED
    BY <1>3, <2>2, <2>3
<1> QED
  BY <1>3, <1>9, <1>10, <1>11

\* A step of a call that leaves the cache alone.
LEMMA CacheRests ==
  ASSUME TextIInv, UNCHANGED cacheVars
  PROVE  CacheFits'
BY DEF TextIInv, CacheFits, RestartKeepsCache, cacheVars

\* A call that goes on asks for what it asked for.
LEMMA AskedFits ==
  ASSUME NEW c, NEW old, NEW r, CallFits(c, old), old.step # "idle",
         DOMAIN old \subseteq DOMAIN r, r.step \in {"load", "complete"},
         r.text = old.text, r.model = old.model,
         "privacy" \in DOMAIN old => r.privacy = old.privacy,
         r.step = "complete" => "llm" \in DOMAIN r /\ r.llm = r.model
  PROVE  CallFits(c, r)
<1>1. /\ "step" \in DOMAIN r /\ r.step # "idle"
      /\ {"text", "model"} \subseteq DOMAIN r /\ r.model \in LanguageModels
  BY DEF CallFits
<1>2. c \in RefineCalls => RefinementFits(r)
  BY <1>1 DEF CallFits, RefinementFits
<1>3. c \in CoachCalls => CoachingFits(r)
  BY <1>1 DEF CallFits, CoachingFits
<1> QED
  BY <1>1, <1>2, <1>3 DEF CallFits

\* A call finds its model, or takes the lock to load it.
LEMMA TakesLockFits == ASSUME TextIInv, NEW c \in ServiceCalls, TakesLock(c) PROVE TextIInv'
<1> DEFINE s == ServiceOf(c)
           old == textCall[c]
<1>1. CallsFit /\ ModelsFit /\ BoundsFit /\ CallFits(c, old) /\ old.step = "ask"
  BY DEF TextIInv, CallsFit, TakesLock
<1>2. PICK r : /\ textCall' = [textCall EXCEPT ![c] = r] /\ CallFits(c, r)
               /\ \/ r.step = "complete" /\ modelLock' = modelLock
                  \/ r.step = "load" /\ modelLock' = [modelLock EXCEPT ![s] = c]
  <2>1. CASE servedModel[s] = old.model
    <3> DEFINE fields == [step |-> "complete", llm |-> servedModel[s]]
               r == Updated(old, fields)
    <3>1. /\ DOMAIN fields = {"step", "llm"}
          /\ fields["step"] = "complete" /\ fields["llm"] = old.model
      BY <2>1
    <3> HIDE DEF fields
    <3>2. /\ DOMAIN r = DOMAIN old \cup {"step", "llm"}
          /\ r.step = "complete" /\ r.llm = old.model
          /\ \A f \in DOMAIN old \ {"step", "llm"} : r[f] = old[f]
      <4>1. /\ DOMAIN r = DOMAIN old \cup DOMAIN fields
            /\ \A f \in DOMAIN fields : r[f] = fields[f]
            /\ \A f \in DOMAIN old \ DOMAIN fields : r[f] = old[f]
        BY UpdatedAre
      <4> HIDE DEF r
      <4> QED
        BY <3>1, <4>1
    <3> HIDE DEF r
    <3>3. r.model = old.model /\ r.text = old.text
          /\ ("privacy" \in DOMAIN old => r.privacy = old.privacy)
      BY <1>1, <3>2 DEF CallFits
    <3>4. CallFits(c, r)
      BY <1>1, <3>2, <3>3, AskedFits
    <3>5. textCall' = [textCall EXCEPT ![c] = r] /\ modelLock' = modelLock
      BY <2>1 DEF TakesLock, Steps, r, fields
    <3> QED
      BY <3>2, <3>4, <3>5
  <2>2. CASE servedModel[s] # old.model
    <3> DEFINE fields == [step |-> "load"]
               r == Updated(old, fields)
    <3>1. DOMAIN fields = {"step"} /\ fields["step"] = "load"
      OBVIOUS
    <3> HIDE DEF fields
    <3>2. /\ DOMAIN r = DOMAIN old \cup {"step"} /\ r.step = "load"
          /\ \A f \in DOMAIN old \ {"step"} : r[f] = old[f]
      <4>1. /\ DOMAIN r = DOMAIN old \cup DOMAIN fields
            /\ \A f \in DOMAIN fields : r[f] = fields[f]
            /\ \A f \in DOMAIN old \ DOMAIN fields : r[f] = old[f]
        BY UpdatedAre
      <4> HIDE DEF r
      <4> QED
        BY <3>1, <4>1
    <3> HIDE DEF r
    <3>3. r.model = old.model /\ r.text = old.text
          /\ ("privacy" \in DOMAIN old => r.privacy = old.privacy)
      BY <1>1, <3>2 DEF CallFits
    <3>4. CallFits(c, r)
      BY <1>1, <3>2, <3>3, AskedFits
    <3>5. textCall' = [textCall EXCEPT ![c] = r] /\ modelLock' = [modelLock EXCEPT ![s] = c]
      BY <2>2 DEF TakesLock, Steps, r, fields
    <3> QED
      BY <3>2, <3>4, <3>5
  <2> QED
    BY <2>1, <2>2
<1>3. /\ CallsFit' /\ textCall'[c] = r
      /\ \A d \in ServiceCalls \ {c} : textCall'[d] = textCall[d]
  BY <1>1, <1>2, CallSteps
<1>4. ModelsFit'
  <2>1. servedModel' = servedModel /\ modelLock[s] = Free /\ s \in Services
    BY CallsAre DEF TakesLock
  <2>2. modelLock' \in [Services -> ServiceCalls \cup {Free}]
    BY <1>1, <1>2 DEF ModelsFit
  <2>3. ASSUME NEW d \in ServiceCalls
        PROVE  textCall'[d].step = "load" <=> modelLock'[ServiceOf(d)] = d
    <3>1. ServiceOf(d) \in Services /\ d # Free /\ c # Free
      BY CallsAre
    <3>2. textCall[d].step = "load" <=> modelLock[ServiceOf(d)] = d
      BY <1>1 DEF ModelsFit, OneIsLoaded
    <3>3. DOMAIN modelLock = Services
      BY <1>1 DEF ModelsFit
    <3>4. CASE d = c
      BY <1>2, <1>3, <2>1, <3>1, <3>3, <3>4
    <3>5. CASE d # c
      BY <1>2, <1>3, <2>1, <3>1, <3>2, <3>3, <3>5
    <3> QED
      BY <3>4, <3>5
  <2> QED
    BY <1>1, <2>1, <2>2, <2>3 DEF ModelsFit, OneIsLoaded
<1>5. CacheFits'
  BY CacheRests DEF TakesLock
<1>6. BoundsFit'
  <2>1. Cardinality(Working) \in Nat /\ Cardinality(Working') \in Nat
        /\ Cardinality(Working') <= Cardinality(Working)
    BY <1>1, <1>3, WorkingChanges
  <2>2. callsLeft' = callsLeft /\ restartsLeft' = restartsLeft /\ cacheClock' = cacheClock
        /\ cacheClock \in Nat /\ NCalls \in Nat
    BY TextAssumption DEF TakesLock, cacheVars, TextIInv, CacheFits
  <2> QED
    BY <1>1, <2>1, <2>2 DEF BoundsFit
<1> QED
  BY <1>3, <1>4, <1>5, <1>6 DEF TextIInv

\* A call that neither takes nor gives the lock.
LEMMA ModelsRest ==
  ASSUME ModelsFit, NEW c \in ServiceCalls,
         \A d \in ServiceCalls \ {c} : textCall'[d] = textCall[d],
         textCall[c].step # "load", textCall'[c].step # "load",
         UNCHANGED <<servedModel, modelLock>>
  PROVE  ModelsFit'
<1>1. \A d \in ServiceCalls : textCall'[d].step = "load" <=> textCall[d].step = "load"
  OBVIOUS
<1> QED
  BY <1>1 DEF ModelsFit, OneIsLoaded

\* A call gives the lock back, whether it has loaded its model or not.
LEMMA LockIsGiven ==
  ASSUME ModelsFit, NEW c \in ServiceCalls,
         \A d \in ServiceCalls \ {c} : textCall'[d] = textCall[d],
         textCall[c].step = "load", textCall'[c].step # "load",
         modelLock' = [modelLock EXCEPT ![ServiceOf(c)] = Free],
         servedModel' \in [Services -> LanguageModels \cup {NoModel}]
  PROVE  ModelsFit'
<1> DEFINE s == ServiceOf(c)
<1>1. modelLock[s] = c /\ s \in Services
  BY CallsAre DEF ModelsFit, OneIsLoaded
<1>2. modelLock' \in [Services -> ServiceCalls \cup {Free}]
  BY DEF ModelsFit
<1>3. modelLock'[s] = Free /\ \A t \in Services \ {s} : modelLock'[t] = modelLock[t]
  BY <1>1 DEF ModelsFit
<1>4. ASSUME NEW d \in ServiceCalls
      PROVE  textCall'[d].step = "load" <=> modelLock'[ServiceOf(d)] = d
  <2>1. /\ textCall[d].step = "load" <=> modelLock[ServiceOf(d)] = d
        /\ ServiceOf(d) \in Services /\ d # Free
    BY CallsAre DEF ModelsFit, OneIsLoaded
  <2>2. CASE d = c
    BY <1>3, <2>1, <2>2
  <2>3. CASE d # c /\ ServiceOf(d) = s
    BY <1>1, <1>3, <2>1, <2>3
  <2>4. CASE d # c /\ ServiceOf(d) # s
    BY <1>3, <2>1, <2>4
  <2> QED
    BY <2>2, <2>3, <2>4
<1> QED
  BY <1>2, <1>4 DEF ModelsFit, OneIsLoaded

\* A call that takes no time from the clock.
LEMMA BoundsRest ==
  ASSUME TextIInv, NEW c \in ServiceCalls,
         \A d \in ServiceCalls \ {c} : textCall'[d] = textCall[d],
         textCall[c].step # "idle" \/ c \in RefineCalls,
         callsLeft' \in Nat, callsLeft' <= callsLeft, UNCHANGED <<restartsLeft, cacheClock>>
  PROVE  BoundsFit'
<1>1. /\ Cardinality(Working) \in Nat /\ Cardinality(Working') \in Nat
      /\ Cardinality(Working') <= Cardinality(Working)
  BY WorkingChanges, CallsAre
<1>2. /\ cacheClock \in Nat /\ callsLeft \in Nat /\ NCalls \in Nat
      /\ cacheClock + callsLeft + Cardinality(Working) <= NCalls
  BY TextAssumption DEF TextIInv, CacheFits, BoundsFit
<1>3. cacheClock' + callsLeft' + Cardinality(Working') <= NCalls
  BY <1>1, <1>2
<1> QED
  BY <1>3 DEF BoundsFit, TextIInv

\* A call that was at old has ended, as r, with the fields given.
Ended(r, old, fields) ==
  /\ DOMAIN r = DOMAIN old \cup DOMAIN fields \cup {"step"}
  /\ r["step"] = "idle" /\ \A f \in DOMAIN fields \ {"step"} : r[f] = fields[f]
  /\ \A f \in DOMAIN old \ (DOMAIN fields \cup {"step"}) : r[f] = old[f]

\* The call after its end.
LEMMA EndsAs ==
  ASSUME CallsFit, NEW c \in ServiceCalls, NEW fields, Ends(c, fields)
  PROVE  \E r : textCall' = [textCall EXCEPT ![c] = r] /\ Ended(r, textCall[c], fields)
<1> DEFINE idle == [step |-> "idle"]
           new == Updated(fields, idle)
           r == Updated(textCall[c], new)
<1>1. textCall' = [textCall EXCEPT ![c] = r]
  BY DEF Ends, Steps
<1>2. DOMAIN idle = {"step"} /\ idle["step"] = "idle"
  OBVIOUS
<1>3. /\ DOMAIN new = DOMAIN fields \cup DOMAIN idle
      /\ \A f \in DOMAIN idle : new[f] = idle[f]
      /\ \A f \in DOMAIN fields \ DOMAIN idle : new[f] = fields[f]
  BY UpdatedAre
<1>4. /\ DOMAIN r = DOMAIN textCall[c] \cup DOMAIN new
      /\ \A f \in DOMAIN new : r[f] = new[f]
      /\ \A f \in DOMAIN textCall[c] \ DOMAIN new : r[f] = textCall[c][f]
  BY UpdatedAre
<1> HIDE DEF idle, new, r
<1>5. DOMAIN new = DOMAIN fields \cup {"step"} /\ new["step"] = "idle"
      /\ \A f \in DOMAIN fields \ {"step"} : new[f] = fields[f]
  BY <1>2, <1>3
<1>6. Ended(r, textCall[c], fields)
  BY <1>4, <1>5 DEF Ended
<1> QED
  BY <1>1, <1>6

\* A model is loaded for the call that has the lock.
LEMMA LoadsModelFits == ASSUME TextIInv, NEW c \in ServiceCalls, LoadsModel(c) PROVE TextIInv'
<1> DEFINE s == ServiceOf(c)
           old == textCall[c]
           fields == [step |-> "complete", llm |-> old.model]
           r == Updated(old, fields)
<1>1. CallsFit /\ ModelsFit /\ BoundsFit /\ CallFits(c, old) /\ old.step = "load"
  BY DEF TextIInv, CallsFit, LoadsModel
<1>2. textCall' = [textCall EXCEPT ![c] = r]
  BY DEF LoadsModel, Steps
<1>3. /\ DOMAIN fields = {"step", "llm"}
      /\ fields["step"] = "complete" /\ fields["llm"] = old.model
  OBVIOUS
<1>4. /\ DOMAIN r = DOMAIN old \cup DOMAIN fields
      /\ \A f \in DOMAIN fields : r[f] = fields[f]
      /\ \A f \in DOMAIN old \ DOMAIN fields : r[f] = old[f]
  <2> HIDE DEF fields, old
  <2> QED
    BY UpdatedAre
<1> HIDE DEF fields, r
<1>5. /\ DOMAIN r = DOMAIN old \cup {"step", "llm"}
      /\ r.step = "complete" /\ r.llm = old.model
      /\ \A f \in DOMAIN old \ {"step", "llm"} : r[f] = old[f]
  BY <1>3, <1>4
<1>6. r.model = old.model /\ r.text = old.text
      /\ ("privacy" \in DOMAIN old => r.privacy = old.privacy)
  BY <1>1, <1>5 DEF CallFits
<1>7. CallFits(c, r)
  BY <1>1, <1>5, <1>6, AskedFits
<1>8. /\ CallsFit' /\ textCall'[c] = r
      /\ \A d \in ServiceCalls \ {c} : textCall'[d] = textCall[d]
  BY <1>1, <1>2, <1>7, CallSteps
<1>9. ModelsFit'
  <2>1. old.model \in LanguageModels
    BY <1>1 DEF CallFits
  <2>2. servedModel' \in [Services -> LanguageModels \cup {NoModel}]
    BY <1>1, <2>1 DEF LoadsModel, ModelsFit
  <2>3. modelLock' = [modelLock EXCEPT ![s] = Free]
    BY DEF LoadsModel
  <2> QED
    BY <1>1, <1>5, <1>8, <2>2, <2>3, LockIsGiven
<1>10. CacheFits' /\ BoundsFit'
  <2>1. UNCHANGED <<cacheVars, callsLeft, restartsLeft>> /\ UNCHANGED cacheClock
    BY DEF LoadsModel, cacheVars
  <2> QED
    BY <1>1, <1>8, <2>1, CacheRests, BoundsRest DEF BoundsFit
<1> QED
  BY <1>8, <1>9, <1>10 DEF TextIInv

\* A call without its model gives the text back, or a fallback.
LEMMA LoadFailsFits == ASSUME TextIInv, NEW c \in ServiceCalls, LoadFails(c) PROVE TextIInv'
<1> DEFINE old == textCall[c]
           out == IF c \in RefineCalls THEN old.text ELSE Result(old.text, old.privacy, NoModel)
           fields == [how |-> "fallback", out |-> out]
<1>1. CallsFit /\ ModelsFit /\ BoundsFit /\ CallFits(c, old) /\ old.step = "load"
  BY DEF TextIInv, CallsFit, LoadFails
<1>2. /\ DOMAIN fields = {"how", "out"} /\ fields["how"] = "fallback" /\ fields["out"] = out
  OBVIOUS
<1>3. Ends(c, fields)
  BY DEF LoadFails
<1> HIDE DEF fields, out
<1>4. PICK r : textCall' = [textCall EXCEPT ![c] = r] /\ Ended(r, old, fields)
  BY <1>1, <1>3, EndsAs
<1>5. /\ "step" \in DOMAIN r /\ r.step = "idle" /\ r.how = "fallback" /\ r.out = out
      /\ r.text = old.text /\ ("privacy" \in DOMAIN old => r.privacy = old.privacy)
  BY <1>1, <1>2, <1>4 DEF CallFits, Ended
<1>6. CallFits(c, r)
  <2>1. c \in RefineCalls => RefinementFits(r)
    <3> SUFFICES ASSUME c \in RefineCalls PROVE RefinementFits(r)
      OBVIOUS
    <3>1. old.text \in RefinerTexts
      BY <1>1 DEF CallFits, RefinementFits, LoadFails
    <3>2. ~OtherLength(old.text, old.text)
      BY <3>1, NoOtherLength
    <3> QED
      BY <1>5, <3>2 DEF RefinementFits, out
  <2>2. c \in CoachCalls => CoachingFits(r)
    <3> SUFFICES ASSUME c \in CoachCalls PROVE CoachingFits(r)
      OBVIOUS
    <3>1. "privacy" \in DOMAIN old
      BY <1>1 DEF CallFits, CoachingFits
    <3>2. out = Result(old.text, old.privacy, NoModel)
      BY CallsAre DEF out
    <3>3. out.text = old.text /\ out.privacy = old.privacy /\ out.by = NoModel
      BY <3>2 DEF Result
    <3> QED
      BY <1>5, <3>1, <3>3 DEF CoachingFits
  <2> QED
    BY <1>5, <2>1, <2>2 DEF CallFits
<1>7. /\ CallsFit' /\ textCall'[c] = r
      /\ \A d \in ServiceCalls \ {c} : textCall'[d] = textCall[d]
  BY <1>1, <1>4, <1>6, CallSteps
<1>8. ModelsFit'
  <2>1. servedModel' \in [Services -> LanguageModels \cup {NoModel}]
    BY <1>1 DEF LoadFails, ModelsFit
  <2>2. modelLock' = [modelLock EXCEPT ![ServiceOf(c)] = Free]
    BY DEF LoadFails
  <2> QED
    BY <1>1, <1>5, <1>7, <2>1, <2>2, LockIsGiven
<1>9. CacheFits' /\ BoundsFit'
  <2>1. UNCHANGED <<cacheVars, callsLeft, restartsLeft>> /\ UNCHANGED cacheClock
    BY DEF LoadFails, cacheVars
  <2> QED
    BY <1>1, <1>7, <2>1, CacheRests, BoundsRest DEF BoundsFit
<1> QED
  BY <1>7, <1>8, <1>9 DEF TextIInv

\* Unloading the model of the refiner disturbs no call that uses it.
LEMMA UnloadsFits == ASSUME TextIInv, Unloads PROVE TextIInv'
<1>1. /\ CallsFit /\ ModelsFit /\ BoundsFit
      /\ UNCHANGED <<modelLock, textCall, cacheVars, callsLeft, restartsLeft>>
  BY DEF TextIInv, Unloads
<1>2. CallsFit' /\ CacheFits'
  BY <1>1, CacheRests DEF CallsFit
<1>3. ModelsFit'
  BY <1>1 DEF ModelsFit, OneIsLoaded, Unloads
<1>4. BoundsFit'
  <2>1. Working' = Working /\ cacheClock' = cacheClock
    BY <1>1 DEF Working, cacheVars
  <2> QED
    BY <1>1, <2>1 DEF BoundsFit
<1> QED
  BY <1>2, <1>3, <1>4 DEF TextIInv

\* A text is taken as it is, or its model is asked for.
LEMMA RefineTextFits == ASSUME TextIInv, NEW c \in RefineCalls, RefineText(c) PROVE TextIInv'
<1>1. CallsFit /\ ModelsFit /\ BoundsFit /\ c \in ServiceCalls /\ c \notin CoachCalls
  BY CallsAre DEF TextIInv
<1>2. PICK r : /\ textCall' = [textCall EXCEPT ![c] = r]
               /\ CallFits(c, r) /\ r.step \in {"ask", "idle"}
  <2>1. PICK text \in RefinerTexts :
          \/ \E m \in LanguageModels :
               textCall' = [textCall EXCEPT ![c] = [step |-> "ask", text |-> text, model |-> m]]
          \/ textCall' = [textCall EXCEPT ![c] = [step |-> "idle", text |-> text,
                                                  how |-> "skipped", out |-> text]]
    BY DEF RefineText
  <2>2. ASSUME NEW m \in LanguageModels
        PROVE  CallFits(c, [step |-> "ask", text |-> text, model |-> m])
    BY <1>1 DEF CallFits, RefinementFits
  <2>3. CallFits(c, [step |-> "idle", text |-> text, how |-> "skipped", out |-> text])
    BY <1>1, NoOtherLength DEF CallFits, RefinementFits
  <2> QED
    BY <2>1, <2>2, <2>3
<1>3. /\ CallsFit' /\ textCall'[c] = r
      /\ \A d \in ServiceCalls \ {c} : textCall'[d] = textCall[d]
  BY <1>1, <1>2, CallSteps
<1>4. ModelsFit'
  BY <1>1, <1>2, <1>3, ModelsRest DEF RefineText, Idles
<1>5. CacheFits'
  BY CacheRests DEF RefineText
<1>6. BoundsFit'
  <2>1. callsLeft' \in Nat /\ callsLeft' <= callsLeft /\ UNCHANGED <<restartsLeft, cacheClock>>
    BY <1>1 DEF RefineText, Idles, cacheVars, BoundsFit
  <2> QED
    BY <1>1, <1>3, <2>1, BoundsRest
<1> QED
  BY <1>3, <1>4, <1>5, <1>6 DEF TextIInv

\* The answer of a model is used or refused.
LEMMA RefinesFits == ASSUME TextIInv, NEW c \in RefineCalls, Refines(c) PROVE TextIInv'
<1> DEFINE old == textCall[c]
<1>1. /\ CallsFit /\ ModelsFit /\ BoundsFit /\ c \in ServiceCalls /\ c \notin CoachCalls
      /\ CallFits(c, old) /\ old.step = "complete" /\ old.text \in RefinerTexts
      /\ {"step", "text", "model", "llm"} \subseteq DOMAIN old /\ old.llm = old.model
  BY CallsAre DEF TextIInv, CallsFit, Refines, CallFits, RefinementFits
<1>b. CallsFit /\ c \in ServiceCalls
  BY <1>1
<1>2. PICK r : /\ textCall' = [textCall EXCEPT ![c] = r]
               /\ CallFits(c, r) /\ r.step = "idle"
  <2>1. CASE Ends(c, [how |-> "fallback", out |-> old.text, llm |-> old.llm])
    <3> DEFINE fields == [how |-> "fallback", out |-> old.text, llm |-> old.llm]
    <3>1. /\ DOMAIN fields = {"how", "out", "llm"}
          /\ fields["how"] = "fallback" /\ fields["out"] = old.text
      OBVIOUS
    <3>2. Ends(c, fields)
      BY <2>1
    <3> HIDE DEF fields
    <3>3. PICK r : textCall' = [textCall EXCEPT ![c] = r] /\ Ended(r, old, fields)
      BY <1>b, <3>2, EndsAs
    <3>4. /\ "step" \in DOMAIN r /\ r.step = "idle" /\ r.how = "fallback"
          /\ r.out = old.text /\ r.text = old.text
      BY <1>1, <3>1, <3>3 DEF Ended
    <3> QED
      BY <1>1, <3>3, <3>4, NoOtherLength DEF CallFits, RefinementFits
  <2>2. ASSUME NEW judged \in Judgements[old.text], Ends(c, Updated(judged, [by |-> old.llm]))
        PROVE  \E r : /\ textCall' = [textCall EXCEPT ![c] = r]
                      /\ CallFits(c, r) /\ r.step = "idle"
    <3> DEFINE by == [by |-> old.llm]
               fields == Updated(judged, by)
    <3>1. /\ DOMAIN judged = {"how", "out", "unchanged"} /\ judged.how \in {"used", "refused"}
          /\ Tokens(judged.out) = Tokens(old.text) /\ ~OtherLength(old.text, judged.out)
          /\ judged.how = "refused" => judged.out = old.text
          /\ judged.how = "refused" /\ judged.unchanged =>
               \E i, j \in DOMAIN old.text :
                 i < j /\ old.text[i] = old.text[j] /\ old.text[i] \in LongWords
      BY <1>1, <2>2, JudgedFits
    <3>2. DOMAIN by = {"by"} /\ by["by"] = old.llm
      OBVIOUS
    <3>3. /\ DOMAIN fields = DOMAIN judged \cup DOMAIN by
          /\ \A f \in DOMAIN by : fields[f] = by[f]
          /\ \A f \in DOMAIN judged \ DOMAIN by : fields[f] = judged[f]
      <4> HIDE DEF by
      <4> QED
        BY UpdatedAre
    <3>4. Ends(c, fields)
      BY <2>2
    <3> HIDE DEF by, fields
    <3>5. PICK r : textCall' = [textCall EXCEPT ![c] = r] /\ Ended(r, old, fields)
      BY <1>b, <3>4, EndsAs
    <3>6. /\ DOMAIN fields = {"how", "out", "unchanged", "by"} /\ fields["by"] = old.llm
          /\ fields["how"] = judged.how /\ fields["out"] = judged.out
          /\ fields["unchanged"] = judged.unchanged
      BY <3>1, <3>2, <3>3
    <3>7. /\ "step" \in DOMAIN r /\ r.step = "idle" /\ r.how = judged.how
          /\ r.out = judged.out /\ r.unchanged = judged.unchanged /\ r.by = old.llm
          /\ r.text = old.text /\ r.model = old.model
      BY <1>1, <3>5, <3>6 DEF Ended
    <3>8. RefinementFits(r)
      BY <1>1, <3>1, <3>7 DEF RefinementFits
    <3>9. CallFits(c, r)
      BY <1>1, <3>7, <3>8 DEF CallFits
    <3> QED
      BY <3>5, <3>7, <3>9
  <2> QED
    BY <2>1, <2>2 DEF Refines
<1>3. /\ CallsFit' /\ textCall'[c] = r
      /\ \A d \in ServiceCalls \ {c} : textCall'[d] = textCall[d]
  BY <1>1, <1>2, CallSteps
<1>4. ModelsFit'
  BY <1>1, <1>2, <1>3, ModelsRest DEF Refines
<1>5. CacheFits' /\ BoundsFit'
  <2>1. UNCHANGED <<cacheVars, callsLeft, restartsLeft>> /\ UNCHANGED cacheClock
    BY DEF Refines, cacheVars
  <2> QED
    BY <1>1, <1>3, <2>1, CacheRests, BoundsRest DEF BoundsFit
<1> QED
  BY <1>3, <1>4, <1>5 DEF TextIInv

\* What the coach gives at once: the cache's, or a fallback.
LEMMA GivenFits ==
  ASSUME NEW c \in CoachCalls, NEW how, how # "model", NEW text, NEW privacy, NEW out,
         out.text = text, out.privacy = privacy, privacy = "local_only" => out.by = NoModel
  PROVE  LET r == Updated([how |-> how, text |-> text, privacy |-> privacy],
                          [step |-> "idle", out |-> out])
         IN  CallFits(c, r) /\ r.step = "idle"
<1> DEFINE base == [how |-> how, text |-> text, privacy |-> privacy]
           fields == [step |-> "idle", out |-> out]
           r == Updated(base, fields)
<1>1. /\ DOMAIN base = {"how", "text", "privacy"} /\ base["how"] = how
      /\ base["text"] = text /\ base["privacy"] = privacy
      /\ DOMAIN fields = {"step", "out"} /\ fields["step"] = "idle" /\ fields["out"] = out
  OBVIOUS
<1>2. /\ DOMAIN r = DOMAIN base \cup DOMAIN fields
      /\ \A f \in DOMAIN fields : r[f] = fields[f]
      /\ \A f \in DOMAIN base \ DOMAIN fields : r[f] = base[f]
  <2> HIDE DEF base, fields
  <2> QED
    BY UpdatedAre
<1> SUFFICES CallFits(c, r) /\ r.step = "idle"
  OBVIOUS
<1> HIDE DEF base, fields, r
<1>3. /\ "step" \in DOMAIN r /\ r.step = "idle" /\ r.how = how /\ r.out = out
      /\ r.text = text /\ r.privacy = privacy
  BY <1>1, <1>2
<1>4. CoachingFits(r)
  BY <1>3 DEF CoachingFits
<1> QED
  BY <1>3, <1>4, CallsAre DEF CallFits

\* What the coach asks a model for.
LEMMA RequestFits ==
  ASSUME NEW c \in CoachCalls, NEW how, NEW text, NEW privacy, privacy # "local_only",
         NEW m \in LanguageModels
  PROVE  LET r == Updated([how |-> how, text |-> text, privacy |-> privacy],
                          [step |-> "ask", model |-> m])
         IN  CallFits(c, r) /\ r.step = "ask"
<1> DEFINE base == [how |-> how, text |-> text, privacy |-> privacy]
           fields == [step |-> "ask", model |-> m]
           r == Updated(base, fields)
<1>1. /\ DOMAIN base = {"how", "text", "privacy"} /\ base["how"] = how
      /\ base["text"] = text /\ base["privacy"] = privacy
      /\ DOMAIN fields = {"step", "model"} /\ fields["step"] = "ask" /\ fields["model"] = m
  OBVIOUS
<1>2. /\ DOMAIN r = DOMAIN base \cup DOMAIN fields
      /\ \A f \in DOMAIN fields : r[f] = fields[f]
      /\ \A f \in DOMAIN base \ DOMAIN fields : r[f] = base[f]
  <2> HIDE DEF base, fields
  <2> QED
    BY UpdatedAre
<1> SUFFICES CallFits(c, r) /\ r.step = "ask"
  OBVIOUS
<1> HIDE DEF base, fields, r
<1>3. /\ {"step", "text", "model", "privacy"} \subseteq DOMAIN r
      /\ r.step = "ask" /\ r.model = m /\ r.privacy = privacy
  BY <1>1, <1>2
<1>4. CoachingFits(r)
  BY <1>3 DEF CoachingFits
<1> QED
  BY <1>3, <1>4, CallsAre DEF CallFits

\* The coach finds an answer in the cache, gives a fallback or asks for a model.
LEMMA GenerateFits == ASSUME TextIInv, NEW c \in CoachCalls, Generate(c) PROVE TextIInv'
<1>1. /\ CallsFit /\ ModelsFit /\ CacheFits /\ BoundsFit /\ c \in ServiceCalls
      /\ textCall[c].step = "idle"
  BY CallsAre DEF TextIInv, Generate, Idles
<1>2. PICK text \in CoachTexts, privacy \in {"local_only", "allow_llm"}, ok \in BOOLEAN :
        LET key == Key(text, privacy)
            call(how, fields) == textCall' = [textCall EXCEPT ![c] =
              Updated([how |-> how, text |-> text, privacy |-> privacy], fields)]
        IN  \/ /\ key \in DOMAIN cache /\ Persists(WithEntry(key, cache[key].result), ok)
               /\ call(IF ok THEN "cache" ELSE "raised",
                       [step |-> "idle", out |-> cache[key].result])
            \/ /\ key \notin DOMAIN cache /\ privacy = "local_only"
               /\ Persists(WithEntry(key, Result(text, privacy, NoModel)), ok)
               /\ call(IF ok THEN "local" ELSE "raised",
                       [step |-> "idle", out |-> Result(text, privacy, NoModel)])
            \/ /\ key \notin DOMAIN cache /\ privacy # "local_only" /\ ok
               /\ UNCHANGED cacheVars
               /\ \/ call("fallback", [step |-> "idle", out |-> Result(text, privacy, NoModel)])
                  \/ \E m \in LanguageModels : call("model", [step |-> "ask", model |-> m])
  BY DEF Generate
<1> DEFINE key == Key(text, privacy)
           after(how, fields) ==
             Updated([how |-> how, text |-> text, privacy |-> privacy], fields)
           standIn == Result(text, privacy, NoModel)
           Moved(r) == textCall' = [textCall EXCEPT ![c] = r] /\ CallFits(c, r)
           Cached == CacheFits' /\ cacheClock' = cacheClock + 1
<1>3. standIn.text = text /\ standIn.privacy = privacy /\ standIn.by = NoModel
  BY DEF Result
<1>4. ASSUME NEW how, how # "model", NEW out, out.text = text, out.privacy = privacy,
             privacy = "local_only" => out.by = NoModel,
             textCall' = [textCall EXCEPT ![c] = after(how, [step |-> "idle", out |-> out])]
      PROVE  \E r : Moved(r) /\ r.step = "idle"
  <2> DEFINE r == after(how, [step |-> "idle", out |-> out])
  <2>1. CallFits(c, r) /\ r.step = "idle"
    BY <1>4, GivenFits
  <2> QED
    BY <1>4, <2>1
<1>5. ASSUME key \in DOMAIN cache, Persists(WithEntry(key, cache[key].result), ok),
             textCall' = [textCall EXCEPT ![c] = after(IF ok THEN "cache" ELSE "raised",
                                             [step |-> "idle", out |-> cache[key].result])]
      PROVE  Cached /\ \E r : Moved(r) /\ r.step = "idle"
  <2> DEFINE out == cache[key].result
  <2>1. key[1] = text /\ key[2] = privacy
    BY DEF Key
  <2>2. /\ out.text = text /\ out.privacy = privacy
        /\ privacy = "local_only" => out.by = NoModel
    <3> HIDE DEF key
    <3> QED
      BY <1>1, <1>5, <2>1 DEF CacheFits, EntriesFit
  <2>3. Cached
    <3> HIDE DEF out
    <3>1. Persists(WithEntry(Key(text, privacy), out), ok)
      BY <1>5 DEF out
    <3> QED
      BY <1>1, <2>2, <3>1, PersistsFit
  <2>4. \E r : Moved(r) /\ r.step = "idle"
    <3> DEFINE how == IF ok THEN "cache" ELSE "raised"
    <3>1. how # "model"
      OBVIOUS
    <3>2. textCall' = [textCall EXCEPT ![c] = after(how, [step |-> "idle", out |-> out])]
      BY <1>5
    <3> HIDE DEF how, out, after, Moved
    <3> QED
      BY <1>4, <2>2, <3>1, <3>2
  <2> QED
    BY <2>3, <2>4
<1>6. ASSUME privacy = "local_only", Persists(WithEntry(key, standIn), ok),
             textCall' = [textCall EXCEPT ![c] = after(IF ok THEN "local" ELSE "raised",
                                             [step |-> "idle", out |-> standIn])]
      PROVE  Cached /\ \E r : Moved(r) /\ r.step = "idle"
  <2>1. Cached
    <3> HIDE DEF standIn
    <3>1. Persists(WithEntry(Key(text, privacy), standIn), ok)
      BY <1>6
    <3> QED
      BY <1>1, <1>3, <3>1, PersistsFit
  <2>2. \E r : Moved(r) /\ r.step = "idle"
    <3> DEFINE how == IF ok THEN "local" ELSE "raised"
    <3>1. how # "model"
      OBVIOUS
    <3>2. textCall' = [textCall EXCEPT ![c] = after(how, [step |-> "idle", out |-> standIn])]
      BY <1>6
    <3> HIDE DEF how, standIn, after, Moved
    <3> QED
      BY <1>3, <1>4, <3>1, <3>2
  <2> QED
    BY <2>1, <2>2
<1>7. ASSUME textCall' = [textCall EXCEPT
                            ![c] = after("fallback", [step |-> "idle", out |-> standIn])]
      PROVE  \E r : Moved(r) /\ r.step = "idle"
  <2> DEFINE how == "fallback"
  <2>1. how # "model" /\ textCall' = [textCall EXCEPT
                                        ![c] = after(how, [step |-> "idle", out |-> standIn])]
    BY <1>7
  <2> HIDE DEF how, standIn, after, Moved
  <2> QED
    BY <1>3, <1>4, <2>1
<1>8. ASSUME privacy # "local_only", NEW m \in LanguageModels,
             textCall' = [textCall EXCEPT ![c] = after("model", [step |-> "ask", model |-> m])]
      PROVE  \E r : Moved(r) /\ r.step = "ask"
  <2> DEFINE r == after("model", [step |-> "ask", model |-> m])
  <2>1. CallFits(c, r) /\ r.step = "ask"
    BY <1>8, RequestFits
  <2> QED
    BY <1>8, <2>1
<1>9. \/ Cached /\ \E r : Moved(r) /\ r.step = "idle"
      \/ UNCHANGED cacheVars /\ \E r : Moved(r) /\ r.step \in {"idle", "ask"}
  <2> HIDE DEF Moved, Cached
  <2>1. CASE /\ key \in DOMAIN cache /\ Persists(WithEntry(key, cache[key].result), ok)
             /\ textCall' = [textCall EXCEPT ![c] = after(IF ok THEN "cache" ELSE "raised",
                                               [step |-> "idle", out |-> cache[key].result])]
    BY <1>5, <2>1
  <2>2. CASE /\ key \notin DOMAIN cache /\ privacy = "local_only"
             /\ Persists(WithEntry(key, standIn), ok)
             /\ textCall' = [textCall EXCEPT ![c] = after(IF ok THEN "local" ELSE "raised",
                                               [step |-> "idle", out |-> standIn])]
    BY <1>6, <2>2
  <2>3. CASE /\ privacy # "local_only" /\ UNCHANGED cacheVars
             /\ \/ textCall' = [textCall EXCEPT
                                  ![c] = after("fallback", [step |-> "idle", out |-> standIn])]
                \/ \E m \in LanguageModels :
                     textCall' = [textCall EXCEPT
                                    ![c] = after("model", [step |-> "ask", model |-> m])]
    BY <1>7, <1>8, <2>3
  <2> QED
    BY <1>2, <2>1, <2>2, <2>3
<1> HIDE DEF Cached
<1>10. PICK r : /\ Moved(r) /\ r.step \in {"idle", "ask"}
                /\ (Cached /\ r.step = "idle") \/ UNCHANGED cacheVars
  BY <1>9
<1>11. /\ CallsFit' /\ textCall'[c] = r
       /\ \A d \in ServiceCalls \ {c} : textCall'[d] = textCall[d]
  BY <1>1, <1>10, CallSteps
<1>12. ModelsFit'
  BY <1>1, <1>10, <1>11, ModelsRest DEF Generate
<1>13. CacheFits'
  BY <1>10, CacheRests DEF Cached
<1>14. BoundsFit'
  <2>1. /\ Cardinality(Working) \in Nat /\ Cardinality(Working') \in Nat
        /\ Cardinality(Working') <= Cardinality(Working) + 1
        /\ r.step = "idle" => Cardinality(Working') <= Cardinality(Working)
    BY <1>1, <1>11, WorkingChanges
  <2>2. /\ cacheClock \in Nat /\ callsLeft \in Nat /\ NCalls \in Nat
        /\ callsLeft > 0 /\ callsLeft' = callsLeft - 1 /\ restartsLeft' = restartsLeft
        /\ cacheClock + callsLeft + Cardinality(Working) <= NCalls
    BY <1>1, TextAssumption DEF CacheFits, BoundsFit, Generate, Idles
  <2>3. \/ cacheClock' = cacheClock + 1 /\ r.step = "idle"
        \/ cacheClock' = cacheClock
    BY <1>10 DEF Cached, cacheVars
  <2>4. callsLeft' \in Nat /\ cacheClock' + callsLeft' + Cardinality(Working') <= NCalls
    BY <2>1, <2>2, <2>3
  <2> QED
    BY <1>1, <2>2, <2>4 DEF BoundsFit
<1> QED
  BY <1>11, <1>12, <1>13, <1>14 DEF TextIInv

\* The answer of a model is cached and given, or a fallback is.
LEMMA CoachesFits == ASSUME TextIInv, NEW c \in CoachCalls, Coaches(c) PROVE TextIInv'
<1> DEFINE old == textCall[c]
           made(by) == Result(old.text, old.privacy, by)
<1>1. /\ CallsFit /\ ModelsFit /\ CacheFits /\ BoundsFit /\ c \in ServiceCalls
      /\ c \notin RefineCalls /\ CallFits(c, old) /\ old.step = "complete"
      /\ {"step", "text", "model", "llm", "privacy"} \subseteq DOMAIN old
      /\ old.llm = old.model /\ old.privacy # "local_only"
  BY CallsAre DEF TextIInv, CallsFit, Coaches, CallFits, CoachingFits
<1>2. \A by : /\ made(by).text = old.text /\ made(by).privacy = old.privacy
              /\ made(by).by = by
  BY DEF Result
<1>3. ASSUME NEW how \in {"model", "fallback"}, NEW by,
             Ends(c, [how |-> how, out |-> made(by)]), how = "model" => by = old.llm
      PROVE  \E r : textCall' = [textCall EXCEPT ![c] = r] /\ CallFits(c, r) /\ r.step = "idle"
  <2> DEFINE out == made(by)
             fields == [how |-> how, out |-> out]
  <2>1. /\ out.text = old.text /\ out.privacy = old.privacy /\ out.by = by
    BY <1>2
  <2>2. Ends(c, fields)
    BY <1>3
  <2> HIDE DEF out, made
  <2>3. DOMAIN fields = {"how", "out"} /\ fields["how"] = how /\ fields["out"] = out
    OBVIOUS
  <2> HIDE DEF fields
  <2>4. CallsFit /\ c \in ServiceCalls
    BY <1>1
  <2>5. PICK r : textCall' = [textCall EXCEPT ![c] = r] /\ Ended(r, old, fields)
    BY <2>2, <2>4, EndsAs
  <2>6. /\ "step" \in DOMAIN r /\ r.step = "idle" /\ r.how = how /\ r.out = out
        /\ r.text = old.text /\ r.model = old.model /\ r.privacy = old.privacy
    BY <1>1, <2>3, <2>5 DEF Ended
  <2>7. CoachingFits(r)
    BY <1>1, <1>3, <2>1, <2>6 DEF CoachingFits
  <2>8. CallFits(c, r)
    BY <1>1, <2>6, <2>7 DEF CallFits
  <2> QED
    BY <2>5, <2>6, <2>8
<1>4. /\ \E r : textCall' = [textCall EXCEPT ![c] = r] /\ CallFits(c, r) /\ r.step = "idle"
      /\ ((CacheFits' /\ cacheClock' = cacheClock + 1) \/ UNCHANGED cacheVars)
  <2>1. ASSUME NEW ok \in BOOLEAN,
               Persists(WithEntry(Key(old.text, old.privacy), made(old.llm)), ok),
               Ends(c, [how |-> IF ok THEN "model" ELSE "fallback",
                        out |-> made(IF ok THEN old.llm ELSE NoModel)])
        PROVE  /\ \E r : /\ textCall' = [textCall EXCEPT ![c] = r]
                         /\ CallFits(c, r) /\ r.step = "idle"
               /\ CacheFits' /\ cacheClock' = cacheClock + 1
    <3> DEFINE how == IF ok THEN "model" ELSE "fallback"
               by == IF ok THEN old.llm ELSE NoModel
               result == made(old.llm)
    <3>1. how \in {"model", "fallback"} /\ (how = "model" => by = old.llm)
      OBVIOUS
    <3>2. Ends(c, [how |-> how, out |-> made(by)])
      BY <2>1
    <3>3. Persists(WithEntry(Key(old.text, old.privacy), result), ok)
      BY <2>1
    <3>4. result.text = old.text /\ result.privacy = old.privacy
      BY <1>2
    <3> HIDE DEF how, by, result, made
    <3>5. \E r : textCall' = [textCall EXCEPT ![c] = r] /\ CallFits(c, r) /\ r.step = "idle"
      BY <1>3, <3>1, <3>2
    <3>6. CacheFits' /\ cacheClock' = cacheClock + 1
      BY <1>1, <3>3, <3>4, PersistsFit
    <3> QED
      BY <3>5, <3>6
  <2>2. ASSUME Ends(c, [how |-> "fallback", out |-> made(NoModel)])
        PROVE  \E r : textCall' = [textCall EXCEPT ![c] = r] /\ CallFits(c, r) /\ r.step = "idle"
    <3> DEFINE how == "fallback"
               by == NoModel
    <3>1. how \in {"model", "fallback"} /\ (how = "model" => by = old.llm)
          /\ Ends(c, [how |-> how, out |-> made(by)])
      BY <2>2
    <3> HIDE DEF how, by, made
    <3> QED
      BY <1>3, <3>1
  <2>3. \/ \E ok \in BOOLEAN :
             /\ Persists(WithEntry(Key(old.text, old.privacy), made(old.llm)), ok)
             /\ Ends(c, [how |-> IF ok THEN "model" ELSE "fallback",
                         out |-> made(IF ok THEN old.llm ELSE NoModel)])
        \/ Ends(c, [how |-> "fallback", out |-> made(NoModel)]) /\ UNCHANGED cacheVars
    BY DEF Coaches
  <2> QED
    BY <2>1, <2>2, <2>3
<1>5. PICK r : textCall' = [textCall EXCEPT ![c] = r] /\ CallFits(c, r) /\ r.step = "idle"
  BY <1>4
<1>6. /\ CallsFit' /\ textCall'[c] = r
      /\ \A d \in ServiceCalls \ {c} : textCall'[d] = textCall[d]
  BY <1>1, <1>5, CallSteps
<1>7. ModelsFit'
  BY <1>1, <1>5, <1>6, ModelsRest DEF Coaches
<1>8. CacheFits'
  BY <1>4, CacheRests
<1>9. BoundsFit'
  <2>1. /\ Cardinality(Working) \in Nat /\ Cardinality(Working') \in Nat
        /\ Cardinality(Working') + 1 <= Cardinality(Working)
    BY <1>1, <1>5, <1>6, WorkingChanges
  <2>2. /\ cacheClock \in Nat /\ callsLeft \in Nat /\ NCalls \in Nat
        /\ callsLeft' = callsLeft /\ restartsLeft' = restartsLeft
        /\ cacheClock + callsLeft + Cardinality(Working) <= NCalls
    BY <1>1, TextAssumption DEF CacheFits, BoundsFit, Coaches
  <2>3. cacheClock' = cacheClock + 1 \/ cacheClock' = cacheClock
    BY <1>4 DEF cacheVars
  <2>4. cacheClock' + callsLeft' + Cardinality(Working') <= NCalls
    BY <2>1, <2>2, <2>3
  <2> QED
    BY <1>1, <2>2, <2>4 DEF BoundsFit
<1> QED
  BY <1>6, <1>7, <1>8, <1>9 DEF TextIInv

\* After a restart the cache is what the file holds, and no call is under way.
LEMMA ServicesRestartFits == ASSUME TextIInv, ServicesRestart PROVE TextIInv'
<1>1. ModelsFit /\ CacheFits /\ BoundsFit
  BY DEF TextIInv
<1>2. DOMAIN textCall' = ServiceCalls /\ \A c \in ServiceCalls : textCall'[c] = Resting
  BY DEF ServicesRestart
<1>3. CallsFit'
  <2>1. \A c \in ServiceCalls : CallFits(c, Resting)
    BY DEF CallFits, Resting, RefinementFits, CoachingFits
  <2> QED
    BY <1>2, <2>1 DEF CallsFit
<1>4. ModelsFit'
  <2>1. /\ servedModel' \in [Services -> LanguageModels \cup {NoModel}]
        /\ modelLock' \in [Services -> ServiceCalls \cup {Free}]
        /\ \A s \in Services : modelLock'[s] = Free
    BY DEF ServicesRestart
  <2> QED
    BY <1>2, <2>1, CallsAre DEF ModelsFit, OneIsLoaded, Resting
<1>5. CacheFits'
  <2>1. /\ cache' = (IF cacheFile = NoCacheFile THEN NoEntries ELSE cacheFile[1])
        /\ UNCHANGED <<cacheFile, cacheClock>>
    BY DEF ServicesRestart
  <2>2. DOMAIN NoEntries = {} /\ IsFiniteSet({}) /\ Cardinality({}) = 0
    BY FS_EmptySet DEF NoEntries
  <2>3. EntriesFit(NoEntries, cacheClock)
    BY <2>2, TextAssumption DEF EntriesFit
  <2>4. EntriesFit(cache', cacheClock)
    BY <1>1, <2>1, <2>3 DEF CacheFits
  <2>5. RestartKeepsCache'
    BY <2>1 DEF RestartKeepsCache
  <2> QED
    BY <1>1, <2>1, <2>4, <2>5 DEF CacheFits
<1>6. BoundsFit'
  <2>1. Working' = {}
    BY <1>2, CallsAre DEF Working, Resting
  <2>2. Cardinality(Working') = 0
    BY <2>1, FS_EmptySet
  <2>3. IsFiniteSet(Working)
    BY CallsAre, FS_Subset DEF Working
  <2>4. Cardinality(Working) \in Nat
    BY <2>3, FS_CardinalityType
  <2>5. /\ cacheClock \in Nat /\ callsLeft \in Nat /\ NCalls \in Nat /\ NServiceRestarts \in Nat
        /\ callsLeft' = callsLeft /\ cacheClock' = cacheClock
        /\ restartsLeft > 0 /\ restartsLeft' = restartsLeft - 1
    BY <1>1, TextAssumption DEF CacheFits, BoundsFit, ServicesRestart
  <2>6. cacheClock' + callsLeft' + Cardinality(Working') <= NCalls
    BY <1>1, <2>2, <2>4, <2>5 DEF BoundsFit
  <2> QED
    BY <1>1, <2>5, <2>6 DEF BoundsFit
<1> QED
  BY <1>3, <1>4, <1>5, <1>6 DEF TextIInv

\* Every step keeps the calls, the models, the cache and the bounds together.
LEMMA TextSteps == TextIInv /\ [TextNext]_textVars => TextIInv'
<1> SUFFICES ASSUME TextIInv, [TextNext]_textVars PROVE TextIInv'
  OBVIOUS
<1>1. CASE UNCHANGED textVars
  <2>1. UNCHANGED <<servedModel, modelLock, textCall, callsLeft, restartsLeft>>
        /\ UNCHANGED cacheVars
    BY <1>1 DEF textVars
  <2>2. CacheFits'
    BY <2>1, CacheRests
  <2>3. Working' = Working /\ cacheClock' = cacheClock
    BY <2>1 DEF Working, cacheVars
  <2>4. BoundsFit'
    BY <2>1, <2>3 DEF TextIInv, BoundsFit
  <2>5. CallsFit' /\ ModelsFit'
    BY <2>1 DEF TextIInv, CallsFit, ModelsFit, OneIsLoaded
  <2> QED
    BY <2>2, <2>4, <2>5 DEF TextIInv
<1>2. ASSUME NEW c \in RefineCalls,
             RefineText(c) \/ TakesLock(c) \/ LoadsModel(c) \/ LoadFails(c) \/ Refines(c)
      PROVE  TextIInv'
  BY <1>2, CallsAre, RefineTextFits, TakesLockFits, LoadsModelFits, LoadFailsFits, RefinesFits
<1>3. ASSUME NEW c \in CoachCalls,
             Generate(c) \/ TakesLock(c) \/ LoadsModel(c) \/ LoadFails(c) \/ Coaches(c)
      PROVE  TextIInv'
  BY <1>3, CallsAre, GenerateFits, TakesLockFits, LoadsModelFits, LoadFailsFits, CoachesFits
<1> QED
  BY <1>1, <1>2, <1>3, UnloadsFits, ServicesRestartFits DEF TextNext, RefinerNext, CoachNext

\* TextInv: whoever asks for whatever model and unloads it when, one model at a time is loaded,
\* under the lock, and the one asked for answers; the words of a text stay whatever it answers;
\* what has to stay local does, cached or not, and a restart brings the cache back.
THEOREM WordsAndPrivacyStay == TextSpec => []TextInv
<1>1. TextIInv /\ [TextNext]_textVars => TextIInv'
  BY TextSteps
<1> QED
  BY TextBegins, TextFits, <1>1, PTL DEF TextSpec

-----------------------------------------------------------------------------
(* SettingsFile: what is served is what a restart would make of the file.                  *)

ModeRecords == [active : Modes, wispr : {"default", "user", "legacy"},
                system : {"default", "user", "legacy"}]

\* A file says something of some settings, and of the modes or not.
FileFits ==
  \/ file.kind \in {"none", "broken"}
  \/ /\ file.kind = "settings" /\ file.version \in OldVersions \cup {CurrentVersion}
     /\ file.modes = NoModes \/ file.modes \in ModeRecords
     /\ \A n \in DOMAIN file.settings : file.settings[n] \in Values

\* What is served can be written and read again; the defaults are served until they change.
ServesFits ==
  /\ settings["coach_prompt_templates"] # "wrong"
  /\ servesDefaults \in BOOLEAN /\ (servesDefaults => settings = defaults)
  /\ behind \in BOOLEAN /\ unchecked \in BOOLEAN

SettingsFileIInv == SettingsFileInv /\ FileFits /\ ServesFits

\* The settings that the code names, and their sections.
LEMMA NamesAre ==
  /\ "coach_provider_base_url" \in Registered /\ SectionOf["coach_provider_base_url"] = "coach"
  /\ "coach_provider_base_url" \notin Fields
  /\ "default_asr_model_id" \in Fields /\ "model_name" \in Fields
  /\ "coach_prompt_templates" \in Fields /\ "unknown" \notin Fields
BY DEF Registered, SectionOf, Fields

\* A file of the current version, or a later one, is taken as it is.
LEMMA NewFilesStay ==
  ASSUME NEW given, NEW version \in Nat, version >= CurrentVersion
  PROVE  Migrated(given, version) = given
BY DEF Migrated, CurrentVersion

\* An older one becomes a file with a setting that no class of settings has a field for.
LEMMA OldFilesAreRefused ==
  ASSUME NEW given, NEW version \in Nat, version < CurrentVersion
  PROVE  ~Builds(Normalized(Migrated(given, version)))
<1> DEFINE v1 == IF version < 1 THEN ToV1(given) ELSE given
           v2 == IF version < 2 THEN ToV2(v1) ELSE v1
           v3 == IF version < 3 THEN ToV3(v2) ELSE v2
           v4 == IF version < 4 THEN ToV4(v3) ELSE v3
<1> HIDE DEF v1, v2, v3, v4
<1>1. Migrated(given, version) = ToV5(v4)
  BY DEF Migrated, CurrentVersion, v1, v2, v3, v4
<1>2. "coach_provider_base_url" \in In({"coach"}, Registered)
  BY NamesAre DEF In
<1>3. "coach_provider_base_url" \in DOMAIN ToV5(v4)
  BY <1>2 DEF ToV5, Filled
<1>4. "coach_provider_base_url" \in DOMAIN Normalized(ToV5(v4))
  BY <1>3 DEF Normalized, With
<1> QED
  BY <1>1, <1>4, NamesAre DEF Builds

\* The settings that are made of what is given.
LEMMA BuiltAre ==
  ASSUME NEW given, \A n \in DOMAIN given : given[n] \in Values, Builds(Normalized(given))
  PROVE  /\ Built(Normalized(given)) \in [Fields -> Values]
         /\ Built(Normalized(given))["coach_prompt_templates"] # "wrong"
         /\ Built(Normalized(given))["default_asr_model_id"] # "wrong"
         /\ \A n \in DOMAIN given \ {"default_asr_model_id"} :
              n \in Fields /\ Built(Normalized(given))[n] = given[n]
         /\ (\A n \in DOMAIN Normalized(given) : Normalized(given)[n] # "wrong") =>
              \A n \in Fields : Built(Normalized(given))[n] # "wrong"
<1> DEFINE norm == Normalized(given)
           id == IF "default_asr_model_id" \in DOMAIN given
                    /\ given["default_asr_model_id"] # "wrong"
                 THEN given["default_asr_model_id"]
                 ELSE IF "model_name" \in DOMAIN given /\ given["model_name"] # "wrong"
                      THEN given["model_name"] ELSE "default"
<1>1. id \in Values /\ id # "wrong"
  BY DEF Values
<1> HIDE DEF id
<1>2. /\ DOMAIN norm = DOMAIN given \cup {"default_asr_model_id"}
      /\ norm["default_asr_model_id"] = id
      /\ \A n \in DOMAIN given \ {"default_asr_model_id"} : norm[n] = given[n]
  BY DEF Normalized, With, id
<1> HIDE DEF norm
<1>3. \A n \in DOMAIN norm : norm[n] \in Values
  BY <1>1, <1>2
<1>4. /\ DOMAIN norm \subseteq Fields
      /\ "coach_prompt_templates" \in DOMAIN norm => norm["coach_prompt_templates"] # "wrong"
  BY DEF Builds, norm
<1>5. Built(norm) = [n \in Fields |-> IF n \in DOMAIN norm THEN norm[n] ELSE "default"]
  BY DEF Built
<1>6. Built(norm) \in [Fields -> Values]
  BY <1>3, <1>5 DEF Values
<1>7. Built(norm)["coach_prompt_templates"] # "wrong"
  BY <1>4, <1>5, NamesAre
<1>8. Built(norm)["default_asr_model_id"] # "wrong"
  BY <1>1, <1>2, <1>5, NamesAre
<1>9. \A n \in DOMAIN given \ {"default_asr_model_id"} : n \in Fields /\ Built(norm)[n] = given[n]
  BY <1>2, <1>4, <1>5
<1>10. (\A n \in DOMAIN norm : norm[n] # "wrong") => \A n \in Fields : Built(norm)[n] # "wrong"
  BY <1>5
<1> QED
  BY <1>6, <1>7, <1>8, <1>9, <1>10 DEF norm

\* Settings that are served are read as they were written.
LEMMA WrittenIsRead ==
  ASSUME NEW f, f.kind = "settings", f.version \in Nat, f.version >= CurrentVersion,
         f.settings \in [Fields -> Values], f.settings["coach_prompt_templates"] # "wrong",
         f.settings["default_asr_model_id"] # "wrong", f.modes \in ModeRecords
  PROVE  Readable(f) /\ Loaded(f) = f.settings /\ LoadedModes(f) = f.modes
<1> DEFINE s == f.settings
<1>1. Migrated(s, f.version) = s
  BY NewFilesStay
<1>2. Normalized(s) = s
  <2>1. /\ DOMAIN s = Fields /\ "default_asr_model_id" \in DOMAIN s
        /\ s["default_asr_model_id"] # "wrong" /\ s = [n \in Fields |-> s[n]]
    BY NamesAre
  <2> HIDE DEF s
  <2>2. Normalized(s) = With(s, "default_asr_model_id", s["default_asr_model_id"])
    BY <2>1 DEF Normalized
  <2>3. With(s, "default_asr_model_id", s["default_asr_model_id"]) = [n \in Fields |-> s[n]]
    BY <2>1 DEF With
  <2> QED
    BY <2>1, <2>2, <2>3
<1>3. Builds(s) /\ Built(s) = s
  <2>1. DOMAIN s = Fields /\ s = [n \in Fields |-> s[n]]
    OBVIOUS
  <2> HIDE DEF s
  <2>2. Built(s) = [n \in Fields |-> s[n]]
    BY <2>1 DEF Built
  <2>3. Builds(s)
    BY <2>1 DEF Builds, s
  <2> QED
    BY <2>1, <2>2, <2>3
<1>4. f.modes # NoModes /\ ModesBuild(f.modes) /\ f.version # 0
  BY DEF ModeRecords, NoModes, Modes, ModesBuild, CurrentVersion
<1>5. Readable(f)
  BY <1>1, <1>2, <1>3, <1>4 DEF Readable
<1> QED
  BY <1>1, <1>2, <1>3, <1>4, <1>5 DEF Loaded, LoadedModes

\* Versions are numbers, and the names that are given are names of settings.
LEMMA FileConstants ==
  /\ OldVersions \cup {CurrentVersion} \subseteq Nat /\ NChanges \in Nat /\ NSaveFailures \in Nat
  /\ \A given \in Given : \A n \in DOMAIN given : given[n] \in Values
<1>1. \A given \in Given : \A n \in DOMAIN given : given[n] \in Values
  BY DEF Given, Values
<1> QED
  BY <1>1, SettingsFileAssumption DEF CurrentVersion

\* What is made of a file.
LEMMA LoadedAre ==
  ASSUME FileFits
  PROVE  /\ Loaded(file) \in [Fields -> Values]
         /\ Loaded(file)["coach_prompt_templates"] # "wrong"
         /\ Loaded(file)["default_asr_model_id"] # "wrong"
         /\ LoadedModes(file) \in ModeRecords
         /\ Readable(file) => /\ file.kind = "settings" /\ file.version >= CurrentVersion
                              /\ file.version \in OldVersions \cup {CurrentVersion}
         /\ ~Readable(file) => Loaded(file) = AllDefaults /\ LoadedModes(file) = ModeDefaults
         /\ Readable(file) =>
              \A n \in DOMAIN file.settings \ {"default_asr_model_id"} :
                n \in Fields /\ Loaded(file)[n] = file.settings[n]
<1>1. CASE ~Readable(file)
  <2>1. Loaded(file) = AllDefaults /\ LoadedModes(file) = ModeDefaults
    BY <1>1 DEF Loaded, LoadedModes
  <2>2. AllDefaults \in [Fields -> Values] /\ \A n \in Fields : AllDefaults[n] # "wrong"
    BY DEF AllDefaults, Values
  <2>3. ModeDefaults \in ModeRecords
    BY DEF ModeDefaults, ModeRecords, Modes
  <2> QED
    BY <1>1, <2>1, <2>2, <2>3, NamesAre
<1>2. CASE Readable(file)
  <2>1. /\ file.kind = "settings" /\ file.version \in OldVersions \cup {CurrentVersion}
        /\ file.modes = NoModes \/ file.modes \in ModeRecords
        /\ \A n \in DOMAIN file.settings : file.settings[n] \in Values
        /\ Builds(Normalized(Migrated(file.settings, file.version)))
    BY <1>2 DEF Readable, FileFits
  <2>2. file.version \in Nat /\ CurrentVersion \in Nat
    BY <2>1, FileConstants DEF CurrentVersion
  <2>3. file.version >= CurrentVersion
    BY <2>1, <2>2, OldFilesAreRefused
  <2>4. Migrated(file.settings, file.version) = file.settings
    BY <2>2, <2>3, NewFilesStay
  <2>5. Loaded(file) = Built(Normalized(file.settings)) /\ Builds(Normalized(file.settings))
    BY <1>2, <2>1, <2>4 DEF Loaded
  <2>6. LoadedModes(file) \in ModeRecords
    <3>1. LegacyModes \in ModeRecords
      BY DEF LegacyModes, ModeRecords, Modes
    <3> QED
      BY <1>2, <2>1, <3>1 DEF LoadedModes
  <2> QED
    BY <1>2, <2>1, <2>3, <2>5, <2>6, BuiltAre
<1> QED
  BY <1>1, <1>2

\* What a write leaves, whether it is cut short or not, when what is served fits.
LEMMA SavesKeep ==
  ASSUME Saves, FileFits, SettingsFileTypeOK,
         settings' \in [Fields -> Values], settings'["coach_prompt_templates"] # "wrong",
         settings'["default_asr_model_id"] # "wrong", modes' \in ModeRecords,
         settingsVersion' \in OldVersions \cup {CurrentVersion}
  PROVE  /\ FileFits' /\ RestartChangesNothing'
         /\ file'.kind \in {"none", "broken", "settings"} /\ running' \in BOOLEAN
         /\ behind' \in BOOLEAN /\ saveFailuresLeft' \in 0 .. NSaveFailures
<1>0. saveFailuresLeft \in 0 .. NSaveFailures /\ file.kind \in {"none", "broken", "settings"}
      /\ settingsVersion' \in Nat
  BY FileConstants DEF SettingsFileTypeOK
<1>1. CASE /\ file' = Holds(settingsVersion', settings', modes') /\ behind' = FALSE
           /\ running' = TRUE /\ UNCHANGED saveFailuresLeft
  <2>1. /\ file'.kind = "settings" /\ file'.version = settingsVersion'
        /\ file'.settings = settings' /\ file'.modes = modes'
    BY <1>1 DEF Holds
  <2>2. FileFits'
    <3>1. \A n \in DOMAIN file'.settings : file'.settings[n] \in Values
      BY <2>1
    <3> QED
      BY <2>1, <3>1 DEF FileFits
  <2>3. RestartChangesNothing'
    BY <1>0, <2>1, WrittenIsRead DEF RestartChangesNothing
  <2> QED
    BY <1>0, <1>1, <2>1, <2>2, <2>3
<1>2. CASE /\ saveFailuresLeft > 0 /\ saveFailuresLeft' = saveFailuresLeft - 1
           /\ file' \in {file, Broken} /\ running' \in BOOLEAN /\ behind' = TRUE
  <2>1. FileFits' /\ file'.kind \in {"none", "broken", "settings"}
    BY <1>0, <1>2 DEF FileFits, Broken
  <2>2. saveFailuresLeft' \in 0 .. NSaveFailures
    BY <1>0, <1>2, FileConstants
  <2> QED
    BY <1>2, <2>1, <2>2 DEF RestartChangesNothing
<1> QED
  BY <1>1, <1>2 DEF Saves

\* Nothing was served or saved yet.
LEMMA SettingsFileBegins == SettingsFileInit => SettingsFileIInv
<1> SUFFICES ASSUME SettingsFileInit PROVE SettingsFileIInv
  OBVIOUS
<1>1. AllDefaults \in [Fields -> {"default"}] /\ ModeDefaults \in ModeRecords
  BY DEF AllDefaults, ModeDefaults, ModeRecords, Modes
<1>2. file.kind \in {"none", "broken", "settings"} /\ FileFits
  <2>1. CASE file = NoFile
    BY <2>1 DEF NoFile, FileFits
  <2>2. ASSUME NEW given \in Given, NEW v \in OldVersions, file = Holds(v, given, NoModes)
        PROVE  file.kind \in {"none", "broken", "settings"} /\ FileFits
    <3>1. /\ file.kind = "settings" /\ file.version = v /\ file.settings = given
          /\ file.modes = NoModes
      BY <2>2 DEF Holds
    <3> QED
      BY <3>1, FileConstants DEF FileFits
  <2> QED
    BY <2>1, <2>2 DEF SettingsFileInit
<1>3. /\ settings \in [Fields -> Values] /\ defaults \in [Fields -> {"default", "user"}]
      /\ settings = defaults /\ \A n \in Fields : settings[n] # "wrong"
  BY <1>1 DEF SettingsFileInit, Values
<1>4. /\ modes \in ModeRecords /\ running = FALSE /\ changesLeft \in 0 .. NChanges
      /\ saveFailuresLeft \in 0 .. NSaveFailures
  BY <1>1, FileConstants DEF SettingsFileInit
<1>5. /\ settingsVersion \in OldVersions \cup {CurrentVersion} /\ booted.file = NoFile
      /\ behind = FALSE /\ unchecked = FALSE /\ servesDefaults = FALSE
  BY DEF SettingsFileInit
<1>6. SettingsFileTypeOK
  BY <1>2, <1>3, <1>4, <1>5 DEF SettingsFileTypeOK, ModeRecords
<1>7. RestartChangesNothing /\ WrongComesUnchecked /\ FilesAreReadWhole
  BY <1>3, <1>4, <1>5, NamesAre
     DEF RestartChangesNothing, WrongComesUnchecked, FilesAreReadWhole, NoFile
<1>8. ServesFits
  BY <1>3, <1>5, NamesAre DEF ServesFits
<1> QED
  BY <1>2, <1>6, <1>7, <1>8 DEF SettingsFileIInv, SettingsFileInv

\* The invariant, from what a step makes of its parts.
LEMMA ServedFits ==
  ASSUME SettingsFileIInv,
         FileFits' /\ RestartChangesNothing' /\ file'.kind \in {"none", "broken", "settings"}
           /\ running' \in BOOLEAN /\ behind' \in BOOLEAN
           /\ saveFailuresLeft' \in 0 .. NSaveFailures,
         settings' \in [Fields -> Values], settings'["coach_prompt_templates"] # "wrong",
         settings'["default_asr_model_id"] # "wrong", modes' \in ModeRecords,
         settingsVersion' \in OldVersions \cup {CurrentVersion},
         changesLeft' \in 0 .. NChanges, defaults' \in [Fields -> {"default", "user"}],
         servesDefaults' \in BOOLEAN, servesDefaults' => settings' = defaults',
         unchecked' \in BOOLEAN, ~unchecked' => \A n \in Fields : settings'[n] # "wrong",
         FilesAreReadWhole'
  PROVE  SettingsFileIInv'
<1>1. SettingsFileTypeOK'
  BY DEF SettingsFileTypeOK, ModeRecords
<1>2. WrongComesUnchecked' /\ ServesFits'
  BY DEF WrongComesUnchecked, ServesFits
<1> QED
  BY <1>1, <1>2 DEF SettingsFileIInv, SettingsFileInv

\* A start that reads the file, or finds it broken, serves what the next one would.
LEMMA LoadKeepsFile == SettingsFileIInv /\ FileLoads => SettingsFileIInv'
<1> SUFFICES ASSUME SettingsFileIInv, FileLoads PROVE SettingsFileIInv'
  OBVIOUS
<1>0. SettingsFileTypeOK /\ FileFits
  BY DEF SettingsFileIInv, SettingsFileInv
<1>1. /\ settings' = Loaded(file) /\ modes' = LoadedModes(file)
      /\ settingsVersion' = (IF Readable(file) /\ file.version > CurrentVersion
                             THEN file.version ELSE CurrentVersion)
      /\ defaults' = AllDefaults /\ servesDefaults' = ~Readable(file)
      /\ booted' = [file |-> file, settings |-> settings', modes |-> modes']
      /\ unchecked' = (\E n \in Fields : settings'[n] = "wrong")
      /\ UNCHANGED changesLeft
  BY DEF FileLoads
<1>2. /\ settings' \in [Fields -> Values] /\ settings'["coach_prompt_templates"] # "wrong"
      /\ settings'["default_asr_model_id"] # "wrong" /\ modes' \in ModeRecords
      /\ settingsVersion' \in OldVersions \cup {CurrentVersion}
  BY <1>0, <1>1, LoadedAre
<1>3. /\ FileFits' /\ RestartChangesNothing' /\ file'.kind \in {"none", "broken", "settings"}
      /\ running' \in BOOLEAN /\ behind' \in BOOLEAN
      /\ saveFailuresLeft' \in 0 .. NSaveFailures
  <2>1. CASE Readable(file)
    <3>1. running' = TRUE /\ behind' = FALSE /\ UNCHANGED <<file, saveFailuresLeft>>
      BY <2>1 DEF FileLoads
    <3>2. FileFits' /\ file'.kind \in {"none", "broken", "settings"}
      BY <1>0, <3>1 DEF FileFits, SettingsFileTypeOK
    <3>3. RestartChangesNothing'
      BY <1>1, <3>1 DEF RestartChangesNothing
    <3> QED
      BY <1>0, <3>1, <3>2, <3>3 DEF SettingsFileTypeOK
  <2>2. CASE ~Readable(file)
    <3>1. Saves
      BY <2>2 DEF FileLoads
    <3> QED
      BY <1>0, <1>2, <3>1, SavesKeep
  <2> QED
    BY <2>1, <2>2
<1>4. /\ defaults' \in [Fields -> {"default", "user"}] /\ servesDefaults' \in BOOLEAN
      /\ unchecked' \in BOOLEAN /\ changesLeft' \in 0 .. NChanges
  BY <1>0, <1>1 DEF AllDefaults, SettingsFileTypeOK
<1>5. servesDefaults' => settings' = defaults'
  BY <1>0, <1>1, LoadedAre
<1>6. ~unchecked' => \A n \in Fields : settings'[n] # "wrong"
  BY <1>1
<1>7. FilesAreReadWhole'
  <2>1. booted'.file = file /\ booted'.settings = Loaded(file) /\ booted'.modes = LoadedModes(file)
    BY <1>1
  <2>2. CASE Readable(file)
    BY <1>0, <2>1, <2>2, LoadedAre DEF FilesAreReadWhole
  <2>3. CASE ~Readable(file)
    BY <1>0, <2>1, <2>3, LoadedAre DEF FilesAreReadWhole, AllDefaults, ModeDefaults
  <2> QED
    BY <2>2, <2>3
<1> QED
  BY <1>2, <1>3, <1>4, <1>5, <1>6, <1>7, ServedFits

\* A change that is written.
LEMMA ChangesKeep ==
  ASSUME SettingsFileIInv, Changes, Saves, UNCHANGED booted,
         settings' \in [Fields -> Values], settings'["coach_prompt_templates"] # "wrong",
         settings'["default_asr_model_id"] # "wrong", modes' \in ModeRecords,
         settingsVersion' \in OldVersions \cup {CurrentVersion},
         defaults' \in [Fields -> {"default", "user"}],
         servesDefaults' \in BOOLEAN, servesDefaults' => settings' = defaults',
         unchecked' \in BOOLEAN, ~unchecked' => \A n \in Fields : settings'[n] # "wrong"
  PROVE  SettingsFileIInv'
<1>0. SettingsFileTypeOK /\ FileFits /\ FilesAreReadWhole
  BY DEF SettingsFileIInv, SettingsFileInv
<1>1. /\ FileFits' /\ RestartChangesNothing' /\ file'.kind \in {"none", "broken", "settings"}
      /\ running' \in BOOLEAN /\ behind' \in BOOLEAN
      /\ saveFailuresLeft' \in 0 .. NSaveFailures
  BY <1>0, SavesKeep
<1>2. changesLeft' \in 0 .. NChanges
  BY <1>0, FileConstants DEF Changes, SettingsFileTypeOK
<1>3. FilesAreReadWhole'
  BY <1>0 DEF FilesAreReadWhole, AllDefaults, ModeDefaults
<1> QED
  BY <1>1, <1>2, <1>3, ServedFits

\* A step keeps what is served, and what the file holds, together.
LEMMA SettingsFileSteps ==
  ASSUME SettingsFileIInv, [SettingsFileNext]_fileVars
  PROVE  SettingsFileIInv'
<1>0. /\ settings \in [Fields -> Values] /\ settings["coach_prompt_templates"] # "wrong"
      /\ settings["default_asr_model_id"] # "wrong" /\ modes \in ModeRecords
      /\ settingsVersion \in OldVersions \cup {CurrentVersion}
      /\ defaults \in [Fields -> {"default", "user"}]
      /\ servesDefaults \in BOOLEAN /\ (servesDefaults => settings = defaults)
      /\ unchecked \in BOOLEAN /\ (~unchecked => \A n \in Fields : settings[n] # "wrong")
      /\ behind \in BOOLEAN /\ running \in BOOLEAN
  BY DEF SettingsFileIInv, SettingsFileInv, SettingsFileTypeOK, WrongComesUnchecked, ServesFits,
         ModeRecords
<1>1. CASE FileLoads
  BY <1>1, LoadKeepsFile
<1>2. CASE ImportsPayload
  <2>1. PICK given \in Given, v \in OldVersions \cup {CurrentVersion} :
          /\ ValidPayload(Normalized(given), NoModes) /\ Builds(Normalized(given))
          /\ settings' = Built(Normalized(given)) /\ settingsVersion' = v
    BY <1>2 DEF ImportsPayload
  <2>2. Changes /\ Saves /\ servesDefaults' = FALSE
        /\ UNCHANGED <<modes, defaults, booted, unchecked>>
    BY <1>2 DEF ImportsPayload, fileHistory
  <2>3. \A n \in DOMAIN Normalized(given) : Normalized(given)[n] # "wrong"
    BY <2>1 DEF ValidPayload, ValidSetting
  <2>4. /\ settings' \in [Fields -> Values] /\ settings'["coach_prompt_templates"] # "wrong"
        /\ settings'["default_asr_model_id"] # "wrong"
        /\ \A n \in Fields : settings'[n] # "wrong"
    BY <2>1, <2>3, FileConstants, BuiltAre
  <2> QED
    BY <1>0, <2>1, <2>2, <2>4, ChangesKeep
<1>3. CASE AppliesSync
  <2>0. Changes /\ UNCHANGED <<defaults, booted>>
    BY <1>3 DEF AppliesSync
  <2>1. PICK given \in Given \cup {NotGiven}, newModes \in GivenModes \cup {NoModes},
             v \in OldVersions \cup {CurrentVersion} :
          LET takesModes == newModes # NoModes /\ ModesBuild(newModes)
              fits == /\ newModes = NoModes \/ takesModes
                      /\ given = NotGiven \/ Builds(Normalized(given))
          IN  /\ modes' = IF takesModes THEN newModes ELSE modes
              /\ IF fits /\ given # NotGiven
                 THEN /\ settings' = Built(Normalized(given)) /\ settingsVersion' = v
                      /\ servesDefaults' = FALSE /\ unchecked' = TRUE
                 ELSE UNCHANGED <<settings, settingsVersion, servesDefaults, unchecked>>
              /\ IF fits THEN Saves
                 ELSE /\ behind' = (behind \/ modes' # modes)
                      /\ UNCHANGED <<file, running, saveFailuresLeft>>
    BY <1>3 DEF AppliesSync
  <2> DEFINE takesModes == newModes # NoModes /\ ModesBuild(newModes)
             fits == /\ newModes = NoModes \/ takesModes
                     /\ given = NotGiven \/ Builds(Normalized(given))
  <2>2. modes' \in ModeRecords
    <3>1. CASE takesModes
      <4>1. newModes \in GivenModes /\ newModes["wispr"] # "wrong" /\ newModes["system"] # "wrong"
        BY <3>1 DEF ModesBuild, Modes
      <4> QED
        BY <2>1, <3>1, <4>1 DEF GivenModes, ModeRecords
    <3>2. CASE ~takesModes
      BY <1>0, <2>1, <3>2
    <3> QED
      BY <3>1, <3>2
  <2>3. CASE fits /\ given # NotGiven
    <3>1. /\ settings' = Built(Normalized(given)) /\ settingsVersion' = v
          /\ servesDefaults' = FALSE /\ unchecked' = TRUE /\ Saves
          /\ given \in Given /\ Builds(Normalized(given))
      BY <2>1, <2>3
    <3>2. /\ settings' \in [Fields -> Values] /\ settings'["coach_prompt_templates"] # "wrong"
          /\ settings'["default_asr_model_id"] # "wrong"
      BY <3>1, FileConstants, BuiltAre
    <3> QED
      BY <1>0, <2>0, <2>2, <3>1, <3>2, ChangesKeep
  <2>4. CASE fits /\ given = NotGiven
    <3>1. UNCHANGED <<settings, settingsVersion, servesDefaults, unchecked>> /\ Saves
      BY <2>1, <2>4
    <3> QED
      BY <1>0, <2>0, <2>2, <3>1, ChangesKeep
  <2>5. CASE ~fits
    <3>1. /\ UNCHANGED <<settings, settingsVersion, servesDefaults, unchecked>>
          /\ behind' = (behind \/ modes' # modes) /\ UNCHANGED <<file, running, saveFailuresLeft>>
      BY <2>1, <2>5
    <3>2. SettingsFileTypeOK /\ FileFits /\ FilesAreReadWhole /\ RestartChangesNothing
      BY DEF SettingsFileIInv, SettingsFileInv
    <3>3. FileFits' /\ file'.kind \in {"none", "broken", "settings"}
          /\ saveFailuresLeft' \in 0 .. NSaveFailures
      BY <3>1, <3>2 DEF FileFits, SettingsFileTypeOK
    <3>4. RestartChangesNothing'
      <4>1. ~behind' => ~behind /\ modes' = modes
        BY <3>1
      <4> QED
        BY <3>1, <3>2, <4>1
           DEF RestartChangesNothing
    <3>5. behind' \in BOOLEAN /\ running' \in BOOLEAN
      BY <1>0, <3>1
    <3>6. changesLeft' \in 0 .. NChanges
      BY <2>0, <3>2, FileConstants DEF Changes, SettingsFileTypeOK
    <3>7. FilesAreReadWhole'
      BY <2>0, <3>2 DEF FilesAreReadWhole, AllDefaults, ModeDefaults
    <3>8. /\ settings' = settings /\ settingsVersion' = settingsVersion /\ unchecked' = unchecked
          /\ servesDefaults' = servesDefaults /\ defaults' = defaults
      BY <2>0, <3>1
    <3> QED
      BY <1>0, <2>2, <3>3, <3>4, <3>5, <3>6, <3>7, <3>8, ServedFits
  <2> QED
    BY <2>3, <2>4, <2>5
<1>4. CASE UpdatesPartial
  <2>1. PICK n \in Fields \cap FileNames, v \in Values :
          /\ ValidSetting(n, v) /\ settings' = [settings EXCEPT ![n] = v]
          /\ defaults' = IF servesDefaults THEN settings' ELSE defaults
    BY <1>4 DEF UpdatesPartial
  <2>2. Changes /\ Saves /\ UNCHANGED <<settingsVersion, modes, servesDefaults, booted, unchecked>>
    BY <1>4 DEF UpdatesPartial, fileHistory
  <2>3. v # "wrong" /\ v \in {"default", "user"}
    BY <2>1 DEF ValidSetting, Values
  <2>4. /\ settings' \in [Fields -> Values] /\ settings'["coach_prompt_templates"] # "wrong"
        /\ settings'["default_asr_model_id"] # "wrong"
    BY <1>0, <2>1, <2>3, NamesAre
  <2>5. ~unchecked' => \A m \in Fields : settings'[m] # "wrong"
    BY <1>0, <2>1, <2>2, <2>3
  <2>6. defaults' \in [Fields -> {"default", "user"}]
    <3>1. CASE servesDefaults
      <4>1. settings \in [Fields -> {"default", "user"}]
        BY <1>0, <3>1
      <4> QED
        BY <2>1, <2>3, <3>1, <4>1
    <3>2. CASE ~servesDefaults
      BY <1>0, <2>1, <3>2
    <3> QED
      BY <3>1, <3>2
  <2>7. servesDefaults' => settings' = defaults'
    BY <2>1, <2>2
  <2>8. /\ modes' \in ModeRecords /\ settingsVersion' \in OldVersions \cup {CurrentVersion}
        /\ servesDefaults' \in BOOLEAN /\ unchecked' \in BOOLEAN /\ UNCHANGED booted
    BY <1>0, <2>2
  <2> QED
    BY <2>2, <2>4, <2>5, <2>6, <2>7, <2>8, ChangesKeep
<1>5. CASE ResetsAll
  <2>1. /\ Changes /\ Saves /\ settings' = defaults /\ settingsVersion' = CurrentVersion
        /\ servesDefaults' = TRUE /\ modes' = ModeDefaults
        /\ UNCHANGED <<defaults, booted, unchecked>>
    BY <1>5 DEF ResetsAll, fileHistory
  <2>2. settings' \in [Fields -> Values] /\ \A n \in Fields : settings'[n] # "wrong"
    BY <1>0, <2>1 DEF Values
  <2>3. modes' \in ModeRecords
    BY <2>1 DEF ModeDefaults, ModeRecords, Modes
  <2> QED
    BY <1>0, <2>1, <2>2, <2>3, NamesAre, ChangesKeep
<1>6. CASE ChangesModes
  <2>1. Changes /\ Saves /\ UNCHANGED <<settings, settingsVersion, defaults, servesDefaults, booted,
                                        unchecked>>
    BY <1>6 DEF ChangesModes, fileHistory
  <2>2. modes' \in ModeRecords
    <3>1. PICK m \in Modes : modes' \in ModesAfter(m)
      BY <1>6 DEF ChangesModes
    <3>2. m = "wispr" \/ m = "system"
      BY DEF Modes
    <3> QED
      BY <1>0, <3>1, <3>2 DEF ModesAfter, ModeRecords, Modes
  <2> QED
    BY <1>0, <2>1, <2>2, ChangesKeep
<1>7. CASE FileQuits \/ UNCHANGED fileVars
  <2>1. /\ UNCHANGED <<file, settings, settingsVersion, modes, defaults, servesDefaults, booted,
                       unchecked, behind, changesLeft, saveFailuresLeft>>
        /\ running' \in {FALSE, running}
    BY <1>7 DEF FileQuits, fileVars, servedVars, fileHistory
  <2>2. SettingsFileTypeOK /\ FileFits /\ FilesAreReadWhole /\ RestartChangesNothing
    BY DEF SettingsFileIInv, SettingsFileInv
  <2>3. FileFits' /\ file'.kind \in {"none", "broken", "settings"}
        /\ saveFailuresLeft' \in 0 .. NSaveFailures /\ changesLeft' \in 0 .. NChanges
    BY <2>1, <2>2 DEF FileFits, SettingsFileTypeOK
  <2>4. RestartChangesNothing'
    BY <1>0, <2>1, <2>2 DEF RestartChangesNothing
  <2>5. FilesAreReadWhole'
    BY <2>1, <2>2 DEF FilesAreReadWhole, AllDefaults, ModeDefaults
  <2>6. running' \in BOOLEAN
    BY <1>0, <2>1
  <2> QED
    BY <1>0, <2>1, <2>3, <2>4, <2>5, <2>6, ServedFits
<1> QED
  BY <1>1, <1>2, <1>3, <1>4, <1>5, <1>6, <1>7 DEF SettingsFileNext

\* Whatever is imported, changed, reset and cut short: a restart brings back what is served,
\* what is wrong came unchecked, and a file is read whole or not at all.
THEOREM RestartsBringBackSettings == SettingsFileSpec => []SettingsFileInv
<1>1. SettingsFileIInv => SettingsFileInv
  BY DEF SettingsFileIInv
<1> QED
  BY <1>1, SettingsFileBegins, SettingsFileSteps, PTL DEF SettingsFileSpec
=============================================================================
