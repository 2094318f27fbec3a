--------------------------- MODULE FastTranscriber ---------------------------
(***************************************************************************)
(* The transcriber of app/stt/fast_engine.py: callers submit chunks to a   *)
(* bounded queue, start and stop it, and a worker thread decodes the       *)
(* chunks, rejects what looks invented, and reloads the model when the GPU *)
(* fails.  A worker is named after the start that made it.                 *)
(*                                                                         *)
(* Chunks are numbered as they are submitted.  The model of a device comes *)
(* from the pool, so that a reload gets the same one.                      *)
(***************************************************************************)
EXTENDS Naturals, Sequences

CONSTANTS NChunks,      \* bound: chunks submitted
          QueueLimit,   \* max_queue_items
          NRuns,        \* bound: calls of start() that make a worker
          Faults        \* bound: rejections, GPU failures and decodes that raise

ASSUME SttAssumption ==
  NChunks \in Nat /\ NRuns \in Nat /\ Faults \in Nat /\ QueueLimit \in Nat \ {0}

Workers == 1 .. NRuns

VARIABLES
  execMode,     \* execution_mode
  hasContext,   \* _context_manager is not None: not in push-to-talk
  submitted,    \* chunks submitted
  sttQueue,     \* _queue
  results,      \* the chunks handled, in that order
  fate,         \* what became of each chunk
  sttStop,      \* _stop
  runs,         \* workers made
  worker,       \* where each worker is
  hand,         \* the chunk each has in hand
  backend,      \* the device of _backend
  using,        \* the device of each worker's local variable backend
  reported,     \* _runtime_device and _gpu_mode
  faults,       \* faults so far
  gpuFailed     \* a GPU failure has been handled

sttVars == <<execMode, hasContext, submitted, sttQueue, results, fate, sttStop, runs, worker,
             hand, backend, using, reported, faults, gpuFailed>>

NoChunk == 0
Accepted == {"queued", "in hand"}

SttInit ==
  /\ execMode \in {"auto", "gpu_only", "cpu_only"} /\ hasContext \in BOOLEAN
  /\ submitted = 0 /\ sttQueue = <<>> /\ results = <<>>
  /\ fate = [c \in 1 .. NChunks |-> "none"]
  /\ sttStop = FALSE
  /\ runs = 0
  /\ worker = [w \in Workers |-> "none"]
  /\ hand = [w \in Workers |-> NoChunk]
  /\ backend = "none" /\ using = [w \in Workers |-> "none"]
  /\ reported = "unknown"
  /\ faults = 0 /\ gpuFailed = FALSE

Running(w) == worker[w] \in {"loading", "on"}
Goes(w, place) == worker' = [worker EXCEPT ![w] = place]

\* The device _initialize_backend decides on, with a GPU present.
Device == IF execMode = "cpu_only" THEN "cpu" ELSE "cuda"

-----------------------------------------------------------------------------
(* Callers *)

\* Variant of SttStart: the thread of before is not looked at.
SttStartAnew ==
  /\ runs < NRuns
  /\ sttStop' = FALSE
  /\ runs' = runs + 1
  /\ Goes(runs', "loading")
  /\ UNCHANGED <<execMode, hasContext, submitted, sttQueue, results, fate, hand, backend, using,
                 reported, faults, gpuFailed>>

\* Variant of Submit: the queue has no limit.
SubmitAlways ==
  /\ submitted < NChunks
  /\ submitted' = submitted + 1
  /\ fate' = [fate EXCEPT ![submitted'] = IF sttStop THEN "stopped" ELSE "queued"]
  /\ sttQueue' = IF sttStop THEN sttQueue ELSE Append(sttQueue, submitted')
  /\ UNCHANGED <<execMode, hasContext, results, sttStop, runs, worker, hand, backend, using,
                 reported, faults, gpuFailed>>

\* start(), which does nothing, and leaves the stop flag set, if the thread is still alive.
SttStart ==
  /\ runs < NRuns
  /\ runs > 0 => ~Running(runs)
  /\ sttStop' = FALSE
  /\ runs' = runs + 1
  /\ Goes(runs', "loading")
  /\ UNCHANGED <<execMode, hasContext, submitted, sttQueue, results, fate, hand, backend, using,
                 reported, faults, gpuFailed>>

\* stop(), whose join of five seconds changes nothing.
SttStop ==
  /\ runs > 0 /\ ~sttStop
  /\ sttStop' = TRUE
  /\ UNCHANGED <<execMode, hasContext, submitted, sttQueue, results, fate, runs, worker, hand,
                 backend, using, reported, faults, gpuFailed>>

Submit ==
  /\ submitted < NChunks
  /\ submitted' = submitted + 1
  /\ IF sttStop \/ Len(sttQueue) >= QueueLimit
     THEN /\ fate' = [fate EXCEPT ![submitted'] = IF sttStop THEN "stopped" ELSE "dropped"]
          /\ UNCHANGED sttQueue
     ELSE /\ fate' = [fate EXCEPT ![submitted'] = "queued"]
          /\ sttQueue' = Append(sttQueue, submitted')
  /\ UNCHANGED <<execMode, hasContext, results, sttStop, runs, worker, hand, backend, using,
                 reported, faults, gpuFailed>>

-----------------------------------------------------------------------------
(* The worker thread *)

\* _initialize_backend, which may fail; a warm-up that fails leaves what is reported.
SttLoads(w) ==
  /\ worker[w] = "loading"
  /\ \/ /\ Goes(w, "on")
        /\ backend' = IF backend = "none" THEN Device ELSE backend
        /\ using' = [using EXCEPT ![w] = backend']
        /\ reported' = IF backend = "none" THEN Device ELSE reported
        /\ UNCHANGED faults
     \/ /\ backend = "none" /\ faults < Faults
        /\ faults' = faults + 1
        /\ Goes(w, "failed")
        /\ UNCHANGED <<backend, using, reported>>
  /\ UNCHANGED <<execMode, hasContext, submitted, sttQueue, results, fate, sttStop, runs, hand,
                 gpuFailed>>

SttTakes(w) ==
  /\ worker[w] = "on" /\ hand[w] = NoChunk /\ ~sttStop /\ sttQueue # <<>>
  /\ hand' = [hand EXCEPT ![w] = Head(sttQueue)]
  /\ fate' = [fate EXCEPT ![Head(sttQueue)] = "in hand"]
  /\ sttQueue' = Tail(sttQueue)
  /\ UNCHANGED <<execMode, hasContext, submitted, results, sttStop, runs, worker, backend, using,
                 reported, faults, gpuFailed>>

SttEnds(w) ==
  /\ worker[w] = "on" /\ hand[w] = NoChunk /\ sttStop
  /\ Goes(w, "ended")
  /\ UNCHANGED <<execMode, hasContext, submitted, sttQueue, results, fate, sttStop, runs, hand,
                 backend, using, reported, faults, gpuFailed>>

\* The chunk in hand is done with, in this way.
ChunkEnds(w, how) ==
  /\ hand' = [hand EXCEPT ![w] = NoChunk]
  /\ fate' = [fate EXCEPT ![hand[w]] = how]

\* The segment is handed to the callbacks.
SttDecodes(w) ==
  /\ worker[w] = "on" /\ hand[w] # NoChunk
  /\ ChunkEnds(w, "segment")
  /\ results' = Append(results, hand[w])
  /\ UNCHANGED <<execMode, hasContext, submitted, sttQueue, sttStop, runs, worker, backend, using,
                 reported, faults, gpuFailed>>

Fault(w) == worker[w] = "on" /\ hand[w] # NoChunk /\ faults < Faults /\ faults' = faults + 1

\* Variant of SttRejects: the worker rests after a rejection.
SttRejectsAndRests(w) ==
  /\ Fault(w)
  /\ ChunkEnds(w, "rejected")
  /\ Goes(w, "ended")
  /\ UNCHANGED <<execMode, hasContext, submitted, sttQueue, results, sttStop, runs, backend,
                 using, reported, gpuFailed>>

\* _should_reject_result.  The context manager is told to clear(), which it cannot: the
\* exception ends the worker.
SttRejects(w) ==
  /\ Fault(w)
  /\ ChunkEnds(w, "rejected")
  /\ IF hasContext THEN Goes(w, "failed") ELSE UNCHANGED worker
  /\ UNCHANGED <<execMode, hasContext, submitted, sttQueue, results, sttStop, runs, backend,
                 using, reported, gpuFailed>>

\* The decode, or a callback, raises.
SttFails(w) ==
  /\ Fault(w)
  /\ ChunkEnds(w, "failed")
  /\ Goes(w, "failed")
  /\ UNCHANGED <<execMode, hasContext, submitted, sttQueue, results, sttStop, runs, backend,
                 using, reported, gpuFailed>>

\* A GPURuntimeError: _handle_gpu_failure loads the model anew, on the device the mode says,
\* and reports the CPU.  The worker goes on with the backend it has; the chunk is lost.
SttGpuFails(w) ==
  /\ Fault(w) /\ using[w] = "cuda"
  /\ ChunkEnds(w, "failed")
  /\ IF execMode = "gpu_only"
     THEN Goes(w, "failed") /\ UNCHANGED <<backend, reported, gpuFailed>>
     ELSE /\ backend' = Device
          /\ reported' = "cpu"
          /\ gpuFailed' = TRUE
          /\ UNCHANGED worker
  /\ UNCHANGED <<execMode, hasContext, submitted, sttQueue, results, sttStop, runs, using>>

-----------------------------------------------------------------------------
WorkerStep(w) == \/ SttLoads(w) \/ SttTakes(w) \/ SttEnds(w)
                 \/ SttDecodes(w) \/ SttRejects(w) \/ SttFails(w) \/ SttGpuFails(w)

SttNext ==
  \/ SttStart \/ SttStop \/ Submit
  \/ \E w \in Workers : WorkerStep(w)

SttSpec == SttInit /\ [][SttNext]_sttVars

\* A worker runs, and a decode ends, one way or another.  Callers are owed nothing.
SttFairness == \A w \in Workers : WF_sttVars(WorkerStep(w))

SttFairSpec == SttSpec /\ SttFairness

-----------------------------------------------------------------------------
(* Properties *)

\* Types of the queue, the workers and the chunks' fates.
SttTypeOK ==
  /\ execMode \in {"auto", "gpu_only", "cpu_only"} /\ hasContext \in BOOLEAN
  /\ submitted \in 0 .. NChunks /\ runs \in 0 .. NRuns /\ faults \in 0 .. Faults
  /\ sttQueue \in Seq(1 .. NChunks) /\ Len(sttQueue) <= QueueLimit
  /\ results \in Seq(1 .. NChunks)
  /\ fate \in [1 .. NChunks -> Accepted \cup {"none", "stopped", "dropped", "segment", "rejected",
                                              "failed"}]
  /\ worker \in [Workers -> {"none", "loading", "on", "ended", "failed"}]
  /\ hand \in [Workers -> 0 .. NChunks]
  /\ backend \in {"none", "cuda", "cpu"} /\ using \in [Workers -> {"none", "cuda", "cpu"}]
  /\ reported \in {"unknown", "cuda", "cpu"}
  /\ sttStop \in BOOLEAN /\ gpuFailed \in BOOLEAN

\* Segments come in the order in which their chunks were submitted, also when the
\* transcriber was stopped and started with a worker still in a decode and chunks queued.
SegmentsInOrder ==
  \A i, j \in 1 .. Len(results) : i < j => results[i] < results[j]

\* An accepted chunk is dealt with, unless the transcriber is told to stop or an error has
\* ended its worker: a rejection or a GPU failure does not keep it from the next chunk.
AcceptedIsHandled ==
  \A c \in 1 .. NChunks :
    []<>(\/ fate[c] \notin Accepted
         \/ runs = 0 \/ sttStop
         \/ \E w \in Workers : w = runs /\ worker[w] = "failed")

\* "Automatic CPU fallback on GPU errors": after one, no worker decodes on the GPU.
\* The code does not keep this: README, section 6.
FallsBackToCpu == gpuFailed => \A w \in Workers : worker[w] = "on" => using[w] = "cpu"

\* The queue and its workers hand segments over in the order of the chunks.
SttInv == SttTypeOK /\ SegmentsInOrder
=============================================================================
