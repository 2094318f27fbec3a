------------------------- MODULE WhisperTranscriber -------------------------
(***************************************************************************)
(* WhisperTranscriber of stt/engine.py: a caller starts and stops it and   *)
(* submits chunks of audio to a bounded queue, out of which a full queue   *)
(* drops the oldest; a thread loads the model, on the GPU if it can, and   *)
(* decodes one chunk after the other, going over to the CPU when the GPU   *)
(* fails.  Chunks are numbered as they are submitted.  What the GPU, the   *)
(* memory and the decoder do is a free choice.                             *)
(***************************************************************************)
EXTENDS Naturals, Sequences, SequencesExt

CONSTANTS NSubmits,   \* bound: chunks submitted
          MaxQueue,   \* max_queue_items
          NWhisperStarts \* bound: threads started

ASSUME WhisperAssumption ==
  NSubmits \in Nat /\ MaxQueue \in Nat \ {0} /\ NWhisperStarts \in Nat

VARIABLES
  execution, device,  \* execution_mode and device, as asked for
  caller,       \* where the caller is
  submits,      \* chunks submitted
  chunkQueue,   \* _queue
  stopping,     \* _stop
  whisper,      \* where the thread is
  whisperStarts, \* history: threads started
  inHand,       \* the chunk that the thread decodes
  loaded,       \* the device of _model, "none" without one
  local,        \* the device of the model the thread uses
  reported,     \* _gpu_mode and _runtime_device
  decoded,      \* history: the chunks whose segments were all delivered, in their order
  gone,         \* history: chunks dropped, refused or lost
  halfLoaded    \* history: a model stayed behind when loading failed

callerVars == <<caller, submits>>
threadVars == <<whisper, inHand, local>>
modelVars == <<loaded, reported, halfLoaded>>
fateVars == <<decoded, gone>>
whisperVars == <<execution, device, callerVars, chunkQueue, stopping, whisperStarts,
                 threadVars, modelVars, fateVars>>
asked == <<execution, device>>

NoChunk == 0
WhisperLives == whisper \notin {"none", "ended"}

WhisperInit ==
  /\ execution \in {"auto", "gpu_only", "cpu_only"} /\ device \in {"cpu", "cuda"}
  /\ caller = "idle" /\ submits = 0 /\ chunkQueue = <<>> /\ stopping = FALSE
  /\ whisper = "none" /\ whisperStarts = 0 /\ inHand = NoChunk /\ local = "none"
  /\ loaded = "none" /\ reported = "unknown" /\ halfLoaded = FALSE
  /\ decoded = <<>> /\ gone = {}

-----------------------------------------------------------------------------
(* The caller                                                              *)

\* start(): nothing happens while the thread is alive, even if it is about to stop.
WhisperStarts ==
  /\ caller = "idle" /\ whisperStarts < NWhisperStarts
  /\ IF WhisperLives THEN UNCHANGED <<stopping, whisperStarts, threadVars>>
     ELSE /\ stopping' = FALSE /\ whisperStarts' = whisperStarts + 1
          /\ whisper' = "load" /\ UNCHANGED <<inHand, local>>
  /\ UNCHANGED <<asked, callerVars, chunkQueue, modelVars, fateVars>>

\* stop(): the join gives up after five seconds, so the thread may be at work still.
WhisperStops ==
  /\ caller = "idle" /\ stopping' = TRUE
  /\ UNCHANGED <<asked, callerVars, chunkQueue, whisperStarts, threadVars, modelVars,
                 fateVars>>

\* submit(), up to the exception of a full queue.
SubmitsChunk ==
  /\ caller = "idle" /\ submits < NSubmits /\ submits' = submits + 1
  /\ IF stopping THEN gone' = gone \cup {submits'} /\ UNCHANGED <<caller, chunkQueue>>
     ELSE IF Len(chunkQueue) < MaxQueue
          THEN chunkQueue' = Append(chunkQueue, submits') /\ UNCHANGED <<caller, gone>>
          ELSE caller' = "evict" /\ UNCHANGED <<chunkQueue, gone>>
  /\ UNCHANGED <<asked, stopping, whisperStarts, threadVars, modelVars, decoded>>

\* What follows the exception: the oldest chunk goes; if there is none left the new one does.
EvictsOldest ==
  /\ caller = "evict"
  /\ IF chunkQueue = <<>>
     THEN caller' = "idle" /\ gone' = gone \cup {submits} /\ UNCHANGED chunkQueue
     ELSE caller' = "again" /\ gone' = gone \cup {Head(chunkQueue)}
          /\ chunkQueue' = Tail(chunkQueue)
  /\ UNCHANGED <<asked, submits, stopping, whisperStarts, threadVars, modelVars, decoded>>

\* Then the new one is put in; nobody else submits, so there is room for it.
PutsAgain ==
  /\ caller = "again" /\ caller' = "idle"
  /\ IF Len(chunkQueue) < MaxQueue
     THEN chunkQueue' = Append(chunkQueue, submits) /\ UNCHANGED gone
     ELSE gone' = gone \cup {submits} /\ UNCHANGED chunkQueue
  /\ UNCHANGED <<asked, submits, stopping, whisperStarts, threadVars, modelVars, decoded>>

-----------------------------------------------------------------------------
(* The model                                                               *)

Load(dev, told, ok) == [loaded |-> dev, reported |-> told, ok |-> ok]

\* The CPU is tried; if that fails what was there stays.
CpuLoads(before) == {Load("cpu", "cpu", TRUE), Load(before, reported, FALSE)}

\* Variant of Loads: the CPU is tried in every mode.
LoadsAnyway ==
  IF loaded # "none" THEN {Load(loaded, reported, TRUE)}
  ELSE IF device = "cpu" THEN CpuLoads("none")
  ELSE {Load("cuda", "cuda", TRUE)} \cup CpuLoads("none") \cup CpuLoads("cuda")

\* _load_model(): with _check_gpu_memory(), and _warmup_gpu() when the model is in its place
\* already.  A model that is there is used as it is.
Loads ==
  IF loaded # "none" THEN {Load(loaded, reported, TRUE)}
  ELSE IF execution = "cpu_only" \/ device = "cpu" THEN CpuLoads("none")
  ELSE {Load("cuda", "cuda", TRUE)} \cup
       (IF execution = "gpu_only"
        THEN {Load("none", reported, FALSE), Load("cuda", reported, FALSE)}
        ELSE CpuLoads("none") \cup CpuLoads("cuda"))

TakesModel(l) ==
  /\ loaded' = l.loaded /\ reported' = l.reported
  /\ halfLoaded' = (l.loaded # "none" /\ (halfLoaded \/ ~l.ok))

\* _reload_cpu_model(), with _cleanup_gpu_resources(): never in the mode gpu_only.
Reloads == {Load("cpu", "cpu", TRUE), Load("none", "cuda", FALSE)}

\* validate_runtime(), before the thread is started: the probe reads what it decodes, and so
\* finds every failure of the GPU.
ValidatesRuntime ==
  /\ caller = "idle" /\ ~WhisperLives
  /\ \E l \in Loads :
       \/ TakesModel(l)
       \/ /\ l.ok /\ execution # "gpu_only" /\ l.reported = "cuda"
          /\ \E r \in Reloads : TakesModel(r)
  /\ UNCHANGED <<asked, callerVars, chunkQueue, stopping, whisperStarts, threadVars,
                 fateVars>>

\* cleanup(): the thread keeps the model it uses.
CleansUp ==
  /\ caller = "idle" /\ loaded # "none" /\ loaded' = "none" /\ halfLoaded' = FALSE
  /\ UNCHANGED <<asked, callerVars, chunkQueue, stopping, whisperStarts, threadVars,
                 reported, fateVars>>

-----------------------------------------------------------------------------
(* The thread, _run()                                                      *)

\* The error callbacks are called, and the thread ends; what it has in hand is lost.
Dies ==
  /\ whisper' = "ended" /\ inHand' = NoChunk /\ local' = "none"
  /\ gone' = gone \cup ({inHand} \ {NoChunk}) /\ UNCHANGED decoded

ThreadLoads ==
  /\ whisper = "load"
  /\ \E l \in Loads :
       /\ TakesModel(l)
       /\ IF l.ok THEN /\ whisper' = "loop" /\ local' = l.loaded
                       /\ UNCHANGED <<inHand, fateVars>>
          ELSE Dies
  /\ UNCHANGED <<asked, callerVars, chunkQueue, stopping, whisperStarts>>

\* The flag is looked at, then the queue for a quarter of a second.
ThreadLooks ==
  /\ whisper = "loop" /\ whisper' = IF stopping THEN "ended" ELSE "get"
  /\ local' = (IF stopping THEN "none" ELSE local)
  /\ UNCHANGED <<asked, callerVars, chunkQueue, stopping, whisperStarts, inHand, modelVars,
                 fateVars>>

ThreadGets ==
  /\ whisper = "get"
  /\ \/ /\ chunkQueue = <<>> /\ whisper' = "loop" /\ UNCHANGED <<inHand, chunkQueue>>
     \/ /\ chunkQueue # <<>> /\ whisper' = "decode"
        /\ inHand' = Head(chunkQueue) /\ chunkQueue' = Tail(chunkQueue)
  /\ UNCHANGED <<asked, callerVars, stopping, whisperStarts, local, modelVars, fateVars>>

\* transcribe(), which only prepares the segments: a failure of the GPU goes over to the CPU,
\* if the GPU was reported and may be left.
ThreadDecodes ==
  /\ whisper = "decode"
  /\ \/ whisper' = "segments" /\ UNCHANGED <<inHand, local, modelVars, fateVars>>
     \/ Dies /\ UNCHANGED modelVars
     \/ /\ local = "cuda" /\ reported = "cuda" /\ execution # "gpu_only"
        /\ \E r \in Reloads :
             /\ TakesModel(r)
             /\ \/ /\ r.ok /\ local' = "cpu" /\ whisper' = "segments"
                   /\ UNCHANGED <<inHand, fateVars>>
                \/ Dies
  /\ UNCHANGED <<asked, callerVars, chunkQueue, stopping, whisperStarts>>

\* The segments are decoded as they are read, and handed to the callbacks: here every failure
\* ends the thread.
ThreadReads ==
  /\ whisper = "segments"
  /\ \/ /\ whisper' = "loop" /\ decoded' = Append(decoded, inHand) /\ inHand' = NoChunk
        /\ UNCHANGED <<local, gone>>
     \/ Dies
  /\ UNCHANGED <<asked, callerVars, chunkQueue, stopping, whisperStarts, modelVars>>

WhisperNext ==
  \/ WhisperStarts \/ WhisperStops \/ SubmitsChunk \/ EvictsOldest \/ PutsAgain
  \/ ValidatesRuntime \/ CleansUp
  \/ ThreadLoads \/ ThreadLooks \/ ThreadGets \/ ThreadDecodes \/ ThreadReads

WhisperSpec == WhisperInit /\ [][WhisperNext]_whisperVars

-----------------------------------------------------------------------------
(* Properties                                                              *)

WhisperTypeOK ==
  /\ execution \in {"auto", "gpu_only", "cpu_only"} /\ device \in {"cpu", "cuda"}
  /\ caller \in {"idle", "evict", "again"} /\ submits \in 0 .. NSubmits
  /\ chunkQueue \in Seq(1 .. NSubmits) /\ Len(chunkQueue) <= MaxQueue
  /\ whisper \in {"none", "load", "loop", "get", "decode", "segments", "ended"}
  /\ inHand \in 0 .. NSubmits /\ (inHand # NoChunk <=> whisper \in {"decode", "segments"})
  /\ loaded \in {"none", "cpu", "cuda"} /\ local \in {"none", "cpu", "cuda"}
  /\ reported \in {"unknown", "cpu", "cuda"} /\ stopping \in BOOLEAN
  /\ whisperStarts \in 0 .. NWhisperStarts /\ halfLoaded \in BOOLEAN
  /\ gone \subseteq 1 .. NSubmits /\ decoded \in Seq(1 .. NSubmits)

\* The chunks that were submitted are, in this order, decoded, in hand, waiting or about to be
\* put in; the others are known to be gone, and each chunk is in one place only, whatever the
\* order of the caller's and the thread's steps, and across stops and starts.
OldestFirst ==
  LET hand == IF inHand = NoChunk THEN <<>> ELSE <<inHand>>
      new == IF caller = "idle" THEN <<>> ELSE <<submits>>
      all == decoded \o hand \o chunkQueue \o new
  IN  /\ \A i \in 1 .. Len(all) - 1 : all[i] < all[i + 1]
      /\ ToSet(all) \cap gone = {} /\ ToSet(all) \cup gone = 1 .. submits

\* A thread uses the model that is there, unless it was cleaned up since; and what is reported
\* is the device it runs on, unless it is a model left by a load that failed.
DeviceIsKnown ==
  /\ local # "none" /\ loaded # "none" => local = loaded
  /\ loaded # "none" /\ ~halfLoaded => reported = loaded
  /\ reported = "cuda" => execution # "cpu_only" /\ device = "cuda"

\* In the mode gpu_only nothing is ever decoded on the CPU, unless this was asked for with the
\* device, and in the mode cpu_only nothing on the GPU.
ModeIsKept ==
  /\ execution = "gpu_only" /\ device = "cuda" => "cpu" \notin {loaded, local, reported}
  /\ execution = "cpu_only" => "cuda" \notin {loaded, local, reported}

WhisperInv == WhisperTypeOK /\ OldestFirst /\ DeviceIsKnown /\ ModeIsKept
=============================================================================
