# A TLA+ project for OpenWispr

OpenWispr is a local dictation application: an Electron program (windows, tray, global
hotkeys, downloads) that starts a Python backend (FastAPI, audio capture, Whisper
transcription, refinement) and talks to it over HTTP, WebSockets and server-sent events.
This directory holds TLA+ models of the parts of it whose correctness depends on the order
in which threads, coroutines, timers and failures act, the TLC configurations that
model-check them on small instances, and TLAPS proofs of what matters most for every size.

| module | what it is |
| --- | --- |
| `Dictation` | what push-to-talk promises its callers; abstract |
| `HotkeyService` | the push-to-talk service and its transcriber thread; implements `Dictation` |
| `MCHotkeyService` | symmetry and a bound (`HearsAlone`) for `HotkeyService` |
| `HotkeyService_proofs` | theorems about `HotkeyService`: sessions and requests, the text, the refinement of `Dictation` |
| `HotkeyClient` | the Electron main process as a client of that service: keys, requests, sockets, pasting |
| `HotKeys` | how keys are registered with the operating system, and hold mode |
| `Overlay` | the floating window: what it was told and what it shows |
| `CaptureReads` | from the device to a push-to-talk session: capture thread, queue, reads given up |
| `SessionManager` | long recordings and the snapshot the backend service keeps of them |
| `FastTranscriber` | the transcriber's queue, workers, rejections and GPU recovery |
| `ModelPool`, `ModelPreload` | the pool of loaded models; preloading and its cancellation |
| `Chunking` | the chunker of long recordings, with its ring buffer |
| `DesktopHotkeySession`, `SystemSession` | the recorders of `app/core` that keep their own threads |
| `ModeSwitching` | the mode manager and the engine it drives |
| `AudioPipeline`, `PipelineAudio` | the life of an audio pipeline; how pipelines cut speech out of frames |
| `Recovery` | recovery strategies, fallback chains and retries |
| `WebSocketServer`, `LiveUpdates` | the sockets of the backend; how a window follows it by events and polls |
| `SettingsSharing` | who reads and writes which copy of the settings |
| `History` | the history database and the services on its one connection |
| `BackendSupervisor` | the backend process as the Electron program starts, watches and ends it |
| `RefinementQueue` | the debounced background refinement of segments |
| `ModelDownload`, `ModelDownload_proofs` | the download manager of the Electron main process |
| `Vad` | voice detection: frames to segments, segments merged and filtered |
| `StreamingEngine` | the engine that decodes overlapping windows and yields partial and final results |
| `WhisperTranscriber` | the plain transcriber: its queue, its thread, its model on GPU or CPU |
| `TextServices` | the refiner and the coach with its cache |
| `SettingsFile` | the settings file: migration, repair, import, saving |
| `MCEngine`, `MCServer`, `MCDesktop`, `MCServices` | several of these components in one run each |
| `Sessions_proofs`, `Engine_proofs` | theorems about the components of `MCEngine`: `SessionManager`, and the others |
| `Server_proofs`, `Keeping_proofs` | theorems about the components of `MCServer`: `CaptureReads` and `History` in the second |
| `Desktop_proofs` | theorems about the settings and the keys of `MCDesktop`, and about `HotkeyClient` |
| `Services_proofs` | theorems about `RefinementQueue` and about the components of `MCServices`, but for `Vad` |

Contents: [1 the system](#1-the-system), [2 the models](#2-the-models),
[3 the runs](#3-the-runs), [4 fairness](#4-fairness), [5 the proofs](#5-the-proofs),
[6 where the code and its documentation disagree](#6-where-the-code-and-its-documentation-disagree),
[7 what is not modelled](#7-what-is-not-modelled), [8 the plan](#8-the-plan),
[9 running it](#9-running-it).

Paths below are relative to `src/`.

## 1. The system

```
 hotkeys, tray ── Electron main ── HTTP /api/... ──►  FastAPI event loop ── threads
                   hotkeyHandlers.js                  HotkeyTranscriptionService   FastTranscriber
                   backendSpawn.js                    BackendService               AudioCapture
                   modelDownloadManager.js            WebSocketServer, SSE         RefinementQueue
 React windows ◄── IPC ── events ◄── WebSocket/SSE ──                              ModelPool
```

For each component: its state, its operations, whom it meets, what is hard, and what makes it
correct. `PROJECT.json` lists the same components with their sources and status, and, under
`hazards`, the lines where each of the hard behaviours bites.

**Push-to-talk service** (`app/api/server.py`, `HotkeyTranscriptionService`; routes in
`app/api/routes/hotkey.py`). State: the current session, an `asyncio.Lock`, the published
status; per session its state, cancel flag, audio loop task, finalize task, segments, aggregated
and composed text, final response. Operations: start, stop (`finish`, `finish_and_paste`,
`cancel`), the audio loop, the segment callback from the transcriber thread, the finalize task
(wait for the loop, drain, compose, refine, coach, answer, clean up, unregister).
*Hard:* requests overlap each other and finalize tasks of earlier sessions; callbacks run in
another thread; every stage can fail or time out. *Correct when:* one session records at a
time; a microphone that is open has someone who will close it; each stop is answered, all stops
of a session alike; a cancelled session yields no text; a finished one loses nothing that was
accepted, as far as the deadlines allow; the status tells the truth when all is quiet.

**Fast transcriber** (`app/stt/fast_engine.py`, `fast_whisper_backend.py`). State: bounded
queue, stop flag, worker thread, backend, language votes. Operations: submit, stop (join with a
timeout), the worker loop, GPU to CPU fallback. *Hard:* the worker dies while `submit` goes on
accepting; the backend is replaced under the worker; what is in the worker's hands is in no
queue. *Correct when:* chunks are decoded in order and once, or reported lost.

**Utterance aggregator, composer** (`utterance_aggregator.py`, `dictation_cleanup.py`). Pure:
merge segments with overlapping words. *Correct when:* no word is lost or doubled.

**Refinement queue** (`app/api/services/refinement_queue.py`). State: one job per session with a
revision, a `threading.Timer` per job, a one-worker executor. Operations: enqueue (debounce),
timer, worker, shutdown. *Hard:* `Timer.cancel()` after the timer fired; revisions are used
again; the model runs without the lock; publishing happens after it. *Correct when:* only the
newest segment is refined and published, in order, once, and none is forgotten.

**Model download manager** (`app/electron/main/services/modelDownloadManager.js`). State: table
of downloads in memory; install directory, `.partial` files and installed files on disk.
Operations: download (attempts, back-off), cancel, remove; fetch, resume, stream, rename.
*Hard:* resumption from a partial file of unknown origin, a server that ignores ranges, failure
or the end of the program between any two steps, calls that overlap, a removal in the middle.
*Correct when:* an installed file is the remote file; a completed download has every mandatory
file; one transfer at a time; every call ends.

**WebSocket server, SSE** (`app/api/websocket_server.py`, `server.py`; in the windows
`hooks/useEventSource.ts`, `App.tsx`). State: connections, per-address counts, message queues,
heartbeats, event callbacks; in a window the stream, its retries and its polls. *Hard:* check and
registration in two critical sections; a send under a lock that the failure path takes again; slow
clients whose queue drops; polls that overtake events; a backend that restarts. *Correct when:*
limits hold, a closed connection leaves nothing behind, and a window shows what the backend has
come to, or missed an event that dropped and learns of it otherwise.

**Settings** (`core/settings/manager.py`, `transport/settings_sync.py`, `routes/settings.py`, the
copies in `App.tsx`, `windows/tray.js`, `utils/api.js`). State: the settings served, their file,
batches that wait for a timer, each window's copy. *Hard:* every window posts all settings, not the one
it changed; a batch overtakes a later write; the backend dies in a write. *Correct when:* an edit is
kept until the same setting is edited again, and what is served is in the file.

**Session manager, backend service** (`core/session_manager.py`,
`services/backend_service.py`). Long recordings; preloaded models; snapshots with
revisions; worker threads that call back. *Hard:* status checked long before it is set; fields
without a lock; stops that give up waiting; one cancel flag for all preloads. *Correct when:* speech
is listed once and in its own session, an open microphone is known, the snapshot catches up.

**Audio capture, backends** (`app/audio/capture`, `app/audio/backends`). Capture thread, bounded queue,
several backends tried, errors in a row; a reader that gives up sooner than its read. *Correct when:* the
recording is in order, what is missing is accounted for, the device is let go of.

**Audio pipelines** (`app/audio/pipelines`). Start, stop, pause, recovery of a device by tasks that
cancel each other while a thread opens it; two ways of cutting speech out of frames. *Correct when:*
a pipeline that runs captures, one that is stopped does not, and no speech is lost unnoticed.

**Chunker** (`stt/fast_chunker.py`). A ring buffer, chunks with overlap whose size adapts. *Correct
when:* every sample is in a chunk, once but for the overlap, in order.

**Streaming engine, mode manager** (`stt/streaming_engine.py`, `core/mode_manager.py`). Two modes of
which one runs; a queue, a window, a worker task; shutdown. *Correct when:* the current mode is the one
that runs, the only one, and nothing works after shutdown.

**Model pool** (`stt/model_pool.py`). Cache with per-key locks, eviction, CPU fallback.
*Correct when:* the capacity holds, the oldest model goes first, every request is served.

**Desktop hotkey session** (`core/hotkey_session.py`). Recording thread, stop from two threads,
forced clean-up. *Hard:* the recording thread stops the session that joins it. *Correct when:* each
recording is transcribed whole and given out once.

**System session** (`core/system_session.py`). Long recordings with pauses, chapters, notes, exports and
rotated files, written from three threads. *Correct when:* a stopped session has ended its threads and
its notes have every segment.

**Recovery, error handling** (`core/recovery_strategies.py`, `core/error_handler.py`). A chain of
strategies with options that only get worse. *Correct when:* what costs least is tried first, nothing is
tried for ever.

**Voice detection** (`audio/vad/vad_optimized.py`). State: silence or speech with the time of the last turn, the frames of
the speech so far (bounded), a peak that is held; in the segmenter the segment that waits to be merged. *Hard:* wall clock and sample
clock side by side, a stream that ends in speech, a buffer shorter than the speech. *Correct when:* no sample is in two segments or out
of its place, a segment is whole as far as the buffer goes, and every segment handed over is merged, returned or refused.

**Streaming engine** (`stt/streaming_engine.py`). State: the buffer and its time, the history of partial results, the context for the
next window, latencies and the beam. A generator that is suspended at each result, while its consumer pushes, flushes or resets. *Correct when:*
every sample is decoded or known to be dropped, results are in the order of their audio and dated no later than it, and no window is
decoded after the words of another stream.

**Whisper transcriber** (`stt/engine.py`). A bounded queue out of which the oldest chunk is dropped, a thread that loads the model and goes
over from GPU to CPU. *Hard:* eviction between two steps of the thread, loading that fails half way, `cleanup()` under the
thread. *Correct when:* chunks are decoded in order and once, or known to be gone, and on a device that the mode allows.

**Refiner, coach** (`app/api/services/refiner_service.py`, `coach_service.py`, `coach_cache.py`). One loaded model each, behind a lock, used without it; a
cache on disk. *Hard:* a model replaced or unloaded between its lock and its use; a model's answer may be anything; a write that
fails. *Correct when:* no word of a text changes, the model that was asked for answers, a text that has to stay local meets no model, and a
restart keeps the cache.

**Settings file** (`core/settings/manager.py`, `migrations.py`, `validator.py`). The settings and modes served, the file, its version. *Hard:* files of
older versions, files in which something is wrong, a write that does not end, an update refused half way. *Correct when:* a restart changes
nothing, wrong values come in nowhere but where nothing checks them, and no file is read in part.

The mode manager, the streaming engine, the whisper transcriber, the desktop hotkey session, the system session, the audio pipelines, the
voice detection and the recovery are reached by tests and package exports only, not by the routes of the running backend.

**Electron hotkey client** (`ipc/hotkeyHandlers.js`, `hotkeyStopPolicy.js`). Lifecycle of the recording as
the user sees it; a socket, a waiter for the stop
acknowledgement, a pending restart. *Hard:* events of an old session or socket, a lost
acknowledgement, a restart while the stop that led to it is in flight. *Correct when:* a text is
pasted once, a cancelled one never, and a stop does not wait for ever.

**Electron hot keys** (`ipc/hotkeyHandlers.js`, `services/holdModeHotkeys.js`). Registered accelerators
and, in hold mode, a hook on every key. *Correct when:* the keys shown are those that work.

**Overlay** (`windows/floatingWindow.js`, `preload/floating.js`, `components/FloatingWindow.tsx`).
Messages to a window that may not have loaded, replayed when its handlers change. *Correct when:* it shows
what it was told, of the recording it was told of.

**Electron backend supervisor** (`services/backendSpawn.js`). Spawn, health polls, bounded
restarts, stop. *Correct when:* a crash is followed by a restart, not for ever, and no backend
survives the program.

**History, dictionary, snippets, styles** (`storage/history_db.py`, `services/transcript_history_service.py`
and others). One SQLite connection for all threads, with explicit and implicit transactions. *Correct when:*
a finished session is in the history, and what is shown of it is recorded.

**Windows, tray, preload, other React pages, metrics.** Wiring and rendering, with little order-dependent state of their own.

## 2. The models

Common conventions. What the code does between two awaits of an event loop, or inside one
`with self._lock`, is one action; a thread has a program counter and one action per step that
others can see. Definitions keep the names of the code where they can; `PROJECT.json` maps each to its
lines. An operator commented "Variant of X" is not used by the specification: it is what X
would be with a plausible bug, and shows that a property can fail. Every constant is explained where it is
declared; one commented "bound" limits the model and stands for no number of the code. Where a property holds with an
exception, a variable commented "history" says whether the exception has happened, and nothing else reads it.

### HotkeyService

The service runs on one asyncio event loop, next to one transcriber thread per session. A
session is named by the start request that creates it. Text is the *set of audio chunks* it was
recognised from, which is what "nothing is lost" and "nothing of a cancelled session is told" are
about.

| state | code |
| --- | --- |
| `lockQ`, `current`, `status` | `self._lock` (fair: holder, then waiters), `self._session`, the last `hotkey_status` |
| `held` | the finalize task that blocks the whole event loop in `Thread.join()` (`fast_engine.py:538`) |
| `st`, `cancel` | `HotkeySession.state`, `cancel_requested` |
| `startPc`, `awaits`, `stopPc`, `stopMode`, `stopOf`, `told` | HTTP requests: how far they are, whom they await, what they were told |
| `loopPc` | the audio loop coroutine |
| `fate` | what became of each chunk: `unheard` → `dropped` or `queued` → `decoding` → `empty`, `discarded` or `listed` (`final_segments`) |
| `shut`, `wpc`, `hand` | the transcriber's stop flag, its thread, the chunk it holds |
| `agg`, `comp`, `aggErr` | aggregator, composed text, the aggregator's failure |
| `finPc`, `poll`, `settled`, `draft`, `resp` | finalize task: drain polls, whether the drain settled, texts, stored response |
| `late` | segments committed after the stop was acknowledged |

Actions: requests (`StartCall`, `RestartStops`, `StartCreate`, `StartFail`, `StopCall`,
`StopNothing`, `StopJoins`, `StopBegins`, `StopReturns`), audio loop (`LoopStart`, `LoopFatal`, `LoopRead`,
`LoopExit`), thread (`WorkerLoad` … `WorkerPublishes`, `WorkerDies`), finalize task
(`FinLoopEnded`, `FinLoopTimeout`, `FinPoll`, `FinSettles`, `FinDrainTimeout`, `FinCompose`, `FinRespond`,
`FinFail`, `FinStopWorker`, `FinJoined`, `FinUnregister`).

What is abstracted, and why it does not hide the properties:
- Every timeout is a choice (`FinLoopTimeout`, `FinDrainTimeout`, `FinJoined`): any relation of speeds
  is covered.
- The loss of a chunk by the silence gate, by `wait_for` giving up after 0.1 s on a read that
  takes 0.25 s, or by a full queue is one outcome, `dropped`.
- The refiner and the coach run between `FinCompose` and `FinRespond`; each has a timeout and falls back to the text it
  was given, so the text's origin is unchanged. Their tuning, and the composer's
  wording, are left out.
- `FinCompose` is one step of the event loop; the thread may have a segment half way through its
  callback before it or after it, but not between the fields `FinCompose` reads.
- Partial texts, audio levels and metrics change nothing else and are left out, as is
  the list of WebSockets of the service, which nothing in the application fills.
- `Serialised` restricts the callers: they start only when nothing records and no other start is pending. It is
  an assumption, not something the service enforces, and a start that breaks it hangs the service
  (`hotkey_restart`, `RestartDeadlock`), so nothing after it is ever answered. The liveness run and the
  refinement run take it. The safety runs and all theorems about the service allow
  any requests, `KeepsPromise` included.

`Dictation` says the same in one page: a session is recorded, stopped, answered once; one at a time; a
cancelled session is answered with nothing; a stop request is told either that nothing is being
recorded or the answer of an answered session. `ImplementsDictation` is the refinement, under
the mapping `phaseBar`, `cancelledBar`, `answerBar`, `replyBar`.

### RefinementQueue

| state | code |
| --- | --- |
| `jobs` | `self._jobs`: revision and segment per session; no job is revision 0 |
| `timer`, `rev` | each segment's `threading.Timer`, and the revision it was given |
| `execQ`, `wpc`, `item`, `snap` | the executor's work items, its worker in `_run_job`, the segment it copied |
| `down` | `shutdown()`: before, jobs cleared, executor shut down |
| `enq`, `shown` | segments enqueued; last segment whose refinement was published |

The debounce interval is not modelled as time: a timer may fire at once or late. A timer that has
fired (`fired`) cannot be cancelled any more and submits whatever happened since. The language
model answers with a new text or the same one; it runs outside the lock. `Pool` has one worker, as in the
code; a variant with two shows what depends on it. Nobody enqueues after `shutdown()`.

### ModelDownload

| state | code |
| --- | --- |
| `pc`, `attempt`, `at`, `off` | calls of `downloadModel`, attempt, artifact, offset of the request |
| `fd`, `append`, `pos` | the write stream: file, mode, remote position |
| `aborted`, `told` | `controller.signal.aborted`, how the call ended |
| `entry` | `this.downloads` for the model |
| `dir`, `temp`, `target`, `content` | the disk: install directory, `.partial` and installed file of each artifact, contents of each inode |

Files are inodes because a stream goes on writing to the file it opened after that file was renamed or
removed. Contents are sequences of block numbers, so a gap, a repetition or a wrong order
shows. The server answers a ranged request with 206, 200, 416 (with or without the size) or 404,
or not at all. Retry decisions that depend on the error's kind are a choice. `Crash` ends the
program and leaves the disk; `Remove` is `removeModel` at any moment; `Cancel` aborts
the entered call. Calls overlap as they like: the lookup in the table comes before the wait for the catalogue, the entry after
it, so two calls may both transfer (`CatalogComes`). `overrun` says that an attempt was entered over another one that transfers.
Up to then whatever transfers is in the table (`TransferIsEntered`); what the table holds is being transferred even after it
(`EntryIsTransferred`). What is said of files and of completion is said of behaviours that were not overrun.

Left out: the search for another file name on the hub, progress events, and checksums, since no
catalogue entry in the repository has one. The remote file is constant. A crash is the end of the process, not the
loss of power.

### The client of push-to-talk: HotkeyClient, HotKeys, Overlay

*HotkeyClient.* The variables are the module-level fields of `hotkeyHandlers.js` (`life`, `active`,
`restart`, `action`, `candidate`, `waiter`, `socket`), the calls of `startRecording()` and
`stopRecording()` under way, the sockets with the messages on their way, and the service as the client sees
it. Actions: keys (`Press`, `Release`), the floating window (`FloatingAction`), the service's steps, answers,
and socket events, each a handler up to its next `await`. The endpoint the client listens at is not among
the backend's routes: with `Served = FALSE` every socket is refused; with `Served = TRUE` it may be
refused, opened or lost. A text is pasted once unless two calls of `stopRecording()` wait at once
(`doubled`, which also stands for a start called while another was not answered), or sessions or sockets overlapped
(`overlapped`); a stop gets past its acknowledgement unless sessions or sockets overlapped or an event was
lost (`upset`): those are what section 6 is about.

*HotKeys.* What the code shows as registered (`current`), what the operating system has (`registered`),
what other programs have, hold-mode bindings and the keys held down. `halfway` excludes a registration
that throws after the first of its two keys.

*Overlay.* Four places hold what the window is to show: main's state, pending payloads while the window
loads, messages on their way, the preload script's last of each kind; and the component's state with
the subscriptions that are renewed, with a replay, whenever the committed text changes (`Subscribes`).

### Recording and transcription: CaptureReads, SessionManager, FastTranscriber, ModelPool, ModelPreload, Chunking

*CaptureReads.* The capture thread's phases, the backends it tries, its errors in a row, its queue; and the loop that
gives a read up after 0.1 s which itself waits 0.25 s (`LoopGivesUp`, `AbandonedTakes`). A block is its
number, so that order and loss show. `LossIsBounded` says where every block went.

*SessionManager.* Requests run in threads and share the manager's fields without a lock: the steps between two
accesses of a field are the actions. `overlapped` says that two requests were under way at once;
`OneHome` and `SnapshotCatchesUp` hold even then, the other two do not. A block of audio stands for the chunk and the
segment it becomes.

*FastTranscriber.* `start`, `stop`, `submit` and workers named by the start that made them, as a stop
whose join gives up leaves an old worker in its decode. A worker's local variable `using` is apart from
`backend`, since the recovery of the GPU replaces only the latter.

*ModelPool, ModelPreload.* Sections under the pool's lock are one action; loads run under a lock per key that
is dropped with its model, so locks of a key are numbered. `overlaps` counts the loads that began while another was under
way, and `usedBefore`, which `EvictsLeastRecent` compares, says who was used before whom. A preload's flag is shared by all preloads.

*Chunking.* The ring buffer is modelled with its positions, samples are their numbers, sizes are in units of 50 ms;
whether a piece is loud is free. `tooLong` marks a block longer than the whole buffer.

### The recorders of app/core and the pipelines: DesktopHotkeySession, SystemSession, ModeSwitching, AudioPipeline, PipelineAudio, Recovery

*DesktopHotkeySession.* Callers, recording threads and processing threads, each with its place; `tangled`
marks calls that overlapped, a join that timed out, a recording started over an older one.

*SystemSession.* One caller at a time, as its tests use it, with the capture, loop and worker threads of every
start, notes built by any of three threads and exports on an executor. `stop_session()` waits 3 s for the capture thread
(`capture.py:79`), 5 s for the loop (line 1281) and for the worker, then goes on whatever still runs: any of the three may outlive its
stop, and go on to hear segments and write notes. `sysOutlived` are the starts whose threads a stop gave up waiting for, `sysLeft`
those whose threads a start left behind.

*ModeSwitching.* One event loop: a switch is one step, the shutdown three, the engine's worker a task. `unfaithful` marks
a save that failed, a release or a shutdown (`ShutdownEnds`) that left `current_mode`, `startedLate` a switch during a shutdown.

*AudioPipeline.* Actions are what coroutines do between awaits that suspend; a device is opened in a thread that goes on
when its coroutine is cancelled, so streams are numbered by opening. *PipelineAudio* is what the two capture loops make of loud and
quiet frames: pre-buffer, pending audio, early emission and flush; segments, ring and output queue.

*Recovery.* Threads recover at once from errors of several kinds; reading a chain's index or a retry count is a step apart
from writing it. `together` says two have: the properties are about one at a time.

### Around the server: WebSocketServer, LiveUpdates, SettingsSharing, History, BackendSupervisor

*WebSocketServer.* The endpoint's task, the heartbeat and the `close()` of each connection, the broadcast, and clients that go away at
any moment; all from one address. `attempts` says whether clients were counted while another was being accepted.

*LiveUpdates.* The backend with its process number and revision, the bounded queue, the hook's stream, retry timer and polls, and
App's own poll. `gap` is set when a change was missed: dropped, published between two streams, or overtaken by a
poll.

*SettingsSharing.* A setting is a key, its values are the numbers of the edits, 0 the default. The object shared with
`DEFAULT_SETTINGS_STATE` is modelled as such. `harm` names what may have lost an edit: a stale copy posted,
writes that crossed, a batch overtaken, defaults changed in place. One POST at a time per window is a bound.

*History.* A statement is an action and so is an ingest, as they hold the lock; the connection is in a transaction or not, and what is committed
and what a crash leaves on disk are apart. With `StylesAreSeeded` the service is as `server.py` makes it, and then no ingest succeeds (section 6); the run of the other
properties is without it, as they would hold trivially of an empty history.

*BackendSupervisor.* Processes by number with what became of them, the health check awaited in `startBackend()`, the restart timer, the
application's launch and quit; `foreign` is a backend that somebody else started.

### What sessions rest on: Vad, StreamingEngine, WhisperTranscriber, TextServices, SettingsFile

*Vad.* `ProcessFrame` is `process_frame()` with its state machine, `StreamEnds` the end of `process_stream()`, `AddSegment` and `Finalize` those of
the segmenter, `SetMode` and `VadResets` the calls of these names. Samples are their numbers, and 0 is the silence that merging puts into a gap.
Whether a frame is loud is free, so the noise profile and the thresholds are covered whatever they do; the wall clock advances by any of a few
pauses. `carriedOver` says that a stream ended in speech and the detector was not reset: it then goes on from the old beginning, with an empty
buffer, and `SegmentsAreWhole` excepts that.

*StreamingEngine.* `TakeWindow`, `Decodes`, `YieldsFinal`, `UpdateContext` are `process_stream()` from one suspension to the next; `PushAudio`, `Flush`
and `StreamReset` are its consumer's calls while it is suspended. The buffer is an interval of sample numbers. `untimed` counts the samples that
left the buffer without its time being moved, which is why times lag. Flushes and resets come at a suspension too; `carried` is the
stream of the result at which the last reset found `process_stream()` suspended, if it did: its words get into the context all the same.

*WhisperTranscriber.* One caller and one thread, each with its place: `submit()` is up to three steps, since the queue may change between the
exception and the eviction. `_load_model()` and `_reload_cpu_model()` are the sets of their outcomes. `halfLoaded` says that loading failed
after the model was put in its place, where the next thread finds it.

*TextServices.* Calls in threads; `_ensure_model()` is a step that takes the lock, a step that loads, and the use after it. A text is a sequence of words,
and the refiner's answer any short sequence of words, placeholders and signs, so what `WordsStay` says of its checks holds of every such answer.
The code protects and compares ASCII words and numbers only (`refiner_service.py:339`, `:381`): words in another script, or letters with accents, are
`ForeignWords`, which an answer may change, drop or add as long as the number of words changes by no more than 35 % (`OtherLength`). `WordsStay` promises nothing else
of them. The
coach's results carry the text, the privacy and the model they were made for; the cache is a function with times of use. `cacheBehind` says that
the last write failed.

*SettingsFile.* A set of settings is a function from the names given to one of "default", "user" and "wrong". The migrations are written one by one, as
in the code; `Builds` is what the constructors of the sections refuse. `Saves` is part of every change. `behind` says that a write failed
or an update was refused after it took the modes, `unchecked` that values were taken which nothing checked, `booted` keeps the file that the
process started from.

### The parts of the invariants, and what breaks them

Each module states one invariant whose parts are named; the runs check it, alone or with another module's. For
every part (of the last five modules: for one of them) there is a variant that was seen to break it: exchanging the operator for its variant makes the run
report the violation.

| module | part of the properties | the operator and the variant that breaks it |
| --- | --- | --- |
| `SessionManager` | `OpenCaptureIsKnown` | `StartChecks` → `StartChecksNothing` |
|  | `OneHome` | `LoopReads` → `LoopPeeks` |
|  | `StoppedSpeechStays` | `Decodes` → `DecodesOn` |
|  | `SnapshotCatchesUp` | `ShowsState` → `ShowsNoState` |
|  | `StopsReturn` | `StopExecutor` → `StopExecutorJoined` |
|  | `SessionTypeOK` | `StopExecutor` → `StopExecutorLeaves` |
| `ModelPool` | `PoolLimit` | `EvictsOldest` → `EvictsOnce` |
|  | `AsksReturn` | `Loads` → `LoadsLocked` |
|  | `EvictsLeastRecent` | `PoolHit` → `PoolHitUnqueued` |
|  | `PoolTypeOK` | `Appended` → `AppendedAll` |
| `ModelPreload` | `PreloadsReturn` | `PreloadJoins` → `PreloadJoinsForever` |
|  | `NewestIsKept` | `PreloadClears` → `PreloadKeeps` |
|  | `PreloadTypeOK` | `PreloadLaunches` → `PreloadLaunchesOn` |
| `FastTranscriber` | `SegmentsInOrder` | `SttStart` → `SttStartAnew` |
|  | `AcceptedIsHandled` | `SttRejects` → `SttRejectsAndRests` |
|  | `SttTypeOK` | `Submit` → `SubmitAlways` |
| `DesktopHotkeySession` | `TakesItsRecording` | `StopJoins` → `StopJoinsNobody` |
|  | `GivenOnce` | `AsksStop` → `AsksStopAnyway` |
|  | `ProcessingEnds` | `ProcessorCompletes` → `ProcessorForgets` |
|  | `MicrophoneIsReleased` | `RecorderEnds` → `RecorderGoesOn` |
|  | `DeskTypeOK` | `Keeps` → `KeepsAll` |
| `SystemSession` | `NotesAreComplete` | `StopBuilds` → `StopBuildsDirty` |
|  | `StopReleases` | `TellsToStop` → `TellsARunning` |
|  | `SystemStopReturns` | `LoopSeesStop` → `LoopSeesStopUnpaused` |
|  | `SystemTypeOK` | `NewSession` → `NewSessionKeepsIndex` |
| `ModeSwitching` | `CurrentModeRuns` | `FallsBack` → `FallsBackToNothing` |
|  | `ShutEngineIsIdle` | `ShutdownWaits` → `ShutdownWaitsNot` |
|  | `ShutdownReturns` | `TellsWorker` → `TellsNoWorker` |
|  | `ModeTypeOK` | `Accepts` → `AcceptsMore` |
| `WebSocketServer` | `LimitHolds` | `WsCount` → `WsCountLoose` |
|  | `RegisteredIsWatched` | `WsEndpointCloses` → `WsEndpointReturns` |
|  | `GoneLeaves` | `WsEndpointCloses` → `WsEndpointReturns` |
|  | `BroadcastEnds` | `WsTells` → `WsTellsConnected` |
|  | `WsTypeOK` | `CloseBegins` → `CloseBeginsBeating` |
| `LiveUpdates` | `UpdatesTypeOK` | `Publishes` → `PublishesAll` |
|  | `FreshOrGap` | `Publishes` → `PublishesBefore` |
|  | `FollowingIsTrying` | `Breaks` → `BreaksAndRests` |
|  | `PollingCatchesUp` | `Renders` → `RendersTimeless` |
| `BackendSupervisor` | `RestartsAreBounded` | `ExitHandler` → `ExitHandlerUncounted` |
|  | `CrashIsFollowed` | `ExitHandler` → `ExitHandlerIdle` |
|  | `QuitEndsBackend` | `StopsBackend` → `StopsLoosely` |
|  | `SupervisorTypeOK` | `SpawnsIt` → `SpawnsUnrecorded` |
| `Recovery` | `RecoveryTypeOK` | `MovesOn` → `MovesOnAlways` |
|  | `OnlyMovesOn` | `Moves` → `MovesRound` |
|  | `QualityIsGivenUpLast` | `InOrder` → `InReverse` |
|  | `OfflineAfterRetries` | `InOrder` → `InReverse` |
|  | `RecoveryEnds` | `Fails` → `FailsAgain` |
| `AudioPipeline` | `StoppedReleases` | `Joined` → `JoinedNobody` |
|  | `RunningCaptures` | `Raises` → `RaisesSilently` |
|  | `PipeCallsReturn` | `Joined` → `JoinedCurrent` |
|  | `FailuresAreSettled` | `Raises` → `RaisesUncounted` |
|  | `PipelineTypeOK` | `OldHealthEnds` → `OldHealthEndsTwice` |
| `History` | `HistoryTypeOK` | `Text` → `TextOfUnknown` |
|  | `RevisionsDiffer` | `Inserted` → `InsertedAnywhere` |
|  | `ShownIsRecorded` | `UndoCounts` → `UndoEnds` |
|  | `UpdatesAreKept` | `Fields` → `FieldsAfresh` |
|  | `RetriesSettle` | `RetryFails` → `RetryForgets` |
| `CaptureReads` | `CaptureTypeOK` | `HasRoom` → `HasRoomStill` |
|  | `HeardInOrder` | `Taken` → `TakenIsHeard` |
|  | `LossIsBounded` | `ReadReturns` → `ReadReturnsNot` |
|  | `StreamIsClosed` | `Closed` → `ClosedIfRead` |
| `HotKeys` | `HotKeysTypeOK` | `Available` → `AvailableToUs` |
|  | `ShownKeysAreRegistered` | `Cleared` → `ClearedOnPaper` |
|  | `ShownKeysWork` | `Registers` → `RegistersAtOnce` |
|  | `ReleasedIsStopped` | `Releases` → `ReleasesByKey` |
| `Chunking` | `ChunkingTypeOK` | `VoiceTurns` → `VoiceTurnsCounting` |
|  | `RingHoldsNewest` | `ReadPosition` → `ReadPositionKept` |
|  | `EverySampleIsKept` | `Popped` → `PoppedMore` |
|  | `ChunksAreUnbroken` | `Trailing` → `Leading` |
| `PipelineAudio` | `SpeechIsKept` | `Collected` → `CollectedAnew` |
|  | `SpeechIsFlushed` | `Flushes` → `FlushesNothing` |
|  | `SegmentsPartition` | `Cut` → `CutKeeps` |
|  | `PipelineAudioTypeOK` | `Cuts` → `CutsAtSilence` |
| `SettingsSharing` | `FileHoldsServed` | `Imports` → `ImportsUnsaved` |
|  | `EditsAreKept` | `SocketQueues` → `SocketReplaces` |
|  | `AppShowsServed` | `TellsApp` → `TellsNobody` |
|  | `SettingsTypeOK` | `BatchApplies` → `BatchStays` |
| `Overlay` | `OverlayTypeOK` | `ClearSession` → `ClearSessionTicking` |
|  | `ShowsWhatItIsTold` | `Replays` → `ReplaysTexts` |
|  | `ShowsNoOldText` | `BeginSession` → `BeginSessionOver` |
|  | `HiddenStaysHidden` | `ShowsCoach` → `ShowsCoachAnyway` |
| `HotkeyClient` | `PastedOnce` | `GoesOn` → `GoesOnForgetting` |
|  | `StopCallsReturn` | `Resolves` → `ResolvesStrictly` |
|  | `HotkeyClientTypeOK` | `ResolveStopWaiter` → `ClearStopWaiter` |
|  | `CancelPastesNothing` | `StopRecording` → `StopRecordingByDefault` |
| `HotkeyService` | `OneRecording` | `MayCreate` → `MayCreateAnyway` |
|  | `CurrentIsOpen` | `FinUnregister` → `FinStaysRegistered` |
|  | `NoOrphanCapture` | `FinLoopTimeout` → `FinLoopTimeoutOnly` |
|  | `TypeOK` | `FinPoll` → `FinPollEndless` |
| `RefinementQueue` | `JobIsScheduled` | `Enqueue` → `EnqueueOnOldTimer` |
|  | `TypeOK` | `Enqueue` → `EnqueueTimerAhead` |
| `ModelDownload` | `TransferIsEntered` | `CatalogComes` → `CatalogComesUnseen` |
|  | `TypeOK` | `StreamWrites` → `StreamWritesOn` |
| `Vad` | `VadInv` | `BufferedFrames` → `BufferedFirstFrames` |
| `StreamingEngine` | `StreamingInv` | `StreamReset` → `StreamResetKeepsContext` |
| `WhisperTranscriber` | `WhisperInv` | `Loads` → `LoadsAnyway` |
| `TextServices` | `TextInv` | `Key` → `KeyOfText` |
|  | `WordsStay` | `UnsafeRewrite` → `UnsafeSet` |
| `SettingsFile` | `SettingsFileInv` | `UpdatesPartial` → `UpdatesPartialUnsaved` |

## 3. The runs

All of them together take about twenty minutes on two cores, the longest under four minutes.

| run | instance | states | shows |
| --- | --- | --- | --- |
| `hotkey` | 2 starts, 2 stops, 3 chunks, queue of 2, 1 fault, symmetric; `HearsAlone`: several sessions that hear nothing, or one session | 1,042,000 | the text: settled answers miss at most one chunk; a cancelled session tells no text; all stops are answered alike; recognised speech gives a text; at most one late commit. Sessions: one records; the registered one is open; no orphan microphone; quiet means idle; a restart never returns |
| `hotkey_progress` | 2 starts (serialised), 1 stop, 1 chunk, 1 fault, fair | 263,000 | `Dictation` is implemented; every stop is answered; every stopped session is released |
| `hotkey_restart` | 2 starts, 1 stop | violation | a start that finds a session recording hangs |
| `refinement` | 2 sessions of 3 segments, shutdown, fair | 1,052,000 | newest only, in order, none forgotten, nothing begins after shutdown, jobs end |
| `download` | 2 calls that may overlap, 2 artifacts (one optional), 3 blocks, 2 attempts, 3 faults, fair; `CalmOverrun`: two calls that transfer at once are followed to their end where no fault occurs | 1,205,000 | until two transfer, installed files are whole, completed means all, and transfers are entered; always, the table holds only what is transferred, and calls end |
| `client` | 2 sessions, 2 stops, 1 lost socket, a cancelling window | 3,673,000 | pasted once, nothing of a cancelled session, stops get past their acknowledgement |
| `engine` | `SessionManager` (2 starts, 1 stop, 2 events), `ModelPool` (3 models, room for 2, 2 threads, 5 calls), `ModelPreload` (3 requests, 2 models), `FastTranscriber` (3 chunks, queue of 1, 2 workers, 2 faults), `DesktopHotkeySession` (2 callers, 3 calls, 2 recordings, 1 late join), `SystemSession` (2 starts, 1 segment, 1 export), `ModeSwitching` (3 switches, 3 chunks); fair | 671,000 | speech has one home, the pool its limit, recordings are whole; every call returns |
| `server` | `WebSocketServer` (2 clients, limit 1), `LiveUpdates` (2 revisions, 2 processes, 1 glitch, 2 tries, queue of 1), `BackendSupervisor` (5 processes, 2 restarts), `Recovery` (2 threads, 3 errors), `AudioPipeline` (2 callers, 4 calls, 3 openings, 2 faults), `History` (2 threads, 2 workers, 2 ingests, 3 calls, 1 restart), `CaptureReads` (3 blocks, 2 reads given up, 1 probe); fair | 459,000 | limits hold, windows catch up, restarts are bounded, quality is given up last, what was said and written is kept; what was begun ends |
| `desktop` | `HotKeys` (2 settings, 2 presses), `Overlay` (2 recordings, 1 text each kind), `SettingsSharing` (2 keys, 2 edits, 1 death), `Chunking` (4 blocks of 2, 7 or 13 samples), `PipelineAudio` (7 frames) | 2,739,000 | the keys shown work, the overlay shows what it was told, edits are kept, audio is cut without loss |
| `services` | `Vad` (5 frames of 1 or 2 samples, 2 modes, buffer of 2), `StreamingEngine` (6 samples, window of 2 with 1 overlapping, 1 reset), `WhisperTranscriber` (5 chunks, queue of 2, 2 starts, every mode and device), `TextServices` (texts of 2 words, one of them foreign to the checks, answers of 4 parts, 2 calls of each service, 2 models, 1 failed write, 1 restart), `SettingsFile` (4 names of which 1 is given, versions 0, 4, 5, 6, 2 changes, 1 failed write) | 1,661,000 | speech is in one segment, decoded in order, on the device the mode allows; ASCII words stay, what is local stays local; a restart keeps settings and cache |
| `history_styles` | `History` with the styles seeded | violation | no finished session reaches the history |
| `chunking_balanced` | `Chunking` with the sizes of "balanced" | violation | the ring is smaller than a chunk |

`MCEngine`, `MCServer`, `MCDesktop` and `MCServices` each check several components, *one at a time*: the variable `component` is
chosen at the start and never changes, so the states are the sum and not the product of those of the
components. The components share no state in the code; where they meet, the one is modelled as the other sees it.

Why these bounds are enough to be interesting. *HotkeyService:* three chunks and a queue of two give a full
queue, one chunk in the worker's hands and one behind it, and two quiet polls of the drain with
a chunk in flight. Two sessions are what it takes for a finalize task to meet a newer session; two
stops for one to join the other. Chunks and second sessions are not explored together (`HearsAlone`, a constraint on the states of the run): a
session's text depends on others only through `current`, and the proofs cover the
combination. *RefinementQueue:* three segments are needed for the reuse of revisions: one job done, the next at revision
1 while the old timer (also revision 1) is late. *ModelDownload:* three blocks separate "resumed in the middle" from "from
the start" and "past the end"; three faults allow a failure, a crash and a second failure
within two calls of two attempts. Two calls in each other's files and three faults have too many states, so the run
follows two calls that transfer at once only where no fault occurs (`CalmOverrun`, a constraint). `MinBlocks = 1` keeps the size check as weak as the
code's. *ModelPool:* five calls are what it takes to fill the pool, exceed it by overlapping loads, and have one call evict more than one
model. *ModelPreload:* three requests, so that one cancels a preload that did the same. *FastTranscriber:* two workers, one left in its
decode by a stop, one new, and a queue that is full at one chunk. *BackendSupervisor:* five processes for the launch, two
restarts, a recovery and one more crash. *LiveUpdates:* a queue of one drops the second event; two revisions and two processes let the
revision of the new process meet the one polled from the old. *Recovery:* three errors are one more than the retries of either thread. *Chunking:* blocks
shorter than a chunk, longer, and longer than the ring. *CaptureReads:* two reads given up may wait at once and
take two blocks. *HotkeyClient:* two sessions are what a late event of the first needs to meet the second. *Vad:* five frames give two segments
with a gap between them, one of them longer than the buffer. *StreamingEngine:* six samples are three windows and an overflow, and a reset between
two of them. *WhisperTranscriber:* five chunks fill the queue, evict one, and leave some for a second thread. *TextServices:* two words may be the same one twice, and
four parts allow answers with words added, and one that loses its ASCII words; a foreign word tells what is compared from what is not; two calls with two models replace each other's model. *SettingsFile:* the four names stand for a setting like
any other, the model that is repaired, a setting of the registry without a field, and one that is not known.

`CHECK_DEADLOCK FALSE` everywhere: requests, calls, segments, frames and edits are bounded, so behaviours end.

## 4. Fairness

*HotkeyService.* Weak fairness of the coroutines of requests and finalize tasks, and of the drain's
deadline: an event loop runs what is ready and fires timers that are due. Nothing is assumed of the
transcriber thread or of the audio device, so liveness holds even if both hang. `StartCall` and `StopCall`
are the users' and need not happen.

*RefinementQueue.* Weak fairness of the timers and of the worker; the latter includes the return of the
language model, which the code calls without a timeout.

*ModelDownload.* Weak fairness of the steps of a call: fetches and streams end, by their
timeouts if need be (`_fetchWithTimeout`), and the back-off timer fires. `Cancel`, `Remove`, `Crash` need not happen.

*SessionManager, ModelPreload.* Of the steps of a stop, or of a request, only: every wait in them has a timeout, and the threads
they wait for may hang. *ModelPool.* Of the steps of a call, the end of a load included. *FastTranscriber.* Of the workers.
*DesktopHotkeySession.* Of callers, recorders and processors: the device gives blocks and the decoder answers. *SystemSession.* Of the call
under way, whose waits all have timeouts, of writes of the notes, of threads that were told to stop and see it, and of the executor. *ModeSwitching.* Of the shutdown and the
worker task, as the event loop runs what is ready.

*WebSocketServer.* Of the endpoints, heartbeats, closes and sends of the event loop; clients go away if they like. *LiveUpdates.* Of the
timers and requests of the window and of the main process's start of a backend; streams break and backends exit if they like.
*BackendSupervisor.* Of the timer, of the health check (which has a timeout) and of the end of a process that was killed. *Recovery,
AudioPipeline, History, CaptureReads.* Of the steps of calls, tasks and threads that were begun; errors, stops and
requests need not happen. In `MCEngine` and `MCServer` the fairness of a component holds while the behaviour is about it; it is the conjunction
the module itself states as its `...FairSpec`.

The properties are written `[]<>(done or not asked)`: from any state, what was asked is done later, or was not asked.

## 5. The proofs

All proofs are checked by TLAPS for every value of the constants that satisfies the named assumptions of the
modules they are about (`HotkeyAssumption`, `NoneAssumption`, `RefinementAssumption`, `DownloadAssumption`, `PoolAssumption`, ...):
that a value like `None` is not one of the things it stands apart from, that bounds are natural numbers (those of a
queue, a buffer or a limit positive), and that threads and models are finite sets.

**HotkeyService_proofs.** `TypeCorrect` by `Typed`: the types, and that a thread past the
queue holds a chunk and a stop that awaits a session has one (`Handed`). `Life` is the inductive
invariant about sessions: a session exists once its start request created it (`Fresh`), it has a
finalize task exactly when it was told to stop (`Stopped`), and a start request that awaits a
finalize task holds the lock, and that task is the registered session's and has not ended
(`Stuck`). `Stuck` is what is not obvious: `OneRecording` survives a restart only because no
request gets past its `join`, and that is because the request keeps the lock the task needs. From `Life`
follow `OnlyOneRecords`, `RegisteredIsOpen`, `NoMicrophoneLeaks`, `RestartDeadlock` and, with the
last status, `QuietIsIdle`. `Answers` says when a draft and a response exist and that those of a
cancelled session are empty; from it `CancelDiscards` and `AnsweredOnce`. `RecordingsAreHeld` puts together what `RecordingInv` names: the types, one recording,
the registered session open, no microphone without someone who closes it.

About the text: `FewLateCommits`: a callback about to publish read
`suppress_stream_events` before the stop, so none was late before it (`Punctual`).
`SettledMissesOne`: the thread holds the only chunk being decoded and a listed segment
is in the aggregator unless the thread is just putting it there (`Held`); once the drain settled nothing
is queued again, because the audio loop has ended, and what the text lacks is at most the chunk in the
thread's hand (`Drained`). `AnswerIsNotEmpty` is an action property proved from the types.
`KeepsPromise`: every step of the service is, under the mapping, a step of
`Dictation` or leaves it unchanged. It needs that a stored response carries its own session and the drafted
text, and that nothing is told early (`Matching`).

**Services_proofs, the refinement queue.** `Jobs`: a job holds the newest segment of its session, not yet
shown, and that segment's timer carries its revision. `Snapshots`: the worker's revision is not above the
job's, and if it is equal, its snapshot is the job's segment. `OneWorker` is where the single worker is
used: nobody else takes the job out of the table, so revisions do not start again while it refines. Then
`RefinesNewest`, `RefinesInOrder`, `NoJobIsLeft`, `ShutdownIsFinal`, and `JobsAreDealtWith` for `JobsInv`.

**ModelDownload_proofs.** All of it is about calls that overlap. `TransfersAreEntered`: what the table holds is being transferred, always; and until
an attempt is entered over another (`overrun`), whatever transfers is what the table holds (`EntriesInv`), so that one call at a time
writes. From that, `FilesInv` gives `InstalledArtifactsAreWhole`: every partial
file on disk begins the remote artifact, no two names share a file, the stream's file holds exactly `pos`
blocks, the requested range begins where the partial file ends, and a file about to be renamed
is whole or gone. `GatheredInv` gives `CompletedDownloadsHaveAll`.

**Sessions_proofs, Engine_proofs, Server_proofs, Keeping_proofs, Desktop_proofs.** The components that share a run are proved one by one, each from
its own `xInit /\ [][xNext]_xVars`, and then about the specification of the run: a step of `MCEngine` is a step of the component that the
behaviour is about or leaves it unchanged (`SessionsSteps`, `PoolsSteps`, ...). The inductive invariants are the definitions
named `...IInv`; what each adds to the types and to what it is to show:

| theorem | what makes the invariant inductive |
| --- | --- |
| `SegmentsHaveOneHome` (`SessionManager`) | a block is at one place: heard, in a chunk, in a queue, in a worker's hands or listed, and there once (`PlacesDiffer`), from which `OneHome` follows however requests overlap. As long as they do not, one request is in flight and the manager's fields are those of the last start (`OrderInv`), so that what was said in the session they name is with its own threads, and of a stopped one only what its worker holds can go astray (`HomeInv`) |
| `PoolKeepsItsModels` (`ModelPool`) | the eviction before a load leaves room for it, except for loads already under way, which were counted when they began (`RoomIsLeft`). That the eviction finds a model although the queue may have lost keys needs the number of keys that are lost to be below the limit (`QueueSuffices`) |
| `TranscriberKeepsItsOrder` (`ModelPreload`, `FastTranscriber`) | the request under way is the last, and the flag is set only while it waits for the thread before it (`LastIsActive`, `FlagIsAsked`); one worker runs, the one of the last start, and everything handled precedes what is in hand, and that what is queued (`OneWorks`, `HandInOrder`, `ResultsInOrder`) |
| `CurrentModeIsTheOneThatRuns` (`ModeSwitching`) | without a current mode none runs (`NobodyRuns`), and the shutdown is past the engine only when the worker it cancelled has ended (`WorkerIsWaitedFor`) |
| `RecordersKeepWhatWasSaid` (`DesktopHotkeySession`, `SystemSession`) | unless `tangled`, the last recording is the only one at work, a call past its join has seen the recorder end, and until then the buffer holds what was heard (`LastRecords`, `JoinedIsOver`, `BufferIsWhole`); threads are those of the source that is held or were left behind, and notes are built after the joins or given up on, each told to stop; and unless a thread outlived its stop or was left by a start, notes are built after all that could be heard (`ThreadsAreKnown`, `JoinedAreGone`, `NotesCatchUp`) |
| `ClientsAreKnown` (`WebSocketServer`, `LiveUpdates`) | what is not accepted is not registered, and what is registered and closed has a `close()` under way; events are on their way only while the stream is open, each older than the next (`QueueIsPast`) |
| `BackendIsSupervised` (`BackendSupervisor`) | what runs is the child, and a start is due from one side at a time: the launch, the timer or a health check under way (`OneStartDue`); so each start due has been paid for with a restart attempt (`StartsAreCounted`) |
| `FaultsCostNoMore`, `RecoveryMovesOn` (`Recovery`, `AudioPipeline`) | while one recovers at a time, what it has read of a chain is still so when it writes, and what is left for it to try fits the error (`Careful`, `AttemptsFit`); a pipeline that runs is not told to stop, and unless calls crossed its last task is the only one alive and closes the stream it opened (`RunsUntold`, `OneCaptures`) |
| `WhatWasSaidIsKept` (`History`, `CaptureReads`) | what a thread is at fits the row it is about, two on a row are on record as overlapping, the text a row shows is among its revisions or will be put there (`ShownWillBeRecorded`), and so is what was committed and what a crash leaves (`KeptIsWhole`); the places a block passes are in order: heard or lost, then the read, then the queue, then the thread |
| `SettingsAreShared` (`SettingsSharing`) | unless writes crossed, one write is under way, and each copy is what is served or is among those known to have missed an edit (`SeenIsServed`); what waits in a batch are the newest edits (`NewestIsServed`) |
| `ShownKeysStayRegistered` (`HotKeys`) | `HotKeysInv` is inductive as it stands |

**Desktop_proofs, the hotkey client.** `WhoeverWaitsIsWaitedFor` (`HotkeyClient`'s own specification) shows the types, with which comes that a stop waits for
an acknowledgement only as long as a waiter is entered for it (`ClientIInv`). `TextsArePastedOnce` is about behaviours in which neither calls nor sessions nor
sockets have overlapped (`Normal`, `~doubled /\ ~overlapped`); outside them both properties except what happens. Two invariants carry it. `ServedInv` is the service's side: what is
in an inbox is well formed, a start was answered with a session of its own, and the sessions were served one after the other. `PasteIInv` is the
client's: what is on its way on the current socket comes in the session's order, start before acknowledgement before result (`InOrder`, `InTime`); a text that was pasted is
one whose result is no longer due or is known to be pasted already (`PastedBefore`); a cancelled session's result meets a client that does not paste
(`HoldsCancelled`); and of a session not yet heard of the client knows nothing (`NewsFits`). Each message is then a case by its place in that order. It does not need `upset`: that a
socket breaks or a status event is lost costs a paste but never repeats one.

**Services_proofs, the components of `MCServices`.** Each is proved from its own specification:

| theorem | what makes the invariant inductive |
| --- | --- |
| `StreamsAreDecoded` (`StreamingEngine`) | what was decoded reaches up to the buffer or into it, and the time of the buffer lags by what left it untimed (`BufferFits`); each final result is dated, and behind those before it (`FinalsFit`), and so is the result of the window in hand, unless only finals of a flush have come since (`WindowFits`, `FlushedSince`); the window in hand, and the context, are of this stream or of one on record as carried over a reset (`ContextFits`) |
| `ChunksKeepTheirOrder` (`WhisperTranscriber`) | the places of a chunk, each rising and each before the next: decoded, in hand, in the queue, about to be put in (`PlacesInOrder`, `PlacedOnce`); that these are one sequence in the order of submission follows from four of them that can be joined (`JoinRises`). A thread loads before it looks at the queue (`LoadsFirst`) |
| `WordsAndPrivacyStay` (`TextServices`) | a call keeps what it was asked, and a call that may still use a model has the privacy for it (`CallFits`); entries of the cache are about what they are found by, no two of the same time, so the newest are as many as may be kept (`EntriesFit`, `NewestFit`); what comes back unchanged passes unless a long word comes twice (`UnchangedPasses`). What is accepted has the tokens of the text because the check compares them; the theorem says what that is worth: the ASCII words in their order |
| `RestartsBringBackSettings` (`SettingsFile`) | what a file says of a setting is one of the values that settings have (`FileFits`), and what is served can be written and read again (`ServesFits`), so that migration and repair, which leave a file of the current version as it is, bring it back |

Two things that TLC's instances had not shown came out of these proofs. The pool exceeds its limit not only by the loads under way: what they leave too much
stays, as later loads evict one model at most, so the bound is on all loads that overlapped (`PoolLimit`; with `MaxModels = 1`
and four models the narrower bound is false). And a shutdown of the mode manager leaves `current_mode` at a mode that no longer
runs, for ever when no switch follows (`ShutdownEnds` sets `unfaithful`; it takes five switches to see the difference).

Only model-checked: the liveness properties (`StopsAnswered`, `StoppedIsReleased`, `JobsEnd`,
`CallsEnd`, and the fair parts of `EngineProgress` and `ServerProgress`), since TLAPS does not prove properties under fairness; of `HotkeyClientInv` that stops
return (`StopCallsReturn`); of
`ShownInv` what is about the overlay (`OverlayInv`); and `CuttingInv` (`Chunking`, `PipelineAudio`) and `VadInv`, which speak of sequences that are cut, joined
and folded: each step is an induction over data. What is merged, folded or filtered element by element inside a step of the proved components is treated
as opaque, as in `Tokens`, of which the proof needs only that equal texts have equal tokens.

## 6. Where the code and its documentation disagree

With a run:

- `app/api/server.py:369`: a start that finds a session recording awaits its finalize task with
  `self._lock` held, and that task takes `self._lock` to end. The request and every later one hang. The log
  line above promises "stopping previous" (run `hotkey_restart`; theorem
  `RestartDeadlock` says it is so in every behaviour).
- `app/storage/history_db.py:48`: `StyleService` seeds its styles with statements outside `transaction()`, which leave the shared connection in
  an implicit transaction; every later `BEGIN` fails, so no finished session gets into the history, and what else is written is rolled back
  at the end of the program. `hotkey_stop` swallows the error (`routes/hotkey.py:152`), the stop of a long recording answers 500
  (run `history_styles`; `README.md:39` promises "Session history").
- `app/stt/fast_chunker.py:399`: the ring buffer is made for the limits (600 ms), the chunk by the live profile, 1 s for "balanced" and 2 s for
  "high_accuracy": no chunk is ever complete and samples are overwritten unread (run `chunking_balanced`; `fast_chunker.py:398` says the
  capacity prevents just that).

Without a run, as definitions that TLC finds violated. Each is stated beside the properties of its module, and, unless something
else is said, violated with the module's constants in the configuration of section 3 and its own specification:

| definition | what is promised | what the code does |
| --- | --- | --- |
| `StatusTellsRecording` (`HotkeyService`, 2 starts, 1 stop, `Serialised`) | `docs/engineering/events-streaming.md:88`: the status tells the recording state | `server.py:1153`: an old finalize task publishes idle while a newer session records; `QuietIsIdle` shows that the converse is sound |
| `OneTransfer` (`ModelDownload`) | `modelDownloadManager.js:88`: "Download already in progress" | line 87 looks before the catalogue is awaited: two calls that both await it both transfer |
| `AckWaitTimesOut` (`HotkeyClient`, `Served = FALSE`, no window) | `hotkeyHandlers.js:219`: "Timed out waiting" | the timer at line 218 only logs, and the backend has no endpoint for the socket: the call waits for ever |
| `CancelledIsNotStored` (`ModelPreload`) | `backend_service.py:206`: "Cancel any existing preload" | line 211: a preload not joined within a second finds the flag cleared again and stores its model |
| `FallsBackToCpu` (`FastTranscriber`) | `docs/reference/features.md:198`: "Automatic CPU fallback on GPU errors" | `fast_engine.py:773`: the worker's local variable keeps the backend that failed |
| `FullBufferIsProcessed` (`DesktopHotkeySession`) | `hotkey_session.py:707`: "auto-stopping" | line 710: the recording thread joins itself, which raises: the session becomes an error and is not processed |
| `OldSettingsSurvive` (`SettingsFile`, files of versions 0 to 4) | `tests/test_settings_manager.py:133` expects their values | `migrations.py:132`: `_v4_to_v5()` fills in every default of the coach section, one of them (`coach_provider_base_url`) without a field, so the constructor raises and the file is replaced by the defaults |
| `CancelDiscardsRaw` (`HotkeyService`, 1 fault) | `test_hotkey_service_lifecycle.py:300`: a cancel has no raw text | `server.py:671`: if the finalize task of a cancelled session fails, the raw text is answered; final and live text are empty all the same (`CancelDiscards`) |
| `HoldToRecord` (`HotKeys`) | `architecture-overview.md:217`: "release to stop" | settings saved while the keys are held drop the binding (`holdModeHotkeys.js:223`) |
| `TimerIsKept` (`Overlay`) | `FloatingWindow.test.tsx:327`: one timer per session, frozen at the result | the clean-up of an effect resets it (`FloatingWindow.tsx:486`) |
| `RecordersAreClosed` (`CaptureReads`) | `audio-capture.md:174`: recorders in context managers | the backend is started twice (`capture.py:115`); the first stream is closed by nobody |
| `FiveSecondsAreBuffered` (`CaptureReads`, `MaxQueueItems = 10`, 12 blocks) | `server.py:1365`: ten items are about 5 s | ten blocks of 20 ms |
| `OneLoadPerKey` (`ModelPool`) | `model_pool.py:330`: a lock per key prevents duplicate loads | the lock goes with its model and another is made |
| `ShutdownReleases`, `ResumeKeepsSegments`, `ExportWaitEnds` (`SystemSession`) | its docstrings at 1960, 14, 1404 | shutdown stops a session only while it is "running"; `_resume_session` reads the transcript into a session that `start_session` replaces; a task that ends before it is entered in `_pending_tasks` (line 446) stays there and the wait has no end |
| `DeviceChangeTakesEffect` (`AudioPipeline`) | `pipeline_base.py:309`: "Triggers a reconnection" | `change_device` sets the error count, which nothing looks at before a read fails |
| `FinalSegmentIsEmitted`, `FramesComeOutOnce` (`PipelineAudio`) | `system_pipeline.py:398`: "Emit final segment on stop"; the pre-buffer is what came before | cancelled first; the pre-buffer already holds the frame that starts the speech, and it is appended again |
| `StartTimesAreTrue` (`Chunking`) | `fast_chunker.py:90`: start relative to the stream | the end advances by a chunk less its overlap, and the zeros the first chunk starts with count as time (lines 500-530) |
| `SettingsAreSynchronized`, `ResetGivesDefaults` (`SettingsSharing`) | `docs/engineering/settings.md:14`; `manager.py:754` | stale copies are posted whole; the defaults are the object that was edited |
| `UnchangedIsAccepted` without its exception (`TextServices`) | `refiner_prompts.py:32`: a correct text is returned unchanged | `refiner_service.py:373`: a word that comes twice has its placeholder twice, which is taken for damage: the answer is refused |
| `ReconnectsAfterExit` (`LiveUpdates`, 1 revision) | `App.tsx:939`: "Reconnecting…" | the render that follows the note of the exit clears the poll timer just set, and App stays not ready |

Seen while modelling:

- *Push-to-talk:* the aggregator's failure is not among the warnings of the
  answer (`server.py:836`). The endpoint `/api/transcription/hotkey/ws`, which `docs/api/endpoints.md:34` lists and the client opens, is no route
  of the backend. A failing restart leaves the client's life at "starting"; muting is undone by an old stop's `finally`. A second `register()` that
  throws leaves the first key taken until the program restarts (`hotkeyHandlers.js:489`). An error stays in the overlay until it is reset.
- *Capture:* `stop()` joins up to 3 s on the event loop; a dead device leaves the loop spinning, as nobody sets `on_error`.
- *SessionManager:* a start overwrites "error", set meanwhile by the capture thread, with "running"; a start after an error leaves the old worker,
  capture and loop alive. *FastTranscriber:* `self._context_manager.clear()` calls a method that does not exist, so the first rejected decode outside push-to-talk
  ends the worker.
- *WebSocketServer:* messages queued for a connection that is lost are never delivered, whatever the comment says.
- *BackendSupervisor:* a spawn that fails with `error` emits no exit: the child stays set and nothing restarts it; a quit during the health check lets
  `startBackend()` start a backend that outlives the program.
- *Settings:* `update_mode_settings()` refuses every name, as it asks the class for the attribute (`manager.py:676`); "apply immediately" (`server.py:2608`) is batched, and `_notify_clients` is a stub; a file torn by a crash is replaced by the defaults; `PUT
  /api/settings/{category}` does not exist.
- *History:* `cleanup_retention` is never called; the start deletes a WAL and with it commits not yet checkpointed; a retry that is queued at shutdown is cancelled.
- *Recorders of app/core:* two stops that overlap give a text twice; a start that overtakes `force_cleanup()` records for ever; a failed rotation of the file ends the loop while
  "running"; a resumed session overwrites its first audio file. `submit()` of the mode engine requires READY but the worker leaves it PROCESSING. A pipeline's error
  count is never reset. The rate limit of errors never limits, and retry counts are never reset.
- *ModelDownload:* an optional artifact that was skipped leaves a model that
  `model_service.py:88` never counts as installed.

What the exceptions leave out. Several properties except, by a history variable, what the code does get wrong; they say that it goes wrong in that
way and in no other, and do not speak of the way itself. Where a document or a message of the code promises otherwise it is in the lists above. The others:
clients counted while another is accepted pass the limit (`attempts`); connections behind a send that waits for its own lock stay jammed
(`Stuck`); a window that missed an event knows of it only by the next (`gap`); starts, stops or sockets of the client that overlap may paste twice or not at
all (`doubled`, `overlapped`, `upset`); a quit during the health check leaves a backend (`quitWhileLooking`); two updates of one entry at
once lose one (`overlapped` in `History`); a window that loads after the recording is over may show what is over (`ovUpset`); stale or overtaken
writes of settings lose an edit (`harm`); a stream after one that ended in speech goes on with its beginning (`carriedOver`); a result
at a suspension survives flush and reset (`carried`); a write of the settings cut short is found by the next start (`behind`); a thread that
outlives the stop of a long session adds to its notes (`sysOutlived`). The hazards in `PROJECT.json` say so too.

## 7. What is not modelled

Components with status `not_modelled` in `PROJECT.json`, with the reason there: signal processing and drivers (floating point,
out of a model checker's reach); the stable prefix of two texts (strings); counters and logs. The merging of words in the aggregator is left
out for the same reason. "Partly" there says of each other component what of it is left out. In
short: contents of messages and texts, formats, prompts, statistics, output files, the types and ranges of single values, the pages of the frontend; and of
`fast_engine.py` the language votes and the adaptive beam, which choose the parameters of a decode. Within the modelled parts, what
section 2 calls abstracted.

The components are not composed with each other, except the push-to-talk service with its transcriber and the promise it implements.
`HotkeyClient` has the service as the client sees it, not `HotkeyService` itself.

## 8. The plan

1. Proofs about the invariants that have none: `OverlayInv`, and `StopCallsReturn` of `HotkeyClientInv`.
2. `HotkeySystem`: `HotkeyClient` and `HotkeyService` over requests and status events, with `Serialised` replaced by what the client does.
3. That `FastTranscriber` implements the transcriber thread of `HotkeyService`.
4. The merging of overlapping words against a reference definition over bounded inputs.

## 9. Running it

`tlc -config Hotkey.cfg MCHotkeyService` and likewise for the other configurations (`PROJECT.json`
lists module and configuration of each run); `tlapm HotkeyService_proofs.tla` and likewise for the other
proof modules.
