---------------------------- MODULE ModeSwitching ----------------------------
(***************************************************************************)
(* ModeManager (core/mode_manager.py), which runs one of two transcription *)
(* modes, and the DualModeTranscriptionEngine it drives                    *)
(* (stt/streaming_engine.py).  Both live on one event loop: a switch holds *)
(* no await that suspends but the lock it waits for, so it is one step; the*)
(* shutdown waits twice, and the engine's worker is a task of its own.     *)
(* Chunks of audio are numbered in the order they are offered.             *)
(***************************************************************************)
EXTENDS Integers, Sequences

CONSTANTS NSwitches,     \* bound on the calls of the manager
          NOffers,       \* bound on the chunks offered to the engine
          EngineQueue,   \* size of the engine's queue (64)
          WindowChunks   \* chunks in a window

ASSUME ModeAssumption ==
  /\ EngineQueue \in Nat \ {0} /\ WindowChunks \in Nat \ {0}
  /\ NSwitches \in Nat /\ NOffers \in Nat

VARIABLES
  modeLife,         \* lifecycle_state of each mode
  currentMode,      \* _state.current_mode
  savedMode,        \* the active mode of the settings
  managerUp,        \* _async_initialized
  closingStep,      \* where shutdown() waits
  engineState, engineMode, engineTask, engineStop,
  engineQueue, buffers,    \* the chunks in the queue, in each mode's engine
  offers, transcribed,     \* chunks offered so far; the windows transcribed, by which mode
  modeCalls,
  unfaithful,       \* history: a save failed, or a shutdown or a release left current_mode
  startedLate       \* history: a switch started the engine while a shutdown stopped it

managerVars == <<modeLife, currentMode, savedMode, managerUp, closingStep, modeCalls>>
engineVars == <<engineState, engineMode, engineTask, engineStop, engineQueue, buffers, offers,
                transcribed>>
modeVars == <<managerVars, engineVars, unfaithful, startedLate>>

Modes == {"wispr", "system"}
AnyMode == Modes \cup {"none"}
NewBuffers == [m \in Modes |-> <<>>]

-----------------------------------------------------------------------------
\* initialize(): a new engine, in hotkey mode, and both modes ready.
ModesInitialize ==
  /\ ~managerUp /\ closingStep = "none" /\ modeCalls < NSwitches
  /\ modeCalls' = modeCalls + 1 /\ managerUp' = TRUE
  /\ modeLife' = [m \in Modes |-> "ready"]
  /\ engineState' = "ready" /\ engineMode' = "wispr" /\ engineTask' = "none"
  /\ engineStop' = FALSE /\ engineQueue' = <<>> /\ buffers' = NewBuffers
  /\ unfaithful' = (unfaithful \/ currentMode # "none")
  /\ UNCHANGED <<currentMode, savedMode, closingStep, offers, transcribed, startedLate>>

\* The model of a mode cannot be loaded.
ModesInitializeFails ==
  /\ ~managerUp /\ closingStep = "none" /\ modeCalls < NSwitches
  /\ modeCalls' = modeCalls + 1
  /\ modeLife' = [m \in Modes |-> "error"] /\ engineState' = "error"
  /\ UNCHANGED <<currentMode, savedMode, managerUp, closingStep, engineMode, engineTask,
                 engineStop, engineQueue, buffers, offers, transcribed, unfaithful,
                 startedLate>>

\* start() of the engine, by _start_mode(), if it is ready.
StartsEngine(m) ==
  /\ engineMode' = m
  /\ IF engineState = "ready" /\ engineTask \in {"none", "ended"}
     THEN /\ engineTask' = "created" /\ engineStop' = FALSE
          /\ startedLate' = (startedLate \/ closingStep = "flush")
     ELSE UNCHANGED <<engineTask, engineStop, startedLate>>
  /\ UNCHANGED <<engineState, engineQueue, buffers, offers, transcribed>>

\* _stop_mode() and _cleanup_mode() of the mode that was current.
Stopped(life, m) == IF m = "none" THEN life ELSE [life EXCEPT ![m] = "ready"]

\* A switch that succeeds.
Switches(m) ==
  /\ modeLife' = [Stopped(modeLife, currentMode) EXCEPT ![m] = "running"]
  /\ currentMode' = m /\ savedMode' = m
  /\ StartsEngine(m) /\ UNCHANGED unfaithful

\* What the lifecycles are when a switch to m fails: stopping the current mode, starting m,
\* or saving m as the active mode.
FailedLife(m, at) ==
  CASE at = "stop" -> [modeLife EXCEPT ![currentMode] = "error"]
    [] at = "start" -> [Stopped(modeLife, currentMode) EXCEPT ![m] = "error"]
    [] at = "save" -> [Stopped(modeLife, currentMode) EXCEPT ![m] = "running"]

\* Variant of FallsBack: the mode that was current is not started again.
FallsBackToNothing(m, at) ==
  /\ modeLife' = FailedLife(m, at) /\ UNCHANGED currentMode
  /\ StartsEngine(currentMode)

\* The fallback starts the mode that was current again.
FallsBack(m, at) ==
  /\ modeLife' = [FailedLife(m, at) EXCEPT ![currentMode] = "running"]
  /\ UNCHANGED currentMode /\ StartsEngine(currentMode)

\* The fallback fails too.
FallsOver(m, at) ==
  /\ modeLife' = [FailedLife(m, at) EXCEPT ![currentMode] = "error"]
  /\ currentMode' = "none"
  /\ IF at = "save" THEN StartsEngine(m) ELSE UNCHANGED <<engineVars, startedLate>>

\* There was no mode to fall back to: what failed stays as it is.
FailsOnly(m, at) ==
  /\ modeLife' = FailedLife(m, at)
  /\ currentMode' = (IF at = "save" THEN m ELSE "none")
  /\ IF at = "save" THEN StartsEngine(m) ELSE UNCHANGED <<engineVars, startedLate>>

SwitchFails(m, at) ==
  /\ unfaithful' = (unfaithful \/ at = "save") /\ UNCHANGED savedMode
  /\ IF currentMode = "none" THEN at # "stop" /\ FailsOnly(m, at)
     ELSE FallsBack(m, at) \/ FallsOver(m, at)

\* switch_mode(), under its lock; force repeats a switch to the current mode.
SwitchMode(m, force) ==
  /\ managerUp /\ modeCalls < NSwitches /\ modeCalls' = modeCalls + 1
  /\ IF currentMode = m /\ ~force
     THEN UNCHANGED <<modeLife, currentMode, savedMode, engineVars, unfaithful, startedLate>>
     ELSE Switches(m) \/ \E at \in {"stop", "start", "save"} : SwitchFails(m, at)
  /\ UNCHANGED <<managerUp, closingStep>>

\* release_resources(): the cleanup of a mode, or of both, whether it runs or not.
Releases(modes) ==
  /\ managerUp /\ modeCalls < NSwitches /\ modeCalls' = modeCalls + 1
  /\ modeLife' = [m \in Modes |-> IF m \in modes THEN "ready" ELSE modeLife[m]]
  /\ unfaithful' = (unfaithful \/ currentMode \in modes)
  /\ UNCHANGED <<currentMode, savedMode, managerUp, closingStep, engineVars,
                 startedLate>>

\* shutdown(): it waits for the monitoring task, then stops both modes and tells the
\* engine's worker, which it waits for.  Switches go on in between.
ShutdownBegins ==
  /\ managerUp /\ closingStep = "none" /\ closingStep' = "monitor"
  /\ UNCHANGED <<modeLife, currentMode, savedMode, managerUp, modeCalls, engineVars,
                 unfaithful, startedLate>>

WorkerLives == engineTask \in {"created", "working", "cancelled"}

\* Variant of TellsWorker: the worker is not told.
TellsNoWorker == UNCHANGED <<engineStop, engineTask>>

TellsWorker == engineStop' = TRUE /\ engineTask' = "cancelled"

ShutdownStops ==
  /\ closingStep = "monitor" /\ WorkerLives /\ closingStep' = "engine"
  /\ modeLife' = [m \in Modes |-> "ready"]
  /\ unfaithful' = (unfaithful \/ currentMode # "none")
  /\ TellsWorker
  /\ UNCHANGED <<currentMode, savedMode, managerUp, modeCalls, engineState, engineMode,
                 engineQueue, buffers, offers, transcribed, startedLate>>

\* Variant of ShutdownWaits: the worker that was cancelled is not waited for.
ShutdownWaitsNot == closingStep \in {"engine", "flush"}

ShutdownWaits == closingStep = "flush"

\* flush() of the mode that is current now, then cleanup().  Nothing is waited for when
\* there is no worker.
ShutdownEnds ==
  /\ \/ ShutdownWaits /\ UNCHANGED modeLife
     \/ /\ closingStep = "monitor" /\ ~WorkerLives
        /\ modeLife' = [m \in Modes |-> "ready"]
  /\ unfaithful' = (unfaithful \/ currentMode # "none")
  /\ closingStep' = "none" /\ managerUp' = FALSE /\ engineState' = "shutdown"
  /\ transcribed' = transcribed \cup {[by |-> engineMode, of |-> buffers[engineMode]]}
  /\ buffers' = [buffers EXCEPT ![engineMode] = <<>>]
  /\ UNCHANGED <<currentMode, savedMode, modeCalls, engineMode, engineTask, engineStop,
                 engineQueue, offers, startedLate>>

-----------------------------------------------------------------------------
\* The engine.

\* Variant of Accepts: the queue has no limit.
AcceptsMore == engineState = "ready"

\* submit(): a chunk is taken while the engine is ready, and turned away otherwise.
Accepts == engineState = "ready" /\ Len(engineQueue) < EngineQueue

OfferChunk ==
  /\ offers < NOffers /\ offers' = offers + 1
  /\ engineQueue' = IF Accepts THEN Append(engineQueue, offers') ELSE engineQueue
  /\ UNCHANGED <<managerVars, engineState, engineMode, engineTask, engineStop, buffers,
                 transcribed, unfaithful, startedLate>>

\* _worker_loop(): from its first step on the engine is processing, and never ready again.
WorkerBegins ==
  /\ engineTask = "created" /\ engineTask' = "working" /\ engineState' = "processing"
  /\ UNCHANGED <<managerVars, engineMode, engineStop, engineQueue, buffers, offers,
                 transcribed, unfaithful, startedLate>>

\* _process_chunk(): the chunk joins the buffer of the mode that is current now; a full
\* window is transcribed, and its last chunk overlaps the next.
WorkerTakes ==
  /\ engineTask = "working" /\ ~engineStop /\ engineQueue # <<>>
  /\ engineQueue' = Tail(engineQueue)
  /\ LET held == Append(buffers[engineMode], Head(engineQueue)) IN
       IF Len(held) < WindowChunks
       THEN buffers' = [buffers EXCEPT ![engineMode] = held] /\ UNCHANGED transcribed
       ELSE /\ buffers' = [buffers EXCEPT ![engineMode] = <<Head(engineQueue)>>]
            /\ transcribed' = transcribed \cup {[by |-> engineMode, of |-> held]}
  /\ UNCHANGED <<managerVars, engineState, engineMode, engineTask, engineStop, offers,
                 unfaithful, startedLate>>

\* A callback of the worker raises.
WorkerBreaks ==
  /\ engineTask = "working" /\ engineTask' = "ended" /\ engineState' = "error"
  /\ UNCHANGED <<managerVars, engineMode, engineStop, engineQueue, buffers, offers,
                 transcribed, unfaithful, startedLate>>

WorkerStops ==
  /\ engineTask = "cancelled" /\ engineTask' = "ended"
  /\ closingStep' = IF closingStep = "engine" THEN "flush" ELSE closingStep
  /\ UNCHANGED <<modeLife, currentMode, savedMode, managerUp, modeCalls, engineState,
                 engineMode, engineStop, engineQueue, buffers, offers, transcribed,
                 unfaithful, startedLate>>

-----------------------------------------------------------------------------
ModeInit ==
  /\ modeLife = [m \in Modes |-> "uninitialized"]
  /\ currentMode = "none" /\ savedMode = "none" /\ managerUp = FALSE /\ closingStep = "none"
  /\ engineState = "none" /\ engineMode = "wispr" /\ engineTask = "none" /\ engineStop = FALSE
  /\ engineQueue = <<>> /\ buffers = NewBuffers /\ offers = 0 /\ transcribed = {}
  /\ modeCalls = 0 /\ unfaithful = FALSE /\ startedLate = FALSE

ModeNext ==
  \/ ModesInitialize \/ ModesInitializeFails
  \/ \E m \in Modes, force \in BOOLEAN : SwitchMode(m, force)
  \/ \E modes \in {{"wispr"}, {"system"}, Modes} : Releases(modes)
  \/ ShutdownBegins \/ ShutdownStops \/ ShutdownEnds
  \/ OfferChunk \/ WorkerBegins \/ WorkerTakes \/ WorkerBreaks \/ WorkerStops

ModeSpec == ModeInit /\ [][ModeNext]_modeVars

ModeFairSpec ==
  /\ ModeSpec
  /\ WF_modeVars(ShutdownStops) /\ WF_modeVars(ShutdownEnds)
  /\ WF_modeVars(WorkerBegins) /\ WF_modeVars(WorkerTakes) /\ WF_modeVars(WorkerStops)

-----------------------------------------------------------------------------
ModeTypeOK ==
  /\ modeLife \in [Modes -> {"uninitialized", "ready", "running", "error"}]
  /\ currentMode \in AnyMode /\ savedMode \in AnyMode /\ managerUp \in BOOLEAN
  /\ closingStep \in {"none", "monitor", "engine", "flush"}
  /\ engineState \in {"none", "ready", "processing", "error", "shutdown"}
  /\ engineMode \in Modes
  /\ engineTask \in {"none", "created", "working", "cancelled", "ended"}
  /\ engineStop \in BOOLEAN
  /\ engineQueue \in Seq(1..NOffers) /\ Len(engineQueue) <= EngineQueue
  /\ buffers \in [Modes -> Seq(1..NOffers)]
  /\ \A m \in Modes : Len(buffers[m]) <= WindowChunks
  /\ offers \in 0..NOffers /\ modeCalls \in 0..NSwitches
  /\ unfaithful \in BOOLEAN /\ startedLate \in BOOLEAN

\* However a switch ends, the mode the manager calls current is the one that runs, the only
\* one, the engine is in it and the settings name it; a mode that could not be saved, a
\* release or a shutdown that leaves current_mode behind are the exceptions.
CurrentModeRuns ==
  currentMode # "none" /\ ~unfaithful =>
    /\ \A m \in Modes : modeLife[m] = "running" <=> m = currentMode
    /\ engineMode = currentMode /\ savedMode = currentMode

\* An engine that was shut down has no worker left that could use its models, unless a
\* switch started one between the end of the old worker and the end of the shutdown.
ShutEngineIsIdle == engineState = "shutdown" /\ ~startedLate => ~WorkerLives

\* shutdown() returns, whatever switches are made meanwhile.
ShutdownReturns == []<>(closingStep = "none")

\* The current mode is the one that runs, and an engine that was shut down is idle.
ModeInv == ModeTypeOK /\ CurrentModeRuns /\ ShutEngineIsIdle
=============================================================================
