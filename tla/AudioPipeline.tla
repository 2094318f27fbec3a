---------------------------- MODULE AudioPipeline ----------------------------
(***************************************************************************)
(* The life of an AudioPipeline (audio/pipelines/pipeline_base.py) with the*)
(* opening and closing of its device (wispr_pipeline.py,                   *)
(* system_pipeline.py) and the PipelineManager that owns it                *)
(* (pipeline_factory.py).  Everything runs on one event loop: an action is *)
(* what a coroutine does between two awaits that suspend.  A device is     *)
(* opened and closed in an executor thread, which goes on when the         *)
(* coroutine waiting for it is cancelled.                                  *)
(***************************************************************************)
EXTENDS Integers, FiniteSets

CONSTANTS PipeCallers,     \* the coroutines that call the pipeline
          NPipeCalls,      \* bound on their calls
          NOpens,          \* bound on the openings of a device
          NFaults,         \* bound on the reads that fail
          MaxPipeErrors,   \* max_consecutive_errors (5)
          PipeDevices

ASSUME PipelineAssumption == MaxPipeErrors \in Nat \ {0} /\ NOpens \in Nat

VARIABLES
  pipeState,        \* _state
  stopEvent, pauseEvent,
  captures,         \* the capture tasks, one of each start: step, the stream it closes
  captureTask,      \* _capture_task: the last one
  healthTask,       \* whether _health_task runs
  oldHealths,       \* how many earlier health tasks run
  streams,          \* the device streams that record, by number of opening
  backend,          \* _backend (0: None)
  openedFor,        \* the device of each opening
  wantedDevice,     \* _current_device_id
  pipeErrors,       \* _consecutive_errors
  pipeCall,         \* where the call of each caller waits, and for which stream
  managed,          \* the manager knows the pipeline
  pipeCalls, opens, faults,
  orphans,          \* history: streams whose backend was overwritten
  crossed           \* history: a stop ran while a start or another stop did

pipeFlags == <<stopEvent, pauseEvent>>
taskVars == <<captures, captureTask, healthTask, oldHealths>>
deviceVars == <<streams, backend, openedFor, opens, orphans>>
pipeVars == <<pipeState, pipeFlags, taskVars, deviceVars, wantedDevice, pipeErrors, pipeCall,
              managed, pipeCalls, faults, crossed>>

Openings == 1 .. NOpens
NoCapture == [step |-> "none", closes |-> 0, cancelled |-> FALSE]
NoCall == [step |-> "idle", closes |-> 0]

LiveSteps == {"run", "reading", "failed", "closing", "reopening"}
Alive(n) == n # 0 /\ captures[n].step \in LiveSteps

PipelineInit ==
  /\ pipeState = "idle" /\ stopEvent = FALSE /\ pauseEvent = FALSE
  /\ captures = [n \in Openings |-> NoCapture] /\ captureTask = 0
  /\ healthTask = FALSE /\ oldHealths = 0
  /\ streams = {} /\ backend = 0 /\ openedFor = [n \in Openings |-> "none"]
  /\ wantedDevice \in PipeDevices /\ pipeErrors = 0
  /\ pipeCall = [c \in PipeCallers |-> NoCall] /\ managed = TRUE
  /\ pipeCalls = 0 /\ opens = 0 /\ faults = 0
  /\ orphans = {} /\ crossed = FALSE

\* A call through the manager, which knows the pipeline until it is removed.
Calls(c) ==
  /\ managed /\ pipeCall[c].step = "idle" /\ pipeCalls < NPipeCalls
  /\ pipeCalls' = pipeCalls + 1

OthersIn(c, steps) == \E d \in PipeCallers \ {c} : pipeCall[d].step \in steps
StopSteps == {"capture", "health", "cleanup"}

\* _initialize_device() of either pipeline has opened and started the device.
OpensDevice ==
  /\ opens < NOpens /\ opens' = opens + 1
  /\ openedFor' = [openedFor EXCEPT ![opens'] = wantedDevice]
  /\ streams' = streams \cup {opens'} /\ backend' = opens'
  /\ orphans' = orphans \cup ({backend} \cap streams)

-----------------------------------------------------------------------------
\* start(): refused in other states, else it waits for the device to open.
PipeStart(c) ==
  /\ Calls(c) /\ pipeState \in {"idle", "stopped", "error"}
  /\ pipeState' = "initializing"
  /\ pipeCall' = [pipeCall EXCEPT ![c].step = "opening"]
  /\ crossed' = (crossed \/ OthersIn(c, StopSteps \cup {"opening"}))
  /\ UNCHANGED <<pipeFlags, taskVars, deviceVars, wantedDevice, pipeErrors, managed, faults>>

\* Variant of FreshFlags: the stop event of the last stop stays set.
StaleFlags == UNCHANGED stopEvent /\ pauseEvent' = FALSE

FreshFlags == stopEvent' = FALSE /\ pauseEvent' = FALSE

\* The device is open: both tasks are created and the pipeline runs.  The tasks of a start
\* that ended in an error, or overtook a stop, are forgotten.
StartRuns(c) ==
  /\ pipeCall[c].step = "opening" /\ OpensDevice /\ FreshFlags
  /\ captures' = [captures EXCEPT ![opens'].step = "run"] /\ captureTask' = opens'
  /\ oldHealths' = oldHealths + (IF healthTask THEN 1 ELSE 0) /\ healthTask' = TRUE
  /\ pipeState' = "running" /\ pipeCall' = [pipeCall EXCEPT ![c] = NoCall]
  /\ UNCHANGED <<wantedDevice, pipeErrors, managed, pipeCalls, faults, crossed>>

StartFailsToOpen(c) ==
  /\ pipeCall[c].step = "opening"
  /\ pipeState' = "error" /\ pipeCall' = [pipeCall EXCEPT ![c] = NoCall]
  /\ UNCHANGED <<pipeFlags, taskVars, deviceVars, wantedDevice, pipeErrors, managed,
                 pipeCalls, faults, crossed>>

-----------------------------------------------------------------------------
\* stop(): the tasks are told and cancelled, one after the other, and then the device is
\* closed; what an await is followed by, it finds changed by others.
PipeStop(c) ==
  /\ Calls(c) /\ pipeState \notin {"stopped", "idle"}
  /\ pipeState' = "stopping" /\ stopEvent' = TRUE
  /\ crossed' = (crossed \/ OthersIn(c, StopSteps \cup {"opening"}))
  /\ IF Alive(captureTask)
     THEN /\ captures' = [captures EXCEPT ![captureTask].cancelled = TRUE]
          /\ pipeCall' = [pipeCall EXCEPT ![c] = [step |-> "capture", closes |-> captureTask]]
          /\ UNCHANGED healthTask
     ELSE /\ pipeCall' = [pipeCall EXCEPT ![c].step = "health"]
          /\ healthTask' = FALSE /\ UNCHANGED captures
  /\ UNCHANGED <<pauseEvent, captureTask, oldHealths, deviceVars, wantedDevice, pipeErrors,
                 managed, faults>>

\* Variant of Joined: the stop does not wait for the capture task.
JoinedNobody(n) == TRUE

\* Variant of Joined: the task is read again after the wait.
JoinedCurrent(n) == ~Alive(captureTask)

Joined(n) == ~Alive(n)

StopJoinsCapture(c) ==
  /\ pipeCall[c].step = "capture" /\ Joined(pipeCall[c].closes)
  /\ pipeCall' = [pipeCall EXCEPT ![c].step = "health"] /\ healthTask' = FALSE
  /\ UNCHANGED <<pipeState, pipeFlags, captures, captureTask, oldHealths, deviceVars,
                 wantedDevice, pipeErrors, managed, pipeCalls, faults, crossed>>

\* _cleanup_device() hands the backend's stop() to the executor, if there is a backend.
StopCleansUp(c) ==
  /\ pipeCall[c].step = "health"
  /\ pipeCall' = [pipeCall EXCEPT ![c] = [step |-> "cleanup", closes |-> backend]]
  /\ UNCHANGED <<pipeState, pipeFlags, taskVars, deviceVars, wantedDevice, pipeErrors,
                 managed, pipeCalls, faults, crossed>>

\* Variant of Closes: the backend is dropped without being stopped.
ClosesNothing(n) == backend' = 0 /\ UNCHANGED streams

Closes(n) == backend' = 0 /\ streams' = streams \ {n}

StopReturns(c) ==
  /\ pipeCall[c].step = "cleanup" /\ pipeState' = "stopped"
  /\ pipeCall' = [pipeCall EXCEPT ![c] = NoCall]
  /\ Closes(pipeCall[c].closes)
  /\ UNCHANGED <<pipeFlags, taskVars, openedFor, opens, orphans, wantedDevice, pipeErrors,
                 managed, pipeCalls, faults, crossed>>

-----------------------------------------------------------------------------
PipePause(c) ==
  /\ Calls(c) /\ pipeState = "running"
  /\ pauseEvent' = TRUE /\ pipeState' = "paused"
  /\ UNCHANGED <<stopEvent, taskVars, deviceVars, wantedDevice, pipeErrors, pipeCall, managed,
                 faults, crossed>>

PipeResume(c) ==
  /\ Calls(c) /\ pipeState = "paused"
  /\ pauseEvent' = FALSE /\ pipeState' = "running"
  /\ UNCHANGED <<stopEvent, taskVars, deviceVars, wantedDevice, pipeErrors, pipeCall, managed,
                 faults, crossed>>

\* change_device(): the errors are set to the limit, so that the next one is the last.
ChangeDevice(c, d) ==
  /\ Calls(c) /\ d # wantedDevice /\ wantedDevice' = d /\ pipeErrors' = MaxPipeErrors
  /\ UNCHANGED <<pipeState, pipeFlags, taskVars, deviceVars, pipeCall, managed, faults,
                 crossed>>

\* remove() forgets the pipeline, running or not.
Removed ==
  /\ managed /\ managed' = FALSE
  /\ UNCHANGED <<pipeState, pipeFlags, taskVars, deviceVars, wantedDevice, pipeErrors,
                 pipeCall, pipeCalls, faults, crossed>>

-----------------------------------------------------------------------------
\* _run_capture_with_recovery(): the capture loop of the pipeline, again and again.
Proceeds(n, step) == captures' = [captures EXCEPT ![n].step = step, ![n].closes = 0]

Quiet == UNCHANGED <<pipeFlags, captureTask, healthTask, oldHealths, wantedDevice, pipeCall,
                     managed, pipeCalls, crossed>>

\* Variant of Raises: an error is not counted.
RaisesUncounted(n) ==
  /\ Proceeds(n, "failed")
  /\ UNCHANGED <<pipeErrors, pipeState>>

\* Variant of Raises: the task ends without telling.
RaisesSilently(n) ==
  /\ pipeErrors' = pipeErrors + 1
  /\ Proceeds(n, IF pipeErrors' >= MaxPipeErrors THEN "ended" ELSE "failed")
  /\ UNCHANGED pipeState

\* An error: the last one that is allowed ends the task.
Raises(n) ==
  /\ pipeErrors' = pipeErrors + 1
  /\ IF pipeErrors' >= MaxPipeErrors
     THEN Proceeds(n, "ended") /\ pipeState' = "error"
     ELSE Proceeds(n, "failed") /\ UNCHANGED pipeState

\* The loop begins: it returns at once after a stop, and needs a backend.
CaptureBegins(n) ==
  /\ captures[n].step = "run" /\ ~captures[n].cancelled
  /\ IF stopEvent THEN Proceeds(n, "ended") /\ pipeErrors' = 0 /\ UNCHANGED pipeState
     ELSE IF backend = 0 THEN Raises(n)
     ELSE Proceeds(n, "reading") /\ UNCHANGED <<pipeState, pipeErrors>>
  /\ Quiet /\ UNCHANGED <<deviceVars, faults>>

\* It sees the stop before it is cancelled.
CaptureSeesStop(n) ==
  /\ captures[n].step = "reading" /\ ~captures[n].cancelled /\ stopEvent
  /\ Proceeds(n, "ended") /\ pipeErrors' = 0
  /\ Quiet /\ UNCHANGED <<pipeState, deviceVars, faults>>

\* A read fails, or finds no backend, or none comes for too long.
CaptureReadFails(n) ==
  /\ captures[n].step = "reading" /\ ~captures[n].cancelled
  /\ IF backend = 0 THEN UNCHANGED faults ELSE faults < NFaults /\ faults' = faults + 1
  /\ Raises(n) /\ Quiet /\ UNCHANGED deviceVars

\* _attempt_recovery(): within the cool-down of the last attempt it only waits ...
CoolsDown(n) ==
  /\ captures[n].step = "failed" /\ ~captures[n].cancelled /\ Proceeds(n, "run")
  /\ Quiet /\ UNCHANGED <<pipeState, pipeErrors, deviceVars, faults>>

\* ... else it closes the device and opens it again.
RecoveryCloses(n) ==
  /\ captures[n].step = "failed" /\ ~captures[n].cancelled
  /\ captures' = [captures EXCEPT ![n].step = "closing", ![n].closes = backend]
  /\ Quiet /\ UNCHANGED <<pipeState, pipeErrors, deviceVars, faults>>

RecoveryReopens(n) ==
  /\ captures[n].step = "closing" /\ ~captures[n].cancelled /\ Proceeds(n, "reopening")
  /\ Closes(captures[n].closes)
  /\ Quiet /\ UNCHANGED <<pipeState, pipeErrors, openedFor, opens, orphans, faults>>

Reopened(n) ==
  /\ captures[n].step = "reopening" /\ ~captures[n].cancelled /\ Proceeds(n, "run")
  /\ OpensDevice
  /\ Quiet /\ UNCHANGED <<pipeState, pipeErrors, faults>>

ReopenFails(n) ==
  /\ captures[n].step = "reopening" /\ ~captures[n].cancelled /\ Proceeds(n, "run")
  /\ Quiet /\ UNCHANGED <<pipeState, pipeErrors, deviceVars, faults>>

\* The cancellation arrives; a device that is being closed is closed all the same.
CaptureCancelled(n) ==
  /\ Alive(n) /\ captures[n].cancelled /\ Proceeds(n, "ended")
  /\ IF captures[n].step = "closing" THEN Closes(captures[n].closes)
     ELSE UNCHANGED <<streams, backend>>
  /\ Quiet /\ UNCHANGED <<pipeState, pipeErrors, openedFor, opens, orphans, faults>>

\* Variant of OldHealthEnds: it is told again when it has ended.
OldHealthEndsTwice ==
  /\ stopEvent /\ oldHealths' = oldHealths - 1
  /\ UNCHANGED <<pipeState, pipeFlags, captures, captureTask, healthTask, deviceVars,
                 wantedDevice, pipeErrors, pipeCall, managed, pipeCalls, faults, crossed>>

\* A health task of an earlier start sees the stop event.
OldHealthEnds ==
  /\ oldHealths > 0 /\ stopEvent /\ oldHealths' = oldHealths - 1
  /\ UNCHANGED <<pipeState, pipeFlags, captures, captureTask, healthTask, deviceVars,
                 wantedDevice, pipeErrors, pipeCall, managed, pipeCalls, faults, crossed>>

-----------------------------------------------------------------------------
PipeCallStep(c) ==
  StartRuns(c) \/ StartFailsToOpen(c) \/ StopJoinsCapture(c) \/ StopCleansUp(c) \/ StopReturns(c)

\* The device that fails is not among the steps that must come.
CaptureStep(n) ==
  \/ CaptureBegins(n) \/ CaptureSeesStop(n) \/ (backend = 0 /\ CaptureReadFails(n))
  \/ CoolsDown(n) \/ RecoveryCloses(n) \/ RecoveryReopens(n) \/ Reopened(n) \/ ReopenFails(n)
  \/ CaptureCancelled(n)

PipelineNext ==
  \/ \E c \in PipeCallers :
       \/ PipeStart(c) \/ PipeStop(c) \/ PipePause(c) \/ PipeResume(c) \/ PipeCallStep(c)
       \/ \E d \in PipeDevices : ChangeDevice(c, d)
  \/ \E n \in Openings : CaptureStep(n) \/ CaptureReadFails(n)
  \/ OldHealthEnds \/ Removed

PipelineSpec == PipelineInit /\ [][PipelineNext]_pipeVars
PipelineFairSpec ==
  /\ PipelineSpec
  /\ \A c \in PipeCallers : WF_pipeVars(PipeCallStep(c))
  /\ \A n \in Openings : WF_pipeVars(CaptureStep(n))
  /\ WF_pipeVars(OldHealthEnds)

-----------------------------------------------------------------------------
\* Types; a task that ended is not cancelled later, and the backend is one that was opened.
PipelineTypeOK ==
  /\ pipeState \in {"idle", "initializing", "running", "paused", "stopping", "stopped",
                    "error"}
  /\ {stopEvent, pauseEvent, healthTask, managed, crossed} \subseteq BOOLEAN
  /\ \A n \in Openings : captures[n].step \in LiveSteps \cup {"none", "ended"}
  /\ captureTask \in 0 .. opens /\ backend \in 0 .. opens /\ oldHealths \in Nat
  /\ streams \subseteq 1 .. opens /\ orphans \subseteq 1 .. opens
  /\ pipeErrors \in Nat /\ wantedDevice \in PipeDevices
  /\ \A c \in PipeCallers : pipeCall[c].step \in {"idle", "opening"} \cup StopSteps

\* A pipeline that says it runs or pauses has a capture task; it may be alone in knowing.
RunningCaptures == pipeState \in {"running", "paused"} => Alive(captureTask)

\* A stop that no other call crossed leaves nothing behind: no task captures, and every
\* stream is closed but those that a start after an error has overwritten.
StoppedReleases ==
  pipeState = "stopped" /\ ~crossed =>
    streams \subseteq orphans /\ \A n \in Openings : ~Alive(n)

\* Every start and every stop returns.
PipeCallsReturn == \A c \in PipeCallers : []<>(pipeCall[c].step = "idle")

\* A capture that failed is reading again, or has ended, in a bounded number of attempts.
FailuresAreSettled ==
  \A n \in Openings :
    []<>(captures[n].step \in {"none", "reading", "ended"})

\* The docstring of change_device(): "Triggers a reconnection to the new device."
\* The code does not keep this: README, section 6.
DeviceChangeTakesEffect ==
  pipeState = "running" /\ backend # 0 /\ wantedDevice # openedFor[backend]
    ~> \/ pipeState # "running"
       \/ (backend # 0 /\ wantedDevice = openedFor[backend])

\* A pipeline captures when it says so, and only then.
PipeInv == PipelineTypeOK /\ RunningCaptures /\ StoppedReleases
=============================================================================
