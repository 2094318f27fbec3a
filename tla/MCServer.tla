------------------------------ MODULE MCServer ------------------------------
(* The components around the server: its sockets and event streams, the    *)
(* process itself, its storage and the audio it reads, each by itself: the *)
(* variable component says which of them the behaviour is about.           *)
EXTENDS WebSocketServer, LiveUpdates, BackendSupervisor, Recovery, AudioPipeline, History,
        CaptureReads

\* The value of CaptureBackends: what factory.py prefers on Linux and macOS.
Backends == <<"pyaudio", "soundcard">>

VARIABLE component

vars == <<component, wsVars, updateVars, supervisorVars, recoveryVars, pipeVars, historyVars,
          captureVars>>

Init ==
  /\ component \in {"ws", "updates", "supervisor", "recovery", "pipe", "history", "capture"}
  /\ WsInit /\ UpdatesInit /\ SupervisorInit /\ RecoveryInit /\ PipelineInit /\ HistoryInit
  /\ CaptureInit
  \* what a component begins with is fixed when the behaviour is about another
  /\ component # "supervisor" => foreign = FALSE
  /\ component # "pipe" => wantedDevice = CHOOSE d \in PipeDevices : TRUE

\* A step of component c leaves the other components alone.
Alone(c) ==
  /\ UNCHANGED component
  /\ c # "ws" => UNCHANGED wsVars
  /\ c # "updates" => UNCHANGED updateVars
  /\ c # "supervisor" => UNCHANGED supervisorVars
  /\ c # "recovery" => UNCHANGED recoveryVars
  /\ c # "pipe" => UNCHANGED pipeVars
  /\ c # "history" => UNCHANGED historyVars
  /\ c # "capture" => UNCHANGED captureVars

Next ==
  \/ component = "ws" /\ WsNext /\ Alone("ws")
  \/ component = "updates" /\ UpdatesNext /\ Alone("updates")
  \/ component = "supervisor" /\ SupervisorNext /\ Alone("supervisor")
  \/ component = "recovery" /\ RecoveryNext /\ Alone("recovery")
  \/ component = "pipe" /\ PipelineNext /\ Alone("pipe")
  \/ component = "history" /\ HistoryNext /\ Alone("history")
  \/ component = "capture" /\ CaptureNext /\ Alone("capture")

(* The fairness of each component (its ...FairSpec) while the behaviour is about it. *)
Fairness ==
  /\ \A c \in Conns : /\ WF_wsVars(component = "ws" /\ WsEndpointStep(c))
                      /\ WF_wsVars(component = "ws" /\ WsHeartStep(c))
                      /\ WF_wsVars(component = "ws" /\ WsCloseEnds(c))
                      /\ WF_wsVars(component = "ws" /\ WsTells(c))
  /\ WF_wsVars(component = "ws" /\ WsBroadcast)
  /\ WF_updateVars(component = "updates" /\ BackendStarts)
  /\ WF_updateVars(component = "updates" /\ Connects)
  /\ WF_updateVars(component = "updates" /\ Opens)
  /\ WF_updateVars(component = "updates" /\ Receives)
  /\ WF_updateVars(component = "updates" /\ ~up /\ Breaks)
  /\ WF_updateVars(component = "updates" /\ HookAsks)
  /\ WF_updateVars(component = "updates" /\ HookAnswers)
  /\ WF_updateVars(component = "updates" /\ AppAsks)
  /\ WF_updateVars(component = "updates" /\ AppAnswers)
  /\ WF_updateVars(component = "updates" /\ LearnsOfExit)
  /\ WF_supervisorVars(component = "supervisor" /\ TimerFires)
  /\ WF_supervisorVars(component = "supervisor" /\ (FoundRunning \/ SpawnsIt))
  /\ \A p \in Processes :
        WF_supervisorVars(component = "supervisor" /\ processes[p] = "killed" /\ Exits(p))
  /\ \A c \in RecoveryCallers : WF_recoveryVars(component = "recovery" /\ RecoveryStep(c))
  /\ \A c \in PipeCallers : WF_pipeVars(component = "pipe" /\ PipeCallStep(c))
  /\ \A n \in Openings : WF_pipeVars(component = "pipe" /\ CaptureStep(n))
  /\ WF_pipeVars(component = "pipe" /\ OldHealthEnds)
  /\ \A t \in HistoryThreads : WF_historyVars(component = "history" /\ ThreadStep(t))
  /\ \A k \in RetryWorkers : WF_historyVars(component = "history" /\ RetryStep(k))
  /\ WF_historyVars(component = "history" /\ DatabaseCloses)
  /\ WF_captureVars(component = "capture" /\ CapturingStep)
  /\ WF_captureVars(component = "capture" /\ HearingStep)

Spec == Init /\ [][Next]_vars /\ Fairness

-----------------------------------------------------------------------------
(* Properties of two components, and of all of them. *)

\* The server (websocket_server.py) knows its clients, and the clients (useEventSource.ts,
\* App.tsx) know what they have missed.
ClientsInv == WsInv /\ UpdatesInv

\* Errors (recovery_strategies.py) and failing devices (pipeline_base.py) cost no more than
\* they must.
FaultsInv == RecoveryInv /\ PipeInv

\* What was said (capture.py, server.py) and what was written (history_db.py and its
\* services) is kept.
KeepingInv == HistoryInv /\ CaptureInv

\* What was begun ends, with connections lost, processes crashed and devices failing: a
\* client that is gone leaves, the windows catch up, a crash is followed by a restart and a
\* quit by the backend's end, recovery moves on through its options, streams are closed.
ServerProgress ==
  /\ GoneLeaves /\ BroadcastEnds /\ PollingCatchesUp /\ CrashIsFollowed /\ QuitEndsBackend
  /\ OnlyMovesOn /\ RecoveryEnds /\ PipeCallsReturn /\ FailuresAreSettled /\ RetriesSettle
  /\ StreamIsClosed
=============================================================================
