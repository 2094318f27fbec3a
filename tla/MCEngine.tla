------------------------------ MODULE MCEngine ------------------------------
(* The components that run sessions and models, each by itself: the        *)
(* variable component says which of them the behaviour is about.  They do  *)
(* not share state in the code either: each is a Python object with its    *)
(* own lock, used through the calls its module takes as requests.          *)
EXTENDS SessionManager, ModelPool, ModelPreload, FastTranscriber,
        DesktopHotkeySession, SystemSession, ModeSwitching

VARIABLE component

vars == <<component, sessionVars, poolVars, preloadVars, sttVars, deskVars, systemVars,
          modeVars>>

Init ==
  /\ component \in {"session", "pool", "preload", "stt", "desk", "system", "mode"}
  /\ SessionInit /\ PoolInit /\ PreloadInit /\ SttInit /\ DeskInit /\ SystemInit /\ ModeInit
  \* what a component begins with is fixed when the behaviour is about another
  /\ component # "stt" => execMode = "auto" /\ hasContext = TRUE
  /\ component # "system" => audioDir = TRUE

\* A step of component c leaves the other components alone.
Alone(c) ==
  /\ UNCHANGED component
  /\ c # "session" => UNCHANGED sessionVars
  /\ c # "pool" => UNCHANGED poolVars
  /\ c # "preload" => UNCHANGED preloadVars
  /\ c # "stt" => UNCHANGED sttVars
  /\ c # "desk" => UNCHANGED deskVars
  /\ c # "system" => UNCHANGED systemVars
  /\ c # "mode" => UNCHANGED modeVars

Next ==
  \/ component = "session" /\ SessionNext /\ Alone("session")
  \/ component = "pool" /\ PoolNext /\ Alone("pool")
  \/ component = "preload" /\ PreloadNext /\ Alone("preload")
  \/ component = "stt" /\ SttNext /\ Alone("stt")
  \/ component = "desk" /\ DeskNext /\ Alone("desk")
  \/ component = "system" /\ SystemNext /\ Alone("system")
  \/ component = "mode" /\ ModeNext /\ Alone("mode")

(* The fairness of each component (its ...FairSpec) while the behaviour is about it. *)
Fairness ==
  /\ \A s \in Stops : WF_sessionVars(component = "session" /\ request[s] # "idle" /\ StopStep(s))
  /\ \A t \in Loaders : WF_poolVars(component = "pool" /\ LoaderStep(t))
  /\ \A p \in Preloads : WF_preloadVars(component = "preload" /\ PreloadStep(p))
  /\ \A w \in Workers : WF_sttVars(component = "stt" /\ WorkerStep(w))
  /\ \A c \in DeskCallers : WF_deskVars(component = "desk" /\ CallerStep(c))
  /\ \A r \in Recordings : WF_deskVars(component = "desk" /\ RecorderStep(r))
  /\ \A p \in 1..NDeskCalls :
        WF_deskVars(component = "desk" /\ p \in DOMAIN processor /\ ProcessorStep(p))
  /\ WF_systemVars(component = "system" /\ SystemCallStep)
  /\ WF_systemVars(component = "system" /\ ThreadWrites("loop"))
  /\ WF_systemVars(component = "system" /\ ThreadWrites("worker"))
  /\ \A g \in SysStarts : /\ WF_systemVars(component = "system" /\ CaptureEnds(g))
                          /\ WF_systemVars(component = "system" /\ SysLoopEnds(g))
  /\ \A t \in SystemExports : WF_systemVars(component = "system" /\ ExportRuns(t))
  /\ WF_modeVars(component = "mode" /\ ShutdownStops)
  /\ WF_modeVars(component = "mode" /\ ShutdownEnds)
  /\ WF_modeVars(component = "mode" /\ WorkerBegins)
  /\ WF_modeVars(component = "mode" /\ WorkerTakes)
  /\ WF_modeVars(component = "mode" /\ WorkerStops)

Spec == Init /\ [][Next]_vars /\ Fairness

-----------------------------------------------------------------------------
(* Properties of two components, and of all of them. *)

\* Preloading (backend_service.py) and the transcriber (fast_engine.py) keep what they took
\* in hand: a model until a later request, the order of the speech.
TranscriberInv == PreloadInv /\ SttInv

\* The two recorders without a manager (hotkey_session.py, system_session.py) hand over what
\* they heard, whole and once, and let go of the device.
RecordersInv == DeskInv /\ SystemInv

\* What is asked of the engine ends, although each of its threads may wait for another,
\* fail, or outlive the call that stops it; and the pool evicts what was used the longest ago.
EngineProgress ==
  /\ StopsReturn /\ AsksReturn /\ EvictsLeastRecent /\ PreloadsReturn /\ AcceptedIsHandled
  /\ ProcessingEnds /\ MicrophoneIsReleased /\ SystemStopReturns /\ ShutdownReturns
=============================================================================
