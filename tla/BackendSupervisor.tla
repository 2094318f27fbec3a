------------------------- MODULE BackendSupervisor -------------------------
(***************************************************************************)
(* The desktop application and its backend process                         *)
(* (electron/main/services/backendSpawn.js and its callers in index.js and *)
(* windows/tray.js): the launch, the health checks, the restarts after a   *)
(* crash, and the end with the application.                                *)
(***************************************************************************)
EXTENDS Integers, FiniteSets

CONSTANTS NSpawns,             \* bound on the processes started
          MaxBackendRestarts   \* MAX_BACKEND_RESTARTS

ASSUME SupervisorAssumption == NSpawns \in Nat /\ MaxBackendRestarts \in Nat

VARIABLES
  child,             \* state.backendProcess: the process, 0 for null
  processes,         \* what became of every process
  backendReady, suppressRestart, restartAttempts,
  restartTimer,      \* the timer is set
  looking,           \* startBackend() awaits its health check
  application,       \* "launching", "running", "quitting", "gone"
  foreign,           \* a backend this application did not start answers
  crashed,           \* history: the last process ended by itself, nothing came after it
  spawnsInARow,      \* history: processes started since a backend was last seen well
  quitWhileLooking   \* history

supervisorVars == <<child, processes, backendReady, suppressRestart, restartAttempts,
                    restartTimer, looking, application, foreign, crashed, spawnsInARow,
                    quitWhileLooking>>

Processes == 1..NSpawns
Fate == {"none", "up", "well", "killed", "failed", "exited"}
Well == foreign \/ \E p \in Processes : processes[p] = "well"
HandlersRun == application # "gone"

-----------------------------------------------------------------------------
\* startBackend() up to its health check, at the launch and when the timer fires.
Launch ==
  /\ application = "launching" /\ application' = "running"
  /\ looking' = TRUE
  /\ UNCHANGED <<foreign, crashed, child, processes, backendReady, suppressRestart,
                 restartAttempts, restartTimer, spawnsInARow, quitWhileLooking>>

TimerFires ==
  /\ HandlersRun /\ restartTimer /\ restartTimer' = FALSE
  /\ looking' = (looking \/ child = 0)
  /\ UNCHANGED <<foreign, crashed, child, processes, backendReady, suppressRestart,
                 restartAttempts, application, spawnsInARow, quitWhileLooking>>

\* backendAlreadyRunning(), as the tray and waitForBackendReady() call it.
Checks ==
  /\ HandlersRun
  /\ backendReady' = Well
  /\ restartAttempts' = IF Well THEN 0 ELSE restartAttempts
  /\ spawnsInARow' = IF Well THEN 0 ELSE spawnsInARow
  /\ UNCHANGED <<foreign, crashed, child, processes, suppressRestart, restartTimer, looking,
                 application, quitWhileLooking>>

\* startBackend() after its health check.
FoundRunning ==
  /\ HandlersRun /\ looking /\ Well
  /\ looking' = FALSE /\ backendReady' = TRUE /\ restartAttempts' = 0 /\ spawnsInARow' = 0
  /\ crashed' = FALSE
  /\ UNCHANGED <<foreign, child, processes, suppressRestart, restartTimer, application,
                 quitWhileLooking>>

\* Variant of SpawnsIt: the process is not recorded.
SpawnsUnrecorded ==
  /\ HandlersRun /\ looking /\ ~Well
  /\ looking' = FALSE /\ suppressRestart' = FALSE /\ backendReady' = FALSE
  /\ \E p \in Processes :
       /\ processes[p] = "none" /\ \A q \in 1..(p - 1) : processes[q] # "none"
       /\ \E fate \in {"up", "failed"} : processes' = [processes EXCEPT ![p] = fate]
  /\ spawnsInARow' = spawnsInARow + 1 /\ crashed' = FALSE
  /\ UNCHANGED <<foreign, child, restartAttempts, restartTimer, application,
                 quitWhileLooking>>

\* A process that cannot be started tells of an error, not of its exit.
SpawnsIt ==
  /\ HandlersRun /\ looking /\ ~Well
  /\ looking' = FALSE /\ suppressRestart' = FALSE /\ backendReady' = FALSE
  /\ \E p \in Processes :
       /\ processes[p] = "none" /\ \A q \in 1..(p - 1) : processes[q] # "none"
       /\ child' = p
       /\ \E fate \in {"up", "failed"} : processes' = [processes EXCEPT ![p] = fate]
  /\ spawnsInARow' = spawnsInARow + 1 /\ crashed' = FALSE
  /\ UNCHANGED <<foreign, restartAttempts, restartTimer, application, quitWhileLooking>>

\* The backend comes up.
BecomesWell(p) ==
  /\ processes[p] = "up"
  /\ processes' = [processes EXCEPT ![p] = "well"]
  /\ UNCHANGED <<foreign, crashed, child, backendReady, suppressRestart, restartAttempts,
                 restartTimer, looking, application, spawnsInARow, quitWhileLooking>>

\* Variant of the exit handler: nothing is counted.
ExitHandlerUncounted ==
  /\ child' = 0 /\ backendReady' = FALSE
  /\ restartTimer' = (restartTimer \/ ~suppressRestart)
  /\ UNCHANGED restartAttempts

\* Variant of the exit handler: no restart.
ExitHandlerIdle ==
  /\ child' = 0 /\ backendReady' = FALSE
  /\ UNCHANGED <<restartAttempts, restartTimer>>

\* The handler of the exit event, whichever process it is.
ExitHandler ==
  /\ child' = 0 /\ backendReady' = FALSE
  /\ LET again == ~suppressRestart /\ restartAttempts < MaxBackendRestarts
     IN  /\ restartAttempts' = IF again THEN restartAttempts + 1 ELSE restartAttempts
         /\ restartTimer' = (restartTimer \/ again)

\* A process ends by itself, or because it was killed.
Exits(p) ==
  /\ processes[p] \in {"up", "well", "killed"}
  /\ processes' = [processes EXCEPT ![p] = "exited"]
  /\ crashed' = (crashed \/ processes[p] # "killed")
  /\ IF HandlersRun THEN ExitHandler
     ELSE UNCHANGED <<child, backendReady, restartAttempts, restartTimer>>
  /\ UNCHANGED <<foreign, suppressRestart, looking, application, spawnsInARow,
                 quitWhileLooking>>

Kills == IF child # 0 /\ processes[child] \in {"up", "well"}
         THEN [processes EXCEPT ![child] = "killed"] ELSE processes

\* Variant of stopBackend(): it only suppresses the restart.
StopsLoosely == processes' = processes /\ suppressRestart' = TRUE /\ restartTimer' = FALSE
                /\ child' = 0 /\ backendReady' = FALSE

\* stopBackend()
StopsBackend ==
  /\ suppressRestart' = TRUE /\ restartTimer' = FALSE
  /\ processes' = Kills /\ child' = 0 /\ backendReady' = FALSE

\* before-quit, and the end of the application a little later.
Quits ==
  /\ application \in {"launching", "running"} /\ application' = "quitting"
  /\ StopsBackend /\ quitWhileLooking' = looking
  /\ UNCHANGED <<foreign, crashed, restartAttempts, looking, spawnsInARow>>

Ends ==
  /\ application = "quitting" /\ application' = "gone"
  /\ UNCHANGED <<foreign, crashed, child, processes, backendReady, suppressRestart,
                 restartAttempts, restartTimer, looking, spawnsInARow, quitWhileLooking>>

\* The other backend ends.
ForeignEnds ==
  /\ foreign /\ foreign' = FALSE
  /\ UNCHANGED <<child, processes, backendReady, suppressRestart, restartAttempts,
                 restartTimer, looking, application, crashed, spawnsInARow, quitWhileLooking>>

-----------------------------------------------------------------------------
SupervisorInit ==
  /\ child = 0 /\ processes = [p \in Processes |-> "none"]
  /\ backendReady = FALSE /\ suppressRestart = FALSE /\ restartAttempts = 0
  /\ restartTimer = FALSE /\ looking = FALSE /\ application = "launching"
  /\ foreign \in BOOLEAN /\ crashed = FALSE
  /\ spawnsInARow = 0 /\ quitWhileLooking = FALSE

SupervisorNext ==
  \/ Launch \/ TimerFires \/ Checks \/ FoundRunning \/ SpawnsIt \/ Quits \/ Ends
  \/ ForeignEnds
  \/ \E p \in Processes : BecomesWell(p) \/ Exits(p)

\* Timers fire and health checks are answered; a process that is killed ends.
SupervisorFairSpec ==
  /\ SupervisorInit /\ [][SupervisorNext]_supervisorVars
  /\ WF_supervisorVars(TimerFires)
  /\ WF_supervisorVars(FoundRunning \/ SpawnsIt)
  /\ \A p \in Processes : WF_supervisorVars(processes[p] = "killed" /\ Exits(p))

-----------------------------------------------------------------------------
\* The types; and no backend runs that the application does not know, until it quits.
SupervisorTypeOK ==
  /\ child \in 0..NSpawns /\ processes \in [Processes -> Fate]
  /\ backendReady \in BOOLEAN /\ suppressRestart \in BOOLEAN
  /\ restartAttempts \in 0..MaxBackendRestarts
  /\ restartTimer \in BOOLEAN /\ looking \in BOOLEAN /\ quitWhileLooking \in BOOLEAN
  /\ application \in {"launching", "running", "quitting", "gone"}
  /\ foreign \in BOOLEAN /\ crashed \in BOOLEAN
  /\ spawnsInARow \in 0..NSpawns
  /\ application \in {"launching", "running"} =>
       \A p \in Processes : processes[p] \in {"up", "well"} => child = p

\* A backend that never gets well is started MAX_BACKEND_RESTARTS times after the launch,
\* not for ever.
RestartsAreBounded == spawnsInARow <= MaxBackendRestarts + 1

\* A backend that ended by itself is followed by another, or by one already there, unless
\* the restarts are used up or the application quits (exit handler, backendSpawn.js:167).
CrashIsFollowed ==
  []<>(\/ ~crashed \/ application # "running" \/ restartAttempts = MaxBackendRestarts
       \/ \A p \in Processes : processes[p] # "none")    \* the bound

\* No backend survives the application, unless it quit while startBackend() awaited its
\* health check: that call goes on to start one (backendSpawn.js:117).
QuitEndsBackend ==
  []<>(\/ application # "gone" \/ quitWhileLooking
       \/ \A p \in Processes : processes[p] \notin {"up", "well", "killed"})

\* No backend runs that nobody knows of, and one that never gets well is not started for ever.
SupervisorInv == SupervisorTypeOK /\ RestartsAreBounded
=============================================================================
