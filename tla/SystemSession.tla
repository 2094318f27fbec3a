---------------------------- MODULE SystemSession ----------------------------
(***************************************************************************)
(* SystemSessionHandler (core/system_session.py): long recordings of the   *)
(* system's audio.  Each start makes a capture thread, a thread that loops *)
(* over the audio and a transcriber whose worker hands over the segments;  *)
(* all share the flags, the recorder and the session of the handler, and   *)
(* the notes are written from three of them.  Starts are numbered, segments*)
(* of a session too, and the notes are the number of segments they cover.  *)
(***************************************************************************)
EXTENDS Integers, FiniteSets

CONSTANTS NSystemStarts,  \* bound on start_session() calls
          NSegments,      \* bound on the segments of a session
          SystemExports   \* the export tasks

ASSUME SystemAssumption == NSystemStarts \in Nat /\ NSegments \in Nat

VARIABLES
  sysStatus, sysCall,     \* session.status; the call under way
  sysStop, sysPause,      \* _stop_event, _pause_event
  sysStarts,              \* the starts so far: the number of the last one
  sysSource,              \* audio_source, and with it the transcriber: 0 for None
  sysCaptures, sysLoops, sysWorkers,  \* the starts whose threads live
  tape, audioDir,         \* the recorder; its directory exists
  segs, disk,             \* segments of the session, and in its transcript.jsonl
  noted, lastNoted,       \* those in notes.md; _last_processed_segment_index + 1
  notesDirty,             \* _outputs_dirty
  noting,                 \* who builds the notes, from how many segments: -1 for nobody
  exportOf,               \* the tasks of the executor and of _pending_tasks
  sysLeft, sysOutlived    \* history: starts whose threads were left behind by the next start,
                          \* and those a stop gave up waiting for

systemVars == <<sysStatus, sysCall, sysStop, sysPause, sysStarts, sysSource, sysCaptures,
                sysLoops, sysWorkers, tape, audioDir, segs, disk, noted, lastNoted, notesDirty,
                noting, exportOf, sysLeft, sysOutlived>>
sysThreadVars == <<sysCaptures, sysLoops, sysWorkers>>
noteVars == <<noted, lastNoted, notesDirty, noting>>

SysStarts == 1..NSystemStarts
SysThreads == sysCaptures \cup sysLoops \cup sysWorkers
Noters == {"loop", "worker", "stop"}
SysIdle == sysCall = "none"

-----------------------------------------------------------------------------
\* The notes: what they are built from is read first; when they are written, the index
\* moves to the last segment there is then.

BuildsNotes(who) == noting' = [noting EXCEPT ![who] = segs]

NotesAre(n) == noted' = n /\ lastNoted' = segs /\ notesDirty' = FALSE

WritesNotes(who) ==
  noting[who] # -1 /\ NotesAre(noting[who]) /\ noting' = [noting EXCEPT ![who] = -1]

-----------------------------------------------------------------------------
\* The calls, one after the other.

\* Variant of NewSession: the index of the last segment in the notes stays.
NewSessionKeepsIndex(resumed) ==
  /\ segs' = 0 /\ noted' = 0 /\ notesDirty' = FALSE
  /\ disk' = IF resumed THEN disk ELSE 0
  /\ UNCHANGED <<lastNoted, noting>>

NewSession(resumed) ==
  /\ segs' = 0 /\ noted' = 0 /\ lastNoted' = 0 /\ notesDirty' = FALSE
  /\ disk' = IF resumed THEN disk ELSE 0
  /\ UNCHANGED noting

\* start_session(), with resume_from or without, up to the three threads it starts.  The
\* recorder is the first to start, and there is no directory made for it.  _resume_session()
\* reads the transcript in a session, and start_session() creates another one.
SysStart(resumed) ==
  /\ SysIdle /\ sysStatus # "running" /\ sysStarts < NSystemStarts
  /\ NewSession(resumed)
  /\ sysStarts' = sysStarts + 1 /\ sysStop' = FALSE /\ sysPause' = FALSE
  /\ sysLeft' = sysLeft \cup SysThreads
  /\ IF audioDir
     THEN /\ tape' = "on" /\ sysCall' = "starting" /\ sysStatus' = "created"
          /\ sysSource' = sysStarts'
          /\ sysCaptures' = sysCaptures \cup {sysStarts'}
          /\ sysLoops' = sysLoops \cup {sysStarts'}
          /\ sysWorkers' = sysWorkers \cup {sysStarts'}
     ELSE /\ tape' = "broken" /\ sysStatus' = "error" /\ sysSource' = 0
          /\ UNCHANGED <<sysCall, sysThreadVars>>
  /\ UNCHANGED <<audioDir, exportOf, sysOutlived>>

SysMarks ==
  /\ sysCall = "starting" /\ sysCall' = "none" /\ sysStatus' = "running"
  /\ UNCHANGED <<sysStop, sysPause, sysStarts, sysSource, sysThreadVars, tape, audioDir, segs,
                 disk, noteVars, exportOf, sysLeft, sysOutlived>>

SysPauses ==
  /\ SysIdle /\ sysStatus = "running"
  /\ sysPause' = TRUE /\ sysStatus' = "paused" /\ tape' = "off"
  /\ UNCHANGED <<sysCall, sysStop, sysStarts, sysSource, sysThreadVars, audioDir, segs, disk,
                 noteVars, exportOf, sysLeft, sysOutlived>>

SysResumes ==
  /\ SysIdle /\ sysStatus = "paused"
  /\ sysPause' = FALSE /\ sysStatus' = "running" /\ tape' = "on"
  /\ UNCHANGED <<sysCall, sysStop, sysStarts, sysSource, sysThreadVars, audioDir, segs, disk,
                 noteVars, exportOf, sysLeft, sysOutlived>>

\* Variant of TellsToStop: only a session that runs is told to.
TellsARunning == sysStop' = (sysStop \/ sysStatus = "running")

TellsToStop == sysStop' = TRUE

\* stop_session(): the flag of the handler, and that of the source and of the transcriber.
SysStops ==
  /\ SysIdle /\ sysStatus # "none"
  /\ TellsToStop /\ sysCall' = "stopping"
  /\ UNCHANGED <<sysStatus, sysPause, sysStarts, sysSource, sysThreadVars, tape, audioDir, segs,
                 disk, noteVars, exportOf, sysLeft, sysOutlived>>

\* The threads of this start that have not ended.
Unended ==
  ({sysSource} \cap (sysCaptures \cup sysWorkers)) \cup ({sysStarts} \cap sysLoops)

\* The capture is waited for 3 s, the worker and the loop 5 s each, and whichever has not ended
\* by then outlives the stop.
SysStopJoins ==
  /\ sysCall = "stopping" /\ sysCall' = "joined"
  /\ sysOutlived' = sysOutlived \cup Unended

SysJoins ==
  /\ SysStopJoins /\ tape' = "off"
  /\ UNCHANGED <<sysStatus, sysStop, sysPause, sysStarts, sysSource, sysThreadVars, audioDir,
                 segs, disk, noteVars, exportOf, sysLeft>>

\* Variant of StopBuilds: only what is marked dirty is built.
StopBuildsDirty == IF notesDirty THEN BuildsNotes("stop") ELSE UNCHANGED noting

\* _rebuild_outputs(force=True).
StopBuilds == BuildsNotes("stop")

SysBuilds ==
  /\ sysCall = "joined" /\ sysCall' = "building" /\ sysStatus' = "stopped"
  /\ StopBuilds
  /\ UNCHANGED <<sysStop, sysPause, sysStarts, sysSource, sysThreadVars, tape, audioDir, segs,
                 disk, noted, lastNoted, notesDirty, exportOf, sysLeft, sysOutlived>>

SysStopped ==
  /\ sysCall = "building" /\ sysCall' = "none"
  /\ (WritesNotes("stop") \/ (noting["stop"] = -1 /\ UNCHANGED noteVars))
  /\ UNCHANGED <<sysStatus, sysStop, sysPause, sysStarts, sysSource, sysThreadVars, tape,
                 audioDir, segs, disk, exportOf, sysLeft, sysOutlived>>

\* shutdown() stops a session that runs; one that is paused or failed it leaves alone.
SysShutsDown ==
  /\ SysIdle /\ sysStatus # "running" /\ sysCall' = "closed"
  /\ UNCHANGED <<sysStatus, sysStop, sysPause, sysStarts, sysSource, sysThreadVars, tape,
                 audioDir, segs, disk, noteVars, exportOf, sysLeft, sysOutlived>>

-----------------------------------------------------------------------------
\* The threads.

\* _handle_error(), called by the capture or by the worker: the notes are rebuilt at once.
Fails ==
  /\ sysStatus' = "error" /\ NotesAre(segs)
  /\ UNCHANGED <<sysCall, sysStop, sysPause, sysStarts, sysSource, tape, audioDir, segs, disk,
                 noting, exportOf, sysLeft, sysOutlived>>

SysCaptureFails(g) ==
  g \in sysCaptures /\ sysCaptures' = sysCaptures \ {g} /\ Fails
    /\ UNCHANGED <<sysLoops, sysWorkers>>

WorkerFails(g) ==
  g \in sysWorkers /\ noting["worker"] = -1 /\ Fails /\ UNCHANGED sysThreadVars

\* The stop of this source and of this transcriber was called: the flags are their own, and
\* stay set when the session that follows clears that of the handler.
ToldToStop(g) == (sysStop /\ g = sysSource) \/ g \in sysOutlived

CaptureEnds(g) ==
  /\ g \in sysCaptures /\ ToldToStop(g) /\ sysCaptures' = sysCaptures \ {g}
  /\ UNCHANGED <<sysStatus, sysCall, sysStop, sysPause, sysStarts, sysSource, sysLoops,
                 sysWorkers, tape, audioDir, segs, disk, noteVars, exportOf, sysLeft,
                 sysOutlived>>

WorkerEnds(g) ==
  /\ g \in sysWorkers /\ ToldToStop(g) /\ noting["worker"] = -1
  /\ sysWorkers' = sysWorkers \ {g}
  /\ UNCHANGED <<sysStatus, sysCall, sysStop, sysPause, sysStarts, sysSource, sysCaptures,
                 sysLoops, tape, audioDir, segs, disk, noteVars, exportOf, sysLeft,
                 sysOutlived>>

\* Variant of LoopSeesStop: a loop that is paused does not look at the stop.
LoopSeesStopUnpaused == sysStop /\ ~sysPause

\* The stop event is looked at before the pause.
LoopSeesStop == sysStop

SysLoopEnds(g) ==
  /\ g \in sysLoops /\ LoopSeesStop /\ noting["loop"] = -1
  /\ sysLoops' = sysLoops \ {g}
  /\ UNCHANGED <<sysStatus, sysCall, sysStop, sysPause, sysStarts, sysSource, sysCaptures,
                 sysWorkers, tape, audioDir, segs, disk, noteVars, exportOf, sysLeft,
                 sysOutlived>>

\* AudioRecordingManager.write() cannot make the next file: the exception ends the loop.
RotationFails(g) ==
  /\ g \in sysLoops /\ ~sysPause /\ tape = "on" /\ noting["loop"] = -1
  /\ tape' = "broken" /\ sysLoops' = sysLoops \ {g}
  /\ UNCHANGED <<sysStatus, sysCall, sysStop, sysPause, sysStarts, sysSource, sysCaptures,
                 sysWorkers, audioDir, segs, disk, noteVars, exportOf, sysLeft, sysOutlived>>

\* _handle_segment(): the segment is appended, to the session and to the file.
SegmentHeard(g) ==
  /\ g \in sysWorkers /\ noting["worker"] = -1 /\ segs < NSegments /\ disk < 2 * NSegments
  /\ segs' = segs + 1 /\ disk' = disk + 1 /\ notesDirty' = TRUE
  /\ noting' = IF lastNoted < segs' THEN [noting EXCEPT !["worker"] = segs'] ELSE noting
  /\ UNCHANGED <<sysStatus, sysCall, sysStop, sysPause, sysStarts, sysSource, sysThreadVars, tape,
                 audioDir, noted, lastNoted, exportOf, sysLeft, sysOutlived>>

\* _maybe_rebuild_outputs() of the loop.
LoopBuilds ==
  /\ sysLoops # {} /\ ~sysPause /\ notesDirty /\ noting["loop"] = -1 /\ BuildsNotes("loop")
  /\ UNCHANGED <<sysStatus, sysCall, sysStop, sysPause, sysStarts, sysSource, sysThreadVars, tape,
                 audioDir, segs, disk, noted, lastNoted, notesDirty, exportOf, sysLeft,
                 sysOutlived>>

ThreadWrites(who) ==
  /\ WritesNotes(who)
  /\ UNCHANGED <<sysStatus, sysCall, sysStop, sysPause, sysStarts, sysSource, sysThreadVars, tape,
                 audioDir, segs, disk, exportOf, sysLeft, sysOutlived>>

-----------------------------------------------------------------------------
\* Exports.

SystemRest == <<sysStatus, sysStop, sysPause, sysStarts, sysSource, sysThreadVars, tape, audioDir,
                segs, disk, noteVars, sysLeft, sysOutlived>>

\* export_async(): the task is submitted first, and entered in the list second.
ExportSubmits(t) ==
  /\ SysIdle /\ sysStatus # "none" /\ exportOf[t] = "none"
  /\ exportOf' = [exportOf EXCEPT ![t] = "submitted"] /\ sysCall' = "entering"
  /\ UNCHANGED SystemRest

ExportEnters(t) ==
  /\ sysCall = "entering" /\ exportOf[t] \in {"submitted", "early"}
  /\ exportOf' = [exportOf EXCEPT ![t] = IF @ = "early" THEN "left" ELSE "listed"]
  /\ sysCall' = "waiting"
  /\ UNCHANGED SystemRest

\* _do_export(): the files are written, and the task leaves the list, if it is there.
ExportRuns(t) ==
  /\ exportOf[t] \in {"submitted", "listed"}
  /\ exportOf' = [exportOf EXCEPT ![t] = IF @ = "listed" THEN "done" ELSE "early"]
  /\ UNCHANGED <<SystemRest, sysCall>>

\* export(wait=True) looks at the list every 100 ms; with wait=False it returns at once.
ExportReturns(t) ==
  /\ sysCall = "waiting" /\ exportOf[t] = "done" /\ sysCall' = "none"
  /\ exportOf' = [exportOf EXCEPT ![t] = "returned"]
  /\ UNCHANGED SystemRest

-----------------------------------------------------------------------------
SystemInit ==
  /\ sysStatus = "none" /\ sysCall = "none" /\ sysStop = FALSE /\ sysPause = FALSE
  /\ sysStarts = 0 /\ sysSource = 0
  /\ sysCaptures = {} /\ sysLoops = {} /\ sysWorkers = {}
  /\ tape = "off" /\ audioDir \in BOOLEAN
  /\ segs = 0 /\ disk = 0 /\ noted = 0 /\ lastNoted = 0 /\ notesDirty = FALSE
  /\ noting = [who \in Noters |-> -1]
  /\ exportOf = [t \in SystemExports |-> "none"]
  /\ sysLeft = {} /\ sysOutlived = {}

SystemCallStep ==
  \/ SysMarks \/ SysJoins \/ SysBuilds \/ SysStopped
  \/ \E t \in SystemExports : ExportEnters(t) \/ ExportReturns(t)

SystemThreadStep ==
  \/ \E g \in SysStarts : CaptureEnds(g) \/ SysLoopEnds(g)
  \/ ThreadWrites("loop") \/ ThreadWrites("worker")

SystemNext ==
  \/ \E resumed \in BOOLEAN : SysStart(resumed)
  \/ SysPauses \/ SysResumes \/ SysStops \/ SysShutsDown \/ LoopBuilds
  \/ SystemCallStep \/ SystemThreadStep
  \/ \E g \in SysStarts : \/ SysCaptureFails(g) \/ WorkerFails(g) \/ WorkerEnds(g)
                          \/ RotationFails(g) \/ SegmentHeard(g)
  \/ \E t \in SystemExports : ExportSubmits(t) \/ ExportRuns(t)

SystemSpec == SystemInit /\ [][SystemNext]_systemVars

SystemFairSpec ==
  /\ SystemSpec
  /\ WF_systemVars(SystemCallStep)
  /\ WF_systemVars(ThreadWrites("loop")) /\ WF_systemVars(ThreadWrites("worker"))
  /\ \A g \in SysStarts : WF_systemVars(CaptureEnds(g)) /\ WF_systemVars(SysLoopEnds(g))
  /\ \A t \in SystemExports : WF_systemVars(ExportRuns(t))

-----------------------------------------------------------------------------
SystemTypeOK ==
  /\ sysStatus \in {"none", "created", "running", "paused", "error", "stopped"}
  /\ sysCall \in {"none", "starting", "stopping", "joined", "building", "entering", "waiting",
                  "closed"}
  /\ sysStop \in BOOLEAN /\ sysPause \in BOOLEAN
  /\ sysStarts \in 0..NSystemStarts /\ sysSource \in 0..sysStarts
  /\ sysCaptures \subseteq 1..sysStarts /\ sysLoops \subseteq 1..sysStarts
  /\ sysWorkers \subseteq 1..sysStarts /\ sysLeft \subseteq 1..sysStarts
  /\ tape \in {"off", "on", "broken"} /\ audioDir \in BOOLEAN
  /\ segs \in 0..NSegments /\ disk \in 0..2 * NSegments
  /\ noted \in 0..NSegments /\ lastNoted \in 0..segs /\ notesDirty \in BOOLEAN
  /\ noting \in [Noters -> -1..NSegments]
  /\ exportOf \in [SystemExports -> {"none", "submitted", "early", "left", "listed", "done",
                                     "returned"}]
  /\ sysOutlived \subseteq 1..sysStarts

\* The notes of a stopped session cover every segment, although while it ran an index read
\* late may have skipped some: unless a thread outlived the stop or was left by a start, which
\* may go on to hear segments and to write notes.
NotesAreComplete ==
  SysIdle /\ sysStatus = "stopped" /\ sysOutlived = {} /\ sysLeft = {} => noted = segs

\* After stop_session() the recorder is off, and a capture or a loop that still lives was left
\* by an earlier start or outlived the wait: it has been told to stop, and will see that.
StopReleases ==
  SysIdle /\ sysStatus = "stopped" =>
    /\ tape = "off"
    /\ sysCaptures \cup sysLoops \subseteq sysLeft \cup sysOutlived
    /\ \A g \in sysCaptures \ sysLeft : ToldToStop(g)
    /\ sysLoops # {} => sysStop

\* What a stop has left of the capture and of the loop ends, or another session begins.
ReleasesInTheEnd ==
  sysStatus = "stopped" ~>
    sysCaptures \cup sysLoops \subseteq sysLeft \/ sysStatus # "stopped"

\* stop_session() returns, from whichever state it is called in, and what it gave up waiting
\* for ends after it.
SystemStopReturns ==
  /\ []<>(sysCall \notin {"stopping", "joined", "building"})
  /\ ReleasesInTheEnd

\* "Shutdown the handler and cleanup resources." (core/system_session.py:1960)
\* The code does not keep this: README, section 6.
ShutdownReleases == sysCall = "closed" => sysCaptures \cup sysLoops = {}

\* "Session resume capability" (core/system_session.py:14): the session that is resumed has
\* the segments of the transcript on disk.
\* The code does not keep this: README, section 6.
ResumeKeepsSegments == [][SysStart(TRUE) => segs' = disk]_systemVars

\* "Wait for export to complete" (core/system_session.py:1404): the wait ends.
\* The code does not keep this: README, section 6.
ExportWaitEnds == sysCall = "waiting" ~> sysCall = "none"

\* A stopped session has told its threads to end, and its notes cover all that was said.
SystemInv == SystemTypeOK /\ NotesAreComplete /\ StopReleases
=============================================================================
