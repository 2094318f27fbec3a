------------------------ MODULE DesktopHotkeySession ------------------------
(***************************************************************************)
(* One dictation of the desktop hotkey session (core/hotkey_session.py): a *)
(* recording thread fills a buffer in memory, stop() joins it and hands    *)
(* the buffer to a processing thread, force_cleanup() puts the session     *)
(* back to idle.  Callers of the three run side by side, as the class      *)
(* allows: its lock is held for a test or an assignment only.              *)
(***************************************************************************)
EXTENDS Integers, FiniteSets, Sequences

CONSTANTS DeskCallers,     \* threads that call the session
          NDeskCalls,      \* bound on their calls
          NRecordings,     \* bound on the recordings started
          DeskBuffer,      \* blocks the buffer holds (max_duration_seconds)
          TooShort,        \* recordings of fewer blocks are not transcribed (0.3 s)
          DeskLate         \* bound on the joins that time out

ASSUME DeskAssumption ==
  /\ NDeskCalls \in Nat /\ NRecordings \in Nat /\ DeskLate \in Nat
  /\ DeskBuffer \in Nat \ {0} /\ TooShort \in Nat

VARIABLES
  deskState,      \* _state
  stopSet,        \* _stop_event
  call,           \* where each caller is
  recorder,       \* where the thread of each recording is
  latest,         \* _recording_thread: the recording it belongs to, 0 for None
  audio,          \* _audio_buffer: the recording each block comes from
  processor,      \* the processing threads: where each is, what it was started for
                  \* and the audio it took
  givenOut,       \* texts injected or copied, in order: the processing threads
  deskCalls, lateJoins,
  heard,          \* history: the blocks each recording thread pushed
  tangled         \* history: a join timed out, two calls overlapped, or a recording
                  \* was started while an older one was still recorded or processed

deskVars == <<deskState, stopSet, call, recorder, latest, audio, processor, givenOut,
              deskCalls, lateJoins, heard, tangled>>

Recordings == 1..NRecordings
DeskStates == {"IDLE", "RECORDING", "PROCESSING", "COMPLETE", "ERROR"}
Records(r) == recorder[r] \notin {"none", "ended"}
AtWork(p) == processor[p].at # "ended"
StartedSoFar == Cardinality({r \in Recordings : recorder[r] # "none"})

-----------------------------------------------------------------------------
\* A call begins: start() and stop() test the state and change nothing when they refuse,
\* force_cleanup() does not test it.
DeskCall(c, does, at) ==
  /\ call[c] = "idle" /\ does
  /\ deskCalls < NDeskCalls /\ deskCalls' = deskCalls + 1
  /\ tangled' = (tangled \/ \E d \in DeskCallers : call[d] # "idle")
  /\ call' = [call EXCEPT ![c] = at]
  /\ UNCHANGED <<deskState, recorder, latest, audio, processor, givenOut, lateJoins, heard>>

AsksStart(c) ==
  /\ StartedSoFar < NRecordings
  /\ DeskCall(c, deskState = "IDLE", "start") /\ UNCHANGED stopSet

\* Variant of AsksStop: a stop is taken in any state.
AsksStopAnyway(c) == /\ DeskCall(c, TRUE, "stop") /\ UNCHANGED stopSet

AsksStop(c) == /\ DeskCall(c, deskState = "RECORDING", "stop") /\ UNCHANGED stopSet

AsksForce(c) == /\ DeskCall(c, TRUE, "force join") /\ stopSet' = TRUE

\* The rest of start(), which holds no lock.
DeskStarts(c) ==
  /\ call[c] = "start" /\ StartedSoFar < NRecordings
  /\ LET r == StartedSoFar + 1 IN
     /\ recorder' = [recorder EXCEPT ![r] = "opens"]
     /\ latest' = r
  /\ tangled' = (tangled \/ (\E r \in Recordings : Records(r))
                         \/ (\E p \in DOMAIN processor : AtWork(p)))
  /\ audio' = <<>> /\ stopSet' = FALSE /\ deskState' = "RECORDING"
  /\ call' = [call EXCEPT ![c] = "idle"]
  /\ UNCHANGED <<processor, givenOut, deskCalls, lateJoins, heard>>

\* join(timeout=1.0) on the recording thread: it ends, or the wait does.
Joins(c, from, to) ==
  /\ call[c] = from /\ call' = [call EXCEPT ![c] = to]
  /\ IF latest # 0 /\ Records(latest)
     THEN lateJoins < DeskLate /\ lateJoins' = lateJoins + 1 /\ tangled' = TRUE
     ELSE UNCHANGED <<lateJoins, tangled>>
  /\ UNCHANGED <<deskState, stopSet, recorder, latest, audio, processor, givenOut, deskCalls,
                 heard>>

SetsStop(c) ==
  /\ call[c] = "stop"
  /\ stopSet' = TRUE /\ call' = [call EXCEPT ![c] = "stop join"]
  /\ UNCHANGED <<deskState, recorder, latest, audio, processor, givenOut, deskCalls, lateJoins,
                 heard, tangled>>

\* Variant of StopJoins: stop() does not wait for the recording thread.
StopJoinsNobody(c) ==
  /\ call[c] = "stop join" /\ call' = [call EXCEPT ![c] = "process"]
  /\ UNCHANGED <<deskState, stopSet, recorder, latest, audio, processor, givenOut, deskCalls,
                 lateJoins, heard, tangled>>

StopJoins(c) == Joins(c, "stop join", "process")
ForceJoins(c) == Joins(c, "force join", "force clear")

\* The rest of stop(): whatever the state is by now, it becomes PROCESSING.
StopProcesses(c) ==
  /\ call[c] = "process"
  /\ deskState' = "PROCESSING"
  /\ processor' = Append(processor, [at |-> "take", of |-> latest, audio |-> <<>>])
  /\ call' = [call EXCEPT ![c] = "idle"]
  /\ UNCHANGED <<stopSet, recorder, latest, audio, givenOut, deskCalls, lateJoins, heard,
                 tangled>>

ForceClears(c) ==
  /\ call[c] = "force clear"
  /\ audio' = <<>> /\ call' = [call EXCEPT ![c] = "force idle"]
  /\ tangled' = (tangled \/ (\E p \in DOMAIN processor : AtWork(p)))
  /\ UNCHANGED <<deskState, stopSet, recorder, latest, processor, givenOut, deskCalls, lateJoins,
                 heard>>

ForceIdles(c) ==
  /\ call[c] = "force idle"
  /\ deskState' = "IDLE" /\ call' = [call EXCEPT ![c] = "idle"]
  /\ UNCHANGED <<stopSet, recorder, latest, audio, processor, givenOut, deskCalls, lateJoins,
                 heard, tangled>>

-----------------------------------------------------------------------------
\* _recording_loop(), the thread of recording r.
RecorderGoes(r, from, to) ==
  /\ recorder[r] = from /\ recorder' = [recorder EXCEPT ![r] = to]
  /\ UNCHANGED <<call, latest, processor, givenOut, deskCalls, lateJoins, tangled>>

RecorderOpens(r) ==
  RecorderGoes(r, "opens", "tests") /\ UNCHANGED <<deskState, stopSet, audio, heard>>

RecorderTests(r) ==
  /\ RecorderGoes(r, "tests", IF stopSet THEN "closes" ELSE "reads")
  /\ UNCHANGED <<deskState, stopSet, audio, heard>>

\* Variant of Keeps: a full buffer grows.
KeepsAll(blocks) == blocks

Keeps(blocks) ==
  IF Len(blocks) > DeskBuffer THEN Tail(blocks) ELSE blocks

\* A block is pushed, the oldest of a full buffer giving way; or no block came.
RecorderReads(r) ==
  \/ RecorderGoes(r, "reads", "tests") /\ UNCHANGED <<deskState, stopSet, audio, heard>>
  \/ /\ audio' = Keeps(Append(audio, r)) /\ heard' = [heard EXCEPT ![r] = @ + 1]
     /\ RecorderGoes(r, "reads", IF Len(audio') >= DeskBuffer THEN "full" ELSE "tests")
     /\ UNCHANGED <<deskState, stopSet>>

\* The buffer is full and the thread calls stop(): in RECORDING the stop event is set,
\* the thread tries to join itself, and the RuntimeError makes the session an ERROR.
RecorderFull(r) ==
  /\ RecorderGoes(r, "full", "closes")
  /\ IF deskState = "RECORDING"
     THEN /\ stopSet' = TRUE
          /\ deskState' = "ERROR"
     ELSE UNCHANGED <<stopSet, deskState>>
  /\ UNCHANGED <<audio, heard>>

\* The device does not open, or five reads in a row fail.
RecorderFails(r) ==
  /\ \E from \in {"opens", "reads"} : RecorderGoes(r, from, "closes")
  /\ deskState' = "ERROR" /\ UNCHANGED <<stopSet, audio, heard>>

\* Variant of RecorderEnds: the loop goes on after a failure.
RecorderGoesOn(r) ==
  /\ RecorderGoes(r, "closes", "tests") /\ UNCHANGED <<deskState, stopSet, audio, heard>>

RecorderEnds(r) ==
  /\ RecorderGoes(r, "closes", "ended") /\ UNCHANGED <<deskState, stopSet, audio, heard>>

RecorderStep(r) ==
  \/ RecorderOpens(r) \/ RecorderTests(r) \/ RecorderReads(r) \/ RecorderFull(r)
  \/ RecorderFails(r) \/ RecorderEnds(r)

-----------------------------------------------------------------------------
\* _process_transcription(), the processing thread p.
ProcessorGoes(p, from, to) ==
  /\ processor[p].at = from /\ processor' = [processor EXCEPT ![p].at = to]
  /\ UNCHANGED <<stopSet, call, recorder, latest, deskCalls, lateJoins, heard, tangled>>

ProcessorTakes(p) ==
  /\ processor[p].at = "take"
  /\ processor' = [processor EXCEPT ![p].audio = audio,
       ![p].at = IF Len(audio) < TooShort THEN "complete" ELSE "transcribe"]
  /\ UNCHANGED <<deskState, stopSet, call, recorder, latest, audio, givenOut, deskCalls,
                 lateJoins, heard, tangled>>

\* Text came, no speech was found, or the transcriber failed.
ProcessorTranscribes(p) ==
  \/ ProcessorGoes(p, "transcribe", "output") /\ UNCHANGED <<deskState, audio, givenOut>>
  \/ ProcessorGoes(p, "transcribe", "complete") /\ UNCHANGED <<deskState, audio, givenOut>>
  \/ /\ ProcessorGoes(p, "transcribe", "ended") /\ deskState' = "ERROR"
     /\ UNCHANGED <<audio, givenOut>>

ProcessorGives(p) ==
  /\ ProcessorGoes(p, "output", "complete")
  /\ givenOut' = Append(givenOut, p) /\ UNCHANGED <<deskState, audio>>

\* Variant of ProcessorCompletes: the session is not told that it is complete.
ProcessorForgets(p) ==
  /\ ProcessorGoes(p, "complete", "ended") /\ audio' = <<>> /\ UNCHANGED <<deskState, givenOut>>

ProcessorCompletes(p) ==
  /\ ProcessorGoes(p, "complete", "clean")
  /\ deskState' = "COMPLETE" /\ UNCHANGED <<audio, givenOut>>

ProcessorCleans(p) ==
  /\ ProcessorGoes(p, "clean", "ended") /\ audio' = <<>> /\ UNCHANGED <<deskState, givenOut>>

ProcessorStep(p) ==
  \/ ProcessorTakes(p) \/ ProcessorTranscribes(p) \/ ProcessorGives(p)
  \/ ProcessorCompletes(p) \/ ProcessorCleans(p)

-----------------------------------------------------------------------------
CallerStep(c) ==
  \/ DeskStarts(c) \/ SetsStop(c) \/ StopJoins(c) \/ StopProcesses(c)
  \/ ForceJoins(c) \/ ForceClears(c) \/ ForceIdles(c)

DeskInit ==
  /\ deskState = "IDLE" /\ stopSet = FALSE
  /\ call = [c \in DeskCallers |-> "idle"]
  /\ recorder = [r \in Recordings |-> "none"] /\ latest = 0
  /\ audio = <<>> /\ processor = <<>> /\ givenOut = <<>>
  /\ deskCalls = 0 /\ lateJoins = 0
  /\ heard = [r \in Recordings |-> 0] /\ tangled = FALSE

DeskNext ==
  \/ \E c \in DeskCallers : AsksStart(c) \/ AsksStop(c) \/ AsksForce(c) \/ CallerStep(c)
  \/ \E r \in Recordings : RecorderStep(r)
  \/ \E p \in DOMAIN processor : ProcessorStep(p)

DeskSpec == DeskInit /\ [][DeskNext]_deskVars

\* Threads run; a read that fails or a join that times out is never owed.
DeskFairSpec ==
  /\ DeskSpec
  /\ \A c \in DeskCallers : WF_deskVars(CallerStep(c))
  /\ \A r \in Recordings : WF_deskVars(RecorderStep(r))
  /\ \A p \in 1..NDeskCalls : WF_deskVars(p \in DOMAIN processor /\ ProcessorStep(p))

-----------------------------------------------------------------------------
\* Types, and the buffer within its capacity.
DeskTypeOK ==
  /\ deskState \in DeskStates /\ stopSet \in BOOLEAN /\ tangled \in BOOLEAN
  /\ call \in [DeskCallers -> {"idle", "start", "stop", "stop join", "process",
                               "force join", "force clear", "force idle"}]
  /\ recorder \in [Recordings -> {"none", "opens", "tests", "reads", "full", "closes",
                                  "ended"}]
  /\ latest \in 0..NRecordings /\ audio \in Seq(Recordings) /\ Len(audio) <= DeskBuffer
  /\ \A p \in DOMAIN processor :
       /\ processor[p].at \in {"take", "transcribe", "output", "complete", "clean", "ended"}
       /\ processor[p].of \in Recordings
  /\ givenOut \in Seq(1..NDeskCalls) /\ deskCalls \in 0..NDeskCalls
  /\ lateJoins \in 0..DeskLate /\ heard \in [Recordings -> Nat]

\* What a processing thread transcribes is what its own recording heard, from the first
\* block to the last that the buffer can hold: unless calls overlapped, a join timed out
\* or an older recording was still at work, stop() never hands over a buffer that misses
\* a block or holds another recording's.
TakesItsRecording ==
  tangled \/ \A p \in DOMAIN processor : processor[p].at \notin {"take"} =>
    LET r == processor[p].of IN
    processor[p].audio = [i \in 1..(IF heard[r] > DeskBuffer THEN DeskBuffer ELSE heard[r])
                            |-> r]

\* The text of one recording is typed at the cursor once.
GivenOnce ==
  tangled \/ \A i, j \in DOMAIN givenOut :
    processor[givenOut[i]].of = processor[givenOut[j]].of => i = j

\* A session that is processed becomes complete, an error, or idle by force_cleanup().
ProcessingEnds == []<>(deskState # "PROCESSING")

\* The microphone is let go of once the recording is over, after an error too, unless the
\* calls overlapped: a start that overtakes a force_cleanup() records for ever.
MicrophoneIsReleased ==
  \A r \in Recordings :
    []<>(~Records(r) \/ deskState = "RECORDING" \/ tangled)

\* "Audio buffer full, auto-stopping" (hotkey_session.py:707): a recording that filled
\* the buffer is stopped and processed, as by the user.
\* The code does not keep this: README, section 6.
FullBufferIsProcessed ==
  [][\A r \in Recordings : recorder[r] = "full" /\ recorder'[r] # "full"
       /\ deskState = "RECORDING" => deskState' = "PROCESSING"]_deskVars

\* A dictation is transcribed as it was heard and given out once.
DeskInv == DeskTypeOK /\ TakesItsRecording /\ GivenOnce
=============================================================================
