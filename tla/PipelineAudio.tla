---------------------------- MODULE PipelineAudio ----------------------------
(***************************************************************************)
(* What the capture loops of WisprPipeline and SystemPipeline              *)
(* (audio/pipelines/) make of the frames they read: the former detects     *)
(* speech and emits it early, with the frames before its start; the latter *)
(* cuts a recording in segments at its silences.  The type of a pipeline   *)
(* is chosen when it is created.  Frames are numbered as they are read and *)
(* are loud or quiet; counters of samples are in half frames.              *)
(***************************************************************************)
EXTENDS Integers, Sequences

CONSTANTS NFrames,        \* bound on the frames read
          Hysteresis,     \* loud frames before speech starts
          MinSilence,     \* quiet frames before speech ends
          PreFrames,      \* pre_buffer_frames (4)
          EarlyFrames,    \* early_emission_frames (2)
          Boundary,       \* quiet frames that make the end of a segment
          MinSegment, MaxSegment,
          RingSize,       \* buffer_count (8)
          OutputSize      \* size of the output queue

ASSUME PipelineAudioAssumption ==
  /\ {NFrames, Hysteresis, MinSilence, PreFrames, EarlyFrames} \subseteq Nat
  /\ {Boundary, MinSegment, MaxSegment, RingSize, OutputSize} \subseteq Nat \ {0}

VARIABLES
  pipeKind,        \* "wispr" or "system"
  frames,          \* how many frames have been read
  speaking, rising, falling,      \* StreamingVAD: _is_speech and its two counters
  preBuffer, pending, speechRun,  \* _pre_buffer, _pending_audio, _speech_frame_count
  quietRun,        \* SilenceDetector: _silence_counter
  segment,         \* _current_segment
  ringCount,       \* buffers in the RingBuffer
  putting,         \* the segment that waits for a place in the output queue
  output,          \* the output queue
  heard, lost, overruns,  \* history: frames called speech, frames dropped, overruns
  given,           \* history: what read() has given
  loopEnd          \* how the capture loop ended

wisprVars == <<speaking, rising, falling, preBuffer, pending, speechRun>>
systemVars == <<quietRun, segment, ringCount, putting>>
audioVars == <<pipeKind, frames, wisprVars, systemVars, output, heard, lost, overruns, given,
               loopEnd>>

FramesOf(s) == {s[i] : i \in DOMAIN s}

PipelineAudioInit ==
  /\ pipeKind \in {"wispr", "system"} /\ frames = 0
  /\ speaking = FALSE /\ rising = 0 /\ falling = 0
  /\ preBuffer = <<>> /\ pending = <<>> /\ speechRun = 0
  /\ quietRun = 0 /\ segment = <<>> /\ ringCount = 0 /\ putting = <<>>
  /\ output = <<>> /\ heard = {} /\ lost = {} /\ overruns = 0 /\ given = <<>>
  /\ loopEnd = "none"

Less(n) == IF n > 0 THEN n - 1 ELSE 0

-----------------------------------------------------------------------------
\* _emit_audio() does not wait: a full queue drops the frames.
Emits(audio) ==
  IF Len(output) < OutputSize THEN output' = Append(output, audio) /\ UNCHANGED lost
  ELSE lost' = lost \cup FramesOf(audio) /\ UNCHANGED output

\* StreamingVAD.process(): counters with hysteresis, halved in the other direction.
Detects(loud) ==
  CASE ~speaking /\ loud ->
         IF rising + 2 >= 2 * Hysteresis
         THEN speaking' = TRUE /\ rising' = 0 /\ falling' = 0
         ELSE speaking' = FALSE /\ rising' = rising + 2 /\ UNCHANGED falling
    [] ~speaking /\ ~loud ->
         speaking' = FALSE /\ rising' = Less(rising) /\ UNCHANGED falling
    [] speaking /\ ~loud ->
         IF falling + 2 >= 2 * MinSilence
         THEN speaking' = FALSE /\ rising' = 0 /\ falling' = 0
         ELSE speaking' = TRUE /\ falling' = falling + 2 /\ UNCHANGED rising
    [] speaking /\ loud ->
         speaking' = TRUE /\ falling' = Less(falling) /\ UNCHANGED rising

Starting == speaking' /\ ~speaking

\* The last PreFrames frames, the one just read included.
Recent(f) ==
  LET s == Append(preBuffer, f)
  IN IF Len(s) > PreFrames THEN Tail(s) ELSE s

\* Variant of Collected: what was pending is replaced.
CollectedAnew(f) == IF Starting THEN Recent(f) \o <<f>> ELSE <<f>>

\* At the start of speech the buffered frames come first, and then the frame itself.
Collected(f) ==
  IF Starting THEN pending \o Recent(f) \o <<f>> ELSE Append(pending, f)

\* Variant of Flushes: speech that ended too soon to be emitted stays.
FlushesNothing == UNCHANGED <<pending, output, lost>>

\* A frame that is not speech sends off what is pending.
Flushes ==
  IF pending # <<>> THEN Emits(pending) /\ pending' = <<>>
  ELSE UNCHANGED <<pending, output, lost>>

\* One frame in WisprPipeline's loop; `late` says that the last emission is half a second ago.
WisprFrame(loud, late) ==
  /\ pipeKind = "wispr" /\ loopEnd = "none" /\ frames < NFrames /\ frames' = frames + 1
  /\ Detects(loud)
  /\ IF speaking'
     THEN /\ speechRun' = speechRun + 1
          /\ preBuffer' = (IF Starting THEN <<>> ELSE Recent(frames'))
          /\ heard' = heard \cup {frames'}
          /\ IF speechRun' >= EarlyFrames \/ late
             THEN Emits(Collected(frames')) /\ pending' = <<>>
             ELSE pending' = Collected(frames') /\ UNCHANGED <<output, lost>>
     ELSE /\ speechRun' = 0 /\ preBuffer' = Recent(frames') /\ Flushes
          /\ UNCHANGED heard
  /\ UNCHANGED <<pipeKind, systemVars, overruns, given, loopEnd>>

-----------------------------------------------------------------------------
\* Variant of RingWrite: a full ring is written all the same.
RingWriteOver == ringCount' = ringCount + 1 /\ UNCHANGED overruns

\* RingBuffer.write(): nobody reads the ring, which fills up and then counts overruns.
RingWrite ==
  IF ringCount < RingSize THEN ringCount' = ringCount + 1 /\ UNCHANGED overruns
  ELSE overruns' = overruns + 1 /\ UNCHANGED ringCount

\* SilenceDetector.is_silence_boundary(), and the length of the segment.
AtBoundary(quiet, n) == quiet >= Boundary /\ n >= MinSegment

\* Variant of Cuts: the longest segment is not limited.
CutsAtSilence(quiet, n) == AtBoundary(quiet, n)

Cuts(quiet, n) == AtBoundary(quiet, n) \/ n >= MaxSegment

\* Variant of Cut: the segment that was cut stays the current one.
CutKeeps(s) == putting' = s /\ segment' = s

\* _emit_segment() takes the segment and waits for a place in the queue.
Cut(s) == putting' = s /\ segment' = <<>>

\* One buffer in SystemPipeline's loop.
SystemFrame(loud) ==
  /\ pipeKind = "system" /\ loopEnd = "none" /\ putting = <<>>
  /\ frames < NFrames /\ frames' = frames + 1
  /\ RingWrite
  /\ LET quiet == IF loud THEN 0 ELSE quietRun + 1
         s == Append(segment, frames')
     IN IF Cuts(quiet, Len(s))
        THEN quietRun' = 0 /\ Cut(s)
        ELSE quietRun' = quiet /\ segment' = s /\ UNCHANGED putting
  /\ UNCHANGED <<pipeKind, wisprVars, output, heard, lost, given, loopEnd>>

\* There is a place, or half a second has passed without one.
SegmentPut ==
  /\ putting # <<>> /\ Len(output) < OutputSize /\ loopEnd = "none"
  /\ output' = Append(output, putting) /\ putting' = <<>>
  /\ UNCHANGED <<pipeKind, frames, wisprVars, quietRun, segment, ringCount, heard, lost,
                 overruns, given, loopEnd>>

SegmentDropped ==
  /\ putting # <<>> /\ Len(output) >= OutputSize /\ loopEnd = "none"
  /\ lost' = lost \cup FramesOf(putting) /\ putting' = <<>> /\ overruns' = overruns + 1
  /\ UNCHANGED <<pipeKind, frames, wisprVars, quietRun, segment, ringCount, output, heard,
                 given, loopEnd>>

-----------------------------------------------------------------------------
\* read() of the pipeline.
PipeRead ==
  /\ output # <<>> /\ given' = given \o Head(output) /\ output' = Tail(output)
  /\ UNCHANGED <<pipeKind, frames, wisprVars, systemVars, heard, lost, overruns, loopEnd>>

\* stop() sets the event and cancels the task in one go: the loop never gets past the await
\* it is at, where its last lines would emit the final segment.
LoopCancelled ==
  /\ loopEnd = "none" /\ loopEnd' = "cancelled"
  /\ UNCHANGED <<pipeKind, frames, wisprVars, systemVars, output, heard, lost, overruns, given>>

\* A reconnection, or a new start, begins afresh; the output queue is kept.
LoopStartsAfresh ==
  /\ frames < NFrames /\ (loopEnd = "cancelled" \/ putting = <<>>) /\ loopEnd' = "none"
  /\ lost' = lost \cup FramesOf(pending) \cup FramesOf(segment) \cup FramesOf(putting)
  /\ IF pipeKind = "wispr"
     THEN /\ speaking' = FALSE /\ rising' = 0 /\ falling' = 0
          /\ preBuffer' = <<>> /\ pending' = <<>> /\ speechRun' = 0
          /\ UNCHANGED systemVars
     ELSE /\ quietRun' = 0 /\ segment' = <<>> /\ ringCount' = 0 /\ putting' = <<>>
          /\ UNCHANGED wisprVars
  /\ UNCHANGED <<pipeKind, frames, output, heard, overruns, given>>

PipelineAudioNext ==
  \/ \E loud \in BOOLEAN : SystemFrame(loud) \/ \E late \in BOOLEAN : WisprFrame(loud, late)
  \/ SegmentPut \/ SegmentDropped \/ PipeRead \/ LoopCancelled \/ LoopStartsAfresh

PipelineAudioSpec == PipelineAudioInit /\ [][PipelineAudioNext]_audioVars

-----------------------------------------------------------------------------
\* All that came out, in the order it did, and what is still inside.
Flattened == LET Flat[i \in 0 .. Len(output)] ==
                   IF i = 0 THEN given ELSE Flat[i - 1] \o output[i]
             IN Flat[Len(output)]

\* Types and limits: a segment does not reach MaxSegment, nor a ring its size and more.
PipelineAudioTypeOK ==
  /\ frames \in 0 .. NFrames /\ speaking \in BOOLEAN
  /\ rising \in 0 .. 2 * Hysteresis /\ falling \in 0 .. 2 * MinSilence
  /\ Len(preBuffer) <= PreFrames /\ Len(segment) < MaxSegment
  /\ ringCount \in 0 .. RingSize /\ Len(output) <= OutputSize
  /\ loopEnd \in {"none", "cancelled"}

\* No frame of speech is forgotten: it is pending, in the queue, given, or was dropped and
\* counted as lost.
SpeechIsKept ==
  pipeKind = "wispr" => heard \subseteq FramesOf(pending) \cup FramesOf(Flattened) \cup lost

\* When speech has ended, nothing of it is held back for the next one.
SpeechIsFlushed == pipeKind = "wispr" /\ ~speaking => pending = <<>>

\* Every buffer of a recording is in one segment, in order, unless its segment was lost.
SegmentsPartition ==
  pipeKind = "system" =>
    LET all == Flattened \o putting \o segment
    IN /\ \A i, j \in DOMAIN all : i < j => all[i] < all[j]
       /\ FramesOf(all) \cup lost = 1 .. frames

\* The comment in SystemPipeline's loop: "# Emit final segment on stop".
\* The code does not keep this: README, section 6.
FinalSegmentIsEmitted == loopEnd = "cancelled" => segment = <<>> /\ putting = <<>>

\* The pre-buffer is for the audio "before speech is detected": no frame comes out twice.
\* The code does not keep this: README, section 6.
FramesComeOutOnce ==
  \A i, j \in DOMAIN Flattened : i < j => Flattened[i] < Flattened[j]

\* Speech is neither forgotten nor held back, and a recording is cut without gaps.
PipelineAudioInv == PipelineAudioTypeOK /\ SpeechIsKept /\ SpeechIsFlushed /\ SegmentsPartition
=============================================================================
