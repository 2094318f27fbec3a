-------------------------------- MODULE Vad --------------------------------
(***************************************************************************)
(* Voice activity detection, audio/vad/vad_optimized.py: OptimizedVAD      *)
(* turns frames into segments of speech by how loud they are and by the    *)
(* wall clock, SpeechSegmenter merges and filters the segments that its    *)
(* caller hands it in their order.  Samples are counted from 1, sample 0   *)
(* is the silence with which merging fills a gap.  Whether a frame is      *)
(* loud, and a segment confident enough, are free choices.                 *)
(***************************************************************************)
EXTENDS Naturals, FiniteSets, Sequences, SequencesExt

CONSTANTS NVadFrames,   \* bound: frames until the detector is reset
          FrameSizes,   \* lengths of frames, in samples
          FramePauses,  \* wall clock between two frames
          VadHysteresis, VadSilence, \* hysteresis_ms and min_silence_ms of each mode
          VadPeakHold,  \* peak_hold_ms of each mode, in samples
          HoldStep,     \* _frame_size_samples
          PreBuffer,    \* maxlen of pre_buffer, in frames
          MinSpeech,    \* min_speech_ms, in samples
          MinSpan, MaxSpan, MergeGap  \* min_duration_ms, max_duration_ms, merge_gap_ms

VadModes == {"hotkey", "system"}

\* Of the two configurations neither waits longer to turn than for the end of speech.
ASSUME VadAssumption ==
  /\ NVadFrames \in Nat /\ HoldStep \in Nat \ {0} /\ PreBuffer \in Nat \ {0}
  /\ FrameSizes \subseteq Nat \ {0} /\ FramePauses \subseteq Nat
  /\ VadHysteresis \in [VadModes -> Nat] /\ VadSilence \in [VadModes -> Nat]
  /\ VadPeakHold \in [VadModes -> Nat]
  /\ \A m \in VadModes : VadHysteresis[m] <= VadSilence[m]
  /\ MinSpeech \in Nat /\ MinSpan \in Nat /\ MaxSpan \in Nat /\ MergeGap \in Nat

VARIABLES
  vadMode, speaking, \* mode; state is SPEECH
  sinceTurn,    \* wall clock since last_transition_time
  heard,        \* metrics.total_samples
  spokenFrom,   \* speech_start_sample
  spoken,       \* pre_buffer: the frames, each a sequence of samples
  peakHold,     \* peak_hold_counter
  emitted,      \* history: segments returned since the last reset
  merging,      \* pending_segments
  finished,     \* history: what the segmenter has returned since the last reset
  handed,       \* history: how many segments were handed to the segmenter
  refused,      \* history: segments the segmenter filtered out
  framesLeft,   \* frames to come, for the bound
  carriedOver   \* history: a stream ended in speech and the detector was not reset

detectorVars == <<vadMode, speaking, sinceTurn, heard, spokenFrom, spoken, peakHold,
                  emitted, framesLeft, carriedOver>>
segmenterVars == <<merging, finished, handed, refused>>
vadVars == <<detectorVars, segmenterVars>>

\* The wall clock is counted as far as a wait can last; last_transition_time is 0 at first,
\* long ago.
LongAgo == VadSilence["hotkey"] + VadSilence["system"]
Later(t) == IF sinceTurn + t > LongAgo THEN LongAgo ELSE sinceTurn + t

Fresh ==
  /\ speaking = FALSE /\ sinceTurn = LongAgo /\ heard = 0 /\ spokenFrom = 0 /\ spoken = <<>>
  /\ peakHold = 0 /\ framesLeft = NVadFrames
  /\ emitted = <<>> /\ carriedOver = FALSE

VadInit ==
  /\ vadMode \in VadModes /\ Fresh
  /\ merging = <<>> /\ finished = <<>> /\ handed = 0 /\ refused = 0

-----------------------------------------------------------------------------
(* The detector                                                            *)

\* _detect_speech(): a peak is held for some frames, whatever their length.  Whether the frame
\* is louder than the threshold, which NoiseProfiler moves with the noise, is a free choice.
Detects(loud) == loud \/ peakHold > 0
HoldsPeak(loud) ==
  peakHold' = IF loud THEN VadPeakHold[vadMode]
              ELSE IF peakHold > HoldStep THEN peakHold - HoldStep ELSE 0

\* _transition_to(): whether the state changes, the wait for the hysteresis over.
MayTurn(t) == Later(t) >= VadHysteresis[vadMode]

\* _create_segment(): the frames in the buffer, with the bounds of the speech.
Segment(to, frames, sure) ==
  [from |-> spokenFrom, to |-> to, audio |-> FlattenSeq(frames), sure |-> sure, parts |-> 1]

\* Variant of BufferedFrames: what comes when it is full is left out.
BufferedFirstFrames(frames, frame) ==
  IF Len(frames) < PreBuffer THEN Append(frames, frame) ELSE frames

\* Append to a deque with a maximal length.
BufferedFrames(frames, frame) ==
  LET all == Append(frames, frame)
  IN  IF Len(all) > PreBuffer THEN Tail(all) ELSE all

\* Silence: a loud frame turns to speech, and is its first, unless it comes too soon.
InSilence(frame, speech, t) ==
  /\ ~speaking /\ UNCHANGED emitted
  /\ IF speech /\ MayTurn(t)
     THEN /\ speaking' = TRUE /\ sinceTurn' = 0 /\ spokenFrom' = heard
          /\ spoken' = BufferedFrames(spoken, frame)
     ELSE /\ sinceTurn' = Later(t) /\ UNCHANGED <<speaking, spokenFrom, spoken>>

\* Speech: it ends, its last frame outside, when no frame was loud for long enough.
InSpeech(frame, speech, t) ==
  /\ speaking /\ UNCHANGED spokenFrom
  /\ IF ~speech /\ Later(t) >= VadSilence[vadMode]
     THEN /\ \E sure \in BOOLEAN :
               emitted' = Append(emitted, Segment(heard + Len(frame), spoken, sure))
          /\ speaking' = FALSE /\ sinceTurn' = 0 /\ spoken' = <<>>
     ELSE /\ sinceTurn' = IF speech THEN 0 ELSE Later(t)
          /\ spoken' = BufferedFrames(spoken, frame) /\ UNCHANGED <<speaking, emitted>>

\* process_frame().
ProcessFrame ==
  /\ framesLeft > 0 /\ framesLeft' = framesLeft - 1
  /\ \E n \in FrameSizes, loud \in BOOLEAN, t \in FramePauses :
       LET frame == [i \in 1 .. n |-> heard + i]
       IN  /\ HoldsPeak(loud)
           /\ InSilence(frame, Detects(loud), t) \/ InSpeech(frame, Detects(loud), t)
           /\ heard' = heard + n
  /\ UNCHANGED <<vadMode, carriedOver, segmenterVars>>

\* The end of process_stream(): what is left of the speech is a segment, if it is long
\* enough; the state stays.  (Streams without a frame are left out.)
StreamEnds ==
  /\ speaking /\ spoken # <<>> /\ spoken' = <<>> /\ carriedOver' = TRUE
  /\ \E sure \in BOOLEAN :
       emitted' = IF heard - spokenFrom >= MinSpeech
                  THEN Append(emitted, Segment(heard, spoken, sure)) ELSE emitted
  /\ UNCHANGED <<vadMode, speaking, sinceTurn, heard, spokenFrom, peakHold,
                 framesLeft, segmenterVars>>

\* set_mode(): the buffer keeps the length it was made with.
SetMode ==
  /\ vadMode' \in VadModes \ {vadMode}
  /\ UNCHANGED <<speaking, sinceTurn, heard, spokenFrom, spoken, peakHold, emitted,
                 framesLeft, carriedOver, segmenterVars>>

-----------------------------------------------------------------------------
(* The segmenter                                                           *)

\* _is_valid_segment().
Valid(s) == s.to - s.from >= MinSpan /\ s.to - s.from <= MaxSpan /\ s.sure

\* _merge_segments(): silence fills the gap, if there is one; the confidence is the mean.
Merge(s, t, sure) ==
  [from |-> s.from, to |-> t.to, sure |-> sure, parts |-> s.parts + t.parts,
   audio |-> s.audio \o (IF t.from > s.to THEN [i \in 1 .. t.from - s.to |-> 0] ELSE <<>>)
                     \o t.audio]

Keeps(segments) ==
  /\ finished' = finished \o SelectSeq(segments, Valid)
  /\ refused' = FoldSeq(LAMBDA s, n : IF Valid(s) THEN n ELSE n + s.parts, refused, segments)
  /\ merging' = <<>>

\* add_segment(): the first waits, and with the second both are merged or judged: never do
\* more than two of them wait.  They come by their beginnings, so sorting changes nothing.
AddSegment ==
  /\ handed < Len(emitted) /\ handed' = handed + 1
  /\ LET new == emitted[handed + 1]
     IN  IF merging = <<>> THEN merging' = <<new>> /\ UNCHANGED <<finished, refused>>
         ELSE LET old == merging[1]
              IN  IF new.from <= old.to + MergeGap
                  THEN \E sure \in {old.sure, new.sure} : Keeps(<<Merge(old, new, sure)>>)
                  ELSE Keeps(<<old, new>>)
  /\ UNCHANGED detectorVars

\* finalize(): what waits is judged.
Finalize == merging # <<>> /\ Keeps(merging) /\ UNCHANGED <<handed, detectorVars>>

-----------------------------------------------------------------------------
\* reset() of both: another stream.  The mode stays.
VadResets ==
  /\ framesLeft < NVadFrames
  /\ speaking' = FALSE /\ sinceTurn' = LongAgo /\ heard' = 0 /\ spokenFrom' = 0
  /\ spoken' = <<>> /\ peakHold' = 0 /\ framesLeft' = NVadFrames
  /\ emitted' = <<>> /\ carriedOver' = FALSE
  /\ merging' = <<>> /\ finished' = <<>> /\ handed' = 0 /\ refused' = 0
  /\ UNCHANGED vadMode

VadNext ==
  \/ ProcessFrame \/ StreamEnds \/ SetMode
  \/ AddSegment \/ Finalize \/ VadResets

VadSpec == VadInit /\ [][VadNext]_vadVars

-----------------------------------------------------------------------------
(* Properties                                                              *)

VadSegments == [from : Nat, to : Nat, sure : BOOLEAN, parts : Nat, audio : Seq(Nat)]

VadTypeOK ==
  /\ vadMode \in VadModes /\ speaking \in BOOLEAN /\ sinceTurn \in 0 .. LongAgo
  /\ spokenFrom \in 0 .. heard /\ Len(spoken) <= PreBuffer
  /\ peakHold \in Nat /\ framesLeft \in 0 .. NVadFrames
  /\ \A s \in ToSet(emitted) \cup ToSet(merging) \cup ToSet(finished) : s \in VadSegments
  /\ Len(merging) <= 1 /\ handed <= Len(emitted) /\ refused <= handed

Rises(samples) == \A i \in 1 .. Len(samples) - 1 : samples[i] < samples[i + 1]
AudioOf(segments) == FlattenSeq([i \in 1 .. Len(segments) |-> segments[i].audio])

\* No sample is in two segments, or out of its place, although a detector that a stream left
\* in speech goes on from an old beginning; and what is still in the buffer comes after.
HeardOnce ==
  /\ Rises(AudioOf(emitted) \o FlattenSeq(spoken))
  /\ \A s \in ToSet(emitted) : \A i \in DOMAIN s.audio : s.from < s.audio[i] /\ s.audio[i] <= s.to

VadLongest == CHOOSE n \in FrameSizes : \A m \in FrameSizes : m <= n
VadShortest == CHOOSE n \in FrameSizes : \A m \in FrameSizes : n <= m

\* So short, with the frame that ended it, that no frame of it was dropped.
FitsBuffer(s) == s.to - s.from <= (PreBuffer + 1) * VadShortest

\* A segment holds everything from its beginning up to the frame that ended it, as far as the
\* buffer goes, and none begins before the last one's end: unless the detector was carried
\* over from a stream that ended in speech.
SegmentsAreWhole ==
  ~carriedOver =>
    /\ \A i, j \in DOMAIN emitted : i < j => emitted[i].to <= emitted[j].from
    /\ \A s \in ToSet(emitted) :
         /\ Len(s.audio) > 0
         /\ \A i \in DOMAIN s.audio : s.audio[i] = s.audio[1] + i - 1
         /\ s.to - s.audio[Len(s.audio)] \in FrameSizes
         /\ FitsBuffer(s) => s.audio[1] = s.from + 1

\* Every segment that was handed over is still waiting, in one that was returned, or was
\* refused.
EachIsJudgedOnce ==
  handed = refused + Len(merging)
             + FoldSeq(LAMBDA s, n : n + s.parts, 0, finished)

\* How many of the parts of a segment ended before a sample.
PartsBefore(s, n) == Cardinality({i \in DOMAIN emitted : emitted[i].from >= s.from
                                                       /\ emitted[i].to < n})

\* Merged audio has its samples in order and is never longer than its span.  A gap is filled
\* as it was, so a sample is early by the frames that ended the parts before it, and no more.
MergedInPlace ==
  \A s \in ToSet(finished) :
    /\ Rises(SelectSeq(s.audio, LAMBDA n : n > 0))
    /\ Len(s.audio) <= s.to - s.from
    /\ ~carriedOver /\ (\A e \in ToSet(emitted) : FitsBuffer(e)) =>
         \A i \in DOMAIN s.audio :
           LET n == s.audio[i]
           IN  n > 0 => /\ n >= s.from + i + PartsBefore(s, n) * VadShortest
                        /\ n <= s.from + i + PartsBefore(s, n) * VadLongest

VadInv == VadTypeOK /\ HeardOnce /\ SegmentsAreWhole /\ EachIsJudgedOnce /\ MergedInPlace
=============================================================================
