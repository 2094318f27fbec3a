-------------------------- MODULE StreamingEngine --------------------------
(***************************************************************************)
(* StreamingInferenceEngine of stt/streaming_engine.py: audio is pushed to *)
(* a buffer, process_stream() takes overlapping windows out of it, decodes *)
(* them and yields what it got, first as a partial result and, when that   *)
(* is stable and complete, as a final one; flush() decodes the rest.       *)
(* process_stream() is a generator: while it is suspended at a result its  *)
(* consumer pushes, flushes and resets.                                    *)
(* Samples are counted from 1 and stay in their order, so the buffer is    *)
(* the interval bufferFirst .. pushed.  What the decoder makes of a window *)
(* is a free choice of a text, a confidence and a latency.                 *)
(***************************************************************************)
EXTENDS Naturals, FiniteSets, Sequences, SequencesExt

CONSTANTS NPushed,      \* bound: samples pushed in all
          Pushes,       \* numbers of samples pushed at once
          NStreamResets, \* bound: calls of reset()
          BufferSize,   \* maxlen of _buffer
          Window, WindowOverlap, MinChunk, \* window_ms, overlap_ms, min_chunk_ms
          MinFlush,     \* the 500 ms below which flush() gives up
          Texts, Complete, \* texts; those that _is_complete_utterance() accepts
          Latencies, Target, \* inference times, target_latency_ms
          MinBeam, MaxBeam, LatencyHistory, \* of AdaptiveBeamController
          Stabilization, \* stabilization_window
          Trusted       \* doubtful finals until the context of a confidence is not used

Confidences == {"low", "medium", "high"}  \* below 0.6, up to 0.85, above
NoText == ""

\* p95 of _adapt_beam_size() is the maximum as long as the history is not longer than 20.
ASSUME StreamingAssumption ==
  /\ Pushes \subseteq Nat \ {0} /\ NPushed \in Nat /\ NStreamResets \in Nat
  /\ Window \in Nat \ {0} /\ WindowOverlap \in 0 .. Window - 1 /\ MinChunk \in 0 .. Window
  /\ BufferSize \in Nat /\ BufferSize >= Window /\ MinFlush \in Nat
  /\ Complete \subseteq Texts /\ Latencies \subseteq Nat /\ Target \in Nat
  /\ MinBeam \in Nat \ {0} /\ MaxBeam \in Nat /\ MinBeam <= MaxBeam
  /\ LatencyHistory \in 3 .. 20 /\ Stabilization \in Nat \ {0, 1}
  /\ Trusted \in [{"medium", "high"} -> Nat \ {0}] /\ Trusted["medium"] <= Trusted["high"]

VARIABLES
  pushed,       \* samples pushed
  bufferFirst,  \* number of the sample at the head of _buffer
  bufferStart,  \* _buffer_start_time, in samples
  generator,    \* where process_stream() is
  window,       \* the window it has taken, then what it made of it
  partials,     \* _partial_history: their texts
  latencies,    \* _latency_history
  beam,         \* _current_beam_size
  context, trust, \* _context; _reliability, as doubtful finals until it is below 0.3
  streams,      \* history: calls of reset()
  said,         \* history: results with a text since reset()
  decodedTo,    \* history: the last sample that was decoded
  unheard,      \* history: samples dropped before they were decoded
  untimed,      \* history: samples dropped without moving bufferStart
  finals,       \* history: final results
  carried       \* history: the stream whose result process_stream() was suspended at when
                \* reset() last came, if it was

bufferVars == <<pushed, bufferFirst, bufferStart, decodedTo, unheard, untimed>>
beamVars == <<latencies, beam>>
contextVars == <<context, trust>>
resultVars == <<partials, said>>
streamVars == <<bufferVars, beamVars, contextVars, resultVars, generator, window, streams,
                finals, carried>>

NoContext == [text |-> NoText, stream |-> 0]
NoWindow == [from |-> 0, to |-> 0, start |-> 0, prefix |-> NoContext, stream |-> 0]
Fully == Trusted["high"]

StreamingInit ==
  /\ pushed = 0 /\ bufferFirst = 1 /\ bufferStart = 0 /\ decodedTo = 0
  /\ unheard = 0 /\ untimed = 0
  /\ generator = "idle" /\ window = NoWindow /\ partials = <<>> /\ said = 0
  /\ latencies = <<>> /\ beam = MinBeam /\ context = NoContext /\ trust = Fully
  /\ streams = 0 /\ finals = <<>> /\ carried = {}

Buffered == pushed + 1 - bufferFirst

-----------------------------------------------------------------------------
(* Audio                                                                   *)

\* The samples before sample n leave the buffer without being decoded.
Drops(n) ==
  /\ bufferFirst' = n
  /\ untimed' = untimed + (n - bufferFirst)
  /\ unheard' = IF decodedTo + 1 < n
                THEN unheard + (n - IF decodedTo + 1 > bufferFirst THEN decodedTo + 1
                                                                   ELSE bufferFirst)
                ELSE unheard

\* push_audio(): the oldest samples leave a buffer that is full.
PushAudio ==
  /\ \E n \in Pushes :
       /\ pushed + n <= NPushed /\ pushed' = pushed + n
       /\ IF Buffered + n > BufferSize THEN Drops(pushed' + 1 - BufferSize)
          ELSE UNCHANGED <<bufferFirst, untimed, unheard>>
  /\ UNCHANGED <<bufferStart, decodedTo, beamVars, contextVars, resultVars, generator,
                 window, streams, finals, carried>>

\* get_prefix().
Prefix == IF trust > 0 THEN context ELSE NoContext

\* process_stream() takes a window, and leaves the overlap in the buffer.
TakeWindow ==
  /\ generator = "idle" /\ Buffered >= Window /\ generator' = "decode"
  /\ window' = [from |-> bufferFirst, to |-> bufferFirst + Window - 1, start |-> bufferStart,
                prefix |-> Prefix, stream |-> streams]
  /\ bufferFirst' = bufferFirst + Window - WindowOverlap
  /\ bufferStart' = bufferStart + Window - WindowOverlap
  /\ decodedTo' = IF window'.to > decodedTo THEN window'.to ELSE decodedTo
  /\ UNCHANGED <<pushed, unheard, untimed, beamVars, contextVars, resultVars, streams,
                 finals, carried>>

-----------------------------------------------------------------------------
(* Results                                                                 *)

Latest(seq, x, length) ==
  LET all == Append(seq, x) IN IF Len(all) > length THEN Tail(all) ELSE all
Total(seq) == FoldSeq(LAMBDA x, sum : x + sum, 0, seq)

\* report_latency(), _adapt_beam_size(): a step down when the slowest of the last results is
\* 1.2 times too slow, a step up when they take less than 0.6 of the target on average.
Adapts(latency) ==
  LET recent == Latest(latencies, latency, LatencyHistory)
      slow == \E i \in DOMAIN recent : 10 * recent[i] > 12 * Target
      fast == 10 * Total(recent) < 6 * Target * Len(recent)
  IN  /\ latencies' = recent
      /\ beam' = IF Len(recent) < 3 THEN beam
                 ELSE IF slow THEN (IF beam > MinBeam THEN beam - 1 ELSE beam)
                 ELSE IF fast /\ beam < MaxBeam THEN beam + 1 ELSE beam

\* _is_stable_result(), with the result already in the history.
Stable(recent, confidence) ==
  /\ Len(recent) >= 2
  /\ Cardinality(ToSet(recent)) = 1 \/ confidence = "high"

\* _is_complete_utterance(): how a text ends, and how long it is.
CompleteUtterance(text) == text \in Complete

\* The result of a window w.
ResultOf(w, text, confidence, final) ==
  [from |-> w.from, to |-> w.to, start |-> w.start, prefix |-> w.prefix, stream |-> w.stream,
   text |-> text, confidence |-> confidence, final |-> final, nth |-> said + 1]

\* The decoder made nothing of the window, or failed: the next window.
DecodesNothing ==
  /\ generator = "decode" /\ generator' = "idle" /\ window' = NoWindow
  /\ UNCHANGED <<bufferVars, beamVars, contextVars, resultVars, streams, finals, carried>>

\* _transcribe_window() and what follows it, up to the yield of the partial result: whether
\* a final one comes after it is settled with it.
Decodes ==
  /\ generator = "decode" /\ generator' = "partial"
  /\ \E text \in Texts, confidence \in Confidences, latency \in Latencies :
       /\ Adapts(latency)
       /\ partials' = Latest(partials, text, Stabilization)
       /\ said' = said + 1
       /\ window' = ResultOf(window, text, confidence,
                             CompleteUtterance(text) /\ Stable(partials', confidence))
  /\ UNCHANGED <<bufferVars, contextVars, streams, finals, carried>>

Final(w, how) == [text |-> w.text, from |-> w.from, to |-> w.to, start |-> w.start,
                  stream |-> w.stream, nth |-> w.nth, how |-> how]

\* The consumer takes the partial result: a final one is yielded, or the next window taken.
\* With yield_partial off nothing happens in between.
YieldsFinal ==
  /\ generator = "partial" /\ window.final /\ generator' = "final"
  /\ finals' = Append(finals, Final(window, "stream"))
  /\ UNCHANGED <<bufferVars, beamVars, contextVars, resultVars, window, streams, carried>>

YieldsNoFinal ==
  /\ generator = "partial" /\ ~window.final /\ generator' = "idle" /\ window' = NoWindow
  /\ UNCHANGED <<bufferVars, beamVars, contextVars, resultVars, streams, finals, carried>>

\* update_context(), when the consumer comes back for the next result: a doubtful final
\* leaves the context and trusts it less.
UpdateContext ==
  /\ generator = "final" /\ generator' = "idle" /\ window' = NoWindow
  /\ IF window.confidence = "low"
     THEN trust' = (IF trust > 0 THEN trust - 1 ELSE 0) /\ UNCHANGED context
     ELSE /\ context' = [text |-> window.text, stream |-> window.stream]
          /\ trust' = Trusted[window.confidence]
  /\ UNCHANGED <<bufferVars, beamVars, resultVars, streams, finals, carried>>

\* The consumer drops the generator at a result.
Abandons ==
  /\ generator \in {"partial", "final"} /\ generator' = "idle" /\ window' = NoWindow
  /\ UNCHANGED <<bufferVars, beamVars, contextVars, resultVars, streams, finals, carried>>

-----------------------------------------------------------------------------
(* The end of a stream                                                     *)

\* flush(): less than 500 ms are dropped, the rest is decoded without a context and is final
\* whatever was made of it; the buffer's time stays.
Flush ==
  /\ generator # "decode" /\ Buffered > 0
  /\ IF Buffered < MinFlush
     THEN Drops(pushed + 1) /\ UNCHANGED <<decodedTo, finals>>
     ELSE /\ bufferFirst' = pushed + 1 /\ untimed' = untimed + Buffered
          /\ decodedTo' = pushed
          /\ \/ UNCHANGED finals
             \/ \E text \in Texts :
                  finals' = Append(finals,
                    Final([text |-> text, from |-> bufferFirst, to |-> pushed,
                           start |-> bufferStart, stream |-> streams, nth |-> said],
                          "flush"))
          /\ UNCHANGED unheard
  /\ UNCHANGED <<pushed, bufferStart, beamVars, contextVars, resultVars, generator, window,
                 streams, carried>>

\* Variant of StreamReset: the context stays.
StreamResetKeepsContext ==
  /\ generator # "decode" /\ streams < NStreamResets /\ streams' = streams + 1
  /\ Drops(pushed + 1)
  /\ partials' = <<>> /\ said' = 0 /\ latencies' = <<>> /\ beam' = MinBeam
  /\ carried' = IF generator = "idle" THEN {} ELSE {window.stream}
  /\ UNCHANGED <<pushed, bufferStart, decodedTo, generator, window, finals, contextVars>>

\* reset(): not the buffer's time, and a suspended process_stream() goes on where it was.
StreamReset ==
  /\ generator # "decode" /\ streams < NStreamResets /\ streams' = streams + 1
  /\ Drops(pushed + 1)
  /\ partials' = <<>> /\ said' = 0 /\ latencies' = <<>> /\ beam' = MinBeam
  /\ context' = NoContext /\ trust' = Fully
  /\ carried' = IF generator = "idle" THEN {} ELSE {window.stream}
  /\ UNCHANGED <<pushed, bufferStart, decodedTo, generator, window, finals>>

StreamingNext ==
  \/ PushAudio \/ TakeWindow \/ DecodesNothing \/ Decodes
  \/ YieldsFinal \/ YieldsNoFinal \/ UpdateContext \/ Abandons
  \/ Flush \/ StreamReset

StreamingSpec == StreamingInit /\ [][StreamingNext]_streamVars

-----------------------------------------------------------------------------
(* Properties                                                              *)

StreamTypeOK ==
  /\ pushed \in 0 .. NPushed /\ bufferFirst \in 1 .. pushed + 1 /\ Buffered <= BufferSize
  /\ generator \in {"idle", "decode", "partial", "final"}
  /\ Len(partials) <= Stabilization /\ Len(latencies) <= LatencyHistory
  /\ trust \in 0 .. Fully /\ streams \in 0 .. NStreamResets /\ carried \subseteq 0 .. streams

\* Every sample up to the head of the buffer was decoded, or dropped by a full buffer, a short
\* flush or a reset; and what is decoded again is at most the overlap.
EverySampleIsTaken ==
  /\ bufferFirst <= decodedTo + 1 \/ unheard > 0
  /\ decodedTo - WindowOverlap < bufferFirst

\* Times are those of the audio less what was dropped without moving them: a result is never
\* dated after what it was made of, and its beginning is right if nothing was ever dropped.
TimesLagBehind ==
  /\ bufferStart + untimed + 1 = bufferFirst
  /\ \A i \in DOMAIN finals :
       /\ finals[i].start < finals[i].from
       /\ untimed = 0 => finals[i].start + 1 = finals[i].from

\* One final comes after another: in its stream or a later one, and of audio that overlaps by
\* the overlap only.
Follows(e, f) == e.to - WindowOverlap < f.from /\ e.stream <= f.stream

\* Finals are in the order of their audio and of their streams, whatever flush() and reset()
\* do while process_stream() is suspended: except that the one result it is suspended at comes
\* after what flush() made of later audio.  The finals of process_stream() begin with the
\* second result of a stream.
FinalsInOrder ==
  /\ \A i \in DOMAIN finals :
       finals[i].how = "stream" => finals[i].nth >= 2 /\ finals[i].text \in Complete
  /\ \A i, j \in DOMAIN finals :
       i < j => \/ Follows(finals[i], finals[j])
                \/ /\ finals[j].how = "stream"
                   /\ \A k \in DOMAIN finals : i <= k /\ k < j => finals[k].how = "flush"

\* The words that a window is decoded after are those of a final of the same stream, or of the
\* one result process_stream() was suspended at when reset() last came.
ContextIsOfTheStream ==
  context # NoContext =>
    /\ context.stream \in {streams} \cup carried
    /\ \E i \in DOMAIN finals : finals[i].text = context.text /\ finals[i].stream = context.stream

\* The beam is widened one step a result, from the third result of a stream on.
BeamFollowsResults ==
  beam \in MinBeam .. MaxBeam /\ (beam > MinBeam => beam - MinBeam + 2 <= said)

StreamingInv ==
  /\ StreamTypeOK /\ EverySampleIsTaken /\ TimesLagBehind /\ FinalsInOrder
  /\ ContextIsOfTheStream /\ BeamFollowsResults
=============================================================================
