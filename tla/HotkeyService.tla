--------------------------- MODULE HotkeyService ---------------------------
(***************************************************************************)
(* The push-to-talk service of the backend, HotkeyTranscriptionService in  *)
(* app/api/server.py, with the transcriber thread it drives (app/stt/      *)
(* fast_engine.py).                                                        *)
(*                                                                         *)
(* The service runs on one asyncio event loop: HTTP requests to start and  *)
(* stop a session, one audio loop per session, and one finalize task per   *)
(* session.  Between two awaits a coroutine is atomic, and here it is one  *)
(* action.  Each session also owns a transcriber thread, which runs in     *)
(* between, even while the event loop is blocked joining that thread.      *)
(* The text of a session is abstracted to the set of audio chunks it was   *)
(* recognised from; a session is named by the start request that makes it. *)
(***************************************************************************)
EXTENDS Naturals, Sequences, FiniteSets

CONSTANTS Starts,       \* start requests, and the sessions they create
          Stops,        \* stop requests
          None,         \* no session, no answer
          MaxChunks,    \* bound: audio chunks one session hears
          QueueCap,     \* max_queue_items of the transcriber queue
          MaxFaults,    \* bound: faults in one behaviour
          Serialised    \* do clients start only when nothing is recording?

ASSUME HotkeyAssumption ==
  /\ None \notin Starts
  /\ MaxChunks \in Nat
  /\ QueueCap \in Nat \ {0}
  /\ MaxFaults \in Nat
  /\ Serialised \in BOOLEAN

VARIABLES
  lockQ,      \* self._lock: its holder, then its waiters, first come first served
  current,    \* self._session
  held,       \* the session whose finalize task blocks the event loop in join()
  status,     \* payload of the last hotkey_status event
  st,         \* session.state, with "none" before the session exists
  cancel,     \* session.cancel_requested
  startPc, awaits,            \* start requests, and the session each one awaits
  stopPc, stopMode, stopOf,   \* stop requests, their mode, the session they stop
  told,       \* the response of each stop request
  loopPc,     \* the audio loop of each session
  fate,       \* what became of each chunk of each session
  shut,       \* transcriber._stop
  wpc, hand,  \* the transcriber thread and the chunk it holds
  agg, comp,  \* chunks in the aggregator, and in the composed text
  aggErr,     \* did the aggregator ever fail (session.finalization_error)
  finPc, poll, settled,   \* finalize task, its drain polls, did the drain settle
  draft,      \* final_text and raw_text of the finalize task
  resp,       \* session.final_response
  late,       \* hotkey_commit_final events published after hotkey_stop_ack
  faults      \* faults so far

reqVars  == <<startPc, awaits, stopPc, stopMode, stopOf, told>>
svcVars  == <<lockQ, current, held, status, st, cancel>>
textVars == <<fate, shut, wpc, hand, agg, comp, aggErr, late>>
finVars  == <<finPc, poll, settled, draft, resp>>
vars == <<reqVars, svcVars, textVars, finVars, loopPc, faults>>

Chunks == 1 .. MaxChunks
\* The service tells "finish" from "finish_and_paste" nowhere.
Modes == {"finish_and_paste", "cancel"}
Fates == {"unheard", "dropped", "queued", "decoding", "empty", "discarded", "listed"}
Draft == [text : SUBSET Chunks, raw : SUBSET Chunks]
Response == [sid : Starts \cup {None}, text : SUBSET Chunks, raw : SUBSET Chunks,
             live : SUBSET Chunks, warned : BOOLEAN]
\* None stands for the absence of a response, so it is not one.
ASSUME NoneAssumption == None \notin Response

Task == ({"start", "fin"} \X Starts) \cup ({"stop"} \X Stops)

NoText == [text |-> {}, raw |-> {}]
First(S) == {c \in S : \A d \in S : c <= d}
WithFate(f, v) == {c \in Chunks : f[c] = v}
\* The transcriber queue: chunks are put and taken in the order of their numbers.
Queued(s) == WithFate(fate[s], "queued")
\* session.final_segments
Listed(s) == WithFate(fate[s], "listed")

Fault == faults < MaxFaults /\ faults' = faults + 1

\* asyncio.Lock is fair: the head of lockQ holds it, the rest wait in order.
Holds(t) == lockQ # <<>> /\ Head(lockQ) = t
Release == lockQ' = Tail(lockQ)
\* No coroutine runs while the finalize task joins a thread on the event loop.
LoopFree == held = None

Init ==
  /\ lockQ = <<>> /\ current = None /\ held = None
  /\ status = [sid |-> None, state |-> "idle"]
  /\ st = [s \in Starts |-> "none"]
  /\ cancel = [s \in Starts |-> FALSE]
  /\ startPc = [s \in Starts |-> "idle"]
  /\ awaits = [s \in Starts |-> None]
  /\ stopPc = [p \in Stops |-> "idle"]
  /\ stopMode = [p \in Stops |-> "finish_and_paste"]
  /\ stopOf = [p \in Stops |-> None]
  /\ told = [p \in Stops |-> None]
  /\ loopPc = [s \in Starts |-> "none"]
  /\ fate = [s \in Starts |-> [c \in Chunks |-> "unheard"]]
  /\ shut = [s \in Starts |-> FALSE]
  /\ wpc = [s \in Starts |-> "none"]
  /\ hand = [s \in Starts |-> 0]
  /\ agg = [s \in Starts |-> {}]
  /\ comp = [s \in Starts |-> {}]
  /\ aggErr = [s \in Starts |-> FALSE]
  /\ finPc = [s \in Starts |-> "none"]
  /\ poll = [s \in Starts |-> [stable |-> 0, seen |-> 0]]
  /\ settled = [s \in Starts |-> FALSE]
  /\ draft = [s \in Starts |-> NoText]
  /\ resp = [s \in Starts |-> None]
  /\ late = [s \in Starts |-> 0]
  /\ faults = 0

-----------------------------------------------------------------------------
(* Start requests *)

\* A client that serialises its requests starts only when nothing is recording
\* and none of its earlier start requests is pending.
StartCall(s) ==
  /\ LoopFree
  /\ startPc[s] = "idle"
  /\ Serialised => \A t \in Starts : st[t] # "recording" /\ startPc[t] \notin {"lock", "join"}
  /\ startPc' = [startPc EXCEPT ![s] = "lock"]
  /\ lockQ' = Append(lockQ, <<"start", s>>)
  /\ UNCHANGED <<awaits, stopPc, stopMode, stopOf, told, current, held, status, st,
                 cancel, textVars, finVars, loopPc, faults>>

\* _stop_internal: the session stops recording and its finalize task is created.
BeginStop(s, mode) ==
  /\ st' = [st EXCEPT ![s] = "stopping"]
  /\ cancel' = [cancel EXCEPT ![s] = mode = "cancel"]
  /\ status' = [sid |-> s, state |-> "stopping"]
  /\ finPc' = [finPc EXCEPT ![s] = "wait"]

\* self._session is not None and self._session.is_recording
Active == \E s \in Starts : s = current /\ st[s] = "recording"

\* The request finds a session recording, stops it and awaits its finalize task
\* with the lock in hand.
RestartStops(s) ==
  /\ LoopFree
  /\ startPc[s] = "lock" /\ Holds(<<"start", s>>)
  /\ Active
  /\ BeginStop(current, "finish_and_paste")
  /\ startPc' = [startPc EXCEPT ![s] = "join"]
  /\ awaits' = [awaits EXCEPT ![s] = current]
  /\ UNCHANGED <<stopPc, stopMode, stopOf, told, lockQ, current, held, textVars,
                 poll, settled, draft, resp, loopPc, faults>>

\* Variant of MayCreate: a session that is recording is not looked for.
MayCreateAnyway(s) ==
  /\ LoopFree
  /\ Holds(<<"start", s>>)
  /\ startPc[s] \in {"lock", "join"}
  /\ startPc[s] = "join" => finPc[awaits[s]] = "done"

\* The request may go on to create its session: nothing is recording, or the
\* finalize task it awaited has ended.
MayCreate(s) ==
  /\ LoopFree
  /\ Holds(<<"start", s>>)
  /\ startPc[s] \in {"lock", "join"}
  /\ startPc[s] = "lock" => ~Active
  /\ startPc[s] = "join" => finPc[awaits[s]] = "done"

StartCreate(s) ==
  /\ MayCreate(s)
  /\ st' = [st EXCEPT ![s] = "recording"]
  /\ current' = s
  /\ loopPc' = [loopPc EXCEPT ![s] = "created"]
  /\ wpc' = [wpc EXCEPT ![s] = "load"]
  /\ status' = [sid |-> s, state |-> "recording"]
  /\ startPc' = [startPc EXCEPT ![s] = "done"]
  /\ Release
  /\ UNCHANGED <<awaits, stopPc, stopMode, stopOf, told, held, cancel, fate, shut,
                 hand, agg, comp, aggErr, late, finVars, faults>>

\* The audio source or the transcriber cannot be made: self._session is untouched.
StartFail(s) ==
  /\ MayCreate(s)
  /\ Fault
  /\ st' = [st EXCEPT ![s] = "error"]
  /\ startPc' = [startPc EXCEPT ![s] = "failed"]
  /\ Release
  /\ UNCHANGED <<awaits, stopPc, stopMode, stopOf, told, current, held, status,
                 cancel, textVars, finVars, loopPc>>

-----------------------------------------------------------------------------
(* Stop requests *)

StopCall(p) ==
  /\ LoopFree
  /\ stopPc[p] = "idle"
  /\ stopPc' = [stopPc EXCEPT ![p] = "lock"]
  /\ \E mode \in Modes : stopMode' = [stopMode EXCEPT ![p] = mode]
  /\ lockQ' = Append(lockQ, <<"stop", p>>)
  /\ UNCHANGED <<startPc, awaits, stopOf, told, current, held, status, st, cancel,
                 textVars, finVars, loopPc, faults>>

StopHolds(p) == LoopFree /\ stopPc[p] = "lock" /\ Holds(<<"stop", p>>)

\* No session: the request is answered with an empty response.
StopNothing(p) ==
  /\ StopHolds(p)
  /\ current = None
  /\ told' = [told EXCEPT ![p] = [sid |-> None, text |-> {}, raw |-> {},
                                  live |-> {}, warned |-> FALSE]]
  /\ stopPc' = [stopPc EXCEPT ![p] = "done"]
  /\ Release
  /\ UNCHANGED <<startPc, awaits, stopMode, stopOf, current, held, status, st, cancel,
                 textVars, finVars, loopPc, faults>>

\* Variant of StopJoins: a second stop stops the session again.
StopAgain(p) ==
  /\ StopHolds(p)
  /\ current # None
  /\ st[current] = "stopping"
  /\ BeginStop(current, stopMode[p])
  /\ stopPc' = [stopPc EXCEPT ![p] = "await"]
  /\ stopOf' = [stopOf EXCEPT ![p] = current]
  /\ Release
  /\ UNCHANGED <<startPc, awaits, stopMode, told, current, held, textVars,
                 poll, settled, draft, resp, loopPc, faults>>

\* The session is already stopping: the request joins its finalize task and its
\* own mode is ignored.
StopJoins(p) ==
  /\ StopHolds(p)
  /\ current # None
  /\ st[current] = "stopping"
  /\ stopPc' = [stopPc EXCEPT ![p] = "await"]
  /\ stopOf' = [stopOf EXCEPT ![p] = current]
  /\ Release
  /\ UNCHANGED <<startPc, awaits, stopMode, told, current, held, status, st, cancel,
                 textVars, finVars, loopPc, faults>>

StopBegins(p) ==
  /\ StopHolds(p)
  /\ Active
  /\ BeginStop(current, stopMode[p])
  /\ stopPc' = [stopPc EXCEPT ![p] = "await"]
  /\ stopOf' = [stopOf EXCEPT ![p] = current]
  /\ Release
  /\ UNCHANGED <<startPc, awaits, stopMode, told, current, held, textVars,
                 poll, settled, draft, resp, loopPc, faults>>

\* Variant of LiveText: the live text of a cancelled session is kept.
LiveTextOfAny(s, text) == IF comp[s] # {} THEN comp[s] ELSE text

\* latest_live_buffer_text, or the final text when there is none.
LiveText(s, text) ==
  IF cancel[s] THEN {} ELSE IF comp[s] # {} THEN comp[s] ELSE text

\* _build_stop_response_from_session: the stored response, or one put together
\* from the session's fields when its finalize task failed before storing one.
ResponseOf(s) ==
  IF resp[s] # None THEN resp[s]
  ELSE [sid |-> s, text |-> draft[s].text, raw |-> comp[s],
        live |-> LiveText(s, draft[s].text), warned |-> TRUE]

\* Variant of StopReturns: the request does not wait for the finalize task.
StopReturnsAtOnce(p) ==
  /\ LoopFree
  /\ stopPc[p] = "await"
  /\ told' = [told EXCEPT ![p] = ResponseOf(stopOf[p])]
  /\ stopPc' = [stopPc EXCEPT ![p] = "done"]
  /\ UNCHANGED <<startPc, awaits, stopMode, stopOf, svcVars, textVars, finVars,
                 loopPc, faults>>

StopReturns(p) ==
  /\ LoopFree
  /\ stopPc[p] = "await"
  /\ finPc[stopOf[p]] = "done"
  /\ told' = [told EXCEPT ![p] = ResponseOf(stopOf[p])]
  /\ stopPc' = [stopPc EXCEPT ![p] = "done"]
  /\ UNCHANGED <<startPc, awaits, stopMode, stopOf, svcVars, textVars, finVars,
                 loopPc, faults>>

-----------------------------------------------------------------------------
(* The audio loop *)

LoopStart(s) ==
  /\ LoopFree
  /\ loopPc[s] = "created"
  /\ loopPc' = [loopPc EXCEPT ![s] = IF st[s] = "recording" THEN "reading" ELSE "done"]
  /\ UNCHANGED <<reqVars, svcVars, textVars, finVars, faults>>

\* The capture thread cannot be started: the session goes on recording nothing.
LoopFatal(s) ==
  /\ LoopFree
  /\ loopPc[s] = "created"
  /\ Fault
  /\ loopPc' = [loopPc EXCEPT ![s] = "done"]
  /\ UNCHANGED <<reqVars, svcVars, textVars, finVars>>

\* One more chunk is handed to _transcribe_chunk.  The silence gate may drop it,
\* a read that timed out may have lost it, and submit() refuses it when the
\* transcriber is stopped or its queue is full.
Offer(s, f) ==
  LET unheard == WithFate(f, "unheard")
      room == ~shut[s] /\ Cardinality(WithFate(f, "queued")) < QueueCap
  IN  IF unheard = {} THEN {f}
      ELSE {[f EXCEPT ![c] = v] : c \in First(unheard),
                                  v \in {"dropped"} \cup IF room THEN {"queued"} ELSE {}}

LoopRead(s) ==
  /\ LoopFree
  /\ loopPc[s] = "reading"
  /\ st[s] = "recording"
  /\ \E f \in Offer(s, fate[s]) : fate' = [fate EXCEPT ![s] = f]
  /\ UNCHANGED <<reqVars, svcVars, shut, wpc, hand, agg, comp, aggErr, late, finVars,
                 loopPc, faults>>

\* The read in progress when the session stopped returns: what it brought is still
\* transcribed, and so is the rest of the buffer, unless the session is cancelled.
LoopExit(s) ==
  /\ LoopFree
  /\ loopPc[s] = "reading"
  /\ st[s] # "recording"
  /\ LET one == Offer(s, fate[s])
         two == UNION {Offer(s, f) : f \in one}
     IN  \E f \in IF cancel[s] THEN {fate[s]} ELSE {fate[s]} \cup one \cup two :
           fate' = [fate EXCEPT ![s] = f]
  /\ loopPc' = [loopPc EXCEPT ![s] = "done"]
  /\ UNCHANGED <<reqVars, svcVars, shut, wpc, hand, agg, comp, aggErr, late, finVars,
                 faults>>

-----------------------------------------------------------------------------
(* The transcriber thread *)

workerRest == <<reqVars, svcVars, finVars, loopPc, shut>>

WorkerLoad(s) ==
  /\ wpc[s] = "load"
  /\ wpc' = [wpc EXCEPT ![s] = "check"]
  /\ UNCHANGED <<workerRest, fate, hand, agg, comp, aggErr, late, faults>>

\* Loading the model or decoding a chunk raises: the thread ends and nobody is told.
WorkerDies(s) ==
  /\ wpc[s] \in {"load", "decode"}
  /\ Fault
  /\ wpc' = [wpc EXCEPT ![s] = "end"]
  /\ UNCHANGED <<workerRest, fate, hand, agg, comp, aggErr, late>>

WorkerCheck(s) ==
  /\ wpc[s] = "check"
  /\ wpc' = [wpc EXCEPT ![s] = IF shut[s] THEN "end" ELSE "get"]
  /\ UNCHANGED <<workerRest, fate, hand, agg, comp, aggErr, late, faults>>

\* queue.get(timeout=0.1), which may still return a chunk after stop() was called.
WorkerTakes(s) ==
  /\ wpc[s] = "get"
  /\ \E c \in First(Queued(s)) :
       /\ hand' = [hand EXCEPT ![s] = c]
       /\ fate' = [fate EXCEPT ![s][c] = "decoding"]
  /\ wpc' = [wpc EXCEPT ![s] = "decode"]
  /\ UNCHANGED <<workerRest, agg, comp, aggErr, late, faults>>

WorkerFindsNone(s) ==
  /\ wpc[s] = "get"
  /\ Queued(s) = {}
  /\ wpc' = [wpc EXCEPT ![s] = "check"]
  /\ UNCHANGED <<workerRest, fate, hand, agg, comp, aggErr, late, faults>>

\* No text: silence, a rejected or suppressed result, or a GPU failure, after
\* which the chunk is not decoded again.
WorkerEmpty(s) ==
  /\ wpc[s] = "decode"
  /\ fate' = [fate EXCEPT ![s][hand[s]] = "empty"]
  /\ wpc' = [wpc EXCEPT ![s] = "check"]
  /\ UNCHANGED <<workerRest, hand, agg, comp, aggErr, late, faults>>

\* Guard of _on_transcription_segment.
Discards(s) == cancel[s] \/ current # s

WorkerHears(s) ==
  /\ wpc[s] = "decode"
  /\ wpc' = [wpc EXCEPT ![s] = IF Discards(s) THEN "check" ELSE "append"]
  /\ fate' = [fate EXCEPT ![s][hand[s]] = IF Discards(s) THEN "discarded" ELSE @]
  /\ UNCHANGED <<workerRest, hand, agg, comp, aggErr, late, faults>>

WorkerAppends(s) ==
  /\ wpc[s] = "append"
  /\ fate' = [fate EXCEPT ![s][hand[s]] = "listed"]
  /\ wpc' = [wpc EXCEPT ![s] = "aggregate"]
  /\ UNCHANGED <<workerRest, hand, agg, comp, aggErr, late, faults>>

WorkerAggregates(s) ==
  /\ wpc[s] = "aggregate"
  /\ agg' = [agg EXCEPT ![s] = @ \cup {hand[s]}]
  /\ wpc' = [wpc EXCEPT ![s] = "compose"]
  /\ UNCHANGED <<workerRest, fate, hand, comp, aggErr, late, faults>>

\* The aggregator raises: the error is noted and the segment goes on without it.
WorkerAggregateFails(s) ==
  /\ wpc[s] = "aggregate"
  /\ Fault
  /\ aggErr' = [aggErr EXCEPT ![s] = TRUE]
  /\ wpc' = [wpc EXCEPT ![s] = "compose"]
  /\ UNCHANGED <<workerRest, fate, hand, agg, comp, late>>

\* Variant of WorkerComposes: suppress_stream_events is not read.
WorkerComposesAlways(s) ==
  /\ wpc[s] = "compose"
  /\ comp' = [comp EXCEPT ![s] = @ \cup {hand[s]}]
  /\ wpc' = [wpc EXCEPT ![s] = "publish"]
  /\ UNCHANGED <<workerRest, fate, hand, agg, aggErr, late, faults>>

\* The composed text grows, then suppress_stream_events is read.
WorkerComposes(s) ==
  /\ wpc[s] = "compose"
  /\ comp' = [comp EXCEPT ![s] = @ \cup {hand[s]}]
  /\ wpc' = [wpc EXCEPT ![s] = IF st[s] = "stopping" THEN "check" ELSE "publish"]
  /\ UNCHANGED <<workerRest, fate, hand, agg, aggErr, late, faults>>

\* hotkey_commit_final is published, perhaps after the session was told to stop.
WorkerPublishes(s) ==
  /\ wpc[s] = "publish"
  /\ late' = [late EXCEPT ![s] = IF st[s] = "stopping" THEN @ + 1 ELSE @]
  /\ wpc' = [wpc EXCEPT ![s] = "check"]
  /\ UNCHANGED <<workerRest, fate, hand, agg, comp, aggErr, faults>>

-----------------------------------------------------------------------------
(* The finalize task *)

finRest == <<reqVars, current, status, st, cancel, fate, wpc, hand, agg, aggErr, late>>

StartDrain(s) ==
  /\ finPc' = [finPc EXCEPT ![s] = "drain"]
  /\ poll' = [poll EXCEPT ![s] = [stable |-> 0, seen |-> Cardinality(Listed(s))]]

\* wait_for(processing_task): the audio loop has ended.
FinLoopEnded(s) ==
  /\ LoopFree
  /\ finPc[s] = "wait"
  /\ loopPc[s] = "done"
  /\ StartDrain(s)
  /\ UNCHANGED <<finRest, lockQ, held, shut, comp, settled, draft, resp, loopPc, faults>>

\* Variant of FinLoopTimeout: the audio loop is left running.
FinLoopTimeoutOnly(s) ==
  /\ LoopFree
  /\ finPc[s] = "wait"
  /\ loopPc[s] # "done"
  /\ StartDrain(s)
  /\ UNCHANGED <<finRest, lockQ, held, shut, comp, settled, draft, resp, loopPc, faults>>

\* wait_for times out and cancels the audio loop, whose buffer is lost.
FinLoopTimeout(s) ==
  /\ LoopFree
  /\ finPc[s] = "wait"
  /\ loopPc[s] # "done"
  /\ loopPc' = [loopPc EXCEPT ![s] = "done"]
  /\ StartDrain(s)
  /\ UNCHANGED <<finRest, lockQ, held, shut, comp, settled, draft, resp, faults>>

\* Variant of Quiet: the queue depth is not looked at.
QuietSegments(s) == Cardinality(Listed(s)) = poll[s].seen

\* The transcriber's queue is empty and no segment came since the last poll.
Quiet(s) == Queued(s) = {} /\ Cardinality(Listed(s)) = poll[s].seen

\* Variant of FinPoll: quiet polls are counted for ever.
FinPollEndless(s) ==
  /\ LoopFree
  /\ finPc[s] = "drain"
  /\ poll' = [poll EXCEPT ![s] = [stable |-> IF Quiet(s) THEN @.stable + 1 ELSE 0,
                                  seen |-> Cardinality(Listed(s))]]
  /\ UNCHANGED <<finRest, lockQ, held, shut, comp, finPc, settled, draft, resp, loopPc,
                 faults>>

\* A poll of the drain that is not the second quiet one in a row.
FinPoll(s) ==
  /\ LoopFree
  /\ finPc[s] = "drain"
  /\ ~(Quiet(s) /\ poll[s].stable = 1)
  /\ poll' = [poll EXCEPT ![s] = [stable |-> IF Quiet(s) THEN 1 ELSE 0,
                                  seen |-> Cardinality(Listed(s))]]
  /\ UNCHANGED <<finRest, lockQ, held, shut, comp, finPc, settled, draft, resp, loopPc,
                 faults>>

FinSettles(s) ==
  /\ LoopFree
  /\ finPc[s] = "drain"
  /\ Quiet(s) /\ poll[s].stable = 1
  /\ finPc' = [finPc EXCEPT ![s] = "compose"]
  /\ settled' = [settled EXCEPT ![s] = TRUE]
  /\ UNCHANGED <<finRest, lockQ, held, shut, comp, poll, draft, resp, loopPc, faults>>

FinDrainTimeout(s) ==
  /\ LoopFree
  /\ finPc[s] = "drain"
  /\ finPc' = [finPc EXCEPT ![s] = "compose"]
  /\ UNCHANGED <<finRest, lockQ, held, shut, comp, poll, settled, draft, resp, loopPc,
                 faults>>

\* Variant of RawText: raw_composed_text is not put together again.
RawTextComposed(s) == comp[s]

\* raw_composed_text, put together from the segments when it is still empty.
RawText(s) == IF comp[s] # {} THEN comp[s] ELSE Listed(s)

FinCompose(s) ==
  /\ LoopFree
  /\ finPc[s] = "compose"
  /\ IF cancel[s]
     THEN draft' = [draft EXCEPT ![s] = NoText] /\ UNCHANGED comp
     ELSE /\ draft' = [draft EXCEPT ![s] =
                         [text |-> IF agg[s] # {} THEN agg[s] ELSE RawText(s),
                          raw |-> RawText(s)]]
          /\ comp' = [comp EXCEPT ![s] = RawText(s)]
  /\ finPc' = [finPc EXCEPT ![s] = "polish"]
  /\ UNCHANGED <<finRest, lockQ, held, shut, poll, settled, resp, loopPc, faults>>

\* The refiner and the coach, each awaited with a timeout and each falling back to
\* the text it was given, then the response is stored and hotkey_stopped published.
FinRespond(s) ==
  /\ LoopFree
  /\ finPc[s] = "polish"
  /\ resp' = [resp EXCEPT ![s] = [sid |-> s, text |-> draft[s].text, raw |-> draft[s].raw,
                                  live |-> LiveText(s, draft[s].text), warned |-> FALSE]]
  /\ finPc' = [finPc EXCEPT ![s] = "cleanup"]
  /\ UNCHANGED <<finRest, lockQ, held, shut, comp, poll, settled, draft, loopPc, faults>>

\* Something raises before the response is stored (the debug WAV cannot be
\* written, say): hotkey_error is published and the finally block runs.
FinFail(s) ==
  /\ LoopFree
  /\ finPc[s] \in {"compose", "polish"}
  /\ Fault
  /\ finPc' = [finPc EXCEPT ![s] = "cleanup"]
  /\ UNCHANGED <<finRest, lockQ, held, shut, comp, poll, settled, draft, resp, loopPc>>

\* transcriber.stop() sets the stop flag and joins the thread on the event loop.
FinStopWorker(s) ==
  /\ LoopFree
  /\ finPc[s] = "cleanup"
  /\ shut' = [shut EXCEPT ![s] = TRUE]
  /\ held' = s
  /\ finPc' = [finPc EXCEPT ![s] = "join"]
  /\ UNCHANGED <<finRest, lockQ, comp, poll, settled, draft, resp, loopPc, faults>>

\* Variant of FinJoined: join() has no timeout.
FinJoinedWhenEnded(s) ==
  /\ finPc[s] = "join"
  /\ wpc[s] = "end"
  /\ held' = None
  /\ lockQ' = Append(lockQ, <<"fin", s>>)
  /\ finPc' = [finPc EXCEPT ![s] = "lock"]
  /\ UNCHANGED <<finRest, shut, comp, poll, settled, draft, resp, loopPc, faults>>

\* Variant of FinJoined: the task ends without taking the lock.
FinJoinedUnlocked(s) ==
  /\ finPc[s] = "join"
  /\ held' = None
  /\ finPc' = [finPc EXCEPT ![s] = "done"]
  /\ UNCHANGED <<finRest, lockQ, shut, comp, poll, settled, draft, resp, loopPc, faults>>

\* The thread ended, or join() gave up after five seconds; then the lock is asked for.
FinJoined(s) ==
  /\ finPc[s] = "join"
  /\ held' = None
  /\ lockQ' = Append(lockQ, <<"fin", s>>)
  /\ finPc' = [finPc EXCEPT ![s] = "lock"]
  /\ UNCHANGED <<finRest, shut, comp, poll, settled, draft, resp, loopPc, faults>>

\* Variant of FinUnregister: self._session is not cleared.
FinStaysRegistered(s) ==
  /\ LoopFree
  /\ finPc[s] = "lock" /\ Holds(<<"fin", s>>)
  /\ status' = [sid |-> None, state |-> "idle"]
  /\ finPc' = [finPc EXCEPT ![s] = "done"]
  /\ Release
  /\ UNCHANGED <<reqVars, current, held, st, cancel, textVars, poll, settled, draft,
                 resp, loopPc, faults>>

\* Variant of FinUnregister: no idle status is published.
FinUnregisterSilently(s) ==
  /\ LoopFree
  /\ finPc[s] = "lock" /\ Holds(<<"fin", s>>)
  /\ current' = IF current = s THEN None ELSE current
  /\ finPc' = [finPc EXCEPT ![s] = "done"]
  /\ Release
  /\ UNCHANGED <<reqVars, held, status, st, cancel, textVars, poll, settled, draft,
                 resp, loopPc, faults>>

FinUnregister(s) ==
  /\ LoopFree
  /\ finPc[s] = "lock" /\ Holds(<<"fin", s>>)
  /\ current' = IF current = s THEN None ELSE current
  /\ status' = [sid |-> None, state |-> "idle"]
  /\ finPc' = [finPc EXCEPT ![s] = "done"]
  /\ Release
  /\ UNCHANGED <<reqVars, held, st, cancel, textVars, poll, settled, draft, resp,
                 loopPc, faults>>

-----------------------------------------------------------------------------
StartStep(s) == StartCall(s) \/ RestartStops(s) \/ StartCreate(s) \/ StartFail(s)
StopStep(p) == StopCall(p) \/ StopNothing(p) \/ StopJoins(p) \/ StopBegins(p) \/ StopReturns(p)
LoopStep(s) == LoopStart(s) \/ LoopFatal(s) \/ LoopRead(s) \/ LoopExit(s)
WorkerStep(s) ==
  \/ WorkerLoad(s) \/ WorkerDies(s) \/ WorkerCheck(s) \/ WorkerTakes(s)
  \/ WorkerFindsNone(s) \/ WorkerEmpty(s) \/ WorkerHears(s) \/ WorkerAppends(s)
  \/ WorkerAggregates(s) \/ WorkerAggregateFails(s) \/ WorkerComposes(s)
  \/ WorkerPublishes(s)
FinStep(s) ==
  \/ FinLoopEnded(s) \/ FinLoopTimeout(s) \/ FinPoll(s) \/ FinSettles(s)
  \/ FinDrainTimeout(s) \/ FinCompose(s) \/ FinRespond(s) \/ FinFail(s)
  \/ FinStopWorker(s) \/ FinJoined(s) \/ FinUnregister(s)

Next ==
  \/ \E s \in Starts : StartStep(s) \/ LoopStep(s) \/ WorkerStep(s) \/ FinStep(s)
  \/ \E p \in Stops : StopStep(p)

Spec == Init /\ [][Next]_vars

(***************************************************************************)
(* The event loop keeps running the coroutines that are ready and fires    *)
(* the timers that are due.  Nothing is assumed of the transcriber thread  *)
(* or of the audio device: they may hang.                                  *)
(***************************************************************************)
Fairness ==
  /\ \A s \in Starts : WF_vars(RestartStops(s) \/ StartCreate(s) \/ StartFail(s))
  /\ \A s \in Starts : WF_vars(FinStep(s))
  /\ \A s \in Starts : WF_vars(FinDrainTimeout(s))
  /\ \A p \in Stops : WF_vars(StopNothing(p) \/ StopJoins(p) \/ StopBegins(p)
                               \/ StopReturns(p))

FairSpec == Spec /\ Fairness

-----------------------------------------------------------------------------
(* What must hold *)

TypeOK ==
  /\ lockQ \in Seq(Task)
  /\ current \in Starts \cup {None} /\ held \in Starts \cup {None}
  /\ status \in [sid : Starts \cup {None}, state : {"idle", "recording", "stopping"}]
  /\ st \in [Starts -> {"none", "recording", "stopping", "error"}]
  /\ cancel \in [Starts -> BOOLEAN]
  /\ startPc \in [Starts -> {"idle", "lock", "join", "done", "failed"}]
  /\ awaits \in [Starts -> Starts \cup {None}]
  /\ stopPc \in [Stops -> {"idle", "lock", "await", "done"}]
  /\ stopMode \in [Stops -> Modes]
  /\ stopOf \in [Stops -> Starts \cup {None}]
  /\ told \in [Stops -> Response \cup {None}]
  /\ loopPc \in [Starts -> {"none", "created", "reading", "done"}]
  /\ fate \in [Starts -> [Chunks -> Fates]]
  /\ shut \in [Starts -> BOOLEAN]
  /\ wpc \in [Starts -> {"none", "load", "check", "get", "decode", "append",
                         "aggregate", "compose", "publish", "end"}]
  /\ hand \in [Starts -> 0 .. MaxChunks]
  /\ agg \in [Starts -> SUBSET Chunks] /\ comp \in [Starts -> SUBSET Chunks]
  /\ aggErr \in [Starts -> BOOLEAN]
  /\ finPc \in [Starts -> {"none", "wait", "drain", "compose", "polish", "cleanup",
                           "join", "lock", "done"}]
  /\ poll \in [Starts -> [stable : 0 .. 1, seen : Nat]]
  /\ settled \in [Starts -> BOOLEAN]
  /\ draft \in [Starts -> Draft]
  /\ resp \in [Starts -> Response \cup {None}]
  /\ late \in [Starts -> Nat]
  /\ faults \in Nat

\* Whatever start and stop requests overlap, only the registered session records.
OneRecording == \A s \in Starts : st[s] = "recording" => current = s

\* A registered session is recording, or its finalize task is still to unregister
\* it.  So the branch of stop_session for a session that is neither is dead code,
\* and no session stays registered for ever with nobody to end it.
CurrentIsOpen ==
  current # None =>
    \/ st[current] = "recording" /\ finPc[current] = "none"
    \/ st[current] = "stopping" /\ finPc[current] \notin {"none", "done"}

\* A running audio loop, so an open microphone, belongs to the session that is
\* recording or to a finalize task that is yet to see it end.
NoOrphanCapture ==
  \A s \in Starts : loopPc[s] \in {"created", "reading"} =>
    (st[s] = "recording" /\ current = s) \/ finPc[s] = "wait"

\* Who records, who is registered and whose microphone is open agree, whatever start and stop
\* requests, faults and finalize tasks overlap.
RecordingInv == TypeOK /\ OneRecording /\ CurrentIsOpen /\ NoOrphanCapture

\* Chunks the transcriber accepted and has not yet accounted for.
Owed(s) == WithFate(fate[s], "queued") \cup WithFate(fate[s], "decoding")
           \cup WithFate(fate[s], "listed")

\* When the drain ends by settling, not by its deadline, the final text misses at
\* most one accepted chunk: the one the transcriber was decoding, which its queue
\* depth does not count.
SettledAnswer ==
  \A s \in Starts : settled[s] /\ resp[s] # None /\ ~cancel[s] /\ ~aggErr[s] =>
    Cardinality(Owed(s) \ resp[s].text) <= 1

\* Once a stop is acknowledged at most one more committed segment is published,
\* by a callback that had read suppress_stream_events before the stop.
LateCommitsBounded == \A s \in Starts : late[s] <= 1

\* No request is ever given the text of a cancelled session, neither the final
\* text nor the live text, whether its finalize task succeeded or failed.
CancelDiscardsText ==
  \A p \in Stops : stopPc[p] = "done" /\ stopOf[p] # None /\ cancel[stopOf[p]] =>
    told[p].text = {} /\ told[p].live = {}

\* When no session is registered and no finalize task is pending, clients were last
\* told that the service is idle.
QuietMeansIdle ==
  (current = None /\ \A s \in Starts : finPc[s] \in {"none", "done"})
    => status.state = "idle"

\* A stored response is never replaced, however many stops arrive: all of them are
\* answered alike.
AnswerOnce == [][\A s \in Starts : resp[s] # None => resp'[s] = resp[s]]_vars

\* If any segment was recognised when the text is put together, then the text is not
\* empty, even if the aggregator failed or the segment's callback is half done.
NonEmptyAnswer ==
  [][\A s \in Starts : (finPc[s] = "compose" /\ finPc'[s] = "polish"
                        /\ ~cancel[s] /\ Listed(s) # {}) => draft'[s].text # {}]_vars

\* A start request that found a session recording awaits its finalize task with the
\* lock in hand, and that task needs the lock to end: the request never returns.
RestartNeverReturns ==
  [][\A s \in Starts : startPc[s] = "join" => startPc'[s] = "join"]_vars

\* Every stop request is answered, whatever the transcriber and the audio device do.
StopsAnswered == \A p \in Stops : stopPc[p] = "lock" ~> stopPc[p] = "done"

\* A stopped session is unregistered and its microphone closed, even if a read hangs.
StoppedIsReleased ==
  \A s \in Starts : st[s] = "stopping" ~> current # s /\ loopPc[s] = "done"

\* server.py:368: a start that finds a session active is "stopping previous", so it
\* should go on to create its own session or fail.
StartsReturn ==
  \A s \in Starts : startPc[s] = "lock" ~> startPc[s] \in {"done", "failed"}

\* docs/engineering/events-streaming.md: hotkey_status tells "Recording state": it
\* does not say idle while a session records.
\* The code does not keep this: README, section 6.
StatusTellsRecording ==
  \A s \in Starts : st[s] = "recording" => status.state # "idle"

\* tests/test_hotkey_service_lifecycle.py: the response of a cancel has no raw
\* transcription.
\* The code does not keep this: README, section 6.
CancelDiscardsRaw ==
  \A p \in Stops : stopPc[p] = "done" /\ stopOf[p] # None /\ cancel[stopOf[p]] =>
    told[p].raw = {}

-----------------------------------------------------------------------------
(* The service implements what dictation promises. *)

phaseBar == [s \in Starts |->
  CASE st[s] = "none" -> "idle"
    [] st[s] = "error" -> "failed"
    [] st[s] = "recording" -> "recording"
    [] OTHER -> IF finPc[s] = "done" THEN "answered" ELSE "stopping"]
cancelledBar == {s \in Starts : cancel[s]}
answerBar == [s \in Starts |-> IF finPc[s] = "done" THEN draft[s].text ELSE None]
replyBar == [p \in Stops |->
  IF told[p] = None THEN None ELSE [sid |-> told[p].sid, text |-> told[p].text]]

Promise == INSTANCE Dictation WITH
  Sessions <- Starts, phase <- phaseBar, cancelled <- cancelledBar,
  answer <- answerBar, reply <- replyBar
ImplementsDictation == Promise!Spec
=============================================================================
