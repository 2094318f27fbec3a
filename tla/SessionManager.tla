-------------------------- MODULE SessionManager --------------------------
(***************************************************************************)
(* Long recordings: SessionManager of app/core/session_manager.py and the  *)
(* snapshot that BackendService keeps of it.  Start and stop requests run  *)
(* in threads of their own and share the manager's fields without a lock.  *)
(* A start makes a session, an audio source with its capture thread, a     *)
(* transcriber with its worker thread, an executor and an audio loop; each *)
(* is named after the start that made it.  The fields say which of each    *)
(* the manager knows, and a step uses the one it finds there.              *)
(*                                                                         *)
(* A block of audio is a pair of the source it was captured by and a       *)
(* number.  It stands for the chunk it completes and for the segment that  *)
(* is decoded from it; suppressed segments and the files written are left  *)
(* out.                                                                    *)
(***************************************************************************)
EXTENDS Naturals, Sequences, FiniteSets

CONSTANTS NStarts,        \* start requests, numbered as they come
          Stops,          \* stop requests
          SessionEvents   \* bound: blocks captured, faults, and requests that
                          \* begin while another is under way, in all

Starts == 1 .. NStarts
NoStart == 0              \* None, in a field of the manager

ASSUME SessionAssumption ==
  /\ NStarts \in Nat
  /\ Starts \cap Stops = {}
  /\ SessionEvents \in Nat

Blocks == Starts \X (1 .. SessionEvents)

VARIABLES
  request,     \* where each request is
  given,       \* the session each start request is given back
  known,       \* the fields: session, source, transcriber, executor, loop
  stopEvent,   \* _stop_event
  sessionIs,   \* session.status
  listed,      \* session.segments
  capture,     \* each source's capture thread
  captured,    \* each source's queue
  looping,     \* the audio loops that run
  chunks,      \* the chunks each executor has yet to process
  shut,        \* the executors that have been shut down
  decoder,     \* each transcriber's worker thread
  toDecode,    \* each transcriber's queue
  handling,    \* the segment the worker is handling, and how far it is
  snapshot,    \* the backend service's snapshot: the session and its transcript
  events,      \* blocks, faults and overlaps so far
  overlapped   \* a request has begun while another was under way

sessionVars == <<request, given, known, stopEvent, sessionIs, listed, capture,
                 captured, looping, chunks, shut, decoder, toDecode, handling,
                 snapshot, events, overlapped>>
threadVars == <<capture, captured, looping, chunks, shut, decoder, toDecode, handling>>

Fields == {"session", "source", "transcriber", "executor", "loop"}
Done == {"idle", "refused", "failed", "started", "stopped"}
Idle == [at |-> "idle"]

SessionInit ==
  /\ request = [q \in Starts \cup Stops |-> "idle"]
  /\ given = [r \in Starts |-> NoStart]
  /\ known = [f \in Fields |-> NoStart]
  /\ stopEvent = FALSE
  /\ sessionIs = [r \in Starts |-> "none"]
  /\ listed = [r \in Starts |-> <<>>]
  /\ capture = [r \in Starts |-> "off"]
  /\ captured = [r \in Starts |-> <<>>]
  /\ looping = {}
  /\ chunks = [r \in Starts |-> {}]
  /\ shut = {}
  /\ decoder = [r \in Starts |-> "off"]
  /\ toDecode = [r \in Starts |-> <<>>]
  /\ handling = [r \in Starts |-> Idle]
  /\ snapshot = [session |-> NoStart, text |-> <<>>]
  /\ events = 0
  /\ overlapped = FALSE

-----------------------------------------------------------------------------
(* What several handlers do *)

Happens == events < SessionEvents /\ events' = events + 1

Begins(q) ==
  /\ request[q] = "idle"
  /\ q \in Starts \ {1} => request[q - 1] # "idle"
  /\ LET busy == \E p \in DOMAIN request : request[p] \notin Done
     IN /\ overlapped' = (overlapped \/ busy)
        /\ IF busy THEN Happens ELSE UNCHANGED events

GoesTo(q, place) == request' = [request EXCEPT ![q] = place]

\* on_state: the snapshot is made anew from session r.
Shows(r) == snapshot' = [session |-> r, text |-> listed[r]]

\* The session of the manager gets a status, and is published with it.
Marks(new) ==
  IF known["session"] = NoStart THEN UNCHANGED <<sessionIs, snapshot>>
  ELSE /\ sessionIs' = [sessionIs EXCEPT ![known["session"]] = new]
       /\ Shows(known["session"])

-----------------------------------------------------------------------------
(* A start request *)

\* Variant of StartChecks: the status is not looked at.
StartChecksNothing(r) ==
  /\ Begins(r)
  /\ GoesTo(r, "checked")
  /\ UNCHANGED <<given, known, stopEvent, sessionIs, listed, snapshot, threadVars>>

StartChecks(r) ==
  /\ Begins(r)
  /\ IF known["session"] # NoStart /\ sessionIs[known["session"]] = "running"
     THEN GoesTo(r, "refused") ELSE GoesTo(r, "checked")
  /\ UNCHANGED <<given, known, stopEvent, sessionIs, listed, snapshot, threadVars>>

\* The session, the source and the transcriber are made and the state is reset.
StartCreates(r) ==
  /\ request[r] = "checked"
  /\ known' = [known EXCEPT !["session"] = r, !["source"] = r, !["transcriber"] = r]
  /\ sessionIs' = [sessionIs EXCEPT ![r] = "starting"]
  /\ stopEvent' = FALSE
  /\ GoesTo(r, "loading")
  /\ UNCHANGED <<given, listed, snapshot, events, overlapped, threadVars>>

\* A file of the session cannot be written, before anything else is made.
StartAborts(r) ==
  /\ request[r] = "checked"
  /\ Happens
  /\ known' = [known EXCEPT !["session"] = r]
  /\ sessionIs' = [sessionIs EXCEPT ![r] = "starting"]
  /\ GoesTo(r, "failed")
  /\ UNCHANGED <<given, stopEvent, listed, snapshot, overlapped, threadVars>>

\* The model cannot be loaded, or another request has cleared the fields meanwhile.
StartFails(r) ==
  /\ request[r] = "loading"
  /\ IF {known["transcriber"], known["source"]} \subseteq Starts
     THEN Happens ELSE UNCHANGED events
  /\ Marks("error")
  /\ known' = [known EXCEPT !["source"] = NoStart, !["transcriber"] = NoStart,
                            !["executor"] = NoStart, !["loop"] = NoStart]
  /\ GoesTo(r, "failed")
  /\ UNCHANGED <<given, stopEvent, listed, overlapped, threadVars>>

\* The threads are started: those of the objects found in the fields.
StartLaunches(r) ==
  /\ request[r] = "loading"
  /\ known["transcriber"] # NoStart
  /\ known["source"] # NoStart
  /\ decoder' = [decoder EXCEPT ![known["transcriber"]] = "on"]
  /\ capture' = [capture EXCEPT ![known["source"]] = "on"]
  /\ known' = [known EXCEPT !["executor"] = r, !["loop"] = r]
  /\ looping' = looping \cup {r}
  /\ GoesTo(r, "launched")
  /\ UNCHANGED <<given, stopEvent, sessionIs, listed, captured, chunks, toDecode, shut, handling,
                 snapshot, events, overlapped>>

StartMarks(r) ==
  /\ request[r] = "launched"
  /\ Marks("running")
  /\ given' = [given EXCEPT ![r] = known["session"]]
  /\ GoesTo(r, "marked")
  /\ UNCHANGED <<known, stopEvent, listed, events, overlapped, threadVars>>

\* The backend service copies the session it is given back.
StartReturns(r) ==
  /\ request[r] = "marked"
  /\ Shows(given[r])
  /\ GoesTo(r, "started")
  /\ UNCHANGED <<given, known, stopEvent, sessionIs, listed, events, overlapped, threadVars>>

-----------------------------------------------------------------------------
(* A stop request.  It joins the threads it stops with a timeout, so its next *)
(* step may come before they have ended. *)

StopBegin(s) ==
  /\ Begins(s)
  /\ stopEvent' = TRUE
  /\ GoesTo(s, "source")
  /\ UNCHANGED <<given, known, sessionIs, listed, snapshot, threadVars>>

Told(thread, r) == IF r \in Starts /\ thread[r] = "on"
                   THEN [thread EXCEPT ![r] = "told"] ELSE thread

\* Variant of StopSource: the source is left alone.
StopForgetsSource(s) ==
  /\ request[s] = "source"
  /\ GoesTo(s, "transcriber")
  /\ UNCHANGED <<given, known, stopEvent, sessionIs, listed, snapshot, events, overlapped,
                 threadVars>>

StopSource(s) ==
  /\ request[s] = "source"
  /\ capture' = Told(capture, known["source"])
  /\ GoesTo(s, "transcriber")
  /\ UNCHANGED <<given, known, stopEvent, sessionIs, listed, captured, looping, chunks, decoder,
                 toDecode, shut, handling, snapshot, events, overlapped>>

StopTranscriber(s) ==
  /\ request[s] = "transcriber"
  /\ decoder' = Told(decoder, known["transcriber"])
  /\ GoesTo(s, "executor")
  /\ UNCHANGED <<given, known, stopEvent, sessionIs, listed, capture, captured, looping, chunks,
                 toDecode, shut, handling, snapshot, events, overlapped>>

\* Variant of StopExecutor: the worker thread is joined without a timeout.
StopExecutorJoined(s) ==
  /\ request[s] = "executor"
  /\ known["transcriber"] # NoStart => handling[known["transcriber"]] = Idle
  /\ GoesTo(s, "loop")
  /\ UNCHANGED <<given, known, stopEvent, sessionIs, listed, snapshot, events, overlapped,
                 threadVars>>

\* Variant of StopExecutor: the chunks that wait are not cancelled.
StopExecutorLeaves(s) ==
  /\ request[s] = "executor"
  /\ shut' = shut \cup ({known["executor"]} \ {NoStart})
  /\ GoesTo(s, "loop")
  /\ UNCHANGED <<given, known, stopEvent, sessionIs, listed, capture, captured, looping, chunks,
                 decoder, toDecode, handling, snapshot, events, overlapped>>

\* shutdown() cancels the chunks that wait; those that run end by themselves.
StopExecutor(s) ==
  /\ request[s] = "executor"
  /\ chunks' = [r \in Starts |-> IF r = known["executor"] THEN {} ELSE chunks[r]]
  /\ shut' = shut \cup ({known["executor"]} \ {NoStart})
  /\ GoesTo(s, "loop")
  /\ UNCHANGED <<given, known, stopEvent, sessionIs, listed, capture, captured, looping, decoder,
                 toDecode, handling, snapshot, events, overlapped>>

StopMarks(s) ==
  /\ request[s] = "loop"
  /\ Marks("stopped")
  /\ GoesTo(s, "stopped")
  /\ UNCHANGED <<given, known, stopEvent, listed, events, overlapped, threadVars>>

-----------------------------------------------------------------------------
(* The capture thread of source r.  A block it is about to queue when it is told to *)
(* stop counts as queued before. *)

Captures(r) ==
  /\ capture[r] = "on"
  /\ Happens
  /\ captured' = [captured EXCEPT ![r] = Append(@, <<r, events'>>)]
  /\ UNCHANGED <<request, given, known, stopEvent, sessionIs, listed, capture, looping, chunks,
                 decoder, toDecode, shut, handling, snapshot, overlapped>>

\* _handle_error: whichever thread fails, the error goes to the session of the manager.
\* The device may fail to open, stop giving data or fail a read five times.
CaptureFails(r) ==
  /\ Happens
  /\ capture[r] = "on"
  /\ capture' = [capture EXCEPT ![r] = "ended"]
  /\ Marks("error")
  /\ UNCHANGED <<request, given, known, stopEvent, listed, captured, looping, chunks, decoder,
                 toDecode, shut, handling, overlapped>>

-----------------------------------------------------------------------------
(* The audio loop that start r began, and the executors' workers *)

\* Variant of LoopReads: the block stays in the queue.
LoopPeeks(r) ==
  /\ r \in looping /\ ~stopEvent
  /\ known["source"] # NoStart /\ known["executor"] # NoStart
  /\ captured[known["source"]] # <<>>
  /\ chunks' = [chunks EXCEPT ![known["executor"]] = @ \cup {Head(captured[known["source"]])}]
  /\ UNCHANGED <<request, given, known, stopEvent, sessionIs, listed, capture, captured, looping,
                 decoder, toDecode, shut, handling, snapshot, events, overlapped>>

\* A block is read from whatever source the manager has, and handed to its executor.
LoopReads(r) ==
  /\ r \in looping /\ ~stopEvent
  /\ known["source"] # NoStart /\ known["executor"] \notin shut \cup {NoStart}
  /\ LET src == known["source"]
     IN /\ captured[src] # <<>>
        /\ captured' = [captured EXCEPT ![src] = Tail(@)]
        /\ chunks' = [chunks EXCEPT ![known["executor"]] = @ \cup {Head(captured[src])}]
  /\ UNCHANGED <<request, given, known, stopEvent, sessionIs, listed, capture, looping, decoder,
                 toDecode, shut, handling, snapshot, events, overlapped>>

\* The event is seen; or the loop dies of a field that has become None under it, or of an
\* executor that takes no more.
LoopEnds(r) ==
  /\ r \in looping
  /\ stopEvent \/ known["source"] = NoStart \/ known["executor"] \in shut \cup {NoStart}
  /\ looping' = looping \ {r}
  /\ UNCHANGED <<request, given, known, stopEvent, sessionIs, listed, capture, captured, chunks,
                 decoder, toDecode, shut, handling, snapshot, events, overlapped>>

\* _process_chunk in one of the two workers, so in any order.
ProcessChunk(r, c) ==
  /\ c \in chunks[r]
  /\ chunks' = [chunks EXCEPT ![r] = @ \ {c}]
  /\ toDecode' = IF /\ ~stopEvent
                    /\ known["transcriber"] # NoStart
                    /\ decoder[known["transcriber"]] # "told"
                 THEN [toDecode EXCEPT ![known["transcriber"]] = Append(@, c)]
                 ELSE toDecode
  /\ UNCHANGED <<request, given, known, stopEvent, sessionIs, listed, capture, captured, looping,
                 decoder, shut, handling, snapshot, events, overlapped>>

-----------------------------------------------------------------------------
(* The worker thread of transcriber r and the callbacks it runs *)

\* Variant of Decodes: the stop flag is not looked at before the next chunk.
DecodesOn(r) ==
  /\ decoder[r] \in {"on", "told"} /\ handling[r] = Idle
  /\ toDecode[r] # <<>>
  /\ handling' = [handling EXCEPT ![r] = [at |-> "decoded", chunk |-> Head(toDecode[r])]]
  /\ toDecode' = [toDecode EXCEPT ![r] = Tail(@)]
  /\ UNCHANGED <<request, given, known, stopEvent, sessionIs, listed, capture, captured, looping,
                 chunks, decoder, shut, snapshot, events, overlapped>>

Decodes(r) ==
  /\ decoder[r] = "on" /\ handling[r] = Idle
  /\ toDecode[r] # <<>>
  /\ handling' = [handling EXCEPT ![r] = [at |-> "decoded", chunk |-> Head(toDecode[r])]]
  /\ toDecode' = [toDecode EXCEPT ![r] = Tail(@)]
  /\ UNCHANGED <<request, given, known, stopEvent, sessionIs, listed, capture, captured, looping,
                 chunks, decoder, shut, snapshot, events, overlapped>>

\* _handle_segment lists the segment in the session the manager has now.
Lists(r) ==
  /\ handling[r].at = "decoded"
  /\ listed' = [listed EXCEPT ![known["session"]] = Append(@, handling[r].chunk)]
  /\ handling' = [handling EXCEPT ![r] = [at |-> "listed", chunk |-> handling[r].chunk]]
  /\ UNCHANGED <<request, given, known, stopEvent, sessionIs, capture, captured, looping, chunks,
                 decoder, toDecode, shut, snapshot, events, overlapped>>

\* on_segment appends it to the transcript shown, and _emit_state reads the session.
ShowsSegment(r) ==
  /\ handling[r].at = "listed"
  /\ snapshot' = [snapshot EXCEPT !.text = Append(@, handling[r].chunk)]
  /\ handling' = [handling EXCEPT ![r] = [at |-> "shown", session |-> known["session"]]]
  /\ UNCHANGED <<request, given, known, stopEvent, sessionIs, listed, capture, captured, looping,
                 chunks, shut, decoder, toDecode, events, overlapped>>

\* Variant of ShowsState: the state is not published after a segment.
ShowsNoState(r) ==
  /\ handling[r].at = "shown"
  /\ handling' = [handling EXCEPT ![r] = Idle]
  /\ UNCHANGED <<request, given, known, stopEvent, sessionIs, listed, capture, captured, looping,
                 chunks, decoder, toDecode, shut, snapshot, events, overlapped>>

ShowsState(r) ==
  /\ handling[r].at = "shown"
  /\ Shows(handling[r].session)
  /\ handling' = [handling EXCEPT ![r] = Idle]
  /\ UNCHANGED <<request, given, known, stopEvent, sessionIs, listed, capture, captured, looping,
                 chunks, shut, decoder, toDecode, events, overlapped>>

\* The worker dies of an exception: the model, a decode that fails.
DecoderFails(r) ==
  /\ Happens
  /\ decoder[r] = "on" /\ handling[r] = Idle
  /\ decoder' = [decoder EXCEPT ![r] = "ended"]
  /\ Marks("error")
  /\ UNCHANGED <<request, given, known, stopEvent, listed, capture, captured, looping, chunks,
                 toDecode, shut, handling, overlapped>>

-----------------------------------------------------------------------------
StartStep(r) == \/ StartChecks(r) \/ StartCreates(r) \/ StartAborts(r)
                \/ StartFails(r) \/ StartLaunches(r) \/ StartMarks(r) \/ StartReturns(r)
StopStep(s) == \/ StopBegin(s) \/ StopSource(s) \/ StopTranscriber(s)
               \/ StopExecutor(s) \/ StopMarks(s)
CaptureStep(r) == Captures(r) \/ CaptureFails(r)
LoopStep(r) == LoopReads(r) \/ LoopEnds(r) \/ \E c \in Blocks : ProcessChunk(r, c)
DecoderStep(r) == \/ Decodes(r) \/ Lists(r) \/ ShowsSegment(r) \/ ShowsState(r)
                  \/ DecoderFails(r)

SessionNext ==
  \/ \E r \in Starts : \/ StartStep(r) \/ CaptureStep(r) \/ LoopStep(r)
                       \/ DecoderStep(r)
  \/ \E s \in Stops : StopStep(s)

SessionSpec == SessionInit /\ [][SessionNext]_sessionVars

\* The code between two waits of a stop request runs on; its joins have timeouts.  The
\* threads it stops are owed nothing: a decode or a device may hang.
SessionFairness ==
  \A s \in Stops : WF_sessionVars(request[s] # "idle" /\ StopStep(s))

SessionFairSpec == SessionSpec /\ SessionFairness

-----------------------------------------------------------------------------
(* Properties *)

ThreadStates == {"off", "on", "told", "ended"}

\* Types of the manager's fields, its threads and the requests; in an executor that was
\* shut down no chunk waits.
SessionTypeOK ==
  /\ request \in [Starts \cup Stops -> Done \cup
       {"checked", "loading", "launched", "marked", "source", "transcriber", "executor", "loop"}]
  /\ given \in [Starts -> Starts \cup {NoStart}]
  /\ known \in [Fields -> Starts \cup {NoStart}]
  /\ stopEvent \in BOOLEAN
  /\ sessionIs \in [Starts -> {"none", "starting", "running", "error", "stopped"}]
  /\ listed \in [Starts -> Seq(Blocks)]
  /\ capture \in [Starts -> ThreadStates]
  /\ captured \in [Starts -> Seq(Blocks)]
  /\ looping \subseteq Starts
  /\ chunks \in [Starts -> SUBSET Blocks]
  /\ shut \subseteq Starts /\ (\A r \in shut : chunks[r] = {})
  /\ decoder \in [Starts -> ThreadStates]
  /\ toDecode \in [Starts -> Seq(Blocks)]
  /\ \A r \in Starts : handling[r].at \in {"idle", "decoded", "listed", "shown"}
  /\ snapshot.session \in Starts \cup {NoStart}
  /\ snapshot.text \in Seq(Blocks)
  /\ events \in 0 .. SessionEvents
  /\ overlapped \in BOOLEAN

Places(b) == {p \in Starts \X (1 .. SessionEvents) :
                p[2] <= Len(listed[p[1]]) /\ listed[p[1]][p[2]] = b}

\* However many loops share a source, and whichever session they find, what was spoken
\* once is listed at most once, in at most one session.
OneHome == \A b \in Blocks : Cardinality(Places(b)) <= 1

\* When no segment is being handled, the transcript the backend service shows is that of
\* the session it shows, although segments, errors and requests update it from several
\* threads, one at a time or as a whole.
SnapshotCatchesUp ==
  (\A r \in Starts : handling[r] = Idle) /\ snapshot.session # NoStart
    => snapshot.text = listed[snapshot.session]

\* If requests never overlapped, a capture nobody told to stop is the one the manager
\* knows, or that of a session that ended in an error: only an error leaves a microphone
\* open behind the manager's back.
OpenCaptureIsKnown ==
  ~overlapped => \A r \in Starts :
    capture[r] = "on" => known["source"] = r \/ sessionIs[r] = "error"

Foreign(r) == {b \in Blocks : b[1] = r /\ \E q \in Starts \ {r} : \E i \in 1 .. Len(listed[q]) :
                 listed[q][i] = b}

\* If requests never overlapped, at most one segment of a session that was stopped is
\* listed in another: the one in the worker's hands when the stop gave up waiting.
StoppedSpeechStays ==
  ~overlapped => \A r \in Starts :
    sessionIs[r] = "stopped" => Cardinality(Foreign(r)) <= 1

\* A stop request returns, whatever the threads it stops are doing: what it waits for has
\* a timeout.
StopsReturn == \A s \in Stops : []<>(request[s] \in {"idle", "stopped"})

\* What the manager's unlocked fields may not come to: speech listed twice or in a session it
\* was not spoken in, a snapshot that is left behind, a microphone nobody knows of.
SessionInv ==
  SessionTypeOK /\ OneHome /\ SnapshotCatchesUp /\ OpenCaptureIsKnown /\ StoppedSpeechStays
=============================================================================
