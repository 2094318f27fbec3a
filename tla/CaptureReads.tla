---------------------------- MODULE CaptureReads ----------------------------
(***************************************************************************)
(* How sound comes from a device to a push-to-talk session: the capture    *)
(* thread (audio/capture/capture.py) opens a backend (audio/backends/),    *)
(* reads blocks into a bounded queue, and stops after errors in a row; the *)
(* session's audio loop (api/server.py) takes them by a read in the        *)
(* executor, which it gives up after 0.1 s though the read itself waits    *)
(* for 0.25 s.  A read that was given up still takes the next block, and   *)
(* nobody hears it.  A probe of a device opens a backend of its own.       *)
(*                                                                         *)
(* A block is its number.  Formats, sample rates and channel counts, tried *)
(* one after the other by a backend's start, are part of one attempt on a  *)
(* device.  HotkeyService has the session; here it is one recording.       *)
(***************************************************************************)
EXTENDS Naturals, Sequences, FiniteSets

CONSTANTS CaptureBackends, \* the backends in the order of preference
          CaptureDevices,  \* bound: devices that a backend tries
          MaxQueueItems,   \* max_queue_items
          MaxErrorsInRow,  \* max_consecutive_errors
          NBlocks,         \* bound: blocks that the device gives
          NGiveUps,        \* bound: reads given up
          NProbes          \* bound: probes

ASSUME CaptureAssumption ==
  /\ CaptureBackends \in Seq(STRING) /\ CaptureBackends # <<>>
  /\ MaxQueueItems \in Nat \ {0} /\ MaxErrorsInRow \in Nat \ {0}
  /\ CaptureDevices \in Nat /\ NBlocks \in Nat

VARIABLES
  capPhase,    \* the thread: waits, opens, starts, reads, puts, closes, ended
  capTried,    \* the backends tried, the last of them the one it has
  capHeld,     \* the device of the stream that the backend has, or 0
  capStrays,   \* streams that were opened and that nothing refers to
  capStop,     \* _stop_event
  capErrors,   \* consecutive_errors
  capQueue,    \* queue
  capBlock,    \* the last block read
  capDropped,  \* dropped_frames
  capRead,     \* the loop's read: NoRead, 0 while it waits, or the block that it took
  capAbandoned, capGivenUp, \* reads given up that still wait, and all of them
  capLost,     \* blocks that they took
  capHeard,    \* audio_buffer: the blocks of the recording
  capRecording, capLoop, \* is_recording; the loop runs, stops or ended
  probePhase, probes \* a probe: none or open; probes begun

sourceVars == <<capPhase, capTried, capHeld, capStrays, capErrors, capBlock, capDropped>>
readVars == <<capRead, capAbandoned, capGivenUp, capLost, capHeard>>
loopVars == <<capRecording, capLoop>>
probeVars == <<probePhase, probes>>
captureVars == <<sourceVars, capStop, capQueue, readVars, loopVars, probeVars>>

NoRead == NBlocks + 1

CaptureInit ==
  /\ capPhase = "waits" /\ capTried = 0 /\ capHeld = 0 /\ capStrays = 0
  /\ capStop = FALSE /\ capErrors = 0 /\ capQueue = <<>> /\ capBlock = 0 /\ capDropped = 0
  /\ capRead = NoRead /\ capAbandoned = 0 /\ capGivenUp = 0 /\ capLost = {} /\ capHeard = <<>>
  /\ capRecording = TRUE /\ capLoop = "new"
  /\ probePhase = "none" /\ probes = 0

-----------------------------------------------------------------------------
(* The capture thread                                                      *)

\* start() of a backend opens a stream on the first device that it can: on d, or on none.
Attempts == 0 .. CaptureDevices

\* Where a backend's first start leads.
Opened(d) ==
  IF d # 0 THEN "starts" ELSE IF capTried + 1 = Len(CaptureBackends) THEN "closes" ELSE "opens"

\* open_audio_backend(): the next backend is started.
CaptureOpens(d) ==
  /\ capPhase = "opens" /\ d \in Attempts
  /\ capTried' = capTried + 1 /\ capHeld' = d /\ capPhase' = Opened(d)
  /\ UNCHANGED <<capStrays, capErrors, capBlock, capDropped, capStop, capQueue, readVars,
                 loopVars, probeVars>>

\* _run() starts the backend that was returned, started, once more: the first stream is
\* forgotten.  If no second one opens, pyaudio's start closes the first, soundcard's keeps it.
CaptureStarts(d) ==
  /\ capPhase = "starts" /\ d \in Attempts
  /\ IF d # 0
     THEN capHeld' = d /\ capStrays' = capStrays + 1 /\ capPhase' = "reads"
     ELSE /\ capHeld' = IF CaptureBackends[capTried] = "pyaudio" THEN 0 ELSE capHeld
          /\ capPhase' = "closes" /\ UNCHANGED capStrays
  /\ UNCHANGED <<capTried, capErrors, capBlock, capDropped, capStop, capQueue, readVars,
                 loopVars, probeVars>>

\* The loop's condition.
SeesStop ==
  /\ capPhase = "reads" /\ capStop /\ capPhase' = "closes"
  /\ UNCHANGED <<capTried, capHeld, capStrays, capErrors, capBlock, capDropped, capStop,
                 capQueue, readVars, loopVars, probeVars>>

\* read() of the backend brings a block.
CaptureReads ==
  /\ capPhase = "reads" /\ ~capStop /\ capBlock < NBlocks
  /\ capBlock' = capBlock + 1 /\ capErrors' = 0 /\ capPhase' = "puts"
  /\ UNCHANGED <<capTried, capHeld, capStrays, capDropped, capStop, capQueue, readVars,
                 loopVars, probeVars>>

\* It brings nothing, or fails: too often, and the thread stops.  Nobody is told, as a
\* push-to-talk session sets no on_error.
CaptureReadsNothing ==
  /\ capPhase = "reads" /\ ~capStop
  /\ capErrors' = capErrors + 1
  /\ IF capErrors' >= MaxErrorsInRow THEN capStop' = TRUE /\ capPhase' = "closes"
     ELSE UNCHANGED <<capStop, capPhase>>
  /\ UNCHANGED <<capTried, capHeld, capStrays, capBlock, capDropped, capQueue, readVars,
                 loopVars, probeVars>>

\* Variant of HasRoom: one too many.
HasRoomStill == Len(capQueue) <= MaxQueueItems
HasRoom == Len(capQueue) < MaxQueueItems

\* queue.put(): the block is dropped if there is no room for 0.2 s.
CapturePuts ==
  /\ capPhase = "puts" /\ capPhase' = "reads"
  /\ IF HasRoom
     THEN capQueue' = Append(capQueue, capBlock) /\ UNCHANGED capDropped
     ELSE capDropped' = capDropped + 1 /\ UNCHANGED capQueue
  /\ UNCHANGED <<capTried, capHeld, capStrays, capErrors, capBlock, capStop, readVars,
                 loopVars, probeVars>>

\* Variant of Closed: only a stream that was read is closed.
ClosedIfRead == IF capBlock > 0 THEN 0 ELSE capHeld

\* stop() of the backend closes the stream that it has.
Closed == 0

\* The thread ends.
CaptureCloses ==
  /\ capPhase = "closes" /\ capPhase' = "ended"
  /\ capHeld' = Closed
  /\ UNCHANGED <<capTried, capStrays, capErrors, capBlock, capDropped, capStop, capQueue,
                 readVars, loopVars, probeVars>>

CapturingStep ==
  \/ \E d \in Attempts : CaptureOpens(d) \/ CaptureStarts(d)
  \/ SeesStop \/ CaptureReads \/ CaptureReadsNothing \/ CapturePuts \/ CaptureCloses

-----------------------------------------------------------------------------
(* The audio loop of the session                                           *)

\* It starts the source.
LoopStarts ==
  /\ capLoop = "new" /\ capLoop' = "runs"
  /\ capPhase' = "opens" /\ capStop' = FALSE
  /\ UNCHANGED <<capTried, capHeld, capStrays, capErrors, capBlock, capDropped, capQueue,
                 readVars, capRecording, probeVars>>

\* A read is put in the executor.
LoopAsks ==
  /\ capLoop = "runs" /\ capRecording /\ capRead = NoRead /\ capRead' = 0
  /\ UNCHANGED <<sourceVars, capStop, capQueue, capAbandoned, capGivenUp, capLost, capHeard,
                 loopVars, probeVars>>

\* The loop's read takes a block, in its thread.
ReadTakes ==
  /\ capRead = 0 /\ capQueue # <<>>
  /\ capRead' = Head(capQueue) /\ capQueue' = Tail(capQueue)
  /\ UNCHANGED <<sourceVars, capStop, capAbandoned, capGivenUp, capLost, capHeard, loopVars,
                 probeVars>>

\* The loop has it.
LoopHears ==
  /\ capRead \in 1 .. NBlocks
  /\ capHeard' = Append(capHeard, capRead) /\ capRead' = NoRead
  /\ UNCHANGED <<sourceVars, capStop, capQueue, capAbandoned, capGivenUp, capLost, loopVars,
                 probeVars>>

\* wait_for() gives up after 0.1 s without a block: the read still waits, or has just taken
\* a block that is lost.  Of reads that wait for 0.25 s two that were given up before may
\* still be waiting at most.
LoopGivesUp ==
  /\ capLoop = "runs" /\ capRead # NoRead
  /\ capGivenUp < NGiveUps /\ capAbandoned < 2
  /\ capGivenUp' = capGivenUp + 1 /\ capRead' = NoRead
  /\ IF capRead = 0 THEN capAbandoned' = capAbandoned + 1 /\ UNCHANGED capLost
     ELSE capLost' = capLost \cup {capRead} /\ UNCHANGED capAbandoned
  /\ UNCHANGED <<sourceVars, capStop, capQueue, capHeard, loopVars, probeVars>>

\* Variant of Taken: what it took is heard.
TakenIsHeard ==
  capHeard' = Append(capHeard, Head(capQueue)) /\ UNCHANGED capLost

\* A block that an abandoned read takes is lost.
Taken == capLost' = capLost \cup {Head(capQueue)} /\ UNCHANGED capHeard

\* Variant of ReadReturns: the read goes on.
ReadReturnsNot == UNCHANGED capAbandoned

\* A read that was given up is over once it has a block, or none in its time.
ReadReturns == capAbandoned' = capAbandoned - 1

AbandonedTakes ==
  /\ capAbandoned > 0 /\ capQueue # <<>>
  /\ capQueue' = Tail(capQueue) /\ Taken /\ ReadReturns
  /\ UNCHANGED <<sourceVars, capStop, capRead, capGivenUp, loopVars, probeVars>>

AbandonedEnds ==
  /\ capAbandoned > 0 /\ capQueue = <<>> /\ ReadReturns
  /\ UNCHANGED <<sourceVars, capStop, capQueue, capRead, capGivenUp, capLost, capHeard,
                 loopVars, probeVars>>

\* The session is stopped.
SessionStops ==
  /\ capRecording /\ capRecording' = FALSE
  /\ UNCHANGED <<sourceVars, capStop, capQueue, readVars, capLoop, probeVars>>

\* Between two reads, or after one was given up, the loop sees it: it stops the source, and
\* what is left in the queue is not heard.
HearingEnds ==
  /\ capLoop = "runs" /\ ~capRecording
  /\ capRead = NoRead \/ (capRead = 0 /\ capQueue = <<>>)
  /\ capLoop' = "ended" /\ capRead' = NoRead
  /\ capAbandoned' = IF capRead = 0 THEN capAbandoned + 1 ELSE capAbandoned
  /\ capGivenUp' = IF capRead = 0 THEN capGivenUp + 1 ELSE capGivenUp
  /\ capStop' = TRUE
  /\ UNCHANGED <<sourceVars, capQueue, capLost, capHeard, capRecording, probeVars>>

HearingStep == LoopStarts \/ LoopAsks \/ ReadTakes \/ LoopHears \/ HearingEnds

-----------------------------------------------------------------------------
(* Probes                                                                  *)

\* probe_device(): a backend is opened, or the probe fails.
ProbeOpens(d) ==
  /\ probePhase = "none" /\ probes < NProbes /\ d \in Attempts
  /\ probes' = probes + 1 /\ probePhase' = IF d # 0 THEN "open" ELSE "none"
  /\ UNCHANGED <<sourceVars, capStop, capQueue, readVars, loopVars>>

\* Its sound is taken and written, or that fails; its stream is closed in either case.
ProbeEnds ==
  /\ probePhase = "open" /\ probePhase' = "none"
  /\ UNCHANGED <<sourceVars, capStop, capQueue, readVars, loopVars, probes>>

CaptureNext ==
  \/ CapturingStep \/ HearingStep \/ LoopGivesUp \/ SessionStops
  \/ AbandonedTakes \/ AbandonedEnds
  \/ \E d \in Attempts : ProbeOpens(d)
  \/ ProbeEnds

CaptureSpec == CaptureInit /\ [][CaptureNext]_captureVars

\* The thread and the loop run on: a backend's read ends after 0.25 s, and a wait for it
\* after 0.1 s.
CaptureFairSpec ==
  CaptureSpec /\ WF_captureVars(CapturingStep) /\ WF_captureVars(HearingStep)

-----------------------------------------------------------------------------
(* Properties                                                              *)

\* The variables have their types.
CaptureTypeOK ==
  /\ capPhase \in {"waits", "opens", "starts", "reads", "puts", "closes", "ended"}
  /\ capHeld \in Attempts /\ capStrays \in {0, 1} /\ capTried <= Len(CaptureBackends)
  /\ Len(capQueue) <= MaxQueueItems /\ capErrors <= MaxErrorsInRow
  /\ capRead \in 0 .. NoRead /\ capAbandoned \in 0 .. 3 /\ capLost \subseteq 1 .. NBlocks

\* The recording has its blocks in the order in which they were captured, whatever a read
\* that was given up takes in between.
HeardInOrder ==
  \A i, j \in 1 .. Len(capHeard) : i < j => capHeard[i] < capHeard[j]

\* A read that was given up costs one block at most, and nothing else does: a block that is
\* neither dropped nor lost so was heard, or is still to be.
LossIsBounded ==
  /\ Cardinality(capLost) + capAbandoned <= capGivenUp
  /\ capBlock = Len(capHeard) + Len(capQueue) + capDropped + Cardinality(capLost)
                + (IF capPhase = "puts" THEN 1 ELSE 0)
                + (IF capRead \in 1 .. NBlocks THEN 1 ELSE 0)

\* The stream is closed after a session was stopped, whatever its thread was doing.
StreamIsClosed ==
  []<>(capRecording \/ capLoop = "new" \/ (capPhase = "ended" /\ capHeld = 0))

\* "Context manager-based recorder lifecycle" (docs/engineering/audio-capture.md:174): every
\* recorder that was opened has been closed when the capture is over.
\* The code does not keep this: README, section 6.
RecordersAreClosed == capPhase = "ended" => capHeld = 0 /\ capStrays = 0

\* "max_queue_items = 10  # Allow ~5 seconds of audio buffering" (api/server.py:1365): no
\* block is dropped before 5 seconds of them, at 0.02 seconds a block, are waiting.
\* The code does not keep this: README, section 6.
FiveSecondsAreBuffered == capDropped = 0 \/ capBlock - Len(capHeard) >= 250

\* The recording is in order and misses no more than the reads that were given up explain.
CaptureInv == CaptureTypeOK /\ HeardInOrder /\ LossIsBounded
=============================================================================
