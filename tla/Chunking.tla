------------------------------ MODULE Chunking ------------------------------
(***************************************************************************)
(* The chunker of live sessions, stt/fast_chunker.py, under one thread of  *)
(* its caller (core/session_manager.py, core/system_session.py).  Sizes    *)
(* and times are in units of 50 ms, a sample is the unit of the stream at  *)
(* which it was captured, counted from 1, and 0 where there is none; the   *)
(* ring buffer is modelled with its positions.  Whether the energy of a    *)
(* piece is above the threshold is a free choice.  The loop over the       *)
(* buffered audio is one action per turn.                                  *)
(***************************************************************************)
EXTENDS Integers, Sequences, SequencesExt

CONSTANTS Base, Overlap, MinSize, MaxSize, \* base_, overlap_, min_ and max_samples
          HysteresisSize, \* of the voice activity detector
          DensityWindow,  \* length of _speech_density_window (10 in the code)
          Blocks,         \* lengths of the blocks that the caller pushes
          NBlocks         \* bound: blocks pushed

\* The chunker of a live session takes Base and Overlap from the live mode and the other
\* sizes from ChunkConfig's defaults: Base can be more than MaxSize.
ASSUME ChunkingAssumption ==
  /\ Base \in Nat \ {0} /\ Overlap \in 1 .. Base - 1
  /\ MinSize \in Nat \ {0} /\ MaxSize \in Nat \ {0} /\ HysteresisSize \in Nat \ {0}
  /\ DensityWindow \in Nat \ {0} /\ Blocks \subseteq Nat \ {0} /\ NBlocks \in Nat

Capacity == (MaxSize * 3) \div 2
Larger(a, b) == IF a > b THEN a ELSE b
Smaller(a, b) == IF a < b THEN a ELSE b

VARIABLES
  ring, writePos, readPos, size, \* ZeroCopyBuffer
  voice, speechCount, silenceCount, \* VoiceActivityDetector
  overlap,      \* _overlap_buffer
  chunkSize,    \* _adaptive_size
  density,      \* _speech_density_window
  nextStart,    \* _next_chunk_time
  chunking,     \* a push is in the loop
  chunk,        \* the last chunk: samples, start and the length of its overlap
  pushed,       \* samples captured so far
  taken,        \* history: the last of them that was put in a chunk, or cleared
  blocks,       \* blocks pushed, for the bound
  tooLong       \* history: a single block was longer than the buffer

ringVars == <<ring, writePos, readPos, size>>
voiceVars == <<voice, speechCount, silenceCount>>
chunkVars == <<ringVars, voiceVars, overlap, chunkSize, density, nextStart, chunking, chunk,
               pushed, taken, blocks, tooLong>>

Zeros == [i \in 1 .. Overlap |-> 0]
NoChunk == [samples |-> <<>>, start |-> 0, overlap |-> 0]

ChunkingInit ==
  /\ ring = [i \in 0 .. Capacity - 1 |-> 0] /\ writePos = 0 /\ readPos = 0 /\ size = 0
  /\ voice = "silence" /\ speechCount = 0 /\ silenceCount = 0
  /\ overlap = Zeros
  /\ chunkSize = Base
  /\ density = <<>>
  /\ nextStart = 0
  /\ chunking = FALSE
  /\ chunk = NoChunk
  /\ pushed = 0 /\ taken = 0 /\ blocks = 0 /\ tooLong = FALSE

-----------------------------------------------------------------------------
(* The ring buffer                                                         *)

\* Variant of ReadPosition: it stays where it is when the buffer runs over.
ReadPositionKept(n) == readPos

\* A full buffer is read from where it is written next: the oldest samples are gone.
ReadPosition(n) ==
  IF Smaller(size + n, Capacity) = Capacity THEN (writePos + n) % Capacity ELSE readPos

\* push(): of a block longer than the buffer the newest samples are kept.
RingPush(length) ==
  LET n == Smaller(length, Capacity)
      At(i) == (i - writePos) % Capacity   \* how far behind writePos a place is
  IN  /\ ring' = [i \in DOMAIN ring |-> IF At(i) < n THEN pushed + length - n + At(i) + 1
                                        ELSE ring[i]]
      /\ writePos' = (writePos + n) % Capacity
      /\ size' = Smaller(size + n, Capacity)
      /\ readPos' = ReadPosition(n)

RingPeek(n) == [i \in 1 .. Smaller(n, size) |-> ring[(readPos + i - 1) % Capacity]]

RingPop(n) ==
  /\ readPos' = (readPos + n) % Capacity
  /\ size' = size - n
  /\ UNCHANGED <<ring, writePos>>

RingClear == writePos' = 0 /\ readPos' = 0 /\ size' = 0 /\ UNCHANGED ring

-----------------------------------------------------------------------------
(* Voice activity, with hysteresis                                         *)

\* Variant of VoiceTurns: the count stays where it was.
VoiceTurnsCounting(count, to) ==
  [voice |-> to, speech |-> count, silence |-> silenceCount]

\* The state changes once enough has been counted, and the count begins anew.
VoiceTurns(count, to) == [voice |-> to, speech |-> 0, silence |-> 0]

\* process() of n samples with energy above the threshold or not.
Heard(n, loud) ==
  LET up == speechCount + n
      down == silenceCount + n
  IN  IF voice = "silence"
      THEN IF loud THEN IF up >= HysteresisSize THEN VoiceTurns(up, "speech")
                        ELSE [voice |-> voice, speech |-> up, silence |-> silenceCount]
           ELSE [voice |-> voice, speech |-> Larger(0, speechCount - n \div 2),
                 silence |-> silenceCount]
      ELSE IF ~loud THEN IF down >= HysteresisSize THEN VoiceTurns(down, "silence")
                         ELSE [voice |-> voice, speech |-> speechCount, silence |-> down]
           ELSE [voice |-> voice, speech |-> speechCount,
                 silence |-> Larger(0, silenceCount - n \div 2)]

VoiceBecomes(h) ==
  voice' = h.voice /\ speechCount' = h.speech /\ silenceCount' = h.silence

-----------------------------------------------------------------------------
(* Chunks                                                                  *)

\* _update_adaptive_size()
AdaptiveSize ==
  LET speech == Len(SelectSeq(density, LAMBDA s : s))
      n == Len(density)
  IN  CASE n < 3 -> Base
        [] n >= 3 /\ 10 * speech > 7 * n -> Larger(MinSize, (Base * 3) \div 4)
        [] n >= 3 /\ 10 * speech < 2 * n -> Smaller(MaxSize, (Base * 5) \div 4)
        [] OTHER -> Base

ChunkPush(length) ==
  /\ ~chunking /\ blocks < NBlocks
  /\ blocks' = blocks + 1
  /\ RingPush(length)
  /\ pushed' = pushed + length
  /\ tooLong' = (tooLong \/ length > Capacity)
  /\ chunking' = TRUE
  /\ UNCHANGED <<voiceVars, overlap, chunkSize, density, nextStart, chunk, taken>>

\* Variant of Trailing: it is taken from the front of the piece.
Leading(piece) == IF Len(piece) >= Overlap THEN SubSeq(piece, 1, Overlap) ELSE Zeros

\* The overlap of the next chunk.
Trailing(piece) ==
  IF Len(piece) >= Overlap THEN SubSeq(piece, Len(piece) - Overlap + 1, Len(piece)) ELSE Zeros

\* Variant of Popped: the overlap is taken out with the piece.
PoppedMore(n) == Smaller(n + Overlap, size)

\* How many samples a chunk of n takes out of the buffer.
Popped(n) == n

\* A turn of the loop: the size is adapted, the detector has heard the piece, and the chunk
\* is emitted if it is long enough or in speech; if not, the piece will be heard again.
\* The time advances by the size less the overlap, the stream by the size.
ChunkTurn(loud) ==
  LET adapted == AdaptiveSize
      n == Smaller(adapted, size)
      piece == RingPeek(n)
      heard == Heard(n, loud)
  IN
  /\ chunking /\ size >= chunkSize
  /\ chunkSize' = adapted
  /\ VoiceBecomes(heard)
  /\ IF (heard.voice = "speech" /\ n >= MinSize) \/ n >= adapted
     THEN /\ RingPop(Popped(n))
          /\ chunk' = [samples |-> overlap \o piece, start |-> nextStart, overlap |-> Overlap]
          /\ taken' = piece[n]
          /\ overlap' = Trailing(piece)
          /\ nextStart' = nextStart + n - Overlap
          /\ density' = LET all == Append(density, heard.voice = "speech")
                        IN  IF Len(all) > DensityWindow THEN Tail(all) ELSE all
          /\ UNCHANGED chunking
     ELSE /\ chunking' = FALSE
          /\ UNCHANGED <<ringVars, chunk, taken, overlap, nextStart, density>>
  /\ UNCHANGED <<pushed, blocks, tooLong>>

ChunkWaits ==
  /\ chunking /\ size < chunkSize
  /\ chunking' = FALSE
  /\ UNCHANGED <<ringVars, voiceVars, overlap, chunkSize, density, nextStart, chunk, pushed,
                 taken, blocks, tooLong>>

\* flush(): what is left is the last chunk, heard together with its overlap.
ChunkFlush(loud) ==
  /\ ~chunking
  /\ IF size = 0 THEN UNCHANGED <<voiceVars, chunk>>
     ELSE /\ chunk' = [samples |-> overlap \o RingPeek(size), start |-> nextStart,
                       overlap |-> Overlap]
          /\ VoiceBecomes(Heard(Overlap + size, loud))
  /\ taken' = pushed
  /\ RingClear
  /\ overlap' = Zeros
  /\ UNCHANGED <<chunkSize, density, nextStart, chunking, pushed, blocks, tooLong>>

ChunkReset ==
  /\ ~chunking
  /\ RingClear
  /\ voice' = "silence" /\ speechCount' = 0 /\ silenceCount' = 0
  /\ overlap' = Zeros
  /\ nextStart' = 0 /\ chunkSize' = Base /\ density' = <<>>
  /\ chunk' = NoChunk
  /\ pushed' = 0 /\ taken' = 0 /\ tooLong' = FALSE
  /\ UNCHANGED <<chunking, blocks>>

ChunkingNext ==
  \/ \E length \in Blocks : ChunkPush(length)
  \/ \E loud \in BOOLEAN : ChunkTurn(loud) \/ ChunkFlush(loud)
  \/ ChunkWaits \/ ChunkReset

ChunkingSpec == ChunkingInit /\ [][ChunkingNext]_chunkVars

-----------------------------------------------------------------------------
(* Properties                                                              *)

\* The variables have their types; a count is begun anew with each state of the detector,
\* and kept below what would change the state.
ChunkingTypeOK ==
  /\ DOMAIN ring = 0 .. Capacity - 1
  /\ writePos \in 0 .. Capacity - 1 /\ readPos \in 0 .. Capacity - 1 /\ size \in 0 .. Capacity
  /\ voice \in {"silence", "speech"}
  /\ speechCount \in 0 .. HysteresisSize - 1 /\ silenceCount \in 0 .. HysteresisSize - 1
  /\ (voice = "silence" => silenceCount = 0) /\ (voice = "speech" => speechCount = 0)
  /\ Len(overlap) = Overlap
  /\ chunkSize \in 1 .. Larger(Base, MaxSize)
  /\ Len(density) <= DensityWindow
  /\ chunking \in BOOLEAN /\ tooLong \in BOOLEAN

\* The ring buffer holds the newest samples in their order, however pushes wrap around its
\* end, fill it, run over it or are longer than it, and however much was popped in between.
RingHoldsNewest == RingPeek(size) = [i \in 1 .. size |-> pushed - size + i]

\* Each sample is put in a chunk or still buffered: the chunker emits what it has before a
\* push can run over it.  With the base size of the live modes "balanced" (the default) and
\* "high_accuracy" the buffer, made for max_chunk_ms, is shorter than a chunk, and none is
\* ever emitted.
EverySampleIsKept == tooLong \/ taken + size = pushed

\* A chunk is an unbroken piece of the stream: its overlap ends where its own samples
\* begin, or is all zeros at the beginning of a stream and after a flush.
ChunksAreUnbroken ==
  LET s == chunk.samples IN
  tooLong \/ \A i \in 2 .. Len(s) :
    \/ s[i] = s[i - 1] + 1
    \/ i <= Overlap + 1 /\ s[i - 1] = 0 /\ (i <= Overlap => s[i] = 0)

\* "Chunk start time relative to stream start" (fast_chunker.py:90): a chunk's own samples
\* begin one overlap after its start.
\* The code does not keep this: README, section 6.
StartTimesAreTrue ==
  chunk = NoChunk \/ chunk.samples[chunk.overlap + 1] = chunk.start + chunk.overlap + 1

\* The chunks are unbroken pieces of the stream that leave nothing of it out.
ChunkingInv == ChunkingTypeOK /\ RingHoldsNewest /\ EverySampleIsKept /\ ChunksAreUnbroken
=============================================================================
