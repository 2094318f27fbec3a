-------------------------- MODULE Keeping_proofs --------------------------
(***************************************************************************)
(* Proofs about what is kept of what was said, for every value of the      *)
(* constants: every behaviour of CaptureReads and of History, by itself    *)
(* and in the composition, has its invariant.                              *)
(***************************************************************************)
EXTENDS MCServer, FiniteSetTheorems, SequenceTheorems, TLAPS

-----------------------------------------------------------------------------
(* capture.py and the audio loop of server.py.  Every block is in one place: heard, in the *)
(* loop's hand, in the queue, in the thread's hand, or counted as dropped or lost; and the *)
(* places are in the order of the blocks.                                                  *)

\* A value makes a set larger by one at most.
LEMMA OneMore ==
  ASSUME NEW S, NEW x, IsFiniteSet(S)
  PROVE  /\ IsFiniteSet(S \cup {x}) /\ Cardinality(S \cup {x}) \in Nat
         /\ Cardinality(S) \in Nat /\ Cardinality(S \cup {x}) <= Cardinality(S) + 1
<1>1. IsFiniteSet(S \cup {x}) /\ Cardinality(S \cup {x}) \in Nat /\ Cardinality(S) \in Nat
  BY FS_AddElement, FS_CardinalityType
<1>2. Cardinality(S \cup {x}) = IF x \in S THEN Cardinality(S) ELSE Cardinality(S) + 1
  BY FS_AddElement
<1> QED
  BY <1>1, <1>2

\* A new value makes a set larger by one.
LEMMA OneNew ==
  ASSUME NEW S, NEW x, IsFiniteSet(S), x \notin S
  PROVE  /\ IsFiniteSet(S \cup {x}) /\ Cardinality(S) \in Nat
         /\ Cardinality(S \cup {x}) = Cardinality(S) + 1
BY FS_AddElement, FS_CardinalityType

\* What is taken off a sequence, and what is left of it.
LEMMA TakenOff ==
  ASSUME NEW S, NEW q \in Seq(S), q # <<>>
  PROVE  /\ Tail(q) \in Seq(S) /\ Len(Tail(q)) = Len(q) - 1 /\ Len(q) \in Nat /\ Len(q) >= 1
         /\ \A i \in 1 .. Len(q) - 1 : Tail(q)[i] = q[i + 1]
         /\ Head(q) = q[1] /\ Head(q) \in S /\ 1 \in 1 .. Len(q)
BY HeadTailProperties

\* What is put at the end of a sequence.
LEMMA PutOn ==
  ASSUME NEW S, NEW q \in Seq(S), NEW x \in S
  PROVE  /\ Append(q, x) \in Seq(S) /\ Len(Append(q, x)) = Len(q) + 1 /\ Len(q) \in Nat
         /\ \A i \in 1 .. Len(q) : Append(q, x)[i] = q[i]
         /\ Append(q, x)[Len(q) + 1] = x
         /\ \A i \in 1 .. Len(q) + 1 : i \in 1 .. Len(q) \/ i = Len(q) + 1
BY AppendProperties

CapPhaseFits ==
  /\ capPhase \in {"waits", "opens", "starts", "reads", "puts", "closes", "ended"}
  /\ capHeld \in Attempts /\ capTried \in Nat /\ capTried <= Len(CaptureBackends)
  /\ capPhase \in {"waits", "opens"} => capTried < Len(CaptureBackends)
CapStraysFit ==
  capStrays \in {0, 1} /\ (capPhase \in {"waits", "opens", "starts"} => capStrays = 0)
CapErrorsFit ==
  /\ capErrors \in Nat /\ capErrors <= MaxErrorsInRow
  /\ capPhase \in {"waits", "opens", "starts", "reads", "puts"} => capErrors < MaxErrorsInRow
CapLoopFits ==
  capLoop \in {"new", "runs", "ended"} /\ (capLoop = "new" => capPhase = "waits")
CapReadsFit ==
  /\ capRead \in 0 .. NoRead /\ capAbandoned \in 0 .. 3 /\ capGivenUp \in Nat
  /\ capLoop # "ended" => capAbandoned <= 2
CapBlocksFit ==
  capBlock \in 0 .. NBlocks /\ capDropped \in Nat /\ (capPhase = "puts" => capBlock >= 1)
CaptureFits ==
  CapPhaseFits /\ CapStraysFit /\ CapErrorsFit /\ CapLoopFits /\ CapReadsFit /\ CapBlocksFit

CapQueueTyped == capQueue \in Seq(1 .. NBlocks) /\ Len(capQueue) <= MaxQueueItems
CapHeardTyped == capHeard \in Seq(1 .. NBlocks)
CapLostTyped == capLost \subseteq 1 .. NBlocks /\ IsFiniteSet(capLost)
CaptureHolds == CapQueueTyped /\ CapHeardTyped /\ CapLostTyped

\* The last block that the thread is done with.
LastPut == IF capPhase = "puts" THEN capBlock - 1 ELSE capBlock

QueueOrdered ==
  /\ \A i, j \in 1 .. Len(capQueue) : i < j => capQueue[i] < capQueue[j]
  /\ \A i \in 1 .. Len(capQueue) : capQueue[i] <= LastPut

ReadOrdered ==
  capRead \in 1 .. NBlocks =>
    /\ capRead <= LastPut /\ capRead \notin capLost
    /\ \A i \in 1 .. Len(capQueue) : capRead < capQueue[i]

HeardOrdered ==
  \A i \in 1 .. Len(capHeard) :
    /\ capHeard[i] <= LastPut
    /\ capRead \in 1 .. NBlocks => capHeard[i] < capRead
    /\ \A j \in 1 .. Len(capQueue) : capHeard[i] < capQueue[j]

LostOrdered ==
  \A b \in capLost : b <= LastPut /\ \A i \in 1 .. Len(capQueue) : b < capQueue[i]

CaptureIInv ==
  /\ CaptureFits /\ CaptureHolds
  /\ QueueOrdered /\ ReadOrdered /\ HeardOrdered /\ HeardInOrder /\ LostOrdered
  /\ LossIsBounded

\* The initial state satisfies the invariant.
LEMMA CaptureInitInv == CaptureInit => CaptureIInv
<1> SUFFICES ASSUME CaptureInit PROVE CaptureIInv
  OBVIOUS
<1> USE CaptureAssumption DEF CaptureInit
<1>1. Len(CaptureBackends) \in Nat /\ Len(CaptureBackends) # 0
  BY EmptySeq, LenProperties
<1>2. CaptureFits
  <2> USE DEF CaptureFits, Attempts, NoRead
  <2>1. CapPhaseFits
    BY <1>1 DEF CaptureInit, CapPhaseFits
  <2>2. CapStraysFit
    BY <1>1 DEF CaptureInit, CapStraysFit
  <2>3. CapErrorsFit
    BY <1>1 DEF CaptureInit, CapErrorsFit
  <2>4. CapLoopFits
    BY <1>1 DEF CaptureInit, CapLoopFits
  <2>5. CapReadsFit
    BY <1>1 DEF CaptureInit, CapReadsFit
  <2>6. CapBlocksFit
    BY <1>1 DEF CaptureInit, CapBlocksFit
  <2> QED
    BY <2>1, <2>2, <2>3, <2>4, <2>5, <2>6 DEF CapPhaseFits, CapStraysFit, CapErrorsFit,
       CapLoopFits, CapReadsFit, CapBlocksFit
<1>3. CaptureHolds
  BY EmptySeq, FS_EmptySet DEF CaptureHolds, CapQueueTyped, CapHeardTyped, CapLostTyped
<1>4. Len(capQueue) = 0 /\ Len(capHeard) = 0 /\ Cardinality(capLost) = 0
  BY EmptySeq, FS_EmptySet
<1>5. QueueOrdered /\ ReadOrdered /\ HeardOrdered /\ HeardInOrder /\ LostOrdered
  BY <1>4 DEF QueueOrdered, ReadOrdered, HeardOrdered, HeardInOrder, LostOrdered, NoRead
<1>6. LossIsBounded
  BY <1>4 DEF LossIsBounded, NoRead
<1> QED
  BY <1>2, <1>3, <1>5, <1>6 DEF CaptureIInv

\* The thread and the loop keep to their places and bounds.
LEMMA CaptureFitsNext == CaptureIInv /\ [CaptureNext]_captureVars => CaptureFits'
<1> SUFFICES ASSUME CaptureIInv, [CaptureNext]_captureVars PROVE CaptureFits'
  OBVIOUS
<1> USE CaptureAssumption DEF CaptureIInv, sourceVars, readVars, loopVars, probeVars,
     CaptureFits, Attempts, NoRead, CapPhaseFits, CapStraysFit, CapErrorsFit, CapLoopFits,
     CapReadsFit, CapBlocksFit
<1>1. ASSUME NEW d \in Attempts, CaptureOpens(d) PROVE CaptureFits'
  <2>1. CapPhaseFits'
    BY <1>1, LenProperties DEF CaptureOpens, Opened, CapPhaseFits
  <2>2. CapStraysFit' /\ CapErrorsFit' /\ CapLoopFits' /\ CapReadsFit' /\ CapBlocksFit'
    BY <1>1 DEF CapStraysFit, CapErrorsFit, CapLoopFits, CapReadsFit, CapBlocksFit,
       CaptureOpens, Opened
  <2> QED
    BY <2>1, <2>2 DEF CapPhaseFits, CapStraysFit, CapErrorsFit, CapLoopFits, CapReadsFit,
       CapBlocksFit
<1>2. ASSUME NEW d \in Attempts, CaptureStarts(d) PROVE CaptureFits'
  BY <1>2 DEF CapPhaseFits, CapStraysFit, CapErrorsFit, CapLoopFits, CapReadsFit,
     CapBlocksFit, CaptureStarts
<1>3. CASE SeesStop
  BY <1>3 DEF CapPhaseFits, CapStraysFit, CapErrorsFit, CapLoopFits, CapReadsFit,
     CapBlocksFit, SeesStop
<1>4. CASE CaptureReads
  BY <1>4 DEF CapPhaseFits, CapStraysFit, CapErrorsFit, CapLoopFits, CapReadsFit,
     CapBlocksFit, CaptureReads
<1>5. CASE CaptureReadsNothing
  BY <1>5 DEF CapPhaseFits, CapStraysFit, CapErrorsFit, CapLoopFits, CapReadsFit,
     CapBlocksFit, CaptureReadsNothing
<1>6. CASE CapturePuts
  BY <1>6 DEF CapPhaseFits, CapStraysFit, CapErrorsFit, CapLoopFits, CapReadsFit,
     CapBlocksFit, CapturePuts, HasRoom
<1>7. CASE CaptureCloses
  BY <1>7 DEF CapPhaseFits, CapStraysFit, CapErrorsFit, CapLoopFits, CapReadsFit,
     CapBlocksFit, CaptureCloses, Closed
<1>8. CASE LoopStarts
  BY <1>8 DEF CapPhaseFits, CapStraysFit, CapErrorsFit, CapLoopFits, CapReadsFit,
     CapBlocksFit, LoopStarts
<1>9. CASE LoopAsks
  BY <1>9 DEF CapPhaseFits, CapStraysFit, CapErrorsFit, CapLoopFits, CapReadsFit,
     CapBlocksFit, LoopAsks
<1>10. CASE ReadTakes
  <2>1. CapPhaseFits' /\ CapStraysFit' /\ CapErrorsFit' /\ CapLoopFits' /\ CapBlocksFit'
    BY <1>10 DEF CapPhaseFits, CapStraysFit, CapErrorsFit, CapLoopFits, CapBlocksFit,
       ReadTakes
  <2>2. CapReadsFit'
    BY <1>10, TakenOff DEF ReadTakes, CaptureHolds, CapQueueTyped, CapReadsFit
  <2> QED
    BY <2>1, <2>2 DEF CapPhaseFits, CapStraysFit, CapErrorsFit, CapLoopFits, CapReadsFit,
       CapBlocksFit
<1>11. CASE LoopHears
  BY <1>11 DEF CapPhaseFits, CapStraysFit, CapErrorsFit, CapLoopFits, CapReadsFit,
     CapBlocksFit, LoopHears
<1>12. CASE LoopGivesUp
  BY <1>12 DEF CapPhaseFits, CapStraysFit, CapErrorsFit, CapLoopFits, CapReadsFit,
     CapBlocksFit, LoopGivesUp
<1>13. CASE AbandonedTakes
  BY <1>13 DEF CapPhaseFits, CapStraysFit, CapErrorsFit, CapLoopFits, CapReadsFit,
     CapBlocksFit, AbandonedTakes, Taken, ReadReturns
<1>14. CASE AbandonedEnds
  BY <1>14 DEF CapPhaseFits, CapStraysFit, CapErrorsFit, CapLoopFits, CapReadsFit,
     CapBlocksFit, AbandonedEnds, ReadReturns
<1>15. CASE SessionStops
  BY <1>15 DEF CapPhaseFits, CapStraysFit, CapErrorsFit, CapLoopFits, CapReadsFit,
     CapBlocksFit, SessionStops
<1>16. CASE HearingEnds
  BY <1>16 DEF CapPhaseFits, CapStraysFit, CapErrorsFit, CapLoopFits, CapReadsFit,
     CapBlocksFit, HearingEnds
<1>17. ASSUME NEW d \in Attempts, ProbeOpens(d) PROVE CaptureFits'
  BY <1>17 DEF CapPhaseFits, CapStraysFit, CapErrorsFit, CapLoopFits, CapReadsFit,
     CapBlocksFit, ProbeOpens
<1>18. CASE ProbeEnds
  BY <1>18 DEF CapPhaseFits, CapStraysFit, CapErrorsFit, CapLoopFits, CapReadsFit,
     CapBlocksFit, ProbeEnds
<1>19. CASE UNCHANGED captureVars
  BY <1>19 DEF CapPhaseFits, CapStraysFit, CapErrorsFit, CapLoopFits, CapReadsFit,
     CapBlocksFit, captureVars
<1> QED
  BY <1>1, <1>2, <1>3, <1>4, <1>5, <1>6, <1>7, <1>8, <1>9, <1>10, <1>11, <1>12, <1>13, <1>14,
     <1>15, <1>16, <1>17, <1>18, <1>19 DEF CaptureNext, CapturingStep, HearingStep

\* The queue, the recording and the lost blocks are of blocks.
LEMMA CaptureHoldsNext == CaptureIInv /\ [CaptureNext]_captureVars => CaptureHolds'
<1> SUFFICES ASSUME CaptureIInv, [CaptureNext]_captureVars PROVE CaptureHolds'
  OBVIOUS
<1> USE CaptureAssumption DEF CaptureIInv, sourceVars, readVars, loopVars, probeVars,
     CaptureHolds, CapQueueTyped, CapHeardTyped, CapLostTyped
<1>1. ASSUME NEW d \in Attempts, CaptureOpens(d) PROVE CaptureHolds'
  BY <1>1 DEF CaptureOpens, Opened
<1>2. ASSUME NEW d \in Attempts, CaptureStarts(d) PROVE CaptureHolds'
  BY <1>2 DEF CaptureStarts
<1>3. CASE SeesStop
  BY <1>3 DEF SeesStop
<1>4. CASE CaptureReads
  BY <1>4 DEF CaptureReads
<1>5. CASE CaptureReadsNothing
  BY <1>5 DEF CaptureReadsNothing
<1>6. CASE CapturePuts
  <2>1. /\ capPhase = "puts" /\ capPhase' = "reads" /\ capBlock' = capBlock
        /\ UNCHANGED <<capRead, capAbandoned, capGivenUp, capLost, capHeard>>
        /\ capBlock \in 1 .. NBlocks /\ capDropped \in Nat
        /\ \/ /\ Len(capQueue) < MaxQueueItems /\ capQueue' = Append(capQueue, capBlock)
              /\ capDropped' = capDropped
           \/ capQueue' = capQueue /\ capDropped' = capDropped + 1
    BY <1>6 DEF CapturePuts, HasRoom, CaptureFits, CapBlocksFit
  <2>2. capQueue \in Seq(1 .. NBlocks) /\ capHeard \in Seq(1 .. NBlocks)
    BY DEF CaptureHolds, CapQueueTyped, CapHeardTyped
  <2> DEFINE q == Append(capQueue, capBlock)
  <2>3. /\ q \in Seq(1 .. NBlocks) /\ Len(q) = Len(capQueue) + 1 /\ Len(capQueue) \in Nat
        /\ \A i \in 1 .. Len(capQueue) : q[i] = capQueue[i]
        /\ q[Len(capQueue) + 1] = capBlock
        /\ \A i \in 1 .. Len(capQueue) + 1 : i \in 1 .. Len(capQueue) \/ i = Len(capQueue) + 1
    BY <2>1, <2>2, PutOn
  <2>4. capQueue' = q \/ capQueue' = capQueue
    BY <2>1
  <2> HIDE DEF q
  <2>5. \A i \in 1 .. Len(capQueue') :
          \/ i \in 1 .. Len(capQueue) /\ capQueue'[i] = capQueue[i]
          \/ /\ i = Len(capQueue) + 1 /\ capQueue'[i] = capBlock
    BY <2>3, <2>4
  <2>6. LastPut' = capBlock /\ LastPut = capBlock - 1
    BY <2>1 DEF LastPut
  <2>9. /\ Len(capQueue) \in Nat /\ Len(capHeard) \in Nat
        /\ \A i \in 1 .. Len(capQueue) : capQueue[i] \in 1 .. NBlocks
        /\ \A i \in 1 .. Len(capHeard) : capHeard[i] \in 1 .. NBlocks
        /\ capBlock \in Nat /\ capLost \subseteq 1 .. NBlocks
    BY DEF CaptureHolds, CapQueueTyped, CapHeardTyped, CapLostTyped, CaptureFits, CapBlocksFit
  <2> QED
    BY <2>1, <2>3, <2>4
<1>7. CASE CaptureCloses
  BY <1>7 DEF CaptureCloses, Closed
<1>8. CASE LoopStarts
  BY <1>8 DEF LoopStarts
<1>9. CASE LoopAsks
  BY <1>9 DEF LoopAsks
<1>10. CASE ReadTakes
  <2>1. /\ capQueue # <<>> /\ capQueue' = Tail(capQueue)
        /\ UNCHANGED <<capPhase, capBlock, capDropped, capHeld, capGivenUp>>
    BY <1>10 DEF ReadTakes
  <2>2. capQueue \in Seq(1 .. NBlocks) /\ capHeard \in Seq(1 .. NBlocks)
    BY DEF CaptureHolds, CapQueueTyped, CapHeardTyped
  <2>3. /\ capQueue' \in Seq(1 .. NBlocks) /\ Len(capQueue') = Len(capQueue) - 1
        /\ Len(capQueue) \in Nat /\ Len(capQueue) >= 1
        /\ \A i \in 1 .. Len(capQueue) - 1 : capQueue'[i] = capQueue[i + 1]
        /\ Head(capQueue) = capQueue[1] /\ Head(capQueue) \in 1 .. NBlocks
        /\ 1 \in 1 .. Len(capQueue)
    BY <2>1, <2>2, TakenOff
  <2>4. \A i \in 1 .. Len(capQueue') :
          i \in 1 .. Len(capQueue) /\ i + 1 \in 1 .. Len(capQueue)
            /\ capQueue'[i] = capQueue[i + 1]
    BY <2>3
  <2>5. ASSUME NEW i \in 1 .. Len(capQueue') PROVE capQueue[1] < capQueue'[i]
    <3>1. /\ 1 \in 1 .. Len(capQueue) /\ i + 1 \in 1 .. Len(capQueue) /\ 1 < i + 1
          /\ capQueue'[i] = capQueue[i + 1]
      BY <2>3, <2>4
    <3> QED
      BY <3>1 DEF QueueOrdered
  <2>6. LastPut' = LastPut
    BY <2>1 DEF LastPut
  <2>9. /\ Len(capQueue) \in Nat /\ Len(capHeard) \in Nat
        /\ \A i \in 1 .. Len(capQueue) : capQueue[i] \in 1 .. NBlocks
        /\ \A i \in 1 .. Len(capHeard) : capHeard[i] \in 1 .. NBlocks
        /\ capBlock \in Nat /\ capLost \subseteq 1 .. NBlocks
    BY DEF CaptureHolds, CapQueueTyped, CapHeardTyped, CapLostTyped, CaptureFits, CapBlocksFit
  <2>7. capRead = 0 /\ capRead' = capQueue[1] /\ UNCHANGED <<capLost, capHeard, capAbandoned>>
    BY <1>10, <2>3 DEF ReadTakes
  <2> QED
    BY <2>1, <2>3, <2>7
<1>11. CASE LoopHears
  <2>1. /\ capRead \in 1 .. NBlocks /\ capHeard' = Append(capHeard, capRead)
        /\ capRead' = NoRead
        /\ UNCHANGED <<capPhase, capBlock, capDropped, capQueue, capLost, capAbandoned,
             capGivenUp>>
    BY <1>11 DEF LoopHears
  <2>2. capHeard \in Seq(1 .. NBlocks)
    BY DEF CaptureHolds, CapHeardTyped
  <2>3. /\ capHeard' \in Seq(1 .. NBlocks) /\ Len(capHeard') = Len(capHeard) + 1
        /\ Len(capHeard) \in Nat
        /\ \A i \in 1 .. Len(capHeard) : capHeard'[i] = capHeard[i]
        /\ capHeard'[Len(capHeard) + 1] = capRead
        /\ \A i \in 1 .. Len(capHeard) + 1 : i \in 1 .. Len(capHeard) \/ i = Len(capHeard) + 1
    BY <2>1, <2>2, PutOn
  <2>4. \A i \in 1 .. Len(capHeard') :
          \/ i \in 1 .. Len(capHeard) /\ capHeard'[i] = capHeard[i]
          \/ i = Len(capHeard) + 1 /\ capHeard'[i] = capRead
    BY <2>3
  <2>5. LastPut' = LastPut /\ NoRead \notin 1 .. NBlocks
    BY <2>1 DEF LastPut, NoRead
  <2>9. /\ Len(capQueue) \in Nat /\ Len(capHeard) \in Nat
        /\ \A i \in 1 .. Len(capQueue) : capQueue[i] \in 1 .. NBlocks
        /\ \A i \in 1 .. Len(capHeard) : capHeard[i] \in 1 .. NBlocks
        /\ capBlock \in Nat /\ capLost \subseteq 1 .. NBlocks
    BY DEF CaptureHolds, CapQueueTyped, CapHeardTyped, CapLostTyped, CaptureFits, CapBlocksFit
  <2> QED
    BY <2>1, <2>3
<1>12. CASE LoopGivesUp
  <2>1. /\ capRead' = NoRead /\ UNCHANGED <<capPhase, capBlock, capDropped, capQueue, capHeard>>
        /\ capGivenUp' = capGivenUp + 1 /\ capRead # NoRead /\ capRead \in 0 .. NoRead
        /\ \/ capRead = 0 /\ capAbandoned' = capAbandoned + 1 /\ capLost' = capLost
           \/ /\ capRead # 0 /\ capAbandoned' = capAbandoned
              /\ capLost' = capLost \cup {capRead}
    BY <1>12 DEF LoopGivesUp, CaptureFits, CapReadsFit
  <2>2. LastPut' = LastPut /\ NoRead \notin 1 .. NBlocks
    BY <2>1 DEF LastPut, NoRead
  <2>3. capRead # 0 => capRead \in 1 .. NBlocks
    BY <2>1 DEF NoRead
  <2>9. /\ Len(capQueue) \in Nat /\ Len(capHeard) \in Nat
        /\ \A i \in 1 .. Len(capQueue) : capQueue[i] \in 1 .. NBlocks
        /\ \A i \in 1 .. Len(capHeard) : capHeard[i] \in 1 .. NBlocks
        /\ capBlock \in Nat /\ capLost \subseteq 1 .. NBlocks
    BY DEF CaptureHolds, CapQueueTyped, CapHeardTyped, CapLostTyped, CaptureFits, CapBlocksFit
  <2>8. IsFiniteSet(capLost')
    BY <2>1, OneMore
  <2> QED
    BY <2>1, <2>3, <2>8
<1>13. CASE AbandonedTakes
  <2>1. /\ capQueue # <<>> /\ capQueue' = Tail(capQueue)
        /\ UNCHANGED <<capPhase, capBlock, capDropped, capHeld, capGivenUp>>
    BY <1>13 DEF AbandonedTakes
  <2>2. capQueue \in Seq(1 .. NBlocks) /\ capHeard \in Seq(1 .. NBlocks)
    BY DEF CaptureHolds, CapQueueTyped, CapHeardTyped
  <2>3. /\ capQueue' \in Seq(1 .. NBlocks) /\ Len(capQueue') = Len(capQueue) - 1
        /\ Len(capQueue) \in Nat /\ Len(capQueue) >= 1
        /\ \A i \in 1 .. Len(capQueue) - 1 : capQueue'[i] = capQueue[i + 1]
        /\ Head(capQueue) = capQueue[1] /\ Head(capQueue) \in 1 .. NBlocks
        /\ 1 \in 1 .. Len(capQueue)
    BY <2>1, <2>2, TakenOff
  <2>4. \A i \in 1 .. Len(capQueue') :
          i \in 1 .. Len(capQueue) /\ i + 1 \in 1 .. Len(capQueue)
            /\ capQueue'[i] = capQueue[i + 1]
    BY <2>3
  <2>5. ASSUME NEW i \in 1 .. Len(capQueue') PROVE capQueue[1] < capQueue'[i]
    <3>1. /\ 1 \in 1 .. Len(capQueue) /\ i + 1 \in 1 .. Len(capQueue) /\ 1 < i + 1
          /\ capQueue'[i] = capQueue[i + 1]
      BY <2>3, <2>4
    <3> QED
      BY <3>1 DEF QueueOrdered
  <2>6. LastPut' = LastPut
    BY <2>1 DEF LastPut
  <2>9. /\ Len(capQueue) \in Nat /\ Len(capHeard) \in Nat
        /\ \A i \in 1 .. Len(capQueue) : capQueue[i] \in 1 .. NBlocks
        /\ \A i \in 1 .. Len(capHeard) : capHeard[i] \in 1 .. NBlocks
        /\ capBlock \in Nat /\ capLost \subseteq 1 .. NBlocks
    BY DEF CaptureHolds, CapQueueTyped, CapHeardTyped, CapLostTyped, CaptureFits, CapBlocksFit
  <2>7. /\ capLost' = capLost \cup {capQueue[1]} /\ UNCHANGED <<capRead, capHeard>>
        /\ capAbandoned' = capAbandoned - 1 /\ capAbandoned > 0
    BY <1>13, <2>3 DEF AbandonedTakes, Taken, ReadReturns
  <2>8. IsFiniteSet(capLost')
    BY <2>7, OneMore
  <2>10. capLost' \subseteq 1 .. NBlocks
    BY <2>3, <2>7
  <2>11. Len(capQueue') <= MaxQueueItems
    BY <2>3
  <2> QED
    BY <2>2, <2>3, <2>7, <2>8, <2>10, <2>11
<1>14. CASE AbandonedEnds
  BY <1>14 DEF AbandonedEnds, ReadReturns
<1>15. CASE SessionStops
  BY <1>15 DEF SessionStops
<1>16. CASE HearingEnds
  BY <1>16 DEF HearingEnds
<1>17. ASSUME NEW d \in Attempts, ProbeOpens(d) PROVE CaptureHolds'
  BY <1>17 DEF ProbeOpens
<1>18. CASE ProbeEnds
  BY <1>18 DEF ProbeEnds
<1>19. CASE UNCHANGED captureVars
  BY <1>19 DEF captureVars
<1> QED
  BY <1>1, <1>2, <1>3, <1>4, <1>5, <1>6, <1>7, <1>8, <1>9, <1>10, <1>11, <1>12, <1>13, <1>14,
     <1>15, <1>16, <1>17, <1>18, <1>19 DEF CaptureNext, CapturingStep, HearingStep

\* A step that moves no block.
BlocksStay ==
  /\ UNCHANGED <<capQueue, capHeard, capLost>> /\ LastPut' = LastPut
  /\ capRead' = capRead \/ capRead' \notin 1 .. NBlocks

CapInOrder == QueueOrdered /\ ReadOrdered /\ HeardOrdered /\ HeardInOrder /\ LostOrdered

\* Every step moves no block, or is one of these five.
LEMMA BlocksMove ==
  ASSUME CaptureIInv, [CaptureNext]_captureVars
  PROVE  BlocksStay \/ CapturePuts \/ ReadTakes \/ LoopHears \/ LoopGivesUp \/ AbandonedTakes
<1> DEFINE P == BlocksStay \/ CapturePuts \/ ReadTakes \/ LoopHears \/ LoopGivesUp
      \/ AbandonedTakes
<1> SUFFICES P
  OBVIOUS
<1> USE DEF sourceVars, readVars, loopVars, probeVars, LastPut, BlocksStay, NoRead
<1>9. capBlock \in Nat /\ NBlocks \in Nat
  BY CaptureAssumption DEF CaptureIInv, CaptureFits, CapBlocksFit
<1>10. ASSUME NEW d \in Attempts, CaptureOpens(d) PROVE P
  BY <1>10, <1>9 DEF CaptureOpens, Opened
<1>11. ASSUME NEW d \in Attempts, CaptureStarts(d) PROVE P
  BY <1>11, <1>9 DEF CaptureStarts
<1>12. CASE SeesStop
  BY <1>12, <1>9 DEF SeesStop
<1>13. CASE CaptureReads
  BY <1>13, <1>9 DEF CaptureReads
<1>14. CASE CaptureReadsNothing
  BY <1>14, <1>9 DEF CaptureReadsNothing
<1>15. CASE CapturePuts
  BY <1>15
<1>16. CASE CaptureCloses
  BY <1>16, <1>9 DEF CaptureCloses, Closed
<1>17. CASE LoopStarts
  BY <1>17, <1>9 DEF LoopStarts, CaptureIInv, CaptureFits, CapLoopFits
<1>18. CASE LoopAsks
  BY <1>18, <1>9 DEF LoopAsks
<1>19. CASE ReadTakes
  BY <1>19
<1>20. CASE LoopHears
  BY <1>20
<1>21. CASE LoopGivesUp
  BY <1>21
<1>22. CASE AbandonedTakes
  BY <1>22
<1>23. CASE AbandonedEnds
  BY <1>23, <1>9 DEF AbandonedEnds, ReadReturns
<1>24. CASE SessionStops
  BY <1>24, <1>9 DEF SessionStops
<1>25. CASE HearingEnds
  BY <1>25, <1>9 DEF HearingEnds
<1>26. ASSUME NEW d \in Attempts, ProbeOpens(d) PROVE P
  BY <1>26, <1>9 DEF ProbeOpens
<1>27. CASE ProbeEnds
  BY <1>27, <1>9 DEF ProbeEnds
<1>28. CASE UNCHANGED captureVars
  BY <1>28, <1>9 DEF captureVars
<1> HIDE DEF P
<1> QED
  BY <1>10, <1>11, <1>12, <1>13, <1>14, <1>15, <1>16, <1>17, <1>18, <1>19, <1>20, <1>21,
     <1>22, <1>23, <1>24, <1>25, <1>26, <1>27, <1>28 DEF CaptureNext, CapturingStep, HearingStep

\* The blocks stay in order if none moves.
LEMMA StayOrdered ==
  ASSUME CaptureIInv, BlocksStay
  PROVE  CapInOrder'
<1> USE CaptureAssumption DEF CaptureIInv, sourceVars, readVars, loopVars, probeVars
<1>1. QueueOrdered' /\ ReadOrdered' /\ HeardOrdered' /\ HeardInOrder' /\ LostOrdered'
  BY DEF QueueOrdered, ReadOrdered, HeardOrdered, HeardInOrder, LostOrdered, BlocksStay
<1> QED
  BY <1>1, <1>1, <1>1, <1>1, <1>1 DEF CapInOrder

\* A block that is put is the last one.
LEMMA PutsOrdered ==
  ASSUME CaptureIInv, CapturePuts
  PROVE  CapInOrder'
<1> USE CaptureAssumption DEF CaptureIInv, sourceVars, readVars, loopVars, probeVars
<1>1. /\ capPhase = "puts" /\ capPhase' = "reads" /\ capBlock' = capBlock
      /\ UNCHANGED <<capRead, capAbandoned, capGivenUp, capLost, capHeard>>
      /\ capBlock \in 1 .. NBlocks /\ capDropped \in Nat
      /\ \/ /\ Len(capQueue) < MaxQueueItems /\ capQueue' = Append(capQueue, capBlock)
            /\ capDropped' = capDropped
         \/ capQueue' = capQueue /\ capDropped' = capDropped + 1
  BY DEF CapturePuts, HasRoom, CaptureFits, CapBlocksFit
<1>2. capQueue \in Seq(1 .. NBlocks) /\ capHeard \in Seq(1 .. NBlocks)
  BY DEF CaptureHolds, CapQueueTyped, CapHeardTyped
<1> DEFINE q == Append(capQueue, capBlock)
<1>3. /\ q \in Seq(1 .. NBlocks) /\ Len(q) = Len(capQueue) + 1 /\ Len(capQueue) \in Nat
      /\ \A i \in 1 .. Len(capQueue) : q[i] = capQueue[i]
      /\ q[Len(capQueue) + 1] = capBlock
      /\ \A i \in 1 .. Len(capQueue) + 1 : i \in 1 .. Len(capQueue) \/ i = Len(capQueue) + 1
  BY <1>1, <1>2, PutOn
<1>4. capQueue' = q \/ capQueue' = capQueue
  BY <1>1
<1> HIDE DEF q
<1>5. \A i \in 1 .. Len(capQueue') :
        \/ i \in 1 .. Len(capQueue) /\ capQueue'[i] = capQueue[i]
        \/ /\ i = Len(capQueue) + 1 /\ capQueue'[i] = capBlock
  BY <1>3, <1>4
<1>6. LastPut' = capBlock /\ LastPut = capBlock - 1
  BY <1>1 DEF LastPut
<1>9. /\ Len(capQueue) \in Nat /\ Len(capHeard) \in Nat
      /\ \A i \in 1 .. Len(capQueue) : capQueue[i] \in 1 .. NBlocks
      /\ \A i \in 1 .. Len(capHeard) : capHeard[i] \in 1 .. NBlocks
      /\ capBlock \in Nat /\ capLost \subseteq 1 .. NBlocks
  BY DEF CaptureHolds, CapQueueTyped, CapHeardTyped, CapLostTyped, CaptureFits, CapBlocksFit
<1>21. QueueOrdered'
  <2>1. ASSUME NEW i \in 1 .. Len(capQueue'), NEW j \in 1 .. Len(capQueue'), i < j
        PROVE  capQueue'[i] < capQueue'[j]
    <3>1. i \in 1 .. Len(capQueue) /\ capQueue'[i] = capQueue[i]
      BY <1>5, <1>3, <1>4, <2>1, <1>9
    <3>2. CASE j \in 1 .. Len(capQueue) /\ capQueue'[j] = capQueue[j]
      BY <3>1, <3>2, <2>1 DEF QueueOrdered
    <3>3. CASE capQueue'[j] = capBlock
      BY <3>1, <3>3, <1>6, <1>9 DEF QueueOrdered
    <3> QED
      BY <3>2, <3>3, <1>5
  <2>2. ASSUME NEW i \in 1 .. Len(capQueue') PROVE capQueue'[i] <= LastPut'
    <3>1. CASE i \in 1 .. Len(capQueue) /\ capQueue'[i] = capQueue[i]
      BY <3>1, <1>6, <1>9 DEF QueueOrdered
    <3>2. CASE capQueue'[i] = capBlock
      BY <3>2, <1>6, <1>9
    <3> QED
      BY <3>1, <3>2, <1>5
  <2> QED
    BY <2>1, <2>2 DEF QueueOrdered
<1>22. ReadOrdered'
  <2> SUFFICES ASSUME capRead \in 1 .. NBlocks
      PROVE  /\ capRead <= LastPut' /\ capRead \notin capLost
             /\ \A i \in 1 .. Len(capQueue') : capRead < capQueue'[i]
    BY <1>1 DEF ReadOrdered
  <2>1. capRead <= LastPut /\ capRead \notin capLost
    BY DEF ReadOrdered
  <2>2. capRead <= capBlock - 1 /\ capRead < capBlock
    BY <2>1, <1>6, <1>9
  <2>3. ASSUME NEW i \in 1 .. Len(capQueue') PROVE capRead < capQueue'[i]
    BY <1>5, <2>2 DEF ReadOrdered
  <2> QED
    BY <2>1, <2>2, <2>3, <1>6, <1>9
<1>23. HeardOrdered'
  <2> SUFFICES ASSUME NEW k \in 1 .. Len(capHeard)
      PROVE  /\ capHeard[k] <= LastPut'
             /\ capRead \in 1 .. NBlocks => capHeard[k] < capRead
             /\ \A j \in 1 .. Len(capQueue') : capHeard[k] < capQueue'[j]
    BY <1>1 DEF HeardOrdered
  <2>1. capHeard[k] <= LastPut /\ capHeard[k] \in 1 .. NBlocks
    BY <1>9 DEF HeardOrdered
  <2>2. capHeard[k] < capBlock /\ capHeard[k] <= capBlock
    BY <2>1, <1>6, <1>9
  <2>3. ASSUME NEW j \in 1 .. Len(capQueue') PROVE capHeard[k] < capQueue'[j]
    BY <1>5, <2>2 DEF HeardOrdered
  <2> QED
    BY <2>2, <2>3, <1>6 DEF HeardOrdered
<1>24. HeardInOrder'
  BY <1>1 DEF HeardInOrder
<1>25. LostOrdered'
  <2> SUFFICES ASSUME NEW b \in capLost
      PROVE  b <= LastPut' /\ \A i \in 1 .. Len(capQueue') : b < capQueue'[i]
    BY <1>1 DEF LostOrdered
  <2>1. b <= LastPut /\ b \in 1 .. NBlocks
    BY <1>9 DEF LostOrdered
  <2>2. b < capBlock /\ b <= capBlock
    BY <2>1, <1>6, <1>9
  <2>3. ASSUME NEW i \in 1 .. Len(capQueue') PROVE b < capQueue'[i]
    BY <1>5, <2>2 DEF LostOrdered
  <2> QED
    BY <2>2, <2>3, <1>6
<1> QED
  BY <1>21, <1>22, <1>23, <1>24, <1>25 DEF CapInOrder

\* A read takes the first block of the queue.
LEMMA TakesOrdered ==
  ASSUME CaptureIInv, ReadTakes
  PROVE  CapInOrder'
<1> USE CaptureAssumption DEF CaptureIInv, sourceVars, readVars, loopVars, probeVars
<1>1. /\ capQueue # <<>> /\ capQueue' = Tail(capQueue)
      /\ UNCHANGED <<capPhase, capBlock, capDropped, capHeld, capGivenUp>>
  BY DEF ReadTakes
<1>2. capQueue \in Seq(1 .. NBlocks) /\ capHeard \in Seq(1 .. NBlocks)
  BY DEF CaptureHolds, CapQueueTyped, CapHeardTyped
<1>3. /\ capQueue' \in Seq(1 .. NBlocks) /\ Len(capQueue') = Len(capQueue) - 1
      /\ Len(capQueue) \in Nat /\ Len(capQueue) >= 1
      /\ \A i \in 1 .. Len(capQueue) - 1 : capQueue'[i] = capQueue[i + 1]
      /\ Head(capQueue) = capQueue[1] /\ Head(capQueue) \in 1 .. NBlocks
      /\ 1 \in 1 .. Len(capQueue)
  BY <1>1, <1>2, TakenOff
<1>4. \A i \in 1 .. Len(capQueue') :
        i \in 1 .. Len(capQueue) /\ i + 1 \in 1 .. Len(capQueue) /\ capQueue'[i] = capQueue[i + 1]
  BY <1>3
<1>5. ASSUME NEW i \in 1 .. Len(capQueue') PROVE capQueue[1] < capQueue'[i]
  <3>1. /\ 1 \in 1 .. Len(capQueue) /\ i + 1 \in 1 .. Len(capQueue) /\ 1 < i + 1
        /\ capQueue'[i] = capQueue[i + 1]
    BY <1>3, <1>4
  <3> QED
    BY <3>1 DEF QueueOrdered
<1>6. LastPut' = LastPut
  BY <1>1 DEF LastPut
<1>9. /\ Len(capQueue) \in Nat /\ Len(capHeard) \in Nat
      /\ \A i \in 1 .. Len(capQueue) : capQueue[i] \in 1 .. NBlocks
      /\ \A i \in 1 .. Len(capHeard) : capHeard[i] \in 1 .. NBlocks
      /\ capBlock \in Nat /\ capLost \subseteq 1 .. NBlocks
  BY DEF CaptureHolds, CapQueueTyped, CapHeardTyped, CapLostTyped, CaptureFits, CapBlocksFit
<1>7. capRead = 0 /\ capRead' = capQueue[1] /\ UNCHANGED <<capLost, capHeard, capAbandoned>>
  BY <1>3 DEF ReadTakes
<1>21. QueueOrdered'
  <2>1. ASSUME NEW i \in 1 .. Len(capQueue'), NEW j \in 1 .. Len(capQueue'), i < j
        PROVE  capQueue'[i] < capQueue'[j]
    <3>1. /\ i + 1 \in 1 .. Len(capQueue) /\ j + 1 \in 1 .. Len(capQueue) /\ i + 1 < j + 1
          /\ capQueue'[i] = capQueue[i + 1] /\ capQueue'[j] = capQueue[j + 1]
      BY <2>1, <1>3, <1>4
    <3> QED
      BY <3>1 DEF QueueOrdered
  <2>2. ASSUME NEW i \in 1 .. Len(capQueue') PROVE capQueue'[i] <= LastPut'
    BY <1>4, <1>6 DEF QueueOrdered
  <2> QED
    BY <2>1, <2>2 DEF QueueOrdered
<1>22. ReadOrdered'
  <2>1. capQueue[1] <= LastPut /\ capQueue[1] \notin capLost
    <3>1. capQueue[1] <= LastPut
      BY <1>3 DEF QueueOrdered
    <3>2. ASSUME capQueue[1] \in capLost PROVE FALSE
      <4>1. capQueue[1] < capQueue[1]
        BY <3>2, <1>3 DEF LostOrdered
      <4> QED
        BY <4>1, <1>3
    <3> QED
      BY <3>1, <3>2
  <2> QED
    BY <1>5, <1>6, <1>7, <2>1 DEF ReadOrdered
<1>23. HeardOrdered'
  <2> SUFFICES ASSUME NEW k \in 1 .. Len(capHeard)
      PROVE  /\ capHeard[k] <= LastPut /\ capHeard[k] < capQueue[1]
             /\ \A j \in 1 .. Len(capQueue') : capHeard[k] < capQueue'[j]
    BY <1>6, <1>7 DEF HeardOrdered
  <2> QED
    BY <1>3, <1>4 DEF HeardOrdered
<1>24. HeardInOrder'
  BY <1>7 DEF HeardInOrder
<1>25. LostOrdered'
  BY <1>4, <1>6, <1>7 DEF LostOrdered
<1> QED
  BY <1>21, <1>22, <1>23, <1>24, <1>25 DEF CapInOrder

\* A block that an abandoned read takes comes before the rest of the queue.
LEMMA AbandonedOrdered ==
  ASSUME CaptureIInv, AbandonedTakes
  PROVE  CapInOrder'
<1> USE CaptureAssumption DEF CaptureIInv, sourceVars, readVars, loopVars, probeVars
<1>1. /\ capQueue # <<>> /\ capQueue' = Tail(capQueue)
      /\ UNCHANGED <<capPhase, capBlock, capDropped, capHeld, capGivenUp>>
  BY DEF AbandonedTakes
<1>2. capQueue \in Seq(1 .. NBlocks) /\ capHeard \in Seq(1 .. NBlocks)
  BY DEF CaptureHolds, CapQueueTyped, CapHeardTyped
<1>3. /\ capQueue' \in Seq(1 .. NBlocks) /\ Len(capQueue') = Len(capQueue) - 1
      /\ Len(capQueue) \in Nat /\ Len(capQueue) >= 1
      /\ \A i \in 1 .. Len(capQueue) - 1 : capQueue'[i] = capQueue[i + 1]
      /\ Head(capQueue) = capQueue[1] /\ Head(capQueue) \in 1 .. NBlocks
      /\ 1 \in 1 .. Len(capQueue)
  BY <1>1, <1>2, TakenOff
<1>4. \A i \in 1 .. Len(capQueue') :
        i \in 1 .. Len(capQueue) /\ i + 1 \in 1 .. Len(capQueue) /\ capQueue'[i] = capQueue[i + 1]
  BY <1>3
<1>5. ASSUME NEW i \in 1 .. Len(capQueue') PROVE capQueue[1] < capQueue'[i]
  <3>1. /\ 1 \in 1 .. Len(capQueue) /\ i + 1 \in 1 .. Len(capQueue) /\ 1 < i + 1
        /\ capQueue'[i] = capQueue[i + 1]
    BY <1>3, <1>4
  <3> QED
    BY <3>1 DEF QueueOrdered
<1>6. LastPut' = LastPut
  BY <1>1 DEF LastPut
<1>9. /\ Len(capQueue) \in Nat /\ Len(capHeard) \in Nat
      /\ \A i \in 1 .. Len(capQueue) : capQueue[i] \in 1 .. NBlocks
      /\ \A i \in 1 .. Len(capHeard) : capHeard[i] \in 1 .. NBlocks
      /\ capBlock \in Nat /\ capLost \subseteq 1 .. NBlocks
  BY DEF CaptureHolds, CapQueueTyped, CapHeardTyped, CapLostTyped, CaptureFits, CapBlocksFit
<1>7. /\ capLost' = capLost \cup {capQueue[1]} /\ UNCHANGED <<capRead, capHeard>>
      /\ capAbandoned' = capAbandoned - 1 /\ capAbandoned > 0
  BY <1>3 DEF AbandonedTakes, Taken, ReadReturns
<1>21. QueueOrdered'
  <2>1. ASSUME NEW i \in 1 .. Len(capQueue'), NEW j \in 1 .. Len(capQueue'), i < j
        PROVE  capQueue'[i] < capQueue'[j]
    <3>1. /\ i + 1 \in 1 .. Len(capQueue) /\ j + 1 \in 1 .. Len(capQueue) /\ i + 1 < j + 1
          /\ capQueue'[i] = capQueue[i + 1] /\ capQueue'[j] = capQueue[j + 1]
      BY <2>1, <1>3, <1>4
    <3> QED
      BY <3>1 DEF QueueOrdered
  <2>2. ASSUME NEW i \in 1 .. Len(capQueue') PROVE capQueue'[i] <= LastPut'
    BY <1>4, <1>6 DEF QueueOrdered
  <2> QED
    BY <2>1, <2>2 DEF QueueOrdered
<1>22. ReadOrdered'
  <2> SUFFICES ASSUME capRead \in 1 .. NBlocks
      PROVE  /\ capRead <= LastPut /\ capRead \notin capLost /\ capRead # capQueue[1]
             /\ \A i \in 1 .. Len(capQueue') : capRead < capQueue'[i]
    BY <1>6, <1>7 DEF ReadOrdered
  <2>1. capRead < capQueue[1]
    BY <1>3 DEF ReadOrdered
  <2>2. capRead # capQueue[1]
    BY <2>1, <1>3
  <2> QED
    BY <2>2, <1>4 DEF ReadOrdered
<1>23. HeardOrdered'
  BY <1>4, <1>6, <1>7 DEF HeardOrdered
<1>24. HeardInOrder'
  BY <1>7 DEF HeardInOrder
<1>25. LostOrdered'
  <2> SUFFICES ASSUME NEW b \in capLost \cup {capQueue[1]}
      PROVE  b <= LastPut /\ \A i \in 1 .. Len(capQueue') : b < capQueue'[i]
    BY <1>6, <1>7 DEF LostOrdered
  <2>1. CASE b \in capLost
    BY <2>1, <1>4 DEF LostOrdered
  <2>2. CASE b = capQueue[1]
    BY <2>2, <1>3, <1>5 DEF QueueOrdered
  <2> QED
    BY <2>1, <2>2
<1> QED
  BY <1>21, <1>22, <1>23, <1>24, <1>25 DEF CapInOrder

\* A block that is heard comes after those that were.
LEMMA HearsOrdered ==
  ASSUME CaptureIInv, LoopHears
  PROVE  CapInOrder'
<1> USE CaptureAssumption DEF CaptureIInv, sourceVars, readVars, loopVars, probeVars
<1>1. /\ capRead \in 1 .. NBlocks /\ capHeard' = Append(capHeard, capRead)
      /\ capRead' = NoRead
      /\ UNCHANGED <<capPhase, capBlock, capDropped, capQueue, capLost, capAbandoned, capGivenUp>>
  BY DEF LoopHears
<1>2. capHeard \in Seq(1 .. NBlocks)
  BY DEF CaptureHolds, CapHeardTyped
<1>3. /\ capHeard' \in Seq(1 .. NBlocks) /\ Len(capHeard') = Len(capHeard) + 1
      /\ Len(capHeard) \in Nat
      /\ \A i \in 1 .. Len(capHeard) : capHeard'[i] = capHeard[i]
      /\ capHeard'[Len(capHeard) + 1] = capRead
      /\ \A i \in 1 .. Len(capHeard) + 1 : i \in 1 .. Len(capHeard) \/ i = Len(capHeard) + 1
  BY <1>1, <1>2, PutOn
<1>4. \A i \in 1 .. Len(capHeard') :
        \/ i \in 1 .. Len(capHeard) /\ capHeard'[i] = capHeard[i]
        \/ i = Len(capHeard) + 1 /\ capHeard'[i] = capRead
  BY <1>3
<1>5. LastPut' = LastPut /\ NoRead \notin 1 .. NBlocks
  BY <1>1 DEF LastPut, NoRead
<1>6. /\ Len(capQueue) \in Nat /\ Len(capHeard) \in Nat
      /\ \A i \in 1 .. Len(capQueue) : capQueue[i] \in 1 .. NBlocks
      /\ \A i \in 1 .. Len(capHeard) : capHeard[i] \in 1 .. NBlocks
      /\ capBlock \in Nat /\ capLost \subseteq 1 .. NBlocks
  BY DEF CaptureHolds, CapQueueTyped, CapHeardTyped, CapLostTyped, CaptureFits, CapBlocksFit
<1>7. QueueOrdered' /\ ReadOrdered' /\ LostOrdered'
  BY <1>1, <1>5 DEF QueueOrdered, ReadOrdered, LostOrdered
<1>8. HeardOrdered'
  <2> SUFFICES ASSUME NEW k \in 1 .. Len(capHeard')
      PROVE  /\ capHeard'[k] <= LastPut
             /\ \A j \in 1 .. Len(capQueue) : capHeard'[k] < capQueue[j]
    BY <1>1, <1>5 DEF HeardOrdered
  <2>1. CASE k \in 1 .. Len(capHeard) /\ capHeard'[k] = capHeard[k]
    BY <2>1 DEF HeardOrdered
  <2>2. CASE capHeard'[k] = capRead
    BY <2>2, <1>1 DEF ReadOrdered
  <2> QED
    BY <2>1, <2>2, <1>4
<1>9. HeardInOrder'
  <2> SUFFICES ASSUME NEW i \in 1 .. Len(capHeard'), NEW j \in 1 .. Len(capHeard'), i < j
      PROVE  capHeard'[i] < capHeard'[j]
    BY DEF HeardInOrder
  <2>1. i \in 1 .. Len(capHeard) /\ capHeard'[i] = capHeard[i]
    BY <1>3, <1>4, <1>6
  <2>2. CASE j \in 1 .. Len(capHeard) /\ capHeard'[j] = capHeard[j]
    BY <2>1, <2>2 DEF HeardInOrder
  <2>3. CASE capHeard'[j] = capRead
    BY <2>1, <2>3, <1>1 DEF HeardOrdered
  <2> QED
    BY <2>2, <2>3, <1>4
<1> QED
  BY <1>7, <1>7, <1>8, <1>9, <1>7 DEF CapInOrder

\* A block that is given up comes before the queue.
LEMMA GivesUpOrdered ==
  ASSUME CaptureIInv, LoopGivesUp
  PROVE  CapInOrder'
<1> USE CaptureAssumption DEF CaptureIInv, sourceVars, readVars, loopVars, probeVars
<1>1. /\ capRead' = NoRead /\ UNCHANGED <<capPhase, capBlock, capDropped, capQueue, capHeard>>
      /\ capGivenUp' = capGivenUp + 1 /\ capRead # NoRead /\ capRead \in 0 .. NoRead
      /\ \/ capRead = 0 /\ capAbandoned' = capAbandoned + 1 /\ capLost' = capLost
         \/ /\ capRead # 0 /\ capAbandoned' = capAbandoned
            /\ capLost' = capLost \cup {capRead}
  BY DEF LoopGivesUp, CaptureFits, CapReadsFit
<1>2. LastPut' = LastPut /\ NoRead \notin 1 .. NBlocks
  BY <1>1 DEF LastPut, NoRead
<1>3. capRead # 0 => capRead \in 1 .. NBlocks
  BY <1>1 DEF NoRead
<1>4. /\ Len(capQueue) \in Nat /\ Len(capHeard) \in Nat
      /\ \A i \in 1 .. Len(capQueue) : capQueue[i] \in 1 .. NBlocks
      /\ \A i \in 1 .. Len(capHeard) : capHeard[i] \in 1 .. NBlocks
      /\ capBlock \in Nat /\ capLost \subseteq 1 .. NBlocks
  BY DEF CaptureHolds, CapQueueTyped, CapHeardTyped, CapLostTyped, CaptureFits, CapBlocksFit
<1>5. QueueOrdered' /\ ReadOrdered' /\ HeardOrdered'
  BY <1>1, <1>2 DEF QueueOrdered, ReadOrdered, HeardOrdered
<1>6. HeardInOrder'
  BY <1>1 DEF HeardInOrder
<1>7. LostOrdered'
  <2>1. CASE capLost' = capLost
    BY <2>1, <1>1, <1>2 DEF LostOrdered
  <2>2. CASE capRead # 0 /\ capLost' = capLost \cup {capRead}
    BY <2>2, <1>1, <1>2, <1>3 DEF LostOrdered, ReadOrdered
  <2> QED
    BY <2>1, <2>2, <1>1
<1> QED
  BY <1>5, <1>5, <1>5, <1>6, <1>7 DEF CapInOrder

\* Every block is accounted for.
LEMMA LossIsBoundedNext == CaptureIInv /\ [CaptureNext]_captureVars => LossIsBounded'
<1> SUFFICES ASSUME CaptureIInv, [CaptureNext]_captureVars PROVE LossIsBounded'
  OBVIOUS
<1> USE CaptureAssumption DEF CaptureIInv, sourceVars, readVars, loopVars, probeVars
<1>1. ASSUME NEW d \in Attempts, CaptureOpens(d) PROVE LossIsBounded'
  BY <1>1 DEF CaptureOpens, Opened, LossIsBounded, NoRead, CaptureFits, CapReadsFit,
     CapBlocksFit, CapLoopFits
<1>2. ASSUME NEW d \in Attempts, CaptureStarts(d) PROVE LossIsBounded'
  BY <1>2 DEF CaptureStarts, LossIsBounded, NoRead, CaptureFits, CapReadsFit, CapBlocksFit,
     CapLoopFits
<1>3. CASE SeesStop
  BY <1>3 DEF SeesStop, LossIsBounded, NoRead, CaptureFits, CapReadsFit, CapBlocksFit,
     CapLoopFits
<1>4. CASE CaptureReads
  <2>1. /\ capPhase = "reads" /\ capPhase' = "puts" /\ capBlock' = capBlock + 1
        /\ UNCHANGED <<capQueue, capHeard, capLost, capRead, capAbandoned, capGivenUp,
             capDropped>>
    BY <1>4 DEF CaptureReads
  <2>9. /\ Len(capQueue) \in Nat /\ Len(capHeard) \in Nat
        /\ \A i \in 1 .. Len(capQueue) : capQueue[i] \in 1 .. NBlocks
        /\ \A i \in 1 .. Len(capHeard) : capHeard[i] \in 1 .. NBlocks
        /\ capBlock \in Nat /\ capLost \subseteq 1 .. NBlocks
    BY DEF CaptureHolds, CapQueueTyped, CapHeardTyped, CapLostTyped, CaptureFits, CapBlocksFit
  <2>2. LastPut' = LastPut
    BY <2>1, <2>9 DEF LastPut
  <2>10. Cardinality(capLost) \in Nat /\ capAbandoned \in Nat /\ capGivenUp \in Nat
           /\ capDropped \in Nat
    BY FS_CardinalityType DEF CaptureHolds, CapLostTyped, CaptureFits, CapReadsFit, CapBlocksFit
  <2> QED
    BY <2>1, <2>9, <2>10 DEF NoRead, LossIsBounded
<1>5. CASE CaptureReadsNothing
  BY <1>5 DEF CaptureReadsNothing, LossIsBounded, NoRead, CaptureFits, CapReadsFit,
     CapBlocksFit, CapLoopFits
<1>6. CASE CapturePuts
  <2>1. /\ capPhase = "puts" /\ capPhase' = "reads" /\ capBlock' = capBlock
        /\ UNCHANGED <<capRead, capAbandoned, capGivenUp, capLost, capHeard>>
        /\ capBlock \in 1 .. NBlocks /\ capDropped \in Nat
        /\ \/ /\ Len(capQueue) < MaxQueueItems /\ capQueue' = Append(capQueue, capBlock)
              /\ capDropped' = capDropped
           \/ capQueue' = capQueue /\ capDropped' = capDropped + 1
    BY <1>6 DEF CapturePuts, HasRoom, CaptureFits, CapBlocksFit
  <2>2. capQueue \in Seq(1 .. NBlocks) /\ capHeard \in Seq(1 .. NBlocks)
    BY DEF CaptureHolds, CapQueueTyped, CapHeardTyped
  <2> DEFINE q == Append(capQueue, capBlock)
  <2>3. /\ q \in Seq(1 .. NBlocks) /\ Len(q) = Len(capQueue) + 1 /\ Len(capQueue) \in Nat
        /\ \A i \in 1 .. Len(capQueue) : q[i] = capQueue[i]
        /\ q[Len(capQueue) + 1] = capBlock
        /\ \A i \in 1 .. Len(capQueue) + 1 : i \in 1 .. Len(capQueue) \/ i = Len(capQueue) + 1
    BY <2>1, <2>2, PutOn
  <2>4. capQueue' = q \/ capQueue' = capQueue
    BY <2>1
  <2> HIDE DEF q
  <2>5. \A i \in 1 .. Len(capQueue') :
          \/ i \in 1 .. Len(capQueue) /\ capQueue'[i] = capQueue[i]
          \/ /\ i = Len(capQueue) + 1 /\ capQueue'[i] = capBlock
    BY <2>3, <2>4
  <2>6. LastPut' = capBlock /\ LastPut = capBlock - 1
    BY <2>1 DEF LastPut
  <2>9. /\ Len(capQueue) \in Nat /\ Len(capHeard) \in Nat
        /\ \A i \in 1 .. Len(capQueue) : capQueue[i] \in 1 .. NBlocks
        /\ \A i \in 1 .. Len(capHeard) : capHeard[i] \in 1 .. NBlocks
        /\ capBlock \in Nat /\ capLost \subseteq 1 .. NBlocks
    BY DEF CaptureHolds, CapQueueTyped, CapHeardTyped, CapLostTyped, CaptureFits, CapBlocksFit
  <2>10. Cardinality(capLost) \in Nat /\ capAbandoned \in Nat /\ capGivenUp \in Nat
           /\ capDropped \in Nat
    BY FS_CardinalityType DEF CaptureHolds, CapLostTyped, CaptureFits, CapReadsFit, CapBlocksFit
  <2>11. capRead' = capRead /\ capRead \in 0 .. NoRead /\ Len(capQueue') \in Nat
    BY <2>1, <2>3, <2>4 DEF CaptureFits, CapReadsFit
  <2>12. \/ Len(capQueue') = Len(capQueue) + 1 /\ capDropped' = capDropped
         \/ Len(capQueue') = Len(capQueue) /\ capDropped' = capDropped + 1
    BY <2>1, <2>3 DEF q
  <2> QED
    BY SMTT(60), <2>1, <2>9, <2>10, <2>11, <2>12 DEF LossIsBounded, NoRead
<1>7. CASE CaptureCloses
  BY <1>7 DEF CaptureCloses, Closed, LossIsBounded, NoRead, CaptureFits, CapReadsFit,
     CapBlocksFit, CapLoopFits
<1>8. CASE LoopStarts
  BY <1>8 DEF LoopStarts, LossIsBounded, NoRead, CaptureFits, CapReadsFit, CapBlocksFit,
     CapLoopFits
<1>9. CASE LoopAsks
  BY <1>9 DEF LoopAsks, LossIsBounded, NoRead, CaptureFits, CapReadsFit, CapBlocksFit,
     CapLoopFits
<1>10. CASE ReadTakes
  <2>1. /\ capQueue # <<>> /\ capQueue' = Tail(capQueue)
        /\ UNCHANGED <<capPhase, capBlock, capDropped, capHeld, capGivenUp>>
    BY <1>10 DEF ReadTakes
  <2>2. capQueue \in Seq(1 .. NBlocks) /\ capHeard \in Seq(1 .. NBlocks)
    BY DEF CaptureHolds, CapQueueTyped, CapHeardTyped
  <2>3. /\ capQueue' \in Seq(1 .. NBlocks) /\ Len(capQueue') = Len(capQueue) - 1
        /\ Len(capQueue) \in Nat /\ Len(capQueue) >= 1
        /\ \A i \in 1 .. Len(capQueue) - 1 : capQueue'[i] = capQueue[i + 1]
        /\ Head(capQueue) = capQueue[1] /\ Head(capQueue) \in 1 .. NBlocks
        /\ 1 \in 1 .. Len(capQueue)
    BY <2>1, <2>2, TakenOff
  <2>4. \A i \in 1 .. Len(capQueue') :
          i \in 1 .. Len(capQueue) /\ i + 1 \in 1 .. Len(capQueue)
            /\ capQueue'[i] = capQueue[i + 1]
    BY <2>3
  <2>5. ASSUME NEW i \in 1 .. Len(capQueue') PROVE capQueue[1] < capQueue'[i]
    <3>1. /\ 1 \in 1 .. Len(capQueue) /\ i + 1 \in 1 .. Len(capQueue) /\ 1 < i + 1
          /\ capQueue'[i] = capQueue[i + 1]
      BY <2>3, <2>4
    <3> QED
      BY <3>1 DEF QueueOrdered
  <2>6. LastPut' = LastPut
    BY <2>1 DEF LastPut
  <2>9. /\ Len(capQueue) \in Nat /\ Len(capHeard) \in Nat
        /\ \A i \in 1 .. Len(capQueue) : capQueue[i] \in 1 .. NBlocks
        /\ \A i \in 1 .. Len(capHeard) : capHeard[i] \in 1 .. NBlocks
        /\ capBlock \in Nat /\ capLost \subseteq 1 .. NBlocks
    BY DEF CaptureHolds, CapQueueTyped, CapHeardTyped, CapLostTyped, CaptureFits, CapBlocksFit
  <2>7. capRead = 0 /\ capRead' = capQueue[1] /\ UNCHANGED <<capLost, capHeard, capAbandoned>>
    BY <1>10, <2>3 DEF ReadTakes
  <2>10. Cardinality(capLost) \in Nat /\ capAbandoned \in Nat /\ capGivenUp \in Nat
           /\ capDropped \in Nat
    BY FS_CardinalityType DEF CaptureHolds, CapLostTyped, CaptureFits, CapReadsFit, CapBlocksFit
  <2> QED
    BY SMTT(60), <2>1, <2>3, <2>7, <2>9, <2>10 DEF LossIsBounded, NoRead
<1>11. CASE LoopHears
  <2>1. /\ capRead \in 1 .. NBlocks /\ capHeard' = Append(capHeard, capRead)
        /\ capRead' = NoRead
        /\ UNCHANGED <<capPhase, capBlock, capDropped, capQueue, capLost, capAbandoned,
             capGivenUp>>
    BY <1>11 DEF LoopHears
  <2>2. capHeard \in Seq(1 .. NBlocks)
    BY DEF CaptureHolds, CapHeardTyped
  <2>3. /\ capHeard' \in Seq(1 .. NBlocks) /\ Len(capHeard') = Len(capHeard) + 1
        /\ Len(capHeard) \in Nat
        /\ \A i \in 1 .. Len(capHeard) : capHeard'[i] = capHeard[i]
        /\ capHeard'[Len(capHeard) + 1] = capRead
        /\ \A i \in 1 .. Len(capHeard) + 1 : i \in 1 .. Len(capHeard) \/ i = Len(capHeard) + 1
    BY <2>1, <2>2, PutOn
  <2>4. \A i \in 1 .. Len(capHeard') :
          \/ i \in 1 .. Len(capHeard) /\ capHeard'[i] = capHeard[i]
          \/ i = Len(capHeard) + 1 /\ capHeard'[i] = capRead
    BY <2>3
  <2>5. LastPut' = LastPut /\ NoRead \notin 1 .. NBlocks
    BY <2>1 DEF LastPut, NoRead
  <2>9. /\ Len(capQueue) \in Nat /\ Len(capHeard) \in Nat
        /\ \A i \in 1 .. Len(capQueue) : capQueue[i] \in 1 .. NBlocks
        /\ \A i \in 1 .. Len(capHeard) : capHeard[i] \in 1 .. NBlocks
        /\ capBlock \in Nat /\ capLost \subseteq 1 .. NBlocks
    BY DEF CaptureHolds, CapQueueTyped, CapHeardTyped, CapLostTyped, CaptureFits, CapBlocksFit
  <2>10. Cardinality(capLost) \in Nat /\ capAbandoned \in Nat /\ capGivenUp \in Nat
           /\ capDropped \in Nat
    BY FS_CardinalityType DEF CaptureHolds, CapLostTyped, CaptureFits, CapReadsFit, CapBlocksFit
  <2> QED
    BY <2>1, <2>3, <2>5, <2>9, <2>10 DEF LossIsBounded, NoRead
<1>12. CASE LoopGivesUp
  <2>1. /\ capRead' = NoRead /\ UNCHANGED <<capPhase, capBlock, capDropped, capQueue, capHeard>>
        /\ capGivenUp' = capGivenUp + 1 /\ capRead # NoRead /\ capRead \in 0 .. NoRead
        /\ \/ capRead = 0 /\ capAbandoned' = capAbandoned + 1 /\ capLost' = capLost
           \/ /\ capRead # 0 /\ capAbandoned' = capAbandoned
              /\ capLost' = capLost \cup {capRead}
    BY <1>12 DEF LoopGivesUp, CaptureFits, CapReadsFit
  <2>2. LastPut' = LastPut /\ NoRead \notin 1 .. NBlocks
    BY <2>1 DEF LastPut, NoRead
  <2>3. capRead # 0 => capRead \in 1 .. NBlocks
    BY <2>1 DEF NoRead
  <2>9. /\ Len(capQueue) \in Nat /\ Len(capHeard) \in Nat
        /\ \A i \in 1 .. Len(capQueue) : capQueue[i] \in 1 .. NBlocks
        /\ \A i \in 1 .. Len(capHeard) : capHeard[i] \in 1 .. NBlocks
        /\ capBlock \in Nat /\ capLost \subseteq 1 .. NBlocks
    BY DEF CaptureHolds, CapQueueTyped, CapHeardTyped, CapLostTyped, CaptureFits, CapBlocksFit
  <2>10. Cardinality(capLost) \in Nat /\ capAbandoned \in Nat /\ capGivenUp \in Nat
           /\ capDropped \in Nat
    BY FS_CardinalityType DEF CaptureHolds, CapLostTyped, CaptureFits, CapReadsFit, CapBlocksFit
  <2>11. capRead # 0 => Cardinality(capLost') = Cardinality(capLost) + 1
    BY <2>1, <2>3, OneNew DEF CaptureHolds, CapLostTyped, ReadOrdered
  <2> QED
    BY SMTT(60), <2>1, <2>2, <2>3, <2>9, <2>10, <2>11 DEF LossIsBounded, NoRead
<1>13. CASE AbandonedTakes
  <2>1. /\ capQueue # <<>> /\ capQueue' = Tail(capQueue)
        /\ UNCHANGED <<capPhase, capBlock, capDropped, capHeld, capGivenUp>>
    BY <1>13 DEF AbandonedTakes
  <2>2. capQueue \in Seq(1 .. NBlocks) /\ capHeard \in Seq(1 .. NBlocks)
    BY DEF CaptureHolds, CapQueueTyped, CapHeardTyped
  <2>3. /\ capQueue' \in Seq(1 .. NBlocks) /\ Len(capQueue') = Len(capQueue) - 1
        /\ Len(capQueue) \in Nat /\ Len(capQueue) >= 1
        /\ \A i \in 1 .. Len(capQueue) - 1 : capQueue'[i] = capQueue[i + 1]
        /\ Head(capQueue) = capQueue[1] /\ Head(capQueue) \in 1 .. NBlocks
        /\ 1 \in 1 .. Len(capQueue)
    BY <2>1, <2>2, TakenOff
  <2>4. \A i \in 1 .. Len(capQueue') :
          i \in 1 .. Len(capQueue) /\ i + 1 \in 1 .. Len(capQueue)
            /\ capQueue'[i] = capQueue[i + 1]
    BY <2>3
  <2>5. ASSUME NEW i \in 1 .. Len(capQueue') PROVE capQueue[1] < capQueue'[i]
    <3>1. /\ 1 \in 1 .. Len(capQueue) /\ i + 1 \in 1 .. Len(capQueue) /\ 1 < i + 1
          /\ capQueue'[i] = capQueue[i + 1]
      BY <2>3, <2>4
    <3> QED
      BY <3>1 DEF QueueOrdered
  <2>6. LastPut' = LastPut
    BY <2>1 DEF LastPut
  <2>9. /\ Len(capQueue) \in Nat /\ Len(capHeard) \in Nat
        /\ \A i \in 1 .. Len(capQueue) : capQueue[i] \in 1 .. NBlocks
        /\ \A i \in 1 .. Len(capHeard) : capHeard[i] \in 1 .. NBlocks
        /\ capBlock \in Nat /\ capLost \subseteq 1 .. NBlocks
    BY DEF CaptureHolds, CapQueueTyped, CapHeardTyped, CapLostTyped, CaptureFits, CapBlocksFit
  <2>7. /\ capLost' = capLost \cup {capQueue[1]} /\ UNCHANGED <<capRead, capHeard>>
        /\ capAbandoned' = capAbandoned - 1 /\ capAbandoned > 0
    BY <1>13, <2>3 DEF AbandonedTakes, Taken, ReadReturns
  <2>10. Cardinality(capLost) \in Nat /\ capAbandoned \in Nat /\ capGivenUp \in Nat
           /\ capDropped \in Nat
    BY FS_CardinalityType DEF CaptureHolds, CapLostTyped, CaptureFits, CapReadsFit, CapBlocksFit
  <2>11. capQueue[1] \notin capLost
    BY <2>3, <2>9 DEF LostOrdered
  <2>12. Cardinality(capLost') = Cardinality(capLost) + 1
    BY <2>7, <2>11, OneNew DEF CaptureHolds, CapLostTyped
  <2>13. /\ Len(capQueue') = Len(capQueue) - 1 /\ Len(capHeard') = Len(capHeard)
         /\ UNCHANGED <<capPhase, capBlock, capDropped, capRead, capGivenUp>>
    BY <2>1, <2>3, <2>7
  <2>14. Cardinality(capLost') + capAbandoned' <= capGivenUp'
    BY <2>7, <2>10, <2>12, <2>13 DEF LossIsBounded
  <2> DEFINE a == IF capPhase = "puts" THEN 1 ELSE 0
             b == IF capRead \in 1 .. NBlocks THEN 1 ELSE 0
  <2>15. a' = a /\ a \in Nat /\ b' = b /\ b \in Nat
    BY <2>13
  <2>16. capBlock = Len(capHeard) + Len(capQueue) + capDropped + Cardinality(capLost) + a + b
    BY DEF LossIsBounded
  <2>17. SUFFICES capBlock' = Len(capHeard') + Len(capQueue') + capDropped'
                              + Cardinality(capLost') + a' + b'
    BY <2>14 DEF LossIsBounded
  <2> HIDE DEF a, b
  <2> QED
    BY <2>9, <2>10, <2>12, <2>13, <2>15, <2>16
<1>14. CASE AbandonedEnds
  <2>10. Cardinality(capLost) \in Nat /\ capAbandoned \in Nat /\ capGivenUp \in Nat
           /\ capDropped \in Nat
    BY FS_CardinalityType DEF CaptureHolds, CapLostTyped, CaptureFits, CapReadsFit, CapBlocksFit
  <2>1. /\ capAbandoned' = capAbandoned - 1
        /\ UNCHANGED <<capPhase, capBlock, capQueue, capHeard, capLost, capRead, capGivenUp,
             capDropped>>
    BY <1>14 DEF AbandonedEnds, ReadReturns
  <2> QED
    BY <2>1, <2>10 DEF LossIsBounded
<1>15. CASE SessionStops
  BY <1>15 DEF SessionStops, LossIsBounded, NoRead, CaptureFits, CapReadsFit, CapBlocksFit,
     CapLoopFits
<1>16. CASE HearingEnds
  <2>10. Cardinality(capLost) \in Nat /\ capAbandoned \in Nat /\ capGivenUp \in Nat
           /\ capDropped \in Nat
    BY FS_CardinalityType DEF CaptureHolds, CapLostTyped, CaptureFits, CapReadsFit, CapBlocksFit
  <2>1. /\ UNCHANGED <<capPhase, capBlock, capQueue, capHeard, capLost, capDropped>>
        /\ capRead \notin 1 .. NBlocks /\ capRead' \notin 1 .. NBlocks
        /\ \/ capAbandoned' = capAbandoned /\ capGivenUp' = capGivenUp
           \/ capAbandoned' = capAbandoned + 1 /\ capGivenUp' = capGivenUp + 1
    BY <1>16 DEF HearingEnds, NoRead
  <2> QED
    BY <2>1, <2>10 DEF LossIsBounded
<1>17. ASSUME NEW d \in Attempts, ProbeOpens(d) PROVE LossIsBounded'
  BY <1>17 DEF ProbeOpens, LossIsBounded, NoRead, CaptureFits, CapReadsFit, CapBlocksFit,
     CapLoopFits
<1>18. CASE ProbeEnds
  BY <1>18 DEF ProbeEnds, LossIsBounded, NoRead, CaptureFits, CapReadsFit, CapBlocksFit,
     CapLoopFits
<1>19. CASE UNCHANGED captureVars
  BY <1>19 DEF captureVars, LossIsBounded
<1> QED
  BY <1>1, <1>2, <1>3, <1>4, <1>5, <1>6, <1>7, <1>8, <1>9, <1>10, <1>11, <1>12, <1>13, <1>14,
     <1>15, <1>16, <1>17, <1>18, <1>19 DEF CaptureNext, CapturingStep, HearingStep

\* The recording is in order and misses no more than the reads given up explain.
LEMMA CaptureIsSafe == CaptureInit /\ [][CaptureNext]_captureVars => []CaptureInv
<1>1. CaptureIInv /\ [CaptureNext]_captureVars => CaptureIInv'
  BY CaptureFitsNext, CaptureHoldsNext, BlocksMove, StayOrdered, PutsOrdered, TakesOrdered,
     AbandonedOrdered, HearsOrdered, GivesUpOrdered, LossIsBoundedNext DEF CaptureIInv,
     CapInOrder
<1>2. CaptureIInv => CaptureInv
  BY DEF CaptureIInv, CaptureInv, CaptureTypeOK, CaptureFits, CapPhaseFits, CapStraysFit,
         CapErrorsFit, CapReadsFit, CaptureHolds, CapQueueTyped, CapLostTyped
<1> QED
  BY CaptureInitInv, <1>1, <1>2, PTL

-----------------------------------------------------------------------------
(* history_db.py and the services on it.  What each thread is at fits the rows it is about; *)
(* two that are at the same row or word at once are on record as overlapping.               *)

TextsTo(n) == [of : 1 .. n, by : {"coach", "pipeline", "retry"}]
RetryStates == {"idle", "queued", "running", "completed", "failed"}

\* A row after n ingests.
RowsTo(n) ==
  [raw : 1 .. n, active : TextsTo(n), retry : RetryStates, tries : Nat, deleted : BOOLEAN,
   revs : Seq(TextsTo(n))]
TablesTo(n) == [HistoryIds -> RowsTo(n) \cup {NoRow}]
WordRows == [text : Nat, on : BOOLEAN]
WordTables == [WordIds -> WordRows \cup {NoRow}]
DataTo(n) == [rows : TablesTo(n), words : WordTables]

\* What a thread or a worker may be at.
PlainOps == [at : {"submit", "read", "failed"}, on : HistoryIds]
TextOps(n) == [at : {"undo", "apply", "count"}, on : HistoryIds, text : TextsTo(n)]
InsertOps(n) ==
  [at : {"insert"}, on : HistoryIds, text : TextsTo(n), index : Nat, known : BOOLEAN]
UpdateOps == [at : {"update"}, on : WordIds, row : WordRows, field : {"text", "on"}]
OpsTo(n) == {Idle} \cup PlainOps \cup TextOps(n) \cup InsertOps(n) \cup UpdateOps

HistCountsFit ==
  /\ ingested \in 0 .. NIngests /\ calls \in Nat /\ inTx \in BOOLEAN
  /\ service \in {"up", "closing", "down"}
HistRowsFit == rows \in TablesTo(ingested)
HistWordsFit == words \in WordTables /\ wanted \in WordTables
HistKeptFits ==
  /\ committed \in DataTo(ingested) /\ onDisk \in DataTo(ingested)
  /\ ~inTx => rows = committed.rows /\ words = committed.words
  /\ service = "down" => ~inTx
HistServingFits == serving \in [HistoryThreads -> OpsTo(ingested)]
HistRetryingFits == retrying \in [RetryWorkers -> OpsTo(ingested)]
HistSetsFit ==
  /\ retryQueue \in Seq(HistoryIds)
  /\ stopped \subseteq HistoryIds /\ overlapped \subseteq HistoryIds \cup WordIds
HistFits ==
  /\ HistCountsFit /\ HistRowsFit /\ HistWordsFit /\ HistKeptFits
  /\ HistServingFits /\ HistRetryingFits /\ HistSetsFit

\* The threads and the workers, and what each is at.
Actors == ({"thread"} \X HistoryThreads) \cup ({"worker"} \X RetryWorkers)
Does(a) == IF a[1] = "thread" THEN serving[a[2]] ELSE retrying[a[2]]

\* Whoever is at a row of the table has one, and an insert fits the revisions that are there.
OpFits(c, table) ==
  /\ c.at \notin {"idle", "update"} => table[c.on] # NoRow
  /\ c.at = "insert" =>
       /\ c.index <= Len(table[c.on].revs)
       /\ c.known => Contains(table[c.on].revs, c.text)
       /\ ~c.known => \A j \in 1 .. c.index : table[c.on].revs[j] # c.text
OpsFit == \A a \in Actors : OpFits(Does(a), rows)
QueueFits == \A j \in 1 .. Len(retryQueue) : rows[retryQueue[j]] # NoRow

OneAtATime ==
  \A a, b \in Actors :
    a # b /\ Does(a).at # "idle" /\ Does(b).at # "idle" /\ Does(a).on = Does(b).on =>
      Does(a).on \in overlapped

\* The text that the row shows will be put among its revisions.
Covers(c, i, row) ==
  /\ c.on = i /\ c.at \in {"count", "insert"} /\ c.text = row.active
  /\ c.at = "insert" => ~c.known /\ c.index = Len(row.revs)
ShownWillBeRecorded ==
  \A i \in HistoryIds :
    rows[i] # NoRow /\ i \notin overlapped =>
      Contains(rows[i].revs, rows[i].active) \/ \E a \in Actors : Covers(Does(a), i, rows[i])

\* An update writes the fields that are wanted, but for the one it is about.
UpdateFits(c, word, want) ==
  word # NoRow /\ c.row = [want EXCEPT ![c.field] = c.row[c.field]]
UpdatesFit ==
  \A a \in Actors :
    Does(a).at = "update" /\ Does(a).on \notin overlapped =>
      UpdateFits(Does(a), words[Does(a).on], wanted[Does(a).on])

\* What is committed, and what a crash leaves, is whole.
IsWhole(table) ==
  \A i \in HistoryIds : table[i] # NoRow =>
    IsInjective(table[i].revs) /\ Contains(table[i].revs, table[i].active)
KeptIsWhole == IsWhole(committed.rows) /\ IsWhole(onDisk.rows)

HistoryIInv ==
  /\ HistFits /\ OpsFit /\ QueueFits /\ OneAtATime /\ RevisionsDiffer /\ ShownWillBeRecorded
  /\ UpdatesAreKept /\ UpdatesFit /\ KeptIsWhole

\* A row is told from no row.
LEMMA RowOrNone ==
  ASSUME NEW n
  PROVE  NoRow \notin RowsTo(n) /\ NoRow \notin WordRows
BY DEF NoRow, RowsTo, WordRows

\* One ingest more allows for no row less.
LEMMA MoreIngests ==
  ASSUME NEW n \in Nat
  PROVE  /\ TextsTo(n) \subseteq TextsTo(n + 1) /\ RowsTo(n) \subseteq RowsTo(n + 1)
         /\ TablesTo(n) \subseteq TablesTo(n + 1) /\ DataTo(n) \subseteq DataTo(n + 1)
         /\ OpsTo(n) \subseteq OpsTo(n + 1)
<1>1. TextsTo(n) \subseteq TextsTo(n + 1)
  BY DEF TextsTo
<1>2. Seq(TextsTo(n)) \subseteq Seq(TextsTo(n + 1))
  <2> SUFFICES ASSUME NEW s \in Seq(TextsTo(n)) PROVE s \in Seq(TextsTo(n + 1))
    OBVIOUS
  <2> QED
    BY <1>1, SeqDef
<1>3. RowsTo(n) \subseteq RowsTo(n + 1)
  BY <1>1, <1>2 DEF RowsTo
<1>4. TablesTo(n) \subseteq TablesTo(n + 1)
  BY <1>3 DEF TablesTo
<1>5. DataTo(n) \subseteq DataTo(n + 1)
  BY <1>4 DEF DataTo
<1>6. TextOps(n) \subseteq TextOps(n + 1) /\ InsertOps(n) \subseteq InsertOps(n + 1)
  BY <1>1 DEF TextOps, InsertOps
<1>7. OpsTo(n) \subseteq OpsTo(n + 1)
  BY <1>6 DEF OpsTo
<1> QED
  BY <1>1, <1>3, <1>4, <1>5, <1>7

\* The row with the fields of f as f has them.
SetIn(r, f) == [x \in DOMAIN r |-> IF x \in DOMAIN f THEN f[x] ELSE r[x]]

\* An update of a row leaves the others and its other fields alone.
LEMMA UpdatedIs ==
  ASSUME NEW i \in HistoryIds, rows \in TablesTo(ingested), NEW f, Updated(i, f)
  PROVE  rows' = [rows EXCEPT ![i] = SetIn(rows[i], f)]
BY DEF Updated, SetIn, TablesTo

\* What an update of the retry status makes of a row, and of the rows.
LEMMA RetryInRow ==
  ASSUME NEW n, NEW r \in RowsTo(n), NEW s \in RetryStates
  PROVE  LET new == SetIn(r, [retry |-> s]) IN
         /\ new \in RowsTo(n) /\ new.raw = r.raw
         /\ new.active = r.active /\ new.revs = r.revs
BY DEF SetIn, RowsTo

\* Rows stay rows when the state of a retry is written,
LEMMA RetryInRows ==
  ASSUME NEW i \in HistoryIds, rows \in TablesTo(ingested), rows[i] # NoRow,
         NEW s \in RetryStates,
         Updated(i, [retry |-> s])
  PROVE  /\ rows[i] \in RowsTo(ingested) /\ rows' \in TablesTo(ingested)
         /\ rows'[i] \in RowsTo(ingested)
         /\ rows'[i].active = rows[i].active /\ rows'[i].revs = rows[i].revs
         /\ \A j \in HistoryIds \ {i} : rows'[j] = rows[j]
<1>1. rows[i] \in RowsTo(ingested)
  BY DEF TablesTo
<1> DEFINE new == SetIn(rows[i], [retry |-> s])
<1>2. /\ new \in RowsTo(ingested)
      /\ new.active = rows[i].active /\ new.revs = rows[i].revs
  BY <1>1, RetryInRow
<1>3. rows' = [rows EXCEPT ![i] = new]
  BY UpdatedIs
<1> HIDE DEF new
<1> QED
  BY <1>1, <1>2, <1>3 DEF TablesTo

\* What an update of the text makes of a row, and of the rows.
LEMMA ActiveInRow ==
  ASSUME NEW n, NEW r \in RowsTo(n), NEW v \in TextsTo(n)
  PROVE  LET new == SetIn(r, [active |-> v]) IN
         /\ new \in RowsTo(n) /\ new.raw = r.raw
         /\ new.active = v /\ new.revs = r.revs
BY DEF SetIn, RowsTo

\* when another text becomes the one shown,
LEMMA ActiveInRows ==
  ASSUME NEW i \in HistoryIds, rows \in TablesTo(ingested), rows[i] # NoRow,
         NEW v \in TextsTo(ingested),
         Updated(i, [active |-> v])
  PROVE  /\ rows[i] \in RowsTo(ingested) /\ rows' \in TablesTo(ingested)
         /\ rows'[i] \in RowsTo(ingested)
         /\ rows'[i].active = v /\ rows'[i].revs = rows[i].revs
         /\ \A j \in HistoryIds \ {i} : rows'[j] = rows[j]
<1>1. rows[i] \in RowsTo(ingested)
  BY DEF TablesTo
<1> DEFINE new == SetIn(rows[i], [active |-> v])
<1>2. /\ new \in RowsTo(ingested)
      /\ new.active = v /\ new.revs = rows[i].revs
  BY <1>1, ActiveInRow
<1>3. rows' = [rows EXCEPT ![i] = new]
  BY UpdatedIs
<1> HIDE DEF new
<1> QED
  BY <1>1, <1>2, <1>3 DEF TablesTo

\* What a retry's result makes of a row, and of the rows.
LEMMA ResultInRow ==
  ASSUME NEW n, NEW r \in RowsTo(n), NEW v \in TextsTo(n), NEW s \in RetryStates, NEW k \in Nat
  PROVE  LET new == SetIn(r, [active |-> v, retry |-> s, tries |-> k]) IN
         /\ new \in RowsTo(n) /\ new.raw = r.raw
         /\ new.active = v /\ new.revs = r.revs
BY DEF SetIn, RowsTo

\* when the result of a retry is,
LEMMA ResultInRows ==
  ASSUME NEW i \in HistoryIds, rows \in TablesTo(ingested), rows[i] # NoRow,
         NEW v \in TextsTo(ingested), NEW s \in RetryStates, NEW k \in Nat,
         Updated(i, [active |-> v, retry |-> s, tries |-> k])
  PROVE  /\ rows[i] \in RowsTo(ingested) /\ rows' \in TablesTo(ingested)
         /\ rows'[i] \in RowsTo(ingested)
         /\ rows'[i].active = v /\ rows'[i].revs = rows[i].revs
         /\ \A j \in HistoryIds \ {i} : rows'[j] = rows[j]
<1>1. rows[i] \in RowsTo(ingested)
  BY DEF TablesTo
<1> DEFINE new == SetIn(rows[i], [active |-> v, retry |-> s, tries |-> k])
<1>2. /\ new \in RowsTo(ingested)
      /\ new.active = v /\ new.revs = rows[i].revs
  BY <1>1, ResultInRow
<1>3. rows' = [rows EXCEPT ![i] = new]
  BY UpdatedIs
<1> HIDE DEF new
<1> QED
  BY <1>1, <1>2, <1>3 DEF TablesTo

\* What a retry's failure makes of a row, and of the rows.
LEMMA FailureInRow ==
  ASSUME NEW n, NEW r \in RowsTo(n), NEW s \in RetryStates, NEW k \in Nat
  PROVE  LET new == SetIn(r, [retry |-> s, tries |-> k]) IN
         /\ new \in RowsTo(n) /\ new.raw = r.raw
         /\ new.active = r.active /\ new.revs = r.revs
BY DEF SetIn, RowsTo

\* when its failure is,
LEMMA FailureInRows ==
  ASSUME NEW i \in HistoryIds, rows \in TablesTo(ingested), rows[i] # NoRow,
         NEW s \in RetryStates, NEW k \in Nat,
         Updated(i, [retry |-> s, tries |-> k])
  PROVE  /\ rows[i] \in RowsTo(ingested) /\ rows' \in TablesTo(ingested)
         /\ rows'[i] \in RowsTo(ingested)
         /\ rows'[i].active = rows[i].active /\ rows'[i].revs = rows[i].revs
         /\ \A j \in HistoryIds \ {i} : rows'[j] = rows[j]
<1>1. rows[i] \in RowsTo(ingested)
  BY DEF TablesTo
<1> DEFINE new == SetIn(rows[i], [retry |-> s, tries |-> k])
<1>2. /\ new \in RowsTo(ingested)
      /\ new.active = rows[i].active /\ new.revs = rows[i].revs
  BY <1>1, FailureInRow
<1>3. rows' = [rows EXCEPT ![i] = new]
  BY UpdatedIs
<1> HIDE DEF new
<1> QED
  BY <1>1, <1>2, <1>3 DEF TablesTo

\* What a deletion makes of a row, and of the rows.
LEMMA DeletedInRow ==
  ASSUME NEW n, NEW r \in RowsTo(n), NEW b \in BOOLEAN
  PROVE  LET new == SetIn(r, [deleted |-> b]) IN
         /\ new \in RowsTo(n) /\ new.raw = r.raw
         /\ new.active = r.active /\ new.revs = r.revs
BY DEF SetIn, RowsTo

\* when a row is deleted or restored,
LEMMA DeletedInRows ==
  ASSUME NEW i \in HistoryIds, rows \in TablesTo(ingested), rows[i] # NoRow,
         NEW b \in BOOLEAN,
         Updated(i, [deleted |-> b])
  PROVE  /\ rows[i] \in RowsTo(ingested) /\ rows' \in TablesTo(ingested)
         /\ rows'[i] \in RowsTo(ingested)
         /\ rows'[i].active = rows[i].active /\ rows'[i].revs = rows[i].revs
         /\ \A j \in HistoryIds \ {i} : rows'[j] = rows[j]
<1>1. rows[i] \in RowsTo(ingested)
  BY DEF TablesTo
<1> DEFINE new == SetIn(rows[i], [deleted |-> b])
<1>2. /\ new \in RowsTo(ingested)
      /\ new.active = rows[i].active /\ new.revs = rows[i].revs
  BY <1>1, DeletedInRow
<1>3. rows' = [rows EXCEPT ![i] = new]
  BY UpdatedIs
<1> HIDE DEF new
<1> QED
  BY <1>1, <1>2, <1>3 DEF TablesTo

\* What a new revision makes of a row, and of the rows.
LEMMA RevsInRow ==
  ASSUME NEW n, NEW r \in RowsTo(n), NEW q \in Seq(TextsTo(n))
  PROVE  LET new == SetIn(r, [revs |-> q]) IN
         /\ new \in RowsTo(n) /\ new.raw = r.raw
         /\ new.active = r.active /\ new.revs = q
BY DEF SetIn, RowsTo

\* and when a revision is added.
LEMMA RevsInRows ==
  ASSUME NEW i \in HistoryIds, rows \in TablesTo(ingested), rows[i] # NoRow,
         NEW q \in Seq(TextsTo(ingested)),
         Updated(i, [revs |-> q])
  PROVE  /\ rows[i] \in RowsTo(ingested) /\ rows' \in TablesTo(ingested)
         /\ rows'[i] \in RowsTo(ingested)
         /\ rows'[i].active = rows[i].active /\ rows'[i].revs = q
         /\ \A j \in HistoryIds \ {i} : rows'[j] = rows[j]
<1>1. rows[i] \in RowsTo(ingested)
  BY DEF TablesTo
<1> DEFINE new == SetIn(rows[i], [revs |-> q])
<1>2. /\ new \in RowsTo(ingested)
      /\ new.active = rows[i].active /\ new.revs = q
  BY <1>1, RevsInRow
<1>3. rows' = [rows EXCEPT ![i] = new]
  BY UpdatedIs
<1> HIDE DEF new
<1> QED
  BY <1>1, <1>2, <1>3 DEF TablesTo

\* What an operation of each kind is about.
LEMMA OpKinds ==
  ASSUME NEW n, NEW c \in OpsTo(n)
  PROVE  /\ c.at \in {"idle", "submit", "read", "failed", "undo", "apply", "count", "insert",
                      "update"}
         /\ c.at = "idle" => c = Idle
         /\ c.at \notin {"idle", "update"} => c.on \in HistoryIds
         /\ c.at \in {"undo", "apply", "count", "insert"} => c.text \in TextsTo(n)
         /\ c.at = "insert" => c.index \in Nat /\ c.known \in BOOLEAN
         /\ c.at = "update" =>
              c.on \in WordIds /\ c.row \in WordRows /\ c.field \in {"text", "on"}
BY DEF OpsTo, Idle, PlainOps, TextOps, InsertOps, UpdateOps

\* What the actions make of one.
LEMMA OpsMade ==
  ASSUME NEW n, NEW i \in HistoryIds, NEW v \in TextsTo(n)
  PROVE  /\ Idle \in OpsTo(n)
         /\ \A p \in {"submit", "read", "failed"} : [at |-> p, on |-> i] \in OpsTo(n)
         /\ \A p \in {"undo", "apply", "count"} : [at |-> p, on |-> i, text |-> v] \in OpsTo(n)
         /\ \A x \in Nat, b \in BOOLEAN :
              [at |-> "insert", on |-> i, text |-> v, index |-> x, known |-> b] \in OpsTo(n)
BY DEF OpsTo, PlainOps, TextOps, InsertOps

\* What apply_revision() and undo are at next.
LEMMA OpShows ==
  ASSUME NEW n, NEW c \in OpsTo(n), c.at \in {"undo", "apply"}
  PROVE  [c EXCEPT !.at = "count"] = [at |-> "count", on |-> c.on, text |-> c.text]
<1>1. c \in TextOps(n)
  BY DEF OpsTo, Idle, PlainOps, TextOps, InsertOps, UpdateOps
<1> QED
  BY <1>1 DEF TextOps

\* An edit of a word fits.
LEMMA OpUpdates ==
  ASSUME NEW n, NEW w \in WordIds, NEW r \in WordRows, NEW f \in {"text", "on"}
  PROVE  [at |-> "update", on |-> w, row |-> r, field |-> f] \in OpsTo(n)
BY DEF OpsTo, UpdateOps

\* The threads and the workers are the actors.
LEMMA ActorsAre ==
  ASSUME HistFits
  PROVE  /\ \A t \in HistoryThreads : <<"thread", t>> \in Actors
              /\ Does(<<"thread", t>>) = serving[t]
         /\ \A k \in RetryWorkers : <<"worker", k>> \in Actors
              /\ Does(<<"worker", k>>) = retrying[k]
         /\ \A a \in Actors : Does(a) \in OpsTo(ingested)
BY DEF HistFits, HistServingFits, HistRetryingFits, Actors, Does

\* Whatever is at a row or a word, it is there.
LEMMA OpsAre ==
  ASSUME HistFits, OpsFit
  PROVE  /\ \A t \in HistoryThreads : serving[t] \in OpsTo(ingested) /\ OpFits(serving[t], rows)
         /\ \A k \in RetryWorkers : retrying[k] \in OpsTo(ingested) /\ OpFits(retrying[k], rows)
<1>1. ASSUME NEW t \in HistoryThreads
      PROVE  serving[t] \in OpsTo(ingested) /\ OpFits(serving[t], rows)
  BY ActorsAre DEF OpsFit
<1>2. ASSUME NEW k \in RetryWorkers
      PROVE  retrying[k] \in OpsTo(ingested) /\ OpFits(retrying[k], rows)
  BY ActorsAre DEF OpsFit
<1> QED
  BY <1>1, <1>2

\* A row of the table is a row.
LEMMA RowThere ==
  ASSUME HistFits, NEW i \in HistoryIds, rows[i] # NoRow
  PROVE  /\ rows[i] \in RowsTo(ingested) /\ rows[i].raw \in 1 .. ingested
         /\ rows[i].active \in TextsTo(ingested) /\ rows[i].revs \in Seq(TextsTo(ingested))
         /\ Len(rows[i].revs) \in Nat /\ rows[i].tries \in Nat
<1>1. rows[i] \in RowsTo(ingested)
  BY DEF HistFits, HistRowsFit, TablesTo
<1> QED
  BY <1>1, LenProperties DEF RowsTo

\* The kinds of steps.  Nobody's text or revisions change:
SameText ==
  \A i \in HistoryIds :
    /\ rows'[i] = NoRow <=> rows[i] = NoRow
    /\ rows[i] # NoRow => rows'[i].revs = rows[i].revs /\ rows'[i].active = rows[i].active
OthersSame(i) == \A j \in HistoryIds \ {i} : rows'[j] = rows[j]
WordsStay == UNCHANGED <<words, wanted>>
KeptStays == UNCHANGED <<committed, onDisk>>

\* One of the actors goes to an operation, or none does.
ActorMoves(a, c) ==
  /\ a \in Actors /\ Does(a)' = c /\ \A b \in Actors \ {a} : Does(b)' = Does(b)
  /\ serving' \in [HistoryThreads -> OpsTo(ingested)]
  /\ retrying' \in [RetryWorkers -> OpsTo(ingested)]
NobodyMoves == UNCHANGED <<serving, retrying>> /\ \A a \in Actors : Does(a)' = Does(a)

\* A step that writes rows writes rows.
RowsWritten == rows' \in TablesTo(ingested) /\ ingested' = ingested /\ KeptStays

Rests ==
  /\ RowsWritten /\ SameText /\ WordsStay /\ NobodyMoves /\ UNCHANGED overlapped
  /\ retryQueue' \in {retryQueue, <<>>}

\* An operation on x begins.
StartsOn(a, c) ==
  /\ Does(a) = Idle /\ ActorMoves(a, c) /\ RowsWritten /\ SameText /\ WordsStay
  /\ overlapped' = IF \E b \in Actors : Does(b).on = c.on THEN overlapped \cup {c.on}
                   ELSE overlapped
StartsOnRow(a, c) ==
  /\ StartsOn(a, c) /\ c.at \in {"undo", "submit"} /\ c.on \in HistoryIds /\ rows[c.on] # NoRow
  /\ UNCHANGED retryQueue
StartsRetry(a, c) ==
  /\ StartsOn(a, c) /\ c.at = "read" /\ c.on \in HistoryIds /\ rows[c.on] # NoRow
  /\ retryQueue # <<>> /\ retryQueue' = Tail(retryQueue)
StartsOnWord(a, c) ==
  /\ StartsOn(a, c) /\ c.at = "update" /\ c.on \in WordIds /\ words[c.on] # NoRow
  /\ c.field \in {"text", "on"} /\ c.row = [words[c.on] EXCEPT ![c.field] = c.row[c.field]]
  /\ UNCHANGED retryQueue

\* An operation goes on.
GoesOn(a, c) ==
  /\ Does(a).at \notin {"idle", "update"} /\ ActorMoves(a, c)
  /\ RowsWritten /\ WordsStay /\ UNCHANGED overlapped
Prepares(a, c) ==
  /\ GoesOn(a, c) /\ SameText /\ c.on = Does(a).on /\ UNCHANGED retryQueue
  /\ \/ Does(a).at \in {"read", "apply"} /\ c.at \in {"apply", "failed"}
     \/ Does(a).at = "count" /\ c = Counted(Does(a).on, Does(a).text)
Shows(a, c) ==
  LET i == Does(a).on IN
  /\ GoesOn(a, c) /\ UNCHANGED retryQueue /\ OthersSame(i)
  /\ Does(a).at \in {"undo", "apply"} /\ c = [at |-> "count", on |-> i, text |-> Does(a).text]
  /\ rows'[i] # NoRow /\ rows'[i].revs = rows[i].revs /\ rows'[i].active = Does(a).text
Adds(a, c) ==
  LET d == Does(a)
      i == Does(a).on
  IN
  /\ GoesOn(a, c) /\ UNCHANGED retryQueue /\ OthersSame(i)
  /\ d.at = "insert" /\ (c = Idle \/ (c.at = "failed" /\ c.on = i))
  /\ rows'[i] # NoRow /\ rows'[i].active = rows[i].active
  /\ rows'[i].revs = IF ~d.known /\ Len(rows[i].revs) = d.index
                     THEN Append(rows[i].revs, d.text) ELSE rows[i].revs
ActorEnds(a) ==
  /\ GoesOn(a, Idle) /\ SameText /\ Does(a).at \in {"submit", "failed"}
  /\ retryQueue' \in {retryQueue, Append(retryQueue, Does(a).on)}

\* A word is written.
Writing ==
  /\ RowsWritten /\ SameText /\ UNCHANGED retryQueue
  /\ words' \in WordTables /\ wanted' \in WordTables
WritesWord(a) ==
  LET d == Does(a) IN
  /\ Writing /\ d.at = "update" /\ ActorMoves(a, Idle) /\ UNCHANGED overlapped
  /\ IF words[d.on] = NoRow THEN WordsStay
     ELSE /\ words' = [words EXCEPT ![d.on] = d.row]
          /\ wanted' = [wanted EXCEPT ![d.on] = [wanted[d.on] EXCEPT ![d.field] = d.row[d.field]]]
CreatesWord(w) ==
  /\ Writing /\ NobodyMoves /\ UNCHANGED overlapped /\ words[w] = NoRow
  /\ words' = [words EXCEPT ![w] = [text |-> 0, on |-> TRUE]]
  /\ wanted' = [wanted EXCEPT ![w] = [text |-> 0, on |-> TRUE]]
DeletesWord(w) ==
  /\ Writing /\ NobodyMoves
  /\ words' = [words EXCEPT ![w] = NoRow] /\ wanted' = [wanted EXCEPT ![w] = NoRow]
  /\ overlapped' = IF \E b \in Actors : Does(b).on = w THEN overlapped \cup {w} ELSE overlapped

\* A session is ingested.
Ingests(i) ==
  LET text == Text(ingested + 1, "coach") IN
  /\ NobodyMoves /\ WordsStay /\ UNCHANGED retryQueue /\ OthersSame(i)
  /\ overlapped' = IF \E b \in Actors : Does(b).on = i THEN overlapped \cup {i} ELSE overlapped
  /\ \/ rows' = rows /\ KeptStays
     \/ /\ rows'[i] # NoRow /\ rows'[i].active = text
        /\ rows'[i].revs = IF rows[i] = NoRow THEN <<text>> ELSE Append(rows[i].revs, text)
        /\ rows = committed.rows /\ committed'.rows = rows' /\ onDisk' \in {onDisk, committed'}

\* Who is busy with x is an actor.
LEMMA BusyIs ==
  ASSUME HistFits, NEW x
  PROVE  Busy(x) <=> \E b \in Actors : Does(b).on = x
<1>1. ASSUME Busy(x) PROVE \E b \in Actors : Does(b).on = x
  <2>1. CASE \E t \in HistoryThreads : serving[t].on = x
    BY <2>1, ActorsAre
  <2>2. CASE \E k \in RetryWorkers : retrying[k].on = x
    BY <2>2, ActorsAre
  <2> QED
    BY <1>1, <2>1, <2>2 DEF Busy
<1>2. ASSUME NEW b \in Actors, Does(b).on = x PROVE Busy(x)
  BY <1>2 DEF Busy, Actors, Does
<1> QED
  BY <1>1, <1>2

\* A thread or a worker that goes to an operation moves there.
LEMMA ThreadMoves ==
  ASSUME HistFits, NEW t \in HistoryThreads, NEW c \in OpsTo(ingested), Goes(t, c),
         UNCHANGED retrying
  PROVE  ActorMoves(<<"thread", t>>, c)
BY DEF HistFits, HistServingFits, HistRetryingFits, ActorMoves, Goes, Actors, Does

\* A step of a retry worker is the move of one actor.
LEMMA WorkerMoves ==
  ASSUME HistFits, NEW k \in RetryWorkers, NEW c \in OpsTo(ingested), Works(k, c),
         UNCHANGED serving
  PROVE  ActorMoves(<<"worker", k>>, c)
BY DEF HistFits, HistServingFits, HistRetryingFits, ActorMoves, Works, Actors, Does

\* A step that is none of an actor moves nobody.
LEMMA NobodyDoes ==
  ASSUME UNCHANGED <<serving, retrying>>
  PROVE  NobodyMoves
BY DEF NobodyMoves, Does

\* An undo begins.
LEMMA AsksUndoStarts ==
  ASSUME HistFits, OpsFit, NEW t \in HistoryThreads, NEW i \in HistoryIds, AsksUndo(t, i)
  PROVE  \E c \in OpsTo(ingested) : StartsOnRow(<<"thread", t>>, c)
<1> DEFINE c == [at |-> "undo", on |-> i, text |-> Text(rows[i].raw, "pipeline")]
           a == <<"thread", t>>
<1>1. rows[i] # NoRow /\ serving[t].at = "idle" /\ Goes(t, c) /\ Begins(i)
  BY DEF AsksUndo, HistoryCall, IsAt
<1>2. UNCHANGED <<rows, retrying, words, wanted, retryQueue, committed, onDisk, ingested>>
  BY DEF AsksUndo
<1>3. Text(rows[i].raw, "pipeline") \in TextsTo(ingested)
  BY <1>1, RowThere DEF Text, TextsTo
<1>4. c \in OpsTo(ingested) /\ c.on = i /\ c.at = "undo"
  BY <1>3, OpsMade
<1> HIDE DEF c
<1>5. ActorMoves(a, c)
  BY <1>1, <1>2, <1>4, ThreadMoves
<1>6. Does(a) = Idle
  BY <1>1, OpsAre, OpKinds, ActorsAre
<1>7. overlapped' = IF \E b \in Actors : Does(b).on = c.on THEN overlapped \cup {c.on}
                    ELSE overlapped
  BY <1>1, <1>4, BusyIs DEF Begins
<1>8. RowsWritten /\ SameText /\ WordsStay
  BY <1>2 DEF RowsWritten, SameText, WordsStay, KeptStays, HistFits, HistRowsFit
<1> QED
  BY <1>1, <1>2, <1>4, <1>5, <1>6, <1>7, <1>8 DEF StartsOnRow, StartsOn

\* A retry is asked for.
LEMMA AsksRetryStarts ==
  ASSUME HistFits, OpsFit, NEW t \in HistoryThreads, NEW i \in HistoryIds, AsksRetry(t, i)
  PROVE  \E c \in OpsTo(ingested) : StartsOnRow(<<"thread", t>>, c)
<1> DEFINE c == [at |-> "submit", on |-> i]
           a == <<"thread", t>>
<1>1. /\ rows[i] # NoRow /\ serving[t].at = "idle" /\ Goes(t, c) /\ Begins(i)
      /\ Updated(i, [retry |-> "queued"])
  BY DEF AsksRetry, HistoryCall, IsAt
<1>2. UNCHANGED <<retrying, words, wanted, retryQueue, committed, onDisk, ingested>>
  BY DEF AsksRetry
<1>3. rows \in TablesTo(ingested) /\ "queued" \in RetryStates
  BY DEF HistFits, HistRowsFit, RetryStates
<1>4. c \in OpsTo(ingested) /\ c.on = i /\ c.at = "submit"
  BY DEF OpsTo, PlainOps
<1> HIDE DEF c
<1>5. ActorMoves(a, c)
  BY <1>1, <1>2, <1>4, ThreadMoves
<1>6. Does(a) = Idle
  BY <1>1, OpsAre, OpKinds, ActorsAre
<1>7. overlapped' = IF \E b \in Actors : Does(b).on = c.on THEN overlapped \cup {c.on}
                    ELSE overlapped
  BY <1>1, <1>4, BusyIs DEF Begins
<1>8. /\ rows' \in TablesTo(ingested) /\ rows'[i] \in RowsTo(ingested)
      /\ rows'[i].active = rows[i].active /\ rows'[i].revs = rows[i].revs
      /\ \A j \in HistoryIds \ {i} : rows'[j] = rows[j]
  BY <1>1, <1>3, RetryInRows
<1>9. RowsWritten /\ SameText /\ WordsStay
  BY <1>1, <1>2, <1>8, RowOrNone DEF RowsWritten, SameText, WordsStay, KeptStays
<1> QED
  BY <1>1, <1>2, <1>4, <1>5, <1>6, <1>7, <1>9 DEF StartsOnRow, StartsOn

\* A worker begins a retry.
LEMMA RetryRunsStarts ==
  ASSUME HistFits, OpsFit, QueueFits, retryQueue \in Seq(HistoryIds), NEW k \in RetryWorkers,
    RetryRuns(k)
  PROVE  \E c \in OpsTo(ingested) : StartsRetry(<<"worker", k>>, c)
<1>0. PICK i \in HistoryIds : i = Head(retryQueue)
  BY HeadTailProperties DEF RetryRuns
<1> DEFINE c == [at |-> "read", on |-> i]
           a == <<"worker", k>>
<1>1. /\ retryQueue # <<>> /\ retryQueue' = Tail(retryQueue)
      /\ retrying[k].at = "idle" /\ Works(k, c) /\ Begins(i)
      /\ Updated(i, [retry |-> "running"])
  BY <1>0 DEF RetryRuns
<1>2. UNCHANGED <<serving, words, wanted, committed, onDisk, ingested>>
  BY DEF RetryRuns
<1>3. rows \in TablesTo(ingested) /\ "running" \in RetryStates
  BY DEF HistFits, HistRowsFit, RetryStates
<1>4. c \in OpsTo(ingested) /\ c.on = i /\ c.at = "read"
  BY DEF OpsTo, PlainOps
<1> HIDE DEF c
<1>5. ActorMoves(a, c)
  BY <1>1, <1>2, <1>4, WorkerMoves
<1>6. Does(a) = Idle
  BY <1>1, OpsAre, OpKinds, ActorsAre
<1>7. overlapped' = IF \E b \in Actors : Does(b).on = c.on THEN overlapped \cup {c.on}
                    ELSE overlapped
  BY <1>1, <1>4, BusyIs DEF Begins
<1>10. rows[i] # NoRow
  BY <1>0, <1>1, HeadTailProperties, LenProperties, EmptySeq DEF QueueFits
<1>8. /\ rows' \in TablesTo(ingested) /\ rows'[i] \in RowsTo(ingested)
      /\ rows'[i].active = rows[i].active /\ rows'[i].revs = rows[i].revs
      /\ \A j \in HistoryIds \ {i} : rows'[j] = rows[j]
  BY <1>1, <1>3, <1>10, RetryInRows
<1>9. RowsWritten /\ SameText /\ WordsStay
  BY <1>1, <1>2, <1>8, <1>10, RowOrNone DEF RowsWritten, SameText, WordsStay, KeptStays
<1> QED
  BY <1>1, <1>2, <1>4, <1>5, <1>6, <1>7, <1>9, <1>10 DEF StartsRetry, StartsOn

\* An update of a word begins.
LEMMA WordReadsStarts ==
  ASSUME HistFits, OpsFit, NEW t \in HistoryThreads, NEW w \in WordIds, words \in WordTables,
         NEW f \in {"text", "on"}, NEW v, v \in IF f = "text" THEN Nat ELSE BOOLEAN, 
         WordReads(t, w, f, v)
  PROVE  \E c \in OpsTo(ingested) : StartsOnWord(<<"thread", t>>, c)
<1> DEFINE r == [words[w] EXCEPT ![f] = v]
           c == [at |-> "update", on |-> w, row |-> r, field |-> f]
           a == <<"thread", t>>
<1>1. words[w] # NoRow /\ serving[t].at = "idle" /\ Goes(t, c) /\ Begins(w)
  BY DEF WordReads, HistoryCall, IsAt, Fields
<1>2. UNCHANGED <<rows, retrying, words, wanted, retryQueue, committed, onDisk, ingested>>
  BY DEF WordReads
<1>3. words[w] \in WordRows
  BY <1>1 DEF WordTables
<1>10. r \in WordRows /\ r = [words[w] EXCEPT ![f] = r[f]]
  BY <1>3 DEF WordRows
<1>4. c \in OpsTo(ingested) /\ c.on = w /\ c.at = "update" /\ c.row = r /\ c.field = f
  <2> HIDE DEF r
  <2> QED
    BY <1>10, OpUpdates
<1> HIDE DEF c
<1>5. ActorMoves(a, c)
  BY <1>1, <1>2, <1>4, ThreadMoves
<1>6. Does(a) = Idle
  BY <1>1, OpsAre, OpKinds, ActorsAre
<1>7. overlapped' = IF \E b \in Actors : Does(b).on = c.on THEN overlapped \cup {c.on}
                    ELSE overlapped
  BY <1>1, <1>4, BusyIs DEF Begins
<1>8. RowsWritten /\ SameText /\ WordsStay
  BY <1>2 DEF RowsWritten, SameText, WordsStay, KeptStays, HistFits, HistRowsFit
<1> HIDE DEF r
<1> QED
  BY <1>1, <1>2, <1>4, <1>5, <1>6, <1>7, <1>8, <1>10 DEF StartsOnWord, StartsOn

\* The revisions are counted before one is inserted.
LEMMA UndoCountsPrepares ==
  ASSUME HistFits, OpsFit, NEW t \in HistoryThreads, UndoCounts(t)
  PROVE  \E c \in OpsTo(ingested) : Prepares(<<"thread", t>>, c)
<1> DEFINE a == <<"thread", t>>
<1>1. PICK d \in OpsTo(ingested) : d = serving[t] /\ d = Does(a)
  BY ActorsAre, OpsAre
<1> DEFINE c == Counted(d.on, d.text)
           i == d.on
<1>2. d.at = "count" /\ Goes(t, c)
  BY <1>1 DEF UndoCounts, IsAt
<1>3. UNCHANGED <<retrying, words, wanted, overlapped, committed, onDisk, ingested>>
  BY DEF UndoCounts, IsAt
<1>4. i \in HistoryIds /\ rows[i] # NoRow /\ OpFits(d, rows)
  BY <1>1, <1>2, OpsAre, OpKinds DEF OpFits
<1>9. rows[i].revs \in Seq(TextsTo(ingested)) /\ Len(rows[i].revs) \in Nat
  BY <1>4, RowThere
<1>5. c \in OpsTo(ingested)
  BY <1>2, <1>4, <1>9, OpKinds, OpsMade DEF Counted, Contains
<1>10. c = Counted(Does(a).on, Does(a).text) /\ c.on = i
  BY <1>1 DEF Counted
<1> HIDE DEF c
<1>6. ActorMoves(a, c)
  BY <1>2, <1>3, <1>5, ThreadMoves
<1>7. UNCHANGED <<rows, retryQueue>>
  BY DEF UndoCounts
<1>8. RowsWritten /\ SameText /\ WordsStay
  BY <1>3, <1>7 DEF RowsWritten, SameText, WordsStay, KeptStays, HistFits, HistRowsFit
<1> QED
  BY <1>1, <1>2, <1>3, <1>5, <1>6, <1>7, <1>8, <1>10 DEF Prepares, GoesOn

\* The revisions are counted before one is inserted.
LEMMA RetryCountsPrepares ==
  ASSUME HistFits, OpsFit, NEW k \in RetryWorkers, RetryCounts(k)
  PROVE  \E c \in OpsTo(ingested) : Prepares(<<"worker", k>>, c)
<1> DEFINE a == <<"worker", k>>
<1>1. PICK d \in OpsTo(ingested) : d = retrying[k] /\ d = Does(a)
  BY ActorsAre, OpsAre
<1> DEFINE c == Counted(d.on, d.text)
           i == d.on
<1>2. d.at = "count" /\ Works(k, c)
  BY <1>1 DEF RetryCounts
<1>3. UNCHANGED <<serving, words, wanted, overlapped, committed, onDisk, ingested>>
  BY DEF RetryCounts
<1>4. i \in HistoryIds /\ rows[i] # NoRow /\ OpFits(d, rows)
  BY <1>1, <1>2, OpsAre, OpKinds DEF OpFits
<1>9. rows[i].revs \in Seq(TextsTo(ingested)) /\ Len(rows[i].revs) \in Nat
  BY <1>4, RowThere
<1>5. c \in OpsTo(ingested)
  BY <1>2, <1>4, <1>9, OpKinds, OpsMade DEF Counted, Contains
<1>10. c = Counted(Does(a).on, Does(a).text) /\ c.on = i
  BY <1>1 DEF Counted
<1> HIDE DEF c
<1>6. ActorMoves(a, c)
  BY <1>2, <1>3, <1>5, WorkerMoves
<1>7. UNCHANGED <<rows, retryQueue>>
  BY DEF RetryCounts
<1>8. RowsWritten /\ SameText /\ WordsStay
  BY <1>3, <1>7 DEF RowsWritten, SameText, WordsStay, KeptStays, HistFits, HistRowsFit
<1> QED
  BY <1>1, <1>2, <1>3, <1>5, <1>6, <1>7, <1>8, <1>10 DEF Prepares, GoesOn

\* A retry reads the session.
LEMMA RetryReadsPrepares ==
  ASSUME HistFits, OpsFit, NEW k \in RetryWorkers, RetryReads(k)
  PROVE  \E c \in OpsTo(ingested) : Prepares(<<"worker", k>>, c)
<1> DEFINE a == <<"worker", k>>
<1>1. PICK d \in OpsTo(ingested) : d = retrying[k] /\ d = Does(a)
  BY ActorsAre, OpsAre
<1> DEFINE c == [at |-> "apply", on |-> d.on, text |-> Text(rows[d.on].raw, "retry")]
           i == d.on
<1>2. d.at = "read" /\ Works(k, c)
  BY <1>1 DEF RetryReads
<1>3. UNCHANGED <<serving, words, wanted, overlapped, committed, onDisk, ingested>>
  BY DEF RetryReads
<1>4. i \in HistoryIds /\ rows[i] # NoRow /\ OpFits(d, rows)
  BY <1>1, <1>2, OpsAre, OpKinds DEF OpFits
<1>9. Text(rows[i].raw, "retry") \in TextsTo(ingested)
  BY <1>4, RowThere DEF Text, TextsTo
<1>5. c \in OpsTo(ingested) /\ c.on = i /\ c.at = "apply"
  BY <1>4, <1>9, OpsMade
<1> HIDE DEF c
<1>6. ActorMoves(a, c)
  BY <1>2, <1>3, <1>5, WorkerMoves
<1>7. UNCHANGED <<rows, retryQueue>>
  BY DEF RetryReads
<1>8. RowsWritten /\ SameText /\ WordsStay
  BY <1>3, <1>7 DEF RowsWritten, SameText, WordsStay, KeptStays, HistFits, HistRowsFit
<1> QED
  BY <1>1, <1>2, <1>3, <1>5, <1>6, <1>7, <1>8 DEF Prepares, GoesOn

\* A retry raises.
LEMMA RetryRaisesPrepares ==
  ASSUME HistFits, OpsFit, NEW k \in RetryWorkers, RetryRaises(k)
  PROVE  \E c \in OpsTo(ingested) : Prepares(<<"worker", k>>, c)
<1> DEFINE a == <<"worker", k>>
<1>1. PICK d \in OpsTo(ingested) : d = retrying[k] /\ d = Does(a)
  BY ActorsAre, OpsAre
<1> DEFINE c == [at |-> "failed", on |-> d.on]
           i == d.on
<1>2. d.at = "apply" /\ Works(k, c)
  BY <1>1 DEF RetryRaises
<1>3. UNCHANGED <<serving, words, wanted, overlapped, committed, onDisk, ingested>>
  BY DEF RetryRaises
<1>4. i \in HistoryIds /\ rows[i] # NoRow /\ OpFits(d, rows)
  BY <1>1, <1>2, OpsAre, OpKinds DEF OpFits
<1>5. c \in OpsTo(ingested) /\ c.on = i /\ c.at = "failed"
  BY <1>4 DEF OpsTo, PlainOps
<1> HIDE DEF c
<1>6. ActorMoves(a, c)
  BY <1>2, <1>3, <1>5, WorkerMoves
<1>7. UNCHANGED <<rows, retryQueue>>
  BY DEF RetryRaises
<1>8. RowsWritten /\ SameText /\ WordsStay
  BY <1>3, <1>7 DEF RowsWritten, SameText, WordsStay, KeptStays, HistFits, HistRowsFit
<1> QED
  BY <1>1, <1>2, <1>3, <1>5, <1>6, <1>7, <1>8 DEF Prepares, GoesOn

\* The text is shown, and not yet among the revisions.
LEMMA UndoSetsShows ==
  ASSUME HistFits, OpsFit, NEW t \in HistoryThreads, UndoSets(t)
  PROVE  \E c \in OpsTo(ingested) : Shows(<<"thread", t>>, c)
<1> DEFINE a == <<"thread", t>>
<1>1. PICK d \in OpsTo(ingested) : d = serving[t] /\ d = Does(a)
  BY ActorsAre, OpsAre
<1> DEFINE c == [at |-> "count", on |-> d.on, text |-> d.text]
           i == d.on
<1>2. d.at = "undo" /\ Goes(t, c)
  <2>1. d.at = "undo" /\ Goes(t, [d EXCEPT !.at = "count"])
    BY <1>1 DEF UndoSets, IsAt
  <2> QED
    BY <2>1, OpShows
<1>3. UNCHANGED <<retrying, words, wanted, overlapped, committed, onDisk, ingested>>
  BY DEF UndoSets, IsAt
<1>4. i \in HistoryIds /\ rows[i] # NoRow /\ OpFits(d, rows)
  BY <1>1, <1>2, OpsAre, OpKinds DEF OpFits
<1>9. d.text \in TextsTo(ingested)
  BY <1>2, OpKinds
<1>5. c \in OpsTo(ingested)
  BY <1>4, <1>9, OpsMade
<1> HIDE DEF c
<1>6. ActorMoves(a, c)
  BY <1>2, <1>3, <1>5, ThreadMoves
<1>7. UNCHANGED retryQueue /\ Updated(i, [active |-> d.text])
  BY <1>1 DEF UndoSets, IsAt
<1>8. /\ rows' \in TablesTo(ingested) /\ rows'[i] \in RowsTo(ingested)
      /\ rows'[i].active = d.text /\ rows'[i].revs = rows[i].revs
      /\ \A j \in HistoryIds \ {i} : rows'[j] = rows[j]
  <2>1. /\ rows \in TablesTo(ingested) /\ rows[i].tries + 1 \in Nat
        /\ "completed" \in RetryStates
    BY <1>4, RowThere DEF HistFits, HistRowsFit, RetryStates
  <2> QED
    BY <1>4, <1>7, <1>9, <2>1, ActiveInRows
<1>10. RowsWritten /\ WordsStay /\ OthersSame(i) /\ rows'[i] # NoRow
  BY <1>3, <1>8, RowOrNone DEF RowsWritten, WordsStay, KeptStays, OthersSame
<1> QED
  BY <1>1, <1>2, <1>3, <1>5, <1>6, <1>7, <1>8, <1>10 DEF Shows, GoesOn, c

\* The text is shown, and not yet among the revisions.
LEMMA RetrySetsShows ==
  ASSUME HistFits, OpsFit, NEW k \in RetryWorkers, RetrySets(k)
  PROVE  \E c \in OpsTo(ingested) : Shows(<<"worker", k>>, c)
<1> DEFINE a == <<"worker", k>>
<1>1. PICK d \in OpsTo(ingested) : d = retrying[k] /\ d = Does(a)
  BY ActorsAre, OpsAre
<1> DEFINE c == [at |-> "count", on |-> d.on, text |-> d.text]
           i == d.on
<1>2. d.at = "apply" /\ Works(k, c)
  <2>1. d.at = "apply" /\ Works(k, [d EXCEPT !.at = "count"])
    BY <1>1 DEF RetrySets
  <2> QED
    BY <2>1, OpShows
<1>3. UNCHANGED <<serving, words, wanted, overlapped, committed, onDisk, ingested>>
  BY DEF RetrySets
<1>4. i \in HistoryIds /\ rows[i] # NoRow /\ OpFits(d, rows)
  BY <1>1, <1>2, OpsAre, OpKinds DEF OpFits
<1>9. d.text \in TextsTo(ingested)
  BY <1>2, OpKinds
<1>5. c \in OpsTo(ingested)
  BY <1>4, <1>9, OpsMade
<1> HIDE DEF c
<1>6. ActorMoves(a, c)
  BY <1>2, <1>3, <1>5, WorkerMoves
<1>7. UNCHANGED retryQueue /\ Updated(i, [active |-> d.text, retry |-> "completed",
        tries |-> rows[i].tries + 1])
  BY <1>1 DEF RetrySets
<1>8. /\ rows' \in TablesTo(ingested) /\ rows'[i] \in RowsTo(ingested)
      /\ rows'[i].active = d.text /\ rows'[i].revs = rows[i].revs
      /\ \A j \in HistoryIds \ {i} : rows'[j] = rows[j]
  <2>1. /\ rows \in TablesTo(ingested) /\ rows[i].tries + 1 \in Nat
        /\ "completed" \in RetryStates
    BY <1>4, RowThere DEF HistFits, HistRowsFit, RetryStates
  <2> QED
    BY <1>4, <1>7, <1>9, <2>1, ResultInRows
<1>10. RowsWritten /\ WordsStay /\ OthersSame(i) /\ rows'[i] # NoRow
  BY <1>3, <1>8, RowOrNone DEF RowsWritten, WordsStay, KeptStays, OthersSame
<1> QED
  BY <1>1, <1>2, <1>3, <1>5, <1>6, <1>7, <1>8, <1>10 DEF Shows, GoesOn, c

\* A revision is inserted, or refused.
LEMMA UndoSyncsAdds ==
  ASSUME HistFits, OpsFit, NEW t \in HistoryThreads, UndoSyncs(t)
  PROVE  \E c \in OpsTo(ingested) : Adds(<<"thread", t>>, c)
<1> DEFINE a == <<"thread", t>>
<1>1. PICK d \in OpsTo(ingested) : d = serving[t] /\ d = Does(a)
  BY ActorsAre, OpsAre
<1> DEFINE c == Idle
           i == d.on
<1>2. d.at = "insert" /\ Goes(t, c)
  BY <1>1 DEF UndoSyncs, IsAt
<1>3. UNCHANGED <<retrying, words, wanted, overlapped, committed, onDisk, ingested>>
  BY DEF UndoSyncs, IsAt
<1>4. i \in HistoryIds /\ rows[i] # NoRow /\ OpFits(d, rows)
  BY <1>1, <1>2, OpsAre, OpKinds DEF OpFits
<1>5. c \in OpsTo(ingested) /\ c = Idle
  BY DEF OpsTo
<1> HIDE DEF c
<1>6. ActorMoves(a, c)
  BY <1>2, <1>3, <1>5, ThreadMoves
<1>7. UNCHANGED retryQueue /\ Syncs(d)
  BY <1>1 DEF UndoSyncs, IsAt
<1>8. d.text \in TextsTo(ingested) /\ d.known \in BOOLEAN
  BY <1>2, OpKinds
<1>9. rows \in TablesTo(ingested) /\ rows[i] \in RowsTo(ingested)
      /\ rows[i].revs \in Seq(TextsTo(ingested))
  BY <1>4, RowThere DEF HistFits, HistRowsFit
<1> DEFINE q == IF ~d.known /\ Len(rows[i].revs) = d.index THEN Append(rows[i].revs, d.text)
                ELSE rows[i].revs
<1>10. /\ rows' \in TablesTo(ingested) /\ rows'[i] \in RowsTo(ingested)
       /\ rows'[i].active = rows[i].active /\ rows'[i].revs = q
       /\ \A j \in HistoryIds \ {i} : rows'[j] = rows[j]
  <2>1. CASE d.known
    BY <1>7, <1>9, <2>1 DEF Syncs
  <2>2. CASE ~d.known
    <3>1. q \in Seq(TextsTo(ingested))
      BY <1>8, <1>9, AppendProperties
    <3>2. Updated(i, [revs |-> q])
      BY <1>7, <2>2 DEF Syncs, Inserted
    <3> HIDE DEF q
    <3> QED
      BY <1>4, <1>9, <3>1, <3>2, RevsInRows
  <2> QED
    BY <1>8, <2>1, <2>2
<1>11. RowsWritten /\ WordsStay /\ OthersSame(i) /\ rows'[i] # NoRow
  BY <1>3, <1>10, RowOrNone DEF RowsWritten, WordsStay, KeptStays, OthersSame
<1> QED
  BY <1>1, <1>2, <1>3, <1>5, <1>6, <1>7, <1>10, <1>11 DEF Adds, GoesOn

\* A revision is inserted, or refused.
LEMMA RetrySyncsAdds ==
  ASSUME HistFits, OpsFit, NEW k \in RetryWorkers, RetrySyncs(k)
  PROVE  \E c \in OpsTo(ingested) : Adds(<<"worker", k>>, c)
<1> DEFINE a == <<"worker", k>>
<1>1. PICK d \in OpsTo(ingested) : d = retrying[k] /\ d = Does(a)
  BY ActorsAre, OpsAre
<1> DEFINE c == IF Refused(d) THEN [at |-> "failed", on |-> d.on] ELSE Idle
           i == d.on
<1>2. d.at = "insert" /\ Works(k, c)
  BY <1>1 DEF RetrySyncs
<1>3. UNCHANGED <<serving, words, wanted, overlapped, committed, onDisk, ingested>>
  BY DEF RetrySyncs
<1>4. i \in HistoryIds /\ rows[i] # NoRow /\ OpFits(d, rows)
  BY <1>1, <1>2, OpsAre, OpKinds DEF OpFits
<1>5. c \in OpsTo(ingested) /\ (c = Idle \/ (c.at = "failed" /\ c.on = i))
  BY <1>4 DEF OpsTo, PlainOps
<1> HIDE DEF c
<1>6. ActorMoves(a, c)
  BY <1>2, <1>3, <1>5, WorkerMoves
<1>7. UNCHANGED retryQueue /\ Syncs(d)
  BY <1>1 DEF RetrySyncs
<1>8. d.text \in TextsTo(ingested) /\ d.known \in BOOLEAN
  BY <1>2, OpKinds
<1>9. rows \in TablesTo(ingested) /\ rows[i] \in RowsTo(ingested)
      /\ rows[i].revs \in Seq(TextsTo(ingested))
  BY <1>4, RowThere DEF HistFits, HistRowsFit
<1> DEFINE q == IF ~d.known /\ Len(rows[i].revs) = d.index THEN Append(rows[i].revs, d.text)
                ELSE rows[i].revs
<1>10. /\ rows' \in TablesTo(ingested) /\ rows'[i] \in RowsTo(ingested)
       /\ rows'[i].active = rows[i].active /\ rows'[i].revs = q
       /\ \A j \in HistoryIds \ {i} : rows'[j] = rows[j]
  <2>1. CASE d.known
    BY <1>7, <1>9, <2>1 DEF Syncs
  <2>2. CASE ~d.known
    <3>1. q \in Seq(TextsTo(ingested))
      BY <1>8, <1>9, AppendProperties
    <3>2. Updated(i, [revs |-> q])
      BY <1>7, <2>2 DEF Syncs, Inserted
    <3> HIDE DEF q
    <3> QED
      BY <1>4, <1>9, <3>1, <3>2, RevsInRows
  <2> QED
    BY <1>8, <2>1, <2>2
<1>11. RowsWritten /\ WordsStay /\ OthersSame(i) /\ rows'[i] # NoRow
  BY <1>3, <1>10, RowOrNone DEF RowsWritten, WordsStay, KeptStays, OthersSame
<1> QED
  BY <1>1, <1>2, <1>3, <1>5, <1>6, <1>7, <1>10, <1>11 DEF Adds, GoesOn

\* A retry is submitted, or cannot be.
LEMMA RetrySubmitsEnds ==
  ASSUME HistFits, OpsFit, NEW t \in HistoryThreads, RetrySubmits(t)
  PROVE  ActorEnds(<<"thread", t>>)
<1> DEFINE a == <<"thread", t>>
<1>1. PICK d \in OpsTo(ingested) : d = serving[t] /\ d = Does(a)
  BY ActorsAre, OpsAre
<1> DEFINE c == Idle
           i == d.on
<1>2. d.at = "submit" /\ Goes(t, c)
  BY <1>1 DEF RetrySubmits, IsAt
<1>3. UNCHANGED <<retrying, words, wanted, overlapped, committed, onDisk, ingested>>
  BY DEF RetrySubmits, IsAt
<1>4. i \in HistoryIds /\ rows[i] # NoRow /\ OpFits(d, rows)
  BY <1>1, <1>2, OpsAre, OpKinds DEF OpFits
<1>5. c \in OpsTo(ingested) /\ c = Idle
  BY DEF OpsTo
<1> HIDE DEF c
<1>6. ActorMoves(a, c)
  BY <1>2, <1>3, <1>5, ThreadMoves
<1>7. retryQueue' \in {retryQueue, Append(retryQueue, i)}
  BY <1>1 DEF RetrySubmits, IsAt
<1>8. RowsWritten /\ SameText /\ WordsStay
  BY <1>3 DEF RetrySubmits, RowsWritten, SameText, WordsStay, KeptStays, HistFits, HistRowsFit
<1> QED
  BY <1>1, <1>2, <1>3, <1>5, <1>6, <1>7, <1>8 DEF ActorEnds, GoesOn

\* A retry has failed.
LEMMA RetryFailsEnds ==
  ASSUME HistFits, OpsFit, NEW k \in RetryWorkers, RetryFails(k)
  PROVE  ActorEnds(<<"worker", k>>)
<1> DEFINE a == <<"worker", k>>
<1>1. PICK d \in OpsTo(ingested) : d = retrying[k] /\ d = Does(a)
  BY ActorsAre, OpsAre
<1> DEFINE c == Idle
           i == d.on
<1>2. d.at = "failed" /\ Works(k, c)
  BY <1>1 DEF RetryFails
<1>3. UNCHANGED <<serving, words, wanted, overlapped, committed, onDisk, ingested>>
  BY DEF RetryFails
<1>4. i \in HistoryIds /\ rows[i] # NoRow /\ OpFits(d, rows)
  BY <1>1, <1>2, OpsAre, OpKinds DEF OpFits
<1>5. c \in OpsTo(ingested) /\ c = Idle
  BY DEF OpsTo
<1> HIDE DEF c
<1>6. ActorMoves(a, c)
  BY <1>2, <1>3, <1>5, WorkerMoves
<1>7. retryQueue' \in {retryQueue, Append(retryQueue, i)}
  BY <1>1 DEF RetryFails
<1>9. Updated(i, [retry |-> "failed", tries |-> rows[i].tries + 1])
  BY <1>1 DEF RetryFails
<1>10. /\ rows \in TablesTo(ingested) /\ rows[i].tries + 1 \in Nat
       /\ "failed" \in RetryStates
  BY <1>4, RowThere DEF HistFits, HistRowsFit, RetryStates
<1>11. /\ rows' \in TablesTo(ingested) /\ rows'[i] \in RowsTo(ingested)
       /\ rows'[i].active = rows[i].active /\ rows'[i].revs = rows[i].revs
       /\ \A j \in HistoryIds \ {i} : rows'[j] = rows[j]
  BY <1>4, <1>9, <1>10, FailureInRows
<1>8. RowsWritten /\ SameText /\ WordsStay
  BY <1>3, <1>4, <1>11, RowOrNone DEF RowsWritten, SameText, WordsStay, KeptStays
<1> QED
  BY <1>1, <1>2, <1>3, <1>5, <1>6, <1>7, <1>8 DEF ActorEnds, GoesOn

\* A word is updated, if it is still there.
LEMMA WordUpdatesWrites ==
  ASSUME HistFits, OpsFit, NEW t \in HistoryThreads, HistWordsFit, WordUpdates(t)
  PROVE  WritesWord(<<"thread", t>>)
<1> DEFINE a == <<"thread", t>>
<1>1. PICK d \in OpsTo(ingested) : d = serving[t] /\ d = Does(a)
  BY ActorsAre, OpsAre
<1>2. d.at = "update" /\ Goes(t, Idle)
  BY <1>1 DEF WordUpdates, IsAt
<1>3. UNCHANGED <<rows, retrying, retryQueue, overlapped, committed, onDisk, ingested>>
  BY DEF WordUpdates
<1>4. d.on \in WordIds /\ d.row \in WordRows /\ d.field \in {"text", "on"}
  BY <1>2, OpKinds
<1>5. Idle \in OpsTo(ingested)
  BY DEF OpsTo
<1>6. ActorMoves(a, Idle)
  BY <1>2, <1>3, <1>5, ThreadMoves
<1>7. /\ words[d.on] = NoRow => UNCHANGED <<words, wanted>>
      /\ words[d.on] # NoRow =>
           /\ words' = [words EXCEPT ![d.on] = d.row]
           /\ wanted' = [wanted EXCEPT ![d.on] = [@ EXCEPT ![d.field] = d.row[d.field]]]
  BY <1>1 DEF WordUpdates
<1>8. words' \in WordTables
  BY <1>4, <1>7 DEF HistWordsFit, WordTables
<1>9. wanted' \in WordTables
  <2>1. wanted[d.on] \in WordRows \cup {NoRow}
    BY <1>4 DEF HistWordsFit, WordTables
  <2>2. [wanted[d.on] EXCEPT ![d.field] = d.row[d.field]] \in WordRows \cup {NoRow}
    <3>1. CASE wanted[d.on] \in WordRows
      BY <1>4, <3>1 DEF WordRows
    <3>2. CASE wanted[d.on] = NoRow
      BY <1>4, <3>2 DEF NoRow
    <3> QED
      BY <2>1, <3>1, <3>2
  <2> DEFINE new == [wanted[d.on] EXCEPT ![d.field] = d.row[d.field]]
  <2>3. wanted' = wanted \/ wanted' = [wanted EXCEPT ![d.on] = new]
    BY <1>7
  <2> HIDE DEF new
  <2> QED
    BY <1>4, <2>2, <2>3 DEF HistWordsFit, WordTables, new
<1>10. RowsWritten /\ SameText /\ Writing
  BY <1>3, <1>8, <1>9
     DEF RowsWritten, SameText, Writing, KeptStays, HistFits, HistRowsFit
<1> QED
  BY <1>1, <1>2, <1>3, <1>6, <1>7, <1>10 DEF WritesWord, WordsStay

\* A word is created, unless it is there.
LEMMA WordCreateWrites ==
  ASSUME HistFits, OpsFit, NEW t \in HistoryThreads, NEW w \in WordIds, WordCreate(t, w)
  PROVE  Rests \/ CreatesWord(w)
<1> USE DEF HistFits, HistRowsFit, HistWordsFit
<1>1. UNCHANGED <<rows, serving, retrying, retryQueue, overlapped, committed, onDisk, ingested>>
  BY DEF WordCreate
<1>2. RowsWritten /\ SameText /\ NobodyMoves
  BY <1>1, NobodyDoes DEF RowsWritten, SameText, KeptStays
<1>3. CASE words[w] # NoRow
  BY <1>1, <1>2, <1>3 DEF WordCreate, Rests, WordsStay
<1>4. CASE words[w] = NoRow
  <2>1. /\ words' = [words EXCEPT ![w] = [text |-> 0, on |-> TRUE]]
        /\ wanted' = [wanted EXCEPT ![w] = [text |-> 0, on |-> TRUE]]
    BY <1>4 DEF WordCreate
  <2>2. [text |-> 0, on |-> TRUE] \in WordRows
    BY DEF WordRows
  <2>3. words' \in WordTables /\ wanted' \in WordTables
    BY <2>1, <2>2 DEF WordTables
  <2> QED
    BY <1>1, <1>2, <1>4, <2>1, <2>3 DEF CreatesWord, Writing
<1> QED
  BY <1>3, <1>4

\* A word is deleted.
LEMMA WordDeleteWrites ==
  ASSUME HistFits, OpsFit, NEW t \in HistoryThreads, NEW w \in WordIds, WordDelete(t, w)
  PROVE  DeletesWord(w)
<1> USE DEF HistFits, HistRowsFit, HistWordsFit
<1>1. /\ UNCHANGED <<rows, serving, retrying, retryQueue, committed, onDisk, ingested>>
      /\ Begins(w)
      /\ words' = [words EXCEPT ![w] = NoRow] /\ wanted' = [wanted EXCEPT ![w] = NoRow]
  BY DEF WordDelete
<1>2. RowsWritten /\ SameText /\ NobodyMoves
  BY <1>1, NobodyDoes DEF RowsWritten, SameText, KeptStays
<1>3. words' \in WordTables /\ wanted' \in WordTables
  BY <1>1 DEF WordTables
<1>4. overlapped' = IF \E b \in Actors : Does(b).on = w THEN overlapped \cup {w}
                    ELSE overlapped
  BY <1>1, BusyIs DEF Begins
<1> QED
  BY <1>1, <1>2, <1>3, <1>4 DEF DeletesWord, Writing

\* A session is deleted.
LEMMA HistoryDeleteRests ==
  ASSUME HistFits, OpsFit, NEW t \in HistoryThreads, NEW i \in HistoryIds, HistoryDelete(t, i)
  PROVE  Rests
<1>1. /\ UNCHANGED <<serving, retrying, retryQueue, committed, onDisk, ingested, words, wanted,
                     overlapped>>
      /\ rows[i] # NoRow /\ Updated(i, [deleted |-> TRUE])
  BY DEF HistoryDelete
<1>2. /\ rows' \in TablesTo(ingested) /\ rows'[i] \in RowsTo(ingested)
      /\ rows'[i].active = rows[i].active /\ rows'[i].revs = rows[i].revs
      /\ \A j \in HistoryIds \ {i} : rows'[j] = rows[j]
  BY <1>1, DeletedInRows DEF HistFits, HistRowsFit
<1>3. RowsWritten /\ SameText /\ WordsStay /\ NobodyMoves
  BY <1>1, <1>2, RowOrNone, NobodyDoes DEF RowsWritten, SameText, WordsStay, KeptStays
<1> QED
  BY <1>1, <1>3 DEF Rests

\* A step that leaves the tables and all operations alone.
LEMMA AloneRests ==
  ASSUME HistFits,
         UNCHANGED <<rows, words, wanted, committed, onDisk, serving, retrying, ingested,
                     overlapped>>,
         retryQueue' \in {retryQueue, <<>>}
  PROVE  Rests
BY NobodyDoes
   DEF Rests, RowsWritten, SameText, WordsStay, KeptStays, HistFits, HistRowsFit

\* A session is ingested, or cannot be.
LEMMA IngestIngests ==
  ASSUME HistFits, OpsFit, NEW i \in HistoryIds, Ingest(i)
  PROVE  /\ Ingests(i) /\ ingested' = ingested + 1 /\ ingested < NIngests
         /\ rows' \in TablesTo(ingested + 1)
         /\ committed' \in DataTo(ingested + 1) /\ onDisk' \in DataTo(ingested + 1)
         /\ ~inTx => rows' = committed'.rows /\ words = committed'.words
<1> USE HistoryAssumption DEF HistFits, HistCountsFit, HistRowsFit, HistKeptFits
<1>1. /\ ingested' = ingested + 1 /\ ingested < NIngests /\ Begins(i)
      /\ UNCHANGED <<serving, retrying, retryQueue, words, wanted, inTx>>
  BY DEF Ingest
<1>2. overlapped' = IF \E b \in Actors : Does(b).on = i THEN overlapped \cup {i}
                    ELSE overlapped
  BY <1>1, BusyIs DEF Begins
<1>3. NobodyMoves /\ WordsStay
  BY <1>1, NobodyDoes DEF WordsStay
<1>4. ingested \in Nat /\ ingested + 1 \in Nat
  OBVIOUS
<1>5. /\ rows \in TablesTo(ingested + 1) /\ committed \in DataTo(ingested + 1)
      /\ onDisk \in DataTo(ingested + 1)
  BY <1>4, MoreIngests
<1>6. CASE inTx
  <2>1. UNCHANGED <<rows, committed, onDisk>>
    BY <1>6 DEF Ingest
  <2> QED
    BY <1>1, <1>2, <1>3, <1>5, <1>6, <2>1 DEF Ingests, OthersSame, KeptStays
<1>7. CASE ~inTx
  <2> DEFINE text == Text(ingested + 1, "coach")
             new == Upserted(rows[i], ingested + 1)
  <2>1. /\ rows' = [rows EXCEPT ![i] = new]
        /\ committed' = [rows |-> rows', words |-> words] /\ onDisk' \in {onDisk, committed'}
    BY <1>7 DEF Ingest
  <2>2. text \in TextsTo(ingested + 1)
    BY <1>4 DEF Text, TextsTo
  <2>3. /\ new \in RowsTo(ingested + 1) /\ new.active = text
        /\ new.revs = IF rows[i] = NoRow THEN <<text>> ELSE Append(rows[i].revs, text)
    <3> HIDE DEF text
    <3>1. <<text>> \in Seq(TextsTo(ingested + 1))
      BY <2>2
    <3>2. CASE rows[i] = NoRow
      BY <1>4, <2>2, <3>1, <3>2 DEF Upserted, RowsTo, RetryStates, text
    <3>3. CASE rows[i] # NoRow
      <4>1. PICK r \in RowsTo(ingested + 1) : r = rows[i]
        BY <1>5, <3>3 DEF TablesTo
      <4>2. r.revs \in Seq(TextsTo(ingested + 1))
        BY <4>1 DEF RowsTo
      <4>3. Append(r.revs, text) \in Seq(TextsTo(ingested + 1))
        BY <2>2, <4>2, AppendProperties
      <4>4. new = [r EXCEPT !.raw = ingested + 1, !.active = text, !.retry = "idle",
                            !.revs = Append(r.revs, text)]
        BY <3>3, <4>1 DEF Upserted, text
      <4> DEFINE q == Append(r.revs, text)
      <4>5. /\ DOMAIN r = {"raw", "active", "retry", "tries", "deleted", "revs"}
            /\ r = [x \in DOMAIN r |-> r[x]]
        BY <4>1 DEF RowsTo
      <4>6. new = [x \in DOMAIN r |->
                     IF x = "raw" THEN ingested + 1 ELSE IF x = "active" THEN text
                     ELSE IF x = "retry" THEN "idle" ELSE IF x = "revs" THEN q ELSE r[x]]
        <5> HIDE DEF new
        <5> QED
          BY <4>4, <4>5
      <4> HIDE DEF new, q
      <4>7. new = [raw |-> ingested + 1, active |-> text, retry |-> "idle", tries |-> r.tries,
                   deleted |-> r.deleted, revs |-> q]
        BY <4>5, <4>6
      <4>8. q \in Seq(TextsTo(ingested + 1)) /\ r.tries \in Nat /\ r.deleted \in BOOLEAN
        BY <4>1, <4>3 DEF RowsTo, q
      <4>9. new \in RowsTo(ingested + 1)
        BY <1>4, <2>2, <4>7, <4>8 DEF RowsTo, RetryStates
      <4> QED
        BY <3>3, <4>1, <4>7, <4>9 DEF q
    <3> QED
      BY <3>2, <3>3
  <2> HIDE DEF text, new
  <2>4. /\ rows' \in TablesTo(ingested + 1) /\ rows'[i] = new
        /\ \A j \in HistoryIds \ {i} : rows'[j] = rows[j]
    BY <1>5, <2>1, <2>3 DEF TablesTo
  <2>5. committed' \in DataTo(ingested + 1) /\ onDisk' \in DataTo(ingested + 1)
    <3>1. words \in WordTables
      BY DEF HistWordsFit
    <3>2. committed' \in DataTo(ingested + 1)
      BY <2>1, <2>4, <3>1 DEF DataTo
    <3> QED
      BY <1>5, <2>1, <3>2
  <2>6. rows'[i] # NoRow
    BY <2>3, <2>4, RowOrNone
  <2> QED
    BY <1>1, <1>2, <1>3, <1>7, <2>1, <2>3, <2>4, <2>5, <2>6 DEF Ingests, OthersSame, text
<1> QED
  BY <1>6, <1>7

\* The tables and what is under way keep their types.
LEMMA HistFitsNext == HistoryIInv /\ [HistoryNext]_historyVars => HistFits'
<1> SUFFICES ASSUME HistoryIInv, [HistoryNext]_historyVars PROVE HistFits'
  OBVIOUS
<1> USE HistoryAssumption DEF HistoryIInv, HistFits, HistCountsFit, HistRowsFit, HistWordsFit,
     HistKeptFits, HistServingFits, HistRetryingFits, HistSetsFit
<1>0. /\ calls \in Nat /\ FALSE \in BOOLEAN /\ OpsTo(ingested) \subseteq OpsTo(ingested + 1)
      /\ Idle \in OpsTo(ingested)
  BY MoreIngests DEF OpsTo
<1>1. ASSUME NEW i \in HistoryIds, Ingest(i) PROVE HistFits'
  <2>1. HistCountsFit' /\ HistWordsFit' /\ HistSetsFit'
    BY <1>1 DEF HistCountsFit, HistWordsFit, HistSetsFit, Ingest, Begins
  <2>2. HistRowsFit' /\ HistKeptFits'
    BY <1>1, IngestIngests DEF HistRowsFit, HistKeptFits, Ingest
  <2>3. HistServingFits' /\ HistRetryingFits'
    BY <1>1, <1>0 DEF HistServingFits, HistRetryingFits, Ingest
  <2> QED
    BY <2>1, <2>2, <2>3 DEF HistCountsFit, HistRowsFit, HistWordsFit, HistKeptFits,
       HistServingFits, HistRetryingFits, HistSetsFit
<1>2. ASSUME NEW t \in HistoryThreads, UndoSets(t) PROVE HistFits'
  <2>1. HistCountsFit' /\ HistWordsFit' /\ HistKeptFits' /\ HistSetsFit'
    BY <1>2 DEF HistCountsFit, HistWordsFit, HistKeptFits, HistSetsFit, UndoSets, IsAt,
       Writes, Goes
  <2>2. HistRowsFit' /\ HistServingFits' /\ HistRetryingFits'
    BY <1>2, UndoSetsShows DEF HistRowsFit, HistServingFits, HistRetryingFits, Shows,
       GoesOn, ActorMoves, RowsWritten, WordsStay, Writing, NobodyMoves
  <2> QED
    BY <2>1, <2>2 DEF HistCountsFit, HistRowsFit, HistWordsFit, HistKeptFits,
       HistServingFits, HistRetryingFits, HistSetsFit
<1>3. ASSUME NEW t \in HistoryThreads, UndoCounts(t) PROVE HistFits'
  <2>1. HistCountsFit' /\ HistWordsFit' /\ HistKeptFits' /\ HistSetsFit'
    BY <1>3 DEF HistCountsFit, HistWordsFit, HistKeptFits, HistSetsFit, UndoCounts, IsAt,
       Goes
  <2>2. HistRowsFit' /\ HistServingFits' /\ HistRetryingFits'
    BY <1>3, UndoCountsPrepares DEF HistRowsFit, HistServingFits, HistRetryingFits,
       Prepares, GoesOn, ActorMoves, RowsWritten, WordsStay, Writing, NobodyMoves
  <2> QED
    BY <2>1, <2>2 DEF HistCountsFit, HistRowsFit, HistWordsFit, HistKeptFits,
       HistServingFits, HistRetryingFits, HistSetsFit
<1>4. ASSUME NEW t \in HistoryThreads, UndoSyncs(t) PROVE HistFits'
  <2>1. HistCountsFit' /\ HistWordsFit' /\ HistKeptFits' /\ HistSetsFit'
    BY <1>4 DEF HistCountsFit, HistWordsFit, HistKeptFits, HistSetsFit, UndoSyncs, IsAt,
       Syncs, Goes
  <2>2. HistRowsFit' /\ HistServingFits' /\ HistRetryingFits'
    BY <1>4, UndoSyncsAdds DEF HistRowsFit, HistServingFits, HistRetryingFits, Adds, GoesOn,
       ActorMoves, RowsWritten, WordsStay, Writing, NobodyMoves
  <2> QED
    BY <2>1, <2>2 DEF HistCountsFit, HistRowsFit, HistWordsFit, HistKeptFits,
       HistServingFits, HistRetryingFits, HistSetsFit
<1>5. ASSUME NEW t \in HistoryThreads, RetrySubmits(t) PROVE HistFits'
  <2>1. HistCountsFit' /\ HistWordsFit' /\ HistKeptFits'
    BY <1>5 DEF HistCountsFit, HistWordsFit, HistKeptFits, RetrySubmits, IsAt, Goes
  <2>2. HistRowsFit' /\ HistServingFits' /\ HistRetryingFits'
    BY <1>5, RetrySubmitsEnds DEF HistRowsFit, HistServingFits, HistRetryingFits, ActorEnds,
       GoesOn, ActorMoves, RowsWritten, WordsStay, Writing, NobodyMoves
  <2>3. HistSetsFit'
    BY <1>5, OpsAre, OpKinds DEF RetrySubmits, IsAt, HistSetsFit
  <2> QED
    BY <2>1, <2>2, <2>3 DEF HistCountsFit, HistRowsFit, HistWordsFit, HistKeptFits,
       HistServingFits, HistRetryingFits, HistSetsFit
<1>6. ASSUME NEW t \in HistoryThreads, WordUpdates(t) PROVE HistFits'
  <2>1. HistCountsFit' /\ HistKeptFits' /\ HistSetsFit'
    BY <1>6 DEF HistCountsFit, HistKeptFits, HistSetsFit, WordUpdates, IsAt, Writes, Goes
  <2>2. HistRowsFit' /\ HistWordsFit' /\ HistServingFits' /\ HistRetryingFits'
    BY <1>6, WordUpdatesWrites DEF HistRowsFit, HistWordsFit, HistServingFits,
       HistRetryingFits, WritesWord, ActorMoves, RowsWritten, WordsStay, Writing,
       NobodyMoves
  <2> QED
    BY <2>1, <2>2 DEF HistCountsFit, HistRowsFit, HistWordsFit, HistKeptFits,
       HistServingFits, HistRetryingFits, HistSetsFit
<1>7. ASSUME NEW t \in HistoryThreads, NEW i \in HistoryIds, AsksUndo(t, i) PROVE HistFits'
  <2>1. HistCountsFit' /\ HistWordsFit' /\ HistKeptFits' /\ HistSetsFit'
    BY <1>7 DEF HistCountsFit, HistWordsFit, HistKeptFits, HistSetsFit, AsksUndo,
       HistoryCall, IsAt, Begins, Goes
  <2>2. HistRowsFit' /\ HistServingFits' /\ HistRetryingFits'
    BY <1>7, AsksUndoStarts DEF HistRowsFit, HistServingFits, HistRetryingFits, StartsOnRow,
       StartsOn, ActorMoves, RowsWritten, WordsStay, Writing, NobodyMoves
  <2> QED
    BY <2>1, <2>2 DEF HistCountsFit, HistRowsFit, HistWordsFit, HistKeptFits,
       HistServingFits, HistRetryingFits, HistSetsFit
<1>8. ASSUME NEW t \in HistoryThreads, NEW i \in HistoryIds, AsksRetry(t, i) PROVE HistFits'
  <2>1. HistCountsFit' /\ HistWordsFit' /\ HistKeptFits' /\ HistSetsFit'
    BY <1>8 DEF HistCountsFit, HistWordsFit, HistKeptFits, HistSetsFit, AsksRetry,
       HistoryCall, IsAt, Writes, Begins, Goes
  <2>2. HistRowsFit' /\ HistServingFits' /\ HistRetryingFits'
    BY <1>8, AsksRetryStarts DEF HistRowsFit, HistServingFits, HistRetryingFits,
       StartsOnRow, StartsOn, ActorMoves, RowsWritten, WordsStay, Writing, NobodyMoves
  <2> QED
    BY <2>1, <2>2 DEF HistCountsFit, HistRowsFit, HistWordsFit, HistKeptFits,
       HistServingFits, HistRetryingFits, HistSetsFit
<1>9. ASSUME NEW t \in HistoryThreads, NEW i \in HistoryIds, HistoryDelete(t, i) PROVE HistFits'
  <2>1. HistCountsFit' /\ HistWordsFit' /\ HistKeptFits' /\ HistSetsFit'
    BY <1>9 DEF HistCountsFit, HistWordsFit, HistKeptFits, HistSetsFit, HistoryDelete,
       HistoryCall, IsAt, Writes
  <2>2. HistRowsFit' /\ HistServingFits' /\ HistRetryingFits'
    BY <1>9, HistoryDeleteRests DEF HistRowsFit, HistServingFits, HistRetryingFits, Rests,
       ActorMoves, RowsWritten, WordsStay, Writing, NobodyMoves
  <2> QED
    BY <2>1, <2>2 DEF HistCountsFit, HistRowsFit, HistWordsFit, HistKeptFits,
       HistServingFits, HistRetryingFits, HistSetsFit
<1>10. ASSUME NEW t \in HistoryThreads, NEW w \in WordIds, WordCreate(t, w) PROVE HistFits'
  <2>1. HistCountsFit' /\ HistKeptFits' /\ HistSetsFit'
    BY <1>10 DEF HistCountsFit, HistKeptFits, HistSetsFit, WordCreate, HistoryCall, IsAt,
       Writes
  <2>2. HistRowsFit' /\ HistWordsFit' /\ HistServingFits' /\ HistRetryingFits'
    BY <1>10, WordCreateWrites DEF HistRowsFit, HistWordsFit, HistServingFits,
       HistRetryingFits, Rests, CreatesWord, ActorMoves, RowsWritten, WordsStay, Writing,
       NobodyMoves
  <2> QED
    BY <2>1, <2>2 DEF HistCountsFit, HistRowsFit, HistWordsFit, HistKeptFits,
       HistServingFits, HistRetryingFits, HistSetsFit
<1>11. ASSUME NEW t \in HistoryThreads, NEW w \in WordIds, WordDelete(t, w) PROVE HistFits'
  <2>1. HistCountsFit' /\ HistKeptFits' /\ HistSetsFit'
    BY <1>11 DEF HistCountsFit, HistKeptFits, HistSetsFit, WordDelete, HistoryCall, IsAt,
       Writes, Begins
  <2>2. HistRowsFit' /\ HistWordsFit' /\ HistServingFits' /\ HistRetryingFits'
    BY <1>11, WordDeleteWrites DEF HistRowsFit, HistWordsFit, HistServingFits,
       HistRetryingFits, DeletesWord, ActorMoves, RowsWritten, WordsStay, Writing,
       NobodyMoves
  <2> QED
    BY <2>1, <2>2 DEF HistCountsFit, HistRowsFit, HistWordsFit, HistKeptFits,
       HistServingFits, HistRetryingFits, HistSetsFit
<1>12. ASSUME NEW t \in HistoryThreads, NEW w \in WordIds, WordReads(t, w, "text", calls)
       PROVE  HistFits'
  <2>1. HistCountsFit' /\ HistWordsFit' /\ HistKeptFits' /\ HistSetsFit'
    BY <1>12 DEF HistCountsFit, HistWordsFit, HistKeptFits, HistSetsFit, WordReads,
       HistoryCall, IsAt, Begins, Goes
  <2>2. HistRowsFit' /\ HistServingFits' /\ HistRetryingFits'
    BY <1>12, <1>0, WordReadsStarts DEF HistRowsFit, HistServingFits, HistRetryingFits,
       StartsOnWord, StartsOn, ActorMoves, RowsWritten, WordsStay, Writing, NobodyMoves
  <2> QED
    BY <2>1, <2>2 DEF HistCountsFit, HistRowsFit, HistWordsFit, HistKeptFits,
       HistServingFits, HistRetryingFits, HistSetsFit
<1>13. ASSUME NEW t \in HistoryThreads, NEW w \in WordIds, WordReads(t, w, "on", FALSE)
       PROVE  HistFits'
  <2>1. HistCountsFit' /\ HistWordsFit' /\ HistKeptFits' /\ HistSetsFit'
    BY <1>13 DEF HistCountsFit, HistWordsFit, HistKeptFits, HistSetsFit, WordReads,
       HistoryCall, IsAt, Begins, Goes
  <2>2. HistRowsFit' /\ HistServingFits' /\ HistRetryingFits'
    BY <1>13, <1>0, WordReadsStarts DEF HistRowsFit, HistServingFits, HistRetryingFits,
       StartsOnWord, StartsOn, ActorMoves, RowsWritten, WordsStay, Writing, NobodyMoves
  <2> QED
    BY <2>1, <2>2 DEF HistCountsFit, HistRowsFit, HistWordsFit, HistKeptFits,
       HistServingFits, HistRetryingFits, HistSetsFit
<1>14. ASSUME NEW k \in RetryWorkers, RetryRuns(k) PROVE HistFits'
  <2>1. HistCountsFit' /\ HistWordsFit' /\ HistKeptFits' /\ HistSetsFit'
    BY <1>14 DEF HistCountsFit, HistWordsFit, HistKeptFits, HistSetsFit, RetryRuns, Writes,
       Begins, Works
  <2>2. HistRowsFit' /\ HistServingFits' /\ HistRetryingFits'
    BY <1>14, RetryRunsStarts DEF HistRowsFit, HistServingFits, HistRetryingFits,
       StartsRetry, StartsOn, ActorMoves, RowsWritten, WordsStay, Writing, NobodyMoves
  <2> QED
    BY <2>1, <2>2 DEF HistCountsFit, HistRowsFit, HistWordsFit, HistKeptFits,
       HistServingFits, HistRetryingFits, HistSetsFit
<1>15. ASSUME NEW k \in RetryWorkers, RetryReads(k) PROVE HistFits'
  <2>1. HistCountsFit' /\ HistWordsFit' /\ HistKeptFits' /\ HistSetsFit'
    BY <1>15 DEF HistCountsFit, HistWordsFit, HistKeptFits, HistSetsFit, RetryReads, Works
  <2>2. HistRowsFit' /\ HistServingFits' /\ HistRetryingFits'
    BY <1>15, RetryReadsPrepares DEF HistRowsFit, HistServingFits, HistRetryingFits,
       Prepares, GoesOn, ActorMoves, RowsWritten, WordsStay, Writing, NobodyMoves
  <2> QED
    BY <2>1, <2>2 DEF HistCountsFit, HistRowsFit, HistWordsFit, HistKeptFits,
       HistServingFits, HistRetryingFits, HistSetsFit
<1>16. ASSUME NEW k \in RetryWorkers, RetrySets(k) PROVE HistFits'
  <2>1. HistCountsFit' /\ HistWordsFit' /\ HistKeptFits' /\ HistSetsFit'
    BY <1>16 DEF HistCountsFit, HistWordsFit, HistKeptFits, HistSetsFit, RetrySets, Writes,
       Works
  <2>2. HistRowsFit' /\ HistServingFits' /\ HistRetryingFits'
    BY <1>16, RetrySetsShows DEF HistRowsFit, HistServingFits, HistRetryingFits, Shows,
       GoesOn, ActorMoves, RowsWritten, WordsStay, Writing, NobodyMoves
  <2> QED
    BY <2>1, <2>2 DEF HistCountsFit, HistRowsFit, HistWordsFit, HistKeptFits,
       HistServingFits, HistRetryingFits, HistSetsFit
<1>17. ASSUME NEW k \in RetryWorkers, RetryCounts(k) PROVE HistFits'
  <2>1. HistCountsFit' /\ HistWordsFit' /\ HistKeptFits' /\ HistSetsFit'
    BY <1>17 DEF HistCountsFit, HistWordsFit, HistKeptFits, HistSetsFit, RetryCounts, Works
  <2>2. HistRowsFit' /\ HistServingFits' /\ HistRetryingFits'
    BY <1>17, RetryCountsPrepares DEF HistRowsFit, HistServingFits, HistRetryingFits,
       Prepares, GoesOn, ActorMoves, RowsWritten, WordsStay, Writing, NobodyMoves
  <2> QED
    BY <2>1, <2>2 DEF HistCountsFit, HistRowsFit, HistWordsFit, HistKeptFits,
       HistServingFits, HistRetryingFits, HistSetsFit
<1>18. ASSUME NEW k \in RetryWorkers, RetrySyncs(k) PROVE HistFits'
  <2>1. HistCountsFit' /\ HistWordsFit' /\ HistKeptFits' /\ HistSetsFit'
    BY <1>18 DEF HistCountsFit, HistWordsFit, HistKeptFits, HistSetsFit, RetrySyncs, Syncs,
       Works
  <2>2. HistRowsFit' /\ HistServingFits' /\ HistRetryingFits'
    BY <1>18, RetrySyncsAdds DEF HistRowsFit, HistServingFits, HistRetryingFits, Adds,
       GoesOn, ActorMoves, RowsWritten, WordsStay, Writing, NobodyMoves
  <2> QED
    BY <2>1, <2>2 DEF HistCountsFit, HistRowsFit, HistWordsFit, HistKeptFits,
       HistServingFits, HistRetryingFits, HistSetsFit
<1>19. ASSUME NEW k \in RetryWorkers, RetryRaises(k) PROVE HistFits'
  <2>1. HistCountsFit' /\ HistWordsFit' /\ HistKeptFits' /\ HistSetsFit'
    BY <1>19 DEF HistCountsFit, HistWordsFit, HistKeptFits, HistSetsFit, RetryRaises, Works
  <2>2. HistRowsFit' /\ HistServingFits' /\ HistRetryingFits'
    BY <1>19, RetryRaisesPrepares DEF HistRowsFit, HistServingFits, HistRetryingFits,
       Prepares, GoesOn, ActorMoves, RowsWritten, WordsStay, Writing, NobodyMoves
  <2> QED
    BY <2>1, <2>2 DEF HistCountsFit, HistRowsFit, HistWordsFit, HistKeptFits,
       HistServingFits, HistRetryingFits, HistSetsFit
<1>20. ASSUME NEW k \in RetryWorkers, RetryFails(k) PROVE HistFits'
  <2>1. HistCountsFit' /\ HistWordsFit' /\ HistKeptFits' /\ HistSetsFit'
    BY <1>20 DEF HistCountsFit, HistWordsFit, HistKeptFits, HistSetsFit, RetryFails, Writes,
       Works
  <2>2. HistRowsFit' /\ HistServingFits' /\ HistRetryingFits'
    BY <1>20, RetryFailsEnds DEF HistRowsFit, HistServingFits, HistRetryingFits, ActorEnds,
       GoesOn, ActorMoves, RowsWritten, WordsStay, Writing, NobodyMoves
  <2> QED
    BY <2>1, <2>2 DEF HistCountsFit, HistRowsFit, HistWordsFit, HistKeptFits,
       HistServingFits, HistRetryingFits, HistSetsFit
<1>21. CASE HistoryCloses
  BY <1>21 DEF HistCountsFit, HistRowsFit, HistWordsFit, HistKeptFits, HistServingFits,
     HistRetryingFits, HistSetsFit, HistoryCloses
<1>22. CASE DatabaseCloses
  <2>1. HistCountsFit' /\ HistRowsFit' /\ HistWordsFit'
    BY <1>22 DEF HistCountsFit, HistRowsFit, HistWordsFit, DatabaseCloses, Gone, DataTo
  <2>2. HistKeptFits' /\ HistSetsFit'
    BY <1>22 DEF HistKeptFits, HistSetsFit, DatabaseCloses, Gone
  <2>3. HistServingFits' /\ HistRetryingFits'
    BY <1>22, <1>0 DEF HistServingFits, HistRetryingFits, DatabaseCloses, Gone
  <2> QED
    BY <2>1, <2>2, <2>3 DEF HistCountsFit, HistRowsFit, HistWordsFit, HistKeptFits,
       HistServingFits, HistRetryingFits, HistSetsFit
<1>23. CASE ServerCrashes
  <2>1. HistCountsFit' /\ HistRowsFit' /\ HistWordsFit'
    BY <1>23 DEF HistCountsFit, HistRowsFit, HistWordsFit, ServerCrashes, Gone, DataTo
  <2>2. HistKeptFits' /\ HistSetsFit'
    BY <1>23 DEF HistKeptFits, HistSetsFit, ServerCrashes, Gone
  <2>3. HistServingFits' /\ HistRetryingFits'
    BY <1>23, <1>0 DEF HistServingFits, HistRetryingFits, ServerCrashes, Gone
  <2> QED
    BY <2>1, <2>2, <2>3 DEF HistCountsFit, HistRowsFit, HistWordsFit, HistKeptFits,
       HistServingFits, HistRetryingFits, HistSetsFit
<1>24. CASE ServerRestarts
  BY <1>24 DEF HistCountsFit, HistRowsFit, HistWordsFit, HistKeptFits, HistServingFits,
     HistRetryingFits, HistSetsFit, ServerRestarts
<1>25. CASE UNCHANGED historyVars
  BY <1>25 DEF HistCountsFit, HistRowsFit, HistWordsFit, HistKeptFits, HistServingFits,
     HistRetryingFits, HistSetsFit, historyVars
<1> QED
  BY <1>1, <1>2, <1>3, <1>4, <1>5, <1>6, <1>7, <1>8, <1>9, <1>10, <1>11, <1>12, <1>13, <1>14,
     <1>15, <1>16, <1>17, <1>18, <1>19, <1>20, <1>21, <1>22, <1>23, <1>24, <1>25
     DEF HistoryNext, ThreadStep, RetryStep

\* Every step is of one of these kinds.
AStep ==
  \/ Rests
  \/ \E a \in Actors, c \in OpsTo(ingested) :
       \/ StartsOnRow(a, c) \/ StartsRetry(a, c) \/ StartsOnWord(a, c)
       \/ Prepares(a, c) \/ Shows(a, c) \/ Adds(a, c)
  \/ \E a \in Actors : ActorEnds(a) \/ WritesWord(a)
  \/ \E w \in WordIds : CreatesWord(w) \/ DeletesWord(w)
  \/ \E i \in HistoryIds : Ingests(i)
  \/ Gone(committed) \/ Gone(onDisk)

\* Every step is of one of the kinds.
LEMMA StepKinds == HistoryIInv /\ [HistoryNext]_historyVars => AStep
<1> SUFFICES ASSUME HistoryIInv, [HistoryNext]_historyVars PROVE AStep
  OBVIOUS
<1> USE HistoryAssumption DEF HistoryIInv
<1>0. /\ calls \in Nat /\ words \in WordTables /\ HistWordsFit /\ FALSE \in BOOLEAN
      /\ retryQueue \in Seq(HistoryIds)
  BY DEF HistFits, HistCountsFit, HistWordsFit, HistSetsFit
<1>1. ASSUME NEW i \in HistoryIds, Ingest(i) PROVE AStep
  BY <1>1, IngestIngests DEF AStep
<1>2. ASSUME NEW t \in HistoryThreads, UndoSets(t) PROVE AStep
  BY <1>2, ActorsAre, UndoSetsShows DEF AStep
<1>3. ASSUME NEW t \in HistoryThreads, UndoCounts(t) PROVE AStep
  BY <1>3, ActorsAre, UndoCountsPrepares DEF AStep
<1>4. ASSUME NEW t \in HistoryThreads, UndoSyncs(t) PROVE AStep
  BY <1>4, ActorsAre, UndoSyncsAdds DEF AStep
<1>5. ASSUME NEW t \in HistoryThreads, RetrySubmits(t) PROVE AStep
  BY <1>5, ActorsAre, RetrySubmitsEnds DEF AStep
<1>6. ASSUME NEW t \in HistoryThreads, WordUpdates(t) PROVE AStep
  BY <1>6, <1>0, ActorsAre, WordUpdatesWrites DEF AStep
<1>7. ASSUME NEW t \in HistoryThreads, NEW i \in HistoryIds, AsksUndo(t, i) PROVE AStep
  BY <1>7, ActorsAre, AsksUndoStarts DEF AStep
<1>8. ASSUME NEW t \in HistoryThreads, NEW i \in HistoryIds, AsksRetry(t, i) PROVE AStep
  BY <1>8, ActorsAre, AsksRetryStarts DEF AStep
<1>9. ASSUME NEW t \in HistoryThreads, NEW i \in HistoryIds, HistoryDelete(t, i) PROVE AStep
  BY <1>9, ActorsAre, HistoryDeleteRests DEF AStep
<1>10. ASSUME NEW t \in HistoryThreads, NEW w \in WordIds, WordCreate(t, w) PROVE AStep
  BY <1>10, ActorsAre, WordCreateWrites DEF AStep
<1>11. ASSUME NEW t \in HistoryThreads, NEW w \in WordIds, WordDelete(t, w) PROVE AStep
  BY <1>11, ActorsAre, WordDeleteWrites DEF AStep
<1>12. ASSUME NEW t \in HistoryThreads, NEW w \in WordIds, WordReads(t, w, "text", calls)
       PROVE  AStep
  BY <1>12, <1>0, ActorsAre, WordReadsStarts DEF AStep
<1>13. ASSUME NEW t \in HistoryThreads, NEW w \in WordIds, WordReads(t, w, "on", FALSE)
       PROVE  AStep
  BY <1>13, <1>0, ActorsAre, WordReadsStarts DEF AStep
<1>14. ASSUME NEW k \in RetryWorkers, RetryRuns(k) PROVE AStep
  BY <1>14, <1>0, ActorsAre, RetryRunsStarts DEF AStep
<1>15. ASSUME NEW k \in RetryWorkers, RetryReads(k) PROVE AStep
  BY <1>15, ActorsAre, RetryReadsPrepares DEF AStep
<1>16. ASSUME NEW k \in RetryWorkers, RetrySets(k) PROVE AStep
  BY <1>16, ActorsAre, RetrySetsShows DEF AStep
<1>17. ASSUME NEW k \in RetryWorkers, RetryCounts(k) PROVE AStep
  BY <1>17, ActorsAre, RetryCountsPrepares DEF AStep
<1>18. ASSUME NEW k \in RetryWorkers, RetrySyncs(k) PROVE AStep
  BY <1>18, ActorsAre, RetrySyncsAdds DEF AStep
<1>19. ASSUME NEW k \in RetryWorkers, RetryRaises(k) PROVE AStep
  BY <1>19, ActorsAre, RetryRaisesPrepares DEF AStep
<1>20. ASSUME NEW k \in RetryWorkers, RetryFails(k) PROVE AStep
  BY <1>20, ActorsAre, RetryFailsEnds DEF AStep
<1>21. CASE HistoryCloses
  BY <1>21, AloneRests DEF HistoryCloses, AStep
<1>22. CASE DatabaseCloses
  BY <1>22 DEF DatabaseCloses, AStep
<1>23. CASE ServerCrashes
  BY <1>23 DEF ServerCrashes, AStep
<1>24. CASE ServerRestarts
  BY <1>24, AloneRests DEF ServerRestarts, AStep
<1>25. CASE UNCHANGED historyVars
  BY <1>25, AloneRests DEF historyVars, AStep
<1> QED
  BY <1>1, <1>2, <1>3, <1>4, <1>5, <1>6, <1>7, <1>8, <1>9, <1>10, <1>11, <1>12, <1>13, <1>14,
     <1>15, <1>16, <1>17, <1>18, <1>19, <1>20, <1>21, <1>22, <1>23, <1>24, <1>25
     DEF HistoryNext, ThreadStep, RetryStep

\* The tables only grow, but for a crash.
Grown(old, new) ==
  \A i \in HistoryIds : old[i] # NoRow =>
    /\ new[i] # NoRow /\ Len(old[i].revs) <= Len(new[i].revs)
    /\ \A j \in 1 .. Len(old[i].revs) : new[i].revs[j] = old[i].revs[j]

\* Whatever is written, a row keeps what it has.
LEMMA TablesGrow ==
  ASSUME HistFits
  PROVE  /\ SameText => Grown(rows, rows')
         /\ \A a \in Actors, c \in OpsTo(ingested) : Shows(a, c) \/ Adds(a, c)
              => Grown(rows, rows')
         /\ \A i \in HistoryIds : Ingests(i) => Grown(rows, rows')
<1> USE DEF Grown
<1>1. \A i \in HistoryIds : rows[i] # NoRow =>
        rows[i].revs \in Seq(TextsTo(ingested)) /\ Len(rows[i].revs) \in Nat
  BY RowThere
<1>2. ASSUME SameText PROVE Grown(rows, rows')
  BY <1>1, <1>2 DEF SameText
<1>3. ASSUME NEW a \in Actors, NEW c \in OpsTo(ingested), Shows(a, c) PROVE Grown(rows, rows')
  BY <1>1, <1>3 DEF Shows, OthersSame
<1>4. ASSUME NEW a \in Actors, NEW c \in OpsTo(ingested), Adds(a, c) PROVE Grown(rows, rows')
  <2> SUFFICES ASSUME NEW i \in HistoryIds, rows[i] # NoRow
      PROVE  /\ rows'[i] # NoRow /\ Len(rows[i].revs) <= Len(rows'[i].revs)
             /\ \A j \in 1 .. Len(rows[i].revs) : rows'[i].revs[j] = rows[i].revs[j]
    OBVIOUS
  <2>1. CASE i # Does(a).on
    BY <1>1, <1>4, <2>1 DEF Adds, OthersSame
  <2>2. CASE i = Does(a).on
    <3>1. PICK q \in Seq(TextsTo(ingested)) : q = rows[i].revs
      BY <1>1
    <3>2. Does(a).text \in TextsTo(ingested)
      BY <1>4, ActorsAre, OpKinds DEF Adds
    <3>3. /\ Len(Append(q, Does(a).text)) = Len(q) + 1 /\ Len(q) \in Nat
          /\ \A j \in 1 .. Len(q) : Append(q, Does(a).text)[j] = q[j]
      BY <3>1, <3>2, AppendProperties
    <3>4. rows'[i] # NoRow /\ rows'[i].revs \in {q, Append(q, Does(a).text)}
      BY <1>4, <2>2, <3>1 DEF Adds
    <3>5. CASE rows'[i].revs = q
      BY <3>1, <3>3, <3>4, <3>5
    <3>6. CASE rows'[i].revs = Append(q, Does(a).text)
      BY <3>1, <3>3, <3>4, <3>6
    <3> QED
      BY <3>4, <3>5, <3>6
  <2> QED
    BY <2>1, <2>2
<1>5. ASSUME NEW k \in HistoryIds, Ingests(k) PROVE Grown(rows, rows')
  <2> SUFFICES ASSUME NEW i \in HistoryIds, rows[i] # NoRow
      PROVE  /\ rows'[i] # NoRow /\ Len(rows[i].revs) <= Len(rows'[i].revs)
             /\ \A j \in 1 .. Len(rows[i].revs) : rows'[i].revs[j] = rows[i].revs[j]
    OBVIOUS
  <2>1. CASE rows'[i] = rows[i]
    BY <1>1, <2>1
  <2>2. CASE rows'[i] # rows[i]
    <3>1. PICK q \in Seq(TextsTo(ingested)) : q = rows[i].revs
      BY <1>1
    <3> DEFINE text == Text(ingested + 1, "coach")
    <3>2. rows'[i] # NoRow /\ rows'[i].revs = Append(q, text)
      BY <1>5, <2>2, <3>1 DEF Ingests, OthersSame
    <3>3. q \in Seq(TextsTo(ingested) \cup {text})
      BY <3>1
    <3> HIDE DEF text
    <3>4. /\ Len(Append(q, text)) = Len(q) + 1 /\ Len(q) \in Nat
          /\ \A j \in 1 .. Len(q) : Append(q, text)[j] = q[j]
      BY <3>3, AppendProperties
    <3> QED
      BY <3>1, <3>2, <3>4
  <2> QED
    BY <2>1, <2>2
<1> QED
  BY <1>2, <1>3, <1>4, <1>5

\* An operation fits the tables as they grow.
LEMMA FitStays ==
  ASSUME NEW c, NEW old, NEW new, Grown(old, new), OpFits(c, old),
         c.at \notin {"idle", "update"} => c.on \in HistoryIds /\ Len(old[c.on].revs) \in Nat,
         c.at = "insert" => c.index \in Nat /\ Len(new[c.on].revs) \in Nat
  PROVE  OpFits(c, new)
BY SMTT(60) DEF Grown, OpFits, Contains

\* Everybody's operation fits the rows after every step.
LEMMA OpsFitNext == HistoryIInv /\ [HistoryNext]_historyVars => OpsFit'
<1> SUFFICES ASSUME HistoryIInv, [HistoryNext]_historyVars PROVE OpsFit'
  OBVIOUS
<1> USE DEF HistoryIInv
<1>1. ASSUME Grown(rows, rows'), NEW b \in Actors, Does(b)' = Does(b)
      PROVE  OpFits(Does(b), rows')
  <2>1. PICK c \in OpsTo(ingested) : c = Does(b)
    BY ActorsAre
  <2>2. OpFits(c, rows)
    BY <2>1 DEF OpsFit
  <2>3. c.at \notin {"idle", "update"} => c.on \in HistoryIds /\ Len(rows[c.on].revs) \in Nat
    BY <2>1, <2>2, OpKinds, RowThere DEF OpFits
  <2>4. rows' \in TablesTo(ingested')
    BY HistFitsNext DEF HistFits, HistRowsFit
  <2>5. c.at = "insert" => c.index \in Nat /\ Len(rows'[c.on].revs) \in Nat
    <3> SUFFICES ASSUME c.at = "insert" PROVE Len(rows'[c.on].revs) \in Nat
      BY <2>1, OpKinds
    <3>1. c.on \in HistoryIds /\ rows[c.on] # NoRow
      BY <2>1, <2>2, OpKinds DEF OpFits
    <3>2. rows'[c.on] # NoRow
      BY <1>1, <3>1 DEF Grown
    <3>3. rows'[c.on].revs \in Seq(TextsTo(ingested'))
      BY <2>4, <3>1, <3>2 DEF TablesTo, RowsTo
    <3> QED
      BY <3>3
  <2>6. OpFits(c, rows')
    BY <1>1, <2>2, <2>3, <2>5, FitStays
  <2> QED
    BY <2>1, <2>6
<1>2. ASSUME Grown(rows, rows'), NEW a \in Actors, NEW c \in OpsTo(ingested),
             \A b \in Actors \ {a} : Does(b)' = Does(b), Does(a)' = c, OpFits(c, rows')
      PROVE  OpsFit'
  <2> SUFFICES ASSUME NEW b \in Actors PROVE OpFits(Does(b)', rows')
    BY DEF OpsFit, OpFits
  <2>1. CASE b = a
    BY <1>2, <2>1
  <2>2. CASE b # a
    <3>1. Does(b)' = Does(b)
      BY <1>2, <2>2
    <3>2. OpFits(Does(b), rows')
      BY <1>1, <1>2, <3>1
    <3> QED
      BY <3>1, <3>2
  <2> QED
    BY <2>1, <2>2
<1>3. ASSUME Grown(rows, rows'), NobodyMoves PROVE OpsFit'
  <2> SUFFICES ASSUME NEW b \in Actors PROVE OpFits(Does(b)', rows')
    BY DEF OpsFit, OpFits
  <2>1. Does(b)' = Does(b)
    BY <1>3 DEF NobodyMoves
  <2>2. OpFits(Does(b), rows')
    BY <1>1, <1>3, <2>1
  <2> QED
    BY <2>1, <2>2
<1>4. CASE Rests
  BY <1>3, <1>4, TablesGrow DEF Rests
<1>5. ASSUME NEW a \in Actors, NEW c \in OpsTo(ingested),
             StartsOnRow(a, c) \/ StartsRetry(a, c) \/ StartsOnWord(a, c)
      PROVE  OpsFit'
  <2>1. Grown(rows, rows') /\ SameText
    BY <1>5, TablesGrow DEF StartsOnRow, StartsRetry, StartsOnWord, StartsOn
  <2>2. OpFits(c, rows')
    BY <1>5, <2>1 DEF StartsOnRow, StartsRetry, StartsOnWord, OpFits, SameText
  <2> QED
    BY <1>2, <1>5, <2>1, <2>2
       DEF StartsOnRow, StartsRetry, StartsOnWord, StartsOn, ActorMoves
<1>6. ASSUME NEW a \in Actors, NEW c \in OpsTo(ingested), Prepares(a, c) PROVE OpsFit'
  <2>1. Grown(rows, rows') /\ SameText
    BY <1>6, TablesGrow DEF Prepares
  <2>2. PICK d \in OpsTo(ingested) : d = Does(a) /\ OpFits(d, rows)
    BY ActorsAre DEF OpsFit
  <2>3. d.on \in HistoryIds /\ rows[d.on] # NoRow /\ d.at \notin {"idle", "update"}
    BY <1>6, <2>2, OpKinds DEF Prepares, GoesOn, OpFits
  <2>4. /\ rows'[d.on] # NoRow /\ rows'[d.on].revs = rows[d.on].revs
        /\ Len(rows[d.on].revs) \in Nat
    BY <2>1, <2>3, RowThere DEF SameText
  <2>5. OpFits(c, rows')
    <3>1. CASE c.at \in {"apply", "failed"}
      BY <1>6, <2>2, <2>4, <3>1 DEF Prepares, OpFits
    <3>2. CASE c = Counted(d.on, d.text)
      BY <2>3, <2>4, <3>2 DEF Counted, OpFits, Contains
    <3> QED
      BY <1>6, <2>2, <3>1, <3>2 DEF Prepares
  <2> QED
    BY <1>2, <1>6, <2>1, <2>5 DEF Prepares, GoesOn, ActorMoves
<1>7. ASSUME NEW a \in Actors, NEW c \in OpsTo(ingested), Shows(a, c) PROVE OpsFit'
  <2>1. Grown(rows, rows')
    BY <1>7, TablesGrow
  <2>2. OpFits(c, rows')
    BY <1>7 DEF Shows, OpFits
  <2> QED
    BY <1>2, <1>7, <2>1, <2>2 DEF Shows, GoesOn, ActorMoves
<1>8. ASSUME NEW a \in Actors, NEW c \in OpsTo(ingested), Adds(a, c) PROVE OpsFit'
  <2>1. Grown(rows, rows')
    BY <1>8, TablesGrow
  <2>2. OpFits(c, rows')
    BY <1>8 DEF Adds, OpFits, Idle
  <2> QED
    BY <1>2, <1>8, <2>1, <2>2 DEF Adds, GoesOn, ActorMoves
<1>9. ASSUME NEW a \in Actors, ActorEnds(a) \/ WritesWord(a) PROVE OpsFit'
  <2>1. Grown(rows, rows')
    BY <1>9, TablesGrow DEF ActorEnds, WritesWord, Writing
  <2>2. Idle \in OpsTo(ingested) /\ OpFits(Idle, rows')
    BY DEF OpsTo, OpFits, Idle
  <2> QED
    BY <1>2, <1>9, <2>1, <2>2 DEF ActorEnds, WritesWord, GoesOn, ActorMoves
<1>10. ASSUME NEW w \in WordIds, CreatesWord(w) \/ DeletesWord(w) PROVE OpsFit'
  BY <1>3, <1>10, TablesGrow DEF CreatesWord, DeletesWord, Writing
<1>11. ASSUME NEW i \in HistoryIds, Ingests(i) PROVE OpsFit'
  BY <1>3, <1>11, TablesGrow DEF Ingests
<1>12. ASSUME NEW left, Gone(left) PROVE OpsFit'
  BY <1>12 DEF Gone, OpsFit, Actors, Does, OpFits, Idle
<1> QED
  BY <1>4, <1>5, <1>6, <1>7, <1>8, <1>9, <1>10, <1>11, <1>12, StepKinds DEF AStep

\* A session in the queue of retries has a row.
LEMMA QueueFitsNext == HistoryIInv /\ [HistoryNext]_historyVars => QueueFits'
<1> SUFFICES ASSUME HistoryIInv, [HistoryNext]_historyVars PROVE QueueFits'
  OBVIOUS
<1> USE DEF HistoryIInv
<1>0. PICK q \in Seq(HistoryIds) : q = retryQueue /\ \A j \in 1 .. Len(q) : rows[q[j]] # NoRow
  BY DEF HistFits, HistSetsFit, QueueFits
<1>1. ASSUME Grown(rows, rows'),
             \/ retryQueue' \in {q, <<>>}
             \/ q # <<>> /\ retryQueue' = Tail(q)
             \/ \E i \in HistoryIds : rows[i] # NoRow /\ retryQueue' = Append(q, i)
      PROVE  QueueFits'
  <2>1. \A j \in 1 .. Len(q) : q[j] \in HistoryIds /\ rows'[q[j]] # NoRow
    BY <1>0, <1>1 DEF Grown
  <2>2. CASE retryQueue' \in {q, <<>>}
    BY <2>1, <2>2 DEF QueueFits
  <2>3. CASE q # <<>> /\ retryQueue' = Tail(q)
    <3>1. /\ Len(Tail(q)) = Len(q) - 1 /\ Len(q) \in Nat
          /\ \A j \in 1 .. Len(q) - 1 : Tail(q)[j] = q[j + 1]
      BY <2>3, TakenOff
    <3> QED
      BY <2>1, <2>3, <3>1 DEF QueueFits
  <2>4. ASSUME NEW i \in HistoryIds, rows[i] # NoRow, retryQueue' = Append(q, i)
        PROVE  QueueFits'
    <3>1. /\ Len(Append(q, i)) = Len(q) + 1 /\ Len(q) \in Nat
          /\ \A j \in 1 .. Len(q) : Append(q, i)[j] = q[j]
          /\ Append(q, i)[Len(q) + 1] = i
      BY AppendProperties
    <3>2. rows'[i] # NoRow
      BY <1>1, <2>4 DEF Grown
    <3> QED
      BY <2>1, <2>4, <3>1, <3>2 DEF QueueFits
  <2> QED
    BY <1>1, <2>2, <2>3, <2>4
<1>2. ASSUME Grown(rows, rows'), retryQueue' = retryQueue PROVE QueueFits'
  BY <1>0, <1>1, <1>2
<1>3. CASE Rests
  BY <1>0, <1>1, <1>3, TablesGrow DEF Rests
<1>4. ASSUME NEW a \in Actors, NEW c \in OpsTo(ingested),
             \/ StartsOnRow(a, c) \/ StartsRetry(a, c) \/ StartsOnWord(a, c)
             \/ Prepares(a, c) \/ Shows(a, c) \/ Adds(a, c)
      PROVE  QueueFits'
  <2>1. Grown(rows, rows')
    BY <1>4, TablesGrow DEF StartsOnRow, StartsRetry, StartsOnWord, StartsOn, Prepares
  <2> QED
    BY <1>0, <1>1, <1>2, <1>4, <2>1
       DEF StartsOnRow, StartsRetry, StartsOnWord, Prepares, Shows, Adds
<1>5. ASSUME NEW a \in Actors, ActorEnds(a) \/ WritesWord(a) PROVE QueueFits'
  <2>1. Grown(rows, rows')
    BY <1>5, TablesGrow DEF ActorEnds, WritesWord, Writing
  <2>2. CASE WritesWord(a)
    BY <1>2, <2>1, <2>2 DEF WritesWord, Writing
  <2>3. CASE ActorEnds(a)
    <3>1. PICK d \in OpsTo(ingested) : d = Does(a) /\ OpFits(d, rows)
      BY ActorsAre DEF OpsFit
    <3>2. d.on \in HistoryIds /\ rows[d.on] # NoRow
      BY <2>3, <3>1, OpKinds DEF ActorEnds, GoesOn, OpFits
    <3> QED
      BY <1>0, <1>1, <2>1, <2>3, <3>1, <3>2 DEF ActorEnds
  <2> QED
    BY <1>5, <2>2, <2>3
<1>6. ASSUME NEW w \in WordIds, CreatesWord(w) \/ DeletesWord(w) PROVE QueueFits'
  BY <1>2, <1>6, TablesGrow DEF CreatesWord, DeletesWord, Writing
<1>7. ASSUME NEW i \in HistoryIds, Ingests(i) PROVE QueueFits'
  BY <1>2, <1>7, TablesGrow DEF Ingests
<1>8. ASSUME NEW left, Gone(left) PROVE QueueFits'
  BY <1>8 DEF Gone, QueueFits
<1> QED
  BY <1>3, <1>4, <1>5, <1>6, <1>7, <1>8, StepKinds DEF AStep

\* Two operations on one row or word are on record as overlapping.
LEMMA OneAtATimeNext == HistoryIInv /\ [HistoryNext]_historyVars => OneAtATime'
<1> SUFFICES ASSUME HistoryIInv, [HistoryNext]_historyVars PROVE OneAtATime'
  OBVIOUS
<1> USE DEF HistoryIInv
<1>1. ASSUME NobodyMoves, overlapped \subseteq overlapped' PROVE OneAtATime'
  BY <1>1 DEF NobodyMoves, OneAtATime
<1>2. ASSUME NEW a \in Actors, NEW c, ActorMoves(a, c), overlapped \subseteq overlapped',
             \/ c.at = "idle"
             \/ Does(a).at # "idle" /\ c.on = Does(a).on
             \/ \A b \in Actors \ {a} : Does(b).on = c.on => c.on \in overlapped'
      PROVE  OneAtATime'
  <2> SUFFICES ASSUME NEW x \in Actors, NEW y \in Actors, x # y, Does(x)'.at # "idle",
                      Does(y)'.at # "idle", Does(x)'.on = Does(y)'.on
      PROVE  Does(x)'.on \in overlapped'
    BY DEF OneAtATime
  <2>1. Does(a)' = c /\ \A b \in Actors \ {a} : Does(b)' = Does(b)
    BY <1>2 DEF ActorMoves
  <2>2. CASE x = a
    BY <1>2, <2>1, <2>2 DEF OneAtATime
  <2>3. CASE y = a
    BY <1>2, <2>1, <2>3 DEF OneAtATime
  <2>4. CASE x # a /\ y # a
    BY <1>2, <2>1, <2>4 DEF OneAtATime
  <2> QED
    BY <2>2, <2>3, <2>4
<1>3. CASE Rests
  BY <1>1, <1>3 DEF Rests
<1>4. ASSUME NEW a \in Actors, NEW c \in OpsTo(ingested),
             StartsOnRow(a, c) \/ StartsRetry(a, c) \/ StartsOnWord(a, c)
      PROVE  OneAtATime'
  <2>1. StartsOn(a, c)
    BY <1>4 DEF StartsOnRow, StartsRetry, StartsOnWord
  <2>2. /\ ActorMoves(a, c) /\ overlapped \subseteq overlapped'
        /\ \A b \in Actors \ {a} : Does(b).on = c.on => c.on \in overlapped'
    BY <2>1 DEF StartsOn
  <2> QED
    BY <1>2, <2>2
<1>5. ASSUME NEW a \in Actors, NEW c \in OpsTo(ingested),
             Prepares(a, c) \/ Shows(a, c) \/ Adds(a, c)
      PROVE  OneAtATime'
  <2>1. GoesOn(a, c)
    BY <1>5 DEF Prepares, Shows, Adds
  <2>2. c.at = "idle" \/ c.on = Does(a).on
    BY <1>5 DEF Prepares, Shows, Adds, Idle
  <2> QED
    BY <1>2, <2>1, <2>2 DEF GoesOn
<1>6. ASSUME NEW a \in Actors, ActorEnds(a) \/ WritesWord(a) PROVE OneAtATime'
  <2>1. Idle.at = "idle"
    BY DEF Idle
  <2> QED
    BY <1>2, <1>6, <2>1 DEF ActorEnds, GoesOn, WritesWord
<1>7. ASSUME NEW w \in WordIds, CreatesWord(w) \/ DeletesWord(w) PROVE OneAtATime'
  BY <1>1, <1>7 DEF CreatesWord, DeletesWord
<1>8. ASSUME NEW i \in HistoryIds, Ingests(i) PROVE OneAtATime'
  BY <1>1, <1>8 DEF Ingests
<1>9. ASSUME NEW left, Gone(left) PROVE OneAtATime'
  BY <1>9 DEF Gone, OneAtATime, Actors, Does, Idle
<1> QED
  BY <1>3, <1>4, <1>5, <1>6, <1>7, <1>8, <1>9, StepKinds DEF AStep

\* A text that was not there leaves the texts different.
LEMMA AppendDiffers ==
  ASSUME NEW S, NEW q \in Seq(S), IsInjective(q), NEW x, \A j \in 1 .. Len(q) : q[j] # x
  PROVE  IsInjective(Append(q, x))
<1>1. q \in Seq(S \cup {x})
  OBVIOUS
<1>2. /\ Len(Append(q, x)) = Len(q) + 1 /\ Len(q) \in Nat /\ DOMAIN q = 1 .. Len(q)
      /\ DOMAIN Append(q, x) = 1 .. Len(q) + 1
      /\ \A j \in 1 .. Len(q) : Append(q, x)[j] = q[j]
      /\ Append(q, x)[Len(q) + 1] = x
  BY <1>1, AppendProperties, LenProperties
<1> DEFINE p == Append(q, x)
<1> HIDE DEF p
<1> SUFFICES ASSUME NEW i \in DOMAIN p, NEW j \in DOMAIN p, p[i] = p[j] PROVE i = j
  BY DEF IsInjective, p
<1>3. i \in 1 .. Len(q) \/ i = Len(q) + 1
  BY <1>2 DEF p
<1>4. j \in 1 .. Len(q) \/ j = Len(q) + 1
  BY <1>2 DEF p
<1> QED
  BY <1>2, <1>3, <1>4 DEF IsInjective, p

\* And is there.
LEMMA AppendContains ==
  ASSUME NEW S, NEW q \in Seq(S), NEW x
  PROVE  /\ Contains(Append(q, x), x)
         /\ \A y : Contains(q, y) => Contains(Append(q, x), y)
<1>1. q \in Seq(S \cup {x})
  OBVIOUS
<1>2. /\ Len(Append(q, x)) = Len(q) + 1 /\ Len(q) \in Nat
      /\ \A j \in 1 .. Len(q) : Append(q, x)[j] = q[j]
      /\ Append(q, x)[Len(q) + 1] = x
  BY <1>1, AppendProperties
<1> DEFINE p == Append(q, x)
<1> HIDE DEF p
<1>3. Contains(p, x)
  BY <1>2 DEF Contains, p
<1>4. \A y : Contains(q, y) => Contains(p, y)
  BY <1>2 DEF Contains, p
<1> QED
  BY <1>3, <1>4 DEF p

\* The revisions of a session differ after every step.
LEMMA RevisionsDifferNext == HistoryIInv /\ [HistoryNext]_historyVars => RevisionsDiffer'
<1> SUFFICES ASSUME HistoryIInv, [HistoryNext]_historyVars PROVE RevisionsDiffer'
  OBVIOUS
<1> USE DEF HistoryIInv
<1>1. ASSUME SameText PROVE RevisionsDiffer'
  BY <1>1 DEF SameText, RevisionsDiffer
<1>2. ASSUME NEW k \in HistoryIds, OthersSame(k),
             rows[k] # NoRow /\ rows'[k] # NoRow => IsInjective(rows'[k].revs),
             rows[k] = NoRow /\ rows'[k] # NoRow => IsInjective(rows'[k].revs)
      PROVE  RevisionsDiffer'
  BY <1>2 DEF OthersSame, RevisionsDiffer
<1>3. ASSUME NEW a \in Actors, NEW c \in OpsTo(ingested), Shows(a, c) PROVE RevisionsDiffer'
  <2>1. PICK d \in OpsTo(ingested) : d = Does(a) /\ OpFits(d, rows)
    BY ActorsAre DEF OpsFit
  <2>2. d.on \in HistoryIds /\ rows[d.on] # NoRow
    BY <1>3, <2>1, OpKinds DEF Shows, OpFits
  <2> QED
    BY <1>2, <1>3, <2>1, <2>2 DEF Shows, RevisionsDiffer
<1>4. ASSUME NEW a \in Actors, NEW c \in OpsTo(ingested), Adds(a, c) PROVE RevisionsDiffer'
  <2>1. PICK d \in OpsTo(ingested) : d = Does(a) /\ OpFits(d, rows)
    BY ActorsAre DEF OpsFit
  <2>2. d.on \in HistoryIds /\ rows[d.on] # NoRow /\ d.at = "insert"
    BY <1>4, <2>1, OpKinds DEF Adds, OpFits
  <2>3. PICK q \in Seq(TextsTo(ingested)) : q = rows[d.on].revs
    BY <2>2, RowThere
  <2>4. IsInjective(q)
    BY <2>2, <2>3 DEF RevisionsDiffer
  <2>5. ~d.known /\ Len(q) = d.index => IsInjective(Append(q, d.text))
    BY <2>1, <2>2, <2>3, <2>4, AppendDiffers DEF OpFits
  <2>6. rows'[d.on].revs = IF ~d.known /\ Len(q) = d.index THEN Append(q, d.text) ELSE q
    BY <1>4, <2>1, <2>3 DEF Adds
  <2>7. IsInjective(rows'[d.on].revs)
    BY <2>4, <2>5, <2>6
  <2>8. OthersSame(d.on)
    BY <1>4, <2>1 DEF Adds
  <2> QED
    BY <1>2, <2>2, <2>7, <2>8
<1>5. ASSUME NEW i \in HistoryIds, Ingests(i) PROVE RevisionsDiffer'
  <2> DEFINE text == Text(ingested + 1, "coach")
  <2>1. CASE rows' = rows
    BY <2>1 DEF RevisionsDiffer
  <2>2. CASE rows[i] = NoRow /\ rows'[i].revs = <<text>>
    <3>1. IsInjective(<<text>>)
      BY DEF IsInjective
    <3> QED
      BY <1>2, <1>5, <2>2, <3>1 DEF Ingests
  <2>3. CASE rows[i] # NoRow /\ rows'[i].revs = Append(rows[i].revs, text)
    <3>1. PICK q \in Seq(TextsTo(ingested)) : q = rows[i].revs
      BY <2>3, RowThere
    <3>2. IsInjective(q)
      BY <2>3, <3>1 DEF RevisionsDiffer
    <3>3. \A j \in 1 .. Len(q) : q[j] # text
      <4>1. ASSUME NEW j \in 1 .. Len(q) PROVE q[j].of \in 1 .. ingested
        <5>1. q[j] \in TextsTo(ingested)
          OBVIOUS
        <5> QED
          BY <5>1 DEF TextsTo
      <4>2. text.of = ingested + 1 /\ ingested \in Nat
        BY DEF Text, HistFits, HistCountsFit
      <4> QED
        BY <4>1, <4>2
    <3>4. IsInjective(Append(q, text))
      <4> HIDE DEF text
      <4> QED
        BY <3>2, <3>3, AppendDiffers
    <3> QED
      BY <1>2, <1>5, <2>3, <3>1, <3>4 DEF Ingests
  <2> QED
    BY <1>5, <2>1, <2>2, <2>3 DEF Ingests
<1>6. ASSUME Gone(committed) \/ Gone(onDisk) PROVE RevisionsDiffer'
  BY <1>6 DEF Gone, RevisionsDiffer, KeptIsWhole, IsWhole
<1> QED
  BY <1>1, <1>3, <1>4, <1>5, <1>6, StepKinds
     DEF AStep, Rests, StartsOnRow, StartsRetry, StartsOnWord, StartsOn, Prepares, ActorEnds,
         WritesWord, CreatesWord, DeletesWord, Writing

\* A session shows a revision of its own, or soon will.
LEMMA ShownNext == HistoryIInv /\ [HistoryNext]_historyVars => ShownWillBeRecorded'
<1> SUFFICES ASSUME HistoryIInv, [HistoryNext]_historyVars PROVE ShownWillBeRecorded'
  OBVIOUS
<1> USE DEF HistoryIInv
<1> DEFINE Will(i) == \/ Contains(rows'[i].revs, rows'[i].active)
                      \/ \E b \in Actors : Covers(Does(b)', i, rows'[i])
<1>1. SUFFICES ASSUME NEW i \in HistoryIds, rows'[i] # NoRow, i \notin overlapped' PROVE Will(i)
  BY DEF ShownWillBeRecorded, Covers
<1> DEFINE Same == rows[i] # NoRow /\ rows'[i].revs = rows[i].revs
                     /\ rows'[i].active = rows[i].active
<1>2. ASSUME Same, i \notin overlapped
      PROVE  \/ Will(i)
             \/ \E b \in Actors : Covers(Does(b), i, rows[i]) /\ Does(b)' # Does(b)
  <2>1. CASE Contains(rows[i].revs, rows[i].active)
    BY <1>2, <2>1
  <2>2. ASSUME NEW b \in Actors, Covers(Does(b), i, rows[i]), Does(b)' = Does(b) PROVE Will(i)
    BY <1>2, <2>2 DEF Covers
  <2> QED
    BY <1>1, <1>2, <2>1, <2>2 DEF ShownWillBeRecorded
<1>3. ASSUME SameText PROVE Same
  BY <1>1, <1>3 DEF SameText
<1>4. ASSUME NobodyMoves, Same, overlapped \subseteq overlapped' PROVE Will(i)
  BY <1>1, <1>2, <1>4 DEF NobodyMoves
<1>5. ASSUME NEW a \in Actors, NEW c, ActorMoves(a, c), Same, overlapped \subseteq overlapped',
             Does(a).at \notin {"count", "insert"} \/ Does(a).on # i
      PROVE  Will(i)
  BY <1>1, <1>2, <1>5 DEF ActorMoves, Covers
<1>6. CASE Rests
  BY <1>3, <1>4, <1>6 DEF Rests
<1>7. ASSUME NEW a \in Actors, NEW c \in OpsTo(ingested),
             StartsOnRow(a, c) \/ StartsRetry(a, c) \/ StartsOnWord(a, c)
      PROVE  Will(i)
  <2>1. StartsOn(a, c)
    BY <1>7 DEF StartsOnRow, StartsRetry, StartsOnWord
  <2>2. Does(a).at = "idle"
    BY <2>1 DEF StartsOn, Idle
  <2>3. ActorMoves(a, c) /\ Same /\ overlapped \subseteq overlapped'
    BY <1>3, <2>1 DEF StartsOn
  <2> QED
    BY <1>5, <2>2, <2>3
<1>8. ASSUME NEW a \in Actors, NEW c \in OpsTo(ingested), Prepares(a, c) PROVE Will(i)
  <2>1. ActorMoves(a, c) /\ Same /\ overlapped' = overlapped
    BY <1>3, <1>8 DEF Prepares, GoesOn
  <2>2. CASE Does(a).at # "count" \/ Does(a).on # i
    BY <1>5, <1>8, <2>1, <2>2 DEF Prepares
  <2>3. CASE Does(a).at = "count" /\ Does(a).on = i /\ ~Covers(Does(a), i, rows[i])
    <3>1. \A b \in Actors : Covers(Does(b), i, rows[i]) => Does(b)' = Does(b)
      BY <2>1, <2>3 DEF ActorMoves
    <3> QED
      BY <1>1, <1>2, <2>1, <3>1
  <2>4. CASE Does(a).at = "count" /\ Covers(Does(a), i, rows[i])
    <3>1. c = Counted(i, rows[i].active)
      BY <1>8, <2>4 DEF Prepares, Covers
    <3>2. c.on = i /\ c.text = rows[i].active /\ c.at = "insert" /\ c.index = Len(rows[i].revs)
          /\ c.known = Contains(rows[i].revs, rows[i].active)
      BY <3>1 DEF Counted
    <3>3. CASE Contains(rows[i].revs, rows[i].active)
      BY <2>1, <3>3
    <3>4. CASE ~Contains(rows[i].revs, rows[i].active)
      <4>1. Covers(c, i, rows'[i])
        BY <2>1, <3>2, <3>4 DEF Covers
      <4> QED
        BY <2>1, <4>1 DEF ActorMoves
    <3> QED
      BY <3>3, <3>4
  <2> QED
    BY <2>2, <2>3, <2>4
<1>9. ASSUME NEW a \in Actors, NEW c \in OpsTo(ingested), Shows(a, c) PROVE Will(i)
  <2>1. ActorMoves(a, c) /\ overlapped' = overlapped /\ Does(a).at \in {"undo", "apply"}
    BY <1>9 DEF Shows, GoesOn
  <2>2. CASE Does(a).on = i
    <3>1. Covers(c, i, rows'[i])
      BY <1>9, <2>2 DEF Shows, Covers
    <3> QED
      BY <2>1, <3>1 DEF ActorMoves
  <2>3. CASE Does(a).on # i
    <3>1. rows'[i] = rows[i]
      BY <1>9, <2>3 DEF Shows, OthersSame
    <3> QED
      BY <1>1, <1>5, <2>1, <2>3, <3>1
  <2> QED
    BY <2>2, <2>3
<1>10. ASSUME NEW a \in Actors, NEW c \in OpsTo(ingested), Adds(a, c) PROVE Will(i)
  <2>1. ActorMoves(a, c) /\ overlapped' = overlapped /\ Does(a).at = "insert"
    BY <1>10 DEF Adds, GoesOn
  <2>2. CASE Does(a).on # i
    <3>1. rows'[i] = rows[i]
      BY <1>10, <2>2 DEF Adds, OthersSame
    <3> QED
      BY <1>1, <1>5, <2>1, <2>2, <3>1
  <2>3. CASE Does(a).on = i
    <3>1. PICK d \in OpsTo(ingested) : d = Does(a) /\ OpFits(d, rows)
      BY ActorsAre DEF OpsFit
    <3>2. rows[i] # NoRow
      BY <2>1, <2>3, <3>1 DEF OpFits
    <3>3. PICK q \in Seq(TextsTo(ingested)) : q = rows[i].revs
      BY <3>2, RowThere
    <3>4. /\ rows'[i].active = rows[i].active
          /\ rows'[i].revs = IF ~d.known /\ Len(q) = d.index THEN Append(q, d.text) ELSE q
      BY <1>10, <2>3, <3>1, <3>3 DEF Adds
    <3>5. CASE Contains(q, rows[i].active)
      BY <3>4, <3>5, AppendContains
    <3>6. ASSUME NEW b \in Actors, Covers(Does(b), i, rows[i]) PROVE Will(i)
      <4>1. b = a
        BY <1>1, <2>1, <2>3, <3>6 DEF Covers, OneAtATime
      <4>2. ~d.known /\ d.index = Len(q) /\ d.text = rows[i].active
        BY <2>1, <3>1, <3>3, <3>6, <4>1 DEF Covers
      <4> QED
        BY <3>4, <4>2, AppendContains
    <3> QED
      BY <1>1, <2>1, <3>2, <3>3, <3>5, <3>6 DEF ShownWillBeRecorded
  <2> QED
    BY <2>2, <2>3
<1>11. ASSUME NEW a \in Actors, ActorEnds(a) \/ WritesWord(a) PROVE Will(i)
  <2>1. ActorMoves(a, Idle) /\ Same /\ overlapped' = overlapped
    BY <1>3, <1>11 DEF ActorEnds, GoesOn, WritesWord, Writing
  <2>2. Does(a).at \notin {"count", "insert"}
    BY <1>11 DEF ActorEnds, WritesWord
  <2> QED
    BY <1>5, <2>1, <2>2
<1>12. ASSUME NEW w \in WordIds, CreatesWord(w) \/ DeletesWord(w) PROVE Will(i)
  BY <1>3, <1>4, <1>12 DEF CreatesWord, DeletesWord, Writing
<1>13. ASSUME NEW k \in HistoryIds, Ingests(k) PROVE Will(i)
  <2>1. NobodyMoves /\ overlapped \subseteq overlapped'
    BY <1>13 DEF Ingests
  <2>2. CASE rows'[i] = rows[i]
    BY <1>1, <1>4, <2>1, <2>2
  <2>3. CASE rows'[i] # rows[i]
    <3> DEFINE text == Text(ingested + 1, "coach")
    <3>1. /\ rows'[i].active = text
          /\ rows'[i].revs = IF rows[i] = NoRow THEN <<text>> ELSE Append(rows[i].revs, text)
      BY <1>13, <2>3 DEF Ingests, OthersSame
    <3> HIDE DEF text
    <3>2. CASE rows[i] = NoRow
      BY <3>1, <3>2 DEF Contains
    <3>3. CASE rows[i] # NoRow
      <4>1. PICK q \in Seq(TextsTo(ingested)) : q = rows[i].revs
        BY <3>3, RowThere
      <4> QED
        BY <3>1, <3>3, <4>1, AppendContains
    <3> QED
      BY <3>2, <3>3
  <2> QED
    BY <2>2, <2>3
<1>14. ASSUME Gone(committed) \/ Gone(onDisk) PROVE Will(i)
  BY <1>1, <1>14 DEF Gone, KeptIsWhole, IsWhole
<1> QED
  BY <1>6, <1>7, <1>8, <1>9, <1>10, <1>11, <1>12, <1>13, <1>14, StepKinds DEF AStep

\* The words are what was wanted, unless two requests on one overlapped.
LEMMA WordsNext ==
  HistoryIInv /\ [HistoryNext]_historyVars => UpdatesAreKept' /\ UpdatesFit'
<1> SUFFICES ASSUME HistoryIInv, [HistoryNext]_historyVars PROVE UpdatesAreKept' /\ UpdatesFit'
  OBVIOUS
<1> USE DEF HistoryIInv
<1>1. ASSUME WordsStay, NobodyMoves, overlapped \subseteq overlapped'
      PROVE  UpdatesAreKept' /\ UpdatesFit'
  BY <1>1 DEF WordsStay, NobodyMoves, UpdatesAreKept, UpdatesFit, UpdateFits
<1>2. ASSUME NEW a \in Actors, NEW c, ActorMoves(a, c), WordsStay,
        overlapped \subseteq overlapped',
             c.at = "update" /\ c.on \notin overlapped' => UpdateFits(c, words[c.on],
               wanted[c.on])
      PROVE  UpdatesAreKept' /\ UpdatesFit'
  <2>1. UpdatesAreKept'
    BY <1>2 DEF WordsStay, UpdatesAreKept
  <2>2. UpdatesFit'
    <3> SUFFICES ASSUME NEW b \in Actors, Does(b)'.at = "update", Does(b)'.on \notin overlapped'
        PROVE  UpdateFits(Does(b)', words[Does(b)'.on], wanted[Does(b)'.on])
      BY <1>2 DEF UpdatesFit, UpdateFits, WordsStay
    <3>1. CASE b = a
      BY <1>2, <3>1 DEF ActorMoves
    <3>2. CASE b # a
      <4>1. Does(b)' = Does(b)
        BY <1>2, <3>2 DEF ActorMoves
      <4> QED
        BY <1>2, <4>1 DEF UpdatesFit
    <3> QED
      BY <3>1, <3>2
  <2> QED
    BY <2>1, <2>2
<1>3. CASE Rests
  BY <1>1, <1>3 DEF Rests
<1>4. ASSUME NEW a \in Actors, NEW c \in OpsTo(ingested),
             \/ StartsOnRow(a, c) \/ StartsRetry(a, c) \/ Prepares(a, c) \/ Shows(a, c)
             \/ Adds(a, c)
      PROVE  UpdatesAreKept' /\ UpdatesFit'
  <2>1. ActorMoves(a, c) /\ WordsStay /\ overlapped \subseteq overlapped'
    BY <1>4 DEF StartsOnRow, StartsRetry, StartsOn, Prepares, Shows, Adds, GoesOn
  <2>2. c.at # "update"
    BY <1>4 DEF StartsOnRow, StartsRetry, Prepares, Shows, Adds, Counted, Idle
  <2> QED
    BY <1>2, <2>1, <2>2
<1>5. ASSUME NEW a \in Actors, NEW c \in OpsTo(ingested), StartsOnWord(a, c)
      PROVE  UpdatesAreKept' /\ UpdatesFit'
  <2>1. ActorMoves(a, c) /\ WordsStay /\ overlapped \subseteq overlapped'
    BY <1>5 DEF StartsOnWord, StartsOn
  <2>2. c.on \notin overlapped' => words[c.on] = wanted[c.on]
    BY <1>5, <2>1 DEF StartsOnWord, UpdatesAreKept
  <2>3. c.on \notin overlapped' => UpdateFits(c, words[c.on], wanted[c.on])
    BY <1>5, <2>2 DEF StartsOnWord, UpdateFits
  <2> QED
    BY <1>2, <2>1, <2>3
<1>6. ASSUME NEW a \in Actors, ActorEnds(a) PROVE UpdatesAreKept' /\ UpdatesFit'
  BY <1>2, <1>6 DEF ActorEnds, GoesOn, Idle
<1>7. ASSUME NEW a \in Actors, WritesWord(a) PROVE UpdatesAreKept' /\ UpdatesFit'
  <2>1. PICK d \in OpsTo(ingested) : d = Does(a)
    BY ActorsAre
  <2>2. /\ ActorMoves(a, Idle) /\ overlapped' = overlapped /\ d.at = "update" /\ d.on \in WordIds
        /\ words[d.on] = NoRow => WordsStay
        /\ words[d.on] # NoRow =>
             /\ words' = [words EXCEPT ![d.on] = d.row]
             /\ wanted' = [wanted EXCEPT ![d.on] =
                             [wanted[d.on] EXCEPT ![d.field] = d.row[d.field]]]
    BY <1>7, <2>1, OpKinds DEF WritesWord
  <2>3. CASE words[d.on] = NoRow
    BY <1>2, <2>2, <2>3 DEF Idle
  <2>4. CASE words[d.on] # NoRow
    <3>1. words \in WordTables /\ wanted \in WordTables
      BY DEF HistFits, HistWordsFit
    <3>2. /\ words'[d.on] = d.row
          /\ wanted'[d.on] = [wanted[d.on] EXCEPT ![d.field] = d.row[d.field]]
          /\ \A w \in WordIds \ {d.on} : words'[w] = words[w] /\ wanted'[w] = wanted[w]
      BY <2>2, <2>4, <3>1 DEF WordTables
    <3>3. UpdatesAreKept'
      <4>1. d.on \notin overlapped => words'[d.on] = wanted'[d.on]
        BY <2>1, <2>2, <3>2 DEF UpdatesFit, UpdateFits
      <4> QED
        BY <2>2, <3>2, <4>1 DEF UpdatesAreKept
    <3>4. UpdatesFit'
      <4> SUFFICES ASSUME NEW b \in Actors, Does(b)'.at = "update", Does(b)'.on \notin overlapped
          PROVE  UpdateFits(Does(b)', words'[Does(b)'.on], wanted'[Does(b)'.on])
        BY <2>2 DEF UpdatesFit, UpdateFits
      <4>1. b # a
        BY <2>2 DEF ActorMoves, Idle
      <4>2. Does(b)' = Does(b)
        BY <2>2, <4>1 DEF ActorMoves
      <4>3. Does(b).on # d.on
        BY <2>1, <2>2, <4>1, <4>2 DEF OneAtATime
      <4>4. Does(b).on \in WordIds
        BY <4>2, ActorsAre, OpKinds
      <4> QED
        BY <3>2, <4>2, <4>3, <4>4 DEF UpdatesFit
    <3> QED
      BY <3>3, <3>4
  <2> QED
    BY <2>3, <2>4
<1>8. ASSUME NEW w \in WordIds, CreatesWord(w) \/ DeletesWord(w)
      PROVE  UpdatesAreKept' /\ UpdatesFit'
  <2>1. words \in WordTables /\ wanted \in WordTables
    BY DEF HistFits, HistWordsFit
  <2>2. /\ words'[w] = wanted'[w] /\ NobodyMoves /\ overlapped \subseteq overlapped'
        /\ \A x \in WordIds \ {w} : words'[x] = words[x] /\ wanted'[x] = wanted[x]
        /\ words[w] = NoRow \/ \A b \in Actors : Does(b).on = w => w \in overlapped'
    BY <1>8, <2>1 DEF CreatesWord, DeletesWord, WordTables
  <2>3. UpdatesAreKept'
    BY <2>2 DEF UpdatesAreKept
  <2>4. UpdatesFit'
    <3> SUFFICES ASSUME NEW b \in Actors, Does(b)'.at = "update", Does(b)'.on \notin overlapped'
        PROVE  UpdateFits(Does(b)', words'[Does(b)'.on], wanted'[Does(b)'.on])
      BY DEF UpdatesFit, UpdateFits
    <3>1. Does(b)' = Does(b)
      BY <2>2 DEF NobodyMoves
    <3>2. Does(b).on \in WordIds /\ UpdateFits(Does(b), words[Does(b).on], wanted[Does(b).on])
      BY <2>2, <3>1, ActorsAre, OpKinds DEF UpdatesFit
    <3>3. Does(b).on # w
      BY <2>2, <3>1, <3>2 DEF UpdateFits
    <3> QED
      BY <2>2, <3>1, <3>2, <3>3
  <2> QED
    BY <2>3, <2>4
<1>9. ASSUME NEW i \in HistoryIds, Ingests(i) PROVE UpdatesAreKept' /\ UpdatesFit'
  BY <1>1, <1>9 DEF Ingests
<1>10. ASSUME NEW left, Gone(left) PROVE UpdatesAreKept' /\ UpdatesFit'
  BY <1>10 DEF Gone, UpdatesAreKept, UpdatesFit, Actors, Does, Idle
<1> QED
  BY <1>3, <1>4, <1>5, <1>6, <1>7, <1>8, <1>9, <1>10, StepKinds DEF AStep

\* What is committed stays whole: an ingest is committed when nothing else is under way.
LEMMA KeptIsWholeNext == HistoryIInv /\ [HistoryNext]_historyVars => KeptIsWhole'
<1> SUFFICES ASSUME HistoryIInv, [HistoryNext]_historyVars PROVE KeptIsWhole'
  OBVIOUS
<1> USE DEF HistoryIInv
<1>1. ASSUME KeptStays PROVE KeptIsWhole'
  BY <1>1 DEF KeptStays, KeptIsWhole, IsWhole
<1>2. ASSUME NEW i \in HistoryIds, Ingests(i) PROVE KeptIsWhole'
  <2>1. CASE KeptStays
    BY <1>1, <2>1
  <2>2. CASE ~KeptStays
    <3> DEFINE text == Text(ingested + 1, "coach")
    <3>1. /\ rows'[i].active = text
          /\ rows'[i].revs = IF rows[i] = NoRow THEN <<text>> ELSE Append(rows[i].revs, text)
          /\ rows'[i] # NoRow /\ \A j \in HistoryIds \ {i} : rows'[j] = rows[j]
          /\ rows = committed.rows /\ committed'.rows = rows' /\ onDisk' \in {onDisk, committed'}
      BY <1>2, <2>2 DEF Ingests, OthersSame
    <3> HIDE DEF text
    <3>2. RevisionsDiffer'
      BY RevisionsDifferNext
    <3>3. Contains(rows'[i].revs, rows'[i].active)
      <4>1. CASE rows[i] = NoRow
        BY <3>1, <4>1 DEF Contains
      <4>2. CASE rows[i] # NoRow
        <5>1. PICK q \in Seq(TextsTo(ingested)) : q = rows[i].revs
          BY <4>2, RowThere
        <5> QED
          BY <3>1, <4>2, <5>1, AppendContains
      <4> QED
        BY <4>1, <4>2
    <3>4. IsWhole(rows')
      <4> SUFFICES ASSUME NEW j \in HistoryIds, rows'[j] # NoRow
          PROVE  IsInjective(rows'[j].revs) /\ Contains(rows'[j].revs, rows'[j].active)
        BY DEF IsWhole
      <4>1. IsInjective(rows'[j].revs)
        BY <3>2 DEF RevisionsDiffer
      <4>2. CASE j = i
        BY <3>3, <4>1, <4>2
      <4>3. CASE j # i
        <5>1. rows'[j] = committed.rows[j]
          BY <3>1, <4>3
        <5> QED
          BY <4>1, <5>1 DEF KeptIsWhole, IsWhole
      <4> QED
        BY <4>2, <4>3
    <3> QED
      BY <3>1, <3>4 DEF KeptIsWhole, IsWhole
  <2> QED
    BY <2>1, <2>2
<1>3. ASSUME Gone(committed) \/ Gone(onDisk) PROVE KeptIsWhole'
  BY <1>3 DEF Gone, KeptIsWhole, IsWhole
<1> QED
  BY ZenonT(60), <1>1, <1>2, <1>3, StepKinds
     DEF AStep, Rests, StartsOnRow, StartsRetry, StartsOnWord, StartsOn, Prepares, Shows, Adds,
         ActorEnds, GoesOn, WritesWord, CreatesWord, DeletesWord, Writing, RowsWritten

\* The initial state satisfies the invariant.
LEMMA HistoryInitInv == HistoryInit => HistoryIInv
<1> SUFFICES ASSUME HistoryInit PROVE HistoryIInv
  OBVIOUS
<1> USE HistoryAssumption DEF HistoryInit
<1>1. NoData.rows \in TablesTo(0) /\ NoData.words \in WordTables /\ NoData \in DataTo(0)
  BY DEF NoData, TablesTo, WordTables, DataTo
<1>2. \A i \in HistoryIds : rows[i] = NoRow /\ NoData.rows[i] = NoRow
  BY DEF NoData
<1>3. Idle \in OpsTo(0) /\ Idle.at = "idle"
  BY DEF OpsTo, Idle
<1>4. HistFits
  <2> USE DEF HistFits
  <2>1. HistCountsFit
    BY <1>1, <1>3, EmptySeq DEF HistoryInit, HistCountsFit
  <2>2. HistRowsFit
    BY <1>1, <1>3, EmptySeq DEF HistoryInit, HistRowsFit
  <2>3. HistWordsFit
    BY <1>1, <1>3, EmptySeq DEF HistoryInit, HistWordsFit
  <2>4. HistKeptFits
    BY <1>1, <1>3, EmptySeq DEF HistoryInit, HistKeptFits
  <2>5. HistServingFits
    BY <1>1, <1>3, EmptySeq DEF HistoryInit, HistServingFits
  <2>6. HistRetryingFits
    BY <1>1, <1>3, EmptySeq DEF HistoryInit, HistRetryingFits
  <2>7. HistSetsFit
    BY <1>1, <1>3, EmptySeq DEF HistoryInit, HistSetsFit
  <2> QED
    BY <2>1, <2>2, <2>3, <2>4, <2>5, <2>6, <2>7 DEF HistCountsFit, HistRowsFit, HistWordsFit,
       HistKeptFits, HistServingFits, HistRetryingFits, HistSetsFit
<1>5. \A a \in Actors : Does(a) = Idle
  BY DEF Actors, Does
<1>6. OpsFit /\ OneAtATime /\ UpdatesFit
  BY <1>3, <1>5 DEF OpsFit, OpFits, OneAtATime, UpdatesFit
<1>7. QueueFits
  BY EmptySeq DEF QueueFits
<1>8. RevisionsDiffer /\ ShownWillBeRecorded /\ UpdatesAreKept
  BY <1>2 DEF RevisionsDiffer, ShownWillBeRecorded, UpdatesAreKept
<1>9. KeptIsWhole
  BY <1>2 DEF KeptIsWhole, IsWhole
<1> QED
  BY <1>4, <1>6, <1>7, <1>8, <1>9 DEF HistoryIInv

\* The invariant says what the history promises.
LEMMA HistoryIsInv == HistoryIInv => HistoryInv
<1> SUFFICES ASSUME HistoryIInv PROVE HistoryInv
  OBVIOUS
<1> USE HistoryAssumption DEF HistoryIInv
<1>1. ingested \in 0 .. NIngests
  BY DEF HistFits, HistCountsFit
<1>2. TextsTo(ingested) \subseteq Texts
  BY <1>1 DEF TextsTo, Texts
<1>3. ASSUME NEW i \in HistoryIds, rows[i] # NoRow
      PROVE  /\ rows[i].raw \in 1 .. NIngests /\ rows[i].active \in Texts
             /\ rows[i].retry \in {"idle", "queued", "running", "completed", "failed"}
             /\ rows[i].tries \in Nat /\ rows[i].deleted \in BOOLEAN
             /\ rows[i].revs \in Seq(Texts)
  <2>1. rows[i] \in RowsTo(ingested)
    BY <1>3, RowThere
  <2>2. /\ rows[i].raw \in 1 .. NIngests /\ rows[i].active \in Texts
        /\ rows[i].retry \in {"idle", "queued", "running", "completed", "failed"}
        /\ rows[i].tries \in Nat /\ rows[i].deleted \in BOOLEAN
    BY <1>1, <1>2, <2>1 DEF RowsTo, RetryStates
  <2>3. PICK q \in Seq(TextsTo(ingested)) : q = rows[i].revs
    BY <1>3, RowThere
  <2>4. q \in Seq(Texts)
    BY <1>2
  <2> QED
    BY <2>2, <2>3, <2>4
<1>4. \A w \in WordIds : words[w] # NoRow => words[w] \in [text : Nat, on : BOOLEAN]
  BY DEF HistFits, HistWordsFit, WordTables, WordRows
<1>5. HistoryTypeOK
  BY <1>3, <1>4 DEF HistoryTypeOK, HistFits, HistCountsFit, HistKeptFits, HistSetsFit
<1>6. ShownIsRecorded
  <2> SUFFICES ASSUME NEW i \in HistoryIds, rows[i] # NoRow, i \notin overlapped, ~Busy(i)
      PROVE  Contains(rows[i].revs, rows[i].active)
    BY DEF ShownIsRecorded
  <2>1. \A a \in Actors : ~Covers(Does(a), i, rows[i])
    BY BusyIs DEF Covers
  <2> QED
    BY <2>1 DEF ShownWillBeRecorded
<1> QED
  BY <1>5, <1>6 DEF HistoryInv

\* The rows of a session and of the words say what was asked for.
LEMMA HistoryIsKept == HistoryInit /\ [][HistoryNext]_historyVars => []HistoryInv
<1>1. HistoryIInv /\ [HistoryNext]_historyVars => HistoryIInv'
  BY HistFitsNext, OpsFitNext, QueueFitsNext, OneAtATimeNext, RevisionsDifferNext, ShownNext,
     WordsNext, KeptIsWholeNext DEF HistoryIInv
<1> QED
  BY HistoryInitInv, HistoryIsInv, <1>1, PTL

-----------------------------------------------------------------------------
(* Beside the other components *)

\* What the composition does to the capture, the capture does.
LEMMA CapturesSteps == Spec => CaptureInit /\ [][CaptureNext]_captureVars
<1>1. Init => CaptureInit
  BY DEF Init
<1>2. [Next]_vars => [CaptureNext]_captureVars
  BY DEF Next, Alone, vars
<1> QED
  BY <1>1, <1>2, PTL DEF Spec

\* What the composition does to the database, its threads do.
LEMMA HistorysSteps == Spec => HistoryInit /\ [][HistoryNext]_historyVars
<1>1. Init => HistoryInit
  BY DEF Init
<1>2. [Next]_vars => [HistoryNext]_historyVars
  BY DEF Next, Alone, vars
<1> QED
  BY <1>1, <1>2, PTL DEF Spec

\* A recording has the audio read from a device (capture.py) in order and whole but for what is
\* counted as dropped or lost; and the text that the history (history_db.py) shows is among its
\* revisions, none twice, and updates are kept, unless two work on the same row.
THEOREM WhatWasSaidIsKept == Spec => []KeepingInv
<1>1. Spec => []HistoryInv
  BY HistorysSteps, HistoryIsKept, PTL
<1>2. Spec => []CaptureInv
  BY CapturesSteps, CaptureIsSafe, PTL
<1>3. HistoryInv /\ CaptureInv => KeepingInv
  BY DEF KeepingInv
<1> QED
  BY <1>1, <1>2, <1>3, PTL
===========================================================================
