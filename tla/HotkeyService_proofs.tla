----------------------- MODULE HotkeyService_proofs ------------------------
(***************************************************************************)
(* Theorems about HotkeyService, for any number of start and stop          *)
(* requests, chunks, queue slots and faults: the sessions and the          *)
(* requests; the transcript of a session, what the transcriber thread may  *)
(* still do after a stop and what the final text may miss; and that the    *)
(* service implements the abstract specification Dictation.                *)
(***************************************************************************)
EXTENDS HotkeyService, FiniteSetTheorems, SequenceTheorems, TLAPS

-----------------------------------------------------------------------------
(* Type correctness *)

\* What the types of a step need of the control state: a thread past the queue
\* holds a chunk, and a request that awaits a session has one.
Handed ==
  /\ \A s \in Starts :
       wpc[s] \in {"decode", "append", "aggregate", "compose", "publish"}
         => hand[s] \in Chunks
  /\ \A p \in Stops : stopPc[p] = "await" => stopOf[p] \in Starts

Typed == TypeOK /\ Handed

\* The segments of a session can be counted.
LEMMA ListedCount ==
  ASSUME TypeOK, NEW s \in Starts
  PROVE  Cardinality(Listed(s)) \in Nat
<1>1. IsFiniteSet(Chunks)
  BY HotkeyAssumption, FS_Interval DEF Chunks
<1>2. Listed(s) \in SUBSET Chunks
  BY DEF Listed, WithFate
<1> QED
  BY <1>1, <1>2, FS_Subset, FS_CardinalityType

\* Offering a chunk to the transcriber only changes the fate of chunks.
LEMMA OfferType ==
  ASSUME NEW s, NEW f \in [Chunks -> Fates]
  PROVE  Offer(s, f) \subseteq [Chunks -> Fates]
<1> DEFINE unheard == WithFate(f, "unheard")
<1>1. \A c \in First(unheard), v \in {"dropped", "queued"} :
        [f EXCEPT ![c] = v] \in [Chunks -> Fates]
  BY DEF First, WithFate, Fates
<1> QED
  BY <1>1 DEF Offer

\* A response put together from typed fields is typed.
LEMMA ResponseType ==
  ASSUME TypeOK, NEW s \in Starts
  PROVE  ResponseOf(s) \in Response
<1>1. LiveText(s, draft[s].text) \in SUBSET Chunks
  BY DEF TypeOK, LiveText, Draft
<1>2. draft[s].text \in SUBSET Chunks /\ comp[s] \in SUBSET Chunks
  BY DEF TypeOK, Draft
<1>3. resp[s] \in Response \cup {None}
  BY DEF TypeOK
<1> QED
  BY <1>1, <1>2, <1>3 DEF ResponseOf, Response

\* The lock queue stays a sequence of tasks.
LEMMA QueueType ==
  ASSUME lockQ \in Seq(Task), NEW t \in Task
  PROVE  /\ Append(lockQ, t) \in Seq(Task)
         /\ Holds(t) => Tail(lockQ) \in Seq(Task)
BY AppendProperties, HeadTailProperties DEF Holds

LEMMA TypedInit == Init => Typed
BY HotkeyAssumption, EmptySeq
   DEF Init, Typed, TypeOK, Handed, Modes, Fates, Draft, NoText, Response, Chunks

LEMMA TypedStart ==
  ASSUME Typed, NEW s \in Starts, StartStep(s)
  PROVE  Typed'
<1> USE DEF Typed, Handed
<1>0. <<"start", s>> \in Task
  BY DEF Task
<1>1. CASE StartCall(s)
  BY <1>0, <1>1, QueueType DEF StartCall, TypeOK, textVars, finVars
<1>2. CASE RestartStops(s)
  <2>1. current \in Starts
    BY <1>2 DEF RestartStops, Active
  <2> QED
    BY <1>2, <2>1 DEF RestartStops, BeginStop, TypeOK, textVars
<1>3. CASE StartCreate(s)
  BY <1>0, <1>3, QueueType DEF StartCreate, MayCreate, Release, TypeOK, finVars
<1>4. CASE StartFail(s)
  BY SMTT(60), <1>0, <1>4, QueueType DEF StartFail, MayCreate, Fault, Release, TypeOK, textVars, finVars
<1> QED
  BY <1>1, <1>2, <1>3, <1>4 DEF StartStep

LEMMA TypedStop ==
  ASSUME Typed, NEW p \in Stops, StopStep(p)
  PROVE  Typed'
<1> USE DEF Typed, Handed
<1>0. <<"stop", p>> \in Task
  BY DEF Task
<1>1. CASE StopCall(p)
  BY SMTT(60), <1>0, <1>1, QueueType DEF StopCall, TypeOK, textVars, finVars
<1>2. CASE StopNothing(p)
  BY SMTT(60), <1>0, <1>2, QueueType
     DEF StopNothing, StopHolds, Release, TypeOK, Response, textVars, finVars
<1>3. CASE StopJoins(p)
  BY <1>0, <1>3, QueueType DEF StopJoins, StopHolds, Release, TypeOK, textVars, finVars
<1>4. CASE StopBegins(p)
  <2>1. current \in Starts
    BY <1>4 DEF StopBegins, Active
  <2> QED
    BY <1>0, <1>4, <2>1, QueueType
       DEF StopBegins, StopHolds, BeginStop, Release, TypeOK, textVars
<1>5. CASE StopReturns(p)
  <2>1. ResponseOf(stopOf[p]) \in Response
    BY <1>5, ResponseType DEF StopReturns
  <2> QED
    BY SMTT(60), <1>5, <2>1 DEF StopReturns, TypeOK, svcVars, textVars, finVars
<1> QED
  BY <1>1, <1>2, <1>3, <1>4, <1>5 DEF StopStep

LEMMA TypedLoop ==
  ASSUME Typed, NEW s \in Starts, LoopStep(s)
  PROVE  Typed'
<1> USE DEF Typed, Handed
<1>0. fate[s] \in [Chunks -> Fates]
  BY DEF TypeOK
<1>1. CASE LoopStart(s)
  BY <1>1 DEF LoopStart, TypeOK, reqVars, svcVars, textVars, finVars
<1>2. CASE LoopFatal(s)
  BY SMTT(60), <1>2 DEF LoopFatal, Fault, TypeOK, reqVars, svcVars, textVars, finVars
<1>3. CASE LoopRead(s)
  <2>1. PICK f \in [Chunks -> Fates] : fate' = [fate EXCEPT ![s] = f]
    BY <1>0, <1>3, OfferType DEF LoopRead
  <2> QED
    BY <1>3, <2>1 DEF LoopRead, TypeOK, reqVars, svcVars, finVars
<1>4. CASE LoopExit(s)
  <2>1. UNION {Offer(s, f) : f \in Offer(s, fate[s])} \subseteq [Chunks -> Fates]
    BY <1>0, OfferType
  <2>2. PICK f \in [Chunks -> Fates] : fate' = [fate EXCEPT ![s] = f]
    BY <1>0, <1>4, <2>1, OfferType DEF LoopExit
  <2> QED
    BY <1>4, <2>2 DEF LoopExit, TypeOK, reqVars, svcVars, finVars
<1> QED
  BY <1>1, <1>2, <1>3, <1>4 DEF LoopStep

LEMMA TypedWorker ==
  ASSUME Typed, NEW s \in Starts, WorkerStep(s)
  PROVE  Typed'
<1> USE DEF Typed, Handed, TypeOK, workerRest, reqVars, svcVars, finVars
<1>1. CASE WorkerLoad(s)
  BY SMTT(60), <1>1 DEF WorkerLoad
<1>2. CASE WorkerDies(s)
  BY SMTT(60), <1>2 DEF WorkerDies, Fault
<1>3. CASE WorkerCheck(s)
  BY SMTT(60), <1>3 DEF WorkerCheck
<1>4. CASE WorkerTakes(s)
  <2>1. PICK c \in Chunks : /\ hand' = [hand EXCEPT ![s] = c]
                            /\ fate' = [fate EXCEPT ![s][c] = "decoding"]
    BY <1>4 DEF WorkerTakes, First, Queued, WithFate
  <2>2. c \in 0 .. MaxChunks
    BY HotkeyAssumption DEF Chunks
  <2> QED
    BY SMTT(60), <1>4, <2>1, <2>2 DEF WorkerTakes, Fates
<1>5. CASE WorkerFindsNone(s)
  BY SMTT(60), <1>5 DEF WorkerFindsNone
<1>6. CASE WorkerEmpty(s)
  BY SMTT(60), <1>6 DEF WorkerEmpty, Fates
<1>7. CASE WorkerHears(s)
  BY <1>7 DEF WorkerHears, Fates
<1>8. CASE WorkerAppends(s)
  BY SMTT(60), <1>8 DEF WorkerAppends, Fates
<1>9. CASE WorkerAggregates(s)
  BY SMTT(60), <1>9 DEF WorkerAggregates
<1>10. CASE WorkerAggregateFails(s)
  BY SMTT(60), <1>10 DEF WorkerAggregateFails, Fault
<1>11. CASE WorkerComposes(s)
  BY SMTT(60), <1>11 DEF WorkerComposes
<1>12. CASE WorkerPublishes(s)
  BY SMTT(60), <1>12 DEF WorkerPublishes
<1> QED
  BY <1>1, <1>2, <1>3, <1>4, <1>5, <1>6, <1>7, <1>8, <1>9, <1>10, <1>11, <1>12
     DEF WorkerStep

LEMMA TypedFin ==
  ASSUME Typed, NEW s \in Starts, FinStep(s)
  PROVE  Typed'
<1> USE DEF Typed, Handed, finRest, reqVars
<1>0. Cardinality(Listed(s)) \in Nat
  BY ListedCount
<1>1. CASE FinLoopEnded(s)
  BY <1>0, <1>1 DEF FinLoopEnded, StartDrain, TypeOK
<1>2. CASE FinLoopTimeout(s)
  BY SMTT(60), <1>0, <1>2 DEF FinLoopTimeout, StartDrain, TypeOK
<1>3. CASE FinPoll(s)
  BY SMTT(60), <1>0, <1>3 DEF FinPoll, TypeOK
<1>4. CASE FinSettles(s)
  BY <1>4 DEF FinSettles, TypeOK
<1>5. CASE FinDrainTimeout(s)
  BY <1>5 DEF FinDrainTimeout, TypeOK
<1>6. CASE FinCompose(s)
  <2>1. RawText(s) \in SUBSET Chunks /\ agg[s] \in SUBSET Chunks
    BY DEF RawText, Listed, WithFate, TypeOK
  <2>2. draft' \in [Starts -> Draft] /\ comp' \in [Starts -> SUBSET Chunks]
    <3>0. draft \in [Starts -> Draft] /\ comp \in [Starts -> SUBSET Chunks]
      BY DEF TypeOK
    <3>1. NoText \in Draft
      BY DEF NoText, Draft
    <3>2. [text |-> IF agg[s] # {} THEN agg[s] ELSE RawText(s), raw |-> RawText(s)]
            \in Draft
      BY <2>1 DEF Draft
    <3> QED
      BY <1>6, <2>1, <3>0, <3>1, <3>2 DEF FinCompose
  <2> QED
    BY <1>6, <2>2 DEF FinCompose, TypeOK
<1>7. CASE FinRespond(s)
  <2>1. draft[s].text \in SUBSET Chunks /\ draft[s].raw \in SUBSET Chunks
    BY DEF TypeOK, Draft
  <2>2. LiveText(s, draft[s].text) \in SUBSET Chunks
    BY <2>1 DEF LiveText, TypeOK
  <2>3. resp' \in [Starts -> Response \cup {None}]
    BY <1>7, <2>1, <2>2 DEF FinRespond, TypeOK, Response
  <2> QED
    BY <1>7, <2>3 DEF FinRespond, TypeOK
<1>8. CASE FinFail(s)
  BY SMTT(60), <1>8 DEF FinFail, Fault, TypeOK
<1>9. CASE FinStopWorker(s)
  BY <1>9 DEF FinStopWorker, TypeOK
<1>10. CASE FinJoined(s)
  <2>1. Append(lockQ, <<"fin", s>>) \in Seq(Task)
    BY QueueType DEF TypeOK, Task
  <2> QED
    BY <1>10, <2>1 DEF FinJoined, TypeOK
<1>11. CASE FinUnregister(s)
  <2>1. Tail(lockQ) \in Seq(Task)
    BY <1>11, QueueType DEF FinUnregister, TypeOK, Task
  <2> QED
    BY <1>11, <2>1 DEF FinUnregister, Release, TypeOK, textVars
<1> QED
  BY <1>1, <1>2, <1>3, <1>4, <1>5, <1>6, <1>7, <1>8, <1>9, <1>10, <1>11 DEF FinStep

LEMMA TypedNext == Typed /\ [Next]_vars => Typed'
<1> SUFFICES ASSUME Typed, [Next]_vars PROVE Typed'
  OBVIOUS
<1>1. ASSUME NEW s \in Starts, StartStep(s) \/ LoopStep(s) \/ WorkerStep(s) \/ FinStep(s)
      PROVE  Typed'
  BY <1>1, TypedStart, TypedLoop, TypedWorker, TypedFin
<1>2. ASSUME NEW p \in Stops, StopStep(p) PROVE Typed'
  BY <1>2, TypedStop
<1>3. CASE UNCHANGED vars
  BY <1>3 DEF vars, reqVars, svcVars, textVars, finVars, Typed, Handed, TypeOK
<1> QED
  BY <1>1, <1>2, <1>3 DEF Next

LEMMA AlwaysTyped == Spec => []Typed
BY TypedInit, TypedNext, PTL DEF Spec

\* Every variable of the service keeps its type, in every behaviour.
THEOREM TypeCorrect == Spec => []TypeOK
<1>1. Spec => []Typed
  BY AlwaysTyped
<1>2. Typed => TypeOK
  BY DEF Typed
<1> QED
  BY <1>1, <1>2, PTL

-----------------------------------------------------------------------------
(* The life of a session.  OneRecording is not inductive: creating a session *)
(* preserves it only because no start request ever gets past the finalize    *)
(* task it awaits, and that holds because the request keeps the lock.        *)

\* A session exists only once its start request has created it.
Fresh == \A s \in Starts : startPc[s] # "done" =>
           st[s] \in {"none", "error"} /\ finPc[s] = "none" /\ loopPc[s] = "none"

\* A session has a finalize task exactly when it was told to stop.
Stopped == \A s \in Starts : st[s] = "stopping" <=> finPc[s] # "none"

\* A start request that awaits a finalize task holds the lock, and the task is
\* that of the registered session, which has not ended.
Stuck == \A s \in Starts : startPc[s] = "join" =>
           /\ Holds(<<"start", s>>)
           /\ awaits[s] \in Starts /\ awaits[s] = current
           /\ st[current] = "stopping" /\ finPc[current] # "done"

Life == Fresh /\ Stopped /\ Stuck /\ OneRecording /\ CurrentIsOpen /\ NoOrphanCapture

\* A task that joins the lock queue does not take the lock from its holder.
LEMMA HolderStays ==
  ASSUME lockQ \in Seq(Task), NEW t \in Task, lockQ' = Append(lockQ, t), NEW u, Holds(u)
  PROVE  Holds(u)'
<1>1. Append(lockQ, t) # <<>> /\ Head(Append(lockQ, t)) = Head(lockQ)
  BY AppendProperties, HeadTailAppend DEF Holds
<1> QED
  BY <1>1 DEF Holds

\* Only one task holds the lock.
LEMMA OneHolder ==
  ASSUME NEW t, NEW u, Holds(t), Holds(u)
  PROVE  t = u
BY DEF Holds

LEMMA LifeInit == Init => Life
BY HotkeyAssumption
   DEF Init, Life, Fresh, Stopped, Stuck, OneRecording, CurrentIsOpen, NoOrphanCapture

lifeVars == <<lockQ, current, st, startPc, awaits, finPc, loopPc>>

LEMMA LifeFrame ==
  ASSUME Life, UNCHANGED lifeVars
  PROVE  Life'
BY DEF Life, lifeVars, Fresh, Stopped, Stuck, Holds, OneRecording, CurrentIsOpen,
       NoOrphanCapture

LEMMA LifeEnqueue ==
  ASSUME Typed, Life, NEW t \in Task, lockQ' = Append(lockQ, t),
         UNCHANGED <<current, st, awaits, loopPc>>,
         \A s \in Starts : startPc'[s] = startPc[s]
                           \/ (startPc[s] = "idle" /\ startPc'[s] = "lock"),
         \A s \in Starts : finPc'[s] = finPc[s]
                           \/ (finPc[s] = "join" /\ finPc'[s] = "lock")
  PROVE  Life'
<1>1. \A u : Holds(u) => Holds(u)'
  BY HolderStays DEF Typed, TypeOK
<1>2. Fresh' /\ Stopped' /\ OneRecording'
  BY DEF Life, Fresh, Stopped, OneRecording
<1>3. Stuck'
  BY <1>1 DEF Life, Stuck
<1>4. CurrentIsOpen' /\ NoOrphanCapture'
  BY DEF Life, CurrentIsOpen, NoOrphanCapture, Typed, TypeOK
<1> QED
  BY <1>2, <1>3, <1>4 DEF Life

\* The holder of the lock, other than a start request that is stuck, releases it.
LEMMA NobodyStuck ==
  ASSUME Life, NEW t, Holds(t), \A s \in Starts : t = <<"start", s>> => startPc[s] # "join"
  PROVE  \A s \in Starts : startPc[s] # "join"
BY OneHolder DEF Life, Stuck

LEMMA LifeBeginStop ==
  ASSUME Typed, Life, Active, NEW mode, BeginStop(current, mode),
         UNCHANGED <<current, loopPc>>,
         \/ /\ \A s \in Starts : startPc[s] # "join"
            /\ UNCHANGED <<startPc, awaits>>
         \/ \E s \in Starts :
              /\ startPc[s] = "lock" /\ Holds(<<"start", s>>)
              /\ startPc' = [startPc EXCEPT ![s] = "join"]
              /\ awaits' = [awaits EXCEPT ![s] = current]
              /\ UNCHANGED lockQ
  PROVE  Life'
<1> DEFINE c == current
<1>0. c \in Starts /\ st[c] = "recording" /\ startPc[c] = "done" /\ finPc[c] = "none"
  BY ZenonT(60) DEF Active, Life, Fresh, Stopped, Typed, TypeOK
<1>1. /\ st' = [st EXCEPT ![c] = "stopping"]
      /\ finPc' = [finPc EXCEPT ![c] = "wait"]
      /\ current' = c /\ loopPc' = loopPc
  BY DEF BeginStop
<1>2. \A s \in Starts : startPc[s] # "join"
  BY <1>0, NobodyStuck DEF Life, Stuck
<1>3. \A s \in Starts : startPc[s] = "done" <=> startPc'[s] = "done"
  BY ZenonT(60) DEF Typed, TypeOK
<1>4. Fresh' /\ Stopped'
  BY <1>0, <1>1, <1>3 DEF Life, Fresh, Stopped, Typed, TypeOK
<1>5. Stuck'
  BY SMTT(60), <1>0, <1>1, <1>2 DEF Stuck, Holds, Typed, TypeOK
<1>6. OneRecording' /\ CurrentIsOpen' /\ NoOrphanCapture'
  BY <1>0, <1>1 DEF Life, OneRecording, CurrentIsOpen, NoOrphanCapture, Typed, TypeOK
<1> QED
  BY <1>4, <1>5, <1>6 DEF Life

LEMMA LifeStart ==
  ASSUME Typed, Life, NEW s \in Starts, StartStep(s)
  PROVE  Life'
<1>1. CASE StartCall(s)
  <2>1. <<"start", s>> \in Task
    BY DEF Task
  <2>2. \A t \in Starts : startPc'[t] = startPc[t]
                          \/ (startPc[t] = "idle" /\ startPc'[t] = "lock")
    BY <1>1 DEF StartCall, Typed, TypeOK
  <2> QED
    BY <1>1, <2>1, <2>2, LifeEnqueue DEF StartCall, finVars
<1>2. CASE RestartStops(s)
  BY <1>2, LifeBeginStop DEF RestartStops
<1>3. ASSUME MayCreate(s)
      PROVE  /\ \A t \in Starts : startPc[t] # "join"
             /\ \A t \in Starts : st[t] # "recording"
             /\ st[s] \in {"none", "error"} /\ finPc[s] = "none"
  <2>1. startPc[s] # "join"
    BY <1>3 DEF MayCreate, Life, Stuck
  <2>2. \A t \in Starts : startPc[t] # "join"
    BY <1>3, <2>1, NobodyStuck DEF MayCreate
  <2> QED
    BY <1>3, <2>1, <2>2 DEF MayCreate, Active, Life, OneRecording, Fresh
<1>4. CASE StartCreate(s)
  <2>1. /\ st' = [st EXCEPT ![s] = "recording"] /\ current' = s
        /\ loopPc' = [loopPc EXCEPT ![s] = "created"]
        /\ startPc' = [startPc EXCEPT ![s] = "done"] /\ finPc' = finPc
    BY <1>4 DEF StartCreate, finVars
  <2>2. MayCreate(s)
    BY <1>4 DEF StartCreate
  <2> QED
    BY <1>3, <2>1, <2>2
       DEF Life, Fresh, Stopped, Stuck, OneRecording, CurrentIsOpen, NoOrphanCapture,
           Typed, TypeOK
<1>5. CASE StartFail(s)
  <2>1. /\ st' = [st EXCEPT ![s] = "error"] /\ current' = current /\ loopPc' = loopPc
        /\ startPc' = [startPc EXCEPT ![s] = "failed"] /\ finPc' = finPc
    BY <1>5 DEF StartFail, finVars
  <2>2. MayCreate(s)
    BY <1>5 DEF StartFail
  <2>3. startPc[s] # "done"
    BY <2>2 DEF MayCreate
  <2> QED
    BY <1>3, <2>1, <2>2, <2>3
       DEF Life, Fresh, Stopped, Stuck, OneRecording, CurrentIsOpen, NoOrphanCapture,
           Typed, TypeOK
<1> QED
  BY <1>1, <1>2, <1>4, <1>5 DEF StartStep

LEMMA LifeStop ==
  ASSUME Typed, Life, NEW p \in Stops, StopStep(p)
  PROVE  Life'
<1>1. CASE StopCall(p)
  <2>1. <<"stop", p>> \in Task
    BY DEF Task
  <2> QED
    BY <1>1, <2>1, LifeEnqueue DEF StopCall, finVars
<1>2. ASSUME StopHolds(p) PROVE \A s \in Starts : startPc[s] # "join"
  BY <1>2, NobodyStuck DEF StopHolds
<1>3. CASE StopNothing(p) \/ StopJoins(p)
  <2>1. /\ UNCHANGED <<current, st, startPc, awaits, finPc, loopPc>>
        /\ StopHolds(p)
    BY <1>3 DEF StopNothing, StopJoins, finVars
  <2> QED
    BY <1>2, <2>1
       DEF Life, Fresh, Stopped, Stuck, OneRecording, CurrentIsOpen, NoOrphanCapture
<1>4. CASE StopBegins(p)
  BY <1>2, <1>4, LifeBeginStop DEF StopBegins
<1>5. CASE StopReturns(p)
  BY <1>5, LifeFrame DEF StopReturns, lifeVars, svcVars, finVars
<1> QED
  BY <1>1, <1>3, <1>4, <1>5 DEF StopStep

LEMMA LifeLoop ==
  ASSUME Typed, Life, NEW s \in Starts, LoopStep(s)
  PROVE  Life'
<1>1. CASE LoopRead(s)
  BY <1>1, LifeFrame DEF LoopRead, lifeVars, reqVars, svcVars, finVars
<1>2. CASE LoopStart(s) \/ LoopFatal(s) \/ LoopExit(s)
  <2>1. /\ UNCHANGED <<lockQ, current, st, startPc, awaits, finPc>>
        /\ loopPc[s] \in {"created", "reading"}
        /\ loopPc' = [loopPc EXCEPT ![s] = "done"]
           \/ loopPc' = [loopPc EXCEPT ![s] = "reading"]
    BY <1>2 DEF LoopStart, LoopFatal, LoopExit, reqVars, svcVars, finVars
  <2> QED
    BY <2>1 DEF Life, Fresh, Stopped, Stuck, Holds, OneRecording, CurrentIsOpen,
                NoOrphanCapture, Typed, TypeOK
<1> QED
  BY <1>1, <1>2 DEF LoopStep

LEMMA LifeWorker ==
  ASSUME Life, NEW s \in Starts, WorkerStep(s)
  PROVE  Life'
<1>1. UNCHANGED lifeVars
  BY DEF WorkerStep, WorkerLoad, WorkerDies, WorkerCheck, WorkerTakes, WorkerFindsNone,
         WorkerEmpty, WorkerHears, WorkerAppends, WorkerAggregates, WorkerAggregateFails,
         WorkerComposes, WorkerPublishes, workerRest, lifeVars, reqVars, svcVars, finVars
<1> QED
  BY <1>1, LifeFrame

LEMMA LifeFin ==
  ASSUME Typed, Life, NEW s \in Starts, FinStep(s)
  PROVE  Life'
<1> USE DEF finRest, reqVars
<1>1. CASE FinPoll(s)
  BY <1>1, LifeFrame DEF FinPoll, lifeVars
<1>2. CASE FinJoined(s)
  <2>1. <<"fin", s>> \in Task
    BY DEF Task
  <2>2. \A t \in Starts : finPc'[t] = finPc[t]
                          \/ (finPc[t] = "join" /\ finPc'[t] = "lock")
    BY <1>2 DEF FinJoined, Typed, TypeOK
  <2> QED
    BY <1>2, <2>1, <2>2, LifeEnqueue DEF FinJoined
<1>3. CASE FinUnregister(s)
  <2>1. \A t \in Starts : startPc[t] # "join"
    BY <1>3, NobodyStuck DEF FinUnregister
  <2>2. /\ current' = IF current = s THEN None ELSE current
        /\ finPc' = [finPc EXCEPT ![s] = "done"] /\ finPc[s] = "lock"
        /\ UNCHANGED <<st, startPc, awaits, loopPc>>
    BY <1>3 DEF FinUnregister, textVars
  <2> QED
    BY <2>1, <2>2, HotkeyAssumption
       DEF Life, Fresh, Stopped, Stuck, OneRecording, CurrentIsOpen, NoOrphanCapture,
           Typed, TypeOK
<1>4. CASE FinLoopEnded(s) \/ FinLoopTimeout(s)
  <2>1. /\ finPc[s] = "wait" /\ finPc' = [finPc EXCEPT ![s] = "drain"]
        /\ UNCHANGED <<lockQ, current, st, startPc, awaits>>
        /\ \/ loopPc[s] = "done" /\ loopPc' = loopPc
           \/ loopPc' = [loopPc EXCEPT ![s] = "done"]
    BY <1>4 DEF FinLoopEnded, FinLoopTimeout, StartDrain
  <2> QED
    BY SMTT(60), <2>1 DEF Life, Fresh, Stopped, Stuck, Holds, OneRecording, CurrentIsOpen,
                NoOrphanCapture, Typed, TypeOK
<1>5. CASE \/ FinSettles(s) \/ FinDrainTimeout(s) \/ FinCompose(s) \/ FinRespond(s)
           \/ FinFail(s) \/ FinStopWorker(s)
  <2>1. PICK pc \in {"compose", "polish", "cleanup", "join"} :
          /\ finPc[s] \in {"drain", "compose", "polish", "cleanup"}
          /\ finPc' = [finPc EXCEPT ![s] = pc]
          /\ UNCHANGED <<lockQ, current, st, startPc, awaits, loopPc>>
    BY <1>5 DEF FinSettles, FinDrainTimeout, FinCompose, FinRespond, FinFail, FinStopWorker
  <2> QED
    BY <2>1 DEF Life, Fresh, Stopped, Stuck, Holds, OneRecording, CurrentIsOpen,
                NoOrphanCapture, Typed, TypeOK
<1> QED
  BY <1>1, <1>2, <1>3, <1>4, <1>5 DEF FinStep

LEMMA LifeNext == Typed /\ Life /\ [Next]_vars => Life'
<1> SUFFICES ASSUME Typed, Life, [Next]_vars PROVE Life'
  OBVIOUS
<1>1. ASSUME NEW s \in Starts, StartStep(s) \/ LoopStep(s) \/ WorkerStep(s) \/ FinStep(s)
      PROVE  Life'
  BY <1>1, LifeStart, LifeLoop, LifeWorker, LifeFin
<1>2. ASSUME NEW p \in Stops, StopStep(p) PROVE Life'
  BY <1>2, LifeStop
<1>3. CASE UNCHANGED vars
  BY <1>3, LifeFrame DEF vars, reqVars, svcVars, finVars, lifeVars
<1> QED
  BY <1>1, <1>2, <1>3 DEF Next

LEMMA AlwaysLife == Spec => [](Typed /\ Life)
BY TypedInit, TypedNext, LifeInit, LifeNext, PTL DEF Spec

\* Whatever start and stop requests overlap, only the registered session records.
THEOREM OnlyOneRecords == Spec => []OneRecording
<1>1. Life => OneRecording
  BY DEF Life
<1> QED
  BY <1>1, AlwaysLife, PTL

\* A registered session records, or a finalize task will unregister it: the branch
\* of stop_session for a session that is neither is dead code.
THEOREM RegisteredIsOpen == Spec => []CurrentIsOpen
<1>1. Life => CurrentIsOpen
  BY DEF Life
<1> QED
  BY <1>1, AlwaysLife, PTL

\* No microphone stays open without a session that records or a finalize task that
\* is yet to close it.
THEOREM NoMicrophoneLeaks == Spec => []NoOrphanCapture
<1>1. Life => NoOrphanCapture
  BY DEF Life
<1> QED
  BY <1>1, AlwaysLife, PTL

\* Who records, who is registered and whose microphone is open agree.
THEOREM RecordingsAreHeld == Spec => []RecordingInv
<1>1. TypeOK /\ OneRecording /\ CurrentIsOpen /\ NoOrphanCapture => RecordingInv
  BY DEF RecordingInv
<1> QED
  BY <1>1, TypeCorrect, OnlyOneRecords, RegisteredIsOpen, NoMicrophoneLeaks, PTL

\* A start request that finds a session recording never returns.
THEOREM RestartDeadlock == Spec => RestartNeverReturns
<1>1. Typed /\ Life /\ [Next]_vars =>
        [\A s \in Starts : startPc[s] = "join" => startPc'[s] = "join"]_vars
  <2> SUFFICES ASSUME Typed, Life, Next, NEW s \in Starts, startPc[s] = "join"
               PROVE  startPc'[s] = "join"
    OBVIOUS
  <2>1. Holds(<<"start", s>>) /\ finPc[awaits[s]] # "done"
    BY DEF Life, Stuck
  <2>2. ASSUME NEW t \in Starts, StartStep(t) PROVE startPc'[s] = "join"
    <3>1. ~MayCreate(t)
      BY <2>1, OneHolder DEF MayCreate
    <3> QED
      BY <2>2, <3>1 DEF StartStep, StartCall, RestartStops, StartCreate, StartFail,
                        Typed, TypeOK
  <2>3. ASSUME NEW t \in Starts, LoopStep(t) \/ WorkerStep(t) PROVE startPc'[s] = "join"
    BY <2>3 DEF LoopStep, LoopStart, LoopFatal, LoopRead, LoopExit, WorkerStep,
                WorkerLoad, WorkerDies, WorkerCheck, WorkerTakes, WorkerFindsNone,
                WorkerEmpty, WorkerHears, WorkerAppends, WorkerAggregates,
                WorkerAggregateFails, WorkerComposes, WorkerPublishes, workerRest, reqVars
  <2>4. ASSUME NEW t \in Starts, FinStep(t) PROVE startPc'[s] = "join"
    BY <2>4 DEF FinStep, FinLoopEnded, FinLoopTimeout, FinPoll, FinSettles,
                FinDrainTimeout, FinCompose, FinRespond, FinFail, FinStopWorker,
                FinJoined, FinUnregister, finRest, reqVars
  <2>5. ASSUME NEW p \in Stops, StopStep(p) PROVE startPc'[s] = "join"
    BY <2>5 DEF StopStep, StopCall, StopNothing, StopJoins, StopBegins, StopReturns
  <2> QED
    BY <2>2, <2>3, <2>4, <2>5 DEF Next
<1> QED
  BY <1>1, AlwaysLife, PTL DEF Spec, RestartNeverReturns

-----------------------------------------------------------------------------
(* What callers are told *)

\* A response is stored only when the finalize task has put it together, a draft
\* is made only when it composes, and a request that was answered was answered
\* with a session whose finalize task had ended.
Stored == \A s \in Starts : resp[s] # None => finPc[s] \in {"cleanup", "join", "lock", "done"}
Undrafted == \A s \in Starts :
               finPc[s] \in {"none", "wait", "drain", "compose"} => draft[s] = NoText
Discarded == \A s \in Starts : cancel[s] =>
               /\ draft[s].text = {}
               /\ resp[s] # None => resp[s].text = {} /\ resp[s].live = {}
Given == \A p \in Stops :
           /\ stopPc[p] \in {"idle", "lock"} => stopOf[p] = None
           /\ stopPc[p] = "done" /\ stopOf[p] # None =>
                stopOf[p] \in Starts /\ finPc[stopOf[p]] = "done"

Answers == Stored /\ Undrafted /\ Discarded /\ Given /\ CancelDiscardsText

ansVars == <<cancel, stopPc, stopOf, told, finPc, draft, resp>>

LEMMA AnswersInit == Init => Answers
BY DEF Init, Answers, Stored, Undrafted, Discarded, Given, CancelDiscardsText, NoText

LEMMA AnswersFrame ==
  ASSUME Answers, UNCHANGED ansVars
  PROVE  Answers'
BY DEF Answers, ansVars, Stored, Undrafted, Discarded, Given, CancelDiscardsText

\* Stopping the registered session finds it with no draft, no response and nobody
\* answered with it yet.
LEMMA AnswersBeginStop ==
  ASSUME Typed, Life, Answers, Active, NEW mode, BeginStop(current, mode),
         UNCHANGED <<told, draft, resp>>,
         \/ UNCHANGED <<stopPc, stopOf>>
         \/ \E p \in Stops : /\ stopPc[p] = "lock"
                             /\ stopPc' = [stopPc EXCEPT ![p] = "await"]
                             /\ stopOf' = [stopOf EXCEPT ![p] = current]
  PROVE  Answers'
<1> DEFINE c == current
<1>0. c \in Starts /\ finPc[c] = "none" /\ draft[c] = NoText /\ resp[c] = None
  BY DEF Active, Life, Stopped, Answers, Stored, Undrafted
<1>1. /\ cancel' = [cancel EXCEPT ![c] = (mode = "cancel")]
      /\ finPc' = [finPc EXCEPT ![c] = "wait"]
  BY DEF BeginStop
<1>2. Stored' /\ Undrafted'
  BY <1>0, <1>1 DEF Answers, Stored, Undrafted, Typed, TypeOK
<1>3. Discarded'
  BY <1>0, <1>1 DEF Answers, Discarded, Typed, TypeOK, NoText
<1>4. \A p \in Stops : stopPc'[p] = "done" /\ stopOf'[p] # None =>
        /\ stopPc[p] = "done" /\ stopOf[p] # None /\ stopOf'[p] = stopOf[p]
        /\ stopOf[p] \in Starts /\ stopOf[p] # c
        /\ finPc'[stopOf[p]] = "done" /\ cancel'[stopOf[p]] = cancel[stopOf[p]]
  BY <1>0, <1>1 DEF Answers, Given, Typed, TypeOK
<1>5. Given'
  BY <1>4 DEF Answers, Given, Typed, TypeOK
<1>6. CancelDiscardsText'
  BY <1>4 DEF Answers, CancelDiscardsText
<1> QED
  BY <1>2, <1>3, <1>5, <1>6 DEF Answers

LEMMA AnswersStart ==
  ASSUME Typed, Life, Answers, NEW s \in Starts, StartStep(s)
  PROVE  Answers'
<1>1. CASE RestartStops(s)
  BY <1>1, AnswersBeginStop DEF RestartStops
<1>2. CASE StartCall(s) \/ StartCreate(s) \/ StartFail(s)
  BY <1>2, AnswersFrame DEF StartCall, StartCreate, StartFail, ansVars, finVars
<1> QED
  BY <1>1, <1>2 DEF StartStep

\* The response of a cancelled session has no text, stored or put together.
LEMMA DiscardedResponse ==
  ASSUME Answers, NEW s \in Starts, cancel[s]
  PROVE  ResponseOf(s).text = {} /\ ResponseOf(s).live = {}
BY DEF Answers, Discarded, ResponseOf, LiveText

LEMMA AnswersStop ==
  ASSUME Typed, Life, Answers, NEW p \in Stops, StopStep(p)
  PROVE  Answers'
<1>1. CASE StopBegins(p)
  BY <1>1, AnswersBeginStop DEF StopBegins, StopHolds
<1>2. CASE StopCall(p) \/ StopNothing(p) \/ StopJoins(p)
  <2>1. /\ UNCHANGED <<cancel, finPc, draft, resp>>
        /\ stopPc[p] \in {"idle", "lock"} /\ stopOf[p] = None
    BY <1>2 DEF StopCall, StopNothing, StopJoins, StopHolds, finVars, Answers, Given
  <2>2. PICK pc \in {"lock", "done", "await"} :
          /\ stopPc' = [stopPc EXCEPT ![p] = pc]
          /\ pc # "await" => stopOf' = stopOf
          /\ \A q \in Stops : q # p => told'[q] = told[q] /\ stopOf'[q] = stopOf[q]
    <3>1. CASE StopCall(p)
      BY <3>1 DEF StopCall
    <3>2. CASE StopNothing(p)
      BY <3>2 DEF StopNothing, Typed, TypeOK
    <3>3. CASE StopJoins(p)
      BY <3>3 DEF StopJoins, Typed, TypeOK
    <3> QED
      BY <1>2, <3>1, <3>2, <3>3
  <2>3. Stored' /\ Undrafted' /\ Discarded'
    BY <2>1 DEF Answers, Stored, Undrafted, Discarded
  <2>4. Given' /\ CancelDiscardsText'
    BY <2>1, <2>2 DEF Answers, Given, CancelDiscardsText, Typed, TypeOK
  <2> QED
    BY <2>3, <2>4 DEF Answers
<1>3. CASE StopReturns(p)
  <2>1. /\ UNCHANGED <<cancel, finPc, draft, resp, stopOf>>
        /\ stopPc[p] = "await" /\ finPc[stopOf[p]] = "done" /\ stopOf[p] \in Starts
        /\ told' = [told EXCEPT ![p] = ResponseOf(stopOf[p])]
        /\ stopPc' = [stopPc EXCEPT ![p] = "done"]
    BY <1>3 DEF StopReturns, svcVars, finVars, Typed, Handed
  <2>2. Stored' /\ Undrafted' /\ Discarded'
    BY <2>1 DEF Answers, Stored, Undrafted, Discarded
  <2>3. Given'
    BY <2>1 DEF Answers, Given, Typed, TypeOK
  <2>4. CancelDiscardsText'
    BY SMTT(60), <2>1, DiscardedResponse DEF Answers, CancelDiscardsText, Typed, TypeOK
  <2> QED
    BY <2>2, <2>3, <2>4 DEF Answers
<1> QED
  BY <1>1, <1>2, <1>3 DEF StopStep

LEMMA AnswersLoopWorker ==
  ASSUME Answers, NEW s \in Starts, LoopStep(s) \/ WorkerStep(s)
  PROVE  Answers'
<1>1. UNCHANGED ansVars
  BY DEF LoopStep, LoopStart, LoopFatal, LoopRead, LoopExit, WorkerStep, WorkerLoad,
         WorkerDies, WorkerCheck, WorkerTakes, WorkerFindsNone, WorkerEmpty, WorkerHears,
         WorkerAppends, WorkerAggregates, WorkerAggregateFails, WorkerComposes,
         WorkerPublishes, workerRest, ansVars, reqVars, svcVars, finVars
<1> QED
  BY <1>1, AnswersFrame

LEMMA AnswersFin ==
  ASSUME Typed, Life, Answers, NEW s \in Starts, FinStep(s)
  PROVE  Answers'
<1> USE DEF finRest, reqVars
<1>0. \A p \in Stops : stopOf[p] \in Starts /\ finPc[stopOf[p]] = "done"
                         => stopOf[p] # s \/ finPc[s] = "done"
  OBVIOUS
<1>1. CASE FinPoll(s)
  BY <1>1, AnswersFrame DEF FinPoll, ansVars
<1>2. CASE \/ FinLoopEnded(s) \/ FinLoopTimeout(s) \/ FinSettles(s) \/ FinDrainTimeout(s)
           \/ FinFail(s) \/ FinStopWorker(s) \/ FinJoined(s) \/ FinUnregister(s)
  <2>1. PICK pc \in {"drain", "compose", "cleanup", "join", "lock", "done"} :
          /\ finPc' = [finPc EXCEPT ![s] = pc]
          /\ finPc[s] # "done"
          /\ pc \in {"drain", "compose"} => finPc[s] \in {"wait", "drain"}
          /\ UNCHANGED <<cancel, stopPc, stopOf, told, draft, resp>>
    BY <1>2 DEF FinLoopEnded, FinLoopTimeout, StartDrain, FinSettles, FinDrainTimeout,
                FinFail, FinStopWorker, FinJoined, FinUnregister
  <2> QED
    BY <2>1 DEF Answers, Stored, Undrafted, Discarded, Given, CancelDiscardsText,
                Typed, TypeOK
<1>3. CASE FinCompose(s)
  <2>1. /\ finPc[s] = "compose" /\ finPc' = [finPc EXCEPT ![s] = "polish"]
        /\ UNCHANGED <<cancel, stopPc, stopOf, told, resp>>
        /\ \A t \in Starts : t # s => draft'[t] = draft[t]
        /\ cancel[s] => draft'[s].text = {}
    BY <1>3 DEF FinCompose, Typed, TypeOK, NoText
  <2>2. Discarded'
    BY <2>1 DEF Answers, Stored, Discarded
  <2>3. Stored' /\ Undrafted' /\ Given' /\ CancelDiscardsText'
    BY <2>1 DEF Answers, Stored, Undrafted, Given, CancelDiscardsText, Typed, TypeOK
  <2> QED
    BY <2>2, <2>3 DEF Answers
<1>4. CASE FinRespond(s)
  <2>1. /\ finPc[s] = "polish" /\ finPc' = [finPc EXCEPT ![s] = "cleanup"]
        /\ UNCHANGED <<cancel, stopPc, stopOf, told, draft>>
        /\ \A t \in Starts : t # s => resp'[t] = resp[t]
        /\ cancel[s] => resp'[s].text = draft[s].text /\ resp'[s].live = {}
    BY <1>4 DEF FinRespond, LiveText, Typed, TypeOK
  <2>2. Discarded'
    BY <2>1 DEF Answers, Discarded
  <2>3. Stored' /\ Undrafted' /\ Given' /\ CancelDiscardsText'
    BY <2>1 DEF Answers, Stored, Undrafted, Given, CancelDiscardsText, Typed, TypeOK
  <2> QED
    BY <2>2, <2>3 DEF Answers
<1> QED
  BY <1>1, <1>2, <1>3, <1>4 DEF FinStep

LEMMA AnswersNext == Typed /\ Life /\ Answers /\ [Next]_vars => Answers'
<1> SUFFICES ASSUME Typed, Life, Answers, [Next]_vars PROVE Answers'
  OBVIOUS
<1>1. ASSUME NEW s \in Starts, StartStep(s) \/ LoopStep(s) \/ WorkerStep(s) \/ FinStep(s)
      PROVE  Answers'
  BY <1>1, AnswersStart, AnswersLoopWorker, AnswersFin
<1>2. ASSUME NEW p \in Stops, StopStep(p) PROVE Answers'
  BY <1>2, AnswersStop
<1>3. CASE UNCHANGED vars
  BY <1>3, AnswersFrame DEF vars, reqVars, svcVars, finVars, ansVars
<1> QED
  BY <1>1, <1>2, <1>3 DEF Next

LEMMA AlwaysAnswers == Spec => [](Typed /\ Life /\ Answers)
BY AlwaysLife, AnswersInit, AnswersNext, PTL DEF Spec

\* Nobody is ever given the text of a cancelled session.
THEOREM CancelDiscards == Spec => []CancelDiscardsText
<1>1. Answers => CancelDiscardsText
  BY DEF Answers
<1> QED
  BY <1>1, AlwaysAnswers, PTL

\* A stored response is never replaced.
THEOREM AnsweredOnce == Spec => AnswerOnce
<1>1. Typed /\ Answers /\ [Next]_vars =>
        [\A s \in Starts : resp[s] # None => resp'[s] = resp[s]]_vars
  <2> SUFFICES ASSUME Typed, Answers, Next, NEW s \in Starts, resp[s] # None
               PROVE  resp'[s] = resp[s]
    OBVIOUS
  <2>1. finPc[s] # "polish"
    BY DEF Answers, Stored
  <2>2. ASSUME NEW t \in Starts, FinStep(t) PROVE resp'[s] = resp[s]
    BY <2>1, <2>2 DEF FinStep, FinLoopEnded, FinLoopTimeout, FinPoll, FinSettles,
                FinDrainTimeout, FinCompose, FinRespond, FinFail, FinStopWorker,
                FinJoined, FinUnregister, Typed, TypeOK
  <2>3. ASSUME NEW t \in Starts, StartStep(t) \/ LoopStep(t) \/ WorkerStep(t)
        PROVE  resp'[s] = resp[s]
    BY <2>3 DEF StartStep, StartCall, RestartStops, StartCreate, StartFail, LoopStep,
                LoopStart, LoopFatal, LoopRead, LoopExit, WorkerStep, WorkerLoad,
                WorkerDies, WorkerCheck, WorkerTakes, WorkerFindsNone, WorkerEmpty,
                WorkerHears, WorkerAppends, WorkerAggregates, WorkerAggregateFails,
                WorkerComposes, WorkerPublishes, workerRest, finVars
  <2>4. ASSUME NEW p \in Stops, StopStep(p) PROVE resp'[s] = resp[s]
    BY <2>4 DEF StopStep, StopCall, StopNothing, StopJoins, StopBegins, StopReturns, finVars
  <2> QED
    BY <2>2, <2>3, <2>4 DEF Next
<1> QED
  BY <1>1, AlwaysAnswers, PTL DEF Spec, AnswerOnce

-----------------------------------------------------------------------------
(* What clients see *)

quietVars == <<current, finPc, status>>

LEMMA QuietNext == Typed /\ Life /\ QuietMeansIdle /\ [Next]_vars => QuietMeansIdle'
<1> SUFFICES ASSUME Typed, Life, QuietMeansIdle, [Next]_vars PROVE QuietMeansIdle'
  OBVIOUS
<1>0. ASSUME NEW s \in Starts, finPc'[s] \notin {"none", "done"} PROVE QuietMeansIdle'
  BY <1>0 DEF QuietMeansIdle
<1>1. ASSUME UNCHANGED quietVars PROVE QuietMeansIdle'
  BY <1>1 DEF QuietMeansIdle, quietVars
<1>2. ASSUME Active, NEW mode, BeginStop(current, mode) PROVE QuietMeansIdle'
  <2>1. current \in Starts /\ finPc'[current] = "wait"
    BY <1>2 DEF Active, BeginStop, Typed, TypeOK
  <2> QED
    BY <1>0, <2>1
<1>3. ASSUME NEW s \in Starts, StartStep(s) PROVE QuietMeansIdle'
  <2>1. CASE RestartStops(s)
    BY <1>2, <2>1 DEF RestartStops
  <2>2. CASE StartCreate(s)
    BY <2>2, HotkeyAssumption DEF StartCreate, QuietMeansIdle
  <2>3. CASE StartCall(s) \/ StartFail(s)
    BY <1>1, <2>3 DEF StartCall, StartFail, quietVars, finVars
  <2> QED
    BY <1>3, <2>1, <2>2, <2>3 DEF StartStep
<1>4. ASSUME NEW p \in Stops, StopStep(p) PROVE QuietMeansIdle'
  <2>1. CASE StopBegins(p)
    BY <1>2, <2>1 DEF StopBegins
  <2>2. CASE StopCall(p) \/ StopNothing(p) \/ StopJoins(p) \/ StopReturns(p)
    BY <1>1, <2>2 DEF StopCall, StopNothing, StopJoins, StopReturns, quietVars, svcVars, finVars
  <2> QED
    BY <1>4, <2>1, <2>2 DEF StopStep
<1>5. ASSUME NEW s \in Starts, LoopStep(s) \/ WorkerStep(s) PROVE QuietMeansIdle'
  <2>1. UNCHANGED quietVars
    BY <1>5 DEF LoopStep, LoopStart, LoopFatal, LoopRead, LoopExit, WorkerStep,
                WorkerLoad, WorkerDies, WorkerCheck, WorkerTakes, WorkerFindsNone,
                WorkerEmpty, WorkerHears, WorkerAppends, WorkerAggregates,
                WorkerAggregateFails, WorkerComposes, WorkerPublishes, workerRest,
                quietVars, svcVars, finVars
  <2> QED
    BY <1>1, <2>1
<1>6. ASSUME NEW s \in Starts, FinStep(s) PROVE QuietMeansIdle'
  <2>1. CASE FinUnregister(s)
    BY <2>1 DEF FinUnregister, QuietMeansIdle
  <2>2. CASE FinPoll(s)
    BY <1>1, <2>2 DEF FinPoll, finRest, quietVars
  <2>3. ASSUME ~FinUnregister(s), ~FinPoll(s)
        PROVE  finPc'[s] \in {"drain", "compose", "polish", "cleanup", "join", "lock"}
    BY <1>6, <2>3 DEF FinStep, FinLoopEnded, FinLoopTimeout, StartDrain, FinSettles,
                FinDrainTimeout, FinCompose, FinRespond, FinFail, FinStopWorker, FinJoined,
                Typed, TypeOK
  <2> QED
    BY <1>0, <2>1, <2>2, <2>3
<1>7. CASE UNCHANGED vars
  BY <1>1, <1>7 DEF vars, svcVars, finVars, quietVars
<1> QED
  BY <1>3, <1>4, <1>5, <1>6, <1>7 DEF Next

\* When no session is registered or being finalized, clients were told so last.
THEOREM QuietIsIdle == Spec => []QuietMeansIdle
<1>1. Init => QuietMeansIdle
  BY DEF Init, QuietMeansIdle
<1> QED
  BY <1>1, QuietNext, AlwaysLife, PTL DEF Spec


-----------------------------------------------------------------------------
(* Late commits *)

\* A callback that is about to publish read suppress_stream_events before the stop,
\* so no other callback of the session has published late.
Punctual == \A s \in Starts :
  /\ late[s] \in {0, 1}
  /\ st[s] # "stopping" => late[s] = 0
  /\ wpc[s] = "publish" => late[s] = 0

lateVars == <<st, wpc, late>>

LEMMA PunctualStart ==
  ASSUME Typed, Life, Punctual, NEW s \in Starts, StartStep(s)
  PROVE  Punctual'
<1>1. CASE StartCall(s)
  BY <1>1 DEF StartCall, Punctual, textVars
<1>2. CASE RestartStops(s)
  BY <1>2 DEF RestartStops, BeginStop, Active, Punctual, textVars, Typed, TypeOK
<1>3. ASSUME MayCreate(s) PROVE st[s] # "stopping"
  BY <1>3 DEF MayCreate, Life, Fresh, Stuck
<1>4. CASE StartCreate(s) \/ StartFail(s)
  <2>1. /\ MayCreate(s) /\ late' = late
        /\ \A t \in Starts : t # s => st'[t] = st[t] /\ wpc'[t] = wpc[t]
        /\ wpc'[s] # "publish" \/ wpc'[s] = wpc[s]
    BY <1>4 DEF StartCreate, StartFail, textVars, Typed, TypeOK
  <2> QED
    BY <1>3, <2>1 DEF Punctual
<1> QED
  BY <1>1, <1>2, <1>4 DEF StartStep

LEMMA PunctualWorker ==
  ASSUME Typed, Punctual, NEW s \in Starts, WorkerStep(s)
  PROVE  Punctual'
<1> USE DEF Punctual, Typed, TypeOK, workerRest, svcVars
<1>1. CASE WorkerComposes(s)
  BY <1>1 DEF WorkerComposes
<1>2. CASE WorkerPublishes(s)
  BY <1>2 DEF WorkerPublishes
<1>3. CASE \/ WorkerLoad(s) \/ WorkerDies(s) \/ WorkerCheck(s) \/ WorkerTakes(s)
           \/ WorkerFindsNone(s) \/ WorkerEmpty(s) \/ WorkerHears(s) \/ WorkerAppends(s)
           \/ WorkerAggregates(s) \/ WorkerAggregateFails(s)
  <2>1. PICK pc \in {"check", "end", "get", "decode", "append", "aggregate", "compose"} :
          wpc' = [wpc EXCEPT ![s] = pc] /\ UNCHANGED <<st, late>>
    BY <1>3 DEF WorkerLoad, WorkerDies, WorkerCheck, WorkerTakes, WorkerFindsNone,
                WorkerEmpty, WorkerHears, WorkerAppends, WorkerAggregates,
                WorkerAggregateFails
  <2> QED
    BY <2>1
<1> QED
  BY <1>1, <1>2, <1>3 DEF WorkerStep

LEMMA PunctualNext == Typed /\ Life /\ Punctual /\ [Next]_vars => Punctual'
<1> SUFFICES ASSUME Typed, Life, Punctual, [Next]_vars PROVE Punctual'
  OBVIOUS
<1>1. ASSUME NEW s \in Starts, StartStep(s) PROVE Punctual'
  BY <1>1, PunctualStart
<1>2. ASSUME NEW s \in Starts, WorkerStep(s) PROVE Punctual'
  BY <1>2, PunctualWorker
<1>3. ASSUME NEW s \in Starts, LoopStep(s) \/ FinStep(s) PROVE Punctual'
  <2>1. UNCHANGED lateVars
    BY <1>3 DEF LoopStep, LoopStart, LoopFatal, LoopRead, LoopExit, FinStep, FinLoopEnded,
                FinLoopTimeout, FinPoll, FinSettles, FinDrainTimeout, FinCompose,
                FinRespond, FinFail, FinStopWorker, FinJoined, FinUnregister, finRest,
                svcVars, textVars, lateVars
  <2> QED
    BY <2>1 DEF Punctual, lateVars
<1>4. ASSUME NEW p \in Stops, StopStep(p) PROVE Punctual'
  <2>1. CASE StopBegins(p)
    BY <2>1 DEF StopBegins, BeginStop, Active, Punctual, textVars, Typed, TypeOK
  <2>2. CASE StopCall(p) \/ StopNothing(p) \/ StopJoins(p) \/ StopReturns(p)
    BY <2>2 DEF StopCall, StopNothing, StopJoins, StopReturns, Punctual, svcVars, textVars
  <2> QED
    BY <1>4, <2>1, <2>2 DEF StopStep
<1>5. CASE UNCHANGED vars
  BY <1>5 DEF vars, svcVars, textVars, Punctual
<1> QED
  BY <1>1, <1>2, <1>3, <1>4, <1>5 DEF Next

\* At most one committed segment is published after a stop was acknowledged.
THEOREM FewLateCommits == Spec => []LateCommitsBounded
<1>1. Init => Punctual
  BY DEF Init, Punctual
<1>2. Punctual => LateCommitsBounded
  BY DEF Punctual, LateCommitsBounded
<1> QED
  BY <1>1, <1>2, PunctualNext, AlwaysLife, PTL DEF Spec

-----------------------------------------------------------------------------
(* What a settled answer misses *)

\* The thread holds the only chunk being decoded, and a listed segment is in the
\* aggregator unless it is the one the thread is about to put there.
Held == \A s \in Starts :
  /\ \A c \in Chunks : fate[s][c] = "decoding" =>
       c = hand[s] /\ wpc[s] \in {"decode", "append", "end"}
  /\ ~aggErr[s] => \A c \in Chunks : fate[s][c] = "listed" =>
       c \in agg[s] \/ (c = hand[s] /\ wpc[s] = "aggregate")

\* Once the drain has settled nothing is queued any more, and from the time the text
\* is put together it misses at most the chunk in the thread's hand.
Drained == \A s \in Starts : settled[s] =>
  /\ finPc[s] \notin {"none", "wait", "drain"}
  /\ Queued(s) = {}
  /\ ~cancel[s] /\ ~aggErr[s] =>
       /\ finPc[s] = "polish" => Owed(s) \subseteq draft[s].text \cup {hand[s]}
       /\ resp[s] # None => Owed(s) \subseteq resp[s].text \cup {hand[s]}

\* A session that was not created has no thread and has heard nothing.
Unheard == \A s \in Starts : startPc[s] # "done" =>
             wpc[s] = "none" /\ \A c \in Chunks : fate[s][c] = "unheard"

Accounted == Unheard /\ Held /\ Drained

textFrame == <<startPc, cancel, fate, wpc, hand, agg, aggErr, finPc, settled, draft, resp>>

LEMMA AccountedInit == Init => Accounted
BY DEF Init, Accounted, Unheard, Held, Drained

LEMMA AccountedFrame ==
  ASSUME Accounted, UNCHANGED textFrame
  PROVE  Accounted'
BY DEF Accounted, textFrame, Unheard, Held, Drained, Queued, Owed, WithFate

\* Before a session is stopped its drain has not settled.
LEMMA AccountedBeginStop ==
  ASSUME Typed, Life, Accounted, Active, NEW mode, BeginStop(current, mode),
         UNCHANGED <<textVars, settled, draft, resp>>,
         \A s \in Starts : startPc'[s] # "done" => startPc[s] # "done"
  PROVE  Accounted'
<1> DEFINE c == current
<1>0. c \in Starts /\ finPc[c] = "none" /\ ~settled[c]
  BY DEF Active, Life, Stopped, Accounted, Drained
<1>1. /\ cancel' = [cancel EXCEPT ![c] = (mode = "cancel")]
      /\ finPc' = [finPc EXCEPT ![c] = "wait"]
  BY DEF BeginStop
<1>2. Unheard' /\ Held'
  BY DEF Accounted, Unheard, Held, textVars
<1>3. Drained'
  BY <1>0, <1>1 DEF Accounted, Drained, Queued, Owed, WithFate, textVars, Typed, TypeOK
<1> QED
  BY <1>2, <1>3 DEF Accounted

LEMMA AccountedStart ==
  ASSUME Typed, Life, Accounted, NEW s \in Starts, StartStep(s)
  PROVE  Accounted'
<1>1. CASE RestartStops(s)
  BY <1>1, AccountedBeginStop DEF RestartStops, Typed, TypeOK
<1>2. CASE StartCall(s) \/ StartFail(s)
  <2>1. /\ UNCHANGED <<textVars, finVars, cancel>>
        /\ \A t \in Starts : startPc'[t] # "done" => startPc[t] # "done"
    BY <1>2 DEF StartCall, StartFail, MayCreate, textVars, Typed, TypeOK
  <2> QED
    BY <2>1 DEF Accounted, Unheard, Held, Drained, Queued, Owed, WithFate, textVars, finVars
<1>3. CASE StartCreate(s)
  <2>1. /\ UNCHANGED <<fate, hand, agg, aggErr, finVars, cancel>>
        /\ wpc' = [wpc EXCEPT ![s] = "load"]
        /\ startPc[s] # "done" /\ startPc' = [startPc EXCEPT ![s] = "done"]
    BY <1>3 DEF StartCreate, MayCreate
  <2>2. Unheard' /\ Held'
    BY <2>1 DEF Accounted, Unheard, Held, Typed, TypeOK
  <2>3. Drained'
    BY <2>1 DEF Accounted, Drained, Queued, Owed, WithFate, finVars
  <2> QED
    BY <2>2, <2>3 DEF Accounted
<1> QED
  BY <1>1, <1>2, <1>3 DEF StartStep

LEMMA AccountedStop ==
  ASSUME Typed, Life, Accounted, NEW p \in Stops, StopStep(p)
  PROVE  Accounted'
<1>1. CASE StopBegins(p)
  BY <1>1, AccountedBeginStop DEF StopBegins
<1>2. CASE StopCall(p) \/ StopNothing(p) \/ StopJoins(p) \/ StopReturns(p)
  BY <1>2, AccountedFrame
     DEF StopCall, StopNothing, StopJoins, StopReturns, textFrame, svcVars, textVars, finVars
<1> QED
  BY <1>1, <1>2 DEF StopStep

\* Only an unheard chunk is offered: the fate of every other chunk stays.
LEMMA OfferKeeps ==
  ASSUME NEW s, NEW f \in [Chunks -> Fates], NEW g \in Offer(s, f)
  PROVE  /\ g \in [Chunks -> Fates]
         /\ \A c \in Chunks : \/ g[c] = f[c]
                              \/ f[c] = "unheard" /\ g[c] \in {"dropped", "queued"}
<1>1. g \in [Chunks -> Fates]
  BY OfferType
<1>2. CASE g = f
  BY <1>2
<1>3. CASE g # f
  <2>1. PICK c \in First(WithFate(f, "unheard")), v \in {"dropped", "queued"} :
          g = [f EXCEPT ![c] = v]
    BY <1>3 DEF Offer
  <2>2. c \in Chunks /\ f[c] = "unheard"
    BY <2>1 DEF First, WithFate
  <2> QED
    BY <1>1, <2>1, <2>2
<1> QED
  BY <1>2, <1>3

\* The audio loop feeds no session whose drain has settled.
LEMMA AccountedLoop ==
  ASSUME Typed, Life, Accounted, NEW s \in Starts, LoopStep(s)
  PROVE  Accounted'
<1>0. fate[s] \in [Chunks -> Fates] /\ fate \in [Starts -> [Chunks -> Fates]]
  BY DEF Typed, TypeOK
<1>1. CASE LoopStart(s) \/ LoopFatal(s)
  BY <1>1, AccountedFrame DEF LoopStart, LoopFatal, textFrame, reqVars, svcVars, textVars, finVars
<1>2. CASE LoopRead(s) \/ LoopExit(s)
  <2>1. loopPc[s] = "reading" /\ UNCHANGED <<reqVars, svcVars, wpc, hand, agg, aggErr, finVars>>
    BY <1>2 DEF LoopRead, LoopExit
  <2>2. startPc[s] = "done" /\ ~settled[s]
    BY <2>1 DEF Life, Fresh, Stopped, NoOrphanCapture, Accounted, Drained, OneRecording
  <2>3. PICK f \in [Chunks -> Fates] :
          /\ fate' = [fate EXCEPT ![s] = f]
          /\ \A c \in Chunks : f[c] \in {"decoding", "listed"} => f[c] = fate[s][c]
    <3> DEFINE Keeps(f) ==
                 /\ f \in [Chunks -> Fates]
                 /\ \A c \in Chunks : f[c] \in {"decoding", "listed"} => f[c] = fate[s][c]
    <3>0. /\ Keeps(fate[s])
          /\ \A f \in Offer(s, fate[s]) : Keeps(f)
          /\ \A f \in Offer(s, fate[s]) : \A g \in Offer(s, f) : Keeps(g)
      BY <1>0, OfferKeeps
    <3> HIDE DEF Keeps
    <3>1. ASSUME LoopRead(s) PROVE \E f : Keeps(f) /\ fate' = [fate EXCEPT ![s] = f]
      BY <3>0, <3>1 DEF LoopRead
    <3>2. ASSUME LoopExit(s) PROVE \E f : Keeps(f) /\ fate' = [fate EXCEPT ![s] = f]
      BY <3>0, <3>2 DEF LoopExit
    <3>3. PICK f : Keeps(f) /\ fate' = [fate EXCEPT ![s] = f]
      BY <1>2, <3>1, <3>2
    <3> QED
      BY <3>3 DEF Keeps
  <2>4. Unheard' /\ Held'
    BY <1>0, <2>1, <2>2, <2>3 DEF Accounted, Unheard, Held, reqVars
  <2>5. \A t \in Starts : settled[t] => Queued(t)' = Queued(t) /\ Owed(t)' = Owed(t)
    BY <1>0, <2>2, <2>3 DEF Queued, Owed, WithFate
  <2>6. Drained'
    BY <2>1, <2>5 DEF Accounted, Drained, svcVars, finVars
  <2> QED
    BY <2>4, <2>6 DEF Accounted
<1> QED
  BY <1>1, <1>2 DEF LoopStep

\* When the drain has settled the thread takes no more chunks, so what its session
\* is owed only shrinks, but for the chunk in its hand.
LEMMA AccountedWorker ==
  ASSUME Typed, Life, Accounted, NEW s \in Starts, WorkerStep(s)
  PROVE  Accounted'
<1> USE DEF workerRest, reqVars, svcVars, finVars
<1>0. /\ wpc[s] # "none" /\ startPc[s] = "done"
      /\ fate \in [Starts -> [Chunks -> Fates]] /\ hand \in [Starts -> 0 .. MaxChunks]
      /\ wpc[s] \in {"decode", "append", "aggregate", "compose", "publish"}
           => hand[s] \in Chunks
  BY DEF WorkerStep, WorkerLoad, WorkerDies, WorkerCheck, WorkerTakes, WorkerFindsNone,
         WorkerEmpty, WorkerHears, WorkerAppends, WorkerAggregates, WorkerAggregateFails,
         WorkerComposes, WorkerPublishes, Accounted, Unheard, Typed, TypeOK, Handed
<1>1. /\ UNCHANGED <<startPc, cancel, finPc, settled, draft, resp>>
      /\ \A t \in Starts : t # s => wpc'[t] = wpc[t] /\ fate'[t] = fate[t]
           /\ hand'[t] = hand[t] /\ agg'[t] = agg[t] /\ aggErr'[t] = aggErr[t]
  BY DEF WorkerStep, WorkerLoad, WorkerDies, WorkerCheck, WorkerTakes, WorkerFindsNone,
         WorkerEmpty, WorkerHears, WorkerAppends, WorkerAggregates, WorkerAggregateFails,
         WorkerComposes, WorkerPublishes, Typed, TypeOK
<1>2. Unheard'
  BY <1>0, <1>1 DEF Accounted, Unheard
<1>3. CASE WorkerTakes(s)
  <2>1. PICK c \in First(Queued(s)) :
          hand' = [hand EXCEPT ![s] = c] /\ fate' = [fate EXCEPT ![s][c] = "decoding"]
    BY <1>3 DEF WorkerTakes
  <2>2. c \in Chunks /\ c \in Queued(s)
    BY <2>1 DEF First, Queued, WithFate
  <2>3. ~settled[s]
    BY <2>2 DEF Accounted, Drained
  <2>4. wpc[s] = "get" /\ wpc' = [wpc EXCEPT ![s] = "decode"] /\ UNCHANGED <<agg, aggErr>>
    BY <1>3 DEF WorkerTakes
  <2>5. Held'
    BY <1>0, <1>1, <2>1, <2>2, <2>4 DEF Accounted, Held, Typed, TypeOK
  <2>6. Drained'
    BY <1>1, <2>3 DEF Accounted, Drained, Queued, Owed, WithFate
  <2> QED
    BY <1>2, <2>5, <2>6 DEF Accounted
<1>4. CASE ~WorkerTakes(s)
  <2>1. /\ hand' = hand
        /\ \A c \in Chunks : c # hand[s] => fate'[s][c] = fate[s][c]
        /\ hand[s] \in Chunks => \/ fate'[s][hand[s]] = fate[s][hand[s]]
                                 \/ fate'[s][hand[s]] \in {"empty", "discarded", "listed"}
    BY <1>0, <1>4 DEF WorkerStep, WorkerLoad, WorkerDies, WorkerCheck, WorkerFindsNone,
         WorkerEmpty, WorkerHears, WorkerAppends, WorkerAggregates, WorkerAggregateFails,
         WorkerComposes, WorkerPublishes
  <2>2. ~aggErr'[s] => ~aggErr[s]
    BY <1>4 DEF WorkerStep, WorkerLoad, WorkerDies, WorkerCheck, WorkerFindsNone,
         WorkerEmpty, WorkerHears, WorkerAppends, WorkerAggregates, WorkerAggregateFails,
         WorkerComposes, WorkerPublishes, Typed, TypeOK
  <2>3. Queued(s)' \subseteq Queued(s) /\ Owed(s)' \subseteq Owed(s) \cup {hand[s]}
    BY <2>1 DEF Queued, Owed, WithFate
  <2>4. \A t \in Starts : t # s => Queued(t)' = Queued(t) /\ Owed(t)' = Owed(t)
    BY <1>1 DEF Queued, Owed, WithFate
  <2>5. Drained'
    BY <1>1, <2>1, <2>2, <2>3, <2>4 DEF Accounted, Drained
  <2>6. Held'
    <3> SUFFICES
          /\ \A c \in Chunks : fate'[s][c] = "decoding" =>
               c = hand[s] /\ wpc'[s] \in {"decode", "append", "end"}
          /\ ~aggErr'[s] => \A c \in Chunks : fate'[s][c] = "listed" =>
               c \in agg'[s] \/ (c = hand[s] /\ wpc'[s] = "aggregate")
      BY <1>1, <2>1 DEF Accounted, Held
    <3>0. /\ \A c \in Chunks : fate[s][c] = "decoding" =>
               c = hand[s] /\ wpc[s] \in {"decode", "append", "end"}
          /\ ~aggErr[s] => \A c \in Chunks : fate[s][c] = "listed" =>
               c \in agg[s] \/ (c = hand[s] /\ wpc[s] = "aggregate")
      BY DEF Accounted, Held
    <3>1. CASE WorkerEmpty(s) \/ WorkerHears(s)
      BY <1>0, <3>0, <3>1 DEF WorkerEmpty, WorkerHears, Typed, TypeOK
    <3>2. CASE WorkerAppends(s)
      BY <1>0, <3>0, <3>2 DEF WorkerAppends, Typed, TypeOK
    <3>3. CASE WorkerAggregates(s) \/ WorkerAggregateFails(s)
      BY <1>0, <3>0, <3>3 DEF WorkerAggregates, WorkerAggregateFails, Typed, TypeOK
    <3>4. CASE \/ WorkerLoad(s) \/ WorkerDies(s) \/ WorkerCheck(s) \/ WorkerFindsNone(s)
               \/ WorkerComposes(s) \/ WorkerPublishes(s)
      BY <1>0, <3>0, <3>4 DEF WorkerLoad, WorkerDies, WorkerCheck, WorkerFindsNone,
                              WorkerComposes, WorkerPublishes, Typed, TypeOK
    <3> QED
      BY <1>4, <3>1, <3>2, <3>3, <3>4 DEF WorkerStep
  <2> QED
    BY <1>2, <2>5, <2>6 DEF Accounted
<1> QED
  BY <1>3, <1>4

LEMMA AccountedFin ==
  ASSUME Typed, Life, Answers, Accounted, NEW s \in Starts, FinStep(s)
  PROVE  Accounted'
<1> USE DEF finRest, reqVars
<1>0. \A t \in Starts : Queued(t)' = Queued(t) /\ Owed(t)' = Owed(t)
  BY DEF FinStep, FinLoopEnded, FinLoopTimeout, FinPoll, FinSettles, FinDrainTimeout,
         FinCompose, FinRespond, FinFail, FinStopWorker, FinJoined, FinUnregister,
         textVars, Queued, Owed, WithFate
<1>1. Unheard' /\ Held'
  <2>1. UNCHANGED <<startPc, fate, wpc, hand, agg, aggErr>>
    BY DEF FinStep, FinLoopEnded, FinLoopTimeout, FinPoll, FinSettles, FinDrainTimeout,
         FinCompose, FinRespond, FinFail, FinStopWorker, FinJoined, FinUnregister, textVars
  <2> QED
    BY <2>1 DEF Accounted, Unheard, Held
<1>2. UNCHANGED <<cancel, hand, agg, aggErr>>
  BY DEF FinStep, FinLoopEnded, FinLoopTimeout, FinPoll, FinSettles, FinDrainTimeout,
         FinCompose, FinRespond, FinFail, FinStopWorker, FinJoined, FinUnregister, textVars
<1>3. CASE FinPoll(s)
  BY <1>0, <1>1, <1>2, <1>3 DEF FinPoll, Accounted, Drained
<1>4. CASE FinLoopEnded(s) \/ FinLoopTimeout(s)
  <2>1. ~settled[s]
    BY <1>4 DEF FinLoopEnded, FinLoopTimeout, Accounted, Drained
  <2>2. finPc' = [finPc EXCEPT ![s] = "drain"] /\ UNCHANGED <<settled, draft, resp>>
    BY <1>4 DEF FinLoopEnded, FinLoopTimeout, StartDrain
  <2> QED
    BY <1>0, <1>1, <1>2, <2>1, <2>2 DEF Accounted, Drained, Typed, TypeOK
<1>5. CASE FinSettles(s)
  <2>1. Queued(s) = {} /\ resp[s] = None
    BY <1>5 DEF FinSettles, Quiet, Answers, Stored
  <2> QED
    BY <1>0, <1>1, <1>2, <1>5, <2>1 DEF FinSettles, Accounted, Drained, Typed, TypeOK
<1>6. CASE \/ FinDrainTimeout(s) \/ FinFail(s) \/ FinStopWorker(s) \/ FinJoined(s)
           \/ FinUnregister(s)
  <2>1. PICK pc \in {"compose", "cleanup", "join", "lock", "done"} :
          finPc' = [finPc EXCEPT ![s] = pc] /\ UNCHANGED <<settled, draft, resp>>
    BY <1>6 DEF FinDrainTimeout, FinFail, FinStopWorker, FinJoined, FinUnregister
  <2> QED
    BY <1>0, <1>1, <1>2, <2>1 DEF Accounted, Drained, Typed, TypeOK
<1>7. CASE FinCompose(s)
  <2>1. /\ finPc[s] = "compose" /\ finPc' = [finPc EXCEPT ![s] = "polish"]
        /\ UNCHANGED <<settled, resp>>
        /\ \A t \in Starts : t # s => draft'[t] = draft[t]
        /\ ~cancel[s] => draft'[s].text = IF agg[s] # {} THEN agg[s] ELSE RawText(s)
    BY <1>7 DEF FinCompose, Typed, TypeOK
  <2>2. resp[s] = None
    BY <2>1 DEF Answers, Stored
  <2>3. settled[s] /\ ~cancel[s] /\ ~aggErr[s] => Owed(s) \subseteq draft'[s].text \cup {hand[s]}
    BY <2>1 DEF Accounted, Held, Drained, Owed, Queued, WithFate
  <2> QED
    BY <1>0, <1>1, <1>2, <2>1, <2>2, <2>3 DEF Accounted, Drained, Typed, TypeOK
<1>8. CASE FinRespond(s)
  <2>1. /\ finPc[s] = "polish" /\ finPc' = [finPc EXCEPT ![s] = "cleanup"]
        /\ UNCHANGED <<settled, draft>>
        /\ \A t \in Starts : t # s => resp'[t] = resp[t]
        /\ resp'[s].text = draft[s].text
    BY <1>8 DEF FinRespond, Typed, TypeOK
  <2> QED
    BY <1>0, <1>1, <1>2, <2>1 DEF Accounted, Drained, Typed, TypeOK
<1> QED
  BY <1>1, <1>3, <1>4, <1>5, <1>6, <1>7, <1>8 DEF FinStep, Accounted

LEMMA AccountedNext == Typed /\ Life /\ Answers /\ Accounted /\ [Next]_vars => Accounted'
<1> SUFFICES ASSUME Typed, Life, Answers, Accounted, [Next]_vars PROVE Accounted'
  OBVIOUS
<1>1. ASSUME NEW s \in Starts, StartStep(s) \/ LoopStep(s) \/ WorkerStep(s) \/ FinStep(s)
      PROVE  Accounted'
  BY <1>1, AccountedStart, AccountedLoop, AccountedWorker, AccountedFin
<1>2. ASSUME NEW p \in Stops, StopStep(p) PROVE Accounted'
  BY <1>2, AccountedStop
<1>3. CASE UNCHANGED vars
  BY <1>3, AccountedFrame DEF vars, reqVars, svcVars, textVars, finVars, textFrame
<1> QED
  BY <1>1, <1>2, <1>3 DEF Next

\* When the drain ends by settling, the final text misses at most one accepted chunk.
THEOREM SettledMissesOne == Spec => []SettledAnswer
<1>1. ASSUME Accounted, NEW s \in Starts,
             settled[s], resp[s] # None, ~cancel[s], ~aggErr[s]
      PROVE  Cardinality(Owed(s) \ resp[s].text) <= 1
  <2>1. Owed(s) \ resp[s].text \in SUBSET {hand[s]}
    BY <1>1 DEF Accounted, Drained
  <2>2. IsFiniteSet({hand[s]}) /\ Cardinality({hand[s]}) = 1
    BY FS_Singleton
  <2> QED
    BY <2>1, <2>2, FS_Subset
<1>2. Accounted => SettledAnswer
  BY <1>1 DEF SettledAnswer
<1> QED
  BY <1>2, AccountedInit, AccountedNext, AlwaysAnswers, PTL DEF Spec

\* When any segment was listed the text that is put together is not empty.
THEOREM AnswerIsNotEmpty == Spec => NonEmptyAnswer
<1>1. Typed /\ [Next]_vars =>
        [\A s \in Starts : (finPc[s] = "compose" /\ finPc'[s] = "polish"
                            /\ ~cancel[s] /\ Listed(s) # {}) => draft'[s].text # {}]_vars
  <2> SUFFICES ASSUME Typed, Next, NEW s \in Starts, finPc[s] = "compose",
                      finPc'[s] = "polish", ~cancel[s], Listed(s) # {}
               PROVE  draft'[s].text # {}
    OBVIOUS
  <2>1. ASSUME NEW t \in Starts, FinStep(t) PROVE FinCompose(t) /\ t = s
    <3>1. CASE FinCompose(t)
      BY <3>1 DEF FinCompose, Typed, TypeOK
    <3>2. ASSUME NEW pc, pc # "polish", finPc' = [finPc EXCEPT ![t] = pc] PROVE FALSE
      BY <3>2 DEF Typed, TypeOK
    <3>3. CASE FinPoll(t)
      BY <3>3 DEF FinPoll
    <3>4. CASE FinRespond(t) \/ FinFail(t) \/ FinStopWorker(t) \/ FinJoined(t)
      BY <3>2, <3>4 DEF FinRespond, FinFail, FinStopWorker, FinJoined
    <3>5. CASE FinLoopEnded(t) \/ FinLoopTimeout(t) \/ FinSettles(t) \/ FinDrainTimeout(t)
      BY <3>2, <3>5 DEF FinLoopEnded, FinLoopTimeout, StartDrain, FinSettles, FinDrainTimeout
    <3>6. CASE FinUnregister(t)
      BY <3>2, <3>6 DEF FinUnregister
    <3> QED
      BY <2>1, <3>1, <3>3, <3>4, <3>5, <3>6 DEF FinStep
  <2>2. ASSUME NEW t \in Starts, StartStep(t) \/ LoopStep(t) \/ WorkerStep(t) PROVE FALSE
    <3>1. CASE RestartStops(t)
      BY <3>1 DEF RestartStops, BeginStop, Typed, TypeOK
    <3>2. CASE StartCall(t) \/ StartCreate(t) \/ StartFail(t) \/ LoopStep(t)
      BY <3>2 DEF StartCall, StartCreate, StartFail, LoopStep, LoopStart, LoopFatal,
                  LoopRead, LoopExit, finVars
    <3>3. CASE WorkerStep(t)
      BY <3>3 DEF WorkerStep, WorkerLoad, WorkerDies, WorkerCheck, WorkerTakes,
                  WorkerFindsNone, WorkerEmpty, WorkerHears, WorkerAppends,
                  WorkerAggregates, WorkerAggregateFails, WorkerComposes,
                  WorkerPublishes, workerRest, finVars
    <3> QED
      BY <2>2, <3>1, <3>2, <3>3 DEF StartStep
  <2>3. ASSUME NEW p \in Stops, StopStep(p) PROVE FALSE
    <3>1. CASE StopBegins(p)
      BY <3>1 DEF StopBegins, BeginStop, Typed, TypeOK
    <3>2. CASE StopCall(p) \/ StopNothing(p) \/ StopJoins(p) \/ StopReturns(p)
      BY <3>2 DEF StopCall, StopNothing, StopJoins, StopReturns, finVars
    <3> QED
      BY <2>3, <3>1, <3>2 DEF StopStep
  <2>4. FinCompose(s)
    BY <2>1, <2>2, <2>3 DEF Next
  <2> QED
    BY <2>4 DEF FinCompose, RawText, Typed, TypeOK
<1> QED
  BY <1>1, AlwaysTyped, PTL DEF Spec, NonEmptyAnswer

-----------------------------------------------------------------------------
(* What the refinement needs of the state besides Life and Answers *)

\* A start request that has not ended has no session, one that failed has a broken
\* one; a stop request is told something only when it ends; a stored response is
\* that of its session and carries the drafted text; only a stop cancels a session.
Matching ==
  /\ \A s \in Starts : startPc[s] \in {"idle", "lock", "join"} => st[s] = "none"
  /\ \A p \in Stops : stopPc[p] # "done" => told[p] = None
  /\ \A s \in Starts : resp[s] # None => resp[s].sid = s /\ resp[s].text = draft[s].text
  /\ \A s \in Starts : finPc[s] = "none" => ~cancel[s]

matchVars == <<startPc, st, stopPc, told, resp, draft, finPc, cancel>>

LEMMA MatchingStart ==
  ASSUME Typed, Life, Matching, NEW s \in Starts, StartStep(s)
  PROVE  Matching'
<1>1. CASE StartCall(s)
  BY SMTT(60), <1>1 DEF StartCall, Matching, finVars, Typed, TypeOK
<1>2. CASE RestartStops(s)
  <2>1. current \in Starts /\ startPc[current] = "done"
    BY <1>2 DEF RestartStops, Active, Life, Fresh
  <2> QED
    BY SMTT(60), <1>2, <2>1 DEF RestartStops, BeginStop, Matching, Typed, TypeOK
<1>3. CASE StartCreate(s)
  BY <1>3 DEF StartCreate, Matching, finVars, Typed, TypeOK
<1>4. CASE StartFail(s)
  BY <1>4 DEF StartFail, Matching, finVars, Typed, TypeOK
<1> QED
  BY <1>1, <1>2, <1>3, <1>4 DEF StartStep

LEMMA MatchingStop ==
  ASSUME Typed, Life, Matching, NEW p \in Stops, StopStep(p)
  PROVE  Matching'
<1>1. CASE StopCall(p)
  BY <1>1 DEF StopCall, Matching, finVars, Typed, TypeOK
<1>2. CASE StopNothing(p)
  BY <1>2 DEF StopNothing, Matching, finVars, Typed, TypeOK
<1>3. CASE StopJoins(p)
  BY <1>3 DEF StopJoins, StopHolds, Matching, finVars, Typed, TypeOK
<1>4. CASE StopBegins(p)
  <2>1. current \in Starts /\ startPc[current] = "done"
    BY <1>4 DEF StopBegins, Active, Life, Fresh
  <2> QED
    BY <1>4, <2>1 DEF StopBegins, StopHolds, BeginStop, Matching, Typed, TypeOK
<1>5. CASE StopReturns(p)
  BY <1>5 DEF StopReturns, Matching, svcVars, finVars, Typed, TypeOK
<1> QED
  BY <1>1, <1>2, <1>3, <1>4, <1>5 DEF StopStep

LEMMA MatchingFin ==
  ASSUME Typed, Answers, Matching, NEW s \in Starts, FinStep(s)
  PROVE  Matching'
<1>0. \A t \in Starts : finPc'[t] = "none" => finPc[t] = "none"
  BY DEF FinStep, FinLoopEnded, FinLoopTimeout, StartDrain, FinPoll, FinSettles,
         FinDrainTimeout, FinCompose, FinRespond, FinFail, FinStopWorker, FinJoined,
         FinUnregister, Typed, TypeOK
<1>1. UNCHANGED <<startPc, st, stopPc, told, cancel>>
  BY DEF FinStep, FinLoopEnded, FinLoopTimeout, FinPoll, FinSettles, FinDrainTimeout,
         FinCompose, FinRespond, FinFail, FinStopWorker, FinJoined, FinUnregister,
         finRest, reqVars
<1>2. CASE FinCompose(s)
  <2>1. resp[s] = None /\ resp' = resp
    BY <1>2 DEF FinCompose, Answers, Stored
  <2>2. \A t \in Starts : t # s => draft'[t] = draft[t]
    BY <1>2 DEF FinCompose, Typed, TypeOK
  <2> QED
    BY <1>0, <1>1, <2>1, <2>2 DEF Matching
<1>3. CASE FinRespond(s)
  BY <1>0, <1>1, <1>3 DEF FinRespond, Matching, Typed, TypeOK
<1>4. CASE ~FinCompose(s) /\ ~FinRespond(s)
  <2>1. UNCHANGED <<resp, draft>>
    BY <1>4 DEF FinStep, FinLoopEnded, FinLoopTimeout, FinPoll, FinSettles,
                FinDrainTimeout, FinFail, FinStopWorker, FinJoined, FinUnregister
  <2> QED
    BY <1>0, <1>1, <2>1 DEF Matching
<1> QED
  BY <1>2, <1>3, <1>4

LEMMA MatchingNext == Typed /\ Life /\ Answers /\ Matching /\ [Next]_vars => Matching'
<1> SUFFICES ASSUME Typed, Life, Answers, Matching, [Next]_vars PROVE Matching'
  OBVIOUS
<1>1. ASSUME UNCHANGED matchVars PROVE Matching'
  BY <1>1 DEF Matching, matchVars
<1>2. ASSUME NEW s \in Starts, LoopStep(s) \/ WorkerStep(s) PROVE UNCHANGED matchVars
  BY <1>2 DEF LoopStep, LoopStart, LoopFatal, LoopRead, LoopExit, WorkerStep, WorkerLoad,
              WorkerDies, WorkerCheck, WorkerTakes, WorkerFindsNone, WorkerEmpty,
              WorkerHears, WorkerAppends, WorkerAggregates, WorkerAggregateFails,
              WorkerComposes, WorkerPublishes, workerRest, matchVars, reqVars, svcVars,
              finVars
<1>3. ASSUME UNCHANGED vars PROVE UNCHANGED matchVars
  BY <1>3 DEF vars, reqVars, svcVars, finVars, matchVars
<1> QED
  BY <1>1, <1>2, <1>3, MatchingStart, MatchingStop, MatchingFin DEF Next

LEMMA AlwaysMatching == Spec => [](Typed /\ Life /\ Answers /\ Matching)
<1>1. Init => Matching
  BY DEF Init, Matching
<1> QED
  BY <1>1, MatchingNext, AlwaysAnswers, PTL DEF Spec

-----------------------------------------------------------------------------
(* Every step of the service is a step of the promise, or a stutter *)

barVars == <<phaseBar, cancelledBar, answerBar, replyBar>>

LEMMA PromiseInit == Init => Promise!Init
BY HotkeyAssumption
   DEF Init, Promise!Init, phaseBar, cancelledBar, answerBar, replyBar

\* A step that leaves what the promise sees alone is a stutter.
LEMMA Unseen ==
  ASSUME UNCHANGED <<st, cancel, told>>,
         \A s \in Starts : /\ finPc'[s] = "done" <=> finPc[s] = "done"
                           /\ finPc[s] = "done" => draft'[s] = draft[s]
  PROVE  UNCHANGED barVars
<1>1. phaseBar' = phaseBar
  BY DEF phaseBar
<1>2. answerBar' = answerBar
  BY DEF answerBar
<1>3. cancelledBar' = cancelledBar /\ replyBar' = replyBar
  BY DEF cancelledBar, replyBar
<1> QED
  BY <1>1, <1>2, <1>3 DEF barVars

LEMMA PromiseBeginStop ==
  ASSUME Typed, Life, Matching, Active, NEW mode, BeginStop(current, mode),
         UNCHANGED <<told, draft>>
  PROVE  Promise!End(current)
<1> DEFINE c == current
<1>0. c \in Starts /\ st[c] = "recording" /\ finPc[c] = "none"
  BY DEF Active, Life, Stopped
<1>1. /\ st' = [st EXCEPT ![c] = "stopping"]
      /\ cancel' = [cancel EXCEPT ![c] = (mode = "cancel")]
      /\ finPc' = [finPc EXCEPT ![c] = "wait"]
  BY DEF BeginStop
<1>2. phaseBar[c] = "recording" /\ phaseBar' = [phaseBar EXCEPT ![c] = "stopping"]
  BY <1>0, <1>1 DEF phaseBar, Typed, TypeOK
<1>3. cancelledBar' \in {cancelledBar, cancelledBar \cup {c}}
  <2>1. ~cancel[c]
    BY <1>0 DEF Matching
  <2>2. CASE mode = "cancel"
    BY <1>0, <1>1, <2>2 DEF cancelledBar, Typed, TypeOK
  <2>3. CASE mode # "cancel"
    BY <1>0, <1>1, <2>1, <2>3 DEF cancelledBar, Typed, TypeOK
  <2> QED
    BY <2>2, <2>3
<1>4. UNCHANGED <<answerBar, replyBar>>
  BY <1>0, <1>1 DEF answerBar, replyBar, Typed, TypeOK
<1> QED
  BY <1>2, <1>3, <1>4 DEF Promise!End

LEMMA PromiseStart ==
  ASSUME Typed, Life, Matching, NEW s \in Starts, StartStep(s)
  PROVE  Promise!Next \/ UNCHANGED barVars
<1>1. CASE StartCall(s)
  BY <1>1, Unseen DEF StartCall, finVars
<1>2. CASE RestartStops(s)
  <2>1. Promise!End(current) /\ current \in Starts
    BY <1>2, PromiseBeginStop DEF RestartStops, Active
  <2> QED
    BY <2>1 DEF Promise!Next
<1>3. ASSUME MayCreate(s)
      PROVE  phaseBar[s] = "idle" /\ \A t \in Starts : phaseBar[t] # "recording"
  <2>1. startPc[s] # "join"
    BY <1>3 DEF MayCreate, Life, Stuck
  <2>2. st[s] = "none" /\ \A t \in Starts : st[t] # "recording"
    BY <1>3, <2>1 DEF MayCreate, Active, Life, OneRecording, Matching
  <2> QED
    BY <2>2 DEF phaseBar
<1>4. CASE StartCreate(s)
  <2>1. st' = [st EXCEPT ![s] = "recording"] /\ UNCHANGED <<cancel, told, finPc, draft>>
    BY <1>4 DEF StartCreate, finVars
  <2>2. phaseBar' = [phaseBar EXCEPT ![s] = "recording"]
    BY <2>1 DEF phaseBar, Typed, TypeOK
  <2>3. UNCHANGED <<cancelledBar, answerBar, replyBar>>
    BY <2>1 DEF cancelledBar, answerBar, replyBar
  <2>4. Promise!Begin(s)
    BY <1>3, <1>4, <2>2, <2>3 DEF StartCreate, Promise!Begin, Promise!Recording
  <2> QED
    BY <2>4 DEF Promise!Next
<1>5. CASE StartFail(s)
  <2>1. st' = [st EXCEPT ![s] = "error"] /\ UNCHANGED <<cancel, told, finPc, draft>>
    BY <1>5 DEF StartFail, finVars
  <2>2. phaseBar' = [phaseBar EXCEPT ![s] = "failed"]
    BY <2>1 DEF phaseBar, Typed, TypeOK
  <2>3. UNCHANGED <<cancelledBar, answerBar, replyBar>>
    BY <2>1 DEF cancelledBar, answerBar, replyBar
  <2>4. Promise!Fail(s)
    BY <1>3, <1>5, <2>2, <2>3 DEF StartFail, Promise!Fail
  <2> QED
    BY <2>4 DEF Promise!Next
<1> QED
  BY <1>1, <1>2, <1>4, <1>5 DEF StartStep

LEMMA PromiseStop ==
  ASSUME Typed, Life, Answers, Matching, NEW p \in Stops, StopStep(p)
  PROVE  Promise!Next \/ UNCHANGED barVars
<1>1. CASE StopCall(p) \/ StopJoins(p)
  BY <1>1, Unseen DEF StopCall, StopJoins, finVars
<1>2. CASE StopBegins(p)
  <2>1. Promise!End(current) /\ current \in Starts
    BY <1>2, PromiseBeginStop DEF StopBegins, Active
  <2> QED
    BY <2>1 DEF Promise!Next
<1>3. CASE StopNothing(p)
  <2>1. /\ told[p] = None
        /\ told' = [told EXCEPT ![p] = [sid |-> None, text |-> {}, raw |-> {},
                                        live |-> {}, warned |-> FALSE]]
        /\ UNCHANGED <<st, cancel, finPc, draft>>
    <3>1. stopPc[p] = "lock"
      BY <1>3 DEF StopNothing, StopHolds
    <3> QED
      BY <1>3, <3>1 DEF StopNothing, Matching, finVars
  <2>2. [sid |-> None, text |-> {}, raw |-> {}, live |-> {}, warned |-> FALSE] # None
    <3>1. [sid |-> None, text |-> {}, raw |-> {}, live |-> {}, warned |-> FALSE] \in Response
      BY DEF Response
    <3> QED
      BY <3>1, NoneAssumption
  <2>3. /\ replyBar[p] = None
        /\ replyBar' = [replyBar EXCEPT ![p] = [sid |-> None, text |-> {}]]
    BY ZenonT(60), <2>1, <2>2 DEF replyBar, Typed, TypeOK
  <2>4. UNCHANGED <<phaseBar, cancelledBar, answerBar>>
    BY <2>1 DEF phaseBar, cancelledBar, answerBar
  <2>5. \A t \in Starts : phaseBar[t] # "recording"
    <3>1. \A t \in Starts : st[t] # "recording"
      BY <1>3, HotkeyAssumption DEF StopNothing, Life, OneRecording
    <3> QED
      BY <3>1 DEF phaseBar
  <2>6. Promise!ReplyNothing(p)
    BY <2>3, <2>4, <2>5 DEF Promise!ReplyNothing, Promise!Recording
  <2> QED
    BY <2>6 DEF Promise!Next
<1>4. CASE StopReturns(p)
  <2> DEFINE s == stopOf[p]
  <2>1. /\ s \in Starts /\ finPc[s] = "done" /\ told[p] = None
        /\ told' = [told EXCEPT ![p] = ResponseOf(s)]
        /\ UNCHANGED <<st, cancel, finPc, draft>>
    BY <1>4 DEF StopReturns, Matching, Typed, Handed, svcVars, finVars
  <2>2. ResponseOf(s) \in Response /\ ResponseOf(s) # None
    BY <2>1, ResponseType, NoneAssumption DEF Typed
  <2>3. ResponseOf(s).sid = s /\ ResponseOf(s).text = draft[s].text
    BY <2>1 DEF ResponseOf, Matching
  <2> HIDE DEF s
  <2>4. /\ replyBar[p] = None
        /\ replyBar' = [replyBar EXCEPT ![p] = [sid |-> s, text |-> draft[s].text]]
    BY <2>1, <2>2, <2>3 DEF replyBar, Typed, TypeOK
  <2>5. st[s] = "stopping" /\ phaseBar[s] = "answered" /\ answerBar[s] = draft[s].text
    BY <2>1 DEF Life, Stopped, phaseBar, answerBar
  <2>6. UNCHANGED <<phaseBar, cancelledBar, answerBar>>
    BY <2>1 DEF phaseBar, cancelledBar, answerBar
  <2>7. Promise!ReplyAnswer(p, s)
    BY <2>4, <2>5, <2>6 DEF Promise!ReplyAnswer
  <2> QED
    BY <2>1, <2>7 DEF Promise!Next
<1> QED
  BY <1>1, <1>2, <1>3, <1>4 DEF StopStep

LEMMA PromiseFin ==
  ASSUME Typed, Life, Answers, Matching, NEW s \in Starts, FinStep(s)
  PROVE  Promise!Next \/ UNCHANGED barVars
<1>1. CASE FinUnregister(s)
  <2>1. /\ finPc[s] = "lock" /\ finPc' = [finPc EXCEPT ![s] = "done"]
        /\ UNCHANGED <<st, cancel, told, draft>>
    BY <1>1 DEF FinUnregister, reqVars
  <2>2. st[s] = "stopping"
    BY <2>1 DEF Life, Stopped
  <2>3. phaseBar[s] = "stopping" /\ phaseBar' = [phaseBar EXCEPT ![s] = "answered"]
    BY <2>1, <2>2 DEF phaseBar, Typed, TypeOK
  <2>4. answerBar' = [answerBar EXCEPT ![s] = draft[s].text]
    BY <2>1 DEF answerBar, Typed, TypeOK
  <2>5. draft[s].text \in SUBSET Chunks /\ (s \in cancelledBar => draft[s].text = {})
    BY DEF Typed, TypeOK, Draft, Answers, Discarded, cancelledBar
  <2>6. UNCHANGED <<cancelledBar, replyBar>>
    BY <2>1 DEF cancelledBar, replyBar
  <2>7. Promise!Deliver(s)
    BY <2>3, <2>4, <2>5, <2>6 DEF Promise!Deliver
  <2> QED
    BY <2>7 DEF Promise!Next
<1>2. CASE ~FinUnregister(s)
  <2>1. UNCHANGED <<st, cancel, told>>
    BY <1>2 DEF FinStep, FinLoopEnded, FinLoopTimeout, FinPoll, FinSettles,
         FinDrainTimeout, FinCompose, FinRespond, FinFail, FinStopWorker, FinJoined,
         finRest, reqVars
  <2>2. /\ finPc[s] # "done" /\ finPc'[s] # "done"
        /\ \A t \in Starts : t # s => finPc'[t] = finPc[t] /\ draft'[t] = draft[t]
    BY SMTT(60), <1>2 DEF FinStep, FinLoopEnded, FinLoopTimeout, StartDrain, FinPoll, FinSettles,
         FinDrainTimeout, FinCompose, FinRespond, FinFail, FinStopWorker, FinJoined,
         Typed, TypeOK
  <2> QED
    BY <2>1, <2>2, Unseen
<1> QED
  BY <1>1, <1>2

LEMMA PromiseNext ==
  Typed /\ Life /\ Answers /\ Matching /\ [Next]_vars => [Promise!Next]_barVars
<1> SUFFICES ASSUME Typed, Life, Answers, Matching, [Next]_vars
             PROVE  Promise!Next \/ UNCHANGED barVars
  OBVIOUS
<1>1. ASSUME NEW s \in Starts, LoopStep(s) \/ WorkerStep(s) PROVE UNCHANGED barVars
  <2>1. UNCHANGED <<st, cancel, told, finPc, draft>>
    BY <1>1 DEF LoopStep, LoopStart, LoopFatal, LoopRead, LoopExit, WorkerStep, WorkerLoad,
                WorkerDies, WorkerCheck, WorkerTakes, WorkerFindsNone, WorkerEmpty,
                WorkerHears, WorkerAppends, WorkerAggregates, WorkerAggregateFails,
                WorkerComposes, WorkerPublishes, workerRest, reqVars, svcVars, finVars
  <2> QED
    BY <2>1, Unseen
<1>2. ASSUME UNCHANGED vars PROVE UNCHANGED barVars
  BY <1>2, Unseen DEF vars, reqVars, svcVars, finVars
<1> QED
  BY <1>1, <1>2, PromiseStart, PromiseStop, PromiseFin DEF Next

\* The service keeps the promise of the abstract specification.
THEOREM KeepsPromise == Spec => ImplementsDictation
<1>1. [Promise!Next]_barVars => [Promise!Next]_(Promise!dvars)
  BY DEF barVars, Promise!dvars
<1> QED
  BY <1>1, PromiseInit, PromiseNext, AlwaysMatching, PTL
     DEF Spec, ImplementsDictation, Promise!Spec
=============================================================================
