-------------------------- MODULE Server_proofs ---------------------------
(***************************************************************************)
(* Proofs about the components around the server, for every value of       *)
(* their constants.  Each part proves of a component that every behaviour  *)
(* of it has the component's invariant; the last part says it of the       *)
(* composition.                                                            *)
(***************************************************************************)
EXTENDS MCServer, FiniteSetTheorems, SequenceTheorems, TLAPS

-----------------------------------------------------------------------------
(* websocket_server.py.  A connection is registered and watched only once it was accepted, *)
(* and what was closed while registered has a close() under way.                           *)

\* A value makes a set larger by one at most.
LEMMA OneMore ==
  ASSUME NEW S, NEW x, IsFiniteSet(S)
  PROVE  /\ IsFiniteSet(S \cup {x}) /\ Cardinality(S \cup {x}) \in Nat
         /\ Cardinality(S) \in Nat /\ Cardinality(S \cup {x}) <= Cardinality(S) + 1
<1>1. IsFiniteSet(S \cup {x}) /\ Cardinality(S \cup {x}) \in Nat /\ Cardinality(S) \in Nat
  BY FS_AddElement, FS_CardinalityType
<1>2. Cardinality(S \cup {x}) = IF x \in S THEN Cardinality(S) ELSE Cardinality(S) + 1
  BY FS_AddElement
<1> QED
  BY <1>1, <1>2

\* A connection that is not accepted yet is not registered, has no heartbeat and was not closed.
NotEnteredYet ==
  \A c \in Conns : endpoint[c] \in {"idle", "counted", "refused"} =>
                     c \notin registered \cup pinging /\ ~closed[c]

ClosedIsClosing == \A c \in registered : closed[c] => c \in closing

WsIInv == WsInv /\ NotEnteredYet /\ ClosedIsClosing

\* The initial state satisfies the invariant.
LEMMA WsInitInv == WsInit => WsIInv
<1> SUFFICES ASSUME WsInit PROVE WsIInv
  OBVIOUS
<1> USE WsAssumption DEF WsInit
<1>1. WsTypeOK
  BY DEF WsTypeOK
<1>2. LimitHolds
  <2>1. registered \cup Pending = {}
    BY DEF Pending
  <2> QED
    BY <2>1, FS_EmptySet DEF LimitHolds
<1>3. RegisteredIsWatched /\ NotEnteredYet /\ ClosedIsClosing
  BY DEF RegisteredIsWatched, NotEnteredYet, ClosedIsClosing
<1> QED
  BY <1>1, <1>2, <1>3 DEF WsIInv, WsInv

EndpointTyped ==
  endpoint \in [Conns -> {"idle", "counted", "refused", "greeting", "draining", "stuck",
                          "serving", "leaving", "ended"}]
LinksTyped ==
  /\ peer \in [Conns -> BOOLEAN] /\ linked \in [Conns -> BOOLEAN] /\ closed \in [Conns -> BOOLEAN]
PingingTyped == pinging \subseteq {k \in Conns : ~closed[k]}
ClosingTyped ==
  /\ closing \subseteq Conns /\ registered \subseteq Conns /\ toTell \subseteq Conns
HungTyped == hung \in BOOLEAN
AttemptsTyped == /\ attempts \in {"apart", "overlapped"} /\ down \in BOOLEAN
\* A step keeps the types, and the heartbeat of what is closed ended.
LEMMA WsTypeNext == WsIInv /\ [WsNext]_wsVars => WsTypeOK'
<1> SUFFICES ASSUME WsIInv, [WsNext]_wsVars PROVE WsTypeOK'
  OBVIOUS
<1> USE WsAssumption DEF WsIInv, WsInv, WsTypeOK, WsGoesTo
<1>1. ASSUME NEW c \in Conns, WsCount(c) PROVE WsTypeOK'
  BY <1>1 DEF EndpointTyped, LinksTyped, PingingTyped, ClosingTyped, HungTyped,
     AttemptsTyped, WsCount
<1>2. ASSUME NEW c \in Conns, WsRegister(c) PROVE WsTypeOK'
  BY <1>2 DEF EndpointTyped, LinksTyped, PingingTyped, ClosingTyped, HungTyped,
     AttemptsTyped, WsRegister, NotEnteredYet
<1>3. ASSUME NEW c \in Conns, WsAcceptFails(c) PROVE WsTypeOK'
  BY <1>3 DEF EndpointTyped, LinksTyped, PingingTyped, ClosingTyped, HungTyped,
     AttemptsTyped, WsAcceptFails
<1>4. ASSUME NEW c \in Conns, WsGreets(c) PROVE WsTypeOK'
  BY <1>4 DEF EndpointTyped, LinksTyped, PingingTyped, ClosingTyped, HungTyped,
     AttemptsTyped, WsGreets, SendFails
<1>5. ASSUME NEW c \in Conns, WsDrains(c) PROVE WsTypeOK'
  BY <1>5 DEF EndpointTyped, LinksTyped, PingingTyped, ClosingTyped, HungTyped,
     AttemptsTyped, WsDrains, SendFails
<1>6. ASSUME NEW c \in Conns, WsReceivesDisconnect(c) PROVE WsTypeOK'
  BY <1>6 DEF EndpointTyped, LinksTyped, PingingTyped, ClosingTyped, HungTyped,
     AttemptsTyped, WsReceivesDisconnect
<1>7. ASSUME NEW c \in Conns, WsLeaves(c) PROVE WsTypeOK'
  BY <1>7 DEF EndpointTyped, LinksTyped, PingingTyped, ClosingTyped, HungTyped,
     AttemptsTyped, WsLeaves
<1>8. ASSUME NEW c \in Conns, WsEndpointCloses(c) PROVE WsTypeOK'
  BY <1>8 DEF EndpointTyped, LinksTyped, PingingTyped, ClosingTyped, HungTyped,
     AttemptsTyped, WsEndpointCloses, CloseBegins
<1>9. ASSUME NEW c \in Conns, WsHeartEnds(c) PROVE WsTypeOK'
  BY <1>9 DEF EndpointTyped, LinksTyped, PingingTyped, ClosingTyped, HungTyped,
     AttemptsTyped, WsHeartEnds
<1>10. ASSUME NEW c \in Conns, WsHeartCloses(c) PROVE WsTypeOK'
  BY <1>10 DEF EndpointTyped, LinksTyped, PingingTyped, ClosingTyped, HungTyped,
     AttemptsTyped, WsHeartCloses, CloseBegins
<1>11. ASSUME NEW c \in Conns, WsPingFails(c) PROVE WsTypeOK'
  BY <1>11 DEF EndpointTyped, LinksTyped, PingingTyped, ClosingTyped, HungTyped,
     AttemptsTyped, WsPingFails, SendFails
<1>12. ASSUME NEW c \in Conns, WsCloseEnds(c) PROVE WsTypeOK'
  BY <1>12 DEF EndpointTyped, LinksTyped, PingingTyped, ClosingTyped, HungTyped,
     AttemptsTyped, WsCloseEnds
<1>13. ASSUME NEW c \in Conns, WsDisconnect(c) PROVE WsTypeOK'
  BY <1>13 DEF EndpointTyped, LinksTyped, PingingTyped, ClosingTyped, HungTyped,
     AttemptsTyped, WsDisconnect, CloseBegins
<1>14. ASSUME NEW c \in Conns, WsTells(c) PROVE WsTypeOK'
  <2>1. EndpointTyped' /\ LinksTyped' /\ PingingTyped' /\ ClosingTyped' /\ AttemptsTyped'
    BY <1>14 DEF EndpointTyped, LinksTyped, PingingTyped, ClosingTyped, AttemptsTyped,
       WsTells, SendFails
  <2>2. HungTyped'
    BY <1>14, Zenon DEF WsTells, Stuck, HungTyped
  <2> QED
    BY <2>1, <2>2 DEF EndpointTyped, LinksTyped, PingingTyped, ClosingTyped, HungTyped,
       AttemptsTyped
<1>15. ASSUME NEW c \in Conns, WsPeerGoes(c) PROVE WsTypeOK'
  BY <1>15 DEF EndpointTyped, LinksTyped, PingingTyped, ClosingTyped, HungTyped,
     AttemptsTyped, WsPeerGoes
<1>16. CASE WsBroadcast
  BY <1>16 DEF EndpointTyped, LinksTyped, PingingTyped, ClosingTyped, HungTyped,
     AttemptsTyped, WsBroadcast
<1>17. CASE WsShutdown
  BY <1>17 DEF EndpointTyped, LinksTyped, PingingTyped, ClosingTyped, HungTyped,
     AttemptsTyped, WsShutdown
<1>18. CASE UNCHANGED wsVars
  BY <1>18 DEF EndpointTyped, LinksTyped, PingingTyped, ClosingTyped, HungTyped,
     AttemptsTyped, wsVars
<1> QED
  BY <1>1, <1>2, <1>3, <1>4, <1>5, <1>6, <1>7, <1>8, <1>9, <1>10, <1>11, <1>12, <1>13, <1>14,
       <1>15, <1>16, <1>17, <1>18 DEF WsNext, WsEndpointStep, WsHeartStep

\* A connection is registered once it was accepted.
LEMMA NotEnteredNext == WsIInv /\ [WsNext]_wsVars => NotEnteredYet'
<1> SUFFICES ASSUME WsIInv, [WsNext]_wsVars PROVE NotEnteredYet'
  OBVIOUS
<1> USE WsAssumption DEF WsIInv, WsInv, NotEnteredYet, WsTypeOK, WsGoesTo
<1>1. ASSUME NEW c \in Conns, WsCount(c) PROVE NotEnteredYet'
  BY <1>1 DEF WsCount
<1>2. ASSUME NEW c \in Conns, WsRegister(c) PROVE NotEnteredYet'
  BY <1>2 DEF WsRegister
<1>3. ASSUME NEW c \in Conns, WsAcceptFails(c) PROVE NotEnteredYet'
  BY <1>3 DEF WsAcceptFails
<1>4. ASSUME NEW c \in Conns, WsGreets(c) PROVE NotEnteredYet'
  BY <1>4 DEF WsGreets, SendFails
<1>5. ASSUME NEW c \in Conns, WsDrains(c) PROVE NotEnteredYet'
  BY <1>5 DEF WsDrains, SendFails
<1>6. ASSUME NEW c \in Conns, WsReceivesDisconnect(c) PROVE NotEnteredYet'
  BY <1>6 DEF WsReceivesDisconnect
<1>7. ASSUME NEW c \in Conns, WsLeaves(c) PROVE NotEnteredYet'
  BY <1>7 DEF WsLeaves
<1>8. ASSUME NEW c \in Conns, WsEndpointCloses(c) PROVE NotEnteredYet'
  BY <1>8 DEF WsEndpointCloses, CloseBegins
<1>9. ASSUME NEW c \in Conns, WsHeartEnds(c) PROVE NotEnteredYet'
  BY <1>9 DEF WsHeartEnds
<1>10. ASSUME NEW c \in Conns, WsHeartCloses(c) PROVE NotEnteredYet'
  BY <1>10 DEF WsHeartCloses, CloseBegins
<1>11. ASSUME NEW c \in Conns, WsPingFails(c) PROVE NotEnteredYet'
  BY <1>11 DEF WsPingFails, SendFails
<1>12. ASSUME NEW c \in Conns, WsCloseEnds(c) PROVE NotEnteredYet'
  BY <1>12 DEF WsCloseEnds
<1>13. ASSUME NEW c \in Conns, WsDisconnect(c) PROVE NotEnteredYet'
  BY <1>13 DEF WsDisconnect, CloseBegins
<1>14. ASSUME NEW c \in Conns, WsTells(c) PROVE NotEnteredYet'
  BY <1>14 DEF WsTells, SendFails
<1>15. ASSUME NEW c \in Conns, WsPeerGoes(c) PROVE NotEnteredYet'
  BY <1>15 DEF WsPeerGoes
<1>16. CASE WsBroadcast
  BY <1>16 DEF WsBroadcast
<1>17. CASE WsShutdown
  BY <1>17 DEF WsShutdown
<1>18. CASE UNCHANGED wsVars
  BY <1>18 DEF wsVars
<1> QED
  BY <1>1, <1>2, <1>3, <1>4, <1>5, <1>6, <1>7, <1>8, <1>9, <1>10, <1>11, <1>12, <1>13, <1>14,
       <1>15, <1>16, <1>17, <1>18 DEF WsNext, WsEndpointStep, WsHeartStep

\* What was closed while registered is being closed.
LEMMA ClosedIsClosingNext == WsIInv /\ [WsNext]_wsVars => ClosedIsClosing'
<1> SUFFICES ASSUME WsIInv, [WsNext]_wsVars PROVE ClosedIsClosing'
  OBVIOUS
<1> USE WsAssumption DEF WsIInv, WsInv, ClosedIsClosing, NotEnteredYet, WsTypeOK, WsGoesTo
<1>1. ASSUME NEW c \in Conns, WsCount(c) PROVE ClosedIsClosing'
  BY <1>1 DEF WsCount
<1>2. ASSUME NEW c \in Conns, WsRegister(c) PROVE ClosedIsClosing'
  BY <1>2 DEF WsRegister
<1>3. ASSUME NEW c \in Conns, WsAcceptFails(c) PROVE ClosedIsClosing'
  BY <1>3 DEF WsAcceptFails
<1>4. ASSUME NEW c \in Conns, WsGreets(c) PROVE ClosedIsClosing'
  BY <1>4 DEF WsGreets, SendFails
<1>5. ASSUME NEW c \in Conns, WsDrains(c) PROVE ClosedIsClosing'
  BY <1>5 DEF WsDrains, SendFails
<1>6. ASSUME NEW c \in Conns, WsReceivesDisconnect(c) PROVE ClosedIsClosing'
  BY <1>6 DEF WsReceivesDisconnect
<1>7. ASSUME NEW c \in Conns, WsLeaves(c) PROVE ClosedIsClosing'
  BY <1>7 DEF WsLeaves
<1>8. ASSUME NEW c \in Conns, WsEndpointCloses(c) PROVE ClosedIsClosing'
  BY <1>8 DEF WsEndpointCloses, CloseBegins
<1>9. ASSUME NEW c \in Conns, WsHeartEnds(c) PROVE ClosedIsClosing'
  BY <1>9 DEF WsHeartEnds
<1>10. ASSUME NEW c \in Conns, WsHeartCloses(c) PROVE ClosedIsClosing'
  BY <1>10 DEF WsHeartCloses, CloseBegins
<1>11. ASSUME NEW c \in Conns, WsPingFails(c) PROVE ClosedIsClosing'
  BY <1>11 DEF WsPingFails, SendFails
<1>12. ASSUME NEW c \in Conns, WsCloseEnds(c) PROVE ClosedIsClosing'
  BY <1>12 DEF WsCloseEnds
<1>13. ASSUME NEW c \in Conns, WsDisconnect(c) PROVE ClosedIsClosing'
  BY <1>13 DEF WsDisconnect, CloseBegins
<1>14. ASSUME NEW c \in Conns, WsTells(c) PROVE ClosedIsClosing'
  BY <1>14 DEF WsTells, SendFails
<1>15. ASSUME NEW c \in Conns, WsPeerGoes(c) PROVE ClosedIsClosing'
  BY <1>15 DEF WsPeerGoes
<1>16. CASE WsBroadcast
  BY <1>16 DEF WsBroadcast
<1>17. CASE WsShutdown
  BY <1>17 DEF WsShutdown
<1>18. CASE UNCHANGED wsVars
  BY <1>18 DEF wsVars
<1> QED
  BY <1>1, <1>2, <1>3, <1>4, <1>5, <1>6, <1>7, <1>8, <1>9, <1>10, <1>11, <1>12, <1>13, <1>14,
       <1>15, <1>16, <1>17, <1>18 DEF WsNext, WsEndpointStep, WsHeartStep

\* What is registered is watched.
LEMMA WatchedNext == WsIInv /\ [WsNext]_wsVars => RegisteredIsWatched'
<1> SUFFICES ASSUME WsIInv, [WsNext]_wsVars PROVE RegisteredIsWatched'
  OBVIOUS
<1> USE WsAssumption DEF WsIInv, WsInv, RegisteredIsWatched, ClosedIsClosing, NotEnteredYet,
     WsTypeOK, WsGoesTo, Stuck
<1>1. ASSUME NEW c \in Conns, WsCount(c) PROVE RegisteredIsWatched'
  BY <1>1 DEF WsCount
<1>2. ASSUME NEW c \in Conns, WsRegister(c) PROVE RegisteredIsWatched'
  BY <1>2 DEF WsRegister
<1>3. ASSUME NEW c \in Conns, WsAcceptFails(c) PROVE RegisteredIsWatched'
  BY <1>3 DEF WsAcceptFails
<1>4. ASSUME NEW c \in Conns, WsGreets(c) PROVE RegisteredIsWatched'
  BY <1>4 DEF WsGreets, SendFails
<1>5. ASSUME NEW c \in Conns, WsDrains(c) PROVE RegisteredIsWatched'
  BY <1>5 DEF WsDrains, SendFails
<1>6. ASSUME NEW c \in Conns, WsReceivesDisconnect(c) PROVE RegisteredIsWatched'
  BY <1>6 DEF WsReceivesDisconnect
<1>7. ASSUME NEW c \in Conns, WsLeaves(c) PROVE RegisteredIsWatched'
  BY <1>7 DEF WsLeaves
<1>8. ASSUME NEW c \in Conns, WsEndpointCloses(c) PROVE RegisteredIsWatched'
  BY <1>8 DEF WsEndpointCloses, CloseBegins
<1>9. ASSUME NEW c \in Conns, WsHeartEnds(c) PROVE RegisteredIsWatched'
  BY <1>9 DEF WsHeartEnds
<1>10. ASSUME NEW c \in Conns, WsHeartCloses(c) PROVE RegisteredIsWatched'
  BY <1>10 DEF WsHeartCloses, CloseBegins
<1>11. ASSUME NEW c \in Conns, WsPingFails(c) PROVE RegisteredIsWatched'
  BY <1>11 DEF WsPingFails, SendFails
<1>12. ASSUME NEW c \in Conns, WsCloseEnds(c) PROVE RegisteredIsWatched'
  BY <1>12 DEF WsCloseEnds
<1>13. ASSUME NEW c \in Conns, WsDisconnect(c) PROVE RegisteredIsWatched'
  BY <1>13 DEF WsDisconnect, CloseBegins
<1>14. ASSUME NEW c \in Conns, WsTells(c) PROVE RegisteredIsWatched'
  BY <1>14 DEF WsTells, SendFails
<1>15. ASSUME NEW c \in Conns, WsPeerGoes(c) PROVE RegisteredIsWatched'
  BY <1>15 DEF WsPeerGoes
<1>16. CASE WsBroadcast
  BY <1>16 DEF WsBroadcast
<1>17. CASE WsShutdown
  BY <1>17 DEF WsShutdown
<1>18. CASE UNCHANGED wsVars
  BY <1>18 DEF wsVars
<1> QED
  BY <1>1, <1>2, <1>3, <1>4, <1>5, <1>6, <1>7, <1>8, <1>9, <1>10, <1>11, <1>12, <1>13, <1>14,
       <1>15, <1>16, <1>17, <1>18 DEF WsNext, WsEndpointStep, WsHeartStep

\* The addresses' connections keep to the limit.
LEMMA LimitNext == WsIInv /\ [WsNext]_wsVars => LimitHolds'
<1> SUFFICES ASSUME WsIInv, [WsNext]_wsVars, attempts' = "apart"
             PROVE  Cardinality((registered \cup Pending)') <= MaxPerIp
  BY DEF LimitHolds
<1> USE WsAssumption DEF WsIInv, WsInv, WsTypeOK, WsGoesTo
<1>1. IsFiniteSet(registered) /\ IsFiniteSet(registered \cup Pending)
  <2>1. IsFiniteSet(Conns)
    BY FS_Interval DEF Conns
  <2> QED
    BY <2>1, FS_Subset DEF Pending
<1>2. CASE \E c \in Conns : WsCount(c)
  <2>1. PICK c \in Conns : WsCount(c)
    BY <1>2
  <2>2. Pending = {} /\ attempts = "apart" /\ registered' = registered
    BY <2>1 DEF WsCount
  <2>3. CASE Cardinality(registered) >= MaxPerIp
    <3>1. Pending' = {}
      BY <2>1, <2>2, <2>3 DEF WsCount, Pending
    <3> QED
      BY <2>2, <3>1 DEF LimitHolds
  <2>4. CASE ~(Cardinality(registered) >= MaxPerIp)
    <3>1. (registered \cup Pending)' \subseteq registered \cup {c}
      BY <2>1, <2>2 DEF WsCount, Pending
    <3>2. IsFiniteSet(registered \cup {c}) /\ Cardinality(registered \cup {c}) <= MaxPerIp
      <4>1. /\ IsFiniteSet(registered \cup {c}) /\ Cardinality(registered \cup {c}) \in Nat
            /\ Cardinality(registered) \in Nat
            /\ Cardinality(registered \cup {c}) <= Cardinality(registered) + 1
        BY <1>1, OneMore
      <4> QED
        BY <4>1, <2>4
    <3>3. /\ IsFiniteSet((registered \cup Pending)')
          /\ Cardinality((registered \cup Pending)') <= Cardinality(registered \cup {c})
      BY <3>1, <3>2, FS_Subset
    <3> QED
      BY <3>2, <3>3, FS_CardinalityType
  <2> QED
    BY <2>3, <2>4
<1>3. CASE ~(\E c \in Conns : WsCount(c))
  <2>1. (registered \cup Pending)' \subseteq registered \cup Pending /\ attempts = "apart"
    <3>1. ASSUME NEW c \in Conns, WsEndpointStep(c) \/ WsHeartStep(c)
          PROVE (registered \cup Pending)' \subseteq registered \cup Pending /\ attempts = "apart"
      BY <3>1 DEF WsEndpointStep, WsHeartStep, WsRegister, WsAcceptFails, WsGreets, WsDrains,
         WsReceivesDisconnect, WsLeaves, WsEndpointCloses, WsHeartEnds, WsHeartCloses,
         WsPingFails, Pending
    <3>2. ASSUME NEW c \in Conns, WsCloseEnds(c) \/ WsDisconnect(c) \/ WsTells(c) \/ WsPeerGoes(c)
          PROVE (registered \cup Pending)' \subseteq registered \cup Pending /\ attempts = "apart"
      BY <3>2 DEF WsCloseEnds, WsDisconnect, WsTells, WsPeerGoes, Pending
    <3>3. CASE WsBroadcast \/ WsShutdown \/ UNCHANGED wsVars
      BY <3>3 DEF WsBroadcast, WsShutdown, wsVars, Pending
    <3> QED
      BY <1>3, <3>1, <3>2, <3>3 DEF WsNext
  <2>2. Cardinality((registered \cup Pending)') <= Cardinality(registered \cup Pending)
    BY <1>1, <2>1, FS_Subset
  <2>3. Cardinality((registered \cup Pending)') \in Nat
    BY <1>1, <2>1, FS_Subset, FS_CardinalityType
  <2> QED
    BY <1>1, <2>1, <2>2, <2>3, FS_CardinalityType DEF LimitHolds
<1> QED
  BY <1>2, <1>3

\* The connections keep to the limit, and each that is registered will be closed.
LEMMA ConnectionsAreSafe == WsInit /\ [][WsNext]_wsVars => []WsInv
<1>1. WsIInv /\ [WsNext]_wsVars => WsIInv'
  BY WsTypeNext, NotEnteredNext, ClosedIsClosingNext, WatchedNext, LimitNext DEF WsIInv, WsInv
<1>2. WsIInv => WsInv
  BY DEF WsIInv
<1> QED
  BY WsInitInv, <1>1, <1>2, PTL

-----------------------------------------------------------------------------
(* useEventSource.ts and App.tsx.  Events are on their way only while the stream is open,  *)
(* each older than the next and none newer than the backend; and the hook only tries again *)
(* while it has attempts left.                                                             *)

UpdateCounts ==
  /\ boot \in 1 .. MaxBoots /\ rev \in 0 .. MaxRevision /\ glitches \in 0 .. MaxGlitches
  /\ tries \in 0 .. MaxTries /\ lastPolled \in 0 .. MaxRevision + 1

UpdateFlags ==
  /\ up \in BOOLEAN /\ retryTimer \in BOOLEAN /\ hookPolls \in BOOLEAN
  /\ appTimer \in BOOLEAN /\ exitNote \in BOOLEAN /\ gap \in BOOLEAN

UpdateQueue == queue \in Seq(Snapshots) /\ Len(queue) <= QueueSize

UpdateViews ==
  /\ es \in {"none", "starting", "opening", "open"}
  /\ sseStatus \in {"idle", "reconnecting", "connected", "polling"}
  /\ view \in [ready : BOOLEAN, page : BOOLEAN, shown : Snapshots]
  /\ answer \in [{"hook", "app"} -> Snapshots \cup {NoAnswer}]

StreamIsOneAtATime ==
  /\ retryTimer => es = "none"
  /\ es # "open" => queue = <<>>
  /\ es # "none" \/ retryTimer => tries < MaxTries

QueueIsPast ==
  \A i \in 1 .. Len(queue) : /\ queue[i][1] = boot /\ queue[i][2] <= rev
                             /\ i < Len(queue) => queue[i][2] < rev

UpdatesIInv ==
  /\ UpdateCounts /\ UpdateFlags /\ UpdateQueue /\ UpdateViews
  /\ StreamIsOneAtATime /\ QueueIsPast /\ FollowingIsTrying /\ FreshOrGap

BootTyped == boot \in 1 .. MaxBoots /\ rev \in 0 .. MaxRevision
GlitchesTyped == glitches \in 0 .. MaxGlitches
TriesTyped == tries \in 0 .. MaxTries
LastPolledTyped == lastPolled \in 0 .. MaxRevision + 1
QueueTyped == queue \in Seq(Snapshots)
QueueBounded == Len(queue) <= QueueSize
UpTyped == up \in BOOLEAN
RetryTyped == retryTimer \in BOOLEAN
HookTyped == hookPolls \in BOOLEAN
AppTyped == appTimer \in BOOLEAN
NoteTyped == exitNote \in BOOLEAN
GapTyped == gap \in BOOLEAN
StreamTyped == es \in {"none", "starting", "opening", "open"}
StatusTyped == sseStatus \in {"idle", "reconnecting", "connected", "polling"}
ViewTyped == view \in [ready : BOOLEAN, page : BOOLEAN, shown : Snapshots]
AnswerTyped == answer \in [{"hook", "app"} -> Snapshots \cup {NoAnswer}]
\* The initial state satisfies the invariant.
LEMMA UpdatesInitInv == UpdatesInit => UpdatesIInv
<1> SUFFICES ASSUME UpdatesInit PROVE UpdatesIInv
  OBVIOUS
<1> USE UpdatesAssumption DEF UpdatesInit
<1>1. UpdateCounts /\ UpdateFlags
  <2>1. UpdateCounts
    <3> USE DEF UpdateCounts
    <3>1. BootTyped
      BY DEF UpdatesInit, BootTyped
    <3>2. GlitchesTyped
      BY DEF UpdatesInit, GlitchesTyped
    <3>3. TriesTyped
      BY DEF UpdatesInit, TriesTyped
    <3>4. LastPolledTyped
      BY DEF UpdatesInit, LastPolledTyped
    <3> QED
      BY <3>1, <3>2, <3>3, <3>4 DEF BootTyped, GlitchesTyped, TriesTyped, LastPolledTyped
  <2>2. UpdateFlags
    BY DEF UpdateFlags
  <2> QED
    BY <2>1, <2>2
<1>4. UpdateQueue
  BY DEF UpdateQueue
<1>2. UpdateViews
  BY DEF UpdateViews, Snapshots, Now
<1>3. StreamIsOneAtATime /\ QueueIsPast /\ FollowingIsTrying /\ FreshOrGap
  BY DEF StreamIsOneAtATime, QueueIsPast, FollowingIsTrying, FreshOrGap
<1> QED
  BY <1>1, <1>2, <1>3, <1>4 DEF UpdatesIInv

\* What a rendering comes to.
Rendered(v, left, missed, polls) ==
  /\ view' = v
  /\ \/ /\ tries' = 0 /\ queue' = <<>> /\ ~retryTimer' /\ ~hookPolls'
        /\ retryTimer' = FALSE /\ hookPolls' = FALSE
        /\ gap' = (missed \/ left # <<>>)
        /\ es' = IF Follows(v) THEN "starting" ELSE "none"
     \/ /\ queue' = left /\ gap' = missed /\ hookPolls' = polls
        /\ es' = es /\ tries' = tries /\ retryTimer' = retryTimer
        /\ Follows(v) = Follows(view)

\* A rendering starts the stream anew, or ends it, or leaves it alone.
LEMMA RendersEither ==
  ASSUME NEW STATE v, NEW STATE timer, NEW STATE left, NEW STATE missed, NEW STATE polls,
         Renders(v, timer, left, missed, polls)
  PROVE  Rendered(v, left, missed, polls)
BY Zenon DEF Renders, CleansUp, Rendered

\* The counts keep to their bounds.
LEMMA UpdateCountsNext == UpdatesIInv /\ [UpdatesNext]_updateVars => UpdateCounts'
<1> SUFFICES ASSUME UpdatesIInv, [UpdatesNext]_updateVars PROVE UpdateCounts'
  OBVIOUS
<1> USE UpdatesAssumption DEF UpdatesIInv, backendVars, streamVars, hookVars, UpdateCounts,
     UpdateViews, StreamIsOneAtATime, Snapshots, NoAnswer
<1>1. CASE Publishes
  BY <1>1 DEF BootTyped, GlitchesTyped, TriesTyped, LastPolledTyped, Publishes
<1>2. CASE BackendExits
  BY <1>2 DEF BootTyped, GlitchesTyped, TriesTyped, LastPolledTyped, BackendExits
<1>3. CASE BackendStarts
  BY <1>3 DEF BootTyped, GlitchesTyped, TriesTyped, LastPolledTyped, BackendStarts
<1>4. CASE Connects
  BY <1>4 DEF BootTyped, GlitchesTyped, TriesTyped, LastPolledTyped, Connects, StatusBecomes
<1>5. CASE Opens
  BY <1>5 DEF BootTyped, GlitchesTyped, TriesTyped, LastPolledTyped, Opens, StatusBecomes
<1>6. CASE Receives
  <2>1. Rendered([view EXCEPT !.shown = Head(queue)], Tail(queue), gap /\ Head(queue) # Now,
                 hookPolls)
    BY <1>6, RendersEither DEF Receives
  <2>2. BootTyped' /\ GlitchesTyped' /\ LastPolledTyped'
    BY <2>1, <1>6 DEF BootTyped, GlitchesTyped, LastPolledTyped, Receives, Rendered
  <2>3. TriesTyped'
    BY SMTT(60), <2>1, <1>6 DEF Receives, Rendered, TriesTyped
  <2> QED
    BY <2>2, <2>3 DEF BootTyped, GlitchesTyped, TriesTyped, LastPolledTyped
<1>7. CASE Breaks
  BY <1>7 DEF BootTyped, GlitchesTyped, TriesTyped, LastPolledTyped, Breaks, StreamEnds,
     StatusBecomes
<1>8. CASE HookAsks
  BY <1>8 DEF BootTyped, GlitchesTyped, TriesTyped, LastPolledTyped, HookAsks
<1>9. CASE HookAnswers
  <2>1. \/ Rendered(view, queue, gap, Follows(view))
        \/ Rendered([view EXCEPT !.shown = answer.hook], queue, Astray(answer.hook),
             Follows(view))
    BY <1>9, RendersEither DEF HookAnswers
  <2>2. BootTyped' /\ GlitchesTyped'
    BY <2>1, <1>9 DEF BootTyped, GlitchesTyped, HookAnswers, Rendered
  <2>3. TriesTyped'
    BY SMTT(60), <2>1, <1>9 DEF HookAnswers, Rendered, TriesTyped
  <2>4. LastPolledTyped'
    BY SMTT(60), <2>1, <1>9 DEF HookAnswers, Rendered, LastPolledTyped
  <2> QED
    BY <2>2, <2>3, <2>4 DEF BootTyped, GlitchesTyped, TriesTyped, LastPolledTyped
<1>10. CASE AppAsks
  <2>1. \/ Rendered([view EXCEPT !.ready = FALSE], queue, gap, hookPolls)
        \/ UNCHANGED <<es, queue, gap, tries, retryTimer, hookPolls, view>>
    BY <1>10, RendersEither DEF AppAsks
  <2>2. BootTyped' /\ GlitchesTyped' /\ TriesTyped' /\ LastPolledTyped'
    BY <2>1, <1>10 DEF BootTyped, GlitchesTyped, TriesTyped, LastPolledTyped, AppAsks,
       Rendered
  <2> QED
    BY <2>2 DEF BootTyped, GlitchesTyped, TriesTyped, LastPolledTyped
<1>11. CASE AppAnswers
  <2>1. \/ Rendered([view EXCEPT !.ready = TRUE], queue, gap, hookPolls)
        \/ Rendered([view EXCEPT !.ready = TRUE, !.shown = answer.app], queue,
                    Astray(answer.app), hookPolls)
    BY <1>11, RendersEither DEF AppAnswers
  <2>2. BootTyped' /\ GlitchesTyped' /\ TriesTyped' /\ LastPolledTyped'
    BY <2>1, <1>11 DEF BootTyped, GlitchesTyped, TriesTyped, LastPolledTyped, AppAnswers,
       Rendered
  <2> QED
    BY <2>2 DEF BootTyped, GlitchesTyped, TriesTyped, LastPolledTyped
<1>12. CASE LearnsOfExit
  <2>1. \/ Rendered([view EXCEPT !.ready = FALSE], queue, gap, FALSE)
        \/ /\ es' = "none" /\ queue' = <<>> /\ gap' = (gap \/ queue # <<>>)
           /\ retryTimer' = FALSE /\ hookPolls' = FALSE
           /\ view' = [view EXCEPT !.ready = FALSE] /\ tries' = tries
    BY <1>12, RendersEither DEF LearnsOfExit, CleansUp
  <2>2. BootTyped' /\ GlitchesTyped' /\ TriesTyped' /\ LastPolledTyped'
    BY <2>1, <1>12 DEF BootTyped, GlitchesTyped, TriesTyped, LastPolledTyped, LearnsOfExit,
       Rendered
  <2> QED
    BY <2>2 DEF BootTyped, GlitchesTyped, TriesTyped, LastPolledTyped
<1>13. CASE TurnsPage
  <2>1. Rendered([view EXCEPT !.page = ~@], queue, gap, hookPolls)
    BY <1>13, RendersEither DEF TurnsPage
  <2>2. tries' = 0 \/ tries' = tries
    BY <2>1 DEF Rendered
  <2>3. BootTyped' /\ GlitchesTyped' /\ LastPolledTyped'
    BY <2>1, <1>13 DEF BootTyped, GlitchesTyped, LastPolledTyped, TurnsPage, Rendered
  <2>4. TriesTyped'
    BY <2>2 DEF TriesTyped
  <2> QED
    BY <2>3, <2>4 DEF BootTyped, GlitchesTyped, TriesTyped, LastPolledTyped
<1>14. CASE UNCHANGED updateVars
  BY <1>14 DEF BootTyped, GlitchesTyped, TriesTyped, LastPolledTyped, updateVars
<1> QED
  BY <1>1, <1>2, <1>3, <1>4, <1>5, <1>6, <1>7, <1>8, <1>9, <1>10, <1>11, <1>12, <1>13,
       <1>14 DEF UpdatesNext

\* Whether the session is followed is a Boolean.
LEMMA FollowsIsBoolean == ASSUME UpdateViews PROVE Follows(view) \in BOOLEAN
<1>1. view.ready \in BOOLEAN /\ view.page \in BOOLEAN /\ SessionRuns(view.shown) \in BOOLEAN
  BY DEF UpdateViews, SessionRuns
<1> QED
  BY <1>1, Zenon DEF Follows

\* The flags are Boolean.
LEMMA UpdateFlagsNext == UpdatesIInv /\ [UpdatesNext]_updateVars => UpdateFlags'
<1> SUFFICES ASSUME UpdatesIInv, [UpdatesNext]_updateVars PROVE UpdateFlags'
  OBVIOUS
<1> USE UpdatesAssumption DEF UpdatesIInv, backendVars, streamVars, hookVars, UpdateFlags,
     UpdateCounts
<1>1. CASE Publishes
  BY <1>1 DEF UpTyped, RetryTyped, HookTyped, AppTyped, NoteTyped, GapTyped, Publishes
<1>2. CASE BackendExits
  BY <1>2 DEF UpTyped, RetryTyped, HookTyped, AppTyped, NoteTyped, GapTyped, BackendExits
<1>3. CASE BackendStarts
  BY <1>3 DEF UpTyped, RetryTyped, HookTyped, AppTyped, NoteTyped, GapTyped, BackendStarts
<1>4. CASE Connects
  BY <1>4 DEF UpTyped, RetryTyped, HookTyped, AppTyped, NoteTyped, GapTyped, Connects,
     StatusBecomes
<1>5. CASE Opens
  BY <1>5 DEF UpTyped, RetryTyped, HookTyped, AppTyped, NoteTyped, GapTyped, Opens,
     StatusBecomes
<1>6. CASE Receives
  <2>1. Rendered([view EXCEPT !.shown = Head(queue)], Tail(queue), gap /\ Head(queue) # Now,
                 hookPolls)
    BY <1>6, RendersEither DEF Receives
  <2>2. UpTyped' /\ RetryTyped' /\ HookTyped' /\ NoteTyped' /\ GapTyped'
    BY <2>1, <1>6 DEF UpTyped, RetryTyped, HookTyped, NoteTyped, GapTyped, Receives,
       Rendered
  <2>3. AppTyped'
    BY <1>6 DEF Receives, Renders, StatusBecomes, CleansUp, AppTyped
  <2> QED
    BY <2>2, <2>3 DEF UpTyped, RetryTyped, HookTyped, AppTyped, NoteTyped, GapTyped
<1>7. CASE Breaks
  BY <1>7 DEF UpTyped, RetryTyped, HookTyped, AppTyped, NoteTyped, GapTyped, Breaks,
     StreamEnds, StatusBecomes
<1>8. CASE HookAsks
  BY <1>8 DEF UpTyped, RetryTyped, HookTyped, AppTyped, NoteTyped, GapTyped, HookAsks
<1>9. CASE HookAnswers
  <2>1. \/ Rendered(view, queue, gap, Follows(view))
        \/ Rendered([view EXCEPT !.shown = answer.hook], queue, Astray(answer.hook),
             Follows(view))
    BY <1>9, RendersEither DEF HookAnswers
  <2>2. Follows(view) \in BOOLEAN /\ Astray(answer.hook) \in BOOLEAN
    BY FollowsIsBoolean, Zenon DEF UpdatesIInv, Astray
  <2> HIDE DEF Follows, Astray
  <2>3. hookPolls' = FALSE \/ hookPolls' = Follows(view)
    BY <2>1, Zenon DEF Rendered
  <2>4. hookPolls' \in BOOLEAN
    BY <2>2, <2>3, Zenon
  <2>5. UpTyped' /\ RetryTyped' /\ NoteTyped'
    BY <2>1, <2>2, <1>9 DEF UpTyped, RetryTyped, NoteTyped, HookAnswers, Rendered
  <2>6. HookTyped'
    BY <2>4 DEF HookTyped
  <2>7. AppTyped' /\ GapTyped'
    BY <1>9 DEF AppTyped, GapTyped, HookAnswers, Renders, StatusBecomes, CleansUp, Astray
  <2> QED
    BY <2>5, <2>6, <2>7 DEF UpTyped, RetryTyped, HookTyped, AppTyped, NoteTyped, GapTyped
<1>10. CASE AppAsks
  <2>1. \/ Rendered([view EXCEPT !.ready = FALSE], queue, gap, hookPolls)
        \/ UNCHANGED <<es, queue, gap, tries, retryTimer, hookPolls, view>>
    BY <1>10, RendersEither DEF AppAsks
  <2>2. UpTyped' /\ RetryTyped' /\ HookTyped' /\ NoteTyped' /\ GapTyped'
    BY <2>1, <1>10 DEF UpTyped, RetryTyped, HookTyped, NoteTyped, GapTyped, AppAsks,
       Rendered
  <2>3. AppTyped'
    BY <1>10 DEF AppAsks, Renders, StatusBecomes, CleansUp, AppTyped
  <2> QED
    BY <2>2, <2>3 DEF UpTyped, RetryTyped, HookTyped, AppTyped, NoteTyped, GapTyped
<1>11. CASE AppAnswers
  <2>1. \/ Rendered([view EXCEPT !.ready = TRUE], queue, gap, hookPolls)
        \/ Rendered([view EXCEPT !.ready = TRUE, !.shown = answer.app], queue,
                    Astray(answer.app), hookPolls)
    BY <1>11, RendersEither DEF AppAnswers
  <2>2. Astray(answer.app) \in BOOLEAN
    BY Zenon DEF Astray
  <2> HIDE DEF Astray
  <2>3. UpTyped' /\ RetryTyped' /\ HookTyped' /\ NoteTyped'
    BY <2>1, <2>2, <1>11 DEF UpTyped, RetryTyped, HookTyped, NoteTyped, AppAnswers, Rendered
  <2>4. AppTyped' /\ GapTyped'
    BY <1>11 DEF AppTyped, GapTyped, AppAnswers, Renders, StatusBecomes, CleansUp, Astray
  <2> QED
    BY <2>3, <2>4 DEF UpTyped, RetryTyped, HookTyped, AppTyped, NoteTyped, GapTyped
<1>12. CASE LearnsOfExit
  <2>1. \/ Rendered([view EXCEPT !.ready = FALSE], queue, gap, FALSE)
        \/ /\ es' = "none" /\ queue' = <<>> /\ gap' = (gap \/ queue # <<>>)
           /\ retryTimer' = FALSE /\ hookPolls' = FALSE
           /\ view' = [view EXCEPT !.ready = FALSE] /\ tries' = tries
    BY <1>12, RendersEither DEF LearnsOfExit, CleansUp
  <2>2. UpTyped' /\ RetryTyped' /\ HookTyped' /\ NoteTyped' /\ GapTyped'
    BY <2>1, <1>12 DEF UpTyped, RetryTyped, HookTyped, NoteTyped, GapTyped, LearnsOfExit,
       Rendered
  <2>3. AppTyped'
    BY <1>12 DEF LearnsOfExit, Renders, StatusBecomes, CleansUp, AppTyped
  <2> QED
    BY <2>2, <2>3 DEF UpTyped, RetryTyped, HookTyped, AppTyped, NoteTyped, GapTyped
<1>13. CASE TurnsPage
  <2>1. Rendered([view EXCEPT !.page = ~@], queue, gap, hookPolls)
    BY <1>13, RendersEither DEF TurnsPage
  <2>2. UpTyped' /\ RetryTyped' /\ HookTyped' /\ NoteTyped' /\ GapTyped'
    BY <2>1, <1>13 DEF UpTyped, RetryTyped, HookTyped, NoteTyped, GapTyped, TurnsPage,
       Rendered
  <2>3. AppTyped'
    BY <1>13 DEF TurnsPage, Renders, StatusBecomes, CleansUp, AppTyped
  <2> QED
    BY <2>2, <2>3 DEF UpTyped, RetryTyped, HookTyped, AppTyped, NoteTyped, GapTyped
<1>14. CASE UNCHANGED updateVars
  BY <1>14 DEF UpTyped, RetryTyped, HookTyped, AppTyped, NoteTyped, GapTyped, updateVars
<1> QED
  BY <1>1, <1>2, <1>3, <1>4, <1>5, <1>6, <1>7, <1>8, <1>9, <1>10, <1>11, <1>12, <1>13,
       <1>14 DEF UpdatesNext

\* The events on their way are snapshots, and within the limit.
LEMMA UpdateQueueNext == UpdatesIInv /\ [UpdatesNext]_updateVars => UpdateQueue'
<1> SUFFICES ASSUME UpdatesIInv, [UpdatesNext]_updateVars PROVE UpdateQueue'
  OBVIOUS
<1> USE UpdatesAssumption DEF UpdatesIInv, backendVars, streamVars, hookVars, UpdateQueue,
     UpdateCounts
<1>1. CASE Publishes
  <2> DEFINE a == Append(queue, <<boot, rev'>>)
  <2>1. <<boot, rev'>> \in Snapshots
    BY <1>1 DEF Publishes, UpdateCounts, Snapshots
  <2>2. /\ a \in Seq(Snapshots) /\ Len(a) = Len(queue) + 1
        /\ \A i \in 1 .. Len(queue) : a[i] = queue[i]
        /\ a[Len(queue) + 1] = <<boot, rev'>>
    BY <2>1, AppendProperties DEF UpdateQueue
  <2>3. Len(queue) \in Nat
    BY DEF UpdateQueue
  <2>4. \/ queue' = a /\ Len(queue) < QueueSize
        \/ queue' = queue /\ gap' = TRUE
    BY <1>1 DEF Publishes
  <2>5. boot' = boot /\ rev' = rev + 1 /\ es' = es
    BY <1>1 DEF Publishes
  <2>6. queue' = a => es = "open"
    <3>1. CASE queue' = queue /\ queue = a
      BY <2>2, <2>3, <3>1
    <3>2. CASE queue # a
      BY <1>1, <2>4, <3>2 DEF Publishes
    <3> QED
      BY <2>4, <3>1, <3>2
  <2> HIDE DEF a
  <2> QED
    BY <2>2, <2>3, <2>4
<1>2. CASE BackendExits
  BY <1>2 DEF QueueTyped, QueueBounded, BackendExits
<1>3. CASE BackendStarts
  BY <1>3 DEF QueueTyped, QueueBounded, BackendStarts
<1>4. CASE Connects
  BY <1>4 DEF QueueTyped, QueueBounded, Connects, StatusBecomes
<1>5. CASE Opens
  BY <1>5 DEF QueueTyped, QueueBounded, Opens, StatusBecomes
<1>6. CASE Receives
  <2>1. Rendered([view EXCEPT !.shown = Head(queue)], Tail(queue), gap /\ Head(queue) # Now,
                 hookPolls)
    BY <1>6, RendersEither DEF Receives
  <2>2. queue # <<>>
    BY <1>6 DEF Receives
  <2>3. /\ Head(queue) \in Snapshots /\ Head(queue) = queue[1]
        /\ Tail(queue) \in Seq(Snapshots) /\ Len(Tail(queue)) = Len(queue) - 1
        /\ \A i \in 1 .. Len(queue) - 1 : Tail(queue)[i] = queue[i + 1]
        /\ Len(queue) \in Nat /\ Len(queue) >= 1
    BY <2>2, HeadTailProperties DEF UpdateQueue
  <2> DEFINE b == Tail(queue)
  <2>4. <<>> \in Seq(Snapshots) /\ Len(<<>>) = 0
    BY EmptySeq
  <2>5. queue' = <<>> \/ queue' = b
    BY <2>1 DEF Rendered
  <2>6. b \in Seq(Snapshots) /\ Len(b) <= QueueSize
    BY <2>3 DEF UpdateQueue
  <2>7. QueueSize >= 0
    BY UpdatesAssumption
  <2> HIDE DEF b
  <2>8. QueueTyped' /\ QueueBounded'
    BY <2>5, <2>6, <2>4, <2>7 DEF QueueTyped, QueueBounded
  <2> QED
    BY <2>8 DEF QueueTyped, QueueBounded
<1>7. CASE Breaks
  BY <1>7 DEF QueueTyped, QueueBounded, Breaks, StreamEnds, StatusBecomes
<1>8. CASE HookAsks
  BY <1>8 DEF QueueTyped, QueueBounded, HookAsks
<1>9. CASE HookAnswers
  <2>1. \/ Rendered(view, queue, gap, Follows(view))
        \/ Rendered([view EXCEPT !.shown = answer.hook], queue, Astray(answer.hook),
             Follows(view))
    BY <1>9, RendersEither DEF HookAnswers
  <2> DEFINE b == queue
  <2>2. <<>> \in Seq(Snapshots) /\ Len(<<>>) = 0
    BY EmptySeq
  <2>3. queue' = <<>> \/ queue' = b
    BY <2>1 DEF Rendered
  <2>4. b \in Seq(Snapshots) /\ Len(b) <= QueueSize
    BY DEF UpdateQueue
  <2>5. QueueSize >= 0
    BY UpdatesAssumption
  <2> HIDE DEF b
  <2>6. QueueTyped' /\ QueueBounded'
    BY <2>3, <2>4, <2>2, <2>5 DEF QueueTyped, QueueBounded
  <2> QED
    BY <2>6 DEF QueueTyped, QueueBounded
<1>10. CASE AppAsks
  <2>1. \/ Rendered([view EXCEPT !.ready = FALSE], queue, gap, hookPolls)
        \/ UNCHANGED <<es, queue, gap, tries, retryTimer, hookPolls, view>>
    BY <1>10, RendersEither DEF AppAsks
  <2> DEFINE b == queue
  <2>2. <<>> \in Seq(Snapshots) /\ Len(<<>>) = 0
    BY EmptySeq
  <2>3. queue' = <<>> \/ queue' = b
    BY <2>1 DEF Rendered
  <2>4. b \in Seq(Snapshots) /\ Len(b) <= QueueSize
    BY DEF UpdateQueue
  <2>5. QueueSize >= 0
    BY UpdatesAssumption
  <2> HIDE DEF b
  <2>6. QueueTyped' /\ QueueBounded'
    BY <2>3, <2>4, <2>2, <2>5 DEF QueueTyped, QueueBounded
  <2> QED
    BY <2>6 DEF QueueTyped, QueueBounded
<1>11. CASE AppAnswers
  <2>1. \/ Rendered([view EXCEPT !.ready = TRUE], queue, gap, hookPolls)
        \/ Rendered([view EXCEPT !.ready = TRUE, !.shown = answer.app], queue,
                    Astray(answer.app), hookPolls)
    BY <1>11, RendersEither DEF AppAnswers
  <2> DEFINE b == queue
  <2>2. <<>> \in Seq(Snapshots) /\ Len(<<>>) = 0
    BY EmptySeq
  <2>3. queue' = <<>> \/ queue' = b
    BY <2>1 DEF Rendered
  <2>4. b \in Seq(Snapshots) /\ Len(b) <= QueueSize
    BY DEF UpdateQueue
  <2>5. QueueSize >= 0
    BY UpdatesAssumption
  <2> HIDE DEF b
  <2>6. QueueTyped' /\ QueueBounded'
    BY <2>3, <2>4, <2>2, <2>5 DEF QueueTyped, QueueBounded
  <2> QED
    BY <2>6 DEF QueueTyped, QueueBounded
<1>12. CASE LearnsOfExit
  <2>1. \/ Rendered([view EXCEPT !.ready = FALSE], queue, gap, FALSE)
        \/ /\ es' = "none" /\ queue' = <<>> /\ gap' = (gap \/ queue # <<>>)
           /\ retryTimer' = FALSE /\ hookPolls' = FALSE
           /\ view' = [view EXCEPT !.ready = FALSE] /\ tries' = tries
    BY <1>12, RendersEither DEF LearnsOfExit, CleansUp
  <2> DEFINE b == queue
  <2>2. <<>> \in Seq(Snapshots) /\ Len(<<>>) = 0
    BY EmptySeq
  <2>3. queue' = <<>> \/ queue' = b
    BY <2>1 DEF Rendered
  <2>4. b \in Seq(Snapshots) /\ Len(b) <= QueueSize
    BY DEF UpdateQueue
  <2>5. QueueSize >= 0
    BY UpdatesAssumption
  <2> HIDE DEF b
  <2>6. QueueTyped' /\ QueueBounded'
    BY <2>3, <2>4, <2>2, <2>5 DEF QueueTyped, QueueBounded
  <2> QED
    BY <2>6 DEF QueueTyped, QueueBounded
<1>13. CASE TurnsPage
  <2>1. Rendered([view EXCEPT !.page = ~@], queue, gap, hookPolls)
    BY <1>13, RendersEither DEF TurnsPage
  <2> DEFINE b == queue
  <2>2. <<>> \in Seq(Snapshots) /\ Len(<<>>) = 0
    BY EmptySeq
  <2>3. queue' = <<>> \/ queue' = b
    BY <2>1 DEF Rendered
  <2>4. b \in Seq(Snapshots) /\ Len(b) <= QueueSize
    BY DEF UpdateQueue
  <2>5. QueueSize >= 0
    BY UpdatesAssumption
  <2> HIDE DEF b
  <2>6. QueueTyped' /\ QueueBounded'
    BY <2>3, <2>4, <2>2, <2>5 DEF QueueTyped, QueueBounded
  <2> QED
    BY <2>6 DEF QueueTyped, QueueBounded
<1>14. CASE UNCHANGED updateVars
  BY <1>14 DEF QueueTyped, QueueBounded, updateVars
<1> QED
  BY <1>1, <1>2, <1>3, <1>4, <1>5, <1>6, <1>7, <1>8, <1>9, <1>10, <1>11, <1>12, <1>13,
       <1>14 DEF UpdatesNext

\* The views are those there are.
LEMMA UpdateViewsNext == UpdatesIInv /\ [UpdatesNext]_updateVars => UpdateViews'
<1> SUFFICES ASSUME UpdatesIInv, [UpdatesNext]_updateVars PROVE UpdateViews'
  OBVIOUS
<1> USE UpdatesAssumption DEF UpdatesIInv, backendVars, streamVars, hookVars, UpdateViews,
     NoAnswer
<1>1. CASE Publishes
  BY <1>1 DEF StreamTyped, StatusTyped, ViewTyped, AnswerTyped, Publishes
<1>2. CASE BackendExits
  BY <1>2 DEF StreamTyped, StatusTyped, ViewTyped, AnswerTyped, BackendExits
<1>3. CASE BackendStarts
  BY <1>3 DEF StreamTyped, StatusTyped, ViewTyped, AnswerTyped, BackendStarts
<1>4. CASE Connects
  BY <1>4 DEF StreamTyped, StatusTyped, ViewTyped, AnswerTyped, Connects, StatusBecomes
<1>5. CASE Opens
  BY <1>5 DEF StreamTyped, StatusTyped, ViewTyped, AnswerTyped, Opens, StatusBecomes
<1>6. CASE Receives
  <2>1. Rendered([view EXCEPT !.shown = Head(queue)], Tail(queue), gap /\ Head(queue) # Now,
                 hookPolls)
    BY <1>6, RendersEither DEF Receives
  <2>2. queue # <<>>
    BY <1>6 DEF Receives
  <2>3. /\ Head(queue) \in Snapshots /\ Head(queue) = queue[1]
        /\ Tail(queue) \in Seq(Snapshots) /\ Len(Tail(queue)) = Len(queue) - 1
        /\ \A i \in 1 .. Len(queue) - 1 : Tail(queue)[i] = queue[i + 1]
        /\ Len(queue) \in Nat /\ Len(queue) >= 1
    BY <2>2, HeadTailProperties DEF UpdateQueue
  <2>4. sseStatus' \in {sseStatus, "idle"}
    BY <1>6 DEF Receives, Renders, StatusBecomes
  <2> DEFINE h == Head(queue)
  <2>5. h \in Snapshots /\ view' = [view EXCEPT !.shown = h]
    BY <2>1, <2>3 DEF Rendered
  <2> HIDE DEF h
  <2>6. StreamTyped' /\ AnswerTyped'
    BY <2>1, <1>6 DEF StreamTyped, AnswerTyped, Receives, Rendered
  <2>7. StatusTyped'
    BY <2>4 DEF StatusTyped
  <2>8. ViewTyped'
    BY <2>5 DEF ViewTyped
  <2> QED
    BY <2>6, <2>7, <2>8 DEF StreamTyped, StatusTyped, ViewTyped, AnswerTyped
<1>7. CASE Breaks
  BY <1>7 DEF StreamTyped, StatusTyped, ViewTyped, AnswerTyped, Breaks, StreamEnds,
     StatusBecomes
<1>8. CASE HookAsks
  <2>1. Now \in Snapshots
    BY DEF Now, Snapshots, UpdateCounts
  <2>2. StreamTyped' /\ StatusTyped' /\ ViewTyped'
    BY <1>8 DEF StreamTyped, StatusTyped, ViewTyped, HookAsks
  <2>3. AnswerTyped'
    BY <2>1, <1>8 DEF HookAsks, AnswerTyped
  <2> QED
    BY <2>2, <2>3 DEF StreamTyped, StatusTyped, ViewTyped, AnswerTyped
<1>9. CASE HookAnswers
  <2>1. \/ Rendered(view, queue, gap, Follows(view))
        \/ Rendered([view EXCEPT !.shown = answer.hook], queue, Astray(answer.hook),
             Follows(view))
    BY <1>9, RendersEither DEF HookAnswers
  <2>2. sseStatus' \in {sseStatus, "idle"}
    BY <1>9 DEF HookAnswers, Renders, StatusBecomes
  <2>3. StreamTyped' /\ ViewTyped' /\ AnswerTyped'
    BY <2>1, <1>9 DEF StreamTyped, ViewTyped, AnswerTyped, HookAnswers, Rendered
  <2>4. StatusTyped'
    BY <2>2 DEF StatusTyped
  <2> QED
    BY <2>3, <2>4 DEF StreamTyped, StatusTyped, ViewTyped, AnswerTyped
<1>10. CASE AppAsks
  <2>1. \/ Rendered([view EXCEPT !.ready = FALSE], queue, gap, hookPolls)
        \/ UNCHANGED <<es, queue, gap, tries, retryTimer, hookPolls, view>>
    BY <1>10, RendersEither DEF AppAsks
  <2>2. sseStatus' \in {sseStatus, "idle"}
    BY <1>10 DEF AppAsks, Renders, StatusBecomes
  <2>3. Now \in Snapshots
    BY DEF Now, Snapshots, UpdateCounts
  <2>4. answer' = answer \/ answer' = [answer EXCEPT !.app = Now]
    BY <1>10 DEF AppAsks
  <2>5. StreamTyped' /\ ViewTyped'
    BY <2>1, <1>10 DEF StreamTyped, ViewTyped, AppAsks, Rendered
  <2>6. StatusTyped'
    BY <2>2 DEF StatusTyped
  <2>7. AnswerTyped'
    BY <2>3, <2>4 DEF AnswerTyped
  <2> QED
    BY <2>5, <2>6, <2>7 DEF StreamTyped, StatusTyped, ViewTyped, AnswerTyped
<1>11. CASE AppAnswers
  <2>1. \/ Rendered([view EXCEPT !.ready = TRUE], queue, gap, hookPolls)
        \/ Rendered([view EXCEPT !.ready = TRUE, !.shown = answer.app], queue,
                    Astray(answer.app), hookPolls)
    BY <1>11, RendersEither DEF AppAnswers
  <2>2. sseStatus' \in {sseStatus, "idle"}
    BY <1>11 DEF AppAnswers, Renders, StatusBecomes
  <2>3. StreamTyped' /\ ViewTyped' /\ AnswerTyped'
    BY <2>1, <1>11 DEF StreamTyped, ViewTyped, AnswerTyped, AppAnswers, Rendered
  <2>4. StatusTyped'
    BY <2>2 DEF StatusTyped
  <2> QED
    BY <2>3, <2>4 DEF StreamTyped, StatusTyped, ViewTyped, AnswerTyped
<1>12. CASE LearnsOfExit
  <2>1. \/ Rendered([view EXCEPT !.ready = FALSE], queue, gap, FALSE)
        \/ /\ es' = "none" /\ queue' = <<>> /\ gap' = (gap \/ queue # <<>>)
           /\ retryTimer' = FALSE /\ hookPolls' = FALSE
           /\ view' = [view EXCEPT !.ready = FALSE] /\ tries' = tries
    BY <1>12, RendersEither DEF LearnsOfExit, CleansUp
  <2>2. sseStatus' \in {sseStatus, "idle"}
    BY <1>12 DEF LearnsOfExit, Renders, StatusBecomes
  <2>3. StreamTyped' /\ ViewTyped' /\ AnswerTyped'
    BY <2>1, <1>12 DEF StreamTyped, ViewTyped, AnswerTyped, LearnsOfExit, Rendered
  <2>4. StatusTyped'
    BY <2>2 DEF StatusTyped
  <2> QED
    BY <2>3, <2>4 DEF StreamTyped, StatusTyped, ViewTyped, AnswerTyped
<1>13. CASE TurnsPage
  <2>1. Rendered([view EXCEPT !.page = ~@], queue, gap, hookPolls)
    BY <1>13, RendersEither DEF TurnsPage
  <2>2. sseStatus' \in {sseStatus, "idle"}
    BY <1>13 DEF TurnsPage, Renders, StatusBecomes
  <2>3. StreamTyped' /\ ViewTyped' /\ AnswerTyped'
    BY <2>1, <1>13 DEF StreamTyped, ViewTyped, AnswerTyped, TurnsPage, Rendered
  <2>4. StatusTyped'
    BY <2>2 DEF StatusTyped
  <2> QED
    BY <2>3, <2>4 DEF StreamTyped, StatusTyped, ViewTyped, AnswerTyped
<1>14. CASE UNCHANGED updateVars
  BY <1>14 DEF StreamTyped, StatusTyped, ViewTyped, AnswerTyped, updateVars
<1> QED
  BY <1>1, <1>2, <1>3, <1>4, <1>5, <1>6, <1>7, <1>8, <1>9, <1>10, <1>11, <1>12, <1>13,
       <1>14 DEF UpdatesNext

\* There is one stream at a time, and attempts are left to open it.
LEMMA StreamIsOneAtATimeNext == UpdatesIInv /\ [UpdatesNext]_updateVars => StreamIsOneAtATime'
<1> SUFFICES ASSUME UpdatesIInv, [UpdatesNext]_updateVars PROVE StreamIsOneAtATime'
  OBVIOUS
<1> USE UpdatesAssumption DEF UpdatesIInv, backendVars, streamVars, hookVars,
     StreamIsOneAtATime, UpdateCounts
<1>1. CASE Publishes
  <2> DEFINE a == Append(queue, <<boot, rev'>>)
  <2>1. <<boot, rev'>> \in Snapshots
    BY <1>1 DEF Publishes, UpdateCounts, Snapshots
  <2>2. /\ a \in Seq(Snapshots) /\ Len(a) = Len(queue) + 1
        /\ \A i \in 1 .. Len(queue) : a[i] = queue[i]
        /\ a[Len(queue) + 1] = <<boot, rev'>>
    BY <2>1, AppendProperties DEF UpdateQueue
  <2>3. Len(queue) \in Nat
    BY DEF UpdateQueue
  <2>4. \/ queue' = a /\ Len(queue) < QueueSize
        \/ queue' = queue /\ gap' = TRUE
    BY <1>1 DEF Publishes
  <2>5. boot' = boot /\ rev' = rev + 1 /\ es' = es
    BY <1>1 DEF Publishes
  <2>6. queue' = a => es = "open"
    <3>1. CASE queue' = queue /\ queue = a
      BY <2>2, <2>3, <3>1
    <3>2. CASE queue # a
      BY <1>1, <2>4, <3>2 DEF Publishes
    <3> QED
      BY <2>4, <3>1, <3>2
  <2> HIDE DEF a
  <2>7. tries' = tries /\ retryTimer' = retryTimer
    BY <1>1 DEF Publishes
  <2> QED
    BY <2>4, <2>5, <2>6, <2>7
<1>2. CASE BackendExits
  BY <1>2 DEF BackendExits
<1>3. CASE BackendStarts
  BY <1>3 DEF BackendStarts
<1>4. CASE Connects
  BY <1>4 DEF Connects, StatusBecomes
<1>5. CASE Opens
  BY <1>5 DEF Opens, StatusBecomes
<1>6. CASE Receives
  <2>0. Rendered([view EXCEPT !.shown = Head(queue)], Tail(queue), gap /\ Head(queue) # Now,
                 hookPolls)
    BY <1>6, RendersEither DEF Receives
  <2>7. es = "open" /\ queue # <<>>
    BY <1>6 DEF Receives
  <2> QED
    BY <2>0, <2>7 DEF Rendered
<1>7. CASE Breaks
  BY <1>7 DEF Breaks, StreamEnds, StatusBecomes
<1>8. CASE HookAsks
  BY <1>8 DEF HookAsks
<1>9. CASE HookAnswers
  <2>0. \/ Rendered(view, queue, gap, Follows(view))
        \/ Rendered([view EXCEPT !.shown = answer.hook], queue, Astray(answer.hook),
             Follows(view))
    BY <1>9, RendersEither DEF HookAnswers
  <2> QED
    BY <2>0, <1>9 DEF HookAnswers, Rendered
<1>10. CASE AppAsks
  <2>0. \/ Rendered([view EXCEPT !.ready = FALSE], queue, gap, hookPolls)
        \/ UNCHANGED <<es, queue, gap, tries, retryTimer, hookPolls, view>>
    BY <1>10, RendersEither DEF AppAsks
  <2> QED
    BY <2>0, <1>10 DEF AppAsks, Rendered
<1>11. CASE AppAnswers
  <2>0. \/ Rendered([view EXCEPT !.ready = TRUE], queue, gap, hookPolls)
        \/ Rendered([view EXCEPT !.ready = TRUE, !.shown = answer.app], queue,
                    Astray(answer.app), hookPolls)
    BY <1>11, RendersEither DEF AppAnswers
  <2> QED
    BY <2>0, <1>11 DEF AppAnswers, Rendered
<1>12. CASE LearnsOfExit
  <2>0. \/ Rendered([view EXCEPT !.ready = FALSE], queue, gap, FALSE)
        \/ /\ es' = "none" /\ queue' = <<>> /\ gap' = (gap \/ queue # <<>>)
           /\ retryTimer' = FALSE /\ hookPolls' = FALSE
           /\ view' = [view EXCEPT !.ready = FALSE] /\ tries' = tries
    BY <1>12, RendersEither DEF LearnsOfExit, CleansUp
  <2> QED
    BY <2>0, <1>12 DEF LearnsOfExit, Rendered
<1>13. CASE TurnsPage
  <2>0. Rendered([view EXCEPT !.page = ~@], queue, gap, hookPolls)
    BY <1>13, RendersEither DEF TurnsPage
  <2> QED
    BY <2>0, <1>13 DEF TurnsPage, Rendered
<1>14. CASE UNCHANGED updateVars
  BY <1>14 DEF updateVars
<1> QED
  BY <1>1, <1>2, <1>3, <1>4, <1>5, <1>6, <1>7, <1>8, <1>9, <1>10, <1>11, <1>12, <1>13,
       <1>14 DEF UpdatesNext

\* Events are older than those behind them.
LEMMA QueueIsPastNext == UpdatesIInv /\ [UpdatesNext]_updateVars => QueueIsPast'
<1> SUFFICES ASSUME UpdatesIInv, [UpdatesNext]_updateVars PROVE QueueIsPast'
  OBVIOUS
<1> USE UpdatesAssumption DEF UpdatesIInv, backendVars, streamVars, hookVars, QueueIsPast,
     StreamIsOneAtATime, UpdateCounts, UpdateQueue
<1>1. CASE Publishes
  <2> DEFINE a == Append(queue, <<boot, rev'>>)
  <2>1. <<boot, rev'>> \in Snapshots
    BY <1>1 DEF Publishes, UpdateCounts, Snapshots
  <2>2. /\ a \in Seq(Snapshots) /\ Len(a) = Len(queue) + 1
        /\ \A i \in 1 .. Len(queue) : a[i] = queue[i]
        /\ a[Len(queue) + 1] = <<boot, rev'>>
    BY <2>1, AppendProperties DEF UpdateQueue
  <2>3. Len(queue) \in Nat
    BY DEF UpdateQueue
  <2>4. \/ queue' = a /\ Len(queue) < QueueSize
        \/ queue' = queue /\ gap' = TRUE
    BY <1>1 DEF Publishes
  <2>5. boot' = boot /\ rev' = rev + 1 /\ es' = es
    BY <1>1 DEF Publishes
  <2>6. queue' = a => es = "open"
    <3>1. CASE queue' = queue /\ queue = a
      BY <2>2, <2>3, <3>1
    <3>2. CASE queue # a
      BY <1>1, <2>4, <3>2 DEF Publishes
    <3> QED
      BY <2>4, <3>1, <3>2
  <2> HIDE DEF a
  <2>7. ASSUME NEW i \in 1 .. Len(queue') PROVE
             /\ queue'[i][1] = boot' /\ queue'[i][2] <= rev'
             /\ i < Len(queue') => queue'[i][2] < rev'
    <3>1. CASE i \in 1 .. Len(queue) /\ queue'[i] = queue[i]
      <4>1. queue[i][1] = boot /\ queue[i][2] <= rev /\ queue[i] \in Snapshots
        BY <3>1 DEF UpdateQueue
      <4>2. queue[i][2] \in Int
        BY <4>1 DEF Snapshots
      <4> QED
        BY <3>1, <4>1, <4>2, <2>5 DEF UpdateCounts
    <3>2. CASE i = Len(queue) + 1 /\ queue' = a
      BY <3>2, <2>2, <2>5 DEF UpdateCounts
    <3> QED
      BY <2>2, <2>3, <2>4, <3>1, <3>2
  <2> QED
    BY <2>7 DEF QueueIsPast
<1>2. CASE BackendExits
  BY <1>2 DEF BackendExits
<1>3. CASE BackendStarts
  BY <1>3 DEF BackendStarts
<1>4. CASE Connects
  BY <1>4 DEF Connects, StatusBecomes
<1>5. CASE Opens
  BY <1>5 DEF Opens, StatusBecomes
<1>6. CASE Receives
  <2>0. Rendered([view EXCEPT !.shown = Head(queue)], Tail(queue), gap /\ Head(queue) # Now,
                 hookPolls)
    BY <1>6, RendersEither DEF Receives
  <2>1. queue # <<>>
    BY <1>6 DEF Receives
  <2>2. /\ Head(queue) \in Snapshots /\ Head(queue) = queue[1]
        /\ Tail(queue) \in Seq(Snapshots) /\ Len(Tail(queue)) = Len(queue) - 1
        /\ \A i \in 1 .. Len(queue) - 1 : Tail(queue)[i] = queue[i + 1]
        /\ Len(queue) \in Nat /\ Len(queue) >= 1
    BY <2>1, HeadTailProperties DEF UpdateQueue
  <2>8. Len(<<>>) = 0
    OBVIOUS
  <2> DEFINE b == Tail(queue)
  <2>3. queue' = <<>> \/ queue' = b
    BY <2>0 DEF Rendered
  <2>4. boot' = boot /\ rev' = rev
    BY <1>6 DEF Receives
  <2>5. /\ Len(b) \in Nat /\ Len(b) = Len(queue) - 1
        /\ \A i \in 1 .. Len(b) : b[i] = queue[i + 1] /\ i + 1 \in 1 .. Len(queue)
                                  /\ (i < Len(b) => i + 1 < Len(queue))
    BY <2>2
  <2> HIDE DEF b
  <2> QED
    BY <2>3, <2>4, <2>5, <2>8
<1>7. CASE Breaks
  BY <1>7 DEF Breaks, StreamEnds, StatusBecomes
<1>8. CASE HookAsks
  BY <1>8 DEF HookAsks
<1>9. CASE HookAnswers
  <2>0. \/ Rendered(view, queue, gap, Follows(view))
        \/ Rendered([view EXCEPT !.shown = answer.hook], queue, Astray(answer.hook),
             Follows(view))
    BY <1>9, RendersEither DEF HookAnswers
  <2>7. queue' = <<>> \/ queue' = queue
    BY <2>0 DEF Rendered
  <2>8. Len(<<>>) = 0
    OBVIOUS
  <2> QED
    BY SMTT(60), <2>7, <2>8, <1>9 DEF HookAnswers
<1>10. CASE AppAsks
  <2>0. \/ Rendered([view EXCEPT !.ready = FALSE], queue, gap, hookPolls)
        \/ UNCHANGED <<es, queue, gap, tries, retryTimer, hookPolls, view>>
    BY <1>10, RendersEither DEF AppAsks
  <2>7. queue' = <<>> \/ queue' = queue
    BY <2>0 DEF Rendered
  <2>8. Len(<<>>) = 0
    OBVIOUS
  <2> QED
    BY SMTT(60), <2>7, <2>8, <1>10 DEF AppAsks
<1>11. CASE AppAnswers
  <2>0. \/ Rendered([view EXCEPT !.ready = TRUE], queue, gap, hookPolls)
        \/ Rendered([view EXCEPT !.ready = TRUE, !.shown = answer.app], queue,
                    Astray(answer.app), hookPolls)
    BY <1>11, RendersEither DEF AppAnswers
  <2>7. queue' = <<>> \/ queue' = queue
    BY <2>0 DEF Rendered
  <2>8. Len(<<>>) = 0
    OBVIOUS
  <2> QED
    BY SMTT(60), <2>7, <2>8, <1>11 DEF AppAnswers
<1>12. CASE LearnsOfExit
  <2>0. \/ Rendered([view EXCEPT !.ready = FALSE], queue, gap, FALSE)
        \/ /\ es' = "none" /\ queue' = <<>> /\ gap' = (gap \/ queue # <<>>)
           /\ retryTimer' = FALSE /\ hookPolls' = FALSE
           /\ view' = [view EXCEPT !.ready = FALSE] /\ tries' = tries
    BY <1>12, RendersEither DEF LearnsOfExit, CleansUp
  <2>7. queue' = <<>> \/ queue' = queue
    BY <2>0 DEF Rendered
  <2>8. Len(<<>>) = 0
    OBVIOUS
  <2> QED
    BY <2>7, <2>8, <1>12 DEF LearnsOfExit
<1>13. CASE TurnsPage
  <2>0. Rendered([view EXCEPT !.page = ~@], queue, gap, hookPolls)
    BY <1>13, RendersEither DEF TurnsPage
  <2>7. queue' = <<>> \/ queue' = queue
    BY <2>0 DEF Rendered
  <2>8. Len(<<>>) = 0
    OBVIOUS
  <2> QED
    BY SMTT(60), <2>7, <2>8, <1>13 DEF TurnsPage
<1>14. CASE UNCHANGED updateVars
  BY <1>14 DEF updateVars
<1> QED
  BY <1>1, <1>2, <1>3, <1>4, <1>5, <1>6, <1>7, <1>8, <1>9, <1>10, <1>11, <1>12, <1>13,
       <1>14 DEF UpdatesNext

\* What follows the session keeps trying.
LEMMA FollowingIsTryingNext == UpdatesIInv /\ [UpdatesNext]_updateVars => FollowingIsTrying'
<1> SUFFICES ASSUME UpdatesIInv, [UpdatesNext]_updateVars PROVE FollowingIsTrying'
  OBVIOUS
<1> USE UpdatesAssumption DEF UpdatesIInv, backendVars, streamVars, hookVars,
     FollowingIsTrying, UpdateCounts
<1>1. CASE Publishes
  BY <1>1 DEF Publishes
<1>2. CASE BackendExits
  BY <1>2 DEF BackendExits
<1>3. CASE BackendStarts
  BY <1>3 DEF BackendStarts
<1>4. CASE Connects
  BY <1>4 DEF Connects, StatusBecomes
<1>5. CASE Opens
  BY <1>5 DEF Opens, StatusBecomes
<1>6. CASE Receives
  <2>0. Rendered([view EXCEPT !.shown = Head(queue)], Tail(queue), gap /\ Head(queue) # Now,
                 hookPolls)
    BY <1>6, RendersEither DEF Receives
  <2> QED
    BY <2>0, <1>6 DEF Receives, Rendered
<1>7. CASE Breaks
  BY <1>7 DEF Breaks, StreamEnds, StatusBecomes
<1>8. CASE HookAsks
  <2>1. answer'.hook # NoAnswer
    BY <1>8 DEF HookAsks, UpdateViews, Now, NoAnswer, UpdateCounts
  <2> QED
    BY <1>8, <2>1 DEF HookAsks
<1>9. CASE HookAnswers
  <2>0. \/ Rendered(view, queue, gap, Follows(view))
        \/ Rendered([view EXCEPT !.shown = answer.hook], queue, Astray(answer.hook),
             Follows(view))
    BY <1>9, RendersEither DEF HookAnswers
  <2> QED
    BY <2>0, <1>9 DEF HookAnswers, Rendered
<1>10. CASE AppAsks
  <2>0. \/ Rendered([view EXCEPT !.ready = FALSE], queue, gap, hookPolls)
        \/ UNCHANGED <<es, queue, gap, tries, retryTimer, hookPolls, view>>
    BY <1>10, RendersEither DEF AppAsks
  <2>7. CASE Rendered([view EXCEPT !.ready = FALSE], queue, gap, hookPolls)
    <3>1. view'.ready = FALSE
      BY <2>7 DEF Rendered, UpdateViews
    <3> QED
      BY <3>1 DEF Follows
  <2>8. CASE UNCHANGED <<es, queue, gap, tries, retryTimer, hookPolls, view>>
    <3>1. answer'.hook = answer.hook
      BY <1>10 DEF AppAsks, UpdateViews
    <3> QED
      BY <2>8, <3>1
  <2> QED
    BY <2>0, <2>7, <2>8
<1>11. CASE AppAnswers
  <2>0. \/ Rendered([view EXCEPT !.ready = TRUE], queue, gap, hookPolls)
        \/ Rendered([view EXCEPT !.ready = TRUE, !.shown = answer.app], queue,
                    Astray(answer.app), hookPolls)
    BY <1>11, RendersEither DEF AppAnswers
  <2>7. answer'.hook = answer.hook
    BY <1>11 DEF AppAnswers, UpdateViews
  <2>8. \/ Follows(view') => es' = "starting"
        \/ /\ Follows(view') = Follows(view) /\ es' = es /\ retryTimer' = retryTimer
           /\ hookPolls' = hookPolls
    BY <2>0 DEF Rendered
  <2> QED
    BY <2>7, <2>8
<1>12. CASE LearnsOfExit
  <2>0. \/ Rendered([view EXCEPT !.ready = FALSE], queue, gap, FALSE)
        \/ /\ es' = "none" /\ queue' = <<>> /\ gap' = (gap \/ queue # <<>>)
           /\ retryTimer' = FALSE /\ hookPolls' = FALSE
           /\ view' = [view EXCEPT !.ready = FALSE] /\ tries' = tries
    BY <1>12, RendersEither DEF LearnsOfExit, CleansUp
  <2>7. view'.ready = FALSE
    BY <2>0 DEF Rendered, UpdateViews
  <2> QED
    BY <2>7 DEF Follows
<1>13. CASE TurnsPage
  <2>0. Rendered([view EXCEPT !.page = ~@], queue, gap, hookPolls)
    BY <1>13, RendersEither DEF TurnsPage
  <2> QED
    BY <2>0, <1>13 DEF TurnsPage, Rendered
<1>14. CASE UNCHANGED updateVars
  BY <1>14 DEF updateVars
<1> QED
  BY <1>1, <1>2, <1>3, <1>4, <1>5, <1>6, <1>7, <1>8, <1>9, <1>10, <1>11, <1>12, <1>13,
       <1>14 DEF UpdatesNext

\* The renderer is up to date, or has missed a change.
LEMMA FreshOrGapNext == UpdatesIInv /\ [UpdatesNext]_updateVars => FreshOrGap'
<1> SUFFICES ASSUME UpdatesIInv, [UpdatesNext]_updateVars PROVE FreshOrGap'
  OBVIOUS
<1> USE UpdatesAssumption DEF UpdatesIInv, backendVars, streamVars, hookVars, FreshOrGap,
     QueueIsPast, StreamIsOneAtATime, UpdateCounts, UpdateFlags, UpdateQueue, Now
<1>1. CASE Publishes
  <2> DEFINE a == Append(queue, <<boot, rev'>>)
  <2>1. <<boot, rev'>> \in Snapshots
    BY <1>1 DEF Publishes, UpdateCounts, Snapshots
  <2>2. /\ a \in Seq(Snapshots) /\ Len(a) = Len(queue) + 1
        /\ \A i \in 1 .. Len(queue) : a[i] = queue[i]
        /\ a[Len(queue) + 1] = <<boot, rev'>>
    BY <2>1, AppendProperties DEF UpdateQueue
  <2>3. Len(queue) \in Nat
    BY DEF UpdateQueue
  <2>4. \/ queue' = a /\ Len(queue) < QueueSize
        \/ queue' = queue /\ gap' = TRUE
    BY <1>1 DEF Publishes
  <2>5. boot' = boot /\ rev' = rev + 1 /\ es' = es
    BY <1>1 DEF Publishes
  <2>6. queue' = a => es = "open"
    <3>1. CASE queue' = queue /\ queue = a
      BY <2>2, <2>3, <3>1
    <3>2. CASE queue # a
      BY <1>1, <2>4, <3>2 DEF Publishes
    <3> QED
      BY <2>4, <3>1, <3>2
  <2> HIDE DEF a
  <2> QED
    BY <2>2, <2>3, <2>4, <2>5, <1>1 DEF Publishes
<1>2. CASE BackendExits
  BY <1>2 DEF BackendExits
<1>3. CASE BackendStarts
  BY <1>3 DEF BackendStarts
<1>4. CASE Connects
  BY <1>4 DEF Connects, StatusBecomes
<1>5. CASE Opens
  BY <1>5 DEF Opens, StatusBecomes
<1>6. CASE Receives
  <2>0. Rendered([view EXCEPT !.shown = Head(queue)], Tail(queue), gap /\ Head(queue) # Now,
                 hookPolls)
    BY <1>6, RendersEither DEF Receives
  <2>1. queue # <<>>
    BY <1>6 DEF Receives
  <2>2. /\ Head(queue) \in Snapshots /\ Head(queue) = queue[1]
        /\ Tail(queue) \in Seq(Snapshots) /\ Len(Tail(queue)) = Len(queue) - 1
        /\ \A i \in 1 .. Len(queue) - 1 : Tail(queue)[i] = queue[i + 1]
        /\ Len(queue) \in Nat /\ Len(queue) >= 1
    BY <2>1, HeadTailProperties DEF UpdateQueue
  <2> DEFINE b == Tail(queue)
  <2>3. view'.shown = queue[1]
    BY <2>0, <2>2 DEF Rendered, UpdateViews
  <2>4. boot' = boot /\ rev' = rev /\ up' = up
    BY <1>6 DEF Receives
  <2>5. \/ queue' = b /\ gap' = (gap /\ queue[1] # Now)
        \/ queue' = <<>> /\ gap' = ((gap /\ queue[1] # Now) \/ b # <<>>)
    BY <2>0, <2>2 DEF Rendered
  <2>6. /\ b = <<>> <=> Len(queue) = 1
        /\ b # <<>> => /\ b[Len(b)] = queue[Len(queue)] /\ Len(b) = Len(queue) - 1
                       /\ Len(queue) > 1
    <3>1. b \in Seq(Snapshots) /\ Len(b) = Len(queue) - 1
      BY <2>2
    <3>2. b = <<>> <=> Len(b) = 0
      BY <3>1, EmptySeq
    <3>3. Len(b) # 0 => b[Len(b)] = queue[Len(queue)]
      BY <2>2
    <3> QED
      BY <2>2, <3>1, <3>2, <3>3
  <2>7. queue[1] = Now => Len(queue) = 1
    <3>1. queue[1][2] <= rev /\ (1 < Len(queue) => queue[1][2] < rev)
      BY <2>2 DEF QueueIsPast
    <3> QED
      BY <2>2, <3>1 DEF Now, UpdateCounts
  <2> HIDE DEF b
  <2> QED
    BY <2>1, <2>2, <2>3, <2>4, <2>5, <2>6, <2>7
<1>7. CASE Breaks
  BY <1>7 DEF Breaks, StreamEnds, StatusBecomes
<1>8. CASE HookAsks
  BY <1>8 DEF HookAsks
<1>9. CASE HookAnswers
  <2>0. \/ Rendered(view, queue, gap, Follows(view))
        \/ Rendered([view EXCEPT !.shown = answer.hook], queue, Astray(answer.hook),
             Follows(view))
    BY <1>9, RendersEither DEF HookAnswers
  <2>1. CASE Rendered(view, queue, gap, Follows(view))
    <3>1. view'.shown = view.shown
      BY <2>1 DEF Rendered, UpdateViews
    <3>2. /\ boot' = boot /\ rev' = rev /\ up' = up
      BY <1>9 DEF HookAnswers
    <3>3. \/ queue' = queue /\ gap' = gap
          \/ queue' = <<>> /\ gap' = (gap \/ queue # <<>>)
      BY <2>1 DEF Rendered
    <3> QED
      BY <3>1, <3>2, <3>3
  <2>2. CASE Rendered([view EXCEPT !.shown = answer.hook], queue, Astray(answer.hook),
          Follows(view))
    <3>1. view'.shown = answer.hook
      BY <2>2 DEF Rendered, UpdateViews
    <3>2. /\ boot' = boot /\ rev' = rev /\ up' = up
      BY <1>9 DEF HookAnswers
    <3>3. queue' \in {queue, <<>>} /\ (~gap' => ~Astray(answer.hook))
      BY <2>2 DEF Rendered
    <3> QED
      BY <3>1, <3>2, <3>3 DEF Astray
  <2> QED
    BY <2>0, <2>1, <2>2
<1>10. CASE AppAsks
  <2>0. \/ Rendered([view EXCEPT !.ready = FALSE], queue, gap, hookPolls)
        \/ UNCHANGED <<es, queue, gap, tries, retryTimer, hookPolls, view>>
    BY <1>10, RendersEither DEF AppAsks
  <2>1. view'.shown = view.shown
    BY <2>0 DEF Rendered, UpdateViews
  <2>2. /\ boot' = boot /\ rev' = rev /\ up' = up
    BY <1>10 DEF AppAsks
  <2>3. \/ queue' = queue /\ gap' = gap
        \/ queue' = <<>> /\ gap' = (gap \/ queue # <<>>)
    BY <2>0 DEF Rendered
  <2> QED
    BY <2>1, <2>2, <2>3
<1>11. CASE AppAnswers
  <2>0. \/ Rendered([view EXCEPT !.ready = TRUE], queue, gap, hookPolls)
        \/ Rendered([view EXCEPT !.ready = TRUE, !.shown = answer.app], queue,
                    Astray(answer.app), hookPolls)
    BY <1>11, RendersEither DEF AppAnswers
  <2>1. CASE Rendered([view EXCEPT !.ready = TRUE], queue, gap, hookPolls)
    <3>1. view'.shown = view.shown
      BY <2>1 DEF Rendered, UpdateViews
    <3>2. /\ boot' = boot /\ rev' = rev /\ up' = up
      BY <1>11 DEF AppAnswers
    <3>3. \/ queue' = queue /\ gap' = gap
          \/ queue' = <<>> /\ gap' = (gap \/ queue # <<>>)
      BY <2>1 DEF Rendered
    <3> QED
      BY <3>1, <3>2, <3>3
  <2>2. CASE Rendered([view EXCEPT !.ready = TRUE, !.shown = answer.app], queue,
          Astray(answer.app), hookPolls)
    <3>1. view'.shown = answer.app
      BY <2>2 DEF Rendered, UpdateViews
    <3>2. /\ boot' = boot /\ rev' = rev /\ up' = up
      BY <1>11 DEF AppAnswers
    <3>3. queue' \in {queue, <<>>} /\ (~gap' => ~Astray(answer.app))
      BY <2>2 DEF Rendered
    <3> QED
      BY <3>1, <3>2, <3>3 DEF Astray
  <2> QED
    BY <2>0, <2>1, <2>2
<1>12. CASE LearnsOfExit
  <2>0. \/ Rendered([view EXCEPT !.ready = FALSE], queue, gap, FALSE)
        \/ /\ es' = "none" /\ queue' = <<>> /\ gap' = (gap \/ queue # <<>>)
           /\ retryTimer' = FALSE /\ hookPolls' = FALSE
           /\ view' = [view EXCEPT !.ready = FALSE] /\ tries' = tries
    BY <1>12, RendersEither DEF LearnsOfExit, CleansUp
  <2>1. view'.shown = view.shown
    BY <2>0 DEF Rendered, UpdateViews
  <2>2. /\ boot' = boot /\ rev' = rev /\ up' = up
    BY <1>12 DEF LearnsOfExit
  <2>3. \/ queue' = queue /\ gap' = gap
        \/ queue' = <<>> /\ gap' = (gap \/ queue # <<>>)
    BY <2>0 DEF Rendered
  <2> QED
    BY <2>1, <2>2, <2>3
<1>13. CASE TurnsPage
  <2>0. Rendered([view EXCEPT !.page = ~@], queue, gap, hookPolls)
    BY <1>13, RendersEither DEF TurnsPage
  <2>1. view'.shown = view.shown
    BY <2>0 DEF Rendered, UpdateViews
  <2>2. /\ boot' = boot /\ rev' = rev /\ up' = up
    BY <1>13 DEF TurnsPage
  <2>3. \/ queue' = queue /\ gap' = gap
        \/ queue' = <<>> /\ gap' = (gap \/ queue # <<>>)
    BY <2>0 DEF Rendered
  <2> QED
    BY <2>1, <2>2, <2>3
<1>14. CASE UNCHANGED updateVars
  BY <1>14 DEF updateVars
<1> QED
  BY <1>1, <1>2, <1>3, <1>4, <1>5, <1>6, <1>7, <1>8, <1>9, <1>10, <1>11, <1>12, <1>13,
       <1>14 DEF UpdatesNext

\* The renderer keeps trying, and shows what the backend has come to or has missed a change.
LEMMA UpdatesAreSafe == UpdatesInit /\ [][UpdatesNext]_updateVars => []UpdatesInv
<1>1. UpdatesIInv /\ [UpdatesNext]_updateVars => UpdatesIInv'
  BY UpdateCountsNext, UpdateFlagsNext, UpdateQueueNext, UpdateViewsNext,
     StreamIsOneAtATimeNext,
     QueueIsPastNext, FollowingIsTryingNext, FreshOrGapNext DEF UpdatesIInv
<1>2. UpdatesIInv => UpdatesInv
  BY DEF UpdatesIInv, UpdatesInv, UpdatesTypeOK, UpdateCounts, UpdateFlags, UpdateQueue,
         UpdateViews
<1> QED
  BY UpdatesInitInv, <1>1, <1>2, PTL

ProcessesTyped == child \in 0..NSpawns /\ processes \in [Processes -> Fate]
SupervisorFlags ==
  /\ backendReady \in BOOLEAN /\ suppressRestart \in BOOLEAN /\ restartTimer \in BOOLEAN
  /\ looking \in BOOLEAN /\ quitWhileLooking \in BOOLEAN /\ foreign \in BOOLEAN
  /\ crashed \in BOOLEAN
StartsBounded ==
  restartAttempts \in 0..MaxBackendRestarts /\ spawnsInARow \in 0..NSpawns
AnyoneUpIsChild ==
  /\ application \in {"launching", "running", "quitting", "gone"}
  /\ application \in {"launching", "running"} =>
       \A q \in Processes : processes[q] \in {"up", "well"} => child = q
-----------------------------------------------------------------------------
(* backendSpawn.js.  Whatever runs is the child that the application knows, and a start is *)
(* due from one side at a time: the launch, a timer that is set or a health check under    *)
(* way.  So each start that is due has been paid for with a restart attempt.               *)

StartIsDue == application = "launching" \/ looking \/ restartTimer

ChildIsKnown ==
  /\ \A p \in Processes : processes[p] \in {"up", "well"} => child = p
  /\ \A p \in Processes : processes[p] = "killed" =>
       /\ suppressRestart /\ ~StartIsDue /\ application \in {"quitting", "gone"}
       /\ \A q \in Processes : processes[q] \notin {"up", "well"}

OneStartDue ==
  /\ StartIsDue => child = 0
  /\ application = "launching" => ~looking /\ ~restartTimer
  /\ ~(looking /\ restartTimer)

StartsAreCounted ==
  /\ spawnsInARow + (IF StartIsDue THEN 1 ELSE 0) <= restartAttempts + 1
  /\ \A p \in Processes : processes[p] = "none" => spawnsInARow < p

SupervisorIInv == SupervisorTypeOK /\ ChildIsKnown /\ OneStartDue /\ StartsAreCounted

\* The initial state satisfies the invariant.
LEMMA SupervisorInitInv == SupervisorInit => SupervisorIInv
<1> SUFFICES ASSUME SupervisorInit PROVE SupervisorIInv
  OBVIOUS
<1> USE SupervisorAssumption DEF SupervisorInit, Processes, StartIsDue
<1>1. SupervisorTypeOK
  <2>1. child \in 0..NSpawns
    OBVIOUS
  <2>2. processes \in [Processes -> Fate]
    BY DEF Fate
  <2>3. /\ backendReady \in BOOLEAN /\ suppressRestart \in BOOLEAN /\ restartTimer \in BOOLEAN
        /\ looking \in BOOLEAN /\ quitWhileLooking \in BOOLEAN /\ foreign \in BOOLEAN
        /\ crashed \in BOOLEAN
    OBVIOUS
  <2>4. restartAttempts \in 0..MaxBackendRestarts /\ spawnsInARow \in 0..NSpawns
    OBVIOUS
  <2> QED
    BY <2>1, <2>2, <2>3, <2>4 DEF SupervisorTypeOK
<1>2. ChildIsKnown /\ OneStartDue /\ StartsAreCounted
  BY DEF ChildIsKnown, OneStartDue, StartsAreCounted
<1> QED
  BY <1>1, <1>2 DEF SupervisorIInv

\* Every step keeps the types.
LEMMA SupervisorTypeNext ==
  SupervisorIInv /\ [SupervisorNext]_supervisorVars => SupervisorTypeOK'
<1> SUFFICES ASSUME SupervisorIInv, [SupervisorNext]_supervisorVars PROVE SupervisorTypeOK'
  OBVIOUS
<1> USE SupervisorAssumption DEF SupervisorIInv, Processes, HandlersRun, SupervisorTypeOK, Fate
<1>1. CASE Launch
  BY <1>1 DEF Launch
<1>2. CASE TimerFires
  BY <1>2 DEF TimerFires
<1>3. CASE Checks
  BY <1>3 DEF Checks, Well
<1>4. CASE FoundRunning
  <2>1. ProcessesTyped' /\ SupervisorFlags'
    BY <1>4 DEF ProcessesTyped, SupervisorFlags, FoundRunning
  <2>2. StartsBounded' /\ AnyoneUpIsChild'
    BY <1>4 DEF StartsBounded, AnyoneUpIsChild, FoundRunning
  <2> QED
    BY <2>1, <2>2 DEF ProcessesTyped, SupervisorFlags, StartsBounded, AnyoneUpIsChild
<1>5. CASE SpawnsIt
  <2>1. ProcessesTyped'
    BY <1>5 DEF SpawnsIt, StartsAreCounted, OneStartDue, ChildIsKnown, ProcessesTyped
  <2>2. SupervisorFlags'
    BY <1>5 DEF SpawnsIt, StartsAreCounted, OneStartDue, ChildIsKnown, SupervisorFlags
  <2>3. StartsBounded'
    BY <1>5 DEF SpawnsIt, StartsAreCounted, OneStartDue, ChildIsKnown, StartsBounded
  <2>4. AnyoneUpIsChild'
    BY <1>5 DEF SpawnsIt, OneStartDue, StartIsDue, ChildIsKnown, AnyoneUpIsChild
  <2> QED
    BY <2>1, <2>2, <2>3, <2>4 DEF ProcessesTyped, SupervisorFlags, StartsBounded,
       AnyoneUpIsChild
<1>6. CASE Quits
  <2>1. ProcessesTyped'
    BY <1>6 DEF Quits, StopsBackend, Kills, ProcessesTyped
  <2>2. SupervisorFlags'
    BY <1>6 DEF Quits, StopsBackend, Kills, SupervisorFlags
  <2>3. StartsBounded'
    BY <1>6 DEF Quits, StopsBackend, Kills, StartsBounded
  <2>4. AnyoneUpIsChild'
    BY <1>6 DEF Quits, StopsBackend, Kills, AnyoneUpIsChild
  <2> QED
    BY <2>1, <2>2, <2>3, <2>4 DEF ProcessesTyped, SupervisorFlags, StartsBounded,
       AnyoneUpIsChild
<1>7. CASE Ends
  BY <1>7 DEF Ends
<1>8. CASE ForeignEnds
  BY <1>8 DEF ForeignEnds
<1>9. ASSUME NEW p \in Processes, BecomesWell(p) PROVE SupervisorTypeOK'
  BY <1>9 DEF BecomesWell
<1>10. ASSUME NEW p \in Processes, Exits(p) PROVE SupervisorTypeOK'
  <2>1. ProcessesTyped'
    BY <1>10 DEF Exits, ExitHandler, ChildIsKnown, ProcessesTyped
  <2>2. SupervisorFlags'
    BY <1>10 DEF Exits, ExitHandler, ChildIsKnown, SupervisorFlags
  <2>3. StartsBounded'
    BY <1>10 DEF Exits, ExitHandler, ChildIsKnown, StartsBounded
  <2>4. AnyoneUpIsChild'
    BY <1>10 DEF Exits, ExitHandler, ChildIsKnown, AnyoneUpIsChild
  <2> QED
    BY <2>1, <2>2, <2>3, <2>4 DEF ProcessesTyped, SupervisorFlags, StartsBounded,
       AnyoneUpIsChild
<1>11. CASE UNCHANGED supervisorVars
  BY <1>11 DEF supervisorVars
<1> QED
  BY <1>1, <1>2, <1>3, <1>4, <1>5, <1>6, <1>7, <1>8, <1>9, <1>10, <1>11 DEF SupervisorNext

\* The process that runs stays the child that the application knows.
LEMMA ChildIsKnownNext == SupervisorIInv /\ [SupervisorNext]_supervisorVars => ChildIsKnown'
<1> SUFFICES ASSUME SupervisorIInv, [SupervisorNext]_supervisorVars PROVE ChildIsKnown'
  OBVIOUS
<1> USE SupervisorAssumption DEF SupervisorIInv, Processes, HandlersRun, StartIsDue,
     SupervisorTypeOK, Fate, ChildIsKnown, OneStartDue
<1>1. CASE Launch
  BY <1>1 DEF Launch
<1>2. CASE TimerFires
  BY <1>2 DEF TimerFires
<1>3. CASE Checks
  BY <1>3 DEF Checks, Well
<1>4. CASE FoundRunning
  BY <1>4 DEF FoundRunning
<1>5. CASE SpawnsIt
  BY <1>5 DEF SpawnsIt
<1>6. CASE Quits
  BY <1>6 DEF Quits, StopsBackend, Kills
<1>7. CASE Ends
  BY <1>7 DEF Ends
<1>8. CASE ForeignEnds
  BY <1>8 DEF ForeignEnds
<1>9. ASSUME NEW p \in Processes, BecomesWell(p) PROVE ChildIsKnown'
  BY <1>9 DEF BecomesWell
<1>10. ASSUME NEW p \in Processes, Exits(p) PROVE ChildIsKnown'
  <2>1. \A q \in Processes : processes'[q] \in {"up", "well"} => q # p /\ child = q
    BY <1>10 DEF Exits
  <2>2. processes[p] \in {"up", "well"} => child = p
    OBVIOUS
  <2>3. ASSUME processes[p] = "killed"
        PROVE  ~restartTimer' /\ UNCHANGED <<suppressRestart, looking, application>>
    BY <1>10, <2>3 DEF Exits, ExitHandler
  <2> QED
    BY <1>10, <2>1, <2>2, <2>3 DEF Exits
<1>11. CASE UNCHANGED supervisorVars
  BY <1>11 DEF supervisorVars
<1> QED
  BY <1>1, <1>2, <1>3, <1>4, <1>5, <1>6, <1>7, <1>8, <1>9, <1>10, <1>11 DEF SupervisorNext

\* A start is due from one side at a time.
LEMMA OneStartDueNext == SupervisorIInv /\ [SupervisorNext]_supervisorVars => OneStartDue'
<1> SUFFICES ASSUME SupervisorIInv, [SupervisorNext]_supervisorVars PROVE OneStartDue'
  OBVIOUS
<1> USE SupervisorAssumption DEF SupervisorIInv, Processes, HandlersRun, StartIsDue,
     SupervisorTypeOK, Fate, OneStartDue, ChildIsKnown
<1>1. CASE Launch
  BY <1>1 DEF Launch
<1>2. CASE TimerFires
  BY <1>2 DEF TimerFires
<1>3. CASE Checks
  BY <1>3 DEF Checks, Well
<1>4. CASE FoundRunning
  BY <1>4 DEF FoundRunning
<1>5. CASE SpawnsIt
  BY <1>5 DEF SpawnsIt
<1>6. CASE Quits
  BY <1>6 DEF Quits, StopsBackend, Kills
<1>7. CASE Ends
  BY <1>7 DEF Ends
<1>8. CASE ForeignEnds
  BY <1>8 DEF ForeignEnds
<1>9. ASSUME NEW p \in Processes, BecomesWell(p) PROVE OneStartDue'
  BY <1>9 DEF BecomesWell
<1>10. ASSUME NEW p \in Processes, Exits(p) PROVE OneStartDue'
  BY <1>10 DEF Exits, ExitHandler
<1>11. CASE UNCHANGED supervisorVars
  BY <1>11 DEF supervisorVars
<1> QED
  BY <1>1, <1>2, <1>3, <1>4, <1>5, <1>6, <1>7, <1>8, <1>9, <1>10, <1>11 DEF SupervisorNext

\* The starts in a row stay within the attempts.
LEMMA StartsAreCountedNext ==
  SupervisorIInv /\ [SupervisorNext]_supervisorVars => StartsAreCounted'
<1> SUFFICES ASSUME SupervisorIInv, [SupervisorNext]_supervisorVars PROVE StartsAreCounted'
  OBVIOUS
<1> USE SupervisorAssumption DEF SupervisorIInv, Processes, HandlersRun, StartIsDue,
     SupervisorTypeOK, Fate, StartsAreCounted, OneStartDue, ChildIsKnown
<1>1. CASE Launch
  BY <1>1 DEF Launch
<1>2. CASE TimerFires
  BY <1>2 DEF TimerFires
<1>3. CASE Checks
  BY <1>3 DEF Checks, Well
<1>4. CASE FoundRunning
  BY <1>4 DEF FoundRunning
<1>5. CASE SpawnsIt
  BY <1>5 DEF SpawnsIt
<1>6. CASE Quits
  BY <1>6 DEF Quits, StopsBackend, Kills
<1>7. CASE Ends
  BY <1>7 DEF Ends
<1>8. CASE ForeignEnds
  BY <1>8 DEF ForeignEnds
<1>9. ASSUME NEW p \in Processes, BecomesWell(p) PROVE StartsAreCounted'
  BY <1>9 DEF BecomesWell
<1>10. ASSUME NEW p \in Processes, Exits(p) PROVE StartsAreCounted'
  BY <1>10 DEF Exits, ExitHandler
<1>11. CASE UNCHANGED supervisorVars
  BY <1>11 DEF supervisorVars
<1> QED
  BY <1>1, <1>2, <1>3, <1>4, <1>5, <1>6, <1>7, <1>8, <1>9, <1>10, <1>11 DEF SupervisorNext

\* No more starts follow one another than there are restarts, and one.
LEMMA SupervisorIsSafe == SupervisorInit /\ [][SupervisorNext]_supervisorVars => []SupervisorInv
<1>1. SupervisorIInv /\ [SupervisorNext]_supervisorVars => SupervisorIInv'
  BY SupervisorTypeNext, ChildIsKnownNext, OneStartDueNext, StartsAreCountedNext
     DEF SupervisorIInv
<1>2. SupervisorIInv => SupervisorInv
  BY SupervisorAssumption
     DEF SupervisorIInv, SupervisorInv, StartsAreCounted, SupervisorTypeOK, RestartsAreBounded
<1> QED
  BY SupervisorInitInv, <1>1, <1>2, PTL

-----------------------------------------------------------------------------
(* recovery_strategies.py.  While threads recover one at a time, what one has read of a    *)
(* chain or of a count is what is there, and a strategy is left behind only when it has    *)
(* nothing more to offer.                                                                  *)

Strategies == {"device", "guidance", "oom", "model", "download", "retry", "offline", "disk",
               "session"}
RecoverySteps == {"idle", "try", "compute", "device", "batch", "model", "retry", "wait"}
AttemptRecords == [kind : ErrorKinds \cup {"none"}, left : Seq(Strategies), step : RecoverySteps,
             read : Nat, applied : BOOLEAN]

AttemptsOK == attempt \in [RecoveryCallers -> AttemptRecords]

ChainsOK ==
  /\ chainAt \in [Chains -> Nat]
  /\ chainAt["compute"] <= 1 /\ chainAt["batch"] <= LastBatch /\ chainAt["model"] <= LastModel

RetriesOK ==
  /\ retries \in [{"unavailable", "timeout"} -> Nat]
  /\ retries["unavailable"] <= MaxRetries /\ retries["timeout"] <= MaxRetries

FlagsOK ==
  /\ offline \in BOOLEAN /\ together \in BOOLEAN /\ recorded \in 0 .. MaxHistory
  /\ errorsMet \in 0 .. NErrors /\ granted \in Nat

\* What is left to try fits the kind of the error.
LeftFits(kind, left) ==
  /\ Len(left) <= 2
  /\ Len(left) >= 1 =>
       /\ left[1] = "retry" => kind \in {"unavailable", "timeout"}
       /\ left[1] = "offline" => kind \in {"unavailable", "refused"}
       /\ left[1] = "model" => kind \in {"loadOom", "load", "corrupt"}
  /\ Len(left) = 2 =>
       \/ left[2] = "model" /\ kind = "loadOom" /\ left[1] = "oom"
       \/ left[2] = "model" /\ kind = "corrupt" /\ left[1] = "download"
       \/ left[2] = "offline" /\ left[1] = "retry" /\ kind = "unavailable"

AttemptsFit ==
  \A c \in RecoveryCallers :
    Recovering(c) => /\ attempt[c].kind \in ErrorKinds
                     /\ LeftFits(attempt[c].kind, attempt[c].left)
                     /\ attempt[c].kind \in {"load", "corrupt", "refused"} =>
                          attempt[c].kind \in lightly

OneRecovers ==
  ~together => \A c, d \in RecoveryCallers : Recovering(c) /\ Recovering(d) => c = d

Careful(c) ==
  ~together /\ Recovering(c) =>
    /\ attempt[c].step = "compute" => attempt[c].read = chainAt["compute"]
    /\ attempt[c].step = "batch" => attempt[c].read = chainAt["batch"]
    /\ attempt[c].step = "model" => attempt[c].read = chainAt["model"]
    /\ attempt[c].step = "retry" => attempt[c].read = retries[attempt[c].kind]
    /\ attempt[c].step \in {"device", "batch"} /\ ~attempt[c].applied =>
         chainAt["compute"] = 1
    /\ Len(attempt[c].left) >= 1 /\ attempt[c].left[1] = "model" /\ attempt[c].kind = "loadOom" =>
         chainAt["compute"] = 1 /\ chainAt["batch"] = LastBatch
    /\ Len(attempt[c].left) >= 1 /\ attempt[c].left[1] = "offline"
       /\ attempt[c].kind = "unavailable" =>
         retries["unavailable"] = MaxRetries

GrantsAreCounted == ~together => granted = retries["unavailable"] + retries["timeout"]

RecoveryIInv ==
  /\ AttemptsOK /\ ChainsOK /\ RetriesOK /\ FlagsOK /\ AttemptsFit /\ OneRecovers
  /\ \A c \in RecoveryCallers : Careful(c)
  /\ GrantsAreCounted /\ QualityIsGivenUpLast /\ OfflineAfterRetries

\* The initial state satisfies the invariant.
LEMMA RecoveryInitInv == RecoveryInit => RecoveryIInv
<1> SUFFICES ASSUME RecoveryInit PROVE RecoveryIInv
  OBVIOUS
<1> USE RecoveryAssumption DEF RecoveryInit
<1>1. Calm \in AttemptRecords /\ Calm.step = "idle"
  BY EmptySeq DEF Calm, AttemptRecords, RecoverySteps
<1>2. AttemptsOK
  BY <1>1 DEF AttemptsOK
<1>3. ChainsOK
  BY DEF ChainsOK, Chains, LastOf
<1>4. RetriesOK
  BY DEF RetriesOK
<1>5. FlagsOK
  <2>1. offline \in BOOLEAN /\ together \in BOOLEAN
    OBVIOUS
  <2>2. recorded \in 0 .. MaxHistory /\ errorsMet \in 0 .. NErrors /\ granted \in Nat
    OBVIOUS
  <2> QED
    BY <2>1, <2>2 DEF FlagsOK
<1>6. \A c \in RecoveryCallers : ~Recovering(c)
  BY <1>1 DEF Recovering
<1>7. AttemptsFit /\ OneRecovers /\ \A c \in RecoveryCallers : Careful(c)
  BY <1>6 DEF AttemptsFit, OneRecovers, Careful
<1>8. GrantsAreCounted
  BY DEF GrantsAreCounted
<1>9. QualityIsGivenUpLast /\ OfflineAfterRetries
  BY <1>3 DEF QualityIsGivenUpLast, OfflineAfterRetries, Chains, LastOf
<1> QED
  BY <1>2, <1>3, <1>4, <1>5, <1>7, <1>8, <1>9 DEF RecoveryIInv

\* What a step does to the attempt of its caller.
Others(c) == \A d \in RecoveryCallers \ {c} : attempt'[d] = attempt[d]
TurnsTo(c, step, read, applied) ==
  /\ attempt'[c].kind = attempt[c].kind /\ attempt'[c].left = attempt[c].left
  /\ attempt'[c].step = step /\ attempt'[c].read = read /\ attempt'[c].applied = applied
TriesNext(c) ==
  /\ attempt'[c].kind = attempt[c].kind /\ attempt'[c].step = "try"
  /\ Len(attempt'[c].left) = Len(attempt[c].left) - 1
  /\ Len(attempt'[c].left) >= 1 => attempt'[c].left[1] = attempt[c].left[2]

\* An attempt that ends leaves the others alone.
LEMMA SucceedsEnds ==
  ASSUME AttemptsOK, NEW c \in RecoveryCallers, Succeeds(c)
  PROVE  AttemptsOK' /\ Others(c) /\ attempt'[c].step = "idle"
<1>1. Calm \in AttemptRecords /\ Calm.step = "idle"
  BY EmptySeq DEF Calm, AttemptRecords, RecoverySteps
<1> QED
  BY <1>1 DEF AttemptsOK, Others, Succeeds

\* An attempt whose strategy failed goes on to the next.
LEMMA FailsTriesNext ==
  ASSUME AttemptsOK, NEW c \in RecoveryCallers, attempt[c].left # <<>>, Fails(c)
  PROVE  AttemptsOK' /\ Others(c) /\ TriesNext(c)
<1> DEFINE l == Tail(attempt[c].left)
<1>1. attempt[c] \in AttemptRecords /\ attempt[c].left \in Seq(Strategies)
  BY DEF AttemptsOK, AttemptRecords
<1>2. /\ l \in Seq(Strategies) /\ Len(l) = Len(attempt[c].left) - 1 /\ Len(l) \in Nat
      /\ Len(l) >= 1 => l[1] = attempt[c].left[2]
  BY <1>1, HeadTailProperties
<1> HIDE DEF l
<1>3. attempt' = [attempt EXCEPT ![c].left = l, ![c].step = "try", ![c].read = 0,
                                 ![c].applied = FALSE]
  BY DEF Fails, l
<1>4. AttemptsOK'
  BY <1>1, <1>2, <1>3 DEF AttemptsOK, AttemptRecords, RecoverySteps
<1>5. /\ attempt'[c].kind = attempt[c].kind /\ attempt'[c].step = "try"
      /\ attempt'[c].left = l
  BY <1>1, <1>3 DEF AttemptsOK, AttemptRecords
<1>6. Others(c)
  BY <1>3 DEF AttemptsOK, Others
<1> QED
  BY <1>2, <1>4, <1>5, <1>6 DEF TriesNext

\* An attempt that turns to another step keeps its error.
LEMMA TurnsKeeps ==
  ASSUME AttemptsOK, NEW c \in RecoveryCallers, NEW STATE step, NEW STATE read,
         NEW STATE applied, step \in RecoverySteps, read \in Nat, applied \in BOOLEAN,
         Turns(c, step, read, applied)
  PROVE  AttemptsOK' /\ Others(c) /\ TurnsTo(c, step, read, applied)
<1>1. attempt[c] \in AttemptRecords
  BY DEF AttemptsOK
<1>2. AttemptsOK'
  BY <1>1 DEF AttemptsOK, AttemptRecords, Turns
<1> QED
  BY <1>1, <1>2 DEF AttemptsOK, AttemptRecords, Turns, Others, TurnsTo

\* The same with no fallback applied.
LEMMA TurnsAfresh ==
  ASSUME AttemptsOK, NEW c \in RecoveryCallers, NEW STATE step, NEW STATE read,
         step \in RecoverySteps, read \in Nat, Turns(c, step, read, FALSE)
  PROVE  AttemptsOK' /\ Others(c) /\ TurnsTo(c, step, read, FALSE)
<1>1. attempt[c] \in AttemptRecords
  BY DEF AttemptsOK
<1>2. AttemptsOK'
  BY <1>1 DEF AttemptsOK, AttemptRecords, Turns
<1> QED
  BY <1>1, <1>2 DEF AttemptsOK, AttemptRecords, Turns, Others, TurnsTo

\* The strategies for an error fit its kind.
LEMMA StrategiesFit ==
  ASSUME NEW kind \in ErrorKinds
  PROVE  StrategiesFor(kind) \in Seq(Strategies) /\ LeftFits(kind, StrategiesFor(kind))
<1> DEFINE s == StrategiesFor(kind)
<1>1. CASE kind = "device"
  <2>1. s = <<"device">>
    BY <1>1 DEF StrategiesFor
  <2> HIDE DEF s
  <2>2. s \in Seq(Strategies)
    BY <2>1 DEF Strategies
  <2>3. Len(s) = 1 /\ s[1] = "device"
    BY <2>1
  <2>4. LeftFits(kind, s)
    BY <1>1, <2>3 DEF LeftFits
  <2> QED
    BY <2>2, <2>4 DEF s
<1>2. CASE kind = "permission"
  <2>1. s = <<"guidance">>
    BY <1>2 DEF StrategiesFor
  <2> HIDE DEF s
  <2>2. s \in Seq(Strategies)
    BY <2>1 DEF Strategies
  <2>3. Len(s) = 1 /\ s[1] = "guidance"
    BY <2>1
  <2>4. LeftFits(kind, s)
    BY <1>2, <2>3 DEF LeftFits
  <2> QED
    BY <2>2, <2>4 DEF s
<1>3. CASE kind = "oom"
  <2>1. s = <<"oom">>
    BY <1>3 DEF StrategiesFor
  <2> HIDE DEF s
  <2>2. s \in Seq(Strategies)
    BY <2>1 DEF Strategies
  <2>3. Len(s) = 1 /\ s[1] = "oom"
    BY <2>1
  <2>4. LeftFits(kind, s)
    BY <1>3, <2>3 DEF LeftFits
  <2> QED
    BY <2>2, <2>4 DEF s
<1>4. CASE kind = "loadOom"
  <2>1. s = <<"oom", "model">>
    BY <1>4 DEF StrategiesFor
  <2> HIDE DEF s
  <2>2. s \in Seq(Strategies)
    BY <2>1 DEF Strategies
  <2>3. Len(s) = 2 /\ s[1] = "oom" /\ s[2] = "model"
    BY <2>1
  <2>4. LeftFits(kind, s)
    BY <1>4, <2>3 DEF LeftFits
  <2> QED
    BY <2>2, <2>4 DEF s
<1>5. CASE kind = "load"
  <2>1. s = <<"model">>
    BY <1>5 DEF StrategiesFor
  <2> HIDE DEF s
  <2>2. s \in Seq(Strategies)
    BY <2>1 DEF Strategies
  <2>3. Len(s) = 1 /\ s[1] = "model"
    BY <2>1
  <2>4. LeftFits(kind, s)
    BY <1>5, <2>3 DEF LeftFits
  <2> QED
    BY <2>2, <2>4 DEF s
<1>6. CASE kind = "missing"
  <2>1. s = <<"download">>
    BY <1>6 DEF StrategiesFor
  <2> HIDE DEF s
  <2>2. s \in Seq(Strategies)
    BY <2>1 DEF Strategies
  <2>3. Len(s) = 1 /\ s[1] = "download"
    BY <2>1
  <2>4. LeftFits(kind, s)
    BY <1>6, <2>3 DEF LeftFits
  <2> QED
    BY <2>2, <2>4 DEF s
<1>7. CASE kind = "corrupt"
  <2>1. s = <<"download", "model">>
    BY <1>7 DEF StrategiesFor
  <2> HIDE DEF s
  <2>2. s \in Seq(Strategies)
    BY <2>1 DEF Strategies
  <2>3. Len(s) = 2 /\ s[1] = "download" /\ s[2] = "model"
    BY <2>1
  <2>4. LeftFits(kind, s)
    BY <1>7, <2>3 DEF LeftFits
  <2> QED
    BY <2>2, <2>4 DEF s
<1>8. CASE kind = "unavailable"
  <2>1. s = <<"retry", "offline">>
    BY <1>8 DEF StrategiesFor
  <2> HIDE DEF s
  <2>2. s \in Seq(Strategies)
    BY <2>1 DEF Strategies
  <2>3. Len(s) = 2 /\ s[1] = "retry" /\ s[2] = "offline"
    BY <2>1
  <2>4. LeftFits(kind, s)
    BY <1>8, <2>3 DEF LeftFits
  <2> QED
    BY <2>2, <2>4 DEF s
<1>9. CASE kind = "timeout"
  <2>1. s = <<"retry">>
    BY <1>9 DEF StrategiesFor
  <2> HIDE DEF s
  <2>2. s \in Seq(Strategies)
    BY <2>1 DEF Strategies
  <2>3. Len(s) = 1 /\ s[1] = "retry"
    BY <2>1
  <2>4. LeftFits(kind, s)
    BY <1>9, <2>3 DEF LeftFits
  <2> QED
    BY <2>2, <2>4 DEF s
<1>10. CASE kind = "refused"
  <2>1. s = <<"offline">>
    BY <1>10 DEF StrategiesFor
  <2> HIDE DEF s
  <2>2. s \in Seq(Strategies)
    BY <2>1 DEF Strategies
  <2>3. Len(s) = 1 /\ s[1] = "offline"
    BY <2>1
  <2>4. LeftFits(kind, s)
    BY <1>10, <2>3 DEF LeftFits
  <2> QED
    BY <2>2, <2>4 DEF s
<1>11. CASE kind = "disk"
  <2>1. s = <<"disk">>
    BY <1>11 DEF StrategiesFor
  <2> HIDE DEF s
  <2>2. s \in Seq(Strategies)
    BY <2>1 DEF Strategies
  <2>3. Len(s) = 1 /\ s[1] = "disk"
    BY <2>1
  <2>4. LeftFits(kind, s)
    BY <1>11, <2>3 DEF LeftFits
  <2> QED
    BY <2>2, <2>4 DEF s
<1>12. CASE kind = "session"
  <2>1. s = <<"session">>
    BY <1>12 DEF StrategiesFor
  <2> HIDE DEF s
  <2>2. s \in Seq(Strategies)
    BY <2>1 DEF Strategies
  <2>3. Len(s) = 1 /\ s[1] = "session"
    BY <2>1
  <2>4. LeftFits(kind, s)
    BY <1>12, <2>3 DEF LeftFits
  <2> QED
    BY <2>2, <2>4 DEF s
<1>13. CASE kind = "other"
  <2>1. s = <<>>
    BY <1>13 DEF StrategiesFor
  <2> HIDE DEF s
  <2>2. s \in Seq(Strategies) /\ Len(s) = 0
    BY <2>1, EmptySeq
  <2>4. LeftFits(kind, s)
    BY <1>13, <2>2 DEF LeftFits
  <2> QED
    BY <2>2, <2>4 DEF s
<1> QED
  BY <1>1, <1>2, <1>3, <1>4, <1>5, <1>6, <1>7, <1>8, <1>9, <1>10, <1>11, <1>12,
       <1>13 DEF ErrorKinds

\* An error that is met begins an attempt of its kind.
LEMMA MetBegins ==
  ASSUME AttemptsOK, NEW c \in RecoveryCallers, NEW kind \in ErrorKinds, MeetsError(c, kind)
  PROVE  /\ AttemptsOK' /\ Others(c) /\ attempt'[c].kind = kind /\ attempt'[c].step = "try"
         /\ attempt'[c].left = StrategiesFor(kind)
<1> DEFINE s == StrategiesFor(kind)
<1>1. s \in Seq(Strategies)
  BY StrategiesFit
<1> HIDE DEF s
<1> DEFINE r == [Calm EXCEPT !.kind = kind, !.step = "try", !.left = s]
<1>2. attempt' = [attempt EXCEPT ![c] = r]
  BY DEF MeetsError, InOrder, s
<1>4. Calm \in AttemptRecords
  BY EmptySeq DEF Calm, AttemptRecords, RecoverySteps
<1>3. r \in AttemptRecords /\ r.kind = kind /\ r.step = "try" /\ r.left = s
  BY <1>1, <1>4 DEF AttemptRecords, RecoverySteps
<1> HIDE DEF r
<1> QED
  BY <1>2, <1>3 DEF AttemptsOK, Others, s

\* What is read of a chain or a count is a number.
LEMMA ReadIsNat ==
  ASSUME AttemptsOK, NEW c \in RecoveryCallers
  PROVE  /\ attempt[c].read \in Nat /\ attempt[c].applied \in BOOLEAN
         /\ attempt[c].left \in Seq(Strategies) /\ Len(attempt[c].left) \in Nat
         /\ \A s : Head(attempt[c].left) = s /\ attempt[c].left # <<>> =>
                     Len(attempt[c].left) >= 1 /\ attempt[c].left[1] = s
<1>1. attempt[c] \in AttemptRecords
  BY DEF AttemptsOK
<1>2. attempt[c].left \in Seq(Strategies)
  BY <1>1 DEF AttemptRecords
<1>3. attempt[c].left # <<>> => /\ Len(attempt[c].left) >= 1
                                /\ Head(attempt[c].left) = attempt[c].left[1]
  BY <1>2, EmptySeq, HeadTailProperties
<1> QED
  BY <1>1, <1>2, <1>3, LenProperties DEF AttemptRecords

\* A caller's step leaves the attempts of the others alone, and ends, turns or moves on.
\* GivesUp changes the attempt of its caller.
LEMMA GivesUpTurns ==
  ASSUME RecoveryIInv, NEW c \in RecoveryCallers, GivesUp(c)
  PROVE  /\ AttemptsOK' /\ Others(c) /\ attempt[c].step # "idle"
         /\ attempt'[c].step = "idle"
<1> USE DEF RecoveryIInv
<1>8. attempt[c].step # "idle"
  BY DEF GivesUp
<1>1. CASE Succeeds(c)
  BY <1>8, <1>1, SucceedsEnds
<1> QED
  BY <1>1 DEF GivesUp

\* Guides changes the attempt of its caller.
LEMMA GuidesTurns ==
  ASSUME RecoveryIInv, NEW c \in RecoveryCallers, Guides(c)
  PROVE  /\ AttemptsOK' /\ Others(c) /\ attempt[c].step # "idle"
         /\ Len(attempt[c].left) >= 1 /\ attempt[c].left[1] = "guidance"
         /\ attempt'[c].step = "idle"
<1> USE DEF RecoveryIInv
<1>9. attempt[c].left # <<>> /\ Len(attempt[c].left) >= 1 /\ attempt[c].left[1] = "guidance"
  BY ReadIsNat DEF Guides, At
<1>8. attempt[c].step # "idle"
  BY DEF Guides, At
<1>1. CASE Succeeds(c)
  BY <1>8, <1>9, <1>1, SucceedsEnds
<1> QED
  BY <1>1 DEF Guides

\* AsksForSpace changes the attempt of its caller.
LEMMA AsksForSpaceTurns ==
  ASSUME RecoveryIInv, NEW c \in RecoveryCallers, AsksForSpace(c)
  PROVE  /\ AttemptsOK' /\ Others(c) /\ attempt[c].step # "idle"
         /\ Len(attempt[c].left) >= 1 /\ attempt[c].left[1] = "disk"
         /\ attempt'[c].step = "idle"
<1> USE DEF RecoveryIInv
<1>9. attempt[c].left # <<>> /\ Len(attempt[c].left) >= 1 /\ attempt[c].left[1] = "disk"
  BY ReadIsNat DEF AsksForSpace, At
<1>8. attempt[c].step # "idle"
  BY DEF AsksForSpace, At
<1>1. CASE Succeeds(c)
  BY <1>8, <1>9, <1>1, SucceedsEnds
<1> QED
  BY <1>1 DEF AsksForSpace

\* SwitchesDevice changes the attempt of its caller.
LEMMA SwitchesDeviceTurns ==
  ASSUME RecoveryIInv, NEW c \in RecoveryCallers, SwitchesDevice(c)
  PROVE  /\ AttemptsOK' /\ Others(c) /\ attempt[c].step # "idle"
         /\ Len(attempt[c].left) >= 1 /\ attempt[c].left[1] = "device"
         /\ attempt'[c].step = "idle" \/ TriesNext(c)
<1> USE DEF RecoveryIInv
<1>9. attempt[c].left # <<>> /\ Len(attempt[c].left) >= 1 /\ attempt[c].left[1] = "device"
  BY ReadIsNat DEF SwitchesDevice, At
<1>8. attempt[c].step # "idle"
  BY DEF SwitchesDevice, At
<1>1. CASE Succeeds(c)
  BY <1>8, <1>9, <1>1, SucceedsEnds
<1>2. CASE Fails(c)
  BY <1>8, <1>9, <1>2, FailsTriesNext
<1> QED
  BY <1>1, <1>2 DEF SwitchesDevice

\* RepairsSession changes the attempt of its caller.
LEMMA RepairsSessionTurns ==
  ASSUME RecoveryIInv, NEW c \in RecoveryCallers, RepairsSession(c)
  PROVE  /\ AttemptsOK' /\ Others(c) /\ attempt[c].step # "idle"
         /\ Len(attempt[c].left) >= 1 /\ attempt[c].left[1] = "session"
         /\ attempt'[c].step = "idle" \/ TriesNext(c)
<1> USE DEF RecoveryIInv
<1>9. attempt[c].left # <<>> /\ Len(attempt[c].left) >= 1 /\ attempt[c].left[1] = "session"
  BY ReadIsNat DEF RepairsSession, At
<1>8. attempt[c].step # "idle"
  BY DEF RepairsSession, At
<1>1. CASE Succeeds(c)
  BY <1>8, <1>9, <1>1, SucceedsEnds
<1>2. CASE Fails(c)
  BY <1>8, <1>9, <1>2, FailsTriesNext
<1> QED
  BY <1>1, <1>2 DEF RepairsSession

\* Downloads changes the attempt of its caller.
LEMMA DownloadsTurns ==
  ASSUME RecoveryIInv, NEW c \in RecoveryCallers, Downloads(c)
  PROVE  /\ AttemptsOK' /\ Others(c) /\ attempt[c].step # "idle"
         /\ Len(attempt[c].left) >= 1 /\ attempt[c].left[1] = "download"
         /\ attempt'[c].step = "idle" \/ TurnsTo(c, "try", attempt[c].read + 1, FALSE)
              \/ TriesNext(c)
<1> USE DEF RecoveryIInv
<1>9. attempt[c].left # <<>> /\ Len(attempt[c].left) >= 1 /\ attempt[c].left[1] = "download"
  BY ReadIsNat DEF Downloads, At
<1>8. attempt[c].step # "idle"
  BY DEF Downloads, At
<1>1. CASE Succeeds(c)
  BY <1>8, <1>9, <1>1, SucceedsEnds
<1>3. CASE Turns(c, "try", attempt[c].read + 1, FALSE)
  <2>1. attempt[c].read + 1 \in Nat
    BY ReadIsNat
  <2>2. "try" \in RecoverySteps
    BY DEF RecoverySteps
  <2> QED
    BY <1>8, <1>9, <1>3, <2>1, <2>2, TurnsAfresh, Zenon
<1>2. CASE Fails(c)
  BY <1>8, <1>9, <1>2, FailsTriesNext
<1> QED
  BY <1>1, <1>3, <1>2 DEF Downloads

\* ReadsCompute changes the attempt of its caller.
LEMMA ReadsComputeTurns ==
  ASSUME RecoveryIInv, NEW c \in RecoveryCallers, ReadsCompute(c)
  PROVE  /\ AttemptsOK' /\ Others(c) /\ attempt[c].step # "idle"
         /\ Len(attempt[c].left) >= 1 /\ attempt[c].left[1] = "oom"
         /\ TurnsTo(c, "compute", chainAt["compute"], attempt[c].applied)
<1> USE DEF RecoveryIInv
<1>9. attempt[c].left # <<>> /\ Len(attempt[c].left) >= 1 /\ attempt[c].left[1] = "oom"
  BY ReadIsNat DEF ReadsCompute, ReadsChain, At
<1>8. attempt[c].step # "idle"
  BY DEF ReadsCompute, ReadsChain, At
<1>7. chainAt["compute"] \in Nat /\ attempt[c].applied \in BOOLEAN
  BY ReadIsNat DEF ChainsOK, Chains, LastOf
<1> QED
  BY <1>8, <1>9, <1>7, TurnsKeeps DEF ReadsCompute, ReadsChain, At, RecoverySteps

\* MovesCompute changes the attempt of its caller.
LEMMA MovesComputeTurns ==
  ASSUME RecoveryIInv, NEW c \in RecoveryCallers, MovesCompute(c)
  PROVE  /\ AttemptsOK' /\ Others(c) /\ attempt[c].step # "idle"
         /\ Len(attempt[c].left) >= 1 /\ attempt[c].left[1] = "oom"
         /\ TurnsTo(c, "device", 0, MovesOn("compute", attempt[c].read))
<1> USE DEF RecoveryIInv
<1>9. attempt[c].left # <<>> /\ Len(attempt[c].left) >= 1 /\ attempt[c].left[1] = "oom"
  BY ReadIsNat DEF MovesCompute, At
<1>8. attempt[c].step # "idle"
  BY DEF MovesCompute, At
<1>7. MovesOn("compute", attempt[c].read) \in BOOLEAN
  BY SMT DEF MovesOn
<1> QED
  BY <1>8, <1>9, <1>7, TurnsKeeps DEF MovesCompute, At, RecoverySteps

\* ReadsBatch changes the attempt of its caller.
LEMMA ReadsBatchTurns ==
  ASSUME RecoveryIInv, NEW c \in RecoveryCallers, ReadsBatch(c)
  PROVE  /\ AttemptsOK' /\ Others(c) /\ attempt[c].step # "idle"
         /\ Len(attempt[c].left) >= 1 /\ attempt[c].left[1] = "oom"
         /\ TurnsTo(c, "batch", chainAt["batch"], attempt[c].applied)
<1> USE DEF RecoveryIInv
<1>9. attempt[c].left # <<>> /\ Len(attempt[c].left) >= 1 /\ attempt[c].left[1] = "oom"
  BY ReadIsNat DEF ReadsBatch, ReadsChain, At
<1>8. attempt[c].step # "idle"
  BY DEF ReadsBatch, ReadsChain, At
<1>7. chainAt["batch"] \in Nat /\ attempt[c].applied \in BOOLEAN
  BY ReadIsNat DEF ChainsOK, Chains, LastOf
<1> QED
  BY <1>8, <1>9, <1>7, TurnsKeeps DEF ReadsBatch, ReadsChain, At, RecoverySteps

\* MovesBatch changes the attempt of its caller.
LEMMA MovesBatchTurns ==
  ASSUME RecoveryIInv, NEW c \in RecoveryCallers, MovesBatch(c)
  PROVE  /\ AttemptsOK' /\ Others(c) /\ attempt[c].step # "idle"
         /\ Len(attempt[c].left) >= 1 /\ attempt[c].left[1] = "oom"
         /\ attempt'[c].step = "idle" \/ TriesNext(c)
<1> USE DEF RecoveryIInv
<1>9. attempt[c].left # <<>> /\ Len(attempt[c].left) >= 1 /\ attempt[c].left[1] = "oom"
  BY ReadIsNat DEF MovesBatch, At
<1>8. attempt[c].step # "idle"
  BY DEF MovesBatch, At
<1>1. CASE Succeeds(c)
  BY <1>8, <1>9, <1>1, SucceedsEnds
<1>2. CASE Fails(c)
  BY <1>8, <1>9, <1>2, FailsTriesNext
<1> QED
  BY <1>1, <1>2 DEF MovesBatch

\* ReadsModel changes the attempt of its caller.
LEMMA ReadsModelTurns ==
  ASSUME RecoveryIInv, NEW c \in RecoveryCallers, ReadsModel(c)
  PROVE  /\ AttemptsOK' /\ Others(c) /\ attempt[c].step # "idle"
         /\ Len(attempt[c].left) >= 1 /\ attempt[c].left[1] = "model"
         /\ TurnsTo(c, "model", chainAt["model"], attempt[c].applied)
<1> USE DEF RecoveryIInv
<1>9. attempt[c].left # <<>> /\ Len(attempt[c].left) >= 1 /\ attempt[c].left[1] = "model"
  BY ReadIsNat DEF ReadsModel, ReadsChain, At
<1>8. attempt[c].step # "idle"
  BY DEF ReadsModel, ReadsChain, At
<1>7. chainAt["model"] \in Nat /\ attempt[c].applied \in BOOLEAN
  BY ReadIsNat DEF ChainsOK, Chains, LastOf
<1> QED
  BY <1>8, <1>9, <1>7, TurnsKeeps DEF ReadsModel, ReadsChain, At, RecoverySteps

\* MovesModel changes the attempt of its caller.
LEMMA MovesModelTurns ==
  ASSUME RecoveryIInv, NEW c \in RecoveryCallers, MovesModel(c)
  PROVE  /\ AttemptsOK' /\ Others(c) /\ attempt[c].step # "idle"
         /\ Len(attempt[c].left) >= 1 /\ attempt[c].left[1] = "model"
         /\ attempt'[c].step = "idle" \/ TriesNext(c)
<1> USE DEF RecoveryIInv
<1>9. attempt[c].left # <<>> /\ Len(attempt[c].left) >= 1 /\ attempt[c].left[1] = "model"
  BY ReadIsNat DEF MovesModel, At
<1>8. attempt[c].step # "idle"
  BY DEF MovesModel, At
<1>1. CASE Succeeds(c)
  BY <1>8, <1>9, <1>1, SucceedsEnds
<1>2. CASE Fails(c)
  BY <1>8, <1>9, <1>2, FailsTriesNext
<1> QED
  BY <1>1, <1>2 DEF MovesModel

\* ReadsRetries changes the attempt of its caller.
LEMMA ReadsRetriesTurns ==
  ASSUME RecoveryIInv, NEW c \in RecoveryCallers, ReadsRetries(c)
  PROVE  /\ AttemptsOK' /\ Others(c) /\ attempt[c].step # "idle"
         /\ Len(attempt[c].left) >= 1 /\ attempt[c].left[1] = "retry"
         /\ TurnsTo(c, "retry", retries[attempt[c].kind], FALSE)
<1> USE DEF RecoveryIInv
<1>9. attempt[c].left # <<>> /\ Len(attempt[c].left) >= 1 /\ attempt[c].left[1] = "retry"
  BY ReadIsNat DEF ReadsRetries, At
<1>8. attempt[c].step # "idle"
  BY DEF ReadsRetries, At
<1>7. retries[attempt[c].kind] \in Nat /\ FALSE \in BOOLEAN
  BY <1>8, <1>9 DEF AttemptsFit, LeftFits, Recovering, RetriesOK
<1>6. Turns(c, "retry", retries[attempt[c].kind], FALSE) /\ "retry" \in RecoverySteps
        /\ retries[attempt[c].kind] \in Nat
  BY <1>7 DEF ReadsRetries, At, RecoverySteps
<1> QED
  BY <1>8, <1>9, <1>7, <1>6, TurnsAfresh, Zenon

\* StopsRetrying changes the attempt of its caller.
LEMMA StopsRetryingTurns ==
  ASSUME RecoveryIInv, NEW c \in RecoveryCallers, StopsRetrying(c)
  PROVE  /\ AttemptsOK' /\ Others(c) /\ attempt[c].step # "idle"
         /\ Len(attempt[c].left) >= 1 /\ attempt[c].left[1] = "retry"
         /\ TriesNext(c)
<1> USE DEF RecoveryIInv
<1>9. attempt[c].left # <<>> /\ Len(attempt[c].left) >= 1 /\ attempt[c].left[1] = "retry"
  BY ReadIsNat DEF StopsRetrying, At
<1>8. attempt[c].step # "idle"
  BY DEF StopsRetrying, At
<1>2. CASE Fails(c)
  BY <1>8, <1>9, <1>2, FailsTriesNext
<1> QED
  BY <1>2 DEF StopsRetrying

\* WritesRetries changes the attempt of its caller.
LEMMA WritesRetriesTurns ==
  ASSUME RecoveryIInv, NEW c \in RecoveryCallers, WritesRetries(c)
  PROVE  /\ AttemptsOK' /\ Others(c) /\ attempt[c].step # "idle"
         /\ Len(attempt[c].left) >= 1 /\ attempt[c].left[1] = "retry"
         /\ TurnsTo(c, "wait", 0, FALSE)
<1> USE DEF RecoveryIInv
<1>9. attempt[c].left # <<>> /\ Len(attempt[c].left) >= 1 /\ attempt[c].left[1] = "retry"
  BY ReadIsNat DEF WritesRetries, At
<1>8. attempt[c].step # "idle"
  BY DEF WritesRetries, At
<1>7. FALSE \in BOOLEAN
  OBVIOUS
<1>6. Turns(c, "wait", 0, FALSE) /\ "wait" \in RecoverySteps /\ 0 \in Nat
  BY <1>7 DEF WritesRetries, At, RecoverySteps
<1> QED
  BY <1>8, <1>9, <1>7, <1>6, TurnsAfresh, Zenon

\* Retries changes the attempt of its caller.
LEMMA RetriesTurns ==
  ASSUME RecoveryIInv, NEW c \in RecoveryCallers, Retries(c)
  PROVE  /\ AttemptsOK' /\ Others(c) /\ attempt[c].step # "idle"
         /\ Len(attempt[c].left) >= 1 /\ attempt[c].left[1] = "retry"
         /\ attempt'[c].step = "idle"
<1> USE DEF RecoveryIInv
<1>9. attempt[c].left # <<>> /\ Len(attempt[c].left) >= 1 /\ attempt[c].left[1] = "retry"
  BY ReadIsNat DEF Retries, At
<1>8. attempt[c].step # "idle"
  BY DEF Retries, At
<1>1. CASE Succeeds(c)
  BY <1>8, <1>9, <1>1, SucceedsEnds
<1> QED
  BY <1>1 DEF Retries

\* GoesOffline changes the attempt of its caller.
LEMMA GoesOfflineTurns ==
  ASSUME RecoveryIInv, NEW c \in RecoveryCallers, GoesOffline(c)
  PROVE  /\ AttemptsOK' /\ Others(c) /\ attempt[c].step # "idle"
         /\ Len(attempt[c].left) >= 1 /\ attempt[c].left[1] = "offline"
         /\ attempt'[c].step = "idle"
<1> USE DEF RecoveryIInv
<1>9. attempt[c].left # <<>> /\ Len(attempt[c].left) >= 1 /\ attempt[c].left[1] = "offline"
  BY ReadIsNat DEF GoesOffline, At
<1>8. attempt[c].step # "idle"
  BY DEF GoesOffline, At
<1>1. CASE Succeeds(c)
  BY <1>8, <1>9, <1>1, SucceedsEnds
<1> QED
  BY <1>1 DEF GoesOffline

\* What a step of a caller does to its attempt.
LEMMA StepTurns ==
  ASSUME RecoveryIInv, NEW c \in RecoveryCallers, RecoveryStep(c)
  PROVE  /\ AttemptsOK' /\ Others(c) /\ attempt[c].step # "idle"
         /\ \/ attempt'[c].step = "idle"
            \/ attempt'[c].kind = attempt[c].kind /\ attempt'[c].left = attempt[c].left
            \/ TriesNext(c)
<1>1. CASE GivesUp(c)
  BY <1>1, GivesUpTurns DEF TurnsTo
<1>2. CASE Guides(c)
  BY <1>2, GuidesTurns DEF TurnsTo
<1>3. CASE AsksForSpace(c)
  BY <1>3, AsksForSpaceTurns DEF TurnsTo
<1>4. CASE SwitchesDevice(c)
  BY <1>4, SwitchesDeviceTurns DEF TurnsTo
<1>5. CASE RepairsSession(c)
  BY <1>5, RepairsSessionTurns DEF TurnsTo
<1>6. CASE Downloads(c)
  BY <1>6, DownloadsTurns DEF TurnsTo
<1>7. CASE ReadsCompute(c)
  BY <1>7, ReadsComputeTurns DEF TurnsTo
<1>8. CASE MovesCompute(c)
  BY <1>8, MovesComputeTurns DEF TurnsTo
<1>9. CASE ReadsBatch(c)
  BY <1>9, ReadsBatchTurns DEF TurnsTo
<1>10. CASE MovesBatch(c)
  BY <1>10, MovesBatchTurns DEF TurnsTo
<1>11. CASE ReadsModel(c)
  BY <1>11, ReadsModelTurns DEF TurnsTo
<1>12. CASE MovesModel(c)
  BY <1>12, MovesModelTurns DEF TurnsTo
<1>13. CASE ReadsRetries(c)
  BY <1>13, ReadsRetriesTurns DEF TurnsTo
<1>14. CASE StopsRetrying(c)
  BY <1>14, StopsRetryingTurns DEF TurnsTo
<1>15. CASE WritesRetries(c)
  BY <1>15, WritesRetriesTurns DEF TurnsTo
<1>16. CASE Retries(c)
  BY <1>16, RetriesTurns DEF TurnsTo
<1>17. CASE GoesOffline(c)
  BY <1>17, GoesOfflineTurns DEF TurnsTo
<1> QED
  BY <1>1, <1>2, <1>3, <1>4, <1>5, <1>6, <1>7, <1>8, <1>9, <1>10, <1>11, <1>12, <1>13, <1>14,
       <1>15, <1>16, <1>17 DEF RecoveryStep

\* A step of a caller leaves what the others share but for the chains and the counts.
LEMMA StepKeeps ==
  ASSUME NEW c \in RecoveryCallers, RecoveryStep(c)
  PROVE  UNCHANGED <<together, lightly>>
<1>1. CASE GivesUp(c)
  BY <1>1 DEF GivesUp, ReadsChain
<1>2. CASE Guides(c)
  BY <1>2 DEF Guides, ReadsChain
<1>3. CASE AsksForSpace(c)
  BY <1>3 DEF AsksForSpace, ReadsChain
<1>4. CASE SwitchesDevice(c)
  BY <1>4 DEF SwitchesDevice, ReadsChain
<1>5. CASE RepairsSession(c)
  BY <1>5 DEF RepairsSession, ReadsChain
<1>6. CASE Downloads(c)
  BY <1>6 DEF Downloads, ReadsChain
<1>7. CASE ReadsCompute(c)
  BY <1>7 DEF ReadsCompute, ReadsChain
<1>8. CASE MovesCompute(c)
  BY <1>8 DEF MovesCompute, ReadsChain
<1>9. CASE ReadsBatch(c)
  BY <1>9 DEF ReadsBatch, ReadsChain
<1>10. CASE MovesBatch(c)
  BY <1>10 DEF MovesBatch, ReadsChain
<1>11. CASE ReadsModel(c)
  BY <1>11 DEF ReadsModel, ReadsChain
<1>12. CASE MovesModel(c)
  BY <1>12 DEF MovesModel, ReadsChain
<1>13. CASE ReadsRetries(c)
  BY <1>13 DEF ReadsRetries, ReadsChain
<1>14. CASE StopsRetrying(c)
  BY <1>14 DEF StopsRetrying, ReadsChain
<1>15. CASE WritesRetries(c)
  BY <1>15 DEF WritesRetries, ReadsChain
<1>16. CASE Retries(c)
  BY <1>16 DEF Retries, ReadsChain
<1>17. CASE GoesOffline(c)
  BY <1>17 DEF GoesOffline, ReadsChain
<1> QED
  BY <1>1, <1>2, <1>3, <1>4, <1>5, <1>6, <1>7, <1>8, <1>9, <1>10, <1>11, <1>12, <1>13, <1>14,
       <1>15, <1>16, <1>17 DEF RecoveryStep

\* What is left after a strategy fits the kind of the error as well.
LEMMA NextFits ==
  ASSUME NEW kind, NEW l, NEW m, LeftFits(kind, l), Len(l) \in Nat, Len(m) = Len(l) - 1,
         Len(m) >= 1 => m[1] = l[2]
  PROVE  LeftFits(kind, m)
BY SMTT(60) DEF LeftFits

\* What comes next was second.
LEMMA SecondIsNext ==
  ASSUME NEW kind, NEW l, NEW m, LeftFits(kind, l), Len(l) \in Nat, Len(m) = Len(l) - 1,
         Len(m) >= 1 => m[1] = l[2], Len(m) >= 1
  PROVE  Len(l) = 2 /\ m[1] = l[2]
BY DEF LeftFits

\* A caller at work leaves the others alone, and one at a time recovers.
LEMMA OneRecoversNext ==
  RecoveryIInv /\ [RecoveryNext]_recoveryVars => OneRecovers' /\ AttemptsOK'
<1> SUFFICES ASSUME RecoveryIInv, [RecoveryNext]_recoveryVars PROVE OneRecovers' /\ AttemptsOK'
  OBVIOUS
<1>1. ASSUME NEW c \in RecoveryCallers, RecoveryStep(c) PROVE OneRecovers' /\ AttemptsOK'
  <2>1. AttemptsOK' /\ Others(c) /\ attempt[c].step # "idle"
    BY <1>1, StepTurns
  <2>2. together' = together
    BY <1>1, StepKeeps
  <2> QED
    BY <2>1, <2>2 DEF Others, OneRecovers, Recovering, RecoveryIInv
<1>2. ASSUME NEW c \in RecoveryCallers, NEW kind \in ErrorKinds, MeetsError(c, kind)
      PROVE  OneRecovers' /\ AttemptsOK'
  <2>1. AttemptsOK' /\ Others(c)
    BY <1>2, MetBegins DEF RecoveryIInv
  <2>2. ~together' => ~together /\ \A d \in RecoveryCallers \ {c} : ~Recovering(d)
    BY <1>2 DEF MeetsError
  <2> QED
    BY <2>1, <2>2 DEF Others, OneRecovers, Recovering, RecoveryIInv
<1>3. CASE UNCHANGED recoveryVars
  BY <1>3 DEF recoveryVars, OneRecovers, Recovering, AttemptsOK, RecoveryIInv
<1> QED
  BY <1>1, <1>2, <1>3 DEF RecoveryNext

\* A chain's index is that of an option.
LEMMA ChainsNext == RecoveryIInv /\ [RecoveryNext]_recoveryVars => ChainsOK'
<1> SUFFICES ASSUME RecoveryIInv, [RecoveryNext]_recoveryVars PROVE ChainsOK'
  OBVIOUS
<1> USE RecoveryAssumption DEF RecoveryIInv, ChainsOK, Chains, LastOf
<1>1. ASSUME NEW c \in RecoveryCallers, GivesUp(c) PROVE ChainsOK'
  BY <1>1 DEF GivesUp
<1>2. ASSUME NEW c \in RecoveryCallers, Guides(c) PROVE ChainsOK'
  BY <1>2 DEF Guides
<1>3. ASSUME NEW c \in RecoveryCallers, AsksForSpace(c) PROVE ChainsOK'
  BY <1>3 DEF AsksForSpace
<1>4. ASSUME NEW c \in RecoveryCallers, SwitchesDevice(c) PROVE ChainsOK'
  BY <1>4 DEF SwitchesDevice
<1>5. ASSUME NEW c \in RecoveryCallers, RepairsSession(c) PROVE ChainsOK'
  BY <1>5 DEF RepairsSession
<1>6. ASSUME NEW c \in RecoveryCallers, Downloads(c) PROVE ChainsOK'
  BY <1>6 DEF Downloads
<1>7. ASSUME NEW c \in RecoveryCallers, ReadsCompute(c) PROVE ChainsOK'
  BY <1>7 DEF ReadsCompute, ReadsChain
<1>8. ASSUME NEW c \in RecoveryCallers, MovesCompute(c) PROVE ChainsOK'
  <2>1. attempt[c].read \in Nat
    BY ReadIsNat
  <2> QED
    BY <1>8, <2>1 DEF MovesCompute, Moves, MovesOn
<1>9. ASSUME NEW c \in RecoveryCallers, ReadsBatch(c) PROVE ChainsOK'
  BY <1>9 DEF ReadsBatch, ReadsChain
<1>10. ASSUME NEW c \in RecoveryCallers, MovesBatch(c) PROVE ChainsOK'
  <2>1. attempt[c].read \in Nat
    BY ReadIsNat
  <2> QED
    BY <1>10, <2>1 DEF MovesBatch, Moves, MovesOn
<1>11. ASSUME NEW c \in RecoveryCallers, ReadsModel(c) PROVE ChainsOK'
  BY <1>11 DEF ReadsModel, ReadsChain
<1>12. ASSUME NEW c \in RecoveryCallers, MovesModel(c) PROVE ChainsOK'
  <2>1. attempt[c].read \in Nat
    BY ReadIsNat
  <2> QED
    BY <1>12, <2>1 DEF MovesModel, Moves, MovesOn
<1>13. ASSUME NEW c \in RecoveryCallers, ReadsRetries(c) PROVE ChainsOK'
  BY <1>13 DEF ReadsRetries
<1>14. ASSUME NEW c \in RecoveryCallers, StopsRetrying(c) PROVE ChainsOK'
  BY <1>14 DEF StopsRetrying
<1>15. ASSUME NEW c \in RecoveryCallers, WritesRetries(c) PROVE ChainsOK'
  BY <1>15 DEF WritesRetries
<1>16. ASSUME NEW c \in RecoveryCallers, Retries(c) PROVE ChainsOK'
  BY <1>16 DEF Retries
<1>17. ASSUME NEW c \in RecoveryCallers, GoesOffline(c) PROVE ChainsOK'
  BY <1>17 DEF GoesOffline
<1>18. ASSUME NEW c \in RecoveryCallers, NEW kind \in ErrorKinds, MeetsError(c, kind)
       PROVE  ChainsOK'
  BY <1>18 DEF MeetsError
<1>19. CASE UNCHANGED recoveryVars
  BY <1>19 DEF recoveryVars
<1> QED
  BY <1>1, <1>2, <1>3, <1>4, <1>5, <1>6, <1>7, <1>8, <1>9, <1>10, <1>11, <1>12, <1>13, <1>14,
       <1>15, <1>16, <1>17, <1>18, <1>19 DEF RecoveryNext, RecoveryStep

\* The retries have their limit.
LEMMA RetriesNext == RecoveryIInv /\ [RecoveryNext]_recoveryVars => RetriesOK'
<1> SUFFICES ASSUME RecoveryIInv, [RecoveryNext]_recoveryVars PROVE RetriesOK'
  OBVIOUS
<1> USE RecoveryAssumption DEF RecoveryIInv, RetriesOK
<1>1. ASSUME NEW c \in RecoveryCallers, GivesUp(c) PROVE RetriesOK'
  BY <1>1 DEF GivesUp
<1>2. ASSUME NEW c \in RecoveryCallers, Guides(c) PROVE RetriesOK'
  BY <1>2 DEF Guides
<1>3. ASSUME NEW c \in RecoveryCallers, AsksForSpace(c) PROVE RetriesOK'
  BY <1>3 DEF AsksForSpace
<1>4. ASSUME NEW c \in RecoveryCallers, SwitchesDevice(c) PROVE RetriesOK'
  BY <1>4 DEF SwitchesDevice
<1>5. ASSUME NEW c \in RecoveryCallers, RepairsSession(c) PROVE RetriesOK'
  BY <1>5 DEF RepairsSession
<1>6. ASSUME NEW c \in RecoveryCallers, Downloads(c) PROVE RetriesOK'
  BY <1>6 DEF Downloads
<1>7. ASSUME NEW c \in RecoveryCallers, ReadsCompute(c) PROVE RetriesOK'
  BY <1>7 DEF ReadsCompute, ReadsChain
<1>8. ASSUME NEW c \in RecoveryCallers, MovesCompute(c) PROVE RetriesOK'
  BY <1>8 DEF MovesCompute
<1>9. ASSUME NEW c \in RecoveryCallers, ReadsBatch(c) PROVE RetriesOK'
  BY <1>9 DEF ReadsBatch, ReadsChain
<1>10. ASSUME NEW c \in RecoveryCallers, MovesBatch(c) PROVE RetriesOK'
  BY <1>10 DEF MovesBatch
<1>11. ASSUME NEW c \in RecoveryCallers, ReadsModel(c) PROVE RetriesOK'
  BY <1>11 DEF ReadsModel, ReadsChain
<1>12. ASSUME NEW c \in RecoveryCallers, MovesModel(c) PROVE RetriesOK'
  BY <1>12 DEF MovesModel
<1>13. ASSUME NEW c \in RecoveryCallers, ReadsRetries(c) PROVE RetriesOK'
  BY <1>13 DEF ReadsRetries
<1>14. ASSUME NEW c \in RecoveryCallers, StopsRetrying(c) PROVE RetriesOK'
  BY <1>14 DEF StopsRetrying
<1>15. ASSUME NEW c \in RecoveryCallers, WritesRetries(c) PROVE RetriesOK'
  <2>1. attempt[c].read \in Nat /\ attempt[c].kind \in {"unavailable", "timeout"}
    BY <1>15, ReadIsNat, WritesRetriesTurns DEF AttemptsFit, Recovering, LeftFits
  <2> QED
    BY <1>15, <2>1 DEF WritesRetries, MayRetry
<1>16. ASSUME NEW c \in RecoveryCallers, Retries(c) PROVE RetriesOK'
  BY <1>16 DEF Retries
<1>17. ASSUME NEW c \in RecoveryCallers, GoesOffline(c) PROVE RetriesOK'
  BY <1>17 DEF GoesOffline
<1>18. ASSUME NEW c \in RecoveryCallers, NEW kind \in ErrorKinds, MeetsError(c, kind)
       PROVE  RetriesOK'
  BY <1>18 DEF MeetsError
<1>19. CASE UNCHANGED recoveryVars
  BY <1>19 DEF recoveryVars
<1> QED
  BY <1>1, <1>2, <1>3, <1>4, <1>5, <1>6, <1>7, <1>8, <1>9, <1>10, <1>11, <1>12, <1>13, <1>14,
       <1>15, <1>16, <1>17, <1>18, <1>19 DEF RecoveryNext, RecoveryStep

\* The history and the counts keep to their bounds.
LEMMA RecoveryFlagsNext == RecoveryIInv /\ [RecoveryNext]_recoveryVars => FlagsOK'
<1> SUFFICES ASSUME RecoveryIInv, [RecoveryNext]_recoveryVars PROVE FlagsOK'
  OBVIOUS
<1> USE RecoveryAssumption DEF RecoveryIInv, FlagsOK
<1>1. ASSUME NEW c \in RecoveryCallers, GivesUp(c) PROVE FlagsOK'
  BY <1>1 DEF GivesUp, Succeeds, Fails, Records
<1>2. ASSUME NEW c \in RecoveryCallers, Guides(c) PROVE FlagsOK'
  BY <1>2 DEF Guides, Succeeds, Fails, Records
<1>3. ASSUME NEW c \in RecoveryCallers, AsksForSpace(c) PROVE FlagsOK'
  BY <1>3 DEF AsksForSpace, Succeeds, Fails, Records
<1>4. ASSUME NEW c \in RecoveryCallers, SwitchesDevice(c) PROVE FlagsOK'
  BY <1>4 DEF SwitchesDevice, Succeeds, Fails, Records
<1>5. ASSUME NEW c \in RecoveryCallers, RepairsSession(c) PROVE FlagsOK'
  BY <1>5 DEF RepairsSession, Succeeds, Fails, Records
<1>6. ASSUME NEW c \in RecoveryCallers, Downloads(c) PROVE FlagsOK'
  <2>1. /\ UNCHANGED <<offline, together, errorsMet, granted>>
        /\ recorded' = recorded \/ Records
    BY <1>6 DEF Downloads, Succeeds, Fails
  <2> QED
    BY <2>1 DEF Records
<1>7. ASSUME NEW c \in RecoveryCallers, ReadsCompute(c) PROVE FlagsOK'
  BY <1>7 DEF ReadsCompute, ReadsChain, Succeeds, Fails, Records
<1>8. ASSUME NEW c \in RecoveryCallers, MovesCompute(c) PROVE FlagsOK'
  BY <1>8 DEF MovesCompute, Succeeds, Fails, Records
<1>9. ASSUME NEW c \in RecoveryCallers, ReadsBatch(c) PROVE FlagsOK'
  BY <1>9 DEF ReadsBatch, ReadsChain, Succeeds, Fails, Records
<1>10. ASSUME NEW c \in RecoveryCallers, MovesBatch(c) PROVE FlagsOK'
  BY <1>10 DEF MovesBatch, Succeeds, Fails, Records
<1>11. ASSUME NEW c \in RecoveryCallers, ReadsModel(c) PROVE FlagsOK'
  BY <1>11 DEF ReadsModel, ReadsChain, Succeeds, Fails, Records
<1>12. ASSUME NEW c \in RecoveryCallers, MovesModel(c) PROVE FlagsOK'
  BY <1>12 DEF MovesModel, Succeeds, Fails, Records
<1>13. ASSUME NEW c \in RecoveryCallers, ReadsRetries(c) PROVE FlagsOK'
  BY <1>13 DEF ReadsRetries, Succeeds, Fails, Records
<1>14. ASSUME NEW c \in RecoveryCallers, StopsRetrying(c) PROVE FlagsOK'
  BY <1>14 DEF StopsRetrying, Succeeds, Fails, Records
<1>15. ASSUME NEW c \in RecoveryCallers, WritesRetries(c) PROVE FlagsOK'
  BY <1>15 DEF WritesRetries, Succeeds, Fails, Records
<1>16. ASSUME NEW c \in RecoveryCallers, Retries(c) PROVE FlagsOK'
  BY <1>16 DEF Retries, Succeeds, Fails, Records
<1>17. ASSUME NEW c \in RecoveryCallers, GoesOffline(c) PROVE FlagsOK'
  BY <1>17 DEF GoesOffline, Succeeds, Fails, Records
<1>18. ASSUME NEW c \in RecoveryCallers, NEW kind \in ErrorKinds, MeetsError(c, kind)
       PROVE  FlagsOK'
  <2>1. together' \in BOOLEAN
    BY <1>18, Zenon DEF MeetsError
  <2> QED
    BY <1>18, <2>1 DEF MeetsError
<1>19. CASE UNCHANGED recoveryVars
  BY <1>19 DEF recoveryVars
<1> QED
  BY <1>1, <1>2, <1>3, <1>4, <1>5, <1>6, <1>7, <1>8, <1>9, <1>10, <1>11, <1>12, <1>13, <1>14,
       <1>15, <1>16, <1>17, <1>18, <1>19 DEF RecoveryNext, RecoveryStep

\* What is left fits the kind of the error.
LEMMA AttemptsFitNext == RecoveryIInv /\ [RecoveryNext]_recoveryVars => AttemptsFit'
<1> SUFFICES ASSUME RecoveryIInv, [RecoveryNext]_recoveryVars PROVE AttemptsFit'
  OBVIOUS
<1> USE DEF RecoveryIInv
<1>1. ASSUME NEW c \in RecoveryCallers, RecoveryStep(c) PROVE AttemptsFit'
  <2>1. /\ AttemptsOK' /\ Others(c) /\ attempt[c].step # "idle"
        /\ \/ attempt'[c].step = "idle"
           \/ attempt'[c].kind = attempt[c].kind /\ attempt'[c].left = attempt[c].left
           \/ TriesNext(c)
    BY <1>1, StepTurns
  <2>2. lightly' = lightly
    BY <1>1, StepKeeps
  <2>3. ASSUME TriesNext(c) PROVE LeftFits(attempt'[c].kind, attempt'[c].left)
    <3>1. LeftFits(attempt[c].kind, attempt[c].left) /\ Len(attempt[c].left) \in Nat
      BY <2>1, ReadIsNat DEF AttemptsFit, Recovering
    <3> QED
      BY <2>3, <3>1, NextFits DEF TriesNext
  <2>4. Recovering(c)
    BY <2>1 DEF Recovering
  <2>5. Recovering(c)' => /\ attempt'[c].kind = attempt[c].kind
                          /\ LeftFits(attempt'[c].kind, attempt'[c].left)
    BY <2>1, <2>3, <2>4 DEF AttemptsFit, Recovering, TriesNext
  <2> QED
    BY <2>1, <2>2, <2>4, <2>5 DEF Others, AttemptsFit, Recovering
<1>2. ASSUME NEW c \in RecoveryCallers, NEW kind \in ErrorKinds, MeetsError(c, kind)
      PROVE  AttemptsFit'
  <2>1. /\ Others(c) /\ attempt'[c].kind = kind /\ LeftFits(kind, attempt'[c].left)
    BY <1>2, MetBegins, StrategiesFit
  <2>2. lightly' = lightly \cup ({kind} \cap {"load", "corrupt", "refused"})
    BY <1>2 DEF MeetsError
  <2> QED
    BY <2>1, <2>2 DEF Others, AttemptsFit, Recovering
<1>3. CASE UNCHANGED recoveryVars
  BY <1>3 DEF recoveryVars, AttemptsFit, Recovering, LeftFits
<1> QED
  BY <1>1, <1>2, <1>3 DEF RecoveryNext

\* What a caller has read is what is there, and what it leaves behind is used up.
LEMMA CarefulStep ==
  ASSUME RecoveryIInv, NEW c \in RecoveryCallers, RecoveryStep(c)
  PROVE  Careful(c)'
<1> USE RecoveryAssumption DEF RecoveryIInv, Recovering, ChainsOK, RetriesOK, Chains, LastOf
<1>1. CASE GivesUp(c)
  <2>1. /\ attempt[c].step # "idle"
        /\ attempt'[c].step = "idle"
    BY <1>1, GivesUpTurns
  <2>9. LeftFits(attempt[c].kind, attempt[c].left) /\ attempt[c].read \in Nat
          /\ Len(attempt[c].left) \in Nat
    BY <2>1, ReadIsNat DEF AttemptsFit, Recovering
  <2> QED
    BY <1>1, <2>1, <2>9 DEF GivesUp, Careful, TurnsTo, TriesNext, LeftFits
<1>2. CASE Guides(c)
  <2>1. /\ attempt[c].step # "idle" /\ Len(attempt[c].left) >= 1
             /\ attempt[c].left[1] = "guidance"
        /\ attempt'[c].step = "idle"
    BY <1>2, GuidesTurns
  <2>9. LeftFits(attempt[c].kind, attempt[c].left) /\ attempt[c].read \in Nat
          /\ Len(attempt[c].left) \in Nat
    BY <2>1, ReadIsNat DEF AttemptsFit, Recovering
  <2> QED
    BY <1>2, <2>1, <2>9 DEF Guides, At, Careful, TurnsTo, TriesNext, LeftFits
<1>3. CASE AsksForSpace(c)
  <2>1. /\ attempt[c].step # "idle" /\ Len(attempt[c].left) >= 1 /\ attempt[c].left[1] = "disk"
        /\ attempt'[c].step = "idle"
    BY <1>3, AsksForSpaceTurns
  <2>9. LeftFits(attempt[c].kind, attempt[c].left) /\ attempt[c].read \in Nat
          /\ Len(attempt[c].left) \in Nat
    BY <2>1, ReadIsNat DEF AttemptsFit, Recovering
  <2> QED
    BY <1>3, <2>1, <2>9 DEF AsksForSpace, At, Careful, TurnsTo, TriesNext, LeftFits
<1>4. CASE SwitchesDevice(c)
  <2>1. /\ attempt[c].step # "idle" /\ Len(attempt[c].left) >= 1 /\ attempt[c].left[1] = "device"
        /\ attempt'[c].step = "idle" \/ TriesNext(c)
    BY <1>4, SwitchesDeviceTurns
  <2>9. LeftFits(attempt[c].kind, attempt[c].left) /\ attempt[c].read \in Nat
          /\ Len(attempt[c].left) \in Nat
    BY <2>1, ReadIsNat DEF AttemptsFit, Recovering
  <2>8. TriesNext(c) /\ Len(attempt'[c].left) >= 1 =>
          /\ Len(attempt[c].left) = 2 /\ attempt'[c].left[1] = attempt[c].left[2]
          /\ attempt'[c].kind = attempt[c].kind
    BY <2>9, SecondIsNext DEF TriesNext
  <2>7. TriesNext(c) => attempt'[c].step = "try"
    BY DEF TriesNext
  <2>6. Len(attempt[c].left) # 2
    BY <2>1, <2>9 DEF LeftFits
  <2> QED
    BY <1>4, <2>1, <2>9, <2>8, <2>7, <2>6 DEF SwitchesDevice, At, Careful, TurnsTo
<1>5. CASE RepairsSession(c)
  <2>1. /\ attempt[c].step # "idle" /\ Len(attempt[c].left) >= 1 /\ attempt[c].left[1] = "session"
        /\ attempt'[c].step = "idle" \/ TriesNext(c)
    BY <1>5, RepairsSessionTurns
  <2>9. LeftFits(attempt[c].kind, attempt[c].left) /\ attempt[c].read \in Nat
          /\ Len(attempt[c].left) \in Nat
    BY <2>1, ReadIsNat DEF AttemptsFit, Recovering
  <2>8. TriesNext(c) /\ Len(attempt'[c].left) >= 1 =>
          /\ Len(attempt[c].left) = 2 /\ attempt'[c].left[1] = attempt[c].left[2]
          /\ attempt'[c].kind = attempt[c].kind
    BY <2>9, SecondIsNext DEF TriesNext
  <2>7. TriesNext(c) => attempt'[c].step = "try"
    BY DEF TriesNext
  <2>6. Len(attempt[c].left) # 2
    BY <2>1, <2>9 DEF LeftFits
  <2> QED
    BY <1>5, <2>1, <2>9, <2>8, <2>7, <2>6 DEF RepairsSession, At, Careful, TurnsTo
<1>6. CASE Downloads(c)
  <2>1. /\ attempt[c].step # "idle" /\ Len(attempt[c].left) >= 1
             /\ attempt[c].left[1] = "download"
        /\ attempt'[c].step = "idle" \/ TurnsTo(c, "try", attempt[c].read + 1, FALSE)
             \/ TriesNext(c)
    BY <1>6, DownloadsTurns
  <2>9. LeftFits(attempt[c].kind, attempt[c].left) /\ attempt[c].read \in Nat
          /\ Len(attempt[c].left) \in Nat
    BY <2>1, ReadIsNat DEF AttemptsFit, Recovering
  <2>8. TriesNext(c) /\ Len(attempt'[c].left) >= 1 =>
          /\ Len(attempt[c].left) = 2 /\ attempt'[c].left[1] = attempt[c].left[2]
          /\ attempt'[c].kind = attempt[c].kind
    BY <2>9, SecondIsNext DEF TriesNext
  <2>7. TriesNext(c) => attempt'[c].step = "try"
    BY DEF TriesNext
  <2>6. Len(attempt[c].left) = 2 => attempt[c].left[2] \in {"model", "offline"} /\
          (attempt[c].kind = "loadOom" => attempt[c].left[1] = "oom") /\
          (attempt[c].kind = "unavailable" => attempt[c].left[1] = "retry")
    BY <2>9 DEF LeftFits
  <2> QED
    BY <1>6, <2>1, <2>9, <2>8, <2>7, <2>6 DEF Downloads, At, Careful, TurnsTo
<1>7. CASE ReadsCompute(c)
  <2>1. /\ attempt[c].step # "idle" /\ Len(attempt[c].left) >= 1 /\ attempt[c].left[1] = "oom"
        /\ TurnsTo(c, "compute", chainAt["compute"], attempt[c].applied)
    BY <1>7, ReadsComputeTurns
  <2>9. LeftFits(attempt[c].kind, attempt[c].left) /\ attempt[c].read \in Nat
          /\ Len(attempt[c].left) \in Nat
    BY <2>1, ReadIsNat DEF AttemptsFit, Recovering
  <2> QED
    BY <1>7, <2>1, <2>9 DEF ReadsCompute, ReadsChain, At, Careful, TurnsTo, TriesNext, LeftFits
<1>8. CASE MovesCompute(c)
  <2>1. /\ attempt[c].step # "idle" /\ Len(attempt[c].left) >= 1 /\ attempt[c].left[1] = "oom"
        /\ TurnsTo(c, "device", 0, MovesOn("compute", attempt[c].read))
    BY <1>8, MovesComputeTurns
  <2>9. LeftFits(attempt[c].kind, attempt[c].left) /\ attempt[c].read \in Nat
          /\ Len(attempt[c].left) \in Nat
    BY <2>1, ReadIsNat DEF AttemptsFit, Recovering
  <2> QED
    BY <1>8, <2>1, <2>9 DEF MovesCompute, At, Moves, MovesOn, Careful, TurnsTo, TriesNext,
         LeftFits
<1>9. CASE ReadsBatch(c)
  <2>1. /\ attempt[c].step # "idle" /\ Len(attempt[c].left) >= 1 /\ attempt[c].left[1] = "oom"
        /\ TurnsTo(c, "batch", chainAt["batch"], attempt[c].applied)
    BY <1>9, ReadsBatchTurns
  <2>9. LeftFits(attempt[c].kind, attempt[c].left) /\ attempt[c].read \in Nat
          /\ Len(attempt[c].left) \in Nat
    BY <2>1, ReadIsNat DEF AttemptsFit, Recovering
  <2> QED
    BY <1>9, <2>1, <2>9 DEF ReadsBatch, ReadsChain, At, Careful, TurnsTo, TriesNext, LeftFits
<1>10. CASE MovesBatch(c)
  <2>1. /\ attempt[c].step # "idle" /\ Len(attempt[c].left) >= 1 /\ attempt[c].left[1] = "oom"
        /\ attempt'[c].step = "idle" \/ TriesNext(c)
    BY <1>10, MovesBatchTurns
  <2>9. LeftFits(attempt[c].kind, attempt[c].left) /\ attempt[c].read \in Nat
          /\ Len(attempt[c].left) \in Nat
    BY <2>1, ReadIsNat DEF AttemptsFit, Recovering
  <2>8. TriesNext(c) /\ Len(attempt'[c].left) >= 1 =>
          /\ Len(attempt[c].left) = 2 /\ attempt'[c].left[1] = attempt[c].left[2]
          /\ attempt'[c].kind = attempt[c].kind
    BY <2>9, SecondIsNext DEF TriesNext
  <2>7. TriesNext(c) => attempt'[c].step = "try"
    BY DEF TriesNext
  <2>6. Len(attempt[c].left) = 2 => attempt[c].left[2] \in {"model", "offline"} /\
          (attempt[c].kind = "loadOom" => attempt[c].left[1] = "oom") /\
          (attempt[c].kind = "unavailable" => attempt[c].left[1] = "retry")
    BY <2>9 DEF LeftFits
  <2>2. CASE Succeeds(c)
    <3>1. attempt'[c].step = "idle"
      BY <2>2, SucceedsEnds
    <3> QED
      BY <3>1 DEF Careful
  <2>3. CASE Fails(c) /\ ~attempt[c].applied /\ ~MovesOn("batch", attempt[c].read)
    <3>1. TriesNext(c)
      BY <2>1, <2>3, <2>9, EmptySeq, FailsTriesNext, <1>10 DEF MovesBatch, At
    <3>2. together' = together /\ chainAt' = chainAt
      <4>1. together' = together /\ chainAt' = [chainAt EXCEPT !["batch"] = @]
        BY <1>10, <2>3 DEF MovesBatch, Moves
      <4> QED
        BY <4>1
    <3>3. ~together => chainAt["compute"] = 1 /\ chainAt["batch"] = LastBatch
      BY <1>10, <2>3, <2>9 DEF MovesBatch, At, Careful, MovesOn
    <3> QED
      BY <2>6, <2>7, <2>8, <2>1, <3>1, <3>2, <3>3 DEF Careful
  <2> QED
    BY <1>10, <2>2, <2>3 DEF MovesBatch
<1>11. CASE ReadsModel(c)
  <2>1. /\ attempt[c].step # "idle" /\ Len(attempt[c].left) >= 1 /\ attempt[c].left[1] = "model"
        /\ TurnsTo(c, "model", chainAt["model"], attempt[c].applied)
    BY <1>11, ReadsModelTurns
  <2>9. LeftFits(attempt[c].kind, attempt[c].left) /\ attempt[c].read \in Nat
          /\ Len(attempt[c].left) \in Nat
    BY <2>1, ReadIsNat DEF AttemptsFit, Recovering
  <2> QED
    BY <1>11, <2>1, <2>9 DEF ReadsModel, ReadsChain, At, Careful, TurnsTo, TriesNext, LeftFits
<1>12. CASE MovesModel(c)
  <2>1. /\ attempt[c].step # "idle" /\ Len(attempt[c].left) >= 1 /\ attempt[c].left[1] = "model"
        /\ attempt'[c].step = "idle" \/ TriesNext(c)
    BY <1>12, MovesModelTurns
  <2>9. LeftFits(attempt[c].kind, attempt[c].left) /\ attempt[c].read \in Nat
          /\ Len(attempt[c].left) \in Nat
    BY <2>1, ReadIsNat DEF AttemptsFit, Recovering
  <2>8. TriesNext(c) /\ Len(attempt'[c].left) >= 1 =>
          /\ Len(attempt[c].left) = 2 /\ attempt'[c].left[1] = attempt[c].left[2]
          /\ attempt'[c].kind = attempt[c].kind
    BY <2>9, SecondIsNext DEF TriesNext
  <2>7. TriesNext(c) => attempt'[c].step = "try"
    BY DEF TriesNext
  <2>6. Len(attempt[c].left) = 2 => attempt[c].left[2] \in {"model", "offline"} /\
          (attempt[c].kind = "loadOom" => attempt[c].left[1] = "oom") /\
          (attempt[c].kind = "unavailable" => attempt[c].left[1] = "retry")
    BY <2>9 DEF LeftFits
  <2> QED
    BY <1>12, <2>1, <2>9, <2>8, <2>7, <2>6 DEF MovesModel, At, Moves, MovesOn, Careful, TurnsTo
<1>13. CASE ReadsRetries(c)
  <2>1. /\ attempt[c].step # "idle" /\ Len(attempt[c].left) >= 1 /\ attempt[c].left[1] = "retry"
        /\ TurnsTo(c, "retry", retries[attempt[c].kind], FALSE)
    BY <1>13, ReadsRetriesTurns
  <2>9. LeftFits(attempt[c].kind, attempt[c].left) /\ attempt[c].read \in Nat
          /\ Len(attempt[c].left) \in Nat
    BY <2>1, ReadIsNat DEF AttemptsFit, Recovering
  <2> QED
    BY <1>13, <2>1, <2>9 DEF ReadsRetries, At, Careful, TurnsTo, TriesNext, LeftFits
<1>14. CASE StopsRetrying(c)
  <2>1. /\ attempt[c].step # "idle" /\ Len(attempt[c].left) >= 1 /\ attempt[c].left[1] = "retry"
        /\ TriesNext(c)
    BY <1>14, StopsRetryingTurns
  <2>9. LeftFits(attempt[c].kind, attempt[c].left) /\ attempt[c].read \in Nat
          /\ Len(attempt[c].left) \in Nat
    BY <2>1, ReadIsNat DEF AttemptsFit, Recovering
  <2>8. TriesNext(c) /\ Len(attempt'[c].left) >= 1 =>
          /\ Len(attempt[c].left) = 2 /\ attempt'[c].left[1] = attempt[c].left[2]
          /\ attempt'[c].kind = attempt[c].kind
    BY <2>9, SecondIsNext DEF TriesNext
  <2>7. TriesNext(c) => attempt'[c].step = "try"
    BY DEF TriesNext
  <2>6. Len(attempt[c].left) = 2 => attempt[c].left[2] \in {"model", "offline"} /\
          (attempt[c].kind = "loadOom" => attempt[c].left[1] = "oom") /\
          (attempt[c].kind = "unavailable" => attempt[c].left[1] = "retry")
    BY <2>9 DEF LeftFits
  <2>2. /\ ~together => attempt[c].read = retries[attempt[c].kind]
        /\ together' = together /\ retries' = retries /\ attempt[c].read + 1 > MaxRetries
    BY SMTT(60), <1>14, <2>9 DEF StopsRetrying, At, MayRetry, Careful
  <2>3. ~together /\ attempt[c].kind = "unavailable" => retries'["unavailable"] = MaxRetries
    BY SMTT(60), <2>2, <2>9
  <2> QED
    BY <2>1, <2>2, <2>3, <2>6, <2>7, <2>8 DEF Careful
<1>15. CASE WritesRetries(c)
  <2>1. /\ attempt[c].step # "idle" /\ Len(attempt[c].left) >= 1 /\ attempt[c].left[1] = "retry"
        /\ TurnsTo(c, "wait", 0, FALSE)
    BY <1>15, WritesRetriesTurns
  <2>9. LeftFits(attempt[c].kind, attempt[c].left) /\ attempt[c].read \in Nat
          /\ Len(attempt[c].left) \in Nat
    BY <2>1, ReadIsNat DEF AttemptsFit, Recovering
  <2> QED
    BY <1>15, <2>1, <2>9 DEF WritesRetries, At, MayRetry, Careful, TurnsTo, TriesNext, LeftFits
<1>16. CASE Retries(c)
  <2>1. /\ attempt[c].step # "idle" /\ Len(attempt[c].left) >= 1 /\ attempt[c].left[1] = "retry"
        /\ attempt'[c].step = "idle"
    BY <1>16, RetriesTurns
  <2>9. LeftFits(attempt[c].kind, attempt[c].left) /\ attempt[c].read \in Nat
          /\ Len(attempt[c].left) \in Nat
    BY <2>1, ReadIsNat DEF AttemptsFit, Recovering
  <2> QED
    BY <1>16, <2>1, <2>9 DEF Retries, At, Careful, TurnsTo, TriesNext, LeftFits
<1>17. CASE GoesOffline(c)
  <2>1. /\ attempt[c].step # "idle" /\ Len(attempt[c].left) >= 1 /\ attempt[c].left[1] = "offline"
        /\ attempt'[c].step = "idle"
    BY <1>17, GoesOfflineTurns
  <2>9. LeftFits(attempt[c].kind, attempt[c].left) /\ attempt[c].read \in Nat
          /\ Len(attempt[c].left) \in Nat
    BY <2>1, ReadIsNat DEF AttemptsFit, Recovering
  <2> QED
    BY <1>17, <2>1, <2>9 DEF GoesOffline, At, Careful, TurnsTo, TriesNext, LeftFits
<1> QED
  BY <1>1, <1>2, <1>3, <1>4, <1>5, <1>6, <1>7, <1>8, <1>9, <1>10, <1>11, <1>12, <1>13, <1>14,
       <1>15, <1>16, <1>17 DEF RecoveryStep

\* The same of every caller.
LEMMA CarefulNext ==
  RecoveryIInv /\ [RecoveryNext]_recoveryVars => \A c \in RecoveryCallers : Careful(c)'
<1> SUFFICES ASSUME RecoveryIInv, [RecoveryNext]_recoveryVars, NEW c \in RecoveryCallers
             PROVE  Careful(c)'
  OBVIOUS
<1> USE DEF RecoveryIInv
<1>1. ASSUME NEW d \in RecoveryCallers, RecoveryStep(d) PROVE Careful(c)'
  <2>1. CASE d = c
    BY <1>1, <2>1, CarefulStep
  <2>2. CASE d # c
    <3>1. Others(d) /\ Recovering(d)
      BY <1>1, StepTurns DEF Recovering
    <3>2. together' = together
      BY <1>1, StepKeeps
    <3>3. ~together' => ~Recovering(c)'
      BY <2>2, <3>1, <3>2 DEF OneRecovers, Others, Recovering
    <3> QED
      BY <3>3 DEF Careful
  <2> QED
    BY <2>1, <2>2
<1>2. ASSUME NEW d \in RecoveryCallers, NEW kind \in ErrorKinds, MeetsError(d, kind)
      PROVE  Careful(c)'
  <2>1. CASE d = c
    <3>1. attempt'[c].kind = kind /\ attempt'[c].step = "try"
            /\ attempt'[c].left = StrategiesFor(kind)
      BY <1>2, <2>1, MetBegins
    <3>2. /\ kind = "loadOom" => StrategiesFor(kind)[1] = "oom"
          /\ kind = "unavailable" => StrategiesFor(kind)[1] = "retry"
      BY DEF StrategiesFor
    <3> QED
      BY <3>1, <3>2 DEF Careful
  <2>2. CASE d # c
    <3>1. Others(d) /\ (~together' => ~Recovering(c))
      BY <1>2, <2>2, MetBegins DEF MeetsError
    <3> QED
      BY <2>2, <3>1 DEF Careful, Others, Recovering
  <2> QED
    BY <2>1, <2>2
<1>3. CASE UNCHANGED recoveryVars
  BY <1>3 DEF recoveryVars, Careful, Recovering
<1> QED
  BY <1>1, <1>2, <1>3 DEF RecoveryNext

\* The model is made smaller last.
LEMMA QualityNext == RecoveryIInv /\ [RecoveryNext]_recoveryVars => QualityIsGivenUpLast'
<1> SUFFICES ASSUME RecoveryIInv, [RecoveryNext]_recoveryVars PROVE QualityIsGivenUpLast'
  OBVIOUS
<1> USE RecoveryAssumption DEF RecoveryIInv, QualityIsGivenUpLast, ChainsOK, Chains, LastOf
<1>1. ASSUME NEW c \in RecoveryCallers, GivesUp(c) PROVE QualityIsGivenUpLast'
  BY <1>1 DEF GivesUp
<1>2. ASSUME NEW c \in RecoveryCallers, Guides(c) PROVE QualityIsGivenUpLast'
  BY <1>2 DEF Guides
<1>3. ASSUME NEW c \in RecoveryCallers, AsksForSpace(c) PROVE QualityIsGivenUpLast'
  BY <1>3 DEF AsksForSpace
<1>4. ASSUME NEW c \in RecoveryCallers, SwitchesDevice(c) PROVE QualityIsGivenUpLast'
  BY <1>4 DEF SwitchesDevice
<1>5. ASSUME NEW c \in RecoveryCallers, RepairsSession(c) PROVE QualityIsGivenUpLast'
  BY <1>5 DEF RepairsSession
<1>6. ASSUME NEW c \in RecoveryCallers, Downloads(c) PROVE QualityIsGivenUpLast'
  BY <1>6 DEF Downloads
<1>7. ASSUME NEW c \in RecoveryCallers, ReadsCompute(c) PROVE QualityIsGivenUpLast'
  BY <1>7 DEF ReadsCompute, ReadsChain
<1>8. ASSUME NEW c \in RecoveryCallers, MovesCompute(c) PROVE QualityIsGivenUpLast'
  <2>1. Careful(c) /\ attempt[c].step # "idle" /\ attempt[c].read \in Nat
    BY <1>8, MovesComputeTurns, ReadIsNat
  <2>2. Len(attempt[c].left) >= 1 /\ attempt[c].left[1] = "oom" /\ LeftFits(attempt[c].kind,
          attempt[c].left)
        /\ (attempt[c].kind \in {"load", "corrupt", "refused"} => attempt[c].kind \in lightly)
    BY <1>8, <2>1, MovesComputeTurns DEF AttemptsFit, Recovering
  <2> QED
    BY <1>8, <2>1, <2>2 DEF MovesCompute, Moves, MovesOn, Careful, Recovering, LeftFits, At
<1>9. ASSUME NEW c \in RecoveryCallers, ReadsBatch(c) PROVE QualityIsGivenUpLast'
  BY <1>9 DEF ReadsBatch, ReadsChain
<1>10. ASSUME NEW c \in RecoveryCallers, MovesBatch(c) PROVE QualityIsGivenUpLast'
  <2>1. Careful(c) /\ attempt[c].step # "idle" /\ attempt[c].read \in Nat
    BY <1>10, MovesBatchTurns, ReadIsNat
  <2>2. Len(attempt[c].left) >= 1 /\ attempt[c].left[1] = "oom" /\ LeftFits(attempt[c].kind,
          attempt[c].left)
        /\ (attempt[c].kind \in {"load", "corrupt", "refused"} => attempt[c].kind \in lightly)
    BY <1>10, <2>1, MovesBatchTurns DEF AttemptsFit, Recovering
  <2> QED
    BY <1>10, <2>1, <2>2 DEF MovesBatch, Moves, MovesOn, Careful, Recovering, LeftFits, At
<1>11. ASSUME NEW c \in RecoveryCallers, ReadsModel(c) PROVE QualityIsGivenUpLast'
  BY <1>11 DEF ReadsModel, ReadsChain
<1>12. ASSUME NEW c \in RecoveryCallers, MovesModel(c) PROVE QualityIsGivenUpLast'
  <2>1. Careful(c) /\ attempt[c].step # "idle" /\ attempt[c].read \in Nat
    BY <1>12, MovesModelTurns, ReadIsNat
  <2>2. Len(attempt[c].left) >= 1 /\ attempt[c].left[1] = "model" /\ LeftFits(attempt[c].kind,
          attempt[c].left)
        /\ (attempt[c].kind \in {"load", "corrupt", "refused"} => attempt[c].kind \in lightly)
    BY <1>12, <2>1, MovesModelTurns DEF AttemptsFit, Recovering
  <2> QED
    BY <1>12, <2>1, <2>2 DEF MovesModel, Moves, MovesOn, Careful, Recovering, LeftFits, At
<1>13. ASSUME NEW c \in RecoveryCallers, ReadsRetries(c) PROVE QualityIsGivenUpLast'
  BY <1>13 DEF ReadsRetries
<1>14. ASSUME NEW c \in RecoveryCallers, StopsRetrying(c) PROVE QualityIsGivenUpLast'
  BY <1>14 DEF StopsRetrying
<1>15. ASSUME NEW c \in RecoveryCallers, WritesRetries(c) PROVE QualityIsGivenUpLast'
  BY <1>15 DEF WritesRetries
<1>16. ASSUME NEW c \in RecoveryCallers, Retries(c) PROVE QualityIsGivenUpLast'
  BY <1>16 DEF Retries
<1>17. ASSUME NEW c \in RecoveryCallers, GoesOffline(c) PROVE QualityIsGivenUpLast'
  BY <1>17 DEF GoesOffline
<1>18. ASSUME NEW c \in RecoveryCallers, NEW kind \in ErrorKinds, MeetsError(c, kind)
       PROVE  QualityIsGivenUpLast'
  BY <1>18 DEF MeetsError
<1>19. CASE UNCHANGED recoveryVars
  BY <1>19 DEF recoveryVars
<1> QED
  BY <1>1, <1>2, <1>3, <1>4, <1>5, <1>6, <1>7, <1>8, <1>9, <1>10, <1>11, <1>12, <1>13, <1>14,
       <1>15, <1>16, <1>17, <1>18, <1>19 DEF RecoveryNext, RecoveryStep

\* Retries come before going offline.
LEMMA OfflineNext == RecoveryIInv /\ [RecoveryNext]_recoveryVars => OfflineAfterRetries'
<1> SUFFICES ASSUME RecoveryIInv, [RecoveryNext]_recoveryVars PROVE OfflineAfterRetries'
  OBVIOUS
<1> USE RecoveryAssumption DEF RecoveryIInv, OfflineAfterRetries, RetriesOK
<1>1. ASSUME NEW c \in RecoveryCallers, GivesUp(c) PROVE OfflineAfterRetries'
  BY <1>1 DEF GivesUp
<1>2. ASSUME NEW c \in RecoveryCallers, Guides(c) PROVE OfflineAfterRetries'
  BY <1>2 DEF Guides
<1>3. ASSUME NEW c \in RecoveryCallers, AsksForSpace(c) PROVE OfflineAfterRetries'
  BY <1>3 DEF AsksForSpace
<1>4. ASSUME NEW c \in RecoveryCallers, SwitchesDevice(c) PROVE OfflineAfterRetries'
  BY <1>4 DEF SwitchesDevice
<1>5. ASSUME NEW c \in RecoveryCallers, RepairsSession(c) PROVE OfflineAfterRetries'
  BY <1>5 DEF RepairsSession
<1>6. ASSUME NEW c \in RecoveryCallers, Downloads(c) PROVE OfflineAfterRetries'
  BY <1>6 DEF Downloads
<1>7. ASSUME NEW c \in RecoveryCallers, ReadsCompute(c) PROVE OfflineAfterRetries'
  BY <1>7 DEF ReadsCompute, ReadsChain
<1>8. ASSUME NEW c \in RecoveryCallers, MovesCompute(c) PROVE OfflineAfterRetries'
  BY <1>8 DEF MovesCompute
<1>9. ASSUME NEW c \in RecoveryCallers, ReadsBatch(c) PROVE OfflineAfterRetries'
  BY <1>9 DEF ReadsBatch, ReadsChain
<1>10. ASSUME NEW c \in RecoveryCallers, MovesBatch(c) PROVE OfflineAfterRetries'
  BY <1>10 DEF MovesBatch
<1>11. ASSUME NEW c \in RecoveryCallers, ReadsModel(c) PROVE OfflineAfterRetries'
  BY <1>11 DEF ReadsModel, ReadsChain
<1>12. ASSUME NEW c \in RecoveryCallers, MovesModel(c) PROVE OfflineAfterRetries'
  BY <1>12 DEF MovesModel
<1>13. ASSUME NEW c \in RecoveryCallers, ReadsRetries(c) PROVE OfflineAfterRetries'
  BY <1>13 DEF ReadsRetries
<1>14. ASSUME NEW c \in RecoveryCallers, StopsRetrying(c) PROVE OfflineAfterRetries'
  BY <1>14 DEF StopsRetrying
<1>15. ASSUME NEW c \in RecoveryCallers, WritesRetries(c) PROVE OfflineAfterRetries'
  <2>1. Careful(c) /\ attempt[c].step # "idle" /\ attempt[c].read \in Nat
    BY <1>15, WritesRetriesTurns, ReadIsNat
  <2>2. Len(attempt[c].left) >= 1 /\ attempt[c].left[1] = "retry" /\ LeftFits(attempt[c].kind,
          attempt[c].left)
        /\ (attempt[c].kind \in {"load", "corrupt", "refused"} => attempt[c].kind \in lightly)
    BY <1>15, <2>1, WritesRetriesTurns DEF AttemptsFit, Recovering
  <2> QED
    BY <1>15, <2>1, <2>2 DEF WritesRetries, MayRetry, Careful, Recovering, LeftFits, At
<1>16. ASSUME NEW c \in RecoveryCallers, Retries(c) PROVE OfflineAfterRetries'
  BY <1>16 DEF Retries
<1>17. ASSUME NEW c \in RecoveryCallers, GoesOffline(c) PROVE OfflineAfterRetries'
  <2>1. Careful(c) /\ attempt[c].step # "idle" /\ attempt[c].read \in Nat
    BY <1>17, GoesOfflineTurns, ReadIsNat
  <2>2. Len(attempt[c].left) >= 1 /\ attempt[c].left[1] = "offline"
          /\ LeftFits(attempt[c].kind, attempt[c].left)
        /\ (attempt[c].kind \in {"load", "corrupt", "refused"} => attempt[c].kind \in lightly)
    BY <1>17, <2>1, GoesOfflineTurns DEF AttemptsFit, Recovering
  <2> QED
    BY <1>17, <2>1, <2>2 DEF GoesOffline, Careful, Recovering, LeftFits, At
<1>18. ASSUME NEW c \in RecoveryCallers, NEW kind \in ErrorKinds, MeetsError(c, kind)
       PROVE  OfflineAfterRetries'
  BY <1>18 DEF MeetsError
<1>19. CASE UNCHANGED recoveryVars
  BY <1>19 DEF recoveryVars
<1> QED
  BY <1>1, <1>2, <1>3, <1>4, <1>5, <1>6, <1>7, <1>8, <1>9, <1>10, <1>11, <1>12, <1>13, <1>14,
       <1>15, <1>16, <1>17, <1>18, <1>19 DEF RecoveryNext, RecoveryStep

\* Each retry granted is counted.
LEMMA GrantsNext == RecoveryIInv /\ [RecoveryNext]_recoveryVars => GrantsAreCounted'
<1> SUFFICES ASSUME RecoveryIInv, [RecoveryNext]_recoveryVars PROVE GrantsAreCounted'
  OBVIOUS
<1> USE RecoveryAssumption DEF RecoveryIInv, GrantsAreCounted, RetriesOK, FlagsOK
<1>1. ASSUME NEW c \in RecoveryCallers, GivesUp(c) PROVE GrantsAreCounted'
  BY <1>1 DEF GivesUp
<1>2. ASSUME NEW c \in RecoveryCallers, Guides(c) PROVE GrantsAreCounted'
  BY <1>2 DEF Guides
<1>3. ASSUME NEW c \in RecoveryCallers, AsksForSpace(c) PROVE GrantsAreCounted'
  BY <1>3 DEF AsksForSpace
<1>4. ASSUME NEW c \in RecoveryCallers, SwitchesDevice(c) PROVE GrantsAreCounted'
  BY <1>4 DEF SwitchesDevice
<1>5. ASSUME NEW c \in RecoveryCallers, RepairsSession(c) PROVE GrantsAreCounted'
  BY <1>5 DEF RepairsSession
<1>6. ASSUME NEW c \in RecoveryCallers, Downloads(c) PROVE GrantsAreCounted'
  BY <1>6 DEF Downloads
<1>7. ASSUME NEW c \in RecoveryCallers, ReadsCompute(c) PROVE GrantsAreCounted'
  BY <1>7 DEF ReadsCompute, ReadsChain
<1>8. ASSUME NEW c \in RecoveryCallers, MovesCompute(c) PROVE GrantsAreCounted'
  BY <1>8 DEF MovesCompute
<1>9. ASSUME NEW c \in RecoveryCallers, ReadsBatch(c) PROVE GrantsAreCounted'
  BY <1>9 DEF ReadsBatch, ReadsChain
<1>10. ASSUME NEW c \in RecoveryCallers, MovesBatch(c) PROVE GrantsAreCounted'
  BY <1>10 DEF MovesBatch
<1>11. ASSUME NEW c \in RecoveryCallers, ReadsModel(c) PROVE GrantsAreCounted'
  BY <1>11 DEF ReadsModel, ReadsChain
<1>12. ASSUME NEW c \in RecoveryCallers, MovesModel(c) PROVE GrantsAreCounted'
  BY <1>12 DEF MovesModel
<1>13. ASSUME NEW c \in RecoveryCallers, ReadsRetries(c) PROVE GrantsAreCounted'
  BY <1>13 DEF ReadsRetries
<1>14. ASSUME NEW c \in RecoveryCallers, StopsRetrying(c) PROVE GrantsAreCounted'
  BY <1>14 DEF StopsRetrying
<1>15. ASSUME NEW c \in RecoveryCallers, WritesRetries(c) PROVE GrantsAreCounted'
  <2>1. attempt[c].read \in Nat /\ attempt[c].kind \in {"unavailable", "timeout"}
    BY <1>15, ReadIsNat, WritesRetriesTurns DEF AttemptsFit, Recovering, LeftFits
  <2>2. ~together => attempt[c].read = retries[attempt[c].kind]
    BY <1>15 DEF WritesRetries, At, Careful, Recovering
  <2>3. /\ retries' = [retries EXCEPT ![attempt[c].kind] = attempt[c].read + 1]
        /\ granted' = granted + 1 /\ together' = together
    BY <1>15 DEF WritesRetries
  <2>4. CASE attempt[c].kind = "unavailable"
    BY <2>1, <2>2, <2>3, <2>4
  <2>5. CASE attempt[c].kind = "timeout"
    BY <2>1, <2>2, <2>3, <2>5
  <2> QED
    BY <2>1, <2>4, <2>5
<1>16. ASSUME NEW c \in RecoveryCallers, Retries(c) PROVE GrantsAreCounted'
  BY <1>16 DEF Retries
<1>17. ASSUME NEW c \in RecoveryCallers, GoesOffline(c) PROVE GrantsAreCounted'
  BY <1>17 DEF GoesOffline
<1>18. ASSUME NEW c \in RecoveryCallers, NEW kind \in ErrorKinds, MeetsError(c, kind)
       PROVE  GrantsAreCounted'
  BY <1>18 DEF MeetsError
<1>19. CASE UNCHANGED recoveryVars
  BY <1>19 DEF recoveryVars
<1> QED
  BY <1>1, <1>2, <1>3, <1>4, <1>5, <1>6, <1>7, <1>8, <1>9, <1>10, <1>11, <1>12, <1>13, <1>14,
       <1>15, <1>16, <1>17, <1>18, <1>19 DEF RecoveryNext, RecoveryStep

\* The invariant is kept.
LEMMA RecoveryKept == RecoveryIInv /\ [RecoveryNext]_recoveryVars => RecoveryIInv'
<1> SUFFICES ASSUME RecoveryIInv, [RecoveryNext]_recoveryVars PROVE RecoveryIInv'
  OBVIOUS
<1>1. AttemptsOK' /\ OneRecovers' /\ ChainsOK' /\ RetriesOK' /\ FlagsOK'
  BY OneRecoversNext, ChainsNext, RetriesNext, RecoveryFlagsNext
<1>2. AttemptsFit' /\ \A c \in RecoveryCallers : Careful(c)'
  BY AttemptsFitNext, CarefulNext
<1>3. GrantsAreCounted' /\ QualityIsGivenUpLast' /\ OfflineAfterRetries'
  BY GrantsNext, QualityNext, OfflineNext
<1> QED
  BY <1>1, <1>2, <1>3 DEF RecoveryIInv

\* Errors are met by what costs least, and nothing is given up before it was tried.
LEMMA RecoveryIsSafe == RecoveryInit /\ [][RecoveryNext]_recoveryVars => []RecoveryInv
<1>1. ASSUME RecoveryIInv PROVE RecoveryInv
  <2> USE <1>1, RecoveryAssumption DEF RecoveryIInv
  <2>1. ASSUME NEW c \in RecoveryCallers
        PROVE  /\ attempt[c].kind \in ErrorKinds \cup {"none"}
                    /\ attempt[c].step \in RecoverySteps
               /\ attempt[c].read \in Nat /\ attempt[c].applied \in BOOLEAN
    BY DEF AttemptsOK, AttemptRecords
  <2>2. \A x \in Chains : chainAt[x] \in 0 .. LastOf[x]
    BY DEF ChainsOK, Chains, LastOf
  <2>3. \A k \in DOMAIN retries : retries[k] \in 0 .. MaxRetries
    BY DEF RetriesOK
  <2> QED
    BY <2>1, <2>2, <2>3 DEF RecoveryInv, RecoveryTypeOK, RecoverySteps, FlagsOK
<1> QED
  BY RecoveryInitInv, RecoveryKept, <1>1, PTL

\* While threads recover one at a time no option is taken again, and no more retries are
\* granted than there are (fallback() and recover() of recovery_strategies.py).
LEMMA OptionsOnlyMoveOn == RecoveryInit /\ [][RecoveryNext]_recoveryVars => OnlyMovesOn
<1> DEFINE Moved == ~together' => /\ \A x \in Chains : chainAt'[x] \in {chainAt[x],
                                       chainAt[x] + 1}
                                  /\ granted' <= 2 * MaxRetries
<1>1. ASSUME RecoveryIInv, [RecoveryNext]_recoveryVars PROVE [Moved]_recoveryVars
  <2>1. ~together' => granted' <= 2 * MaxRetries
    BY <1>1, RecoveryKept, RecoveryAssumption DEF RecoveryIInv, GrantsAreCounted, RetriesOK
  <2>2. ASSUME NEW c \in RecoveryCallers, NEW x \in Chains, RecoveryStep(c), ~together'
        PROVE  chainAt'[x] \in {chainAt[x], chainAt[x] + 1}
    <3>1. Careful(c) /\ attempt[c].read \in Nat /\ chainAt \in [Chains -> Nat]
      BY <1>1, ReadIsNat DEF RecoveryIInv, ChainsOK
    <3>2. CASE MovesCompute(c) \/ MovesBatch(c) \/ MovesModel(c)
      BY <2>2, <3>1, <3>2
         DEF MovesCompute, MovesBatch, MovesModel, At, Moves, MovesOn, Careful, Recovering
    <3>3. CASE ~(MovesCompute(c) \/ MovesBatch(c) \/ MovesModel(c))
      <4>1. chainAt' = chainAt
        BY <2>2, <3>3 DEF RecoveryStep, GivesUp, Guides, AsksForSpace, SwitchesDevice,
             RepairsSession, Downloads, ReadsCompute, MovesCompute, ReadsBatch, MovesBatch,
           ReadsModel, MovesModel, ReadsRetries, StopsRetrying, WritesRetries, Retries,
           GoesOffline, ReadsChain
      <4> QED
        BY <4>1
    <3> QED
      BY <3>2, <3>3
  <2>3. ASSUME NEW c \in RecoveryCallers, NEW kind \in ErrorKinds, MeetsError(c, kind)
        PROVE  chainAt' = chainAt
    BY <2>3 DEF MeetsError
  <2> QED
    BY <1>1, <2>1, <2>2, <2>3 DEF RecoveryNext
<1> QED
  BY RecoveryInitInv, RecoveryKept, <1>1, PTL DEF OnlyMovesOn

-----------------------------------------------------------------------------
(* pipeline_base.py.  While no stop crosses another call, one call is under way at a time  *)
(* and one task captures, the last that was made; the backend is the stream that is open,  *)
(* and who closes a stream closes that one.                                                *)

PipeCounts ==
  /\ opens \in 0 .. NOpens /\ captureTask \in 0 .. opens /\ backend \in 0 .. opens
  /\ oldHealths \in Nat /\ pipeErrors \in Nat

PipeSets == streams \subseteq 1 .. opens /\ orphans \subseteq 1 .. opens

PipeFlags ==
  /\ stopEvent \in BOOLEAN /\ pauseEvent \in BOOLEAN /\ healthTask \in BOOLEAN
  /\ managed \in BOOLEAN /\ crossed \in BOOLEAN

PipePlaces ==
  /\ pipeState \in {"idle", "initializing", "running", "paused", "stopping", "stopped",
                    "error"}
  /\ captures \in [Openings -> [step : LiveSteps \cup {"none", "ended"}, closes : Nat,
                                cancelled : BOOLEAN]]
  /\ pipeCall \in [PipeCallers -> [step : {"idle", "opening"} \cup StopSteps, closes : Nat]]
  /\ wantedDevice \in PipeDevices

\* What was not opened yet has no capture.
NotBegun == \A n \in Openings : n > opens => captures[n].step = "none" /\ ~captures[n].cancelled

\* A pipeline that runs is not told to stop.
RunsUntold ==
  pipeState \in {"running", "paused"} =>
    ~stopEvent /\ captureTask # 0 /\ Alive(captureTask) /\ ~captures[captureTask].cancelled

OneCalls ==
  ~crossed =>
    \A c, d \in PipeCallers : pipeCall[c].step # "idle" /\ pipeCall[d].step # "idle" => c = d

OneCaptures ==
  ~crossed =>
    \A n \in Openings : Alive(n) =>
      /\ n = captureTask /\ pipeState \in {"running", "paused", "stopping"}
      /\ ~captures[n].cancelled => pipeState \in {"running", "paused"}
      /\ captures[n].step = "closing" => captures[n].closes = backend

CallsFit ==
  ~crossed =>
    \A c \in PipeCallers :
      /\ pipeCall[c].step = "opening" => pipeState = "initializing"
      /\ pipeCall[c].step \in StopSteps => pipeState = "stopping"
      /\ pipeCall[c].step = "capture" => pipeCall[c].closes = captureTask
      /\ pipeCall[c].step \in {"health", "cleanup"} => \A n \in Openings : ~Alive(n)
      /\ pipeCall[c].step = "cleanup" => pipeCall[c].closes = backend

StreamsKnown ==
  ~crossed => /\ streams \subseteq orphans \cup {backend}
              /\ pipeState = "stopped" => streams \subseteq orphans

PipeIInv ==
  /\ PipeCounts /\ PipeSets /\ PipeFlags /\ PipePlaces /\ NotBegun /\ RunsUntold /\ OneCalls
  /\ OneCaptures /\ CallsFit /\ StreamsKnown

OpensBounded == opens \in 0 .. NOpens
CaptureTaskOpened == captureTask \in 0 .. opens
BackendOpened == backend \in 0 .. opens
HealthsCounted == oldHealths \in Nat /\ pipeErrors \in Nat
StreamsOpened == streams \subseteq 1 .. opens
OrphansOpened == orphans \subseteq 1 .. opens
PipeEventsTyped ==
  stopEvent \in BOOLEAN /\ pauseEvent \in BOOLEAN /\ healthTask \in BOOLEAN /\ managed \in BOOLEAN
CrossedTyped == crossed \in BOOLEAN
PipeStateTyped ==
  pipeState \in {"idle", "initializing", "running", "paused", "stopping", "stopped", "error"}
CapturesTyped ==
  captures \in [Openings -> [step : LiveSteps \cup {"none", "ended"}, closes : Nat,
                             cancelled : BOOLEAN]]
PipeCallTyped ==
  pipeCall \in [PipeCallers -> [step : {"idle", "opening"} \cup StopSteps, closes : Nat]]
WantedTyped == wantedDevice \in PipeDevices
\* The initial state satisfies the invariant.
LEMMA PipeInitInv == PipelineInit => PipeIInv
<1> SUFFICES ASSUME PipelineInit PROVE PipeIInv
  OBVIOUS
<1> USE PipelineAssumption DEF PipelineInit
<1>1. PipeCounts /\ PipeSets
  BY DEF PipeCounts, PipeSets
<1>2. PipeFlags
  BY DEF PipeFlags
<1>3. PipePlaces
  <2> USE DEF PipePlaces, LiveSteps, StopSteps, NoCapture, NoCall
  <2>1. PipeStateTyped
    BY DEF PipelineInit, PipeStateTyped
  <2>2. CapturesTyped
    BY DEF PipelineInit, CapturesTyped
  <2>3. PipeCallTyped
    BY DEF PipelineInit, PipeCallTyped
  <2>4. WantedTyped
    BY DEF PipelineInit, WantedTyped
  <2> QED
    BY <2>1, <2>2, <2>3, <2>4 DEF PipeStateTyped, CapturesTyped, PipeCallTyped, WantedTyped
<1>4. NotBegun /\ RunsUntold
  BY DEF NotBegun, RunsUntold, NoCapture
<1>5. OneCalls
  BY DEF OneCalls, NoCall
<1>6. \A n \in Openings : ~Alive(n)
  BY DEF Alive, NoCapture, LiveSteps
<1>7. OneCaptures /\ CallsFit
  BY <1>6 DEF OneCaptures, CallsFit, NoCall, StopSteps
<1>8. StreamsKnown
  BY DEF StreamsKnown
<1> QED
  BY <1>1, <1>2, <1>3, <1>4, <1>5, <1>7, <1>8 DEF PipeIInv

\* The counts keep to their bounds.
LEMMA PipeCountsNext == PipeIInv /\ [PipelineNext]_pipeVars => PipeCounts'
<1> SUFFICES ASSUME PipeIInv, [PipelineNext]_pipeVars PROVE PipeCounts'
  OBVIOUS
<1> USE PipelineAssumption DEF PipeIInv, pipeFlags, taskVars, deviceVars, PipeCounts
<1>1. ASSUME NEW c \in PipeCallers, PipeStart(c) PROVE PipeCounts'
  BY <1>1 DEF OpensBounded, CaptureTaskOpened, BackendOpened, HealthsCounted, PipeStart,
     Calls
<1>2. ASSUME NEW c \in PipeCallers, StartRuns(c) PROVE PipeCounts'
  BY <1>2 DEF OpensBounded, CaptureTaskOpened, BackendOpened, HealthsCounted, StartRuns,
     OpensDevice, FreshFlags
<1>3. ASSUME NEW c \in PipeCallers, StartFailsToOpen(c) PROVE PipeCounts'
  BY <1>3 DEF OpensBounded, CaptureTaskOpened, BackendOpened, HealthsCounted,
     StartFailsToOpen
<1>4. ASSUME NEW c \in PipeCallers, PipeStop(c) PROVE PipeCounts'
  BY <1>4 DEF OpensBounded, CaptureTaskOpened, BackendOpened, HealthsCounted, PipeStop,
     Calls
<1>5. ASSUME NEW c \in PipeCallers, StopJoinsCapture(c) PROVE PipeCounts'
  BY <1>5 DEF OpensBounded, CaptureTaskOpened, BackendOpened, HealthsCounted,
     StopJoinsCapture, Joined
<1>6. ASSUME NEW c \in PipeCallers, StopCleansUp(c) PROVE PipeCounts'
  BY <1>6 DEF OpensBounded, CaptureTaskOpened, BackendOpened, HealthsCounted, StopCleansUp
<1>7. ASSUME NEW c \in PipeCallers, StopReturns(c) PROVE PipeCounts'
  BY <1>7 DEF OpensBounded, CaptureTaskOpened, BackendOpened, HealthsCounted, StopReturns,
     Closes
<1>8. ASSUME NEW c \in PipeCallers, PipePause(c) PROVE PipeCounts'
  BY <1>8 DEF OpensBounded, CaptureTaskOpened, BackendOpened, HealthsCounted, PipePause,
     Calls
<1>9. ASSUME NEW c \in PipeCallers, PipeResume(c) PROVE PipeCounts'
  BY <1>9 DEF OpensBounded, CaptureTaskOpened, BackendOpened, HealthsCounted, PipeResume,
     Calls
<1>10. ASSUME NEW c \in PipeCallers, NEW e \in PipeDevices, ChangeDevice(c, e) PROVE PipeCounts'
  BY <1>10 DEF OpensBounded, CaptureTaskOpened, BackendOpened, HealthsCounted, ChangeDevice,
     Calls
<1>11. ASSUME NEW n \in Openings, CaptureBegins(n) PROVE PipeCounts'
  BY <1>11 DEF OpensBounded, CaptureTaskOpened, BackendOpened, HealthsCounted,
     CaptureBegins, Proceeds, Raises, Quiet
<1>12. ASSUME NEW n \in Openings, CaptureSeesStop(n) PROVE PipeCounts'
  BY <1>12 DEF OpensBounded, CaptureTaskOpened, BackendOpened, HealthsCounted,
     CaptureSeesStop, Proceeds, Quiet
<1>13. ASSUME NEW n \in Openings, CaptureReadFails(n) PROVE PipeCounts'
  BY <1>13 DEF OpensBounded, CaptureTaskOpened, BackendOpened, HealthsCounted,
     CaptureReadFails, Proceeds, Raises, Quiet
<1>14. ASSUME NEW n \in Openings, CoolsDown(n) PROVE PipeCounts'
  BY <1>14 DEF OpensBounded, CaptureTaskOpened, BackendOpened, HealthsCounted, CoolsDown,
     Proceeds, Quiet
<1>15. ASSUME NEW n \in Openings, RecoveryCloses(n) PROVE PipeCounts'
  BY <1>15 DEF OpensBounded, CaptureTaskOpened, BackendOpened, HealthsCounted,
     RecoveryCloses, Quiet
<1>16. ASSUME NEW n \in Openings, RecoveryReopens(n) PROVE PipeCounts'
  BY <1>16 DEF OpensBounded, CaptureTaskOpened, BackendOpened, HealthsCounted,
     RecoveryReopens, Closes, Proceeds, Quiet
<1>17. ASSUME NEW n \in Openings, Reopened(n) PROVE PipeCounts'
  BY <1>17 DEF OpensBounded, CaptureTaskOpened, BackendOpened, HealthsCounted, Reopened,
     OpensDevice, Proceeds, Quiet
<1>18. ASSUME NEW n \in Openings, ReopenFails(n) PROVE PipeCounts'
  BY <1>18 DEF OpensBounded, CaptureTaskOpened, BackendOpened, HealthsCounted, ReopenFails,
     Proceeds, Quiet
<1>19. ASSUME NEW n \in Openings, CaptureCancelled(n) PROVE PipeCounts'
  BY <1>19 DEF OpensBounded, CaptureTaskOpened, BackendOpened, HealthsCounted,
     CaptureCancelled, Closes, Proceeds, Quiet
<1>20. CASE OldHealthEnds
  BY <1>20 DEF OpensBounded, CaptureTaskOpened, BackendOpened, HealthsCounted, OldHealthEnds
<1>21. CASE Removed
  BY <1>21 DEF OpensBounded, CaptureTaskOpened, BackendOpened, HealthsCounted, Removed
<1>22. CASE UNCHANGED pipeVars
  BY <1>22 DEF OpensBounded, CaptureTaskOpened, BackendOpened, HealthsCounted, pipeVars
<1> QED
  BY <1>1, <1>2, <1>3, <1>4, <1>5, <1>6, <1>7, <1>8, <1>9, <1>10, <1>11, <1>12, <1>13, <1>14,
       <1>15, <1>16, <1>17, <1>18, <1>19, <1>20, <1>21, <1>22 DEF PipelineNext, PipeCallStep,
         CaptureStep

\* The streams are among those that were opened.
LEMMA PipeSetsNext == PipeIInv /\ [PipelineNext]_pipeVars => PipeSets'
<1> SUFFICES ASSUME PipeIInv, [PipelineNext]_pipeVars PROVE PipeSets'
  OBVIOUS
<1> USE PipelineAssumption DEF PipeIInv, pipeFlags, taskVars, deviceVars, PipeSets, PipeCounts
<1>1. ASSUME NEW c \in PipeCallers, PipeStart(c) PROVE PipeSets'
  BY <1>1 DEF StreamsOpened, OrphansOpened, PipeStart, Calls
<1>2. ASSUME NEW c \in PipeCallers, StartRuns(c) PROVE PipeSets'
  BY <1>2 DEF StreamsOpened, OrphansOpened, StartRuns, OpensDevice, FreshFlags
<1>3. ASSUME NEW c \in PipeCallers, StartFailsToOpen(c) PROVE PipeSets'
  BY <1>3 DEF StreamsOpened, OrphansOpened, StartFailsToOpen
<1>4. ASSUME NEW c \in PipeCallers, PipeStop(c) PROVE PipeSets'
  BY <1>4 DEF StreamsOpened, OrphansOpened, PipeStop, Calls
<1>5. ASSUME NEW c \in PipeCallers, StopJoinsCapture(c) PROVE PipeSets'
  BY <1>5 DEF StreamsOpened, OrphansOpened, StopJoinsCapture, Joined
<1>6. ASSUME NEW c \in PipeCallers, StopCleansUp(c) PROVE PipeSets'
  BY <1>6 DEF StreamsOpened, OrphansOpened, StopCleansUp
<1>7. ASSUME NEW c \in PipeCallers, StopReturns(c) PROVE PipeSets'
  BY <1>7 DEF StreamsOpened, OrphansOpened, StopReturns, Closes
<1>8. ASSUME NEW c \in PipeCallers, PipePause(c) PROVE PipeSets'
  BY <1>8 DEF StreamsOpened, OrphansOpened, PipePause, Calls
<1>9. ASSUME NEW c \in PipeCallers, PipeResume(c) PROVE PipeSets'
  BY <1>9 DEF StreamsOpened, OrphansOpened, PipeResume, Calls
<1>10. ASSUME NEW c \in PipeCallers, NEW e \in PipeDevices, ChangeDevice(c, e) PROVE PipeSets'
  BY <1>10 DEF StreamsOpened, OrphansOpened, ChangeDevice, Calls
<1>11. ASSUME NEW n \in Openings, CaptureBegins(n) PROVE PipeSets'
  BY <1>11 DEF StreamsOpened, OrphansOpened, CaptureBegins, Proceeds, Raises, Quiet
<1>12. ASSUME NEW n \in Openings, CaptureSeesStop(n) PROVE PipeSets'
  BY <1>12 DEF StreamsOpened, OrphansOpened, CaptureSeesStop, Proceeds, Quiet
<1>13. ASSUME NEW n \in Openings, CaptureReadFails(n) PROVE PipeSets'
  BY <1>13 DEF StreamsOpened, OrphansOpened, CaptureReadFails, Proceeds, Raises, Quiet
<1>14. ASSUME NEW n \in Openings, CoolsDown(n) PROVE PipeSets'
  BY <1>14 DEF StreamsOpened, OrphansOpened, CoolsDown, Proceeds, Quiet
<1>15. ASSUME NEW n \in Openings, RecoveryCloses(n) PROVE PipeSets'
  BY <1>15 DEF StreamsOpened, OrphansOpened, RecoveryCloses, Quiet
<1>16. ASSUME NEW n \in Openings, RecoveryReopens(n) PROVE PipeSets'
  BY <1>16 DEF StreamsOpened, OrphansOpened, RecoveryReopens, Closes, Proceeds, Quiet
<1>17. ASSUME NEW n \in Openings, Reopened(n) PROVE PipeSets'
  BY <1>17 DEF StreamsOpened, OrphansOpened, Reopened, OpensDevice, Proceeds, Quiet
<1>18. ASSUME NEW n \in Openings, ReopenFails(n) PROVE PipeSets'
  BY <1>18 DEF StreamsOpened, OrphansOpened, ReopenFails, Proceeds, Quiet
<1>19. ASSUME NEW n \in Openings, CaptureCancelled(n) PROVE PipeSets'
  BY <1>19 DEF StreamsOpened, OrphansOpened, CaptureCancelled, Closes, Proceeds, Quiet
<1>20. CASE OldHealthEnds
  BY <1>20 DEF StreamsOpened, OrphansOpened, OldHealthEnds
<1>21. CASE Removed
  BY <1>21 DEF StreamsOpened, OrphansOpened, Removed
<1>22. CASE UNCHANGED pipeVars
  BY <1>22 DEF StreamsOpened, OrphansOpened, pipeVars
<1> QED
  BY <1>1, <1>2, <1>3, <1>4, <1>5, <1>6, <1>7, <1>8, <1>9, <1>10, <1>11, <1>12, <1>13, <1>14,
       <1>15, <1>16, <1>17, <1>18, <1>19, <1>20, <1>21, <1>22 DEF PipelineNext, PipeCallStep,
         CaptureStep

\* The flags are Boolean.
LEMMA PipeFlagsNext == PipeIInv /\ [PipelineNext]_pipeVars => PipeFlags'
<1> SUFFICES ASSUME PipeIInv, [PipelineNext]_pipeVars PROVE PipeFlags'
  OBVIOUS
<1> USE PipelineAssumption DEF PipeIInv, pipeFlags, taskVars, deviceVars, PipeFlags
<1>1. ASSUME NEW c \in PipeCallers, PipeStart(c) PROVE PipeFlags'
  <2>1. PipeEventsTyped'
    BY <1>1 DEF PipeStart, Calls, PipeEventsTyped
  <2>2. CrossedTyped'
    BY <1>1, Zenon DEF PipeStart, OthersIn, CrossedTyped
  <2> QED
    BY <2>1, <2>2 DEF PipeEventsTyped, CrossedTyped
<1>2. ASSUME NEW c \in PipeCallers, StartRuns(c) PROVE PipeFlags'
  BY <1>2 DEF PipeEventsTyped, CrossedTyped, StartRuns, OpensDevice, FreshFlags
<1>3. ASSUME NEW c \in PipeCallers, StartFailsToOpen(c) PROVE PipeFlags'
  BY <1>3 DEF PipeEventsTyped, CrossedTyped, StartFailsToOpen
<1>4. ASSUME NEW c \in PipeCallers, PipeStop(c) PROVE PipeFlags'
  <2>1. PipeEventsTyped'
    BY <1>4 DEF PipeStop, Calls, PipeEventsTyped
  <2>2. CrossedTyped'
    BY <1>4, Zenon DEF PipeStop, OthersIn, CrossedTyped
  <2> QED
    BY <2>1, <2>2 DEF PipeEventsTyped, CrossedTyped
<1>5. ASSUME NEW c \in PipeCallers, StopJoinsCapture(c) PROVE PipeFlags'
  BY <1>5 DEF PipeEventsTyped, CrossedTyped, StopJoinsCapture, Joined
<1>6. ASSUME NEW c \in PipeCallers, StopCleansUp(c) PROVE PipeFlags'
  BY <1>6 DEF PipeEventsTyped, CrossedTyped, StopCleansUp
<1>7. ASSUME NEW c \in PipeCallers, StopReturns(c) PROVE PipeFlags'
  BY <1>7 DEF PipeEventsTyped, CrossedTyped, StopReturns, Closes
<1>8. ASSUME NEW c \in PipeCallers, PipePause(c) PROVE PipeFlags'
  BY <1>8 DEF PipeEventsTyped, CrossedTyped, PipePause, Calls
<1>9. ASSUME NEW c \in PipeCallers, PipeResume(c) PROVE PipeFlags'
  BY <1>9 DEF PipeEventsTyped, CrossedTyped, PipeResume, Calls
<1>10. ASSUME NEW c \in PipeCallers, NEW e \in PipeDevices, ChangeDevice(c, e) PROVE PipeFlags'
  BY <1>10 DEF PipeEventsTyped, CrossedTyped, ChangeDevice, Calls
<1>11. ASSUME NEW n \in Openings, CaptureBegins(n) PROVE PipeFlags'
  BY <1>11 DEF PipeEventsTyped, CrossedTyped, CaptureBegins, Proceeds, Raises, Quiet
<1>12. ASSUME NEW n \in Openings, CaptureSeesStop(n) PROVE PipeFlags'
  BY <1>12 DEF PipeEventsTyped, CrossedTyped, CaptureSeesStop, Proceeds, Quiet
<1>13. ASSUME NEW n \in Openings, CaptureReadFails(n) PROVE PipeFlags'
  BY <1>13 DEF PipeEventsTyped, CrossedTyped, CaptureReadFails, Proceeds, Raises, Quiet
<1>14. ASSUME NEW n \in Openings, CoolsDown(n) PROVE PipeFlags'
  BY <1>14 DEF PipeEventsTyped, CrossedTyped, CoolsDown, Proceeds, Quiet
<1>15. ASSUME NEW n \in Openings, RecoveryCloses(n) PROVE PipeFlags'
  BY <1>15 DEF PipeEventsTyped, CrossedTyped, RecoveryCloses, Quiet
<1>16. ASSUME NEW n \in Openings, RecoveryReopens(n) PROVE PipeFlags'
  BY <1>16 DEF PipeEventsTyped, CrossedTyped, RecoveryReopens, Closes, Proceeds, Quiet
<1>17. ASSUME NEW n \in Openings, Reopened(n) PROVE PipeFlags'
  BY <1>17 DEF PipeEventsTyped, CrossedTyped, Reopened, OpensDevice, Proceeds, Quiet
<1>18. ASSUME NEW n \in Openings, ReopenFails(n) PROVE PipeFlags'
  BY <1>18 DEF PipeEventsTyped, CrossedTyped, ReopenFails, Proceeds, Quiet
<1>19. ASSUME NEW n \in Openings, CaptureCancelled(n) PROVE PipeFlags'
  BY <1>19 DEF PipeEventsTyped, CrossedTyped, CaptureCancelled, Closes, Proceeds, Quiet
<1>20. CASE OldHealthEnds
  BY <1>20 DEF PipeEventsTyped, CrossedTyped, OldHealthEnds
<1>21. CASE Removed
  BY <1>21 DEF PipeEventsTyped, CrossedTyped, Removed
<1>22. CASE UNCHANGED pipeVars
  BY <1>22 DEF PipeEventsTyped, CrossedTyped, pipeVars
<1> QED
  BY <1>1, <1>2, <1>3, <1>4, <1>5, <1>6, <1>7, <1>8, <1>9, <1>10, <1>11, <1>12, <1>13, <1>14,
       <1>15, <1>16, <1>17, <1>18, <1>19, <1>20, <1>21, <1>22 DEF PipelineNext, PipeCallStep,
         CaptureStep

\* The states are those there are.
LEMMA PipePlacesNext == PipeIInv /\ [PipelineNext]_pipeVars => PipePlaces'
<1> SUFFICES ASSUME PipeIInv, [PipelineNext]_pipeVars PROVE PipePlaces'
  OBVIOUS
<1> USE PipelineAssumption DEF PipeIInv, pipeFlags, taskVars, deviceVars, PipePlaces,
     PipeCounts, StopSteps, LiveSteps, NoCall
<1>1. ASSUME NEW c \in PipeCallers, PipeStart(c) PROVE PipePlaces'
  BY <1>1 DEF PipeStateTyped, CapturesTyped, PipeCallTyped, WantedTyped, PipeStart, Calls
<1>2. ASSUME NEW c \in PipeCallers, StartRuns(c) PROVE PipePlaces'
  <2>1. opens' \in Openings /\ captures' = [captures EXCEPT ![opens'].step = "run"]
    BY <1>2 DEF StartRuns, OpensDevice, Openings
  <2>2. PipeStateTyped' /\ PipeCallTyped' /\ WantedTyped'
    BY <1>2 DEF PipeStateTyped, PipeCallTyped, WantedTyped, StartRuns, OpensDevice,
       FreshFlags
  <2>3. CapturesTyped'
    BY <2>1 DEF CapturesTyped
  <2> QED
    BY <2>2, <2>3 DEF PipeStateTyped, CapturesTyped, PipeCallTyped, WantedTyped
<1>3. ASSUME NEW c \in PipeCallers, StartFailsToOpen(c) PROVE PipePlaces'
  BY <1>3 DEF PipeStateTyped, CapturesTyped, PipeCallTyped, WantedTyped, StartFailsToOpen
<1>4. ASSUME NEW c \in PipeCallers, PipeStop(c) PROVE PipePlaces'
  <2>1. \/ /\ captureTask \in Openings /\ captureTask <= opens /\ captureTask \in Nat
           /\ captures' = [captures EXCEPT ![captureTask].cancelled = TRUE]
           /\ pipeCall' = [pipeCall EXCEPT ![c] = [step |-> "capture", closes |-> captureTask]]
        \/ /\ ~Alive(captureTask) /\ captures' = captures
           /\ pipeCall' = [pipeCall EXCEPT ![c].step = "health"]
    BY <1>4 DEF PipeStop, Alive, Openings, PipeCounts
  <2>2. /\ opens' = opens /\ captureTask' = captureTask /\ backend' = backend
        /\ streams' = streams /\ orphans' = orphans
        /\ pipeState' = "stopping" /\ stopEvent' = TRUE /\ pipeCall[c].step = "idle"
    BY <1>4 DEF PipeStop, Calls, deviceVars
  <2>3. ~crossed' => ~crossed /\ \A d \in PipeCallers \ {c} : pipeCall[d].step = "idle"
    <3>1. ~crossed' => ~crossed /\ ~OthersIn(c, StopSteps \cup {"opening"})
      BY <1>4, Zenon DEF PipeStop
    <3> QED
      BY <3>1 DEF OthersIn, PipePlaces
  <2>4. \A d \in PipeCallers \ {c} : pipeCall'[d] = pipeCall[d]
    BY <2>1 DEF PipePlaces
  <2>5. (captures \in [Openings -> [step : LiveSteps \cup {"none", "ended"}, closes : Nat,
                                  cancelled : BOOLEAN]])'
    <3>1. CASE captures' = captures
      BY <3>1
    <3>2. CASE captures' = [captures EXCEPT ![captureTask].cancelled = TRUE]
      BY ZenonT(60), <2>1, <3>2
    <3> QED
      BY <2>1, <3>1, <3>2
  <2>6. (pipeCall \in [PipeCallers -> [step : {"idle", "opening"} \cup StopSteps, closes : Nat]])'
    BY <2>1
  <2>7. PipeStateTyped' /\ WantedTyped'
    BY <1>4 DEF PipeStateTyped, WantedTyped, PipeStop, Calls
  <2>8. CapturesTyped'
    BY <2>5 DEF CapturesTyped
  <2>9. PipeCallTyped'
    BY <2>6 DEF PipeCallTyped
  <2> QED
    BY <2>7, <2>8, <2>9 DEF PipeStateTyped, CapturesTyped, PipeCallTyped, WantedTyped
<1>5. ASSUME NEW c \in PipeCallers, StopJoinsCapture(c) PROVE PipePlaces'
  BY <1>5 DEF PipeStateTyped, CapturesTyped, PipeCallTyped, WantedTyped, StopJoinsCapture,
     Joined
<1>6. ASSUME NEW c \in PipeCallers, StopCleansUp(c) PROVE PipePlaces'
  BY <1>6 DEF PipeStateTyped, CapturesTyped, PipeCallTyped, WantedTyped, StopCleansUp
<1>7. ASSUME NEW c \in PipeCallers, StopReturns(c) PROVE PipePlaces'
  BY <1>7 DEF PipeStateTyped, CapturesTyped, PipeCallTyped, WantedTyped, StopReturns, Closes
<1>8. ASSUME NEW c \in PipeCallers, PipePause(c) PROVE PipePlaces'
  BY <1>8 DEF PipeStateTyped, CapturesTyped, PipeCallTyped, WantedTyped, PipePause, Calls
<1>9. ASSUME NEW c \in PipeCallers, PipeResume(c) PROVE PipePlaces'
  BY <1>9 DEF PipeStateTyped, CapturesTyped, PipeCallTyped, WantedTyped, PipeResume, Calls
<1>10. ASSUME NEW c \in PipeCallers, NEW e \in PipeDevices, ChangeDevice(c, e) PROVE PipePlaces'
  BY <1>10 DEF PipeStateTyped, CapturesTyped, PipeCallTyped, WantedTyped, ChangeDevice,
     Calls
<1>11. ASSUME NEW n \in Openings, CaptureBegins(n) PROVE PipePlaces'
  <2>1. PipeStateTyped' /\ PipeCallTyped' /\ WantedTyped'
    BY <1>11 DEF PipeStateTyped, PipeCallTyped, WantedTyped, CaptureBegins, Proceeds,
       Raises, Quiet
  <2>2. CapturesTyped'
    BY SMTT(60), <1>11 DEF CaptureBegins, Proceeds, Raises, Quiet, CapturesTyped
  <2> QED
    BY <2>1, <2>2 DEF PipeStateTyped, CapturesTyped, PipeCallTyped, WantedTyped
<1>12. ASSUME NEW n \in Openings, CaptureSeesStop(n) PROVE PipePlaces'
  <2>1. PipeStateTyped' /\ PipeCallTyped' /\ WantedTyped'
    BY <1>12 DEF PipeStateTyped, PipeCallTyped, WantedTyped, CaptureSeesStop, Proceeds,
       Quiet
  <2>2. CapturesTyped'
    BY ZenonT(60), <1>12 DEF CaptureSeesStop, Proceeds, Quiet, CapturesTyped
  <2> QED
    BY <2>1, <2>2 DEF PipeStateTyped, CapturesTyped, PipeCallTyped, WantedTyped
<1>13. ASSUME NEW n \in Openings, CaptureReadFails(n) PROVE PipePlaces'
  BY <1>13 DEF PipeStateTyped, CapturesTyped, PipeCallTyped, WantedTyped, CaptureReadFails,
     Proceeds, Raises, Quiet
<1>14. ASSUME NEW n \in Openings, CoolsDown(n) PROVE PipePlaces'
  <2>1. PipeStateTyped' /\ PipeCallTyped' /\ WantedTyped'
    BY <1>14 DEF PipeStateTyped, PipeCallTyped, WantedTyped, CoolsDown, Proceeds, Quiet
  <2>2. CapturesTyped'
    BY ZenonT(60), <1>14 DEF CoolsDown, Proceeds, Quiet, CapturesTyped
  <2> QED
    BY <2>1, <2>2 DEF PipeStateTyped, CapturesTyped, PipeCallTyped, WantedTyped
<1>15. ASSUME NEW n \in Openings, RecoveryCloses(n) PROVE PipePlaces'
  <2>1. backend \in Nat
    BY DEF PipeCounts
  <2>2. PipeStateTyped' /\ PipeCallTyped' /\ WantedTyped'
    BY <1>15 DEF PipeStateTyped, PipeCallTyped, WantedTyped, RecoveryCloses, Quiet
  <2>3. CapturesTyped'
    BY ZenonT(60), <2>1, <1>15 DEF RecoveryCloses, CapturesTyped
  <2> QED
    BY <2>2, <2>3 DEF PipeStateTyped, CapturesTyped, PipeCallTyped, WantedTyped
<1>16. ASSUME NEW n \in Openings, RecoveryReopens(n) PROVE PipePlaces'
  <2>1. PipeStateTyped' /\ PipeCallTyped' /\ WantedTyped'
    BY <1>16 DEF PipeStateTyped, PipeCallTyped, WantedTyped, RecoveryReopens, Closes,
       Proceeds, Quiet
  <2>2. CapturesTyped'
    BY ZenonT(60), <1>16 DEF RecoveryReopens, Closes, Proceeds, Quiet, CapturesTyped
  <2> QED
    BY <2>1, <2>2 DEF PipeStateTyped, CapturesTyped, PipeCallTyped, WantedTyped
<1>17. ASSUME NEW n \in Openings, Reopened(n) PROVE PipePlaces'
  <2>1. PipeStateTyped' /\ PipeCallTyped' /\ WantedTyped'
    BY <1>17 DEF PipeStateTyped, PipeCallTyped, WantedTyped, Reopened, OpensDevice,
       Proceeds, Quiet
  <2>2. CapturesTyped'
    BY ZenonT(60), <1>17 DEF Reopened, OpensDevice, Proceeds, Quiet, CapturesTyped
  <2> QED
    BY <2>1, <2>2 DEF PipeStateTyped, CapturesTyped, PipeCallTyped, WantedTyped
<1>18. ASSUME NEW n \in Openings, ReopenFails(n) PROVE PipePlaces'
  <2>1. PipeStateTyped' /\ PipeCallTyped' /\ WantedTyped'
    BY <1>18 DEF PipeStateTyped, PipeCallTyped, WantedTyped, ReopenFails, Proceeds, Quiet
  <2>2. CapturesTyped'
    BY ZenonT(60), <1>18 DEF ReopenFails, Proceeds, Quiet, CapturesTyped
  <2> QED
    BY <2>1, <2>2 DEF PipeStateTyped, CapturesTyped, PipeCallTyped, WantedTyped
<1>19. ASSUME NEW n \in Openings, CaptureCancelled(n) PROVE PipePlaces'
  <2>1. PipeStateTyped' /\ PipeCallTyped' /\ WantedTyped'
    BY <1>19 DEF PipeStateTyped, PipeCallTyped, WantedTyped, CaptureCancelled, Closes,
       Proceeds, Quiet
  <2>2. CapturesTyped'
    BY ZenonT(60), <1>19 DEF CaptureCancelled, Closes, Proceeds, Quiet, CapturesTyped
  <2> QED
    BY <2>1, <2>2 DEF PipeStateTyped, CapturesTyped, PipeCallTyped, WantedTyped
<1>20. CASE OldHealthEnds
  BY <1>20 DEF PipeStateTyped, CapturesTyped, PipeCallTyped, WantedTyped, OldHealthEnds
<1>21. CASE Removed
  BY <1>21 DEF PipeStateTyped, CapturesTyped, PipeCallTyped, WantedTyped, Removed
<1>22. CASE UNCHANGED pipeVars
  BY <1>22 DEF PipeStateTyped, CapturesTyped, PipeCallTyped, WantedTyped, pipeVars
<1> QED
  BY <1>1, <1>2, <1>3, <1>4, <1>5, <1>6, <1>7, <1>8, <1>9, <1>10, <1>11, <1>12, <1>13, <1>14,
       <1>15, <1>16, <1>17, <1>18, <1>19, <1>20, <1>21, <1>22 DEF PipelineNext, PipeCallStep,
         CaptureStep

\* What was not opened has no capture.
LEMMA NotBegunNext == PipeIInv /\ [PipelineNext]_pipeVars => NotBegun'
<1> SUFFICES ASSUME PipeIInv, [PipelineNext]_pipeVars PROVE NotBegun'
  OBVIOUS
<1> USE PipelineAssumption DEF PipeIInv, pipeFlags, taskVars, deviceVars, NotBegun,
     PipePlaces, PipeCounts, Openings, Alive
<1>1. ASSUME NEW c \in PipeCallers, PipeStart(c) PROVE NotBegun'
  BY <1>1 DEF PipeStart, Calls
<1>2. ASSUME NEW c \in PipeCallers, StartRuns(c) PROVE NotBegun'
  BY <1>2 DEF StartRuns, OpensDevice, FreshFlags
<1>3. ASSUME NEW c \in PipeCallers, StartFailsToOpen(c) PROVE NotBegun'
  BY <1>3 DEF StartFailsToOpen
<1>4. ASSUME NEW c \in PipeCallers, PipeStop(c) PROVE NotBegun'
  <2>1. \/ /\ captureTask \in Openings /\ captureTask <= opens /\ captureTask \in Nat
           /\ captures' = [captures EXCEPT ![captureTask].cancelled = TRUE]
           /\ pipeCall' = [pipeCall EXCEPT ![c] = [step |-> "capture", closes |-> captureTask]]
        \/ /\ ~Alive(captureTask) /\ captures' = captures
           /\ pipeCall' = [pipeCall EXCEPT ![c].step = "health"]
    BY <1>4 DEF PipeStop, Alive, Openings, PipeCounts
  <2>2. /\ opens' = opens /\ captureTask' = captureTask /\ backend' = backend
        /\ streams' = streams /\ orphans' = orphans
        /\ pipeState' = "stopping" /\ stopEvent' = TRUE /\ pipeCall[c].step = "idle"
    BY <1>4 DEF PipeStop, Calls, deviceVars
  <2>3. ~crossed' => ~crossed /\ \A d \in PipeCallers \ {c} : pipeCall[d].step = "idle"
    <3>1. ~crossed' => ~crossed /\ ~OthersIn(c, StopSteps \cup {"opening"})
      BY <1>4, Zenon DEF PipeStop
    <3> QED
      BY <3>1 DEF OthersIn, PipePlaces
  <2>4. \A d \in PipeCallers \ {c} : pipeCall'[d] = pipeCall[d]
    BY <2>1 DEF PipePlaces
  <2>5. ASSUME NEW n \in Openings, n > opens PROVE captures'[n] = captures[n]
    BY <2>1, <2>5
  <2> QED
    BY <2>2, <2>5
<1>5. ASSUME NEW c \in PipeCallers, StopJoinsCapture(c) PROVE NotBegun'
  BY <1>5 DEF StopJoinsCapture, Joined
<1>6. ASSUME NEW c \in PipeCallers, StopCleansUp(c) PROVE NotBegun'
  BY <1>6 DEF StopCleansUp
<1>7. ASSUME NEW c \in PipeCallers, StopReturns(c) PROVE NotBegun'
  BY <1>7 DEF StopReturns, Closes
<1>8. ASSUME NEW c \in PipeCallers, PipePause(c) PROVE NotBegun'
  BY <1>8 DEF PipePause, Calls
<1>9. ASSUME NEW c \in PipeCallers, PipeResume(c) PROVE NotBegun'
  BY <1>9 DEF PipeResume, Calls
<1>10. ASSUME NEW c \in PipeCallers, NEW e \in PipeDevices, ChangeDevice(c, e) PROVE NotBegun'
  BY <1>10 DEF ChangeDevice, Calls
<1>11. ASSUME NEW n \in Openings, CaptureBegins(n) PROVE NotBegun'
  BY <1>11 DEF CaptureBegins, Proceeds, Raises, Quiet
<1>12. ASSUME NEW n \in Openings, CaptureSeesStop(n) PROVE NotBegun'
  BY <1>12 DEF CaptureSeesStop, Proceeds, Quiet
<1>13. ASSUME NEW n \in Openings, CaptureReadFails(n) PROVE NotBegun'
  BY <1>13 DEF CaptureReadFails, Proceeds, Raises, Quiet
<1>14. ASSUME NEW n \in Openings, CoolsDown(n) PROVE NotBegun'
  BY <1>14 DEF CoolsDown, Proceeds, Quiet
<1>15. ASSUME NEW n \in Openings, RecoveryCloses(n) PROVE NotBegun'
  BY <1>15 DEF RecoveryCloses, Quiet
<1>16. ASSUME NEW n \in Openings, RecoveryReopens(n) PROVE NotBegun'
  BY <1>16 DEF RecoveryReopens, Closes, Proceeds, Quiet
<1>17. ASSUME NEW n \in Openings, Reopened(n) PROVE NotBegun'
  BY <1>17 DEF Reopened, OpensDevice, Proceeds, Quiet
<1>18. ASSUME NEW n \in Openings, ReopenFails(n) PROVE NotBegun'
  BY <1>18 DEF ReopenFails, Proceeds, Quiet
<1>19. ASSUME NEW n \in Openings, CaptureCancelled(n) PROVE NotBegun'
  BY <1>19 DEF CaptureCancelled, Closes, Proceeds, Quiet
<1>20. CASE OldHealthEnds
  BY <1>20 DEF OldHealthEnds
<1>21. CASE Removed
  BY <1>21 DEF Removed
<1>22. CASE UNCHANGED pipeVars
  BY <1>22 DEF pipeVars
<1> QED
  BY <1>1, <1>2, <1>3, <1>4, <1>5, <1>6, <1>7, <1>8, <1>9, <1>10, <1>11, <1>12, <1>13, <1>14,
       <1>15, <1>16, <1>17, <1>18, <1>19, <1>20, <1>21, <1>22 DEF PipelineNext, PipeCallStep,
         CaptureStep

\* A pipeline that runs is not told to stop.
LEMMA RunsUntoldNext == PipeIInv /\ [PipelineNext]_pipeVars => RunsUntold'
<1> SUFFICES ASSUME PipeIInv, [PipelineNext]_pipeVars PROVE RunsUntold'
  OBVIOUS
<1> USE PipelineAssumption DEF PipeIInv, pipeFlags, taskVars, deviceVars, RunsUntold,
     NotBegun, PipePlaces, PipeCounts, Openings, Alive, LiveSteps
<1>1. ASSUME NEW c \in PipeCallers, PipeStart(c) PROVE RunsUntold'
  BY <1>1 DEF PipeStart, Calls
<1>2. ASSUME NEW c \in PipeCallers, StartRuns(c) PROVE RunsUntold'
  BY <1>2 DEF StartRuns, OpensDevice, FreshFlags
<1>3. ASSUME NEW c \in PipeCallers, StartFailsToOpen(c) PROVE RunsUntold'
  BY <1>3 DEF StartFailsToOpen
<1>4. ASSUME NEW c \in PipeCallers, PipeStop(c) PROVE RunsUntold'
  BY <1>4 DEF PipeStop, Calls
<1>5. ASSUME NEW c \in PipeCallers, StopJoinsCapture(c) PROVE RunsUntold'
  BY <1>5 DEF StopJoinsCapture, Joined
<1>6. ASSUME NEW c \in PipeCallers, StopCleansUp(c) PROVE RunsUntold'
  BY <1>6 DEF StopCleansUp
<1>7. ASSUME NEW c \in PipeCallers, StopReturns(c) PROVE RunsUntold'
  BY <1>7 DEF StopReturns, Closes
<1>8. ASSUME NEW c \in PipeCallers, PipePause(c) PROVE RunsUntold'
  BY <1>8 DEF PipePause, Calls
<1>9. ASSUME NEW c \in PipeCallers, PipeResume(c) PROVE RunsUntold'
  BY <1>9 DEF PipeResume, Calls
<1>10. ASSUME NEW c \in PipeCallers, NEW e \in PipeDevices, ChangeDevice(c, e) PROVE RunsUntold'
  BY <1>10 DEF ChangeDevice, Calls
<1>11. ASSUME NEW n \in Openings, CaptureBegins(n) PROVE RunsUntold'
  <2>1. /\ captures[n].step = "run" /\ ~captures[n].cancelled
        /\ captureTask' = captureTask /\ stopEvent' = stopEvent
    BY <1>11 DEF CaptureBegins, Quiet, pipeFlags
  <2>2. \/ stopEvent /\ pipeState' = pipeState
        \/ pipeState' = "error"
        \/ pipeState' = pipeState /\ (Proceeds(n, "failed") \/ Proceeds(n, "reading"))
    BY <1>11 DEF CaptureBegins, Raises
  <2>3. CASE stopEvent /\ pipeState' = pipeState
    BY <2>1, <2>3
  <2>4. CASE pipeState' = "error"
    BY <2>4
  <2>5. CASE pipeState' = pipeState /\ Proceeds(n, "failed")
    BY <2>1, <2>5 DEF Proceeds
  <2>6. CASE pipeState' = pipeState /\ Proceeds(n, "reading")
    BY <2>1, <2>6 DEF Proceeds
  <2> QED
    BY <2>2, <2>3, <2>4, <2>5, <2>6
<1>12. ASSUME NEW n \in Openings, CaptureSeesStop(n) PROVE RunsUntold'
  BY <1>12 DEF CaptureSeesStop, Proceeds, Quiet
<1>13. ASSUME NEW n \in Openings, CaptureReadFails(n) PROVE RunsUntold'
  BY SMTT(60), <1>13 DEF CaptureReadFails, Proceeds, Raises, Quiet
<1>14. ASSUME NEW n \in Openings, CoolsDown(n) PROVE RunsUntold'
  BY <1>14 DEF CoolsDown, Proceeds, Quiet
<1>15. ASSUME NEW n \in Openings, RecoveryCloses(n) PROVE RunsUntold'
  BY <1>15 DEF RecoveryCloses, Quiet
<1>16. ASSUME NEW n \in Openings, RecoveryReopens(n) PROVE RunsUntold'
  BY <1>16 DEF RecoveryReopens, Closes, Proceeds, Quiet
<1>17. ASSUME NEW n \in Openings, Reopened(n) PROVE RunsUntold'
  BY <1>17 DEF Reopened, OpensDevice, Proceeds, Quiet
<1>18. ASSUME NEW n \in Openings, ReopenFails(n) PROVE RunsUntold'
  BY <1>18 DEF ReopenFails, Proceeds, Quiet
<1>19. ASSUME NEW n \in Openings, CaptureCancelled(n) PROVE RunsUntold'
  BY SMTT(60), <1>19 DEF CaptureCancelled, Closes, Proceeds, Quiet
<1>20. CASE OldHealthEnds
  BY <1>20 DEF OldHealthEnds
<1>21. CASE Removed
  BY <1>21 DEF Removed
<1>22. CASE UNCHANGED pipeVars
  BY <1>22 DEF pipeVars
<1> QED
  BY <1>1, <1>2, <1>3, <1>4, <1>5, <1>6, <1>7, <1>8, <1>9, <1>10, <1>11, <1>12, <1>13, <1>14,
       <1>15, <1>16, <1>17, <1>18, <1>19, <1>20, <1>21, <1>22 DEF PipelineNext, PipeCallStep,
         CaptureStep

\* One call at a time is under way.
LEMMA OneCallsNext == PipeIInv /\ [PipelineNext]_pipeVars => OneCalls'
<1> SUFFICES ASSUME PipeIInv, [PipelineNext]_pipeVars PROVE OneCalls'
  OBVIOUS
<1> USE PipelineAssumption DEF PipeIInv, pipeFlags, taskVars, deviceVars, OneCalls,
     PipePlaces, OthersIn, StopSteps
<1>1. ASSUME NEW c \in PipeCallers, PipeStart(c) PROVE OneCalls'
  BY <1>1 DEF PipeStart, Calls
<1>2. ASSUME NEW c \in PipeCallers, StartRuns(c) PROVE OneCalls'
  BY <1>2 DEF StartRuns, OpensDevice, FreshFlags
<1>3. ASSUME NEW c \in PipeCallers, StartFailsToOpen(c) PROVE OneCalls'
  BY <1>3 DEF StartFailsToOpen
<1>4. ASSUME NEW c \in PipeCallers, PipeStop(c) PROVE OneCalls'
  <2>1. \/ /\ captureTask \in Openings /\ captureTask <= opens /\ captureTask \in Nat
           /\ captures' = [captures EXCEPT ![captureTask].cancelled = TRUE]
           /\ pipeCall' = [pipeCall EXCEPT ![c] = [step |-> "capture", closes |-> captureTask]]
        \/ /\ ~Alive(captureTask) /\ captures' = captures
           /\ pipeCall' = [pipeCall EXCEPT ![c].step = "health"]
    BY <1>4 DEF PipeStop, Alive, Openings, PipeCounts
  <2>2. /\ opens' = opens /\ captureTask' = captureTask /\ backend' = backend
        /\ streams' = streams /\ orphans' = orphans
        /\ pipeState' = "stopping" /\ stopEvent' = TRUE /\ pipeCall[c].step = "idle"
    BY <1>4 DEF PipeStop, Calls, deviceVars
  <2>3. ~crossed' => ~crossed /\ \A d \in PipeCallers \ {c} : pipeCall[d].step = "idle"
    <3>1. ~crossed' => ~crossed /\ ~OthersIn(c, StopSteps \cup {"opening"})
      BY <1>4, Zenon DEF PipeStop
    <3> QED
      BY <3>1 DEF OthersIn, PipePlaces
  <2>4. \A d \in PipeCallers \ {c} : pipeCall'[d] = pipeCall[d]
    BY <2>1 DEF PipePlaces
  <2> QED
    BY <2>2, <2>3, <2>4
<1>5. ASSUME NEW c \in PipeCallers, StopJoinsCapture(c) PROVE OneCalls'
  BY <1>5 DEF StopJoinsCapture, Joined
<1>6. ASSUME NEW c \in PipeCallers, StopCleansUp(c) PROVE OneCalls'
  BY <1>6 DEF StopCleansUp
<1>7. ASSUME NEW c \in PipeCallers, StopReturns(c) PROVE OneCalls'
  BY <1>7 DEF StopReturns, Closes
<1>8. ASSUME NEW c \in PipeCallers, PipePause(c) PROVE OneCalls'
  BY <1>8 DEF PipePause, Calls
<1>9. ASSUME NEW c \in PipeCallers, PipeResume(c) PROVE OneCalls'
  BY <1>9 DEF PipeResume, Calls
<1>10. ASSUME NEW c \in PipeCallers, NEW e \in PipeDevices, ChangeDevice(c, e) PROVE OneCalls'
  BY <1>10 DEF ChangeDevice, Calls
<1>11. ASSUME NEW n \in Openings, CaptureBegins(n) PROVE OneCalls'
  BY <1>11 DEF CaptureBegins, Proceeds, Raises, Quiet
<1>12. ASSUME NEW n \in Openings, CaptureSeesStop(n) PROVE OneCalls'
  BY <1>12 DEF CaptureSeesStop, Proceeds, Quiet
<1>13. ASSUME NEW n \in Openings, CaptureReadFails(n) PROVE OneCalls'
  BY <1>13 DEF CaptureReadFails, Proceeds, Raises, Quiet
<1>14. ASSUME NEW n \in Openings, CoolsDown(n) PROVE OneCalls'
  BY <1>14 DEF CoolsDown, Proceeds, Quiet
<1>15. ASSUME NEW n \in Openings, RecoveryCloses(n) PROVE OneCalls'
  BY <1>15 DEF RecoveryCloses, Quiet
<1>16. ASSUME NEW n \in Openings, RecoveryReopens(n) PROVE OneCalls'
  BY <1>16 DEF RecoveryReopens, Closes, Proceeds, Quiet
<1>17. ASSUME NEW n \in Openings, Reopened(n) PROVE OneCalls'
  BY <1>17 DEF Reopened, OpensDevice, Proceeds, Quiet
<1>18. ASSUME NEW n \in Openings, ReopenFails(n) PROVE OneCalls'
  BY <1>18 DEF ReopenFails, Proceeds, Quiet
<1>19. ASSUME NEW n \in Openings, CaptureCancelled(n) PROVE OneCalls'
  BY <1>19 DEF CaptureCancelled, Closes, Proceeds, Quiet
<1>20. CASE OldHealthEnds
  BY <1>20 DEF OldHealthEnds
<1>21. CASE Removed
  BY <1>21 DEF Removed
<1>22. CASE UNCHANGED pipeVars
  BY <1>22 DEF pipeVars
<1> QED
  BY <1>1, <1>2, <1>3, <1>4, <1>5, <1>6, <1>7, <1>8, <1>9, <1>10, <1>11, <1>12, <1>13, <1>14,
       <1>15, <1>16, <1>17, <1>18, <1>19, <1>20, <1>21, <1>22 DEF PipelineNext, PipeCallStep,
         CaptureStep

\* One task at a time captures.
LEMMA OneCapturesNext == PipeIInv /\ [PipelineNext]_pipeVars => OneCaptures'
<1> SUFFICES ASSUME PipeIInv, [PipelineNext]_pipeVars PROVE OneCaptures'
  OBVIOUS
<1> USE PipelineAssumption DEF PipeIInv, pipeFlags, taskVars, deviceVars, OneCaptures,
     CallsFit, OneCalls, RunsUntold, NotBegun, PipePlaces, PipeCounts, Openings, Alive,
     LiveSteps, StopSteps
<1>1. ASSUME NEW c \in PipeCallers, PipeStart(c) PROVE OneCaptures'
  BY <1>1 DEF PipeStart, Calls
<1>2. ASSUME NEW c \in PipeCallers, StartRuns(c) PROVE OneCaptures'
  BY <1>2 DEF StartRuns, OpensDevice, FreshFlags
<1>3. ASSUME NEW c \in PipeCallers, StartFailsToOpen(c) PROVE OneCaptures'
  BY <1>3 DEF StartFailsToOpen
<1>4. ASSUME NEW c \in PipeCallers, PipeStop(c) PROVE OneCaptures'
  <2>1. \/ /\ captureTask \in Openings /\ captureTask <= opens /\ captureTask \in Nat
           /\ captures' = [captures EXCEPT ![captureTask].cancelled = TRUE]
           /\ pipeCall' = [pipeCall EXCEPT ![c] = [step |-> "capture", closes |-> captureTask]]
        \/ /\ ~Alive(captureTask) /\ captures' = captures
           /\ pipeCall' = [pipeCall EXCEPT ![c].step = "health"]
    BY <1>4 DEF PipeStop, Alive, Openings, PipeCounts
  <2>2. /\ opens' = opens /\ captureTask' = captureTask /\ backend' = backend
        /\ streams' = streams /\ orphans' = orphans
        /\ pipeState' = "stopping" /\ stopEvent' = TRUE /\ pipeCall[c].step = "idle"
    BY <1>4 DEF PipeStop, Calls, deviceVars
  <2>3. ~crossed' => ~crossed /\ \A d \in PipeCallers \ {c} : pipeCall[d].step = "idle"
    <3>1. ~crossed' => ~crossed /\ ~OthersIn(c, StopSteps \cup {"opening"})
      BY <1>4, Zenon DEF PipeStop
    <3> QED
      BY <3>1 DEF OthersIn, PipePlaces
  <2>4. \A d \in PipeCallers \ {c} : pipeCall'[d] = pipeCall[d]
    BY <2>1 DEF PipePlaces
  <2>5. ASSUME ~crossed', NEW n \in Openings, Alive(n)'
        PROVE  n = captureTask /\ captures'[n].cancelled /\ (captures'[n].step = "closing" =>
                 captures'[n].closes = backend)
    <3>0. captures' = captures \/ captures' = [captures EXCEPT ![captureTask].cancelled = TRUE]
      BY <2>1
    <3>1. /\ captures'[n].step = captures[n].step /\ captures'[n].closes = captures[n].closes
          /\ Alive(n)
      <4>1. CASE captures' = captures
        BY <2>5, <4>1
      <4>2. CASE captures' = [captures EXCEPT ![captureTask].cancelled = TRUE]
        <5>1. captures'[n].step = captures[n].step /\ captures'[n].closes = captures[n].closes
          BY <4>2
        <5> QED
          BY <2>5, <5>1
      <4> QED
        BY <3>0, <4>1, <4>2
    <3>2. n = captureTask
      BY <2>3, <2>5, <3>1
    <3> QED
      BY <2>1, <2>3, <2>5, <3>1, <3>2
  <2> QED
    BY <2>2, <2>5
<1>5. ASSUME NEW c \in PipeCallers, StopJoinsCapture(c) PROVE OneCaptures'
  BY <1>5 DEF StopJoinsCapture, Joined
<1>6. ASSUME NEW c \in PipeCallers, StopCleansUp(c) PROVE OneCaptures'
  BY <1>6 DEF StopCleansUp
<1>7. ASSUME NEW c \in PipeCallers, StopReturns(c) PROVE OneCaptures'
  BY <1>7 DEF StopReturns, Closes
<1>8. ASSUME NEW c \in PipeCallers, PipePause(c) PROVE OneCaptures'
  BY <1>8 DEF PipePause, Calls
<1>9. ASSUME NEW c \in PipeCallers, PipeResume(c) PROVE OneCaptures'
  BY <1>9 DEF PipeResume, Calls
<1>10. ASSUME NEW c \in PipeCallers, NEW e \in PipeDevices, ChangeDevice(c, e)
       PROVE  OneCaptures'
  BY <1>10 DEF ChangeDevice, Calls
<1>11. ASSUME NEW n \in Openings, CaptureBegins(n) PROVE OneCaptures'
  BY SMTT(60), <1>11 DEF CaptureBegins, Proceeds, Raises, Quiet
<1>12. ASSUME NEW n \in Openings, CaptureSeesStop(n) PROVE OneCaptures'
  BY <1>12 DEF CaptureSeesStop, Proceeds, Quiet
<1>13. ASSUME NEW n \in Openings, CaptureReadFails(n) PROVE OneCaptures'
  BY <1>13 DEF CaptureReadFails, Proceeds, Raises, Quiet
<1>14. ASSUME NEW n \in Openings, CoolsDown(n) PROVE OneCaptures'
  BY <1>14 DEF CoolsDown, Proceeds, Quiet
<1>15. ASSUME NEW n \in Openings, RecoveryCloses(n) PROVE OneCaptures'
  BY <1>15 DEF RecoveryCloses, Quiet
<1>16. ASSUME NEW n \in Openings, RecoveryReopens(n) PROVE OneCaptures'
  BY <1>16 DEF RecoveryReopens, Closes, Proceeds, Quiet
<1>17. ASSUME NEW n \in Openings, Reopened(n) PROVE OneCaptures'
  BY <1>17 DEF Reopened, OpensDevice, Proceeds, Quiet
<1>18. ASSUME NEW n \in Openings, ReopenFails(n) PROVE OneCaptures'
  BY <1>18 DEF ReopenFails, Proceeds, Quiet
<1>19. ASSUME NEW n \in Openings, CaptureCancelled(n) PROVE OneCaptures'
  BY <1>19 DEF CaptureCancelled, Closes, Proceeds, Quiet
<1>20. CASE OldHealthEnds
  BY <1>20 DEF OldHealthEnds
<1>21. CASE Removed
  BY <1>21 DEF Removed
<1>22. CASE UNCHANGED pipeVars
  BY <1>22 DEF pipeVars
<1> QED
  BY <1>1, <1>2, <1>3, <1>4, <1>5, <1>6, <1>7, <1>8, <1>9, <1>10, <1>11, <1>12, <1>13, <1>14,
       <1>15, <1>16, <1>17, <1>18, <1>19, <1>20, <1>21, <1>22 DEF PipelineNext, PipeCallStep,
         CaptureStep

\* The calls fit the state.
LEMMA CallsFitNext == PipeIInv /\ [PipelineNext]_pipeVars => CallsFit'
<1> SUFFICES ASSUME PipeIInv, [PipelineNext]_pipeVars PROVE CallsFit'
  OBVIOUS
<1> USE PipelineAssumption DEF PipeIInv, pipeFlags, taskVars, deviceVars, CallsFit,
     OneCaptures, OneCalls, PipePlaces, PipeCounts, OthersIn, Openings, Alive, LiveSteps,
     StopSteps, NoCall
<1>1. ASSUME NEW c \in PipeCallers, PipeStart(c) PROVE CallsFit'
  BY ZenonT(60), <1>1 DEF PipeStart, Calls
<1>2. ASSUME NEW c \in PipeCallers, StartRuns(c) PROVE CallsFit'
  BY <1>2 DEF StartRuns, OpensDevice, FreshFlags
<1>3. ASSUME NEW c \in PipeCallers, StartFailsToOpen(c) PROVE CallsFit'
  BY <1>3 DEF StartFailsToOpen
<1>4. ASSUME NEW c \in PipeCallers, PipeStop(c) PROVE CallsFit'
  <2>1. \/ /\ captureTask \in Openings /\ captureTask <= opens /\ captureTask \in Nat
           /\ captures' = [captures EXCEPT ![captureTask].cancelled = TRUE]
           /\ pipeCall' = [pipeCall EXCEPT ![c] = [step |-> "capture", closes |-> captureTask]]
        \/ /\ ~Alive(captureTask) /\ captures' = captures
           /\ pipeCall' = [pipeCall EXCEPT ![c].step = "health"]
    BY <1>4 DEF PipeStop, Alive, Openings, PipeCounts
  <2>2. /\ opens' = opens /\ captureTask' = captureTask /\ backend' = backend
        /\ streams' = streams /\ orphans' = orphans
        /\ pipeState' = "stopping" /\ stopEvent' = TRUE /\ pipeCall[c].step = "idle"
    BY <1>4 DEF PipeStop, Calls, deviceVars
  <2>3. ~crossed' => ~crossed /\ \A d \in PipeCallers \ {c} : pipeCall[d].step = "idle"
    <3>1. ~crossed' => ~crossed /\ ~OthersIn(c, StopSteps \cup {"opening"})
      BY <1>4, Zenon DEF PipeStop
    <3> QED
      BY <3>1 DEF OthersIn, PipePlaces
  <2>4. \A d \in PipeCallers \ {c} : pipeCall'[d] = pipeCall[d]
    BY <2>1 DEF PipePlaces
  <2>5. ASSUME ~crossed' PROVE \A d \in PipeCallers \ {c} : pipeCall'[d].step = "idle"
    BY <2>3, <2>4, <2>5
  <2>6. \/ pipeCall'[c].step = "capture" /\ pipeCall'[c].closes = captureTask
        \/ pipeCall'[c].step = "health" /\ ~Alive(captureTask) /\ captures' = captures
    BY <2>1
  <2>7. ~crossed' /\ ~Alive(captureTask) /\ captures' = captures =>
          \A n \in Openings : ~(captures'[n].step \in LiveSteps /\ n # 0)
    BY <2>3
  <2> QED
    BY <2>2, <2>5, <2>6, <2>7
<1>5. ASSUME NEW c \in PipeCallers, StopJoinsCapture(c) PROVE CallsFit'
  BY <1>5 DEF StopJoinsCapture, Joined
<1>6. ASSUME NEW c \in PipeCallers, StopCleansUp(c) PROVE CallsFit'
  BY <1>6 DEF StopCleansUp
<1>7. ASSUME NEW c \in PipeCallers, StopReturns(c) PROVE CallsFit'
  BY <1>7 DEF StopReturns, Closes
<1>8. ASSUME NEW c \in PipeCallers, PipePause(c) PROVE CallsFit'
  BY <1>8 DEF PipePause, Calls
<1>9. ASSUME NEW c \in PipeCallers, PipeResume(c) PROVE CallsFit'
  BY <1>9 DEF PipeResume, Calls
<1>10. ASSUME NEW c \in PipeCallers, NEW e \in PipeDevices, ChangeDevice(c, e) PROVE CallsFit'
  BY <1>10 DEF ChangeDevice, Calls
<1>11. ASSUME NEW n \in Openings, CaptureBegins(n) PROVE CallsFit'
  BY SMTT(60), <1>11 DEF CaptureBegins, Proceeds, Raises, Quiet
<1>12. ASSUME NEW n \in Openings, CaptureSeesStop(n) PROVE CallsFit'
  BY <1>12 DEF CaptureSeesStop, Proceeds, Quiet
<1>13. ASSUME NEW n \in Openings, CaptureReadFails(n) PROVE CallsFit'
  BY <1>13 DEF CaptureReadFails, Proceeds, Raises, Quiet
<1>14. ASSUME NEW n \in Openings, CoolsDown(n) PROVE CallsFit'
  BY <1>14 DEF CoolsDown, Proceeds, Quiet
<1>15. ASSUME NEW n \in Openings, RecoveryCloses(n) PROVE CallsFit'
  BY <1>15 DEF RecoveryCloses, Quiet
<1>16. ASSUME NEW n \in Openings, RecoveryReopens(n) PROVE CallsFit'
  BY <1>16 DEF RecoveryReopens, Closes, Proceeds, Quiet
<1>17. ASSUME NEW n \in Openings, Reopened(n) PROVE CallsFit'
  BY <1>17 DEF Reopened, OpensDevice, Proceeds, Quiet
<1>18. ASSUME NEW n \in Openings, ReopenFails(n) PROVE CallsFit'
  BY <1>18 DEF ReopenFails, Proceeds, Quiet
<1>19. ASSUME NEW n \in Openings, CaptureCancelled(n) PROVE CallsFit'
  BY <1>19 DEF CaptureCancelled, Closes, Proceeds, Quiet
<1>20. CASE OldHealthEnds
  BY <1>20 DEF OldHealthEnds
<1>21. CASE Removed
  BY <1>21 DEF Removed
<1>22. CASE UNCHANGED pipeVars
  BY <1>22 DEF pipeVars
<1> QED
  BY <1>1, <1>2, <1>3, <1>4, <1>5, <1>6, <1>7, <1>8, <1>9, <1>10, <1>11, <1>12, <1>13, <1>14,
       <1>15, <1>16, <1>17, <1>18, <1>19, <1>20, <1>21, <1>22 DEF PipelineNext, PipeCallStep,
         CaptureStep

\* The streams are known.
LEMMA StreamsKnownNext == PipeIInv /\ [PipelineNext]_pipeVars => StreamsKnown'
<1> SUFFICES ASSUME PipeIInv, [PipelineNext]_pipeVars PROVE StreamsKnown'
  OBVIOUS
<1> USE PipelineAssumption DEF PipeIInv, pipeFlags, taskVars, deviceVars, StreamsKnown,
     CallsFit, OneCaptures, PipePlaces, Alive, LiveSteps, StopSteps
<1>1. ASSUME NEW c \in PipeCallers, PipeStart(c) PROVE StreamsKnown'
  BY <1>1 DEF PipeStart, Calls
<1>2. ASSUME NEW c \in PipeCallers, StartRuns(c) PROVE StreamsKnown'
  BY <1>2 DEF StartRuns, OpensDevice, FreshFlags
<1>3. ASSUME NEW c \in PipeCallers, StartFailsToOpen(c) PROVE StreamsKnown'
  BY <1>3 DEF StartFailsToOpen
<1>4. ASSUME NEW c \in PipeCallers, PipeStop(c) PROVE StreamsKnown'
  BY <1>4 DEF PipeStop, Calls
<1>5. ASSUME NEW c \in PipeCallers, StopJoinsCapture(c) PROVE StreamsKnown'
  BY <1>5 DEF StopJoinsCapture, Joined
<1>6. ASSUME NEW c \in PipeCallers, StopCleansUp(c) PROVE StreamsKnown'
  BY <1>6 DEF StopCleansUp
<1>7. ASSUME NEW c \in PipeCallers, StopReturns(c) PROVE StreamsKnown'
  BY <1>7 DEF StopReturns, Closes
<1>8. ASSUME NEW c \in PipeCallers, PipePause(c) PROVE StreamsKnown'
  BY <1>8 DEF PipePause, Calls
<1>9. ASSUME NEW c \in PipeCallers, PipeResume(c) PROVE StreamsKnown'
  BY <1>9 DEF PipeResume, Calls
<1>10. ASSUME NEW c \in PipeCallers, NEW e \in PipeDevices, ChangeDevice(c, e)
       PROVE  StreamsKnown'
  BY <1>10 DEF ChangeDevice, Calls
<1>11. ASSUME NEW n \in Openings, CaptureBegins(n) PROVE StreamsKnown'
  BY <1>11 DEF CaptureBegins, Proceeds, Raises, Quiet
<1>12. ASSUME NEW n \in Openings, CaptureSeesStop(n) PROVE StreamsKnown'
  BY <1>12 DEF CaptureSeesStop, Proceeds, Quiet
<1>13. ASSUME NEW n \in Openings, CaptureReadFails(n) PROVE StreamsKnown'
  BY <1>13 DEF CaptureReadFails, Proceeds, Raises, Quiet
<1>14. ASSUME NEW n \in Openings, CoolsDown(n) PROVE StreamsKnown'
  BY <1>14 DEF CoolsDown, Proceeds, Quiet
<1>15. ASSUME NEW n \in Openings, RecoveryCloses(n) PROVE StreamsKnown'
  BY <1>15 DEF RecoveryCloses, Quiet
<1>16. ASSUME NEW n \in Openings, RecoveryReopens(n) PROVE StreamsKnown'
  <2>1. Alive(n) /\ pipeState' = pipeState /\ crossed' = crossed
    BY <1>16 DEF RecoveryReopens, Openings, Quiet
  <2>2. ~crossed => pipeState # "stopped"
    BY <2>1
  <2> QED
    BY <2>1, <2>2, <1>16 DEF RecoveryReopens, Closes
<1>17. ASSUME NEW n \in Openings, Reopened(n) PROVE StreamsKnown'
  <2>1. Alive(n) /\ pipeState' = pipeState /\ crossed' = crossed
    BY <1>17 DEF Reopened, Openings, Quiet
  <2>2. ~crossed => pipeState # "stopped"
    BY <2>1
  <2> QED
    BY <2>1, <2>2, <1>17 DEF Reopened, OpensDevice
<1>18. ASSUME NEW n \in Openings, ReopenFails(n) PROVE StreamsKnown'
  BY <1>18 DEF ReopenFails, Proceeds, Quiet
<1>19. ASSUME NEW n \in Openings, CaptureCancelled(n) PROVE StreamsKnown'
  BY <1>19 DEF CaptureCancelled, Closes, Proceeds, Quiet
<1>20. CASE OldHealthEnds
  BY <1>20 DEF OldHealthEnds
<1>21. CASE Removed
  BY <1>21 DEF Removed
<1>22. CASE UNCHANGED pipeVars
  BY <1>22 DEF pipeVars
<1> QED
  BY <1>1, <1>2, <1>3, <1>4, <1>5, <1>6, <1>7, <1>8, <1>9, <1>10, <1>11, <1>12, <1>13, <1>14,
       <1>15, <1>16, <1>17, <1>18, <1>19, <1>20, <1>21, <1>22 DEF PipelineNext, PipeCallStep,
         CaptureStep

\* A pipeline captures when it says so, and only then.
LEMMA PipelineIsSafe == PipelineInit /\ [][PipelineNext]_pipeVars => []PipeInv
<1>1. PipeIInv /\ [PipelineNext]_pipeVars => PipeIInv'
  BY PipeCountsNext, PipeSetsNext, PipeFlagsNext, PipePlacesNext, NotBegunNext, RunsUntoldNext,
     OneCallsNext, OneCapturesNext, CallsFitNext, StreamsKnownNext DEF PipeIInv
<1>2. PipeIInv => PipeInv
  <2> SUFFICES ASSUME PipeIInv PROVE PipeInv
    OBVIOUS
  <2>1. PipelineTypeOK
    BY DEF PipeIInv, PipelineTypeOK, PipeCounts, PipeSets, PipeFlags, PipePlaces
  <2>2. RunningCaptures
    BY DEF PipeIInv, RunningCaptures, RunsUntold
  <2>3. StoppedReleases
    BY DEF PipeIInv, StoppedReleases, StreamsKnown, OneCaptures
  <2> QED
    BY <2>1, <2>2, <2>3 DEF PipeInv
<1> QED
  BY PipeInitInv, <1>1, <1>2, PTL

-----------------------------------------------------------------------------
(* The components side by side *)

\* What the composition does to the sockets, the socket server does.
LEMMA SocketsSteps == Spec => WsInit /\ [][WsNext]_wsVars
<1>1. Init => WsInit
  BY DEF Init
<1>2. [Next]_vars => [WsNext]_wsVars
  BY DEF Next, Alone, vars
<1> QED
  BY <1>1, <1>2, PTL DEF Spec

\* What the composition does to the windows' view, the windows do.
LEMMA UpdatesSteps == Spec => UpdatesInit /\ [][UpdatesNext]_updateVars
<1>1. Init => UpdatesInit
  BY DEF Init
<1>2. [Next]_vars => [UpdatesNext]_updateVars
  BY DEF Next, Alone, vars
<1> QED
  BY <1>1, <1>2, PTL DEF Spec

\* What the composition does to the process, its supervisor does.
LEMMA SupervisorsSteps == Spec => SupervisorInit /\ [][SupervisorNext]_supervisorVars
<1>1. Init => SupervisorInit
  BY DEF Init
<1>2. [Next]_vars => [SupervisorNext]_supervisorVars
  BY DEF Next, Alone, vars
<1> QED
  BY <1>1, <1>2, PTL DEF Spec

\* What the composition does to recovery, recovery does.
LEMMA RecoverysSteps == Spec => RecoveryInit /\ [][RecoveryNext]_recoveryVars
<1>1. Init => RecoveryInit
  BY DEF Init
<1>2. [Next]_vars => [RecoveryNext]_recoveryVars
  BY DEF Next, Alone, vars
<1> QED
  BY <1>1, <1>2, PTL DEF Spec

\* What the composition does to a pipeline, the pipeline does.
LEMMA PipelinesSteps == Spec => PipelineInit /\ [][PipelineNext]_pipeVars
<1>1. Init => PipelineInit
  BY DEF Init
<1>2. [Next]_vars => [PipelineNext]_pipeVars
  BY DEF Next, Alone, vars
<1> QED
  BY <1>1, <1>2, PTL DEF Spec

\* The server (websocket_server.py) knows its clients and lets no more in than it may, and the
\* windows (useEventSource.ts, App.tsx) show the backend's state or know that they do not.
THEOREM ClientsAreKnown == Spec => []ClientsInv
<1>1. Spec => []WsInv
  BY SocketsSteps, ConnectionsAreSafe, PTL
<1>2. Spec => []UpdatesInv
  BY UpdatesSteps, UpdatesAreSafe, PTL
<1>3. WsInv /\ UpdatesInv => ClientsInv
  BY DEF ClientsInv
<1> QED
  BY <1>1, <1>2, <1>3, PTL

\* A backend that never gets well is restarted (backendSpawn.js) no more often in a row than it
\* may.
THEOREM BackendIsSupervised == Spec => []SupervisorInv
<1> QED
  BY SupervisorsSteps, SupervisorIsSafe, PTL

\* Recovery (recovery_strategies.py) gives up the model's quality and the backend last, and a
\* pipeline (pipeline_base.py) captures when it says so and releases its streams when it stops.
THEOREM FaultsCostNoMore == Spec => []FaultsInv
<1>1. Spec => []RecoveryInv
  BY RecoverysSteps, RecoveryIsSafe, PTL
<1>2. Spec => []PipeInv
  BY PipelinesSteps, PipelineIsSafe, PTL
<1>3. RecoveryInv /\ PipeInv => FaultsInv
  BY DEF FaultsInv
<1> QED
  BY <1>1, <1>2, <1>3, PTL

\* A fallback chain (recovery_strategies.py) only ever moves on, in the composition as well.
THEOREM RecoveryMovesOn == Spec => OnlyMovesOn
<1> QED
  BY RecoverysSteps, OptionsOnlyMoveOn, PTL
===========================================================================
