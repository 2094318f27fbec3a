---------------------------- MODULE HotkeyClient ----------------------------
(***************************************************************************)
(* The main process of the desktop application as a client of the         *)
(* push-to-talk service (electron/main/ipc/hotkeyHandlers.js, and the      *)
(* floating window's actions in ipc/handlers.js).  A hot key starts and    *)
(* stops a session with a request each; a websocket, opened for every      *)
(* session, tells what became of it.  Node runs one handler at a time, but *)
(* everything that is awaited may be overtaken: the two answers, the       *)
(* messages of the socket, the sockets of two sessions, the user.          *)
(*                                                                         *)
(* The service (api/server.py) is modelled in HotkeyService; here it is    *)
(* what the client sees of it: it starts, stops and ends sessions under    *)
(* its lock, and publishes.  The endpoint of the socket, /api/             *)
(* transcription/hotkey/ws, is described in the docs but not in the        *)
(* backend: with Served = FALSE every socket is refused, as this backend   *)
(* does; with Served = TRUE it may also be opened, and then does what      *)
(* docs/engineering/architecture-electron-backend-contract.md:565 says.    *)
(*                                                                         *)
(* Left out: what the floating window shows, the muting of the             *)
(* application's own windows, the clipboard, the debounce of the keys.     *)
(* The settings are those that paste: auto_inject, mode dictation.         *)
(***************************************************************************)
EXTENDS Integers, Sequences, FiniteSets

CONSTANTS NSessions,    \* bound on the start requests
          NStopCalls,   \* bound on the calls of stopRecording()
          SocketFaults, \* bound on lost sockets and failing requests
          WindowActions,\* the floating window's actions
          Served        \* TRUE: the backend has the socket's endpoint

ASSUME HotkeyClientAssumption ==
  /\ NSessions \in Nat /\ NStopCalls \in Nat /\ SocketFaults \in Nat
  /\ Served \in BOOLEAN
  /\ WindowActions \subseteq {"cancel", "finish", "finish_and_paste"}

VARIABLES
  life, active, source,       \* hotkeyLifecycleState, ...SessionId, ...CaptureSource
  restart, action,            \* pendingRestartSource, hotkeyPendingAction
  candidate, pastedLive,      \* hotkeyLatestPasteCandidate, hotkeyPastedLiveCandidate
  waiter,                     \* stopWaiter, by the session it waits for
  startCalls, stopCalls,      \* the calls under way, oldest first
  socket, socketOf,           \* hotkeyWebSocket, hotkeyWebSocketSessionId
  pasted,                     \* how often each session's text was pasted
  holding,                    \* the key that is held down
  sockets,                    \* every socket made, with the messages on their way
  serving, served, jammed,    \* the service: its session, all sessions, its lock held for good
  hkFaults,                   \* faults so far
  cancelled,                  \* history: sessions the user cancelled
  doubled,                    \* history: a stop was called while another waited, or a
                              \*   start while another was under way
  overlapped,                 \* history: a session began before the last one was at rest,
                              \*   or a socket that was replaced still told something
  upset                       \* history: sessions or sockets overlapped, or an event was lost

serviceVars == <<sockets, serving, served, jammed, hkFaults, overlapped, upset>>
clientVars == <<life, active, source, restart, action, candidate, pastedLive, waiter,
                startCalls, stopCalls, socket, socketOf, pasted, holding, cancelled, doubled,
                serviceVars>>

CaptureSources == {"microphone", "system"}
Nobody == 0             \* no session, no socket
NoWaiter == -1
Quiet == ""             \* no source, no action
HkSessions == 1..NSessions

\* Calls that are over, and sessions.
StartDone == [source |-> Quiet, by |-> "key", got |-> "done", of |-> Nobody]
StopDone == [act |-> "finish", by |-> "key", at |-> "done", got |-> "ok", until |-> Nobody]
Session(at) == [at |-> at, spoke |-> FALSE, discards |-> FALSE, closes |-> {}]

Message(kind, s) == [kind |-> kind, of |-> s]

-----------------------------------------------------------------------------
(* What a handler may change, gathered in a record so that the handlers can  *)
(* be composed: c is the client's state, as the handler found it or left it. *)

Client == [life |-> life, active |-> active, source |-> source, restart |-> restart,
           action |-> action, candidate |-> candidate, pastedLive |-> pastedLive,
           waiter |-> waiter, starts |-> startCalls, stops |-> stopCalls,
           socket |-> socket, socketOf |-> socketOf, pasted |-> pasted]

ClientBecomes(c) ==
  /\ life' = c.life /\ active' = c.active /\ source' = c.source /\ restart' = c.restart
  /\ action' = c.action /\ candidate' = c.candidate /\ pastedLive' = c.pastedLive
  /\ waiter' = c.waiter /\ startCalls' = c.starts
  /\ stopCalls' = c.stops /\ socket' = c.socket /\ socketOf' = c.socketOf
  /\ pasted' = c.pasted

Pastes(c, s) == IF s = Nobody THEN c ELSE [c EXCEPT !.pasted[s] = @ + 1]

IsExpected(c, s) == s \in {Nobody, c.active, c.socketOf}

\* Variant of GoesOn: the live paste is not remembered.
GoesOnForgetting(c) ==
  LET waiting == {j \in DOMAIN c.stops : c.stops[j].at = "ack"}
      pastes == IF c.candidate = Nobody THEN {}
                ELSE {j \in waiting : c.stops[j].act = "finish_and_paste"}
  IN  [c EXCEPT !.stops = [j \in DOMAIN @ |-> IF j \in waiting
                                              THEN [@[j] EXCEPT !.at = "answer"] ELSE @[j]],
                !.pasted = [s \in HkSessions |->
                              IF s = c.candidate THEN @[s] + Cardinality(pastes) ELSE @[s]]]

\* The calls that wait go on in the microtasks after the handler: each pastes the
\* live candidate if it was to paste, and then waits for the answer of its request.
GoesOn(c) ==
  LET waiting == {j \in DOMAIN c.stops : c.stops[j].at = "ack"}
      pastes == IF c.candidate = Nobody THEN {}
                ELSE {j \in waiting : c.stops[j].act = "finish_and_paste"}
  IN  [c EXCEPT !.stops = [j \in DOMAIN @ |-> IF j \in waiting
                                              THEN [@[j] EXCEPT !.at = "answer"] ELSE @[j]],
                !.pastedLive = @ \/ pastes # {},
                !.pasted = [s \in HkSessions |->
                              IF s = c.candidate THEN @[s] + Cardinality(pastes) ELSE @[s]]]

\* Variant of Resolves: the ids must be equal.
ResolvesStrictly(c, s) == c.waiter # NoWaiter /\ s = c.waiter

\* resolveStopWaiter(): an event of another session does not end the wait.
Resolves(c, s) == c.waiter # NoWaiter /\ (Nobody \in {s, c.waiter} \/ s = c.waiter)

\* Variant of ResolveStopWaiter: the waiter is cleared before its promise is resolved.
ClearStopWaiter(c, s) == IF Resolves(c, s) THEN [c EXCEPT !.waiter = NoWaiter] ELSE c

ResolveStopWaiter(c, s) ==
  IF Resolves(c, s) THEN GoesOn([c EXCEPT !.waiter = NoWaiter]) ELSE c

\* startRecording() up to its request.
StartRecording(c, src, by) ==
  [c EXCEPT !.candidate = Nobody, !.pastedLive = FALSE, !.life = "starting", !.source = src,
            !.starts = Append(@, [source |-> src, by |-> by, got |-> "no", of |-> Nobody])]

\* Variant of StopRecording: the default comes before the pending action.
StopRecordingByDefault(c, act, by) ==
  [c EXCEPT !.life = "stopping", !.action = "finish_and_paste",
            !.waiter = IF @ = NoWaiter THEN c.active ELSE @,
            !.stops = Append(@, [act |-> "finish_and_paste", by |-> by, at |-> "ack",
                                 got |-> "no", until |-> Nobody])]

\* stopRecording() up to its first await.  A call that finds a stop in flight would
\* join it, but no caller calls it then.
StopRecording(c, act, by) ==
  LET does == IF c.action # Quiet THEN c.action ELSE act
  IN  [c EXCEPT !.action = does, !.life = "stopping",
                !.waiter = IF @ = NoWaiter THEN c.active ELSE @,
                !.stops = Append(@, [act |-> does, by |-> by, at |-> "ack",
                                     got |-> "no", until |-> Nobody])]

\* A call fails: toggleRecordingForSource() shows an error.
ToggleFails(c) == [c EXCEPT !.life = "error", !.source = Quiet]

-----------------------------------------------------------------------------
(* The user.  A hot key that toggles is a key that is held until it is pressed *)
(* again: it starts when idle and stops otherwise.                             *)

\* History: a stop was called while another still waited for its acknowledgement.
StopsAgain == doubled' = (doubled \/ \E j \in DOMAIN stopCalls : stopCalls[j].at = "ack")

\* History: a start was called while another was not answered.
StartsAgain == doubled' = (doubled \/ \E i \in DOMAIN startCalls : startCalls[i].got # "done")

CanStart == Len(startCalls) < NSessions
CanStop == Len(stopCalls) < NStopCalls

ActiveSource == IF source = Quiet THEN "microphone" ELSE source
Busy == life \in {"starting", "recording"}

\* toggleRecordingForSource(src, true): the key goes down.
Press(src) ==
  /\ holding = Quiet /\ holding' = src
  /\ \/ /\ life \in {"idle", "error"} /\ CanStart
        /\ ClientBecomes(StartRecording(Client, src, "key"))
        /\ StartsAgain
     \/ /\ Busy /\ ActiveSource = src
        /\ ClientBecomes(Client) /\ UNCHANGED doubled
     \/ /\ life = "stopping"
        /\ ClientBecomes([Client EXCEPT !.restart = src])
        /\ UNCHANGED doubled
     \/ /\ Busy /\ ActiveSource # src /\ CanStop
        /\ ClientBecomes(StopRecording([Client EXCEPT !.restart = src],
                                       "finish_and_paste", "key"))
        /\ StopsAgain
  /\ UNCHANGED <<cancelled, serviceVars>>

\* toggleRecordingForSource(src, false): the key goes up.
Release ==
  /\ holding # Quiet /\ holding' = Quiet
  /\ \/ /\ Busy /\ CanStop
        /\ ClientBecomes(StopRecording(Client, "finish_and_paste", "key"))
        /\ StopsAgain
     \/ /\ ~Busy /\ ClientBecomes(Client) /\ UNCHANGED doubled
  /\ UNCHANGED <<cancelled, serviceVars>>

\* handlers.js, floating-window-action: cancel, finish, finish-and-paste.
FloatingAction(act) ==
  /\ life = "recording" /\ CanStop
  /\ ClientBecomes(StopRecording([Client EXCEPT !.action = act], act, "window"))
  /\ cancelled' = IF act = "cancel" THEN cancelled \cup ({active} \ {Nobody}) ELSE cancelled
  /\ StopsAgain
  /\ UNCHANGED <<holding, serviceVars>>

-----------------------------------------------------------------------------
(* The answers of the two requests. *)

ClientKeeps == UNCHANGED <<holding, cancelled, doubled>>

\* closeHotkeyWebSocket(): what was sent before may still arrive, and then the close.
ClientCloses ==
  IF socket = Nobody \/ sockets[socket].open \notin {"connecting", "open"} THEN sockets
  ELSE [sockets EXCEPT ![socket].open = "closing",
                       ![socket].inbox = Append(@, Message("closed", Nobody))]

\* The rest of startRecording(), with connectHotkeyWebSocket().
StartAnswered(i) ==
  LET call == startCalls[i]
      c == [Client EXCEPT !.starts[i] = StartDone]
  IN  /\ \/ /\ call.got = "ok"
            /\ ClientBecomes([c EXCEPT
                 !.candidate = Nobody, !.pastedLive = FALSE, !.active = call.of,
                 !.life = "starting", !.source = call.source,
                 !.socket = Len(sockets) + 1, !.socketOf = call.of])
            /\ sockets' = Append(ClientCloses, [open |-> "connecting", inbox |-> <<>>])
            /\ upset' = (upset \/ \E k \in DOMAIN sockets : ClientCloses[k].inbox # <<>>)
         \/ /\ call.got = "failed"      \* a restart is not awaited: its error shows nowhere
            /\ ClientBecomes(IF call.by = "key" THEN ToggleFails(c) ELSE c)
            /\ UNCHANGED <<sockets, upset>>
      /\ ClientKeeps /\ UNCHANGED <<serving, served, jammed, hkFaults, overlapped>>

\* The rest of stopRecording() after its acknowledgement, and its caller's.
StopAnswered(j) ==
  LET call == stopCalls[j]
      c == [Client EXCEPT !.stops[j] = StopDone]
      d == IF call.got = "ok" THEN c
           ELSE [c EXCEPT !.candidate = Nobody, !.pastedLive = FALSE, !.action = Quiet]
  IN  /\ call.at = "answer" /\ call.got # "no"
      /\ ClientBecomes(IF call.by = "window" THEN [d EXCEPT !.action = Quiet]
                       ELSE IF call.got = "ok" THEN d ELSE ToggleFails(d))
      /\ ClientKeeps /\ UNCHANGED serviceVars

-----------------------------------------------------------------------------
(* The handlers of the socket. *)

OnStarted(c, s) == [c EXCEPT !.life = "recording", !.active = s]      \* and hotkey_status
OnStatusStopping(c, s) == [c EXCEPT !.life = "stopping", !.active = s]
OnStatusIdle(c) == [c EXCEPT !.life = "idle", !.active = Nobody]
OnCommit(c, s) == IF c.life = "stopping" THEN c ELSE [c EXCEPT !.candidate = s]
OnStopAck(c, s) ==                                                   \* and hotkey_stopping
  ResolveStopWaiter([c EXCEPT !.life = "stopping", !.active = s], s)

\* hotkey_stopped: the text is pasted unless that was done at the acknowledgement;
\* the pending restart begins before the resolved stop goes on.
OnStopped(c, s, text) ==
  LET d == IF text /\ c.action = "finish_and_paste" /\ ~c.pastedLive THEN Pastes(c, s) ELSE c
      idle == [d EXCEPT !.candidate = Nobody, !.pastedLive = FALSE, !.action = Quiet,
                        !.life = "idle", !.active = Nobody, !.source = Quiet]
      resolved == IF Resolves(c, s) THEN [idle EXCEPT !.waiter = NoWaiter] ELSE idle
      restarted == IF c.restart = Quiet \/ ~CanStart THEN resolved
                   ELSE StartRecording([resolved EXCEPT !.restart = Quiet], c.restart, "restart")
  IN  IF Resolves(c, s) THEN GoesOn(restarted) ELSE restarted

OnError(c) ==
  LET d == [c EXCEPT !.life = "error"]
  IN  IF c.waiter = NoWaiter THEN d ELSE GoesOn([d EXCEPT !.waiter = NoWaiter])

\* The close event of any socket, of one that was replaced as well.
OnClose(c, normal) ==
  LET d == [c EXCEPT !.socket = Nobody, !.socketOf = Nobody]
  IN  CASE normal /\ c.life = "stopping" -> ResolveStopWaiter(d, Nobody)
        [] c.life \in {"starting", "recording"} -> [d EXCEPT !.life = "error"]
        [] OTHER -> d

Handled(c, m) ==
  CASE m.kind = "closed" -> OnClose(c, TRUE)
    [] m.kind = "lost"   -> OnClose(c, FALSE)
    [] m.kind = "error"  -> OnError(c)
    [] m.kind \notin {"closed", "lost", "error"} /\ ~IsExpected(c, m.of) -> c
    [] m.kind = "started"  /\ IsExpected(c, m.of) -> OnStarted(c, m.of)
    [] m.kind = "stopping" /\ IsExpected(c, m.of) -> OnStatusStopping(c, m.of)
    [] m.kind = "idle"     /\ IsExpected(c, m.of) -> OnStatusIdle(c)
    [] m.kind = "commit"   /\ IsExpected(c, m.of) -> OnCommit(c, m.of)
    [] m.kind = "ack"      /\ IsExpected(c, m.of) -> OnStopAck(c, m.of)
    [] m.kind = "stopped"  /\ IsExpected(c, m.of) -> OnStopped(c, m.of, TRUE)
    [] m.kind = "discarded" /\ IsExpected(c, m.of) -> OnStopped(c, m.of, FALSE)

SocketTells(k) ==
  /\ sockets[k].inbox # <<>>
  /\ ClientBecomes(Handled(Client, Head(sockets[k].inbox)))
  /\ sockets' = [sockets EXCEPT ![k].inbox = Tail(@)]
  /\ LET kind == Head(sockets[k].inbox).kind
     IN  overlapped' = (overlapped \/ (k # socket /\ kind \notin {"closed", "lost"}))
  /\ IF startCalls' = startCalls THEN UNCHANGED doubled ELSE StartsAgain
  /\ UNCHANGED <<holding, cancelled, serving, served, jammed, hkFaults, upset>>

-----------------------------------------------------------------------------
(* The service and the network. *)

ClientRests == UNCHANGED <<life, active, source, restart, action, candidate, pastedLive,
                           waiter, socket, socketOf, pasted, holding, cancelled, doubled>>

OpenSockets == {k \in DOMAIN sockets : sockets[k].open = "open"}

Tell(kind, s) == [k \in DOMAIN sockets |->
                    IF k \in OpenSockets
                    THEN [sockets[k] EXCEPT !.inbox = Append(@, Message(kind, s))]
                    ELSE sockets[k]]

HkRecording == serving # Nobody /\ served[serving].at = "recording"

\* _stop_internal().
ServiceBeginsEnd(cancel) ==
  /\ served' = [served EXCEPT ![serving] = [@ EXCEPT !.at = "ending", !.discards = cancel,
                                                     !.closes = OpenSockets]]
  /\ sockets' = Tell("ack", serving)

\* start_session(): a session that records is stopped first, under the lock its end needs.
ServiceStarts(i) ==
  /\ startCalls[i].got = "no" /\ ~jammed
  /\ \/ /\ ~HkRecording
        /\ \E s \in HkSessions :
             /\ served[s].at = "none" /\ \A t \in 1..(s - 1) : served[t].at # "none"
             /\ served' = [served EXCEPT ![s].at = "recording"] /\ serving' = s
             /\ sockets' = Tell("started", s)
             /\ startCalls' = [startCalls EXCEPT ![i].got = "ok", ![i].of = s]
        /\ overlapped' = (overlapped \/ serving # Nobody)
        /\ upset' = (upset \/ serving # Nobody)
        /\ UNCHANGED <<jammed, hkFaults>>
     \/ /\ ~HkRecording /\ hkFaults < SocketFaults
        /\ hkFaults' = hkFaults + 1 /\ upset' = TRUE /\ UNCHANGED overlapped
        /\ sockets' = Tell("error", Nobody)
        /\ startCalls' = [startCalls EXCEPT ![i].got = "failed"]
        /\ UNCHANGED <<serving, served, jammed>>
     \/ /\ HkRecording /\ ServiceBeginsEnd(FALSE)
        /\ jammed' = TRUE /\ overlapped' = TRUE /\ upset' = TRUE
        /\ UNCHANGED <<serving, startCalls, hkFaults>>
  /\ ClientRests /\ UNCHANGED stopCalls

\* stop_session(): without a session it answers at once and tells nobody.
ServiceStops(j) ==
  /\ stopCalls[j].got = "no" /\ stopCalls[j].until = Nobody /\ ~jammed
  /\ upset' = (upset \/ ~HkRecording \/ socket \notin OpenSockets \/ active # serving)
  /\ \/ /\ serving = Nobody
        /\ stopCalls' = [stopCalls EXCEPT ![j].got = "ok"]
        /\ UNCHANGED <<served, sockets>>
     \/ /\ HkRecording /\ ServiceBeginsEnd(stopCalls[j].act = "cancel")
        /\ stopCalls' = [stopCalls EXCEPT ![j].until = serving]
     \/ /\ serving # Nobody /\ ~HkRecording
        /\ stopCalls' = [stopCalls EXCEPT ![j].until = serving]
        /\ UNCHANGED <<served, sockets>>
  /\ ClientRests /\ UNCHANGED <<serving, jammed, hkFaults, overlapped, startCalls>>

ServiceCommits(s) ==
  /\ served[s].at = "recording" /\ ~served[s].spoke
  /\ served' = [served EXCEPT ![s].spoke = TRUE] /\ sockets' = Tell("commit", s)
  /\ ClientRests /\ UNCHANGED <<serving, jammed, hkFaults, overlapped, upset, startCalls, stopCalls>>

\* _finalize_stopped_session(): the result, and then, with the lock, the rest.
ServiceEnds(s) ==
  /\ served[s].at = "ending"
  /\ served' = [served EXCEPT ![s].at = "ended"]
  /\ sockets' = Tell(IF served[s].discards THEN "discarded" ELSE "stopped", s)
  /\ ClientRests /\ UNCHANGED <<serving, jammed, hkFaults, overlapped, upset, startCalls, stopCalls>>

ServiceRests(s) ==
  /\ served[s].at = "ended" /\ ~jammed
  /\ served' = [served EXCEPT ![s] = Session("over")]
  /\ serving' = IF serving = s THEN Nobody ELSE serving
  /\ sockets' = [k \in DOMAIN sockets |->
                   LET told == Tell("idle", Nobody)[k]
                   IN  IF k \in OpenSockets \cap served[s].closes
                       THEN [open |-> "closing",
                             inbox |-> Append(told.inbox, Message("closed", Nobody))]
                       ELSE told]
  /\ stopCalls' = [j \in DOMAIN stopCalls |->
                     IF stopCalls[j].until = s THEN [stopCalls[j] EXCEPT !.got = "ok"]
                     ELSE stopCalls[j]]
  /\ ClientRests /\ UNCHANGED <<jammed, hkFaults, overlapped, upset, startCalls>>

\* The endpoint accepts, and tells the state first.
SocketOpens(k) ==
  /\ Served /\ sockets[k].open = "connecting"
  /\ sockets' = [sockets EXCEPT ![k] =
       [open |-> "open",
        inbox |-> <<IF serving = Nobody THEN Message("idle", Nobody)
                    ELSE Message(IF HkRecording THEN "started" ELSE "stopping", serving)>>]]
  /\ ClientRests /\ UNCHANGED <<serving, served, jammed, hkFaults, overlapped, upset, startCalls, stopCalls>>

\* A socket is refused or lost.  Nobody listens for the library's error event, which
\* throws before the close event is emitted if the handshake was refused.
SocketFails(k) ==
  /\ sockets[k].open \in {"connecting", "open"}
  /\ \/ ~Served /\ UNCHANGED hkFaults
     \/ Served /\ hkFaults < SocketFaults /\ hkFaults' = hkFaults + 1
  /\ sockets' = [sockets EXCEPT ![k] =
       [open |-> "closing",
        inbox |-> IF sockets[k].open = "open" THEN <<Message("lost", Nobody)>> ELSE <<>>]]
  /\ upset' = TRUE
  /\ ClientRests /\ UNCHANGED <<serving, served, jammed, overlapped, startCalls, stopCalls>>

-----------------------------------------------------------------------------
HotkeyClientInit ==
  /\ life = "idle" /\ active = Nobody /\ source = Quiet /\ restart = Quiet /\ action = Quiet
  /\ candidate = Nobody /\ pastedLive = FALSE /\ waiter = NoWaiter
  /\ startCalls = <<>> /\ stopCalls = <<>> /\ socket = Nobody /\ socketOf = Nobody
  /\ pasted = [s \in HkSessions |-> 0] /\ holding = Quiet /\ sockets = <<>>
  /\ serving = Nobody /\ jammed = FALSE /\ hkFaults = 0
  /\ served = [s \in HkSessions |-> Session("none")]
  /\ cancelled = {} /\ doubled = FALSE /\ overlapped = FALSE /\ upset = FALSE

ServiceStep ==
  \/ \E i \in DOMAIN startCalls : ServiceStarts(i)
  \/ \E j \in DOMAIN stopCalls : ServiceStops(j)
  \/ \E s \in HkSessions : ServiceEnds(s) \/ ServiceRests(s)

AnswersArrive ==
  \/ \E i \in DOMAIN startCalls : StartAnswered(i)
  \/ \E j \in DOMAIN stopCalls : StopAnswered(j)

HotkeyClientNext ==
  \/ \E src \in CaptureSources : Press(src)
  \/ Release
  \/ \E act \in WindowActions : FloatingAction(act)
  \/ ServiceStep
  \/ \E s \in HkSessions : ServiceCommits(s)
  \/ AnswersArrive
  \/ \E k \in DOMAIN sockets : SocketTells(k) \/ SocketOpens(k) \/ SocketFails(k)

HotkeyClientSpec == HotkeyClientInit /\ [][HotkeyClientNext]_clientVars

-----------------------------------------------------------------------------
\* The types; and whoever waits for an acknowledgement waits for a waiter that is
\* still there to be resolved (resolveStopWaiter() clears it for all).
HotkeyClientTypeOK ==
  /\ life \in {"idle", "starting", "recording", "stopping", "error"}
  /\ active \in 0..NSessions /\ candidate \in 0..NSessions /\ socketOf \in 0..NSessions
  /\ source \in CaptureSources \cup {Quiet} /\ restart \in CaptureSources \cup {Quiet}
  /\ action \in {"cancel", "finish", "finish_and_paste", Quiet}
  /\ socket \in 0..Len(sockets) /\ waiter \in -1..NSessions
  /\ Len(startCalls) <= NSessions /\ Len(stopCalls) <= NStopCalls
  /\ (\E j \in DOMAIN stopCalls : stopCalls[j].at = "ack") => waiter # NoWaiter

\* The text of a session is pasted at most once, at the acknowledgement of its stop or
\* with its result, whichever way the two are ordered; unless stopRecording() was called
\* while another call waited, which pastes twice if one waiter resolves both, or
\* startRecording() while another call was not answered, or sessions
\* or sockets overlapped: the idle status of the last session, or what a replaced socket
\* still tells, lets a recording begin that forgets what has been pasted.
PastedOnce == doubled \/ overlapped \/ \A s \in HkSessions : pasted[s] <= 1

\* Of a session the user cancelled in the floating window nothing is pasted, not even
\* what had been recognized before (hotkeyPendingAction; same exceptions).
CancelPastesNothing == doubled \/ overlapped \/ \A s \in cancelled : pasted[s] = 0

\* Nothing is on its way to the client: whoever waits now waits for ever.
Settled ==
  /\ \A k \in DOMAIN sockets : sockets[k].inbox = <<>> /\ sockets[k].open # "connecting"
  /\ \A i \in DOMAIN startCalls : startCalls[i].got = "done"
  /\ \A j \in DOMAIN stopCalls : stopCalls[j].got # "no"

\* A call of stopRecording() gets past its acknowledgement, whatever the user did
\* meanwhile, if the sessions and their sockets did not overlap and nothing was lost.
StopCallsReturn == Settled => upset \/ \A j \in DOMAIN stopCalls : stopCalls[j].at # "ack"

\* waitForStopAck() has a timeout of 2.5 s, "Timed out waiting for hotkey stop
\* acknowledgement" (hotkeyHandlers.js:218): when everything else is over, no call
\* waits.  The timeout only logs, and without a socket nothing else ends the wait.
\* The code does not keep this: README, section 6.
AckWaitTimesOut == Settled => \A j \in DOMAIN stopCalls : stopCalls[j].at # "ack"

\* What the client owes the user, whatever the order of keys, answers and socket events: a
\* text is pasted once, a cancelled one never, and a stop gets past its acknowledgement.
HotkeyClientInv ==
  HotkeyClientTypeOK /\ PastedOnce /\ CancelPastesNothing /\ StopCallsReturn
=============================================================================
