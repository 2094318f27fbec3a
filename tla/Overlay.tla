------------------------------ MODULE Overlay ------------------------------
(***************************************************************************)
(* The floating window of push-to-talk: the state that the main process    *)
(* keeps for it (electron/main/windows/floatingWindow.js), the messages on *)
(* their way to it, the last of each kind in its preload script            *)
(* (preload/floating.js), and the component that renders them              *)
(* (components/FloatingWindow.tsx), which takes its subscriptions off and  *)
(* on again, with the last messages replayed, whenever its handlers have   *)
(* changed with the committed text.                                        *)
(*                                                                         *)
(* What the main process tells is given by its handlers in                 *)
(* ipc/hotkeyHandlers.js, each with the calls that it makes to the window; *)
(* HotkeyClient has their sessions, sockets and requests.  Here a session  *)
(* has one stop, its socket delivers its events in their order, and the    *)
(* setting show_floating_window is on.  A text is the number of a session  *)
(* with a count.  The waveform, the mode and the window's place are left   *)
(* out.                                                                    *)
(***************************************************************************)
EXTENDS Naturals, Sequences

CONSTANTS NOverlays, \* bound: recordings started
          NWords,    \* bound: texts told
          OverlayChannel \* bound: the main process rests with more messages on their way

VARIABLES
  ovLife, ovActive,         \* hotkeyLifecycleState, activeHotkeySessionId
  ovCandidate, ovPartial,   \* hotkeyLatestPasteCandidate, hotkeyCurrentText
  ovSuppress, ovCancels,    \* floatingWindowSuppressResult; hotkeyPendingAction is "cancel"
  ovAsked,                  \* the request of a start is under way
  ovService,                \* how far the service has told of the active session
  ovStop,                   \* the stop under way, and the recording that it stops
  ovSays,                   \* the recording's result has a text
  ovStarted, ovWords,       \* recordings started, and texts told
  ovWindow, ovShown,        \* none, loading or ready (floatingWindowReady); shown
  pendingRec, pendingText, pendingPrep, \* the pending payloads
  toOverlay,                \* messages on their way
  latest,                   \* the latest of the preload script
  ui,                       \* the component's state and refs
  subscribed,               \* the committed text its handlers were made with
  ovUpset                   \* history: an error, or things out of their usual order

mainVars == <<ovLife, ovActive, ovCandidate, ovPartial, ovSuppress, ovCancels, ovAsked,
              ovService, ovStop, ovSays, ovStarted, ovWords, ovUpset>>
windowVars == <<ovWindow, ovShown, pendingRec, pendingText, pendingPrep>>
overlayVars == <<mainVars, windowVars, toOverlay, latest, ui, subscribed>>

NoText == <<0, 0>>
NobodyYet == 0
Unmounted == <<0, 1>>    \* subscribed, before the component is mounted

Rec(does, s, error) == [does |-> does, of |-> s, error |-> error]
RestRec == Rec("rest", NobodyYet, FALSE)
Words(t, committed, partial, isPartial, s) ==
  [text |-> t, committed |-> committed, partial |-> partial, isPartial |-> isPartial, of |-> s]
NoWords == Words(NoText, NoText, NoText, FALSE, NobodyYet)

\* Messages.
RecMsg(p) == [kind |-> "rec", p |-> p]
TextMsg(p) == [kind |-> "text", p |-> p]
PrepMsg(p) == [kind |-> "prep", p |-> p]
CoachMsg(t) == [kind |-> "coach", p |-> t]
ClearMsg == [kind |-> "clear", p |-> NoText]

OverlayInit ==
  /\ ovLife = "idle" /\ ovActive = NobodyYet /\ ovCandidate = NoText /\ ovPartial = NoText
  /\ ovSuppress = FALSE /\ ovCancels = FALSE /\ ovAsked = FALSE
  /\ ovService = "none" /\ ovStop = [does |-> "none", of |-> NobodyYet]
  /\ ovSays = FALSE /\ ovStarted = 0 /\ ovWords = 0 /\ ovUpset = FALSE
  /\ ovWindow = "none" /\ ovShown = FALSE
  /\ pendingRec = RestRec /\ pendingText = NoWords /\ pendingPrep = FALSE
  /\ toOverlay = <<>>
  /\ latest = [rec |-> RestRec, text |-> NoWords, prep |-> FALSE, coach |-> NoText]
  /\ ui = [phase |-> "idle", of |-> NobodyYet, committed |-> NoText, partial |-> NoText,
           final |-> NoText, error |-> FALSE, ticks |-> FALSE, elapsed |-> FALSE,
           prep |-> FALSE]
  /\ subscribed = Unmounted

-----------------------------------------------------------------------------
(* The component.  A handler makes a new state from u.                       *)

StopTimer(u, reset) ==
  [u EXCEPT !.ticks = FALSE, !.elapsed = IF reset THEN FALSE ELSE @]

\* Variant of BeginSession: the final text stays.
BeginSessionOver(u, s) ==
  IF s \in {NobodyYet, u.of} THEN u
  ELSE [StopTimer(u, TRUE) EXCEPT !.of = s, !.committed = NoText, !.partial = NoText,
                                  !.error = FALSE]

\* beginSession(): a session that is not the active one starts afresh.
BeginSession(u, s) ==
  IF s \in {NobodyYet, u.of} THEN u
  ELSE [StopTimer(u, TRUE) EXCEPT !.of = s, !.committed = NoText, !.partial = NoText,
                                  !.final = NoText, !.error = FALSE]

\* Variant of ClearSession: the timer runs on.
ClearSessionTicking(u) == [u EXCEPT !.of = NobodyYet]

ClearSession(u) == [StopTimer(u, TRUE) EXCEPT !.of = NobodyYet]

\* handleRecordingState()
OnRecordingState(u, p) ==
  CASE p.error ->
         [StopTimer(BeginSession(u, p.of), FALSE) EXCEPT !.phase = "error", !.error = TRUE]
    [] ~p.error /\ p.does = "record" ->
         [BeginSession(u, p.of) EXCEPT
            !.phase = IF @ = "transcribing" THEN @ ELSE "listening", !.ticks = TRUE]
    [] ~p.error /\ p.does = "process" -> [u EXCEPT !.phase = "finalizing"]
    [] ~p.error /\ p.does = "finish" ->
         [StopTimer(u, FALSE) EXCEPT !.phase = "done", !.prep = FALSE]
    [] ~p.error /\ p.does = "rest" ->
         IF u.phase \in {"done", "error"} THEN u
         ELSE [ClearSession(u) EXCEPT !.phase = "idle"]

\* handleTranscription(); an empty text as well makes the phase "transcribing".
OnTranscription(u, p) ==
  LET b == BeginSession(u, p.of)
      phase == IF b.phase \in {"idle", "listening"} THEN "transcribing" ELSE b.phase
      said == IF p.committed # NoText THEN p.committed ELSE p.text
  IN  IF p.isPartial
      THEN [b EXCEPT !.prep = FALSE, !.partial = p.partial, !.phase = phase,
                     !.committed = IF p.committed # NoText THEN p.committed ELSE @,
                     !.ticks = @ \/ b.of # NobodyYet]
      ELSE [b EXCEPT !.prep = FALSE, !.partial = NoText, !.phase = phase,
                     !.committed = IF said # NoText THEN said ELSE @,
                     !.final = IF b.phase = "finalizing" /\ said # NoText THEN said ELSE @]

\* handleCoachResult()
OnCoachResult(u, t) ==
  [StopTimer(BeginSession(u, t[1]), FALSE) EXCEPT
     !.committed = t, !.partial = NoText, !.final = t, !.error = FALSE, !.phase = "done"]

\* handleCoachResultClear()
OnCoachResultClear(u) ==
  [ClearSession(u) EXCEPT !.phase = "idle", !.committed = NoText, !.partial = NoText,
                          !.final = NoText, !.error = FALSE]

Hears(u, m) ==
  CASE m.kind = "rec" -> OnRecordingState(u, m.p)
    [] m.kind = "text" -> OnTranscription(u, m.p)
    [] m.kind = "coach" -> OnCoachResult(u, m.p)
    [] m.kind = "clear" -> OnCoachResultClear(u)
    [] m.kind = "prep" -> [u EXCEPT !.prep = m.p]

\* Variant of Replays: the recording state is not replayed.
ReplaysTexts(u) ==
  LET told == OnTranscription(u, latest.text)
      coached == IF latest.coach = NoText THEN told ELSE OnCoachResult(told, latest.coach)
  IN  [coached EXCEPT !.prep = latest.prep]

\* The subscriptions: each calls back at once with the latest message.
Replays(u) ==
  LET told == OnTranscription(OnRecordingState(u, latest.rec), latest.text)
      coached == IF latest.coach = NoText THEN told ELSE OnCoachResult(told, latest.coach)
  IN  [coached EXCEPT !.prep = latest.prep]

\* The effect runs when the component is mounted, and once more whenever it has rendered
\* handlers that were made anew: the subscriptions are taken off, with the timer.
Subscribes ==
  /\ ovWindow # "none" /\ ui.committed # subscribed
  /\ subscribed' = ui.committed
  /\ ui' = Replays(IF subscribed = Unmounted THEN ui ELSE StopTimer(ui, TRUE))
  /\ UNCHANGED <<mainVars, windowVars, toOverlay, latest>>

\* A message arrives: the preload script keeps it and the component, if mounted, handles it.
Delivers ==
  /\ toOverlay # <<>>
  /\ LET m == Head(toOverlay) IN
     /\ latest' = CASE m.kind = "clear" -> [latest EXCEPT !.coach = NoText]
                    [] m.kind = "rec" -> [latest EXCEPT !.rec = m.p]
                    [] m.kind = "text" -> [latest EXCEPT !.text = m.p]
                    [] m.kind = "coach" -> [latest EXCEPT !.coach = m.p]
                    [] m.kind = "prep" -> [latest EXCEPT !.prep = m.p]
     /\ ui' = IF subscribed = Unmounted THEN ui ELSE Hears(ui, m)
  /\ toOverlay' = Tail(toOverlay)
  /\ UNCHANGED <<mainVars, windowVars, subscribed>>

\* startTimer(): the interval's callback.
Ticks ==
  /\ ui.ticks /\ ui' = [ui EXCEPT !.elapsed = TRUE]
  /\ UNCHANGED <<mainVars, windowVars, toOverlay, latest, subscribed>>

-----------------------------------------------------------------------------
(* The window's state in the main process                                  *)

Sent(messages) == IF ovWindow = "ready" THEN toOverlay \o messages ELSE toOverlay

\* clearFloatingCoachResult(), showFloatingCoachResult(): also to a window that is loading,
\* which may not hear it.
SentAnyway(messages, heard) ==
  IF ovWindow = "ready" \/ (ovWindow = "loading" /\ heard) THEN toOverlay \o messages
  ELSE toOverlay

\* The messages of resetFloatingWindow(), and its payloads.
ResetMessages == <<RecMsg(RestRec), TextMsg(NoWords), PrepMsg(FALSE)>>
Resets == pendingText' = NoWords /\ pendingPrep' = FALSE

\* did-finish-load
Loads ==
  /\ ovWindow = "loading" /\ ovWindow' = "ready"
  /\ toOverlay' = toOverlay \o
       <<RecMsg(pendingRec), TextMsg(pendingText), PrepMsg(pendingPrep)>>
  /\ UNCHANGED <<mainVars, ovShown, pendingRec, pendingText, pendingPrep, latest, ui, subscribed>>

\* A recording state: it is merged, so an error stays until it is taken back.
Recording(does, s) == Rec(does, s, pendingRec.error)

\* A recording state and a text are told.
Tells(rec, text) ==
  /\ pendingRec' = rec /\ pendingText' = text
  /\ toOverlay' = Sent(<<RecMsg(rec), TextMsg(text)>>)
  /\ UNCHANGED <<ovWindow, ovShown, pendingPrep>>

\* showFloatingWindow(), which creates the window.
Shows == ovShown' = TRUE /\ ovWindow' = IF ovWindow = "none" THEN "loading" ELSE ovWindow

Room == Len(toOverlay) <= OverlayChannel
OverlayRests == UNCHANGED <<latest, ui, subscribed>>

\* The texts of a recording: its next, its final one, and the coach's.
NextText(s) == <<s, ovWords + 1>>
FinalText(s) == <<s, NWords + 1>>
CoachText(s) == <<s, NWords + 2>>
Result(s) == IF ovSays \/ s # ovStarted THEN FinalText(s) ELSE NoText
Candidate == IF ovCandidate # NoText THEN ovCandidate ELSE ovPartial

-----------------------------------------------------------------------------
(* Starts and stops                                                        *)

\* A start clears the coach's result, resets the window, and shows it recording.
StartShows(heard) == SentAnyway(<<ClearMsg>>, heard)

\* startRecording() up to its request.
OverlayStart(heard, says) ==
  /\ Room /\ ovLife \in {"idle", "error"} /\ ~ovAsked /\ ovStarted < NOverlays
  /\ ovStarted' = ovStarted + 1 /\ ovAsked' = TRUE /\ ovSays' = says
  /\ ovLife' = "starting"
  /\ ovCandidate' = NoText /\ ovPartial' = NoText /\ ovSuppress' = FALSE
  /\ Shows
  /\ pendingRec' = Rec("record", NobodyYet, FALSE) /\ Resets
  /\ toOverlay' = StartShows(heard) \o
       (IF ovWindow = "ready" THEN Append(ResetMessages, RecMsg(pendingRec')) ELSE <<>>)
  /\ ovUpset' = (ovUpset \/ ovStop.does # "none"
                          \/ (ovWindow # "none" /\ subscribed = Unmounted))
  /\ OverlayRests /\ UNCHANGED <<ovActive, ovService, ovCancels, ovStop, ovWords>>

\* Its answer; after a failure the caller hides the window.
OverlayStartAnswered(ok) ==
  /\ ovAsked /\ ovAsked' = FALSE
  /\ IF ok THEN /\ ovActive' = ovStarted /\ ovService' = "new" /\ ovLife' = "starting"
                /\ ovPartial' = NoText /\ ovCandidate' = NoText
                /\ UNCHANGED ovShown
     ELSE /\ ovLife' = "error" /\ ovShown' = FALSE
          /\ UNCHANGED <<ovActive, ovService, ovPartial, ovCandidate>>
  /\ OverlayRests
  /\ UNCHANGED <<ovSuppress, ovCancels, ovStop, ovSays, ovStarted, ovWords, ovUpset, ovWindow,
                 pendingRec, pendingText, pendingPrep, toOverlay>>

\* stopRecording() up to its request: by the window's buttons, which show the result or
\* cancel, or by a key.
OverlayStop(by) ==
  /\ Room /\ ovStop.does = "none"
  /\ ovLife = "recording" \/ (by = "key" /\ ovLife = "starting")
  /\ by # "key" => ovShown
  /\ ovStop' = [does |-> by, of |-> ovStarted]
  /\ ovCancels' = (by = "cancel")
  /\ ovSuppress' = (by # "finish")
  /\ IF by = "finish"
     THEN Tells(Rec("process", ovActive, FALSE),
                Words(Candidate, ovCandidate, NoText, FALSE, ovActive))
     ELSE /\ pendingRec' = RestRec /\ Resets
          /\ toOverlay' = Sent(ResetMessages)
          /\ ovShown' = FALSE /\ UNCHANGED ovWindow
  /\ ovLife' = "stopping" /\ ovPartial' = NoText
  /\ OverlayRests
  /\ UNCHANGED <<ovActive, ovAsked, ovService, ovCandidate, ovSays, ovStarted, ovWords,
                 ovUpset>>

\* Its answer, with the result's text: it is shown unless that was suppressed.
OverlayStopAnswered ==
  LET s == ovStop.of
      t == Result(s)
  IN
  /\ Room /\ ovStop.does # "none"
  /\ IF ovStop.does = "finish" /\ t # NoText /\ ~ovSuppress
     THEN LET text == Words(t, t, NoText, FALSE, s)
              rec == Recording("finish", s)
          IN  /\ pendingRec' = rec /\ pendingText' = text
              /\ toOverlay' = Sent(<<TextMsg(text), RecMsg(rec)>>)
     ELSE UNCHANGED <<pendingRec, pendingText, toOverlay>>
  /\ ovStop' = [does |-> "none", of |-> NobodyYet] /\ ovCancels' = FALSE
  /\ OverlayRests
  /\ UNCHANGED <<ovLife, ovActive, ovAsked, ovService, ovCandidate, ovPartial, ovSuppress,
                 ovSays, ovStarted, ovWords, ovUpset, ovWindow, ovShown, pendingPrep>>

\* It fails: a key's caller hides the window.
OverlayStopFails ==
  /\ ovStop.does # "none"
  /\ IF ovStop.does = "key" THEN ovLife' = "error" /\ ovShown' = FALSE
     ELSE UNCHANGED <<ovLife, ovShown>>
  /\ ovStop' = [does |-> "none", of |-> NobodyYet] /\ ovCancels' = FALSE
  /\ ovCandidate' = NoText /\ ovSuppress' = FALSE
  /\ ovUpset' = TRUE
  /\ OverlayRests
  /\ UNCHANGED <<ovActive, ovAsked, ovService, ovPartial, ovSays, ovStarted, ovWords, ovWindow,
                 pendingRec, pendingText, pendingPrep, toOverlay>>

\* dismiss-result
Dismisses ==
  /\ ovShown /\ ui.phase \in {"idle", "done", "error"}
  /\ ovShown' = FALSE
  /\ OverlayRests
  /\ UNCHANGED <<mainVars, ovWindow, pendingRec, pendingText, pendingPrep, toOverlay>>

-----------------------------------------------------------------------------
(* The events of the session's socket, in the service's order.             *)

Expected(at) == Room /\ ovActive # NobodyYet /\ ovService \in at

\* hotkey_started, with its empty text, or hotkey_status if the socket opened later.
HearsStarted(withText) ==
  /\ Expected({"new"}) /\ ovService' = "tells"
  /\ ovLife' = "recording"
  /\ LET rec == Recording("record", ovActive) IN
     IF withText THEN Tells(rec, Words(NoText, NoText, NoText, FALSE, ovActive))
     ELSE /\ pendingRec' = rec /\ toOverlay' = Sent(<<RecMsg(rec)>>)
          /\ UNCHANGED <<ovWindow, ovShown, pendingText, pendingPrep>>
  /\ OverlayRests
  /\ UNCHANGED <<ovActive, ovAsked, ovCandidate, ovPartial, ovSuppress, ovCancels, ovStop,
                 ovSays, ovStarted, ovWords, ovUpset>>

\* hotkey_loading
HearsLoading(active) ==
  /\ Expected({"new", "tells"}) /\ pendingPrep # active
  /\ pendingPrep' = active /\ toOverlay' = Sent(<<PrepMsg(active)>>)
  /\ OverlayRests /\ UNCHANGED <<mainVars, ovWindow, ovShown, pendingRec, pendingText>>

\* hotkey_draft_partial, hotkey_commit_final and final_text, with a text.
HearsText(kind, t) ==
  /\ Expected({"tells", "stops"})
  /\ IF kind = "final" THEN ovSays /\ t = FinalText(ovActive) /\ UNCHANGED ovWords
     ELSE /\ ovLife # "stopping" /\ ovWords < NWords
          /\ t = NextText(ovActive) /\ ovWords' = ovWords + 1
  /\ LET text == IF kind = "partial" THEN Words(t, ovCandidate, t, TRUE, ovActive)
                 ELSE Words(t, t, NoText, FALSE, ovActive)
     IN  /\ pendingPrep' = FALSE /\ pendingText' = text
         /\ toOverlay' = Sent(<<PrepMsg(FALSE), TextMsg(text)>>)
  /\ IF kind = "partial" THEN ovPartial' = t /\ UNCHANGED ovCandidate
     ELSE ovCandidate' = t /\ UNCHANGED ovPartial
  /\ OverlayRests
  /\ UNCHANGED <<ovLife, ovActive, ovAsked, ovService, ovSuppress, ovCancels, ovStop,
                 ovSays, ovStarted, ovUpset, ovWindow, ovShown, pendingRec>>

\* hotkey_stopping and hotkey_stop_ack: the session is stopped, by the stop under way or
\* by the start of another one.
HearsStopping ==
  /\ Expected({"new", "tells"}) /\ (ovStop.of = ovActive \/ ovAsked)
  /\ ovService' = "stops"
  /\ Tells(Recording("process", ovActive),
           Words(Candidate, ovCandidate, NoText, FALSE, ovActive))
  /\ ovLife' = "stopping" /\ ovPartial' = NoText
  /\ OverlayRests
  /\ UNCHANGED <<ovActive, ovAsked, ovCandidate, ovSuppress, ovCancels, ovStop, ovSays,
                 ovStarted, ovWords, ovUpset>>

\* Variant of ShowsCoach: whatever stop it was.
ShowsCoachAnyway(coach) == coach

\* The coach's result is shown in place of the text unless that was suppressed.
ShowsCoach(coach) == coach /\ ~ovSuppress

\* hotkey_stopped, with the result's text, and with a coach's result or without.
HearsStopped(coach, heard) ==
  LET t == Result(ovActive) IN
  /\ Expected({"stops"}) /\ ovService' = "over"
  /\ IF ovCancels
     THEN /\ pendingRec' = RestRec /\ Resets
          /\ toOverlay' = SentAnyway(<<ClearMsg>>, heard) \o
                          (IF ovWindow = "ready" THEN ResetMessages ELSE <<>>)
          /\ ovShown' = FALSE
     ELSE IF ShowsCoach(coach)
     THEN /\ toOverlay' = SentAnyway(<<CoachMsg(CoachText(ovActive))>>, heard)
          /\ ovShown' = TRUE
          /\ UNCHANGED <<pendingRec, pendingText, pendingPrep>>
     ELSE /\ pendingText' = Words(t, t, NoText, FALSE, ovActive)
          /\ pendingRec' = Recording("finish", ovActive)
          /\ toOverlay' = SentAnyway(<<ClearMsg>>, heard) \o
                          (IF ovWindow = "ready"
                           THEN <<TextMsg(pendingText'), RecMsg(pendingRec')>> ELSE <<>>)
          /\ UNCHANGED <<ovShown, pendingPrep>>
  /\ ovLife' = "idle" /\ ovActive' = NobodyYet
  /\ ovCandidate' = NoText /\ ovPartial' = NoText
  /\ ovSuppress' = FALSE /\ ovCancels' = FALSE
  /\ ovUpset' = (ovUpset \/ ovWindow = "loading")
  /\ OverlayRests /\ UNCHANGED <<ovAsked, ovStop, ovSays, ovStarted, ovWords, ovWindow>>

\* hotkey_error
HearsError ==
  /\ Expected({"new", "tells", "stops"}) /\ ovLife # "error"
  /\ pendingRec' = Rec("rest", ovActive, TRUE)
  /\ toOverlay' = Sent(<<RecMsg(pendingRec')>>)
  /\ ovLife' = "error" /\ ovUpset' = TRUE
  /\ OverlayRests
  /\ UNCHANGED <<ovActive, ovAsked, ovService, ovCandidate, ovPartial, ovSuppress, ovCancels,
                 ovStop, ovSays, ovStarted, ovWords, ovWindow, ovShown, pendingText,
                 pendingPrep>>

OverlayNext ==
  \/ Loads \/ Subscribes \/ Delivers \/ Ticks \/ Dismisses
  \/ \E heard, says \in BOOLEAN : OverlayStart(heard, says)
  \/ \E b \in BOOLEAN : OverlayStartAnswered(b) \/ HearsStarted(b)
                        \/ HearsLoading(b)
  \/ \E by \in {"key", "finish", "cancel"} : OverlayStop(by)
  \/ OverlayStopAnswered \/ OverlayStopFails
  \/ \E kind \in {"partial", "commit", "final"}, t \in {NextText(ovActive), FinalText(ovActive)} :
       HearsText(kind, t)
  \/ HearsStopping \/ HearsError
  \/ \E coach, heard \in BOOLEAN : HearsStopped(coach, heard)

OverlaySpec == OverlayInit /\ [][OverlayNext]_overlayVars

-----------------------------------------------------------------------------
(* Properties                                                              *)

Texts(u) == {u.committed, u.partial, u.final} \ {NoText}

\* All has been told and rendered.
OverlaySettled == toOverlay = <<>> /\ ovWindow = "ready" /\ subscribed = ui.committed

\* The variables have their types; the timer does not run when nothing is recorded or the
\* result is shown.
OverlayTypeOK ==
  /\ ovLife \in {"idle", "starting", "recording", "stopping", "error"}
  /\ ovActive \in 0 .. NOverlays /\ ovService \in {"none", "new", "tells", "stops", "over"}
  /\ ovSuppress \in BOOLEAN /\ ovCancels \in BOOLEAN /\ ovAsked \in BOOLEAN
  /\ ovShown => ovWindow # "none"
  /\ pendingPrep \in BOOLEAN
  /\ ui.phase \in {"idle", "listening", "transcribing", "finalizing", "done", "error"}
  /\ ui.phase \in {"idle", "done"} /\ ~ovUpset => ~ui.ticks

\* What the window shows agrees with what it was told, however messages, renderings and
\* replays interleave: a recording runs with its timer, the end of one is being finished, a
\* finished one shows its result.  It is not so after an error, a start before the last stop
\* was answered or the component mounted, or a recording over before the window had loaded.
ShowsWhatItIsTold ==
  OverlaySettled /\ ovShown /\ ~ovUpset =>
    /\ pendingRec.does = "record" => ui.phase \in {"listening", "transcribing"} /\ ui.ticks
    /\ pendingRec.does = "process" =>
         ui.phase = IF latest.coach = NoText THEN "finalizing" ELSE "done"
    /\ pendingRec.does = "finish" =>
         /\ ui.phase = "done"
         /\ LET result == IF latest.coach # NoText THEN latest.coach ELSE pendingText.text
            IN  result # NoText =>
                  result = IF ui.final # NoText THEN ui.final ELSE ui.committed

\* Once the window has been told of a recording it shows no text of an earlier one.  (Until
\* then it may: a rendering between the messages of a start replays the last text.)
ShowsNoOldText ==
  OverlaySettled /\ ovShown /\ ~ovUpset /\ pendingRec.of # NobodyYet =>
    \A t \in Texts(ui) : t[1] = ovStarted

\* The window of a cancelled recording, or of one stopped by key, stays hidden: a late
\* result does not bring it back.
HiddenStaysHidden == ovStop.does \in {"key", "cancel"} /\ ~ovUpset => ~ovShown

\* "keeps one timer per session and freezes it at the stop result"
\* (FloatingWindow.test.tsx:327): the time of a session is not taken back.
\* The code does not keep this: README, section 6.
TimerIsKept ==
  [][ui.elapsed /\ ui.of # NobodyYet /\ ui'.of = ui.of => ui'.elapsed]_overlayVars

\* The window shows what it was told, of the recording it was told of, or is hidden.
OverlayInv == OverlayTypeOK /\ ShowsWhatItIsTold /\ ShowsNoOldText /\ HiddenStaysHidden
=============================================================================
