---------------------------- MODULE LiveUpdates ----------------------------
(***************************************************************************)
(* How the renderer follows the backend's session: the event stream of     *)
(* app/api/server.py (events), the hook that subscribes to it              *)
(* (frontend/src/hooks/useEventSource.ts), and App.tsx, which polls the    *)
(* snapshot when there is no stream and is told when the backend exits.    *)
(*                                                                         *)
(* A handler of the renderer is one action together with the renders and   *)
(* effects it causes, which come before any timer; a request to the        *)
(* backend is two, the backend's reading and the handling of the answer.   *)
(* A snapshot is the pair of the backend process and its revision; a       *)
(* session runs at revision 1.  Of the events only "state", which carries  *)
(* a whole snapshot, is followed.                                          *)
(***************************************************************************)
EXTENDS Naturals, Sequences

CONSTANTS MaxRevision,    \* bound: changes of one backend process
          MaxBoots,       \* bound: backend processes
          MaxGlitches,    \* bound: streams that break with the backend up
          MaxTries,       \* maxReconnectAttempts
          QueueSize       \* SSE_EVENT_QUEUE_MAXSIZE

ASSUME UpdatesAssumption ==
  /\ MaxRevision \in Nat \ {0} /\ MaxBoots \in Nat \ {0} /\ MaxGlitches \in Nat \ {0}
  /\ MaxTries \in Nat \ {0} /\ QueueSize \in Nat \ {0}

VARIABLES
  up, boot, rev,      \* the backend: is it up, which process, its revision
  queue,              \* events on the way to the client
  glitches,           \* streams broken so far
  es,                 \* the EventSource
  sseStatus, tries,   \* the hook's status and reconnectAttemptsRef
  retryTimer,         \* reconnectTimeoutRef
  hookPolls,          \* pollIntervalRef, or a poll about to be made
  lastPolled,         \* lastPolledRevisionRef
  view,               \* backendReady; is a page shown that follows the session?; the snapshot
  appTimer,           \* pollTimerRef
  answer,             \* the answers on the way to the hook's poll and to App's
  exitNote,           \* the main process's message that the backend exited is on its way
  gap                 \* a change since the last whole view has not reached the renderer

backendVars == <<up, boot, rev>>
streamVars == <<queue, es, gap>>
hookVars == <<sseStatus, tries, retryTimer, hookPolls, lastPolled>>
updateVars == <<backendVars, glitches, streamVars, hookVars, view, appTimer, answer, exitNote>>

Snapshots == (1 .. MaxBoots) \X (0 .. MaxRevision)
NoAnswer == <<0, 0>>
Now == <<boot, rev>>

SessionRuns(s) == s[2] = 1

\* shouldSubscribeToSessionEvents
Follows(v) == v.ready /\ (v.page \/ SessionRuns(v.shown))

UpdatesInit ==
  /\ up = TRUE /\ boot = 1 /\ rev = 0
  /\ queue = <<>> /\ gap = FALSE
  /\ glitches = 0
  /\ es = "starting" /\ sseStatus = "idle" /\ tries = 0
  /\ retryTimer = FALSE /\ hookPolls = FALSE /\ lastPolled = MaxRevision + 1
  /\ view = [ready |-> TRUE, page |-> TRUE, shown |-> Now]
  /\ appTimer = TRUE
  /\ answer = [hook |-> NoAnswer, app |-> NoAnswer]
  /\ exitNote = FALSE

-----------------------------------------------------------------------------
(* Renders and effects *)

\* App's effect on the hook's status and the session's: the timer of before is cleared, and
\* in polling mode a new one is set.
StatusBecomes(new, turns, timer) ==
  /\ sseStatus' = new
  /\ appTimer' = IF new = sseStatus /\ ~turns THEN timer ELSE new = "polling"

\* The hook's cleanup closes the EventSource and clears its timers.  The events left on the
\* way to it are lost.
CleansUp(next, left, missed) ==
  /\ es' = next
  /\ queue' = <<>> /\ gap' = (missed \/ left # <<>>)
  /\ retryTimer' = FALSE /\ hookPolls' = FALSE

\* A polled snapshot is older than the backend's, or newer than events still to arrive.
Astray(s) == s # Now \/ queue # <<>>

\* Variant of Renders: both cleanups run at every rendering, and take the timers with them.
RendersTimeless(v, timer, left, missed, polls) ==
  /\ view' = v /\ queue' = left /\ gap' = missed /\ hookPolls' = FALSE
  /\ StatusBecomes(sseStatus, FALSE, FALSE)
  /\ UNCHANGED <<es, tries, retryTimer>>

\* A handler has left the view, App's timer, events on their way, changes missed and the
\* hook's polling like this.  The hook's effect runs when the subscription begins or ends, and
\* when the session begins or ends to run, for the poll interval then changes.
Renders(v, timer, left, missed, polls) ==
  LET turns == SessionRuns(v.shown) # SessionRuns(view.shown) IN
  /\ view' = v
  /\ IF Follows(v) # Follows(view) \/ (Follows(v) /\ turns)
     THEN /\ tries' = 0
          /\ CleansUp(IF Follows(v) THEN "starting" ELSE "none", left, missed)
          /\ StatusBecomes(IF Follows(v) THEN sseStatus ELSE "idle", turns, timer)
     ELSE /\ queue' = left /\ gap' = missed /\ hookPolls' = polls
          /\ StatusBecomes(sseStatus, turns, timer)
          /\ UNCHANGED <<es, tries, retryTimer>>

-----------------------------------------------------------------------------
(* The backend and its event stream *)

\* Variant of Publishes: the queue has no limit.
PublishesAll ==
  /\ up /\ rev < MaxRevision
  /\ rev' = rev + 1
  /\ IF es = "open"
     THEN queue' = Append(queue, <<boot, rev'>>) /\ UNCHANGED gap
     ELSE gap' = TRUE /\ UNCHANGED queue
  /\ UNCHANGED <<up, boot, glitches, es, hookVars, view, appTimer, answer, exitNote>>

\* Variant of Publishes: the snapshot is taken before the change.
PublishesBefore ==
  /\ up /\ rev < MaxRevision
  /\ rev' = rev + 1
  /\ IF es = "open" /\ Len(queue) < QueueSize
     THEN queue' = Append(queue, Now) /\ UNCHANGED gap
     ELSE gap' = TRUE /\ UNCHANGED queue
  /\ UNCHANGED <<up, boot, glitches, es, hookVars, view, appTimer, answer, exitNote>>

\* on_event: the event is queued, or dropped if the queue is full.
Publishes ==
  /\ up /\ rev < MaxRevision
  /\ rev' = rev + 1
  /\ IF es = "open" /\ Len(queue) < QueueSize
     THEN queue' = Append(queue, <<boot, rev'>>) /\ UNCHANGED gap
     ELSE gap' = TRUE /\ UNCHANGED queue
  /\ UNCHANGED <<up, boot, glitches, es, hookVars, view, appTimer, answer, exitNote>>

BackendExits ==
  /\ up
  /\ up' = FALSE
  /\ exitNote' = TRUE
  /\ UNCHANGED <<boot, rev, glitches, streamVars, hookVars, view, appTimer, answer>>

\* The backend is started again, with revisions of its own, when its connections are long
\* gone.
BackendStarts ==
  /\ ~up /\ boot < MaxBoots /\ es # "open"
  /\ up' = TRUE
  /\ boot' = boot + 1
  /\ rev' = 0
  /\ gap' = TRUE
  /\ UNCHANGED <<glitches, queue, es, hookVars, view, appTimer, answer, exitNote>>

-----------------------------------------------------------------------------
(* useEventSource *)

\* connect(), by the first timer or that of a retry: neither is set once the attempts are
\* used up.
Connects ==
  /\ es = "starting" \/ retryTimer
  /\ es' = "opening"
  /\ retryTimer' = FALSE
  /\ StatusBecomes("reconnecting", FALSE, appTimer)
  /\ UNCHANGED <<backendVars, glitches, queue, gap, tries, hookPolls, lastPolled, view, answer,
                 exitNote>>

\* onopen.  Nothing asks for what was missed.
Opens ==
  /\ es = "opening" /\ up
  /\ es' = "open"
  /\ tries' = 0
  /\ hookPolls' = FALSE
  /\ StatusBecomes("connected", FALSE, appTimer)
  /\ UNCHANGED <<backendVars, glitches, queue, gap, retryTimer, lastPolled, view, answer,
                 exitNote>>

\* onmessage, and handleEvent of App.
Receives ==
  /\ es = "open" /\ queue # <<>>
  /\ Renders([view EXCEPT !.shown = Head(queue)], appTimer, Tail(queue),
             gap /\ Head(queue) # Now, hookPolls)
  /\ UNCHANGED <<backendVars, glitches, lastPolled, answer, exitNote>>

StreamEnds ==
  /\ es \in {"opening", "open"}
  /\ IF up THEN glitches < MaxGlitches /\ glitches' = glitches + 1 ELSE UNCHANGED glitches
  /\ es' = "none"
  /\ queue' = <<>> /\ gap' = (gap \/ queue # <<>>)
  /\ tries' = tries + 1
  /\ UNCHANGED <<backendVars, lastPolled, view, answer, exitNote>>

\* Variant of Breaks: nothing is tried after the last attempt.
BreaksAndRests ==
  /\ StreamEnds
  /\ retryTimer' = (tries' < MaxTries)
  /\ UNCHANGED <<hookPolls, sseStatus, appTimer>>

\* onerror: a retry after a delay, or polling after the last attempt.
Breaks ==
  /\ StreamEnds
  /\ IF tries' >= MaxTries
     THEN hookPolls' = TRUE /\ StatusBecomes("polling", FALSE, appTimer) /\ UNCHANGED retryTimer
     ELSE retryTimer' = TRUE /\ UNCHANGED <<hookPolls, sseStatus, appTimer>>

\* pollOnce, which waits for the answer of the poll before.
HookAsks ==
  /\ hookPolls /\ up /\ answer.hook = NoAnswer
  /\ hookPolls' = FALSE
  /\ answer' = [answer EXCEPT !.hook = Now]
  /\ UNCHANGED <<backendVars, glitches, streamVars, sseStatus, tries, retryTimer, lastPolled,
                 view, appTimer, exitNote>>

\* A revision it has polled before is not news.  The answer is used even if the hook has
\* been closed meanwhile, and a poll follows even if it has been opened again.
HookAnswers ==
  /\ answer.hook # NoAnswer
  /\ answer' = [answer EXCEPT !.hook = NoAnswer]
  /\ lastPolled' = answer.hook[2]
  /\ IF answer.hook[2] = lastPolled
     THEN Renders(view, appTimer, queue, gap, Follows(view))
     ELSE Renders([view EXCEPT !.shown = answer.hook], appTimer, queue,
                  Astray(answer.hook), Follows(view))
  /\ UNCHANGED <<backendVars, glitches, exitNote>>

-----------------------------------------------------------------------------
(* App *)

\* loadSnapshot(true), which does nothing if the stream is connected.
AppAsks ==
  /\ appTimer /\ answer.app = NoAnswer
  /\ IF sseStatus = "connected" \/ up
     THEN /\ appTimer' = FALSE
          /\ answer' = IF sseStatus = "connected" THEN answer ELSE [answer EXCEPT !.app = Now]
          /\ UNCHANGED <<streamVars, sseStatus, tries, retryTimer, hookPolls, view>>
     ELSE /\ Renders([view EXCEPT !.ready = FALSE], TRUE, queue, gap, hookPolls)
          /\ UNCHANGED answer
  /\ UNCHANGED <<backendVars, glitches, lastPolled, exitNote>>

\* The answer is used whatever has been shown or closed meanwhile.
AppAnswers ==
  /\ answer.app # NoAnswer
  /\ answer' = [answer EXCEPT !.app = NoAnswer]
  /\ IF answer.app[2] = view.shown[2]
     THEN Renders([view EXCEPT !.ready = TRUE], TRUE, queue, gap, hookPolls)
     ELSE Renders([view EXCEPT !.ready = TRUE, !.shown = answer.app], TRUE, queue,
                  Astray(answer.app), hookPolls)
  /\ UNCHANGED <<backendVars, glitches, lastPolled, exitNote>>

\* onBackendExit: disconnect(), and a poll in a second.
LearnsOfExit ==
  /\ exitNote
  /\ exitNote' = FALSE
  /\ IF Follows(view) THEN Renders([view EXCEPT !.ready = FALSE], TRUE, queue, gap, FALSE)
     ELSE /\ CleansUp("none", queue, gap)
          /\ view' = [view EXCEPT !.ready = FALSE]
          /\ appTimer' = TRUE
          /\ UNCHANGED <<sseStatus, tries>>
  /\ UNCHANGED <<backendVars, glitches, lastPolled, answer>>

TurnsPage ==
  /\ Renders([view EXCEPT !.page = ~@], appTimer, queue, gap, hookPolls)
  /\ UNCHANGED <<backendVars, glitches, lastPolled, answer, exitNote>>

-----------------------------------------------------------------------------
UpdatesNext ==
  \/ Publishes \/ BackendExits \/ BackendStarts
  \/ Connects \/ Opens \/ Receives \/ Breaks \/ HookAsks \/ HookAnswers
  \/ AppAsks \/ AppAnswers \/ LearnsOfExit \/ TurnsPage

UpdatesSpec == UpdatesInit /\ [][UpdatesNext]_updateVars

\* Timers fire, messages and answers arrive, and the main process starts the backend again.
\* The stream need not break, and the user need not do anything.
UpdatesFairness ==
  /\ WF_updateVars(BackendStarts)
  /\ WF_updateVars(Connects) /\ WF_updateVars(Opens) /\ WF_updateVars(Receives)
  /\ WF_updateVars(~up /\ Breaks)
  /\ WF_updateVars(HookAsks) /\ WF_updateVars(HookAnswers)
  /\ WF_updateVars(AppAsks) /\ WF_updateVars(AppAnswers)
  /\ WF_updateVars(LearnsOfExit)

UpdatesFairSpec == UpdatesSpec /\ UpdatesFairness

-----------------------------------------------------------------------------
(* Properties *)

\* Types of the backend's and the renderer's state.
UpdatesTypeOK ==
  /\ boot \in 1 .. MaxBoots /\ rev \in 0 .. MaxRevision
  /\ {up, retryTimer, hookPolls, appTimer, exitNote, gap} \subseteq BOOLEAN
  /\ queue \in Seq(Snapshots) /\ Len(queue) <= QueueSize
  /\ glitches \in 0 .. MaxGlitches
  /\ es \in {"none", "starting", "opening", "open"}
  /\ sseStatus \in {"idle", "reconnecting", "connected", "polling"}
  /\ tries \in 0 .. MaxTries
  /\ lastPolled \in 0 .. MaxRevision + 1
  /\ view \in [ready : BOOLEAN, page : BOOLEAN, shown : Snapshots]
  /\ answer \in [{"hook", "app"} -> Snapshots \cup {NoAnswer}]

\* While the session is to be followed, the hook has a stream, waits to try again, or
\* polls: it never comes to rest, whatever breaks, exits or is turned off meanwhile.
FollowingIsTrying ==
  Follows(view) => es # "none" \/ retryTimer \/ hookPolls \/ answer.hook # NoAnswer

\* Unless a change was missed - by a full queue, between two streams, or by a poll that
\* events overtook or that overtook events - the renderer shows the backend's snapshot
\* once the events on their way have arrived.
FreshOrGap ==
  up /\ ~gap => IF queue = <<>> THEN view.shown = Now ELSE queue[Len(queue)] = Now

\* When the hook has given up on the stream, polling brings the renderer to what the backend
\* has come to, unless its revision is one the hook polled from the process before it.
PollingCatchesUp ==
  []<>(view.shown = Now \/ sseStatus # "polling" \/ ~up \/ rev = lastPolled)

\* App says "Backend exited. Reconnecting...", and does so when the backend is up again.
\* The code does not keep this: README, section 6.
ReconnectsAfterExit == (~view.ready) ~> (view.ready \/ ~up)

\* The renderer shows what the backend has come to, or knows how it will learn of it.
UpdatesInv == UpdatesTypeOK /\ FollowingIsTrying /\ FreshOrGap
=============================================================================
