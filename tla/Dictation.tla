----------------------------- MODULE Dictation -----------------------------
(***************************************************************************)
(* What push-to-talk dictation promises its callers, without queues, locks *)
(* or threads: a session is recorded, then stopped, then answered once, at *)
(* most one session records at a time, a cancelled session is answered     *)
(* with no text, and a stop request is told either that nothing is being   *)
(* recorded or the one answer of a session that has been answered.         *)
(***************************************************************************)
EXTENDS Naturals

CONSTANTS Sessions,   \* one per start request
          Stops,      \* the stop requests
          Chunks,     \* the pieces of speech a session can hold
          None        \* absence of a session or of an answer

VARIABLES phase,      \* where each session is in its life
          cancelled,  \* the sessions that were stopped by a cancel
          answer,     \* the text each session was answered with
          reply       \* what each stop request was told

dvars == <<phase, cancelled, answer, reply>>

Phases == {"idle", "failed", "recording", "stopping", "answered"}
Reply == [sid : Sessions \cup {None}, text : SUBSET Chunks]

Recording == {s \in Sessions : phase[s] = "recording"}

Init ==
  /\ phase = [s \in Sessions |-> "idle"]
  /\ cancelled = {}
  /\ answer = [s \in Sessions |-> None]
  /\ reply = [p \in Stops |-> None]

Begin(s) ==
  /\ phase[s] = "idle"
  /\ Recording = {}
  /\ phase' = [phase EXCEPT ![s] = "recording"]
  /\ UNCHANGED <<cancelled, answer, reply>>

Fail(s) ==
  /\ phase[s] = "idle"
  /\ phase' = [phase EXCEPT ![s] = "failed"]
  /\ UNCHANGED <<cancelled, answer, reply>>

End(s) ==
  /\ phase[s] = "recording"
  /\ phase' = [phase EXCEPT ![s] = "stopping"]
  /\ cancelled' \in {cancelled, cancelled \cup {s}}
  /\ UNCHANGED <<answer, reply>>

Deliver(s) ==
  /\ phase[s] = "stopping"
  /\ phase' = [phase EXCEPT ![s] = "answered"]
  /\ \E text \in SUBSET Chunks :
       /\ s \in cancelled => text = {}
       /\ answer' = [answer EXCEPT ![s] = text]
  /\ UNCHANGED <<cancelled, reply>>

\* A stop request is told that nothing is being recorded.
ReplyNothing(p) ==
  /\ reply[p] = None
  /\ Recording = {}
  /\ reply' = [reply EXCEPT ![p] = [sid |-> None, text |-> {}]]
  /\ UNCHANGED <<phase, cancelled, answer>>

\* A stop request is told the answer of a session.
ReplyAnswer(p, s) ==
  /\ reply[p] = None
  /\ phase[s] = "answered"
  /\ reply' = [reply EXCEPT ![p] = [sid |-> s, text |-> answer[s]]]
  /\ UNCHANGED <<phase, cancelled, answer>>

Next ==
  \/ \E s \in Sessions : Begin(s) \/ Fail(s) \/ End(s) \/ Deliver(s)
  \/ \E p \in Stops : ReplyNothing(p) \/ \E s \in Sessions : ReplyAnswer(p, s)

Spec == Init /\ [][Next]_dvars
=============================================================================
