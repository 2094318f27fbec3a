------------------------------ MODULE History -------------------------------
(***************************************************************************)
(* The history database and the services on it: storage/history_db.py,     *)
(* transcript_history_service.py and the dictionary, snippet and style     *)
(* services.  All share one SQLite connection.  Python's sqlite3 opens a   *)
(* transaction by itself before an INSERT, UPDATE or DELETE and leaves it  *)
(* open until somebody commits; only HistoryDatabase.transaction commits,  *)
(* only an ingest uses it, and it begins with a BEGIN of its own, which    *)
(* fails while a transaction is open.  The lock is held for a statement,   *)
(* or for the whole of a transaction: a statement is one action, and so is *)
(* an ingest.                                                              *)
(*                                                                         *)
(* A text is the ingest it comes from and what made it; of a dictionary    *)
(* entry, a snippet or a style profile two fields are kept, which a        *)
(* partial update can set one at a time.                                   *)
(***************************************************************************)
EXTENDS Naturals, Sequences, SequencesExt

CONSTANTS HistoryIds,     \* ids of sessions
          WordIds,        \* ids of dictionary entries, snippets and style profiles
          HistoryThreads, \* threads of the server that serve requests
          RetryWorkers,   \* threads of _retry_executor (two in the code)
          StylesAreSeeded, \* a StyleService is made on the connection, as the server does
          NIngests, NHistoryCalls, NRestarts \* bounds: ingests, requests and restarts

ASSUME HistoryAssumption ==
  /\ StylesAreSeeded \in BOOLEAN
  /\ NIngests \in Nat /\ NHistoryCalls \in Nat /\ NRestarts \in Nat

NoRow == [none |-> "no row"]

\* Variant of Text: what made it is not passed on.
TextOfUnknown(n, made) == [of |-> n, by |-> "unknown"]

Text(n, made) == [of |-> n, by |-> made]

VARIABLES
  service,    \* "up"; "closing", the retry executor is shut down; "down", closed
  inTx,       \* the connection is in a transaction
  rows,       \* transcript_sessions with their revisions, as the connection sees them
  words,      \* dictionary_entries, snippets, style_profiles, likewise
  committed,  \* the two as last committed
  onDisk,     \* the two as a crash leaves them: what is only in the WAL is deleted at start
  serving,    \* what each thread is at
  retryQueue,    \* the executor's queue
  retrying,   \* what each worker is at
  ingested, calls, restarts, \* counters, for the bounds
  stopped,    \* ids whose transcript the server was to keep
  wanted,     \* the fields of each word that the last accepted requests asked for
  overlapped     \* ids and words on which two operations overlapped

historyVars == <<service, inTx, rows, words, committed, onDisk, serving, retryQueue, retrying,
                 ingested, calls, restarts, stopped, wanted, overlapped>>

Idle == [at |-> "idle", on |-> "none"]
NoData == [rows |-> [i \in HistoryIds |-> NoRow], words |-> [w \in WordIds |-> NoRow]]

HistoryInit ==
  /\ service = "up"
  /\ inTx = StylesAreSeeded
  /\ rows = NoData.rows /\ words = NoData.words
  /\ committed = NoData /\ onDisk = NoData
  /\ serving = [t \in HistoryThreads |-> Idle]
  /\ retryQueue = <<>>
  /\ retrying = [k \in RetryWorkers |-> Idle]
  /\ ingested = 0 /\ calls = 0 /\ restarts = 0
  /\ stopped = {}
  /\ wanted = NoData.words
  /\ overlapped = {}

IsAt(t, place) == serving[t].at = place
Goes(t, to) == serving' = [serving EXCEPT ![t] = to]
Works(k, to) == retrying' = [retrying EXCEPT ![k] = to]
Busy(x) == \/ \E t \in HistoryThreads : serving[t].on = x
           \/ \E k \in RetryWorkers : retrying[k].on = x
Begins(x) == overlapped' = IF Busy(x) THEN overlapped \cup {x} ELSE overlapped

\* A statement that writes: it opens a transaction when none is open.
Writes == service # "down" /\ inTx' = TRUE

Updated(i, fields) ==
  rows' = [rows EXCEPT ![i] = [field \in DOMAIN @ |-> IF field \in DOMAIN fields
                                                      THEN fields[field] ELSE @[field]]]

\* Variant of Inserted: revision_index is not unique.
InsertedAnywhere(revs, index, text) == Append(revs, text)

\* The insert of a revision at an index counted before: an index taken since is refused.
Inserted(revs, index, text) == IF Len(revs) = index THEN Append(revs, text) ELSE revs

\* _sync_revisions reads what is there before it inserts.
Counted(i, text) == [at |-> "insert", on |-> i, text |-> text, index |-> Len(rows[i].revs),
                     known |-> Contains(rows[i].revs, text)]
\* And inserts unless the text was known.
Refused(c) == ~c.known /\ Len(rows[c.on].revs) # c.index
Syncs(c) == /\ service # "down"
            /\ IF c.known THEN UNCHANGED <<inTx, rows>>
               ELSE /\ inTx' = TRUE
                    /\ Updated(c.on, [revs |-> Inserted(rows[c.on].revs, c.index, c.text)])

-----------------------------------------------------------------------------
(* The end of a session: hotkey_stop and the stop of a live session.       *)

\* INSERT ... ON CONFLICT(session_id) DO UPDATE, and the revisions: the count of attempts
\* and the time of deletion stay.
Upserted(row, n) ==
  IF row = NoRow
  THEN [raw |-> n, active |-> Text(n, "coach"), retry |-> "idle", tries |-> 0,
        deleted |-> FALSE, revs |-> <<Text(n, "coach")>>]
  ELSE [row EXCEPT !.raw = n, !.active = Text(n, "coach"), !.retry = "idle",
                   !.revs = Append(@, Text(n, "coach"))]

\* The BEGIN fails in a transaction, and nothing is written.  Otherwise the ingest is
\* committed, into the WAL, and a checkpoint may bring it into the database file.
Ingest(i) ==
  /\ service # "down" /\ ingested < NIngests
  /\ ingested' = ingested + 1
  /\ stopped' = stopped \cup {i}
  /\ Begins(i)
  /\ IF inTx THEN UNCHANGED <<rows, committed, onDisk>>
     ELSE /\ rows' = [rows EXCEPT ![i] = Upserted(@, ingested + 1)]
          /\ committed' = [rows |-> rows', words |-> words]
          /\ onDisk' \in {onDisk, committed'}
  /\ UNCHANGED <<service, inTx, words, serving, retryQueue, retrying, calls, restarts, wanted>>

-----------------------------------------------------------------------------
(* Undo and retry of a session                                             *)

HistoryCall(t) ==
  /\ service # "down" /\ IsAt(t, "idle") /\ calls < NHistoryCalls
  /\ calls' = calls + 1

AsksUndo(t, i) ==
  /\ HistoryCall(t) /\ rows[i] # NoRow
  /\ Begins(i)
  /\ Goes(t, [at |-> "undo", on |-> i, text |-> Text(rows[i].raw, "pipeline")])
  /\ UNCHANGED <<service, inTx, rows, words, committed, onDisk, retryQueue, retrying, ingested,
                 restarts, stopped, wanted>>

UndoSets(t) ==
  /\ IsAt(t, "undo") /\ Writes
  /\ Updated(serving[t].on, [active |-> serving[t].text])
  /\ Goes(t, [serving[t] EXCEPT !.at = "count"])
  /\ UNCHANGED <<service, words, committed, onDisk, retryQueue, retrying, ingested, calls,
                 restarts, stopped, wanted, overlapped>>

\* Variant of UndoCounts: undo_ai_edit does not bring the revisions up to date.
UndoEnds(t) ==
  /\ IsAt(t, "count") /\ service # "down"
  /\ Goes(t, Idle)
  /\ UNCHANGED <<service, inTx, rows, words, committed, onDisk, retryQueue, retrying, ingested,
                 calls, restarts, stopped, wanted, overlapped>>

UndoCounts(t) ==
  /\ IsAt(t, "count") /\ service # "down"
  /\ Goes(t, Counted(serving[t].on, serving[t].text))
  /\ UNCHANGED <<service, inTx, rows, words, committed, onDisk, retryQueue, retrying, ingested,
                 calls, restarts, stopped, wanted, overlapped>>

\* A refused insert raises, and the request fails with the text already changed.
UndoSyncs(t) ==
  /\ IsAt(t, "insert") /\ Syncs(serving[t])
  /\ Goes(t, Idle)
  /\ UNCHANGED <<service, words, committed, onDisk, retryQueue, retrying, ingested, calls,
                 restarts, stopped, wanted, overlapped>>

AsksRetry(t, i) ==
  /\ HistoryCall(t) /\ rows[i] # NoRow /\ Writes
  /\ Begins(i)
  /\ Updated(i, [retry |-> "queued"])
  /\ Goes(t, [at |-> "submit", on |-> i])
  /\ UNCHANGED <<service, words, committed, onDisk, retryQueue, retrying, ingested, restarts,
                 stopped, wanted>>

\* submit raises once the executor is shut down.
RetrySubmits(t) ==
  /\ IsAt(t, "submit")
  /\ retryQueue' = IF service = "up" THEN Append(retryQueue, serving[t].on) ELSE retryQueue
  /\ Goes(t, Idle)
  /\ UNCHANGED <<service, inTx, rows, words, committed, onDisk, retrying, ingested, calls,
                 restarts, stopped, wanted, overlapped>>

RetryRuns(k) ==
  /\ retrying[k].at = "idle" /\ retryQueue # <<>> /\ Writes
  /\ Begins(Head(retryQueue))
  /\ retryQueue' = Tail(retryQueue)
  /\ Updated(Head(retryQueue), [retry |-> "running"])
  /\ Works(k, [at |-> "read", on |-> Head(retryQueue)])
  /\ UNCHANGED <<service, words, committed, onDisk, serving, ingested, calls, restarts,
                 stopped, wanted>>

\* The session is read, and dictionary, snippets and style are applied to its text.
RetryReads(k) ==
  /\ retrying[k].at = "read" /\ service # "down"
  /\ Works(k, [at |-> "apply", on |-> retrying[k].on,
               text |-> Text(rows[retrying[k].on].raw, "retry")])
  /\ UNCHANGED <<service, inTx, rows, words, committed, onDisk, serving, retryQueue, ingested,
                 calls, restarts, stopped, wanted, overlapped>>

RetrySets(k) ==
  LET i == retrying[k].on IN
  /\ retrying[k].at = "apply" /\ Writes
  /\ Updated(i, [active |-> retrying[k].text, retry |-> "completed",
                 tries |-> rows[i].tries + 1])
  /\ Works(k, [retrying[k] EXCEPT !.at = "count"])
  /\ UNCHANGED <<service, words, committed, onDisk, serving, retryQueue, ingested, calls,
                 restarts, stopped, wanted, overlapped>>

RetryCounts(k) ==
  /\ retrying[k].at = "count" /\ service # "down"
  /\ Works(k, Counted(retrying[k].on, retrying[k].text))
  /\ UNCHANGED <<service, inTx, rows, words, committed, onDisk, serving, retryQueue, ingested,
                 calls, restarts, stopped, wanted, overlapped>>

\* A refused insert raises, as in an undo.
RetrySyncs(k) ==
  /\ retrying[k].at = "insert" /\ Syncs(retrying[k])
  /\ Works(k, IF Refused(retrying[k]) THEN [at |-> "failed", on |-> retrying[k].on] ELSE Idle)
  /\ UNCHANGED <<service, words, committed, onDisk, serving, retryQueue, ingested, calls,
                 restarts, stopped, wanted, overlapped>>

\* A replacement that is no valid template of a regular expression makes apply_to_text raise.
RetryRaises(k) ==
  /\ retrying[k].at = "apply"
  /\ Works(k, [at |-> "failed", on |-> retrying[k].on])
  /\ UNCHANGED <<service, inTx, rows, words, committed, onDisk, serving, retryQueue, ingested,
                 calls, restarts, stopped, wanted, overlapped>>

\* Variant of RetryFails: what a job raises is left to its future.
RetryForgets(k) ==
  /\ retrying[k].at = "failed" /\ service # "down"
  /\ Works(k, Idle)
  /\ UNCHANGED <<service, inTx, rows, words, committed, onDisk, serving, retryQueue, ingested,
                 calls, restarts, stopped, wanted, overlapped>>

RetryFails(k) ==
  LET i == retrying[k].on IN
  /\ retrying[k].at = "failed" /\ Writes
  /\ Updated(i, [retry |-> "failed", tries |-> rows[i].tries + 1])
  /\ Works(k, Idle)
  /\ UNCHANGED <<service, words, committed, onDisk, serving, retryQueue, ingested, calls,
                 restarts, stopped, wanted, overlapped>>

HistoryDelete(t, i) ==
  /\ HistoryCall(t) /\ rows[i] # NoRow /\ Writes
  /\ Updated(i, [deleted |-> TRUE])
  /\ UNCHANGED <<service, words, committed, onDisk, serving, retryQueue, retrying, ingested,
                 restarts, stopped, wanted, overlapped>>

-----------------------------------------------------------------------------
(* Dictionary entries, snippets and style profiles                         *)

\* A phrase that is there already is refused by its unique index; the transaction that was
\* opened for the statement stays open.
WordCreate(t, w) ==
  /\ HistoryCall(t) /\ Writes
  /\ IF words[w] # NoRow THEN UNCHANGED <<words, wanted>>
     ELSE /\ words' = [words EXCEPT ![w] = [text |-> 0, on |-> TRUE]]
          /\ wanted' = [wanted EXCEPT ![w] = [text |-> 0, on |-> TRUE]]
  /\ UNCHANGED <<service, rows, committed, onDisk, serving, retryQueue, retrying, ingested,
                 restarts, stopped, overlapped>>

\* Variant of Fields: a field that is not given gets its default.
FieldsAfresh(old, field, value) == [([text |-> 0, on |-> TRUE]) EXCEPT ![field] = value]

\* The row that update_entry writes: the row it has read, with the field that is given.
Fields(old, field, value) == [old EXCEPT ![field] = value]

WordReads(t, w, field, value) ==
  /\ HistoryCall(t) /\ words[w] # NoRow
  /\ Begins(w)
  /\ Goes(t, [at |-> "update", on |-> w, row |-> Fields(words[w], field, value),
              field |-> field])
  /\ UNCHANGED <<service, inTx, rows, words, committed, onDisk, retryQueue, retrying, ingested,
                 restarts, stopped, wanted>>

\* All fields are written.  A row deleted meanwhile is not found, and the request fails.
WordUpdates(t) ==
  LET c == serving[t] IN
  /\ IsAt(t, "update") /\ Writes
  /\ IF words[c.on] = NoRow THEN UNCHANGED <<words, wanted>>
     ELSE /\ words' = [words EXCEPT ![c.on] = c.row]
          /\ wanted' = [wanted EXCEPT ![c.on] = [@ EXCEPT ![c.field] = c.row[c.field]]]
  /\ Goes(t, Idle)
  /\ UNCHANGED <<service, rows, committed, onDisk, retryQueue, retrying, ingested, calls,
                 restarts, stopped, overlapped>>

WordDelete(t, w) ==
  /\ HistoryCall(t) /\ Writes
  /\ words' = [words EXCEPT ![w] = NoRow]
  /\ wanted' = [wanted EXCEPT ![w] = NoRow]
  /\ Begins(w)
  /\ UNCHANGED <<service, rows, committed, onDisk, serving, retryQueue, retrying, ingested,
                 restarts, stopped>>

-----------------------------------------------------------------------------
(* Shutdown, crash and start                                               *)

\* Jobs not begun are cancelled.
HistoryCloses ==
  /\ service = "up"
  /\ service' = "closing"
  /\ retryQueue' = <<>>
  /\ UNCHANGED <<inTx, rows, words, committed, onDisk, serving, retrying, ingested, calls,
                 restarts, stopped, wanted, overlapped>>

\* The process is gone, and with it its threads and what the connection had not committed.
Gone(left) ==
  /\ service' = "down"
  /\ inTx' = FALSE
  /\ committed' = left /\ onDisk' = left
  /\ rows' = left.rows /\ words' = left.words /\ wanted' = left.words
  /\ serving' = [t \in HistoryThreads |-> Idle]
  /\ retryQueue' = <<>>
  /\ retrying' = [k \in RetryWorkers |-> Idle]
  /\ overlapped' = {}
  /\ UNCHANGED <<ingested, calls, restarts, stopped>>

DatabaseCloses == service = "closing" /\ Gone(committed)

\* _cleanup_stale_wal_files deletes the WAL that a crash leaves.
ServerCrashes == service # "down" /\ restarts < NRestarts /\ Gone(onDisk)

ServerRestarts ==
  /\ service = "down" /\ restarts < NRestarts
  /\ restarts' = restarts + 1
  /\ service' = "up"
  /\ inTx' = StylesAreSeeded
  /\ UNCHANGED <<rows, words, committed, onDisk, serving, retryQueue, retrying, ingested, calls,
                 stopped, wanted, overlapped>>

RetryStep(k) == \/ RetryRuns(k) \/ RetryReads(k) \/ RetrySets(k) \/ RetryCounts(k)
                \/ RetrySyncs(k) \/ RetryRaises(k) \/ RetryFails(k)
ThreadStep(t) == \/ UndoSets(t) \/ UndoCounts(t) \/ UndoSyncs(t)
                 \/ RetrySubmits(t) \/ WordUpdates(t)

HistoryNext ==
  \/ \E i \in HistoryIds : Ingest(i)
  \/ \E t \in HistoryThreads : ThreadStep(t)
  \/ \E t \in HistoryThreads, i \in HistoryIds :
       AsksUndo(t, i) \/ AsksRetry(t, i) \/ HistoryDelete(t, i)
  \/ \E t \in HistoryThreads, w \in WordIds : WordCreate(t, w) \/ WordDelete(t, w)
  \/ \E t \in HistoryThreads, w \in WordIds :
       WordReads(t, w, "text", calls) \/ WordReads(t, w, "on", FALSE)
  \/ \E k \in RetryWorkers : RetryStep(k)
  \/ HistoryCloses \/ DatabaseCloses \/ ServerCrashes \/ ServerRestarts

HistorySpec == HistoryInit /\ [][HistoryNext]_historyVars

\* Threads go on, and a shutdown that has begun ends.
HistoryFairSpec ==
  /\ HistorySpec
  /\ \A t \in HistoryThreads : WF_historyVars(ThreadStep(t))
  /\ \A k \in RetryWorkers : WF_historyVars(RetryStep(k))
  /\ WF_historyVars(DatabaseCloses)

-----------------------------------------------------------------------------
(* Properties                                                              *)

Texts == [of : 1 .. NIngests, by : {"coach", "pipeline", "retry"}]

\* The variables have their types; what is committed was written by ingests alone.
HistoryTypeOK ==
  /\ service \in {"up", "closing", "down"} /\ inTx \in BOOLEAN
  /\ \A i \in HistoryIds : rows[i] # NoRow =>
       /\ rows[i].raw \in 1 .. NIngests /\ rows[i].active \in Texts
       /\ rows[i].retry \in {"idle", "queued", "running", "completed", "failed"}
       /\ rows[i].tries \in Nat /\ rows[i].deleted \in BOOLEAN
       /\ rows[i].revs \in Seq(Texts)
  /\ \A w \in WordIds : words[w] # NoRow => words[w] \in [text : Nat, on : BOOLEAN]
  /\ retryQueue \in Seq(HistoryIds)
  /\ ~inTx => rows = committed.rows /\ words = committed.words
  /\ stopped \subseteq HistoryIds /\ overlapped \subseteq HistoryIds \cup WordIds

\* No text is kept twice among the revisions of a session, whoever adds them and from
\* whatever count: _sync_revisions looks before it inserts, outside a transaction, and the
\* unique index refuses the one that comes too late.
RevisionsDiffer ==
  \A i \in HistoryIds : rows[i] # NoRow => IsInjective(rows[i].revs)

\* The text that a session shows is among its revisions, once nobody works on it: an undo
\* and a retry write the text first and its revision two statements later.  (Two of them
\* at once can lose one: the second insert is refused.)
ShownIsRecorded ==
  \A i \in HistoryIds :
    rows[i] # NoRow /\ i \notin overlapped /\ ~Busy(i) =>
      Contains(rows[i].revs, rows[i].active)

\* A word keeps each field that a request set until a request sets that field again,
\* though an update writes them all: unless two requests on it overlap.
UpdatesAreKept ==
  \A w \in WordIds : w \notin overlapped => words[w] = wanted[w]

\* A retry that was asked for is done or has failed in the end, whatever it raises; while
\* the service is up.
RetriesSettle ==
  \A i \in HistoryIds :
    []<>(rows[i] = NoRow \/ rows[i].retry \notin {"queued", "running"} \/ service # "up")

\* A finished session is in the history (README.md:39).  The server's StyleService leaves
\* the connection in a transaction, and no ingest can begin one.
FinishedIsInHistory == \A i \in stopped : rows[i] # NoRow

\* The rows of a session and of the words say what was asked for, whoever else writes them.
HistoryInv == HistoryTypeOK /\ RevisionsDiffer /\ ShownIsRecorded /\ UpdatesAreKept
=============================================================================
