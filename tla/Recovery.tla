------------------------------ MODULE Recovery ------------------------------
(***************************************************************************)
(* RecoveryManager (core/recovery_strategies.py) with its default          *)
(* strategies, the fallback chains two of them own, and the retries of     *)
(* error_handler.py around a download.  The manager is a singleton without *)
(* a lock: the threads that meet an error call it at the same time, and    *)
(* reading a chain or a retry count is a step apart from writing it.       *)
(* Statistics, messages and the error's report are left out.               *)
(***************************************************************************)
EXTENDS Integers, Sequences

CONSTANTS RecoveryCallers,  \* the threads that meet errors
          NErrors,          \* bound on the errors they meet
          MaxRetries,       \* max_retries of NetworkRetryStrategy (3)
          MaxAttempts,      \* attempts of a download, the first included (3)
          LastBatch,        \* index of the last option of the batch size chain (3)
          LastModel,        \* index of the last option of the model chain (3)
          MaxHistory        \* _max_history (100)

ASSUME RecoveryAssumption ==
  /\ NErrors \in Nat /\ MaxRetries \in Nat /\ LastBatch \in Nat /\ LastModel \in Nat
  /\ MaxAttempts \in Nat \ {0} /\ MaxHistory \in Nat \ {0}

VARIABLES
  attempt,     \* the error each thread recovers from, and how far it is
  chainAt,     \* current_index of each chain
  retries,     \* _retry_counts, by what was tried
  offline,     \* _offline_mode_active
  recorded,    \* length of _recovery_history
  errorsMet,
  granted,     \* history: the retries granted
  lightly,     \* history: errors that call for a smaller model, or refuse a retry, by kind
  together     \* history: two threads have been recovering at the same time

recoveryVars == <<attempt, chainAt, retries, offline, recorded, errorsMet, granted, lightly,
                  together>>

-----------------------------------------------------------------------------
\* The strategies whose can_handle() takes an error, by priority.
\* "loadOom" is a failure to load that speaks of memory; "refused" one of a backend that
\* must not be retried.
StrategiesFor(kind) ==
  CASE kind = "device" -> <<"device">>
    [] kind = "permission" -> <<"guidance">>
    [] kind = "oom" -> <<"oom">>
    [] kind = "loadOom" -> <<"oom", "model">>
    [] kind = "load" -> <<"model">>
    [] kind = "missing" -> <<"download">>
    [] kind = "corrupt" -> <<"download", "model">>
    [] kind = "unavailable" -> <<"retry", "offline">>
    [] kind = "timeout" -> <<"retry">>
    [] kind = "refused" -> <<"offline">>
    [] kind = "disk" -> <<"disk">>
    [] kind = "session" -> <<"session">>
    [] kind = "other" -> <<>>

\* Variant of InOrder: the last priority first.
InReverse(strategies) == [i \in DOMAIN strategies |-> strategies[Len(strategies) - i + 1]]

\* register_strategy() keeps the strategies sorted: the smallest priority comes first.
InOrder(strategies) == strategies

ErrorKinds == {"device", "permission", "oom", "loadOom", "load", "missing", "corrupt",
               "unavailable", "timeout", "refused", "disk", "session", "other"}

\* The chains: GPU then CPU, batch sizes from 8, models from medium.
LastOf == [compute |-> 1, batch |-> LastBatch, model |-> LastModel]
Chains == DOMAIN LastOf

Calm == [kind |-> "none", left |-> <<>>, step |-> "idle", read |-> 0, applied |-> FALSE]

RecoveryInit ==
  /\ attempt = [c \in RecoveryCallers |-> Calm]
  /\ chainAt = [x \in Chains |-> 0] /\ retries = [k \in {"unavailable", "timeout"} |-> 0]
  /\ offline = FALSE /\ recorded = 0 /\ errorsMet = 0
  /\ granted = 0 /\ lightly = {} /\ together = FALSE

Recovering(c) == attempt[c].step # "idle"
At(c, s, step) == /\ attempt[c].step = step
                  /\ attempt[c].left # <<>> /\ Head(attempt[c].left) = s

Records == recorded' = IF recorded < MaxHistory THEN recorded + 1 ELSE recorded

\* A strategy succeeded, in part at least: the attempt ends.
Succeeds(c) == attempt' = [attempt EXCEPT ![c] = Calm] /\ Records

\* Variant of Fails: the strategy that failed is tried again.
FailsAgain(c) ==
  /\ attempt' = [attempt EXCEPT ![c].step = "try", ![c].read = 0, ![c].applied = FALSE]
  /\ Records

\* It failed: the next applicable one is tried.
Fails(c) ==
  /\ attempt' = [attempt EXCEPT ![c].left = Tail(@), ![c].step = "try",
                                ![c].read = 0, ![c].applied = FALSE]
  /\ Records

Turns(c, step, read, applied) ==
  attempt' = [attempt EXCEPT ![c].step = step, ![c].read = read, ![c].applied = applied]

\* attempt_recovery() selects the strategies that apply.
MeetsError(c, kind) ==
  /\ ~Recovering(c) /\ errorsMet < NErrors /\ errorsMet' = errorsMet + 1
  /\ attempt' = [attempt EXCEPT ![c] = [Calm EXCEPT !.kind = kind, !.step = "try",
                                                    !.left = InOrder(StrategiesFor(kind))]]
  /\ lightly' = lightly \cup ({kind} \cap {"load", "corrupt", "refused"})
  /\ together' = (together \/ \E d \in RecoveryCallers \ {c} : Recovering(d))
  /\ UNCHANGED <<chainAt, retries, offline, recorded, granted>>

\* None applies, or all have failed: it is recorded, and the attempt ends.
GivesUp(c) ==
  /\ attempt[c].step = "try" /\ attempt[c].left = <<>> /\ Succeeds(c)
  /\ UNCHANGED <<chainAt, retries, offline, errorsMet, granted, lightly, together>>

-----------------------------------------------------------------------------
\* The strategies without a state of their own.  They depend on what the caller passes
\* (the devices there are), on the disk and on the user.
Guides(c) ==
  /\ At(c, "guidance", "try") /\ Succeeds(c)
  /\ UNCHANGED <<chainAt, retries, offline, errorsMet, granted, lightly, together>>

AsksForSpace(c) ==
  /\ At(c, "disk", "try") /\ Succeeds(c)
  /\ UNCHANGED <<chainAt, retries, offline, errorsMet, granted, lightly, together>>

SwitchesDevice(c) ==
  /\ At(c, "device", "try") /\ (Succeeds(c) \/ Fails(c))
  /\ UNCHANGED <<chainAt, retries, offline, errorsMet, granted, lightly, together>>

RepairsSession(c) ==
  /\ At(c, "session", "try") /\ (Succeeds(c) \/ Fails(c))
  /\ UNCHANGED <<chainAt, retries, offline, errorsMet, granted, lightly, together>>

\* with_retry tries again after a failed attempt.
TriesAgain(attempts) == attempts < MaxAttempts

\* _download_model(): `read` counts the attempts that raised.
Downloads(c) ==
  /\ At(c, "download", "try")
  /\ \/ Succeeds(c)
     \/ /\ TriesAgain(attempt[c].read + 1)
        /\ Turns(c, "try", attempt[c].read + 1, FALSE) /\ UNCHANGED recorded
     \/ ~TriesAgain(attempt[c].read + 1) /\ Fails(c)
  /\ UNCHANGED <<chainAt, retries, offline, errorsMet, granted, lightly, together>>

-----------------------------------------------------------------------------
\* FallbackChain.fallback() reads the index and then moves it; past the last option it
\* moves nothing.  recover() of the OOM strategy takes the compute chain, then the batch
\* chain in any case: the first knows no device but the CPU.
ReadsChain(c, s, from, x, to) ==
  /\ At(c, s, from) /\ Turns(c, to, chainAt[x], attempt[c].applied)
  /\ UNCHANGED <<chainAt, retries, offline, recorded, errorsMet, granted, lightly, together>>

\* Variant of MovesOn: an exhausted chain is taken for one that moved.
MovesOnAlways(x, i) == TRUE

\* Whether fallback() finds an option after the one it read.
MovesOn(x, i) == i < LastOf[x]

\* Variant of Moves: an exhausted chain starts over.
MovesRound(c, x) ==
  chainAt' = [chainAt EXCEPT ![x] =
                IF MovesOn(x, attempt[c].read) THEN attempt[c].read + 1 ELSE 0]

Moves(c, x) ==
  chainAt' = [chainAt EXCEPT ![x] =
                IF MovesOn(x, attempt[c].read) THEN attempt[c].read + 1 ELSE @]

ReadsCompute(c) == ReadsChain(c, "oom", "try", "compute", "compute")

MovesCompute(c) ==
  /\ At(c, "oom", "compute") /\ Moves(c, "compute")
  /\ Turns(c, "device", 0, MovesOn("compute", attempt[c].read))
  /\ UNCHANGED <<retries, offline, recorded, errorsMet, granted, lightly, together>>

ReadsBatch(c) == ReadsChain(c, "oom", "device", "batch", "batch")

MovesBatch(c) ==
  /\ At(c, "oom", "batch") /\ Moves(c, "batch")
  /\ IF attempt[c].applied \/ MovesOn("batch", attempt[c].read) THEN Succeeds(c) ELSE Fails(c)
  /\ UNCHANGED <<retries, offline, errorsMet, granted, lightly, together>>

ReadsModel(c) == ReadsChain(c, "model", "try", "model", "model")

MovesModel(c) ==
  /\ At(c, "model", "model") /\ Moves(c, "model")
  /\ IF MovesOn("model", attempt[c].read) THEN Succeeds(c) ELSE Fails(c)
  /\ UNCHANGED <<retries, offline, errorsMet, granted, lightly, together>>

-----------------------------------------------------------------------------
\* NetworkRetryStrategy.recover() reads the count of what failed ...
ReadsRetries(c) ==
  /\ At(c, "retry", "try") /\ Turns(c, "retry", retries[attempt[c].kind], FALSE)
  /\ UNCHANGED <<chainAt, retries, offline, recorded, errorsMet, granted, lightly, together>>

\* Variant of MayRetry: one retry too many.
MayRetryOnce(n) == n <= MaxRetries

MayRetry(n) == n + 1 <= MaxRetries

\* ... gives up when the retries are used up ...
StopsRetrying(c) ==
  /\ At(c, "retry", "retry") /\ ~MayRetry(attempt[c].read) /\ Fails(c)
  /\ UNCHANGED <<chainAt, retries, offline, errorsMet, granted, lightly, together>>

\* ... or writes the new count and waits.
WritesRetries(c) ==
  /\ At(c, "retry", "retry") /\ MayRetry(attempt[c].read)
  /\ retries' = [retries EXCEPT ![attempt[c].kind] = attempt[c].read + 1]
  /\ granted' = granted + 1
  /\ Turns(c, "wait", 0, FALSE)
  /\ UNCHANGED <<chainAt, offline, recorded, errorsMet, lightly, together>>

\* The back-off is over: the caller is told to retry.
Retries(c) ==
  /\ At(c, "retry", "wait") /\ Succeeds(c)
  /\ UNCHANGED <<chainAt, retries, offline, errorsMet, granted, lightly, together>>

\* OfflineModeStrategy: nothing in the code calls set_online().
GoesOffline(c) ==
  /\ At(c, "offline", "try") /\ offline' = TRUE /\ Succeeds(c)
  /\ UNCHANGED <<chainAt, retries, errorsMet, granted, lightly, together>>

-----------------------------------------------------------------------------
RecoveryStep(c) ==
  \/ GivesUp(c) \/ Guides(c) \/ AsksForSpace(c) \/ SwitchesDevice(c) \/ RepairsSession(c)
  \/ Downloads(c)
  \/ ReadsCompute(c) \/ MovesCompute(c) \/ ReadsBatch(c) \/ MovesBatch(c)
  \/ ReadsModel(c) \/ MovesModel(c)
  \/ ReadsRetries(c) \/ StopsRetrying(c) \/ WritesRetries(c) \/ Retries(c) \/ GoesOffline(c)

RecoveryNext ==
  \E c \in RecoveryCallers : RecoveryStep(c) \/ \E kind \in ErrorKinds : MeetsError(c, kind)

RecoverySpec == RecoveryInit /\ [][RecoveryNext]_recoveryVars
RecoveryFairSpec == RecoverySpec /\ \A c \in RecoveryCallers : WF_recoveryVars(RecoveryStep(c))

-----------------------------------------------------------------------------
\* Types; a chain's index is that of an option, and the history has its limit.
RecoveryTypeOK ==
  /\ \A c \in RecoveryCallers :
       /\ attempt[c].kind \in ErrorKinds \cup {"none"}
       /\ attempt[c].step \in {"idle", "try", "compute", "device", "batch", "model", "retry",
                               "wait"}
       /\ attempt[c].read \in Nat /\ attempt[c].applied \in BOOLEAN
  /\ \A x \in Chains : chainAt[x] \in 0 .. LastOf[x]
  /\ \A k \in DOMAIN retries : retries[k] \in 0 .. MaxRetries
  /\ offline \in BOOLEAN /\ together \in BOOLEAN /\ recorded \in 0 .. MaxHistory
  /\ errorsMet \in 0 .. NErrors

\* An error that speaks of memory costs quality last: as long as threads recover one at a
\* time, the model is not made smaller for it before the device and the batch size are at
\* their last options.
QualityIsGivenUpLast ==
  ~together /\ lightly \cap {"load", "corrupt"} = {} /\ chainAt["model"] > 0 =>
    chainAt["compute"] = 1 /\ chainAt["batch"] = LastBatch

\* The backend is given up only after every retry that may be made of it, or when it refuses
\* retries (recovered from one at a time).
OfflineAfterRetries ==
  ~together /\ offline /\ "refused" \notin lightly => retries["unavailable"] = MaxRetries

\* No option is taken again: as long as threads recover one at a time, a chain only moves
\* on, and no more retries are granted than there are.
OnlyMovesOn ==
  [][~together' => /\ \A x \in Chains : chainAt'[x] \in {chainAt[x], chainAt[x] + 1}
                   /\ granted' <= 2 * MaxRetries]_recoveryVars

\* Every attempt to recover ends.
RecoveryEnds == \A c \in RecoveryCallers : []<>(~Recovering(c))

\* Errors are met by what costs least, and nothing is given up before it was tried.
RecoveryInv == RecoveryTypeOK /\ QualityIsGivenUpLast /\ OfflineAfterRetries
=============================================================================
