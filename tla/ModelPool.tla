----------------------------- MODULE ModelPool ------------------------------
(***************************************************************************)
(* The pool of loaded models of app/stt/model_pool.py.  Threads ask for a  *)
(* model by its key; the sections under the pool's lock are one action     *)
(* each, and a model is loaded outside it, under a lock of its key.  Such  *)
(* a lock is dropped from its table together with the model, by whoever    *)
(* removes it, and another made when the key is wanted again: the locks of *)
(* one key are numbered.                                                   *)
(*                                                                         *)
(* Attempts, devices and the warm-up decide only whether a load succeeds,  *)
(* and the memory reserved and the metrics are read by nobody.             *)
(***************************************************************************)
EXTENDS Naturals, Sequences, FiniteSets, SequencesExt

CONSTANTS Loaders,       \* threads that ask for models
          Models,        \* cache keys
          MaxModels,     \* max_models
          Asks           \* bound: calls made in all

ASSUME PoolAssumption ==
  /\ MaxModels \in Nat \ {0} /\ Asks \in Nat
  /\ IsFiniteSet(Loaders) /\ IsFiniteSet(Models) /\ Models # {}

Locks == 1 .. Cardinality(Loaders) + 1
NoLock == 0

VARIABLES
  at,          \* where each thread is in get_model
  wants,       \* the key it asks for
  has,         \* the lock of that key it waits for or holds
  lockOf,      \* _model_locks
  pooled,      \* _models
  usedBefore,  \* <<j, k>>: the last_access of model j is before that of k
  accessQueue, \* _access_queue
  asks,        \* calls so far
  overlaps,    \* history: loads that began while another was under way
  released     \* history: a model has been released or the pool cleared

poolVars == <<at, wants, has, lockOf, pooled, usedBefore, accessQueue, asks, overlaps,
              released>>

PoolInit ==
  /\ at = [t \in Loaders |-> "idle"]
  /\ wants = [t \in Loaders |-> CHOOSE k \in Models : TRUE]
  /\ has = [t \in Loaders |-> NoLock]
  /\ lockOf = [k \in Models |-> NoLock]
  /\ pooled = {} /\ usedBefore = {}
  /\ accessQueue = <<>>
  /\ asks = 0
  /\ overlaps = 0 /\ released = FALSE

LoaderGoes(t, place) == at' = [at EXCEPT ![t] = place]
Loading(t) == at[t] \in {"checked", "loading", "loaded"}

\* Is a lock held?
Held(k, l) == \E t \in Loaders : wants[t] = k /\ has[t] = l /\ at[t] # "waiting"

\* Not one that a thread still has.
FreshLock(k) == CHOOSE l \in Locks : \A t \in Loaders : ~(wants[t] = k /\ has[t] = l)

\* Variant of Appended: the queue keeps everything.
AppendedAll(q, k) == Append(q, k)

\* deque(maxlen=max_models): the oldest entry makes room.
Appended(q, k) == IF Len(q) < MaxModels THEN Append(q, k) ELSE Append(Tail(q), k)

Removed(S) ==
  /\ pooled' = pooled \ S
  /\ usedBefore' = {e \in usedBefore : e[1] \notin S /\ e[2] \notin S}
  /\ lockOf' = [k \in Models |-> IF k \in S THEN NoLock ELSE lockOf[k]]

\* last_access of a model of the pool is set to the current time.
IsUsed(k) ==
  usedBefore' = {e \in usedBefore : e[1] # k /\ e[2] # k} \cup ((pooled \ {k}) \X {k})

-----------------------------------------------------------------------------
(* get_model *)

\* Variant of PoolHit: the access is not entered in the queue.
PoolHitUnqueued(t, k) ==
  /\ asks < Asks /\ at[t] = "idle" /\ k \in pooled
  /\ asks' = asks + 1
  /\ IsUsed(k)
  /\ UNCHANGED <<at, wants, has, lockOf, pooled, accessQueue, overlaps, released>>

\* A model of the pool is taken at once.
PoolHit(t, k) ==
  /\ asks < Asks /\ at[t] = "idle" /\ k \in pooled
  /\ asks' = asks + 1
  /\ IsUsed(k)
  /\ accessQueue' = Appended(RemoveFirst(accessQueue, k), k)
  /\ UNCHANGED <<at, wants, has, lockOf, pooled, overlaps, released>>

PoolMiss(t, k) ==
  /\ asks < Asks /\ at[t] = "idle" /\ k \notin pooled
  /\ asks' = asks + 1
  /\ wants' = [wants EXCEPT ![t] = k]
  /\ LoaderGoes(t, "missed")
  /\ UNCHANGED <<has, lockOf, pooled, usedBefore, accessQueue, overlaps, released>>

\* The lock of the key is made if there is none.
LockIsMade(t) ==
  /\ at[t] = "missed"
  /\ lockOf' = IF lockOf[wants[t]] # NoLock THEN lockOf
               ELSE [lockOf EXCEPT ![wants[t]] = FreshLock(wants[t])]
  /\ LoaderGoes(t, "made")
  /\ UNCHANGED <<wants, has, pooled, usedBefore, accessQueue, asks, overlaps, released>>

\* It is looked up again, without the pool's lock: if it is gone the call fails.
LockIsFound(t) ==
  /\ at[t] = "made"
  /\ IF lockOf[wants[t]] = NoLock
     THEN LoaderGoes(t, "idle") /\ UNCHANGED has
     ELSE LoaderGoes(t, "waiting") /\ has' = [has EXCEPT ![t] = lockOf[wants[t]]]
  /\ UNCHANGED <<wants, lockOf, pooled, usedBefore, accessQueue, asks, overlaps, released>>

LockIsTaken(t) ==
  /\ at[t] = "waiting" /\ ~Held(wants[t], has[t])
  /\ LoaderGoes(t, "locked")
  /\ UNCHANGED <<wants, has, lockOf, pooled, usedBefore, accessQueue, asks, overlaps, released>>

\* Another thread may have loaded the model meanwhile.
ChecksAgain(t) ==
  /\ at[t] = "locked"
  /\ IF wants[t] \in pooled
     THEN LoaderGoes(t, "idle") /\ has' = [has EXCEPT ![t] = NoLock] /\ UNCHANGED overlaps
     ELSE /\ LoaderGoes(t, "checked")
          /\ overlaps' = IF \E u \in Loaders \ {t} : Loading(u) THEN overlaps + 1 ELSE overlaps
          /\ UNCHANGED has
  /\ UNCHANGED <<wants, lockOf, pooled, usedBefore, accessQueue, asks, released>>

\* How many of the oldest entries are taken off the queue: until there is room, or none.
Taken(q) ==
  LET Left(n) == pooled \ {q[i] : i \in 1 .. n} IN
  CHOOSE n \in 0 .. Len(q) :
    /\ Cardinality(Left(n)) < MaxModels \/ n = Len(q)
    /\ \A m \in 0 .. n - 1 : Cardinality(Left(m)) >= MaxModels

\* Variant of EvictsOldest: one entry is taken off when the pool is full, whatever it is.
EvictsOnce(t) ==
  /\ at[t] = "checked"
  /\ LET n == IF Cardinality(pooled) >= MaxModels /\ accessQueue # <<>> THEN 1 ELSE 0 IN
       /\ Removed({accessQueue[i] : i \in 1 .. n} \cap pooled)
       /\ accessQueue' = SubSeq(accessQueue, n + 1, Len(accessQueue))
  /\ LoaderGoes(t, "loading")
  /\ UNCHANGED <<wants, has, asks, overlaps, released>>

\* _maybe_evict_oldest
EvictsOldest(t) ==
  /\ at[t] = "checked"
  /\ LET n == Taken(accessQueue) IN
       /\ Removed({accessQueue[i] : i \in 1 .. n} \cap pooled)
       /\ accessQueue' = SubSeq(accessQueue, n + 1, Len(accessQueue))
  /\ LoaderGoes(t, "loading")
  /\ UNCHANGED <<wants, has, asks, overlaps, released>>

\* Variant of Loads: a load that fails keeps the lock.
LoadsLocked(t) ==
  /\ at[t] = "loading"
  /\ LoaderGoes(t, "loaded") \/ LoaderGoes(t, "idle")
  /\ UNCHANGED <<wants, has, lockOf, pooled, usedBefore, accessQueue, asks, overlaps, released>>

\* The model is loaded and warmed up, or the attempts are used up.
Loads(t) ==
  /\ at[t] = "loading"
  /\ \/ LoaderGoes(t, "loaded") /\ UNCHANGED has
     \/ LoaderGoes(t, "idle") /\ has' = [has EXCEPT ![t] = NoLock]
  /\ UNCHANGED <<wants, lockOf, pooled, usedBefore, accessQueue, asks, overlaps, released>>

Stores(t) ==
  /\ at[t] = "loaded"
  /\ pooled' = pooled \cup {wants[t]}
  /\ IsUsed(wants[t])
  /\ accessQueue' = Appended(accessQueue, wants[t])
  /\ LoaderGoes(t, "idle")
  /\ has' = [has EXCEPT ![t] = NoLock]
  /\ UNCHANGED <<wants, lockOf, asks, overlaps, released>>

-----------------------------------------------------------------------------
(* release_model, by a caller or cleanup_expired, and clear *)

ReleaseModel(k) ==
  /\ asks < Asks /\ k \in pooled
  /\ asks' = asks + 1
  /\ Removed({k})
  /\ released' = TRUE
  /\ UNCHANGED <<at, wants, has, accessQueue, overlaps>>

ClearPool ==
  /\ asks < Asks
  /\ asks' = asks + 1
  /\ pooled' = {} /\ usedBefore' = {} /\ accessQueue' = <<>>
  /\ lockOf' = [k \in Models |-> NoLock]
  /\ released' = TRUE
  /\ UNCHANGED <<at, wants, has, overlaps>>

-----------------------------------------------------------------------------
LoaderStep(t) == \/ LockIsMade(t) \/ LockIsFound(t) \/ LockIsTaken(t) \/ ChecksAgain(t)
                 \/ EvictsOldest(t) \/ Loads(t) \/ Stores(t)

PoolNext ==
  \/ \E t \in Loaders : LoaderStep(t) \/ \E k \in Models : PoolHit(t, k) \/ PoolMiss(t, k)
  \/ \E k \in Models : ReleaseModel(k)
  \/ ClearPool

PoolSpec == PoolInit /\ [][PoolNext]_poolVars

\* A load ends, one way or the other, and a free lock is taken by a thread that waits.
PoolFairness == \A t \in Loaders : WF_poolVars(LoaderStep(t))

PoolFairSpec == PoolSpec /\ PoolFairness

-----------------------------------------------------------------------------
(* Properties *)

\* Types of the pool's tables and of the threads' places.
PoolTypeOK ==
  /\ at \in [Loaders -> {"idle", "missed", "made", "waiting", "locked", "checked", "loading",
                         "loaded"}]
  /\ wants \in [Loaders -> Models] /\ has \in [Loaders -> Locks \cup {NoLock}]
  /\ lockOf \in [Models -> Locks \cup {NoLock}]
  /\ pooled \subseteq Models /\ usedBefore \subseteq pooled \X pooled
  /\ \A j, k \in pooled : j = k \/ <<j, k>> \in usedBefore \/ <<k, j>> \in usedBefore
  /\ accessQueue \in Seq(Models) /\ Len(accessQueue) <= MaxModels
  /\ asks \in 0 .. Asks
  /\ overlaps \in Nat /\ released \in BOOLEAN

\* The pool exceeds its limit by no more than the loads that began while another was under
\* way, although the queue it evicts by may hold a key twice and have lost another.  (What
\* they leave too much stays: models that the queue has lost are not evicted by a later load.)
PoolLimit == Cardinality(pooled) <= MaxModels + overlaps

\* As long as no two loads have been under way at once and no model was released, the models
\* evicted are the ones used the longest ago.
EvictsLeastRecent ==
  [][\A t \in Loaders, k \in pooled \ pooled', j \in pooled' :
       EvictsOldest(t) /\ overlaps = 0 /\ ~released => <<k, j>> \in usedBefore]_poolVars

\* "Per-key lock to prevent duplicate loads": no two threads load the same model at once.
\* The code does not keep this: README, section 6.
OneLoadPerKey == \A t, u \in Loaders : t # u /\ Loading(t) /\ Loading(u) => wants[t] # wants[u]

\* Every call returns, those that wait for another's load or have to evict a model too.
AsksReturn == \A t \in Loaders : []<>(at[t] = "idle")

\* The pool's tables agree, and its limit is exceeded by loads under way at once only.
PoolInv == PoolTypeOK /\ PoolLimit
=============================================================================
