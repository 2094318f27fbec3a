-------------------------- MODULE Engine_proofs ---------------------------
(***************************************************************************)
(* Proofs about the components that run sessions and models, for every     *)
(* value of their constants.  Each part proves of a component that every   *)
(* behaviour of it has the component's invariant; the last part says it    *)
(* of the composition.                                                     *)
(***************************************************************************)
EXTENDS MCEngine, FiniteSetTheorems, SequenceTheorems, TLAPS

-----------------------------------------------------------------------------
(* model_pool.py.  A load holds a place: for one the pool has room, since the eviction    *)
(* before it left room, and the others have been counted when they began.  A model that   *)
(* the queue has lost cannot be evicted, but the last model used is in the queue.         *)

\* The models that the access queue has lost.
Forgotten == pooled \ ToSet(accessQueue)

\* The threads that have made room for the model they load, and those that have yet to.
HasRoom == {t \in Loaders : at[t] \in {"loading", "loaded"}}
InLoad == {t \in Loaders : Loading(t)}

LoadsAreCounted == Cardinality(InLoad) <= 1 + overlaps

RoomIsLeft == Cardinality(pooled) + Cardinality(HasRoom) <= MaxModels + overlaps

QueueSuffices ==
  /\ Cardinality(Forgotten) < MaxModels + overlaps
  /\ Cardinality(Forgotten) + Cardinality(InLoad) <= MaxModels + overlaps

PoolIInv == PoolTypeOK /\ LoadsAreCounted /\ RoomIsLeft /\ QueueSuffices

\* A set of natural numbers that is not empty has a least element.
LEMMA LeastNatural ==
  ASSUME NEW T, T \subseteq Nat, T # {}
  PROVE  \E x \in T : \A y \in T : x <= y
<1> DEFINE R == {ss \in Nat \X Nat : ss[1] < ss[2]}
<1>1. IsWellFoundedOn(R, Nat)
  BY NatLessThanWellFounded DEF OpToRel
<1>2. PICK x \in T : \A y \in T : <<y, x>> \notin R
  <2> HIDE DEF R
  <2> QED
    BY <1>1, WFMin
<1>3. ASSUME NEW y \in T, y < x PROVE FALSE
  <2>1. <<y, x>> \in Nat \X Nat
    OBVIOUS
  <2>2. <<y, x>> \in R
    BY <2>1, <1>3
  <2> QED
    BY <2>2, <1>2
<1> QED
  BY <1>3

\* A value makes a set larger by one at most.
LEMMA OneMore ==
  ASSUME NEW S, NEW x, IsFiniteSet(S)
  PROVE  /\ IsFiniteSet(S \cup {x}) /\ Cardinality(S \cup {x}) \in Nat
         /\ Cardinality(S) \in Nat /\ Cardinality(S \cup {x}) <= Cardinality(S) + 1
<1>1. IsFiniteSet(S \cup {x}) /\ Cardinality(S \cup {x}) \in Nat /\ Cardinality(S) \in Nat
  BY FS_AddElement, FS_CardinalityType
<1>2. Cardinality(S \cup {x}) = IF x \in S THEN Cardinality(S) ELSE Cardinality(S) + 1
  BY FS_AddElement
<1> QED
  BY <1>1, <1>2

\* RemoveFirst takes one element off, and no other value.
LEMMA RemoveFirstTakesOne ==
  ASSUME NEW S, NEW q \in Seq(S), NEW k, k \in ToSet(q)
  PROVE  /\ RemoveFirst(q, k) \in Seq(S)
         /\ Len(RemoveFirst(q, k)) = Len(q) - 1
         /\ ToSet(q) \ {k} \subseteq ToSet(RemoveFirst(q, k))
<1> DEFINE I == {i \in 1 .. Len(q) : q[i] = k}
<1>1. I # {} /\ I \subseteq Nat /\ DOMAIN q = 1 .. Len(q)
  BY DEF ToSet
<1>2. SelectInSeq(q, LAMBDA v : v = k) = Min(I)
  BY <1>1 DEF SelectInSeq
<1>3. Min(I) \in I
  <2> HIDE DEF I
  <2>1. PICK x \in I : \A y \in I : x <= y
    BY <1>1, LeastNatural
  <2> QED
    BY <2>1 DEF Min
<1>4. PICK i \in 1 .. Len(q) : q[i] = k /\ RemoveFirst(q, k) = RemoveAt(q, i)
  BY <1>1, <1>2, <1>3 DEF RemoveFirst
<1> DEFINE a == SubSeq(q, 1, i - 1)
           b == SubSeq(q, i + 1, Len(q))
<1>5. /\ a \in Seq(S) /\ Len(a) = i - 1 /\ \A j \in 1 .. i - 1 : a[j] = q[j]
  BY SubSeqProperties
<1>6. /\ b \in Seq(S) /\ Len(b) = Len(q) - i /\ \A j \in 1 .. Len(q) - i : b[j] = q[i + j]
  BY SubSeqProperties
<1>7. RemoveFirst(q, k) = a \o b
  BY <1>4 DEF RemoveAt
<1> HIDE DEF a, b
<1>8. /\ a \o b \in Seq(S) /\ Len(a \o b) = Len(q) - 1 /\ DOMAIN (a \o b) = 1 .. Len(q) - 1
      /\ \A j \in 1 .. Len(q) - 1 : (a \o b)[j] = IF j <= i - 1 THEN a[j] ELSE b[j - (i - 1)]
  <2>1. /\ a \o b \in Seq(S) /\ Len(a \o b) = Len(a) + Len(b)
        /\ \A j \in 1 .. Len(a) + Len(b) :
              (a \o b)[j] = IF j <= Len(a) THEN a[j] ELSE b[j - Len(a)]
    BY <1>5, <1>6, ConcatProperties
  <2>2. Len(a) + Len(b) = Len(q) - 1
    BY <1>5, <1>6
  <2> QED
    BY SMTT(60), <1>5, <2>1, <2>2
<1>9. ASSUME NEW x \in ToSet(q) \ {k} PROVE x \in ToSet(a \o b)
  <2>1. PICK j \in 1 .. Len(q) : q[j] = x /\ j # i
    BY <1>1, <1>4 DEF ToSet
  <2>2. CASE j < i
    <3>1. j \in 1 .. Len(q) - 1 /\ j <= i - 1 /\ (a \o b)[j] = x
      BY <1>5, <1>8, <2>1, <2>2
    <3> QED
      BY <3>1, <1>8 DEF ToSet
  <2>3. CASE j > i
    <3>1. /\ j - 1 \in 1 .. Len(q) - 1 /\ ~(j - 1 <= i - 1)
          /\ j - i \in 1 .. Len(q) - i /\ (j - 1) - (i - 1) = j - i /\ i + (j - i) = j
      BY <2>1, <2>3
    <3>2. (a \o b)[j - 1] = b[j - i] /\ b[j - i] = q[j]
      BY <1>6, <1>8, <3>1
    <3>3. \E m \in DOMAIN (a \o b) : (a \o b)[m] = x
      BY <1>8, <2>1, <3>1, <3>2
    <3> QED
      BY <3>3 DEF ToSet
  <2> QED
    BY <2>1, <2>2, <2>3
<1> QED
  BY <1>7, <1>8, <1>9

\* What deque(maxlen) keeps of its entries when one is added.
LEMMA AppendedKeeps ==
  ASSUME NEW q \in Seq(Models), Len(q) <= MaxModels, NEW k \in Models
  PROVE  /\ Appended(q, k) \in Seq(Models) /\ Len(Appended(q, k)) <= MaxModels
         /\ k \in ToSet(Appended(q, k))
         /\ Len(q) < MaxModels => ToSet(q) \subseteq ToSet(Appended(q, k))
         /\ \E h \in Models : ToSet(q) \ {h} \subseteq ToSet(Appended(q, k))
<1> USE PoolAssumption
<1>1. CASE Len(q) < MaxModels
  <2>1. Appended(q, k) = Append(q, k)
    BY <1>1 DEF Appended
  <2>2. /\ Append(q, k) \in Seq(Models) /\ Len(Append(q, k)) = Len(q) + 1
        /\ DOMAIN Append(q, k) = 1 .. Len(q) + 1 /\ DOMAIN q = 1 .. Len(q)
        /\ \A i \in 1 .. Len(q) : Append(q, k)[i] = q[i]
        /\ Append(q, k)[Len(q) + 1] = k
    OBVIOUS
  <2>3. ToSet(q) \subseteq ToSet(Append(q, k)) /\ k \in ToSet(Append(q, k))
    BY <2>2 DEF ToSet
  <2> QED
    BY <1>1, <2>1, <2>2, <2>3
<1>2. CASE ~(Len(q) < MaxModels)
  <2> DEFINE r == Tail(q)
  <2>1. Appended(q, k) = Append(r, k)
    BY <1>2 DEF Appended
  <2>2. q # <<>> /\ Len(q) > 0 /\ Len(q) = MaxModels
    BY <1>2
  <2>3. /\ r \in Seq(Models) /\ Len(r) = Len(q) - 1 /\ Head(q) = q[1] /\ q[1] \in Models
        /\ \A i \in 1 .. Len(q) - 1 : r[i] = q[i + 1]
    BY <2>2, HeadTailProperties
  <2> HIDE DEF r
  <2>4. /\ Append(r, k) \in Seq(Models) /\ Len(Append(r, k)) = Len(q)
        /\ DOMAIN Append(r, k) = 1 .. Len(q) /\ DOMAIN q = 1 .. Len(q)
        /\ \A i \in 1 .. Len(q) - 1 : Append(r, k)[i] = q[i + 1]
        /\ Append(r, k)[Len(q)] = k
    BY <2>2, <2>3, AppendProperties
  <2>5. k \in ToSet(Append(r, k))
    BY <2>2, <2>4 DEF ToSet
  <2>6. ASSUME NEW x \in ToSet(q) \ {q[1]} PROVE x \in ToSet(Append(r, k))
    <3>1. PICK j \in 1 .. Len(q) : q[j] = x /\ j # 1
      BY <2>4 DEF ToSet
    <3>2. j - 1 \in 1 .. Len(q) - 1 /\ Append(r, k)[j - 1] = x
      BY <3>1, <2>4
    <3> QED
      BY SMTT(60), <3>2, <2>4 DEF ToSet
  <2> QED
    BY <1>2, <2>1, <2>2, <2>3, <2>4, <2>5, <2>6
<1> QED
  BY <1>1, <1>2

\* The pool, the threads and their locks are finite sets.
LEMMA PoolIsFinite ==
  ASSUME PoolTypeOK
  PROVE  /\ IsFiniteSet(pooled) /\ IsFiniteSet(Forgotten)
         /\ IsFiniteSet(HasRoom) /\ IsFiniteSet(InLoad)
         /\ Cardinality(pooled) \in Nat /\ Cardinality(Forgotten) \in Nat
         /\ Cardinality(HasRoom) \in Nat /\ Cardinality(InLoad) \in Nat
<1>1. IsFiniteSet(pooled) /\ IsFiniteSet(Forgotten)
  BY PoolAssumption, FS_Subset DEF PoolTypeOK, Forgotten
<1>2. IsFiniteSet(HasRoom) /\ IsFiniteSet(InLoad)
  BY PoolAssumption, FS_Subset DEF HasRoom, InLoad
<1> QED
  BY <1>1, <1>2, FS_CardinalityType

\* _maybe_evict_oldest leaves room, or all the models that the queue has lost.
LEMMA EvictionMakesRoom ==
  ASSUME PoolTypeOK
  PROVE  LET n == Taken(accessQueue)
             gone == {accessQueue[i] : i \in 1 .. n} \cap pooled
             rest == SubSeq(accessQueue, n + 1, Len(accessQueue))
         IN  /\ rest \in Seq(Models) /\ Len(rest) <= MaxModels
             /\ Cardinality(pooled \ gone) < MaxModels \/ pooled \ gone = Forgotten
             /\ (pooled \ gone) \ ToSet(rest) \subseteq Forgotten
<1> DEFINE q == accessQueue
           L(n) == pooled \ {q[i] : i \in 1 .. n}
           Enough(n) == Cardinality(L(n)) < MaxModels \/ n = Len(q)
           N == {n \in 0 .. Len(q) : Enough(n)}
           n == Taken(q)
           rest == SubSeq(q, n + 1, Len(q))
<1> USE PoolAssumption
<1>1. q \in Seq(Models) /\ Len(q) \in Nat /\ Len(q) <= MaxModels /\ DOMAIN q = 1 .. Len(q)
  BY DEF PoolTypeOK
<1>2. \A m \in 0 .. Len(q) : Cardinality(L(m)) \in Nat
  BY PoolIsFinite, FS_Subset, FS_CardinalityType
<1>3. n \in 0 .. Len(q) /\ Enough(n)
  <2>1. Len(q) \in N /\ N \subseteq Nat
    BY <1>1
  <2>2. PICK x \in N : \A y \in N : x <= y
    <3> HIDE DEF N
    <3> QED
      BY <2>1, LeastNatural
  <2>3. x \in 0 .. Len(q) /\ Enough(x)
    BY <2>2
  <2>4. ASSUME NEW m \in 0 .. x - 1 PROVE Cardinality(L(m)) >= MaxModels
    <3>1. m \in 0 .. Len(q) /\ m \notin N
      <4> HIDE DEF N, q, Enough
      <4>1. x \in Nat /\ m \in Nat /\ m < x /\ m <= Len(q)
        BY <1>1, <2>3
      <4> QED
        BY <1>1, <2>2, <4>1
    <3>2. ~(Cardinality(L(m)) < MaxModels)
      BY <3>1
    <3> QED
      BY <1>2, <3>1, <3>2
  <2> QED
    BY <2>3, <2>4 DEF Taken
<1>9. n \in Nat /\ n <= Len(q)
  <2> HIDE DEF n, q, Enough
  <2> QED
    BY <1>1, <1>3
<1>4. /\ rest \in Seq(Models) /\ Len(rest) = Len(q) - n /\ DOMAIN rest = 1 .. Len(q) - n
      /\ \A i \in 1 .. Len(q) - n : rest[i] = q[n + i]
  <2> HIDE DEF n, q
  <2>1. n + 1 \in Int /\ Len(q) \in Int /\ n \in Nat /\ n <= Len(q)
    BY <1>1, <1>9
  <2>2. \A i \in n + 1 .. Len(q) : q[i] \in Models
    BY <1>1, <2>1
  <2>3. /\ rest \in Seq(Models)
        /\ Len(rest) = IF n + 1 <= Len(q) THEN Len(q) - (n + 1) + 1 ELSE 0
        /\ \A i \in 1 .. Len(q) - (n + 1) + 1 : rest[i] = q[(n + 1) + i - 1]
    BY <2>1, <2>2, SubSeqProperties
  <2> HIDE DEF rest
  <2>4. Len(q) - (n + 1) + 1 = Len(q) - n /\ Len(rest) = Len(q) - n
    BY <2>1, <2>3
  <2>5. \A i \in 1 .. Len(q) - n : (n + 1) + i - 1 = n + i
    BY <2>1
  <2>6. DOMAIN rest = 1 .. Len(q) - n
    BY <2>3, <2>4
  <2> QED
    BY <2>3, <2>4, <2>5, <2>6
<1> HIDE DEF n
<1>5. Cardinality(L(n)) < MaxModels \/ L(n) = Forgotten
  BY <1>1, <1>3 DEF Forgotten, ToSet
<1>6. L(n) \ ToSet(rest) \subseteq Forgotten
  <2> SUFFICES ASSUME NEW k \in L(n), k \notin ToSet(rest), NEW j \in 1 .. Len(q), q[j] = k
               PROVE  FALSE
    BY <1>1 DEF Forgotten, ToSet
  <2>1. j > n
    <3>1. k \notin {q[i] : i \in 1 .. n}
      OBVIOUS
    <3>2. j \notin 1 .. n
      BY <3>1
    <3> HIDE DEF q, rest, L
    <3> QED
      BY <1>1, <1>9, <3>2
  <2>2. j - n \in 1 .. Len(q) - n /\ n + (j - n) = j
    BY <1>1, <1>9, <2>1
  <2>3. rest[j - n] = k
    BY <1>4, <2>2
  <2> QED
    BY <1>4, <2>2, <2>3 DEF ToSet
<1>7. pooled \ ({q[i] : i \in 1 .. n} \cap pooled) = L(n)
  OBVIOUS
<1>8. Len(rest) <= MaxModels
  <2>1. Len(rest) = Len(q) - n
    BY <1>4
  <2> HIDE DEF q, rest
  <2> QED
    BY <1>1, <1>9, <2>1
<1> HIDE DEF q, L, rest
<1> QED
  BY <1>4, <1>5, <1>6, <1>7, <1>8 DEF n, q, rest

\* There are more locks than threads: one of them no thread has.
LEMMA ThereIsAFreshLock ==
  ASSUME PoolTypeOK, NEW k \in Models
  PROVE  FreshLock(k) \in Locks
<1> DEFINE held == {has[t] : t \in Loaders}
<1>1. IsFiniteSet(held) /\ Cardinality(held) <= Cardinality(Loaders)
  <2> DEFINE f == [t \in Loaders |-> has[t]]
  <2>1. f \in Surjection(Loaders, held)
    BY DEF Surjection
  <2> QED
    BY <2>1, PoolAssumption, FS_Surjection
<1>2. IsFiniteSet(Locks) /\ Cardinality(Locks) = Cardinality(Loaders) + 1
  <2>1. Cardinality(Loaders) \in Nat
    BY PoolAssumption, FS_CardinalityType
  <2> QED
    BY <2>1, FS_Interval DEF Locks
<1>3. \E l \in Locks : l \notin held
  <2>1. SUFFICES ASSUME Locks \subseteq held PROVE FALSE
    OBVIOUS
  <2>2. Cardinality(Locks) <= Cardinality(held)
    BY <1>1, <2>1, FS_Subset
  <2>3. Cardinality(Loaders) \in Nat /\ Cardinality(held) \in Nat
    BY <1>1, PoolAssumption, FS_CardinalityType
  <2> QED
    BY <1>1, <1>2, <2>2, <2>3
<1>4. \E l \in Locks : \A t \in Loaders : ~(wants[t] = k /\ has[t] = l)
  BY <1>3
<1> QED
  BY <1>4 DEF FreshLock

LoadersTyped ==
  /\ at \in [Loaders -> {"idle", "missed", "made", "waiting", "locked", "checked", "loading",
                         "loaded"}]
  /\ wants \in [Loaders -> Models] /\ has \in [Loaders -> Locks \cup {NoLock}]
LockOfTyped == lockOf \in [Models -> Locks \cup {NoLock}]
PooledTyped == pooled \subseteq Models /\ usedBefore \subseteq pooled \X pooled
UsedIsOrder ==
  \A j, k \in pooled : j = k \/ <<j, k>> \in usedBefore \/ <<k, j>> \in usedBefore
AccessTyped == accessQueue \in Seq(Models) /\ Len(accessQueue) <= MaxModels
AsksTyped == asks \in 0 .. Asks /\ overlaps \in Nat /\ released \in BOOLEAN
\* An access puts a model after all the others, and leaves their order.
LEMMA UsedKeepsTheOrder ==
  ASSUME PoolTypeOK, NEW w \in Models, pooled' = pooled \cup {w}, IsUsed(w)
  PROVE  /\ pooled' \subseteq Models /\ usedBefore' \subseteq pooled' \X pooled'
         /\ \A j, k \in pooled' : j = k \/ <<j, k>> \in usedBefore' \/ <<k, j>> \in usedBefore'
<1>1. pooled' \subseteq Models /\ usedBefore' \subseteq pooled' \X pooled'
  BY DEF PoolTypeOK, IsUsed
<1>2. ASSUME NEW j \in pooled', NEW k \in pooled', j # k, j # w, k # w
      PROVE <<j, k>> \in usedBefore' \/ <<k, j>> \in usedBefore'
  <2>1. j \in pooled /\ k \in pooled
    BY <1>2
  <2>2. <<j, k>> \in usedBefore \/ <<k, j>> \in usedBefore
    BY <1>2, <2>1 DEF PoolTypeOK
  <2> QED
    BY <1>2, <2>2 DEF IsUsed
<1>3. ASSUME NEW j \in pooled', j # w PROVE <<j, w>> \in usedBefore'
  <2>1. <<j, w>> \in (pooled \ {w}) \X {w}
    BY <1>3
  <2> QED
    BY <2>1 DEF IsUsed
<1> QED
  BY <1>1, <1>2, <1>3

\* So does a removal.
LEMMA RemovedKeepsTheOrder ==
  ASSUME PoolTypeOK, NEW S, Removed(S)
  PROVE  /\ pooled' \subseteq Models /\ usedBefore' \subseteq pooled' \X pooled'
         /\ \A j, k \in pooled' : j = k \/ <<j, k>> \in usedBefore' \/ <<k, j>> \in usedBefore'
         /\ lockOf' \in [Models -> Locks \cup {NoLock}]
<1>1. lockOf' \in [Models -> Locks \cup {NoLock}]
  BY DEF PoolTypeOK, Removed
<1>2. pooled' \subseteq Models /\ usedBefore' \subseteq pooled' \X pooled'
  BY DEF PoolTypeOK, Removed
<1>3. ASSUME NEW j \in pooled', NEW k \in pooled', j # k
      PROVE <<j, k>> \in usedBefore' \/ <<k, j>> \in usedBefore'
  <2>1. j \in pooled /\ k \in pooled /\ j \notin S /\ k \notin S
    BY DEF Removed
  <2>2. <<j, k>> \in usedBefore \/ <<k, j>> \in usedBefore
    BY <1>3, <2>1 DEF PoolTypeOK
  <2> QED
    BY <2>1, <2>2 DEF Removed
<1> QED
  BY <1>1, <1>2, <1>3

\* A model taken from the pool: the queue has lost no more models than before.
LEMMA HitKeepsTheQueue ==
  ASSUME PoolTypeOK, NEW k \in pooled
  PROVE  LET q == Appended(RemoveFirst(accessQueue, k), k) IN
         /\ q \in Seq(Models) /\ Len(q) <= MaxModels
         /\ \E h \in Models : /\ pooled \ ToSet(q) \subseteq (Forgotten \ {k}) \cup {h}
                              /\ k \in Forgotten \/ pooled \ ToSet(q) \subseteq Forgotten
<1> DEFINE r == RemoveFirst(accessQueue, k)
<1> USE PoolAssumption
<1>1. accessQueue \in Seq(Models) /\ Len(accessQueue) <= MaxModels /\ k \in Models
  BY DEF PoolTypeOK
<1>2. CASE k \in ToSet(accessQueue)
  <2>1. /\ r \in Seq(Models) /\ Len(r) = Len(accessQueue) - 1
        /\ ToSet(accessQueue) \ {k} \subseteq ToSet(r)
    BY <1>1, <1>2, RemoveFirstTakesOne
  <2> HIDE DEF r
  <2>2. Len(r) < MaxModels /\ Len(r) <= MaxModels /\ r \in Seq(Models)
    BY <1>1, <2>1
  <2>3. /\ Appended(r, k) \in Seq(Models) /\ Len(Appended(r, k)) <= MaxModels
        /\ k \in ToSet(Appended(r, k)) /\ ToSet(r) \subseteq ToSet(Appended(r, k))
    BY <1>1, <2>2, AppendedKeeps
  <2>4. pooled \ ToSet(Appended(r, k)) \subseteq Forgotten \ {k}
    BY <2>1, <2>3 DEF Forgotten
  <2> QED
    BY <1>1, <2>3, <2>4 DEF r
<1>3. CASE k \notin ToSet(accessQueue)
  <2>1. r = accessQueue
    BY <1>1, <1>3 DEF RemoveFirst, ToSet
  <2> HIDE DEF r
  <2>2. PICK h \in Models : ToSet(accessQueue) \ {h} \subseteq ToSet(Appended(r, k))
    BY <1>1, <2>1, AppendedKeeps
  <2>3. /\ Appended(r, k) \in Seq(Models) /\ Len(Appended(r, k)) <= MaxModels
        /\ k \in ToSet(Appended(r, k))
    BY <1>1, <2>1, AppendedKeeps
  <2>4. pooled \ ToSet(Appended(r, k)) \subseteq (Forgotten \ {k}) \cup {h} /\ k \in Forgotten
    BY <1>3, <2>2, <2>3 DEF Forgotten
  <2> QED
    BY <2>3, <2>4 DEF r
<1> QED
  BY <1>2, <1>3

\* The initial state satisfies the invariant.
LEMMA PoolInitInv == PoolInit => PoolIInv
<1> SUFFICES ASSUME PoolInit PROVE PoolIInv
  OBVIOUS
<1> USE PoolAssumption
<1>1. PoolTypeOK
  <2>1. (CHOOSE k \in Models : TRUE) \in Models
    OBVIOUS
  <2>2. wants \in [Loaders -> Models]
    BY <2>1 DEF PoolInit
  <2>3. at \in [Loaders -> {"idle"}] /\ has \in [Loaders -> {NoLock}]
    BY DEF PoolInit
  <2>4. lockOf \in [Models -> {NoLock}]
    BY DEF PoolInit
  <2>5. pooled = {} /\ usedBefore = {} /\ accessQueue = <<>> /\ asks = 0 /\ overlaps = 0
        /\ released = FALSE
    BY DEF PoolInit
  <2>6. lockOf \in [Models -> Locks \cup {NoLock}] /\ has \in [Loaders -> Locks \cup {NoLock}]
    BY <2>3, <2>4
  <2>7. /\ at \in [Loaders -> {"idle", "missed", "made", "waiting", "locked", "checked",
                               "loading", "loaded"}]
    BY <2>3
  <2>8. accessQueue \in Seq(Models) /\ Len(accessQueue) <= MaxModels /\ asks \in 0 .. Asks
    BY <2>5
  <2> QED
    BY <2>2, <2>5, <2>6, <2>7, <2>8 DEF PoolTypeOK
<1>2. Forgotten = {} /\ HasRoom = {} /\ InLoad = {} /\ pooled = {} /\ overlaps = 0
  BY DEF PoolInit, Forgotten, HasRoom, InLoad, Loading
<1> QED
  BY <1>1, <1>2, FS_EmptySet DEF PoolIInv, LoadsAreCounted, RoomIsLeft, QueueSuffices

\* Every step preserves the types.
LEMMA PoolTypeNext == PoolTypeOK /\ [PoolNext]_poolVars => PoolTypeOK'
<1> SUFFICES ASSUME PoolTypeOK, [PoolNext]_poolVars PROVE PoolTypeOK'
  OBVIOUS
<1> USE DEF PoolTypeOK, LoaderGoes
<1>1. ASSUME NEW t \in Loaders, NEW m \in Models, PoolHit(t, m) PROVE PoolTypeOK'
  <2>1. m \in pooled /\ pooled' = pooled \cup {m} /\ IsUsed(m)
    BY <1>1 DEF PoolHit
  <2>2. LoadersTyped' /\ LockOfTyped' /\ AsksTyped'
    BY <1>1, PoolAssumption DEF LoadersTyped, LockOfTyped, AsksTyped, PoolHit
  <2>3. PooledTyped' /\ UsedIsOrder'
    BY <2>1, UsedKeepsTheOrder DEF PooledTyped, UsedIsOrder
  <2>4. AccessTyped'
    BY <1>1, <2>1, HitKeepsTheQueue DEF PoolHit, AccessTyped
  <2> QED
    BY <2>2, <2>3, <2>4 DEF LoadersTyped, LockOfTyped, PooledTyped, UsedIsOrder,
       AccessTyped, AsksTyped
<1>2. ASSUME NEW t \in Loaders, NEW m \in Models, PoolMiss(t, m) PROVE PoolTypeOK'
  BY <1>2, PoolAssumption DEF LoadersTyped, LockOfTyped, PooledTyped, UsedIsOrder,
     AccessTyped, AsksTyped, PoolMiss
<1>3. ASSUME NEW t \in Loaders, LockIsMade(t) PROVE PoolTypeOK'
  <2>1. FreshLock(wants[t]) \in Locks
    BY ThereIsAFreshLock
  <2>2. LoadersTyped' /\ LockOfTyped' /\ PooledTyped' /\ UsedIsOrder' /\ AccessTyped'
        /\ AsksTyped'
    BY <1>3, <2>1, PoolAssumption DEF LoadersTyped, LockOfTyped, PooledTyped, UsedIsOrder,
       AccessTyped, AsksTyped, LockIsMade
  <2> QED
    BY <2>2 DEF LoadersTyped, LockOfTyped, PooledTyped, UsedIsOrder, AccessTyped, AsksTyped
<1>4. ASSUME NEW t \in Loaders, LockIsFound(t) PROVE PoolTypeOK'
  BY <1>4 DEF LoadersTyped, LockOfTyped, PooledTyped, UsedIsOrder, AccessTyped, AsksTyped,
     LockIsFound
<1>5. ASSUME NEW t \in Loaders, LockIsTaken(t) PROVE PoolTypeOK'
  BY <1>5 DEF LoadersTyped, LockOfTyped, PooledTyped, UsedIsOrder, AccessTyped, AsksTyped,
     LockIsTaken
<1>6. ASSUME NEW t \in Loaders, ChecksAgain(t) PROVE PoolTypeOK'
  BY <1>6 DEF LoadersTyped, LockOfTyped, PooledTyped, UsedIsOrder, AccessTyped, AsksTyped,
     ChecksAgain
<1>7. ASSUME NEW t \in Loaders, EvictsOldest(t) PROVE PoolTypeOK'
  <2>1. PICK S : Removed(S)
    BY <1>7 DEF EvictsOldest
  <2>2. LoadersTyped' /\ AsksTyped'
    BY <1>7 DEF LoadersTyped, AsksTyped, EvictsOldest
  <2>3. LockOfTyped' /\ PooledTyped' /\ UsedIsOrder'
    BY <2>1, RemovedKeepsTheOrder DEF LockOfTyped, PooledTyped, UsedIsOrder
  <2>4. AccessTyped'
    BY <1>7, EvictionMakesRoom DEF EvictsOldest, AccessTyped
  <2> QED
    BY <2>2, <2>3, <2>4 DEF LoadersTyped, LockOfTyped, PooledTyped, UsedIsOrder,
       AccessTyped, AsksTyped
<1>8. ASSUME NEW t \in Loaders, Loads(t) PROVE PoolTypeOK'
  BY <1>8 DEF LoadersTyped, LockOfTyped, PooledTyped, UsedIsOrder, AccessTyped, AsksTyped,
     Loads
<1>9. ASSUME NEW t \in Loaders, Stores(t) PROVE PoolTypeOK'
  <2>1. wants[t] \in Models /\ pooled' = pooled \cup {wants[t]} /\ IsUsed(wants[t])
    BY <1>9 DEF Stores
  <2>2. LoadersTyped' /\ LockOfTyped' /\ AsksTyped'
    BY <1>9 DEF LoadersTyped, LockOfTyped, AsksTyped, Stores
  <2>3. PooledTyped' /\ UsedIsOrder'
    BY <2>1, UsedKeepsTheOrder DEF PooledTyped, UsedIsOrder
  <2>4. AccessTyped'
    BY <1>9, <2>1, AppendedKeeps DEF Stores, AccessTyped
  <2> QED
    BY <2>2, <2>3, <2>4 DEF LoadersTyped, LockOfTyped, PooledTyped, UsedIsOrder,
       AccessTyped, AsksTyped
<1>10. ASSUME NEW m \in Models, ReleaseModel(m) PROVE PoolTypeOK'
  <2>1. Removed({m})
    BY <1>10 DEF ReleaseModel
  <2>2. LoadersTyped' /\ AccessTyped' /\ AsksTyped'
    BY <1>10, PoolAssumption DEF LoadersTyped, AccessTyped, AsksTyped, ReleaseModel
  <2>3. LockOfTyped' /\ PooledTyped' /\ UsedIsOrder'
    BY <2>1, RemovedKeepsTheOrder DEF LockOfTyped, PooledTyped, UsedIsOrder
  <2> QED
    BY <2>2, <2>3 DEF LoadersTyped, LockOfTyped, PooledTyped, UsedIsOrder, AccessTyped,
       AsksTyped
<1>11. CASE ClearPool
  BY <1>11, PoolAssumption DEF LoadersTyped, LockOfTyped, PooledTyped, UsedIsOrder,
     AccessTyped, AsksTyped, ClearPool
<1>12. CASE UNCHANGED poolVars
  BY <1>12 DEF LoadersTyped, LockOfTyped, PooledTyped, UsedIsOrder, AccessTyped, AsksTyped,
     poolVars
<1> QED
  BY <1>1, <1>2, <1>3, <1>4, <1>5, <1>6, <1>7, <1>8, <1>9, <1>10, <1>11, <1>12
     DEF PoolNext, LoaderStep

\* A load begins when the thread has found, with the key's lock, that the model is missing.
LEMMA LoadsBegin ==
  ASSUME PoolTypeOK, [PoolNext]_poolVars
  PROVE  \/ InLoad' \subseteq InLoad /\ overlaps' = overlaps
         \/ /\ \E t \in Loaders : t \notin InLoad /\ InLoad' = InLoad \cup {t}
            /\ overlaps' = IF InLoad # {} THEN overlaps + 1 ELSE overlaps
            /\ HasRoom' = HasRoom /\ Forgotten' = Forgotten /\ pooled' = pooled
<1> USE DEF PoolTypeOK, LoaderGoes, InLoad, Loading
<1> DEFINE Goal == InLoad' \subseteq InLoad /\ overlaps' = overlaps
<1>1. ASSUME NEW t \in Loaders, NEW m \in Models, PoolHit(t, m) PROVE Goal
  BY <1>1 DEF PoolHit
<1>2. ASSUME NEW t \in Loaders, NEW m \in Models, PoolMiss(t, m) PROVE Goal
  BY <1>2 DEF PoolMiss
<1>3. ASSUME NEW t \in Loaders, LockIsMade(t) PROVE Goal
  BY <1>3 DEF LockIsMade
<1>4. ASSUME NEW t \in Loaders, LockIsFound(t) PROVE Goal
  BY <1>4 DEF LockIsFound
<1>5. ASSUME NEW t \in Loaders, LockIsTaken(t) PROVE Goal
  BY <1>5 DEF LockIsTaken
<1>6. ASSUME NEW t \in Loaders, ChecksAgain(t), wants[t] \in pooled PROVE Goal
  BY <1>6 DEF ChecksAgain
<1>7. ASSUME NEW t \in Loaders, ChecksAgain(t), wants[t] \notin pooled
      PROVE /\ t \notin InLoad /\ InLoad' = InLoad \cup {t}
            /\ overlaps' = IF InLoad # {} THEN overlaps + 1 ELSE overlaps
            /\ HasRoom' = HasRoom /\ Forgotten' = Forgotten /\ pooled' = pooled
  <2>1. at[t] = "locked" /\ at' = [at EXCEPT ![t] = "checked"]
    BY <1>7 DEF ChecksAgain
  <2>2. t \notin InLoad /\ InLoad' = InLoad \cup {t}
    BY <2>1
  <2>3. (\E u \in Loaders \ {t} : Loading(u)) <=> InLoad # {}
    BY <2>1
  <2>4. HasRoom' = HasRoom
    BY <2>1 DEF HasRoom
  <2>5. overlaps' = IF InLoad # {} THEN overlaps + 1 ELSE overlaps
    <3>1. overlaps' = IF \E u \in Loaders \ {t} : Loading(u) THEN overlaps + 1 ELSE overlaps
      BY <1>7 DEF ChecksAgain
    <3> QED
      BY <2>3, <3>1
  <2>6. Forgotten' = Forgotten /\ pooled' = pooled
    BY <1>7 DEF ChecksAgain, Forgotten
  <2> QED
    BY <2>2, <2>4, <2>5, <2>6
<1>8. ASSUME NEW t \in Loaders, EvictsOldest(t) PROVE Goal
  BY <1>8 DEF EvictsOldest
<1>9. ASSUME NEW t \in Loaders, Loads(t) PROVE Goal
  BY <1>9 DEF Loads
<1>10. ASSUME NEW t \in Loaders, Stores(t) PROVE Goal
  BY <1>10 DEF Stores
<1>11. ASSUME NEW m \in Models, ReleaseModel(m) PROVE Goal
  BY <1>11 DEF ReleaseModel
<1>12. CASE ClearPool
  BY <1>12 DEF ClearPool
<1>13. CASE UNCHANGED poolVars
  BY <1>13 DEF poolVars
<1> QED
  BY <1>1, <1>2, <1>3, <1>4, <1>5, <1>6, <1>7, <1>8, <1>9, <1>10, <1>11, <1>12, <1>13
     DEF PoolNext, LoaderStep

\* The loads under way have been counted, all but one.
LEMMA PoolLoadsNext ==
  PoolIInv /\ [PoolNext]_poolVars => LoadsAreCounted'
<1> SUFFICES ASSUME PoolIInv, [PoolNext]_poolVars PROVE LoadsAreCounted'
  OBVIOUS
<1> USE DEF PoolIInv, LoadsAreCounted
<1>1. IsFiniteSet(InLoad) /\ Cardinality(InLoad) \in Nat /\ overlaps \in Nat
  BY PoolIsFinite DEF PoolTypeOK
<1>2. CASE InLoad' \subseteq InLoad /\ overlaps' = overlaps
  <2>1. Cardinality(InLoad') <= Cardinality(InLoad) /\ Cardinality(InLoad') \in Nat
    BY <1>1, <1>2, FS_Subset, FS_CardinalityType
  <2> QED
    BY <1>1, <1>2, <2>1
<1>3. ASSUME NEW t \in Loaders, t \notin InLoad, InLoad' = InLoad \cup {t},
             overlaps' = IF InLoad # {} THEN overlaps + 1 ELSE overlaps
      PROVE  LoadsAreCounted'
  <2>1. Cardinality(InLoad') = Cardinality(InLoad) + 1
    BY <1>1, <1>3, FS_AddElement
  <2>2. InLoad = {} => Cardinality(InLoad) = 0
    BY FS_EmptySet
  <2> QED
    BY <1>1, <1>3, <2>1, <2>2
<1> QED
  BY <1>2, <1>3, LoadsBegin

\* The room that loads need is left to them.
LEMMA PoolRoomNext == PoolIInv /\ [PoolNext]_poolVars => RoomIsLeft'
<1> SUFFICES ASSUME PoolIInv, [PoolNext]_poolVars PROVE RoomIsLeft'
  OBVIOUS
<1> USE PoolAssumption DEF PoolIInv
<1> DEFINE Less == /\ pooled' \subseteq pooled /\ HasRoom' \subseteq HasRoom
                   /\ overlaps' >= overlaps
<1>1. /\ IsFiniteSet(InLoad) /\ Cardinality(InLoad) \in Nat
      /\ IsFiniteSet(HasRoom) /\ Cardinality(HasRoom) \in Nat
      /\ IsFiniteSet(pooled) /\ Cardinality(pooled) \in Nat
      /\ IsFiniteSet(Forgotten) /\ Cardinality(Forgotten) \in Nat
      /\ overlaps \in Nat /\ HasRoom \subseteq InLoad
  BY PoolIsFinite DEF PoolTypeOK, HasRoom, InLoad, Loading
<1>2. PoolTypeOK'
  BY PoolTypeNext
<1>3. overlaps' \in Nat /\ MaxModels \in Nat
  BY <1>2 DEF PoolTypeOK
<1>4. ASSUME Less PROVE RoomIsLeft'
  <2>1. /\ Cardinality(pooled') <= Cardinality(pooled) /\ Cardinality(pooled') \in Nat
        /\ Cardinality(HasRoom') <= Cardinality(HasRoom) /\ Cardinality(HasRoom') \in Nat
    BY <1>1, <1>4, FS_Subset, FS_CardinalityType
  <2> QED
    BY <1>1, <1>3, <1>4, <2>1 DEF RoomIsLeft
<1> USE DEF PoolTypeOK, LoaderGoes
<1>5. ASSUME NEW t \in Loaders, NEW m \in Models, PoolHit(t, m) PROVE Less
  BY <1>5 DEF PoolHit, HasRoom
<1>6. ASSUME NEW t \in Loaders, NEW m \in Models, PoolMiss(t, m) PROVE Less
  BY <1>6 DEF PoolMiss, HasRoom
<1>7. ASSUME NEW t \in Loaders, LockIsMade(t) PROVE Less
  BY <1>7 DEF LockIsMade, HasRoom
<1>8. ASSUME NEW t \in Loaders, LockIsFound(t) PROVE Less
  BY <1>8 DEF LockIsFound, HasRoom
<1>9. ASSUME NEW t \in Loaders, LockIsTaken(t) PROVE Less
  BY <1>9 DEF LockIsTaken, HasRoom
<1>10. ASSUME NEW t \in Loaders, ChecksAgain(t) PROVE Less
  BY <1>10 DEF ChecksAgain, HasRoom
<1>11. ASSUME NEW t \in Loaders, EvictsOldest(t) PROVE RoomIsLeft'
  <2>1. Cardinality(pooled') < MaxModels \/ pooled' = Forgotten
    BY <1>11, EvictionMakesRoom DEF EvictsOldest, Removed
  <2>2. overlaps' = overlaps /\ HasRoom' \subseteq InLoad
    BY <1>11 DEF EvictsOldest, HasRoom, InLoad, Loading
  <2>3. Cardinality(HasRoom') <= Cardinality(InLoad) /\ Cardinality(HasRoom') \in Nat
    BY <1>1, <2>2, FS_Subset, FS_CardinalityType
  <2>4. Cardinality(pooled') \in Nat
    <3>1. pooled' \subseteq pooled
      BY <1>11 DEF EvictsOldest, Removed
    <3> QED
      BY <1>1, <3>1, FS_Subset, FS_CardinalityType
  <2>5. CASE Cardinality(pooled') < MaxModels
    BY <1>1, <1>3, <2>2, <2>3, <2>4, <2>5 DEF RoomIsLeft, LoadsAreCounted
  <2>6. CASE pooled' = Forgotten
    BY <1>1, <1>3, <2>2, <2>3, <2>4, <2>6 DEF RoomIsLeft, QueueSuffices
  <2> QED
    BY <2>1, <2>5, <2>6
<1>12. ASSUME NEW t \in Loaders, Loads(t) PROVE Less
  BY <1>12 DEF Loads, HasRoom
<1>13. ASSUME NEW t \in Loaders, Stores(t) PROVE RoomIsLeft'
  <2>1. /\ pooled' = pooled \cup {wants[t]} /\ overlaps' = overlaps
        /\ t \in HasRoom /\ HasRoom' = HasRoom \ {t}
    BY <1>13 DEF Stores, HasRoom
  <2>2. Cardinality(HasRoom') = Cardinality(HasRoom) - 1
    BY <1>1, <2>1, FS_RemoveElement
  <2>3. Cardinality(pooled') <= Cardinality(pooled) + 1 /\ Cardinality(pooled') \in Nat
    BY <1>1, <2>1, OneMore
  <2> QED
    BY <1>1, <1>3, <2>1, <2>2, <2>3 DEF RoomIsLeft
<1>14. ASSUME NEW m \in Models, ReleaseModel(m) PROVE Less
  BY <1>14 DEF ReleaseModel, Removed, HasRoom
<1>15. ASSUME ClearPool PROVE Less
  BY <1>15 DEF ClearPool, HasRoom
<1>16. ASSUME UNCHANGED poolVars PROVE Less
  BY <1>16 DEF poolVars, HasRoom
<1> QED
  <2> HIDE DEF Less
  <2> QED
    BY <1>4, <1>5, <1>6, <1>7, <1>8, <1>9, <1>10, <1>11, <1>12, <1>13, <1>14, <1>15, <1>16
       DEF PoolNext, LoaderStep

\* The models that the queue has lost leave room for the loads under way.
LEMMA PoolQueueNext == PoolIInv /\ [PoolNext]_poolVars => QueueSuffices'
<1> SUFFICES ASSUME PoolIInv, [PoolNext]_poolVars PROVE QueueSuffices'
  OBVIOUS
<1> USE PoolAssumption DEF PoolIInv
<1> DEFINE Less == Forgotten' \subseteq Forgotten
<1>1. /\ IsFiniteSet(InLoad) /\ Cardinality(InLoad) \in Nat
      /\ IsFiniteSet(HasRoom) /\ Cardinality(HasRoom) \in Nat
      /\ IsFiniteSet(pooled) /\ Cardinality(pooled) \in Nat
      /\ IsFiniteSet(Forgotten) /\ Cardinality(Forgotten) \in Nat
      /\ overlaps \in Nat /\ MaxModels \in Nat \ {0}
  BY PoolIsFinite DEF PoolTypeOK
<1>2. CASE /\ \E t \in Loaders : t \notin InLoad /\ InLoad' = InLoad \cup {t}
           /\ overlaps' = IF InLoad # {} THEN overlaps + 1 ELSE overlaps
           /\ HasRoom' = HasRoom /\ Forgotten' = Forgotten /\ pooled' = pooled
  <2>1. Cardinality(InLoad') = Cardinality(InLoad) + 1
    BY <1>1, <1>2, FS_AddElement
  <2>2. InLoad = {} => Cardinality(InLoad) = 0
    BY FS_EmptySet
  <2>3. Forgotten' = Forgotten /\ overlaps' \in Nat
        /\ overlaps' = IF InLoad # {} THEN overlaps + 1 ELSE overlaps
    BY <1>1, <1>2
  <2> QED
    BY <1>1, <2>1, <2>2, <2>3 DEF QueueSuffices
<1>3. CASE InLoad' \subseteq InLoad /\ overlaps' = overlaps
  <2>0. /\ Cardinality(InLoad') <= Cardinality(InLoad) /\ Cardinality(InLoad') \in Nat
        /\ overlaps' = overlaps
    BY <1>1, <1>3, FS_Subset, FS_CardinalityType
  <2>1. ASSUME Less PROVE QueueSuffices'
    <3>1. /\ Cardinality(Forgotten') <= Cardinality(Forgotten) /\ Cardinality(Forgotten') \in Nat
      BY <1>1, <2>1, FS_Subset, FS_CardinalityType
    <3> QED
      BY <1>1, <2>0, <3>1 DEF QueueSuffices
  <2> USE DEF PoolTypeOK, LoaderGoes, Forgotten
  <2>2. ASSUME NEW t \in Loaders, NEW m \in Models, PoolHit(t, m) PROVE QueueSuffices'
    <3>1. m \in pooled /\ pooled' = pooled
          /\ accessQueue' = Appended(RemoveFirst(accessQueue, m), m)
      BY <2>2 DEF PoolHit
    <3>2. PICK h \in Models : /\ Forgotten' \subseteq (Forgotten \ {m}) \cup {h}
                              /\ m \in Forgotten \/ Forgotten' \subseteq Forgotten
      BY <3>1, HitKeepsTheQueue
    <3>3. CASE m \in Forgotten
      <4> HIDE DEF Forgotten
      <4>1. /\ IsFiniteSet(Forgotten \ {m})
            /\ Cardinality(Forgotten \ {m}) = Cardinality(Forgotten) - 1
        BY <1>1, <3>3, FS_RemoveElement
      <4>2. /\ IsFiniteSet((Forgotten \ {m}) \cup {h})
            /\ Cardinality((Forgotten \ {m}) \cup {h}) <= Cardinality(Forgotten)
        <5> DEFINE S == Forgotten \ {m}
        <5> HIDE DEF S
        <5>1. IsFiniteSet(S) /\ Cardinality(S) = Cardinality(Forgotten) - 1
          BY <4>1 DEF S
        <5>2. IsFiniteSet(S \cup {h}) /\ Cardinality(S \cup {h}) <= Cardinality(S) + 1
              /\ Cardinality(S \cup {h}) \in Nat
          BY <5>1, OneMore
        <5> QED
          BY <1>1, <5>1, <5>2 DEF S
      <4>3. /\ Cardinality(Forgotten') <= Cardinality((Forgotten \ {m}) \cup {h})
            /\ Cardinality(Forgotten') \in Nat
            /\ Cardinality((Forgotten \ {m}) \cup {h}) \in Nat
        BY <3>2, <4>2, FS_Subset, FS_CardinalityType
      <4> QED
        BY <1>1, <2>0, <4>2, <4>3 DEF QueueSuffices
    <3> QED
      BY <2>1, <3>2, <3>3
  <2>3. ASSUME NEW t \in Loaders, NEW m \in Models, PoolMiss(t, m) PROVE Less
    BY <2>3 DEF PoolMiss
  <2>4. ASSUME NEW t \in Loaders, LockIsMade(t) PROVE Less
    BY <2>4 DEF LockIsMade
  <2>5. ASSUME NEW t \in Loaders, LockIsFound(t) PROVE Less
    BY <2>5 DEF LockIsFound
  <2>6. ASSUME NEW t \in Loaders, LockIsTaken(t) PROVE Less
    BY <2>6 DEF LockIsTaken
  <2>7. ASSUME NEW t \in Loaders, ChecksAgain(t) PROVE Less
    BY <2>7 DEF ChecksAgain
  <2>8. ASSUME NEW t \in Loaders, EvictsOldest(t) PROVE Less
    BY <2>8, EvictionMakesRoom DEF EvictsOldest, Removed
  <2>9. ASSUME NEW t \in Loaders, Loads(t) PROVE Less
    BY <2>9 DEF Loads
  <2>10. ASSUME NEW t \in Loaders, Stores(t) PROVE QueueSuffices'
    <3> DEFINE w == wants[t]
    <3>1. /\ pooled' = pooled \cup {w} /\ accessQueue' = Appended(accessQueue, w)
          /\ w \in Models /\ t \in HasRoom /\ t \in InLoad /\ t \notin InLoad'
      BY <2>10 DEF Stores, HasRoom, InLoad, Loading
    <3>2. PICK h \in Models : ToSet(accessQueue) \ {h} \subseteq ToSet(accessQueue')
      BY <3>1, AppendedKeeps
    <3>3. w \in ToSet(accessQueue')
      BY <3>1, AppendedKeeps
    <3>4. Forgotten' \subseteq pooled /\ Forgotten' \subseteq Forgotten \cup {h}
      BY <3>1, <3>2, <3>3
    <3> HIDE DEF Forgotten
    <3>5. Cardinality(Forgotten') <= Cardinality(pooled) /\ Cardinality(Forgotten') \in Nat
      BY <1>1, <3>4, FS_Subset, FS_CardinalityType
    <3>6. Cardinality(Forgotten') <= Cardinality(Forgotten) + 1
      <4>1. /\ IsFiniteSet(Forgotten \cup {h})
            /\ Cardinality(Forgotten \cup {h}) <= Cardinality(Forgotten) + 1
            /\ Cardinality(Forgotten \cup {h}) \in Nat
        BY <1>1, OneMore
      <4>2. Cardinality(Forgotten') <= Cardinality(Forgotten \cup {h})
        BY <3>4, <4>1, FS_Subset
      <4> QED
        BY <1>1, <3>5, <4>1, <4>2
    <3>7. Cardinality(InLoad') <= Cardinality(InLoad) - 1
      <4>1. /\ IsFiniteSet(InLoad \ {t}) /\ InLoad' \subseteq InLoad \ {t}
            /\ Cardinality(InLoad \ {t}) = Cardinality(InLoad) - 1
        BY <1>1, <1>3, <3>1, FS_RemoveElement
      <4> QED
        BY <4>1, FS_Subset
    <3>8. Cardinality(HasRoom) >= 1
      <4>1. HasRoom # {}
        BY <3>1
      <4> QED
        BY <1>1, <4>1, FS_EmptySet
    <3>9. Cardinality(Forgotten') < MaxModels + overlaps
      BY <1>1, <3>5, <3>8 DEF RoomIsLeft
    <3> QED
      BY <1>1, <2>0, <3>5, <3>6, <3>7, <3>9 DEF QueueSuffices
  <2>11. ASSUME NEW m \in Models, ReleaseModel(m) PROVE Less
    BY <2>11 DEF ReleaseModel, Removed
  <2>12. ASSUME ClearPool PROVE Less
    BY <2>12 DEF ClearPool
  <2>13. ASSUME UNCHANGED poolVars PROVE Less
    BY <2>13 DEF poolVars
  <2> QED
    <3> HIDE DEF Less
    <3> QED
      BY <2>1, <2>2, <2>3, <2>4, <2>5, <2>6, <2>7, <2>8, <2>9, <2>10, <2>11, <2>12, <2>13
         DEF PoolNext, LoaderStep
<1> QED
  BY <1>2, <1>3, LoadsBegin

\* The pool exceeds its limit by no more than the loads that began beside another.
LEMMA PoolIsSafe == PoolInit /\ [][PoolNext]_poolVars => []PoolInv
<1>1. PoolInit => PoolIInv
  BY PoolInitInv
<1>2. PoolIInv /\ [PoolNext]_poolVars => PoolIInv'
  BY PoolTypeNext, PoolLoadsNext, PoolRoomNext, PoolQueueNext DEF PoolIInv
<1>3. PoolIInv => PoolInv
  <2> SUFFICES ASSUME PoolIInv PROVE PoolLimit
    BY DEF PoolIInv, PoolInv
  <2> QED
    BY PoolIsFinite, PoolAssumption DEF PoolIInv, RoomIsLeft, PoolLimit, PoolTypeOK
<1> QED
  BY <1>1, <1>2, <1>3, PTL

-----------------------------------------------------------------------------
(* backend_service.py.  As long as no request began beside another, the one under way is  *)
(* the last that began, and the flag is set only while it waits for the thread before it. *)

BegunInOrder ==
  \A p, q \in Preloads : p < q /\ preloadAsk[q] # "idle" => preloadAsk[p] # "idle"

LastIsActive ==
  ~crossed => \A p, q \in Preloads :
    preloadAsk[p] \notin {"idle", "done"} /\ q > p => preloadAsk[q] = "idle"

FlagIsAsked ==
  ~crossed /\ preloadCancel => \E p \in Preloads : preloadAsk[p] \in {"joining", "joined"}

PreloadIInv == PreloadTypeOK /\ NewestIsKept /\ BegunInOrder /\ LastIsActive /\ FlagIsAsked

PreAskTyped ==
  preloadAsk \in [Preloads -> {"idle", "missed", "joining", "joined", "cleared", "done"}]
PreloadOfTyped == preloadOf \in [Preloads -> CacheModels]
LoaderTyped ==
  loader \in [Preloads -> LoaderEnds \cup {"none", "preparing", "loading", "loaded",
                                           "announced", "warming", "warm", "storing"}]
ThreadTyped == preloadThread \in Preloads \cup {NoPreload}
LoadsForDone == \A p \in Preloads : loader[p] # "none" => preloadAsk[p] = "done"
PreFlagsTyped ==
  preloadCancel \in BOOLEAN /\ modelCache \subseteq CacheModels /\ crossed \in BOOLEAN
\* The initial state satisfies the invariant.
LEMMA PreloadInitInv == PreloadInit => PreloadIInv
<1> SUFFICES ASSUME PreloadInit PROVE PreloadIInv
  OBVIOUS
<1> USE PreloadAssumption DEF PreloadInit, Preloads
<1>1. PreloadTypeOK
  <2> USE DEF PreloadTypeOK, LoaderEnds
  <2>1. PreAskTyped
    BY DEF PreloadInit, PreAskTyped
  <2>2. PreloadOfTyped
    BY DEF PreloadInit, PreloadOfTyped
  <2>3. LoaderTyped
    BY DEF PreloadInit, LoaderTyped
  <2>4. ThreadTyped
    BY DEF PreloadInit, ThreadTyped
  <2>5. LoadsForDone
    BY DEF PreloadInit, LoadsForDone
  <2>6. PreFlagsTyped
    BY DEF PreloadInit, PreFlagsTyped
  <2> QED
    BY <2>1, <2>2, <2>3, <2>4, <2>5, <2>6 DEF PreAskTyped, PreloadOfTyped, LoaderTyped,
       ThreadTyped, LoadsForDone, PreFlagsTyped
<1> QED
  BY <1>1 DEF PreloadIInv, NewestIsKept, BegunInOrder, LastIsActive, FlagIsAsked

\* Every step preserves the types.
LEMMA PreloadTypeNext == PreloadIInv /\ [PreloadNext]_preloadVars => PreloadTypeOK'
<1> SUFFICES ASSUME PreloadIInv, [PreloadNext]_preloadVars PROVE PreloadTypeOK'
  OBVIOUS
<1> USE PreloadAssumption DEF PreloadIInv, PreloadTypeOK, Preloads, AskGoes, LoaderGoesTo,
     LoaderEnds
<1>1. ASSUME NEW r \in Preloads, NEW m \in CacheModels, PreloadBegins(r, m) PROVE PreloadTypeOK'
  BY <1>1 DEF PreAskTyped, PreloadOfTyped, LoaderTyped, ThreadTyped, LoadsForDone,
     PreFlagsTyped, PreloadBegins
<1>2. ASSUME NEW r \in Preloads, PreloadCancels(r) PROVE PreloadTypeOK'
  BY <1>2 DEF PreAskTyped, PreloadOfTyped, LoaderTyped, ThreadTyped, LoadsForDone,
     PreFlagsTyped, PreloadCancels
<1>3. ASSUME NEW r \in Preloads, PreloadJoins(r) PROVE PreloadTypeOK'
  BY <1>3 DEF PreAskTyped, PreloadOfTyped, LoaderTyped, ThreadTyped, LoadsForDone,
     PreFlagsTyped, PreloadJoins
<1>4. ASSUME NEW r \in Preloads, PreloadClears(r) PROVE PreloadTypeOK'
  BY <1>4 DEF PreAskTyped, PreloadOfTyped, LoaderTyped, ThreadTyped, LoadsForDone,
     PreFlagsTyped, PreloadClears
<1>5. ASSUME NEW r \in Preloads, PreloadLaunches(r) PROVE PreloadTypeOK'
  BY <1>5 DEF PreAskTyped, PreloadOfTyped, LoaderTyped, ThreadTyped, LoadsForDone,
     PreFlagsTyped, PreloadLaunches
<1>6. ASSUME NEW r \in Preloads, LoaderChecks(r) PROVE PreloadTypeOK'
  BY <1>6 DEF PreAskTyped, PreloadOfTyped, LoaderTyped, ThreadTyped, LoadsForDone,
     PreFlagsTyped, LoaderChecks
<1>7. ASSUME NEW r \in Preloads, LoaderLoads(r) PROVE PreloadTypeOK'
  BY <1>7 DEF PreAskTyped, PreloadOfTyped, LoaderTyped, ThreadTyped, LoadsForDone,
     PreFlagsTyped, LoaderLoads
<1>8. ASSUME NEW r \in Preloads, LoaderWarms(r) PROVE PreloadTypeOK'
  BY <1>8 DEF PreAskTyped, PreloadOfTyped, LoaderTyped, ThreadTyped, LoadsForDone,
     PreFlagsTyped, LoaderWarms
<1>9. ASSUME NEW r \in Preloads, LoaderStores(r) PROVE PreloadTypeOK'
  BY <1>9 DEF PreAskTyped, PreloadOfTyped, LoaderTyped, ThreadTyped, LoadsForDone,
     PreFlagsTyped, LoaderStores
<1>10. CASE ClearModelCache
  BY <1>10 DEF PreAskTyped, PreloadOfTyped, LoaderTyped, ThreadTyped, LoadsForDone,
     PreFlagsTyped, ClearModelCache
<1>11. CASE UNCHANGED preloadVars
  BY <1>11 DEF PreAskTyped, PreloadOfTyped, LoaderTyped, ThreadTyped, LoadsForDone,
     PreFlagsTyped, preloadVars
<1> QED
  BY <1>1, <1>2, <1>3, <1>4, <1>5, <1>6, <1>7, <1>8, <1>9, <1>10, <1>11 DEF PreloadNext,
       PreloadStep

\* Requests begin in their order.
LEMMA BegunInOrderNext == PreloadIInv /\ [PreloadNext]_preloadVars => BegunInOrder'
<1> SUFFICES ASSUME PreloadIInv, [PreloadNext]_preloadVars PROVE BegunInOrder'
  OBVIOUS
<1> USE PreloadAssumption DEF PreloadIInv, PreloadTypeOK, Preloads, AskGoes, LoaderGoesTo,
     BegunInOrder
<1>1. ASSUME NEW r \in Preloads, NEW m \in CacheModels, PreloadBegins(r, m) PROVE BegunInOrder'
  BY <1>1 DEF PreloadBegins
<1>2. ASSUME NEW r \in Preloads, PreloadCancels(r) PROVE BegunInOrder'
  BY <1>2 DEF PreloadCancels
<1>3. ASSUME NEW r \in Preloads, PreloadJoins(r) PROVE BegunInOrder'
  BY <1>3 DEF PreloadJoins
<1>4. ASSUME NEW r \in Preloads, PreloadClears(r) PROVE BegunInOrder'
  BY <1>4 DEF PreloadClears
<1>5. ASSUME NEW r \in Preloads, PreloadLaunches(r) PROVE BegunInOrder'
  BY <1>5 DEF PreloadLaunches
<1>6. ASSUME NEW r \in Preloads, LoaderChecks(r) PROVE BegunInOrder'
  BY <1>6 DEF LoaderChecks
<1>7. ASSUME NEW r \in Preloads, LoaderLoads(r) PROVE BegunInOrder'
  BY <1>7 DEF LoaderLoads
<1>8. ASSUME NEW r \in Preloads, LoaderWarms(r) PROVE BegunInOrder'
  BY <1>8 DEF LoaderWarms
<1>9. ASSUME NEW r \in Preloads, LoaderStores(r) PROVE BegunInOrder'
  BY <1>9 DEF LoaderStores
<1>10. CASE ClearModelCache
  BY <1>10 DEF ClearModelCache
<1>11. CASE UNCHANGED preloadVars
  BY <1>11 DEF preloadVars
<1> QED
  BY <1>1, <1>2, <1>3, <1>4, <1>5, <1>6, <1>7, <1>8, <1>9, <1>10, <1>11 DEF PreloadNext,
       PreloadStep

\* The request under way is the last that began.
LEMMA LastIsActiveNext == PreloadIInv /\ [PreloadNext]_preloadVars => LastIsActive'
<1> SUFFICES ASSUME PreloadIInv, [PreloadNext]_preloadVars PROVE LastIsActive'
  OBVIOUS
<1> USE PreloadAssumption DEF PreloadIInv, PreloadTypeOK, Preloads, AskGoes, LoaderGoesTo,
     LastIsActive, BegunInOrder
<1>1. ASSUME NEW r \in Preloads, NEW m \in CacheModels, PreloadBegins(r, m) PROVE LastIsActive'
  <2> SUFFICES ASSUME ~crossed', NEW p \in Preloads, NEW q \in Preloads,
                      preloadAsk'[p] \notin {"idle", "done"}, q > p
               PROVE  preloadAsk'[q] = "idle"
    OBVIOUS
  <2>1. \A o \in Preloads : preloadAsk[o] \in {"idle", "done"}
    BY <1>1 DEF PreloadBegins
  <2>2. p = r /\ q # r /\ preloadAsk'[q] = preloadAsk[q]
    BY <1>1, <2>1 DEF PreloadBegins
  <2>3. preloadAsk[r] = "idle"
    BY <1>1 DEF PreloadBegins
  <2> QED
    BY <2>2, <2>3
<1>2. ASSUME NEW r \in Preloads, PreloadCancels(r) PROVE LastIsActive'
  BY <1>2 DEF PreloadCancels
<1>3. ASSUME NEW r \in Preloads, PreloadJoins(r) PROVE LastIsActive'
  BY <1>3 DEF PreloadJoins
<1>4. ASSUME NEW r \in Preloads, PreloadClears(r) PROVE LastIsActive'
  BY <1>4 DEF PreloadClears
<1>5. ASSUME NEW r \in Preloads, PreloadLaunches(r) PROVE LastIsActive'
  BY <1>5 DEF PreloadLaunches
<1>6. ASSUME NEW r \in Preloads, LoaderChecks(r) PROVE LastIsActive'
  BY <1>6 DEF LoaderChecks
<1>7. ASSUME NEW r \in Preloads, LoaderLoads(r) PROVE LastIsActive'
  BY <1>7 DEF LoaderLoads
<1>8. ASSUME NEW r \in Preloads, LoaderWarms(r) PROVE LastIsActive'
  BY <1>8 DEF LoaderWarms
<1>9. ASSUME NEW r \in Preloads, LoaderStores(r) PROVE LastIsActive'
  BY <1>9 DEF LoaderStores
<1>10. CASE ClearModelCache
  BY <1>10 DEF ClearModelCache
<1>11. CASE UNCHANGED preloadVars
  BY <1>11 DEF preloadVars
<1> QED
  BY <1>1, <1>2, <1>3, <1>4, <1>5, <1>6, <1>7, <1>8, <1>9, <1>10, <1>11 DEF PreloadNext,
       PreloadStep

\* The flag is set while a request waits for a thread.
LEMMA FlagIsAskedNext == PreloadIInv /\ [PreloadNext]_preloadVars => FlagIsAsked'
<1> SUFFICES ASSUME PreloadIInv, [PreloadNext]_preloadVars PROVE FlagIsAsked'
  OBVIOUS
<1> USE PreloadAssumption DEF PreloadIInv, PreloadTypeOK, Preloads, AskGoes, LoaderGoesTo,
     FlagIsAsked, LastIsActive
<1>1. ASSUME NEW r \in Preloads, NEW m \in CacheModels, PreloadBegins(r, m) PROVE FlagIsAsked'
  BY <1>1 DEF PreloadBegins
<1>2. ASSUME NEW r \in Preloads, PreloadCancels(r) PROVE FlagIsAsked'
  BY <1>2 DEF PreloadCancels
<1>3. ASSUME NEW r \in Preloads, PreloadJoins(r) PROVE FlagIsAsked'
  BY <1>3 DEF PreloadJoins
<1>4. ASSUME NEW r \in Preloads, PreloadClears(r) PROVE FlagIsAsked'
  BY <1>4 DEF PreloadClears
<1>5. ASSUME NEW r \in Preloads, PreloadLaunches(r) PROVE FlagIsAsked'
  BY <1>5 DEF PreloadLaunches
<1>6. ASSUME NEW r \in Preloads, LoaderChecks(r) PROVE FlagIsAsked'
  BY <1>6 DEF LoaderChecks
<1>7. ASSUME NEW r \in Preloads, LoaderLoads(r) PROVE FlagIsAsked'
  BY <1>7 DEF LoaderLoads
<1>8. ASSUME NEW r \in Preloads, LoaderWarms(r) PROVE FlagIsAsked'
  BY <1>8 DEF LoaderWarms
<1>9. ASSUME NEW r \in Preloads, LoaderStores(r) PROVE FlagIsAsked'
  BY <1>9 DEF LoaderStores
<1>10. CASE ClearModelCache
  BY <1>10 DEF ClearModelCache
<1>11. CASE UNCHANGED preloadVars
  BY <1>11 DEF preloadVars
<1> QED
  BY <1>1, <1>2, <1>3, <1>4, <1>5, <1>6, <1>7, <1>8, <1>9, <1>10, <1>11 DEF PreloadNext,
       PreloadStep

\* A preload is cancelled by a later request only.
LEMMA NewestIsKeptNext == PreloadIInv /\ [PreloadNext]_preloadVars => NewestIsKept'
<1> SUFFICES ASSUME PreloadIInv, [PreloadNext]_preloadVars PROVE NewestIsKept'
  OBVIOUS
<1> USE PreloadAssumption DEF PreloadIInv, PreloadTypeOK, Preloads, AskGoes, LoaderGoesTo,
     NewestIsKept, LastIsActive, FlagIsAsked
<1>1. ASSUME NEW r \in Preloads, NEW m \in CacheModels, PreloadBegins(r, m) PROVE NewestIsKept'
  BY <1>1 DEF PreloadBegins
<1>2. ASSUME NEW r \in Preloads, PreloadCancels(r) PROVE NewestIsKept'
  BY <1>2 DEF PreloadCancels
<1>3. ASSUME NEW r \in Preloads, PreloadJoins(r) PROVE NewestIsKept'
  BY <1>3 DEF PreloadJoins
<1>4. ASSUME NEW r \in Preloads, PreloadClears(r) PROVE NewestIsKept'
  BY <1>4 DEF PreloadClears
<1>5. ASSUME NEW r \in Preloads, PreloadLaunches(r) PROVE NewestIsKept'
  BY <1>5 DEF PreloadLaunches
<1>6. ASSUME NEW r \in Preloads, LoaderChecks(r) PROVE NewestIsKept'
  BY SMTT(60), <1>6 DEF LoaderChecks
<1>7. ASSUME NEW r \in Preloads, LoaderLoads(r) PROVE NewestIsKept'
  BY <1>7 DEF LoaderLoads
<1>8. ASSUME NEW r \in Preloads, LoaderWarms(r) PROVE NewestIsKept'
  BY <1>8 DEF LoaderWarms
<1>9. ASSUME NEW r \in Preloads, LoaderStores(r) PROVE NewestIsKept'
  BY <1>9 DEF LoaderStores
<1>10. CASE ClearModelCache
  BY <1>10 DEF ClearModelCache
<1>11. CASE UNCHANGED preloadVars
  BY <1>11 DEF preloadVars
<1> QED
  BY <1>1, <1>2, <1>3, <1>4, <1>5, <1>6, <1>7, <1>8, <1>9, <1>10, <1>11 DEF PreloadNext,
       PreloadStep

\* A preload is cancelled by a later request only, if requests never overlapped.
LEMMA PreloadIsSafe == PreloadInit /\ [][PreloadNext]_preloadVars => []PreloadInv
<1>1. PreloadIInv /\ [PreloadNext]_preloadVars => PreloadIInv'
  BY PreloadTypeNext, BegunInOrderNext, LastIsActiveNext, FlagIsAskedNext, NewestIsKeptNext
     DEF PreloadIInv
<1>2. PreloadIInv => PreloadInv
  BY DEF PreloadIInv, PreloadInv
<1> QED
  BY PreloadInitInv, <1>1, <1>2, PTL

-----------------------------------------------------------------------------
(* fast_engine.py.  One worker runs at a time, and the chunks are in order wherever they   *)
(* are: those handled, then the one in hand, then the queue.                               *)

SttCounts == submitted \in 0 .. NChunks /\ runs \in 0 .. NRuns /\ faults \in 0 .. Faults

SttChunks ==
  /\ sttQueue \in Seq(1 .. NChunks) /\ Len(sttQueue) <= QueueLimit
  /\ results \in Seq(1 .. NChunks)
  /\ hand \in [Workers -> 0 .. NChunks]

SttPlaces ==
  /\ execMode \in {"auto", "gpu_only", "cpu_only"} /\ hasContext \in BOOLEAN
  /\ sttStop \in BOOLEAN /\ gpuFailed \in BOOLEAN
  /\ fate \in [1 .. NChunks -> Accepted \cup {"none", "stopped", "dropped", "segment",
                                              "rejected", "failed"}]
  /\ worker \in [Workers -> {"none", "loading", "on", "ended", "failed"}]
  /\ backend \in {"none", "cuda", "cpu"} /\ using \in [Workers -> {"none", "cuda", "cpu"}]
  /\ reported \in {"unknown", "cuda", "cpu"}

OneWorks ==
  \A w \in Workers : /\ worker[w] \in {"loading", "on"} => w = runs
                     /\ hand[w] # NoChunk => worker[w] = "on"

QueueInOrder ==
  /\ \A i, j \in 1 .. Len(sttQueue) : i < j => sttQueue[i] < sttQueue[j]
  /\ \A i \in 1 .. Len(sttQueue) : sttQueue[i] <= submitted

HandInOrder ==
  \A w \in Workers : hand[w] # NoChunk =>
    /\ hand[w] <= submitted
    /\ \A i \in 1 .. Len(sttQueue) : hand[w] < sttQueue[i]
    /\ \A i \in 1 .. Len(results) : results[i] < hand[w]

ResultsInOrder ==
  \A i \in 1 .. Len(results) :
    /\ results[i] <= submitted
    /\ \A j \in 1 .. Len(sttQueue) : results[i] < sttQueue[j]

SttIInv ==
  /\ SttCounts /\ SttChunks /\ SttPlaces
  /\ SegmentsInOrder /\ OneWorks /\ QueueInOrder /\ HandInOrder /\ ResultsInOrder

SttFlagsTyped ==
  /\ execMode \in {"auto", "gpu_only", "cpu_only"} /\ hasContext \in BOOLEAN
  /\ sttStop \in BOOLEAN /\ gpuFailed \in BOOLEAN
FateTyped ==
  fate \in [1 .. NChunks -> Accepted \cup {"none", "stopped", "dropped", "segment",
                                           "rejected", "failed"}]
WorkerTyped == worker \in [Workers -> {"none", "loading", "on", "ended", "failed"}]
BackendTyped ==
  /\ backend \in {"none", "cuda", "cpu"} /\ using \in [Workers -> {"none", "cuda", "cpu"}]
  /\ reported \in {"unknown", "cuda", "cpu"}
SttQueueTyped == sttQueue \in Seq(1 .. NChunks) /\ Len(sttQueue) <= QueueLimit
ResultsTyped == results \in Seq(1 .. NChunks)
HandTyped == hand \in [Workers -> 0 .. NChunks]
\* The initial state satisfies the invariant.
LEMMA SttInitInv == SttInit => SttIInv
<1> SUFFICES ASSUME SttInit PROVE SttIInv
  OBVIOUS
<1> USE SttAssumption DEF SttInit, NoChunk
<1>1. SttCounts /\ SttChunks
  BY DEF SttCounts, SttChunks
<1>2. SttPlaces
  <2> USE DEF SttPlaces, Accepted
  <2>1. SttFlagsTyped
    BY DEF SttInit, SttFlagsTyped
  <2>2. FateTyped
    BY DEF SttInit, FateTyped
  <2>3. WorkerTyped
    BY DEF SttInit, WorkerTyped
  <2>4. BackendTyped
    BY DEF SttInit, BackendTyped
  <2> QED
    BY <2>1, <2>2, <2>3, <2>4 DEF SttFlagsTyped, FateTyped, WorkerTyped, BackendTyped
<1> QED
  BY <1>1, <1>2 DEF SttIInv, SegmentsInOrder, OneWorks, QueueInOrder, HandInOrder,
                    ResultsInOrder

\* The counts keep to their bounds.
LEMMA SttCountsNext == SttIInv /\ [SttNext]_sttVars => SttCounts'
<1> SUFFICES ASSUME SttIInv, [SttNext]_sttVars PROVE SttCounts'
  OBVIOUS
<1> USE SttAssumption DEF SttIInv, NoChunk, SttCounts
<1>1. CASE SttStart
  BY <1>1 DEF SttStart
<1>2. CASE SttStop
  BY <1>2 DEF SttStop
<1>3. CASE Submit
  BY <1>3 DEF Submit
<1>4. ASSUME NEW u \in Workers, SttLoads(u) PROVE SttCounts'
  BY <1>4 DEF SttLoads, Device
<1>5. ASSUME NEW u \in Workers, SttTakes(u) PROVE SttCounts'
  BY <1>5 DEF SttTakes
<1>6. ASSUME NEW u \in Workers, SttEnds(u) PROVE SttCounts'
  BY <1>6 DEF SttEnds
<1>7. ASSUME NEW u \in Workers, SttDecodes(u) PROVE SttCounts'
  BY <1>7 DEF SttDecodes, ChunkEnds
<1>8. ASSUME NEW u \in Workers, SttRejects(u) PROVE SttCounts'
  BY <1>8 DEF SttRejects, Fault, ChunkEnds
<1>9. ASSUME NEW u \in Workers, SttFails(u) PROVE SttCounts'
  BY <1>9 DEF SttFails, Fault, ChunkEnds
<1>10. ASSUME NEW u \in Workers, SttGpuFails(u) PROVE SttCounts'
  BY <1>10 DEF SttGpuFails, Fault, ChunkEnds, Device
<1>11. CASE UNCHANGED sttVars
  BY <1>11 DEF sttVars
<1> QED
  BY <1>1, <1>2, <1>3, <1>4, <1>5, <1>6, <1>7, <1>8, <1>9, <1>10, <1>11 DEF SttNext, WorkerStep

\* The queue, the hands and the results hold chunks.
LEMMA SttChunksNext == SttIInv /\ [SttNext]_sttVars => SttChunks'
<1> SUFFICES ASSUME SttIInv, [SttNext]_sttVars PROVE SttChunks'
  OBVIOUS
<1> USE SttAssumption DEF SttIInv, NoChunk, SttChunks
<1>1. CASE SttStart
  BY <1>1 DEF SttQueueTyped, ResultsTyped, HandTyped, SttStart
<1>2. CASE SttStop
  BY <1>2 DEF SttQueueTyped, ResultsTyped, HandTyped, SttStop
<1>3. CASE Submit
  <2>1. \/ sttQueue' = sttQueue /\ submitted' = submitted + 1
        \/ /\ sttQueue' = Append(sttQueue, submitted') /\ submitted' = submitted + 1
           /\ Len(sttQueue) < QueueLimit
    BY <1>3 DEF Submit
  <2>2. submitted' \in 1 .. NChunks
    BY <1>3 DEF Submit, SttCounts
  <2>3. /\ Append(sttQueue, submitted') \in Seq(1 .. NChunks)
        /\ Len(Append(sttQueue, submitted')) = Len(sttQueue) + 1
        /\ \A i \in 1 .. Len(sttQueue) : Append(sttQueue, submitted')[i] = sttQueue[i]
        /\ Append(sttQueue, submitted')[Len(sttQueue) + 1] = submitted'
    BY <2>2, AppendProperties DEF SttChunks
  <2>4. Len(sttQueue) \in Nat /\ Len(sttQueue) <= QueueLimit /\ sttQueue \in Seq(1 .. NChunks)
    BY DEF SttChunks
  <2>5. sttQueue' \in Seq(1 .. NChunks) /\ Len(sttQueue') <= QueueLimit
    <3> HIDE DEF SttChunks
    <3> DEFINE a == Append(sttQueue, submitted')
    <3>1. a \in Seq(1 .. NChunks) /\ Len(a) = Len(sttQueue) + 1
      BY <2>3
    <3> HIDE DEF a
    <3>2. CASE sttQueue' = a /\ Len(sttQueue) < QueueLimit
      BY <2>4, <3>1, <3>2
    <3>3. CASE sttQueue' = sttQueue
      BY <2>4, <3>3
    <3> QED
      BY <2>1, <3>2, <3>3 DEF a
  <2>6. SttQueueTyped'
    BY <2>5 DEF SttQueueTyped
  <2>7. ResultsTyped' /\ HandTyped'
    BY <1>3 DEF ResultsTyped, HandTyped, Submit
  <2> QED
    BY <2>6, <2>7 DEF SttQueueTyped, ResultsTyped, HandTyped
<1>4. ASSUME NEW u \in Workers, SttLoads(u) PROVE SttChunks'
  BY <1>4 DEF SttQueueTyped, ResultsTyped, HandTyped, SttLoads, Device
<1>5. ASSUME NEW u \in Workers, SttTakes(u) PROVE SttChunks'
  <2>0. sttQueue # <<>> /\ sttQueue' = Tail(sttQueue)
          /\ hand' = [hand EXCEPT ![u] = Head(sttQueue)]
    BY <1>5 DEF SttTakes
  <2>7. /\ Tail(sttQueue) \in Seq(1 .. NChunks) /\ Len(Tail(sttQueue)) = Len(sttQueue) - 1
        /\ \A i \in 1 .. Len(sttQueue) - 1 : Tail(sttQueue)[i] = sttQueue[i + 1]
        /\ Head(sttQueue) = sttQueue[1] /\ Len(sttQueue) >= 1
    BY <2>0, HeadTailProperties DEF SttChunks
  <2>8. sttQueue[1] \in 1 .. NChunks
    BY <2>7 DEF SttChunks
  <2>1. SttQueueTyped'
    BY <2>0, <2>7 DEF SttQueueTyped
  <2>2. ResultsTyped'
    BY <1>5, <2>7, <2>8 DEF SttTakes, ResultsTyped
  <2>3. HandTyped'
    BY <2>0, <2>7, <2>8 DEF HandTyped
  <2> QED
    BY <2>1, <2>2, <2>3 DEF SttQueueTyped, ResultsTyped, HandTyped
<1>6. ASSUME NEW u \in Workers, SttEnds(u) PROVE SttChunks'
  BY <1>6 DEF SttQueueTyped, ResultsTyped, HandTyped, SttEnds
<1>7. ASSUME NEW u \in Workers, SttDecodes(u) PROVE SttChunks'
  <2>1. results' = Append(results, hand[u]) /\ hand[u] # 0 /\ hand[u] \in 1 .. NChunks
    BY <1>7 DEF SttDecodes, SttChunks
  <2>2. /\ Append(results, hand[u]) \in Seq(1 .. NChunks)
        /\ Len(Append(results, hand[u])) = Len(results) + 1
        /\ \A i \in 1 .. Len(results) : Append(results, hand[u])[i] = results[i]
        /\ Append(results, hand[u])[Len(results) + 1] = hand[u]
    BY <2>1, AppendProperties DEF SttChunks
  <2>3. SttQueueTyped' /\ HandTyped'
    BY <1>7 DEF SttQueueTyped, HandTyped, SttDecodes, ChunkEnds
  <2>4. ResultsTyped'
    BY <2>1, <2>2 DEF ResultsTyped
  <2> QED
    BY <2>3, <2>4 DEF SttQueueTyped, ResultsTyped, HandTyped
<1>8. ASSUME NEW u \in Workers, SttRejects(u) PROVE SttChunks'
  BY <1>8 DEF SttQueueTyped, ResultsTyped, HandTyped, SttRejects, Fault, ChunkEnds
<1>9. ASSUME NEW u \in Workers, SttFails(u) PROVE SttChunks'
  BY <1>9 DEF SttQueueTyped, ResultsTyped, HandTyped, SttFails, Fault, ChunkEnds
<1>10. ASSUME NEW u \in Workers, SttGpuFails(u) PROVE SttChunks'
  BY <1>10 DEF SttQueueTyped, ResultsTyped, HandTyped, SttGpuFails, Fault, ChunkEnds, Device
<1>11. CASE UNCHANGED sttVars
  BY <1>11 DEF SttQueueTyped, ResultsTyped, HandTyped, sttVars
<1> QED
  BY <1>1, <1>2, <1>3, <1>4, <1>5, <1>6, <1>7, <1>8, <1>9, <1>10, <1>11 DEF SttNext, WorkerStep

\* The fates and places are those there are.
LEMMA SttPlacesNext == SttIInv /\ [SttNext]_sttVars => SttPlaces'
<1> SUFFICES ASSUME SttIInv, [SttNext]_sttVars PROVE SttPlaces'
  OBVIOUS
<1> USE SttAssumption DEF SttIInv, NoChunk, SttPlaces, Accepted, Goes
<1>1. CASE SttStart
  BY <1>1 DEF SttFlagsTyped, FateTyped, WorkerTyped, BackendTyped, SttStart
<1>2. CASE SttStop
  BY <1>2 DEF SttFlagsTyped, FateTyped, WorkerTyped, BackendTyped, SttStop
<1>3. CASE Submit
  BY <1>3 DEF SttFlagsTyped, FateTyped, WorkerTyped, BackendTyped, Submit
<1>4. ASSUME NEW u \in Workers, SttLoads(u) PROVE SttPlaces'
  <2>1. SttFlagsTyped' /\ FateTyped' /\ WorkerTyped'
    BY <1>4 DEF SttFlagsTyped, FateTyped, WorkerTyped, SttLoads, Device
  <2>2. BackendTyped'
    BY ZenonT(60), <1>4 DEF SttLoads, Device, BackendTyped
  <2> QED
    BY <2>1, <2>2 DEF SttFlagsTyped, FateTyped, WorkerTyped, BackendTyped
<1>5. ASSUME NEW u \in Workers, SttTakes(u) PROVE SttPlaces'
  BY <1>5 DEF SttFlagsTyped, FateTyped, WorkerTyped, BackendTyped, SttTakes
<1>6. ASSUME NEW u \in Workers, SttEnds(u) PROVE SttPlaces'
  BY <1>6 DEF SttFlagsTyped, FateTyped, WorkerTyped, BackendTyped, SttEnds
<1>7. ASSUME NEW u \in Workers, SttDecodes(u) PROVE SttPlaces'
  BY <1>7 DEF SttFlagsTyped, FateTyped, WorkerTyped, BackendTyped, SttDecodes, ChunkEnds
<1>8. ASSUME NEW u \in Workers, SttRejects(u) PROVE SttPlaces'
  BY <1>8 DEF SttFlagsTyped, FateTyped, WorkerTyped, BackendTyped, SttRejects, Fault,
     ChunkEnds
<1>9. ASSUME NEW u \in Workers, SttFails(u) PROVE SttPlaces'
  BY <1>9 DEF SttFlagsTyped, FateTyped, WorkerTyped, BackendTyped, SttFails, Fault,
     ChunkEnds
<1>10. ASSUME NEW u \in Workers, SttGpuFails(u) PROVE SttPlaces'
  BY <1>10 DEF SttFlagsTyped, FateTyped, WorkerTyped, BackendTyped, SttGpuFails, Fault,
     ChunkEnds, Device
<1>11. CASE UNCHANGED sttVars
  BY <1>11 DEF SttFlagsTyped, FateTyped, WorkerTyped, BackendTyped, sttVars
<1> QED
  BY <1>1, <1>2, <1>3, <1>4, <1>5, <1>6, <1>7, <1>8, <1>9, <1>10, <1>11 DEF SttNext, WorkerStep

\* One worker runs at a time.
LEMMA OneWorksNext == SttIInv /\ [SttNext]_sttVars => OneWorks'
<1> SUFFICES ASSUME SttIInv, [SttNext]_sttVars PROVE OneWorks'
  OBVIOUS
<1> USE SttAssumption DEF SttIInv, NoChunk, OneWorks, Running, SttCounts, SttPlaces,
     SttChunks, Goes, Workers
<1>1. CASE SttStart
  BY <1>1 DEF SttStart
<1>2. CASE SttStop
  BY <1>2 DEF SttStop
<1>3. CASE Submit
  BY <1>3 DEF Submit
<1>4. ASSUME NEW u \in Workers, SttLoads(u) PROVE OneWorks'
  BY <1>4 DEF SttLoads, Device
<1>5. ASSUME NEW u \in Workers, SttTakes(u) PROVE OneWorks'
  BY <1>5 DEF SttTakes
<1>6. ASSUME NEW u \in Workers, SttEnds(u) PROVE OneWorks'
  BY <1>6 DEF SttEnds
<1>7. ASSUME NEW u \in Workers, SttDecodes(u) PROVE OneWorks'
  BY <1>7 DEF SttDecodes, ChunkEnds
<1>8. ASSUME NEW u \in Workers, SttRejects(u) PROVE OneWorks'
  BY <1>8 DEF SttRejects, Fault, ChunkEnds
<1>9. ASSUME NEW u \in Workers, SttFails(u) PROVE OneWorks'
  BY <1>9 DEF SttFails, Fault, ChunkEnds
<1>10. ASSUME NEW u \in Workers, SttGpuFails(u) PROVE OneWorks'
  BY <1>10 DEF SttGpuFails, Fault, ChunkEnds, Device
<1>11. CASE UNCHANGED sttVars
  BY <1>11 DEF sttVars
<1> QED
  BY <1>1, <1>2, <1>3, <1>4, <1>5, <1>6, <1>7, <1>8, <1>9, <1>10, <1>11 DEF SttNext, WorkerStep

\* The queue is in order.
LEMMA QueueInOrderNext == SttIInv /\ [SttNext]_sttVars => QueueInOrder'
<1> SUFFICES ASSUME SttIInv, [SttNext]_sttVars PROVE QueueInOrder'
  OBVIOUS
<1> USE SttAssumption DEF SttIInv, NoChunk, QueueInOrder
<1>1. CASE SttStart
  BY <1>1 DEF SttStart
<1>2. CASE SttStop
  BY <1>2 DEF SttStop
<1>3. CASE Submit
  <2>0. \/ sttQueue' = sttQueue /\ submitted' = submitted + 1
        \/ /\ sttQueue' = Append(sttQueue, submitted') /\ submitted' = submitted + 1
           /\ Len(sttQueue) < QueueLimit
    BY <1>3 DEF Submit
  <2>7. submitted' \in 1 .. NChunks
    BY <1>3 DEF Submit, SttCounts
  <2>8. /\ Append(sttQueue, submitted') \in Seq(1 .. NChunks)
        /\ Len(Append(sttQueue, submitted')) = Len(sttQueue) + 1
        /\ \A i \in 1 .. Len(sttQueue) : Append(sttQueue, submitted')[i] = sttQueue[i]
        /\ Append(sttQueue, submitted')[Len(sttQueue) + 1] = submitted'
    BY <2>7, AppendProperties DEF SttChunks
  <2>9. /\ Len(sttQueue) \in Nat /\ Len(results) \in Nat /\ submitted \in Nat
        /\ \A i \in 1 .. Len(sttQueue) : sttQueue[i] \in Nat
        /\ \A i \in 1 .. Len(results) : results[i] \in Nat
        /\ \A w \in Workers : hand[w] \in Nat
    BY DEF SttChunks, SttCounts
  <2>1. \A i \in 1 .. Len(sttQueue') :
          \/ i \in 1 .. Len(sttQueue) /\ sttQueue'[i] = sttQueue[i]
          \/ i = Len(sttQueue) + 1 /\ sttQueue'[i] = submitted + 1
    <3> DEFINE a == Append(sttQueue, submitted')
    <3> HIDE DEF a, QueueInOrder, HandInOrder, ResultsInOrder, SegmentsInOrder
    <3>1. CASE sttQueue' = a /\ submitted' = submitted + 1
      <4>1. /\ Len(a) = Len(sttQueue) + 1 /\ a[Len(sttQueue) + 1] = submitted'
            /\ \A i \in 1 .. Len(sttQueue) : a[i] = sttQueue[i]
        BY <2>8 DEF a
      <4>2. \A i \in 1 .. Len(sttQueue) + 1 : i \in 1 .. Len(sttQueue) \/ i = Len(sttQueue) + 1
        BY <2>9
      <4> QED
        BY <3>1, <4>1, <4>2
    <3>2. CASE sttQueue' = sttQueue
      BY <3>2
    <3> QED
      BY <2>0, <3>1, <3>2 DEF a
  <2>2. submitted' = submitted + 1 /\ results' = results /\ hand' = hand
    BY <2>0, <1>3 DEF Submit
  <2>3. Len(sttQueue') \in Nat /\ \A i \in 1 .. Len(sttQueue) : i \in Nat /\ i < Len(sttQueue) + 1
    BY <2>0, <2>8, <2>9
  <2>4. ASSUME NEW i \in 1 .. Len(sttQueue'), NEW j \in 1 .. Len(sttQueue'), i < j
        PROVE  sttQueue'[i] < sttQueue'[j]
    <3>1. i \in 1 .. Len(sttQueue) /\ sttQueue'[i] = sttQueue[i] /\ sttQueue[i] \in Nat
          /\ sttQueue[i] <= submitted
      BY <2>1, <2>3, <2>9, <2>4 DEF QueueInOrder
    <3>2. CASE j \in 1 .. Len(sttQueue) /\ sttQueue'[j] = sttQueue[j]
      BY <3>1, <3>2, <2>4 DEF QueueInOrder
    <3>3. CASE j = Len(sttQueue) + 1 /\ sttQueue'[j] = submitted + 1
      BY <3>1, <3>3, <2>9
    <3> QED
      BY <2>1, <3>2, <3>3
  <2>5. ASSUME NEW i \in 1 .. Len(sttQueue') PROVE sttQueue'[i] <= submitted'
    BY <2>1, <2>2, <2>9 DEF QueueInOrder
  <2> QED
    BY <2>4, <2>5 DEF QueueInOrder
<1>4. ASSUME NEW u \in Workers, SttLoads(u) PROVE QueueInOrder'
  BY <1>4 DEF SttLoads, Device
<1>5. ASSUME NEW u \in Workers, SttTakes(u) PROVE QueueInOrder'
  <2>0. sttQueue # <<>> /\ sttQueue' = Tail(sttQueue)
          /\ hand' = [hand EXCEPT ![u] = Head(sttQueue)]
    BY <1>5 DEF SttTakes
  <2>7. /\ Tail(sttQueue) \in Seq(1 .. NChunks) /\ Len(Tail(sttQueue)) = Len(sttQueue) - 1
        /\ \A i \in 1 .. Len(sttQueue) - 1 : Tail(sttQueue)[i] = sttQueue[i + 1]
        /\ Head(sttQueue) = sttQueue[1] /\ Len(sttQueue) >= 1
    BY <2>0, HeadTailProperties DEF SttChunks
  <2>8. sttQueue[1] \in 1 .. NChunks
    BY <2>7 DEF SttChunks
  <2>9. /\ Len(sttQueue) \in Nat /\ Len(results) \in Nat /\ submitted \in Nat
        /\ \A i \in 1 .. Len(sttQueue) : sttQueue[i] \in Nat
        /\ \A i \in 1 .. Len(results) : results[i] \in Nat
        /\ \A w \in Workers : hand[w] \in Nat
    BY DEF SttChunks, SttCounts
  <2>1. /\ 1 \in 1 .. Len(sttQueue) /\ hand' = [hand EXCEPT ![u] = sttQueue[1]]
        /\ \A i \in 1 .. Len(sttQueue') :
             i + 1 \in 1 .. Len(sttQueue) /\ sttQueue'[i] = sttQueue[i + 1]
    BY <2>0, <2>7, <2>9
  <2>2. submitted' = submitted /\ results' = results /\ hand \in [Workers -> 0 .. NChunks]
    BY <1>5 DEF SttTakes, SttChunks
  <2>3. \A i \in 1 .. Len(sttQueue') : sttQueue[1] \in Nat /\ i \in Nat /\ 1 < i + 1
    BY <2>1, <2>9
  <2>4. ASSUME NEW i \in 1 .. Len(sttQueue'), NEW j \in 1 .. Len(sttQueue'), i < j
        PROVE  sttQueue'[i] < sttQueue'[j]
    <3>1. /\ i + 1 \in 1 .. Len(sttQueue) /\ sttQueue'[i] = sttQueue[i + 1]
          /\ j + 1 \in 1 .. Len(sttQueue) /\ sttQueue'[j] = sttQueue[j + 1] /\ i + 1 < j + 1
      BY <2>1, <2>4
    <3> QED
      BY <3>1 DEF QueueInOrder
  <2>5. ASSUME NEW i \in 1 .. Len(sttQueue') PROVE sttQueue'[i] <= submitted'
    BY <2>1, <2>2 DEF QueueInOrder
  <2> QED
    BY <2>4, <2>5 DEF QueueInOrder
<1>6. ASSUME NEW u \in Workers, SttEnds(u) PROVE QueueInOrder'
  BY <1>6 DEF SttEnds
<1>7. ASSUME NEW u \in Workers, SttDecodes(u) PROVE QueueInOrder'
  BY <1>7 DEF SttDecodes, ChunkEnds
<1>8. ASSUME NEW u \in Workers, SttRejects(u) PROVE QueueInOrder'
  BY <1>8 DEF SttRejects, Fault, ChunkEnds
<1>9. ASSUME NEW u \in Workers, SttFails(u) PROVE QueueInOrder'
  BY <1>9 DEF SttFails, Fault, ChunkEnds
<1>10. ASSUME NEW u \in Workers, SttGpuFails(u) PROVE QueueInOrder'
  BY <1>10 DEF SttGpuFails, Fault, ChunkEnds, Device
<1>11. CASE UNCHANGED sttVars
  BY <1>11 DEF sttVars
<1> QED
  BY <1>1, <1>2, <1>3, <1>4, <1>5, <1>6, <1>7, <1>8, <1>9, <1>10, <1>11 DEF SttNext, WorkerStep

\* The chunk in hand is before the queue.
LEMMA HandInOrderNext == SttIInv /\ [SttNext]_sttVars => HandInOrder'
<1> SUFFICES ASSUME SttIInv, [SttNext]_sttVars PROVE HandInOrder'
  OBVIOUS
<1> USE SttAssumption DEF SttIInv, NoChunk, HandInOrder, QueueInOrder, ResultsInOrder, OneWorks
<1>1. CASE SttStart
  BY <1>1 DEF SttStart
<1>2. CASE SttStop
  BY <1>2 DEF SttStop
<1>3. CASE Submit
  <2>0. \/ sttQueue' = sttQueue /\ submitted' = submitted + 1
        \/ /\ sttQueue' = Append(sttQueue, submitted') /\ submitted' = submitted + 1
           /\ Len(sttQueue) < QueueLimit
    BY <1>3 DEF Submit
  <2>7. submitted' \in 1 .. NChunks
    BY <1>3 DEF Submit, SttCounts
  <2>8. /\ Append(sttQueue, submitted') \in Seq(1 .. NChunks)
        /\ Len(Append(sttQueue, submitted')) = Len(sttQueue) + 1
        /\ \A i \in 1 .. Len(sttQueue) : Append(sttQueue, submitted')[i] = sttQueue[i]
        /\ Append(sttQueue, submitted')[Len(sttQueue) + 1] = submitted'
    BY <2>7, AppendProperties DEF SttChunks
  <2>9. /\ Len(sttQueue) \in Nat /\ Len(results) \in Nat /\ submitted \in Nat
        /\ \A i \in 1 .. Len(sttQueue) : sttQueue[i] \in Nat
        /\ \A i \in 1 .. Len(results) : results[i] \in Nat
        /\ \A w \in Workers : hand[w] \in Nat
    BY DEF SttChunks, SttCounts
  <2>1. \A i \in 1 .. Len(sttQueue') :
          \/ i \in 1 .. Len(sttQueue) /\ sttQueue'[i] = sttQueue[i]
          \/ i = Len(sttQueue) + 1 /\ sttQueue'[i] = submitted + 1
    <3> DEFINE a == Append(sttQueue, submitted')
    <3> HIDE DEF a, QueueInOrder, HandInOrder, ResultsInOrder, SegmentsInOrder
    <3>1. CASE sttQueue' = a /\ submitted' = submitted + 1
      <4>1. /\ Len(a) = Len(sttQueue) + 1 /\ a[Len(sttQueue) + 1] = submitted'
            /\ \A i \in 1 .. Len(sttQueue) : a[i] = sttQueue[i]
        BY <2>8 DEF a
      <4>2. \A i \in 1 .. Len(sttQueue) + 1 : i \in 1 .. Len(sttQueue) \/ i = Len(sttQueue) + 1
        BY <2>9
      <4> QED
        BY <3>1, <4>1, <4>2
    <3>2. CASE sttQueue' = sttQueue
      BY <3>2
    <3> QED
      BY <2>0, <3>1, <3>2 DEF a
  <2>2. submitted' = submitted + 1 /\ results' = results /\ hand' = hand
    BY <2>0, <1>3 DEF Submit
  <2>3. Len(sttQueue') \in Nat /\ \A i \in 1 .. Len(sttQueue) : i \in Nat /\ i < Len(sttQueue) + 1
    BY <2>0, <2>8, <2>9
  <2>4. ASSUME NEW w \in Workers, hand[w] # 0
        PROVE  /\ hand[w] <= submitted /\ \A i \in 1 .. Len(results) : results[i] < hand[w]
               /\ \A i \in 1 .. Len(sttQueue) : hand[w] < sttQueue[i]
    BY <2>4 DEF HandInOrder
  <2>5. ASSUME NEW w \in Workers, hand[w] # 0, NEW i \in 1 .. Len(sttQueue')
        PROVE  hand[w] < sttQueue'[i]
    <3> HIDE DEF HandInOrder, QueueInOrder, ResultsInOrder
    <3>1. CASE i \in 1 .. Len(sttQueue) /\ sttQueue'[i] = sttQueue[i]
      BY <2>4, <2>5, <3>1
    <3>2. CASE i = Len(sttQueue) + 1 /\ sttQueue'[i] = submitted + 1
      BY <2>4, <2>5, <2>9, <3>2
    <3> QED
      BY <2>1, <3>1, <3>2
  <2>6. ASSUME NEW w \in Workers, hand[w] # 0 PROVE hand[w] <= submitted'
    BY <2>2, <2>4, <2>6, <2>9
  <2> QED
    BY <2>2, <2>4, <2>5, <2>6 DEF HandInOrder
<1>4. ASSUME NEW u \in Workers, SttLoads(u) PROVE HandInOrder'
  BY <1>4 DEF SttLoads, Device
<1>5. ASSUME NEW u \in Workers, SttTakes(u) PROVE HandInOrder'
  <2>0. sttQueue # <<>> /\ sttQueue' = Tail(sttQueue)
          /\ hand' = [hand EXCEPT ![u] = Head(sttQueue)]
    BY <1>5 DEF SttTakes
  <2>7. /\ Tail(sttQueue) \in Seq(1 .. NChunks) /\ Len(Tail(sttQueue)) = Len(sttQueue) - 1
        /\ \A i \in 1 .. Len(sttQueue) - 1 : Tail(sttQueue)[i] = sttQueue[i + 1]
        /\ Head(sttQueue) = sttQueue[1] /\ Len(sttQueue) >= 1
    BY <2>0, HeadTailProperties DEF SttChunks
  <2>8. sttQueue[1] \in 1 .. NChunks
    BY <2>7 DEF SttChunks
  <2>9. /\ Len(sttQueue) \in Nat /\ Len(results) \in Nat /\ submitted \in Nat
        /\ \A i \in 1 .. Len(sttQueue) : sttQueue[i] \in Nat
        /\ \A i \in 1 .. Len(results) : results[i] \in Nat
        /\ \A w \in Workers : hand[w] \in Nat
    BY DEF SttChunks, SttCounts
  <2>1. /\ 1 \in 1 .. Len(sttQueue) /\ hand' = [hand EXCEPT ![u] = sttQueue[1]]
        /\ \A i \in 1 .. Len(sttQueue') :
             i + 1 \in 1 .. Len(sttQueue) /\ sttQueue'[i] = sttQueue[i + 1]
    BY <2>0, <2>7, <2>9
  <2>2. submitted' = submitted /\ results' = results /\ hand \in [Workers -> 0 .. NChunks]
    BY <1>5 DEF SttTakes, SttChunks
  <2>3. \A i \in 1 .. Len(sttQueue') : sttQueue[1] \in Nat /\ i \in Nat /\ 1 < i + 1
    BY <2>1, <2>9
  <2>4. /\ sttQueue[1] <= submitted
        /\ \A i \in 1 .. Len(sttQueue') : sttQueue[1] < sttQueue'[i]
        /\ \A i \in 1 .. Len(results) : results[i] < sttQueue[1]
    BY <2>1, <2>3 DEF QueueInOrder, ResultsInOrder
  <2>5. \A w \in Workers : \/ w = u /\ hand'[w] = sttQueue[1]
                          \/ hand'[w] = hand[w]
    BY <2>1, <2>2
  <2>6. \A w \in Workers : hand[w] # 0 =>
          /\ hand[w] <= submitted
          /\ \A i \in 1 .. Len(sttQueue') : hand[w] < sttQueue'[i]
          /\ \A i \in 1 .. Len(results) : results[i] < hand[w]
    BY <2>1 DEF HandInOrder
  <2> HIDE DEF QueueInOrder, ResultsInOrder
  <2> QED
    BY <2>2, <2>4, <2>5, <2>6 DEF HandInOrder
<1>6. ASSUME NEW u \in Workers, SttEnds(u) PROVE HandInOrder'
  BY <1>6 DEF SttEnds
<1>7. ASSUME NEW u \in Workers, SttDecodes(u) PROVE HandInOrder'
  <2>0. results' = Append(results, hand[u]) /\ hand[u] # 0 /\ hand[u] \in 1 .. NChunks
    BY <1>7 DEF SttDecodes, SttChunks
  <2>8. /\ Append(results, hand[u]) \in Seq(1 .. NChunks)
        /\ Len(Append(results, hand[u])) = Len(results) + 1
        /\ \A i \in 1 .. Len(results) : Append(results, hand[u])[i] = results[i]
        /\ Append(results, hand[u])[Len(results) + 1] = hand[u]
    BY <2>0, AppendProperties DEF SttChunks
  <2>9. /\ Len(sttQueue) \in Nat /\ Len(results) \in Nat /\ submitted \in Nat
        /\ \A i \in 1 .. Len(sttQueue) : sttQueue[i] \in Nat
        /\ \A i \in 1 .. Len(results) : results[i] \in Nat
        /\ \A w \in Workers : hand[w] \in Nat
    BY DEF SttChunks, SttCounts
  <2>1. \A i \in 1 .. Len(results') :
          \/ i \in 1 .. Len(results) /\ results'[i] = results[i]
          \/ i = Len(results) + 1 /\ results'[i] = hand[u]
    BY <2>0, <2>8, <2>9
  <2>2. /\ submitted' = submitted /\ sttQueue' = sttQueue /\ hand' = [hand EXCEPT ![u] = 0]
        /\ hand \in [Workers -> 0 .. NChunks]
    BY <1>7 DEF SttDecodes, SttChunks, ChunkEnds
  <2> QED
    BY <2>0, <2>1, <2>2, <2>9
<1>8. ASSUME NEW u \in Workers, SttRejects(u) PROVE HandInOrder'
  BY <1>8 DEF SttRejects, Fault, ChunkEnds
<1>9. ASSUME NEW u \in Workers, SttFails(u) PROVE HandInOrder'
  BY <1>9 DEF SttFails, Fault, ChunkEnds
<1>10. ASSUME NEW u \in Workers, SttGpuFails(u) PROVE HandInOrder'
  BY <1>10 DEF SttGpuFails, Fault, ChunkEnds, Device
<1>11. CASE UNCHANGED sttVars
  BY <1>11 DEF sttVars
<1> QED
  BY <1>1, <1>2, <1>3, <1>4, <1>5, <1>6, <1>7, <1>8, <1>9, <1>10, <1>11 DEF SttNext, WorkerStep

\* The chunks handled are before the queue.
LEMMA ResultsInOrderNext == SttIInv /\ [SttNext]_sttVars => ResultsInOrder'
<1> SUFFICES ASSUME SttIInv, [SttNext]_sttVars PROVE ResultsInOrder'
  OBVIOUS
<1> USE SttAssumption DEF SttIInv, NoChunk, ResultsInOrder, HandInOrder
<1>1. CASE SttStart
  BY <1>1 DEF SttStart
<1>2. CASE SttStop
  BY <1>2 DEF SttStop
<1>3. CASE Submit
  <2>0. \/ sttQueue' = sttQueue /\ submitted' = submitted + 1
        \/ /\ sttQueue' = Append(sttQueue, submitted') /\ submitted' = submitted + 1
           /\ Len(sttQueue) < QueueLimit
    BY <1>3 DEF Submit
  <2>7. submitted' \in 1 .. NChunks
    BY <1>3 DEF Submit, SttCounts
  <2>8. /\ Append(sttQueue, submitted') \in Seq(1 .. NChunks)
        /\ Len(Append(sttQueue, submitted')) = Len(sttQueue) + 1
        /\ \A i \in 1 .. Len(sttQueue) : Append(sttQueue, submitted')[i] = sttQueue[i]
        /\ Append(sttQueue, submitted')[Len(sttQueue) + 1] = submitted'
    BY <2>7, AppendProperties DEF SttChunks
  <2>9. /\ Len(sttQueue) \in Nat /\ Len(results) \in Nat /\ submitted \in Nat
        /\ \A i \in 1 .. Len(sttQueue) : sttQueue[i] \in Nat
        /\ \A i \in 1 .. Len(results) : results[i] \in Nat
        /\ \A w \in Workers : hand[w] \in Nat
    BY DEF SttChunks, SttCounts
  <2>1. \A i \in 1 .. Len(sttQueue') :
          \/ i \in 1 .. Len(sttQueue) /\ sttQueue'[i] = sttQueue[i]
          \/ i = Len(sttQueue) + 1 /\ sttQueue'[i] = submitted + 1
    <3> DEFINE a == Append(sttQueue, submitted')
    <3> HIDE DEF a, QueueInOrder, HandInOrder, ResultsInOrder, SegmentsInOrder
    <3>1. CASE sttQueue' = a /\ submitted' = submitted + 1
      <4>1. /\ Len(a) = Len(sttQueue) + 1 /\ a[Len(sttQueue) + 1] = submitted'
            /\ \A i \in 1 .. Len(sttQueue) : a[i] = sttQueue[i]
        BY <2>8 DEF a
      <4>2. \A i \in 1 .. Len(sttQueue) + 1 : i \in 1 .. Len(sttQueue) \/ i = Len(sttQueue) + 1
        BY <2>9
      <4> QED
        BY <3>1, <4>1, <4>2
    <3>2. CASE sttQueue' = sttQueue
      BY <3>2
    <3> QED
      BY <2>0, <3>1, <3>2 DEF a
  <2>2. submitted' = submitted + 1 /\ results' = results /\ hand' = hand
    BY <2>0, <1>3 DEF Submit
  <2>3. Len(sttQueue') \in Nat /\ \A i \in 1 .. Len(sttQueue) : i \in Nat /\ i < Len(sttQueue) + 1
    BY <2>0, <2>8, <2>9
  <2> QED
    BY <2>1, <2>2, <2>3, <2>9
<1>4. ASSUME NEW u \in Workers, SttLoads(u) PROVE ResultsInOrder'
  BY <1>4 DEF SttLoads, Device
<1>5. ASSUME NEW u \in Workers, SttTakes(u) PROVE ResultsInOrder'
  <2>0. sttQueue # <<>> /\ sttQueue' = Tail(sttQueue)
          /\ hand' = [hand EXCEPT ![u] = Head(sttQueue)]
    BY <1>5 DEF SttTakes
  <2>7. /\ Tail(sttQueue) \in Seq(1 .. NChunks) /\ Len(Tail(sttQueue)) = Len(sttQueue) - 1
        /\ \A i \in 1 .. Len(sttQueue) - 1 : Tail(sttQueue)[i] = sttQueue[i + 1]
        /\ Head(sttQueue) = sttQueue[1] /\ Len(sttQueue) >= 1
    BY <2>0, HeadTailProperties DEF SttChunks
  <2>8. sttQueue[1] \in 1 .. NChunks
    BY <2>7 DEF SttChunks
  <2>9. /\ Len(sttQueue) \in Nat /\ Len(results) \in Nat /\ submitted \in Nat
        /\ \A i \in 1 .. Len(sttQueue) : sttQueue[i] \in Nat
        /\ \A i \in 1 .. Len(results) : results[i] \in Nat
        /\ \A w \in Workers : hand[w] \in Nat
    BY DEF SttChunks, SttCounts
  <2>1. /\ 1 \in 1 .. Len(sttQueue) /\ hand' = [hand EXCEPT ![u] = sttQueue[1]]
        /\ \A i \in 1 .. Len(sttQueue') :
             i + 1 \in 1 .. Len(sttQueue) /\ sttQueue'[i] = sttQueue[i + 1]
    BY <2>0, <2>7, <2>9
  <2>2. submitted' = submitted /\ results' = results /\ hand \in [Workers -> 0 .. NChunks]
    BY <1>5 DEF SttTakes, SttChunks
  <2>3. \A i \in 1 .. Len(sttQueue') : sttQueue[1] \in Nat /\ i \in Nat /\ 1 < i + 1
    BY <2>1, <2>9
  <2> QED
    BY <2>1, <2>2, <2>3, <2>9
<1>6. ASSUME NEW u \in Workers, SttEnds(u) PROVE ResultsInOrder'
  BY <1>6 DEF SttEnds
<1>7. ASSUME NEW u \in Workers, SttDecodes(u) PROVE ResultsInOrder'
  <2>0. results' = Append(results, hand[u]) /\ hand[u] # 0 /\ hand[u] \in 1 .. NChunks
    BY <1>7 DEF SttDecodes, SttChunks
  <2>8. /\ Append(results, hand[u]) \in Seq(1 .. NChunks)
        /\ Len(Append(results, hand[u])) = Len(results) + 1
        /\ \A i \in 1 .. Len(results) : Append(results, hand[u])[i] = results[i]
        /\ Append(results, hand[u])[Len(results) + 1] = hand[u]
    BY <2>0, AppendProperties DEF SttChunks
  <2>9. /\ Len(sttQueue) \in Nat /\ Len(results) \in Nat /\ submitted \in Nat
        /\ \A i \in 1 .. Len(sttQueue) : sttQueue[i] \in Nat
        /\ \A i \in 1 .. Len(results) : results[i] \in Nat
        /\ \A w \in Workers : hand[w] \in Nat
    BY DEF SttChunks, SttCounts
  <2>1. \A i \in 1 .. Len(results') :
          \/ i \in 1 .. Len(results) /\ results'[i] = results[i]
          \/ i = Len(results) + 1 /\ results'[i] = hand[u]
    BY <2>0, <2>8, <2>9
  <2>2. /\ submitted' = submitted /\ sttQueue' = sttQueue /\ hand' = [hand EXCEPT ![u] = 0]
        /\ hand \in [Workers -> 0 .. NChunks]
    BY <1>7 DEF SttDecodes, SttChunks, ChunkEnds
  <2> QED
    BY <2>0, <2>1, <2>2, <2>9
<1>8. ASSUME NEW u \in Workers, SttRejects(u) PROVE ResultsInOrder'
  BY <1>8 DEF SttRejects, Fault, ChunkEnds
<1>9. ASSUME NEW u \in Workers, SttFails(u) PROVE ResultsInOrder'
  BY <1>9 DEF SttFails, Fault, ChunkEnds
<1>10. ASSUME NEW u \in Workers, SttGpuFails(u) PROVE ResultsInOrder'
  BY <1>10 DEF SttGpuFails, Fault, ChunkEnds, Device
<1>11. CASE UNCHANGED sttVars
  BY <1>11 DEF sttVars
<1> QED
  BY <1>1, <1>2, <1>3, <1>4, <1>5, <1>6, <1>7, <1>8, <1>9, <1>10, <1>11 DEF SttNext, WorkerStep

\* The segments are in the order of their chunks.
LEMMA SegmentsInOrderNext == SttIInv /\ [SttNext]_sttVars => SegmentsInOrder'
<1> SUFFICES ASSUME SttIInv, [SttNext]_sttVars PROVE SegmentsInOrder'
  OBVIOUS
<1> USE SttAssumption DEF SttIInv, NoChunk, SegmentsInOrder, HandInOrder
<1>1. CASE SttStart
  BY <1>1 DEF SttStart
<1>2. CASE SttStop
  BY <1>2 DEF SttStop
<1>3. CASE Submit
  <2>0. \/ sttQueue' = sttQueue /\ submitted' = submitted + 1
        \/ /\ sttQueue' = Append(sttQueue, submitted') /\ submitted' = submitted + 1
           /\ Len(sttQueue) < QueueLimit
    BY <1>3 DEF Submit
  <2>7. submitted' \in 1 .. NChunks
    BY <1>3 DEF Submit, SttCounts
  <2>8. /\ Append(sttQueue, submitted') \in Seq(1 .. NChunks)
        /\ Len(Append(sttQueue, submitted')) = Len(sttQueue) + 1
        /\ \A i \in 1 .. Len(sttQueue) : Append(sttQueue, submitted')[i] = sttQueue[i]
        /\ Append(sttQueue, submitted')[Len(sttQueue) + 1] = submitted'
    BY <2>7, AppendProperties DEF SttChunks
  <2>9. /\ Len(sttQueue) \in Nat /\ Len(results) \in Nat /\ submitted \in Nat
        /\ \A i \in 1 .. Len(sttQueue) : sttQueue[i] \in Nat
        /\ \A i \in 1 .. Len(results) : results[i] \in Nat
        /\ \A w \in Workers : hand[w] \in Nat
    BY DEF SttChunks, SttCounts
  <2>1. \A i \in 1 .. Len(sttQueue') :
          \/ i \in 1 .. Len(sttQueue) /\ sttQueue'[i] = sttQueue[i]
          \/ i = Len(sttQueue) + 1 /\ sttQueue'[i] = submitted + 1
    <3> DEFINE a == Append(sttQueue, submitted')
    <3> HIDE DEF a, QueueInOrder, HandInOrder, ResultsInOrder, SegmentsInOrder
    <3>1. CASE sttQueue' = a /\ submitted' = submitted + 1
      <4>1. /\ Len(a) = Len(sttQueue) + 1 /\ a[Len(sttQueue) + 1] = submitted'
            /\ \A i \in 1 .. Len(sttQueue) : a[i] = sttQueue[i]
        BY <2>8 DEF a
      <4>2. \A i \in 1 .. Len(sttQueue) + 1 : i \in 1 .. Len(sttQueue) \/ i = Len(sttQueue) + 1
        BY <2>9
      <4> QED
        BY <3>1, <4>1, <4>2
    <3>2. CASE sttQueue' = sttQueue
      BY <3>2
    <3> QED
      BY <2>0, <3>1, <3>2 DEF a
  <2>2. submitted' = submitted + 1 /\ results' = results /\ hand' = hand
    BY <2>0, <1>3 DEF Submit
  <2>3. Len(sttQueue') \in Nat /\ \A i \in 1 .. Len(sttQueue) : i \in Nat /\ i < Len(sttQueue) + 1
    BY <2>0, <2>8, <2>9
  <2> QED
    BY <2>1, <2>2, <2>3, <2>9
<1>4. ASSUME NEW u \in Workers, SttLoads(u) PROVE SegmentsInOrder'
  BY <1>4 DEF SttLoads, Device
<1>5. ASSUME NEW u \in Workers, SttTakes(u) PROVE SegmentsInOrder'
  <2>0. sttQueue # <<>> /\ sttQueue' = Tail(sttQueue)
          /\ hand' = [hand EXCEPT ![u] = Head(sttQueue)]
    BY <1>5 DEF SttTakes
  <2>7. /\ Tail(sttQueue) \in Seq(1 .. NChunks) /\ Len(Tail(sttQueue)) = Len(sttQueue) - 1
        /\ \A i \in 1 .. Len(sttQueue) - 1 : Tail(sttQueue)[i] = sttQueue[i + 1]
        /\ Head(sttQueue) = sttQueue[1] /\ Len(sttQueue) >= 1
    BY <2>0, HeadTailProperties DEF SttChunks
  <2>8. sttQueue[1] \in 1 .. NChunks
    BY <2>7 DEF SttChunks
  <2>9. /\ Len(sttQueue) \in Nat /\ Len(results) \in Nat /\ submitted \in Nat
        /\ \A i \in 1 .. Len(sttQueue) : sttQueue[i] \in Nat
        /\ \A i \in 1 .. Len(results) : results[i] \in Nat
        /\ \A w \in Workers : hand[w] \in Nat
    BY DEF SttChunks, SttCounts
  <2>1. /\ 1 \in 1 .. Len(sttQueue) /\ hand' = [hand EXCEPT ![u] = sttQueue[1]]
        /\ \A i \in 1 .. Len(sttQueue') :
             i + 1 \in 1 .. Len(sttQueue) /\ sttQueue'[i] = sttQueue[i + 1]
    BY <2>0, <2>7, <2>9
  <2>2. submitted' = submitted /\ results' = results /\ hand \in [Workers -> 0 .. NChunks]
    BY <1>5 DEF SttTakes, SttChunks
  <2>3. \A i \in 1 .. Len(sttQueue') : sttQueue[1] \in Nat /\ i \in Nat /\ 1 < i + 1
    BY <2>1, <2>9
  <2> QED
    BY <2>1, <2>2, <2>3, <2>9
<1>6. ASSUME NEW u \in Workers, SttEnds(u) PROVE SegmentsInOrder'
  BY <1>6 DEF SttEnds
<1>7. ASSUME NEW u \in Workers, SttDecodes(u) PROVE SegmentsInOrder'
  <2>0. results' = Append(results, hand[u]) /\ hand[u] # 0 /\ hand[u] \in 1 .. NChunks
    BY <1>7 DEF SttDecodes, SttChunks
  <2>8. /\ Append(results, hand[u]) \in Seq(1 .. NChunks)
        /\ Len(Append(results, hand[u])) = Len(results) + 1
        /\ \A i \in 1 .. Len(results) : Append(results, hand[u])[i] = results[i]
        /\ Append(results, hand[u])[Len(results) + 1] = hand[u]
    BY <2>0, AppendProperties DEF SttChunks
  <2>9. /\ Len(sttQueue) \in Nat /\ Len(results) \in Nat /\ submitted \in Nat
        /\ \A i \in 1 .. Len(sttQueue) : sttQueue[i] \in Nat
        /\ \A i \in 1 .. Len(results) : results[i] \in Nat
        /\ \A w \in Workers : hand[w] \in Nat
    BY DEF SttChunks, SttCounts
  <2>1. \A i \in 1 .. Len(results') :
          \/ i \in 1 .. Len(results) /\ results'[i] = results[i]
          \/ i = Len(results) + 1 /\ results'[i] = hand[u]
    BY <2>0, <2>8, <2>9
  <2>2. /\ submitted' = submitted /\ sttQueue' = sttQueue /\ hand' = [hand EXCEPT ![u] = 0]
        /\ hand \in [Workers -> 0 .. NChunks]
    BY <1>7 DEF SttDecodes, SttChunks, ChunkEnds
  <2> QED
    BY <2>0, <2>1, <2>2, <2>9
<1>8. ASSUME NEW u \in Workers, SttRejects(u) PROVE SegmentsInOrder'
  BY <1>8 DEF SttRejects, Fault, ChunkEnds
<1>9. ASSUME NEW u \in Workers, SttFails(u) PROVE SegmentsInOrder'
  BY <1>9 DEF SttFails, Fault, ChunkEnds
<1>10. ASSUME NEW u \in Workers, SttGpuFails(u) PROVE SegmentsInOrder'
  BY <1>10 DEF SttGpuFails, Fault, ChunkEnds, Device
<1>11. CASE UNCHANGED sttVars
  BY <1>11 DEF sttVars
<1> QED
  BY <1>1, <1>2, <1>3, <1>4, <1>5, <1>6, <1>7, <1>8, <1>9, <1>10, <1>11 DEF SttNext, WorkerStep

\* The queue and its workers hand segments over in the order of the chunks.
LEMMA SttIsSafe == SttInit /\ [][SttNext]_sttVars => []SttInv
<1>1. SttIInv /\ [SttNext]_sttVars => SttIInv'
  BY SttCountsNext, SttChunksNext, SttPlacesNext, OneWorksNext, QueueInOrderNext,
     HandInOrderNext, ResultsInOrderNext, SegmentsInOrderNext DEF SttIInv
<1>2. SttIInv => SttInv
  BY DEF SttIInv, SttInv, SttTypeOK, SttCounts, SttChunks, SttPlaces
<1> QED
  BY SttInitInv, <1>1, <1>2, PTL

-----------------------------------------------------------------------------
(* mode_manager.py and streaming_engine.py.  While no mode is current none runs, and a     *)
(* current mode has a manager; shutdown() waits for the worker that it cancelled.          *)

NobodyRuns == currentMode = "none" /\ ~unfaithful => \A m \in Modes : modeLife[m] # "running"

CurrentIsManaged == currentMode # "none" /\ ~unfaithful => managerUp

WorkerIsWaitedFor ==
  /\ closingStep = "engine" => engineTask = "cancelled"
  /\ closingStep = "flush" /\ ~startedLate => ~WorkerLives

ModeIInv ==
  /\ ModeTypeOK /\ CurrentModeRuns /\ ShutEngineIsIdle
  /\ NobodyRuns /\ CurrentIsManaged /\ WorkerIsWaitedFor

ModesTyped ==
  /\ modeLife \in [Modes -> {"uninitialized", "ready", "running", "error"}]
  /\ currentMode \in AnyMode /\ savedMode \in AnyMode
ModeFlagsTyped ==
  /\ managerUp \in BOOLEAN /\ closingStep \in {"none", "monitor", "engine", "flush"}
  /\ engineStop \in BOOLEAN /\ unfaithful \in BOOLEAN /\ startedLate \in BOOLEAN
EngineTyped ==
  /\ engineState \in {"none", "ready", "processing", "error", "shutdown"}
  /\ engineMode \in Modes
  /\ engineTask \in {"none", "created", "working", "cancelled", "ended"}
EngineQueueTyped ==
  engineQueue \in Seq(1..NOffers) /\ Len(engineQueue) <= EngineQueue
BuffersTyped ==
  /\ buffers \in [Modes -> Seq(1..NOffers)]
  /\ \A m \in Modes : Len(buffers[m]) <= WindowChunks
OffersTyped == offers \in 0..NOffers /\ modeCalls \in 0..NSwitches
\* The initial state satisfies the invariant.
LEMMA ModeInitInv == ModeInit => ModeIInv
<1> SUFFICES ASSUME ModeInit PROVE ModeIInv
  OBVIOUS
<1> USE ModeAssumption DEF ModeInit, Modes, AnyMode
<1>1. buffers \in [Modes -> Seq(1..NOffers)] /\ \A m \in Modes : Len(buffers[m]) <= WindowChunks
  BY DEF NewBuffers
<1>2. engineQueue \in Seq(1..NOffers) /\ Len(engineQueue) <= EngineQueue
  OBVIOUS
<1>3. modeLife \in [Modes -> {"uninitialized", "ready", "running", "error"}]
  OBVIOUS
<1>4. ModeTypeOK
  <2> USE DEF ModeTypeOK
  <2>1. ModesTyped
    BY <1>3 DEF ModesTyped
  <2>2. ModeFlagsTyped
    BY DEF ModeInit, ModeFlagsTyped
  <2>3. EngineTyped
    BY DEF ModeInit, EngineTyped
  <2>4. EngineQueueTyped
    BY <1>2 DEF EngineQueueTyped
  <2>5. BuffersTyped
    BY <1>1 DEF BuffersTyped
  <2>6. OffersTyped
    BY DEF ModeInit, OffersTyped
  <2> QED
    BY <2>1, <2>2, <2>3, <2>4, <2>5, <2>6 DEF ModesTyped, ModeFlagsTyped, EngineTyped,
       EngineQueueTyped, BuffersTyped, OffersTyped
<1> QED
  BY <1>4 DEF ModeIInv, CurrentModeRuns, ShutEngineIsIdle, NobodyRuns, CurrentIsManaged,
              WorkerIsWaitedFor, WorkerLives

\* Every step preserves the types.
LEMMA ModeTypeNext == ModeIInv /\ [ModeNext]_modeVars => ModeTypeOK'
<1> SUFFICES ASSUME ModeIInv, [ModeNext]_modeVars PROVE ModeTypeOK'
  OBVIOUS
<1> USE ModeAssumption DEF ModeIInv, ModeTypeOK, Modes, AnyMode, NewBuffers
<1>1. CASE ModesInitialize
  <2>1. ModesTyped' /\ ModeFlagsTyped' /\ EngineTyped'
    BY <1>1 DEF ModesTyped, ModeFlagsTyped, EngineTyped, ModesInitialize
  <2>2. EngineQueueTyped' /\ BuffersTyped' /\ OffersTyped'
    BY <1>1 DEF EngineQueueTyped, BuffersTyped, OffersTyped, ModesInitialize
  <2> QED
    BY <2>1, <2>2 DEF ModesTyped, ModeFlagsTyped, EngineTyped, EngineQueueTyped,
       BuffersTyped, OffersTyped
<1>2. CASE ModesInitializeFails
  BY <1>2 DEF ModesTyped, ModeFlagsTyped, EngineTyped, EngineQueueTyped, BuffersTyped,
     OffersTyped, ModesInitializeFails
<1>3. ASSUME NEW mo \in Modes, NEW force \in BOOLEAN, SwitchMode(mo, force) PROVE ModeTypeOK'
  <2> DEFINE Lives == {"uninitialized", "ready", "running", "error"}
  <2>0. /\ Stopped(modeLife, currentMode) \in [Modes -> Lives]
        /\ \A place \in {"stop", "start", "save"} :
             FailedLife(mo, place) \in [Modes -> Lives]
    BY DEF Stopped, FailedLife
  <2>1. ModesTyped'
    BY <1>3, <2>0 DEF SwitchMode, Switches, SwitchFails, FallsBack, FallsOver, FailsOnly,
       StartsEngine, engineVars, ModesTyped
  <2>2. ModeFlagsTyped'
    BY <1>3 DEF SwitchMode, Switches, SwitchFails, FallsBack, FallsOver, FailsOnly,
       FailedLife, Stopped, StartsEngine, engineVars, ModeFlagsTyped
  <2>3. EngineTyped'
    BY <1>3 DEF SwitchMode, Switches, SwitchFails, FallsBack, FallsOver, FailsOnly,
       FailedLife, Stopped, StartsEngine, engineVars, EngineTyped
  <2>4. EngineQueueTyped'
    BY <1>3 DEF SwitchMode, Switches, SwitchFails, FallsBack, FallsOver, FailsOnly,
       FailedLife, Stopped, StartsEngine, engineVars, EngineQueueTyped
  <2>5. BuffersTyped'
    BY <1>3 DEF SwitchMode, Switches, SwitchFails, FallsBack, FallsOver, FailsOnly,
       FailedLife, Stopped, StartsEngine, engineVars, BuffersTyped
  <2>6. OffersTyped'
    BY <1>3 DEF SwitchMode, Switches, SwitchFails, FallsBack, FallsOver, FailsOnly,
       FailedLife, Stopped, StartsEngine, engineVars, OffersTyped
  <2> QED
    BY <2>1, <2>2, <2>3, <2>4, <2>5, <2>6 DEF ModesTyped, ModeFlagsTyped, EngineTyped,
       EngineQueueTyped, BuffersTyped, OffersTyped
<1>4. ASSUME NEW set \in {{"wispr"}, {"system"}, Modes}, Releases(set) PROVE ModeTypeOK'
  BY <1>4 DEF ModesTyped, ModeFlagsTyped, EngineTyped, EngineQueueTyped, BuffersTyped,
     OffersTyped, Releases, engineVars
<1>5. CASE ShutdownBegins
  BY <1>5 DEF ModesTyped, ModeFlagsTyped, EngineTyped, EngineQueueTyped, BuffersTyped,
     OffersTyped, ShutdownBegins, engineVars
<1>6. CASE ShutdownStops
  BY <1>6 DEF ModesTyped, ModeFlagsTyped, EngineTyped, EngineQueueTyped, BuffersTyped,
     OffersTyped, ShutdownStops, TellsWorker
<1>7. CASE ShutdownEnds
  <2>1. ModesTyped' /\ ModeFlagsTyped' /\ EngineTyped'
    BY <1>7 DEF ModesTyped, ModeFlagsTyped, EngineTyped, ShutdownEnds, ShutdownWaits
  <2>2. EngineQueueTyped' /\ BuffersTyped' /\ OffersTyped'
    BY <1>7 DEF EngineQueueTyped, BuffersTyped, OffersTyped, ShutdownEnds, ShutdownWaits
  <2> QED
    BY <2>1, <2>2 DEF ModesTyped, ModeFlagsTyped, EngineTyped, EngineQueueTyped,
       BuffersTyped, OffersTyped
<1>8. CASE OfferChunk
  <2>1. engineQueue' = engineQueue \/ (Len(engineQueue) < EngineQueue
          /\ engineQueue' = Append(engineQueue, offers'))
    BY <1>8 DEF OfferChunk, Accepts
  <2>2. offers' \in 1..NOffers
    BY <1>8 DEF OfferChunk
  <2>3. Append(engineQueue, offers') \in Seq(1..NOffers) /\ Len(Append(engineQueue,
          offers')) = Len(engineQueue) + 1
    BY <2>2, AppendProperties
  <2>4. engineQueue' \in Seq(1..NOffers)
    BY <2>1, <2>3
  <2>5. Len(engineQueue') <= EngineQueue
    BY <2>1, <2>3
  <2>6. ModesTyped' /\ ModeFlagsTyped' /\ EngineTyped' /\ BuffersTyped' /\ OffersTyped'
    BY <1>8 DEF ModesTyped, ModeFlagsTyped, EngineTyped, BuffersTyped, OffersTyped,
       OfferChunk, managerVars
  <2>7. EngineQueueTyped'
    BY <2>4, <2>5 DEF EngineQueueTyped
  <2> QED
    BY <2>6, <2>7 DEF ModesTyped, ModeFlagsTyped, EngineTyped, EngineQueueTyped,
       BuffersTyped, OffersTyped
<1>9. CASE WorkerBegins
  BY <1>9 DEF ModesTyped, ModeFlagsTyped, EngineTyped, EngineQueueTyped, BuffersTyped,
     OffersTyped, WorkerBegins, managerVars
<1>10. CASE WorkerTakes
  <2>1. Head(engineQueue) \in 1..NOffers /\ engineQueue # <<>>
    BY <1>10 DEF WorkerTakes
  <2> DEFINE held == Append(buffers[engineMode], Head(engineQueue))
  <2>2. held \in Seq(1..NOffers) /\ Len(held) = Len(buffers[engineMode]) + 1
    BY <2>1
  <2>3. \/ Len(held) < WindowChunks /\ buffers' = [buffers EXCEPT ![engineMode] = held]
        \/ buffers' = [buffers EXCEPT ![engineMode] = <<Head(engineQueue)>>]
    BY <1>10 DEF WorkerTakes
  <2>4. <<Head(engineQueue)>> \in Seq(1..NOffers) /\ Len(<<Head(engineQueue)>>) = 1
    BY <2>1
  <2> DEFINE one == <<Head(engineQueue)>>
  <2> HIDE DEF held, one
  <2>5. PICK b \in Seq(1..NOffers) : /\ Len(b) <= WindowChunks
                                      /\ buffers' = [buffers EXCEPT ![engineMode] = b]
    <3>1. CASE buffers' = [buffers EXCEPT ![engineMode] = held] /\ Len(held) < WindowChunks
      <4>1. held \in Seq(1..NOffers) /\ Len(held) \in Nat /\ WindowChunks \in Nat
        BY <2>2
      <4>2. Len(held) <= WindowChunks
        BY <3>1, <4>1
      <4> QED
        BY <3>1, <4>1, <4>2
    <3>2. CASE buffers' = [buffers EXCEPT ![engineMode] = one]
      <4>1. one \in Seq(1..NOffers) /\ Len(one) <= WindowChunks
        BY <2>4 DEF one
      <4> QED
        BY <3>2, <4>1
    <3> QED
      BY <2>3, <3>1, <3>2 DEF one
  <2>6. ModesTyped' /\ ModeFlagsTyped' /\ EngineTyped' /\ EngineQueueTyped' /\ OffersTyped'
    BY <1>10 DEF ModesTyped, ModeFlagsTyped, EngineTyped, EngineQueueTyped, OffersTyped,
       WorkerTakes, managerVars
  <2>7. BuffersTyped'
    BY <2>5 DEF BuffersTyped
  <2> QED
    BY <2>6, <2>7 DEF ModesTyped, ModeFlagsTyped, EngineTyped, EngineQueueTyped,
       BuffersTyped, OffersTyped
<1>11. CASE WorkerBreaks
  BY <1>11 DEF ModesTyped, ModeFlagsTyped, EngineTyped, EngineQueueTyped, BuffersTyped,
     OffersTyped, WorkerBreaks, managerVars
<1>12. CASE WorkerStops
  BY <1>12 DEF ModesTyped, ModeFlagsTyped, EngineTyped, EngineQueueTyped, BuffersTyped,
     OffersTyped, WorkerStops
<1>13. CASE UNCHANGED modeVars
  BY <1>13 DEF ModesTyped, ModeFlagsTyped, EngineTyped, EngineQueueTyped, BuffersTyped,
     OffersTyped, modeVars, managerVars, engineVars
<1> QED
  BY <1>1, <1>2, <1>3, <1>4, <1>5, <1>6, <1>7, <1>8, <1>9, <1>10, <1>11, <1>12,
       <1>13 DEF ModeNext

\* The mode that is current runs, however a switch ends.
LEMMA CurrentModeRunsNext == ModeIInv /\ [ModeNext]_modeVars => CurrentModeRuns'
<1> SUFFICES ASSUME ModeIInv, [ModeNext]_modeVars PROVE CurrentModeRuns'
  OBVIOUS
<1> USE ModeAssumption DEF ModeIInv, ModeTypeOK, Modes, AnyMode, CurrentModeRuns, NobodyRuns,
     CurrentIsManaged
<1>1. CASE ModesInitialize
  BY <1>1 DEF ModesInitialize
<1>2. CASE ModesInitializeFails
  BY <1>2 DEF ModesInitializeFails
<1>3. ASSUME NEW mo \in Modes, NEW force \in BOOLEAN, SwitchMode(mo, force)
      PROVE  CurrentModeRuns'
  <2> USE DEF Stopped
  <2>1. CASE Switches(mo) /\ UNCHANGED <<managerUp, closingStep>>
    BY <2>1 DEF Switches, StartsEngine
  <2>2. ASSUME NEW place \in {"stop", "start", "save"}, SwitchFails(mo, place),
          currentMode = "none"
        PROVE  CurrentModeRuns'
    BY <2>2 DEF SwitchFails, FailsOnly
  <2>3. ASSUME NEW place \in {"stop", "start", "save"}, SwitchFails(mo, place),
          currentMode # "none",
               FallsBack(mo, place)
        PROVE  CurrentModeRuns'
    <3>1. CASE place = "save"
      BY <2>3, <3>1 DEF SwitchFails
    <3>2. CASE place = "stop"
      BY <2>3, <3>2 DEF SwitchFails, FallsBack, StartsEngine, FailedLife
    <3>3. CASE place = "start"
      BY <2>3, <3>3 DEF SwitchFails, FallsBack, StartsEngine, FailedLife
    <3> QED
      BY <3>1, <3>2, <3>3
  <2>4. ASSUME NEW place \in {"stop", "start", "save"}, FallsOver(mo, place)
        PROVE  CurrentModeRuns'
    BY <2>4 DEF FallsOver
  <2>5. CASE UNCHANGED <<modeLife, currentMode, savedMode, engineVars, unfaithful, startedLate>>
    BY <2>5 DEF engineVars
  <2> QED
    BY <1>3, <2>1, <2>2, <2>3, <2>4, <2>5 DEF SwitchMode, SwitchFails
<1>4. ASSUME NEW set \in {{"wispr"}, {"system"}, Modes}, Releases(set) PROVE CurrentModeRuns'
  BY <1>4 DEF Releases, engineVars
<1>5. CASE ShutdownBegins
  BY <1>5 DEF ShutdownBegins, engineVars
<1>6. CASE ShutdownStops
  BY <1>6 DEF ShutdownStops, TellsWorker
<1>7. CASE ShutdownEnds
  BY <1>7 DEF ShutdownEnds, ShutdownWaits
<1>8. CASE OfferChunk
  BY <1>8 DEF OfferChunk, Accepts, managerVars
<1>9. CASE WorkerBegins
  BY <1>9 DEF WorkerBegins, managerVars
<1>10. CASE WorkerTakes
  BY <1>10 DEF WorkerTakes, managerVars
<1>11. CASE WorkerBreaks
  BY <1>11 DEF WorkerBreaks, managerVars
<1>12. CASE WorkerStops
  BY <1>12 DEF WorkerStops
<1>13. CASE UNCHANGED modeVars
  BY <1>13 DEF modeVars, managerVars, engineVars
<1> QED
  BY <1>1, <1>2, <1>3, <1>4, <1>5, <1>6, <1>7, <1>8, <1>9, <1>10, <1>11, <1>12,
       <1>13 DEF ModeNext

\* Without a current mode none runs.
LEMMA NobodyRunsNext == ModeIInv /\ [ModeNext]_modeVars => NobodyRuns'
<1> SUFFICES ASSUME ModeIInv, [ModeNext]_modeVars PROVE NobodyRuns'
  OBVIOUS
<1> USE ModeAssumption DEF ModeIInv, ModeTypeOK, Modes, AnyMode, CurrentModeRuns, NobodyRuns
<1>1. CASE ModesInitialize
  BY <1>1 DEF ModesInitialize
<1>2. CASE ModesInitializeFails
  BY <1>2 DEF ModesInitializeFails
<1>3. ASSUME NEW mo \in Modes, NEW force \in BOOLEAN, SwitchMode(mo, force) PROVE NobodyRuns'
  BY <1>3 DEF SwitchMode, Switches, SwitchFails, FallsBack, FallsOver, FailsOnly, FailedLife,
       Stopped, StartsEngine, engineVars
<1>4. ASSUME NEW set \in {{"wispr"}, {"system"}, Modes}, Releases(set) PROVE NobodyRuns'
  BY <1>4 DEF Releases, engineVars
<1>5. CASE ShutdownBegins
  BY <1>5 DEF ShutdownBegins, engineVars
<1>6. CASE ShutdownStops
  BY <1>6 DEF ShutdownStops, TellsWorker
<1>7. CASE ShutdownEnds
  BY <1>7 DEF ShutdownEnds, ShutdownWaits
<1>8. CASE OfferChunk
  BY <1>8 DEF OfferChunk, Accepts, managerVars
<1>9. CASE WorkerBegins
  BY <1>9 DEF WorkerBegins, managerVars
<1>10. CASE WorkerTakes
  BY <1>10 DEF WorkerTakes, managerVars
<1>11. CASE WorkerBreaks
  BY <1>11 DEF WorkerBreaks, managerVars
<1>12. CASE WorkerStops
  BY <1>12 DEF WorkerStops
<1>13. CASE UNCHANGED modeVars
  BY <1>13 DEF modeVars, managerVars, engineVars
<1> QED
  BY <1>1, <1>2, <1>3, <1>4, <1>5, <1>6, <1>7, <1>8, <1>9, <1>10, <1>11, <1>12,
       <1>13 DEF ModeNext

\* A current mode has a manager.
LEMMA CurrentIsManagedNext == ModeIInv /\ [ModeNext]_modeVars => CurrentIsManaged'
<1> SUFFICES ASSUME ModeIInv, [ModeNext]_modeVars PROVE CurrentIsManaged'
  OBVIOUS
<1> USE ModeAssumption DEF ModeIInv, ModeTypeOK, Modes, AnyMode, CurrentIsManaged
<1>1. CASE ModesInitialize
  BY <1>1 DEF ModesInitialize
<1>2. CASE ModesInitializeFails
  BY <1>2 DEF ModesInitializeFails
<1>3. ASSUME NEW mo \in Modes, NEW force \in BOOLEAN, SwitchMode(mo, force)
      PROVE  CurrentIsManaged'
  BY <1>3 DEF SwitchMode, Switches, SwitchFails, FallsBack, FallsOver, FailsOnly, FailedLife,
       Stopped, StartsEngine, engineVars
<1>4. ASSUME NEW set \in {{"wispr"}, {"system"}, Modes}, Releases(set) PROVE CurrentIsManaged'
  BY <1>4 DEF Releases, engineVars
<1>5. CASE ShutdownBegins
  BY <1>5 DEF ShutdownBegins, engineVars
<1>6. CASE ShutdownStops
  BY <1>6 DEF ShutdownStops, TellsWorker
<1>7. CASE ShutdownEnds
  BY <1>7 DEF ShutdownEnds, ShutdownWaits
<1>8. CASE OfferChunk
  BY <1>8 DEF OfferChunk, Accepts, managerVars
<1>9. CASE WorkerBegins
  BY <1>9 DEF WorkerBegins, managerVars
<1>10. CASE WorkerTakes
  BY <1>10 DEF WorkerTakes, managerVars
<1>11. CASE WorkerBreaks
  BY <1>11 DEF WorkerBreaks, managerVars
<1>12. CASE WorkerStops
  BY <1>12 DEF WorkerStops
<1>13. CASE UNCHANGED modeVars
  BY <1>13 DEF modeVars, managerVars, engineVars
<1> QED
  BY <1>1, <1>2, <1>3, <1>4, <1>5, <1>6, <1>7, <1>8, <1>9, <1>10, <1>11, <1>12,
       <1>13 DEF ModeNext

\* An engine that was shut down has no worker.
LEMMA ShutEngineNext == ModeIInv /\ [ModeNext]_modeVars => ShutEngineIsIdle'
<1> SUFFICES ASSUME ModeIInv, [ModeNext]_modeVars PROVE ShutEngineIsIdle'
  OBVIOUS
<1> USE ModeAssumption DEF ModeIInv, ModeTypeOK, Modes, AnyMode, ShutEngineIsIdle,
     WorkerIsWaitedFor, WorkerLives
<1>1. CASE ModesInitialize
  BY <1>1 DEF ModesInitialize
<1>2. CASE ModesInitializeFails
  BY <1>2 DEF ModesInitializeFails
<1>3. ASSUME NEW mo \in Modes, NEW force \in BOOLEAN, SwitchMode(mo, force)
      PROVE  ShutEngineIsIdle'
  BY <1>3 DEF SwitchMode, Switches, SwitchFails, FallsBack, FallsOver, FailsOnly, FailedLife,
       Stopped, StartsEngine, engineVars
<1>4. ASSUME NEW set \in {{"wispr"}, {"system"}, Modes}, Releases(set) PROVE ShutEngineIsIdle'
  BY <1>4 DEF Releases, engineVars
<1>5. CASE ShutdownBegins
  BY <1>5 DEF ShutdownBegins, engineVars
<1>6. CASE ShutdownStops
  BY <1>6 DEF ShutdownStops, TellsWorker
<1>7. CASE ShutdownEnds
  BY <1>7 DEF ShutdownEnds, ShutdownWaits
<1>8. CASE OfferChunk
  BY <1>8 DEF OfferChunk, Accepts, managerVars
<1>9. CASE WorkerBegins
  BY <1>9 DEF WorkerBegins, managerVars
<1>10. CASE WorkerTakes
  BY <1>10 DEF WorkerTakes, managerVars
<1>11. CASE WorkerBreaks
  BY <1>11 DEF WorkerBreaks, managerVars
<1>12. CASE WorkerStops
  BY <1>12 DEF WorkerStops
<1>13. CASE UNCHANGED modeVars
  BY <1>13 DEF modeVars, managerVars, engineVars
<1> QED
  BY <1>1, <1>2, <1>3, <1>4, <1>5, <1>6, <1>7, <1>8, <1>9, <1>10, <1>11, <1>12,
       <1>13 DEF ModeNext

\* The shutdown waits for the worker it cancelled.
LEMMA WorkerIsWaitedForNext == ModeIInv /\ [ModeNext]_modeVars => WorkerIsWaitedFor'
<1> SUFFICES ASSUME ModeIInv, [ModeNext]_modeVars PROVE WorkerIsWaitedFor'
  OBVIOUS
<1> USE ModeAssumption DEF ModeIInv, ModeTypeOK, Modes, AnyMode, WorkerIsWaitedFor, WorkerLives
<1>1. CASE ModesInitialize
  BY <1>1 DEF ModesInitialize
<1>2. CASE ModesInitializeFails
  BY <1>2 DEF ModesInitializeFails
<1>3. ASSUME NEW mo \in Modes, NEW force \in BOOLEAN, SwitchMode(mo, force)
      PROVE  WorkerIsWaitedFor'
  BY <1>3 DEF SwitchMode, Switches, SwitchFails, FallsBack, FallsOver, FailsOnly, FailedLife,
       Stopped, StartsEngine, engineVars
<1>4. ASSUME NEW set \in {{"wispr"}, {"system"}, Modes}, Releases(set) PROVE WorkerIsWaitedFor'
  BY <1>4 DEF Releases, engineVars
<1>5. CASE ShutdownBegins
  BY <1>5 DEF ShutdownBegins, engineVars
<1>6. CASE ShutdownStops
  BY <1>6 DEF ShutdownStops, TellsWorker
<1>7. CASE ShutdownEnds
  BY <1>7 DEF ShutdownEnds, ShutdownWaits
<1>8. CASE OfferChunk
  BY <1>8 DEF OfferChunk, Accepts, managerVars
<1>9. CASE WorkerBegins
  BY <1>9 DEF WorkerBegins, managerVars
<1>10. CASE WorkerTakes
  BY <1>10 DEF WorkerTakes, managerVars
<1>11. CASE WorkerBreaks
  BY <1>11 DEF WorkerBreaks, managerVars
<1>12. CASE WorkerStops
  BY <1>12 DEF WorkerStops
<1>13. CASE UNCHANGED modeVars
  BY <1>13 DEF modeVars, managerVars, engineVars
<1> QED
  BY <1>1, <1>2, <1>3, <1>4, <1>5, <1>6, <1>7, <1>8, <1>9, <1>10, <1>11, <1>12,
       <1>13 DEF ModeNext

\* The mode that is current runs, and an engine that was shut down is idle.
LEMMA ModeIsSafe == ModeInit /\ [][ModeNext]_modeVars => []ModeInv
<1>1. ModeIInv /\ [ModeNext]_modeVars => ModeIInv'
  BY ModeTypeNext, CurrentModeRunsNext, NobodyRunsNext, CurrentIsManagedNext, ShutEngineNext,
     WorkerIsWaitedForNext DEF ModeIInv
<1>2. ModeIInv => ModeInv
  BY DEF ModeIInv, ModeInv
<1> QED
  BY ModeInitInv, <1>1, <1>2, PTL

-----------------------------------------------------------------------------
(* hotkey_session.py.  While calls take turns and joins return in time, the last recording is *)
(* the only one at work, it has one processing thread at most, and until that thread takes it *)
(* the buffer holds all that was heard.                                                       *)

\* The threads that stop() has started.
ProcessorRecords ==
  [at : {"take", "transcribe", "output", "complete", "clean", "ended"}, of : Recordings,
   audio : Seq(Recordings)]

\* The calls under way, and among them those of stop().
Calling == {c \in DeskCallers : call[c] # "idle"}
Stopping(c) == call[c] \in {"stop", "stop join", "process"}

LatestRecords == latest # 0 /\ Records(latest)

\* What the buffer holds of n blocks of recording r.
WholeOf(r, n) == [i \in 1..(IF n > DeskBuffer THEN DeskBuffer ELSE n) |-> r]

DeskFlagsTyped ==
  deskState \in DeskStates /\ stopSet \in BOOLEAN /\ tangled \in BOOLEAN
DeskCountsTyped == /\ deskCalls \in 0..NDeskCalls /\ lateJoins \in 0..DeskLate
DeskCallsTyped ==
  call \in [DeskCallers -> {"idle", "start", "stop", "stop join", "process",
                           "force join", "force clear", "force idle"}]
RecordersTyped ==
  /\ recorder \in [Recordings -> {"none", "opens", "tests", "reads", "full", "closes", "ended"}]
  /\ latest \in 0..NRecordings /\ heard \in [Recordings -> Nat]
BufferTyped == audio \in Seq(Recordings) /\ Len(audio) <= DeskBuffer
ProcessorsTyped == processor \in Seq(ProcessorRecords)
DeskTyped ==
  /\ DeskFlagsTyped /\ DeskCountsTyped /\ DeskCallsTyped /\ RecordersTyped /\ BufferTyped
  /\ ProcessorsTyped

\* The recordings are started in order; one that was not has heard nothing.
StartsAreCounted ==
  \A r \in Recordings : /\ recorder[r] = "none" <=> r > latest
                        /\ recorder[r] = "none" => heard[r] = 0

\* Every processing thread was started by a call that is over.
CallsAreCounted ==
  /\ IsFiniteSet(Calling)
  /\ Len(processor) + Cardinality(Calling) <= deskCalls

\* What is stopped was started.
StoppedWasStarted ==
  /\ deskState = "RECORDING" => latest # 0
  /\ \A c \in DeskCallers : Stopping(c) => latest # 0
  /\ \A p \in 1..Len(processor) : processor[p].of <= latest

\* A thread gives out its text once.
EachGivesOnce ==
  /\ givenOut \in Seq(Nat)
  /\ \A i \in 1..Len(givenOut) :
       /\ givenOut[i] \in 1..Len(processor)
       /\ processor[givenOut[i]].at \in {"complete", "clean", "ended"}
  /\ \A i, j \in 1..Len(givenOut) : givenOut[i] = givenOut[j] => i = j

\* Unless tangled, calls take turns,
CallsTakeTurns ==
  tangled \/ \A c, d \in DeskCallers : call[c] # "idle" /\ call[d] # "idle" => c = d

\* and the last recording is the only one at work.
LastRecords == tangled \/ \A r \in Recordings : Records(r) => r = latest
LastIsProcessed ==
  tangled \/ \A p \in 1..Len(processor) : AtWork(p) => processor[p].of = latest

\* Unless tangled, what is processed is over, and no other thread processes it.
ProcessedIsOver ==
  tangled \/ \A p \in 1..Len(processor) : recorder[processor[p].of] = "ended"
ProcessedOnce ==
  tangled \/ \A p, q \in 1..Len(processor) : processor[p].of = processor[q].of => p = q

\* Unless tangled, a recording that runs or is being stopped is not processed yet.
NotProcessedYet ==
  tangled \/
    ((deskState = "RECORDING" \/ \E c \in DeskCallers : Stopping(c)) =>
       \A p \in 1..Len(processor) : processor[p].of # latest)

\* Unless tangled, a call that has joined the recording thread has seen it end, and nothing
\* is at work once force_cleanup() has cleared the buffer.
JoinedIsOver ==
  tangled \/ \A c \in DeskCallers :
    /\ call[c] \in {"process", "force clear", "force idle"} => ~LatestRecords
    /\ call[c] = "force idle" => \A p \in 1..Len(processor) : ~AtWork(p)

\* Unless tangled, the buffer is whole as long as somebody may ask for it.
BufferIsAwaited ==
  \/ LatestRecords
  \/ deskState = "RECORDING" /\ \A c \in DeskCallers : call[c] # "force idle"
  \/ \E c \in DeskCallers : Stopping(c)
  \/ \E p \in 1..Len(processor) : processor[p].at = "take"
BufferIsWhole ==
  tangled \/ (latest # 0 /\ BufferIsAwaited => audio = WholeOf(latest, heard[latest]))

\* Unless tangled, what a thread took is all of its recording.
TakenIsWhole ==
  tangled \/ \A p \in 1..Len(processor) :
    processor[p].at # "take" =>
      processor[p].audio = WholeOf(processor[p].of, heard[processor[p].of])

DeskIInv ==
  /\ DeskTyped /\ StartsAreCounted /\ CallsAreCounted /\ StoppedWasStarted /\ EachGivesOnce
  /\ CallsTakeTurns /\ LastRecords /\ LastIsProcessed /\ ProcessedIsOver /\ ProcessedOnce
  /\ NotProcessedYet /\ JoinedIsOver /\ BufferIsWhole /\ TakenIsWhole

\* As many recordings were started as the last one's number.
LEMMA StartedIsLatest ==
  ASSUME DeskTyped, StartsAreCounted
  PROVE  StartedSoFar = latest /\ latest \in Nat /\ NRecordings \in Nat
<1>1. latest \in 0..NRecordings /\ latest \in Nat /\ NRecordings \in Nat
  BY DeskAssumption DEF DeskTyped, RecordersTyped
<1>2. {r \in Recordings : recorder[r] # "none"} = 1..latest
  BY <1>1 DEF StartsAreCounted, Recordings
<1>3. Cardinality(1..latest) = latest
  BY <1>1, FS_Interval
<1> QED
  BY <1>1, <1>2, <1>3 DEF StartedSoFar

\* start() makes the thread of the next recording.
StartMoves(c) ==
  /\ latest + 1 \in Recordings /\ latest' = latest + 1 /\ latest \in Nat
  /\ recorder' = [recorder EXCEPT ![latest + 1] = "opens"]
  /\ \A r \in Recordings : recorder'[r] = IF r = latest + 1 THEN "opens" ELSE recorder[r]
  /\ recorder[latest + 1] = "none" /\ heard[latest + 1] = 0
  /\ call' = [call EXCEPT ![c] = "idle"]
  /\ \A d \in DeskCallers : call'[d] = IF d = c THEN "idle" ELSE call[d]
  /\ \A p \in 1..Len(processor) : processor[p].of # latest + 1
  /\ call[c] = "start"
  /\ tangled' = (tangled \/ (\E r \in Recordings : Records(r))
                         \/ (\E p \in 1..Len(processor) : AtWork(p)))
  /\ audio' = <<>> /\ stopSet' = FALSE /\ deskState' = "RECORDING"
  /\ UNCHANGED <<processor, givenOut, deskCalls, lateJoins, heard>>

\* What a start does to a dictation, by its parts.
LEMMA StartEffect ==
  ASSUME DeskIInv, NEW c \in DeskCallers, DeskStarts(c)
  PROVE  StartMoves(c)
<1> USE DEF DeskIInv
<1>1. /\ StartedSoFar = latest /\ latest < NRecordings /\ latest \in Nat /\ NRecordings \in Nat
  BY StartedIsLatest DEF DeskStarts
<1>2. latest + 1 \in Recordings
  BY <1>1 DEF Recordings
<1>3. recorder[latest + 1] = "none" /\ heard[latest + 1] = 0
  BY <1>1, <1>2 DEF StartsAreCounted
<1>4. /\ recorder' = [recorder EXCEPT ![latest + 1] = "opens"] /\ latest' = latest + 1
      /\ tangled' = (tangled \/ (\E r \in Recordings : Records(r))
                             \/ (\E p \in 1..Len(processor) : AtWork(p)))
      /\ call[c] = "start" /\ call' = [call EXCEPT ![c] = "idle"]
      /\ audio' = <<>> /\ stopSet' = FALSE /\ deskState' = "RECORDING"
      /\ UNCHANGED <<processor, givenOut, deskCalls, lateJoins, heard>>
  <2>1. DOMAIN processor = 1..Len(processor)
    BY DEF DeskTyped, ProcessorsTyped
  <2> QED
    BY <1>1, <2>1 DEF DeskStarts
<1>5. /\ \A r \in Recordings : recorder'[r] = IF r = latest + 1 THEN "opens" ELSE recorder[r]
      /\ \A d \in DeskCallers : call'[d] = IF d = c THEN "idle" ELSE call[d]
  BY <1>4 DEF DeskTyped, RecordersTyped, DeskCallsTyped
<1>6. ASSUME NEW p \in 1..Len(processor) PROVE processor[p].of # latest + 1
  <2>1. processor[p] \in ProcessorRecords
    BY DEF DeskTyped, ProcessorsTyped
  <2>3. processor[p].of \in Nat
    BY <1>1, <2>1 DEF ProcessorRecords, Recordings
  <2>2. processor[p].of <= latest
    BY DEF StoppedWasStarted
  <2> QED
    BY <1>1, <2>3, <2>2
<1> QED
  BY <1>1, <1>2, <1>3, <1>4, <1>5, <1>6 DEF StartMoves

\* A recording thread only moves on, and pushes a block of its own at most.
RecorderMoves(r) ==
  /\ recorder[r] \notin {"none", "ended"}
  /\ recorder' \in [Recordings -> {"none", "opens", "tests", "reads", "full", "closes", "ended"}]
  /\ recorder'[r] # "none" /\ \A q \in Recordings : q # r => recorder'[q] = recorder[q]
  /\ UNCHANGED <<call, latest, processor, givenOut, deskCalls, lateJoins, tangled>>
  /\ stopSet' \in BOOLEAN /\ deskState' \in {deskState, "ERROR"}
  /\ \/ UNCHANGED <<audio, heard>>
     \/ audio' = Keeps(Append(audio, r)) /\ heard' = [heard EXCEPT ![r] = heard[r] + 1]

\* What a step of a recorder thread does.
LEMMA RecorderEffect ==
  ASSUME DeskTyped, NEW r \in Recordings, RecorderStep(r)
  PROVE  RecorderMoves(r)
<1> USE DEF DeskTyped, DeskFlagsTyped, RecordersTyped, RecorderMoves, RecorderGoes, DeskStates
<1>1. CASE RecorderOpens(r)
  BY <1>1 DEF RecorderOpens
<1>2. CASE RecorderTests(r)
  BY <1>2 DEF RecorderTests
<1>3. CASE RecorderReads(r)
  BY <1>3 DEF RecorderReads
<1>4. CASE RecorderFull(r)
  BY <1>4 DEF RecorderFull
<1>5. CASE RecorderFails(r)
  BY <1>5 DEF RecorderFails
<1>6. CASE RecorderEnds(r)
  BY <1>6 DEF RecorderEnds
<1> QED
  BY <1>1, <1>2, <1>3, <1>4, <1>5, <1>6 DEF RecorderStep

\* A processing thread only moves on, takes the buffer once and gives out its text once.
Given == {"complete", "clean", "ended"}
ProcessorMoves(p) ==
  /\ p \in 1..Len(processor)
  /\ processor' \in Seq(ProcessorRecords) /\ Len(processor') = Len(processor)
  /\ \A q \in 1..Len(processor) : /\ processor'[q].of = processor[q].of
                                  /\ q # p => processor'[q] = processor[q]
  /\ processor[p].at # "ended" /\ processor'[p].at # "take"
  /\ processor'[p].audio = IF processor[p].at = "take" THEN audio ELSE processor[p].audio
  /\ processor[p].at \in Given => processor'[p].at \in Given
  /\ \/ givenOut' = givenOut
     \/ /\ processor[p].at = "output" /\ processor'[p].at = "complete"
        /\ givenOut' = Append(givenOut, p)
  /\ audio' = audio \/ (audio' = <<>> /\ processor[p].at = "clean")
  /\ deskState' \in {deskState, "ERROR", "COMPLETE"}
  /\ UNCHANGED <<stopSet, call, recorder, latest, deskCalls, lateJoins, heard, tangled>>

\* One thread moves, and what it is for stays.
LEMMA ProcessorEffect ==
  ASSUME DeskTyped, NEW p \in DOMAIN processor, ProcessorStep(p)
  PROVE  ProcessorMoves(p)
<1>1. /\ processor \in Seq(ProcessorRecords) /\ processor[p] \in ProcessorRecords
      /\ audio \in Seq(Recordings) /\ p \in 1..Len(processor)
  BY DEF DeskTyped, ProcessorsTyped, BufferTyped
<1>2. ASSUME NEW to \in {"transcribe", "output", "complete", "clean", "ended"},
             processor' = [processor EXCEPT ![p].at = to]
      PROVE  /\ processor' \in Seq(ProcessorRecords) /\ Len(processor') = Len(processor)
             /\ \A q \in 1..Len(processor) : /\ processor'[q].of = processor[q].of
                                             /\ q # p => processor'[q] = processor[q]
             /\ processor'[p].at = to /\ processor'[p].audio = processor[p].audio
  <2> DEFINE one == [processor[p] EXCEPT !.at = to]
  <2>1. one \in ProcessorRecords
    BY <1>1 DEF ProcessorRecords
  <2>2. processor' = [processor EXCEPT ![p] = one]
    BY <1>1, <1>2
  <2>3. one.of = processor[p].of /\ one.at = to /\ one.audio = processor[p].audio
    BY <1>1 DEF ProcessorRecords
  <2> HIDE DEF one
  <2> QED
    BY <1>1, <2>1, <2>2, <2>3
<1>3. CASE ProcessorTakes(p)
  <2> DEFINE one == [processor[p] EXCEPT !.audio = audio,
                       !.at = IF Len(audio) < TooShort THEN "complete" ELSE "transcribe"]
  <2>1. one \in ProcessorRecords /\ one.of = processor[p].of /\ one.audio = audio
        /\ one.at \in {"complete", "transcribe"}
    BY <1>1 DEF ProcessorRecords
  <2>2. processor' = [processor EXCEPT ![p] = one] /\ processor[p].at = "take"
    BY <1>1, <1>3 DEF ProcessorTakes
  <2> HIDE DEF one
  <2>3. /\ processor' \in Seq(ProcessorRecords) /\ Len(processor') = Len(processor)
        /\ \A q \in 1..Len(processor) : /\ processor'[q].of = processor[q].of
                                        /\ q # p => processor'[q] = processor[q]
        /\ processor'[p] = one
    BY <1>1, <2>1, <2>2
  <2>4. /\ processor[p].at \notin Given /\ processor'[p].at # "take"
        /\ processor'[p].audio = audio
    BY <2>1, <2>2, <2>3 DEF Given
  <2> QED
    BY <1>3, <2>2, <2>3, <2>4 DEF ProcessorTakes, ProcessorMoves
<1> USE DEF ProcessorMoves, ProcessorGoes, Given
<1>4. CASE ProcessorTranscribes(p)
  <2>1. PICK to \in {"output", "complete", "ended"} :
             processor[p].at = "transcribe" /\ processor' = [processor EXCEPT ![p].at = to]
    BY <1>4 DEF ProcessorTranscribes
  <2> QED
    BY <1>1, <1>2, <1>4, <2>1 DEF ProcessorTranscribes
<1>5. CASE ProcessorGives(p)
  BY <1>1, <1>2, <1>5 DEF ProcessorGives
<1>6. CASE ProcessorCompletes(p)
  BY <1>1, <1>2, <1>6 DEF ProcessorCompletes
<1>7. CASE ProcessorCleans(p)
  BY <1>1, <1>2, <1>7 DEF ProcessorCleans
<1> QED
  BY <1>3, <1>4, <1>5, <1>6, <1>7 DEF ProcessorStep

\* A buffer that holds n blocks.
BlocksOf(r, n) == [i \in 1..n |-> r]

\* Blocks are appended and taken one at a time.
LEMMA BlocksAre ==
  ASSUME NEW r \in Recordings, NEW n \in Nat
  PROVE  /\ BlocksOf(r, n) \in Seq(Recordings) /\ Len(BlocksOf(r, n)) = n
         /\ Append(BlocksOf(r, n), r) = BlocksOf(r, n + 1)
         /\ Tail(BlocksOf(r, n + 1)) = BlocksOf(r, n)
         /\ BlocksOf(r, 0) = <<>>
<1> USE DEF BlocksOf
<1>1. \A m \in Nat : [i \in 1..m |-> r] \in Seq(Recordings) /\ Len([i \in 1..m |-> r]) = m
  OBVIOUS
<1>2. Append([i \in 1..n |-> r], r) = [i \in 1..(n + 1) |-> r]
  OBVIOUS
<1>3. Tail([i \in 1..(n + 1) |-> r]) = [i \in 1..n |-> r]
  <2> DEFINE w == [i \in 1..(n + 1) |-> r]
  <2>1. w \in Seq(Recordings) /\ Len(w) = n + 1 /\ w # <<>> /\ \A i \in 1..n + 1 : w[i] = r
    BY <1>1
  <2> HIDE DEF w
  <2>2. Tail(w) \in Seq(Recordings) /\ Len(Tail(w)) = n /\ \A i \in 1..n : Tail(w)[i] = w[i + 1]
    BY <2>1, HeadTailProperties
  <2>3. [i \in 1..n |-> r] \in Seq(Recordings) /\ Len([i \in 1..n |-> r]) = n
    BY <1>1
  <2>4. \A i \in 1..n : Tail(w)[i] = r /\ [j \in 1..n |-> r][i] = r
    BY <2>1, <2>2
  <2>5. Tail(w) = [i \in 1..n |-> r]
    BY <2>2, <2>3, <2>4, SeqEqual
  <2> QED
    BY <2>5 DEF w
<1>4. [i \in 1..0 |-> r] = <<>>
  <2>1. [i \in 1..0 |-> r] \in Seq(Recordings) /\ Len([i \in 1..0 |-> r]) = 0
    BY <1>1
  <2> QED
    BY <2>1, EmptySeq
<1> QED
  BY <1>1, <1>2, <1>3, <1>4

\* What a full buffer holds after one more block.
LEMMA KeepsWhole ==
  ASSUME NEW r \in Recordings, NEW n \in Nat
  PROVE  Keeps(Append(WholeOf(r, n), r)) = WholeOf(r, n + 1) /\ WholeOf(r, 0) = <<>>
<1> DEFINE k == IF n > DeskBuffer THEN DeskBuffer ELSE n
<1>1. k \in Nat /\ DeskBuffer \in Nat \ {0}
  BY DeskAssumption
<1>2. /\ WholeOf(r, n) = BlocksOf(r, k)
      /\ WholeOf(r, n + 1) = BlocksOf(r, IF n + 1 > DeskBuffer THEN DeskBuffer ELSE n + 1)
      /\ WholeOf(r, 0) = BlocksOf(r, 0)
  BY <1>1 DEF WholeOf, BlocksOf
<1>3. /\ Append(BlocksOf(r, k), r) = BlocksOf(r, k + 1) /\ Len(BlocksOf(r, k + 1)) = k + 1
      /\ Tail(BlocksOf(r, k + 1)) = BlocksOf(r, k) /\ BlocksOf(r, 0) = <<>>
  <2>1. k + 1 \in Nat
    BY <1>1
  <2> HIDE DEF k
  <2>2. Len(BlocksOf(r, k + 1)) = k + 1
    BY <2>1, BlocksAre
  <2> QED
    BY <1>1, <2>2, BlocksAre
<1>4. CASE n >= DeskBuffer
  <2>1. /\ k = DeskBuffer /\ (IF n + 1 > DeskBuffer THEN DeskBuffer ELSE n + 1) = k
        /\ k + 1 > DeskBuffer
    BY <1>1, <1>4
  <2> HIDE DEF k
  <2>2. Keeps(BlocksOf(r, k + 1)) = Tail(BlocksOf(r, k + 1))
    BY <1>3, <2>1 DEF Keeps
  <2> QED
    BY <1>2, <1>3, <2>1, <2>2
<1>5. CASE n < DeskBuffer
  <2>1. /\ k = n /\ (IF n + 1 > DeskBuffer THEN DeskBuffer ELSE n + 1) = k + 1
        /\ ~(k + 1 > DeskBuffer)
    BY <1>1, <1>5
  <2> HIDE DEF k
  <2>2. Keeps(BlocksOf(r, k + 1)) = BlocksOf(r, k + 1)
    BY <1>3, <2>1 DEF Keeps
  <2> QED
    BY <1>2, <1>3, <2>1, <2>2
<1> QED
  BY <1>1, <1>4, <1>5

\* The buffer stays within its capacity.
LEMMA KeepsFits ==
  ASSUME BufferTyped, NEW r \in Recordings
  PROVE  /\ Keeps(Append(audio, r)) \in Seq(Recordings)
         /\ Len(Keeps(Append(audio, r))) <= DeskBuffer
<1>1. /\ Append(audio, r) \in Seq(Recordings) /\ Len(Append(audio, r)) = Len(audio) + 1
      /\ Append(audio, r) # <<>> /\ Len(audio) \in Nat /\ Len(audio) <= DeskBuffer
  BY AppendProperties DEF BufferTyped
<1>2. /\ Tail(Append(audio, r)) \in Seq(Recordings)
      /\ Len(Tail(Append(audio, r))) = Len(audio)
  BY <1>1, HeadTailProperties
<1> QED
  BY <1>1, <1>2, DeskAssumption DEF Keeps

\* What the threads and the recordings are, one by one.
DeskShape ==
         /\ \A p \in 1..Len(processor) :
              /\ processor[p] \in ProcessorRecords
              /\ processor[p].of \in Recordings /\ processor[p].audio \in Seq(Recordings)
         /\ Recordings \subseteq Nat /\ 0 \notin Recordings /\ latest \in Nat
         /\ latest # 0 => latest \in Recordings
         /\ Len(processor) \in Nat /\ DOMAIN processor = 1..Len(processor)

\* The types that the steps below use.
LEMMA DeskParts ==
  ASSUME DeskTyped
  PROVE  DeskShape
<1>1. processor \in Seq(ProcessorRecords)
  BY DEF DeskTyped, ProcessorsTyped
<1>2. \A p \in 1..Len(processor) : processor[p] \in ProcessorRecords
  BY <1>1
<1> QED
  BY <1>1, <1>2, DeskAssumption DEF DeskTyped, RecordersTyped, ProcessorRecords, Recordings,
     DeskShape

\* An empty buffer fits.
LEMMA EmptyFits == <<>> \in Seq(Recordings) /\ Len(<<>>) <= DeskBuffer
BY DeskAssumption

\* The initial state satisfies the invariant.
LEMMA DeskInitInv == DeskInit => DeskIInv
<1> SUFFICES ASSUME DeskInit PROVE DeskIInv
  OBVIOUS
<1> USE DeskAssumption DEF DeskInit
<1>1. DeskTyped
  <2> USE EmptyFits DEF Recordings, DeskStates, DeskTyped
  <2>1. DeskFlagsTyped
    BY DEF DeskInit, DeskFlagsTyped
  <2>2. DeskCountsTyped
    BY DEF DeskInit, DeskCountsTyped
  <2>3. DeskCallsTyped
    BY DEF DeskInit, DeskCallsTyped
  <2>4. RecordersTyped
    BY DEF DeskInit, RecordersTyped
  <2>5. BufferTyped
    BY DEF DeskInit, BufferTyped
  <2>6. ProcessorsTyped
    BY DEF DeskInit, ProcessorsTyped
  <2> QED
    BY <2>1, <2>2, <2>3, <2>4, <2>5, <2>6 DEF DeskFlagsTyped, DeskCountsTyped, DeskCallsTyped,
       RecordersTyped, BufferTyped, ProcessorsTyped
<1>2. Calling = {} /\ IsFiniteSet({}) /\ Cardinality({}) = 0
  BY FS_EmptySet DEF Calling
<1>3. CallsAreCounted
  BY <1>2 DEF CallsAreCounted
<1>4. Len(processor) = 0 /\ Len(givenOut) = 0 /\ givenOut \in Seq(Nat) /\ 1..0 = {}
  OBVIOUS
<1>5. StartsAreCounted
  BY DEF StartsAreCounted, Recordings
<1>6. ~LatestRecords
  BY DEF LatestRecords
<1>7. EachGivesOnce
  BY <1>4 DEF EachGivesOnce
<1>8. /\ StoppedWasStarted /\ CallsTakeTurns /\ LastRecords /\ LastIsProcessed
      /\ ProcessedIsOver /\ ProcessedOnce /\ NotProcessedYet /\ JoinedIsOver
  BY <1>4, <1>6 DEF StoppedWasStarted, Stopping, CallsTakeTurns, LastRecords, LastIsProcessed,
      ProcessedIsOver, ProcessedOnce, NotProcessedYet, JoinedIsOver, Records
<1>9. BufferIsWhole /\ TakenIsWhole
  BY <1>4 DEF BufferIsWhole, TakenIsWhole
<1> QED
  BY <1>1, <1>3, <1>5, <1>7, <1>8, <1>9 DEF DeskIInv

\* A processing thread is started for the last recording.
AppendMoves(c) ==
         /\ latest \in Recordings /\ Len(processor) \in Nat
         /\ processor' \in Seq(ProcessorRecords) /\ Len(processor') = Len(processor) + 1
         /\ \A q \in 1..Len(processor) : processor'[q] = processor[q]
         /\ \A q \in 1..Len(processor') :
              q \in 1..Len(processor) \/ (q = Len(processor) + 1 /\ q \notin 1..Len(processor))
         /\ processor'[Len(processor) + 1] = [at |-> "take", of |-> latest, audio |-> <<>>]
         /\ \A d \in DeskCallers : call'[d] = IF d = c THEN "idle" ELSE call[d]
         /\ call' = [call EXCEPT ![c] = "idle"]
         /\ call[c] = "process" /\ Stopping(c) /\ deskState' = "PROCESSING"
         /\ UNCHANGED <<stopSet, recorder, latest, audio, givenOut, deskCalls, lateJoins, heard,
                        tangled>>

\* What a stop that hands its audio on does.
LEMMA RecordAppended ==
  ASSUME DeskIInv, NEW c \in DeskCallers, StopProcesses(c)
  PROVE  AppendMoves(c)
<1> DEFINE new == [at |-> "take", of |-> latest, audio |-> <<>>]
<1>1. latest \in Recordings
  BY DeskParts DEF DeskShape, DeskIInv, StoppedWasStarted, Stopping, StopProcesses
<1>2. new \in ProcessorRecords /\ processor \in Seq(ProcessorRecords)
  BY <1>1, EmptyFits DEF ProcessorRecords, DeskIInv, DeskTyped, ProcessorsTyped
<1>3. processor' = Append(processor, new)
  BY DEF StopProcesses
<1>4. \A d \in DeskCallers : call'[d] = IF d = c THEN "idle" ELSE call[d]
  BY DEF StopProcesses, DeskIInv, DeskTyped, DeskCallsTyped
<1>5. /\ call' = [call EXCEPT ![c] = "idle"]
      /\ call[c] = "process" /\ Stopping(c) /\ deskState' = "PROCESSING"
      /\ UNCHANGED <<stopSet, recorder, latest, audio, givenOut, deskCalls, lateJoins, heard,
                     tangled>>
  BY DEF StopProcesses, Stopping
<1> HIDE DEF new
<1>6. /\ Append(processor, new) \in Seq(ProcessorRecords)
      /\ Len(Append(processor, new)) = Len(processor) + 1 /\ Len(processor) \in Nat
      /\ \A q \in 1..Len(processor) : Append(processor, new)[q] = processor[q]
      /\ Append(processor, new)[Len(processor) + 1] = new
  BY <1>2, AppendProperties
<1>7. \A q \in 1..Len(processor) + 1 :
        q \in 1..Len(processor) \/ (q = Len(processor) + 1 /\ q \notin 1..Len(processor))
  BY <1>6
<1>8. processor'[Len(processor) + 1] = [at |-> "take", of |-> latest, audio |-> <<>>]
  BY <1>3, <1>6 DEF new
<1> QED
  BY <1>1, <1>3, <1>4, <1>5, <1>6, <1>7, <1>8 DEF AppendMoves

\* A start keeps the types of the recordings, and so does a recording thread.
LEMMA StartTyped ==
  ASSUME DeskTyped, NEW c, StartMoves(c)
  PROVE  RecordersTyped'
<1>1. latest' \in 0..NRecordings
  BY DeskAssumption DEF StartMoves, Recordings
<1> QED
  BY <1>1 DEF StartMoves, DeskTyped, RecordersTyped

\* A step of a recorder thread keeps its types.
LEMMA RecorderTyped ==
  ASSUME DeskTyped, NEW r \in Recordings, RecorderMoves(r)
  PROVE  RecordersTyped'
<1>1. heard' \in [Recordings -> Nat]
  BY DEF RecorderMoves, DeskTyped, RecordersTyped
<1> QED
  BY <1>1 DEF RecorderMoves, DeskTyped, RecordersTyped

\* A wait that times out is counted, and so is a call.
LEMMA JoinsCount ==
  ASSUME DeskTyped, NEW c, NEW from, NEW to,
         Joins(c, from, to) \/ DeskCall(c, from, to)
  PROVE  DeskCountsTyped'
<1>1. /\ lateJoins' = lateJoins \/ (lateJoins < DeskLate /\ lateJoins' = lateJoins + 1)
      /\ deskCalls' = deskCalls \/ (deskCalls < NDeskCalls /\ deskCalls' = deskCalls + 1)
  BY DEF Joins, DeskCall
<1> QED
  BY <1>1, DeskAssumption DEF DeskTyped, DeskCountsTyped

\* Every step preserves the types.
LEMMA DeskTypeNext == DeskIInv /\ [DeskNext]_deskVars => DeskTyped'
<1> SUFFICES ASSUME DeskIInv, [DeskNext]_deskVars PROVE DeskTyped'
  OBVIOUS
<1> USE DeskAssumption DEF DeskIInv, DeskTyped
<1>1. ASSUME NEW c \in DeskCallers, AsksStart(c) PROVE DeskTyped'
  <2>1. DeskFlagsTyped'
    BY <1>1, Zenon DEF AsksStart, DeskCall, DeskFlagsTyped
  <2>2. DeskCountsTyped'
    BY <1>1 DEF AsksStart, DeskCall, DeskCountsTyped
  <2>3. DeskCallsTyped'
    BY <1>1 DEF AsksStart, DeskCall, DeskCallsTyped
  <2>4. RecordersTyped'
    BY <1>1 DEF AsksStart, DeskCall, RecordersTyped
  <2>5. BufferTyped'
    BY <1>1 DEF AsksStart, DeskCall, BufferTyped
  <2>6. ProcessorsTyped'
    BY <1>1 DEF AsksStart, DeskCall, ProcessorsTyped
  <2> QED
    BY <2>1, <2>2, <2>3, <2>4, <2>5, <2>6 DEF DeskFlagsTyped, DeskCountsTyped, DeskCallsTyped,
       RecordersTyped, BufferTyped, ProcessorsTyped
<1>2. ASSUME NEW c \in DeskCallers, AsksStop(c) PROVE DeskTyped'
  <2>1. DeskFlagsTyped'
    BY <1>2, Zenon DEF AsksStop, DeskCall, DeskFlagsTyped
  <2>2. DeskCountsTyped'
    BY <1>2 DEF AsksStop, DeskCall, DeskCountsTyped
  <2>3. DeskCallsTyped'
    BY <1>2 DEF AsksStop, DeskCall, DeskCallsTyped
  <2>4. RecordersTyped'
    BY <1>2 DEF AsksStop, DeskCall, RecordersTyped
  <2>5. BufferTyped'
    BY <1>2 DEF AsksStop, DeskCall, BufferTyped
  <2>6. ProcessorsTyped'
    BY <1>2 DEF AsksStop, DeskCall, ProcessorsTyped
  <2> QED
    BY <2>1, <2>2, <2>3, <2>4, <2>5, <2>6 DEF DeskFlagsTyped, DeskCountsTyped, DeskCallsTyped,
       RecordersTyped, BufferTyped, ProcessorsTyped
<1>3. ASSUME NEW c \in DeskCallers, AsksForce(c) PROVE DeskTyped'
  <2>1. DeskFlagsTyped'
    BY <1>3, Zenon DEF AsksForce, DeskCall, DeskFlagsTyped
  <2>2. DeskCountsTyped'
    BY <1>3, JoinsCount DEF AsksForce, DeskCountsTyped
  <2>3. DeskCallsTyped' /\ RecordersTyped' /\ BufferTyped' /\ ProcessorsTyped'
    BY <1>3 DEF DeskCallsTyped, RecordersTyped, BufferTyped, ProcessorsTyped, AsksForce,
       DeskCall
  <2> QED
    BY <2>1, <2>2, <2>3 DEF DeskFlagsTyped, DeskCountsTyped, DeskCallsTyped, RecordersTyped,
       BufferTyped, ProcessorsTyped
<1>4. ASSUME NEW c \in DeskCallers, DeskStarts(c) PROVE DeskTyped'
  <2>1. StartMoves(c)
    BY <1>4, StartEffect
  <2>2. DeskFlagsTyped' /\ DeskCountsTyped' /\ DeskCallsTyped' /\ ProcessorsTyped'
    BY <2>1 DEF DeskFlagsTyped, DeskCountsTyped, DeskCallsTyped, ProcessorsTyped,
       StartMoves, RecordersTyped, BufferTyped, DeskStates, Recordings
  <2>3. RecordersTyped'
    BY <2>1, StartTyped DEF RecordersTyped
  <2>4. BufferTyped'
    BY <2>1, EmptyFits DEF StartMoves, BufferTyped
  <2> QED
    BY <2>2, <2>3, <2>4 DEF DeskFlagsTyped, DeskCountsTyped, DeskCallsTyped, RecordersTyped,
       BufferTyped, ProcessorsTyped
<1>5. ASSUME NEW c \in DeskCallers, SetsStop(c) PROVE DeskTyped'
  BY <1>5 DEF DeskFlagsTyped, DeskCountsTyped, DeskCallsTyped, RecordersTyped, BufferTyped,
     ProcessorsTyped, SetsStop
<1>6. ASSUME NEW c \in DeskCallers, StopJoins(c) PROVE DeskTyped'
  <2>1. DeskFlagsTyped'
    BY <1>6, Zenon DEF StopJoins, Joins, DeskFlagsTyped
  <2>2. DeskCountsTyped'
    BY <1>6, JoinsCount DEF StopJoins, DeskCountsTyped
  <2>3. DeskCallsTyped' /\ RecordersTyped' /\ BufferTyped' /\ ProcessorsTyped'
    BY <1>6 DEF DeskCallsTyped, RecordersTyped, BufferTyped, ProcessorsTyped, StopJoins,
       Joins
  <2> QED
    BY <2>1, <2>2, <2>3 DEF DeskFlagsTyped, DeskCountsTyped, DeskCallsTyped, RecordersTyped,
       BufferTyped, ProcessorsTyped
<1>7. ASSUME NEW c \in DeskCallers, StopProcesses(c) PROVE DeskTyped'
  <2>1. AppendMoves(c)
    BY <1>7, RecordAppended
  <2>2. DeskFlagsTyped' /\ DeskCountsTyped' /\ DeskCallsTyped' /\ RecordersTyped'
        /\ ProcessorsTyped'
    BY <2>1 DEF DeskFlagsTyped, DeskCountsTyped, DeskCallsTyped, RecordersTyped,
       ProcessorsTyped, AppendMoves, BufferTyped, DeskStates, Recordings
  <2>3. BufferTyped'
    BY <2>1, EmptyFits DEF AppendMoves, BufferTyped
  <2> QED
    BY <2>2, <2>3 DEF DeskFlagsTyped, DeskCountsTyped, DeskCallsTyped, RecordersTyped,
       BufferTyped, ProcessorsTyped
<1>8. ASSUME NEW c \in DeskCallers, ForceJoins(c) PROVE DeskTyped'
  <2>1. DeskFlagsTyped'
    BY <1>8, Zenon DEF ForceJoins, Joins, DeskFlagsTyped
  <2>2. DeskCountsTyped'
    BY <1>8, JoinsCount DEF ForceJoins, DeskCountsTyped
  <2>3. DeskCallsTyped' /\ RecordersTyped' /\ BufferTyped' /\ ProcessorsTyped'
    BY <1>8 DEF DeskCallsTyped, RecordersTyped, BufferTyped, ProcessorsTyped, ForceJoins,
       Joins
  <2> QED
    BY <2>1, <2>2, <2>3 DEF DeskFlagsTyped, DeskCountsTyped, DeskCallsTyped, RecordersTyped,
       BufferTyped, ProcessorsTyped
<1>9. ASSUME NEW c \in DeskCallers, ForceClears(c) PROVE DeskTyped'
  <2>1. DeskFlagsTyped'
    BY <1>9, Zenon DEF ForceClears, DeskFlagsTyped
  <2>2. DeskCountsTyped' /\ DeskCallsTyped' /\ RecordersTyped' /\ ProcessorsTyped'
    BY <1>9 DEF DeskCountsTyped, DeskCallsTyped, RecordersTyped, ProcessorsTyped,
       ForceClears
  <2>3. BufferTyped'
    BY <1>9, EmptyFits DEF ForceClears, BufferTyped
  <2> QED
    BY <2>1, <2>2, <2>3 DEF DeskFlagsTyped, DeskCountsTyped, DeskCallsTyped, RecordersTyped,
       BufferTyped, ProcessorsTyped
<1>10. ASSUME NEW c \in DeskCallers, ForceIdles(c) PROVE DeskTyped'
  BY <1>10 DEF DeskFlagsTyped, DeskCountsTyped, DeskCallsTyped, RecordersTyped, BufferTyped,
     ProcessorsTyped, ForceIdles, DeskStates
<1>11. ASSUME NEW r \in Recordings, RecorderStep(r) PROVE DeskTyped'
  <2>1. RecorderMoves(r)
    BY <1>11, RecorderEffect
  <2>2. DeskFlagsTyped' /\ DeskCountsTyped' /\ DeskCallsTyped' /\ ProcessorsTyped'
    BY <2>1 DEF DeskFlagsTyped, DeskCountsTyped, DeskCallsTyped, ProcessorsTyped,
       RecorderMoves, RecordersTyped, BufferTyped, DeskStates, Recordings
  <2>3. RecordersTyped'
    BY <2>1, RecorderTyped DEF RecordersTyped
  <2>4. BufferTyped'
    BY <2>1, KeepsFits DEF RecorderMoves, BufferTyped
  <2> QED
    BY <2>2, <2>3, <2>4 DEF DeskFlagsTyped, DeskCountsTyped, DeskCallsTyped, RecordersTyped,
       BufferTyped, ProcessorsTyped
<1>12. ASSUME NEW p \in DOMAIN processor, ProcessorStep(p) PROVE DeskTyped'
  <2>1. ProcessorMoves(p)
    BY <1>12, ProcessorEffect
  <2>2. DeskFlagsTyped' /\ DeskCountsTyped' /\ DeskCallsTyped' /\ RecordersTyped'
        /\ ProcessorsTyped'
    BY <2>1 DEF DeskFlagsTyped, DeskCountsTyped, DeskCallsTyped, RecordersTyped,
       ProcessorsTyped, ProcessorMoves, BufferTyped, DeskStates, Recordings
  <2>3. BufferTyped'
    BY <2>1, EmptyFits DEF ProcessorMoves, BufferTyped
  <2> QED
    BY <2>2, <2>3 DEF DeskFlagsTyped, DeskCountsTyped, DeskCallsTyped, RecordersTyped,
       BufferTyped, ProcessorsTyped
<1>13. CASE UNCHANGED deskVars
  BY <1>13 DEF DeskFlagsTyped, DeskCountsTyped, DeskCallsTyped, RecordersTyped, BufferTyped,
     ProcessorsTyped, deskVars
<1> QED
  BY <1>1, <1>2, <1>3, <1>4, <1>5, <1>6, <1>7, <1>8, <1>9, <1>10, <1>11, <1>12, <1>13
     DEF DeskNext, CallerStep

\* The recordings stay numbered.
LEMMA StartsNext == DeskIInv /\ [DeskNext]_deskVars => StartsAreCounted'
<1> SUFFICES ASSUME DeskIInv, [DeskNext]_deskVars PROVE StartsAreCounted'
  OBVIOUS
<1> USE DeskAssumption DEF DeskIInv, StartsAreCounted
<1>1. ASSUME NEW c \in DeskCallers, AsksStart(c) PROVE StartsAreCounted'
  BY <1>1 DEF AsksStart, DeskCall
<1>2. ASSUME NEW c \in DeskCallers, AsksStop(c) PROVE StartsAreCounted'
  BY <1>2 DEF AsksStop, DeskCall
<1>3. ASSUME NEW c \in DeskCallers, AsksForce(c) PROVE StartsAreCounted'
  BY <1>3 DEF AsksForce, DeskCall
<1>4. ASSUME NEW c \in DeskCallers, DeskStarts(c) PROVE StartsAreCounted'
  <2>1. StartMoves(c)
    BY <1>4, StartEffect
  <2>2. DeskShape
    BY DeskParts
  <2> QED
    BY <2>1, <2>2 DEF StartMoves, DeskShape, Recordings
<1>5. ASSUME NEW c \in DeskCallers, SetsStop(c) PROVE StartsAreCounted'
  BY <1>5 DEF SetsStop
<1>6. ASSUME NEW c \in DeskCallers, StopJoins(c) PROVE StartsAreCounted'
  BY <1>6 DEF StopJoins, Joins
<1>7. ASSUME NEW c \in DeskCallers, StopProcesses(c) PROVE StartsAreCounted'
  <2>1. AppendMoves(c)
    BY <1>7, RecordAppended
  <2>2. DeskShape
    BY DeskParts
  <2> QED
    BY <2>1, <2>2 DEF AppendMoves, DeskShape
<1>8. ASSUME NEW c \in DeskCallers, ForceJoins(c) PROVE StartsAreCounted'
  BY <1>8 DEF ForceJoins, Joins
<1>9. ASSUME NEW c \in DeskCallers, ForceClears(c) PROVE StartsAreCounted'
  BY <1>9 DEF ForceClears
<1>10. ASSUME NEW c \in DeskCallers, ForceIdles(c) PROVE StartsAreCounted'
  BY <1>10 DEF ForceIdles
<1>11. ASSUME NEW r \in Recordings, RecorderStep(r) PROVE StartsAreCounted'
  <2>1. RecorderMoves(r)
    BY <1>11, RecorderEffect
  <2>2. DeskShape
    BY DeskParts
  <2> QED
    BY <2>1, <2>2 DEF RecorderMoves, DeskShape, DeskTyped, DeskCallsTyped, RecordersTyped
<1>12. ASSUME NEW p \in DOMAIN processor, ProcessorStep(p) PROVE StartsAreCounted'
  <2>1. ProcessorMoves(p)
    BY <1>12, ProcessorEffect
  <2>2. DeskShape
    BY DeskParts
  <2> QED
    BY <2>1, <2>2 DEF ProcessorMoves, DeskShape
<1>13. CASE UNCHANGED deskVars
  BY <1>13 DEF deskVars
<1> QED
  BY <1>1, <1>2, <1>3, <1>4, <1>5, <1>6, <1>7, <1>8, <1>9, <1>10, <1>11, <1>12, <1>13
     DEF DeskNext, CallerStep

\* Neither start() nor the end of stop() leaves a recording that was never started.
LEMMA StartStopped ==
  ASSUME DeskIInv, DeskShape, NEW c \in DeskCallers, StartMoves(c)
  PROVE  StoppedWasStarted'
<1>1. latest \in Nat /\ latest' = latest + 1 /\ processor' = processor
  BY DEF StartMoves
<1>2. latest' # 0
  BY <1>1
<1>3. ASSUME NEW p \in 1..Len(processor) PROVE processor[p].of <= latest'
  <2>1. processor[p].of \in Nat /\ processor[p].of <= latest
    BY DEF DeskShape, DeskIInv, StoppedWasStarted
  <2> QED
    BY <1>1, <2>1
<1> QED
  BY <1>1, <1>2, <1>3 DEF StoppedWasStarted

\* The thread that a stop starts is of a recording that was started.
LEMMA AppendStopped ==
  ASSUME DeskIInv, DeskShape, NEW c \in DeskCallers, AppendMoves(c)
  PROVE  StoppedWasStarted'
<1>1. latest \in Nat /\ latest # 0 /\ latest' = latest /\ deskState' # "RECORDING"
  BY DEF DeskShape, AppendMoves
<1>2. ASSUME NEW p \in 1..Len(processor') PROVE processor'[p].of <= latest
  <2>1. CASE p \in 1..Len(processor)
    BY <2>1 DEF AppendMoves, DeskIInv, StoppedWasStarted
  <2>2. CASE p = Len(processor) + 1
    <3>1. processor'[p].of = latest
      BY <2>2 DEF AppendMoves
    <3> QED
      BY <1>1, <3>1
  <2> QED
    BY <2>1, <2>2 DEF AppendMoves
<1> QED
  BY <1>1, <1>2 DEF StoppedWasStarted

\* What is stopped was started.
LEMMA StoppedNext == DeskIInv /\ [DeskNext]_deskVars => StoppedWasStarted'
<1> SUFFICES ASSUME DeskIInv, [DeskNext]_deskVars PROVE StoppedWasStarted'
  OBVIOUS
<1> USE DeskAssumption DEF DeskIInv, StoppedWasStarted, Stopping, DeskTyped, DeskCallsTyped
<1>1. ASSUME NEW c \in DeskCallers, AsksStart(c) PROVE StoppedWasStarted'
  BY <1>1 DEF AsksStart, DeskCall
<1>2. ASSUME NEW c \in DeskCallers, AsksStop(c) PROVE StoppedWasStarted'
  BY <1>2 DEF AsksStop, DeskCall
<1>3. ASSUME NEW c \in DeskCallers, AsksForce(c) PROVE StoppedWasStarted'
  BY <1>3 DEF AsksForce, DeskCall
<1>4. ASSUME NEW c \in DeskCallers, DeskStarts(c) PROVE StoppedWasStarted'
  BY <1>4, StartEffect, StartStopped, DeskParts
<1>5. ASSUME NEW c \in DeskCallers, SetsStop(c) PROVE StoppedWasStarted'
  BY <1>5 DEF SetsStop
<1>6. ASSUME NEW c \in DeskCallers, StopJoins(c) PROVE StoppedWasStarted'
  BY <1>6 DEF StopJoins, Joins
<1>7. ASSUME NEW c \in DeskCallers, StopProcesses(c) PROVE StoppedWasStarted'
  BY <1>7, RecordAppended, AppendStopped, DeskParts
<1>8. ASSUME NEW c \in DeskCallers, ForceJoins(c) PROVE StoppedWasStarted'
  BY <1>8 DEF ForceJoins, Joins
<1>9. ASSUME NEW c \in DeskCallers, ForceClears(c) PROVE StoppedWasStarted'
  BY <1>9 DEF ForceClears
<1>10. ASSUME NEW c \in DeskCallers, ForceIdles(c) PROVE StoppedWasStarted'
  BY <1>10 DEF ForceIdles
<1>11. ASSUME NEW r \in Recordings, RecorderStep(r) PROVE StoppedWasStarted'
  <2>1. RecorderMoves(r)
    BY <1>11, RecorderEffect
  <2>2. DeskShape
    BY DeskParts
  <2> QED
    BY <2>1, <2>2 DEF RecorderMoves, DeskShape
<1>12. ASSUME NEW p \in DOMAIN processor, ProcessorStep(p) PROVE StoppedWasStarted'
  <2>1. ProcessorMoves(p)
    BY <1>12, ProcessorEffect
  <2>2. DeskShape
    BY DeskParts
  <2> QED
    BY <2>1, <2>2 DEF ProcessorMoves, DeskShape
<1>13. CASE UNCHANGED deskVars
  BY <1>13 DEF deskVars
<1> QED
  BY <1>1, <1>2, <1>3, <1>4, <1>5, <1>6, <1>7, <1>8, <1>9, <1>10, <1>11, <1>12, <1>13
     DEF DeskNext, CallerStep

\* A text is given out once.
LEMMA GivesNext == DeskIInv /\ [DeskNext]_deskVars => EachGivesOnce'
<1> SUFFICES ASSUME DeskIInv, [DeskNext]_deskVars PROVE EachGivesOnce'
  OBVIOUS
<1> USE DeskAssumption DEF DeskIInv, EachGivesOnce
<1>1. ASSUME NEW c \in DeskCallers, AsksStart(c) PROVE EachGivesOnce'
  BY <1>1 DEF AsksStart, DeskCall
<1>2. ASSUME NEW c \in DeskCallers, AsksStop(c) PROVE EachGivesOnce'
  BY <1>2 DEF AsksStop, DeskCall
<1>3. ASSUME NEW c \in DeskCallers, AsksForce(c) PROVE EachGivesOnce'
  BY <1>3 DEF AsksForce, DeskCall
<1>4. ASSUME NEW c \in DeskCallers, DeskStarts(c) PROVE EachGivesOnce'
  <2>1. StartMoves(c)
    BY <1>4, StartEffect
  <2>2. DeskShape
    BY DeskParts
  <2> QED
    BY <2>1, <2>2 DEF StartMoves, DeskShape
<1>5. ASSUME NEW c \in DeskCallers, SetsStop(c) PROVE EachGivesOnce'
  BY <1>5 DEF SetsStop
<1>6. ASSUME NEW c \in DeskCallers, StopJoins(c) PROVE EachGivesOnce'
  BY <1>6 DEF StopJoins, Joins
<1>7. ASSUME NEW c \in DeskCallers, StopProcesses(c) PROVE EachGivesOnce'
  <2>1. AppendMoves(c)
    BY <1>7, RecordAppended
  <2>2. DeskShape
    BY DeskParts
  <2> QED
    BY <2>1, <2>2 DEF AppendMoves, DeskShape
<1>8. ASSUME NEW c \in DeskCallers, ForceJoins(c) PROVE EachGivesOnce'
  BY <1>8 DEF ForceJoins, Joins
<1>9. ASSUME NEW c \in DeskCallers, ForceClears(c) PROVE EachGivesOnce'
  BY <1>9 DEF ForceClears
<1>10. ASSUME NEW c \in DeskCallers, ForceIdles(c) PROVE EachGivesOnce'
  BY <1>10 DEF ForceIdles
<1>11. ASSUME NEW r \in Recordings, RecorderStep(r) PROVE EachGivesOnce'
  <2>1. RecorderMoves(r)
    BY <1>11, RecorderEffect
  <2>2. DeskShape
    BY DeskParts
  <2> QED
    BY <2>1, <2>2 DEF RecorderMoves, DeskShape
<1>12. ASSUME NEW p \in DOMAIN processor, ProcessorStep(p) PROVE EachGivesOnce'
  <2>1. ProcessorMoves(p)
    BY <1>12, ProcessorEffect
  <2> USE <2>1 DEF ProcessorMoves, Given
  <2>2. CASE givenOut' = givenOut
    BY <2>2
  <2>3. CASE givenOut' = Append(givenOut, p) /\ processor[p].at = "output"
    <3>1. /\ Len(givenOut') = Len(givenOut) + 1 /\ givenOut' \in Seq(Nat)
          /\ \A i \in 1..Len(givenOut) : givenOut'[i] = givenOut[i]
          /\ givenOut'[Len(givenOut) + 1] = p /\ Len(givenOut) \in Nat
      BY <2>3, AppendProperties
    <3>2. \A i \in 1..Len(givenOut) : givenOut[i] # p
      BY <2>3
    <3>3. \A i \in 1..Len(givenOut') : i \in 1..Len(givenOut) \/ i = Len(givenOut) + 1
      BY <3>1
    <3> QED
      BY <2>3, <3>1, <3>2, <3>3
  <2> QED
    BY <2>2, <2>3
<1>13. CASE UNCHANGED deskVars
  BY <1>13 DEF deskVars
<1> QED
  BY <1>1, <1>2, <1>3, <1>4, <1>5, <1>6, <1>7, <1>8, <1>9, <1>10, <1>11, <1>12, <1>13
     DEF DeskNext, CallerStep

\* Calls take turns, or are tangled.
LEMMA TurnsNext == DeskIInv /\ [DeskNext]_deskVars => CallsTakeTurns'
<1> SUFFICES ASSUME DeskIInv, [DeskNext]_deskVars PROVE CallsTakeTurns'
  OBVIOUS
<1> USE DeskAssumption DEF DeskIInv, CallsTakeTurns, DeskTyped, DeskCallsTyped
<1>1. ASSUME NEW c \in DeskCallers, AsksStart(c) PROVE CallsTakeTurns'
  BY <1>1 DEF AsksStart, DeskCall
<1>2. ASSUME NEW c \in DeskCallers, AsksStop(c) PROVE CallsTakeTurns'
  BY <1>2 DEF AsksStop, DeskCall
<1>3. ASSUME NEW c \in DeskCallers, AsksForce(c) PROVE CallsTakeTurns'
  BY <1>3 DEF AsksForce, DeskCall
<1>4. ASSUME NEW c \in DeskCallers, DeskStarts(c) PROVE CallsTakeTurns'
  <2>1. StartMoves(c)
    BY <1>4, StartEffect
  <2>2. DeskShape
    BY DeskParts
  <2> QED
    BY <2>1, <2>2 DEF StartMoves, DeskShape
<1>5. ASSUME NEW c \in DeskCallers, SetsStop(c) PROVE CallsTakeTurns'
  BY <1>5 DEF SetsStop
<1>6. ASSUME NEW c \in DeskCallers, StopJoins(c) PROVE CallsTakeTurns'
  BY <1>6 DEF StopJoins, Joins
<1>7. ASSUME NEW c \in DeskCallers, StopProcesses(c) PROVE CallsTakeTurns'
  <2>1. AppendMoves(c)
    BY <1>7, RecordAppended
  <2>2. DeskShape
    BY DeskParts
  <2> QED
    BY <2>1, <2>2 DEF AppendMoves, DeskShape
<1>8. ASSUME NEW c \in DeskCallers, ForceJoins(c) PROVE CallsTakeTurns'
  BY <1>8 DEF ForceJoins, Joins
<1>9. ASSUME NEW c \in DeskCallers, ForceClears(c) PROVE CallsTakeTurns'
  BY <1>9 DEF ForceClears
<1>10. ASSUME NEW c \in DeskCallers, ForceIdles(c) PROVE CallsTakeTurns'
  BY <1>10 DEF ForceIdles
<1>11. ASSUME NEW r \in Recordings, RecorderStep(r) PROVE CallsTakeTurns'
  <2>1. RecorderMoves(r)
    BY <1>11, RecorderEffect
  <2>2. DeskShape
    BY DeskParts
  <2> QED
    BY <2>1, <2>2 DEF RecorderMoves, DeskShape
<1>12. ASSUME NEW p \in DOMAIN processor, ProcessorStep(p) PROVE CallsTakeTurns'
  <2>1. ProcessorMoves(p)
    BY <1>12, ProcessorEffect
  <2>2. DeskShape
    BY DeskParts
  <2> QED
    BY <2>1, <2>2 DEF ProcessorMoves, DeskShape
<1>13. CASE UNCHANGED deskVars
  BY <1>13 DEF deskVars
<1> QED
  BY <1>1, <1>2, <1>3, <1>4, <1>5, <1>6, <1>7, <1>8, <1>9, <1>10, <1>11, <1>12, <1>13
     DEF DeskNext, CallerStep

\* The last recording is the one that is made, or things are tangled.
LEMMA LastRecordsNext == DeskIInv /\ [DeskNext]_deskVars => LastRecords'
<1> SUFFICES ASSUME DeskIInv, [DeskNext]_deskVars PROVE LastRecords'
  OBVIOUS
<1> USE DeskAssumption DEF DeskIInv, LastRecords, Records
<1>1. ASSUME NEW c \in DeskCallers, AsksStart(c) PROVE LastRecords'
  BY <1>1 DEF AsksStart, DeskCall
<1>2. ASSUME NEW c \in DeskCallers, AsksStop(c) PROVE LastRecords'
  BY <1>2 DEF AsksStop, DeskCall
<1>3. ASSUME NEW c \in DeskCallers, AsksForce(c) PROVE LastRecords'
  BY <1>3 DEF AsksForce, DeskCall
<1>4. ASSUME NEW c \in DeskCallers, DeskStarts(c) PROVE LastRecords'
  <2>1. StartMoves(c)
    BY <1>4, StartEffect
  <2>2. DeskShape
    BY DeskParts
  <2> QED
    BY <2>1, <2>2 DEF StartMoves, DeskShape
<1>5. ASSUME NEW c \in DeskCallers, SetsStop(c) PROVE LastRecords'
  BY <1>5 DEF SetsStop
<1>6. ASSUME NEW c \in DeskCallers, StopJoins(c) PROVE LastRecords'
  BY <1>6 DEF StopJoins, Joins
<1>7. ASSUME NEW c \in DeskCallers, StopProcesses(c) PROVE LastRecords'
  <2>1. AppendMoves(c)
    BY <1>7, RecordAppended
  <2>2. DeskShape
    BY DeskParts
  <2> QED
    BY <2>1, <2>2 DEF AppendMoves, DeskShape
<1>8. ASSUME NEW c \in DeskCallers, ForceJoins(c) PROVE LastRecords'
  BY <1>8 DEF ForceJoins, Joins
<1>9. ASSUME NEW c \in DeskCallers, ForceClears(c) PROVE LastRecords'
  BY <1>9 DEF ForceClears
<1>10. ASSUME NEW c \in DeskCallers, ForceIdles(c) PROVE LastRecords'
  BY <1>10 DEF ForceIdles
<1>11. ASSUME NEW r \in Recordings, RecorderStep(r) PROVE LastRecords'
  <2>1. RecorderMoves(r)
    BY <1>11, RecorderEffect
  <2>2. DeskShape
    BY DeskParts
  <2> QED
    BY <2>1, <2>2 DEF RecorderMoves, DeskShape
<1>12. ASSUME NEW p \in DOMAIN processor, ProcessorStep(p) PROVE LastRecords'
  <2>1. ProcessorMoves(p)
    BY <1>12, ProcessorEffect
  <2>2. DeskShape
    BY DeskParts
  <2> QED
    BY <2>1, <2>2 DEF ProcessorMoves, DeskShape
<1>13. CASE UNCHANGED deskVars
  BY <1>13 DEF deskVars
<1> QED
  BY <1>1, <1>2, <1>3, <1>4, <1>5, <1>6, <1>7, <1>8, <1>9, <1>10, <1>11, <1>12, <1>13
     DEF DeskNext, CallerStep

\* The last recording is the one that is processed, or things are tangled.
LEMMA LastProcessedNext == DeskIInv /\ [DeskNext]_deskVars => LastIsProcessed'
<1> SUFFICES ASSUME DeskIInv, [DeskNext]_deskVars PROVE LastIsProcessed'
  OBVIOUS
<1> USE DeskAssumption DEF DeskIInv, LastIsProcessed, AtWork
<1>1. ASSUME NEW c \in DeskCallers, AsksStart(c) PROVE LastIsProcessed'
  BY <1>1 DEF AsksStart, DeskCall
<1>2. ASSUME NEW c \in DeskCallers, AsksStop(c) PROVE LastIsProcessed'
  BY <1>2 DEF AsksStop, DeskCall
<1>3. ASSUME NEW c \in DeskCallers, AsksForce(c) PROVE LastIsProcessed'
  BY <1>3 DEF AsksForce, DeskCall
<1>4. ASSUME NEW c \in DeskCallers, DeskStarts(c) PROVE LastIsProcessed'
  <2>1. StartMoves(c)
    BY <1>4, StartEffect
  <2>2. DeskShape
    BY DeskParts
  <2> QED
    BY <2>1, <2>2 DEF StartMoves, DeskShape
<1>5. ASSUME NEW c \in DeskCallers, SetsStop(c) PROVE LastIsProcessed'
  BY <1>5 DEF SetsStop
<1>6. ASSUME NEW c \in DeskCallers, StopJoins(c) PROVE LastIsProcessed'
  BY <1>6 DEF StopJoins, Joins
<1>7. ASSUME NEW c \in DeskCallers, StopProcesses(c) PROVE LastIsProcessed'
  <2>1. AppendMoves(c)
    BY <1>7, RecordAppended
  <2>2. ASSUME ~tangled', NEW p \in 1..Len(processor'), AtWork(p)'
        PROVE  processor'[p].of = latest'
    <3>1. CASE p = Len(processor) + 1
      BY <2>1, <3>1 DEF AppendMoves
    <3>2. CASE p \in 1..Len(processor)
      <4>1. processor'[p] = processor[p] /\ latest' = latest /\ ~tangled
        BY <2>1, <2>2, <3>2 DEF AppendMoves
      <4>2. AtWork(p)
        BY <2>2, <4>1
      <4> QED
        BY <3>2, <4>1, <4>2
    <3> QED
      BY <2>1, <2>2, <3>1, <3>2 DEF AppendMoves
  <2> QED
    BY <2>2
<1>8. ASSUME NEW c \in DeskCallers, ForceJoins(c) PROVE LastIsProcessed'
  BY <1>8 DEF ForceJoins, Joins
<1>9. ASSUME NEW c \in DeskCallers, ForceClears(c) PROVE LastIsProcessed'
  BY <1>9 DEF ForceClears
<1>10. ASSUME NEW c \in DeskCallers, ForceIdles(c) PROVE LastIsProcessed'
  BY <1>10 DEF ForceIdles
<1>11. ASSUME NEW r \in Recordings, RecorderStep(r) PROVE LastIsProcessed'
  <2>1. RecorderMoves(r)
    BY <1>11, RecorderEffect
  <2>2. DeskShape
    BY DeskParts
  <2> QED
    BY <2>1, <2>2 DEF RecorderMoves, DeskShape
<1>12. ASSUME NEW p \in DOMAIN processor, ProcessorStep(p) PROVE LastIsProcessed'
  <2>1. ProcessorMoves(p)
    BY <1>12, ProcessorEffect
  <2>2. DeskShape
    BY DeskParts
  <2> QED
    BY <2>1, <2>2 DEF ProcessorMoves, DeskShape
<1>13. CASE UNCHANGED deskVars
  BY <1>13 DEF deskVars
<1> QED
  BY <1>1, <1>2, <1>3, <1>4, <1>5, <1>6, <1>7, <1>8, <1>9, <1>10, <1>11, <1>12, <1>13
     DEF DeskNext, CallerStep

\* What is processed is over.
LEMMA ProcessedNext == DeskIInv /\ [DeskNext]_deskVars => ProcessedIsOver'
<1> SUFFICES ASSUME DeskIInv, [DeskNext]_deskVars PROVE ProcessedIsOver'
  OBVIOUS
<1> USE DeskAssumption DEF DeskIInv, ProcessedIsOver
<1>1. ASSUME NEW c \in DeskCallers, AsksStart(c) PROVE ProcessedIsOver'
  BY <1>1 DEF AsksStart, DeskCall
<1>2. ASSUME NEW c \in DeskCallers, AsksStop(c) PROVE ProcessedIsOver'
  BY <1>2 DEF AsksStop, DeskCall
<1>3. ASSUME NEW c \in DeskCallers, AsksForce(c) PROVE ProcessedIsOver'
  BY <1>3 DEF AsksForce, DeskCall
<1>4. ASSUME NEW c \in DeskCallers, DeskStarts(c) PROVE ProcessedIsOver'
  <2>1. StartMoves(c)
    BY <1>4, StartEffect
  <2>2. DeskShape
    BY DeskParts
  <2> QED
    BY <2>1, <2>2 DEF StartMoves, DeskShape
<1>5. ASSUME NEW c \in DeskCallers, SetsStop(c) PROVE ProcessedIsOver'
  BY <1>5 DEF SetsStop
<1>6. ASSUME NEW c \in DeskCallers, StopJoins(c) PROVE ProcessedIsOver'
  BY <1>6 DEF StopJoins, Joins
<1>7. ASSUME NEW c \in DeskCallers, StopProcesses(c) PROVE ProcessedIsOver'
  <2>1. AppendMoves(c) /\ DeskShape
    BY <1>7, RecordAppended, DeskParts
  <2>2. recorder[latest] = "ended" \/ tangled
    <3>1. tangled \/ recorder[latest] \in {"none", "ended"}
      BY <2>1 DEF AppendMoves, DeskShape, JoinedIsOver, LatestRecords, Records
    <3>2. recorder[latest] # "none"
      BY <2>1 DEF AppendMoves, DeskShape, StartsAreCounted
    <3> QED
      BY <3>1, <3>2
  <2> QED
    BY <2>1, <2>2 DEF AppendMoves, DeskShape
<1>8. ASSUME NEW c \in DeskCallers, ForceJoins(c) PROVE ProcessedIsOver'
  BY <1>8 DEF ForceJoins, Joins
<1>9. ASSUME NEW c \in DeskCallers, ForceClears(c) PROVE ProcessedIsOver'
  BY <1>9 DEF ForceClears
<1>10. ASSUME NEW c \in DeskCallers, ForceIdles(c) PROVE ProcessedIsOver'
  BY <1>10 DEF ForceIdles
<1>11. ASSUME NEW r \in Recordings, RecorderStep(r) PROVE ProcessedIsOver'
  <2>1. RecorderMoves(r)
    BY <1>11, RecorderEffect
  <2>2. DeskShape
    BY DeskParts
  <2> QED
    BY <2>1, <2>2 DEF RecorderMoves, DeskShape
<1>12. ASSUME NEW p \in DOMAIN processor, ProcessorStep(p) PROVE ProcessedIsOver'
  <2>1. ProcessorMoves(p)
    BY <1>12, ProcessorEffect
  <2>2. DeskShape
    BY DeskParts
  <2> QED
    BY <2>1, <2>2 DEF ProcessorMoves, DeskShape
<1>13. CASE UNCHANGED deskVars
  BY <1>13 DEF deskVars
<1> QED
  BY <1>1, <1>2, <1>3, <1>4, <1>5, <1>6, <1>7, <1>8, <1>9, <1>10, <1>11, <1>12, <1>13
     DEF DeskNext, CallerStep

\* A recording is processed once.
LEMMA OnceNext == DeskIInv /\ [DeskNext]_deskVars => ProcessedOnce'
<1> SUFFICES ASSUME DeskIInv, [DeskNext]_deskVars PROVE ProcessedOnce'
  OBVIOUS
<1> USE DeskAssumption DEF DeskIInv, ProcessedOnce
<1>1. ASSUME NEW c \in DeskCallers, AsksStart(c) PROVE ProcessedOnce'
  BY <1>1 DEF AsksStart, DeskCall
<1>2. ASSUME NEW c \in DeskCallers, AsksStop(c) PROVE ProcessedOnce'
  BY <1>2 DEF AsksStop, DeskCall
<1>3. ASSUME NEW c \in DeskCallers, AsksForce(c) PROVE ProcessedOnce'
  BY <1>3 DEF AsksForce, DeskCall
<1>4. ASSUME NEW c \in DeskCallers, DeskStarts(c) PROVE ProcessedOnce'
  <2>1. StartMoves(c)
    BY <1>4, StartEffect
  <2>2. DeskShape
    BY DeskParts
  <2> QED
    BY <2>1, <2>2 DEF StartMoves, DeskShape
<1>5. ASSUME NEW c \in DeskCallers, SetsStop(c) PROVE ProcessedOnce'
  BY <1>5 DEF SetsStop
<1>6. ASSUME NEW c \in DeskCallers, StopJoins(c) PROVE ProcessedOnce'
  BY <1>6 DEF StopJoins, Joins
<1>7. ASSUME NEW c \in DeskCallers, StopProcesses(c) PROVE ProcessedOnce'
  <2>1. AppendMoves(c)
    BY <1>7, RecordAppended
  <2>2. DeskShape
    BY DeskParts
  <2> QED
    BY <2>1, <2>2 DEF AppendMoves, DeskShape, NotProcessedYet
<1>8. ASSUME NEW c \in DeskCallers, ForceJoins(c) PROVE ProcessedOnce'
  BY <1>8 DEF ForceJoins, Joins
<1>9. ASSUME NEW c \in DeskCallers, ForceClears(c) PROVE ProcessedOnce'
  BY <1>9 DEF ForceClears
<1>10. ASSUME NEW c \in DeskCallers, ForceIdles(c) PROVE ProcessedOnce'
  BY <1>10 DEF ForceIdles
<1>11. ASSUME NEW r \in Recordings, RecorderStep(r) PROVE ProcessedOnce'
  <2>1. RecorderMoves(r)
    BY <1>11, RecorderEffect
  <2>2. DeskShape
    BY DeskParts
  <2> QED
    BY <2>1, <2>2 DEF RecorderMoves, DeskShape
<1>12. ASSUME NEW p \in DOMAIN processor, ProcessorStep(p) PROVE ProcessedOnce'
  <2>1. ProcessorMoves(p)
    BY <1>12, ProcessorEffect
  <2>2. DeskShape
    BY DeskParts
  <2> QED
    BY <2>1, <2>2 DEF ProcessorMoves, DeskShape
<1>13. CASE UNCHANGED deskVars
  BY <1>13 DEF deskVars
<1> QED
  BY <1>1, <1>2, <1>3, <1>4, <1>5, <1>6, <1>7, <1>8, <1>9, <1>10, <1>11, <1>12, <1>13
     DEF DeskNext, CallerStep

\* What runs is not processed yet.
LEMMA NotProcessedNext == DeskIInv /\ [DeskNext]_deskVars => NotProcessedYet'
<1> SUFFICES ASSUME DeskIInv, [DeskNext]_deskVars PROVE NotProcessedYet'
  OBVIOUS
<1> USE DeskAssumption DEF DeskIInv, NotProcessedYet, Stopping, DeskTyped, DeskCallsTyped
<1>1. ASSUME NEW c \in DeskCallers, AsksStart(c) PROVE NotProcessedYet'
  BY <1>1 DEF AsksStart, DeskCall
<1>2. ASSUME NEW c \in DeskCallers, AsksStop(c) PROVE NotProcessedYet'
  BY <1>2 DEF AsksStop, DeskCall
<1>3. ASSUME NEW c \in DeskCallers, AsksForce(c) PROVE NotProcessedYet'
  BY <1>3 DEF AsksForce, DeskCall
<1>4. ASSUME NEW c \in DeskCallers, DeskStarts(c) PROVE NotProcessedYet'
  <2>1. StartMoves(c)
    BY <1>4, StartEffect
  <2>2. DeskShape
    BY DeskParts
  <2> QED
    BY <2>1, <2>2 DEF StartMoves, DeskShape
<1>5. ASSUME NEW c \in DeskCallers, SetsStop(c) PROVE NotProcessedYet'
  BY <1>5 DEF SetsStop
<1>6. ASSUME NEW c \in DeskCallers, StopJoins(c) PROVE NotProcessedYet'
  BY <1>6 DEF StopJoins, Joins
<1>7. ASSUME NEW c \in DeskCallers, StopProcesses(c) PROVE NotProcessedYet'
  <2>1. AppendMoves(c)
    BY <1>7, RecordAppended
  <2>2. DeskShape
    BY DeskParts
  <2> QED
    BY <2>1, <2>2 DEF AppendMoves, DeskShape, CallsTakeTurns
<1>8. ASSUME NEW c \in DeskCallers, ForceJoins(c) PROVE NotProcessedYet'
  BY <1>8 DEF ForceJoins, Joins
<1>9. ASSUME NEW c \in DeskCallers, ForceClears(c) PROVE NotProcessedYet'
  BY <1>9 DEF ForceClears
<1>10. ASSUME NEW c \in DeskCallers, ForceIdles(c) PROVE NotProcessedYet'
  BY <1>10 DEF ForceIdles
<1>11. ASSUME NEW r \in Recordings, RecorderStep(r) PROVE NotProcessedYet'
  <2>1. RecorderMoves(r)
    BY <1>11, RecorderEffect
  <2>2. DeskShape
    BY DeskParts
  <2> QED
    BY <2>1, <2>2 DEF RecorderMoves, DeskShape
<1>12. ASSUME NEW p \in DOMAIN processor, ProcessorStep(p) PROVE NotProcessedYet'
  <2>1. ProcessorMoves(p)
    BY <1>12, ProcessorEffect
  <2>2. DeskShape
    BY DeskParts
  <2> QED
    BY ZenonT(60), <2>1, <2>2 DEF ProcessorMoves, DeskShape
<1>13. CASE UNCHANGED deskVars
  BY <1>13 DEF deskVars
<1> QED
  BY <1>1, <1>2, <1>3, <1>4, <1>5, <1>6, <1>7, <1>8, <1>9, <1>10, <1>11, <1>12, <1>13
     DEF DeskNext, CallerStep

\* What was joined is over.
LEMMA JoinedNext == DeskIInv /\ [DeskNext]_deskVars => JoinedIsOver'
<1> SUFFICES ASSUME DeskIInv, [DeskNext]_deskVars PROVE JoinedIsOver'
  OBVIOUS
<1> USE DeskAssumption DEF DeskIInv, JoinedIsOver, LatestRecords, Records, AtWork, DeskTyped,
     DeskCallsTyped
<1>1. ASSUME NEW c \in DeskCallers, AsksStart(c) PROVE JoinedIsOver'
  BY <1>1 DEF AsksStart, DeskCall
<1>2. ASSUME NEW c \in DeskCallers, AsksStop(c) PROVE JoinedIsOver'
  BY <1>2 DEF AsksStop, DeskCall
<1>3. ASSUME NEW c \in DeskCallers, AsksForce(c) PROVE JoinedIsOver'
  BY <1>3 DEF AsksForce, DeskCall
<1>4. ASSUME NEW c \in DeskCallers, DeskStarts(c) PROVE JoinedIsOver'
  <2>1. StartMoves(c)
    BY <1>4, StartEffect
  <2>2. DeskShape
    BY DeskParts
  <2> QED
    BY ZenonT(60), <2>1, <2>2 DEF StartMoves, DeskShape, CallsTakeTurns
<1>5. ASSUME NEW c \in DeskCallers, SetsStop(c) PROVE JoinedIsOver'
  BY <1>5 DEF SetsStop
<1>6. ASSUME NEW c \in DeskCallers, StopJoins(c) PROVE JoinedIsOver'
  BY <1>6 DEF StopJoins, Joins
<1>7. ASSUME NEW c \in DeskCallers, StopProcesses(c) PROVE JoinedIsOver'
  <2>1. AppendMoves(c)
    BY <1>7, RecordAppended
  <2>2. DeskShape
    BY DeskParts
  <2> QED
    BY <2>1, <2>2 DEF AppendMoves, DeskShape, CallsTakeTurns
<1>8. ASSUME NEW c \in DeskCallers, ForceJoins(c) PROVE JoinedIsOver'
  BY <1>8 DEF ForceJoins, Joins
<1>9. ASSUME NEW c \in DeskCallers, ForceClears(c) PROVE JoinedIsOver'
  BY <1>9, DeskParts DEF ForceClears, DeskShape
<1>10. ASSUME NEW c \in DeskCallers, ForceIdles(c) PROVE JoinedIsOver'
  BY <1>10 DEF ForceIdles
<1>11. ASSUME NEW r \in Recordings, RecorderStep(r) PROVE JoinedIsOver'
  <2>1. RecorderMoves(r)
    BY <1>11, RecorderEffect
  <2>2. DeskShape
    BY DeskParts
  <2> QED
    BY <2>1, <2>2 DEF RecorderMoves, DeskShape
<1>12. ASSUME NEW p \in DOMAIN processor, ProcessorStep(p) PROVE JoinedIsOver'
  <2>1. ProcessorMoves(p)
    BY <1>12, ProcessorEffect
  <2>2. DeskShape
    BY DeskParts
  <2> QED
    BY <2>1, <2>2 DEF ProcessorMoves, DeskShape
<1>13. CASE UNCHANGED deskVars
  BY <1>13 DEF deskVars
<1> QED
  BY <1>1, <1>2, <1>3, <1>4, <1>5, <1>6, <1>7, <1>8, <1>9, <1>10, <1>11, <1>12, <1>13
     DEF DeskNext, CallerStep

\* What was taken is whole.
LEMMA TakenNext == DeskIInv /\ [DeskNext]_deskVars => TakenIsWhole'
<1> SUFFICES ASSUME DeskIInv, [DeskNext]_deskVars PROVE TakenIsWhole'
  OBVIOUS
<1> USE DeskAssumption DEF DeskIInv, TakenIsWhole
<1>1. ASSUME NEW c \in DeskCallers, AsksStart(c) PROVE TakenIsWhole'
  BY <1>1 DEF AsksStart, DeskCall
<1>2. ASSUME NEW c \in DeskCallers, AsksStop(c) PROVE TakenIsWhole'
  BY <1>2 DEF AsksStop, DeskCall
<1>3. ASSUME NEW c \in DeskCallers, AsksForce(c) PROVE TakenIsWhole'
  BY <1>3 DEF AsksForce, DeskCall
<1>4. ASSUME NEW c \in DeskCallers, DeskStarts(c) PROVE TakenIsWhole'
  <2>1. StartMoves(c)
    BY <1>4, StartEffect
  <2>2. DeskShape
    BY DeskParts
  <2> QED
    BY <2>1, <2>2 DEF StartMoves, DeskShape
<1>5. ASSUME NEW c \in DeskCallers, SetsStop(c) PROVE TakenIsWhole'
  BY <1>5 DEF SetsStop
<1>6. ASSUME NEW c \in DeskCallers, StopJoins(c) PROVE TakenIsWhole'
  BY <1>6 DEF StopJoins, Joins
<1>7. ASSUME NEW c \in DeskCallers, StopProcesses(c) PROVE TakenIsWhole'
  <2>1. AppendMoves(c)
    BY <1>7, RecordAppended
  <2>2. DeskShape
    BY DeskParts
  <2> QED
    BY <2>1, <2>2 DEF AppendMoves, DeskShape
<1>8. ASSUME NEW c \in DeskCallers, ForceJoins(c) PROVE TakenIsWhole'
  BY <1>8 DEF ForceJoins, Joins
<1>9. ASSUME NEW c \in DeskCallers, ForceClears(c) PROVE TakenIsWhole'
  BY <1>9 DEF ForceClears
<1>10. ASSUME NEW c \in DeskCallers, ForceIdles(c) PROVE TakenIsWhole'
  BY <1>10 DEF ForceIdles
<1>11. ASSUME NEW r \in Recordings, RecorderStep(r) PROVE TakenIsWhole'
  <2>1. RecorderMoves(r) /\ DeskShape
    BY <1>11, RecorderEffect, DeskParts
  <2>2. ASSUME ~tangled', NEW p \in 1..Len(processor)
        PROVE  heard'[processor[p].of] = heard[processor[p].of]
    <3>1. processor[p].of # r /\ processor[p].of \in Recordings
      BY <2>1, <2>2 DEF RecorderMoves, DeskShape, ProcessedIsOver
    <3>2. heard \in [Recordings -> Nat]
      BY DEF DeskTyped, RecordersTyped
    <3> QED
      BY <2>1, <3>1, <3>2 DEF RecorderMoves
  <2> QED
    BY <2>1, <2>2 DEF RecorderMoves
<1>12. ASSUME NEW p \in DOMAIN processor, ProcessorStep(p) PROVE TakenIsWhole'
  <2> SUFFICES ASSUME ~tangled', NEW q \in 1..Len(processor'), processor'[q].at # "take"
                  PROVE  processor'[q].audio = WholeOf(processor'[q].of, heard'[processor'[q].of])
    OBVIOUS
  <2>1. ProcessorMoves(p) /\ DeskShape /\ ~tangled /\ q \in 1..Len(processor)
    BY <1>12, ProcessorEffect, DeskParts DEF ProcessorMoves
  <2>2. processor'[q].of = processor[q].of /\ heard' = heard
    BY <2>1 DEF ProcessorMoves
  <2>3. CASE processor'[q].audio = processor[q].audio /\ processor[q].at # "take"
    BY <2>1, <2>2, <2>3
  <2>4. CASE q = p /\ processor[p].at = "take"
    <3>1. processor[p].of = latest /\ processor'[p].audio = audio
      BY <2>1, <2>4 DEF LastIsProcessed, AtWork, ProcessorMoves
    <3>2. latest # 0
      BY <2>1, <2>4, <3>1 DEF DeskShape
    <3>3. audio = WholeOf(latest, heard[latest])
      BY <2>1, <2>4, <3>2 DEF BufferIsWhole, BufferIsAwaited
    <3> QED
      BY <2>2, <2>4, <3>1, <3>3
  <2> QED
    BY <2>1, <2>3, <2>4 DEF ProcessorMoves
<1>13. CASE UNCHANGED deskVars
  BY <1>13 DEF deskVars
<1> QED
  BY <1>1, <1>2, <1>3, <1>4, <1>5, <1>6, <1>7, <1>8, <1>9, <1>10, <1>11, <1>12, <1>13
     DEF DeskNext, CallerStep

\* The buffer is whole.
LEMMA BufferNext == DeskIInv /\ [DeskNext]_deskVars => BufferIsWhole'
<1> SUFFICES ASSUME DeskIInv, [DeskNext]_deskVars PROVE BufferIsWhole'
  OBVIOUS
<1> USE DeskAssumption DEF DeskIInv, DeskTyped, DeskCallsTyped
<1>1. ASSUME NEW c \in DeskCallers, AsksStart(c) PROVE BufferIsWhole'
  BY <1>1 DEF AsksStart, BufferIsWhole, BufferIsAwaited, LatestRecords, Records, AtWork,
     Stopping, DeskCall
<1>2. ASSUME NEW c \in DeskCallers, AsksStop(c) PROVE BufferIsWhole'
  BY <1>2 DEF AsksStop, BufferIsWhole, BufferIsAwaited, LatestRecords, Records, AtWork,
     Stopping, DeskCall
<1>3. ASSUME NEW c \in DeskCallers, AsksForce(c) PROVE BufferIsWhole'
  BY <1>3 DEF AsksForce, BufferIsWhole, BufferIsAwaited, LatestRecords, Records, AtWork,
     Stopping, DeskCall
<1>4. ASSUME NEW c \in DeskCallers, DeskStarts(c) PROVE BufferIsWhole'
  <2>1. StartMoves(c)
    BY <1>4, StartEffect
  <2>2. WholeOf(latest + 1, 0) = <<>>
    BY <2>1, KeepsWhole DEF StartMoves, BufferIsWhole, BufferIsAwaited, LatestRecords,
       Records, AtWork, Stopping
  <2> QED
    BY <2>1, <2>2 DEF StartMoves, BufferIsWhole, BufferIsAwaited, LatestRecords, Records,
       AtWork, Stopping
<1>5. ASSUME NEW c \in DeskCallers, SetsStop(c) PROVE BufferIsWhole'
  BY <1>5 DEF SetsStop, BufferIsWhole, BufferIsAwaited, LatestRecords, Records, AtWork, Stopping
<1>6. ASSUME NEW c \in DeskCallers, StopJoins(c) PROVE BufferIsWhole'
  BY <1>6 DEF StopJoins, BufferIsWhole, BufferIsAwaited, LatestRecords, Records, AtWork,
     Stopping, Joins
<1>7. ASSUME NEW c \in DeskCallers, StopProcesses(c) PROVE BufferIsWhole'
  <2>1. AppendMoves(c)
    BY <1>7, RecordAppended
  <2>2. DeskShape
    BY DeskParts
  <2> QED
    BY <2>1, <2>2 DEF AppendMoves, BufferIsWhole, BufferIsAwaited, LatestRecords, Records,
       AtWork, Stopping, DeskShape
<1>8. ASSUME NEW c \in DeskCallers, ForceJoins(c) PROVE BufferIsWhole'
  BY <1>8 DEF ForceJoins, BufferIsWhole, BufferIsAwaited, LatestRecords, Records, AtWork,
     Stopping, Joins
<1>9. ASSUME NEW c \in DeskCallers, ForceClears(c) PROVE BufferIsWhole'
  <2> SUFFICES ASSUME ~tangled' PROVE ~BufferIsAwaited'
    BY DEF BufferIsWhole
  <2>1. /\ ~tangled /\ \A p \in 1..Len(processor) : ~AtWork(p)
        /\ call[c] = "force clear" /\ call' = [call EXCEPT ![c] = "force idle"]
        /\ UNCHANGED <<latest, recorder, processor>>
    BY <1>9, DeskParts DEF ForceClears, DeskShape
  <2>2. ~LatestRecords'
    BY <2>1 DEF JoinedIsOver, LatestRecords, Records
  <2>3. call'[c] = "force idle" /\ \A d \in DeskCallers : d # c => call[d] = "idle"
          /\ call'[d] = call[d]
    BY <2>1 DEF CallsTakeTurns, DeskTyped, DeskCallsTyped
  <2>4. \A d \in DeskCallers : ~Stopping(d)'
    BY <2>3 DEF Stopping
  <2>5. \A p \in 1..Len(processor') : processor'[p].at # "take"
    BY <2>1 DEF AtWork
  <2> QED
    BY <2>2, <2>3, <2>4, <2>5 DEF BufferIsAwaited
<1>10. ASSUME NEW c \in DeskCallers, ForceIdles(c) PROVE BufferIsWhole'
  BY <1>10 DEF ForceIdles, BufferIsWhole, BufferIsAwaited, LatestRecords, Records, AtWork,
     Stopping
<1>11. ASSUME NEW r \in Recordings, RecorderStep(r) PROVE BufferIsWhole'
  <2> SUFFICES ASSUME ~tangled' PROVE audio' = WholeOf(latest', heard'[latest'])
    BY DEF BufferIsWhole
  <2>1. RecorderMoves(r) /\ ~tangled
    BY <1>11, RecorderEffect DEF RecorderMoves
  <2>5. latest = r /\ latest' = latest /\ Records(r)
    BY <2>1 DEF RecorderMoves, LastRecords, Records
  <2>6. r # 0 /\ heard \in [Recordings -> Nat]
    BY DeskParts DEF DeskShape, RecordersTyped
  <2>2. latest = r /\ LatestRecords /\ latest' = latest /\ heard[r] \in Nat
          /\ heard \in [Recordings -> Nat]
    BY <2>5, <2>6 DEF LatestRecords
  <2>3. audio = WholeOf(r, heard[r])
    BY <2>1, <2>2, DeskParts DEF BufferIsWhole, BufferIsAwaited, DeskShape, LatestRecords
  <2>4. Keeps(Append(WholeOf(r, heard[r]), r)) = WholeOf(r, heard[r] + 1)
    BY <2>2, KeepsWhole
  <2> QED
    BY <2>1, <2>2, <2>3, <2>4 DEF RecorderMoves
<1>12. ASSUME NEW p \in DOMAIN processor, ProcessorStep(p) PROVE BufferIsWhole'
  <2> SUFFICES ASSUME ~tangled', BufferIsAwaited', latest' # 0
                  PROVE  audio' = WholeOf(latest', heard'[latest'])
    BY DEF BufferIsWhole
  <2>1. ProcessorMoves(p) /\ ~tangled /\ DeskShape
    BY <1>12, ProcessorEffect, DeskParts DEF ProcessorMoves
  <2>2. /\ LatestRecords' <=> LatestRecords
        /\ deskState' = "RECORDING" => deskState = "RECORDING"
        /\ \A c \in DeskCallers : Stopping(c)' <=> Stopping(c)
        /\ \A q \in 1..Len(processor') : q \in 1..Len(processor)
             /\ (processor'[q].at = "take" => q # p /\ processor[q].at = "take")
    BY <2>1 DEF ProcessorMoves, LatestRecords, Records, Stopping
  <2>3. BufferIsAwaited
    BY <2>1, <2>2 DEF BufferIsAwaited, ProcessorMoves
  <2>4. CASE audio' = audio
    BY <2>1, <2>3, <2>4 DEF ProcessorMoves, BufferIsWhole
  <2>5. CASE processor[p].at = "clean"
    <3>1. processor[p].of = latest /\ recorder[latest] = "ended" /\ p \in 1..Len(processor)
      BY ZenonT(60), <2>1, <2>5 DEF ProcessorMoves, LastIsProcessed, ProcessedIsOver, AtWork
    <3>2. ~LatestRecords /\ deskState # "RECORDING" /\ \A c \in DeskCallers : ~Stopping(c)
      BY <2>1, <3>1 DEF LatestRecords, Records, NotProcessedYet
    <3>3. PICK q \in 1..Len(processor') : processor'[q].at = "take"
      BY <2>2, <3>2 DEF BufferIsAwaited
    <3>4. q \in 1..Len(processor) /\ q # p /\ processor[q].at = "take"
      BY <2>2, <3>3
    <3>5. processor[q].of = latest
      BY <2>1, <3>4 DEF LastIsProcessed, AtWork
    <3> QED
      BY <2>1, <3>1, <3>4, <3>5 DEF ProcessedOnce
  <2> QED
    BY <2>1, <2>4, <2>5 DEF ProcessorMoves
<1>13. CASE UNCHANGED deskVars
  BY <1>13 DEF deskVars, BufferIsWhole, BufferIsAwaited, LatestRecords, Records, AtWork,
     Stopping
<1> QED
  BY <1>1, <1>2, <1>3, <1>4, <1>5, <1>6, <1>7, <1>8, <1>9, <1>10, <1>11, <1>12, <1>13
     DEF DeskNext, CallerStep

\* What is counted, and what counting comes to.
LEMMA CountsAre ==
  ASSUME DeskIInv
  PROVE  /\ Cardinality(Calling) \in Nat /\ Len(processor) \in Nat /\ deskCalls \in Nat
         /\ Len(processor) + Cardinality(Calling) <= deskCalls
<1>1. Cardinality(Calling) \in Nat /\ Len(processor) + Cardinality(Calling) <= deskCalls
  BY FS_CardinalityType DEF DeskIInv, CallsAreCounted
<1>2. Len(processor) \in Nat
  BY DeskParts DEF DeskIInv, DeskShape
<1>3. deskCalls \in Nat
  BY DeskAssumption DEF DeskIInv, DeskTyped, DeskCountsTyped
<1> QED
  BY <1>1, <1>2, <1>3

\* What one thread more, or one call more, adds.
LEMMA SumsAre ==
  ASSUME NEW a \in Nat, NEW b \in Nat, NEW d \in Nat, a + b <= d
  PROVE  a + (b + 1) <= d + 1 /\ a + (b - 1) <= d /\ (a + 1) + (b - 1) <= d
OBVIOUS

\* A call that begins, one that ends, and a step of neither.
LEMMA CallBegins ==
  ASSUME DeskIInv, NEW c \in DeskCallers, NEW does, NEW place \in {"start", "stop", "force join"},
         DeskCall(c, does, place)
  PROVE  CallsAreCounted'
<1>1. Calling' = Calling \cup {c} /\ c \notin Calling
  BY DEF DeskCall, Calling, DeskIInv, DeskTyped, DeskCallsTyped
<1>2. IsFiniteSet(Calling') /\ Cardinality(Calling') = Cardinality(Calling) + 1
  BY <1>1, FS_AddElement DEF DeskIInv, CallsAreCounted
<1>3. /\ Cardinality(Calling) \in Nat /\ Len(processor) \in Nat /\ deskCalls \in Nat
      /\ Len(processor) + Cardinality(Calling) <= deskCalls
  BY CountsAre
<1>4. deskCalls' = deskCalls + 1 /\ processor' = processor
  BY DEF DeskCall
<1>6. Len(processor) + (Cardinality(Calling) + 1) <= deskCalls + 1
  BY <1>3, SumsAre
<1> QED
  BY <1>2, <1>4, <1>6 DEF CallsAreCounted

\* A call that is over no longer counts, with its thread or without.
LEMMA CallEnds ==
  ASSUME DeskIInv, NEW c \in DeskCallers, call[c] # "idle", call' = [call EXCEPT ![c] = "idle"],
         deskCalls' = deskCalls, Len(processor') \in {Len(processor), Len(processor) + 1}
  PROVE  CallsAreCounted'
<1>1. Calling' = Calling \ {c} /\ c \in Calling
  BY DEF Calling, DeskIInv, DeskTyped, DeskCallsTyped
<1>2. IsFiniteSet(Calling') /\ Cardinality(Calling') = Cardinality(Calling) - 1
  BY <1>1, FS_RemoveElement DEF DeskIInv, CallsAreCounted
<1>3. /\ Cardinality(Calling) \in Nat /\ Len(processor) \in Nat /\ deskCalls \in Nat
      /\ Len(processor) + Cardinality(Calling) <= deskCalls
  BY CountsAre
<1>6. Len(processor') + (Cardinality(Calling) - 1) <= deskCalls
  BY <1>3, SumsAre
<1> QED
  BY <1>2, <1>6 DEF CallsAreCounted

\* A step inside a call changes no count.
LEMMA CallGoesOn ==
  ASSUME DeskIInv, \A c \in DeskCallers : call'[c] # "idle" <=> call[c] # "idle",
         deskCalls' = deskCalls, Len(processor') = Len(processor)
  PROVE  CallsAreCounted'
<1>1. Calling' = Calling
  BY DEF Calling
<1> QED
  BY <1>1 DEF DeskIInv, CallsAreCounted

\* Every processing thread has a call that is over.
LEMMA CountNext == DeskIInv /\ [DeskNext]_deskVars => CallsAreCounted'
<1> SUFFICES ASSUME DeskIInv, [DeskNext]_deskVars PROVE CallsAreCounted'
  OBVIOUS
<1> USE DeskAssumption DEF DeskIInv, DeskTyped, DeskCallsTyped
<1>1. ASSUME NEW c \in DeskCallers, AsksStart(c) PROVE CallsAreCounted'
  BY <1>1, CallBegins DEF AsksStart
<1>2. ASSUME NEW c \in DeskCallers, AsksStop(c) PROVE CallsAreCounted'
  BY <1>2, CallBegins DEF AsksStop
<1>3. ASSUME NEW c \in DeskCallers, AsksForce(c) PROVE CallsAreCounted'
  BY <1>3, CallBegins DEF AsksForce
<1>4. ASSUME NEW c \in DeskCallers, DeskStarts(c) PROVE CallsAreCounted'
  BY <1>4, StartEffect, CallEnds DEF StartMoves
<1>5. ASSUME NEW c \in DeskCallers, SetsStop(c) PROVE CallsAreCounted'
  BY <1>5, CallGoesOn DEF SetsStop
<1>6. ASSUME NEW c \in DeskCallers, StopJoins(c) PROVE CallsAreCounted'
  BY <1>6, CallGoesOn DEF StopJoins, Joins
<1>7. ASSUME NEW c \in DeskCallers, StopProcesses(c) PROVE CallsAreCounted'
  BY <1>7, RecordAppended, CallEnds DEF AppendMoves
<1>8. ASSUME NEW c \in DeskCallers, ForceJoins(c) PROVE CallsAreCounted'
  BY <1>8, CallGoesOn DEF ForceJoins, Joins
<1>9. ASSUME NEW c \in DeskCallers, ForceClears(c) PROVE CallsAreCounted'
  BY <1>9, CallGoesOn DEF ForceClears
<1>10. ASSUME NEW c \in DeskCallers, ForceIdles(c) PROVE CallsAreCounted'
  BY <1>10, CallEnds DEF ForceIdles
<1>11. ASSUME NEW r \in Recordings, RecorderStep(r) PROVE CallsAreCounted'
  BY <1>11, RecorderEffect, CallGoesOn DEF RecorderMoves
<1>12. ASSUME NEW p \in DOMAIN processor, ProcessorStep(p) PROVE CallsAreCounted'
  BY <1>12, ProcessorEffect, CallGoesOn DEF ProcessorMoves
<1>13. CASE UNCHANGED deskVars
  BY <1>13, CallGoesOn DEF deskVars
<1> QED
  BY <1>1, <1>2, <1>3, <1>4, <1>5, <1>6, <1>7, <1>8, <1>9, <1>10, <1>11, <1>12, <1>13
     DEF DeskNext, CallerStep

\* Every step keeps the invariant.
LEMMA DeskKept == DeskIInv /\ [DeskNext]_deskVars => DeskIInv'
BY DeskTypeNext, StartsNext, CountNext, StoppedNext, GivesNext, TurnsNext, LastRecordsNext,
   LastProcessedNext, ProcessedNext, OnceNext, NotProcessedNext, JoinedNext, TakenNext,
   BufferNext DEF DeskIInv

\* A dictation (hotkey_session.py) is transcribed as it was heard and given out once.
THEOREM DictationIsWhole == DeskInit /\ [][DeskNext]_deskVars => []DeskInv
<1>1. ASSUME DeskIInv PROVE DeskInv
  <2> USE DEF DeskIInv
  <2>1. \A p \in DOMAIN processor :
          /\ processor[p].at \in {"take", "transcribe", "output", "complete", "clean", "ended"}
          /\ processor[p].of \in Recordings
    BY <1>1, DeskParts DEF DeskShape, ProcessorRecords
  <2>2. givenOut \in Seq(1..NDeskCalls)
    <3>1. Len(processor) <= NDeskCalls
      <4>1. Cardinality(Calling) \in Nat /\ Len(processor) \in Nat
        BY <1>1, DeskParts, FS_CardinalityType DEF DeskShape, CallsAreCounted
      <4>2. Len(processor) + Cardinality(Calling) <= deskCalls /\ deskCalls \in 0..NDeskCalls
        BY <1>1 DEF CallsAreCounted, DeskTyped, DeskCountsTyped
      <4> QED
        BY <4>1, <4>2, DeskAssumption
    <3>2. Len(processor) \in Nat /\ NDeskCalls \in Nat
      BY <1>1, DeskParts, DeskAssumption DEF DeskShape
    <3>3. \A i \in 1..Len(givenOut) : givenOut[i] \in 1..NDeskCalls
      BY <1>1, <3>1, <3>2 DEF EachGivesOnce
    <3>4. givenOut \in Seq(Nat)
      BY <1>1 DEF EachGivesOnce
    <3>5. givenOut \in [1..Len(givenOut) -> 1..NDeskCalls] /\ Len(givenOut) \in Nat
      BY <3>3, <3>4
    <3> QED
      BY <3>5, SeqDef
  <2>3. DeskTypeOK
    BY <1>1, <2>1, <2>2 DEF DeskTypeOK, DeskTyped, DeskFlagsTyped, DeskCountsTyped,
       DeskCallsTyped, RecordersTyped, BufferTyped
  <2>4. TakesItsRecording
    BY <1>1, DeskParts DEF TakesItsRecording, TakenIsWhole, WholeOf, DeskShape
  <2>5. GivenOnce
    <3> SUFFICES ASSUME ~tangled, NEW i \in DOMAIN givenOut, NEW j \in DOMAIN givenOut,
                        processor[givenOut[i]].of = processor[givenOut[j]].of
                 PROVE  i = j
      BY DEF GivenOnce
    <3>1. i \in 1..Len(givenOut) /\ j \in 1..Len(givenOut)
      BY <2>2
    <3>2. givenOut[i] = givenOut[j]
      BY <1>1, <3>1 DEF EachGivesOnce, ProcessedOnce
    <3> QED
      BY <1>1, <3>1, <3>2 DEF EachGivesOnce
  <2> QED
    BY <2>3, <2>4, <2>5 DEF DeskInv
<1> QED
  BY DeskInitInv, DeskKept, <1>1, PTL

-----------------------------------------------------------------------------
(* system_session.py.  A thread that lives is the last start's or was left behind; once the   *)
(* stop has given up its waits, what lives of its start is on record, and the notes are built  *)
(* after that.                                                                                *)

SysFlagsTyped ==
  /\ sysStatus \in {"none", "created", "running", "paused", "error", "stopped"}
  /\ sysCall \in {"none", "starting", "stopping", "joined", "building", "entering", "waiting",
                  "closed"}
  /\ sysStop \in BOOLEAN /\ sysPause \in BOOLEAN
SysThreadsTyped ==
  /\ sysStarts \in 0..NSystemStarts /\ sysSource \in 0..sysStarts
  /\ sysCaptures \subseteq 1..sysStarts /\ sysLoops \subseteq 1..sysStarts
  /\ sysWorkers \subseteq 1..sysStarts /\ sysLeft \subseteq 1..sysStarts
SysOutlivedTyped == sysOutlived \subseteq 1..sysStarts
TapeTyped == tape \in {"off", "on", "broken"} /\ audioDir \in BOOLEAN
SegmentsTyped ==
  /\ segs \in 0..NSegments /\ disk \in 0..2 * NSegments
  /\ noted \in 0..NSegments /\ lastNoted \in 0..segs /\ notesDirty \in BOOLEAN
NotingTyped == noting \in [Noters -> -1..NSegments]
ExportsTyped ==
  exportOf \in [SystemExports -> {"none", "submitted", "early", "left", "listed", "done",
                                 "returned"}]
\* The threads are those of the start whose source is held, or were left behind.
ThreadsAreKnown == \A g \in SysThreads : g = sysSource \/ g \in sysLeft

SourceIsLast == sysSource \in {0, sysStarts}

\* Notes that are being built have a thread that builds them.
NotesHaveABuilder ==
  /\ noting["loop"] # -1 => sysLoops # {}
  /\ noting["worker"] # -1 => sysWorkers # {}
  /\ sysCall = "building" => noting["stop"] # -1

\* stop_session() is past its waits, or has returned and nothing was started since.
PastJoin == sysCall \in {"joined", "building"} \/ sysStatus = "stopped"

\* Past the waits every thread that lives was left behind or is known to have outlived them;
\* and the flag that tells it to end is set from before them to the next start.
JoinedAreGone ==
  /\ sysCall = "stopping" => sysStop
  /\ PastJoin => /\ SysThreads \subseteq sysLeft \cup sysOutlived
                 /\ tape = "off" /\ sysStop

\* Unless a thread outlived or was left behind, the notes are complete once they are written.
NotesCatchUp ==
  sysOutlived = {} /\ sysLeft = {} =>
    /\ sysCall = "building" => noting["stop"] = segs
    /\ sysStatus = "stopped" /\ sysCall # "building" => noted = segs

SystemIInv ==
  /\ SystemTypeOK /\ SourceIsLast /\ ThreadsAreKnown /\ NotesHaveABuilder /\ JoinedAreGone
  /\ NotesCatchUp

\* The initial state satisfies the invariant.
LEMMA SystemInitInv == SystemInit => SystemIInv
<1> SUFFICES ASSUME SystemInit PROVE SystemIInv
  OBVIOUS
<1> USE SystemAssumption DEF SystemInit, Noters
<1>1. SystemTypeOK
  <2> USE DEF SystemTypeOK
  <2>0. 0 \in 0..0 /\ 0 \in 0..NSegments /\ 0 \in 0..2 * NSegments /\ FALSE \in BOOLEAN
    OBVIOUS
  <2>1. SysFlagsTyped
    BY DEF SystemInit, SysFlagsTyped
  <2>2. SysOutlivedTyped
    BY DEF SystemInit, SysOutlivedTyped
  <2>3. SysThreadsTyped
    BY DEF SystemInit, SysThreadsTyped
  <2>4. TapeTyped
    BY DEF SystemInit, TapeTyped
  <2>5. SegmentsTyped
    BY <2>0 DEF SystemInit, SegmentsTyped
  <2>6. NotingTyped
    BY DEF SystemInit, NotingTyped
  <2>7. ExportsTyped
    BY DEF SystemInit, ExportsTyped
  <2> QED
    BY <2>1, <2>2, <2>3, <2>4, <2>5, <2>6, <2>7 DEF SysFlagsTyped, SysOutlivedTyped,
       SysThreadsTyped, TapeTyped, SegmentsTyped, NotingTyped, ExportsTyped
<1> QED
  BY <1>1 DEF SystemIInv, SourceIsLast, ThreadsAreKnown, SysThreads, NotesHaveABuilder,
     PastJoin,
              JoinedAreGone, NotesCatchUp

\* Notes of as many segments as there may be fit.
LEMMA WrittenFits ==
  ASSUME SystemTypeOK, NEW n \in Int, n # -1, n \in -1..NSegments, NotesAre(n),
         UNCHANGED <<segs, disk>>
  PROVE  SegmentsTyped'
<1>1. n \in 0..NSegments /\ segs \in 0..segs
  BY SystemAssumption DEF SystemTypeOK
<1>2. noted' = n /\ lastNoted' = segs /\ notesDirty' = FALSE /\ segs' = segs /\ disk' = disk
  BY DEF NotesAre
<1>3. segs \in 0..NSegments /\ disk \in 0..2 * NSegments
  BY DEF SystemTypeOK
<1> QED
  BY <1>1, <1>2, <1>3 DEF SegmentsTyped

\* A start adds its own threads.
LEMMA StartsFit ==
  ASSUME SystemTypeOK, NEW resumed \in BOOLEAN, SysStart(resumed)
  PROVE  /\ SysThreadsTyped' /\ SysOutlivedTyped' /\ SegmentsTyped'
         /\ sysStatus' \in {"created", "error"} /\ sysCall' \in {"starting", "none"}
<1>1. sysStarts \in Nat /\ sysStarts' = sysStarts + 1 /\ sysStarts' <= NSystemStarts
  BY SystemAssumption DEF SystemTypeOK, SysStart
<1>2. 1..sysStarts \subseteq 1..sysStarts' /\ sysStarts' \in 1..sysStarts'
  BY <1>1
<1>3. /\ sysCaptures \subseteq 1..sysStarts /\ sysLoops \subseteq 1..sysStarts
      /\ sysWorkers \subseteq 1..sysStarts /\ sysLeft \subseteq 1..sysStarts
  BY DEF SystemTypeOK
<1>4. sysSource' \in {0, sysStarts'} /\ sysLeft' = sysLeft \cup SysThreads
  BY DEF SysStart
<1>5. /\ sysCaptures' = sysCaptures \/ sysCaptures' = sysCaptures \cup {sysStarts'}
      /\ sysLoops' = sysLoops \/ sysLoops' = sysLoops \cup {sysStarts'}
      /\ sysWorkers' = sysWorkers \/ sysWorkers' = sysWorkers \cup {sysStarts'}
  BY DEF SysStart, sysThreadVars
<1>6. /\ sysCaptures' \subseteq 1..sysStarts' /\ sysLoops' \subseteq 1..sysStarts'
      /\ sysWorkers' \subseteq 1..sysStarts' /\ sysLeft' \subseteq 1..sysStarts'
  BY <1>2, <1>3, <1>4, <1>5 DEF SysThreads
<1>7. sysStarts' \in 0..NSystemStarts /\ sysSource' \in 0..sysStarts'
  BY <1>1, <1>4, SystemAssumption
<1>8. /\ segs' = 0 /\ noted' = 0 /\ lastNoted' = 0 /\ notesDirty' = FALSE
      /\ disk' = disk \/ disk' = 0
  BY DEF SysStart, NewSession
<1>9. disk \in 0..2 * NSegments /\ 0 \in 0..2 * NSegments /\ 0 \in 0..NSegments /\ 0 \in 0..0
  BY SystemAssumption DEF SystemTypeOK
<1>10. sysStatus' \in {"created", "error"} /\ sysCall' \in {"starting", "none"}
  BY DEF SysStart, SysIdle
<1>11. SegmentsTyped'
  BY <1>8, <1>9 DEF SegmentsTyped
<1>12. sysOutlived' \subseteq 1..sysStarts'
  BY <1>2 DEF SystemTypeOK, SysStart
<1> QED
  BY <1>6, <1>7, <1>10, <1>11, <1>12 DEF SysThreadsTyped, SysOutlivedTyped

\* What is being built fits.
LEMMA BuiltFits ==
  ASSUME SystemTypeOK
  PROVE  /\ \A who \in Noters : noting[who] \in Int /\ noting[who] \in -1..NSegments
         /\ segs \in Int /\ segs # -1 /\ segs \in -1..NSegments
         /\ "loop" \in Noters /\ "worker" \in Noters /\ "stop" \in Noters
BY SystemAssumption DEF SystemTypeOK, Noters

\* Every step preserves the types.
LEMMA SystemTypeNext == SystemIInv /\ [SystemNext]_systemVars => SystemTypeOK'
<1> SUFFICES ASSUME SystemIInv, [SystemNext]_systemVars PROVE SystemTypeOK'
  OBVIOUS
<1> USE SystemAssumption DEF SystemIInv, SystemTypeOK, Noters
<1>1. ASSUME NEW resumed \in BOOLEAN, SysStart(resumed) PROVE SystemTypeOK'
  <2>1. SysFlagsTyped' /\ TapeTyped' /\ NotingTyped' /\ ExportsTyped'
    BY <1>1 DEF SysFlagsTyped, TapeTyped, NotingTyped, ExportsTyped, SysStart, NewSession,
       sysThreadVars, SysThreads
  <2>2. SysOutlivedTyped' /\ SysThreadsTyped' /\ SegmentsTyped'
    BY <1>1, StartsFit DEF SysOutlivedTyped, SysThreadsTyped, SegmentsTyped
  <2> QED
    BY <2>1, <2>2 DEF SysFlagsTyped, SysOutlivedTyped, SysThreadsTyped, TapeTyped,
       SegmentsTyped, NotingTyped, ExportsTyped
<1>2. CASE SysPauses
  BY <1>2 DEF SysFlagsTyped, SysOutlivedTyped, SysThreadsTyped, TapeTyped, SegmentsTyped,
     NotingTyped, ExportsTyped, SysPauses, sysThreadVars, noteVars
<1>3. CASE SysResumes
  BY <1>3 DEF SysFlagsTyped, SysOutlivedTyped, SysThreadsTyped, TapeTyped, SegmentsTyped,
     NotingTyped, ExportsTyped, SysResumes, sysThreadVars, noteVars
<1>4. CASE SysStops
  BY <1>4 DEF SysFlagsTyped, SysOutlivedTyped, SysThreadsTyped, TapeTyped, SegmentsTyped,
     NotingTyped, ExportsTyped, SysStops, TellsToStop, sysThreadVars, noteVars
<1>5. CASE SysShutsDown
  BY <1>5 DEF SysFlagsTyped, SysOutlivedTyped, SysThreadsTyped, TapeTyped, SegmentsTyped,
     NotingTyped, ExportsTyped, SysShutsDown, sysThreadVars, noteVars
<1>6. CASE LoopBuilds
  BY <1>6 DEF SysFlagsTyped, SysOutlivedTyped, SysThreadsTyped, TapeTyped, SegmentsTyped,
     NotingTyped, ExportsTyped, LoopBuilds, BuildsNotes, sysThreadVars
<1>7. CASE SysMarks
  BY <1>7 DEF SysFlagsTyped, SysOutlivedTyped, SysThreadsTyped, TapeTyped, SegmentsTyped,
     NotingTyped, ExportsTyped, SysMarks, sysThreadVars, noteVars
<1>8. CASE SysJoins
  BY <1>8 DEF SysFlagsTyped, SysOutlivedTyped, SysThreadsTyped, TapeTyped, SegmentsTyped,
     NotingTyped, ExportsTyped, SysJoins, SysStopJoins, Unended, sysThreadVars, noteVars
<1>9. CASE SysBuilds
  BY <1>9 DEF SysFlagsTyped, SysOutlivedTyped, SysThreadsTyped, TapeTyped, SegmentsTyped,
     NotingTyped, ExportsTyped, SysBuilds, StopBuilds, BuildsNotes, sysThreadVars
<1>10. CASE SysStopped
  <2>1. SysFlagsTyped' /\ SysOutlivedTyped' /\ SysThreadsTyped' /\ TapeTyped'
        /\ NotingTyped' /\ ExportsTyped'
    BY <1>10 DEF SysFlagsTyped, SysOutlivedTyped, SysThreadsTyped, TapeTyped, NotingTyped,
       ExportsTyped, SysStopped, WritesNotes, NotesAre, sysThreadVars, noteVars
  <2>2. SegmentsTyped'
    BY <1>10, WrittenFits, BuiltFits DEF SysStopped, WritesNotes, noteVars, SegmentsTyped
  <2> QED
    BY <2>1, <2>2 DEF SysFlagsTyped, SysOutlivedTyped, SysThreadsTyped, TapeTyped,
       SegmentsTyped, NotingTyped, ExportsTyped
<1>11. ASSUME NEW e \in SystemExports, ExportEnters(e) PROVE SystemTypeOK'
  BY <1>11 DEF SysFlagsTyped, SysOutlivedTyped, SysThreadsTyped, TapeTyped, SegmentsTyped,
     NotingTyped, ExportsTyped, ExportEnters, SystemRest, sysThreadVars, noteVars
<1>12. ASSUME NEW e \in SystemExports, ExportReturns(e) PROVE SystemTypeOK'
  BY <1>12 DEF SysFlagsTyped, SysOutlivedTyped, SysThreadsTyped, TapeTyped, SegmentsTyped,
     NotingTyped, ExportsTyped, ExportReturns, SystemRest, sysThreadVars, noteVars
<1>13. ASSUME NEW g \in SysStarts, CaptureEnds(g) PROVE SystemTypeOK'
  BY <1>13 DEF SysFlagsTyped, SysOutlivedTyped, SysThreadsTyped, TapeTyped, SegmentsTyped,
     NotingTyped, ExportsTyped, CaptureEnds, noteVars
<1>14. ASSUME NEW g \in SysStarts, SysLoopEnds(g) PROVE SystemTypeOK'
  BY <1>14 DEF SysFlagsTyped, SysOutlivedTyped, SysThreadsTyped, TapeTyped, SegmentsTyped,
     NotingTyped, ExportsTyped, SysLoopEnds, noteVars
<1>15. CASE ThreadWrites("loop")
  <2>1. SysFlagsTyped' /\ SysOutlivedTyped' /\ SysThreadsTyped' /\ TapeTyped'
        /\ NotingTyped' /\ ExportsTyped'
    BY <1>15 DEF SysFlagsTyped, SysOutlivedTyped, SysThreadsTyped, TapeTyped, NotingTyped,
       ExportsTyped, ThreadWrites, WritesNotes, NotesAre, sysThreadVars
  <2>2. SegmentsTyped'
    BY <1>15, WrittenFits, BuiltFits DEF ThreadWrites, WritesNotes, SegmentsTyped
  <2> QED
    BY <2>1, <2>2 DEF SysFlagsTyped, SysOutlivedTyped, SysThreadsTyped, TapeTyped,
       SegmentsTyped, NotingTyped, ExportsTyped
<1>16. CASE ThreadWrites("worker")
  <2>1. SysFlagsTyped' /\ SysOutlivedTyped' /\ SysThreadsTyped' /\ TapeTyped'
        /\ NotingTyped' /\ ExportsTyped'
    BY <1>16 DEF SysFlagsTyped, SysOutlivedTyped, SysThreadsTyped, TapeTyped, NotingTyped,
       ExportsTyped, ThreadWrites, WritesNotes, NotesAre, sysThreadVars
  <2>2. SegmentsTyped'
    BY <1>16, WrittenFits, BuiltFits DEF ThreadWrites, WritesNotes, SegmentsTyped
  <2> QED
    BY <2>1, <2>2 DEF SysFlagsTyped, SysOutlivedTyped, SysThreadsTyped, TapeTyped,
       SegmentsTyped, NotingTyped, ExportsTyped
<1>17. ASSUME NEW g \in SysStarts, SysCaptureFails(g) PROVE SystemTypeOK'
  <2>1. SysFlagsTyped' /\ SysOutlivedTyped' /\ SysThreadsTyped' /\ TapeTyped'
        /\ NotingTyped' /\ ExportsTyped'
    BY <1>17 DEF SysFlagsTyped, SysOutlivedTyped, SysThreadsTyped, TapeTyped, NotingTyped,
       ExportsTyped, SysCaptureFails, Fails, NotesAre
  <2>2. SegmentsTyped'
    BY <1>17, WrittenFits, BuiltFits DEF SysCaptureFails, Fails, SegmentsTyped
  <2> QED
    BY <2>1, <2>2 DEF SysFlagsTyped, SysOutlivedTyped, SysThreadsTyped, TapeTyped,
       SegmentsTyped, NotingTyped, ExportsTyped
<1>18. ASSUME NEW g \in SysStarts, WorkerFails(g) PROVE SystemTypeOK'
  <2>1. SysFlagsTyped' /\ SysOutlivedTyped' /\ SysThreadsTyped' /\ TapeTyped'
        /\ NotingTyped' /\ ExportsTyped'
    BY <1>18 DEF SysFlagsTyped, SysOutlivedTyped, SysThreadsTyped, TapeTyped, NotingTyped,
       ExportsTyped, WorkerFails, Fails, NotesAre, sysThreadVars
  <2>2. SegmentsTyped'
    BY <1>18, WrittenFits, BuiltFits DEF WorkerFails, Fails, SegmentsTyped
  <2> QED
    BY <2>1, <2>2 DEF SysFlagsTyped, SysOutlivedTyped, SysThreadsTyped, TapeTyped,
       SegmentsTyped, NotingTyped, ExportsTyped
<1>19. ASSUME NEW g \in SysStarts, WorkerEnds(g) PROVE SystemTypeOK'
  BY <1>19 DEF SysFlagsTyped, SysOutlivedTyped, SysThreadsTyped, TapeTyped, SegmentsTyped,
     NotingTyped, ExportsTyped, WorkerEnds, noteVars
<1>20. ASSUME NEW g \in SysStarts, RotationFails(g) PROVE SystemTypeOK'
  BY <1>20 DEF SysFlagsTyped, SysOutlivedTyped, SysThreadsTyped, TapeTyped, SegmentsTyped,
     NotingTyped, ExportsTyped, RotationFails, noteVars
<1>21. ASSUME NEW g \in SysStarts, SegmentHeard(g) PROVE SystemTypeOK'
  BY <1>21 DEF SysFlagsTyped, SysOutlivedTyped, SysThreadsTyped, TapeTyped, SegmentsTyped,
     NotingTyped, ExportsTyped, SegmentHeard, sysThreadVars
<1>22. ASSUME NEW e \in SystemExports, ExportSubmits(e) PROVE SystemTypeOK'
  BY <1>22 DEF SysFlagsTyped, SysOutlivedTyped, SysThreadsTyped, TapeTyped, SegmentsTyped,
     NotingTyped, ExportsTyped, ExportSubmits, SystemRest, sysThreadVars, noteVars
<1>23. ASSUME NEW e \in SystemExports, ExportRuns(e) PROVE SystemTypeOK'
  BY <1>23 DEF SysFlagsTyped, SysOutlivedTyped, SysThreadsTyped, TapeTyped, SegmentsTyped,
     NotingTyped, ExportsTyped, ExportRuns, SystemRest, sysThreadVars, noteVars
<1>24. CASE UNCHANGED systemVars
  BY <1>24 DEF SysFlagsTyped, SysOutlivedTyped, SysThreadsTyped, TapeTyped, SegmentsTyped,
     NotingTyped, ExportsTyped, systemVars, sysThreadVars, noteVars
<1> QED
  BY <1>1, <1>2, <1>3, <1>4, <1>5, <1>6, <1>7, <1>8, <1>9, <1>10, <1>11, <1>12, <1>13, <1>14,
     <1>15, <1>16, <1>17, <1>18, <1>19, <1>20, <1>21, <1>22, <1>23, <1>24 DEF SystemNext,
     SystemCallStep, SystemThreadStep

\* The source that is held is the last start's.
LEMMA SourceNext == SystemIInv /\ [SystemNext]_systemVars => SourceIsLast'
<1> SUFFICES ASSUME SystemIInv, [SystemNext]_systemVars PROVE SourceIsLast'
  OBVIOUS
<1> USE SystemAssumption DEF SystemIInv, SourceIsLast, SystemTypeOK
<1>1. ASSUME NEW resumed \in BOOLEAN, SysStart(resumed) PROVE SourceIsLast'
  BY <1>1 DEF SysStart, NewSession, sysThreadVars, SysThreads
<1>2. CASE SysPauses
  BY <1>2 DEF SysPauses, sysThreadVars, noteVars
<1>3. CASE SysResumes
  BY <1>3 DEF SysResumes, sysThreadVars, noteVars
<1>4. CASE SysStops
  BY <1>4 DEF SysStops, TellsToStop, sysThreadVars, noteVars
<1>5. CASE SysShutsDown
  BY <1>5 DEF SysShutsDown, sysThreadVars, noteVars
<1>6. CASE LoopBuilds
  BY <1>6 DEF LoopBuilds, BuildsNotes, sysThreadVars
<1>7. CASE SysMarks
  BY <1>7 DEF SysMarks, sysThreadVars, noteVars
<1>8. CASE SysJoins
  BY <1>8 DEF SysJoins, SysStopJoins, Unended, sysThreadVars, noteVars
<1>9. CASE SysBuilds
  BY <1>9 DEF SysBuilds, StopBuilds, BuildsNotes, sysThreadVars
<1>10. CASE SysStopped
  BY <1>10 DEF SysStopped, WritesNotes, NotesAre, sysThreadVars, noteVars
<1>11. ASSUME NEW e \in SystemExports, ExportEnters(e) PROVE SourceIsLast'
  BY <1>11 DEF ExportEnters, SystemRest, sysThreadVars, noteVars
<1>12. ASSUME NEW e \in SystemExports, ExportReturns(e) PROVE SourceIsLast'
  BY <1>12 DEF ExportReturns, SystemRest, sysThreadVars, noteVars
<1>13. ASSUME NEW g \in SysStarts, CaptureEnds(g) PROVE SourceIsLast'
  BY <1>13 DEF CaptureEnds, noteVars
<1>14. ASSUME NEW g \in SysStarts, SysLoopEnds(g) PROVE SourceIsLast'
  BY <1>14 DEF SysLoopEnds, noteVars
<1>15. CASE ThreadWrites("loop")
  BY <1>15 DEF ThreadWrites, WritesNotes, NotesAre, sysThreadVars
<1>16. CASE ThreadWrites("worker")
  BY <1>16 DEF ThreadWrites, WritesNotes, NotesAre, sysThreadVars
<1>17. ASSUME NEW g \in SysStarts, SysCaptureFails(g) PROVE SourceIsLast'
  BY <1>17 DEF SysCaptureFails, Fails, NotesAre
<1>18. ASSUME NEW g \in SysStarts, WorkerFails(g) PROVE SourceIsLast'
  BY <1>18 DEF WorkerFails, Fails, NotesAre, sysThreadVars
<1>19. ASSUME NEW g \in SysStarts, WorkerEnds(g) PROVE SourceIsLast'
  BY <1>19 DEF WorkerEnds, noteVars
<1>20. ASSUME NEW g \in SysStarts, RotationFails(g) PROVE SourceIsLast'
  BY <1>20 DEF RotationFails, noteVars
<1>21. ASSUME NEW g \in SysStarts, SegmentHeard(g) PROVE SourceIsLast'
  BY <1>21 DEF SegmentHeard, sysThreadVars
<1>22. ASSUME NEW e \in SystemExports, ExportSubmits(e) PROVE SourceIsLast'
  BY <1>22 DEF ExportSubmits, SystemRest, sysThreadVars, noteVars
<1>23. ASSUME NEW e \in SystemExports, ExportRuns(e) PROVE SourceIsLast'
  BY <1>23 DEF ExportRuns, SystemRest, sysThreadVars, noteVars
<1>24. CASE UNCHANGED systemVars
  BY <1>24 DEF systemVars, sysThreadVars, noteVars
<1> QED
  BY <1>1, <1>2, <1>3, <1>4, <1>5, <1>6, <1>7, <1>8, <1>9, <1>10, <1>11, <1>12, <1>13, <1>14,
     <1>15, <1>16, <1>17, <1>18, <1>19, <1>20, <1>21, <1>22, <1>23, <1>24 DEF SystemNext,
     SystemCallStep, SystemThreadStep

\* A thread is the last start's or was left behind.
LEMMA KnownNext == SystemIInv /\ [SystemNext]_systemVars => ThreadsAreKnown'
<1> SUFFICES ASSUME SystemIInv, [SystemNext]_systemVars PROVE ThreadsAreKnown'
  OBVIOUS
<1> USE SystemAssumption DEF SystemIInv, ThreadsAreKnown, SysThreads, SystemTypeOK
<1>1. ASSUME NEW resumed \in BOOLEAN, SysStart(resumed) PROVE ThreadsAreKnown'
  BY <1>1 DEF SysStart, NewSession, sysThreadVars, SysThreads
<1>2. CASE SysPauses
  BY <1>2 DEF SysPauses, sysThreadVars, noteVars
<1>3. CASE SysResumes
  BY <1>3 DEF SysResumes, sysThreadVars, noteVars
<1>4. CASE SysStops
  BY <1>4 DEF SysStops, TellsToStop, sysThreadVars, noteVars
<1>5. CASE SysShutsDown
  BY <1>5 DEF SysShutsDown, sysThreadVars, noteVars
<1>6. CASE LoopBuilds
  BY <1>6 DEF LoopBuilds, BuildsNotes, sysThreadVars
<1>7. CASE SysMarks
  BY <1>7 DEF SysMarks, sysThreadVars, noteVars
<1>8. CASE SysJoins
  BY <1>8 DEF SysJoins, SysStopJoins, Unended, sysThreadVars, noteVars
<1>9. CASE SysBuilds
  BY <1>9 DEF SysBuilds, StopBuilds, BuildsNotes, sysThreadVars
<1>10. CASE SysStopped
  BY <1>10 DEF SysStopped, WritesNotes, NotesAre, sysThreadVars, noteVars
<1>11. ASSUME NEW e \in SystemExports, ExportEnters(e) PROVE ThreadsAreKnown'
  BY <1>11 DEF ExportEnters, SystemRest, sysThreadVars, noteVars
<1>12. ASSUME NEW e \in SystemExports, ExportReturns(e) PROVE ThreadsAreKnown'
  BY <1>12 DEF ExportReturns, SystemRest, sysThreadVars, noteVars
<1>13. ASSUME NEW g \in SysStarts, CaptureEnds(g) PROVE ThreadsAreKnown'
  BY <1>13 DEF CaptureEnds, noteVars
<1>14. ASSUME NEW g \in SysStarts, SysLoopEnds(g) PROVE ThreadsAreKnown'
  BY <1>14 DEF SysLoopEnds, noteVars
<1>15. CASE ThreadWrites("loop")
  BY <1>15 DEF ThreadWrites, WritesNotes, NotesAre, sysThreadVars
<1>16. CASE ThreadWrites("worker")
  BY <1>16 DEF ThreadWrites, WritesNotes, NotesAre, sysThreadVars
<1>17. ASSUME NEW g \in SysStarts, SysCaptureFails(g) PROVE ThreadsAreKnown'
  BY <1>17 DEF SysCaptureFails, Fails, NotesAre
<1>18. ASSUME NEW g \in SysStarts, WorkerFails(g) PROVE ThreadsAreKnown'
  BY <1>18 DEF WorkerFails, Fails, NotesAre, sysThreadVars
<1>19. ASSUME NEW g \in SysStarts, WorkerEnds(g) PROVE ThreadsAreKnown'
  BY <1>19 DEF WorkerEnds, noteVars
<1>20. ASSUME NEW g \in SysStarts, RotationFails(g) PROVE ThreadsAreKnown'
  BY <1>20 DEF RotationFails, noteVars
<1>21. ASSUME NEW g \in SysStarts, SegmentHeard(g) PROVE ThreadsAreKnown'
  BY <1>21 DEF SegmentHeard, sysThreadVars
<1>22. ASSUME NEW e \in SystemExports, ExportSubmits(e) PROVE ThreadsAreKnown'
  BY <1>22 DEF ExportSubmits, SystemRest, sysThreadVars, noteVars
<1>23. ASSUME NEW e \in SystemExports, ExportRuns(e) PROVE ThreadsAreKnown'
  BY <1>23 DEF ExportRuns, SystemRest, sysThreadVars, noteVars
<1>24. CASE UNCHANGED systemVars
  BY <1>24 DEF systemVars, sysThreadVars, noteVars
<1> QED
  BY <1>1, <1>2, <1>3, <1>4, <1>5, <1>6, <1>7, <1>8, <1>9, <1>10, <1>11, <1>12, <1>13, <1>14,
     <1>15, <1>16, <1>17, <1>18, <1>19, <1>20, <1>21, <1>22, <1>23, <1>24 DEF SystemNext,
     SystemCallStep, SystemThreadStep

\* What builds notes lives until they are written.
LEMMA BuilderNext == SystemIInv /\ [SystemNext]_systemVars => NotesHaveABuilder'
<1> SUFFICES ASSUME SystemIInv, [SystemNext]_systemVars PROVE NotesHaveABuilder'
  OBVIOUS
<1> USE SystemAssumption DEF SystemIInv, NotesHaveABuilder, SystemTypeOK, Noters
<1>1. ASSUME NEW resumed \in BOOLEAN, SysStart(resumed) PROVE NotesHaveABuilder'
  BY <1>1 DEF SysStart, NewSession, sysThreadVars, SysThreads
<1>2. CASE SysPauses
  BY <1>2 DEF SysPauses, sysThreadVars, noteVars
<1>3. CASE SysResumes
  BY <1>3 DEF SysResumes, sysThreadVars, noteVars
<1>4. CASE SysStops
  BY <1>4 DEF SysStops, TellsToStop, sysThreadVars, noteVars
<1>5. CASE SysShutsDown
  BY <1>5 DEF SysShutsDown, sysThreadVars, noteVars
<1>6. CASE LoopBuilds
  BY <1>6 DEF LoopBuilds, BuildsNotes, sysThreadVars
<1>7. CASE SysMarks
  BY <1>7 DEF SysMarks, sysThreadVars, noteVars
<1>8. CASE SysJoins
  BY <1>8 DEF SysJoins, SysStopJoins, Unended, sysThreadVars, noteVars
<1>9. CASE SysBuilds
  BY <1>9 DEF SysBuilds, StopBuilds, BuildsNotes, sysThreadVars
<1>10. CASE SysStopped
  BY <1>10 DEF SysStopped, WritesNotes, NotesAre, sysThreadVars, noteVars
<1>11. ASSUME NEW e \in SystemExports, ExportEnters(e) PROVE NotesHaveABuilder'
  BY <1>11 DEF ExportEnters, SystemRest, sysThreadVars, noteVars
<1>12. ASSUME NEW e \in SystemExports, ExportReturns(e) PROVE NotesHaveABuilder'
  BY <1>12 DEF ExportReturns, SystemRest, sysThreadVars, noteVars
<1>13. ASSUME NEW g \in SysStarts, CaptureEnds(g) PROVE NotesHaveABuilder'
  BY <1>13 DEF CaptureEnds, noteVars
<1>14. ASSUME NEW g \in SysStarts, SysLoopEnds(g) PROVE NotesHaveABuilder'
  BY <1>14 DEF SysLoopEnds, noteVars
<1>15. CASE ThreadWrites("loop")
  BY <1>15 DEF ThreadWrites, WritesNotes, NotesAre, sysThreadVars
<1>16. CASE ThreadWrites("worker")
  BY <1>16 DEF ThreadWrites, WritesNotes, NotesAre, sysThreadVars
<1>17. ASSUME NEW g \in SysStarts, SysCaptureFails(g) PROVE NotesHaveABuilder'
  BY <1>17 DEF SysCaptureFails, Fails, NotesAre
<1>18. ASSUME NEW g \in SysStarts, WorkerFails(g) PROVE NotesHaveABuilder'
  BY <1>18 DEF WorkerFails, Fails, NotesAre, sysThreadVars
<1>19. ASSUME NEW g \in SysStarts, WorkerEnds(g) PROVE NotesHaveABuilder'
  BY <1>19 DEF WorkerEnds, noteVars
<1>20. ASSUME NEW g \in SysStarts, RotationFails(g) PROVE NotesHaveABuilder'
  BY <1>20 DEF RotationFails, noteVars
<1>21. ASSUME NEW g \in SysStarts, SegmentHeard(g) PROVE NotesHaveABuilder'
  BY <1>21 DEF SegmentHeard, sysThreadVars
<1>22. ASSUME NEW e \in SystemExports, ExportSubmits(e) PROVE NotesHaveABuilder'
  BY <1>22 DEF ExportSubmits, SystemRest, sysThreadVars, noteVars
<1>23. ASSUME NEW e \in SystemExports, ExportRuns(e) PROVE NotesHaveABuilder'
  BY <1>23 DEF ExportRuns, SystemRest, sysThreadVars, noteVars
<1>24. CASE UNCHANGED systemVars
  BY <1>24 DEF systemVars, sysThreadVars, noteVars
<1> QED
  BY <1>1, <1>2, <1>3, <1>4, <1>5, <1>6, <1>7, <1>8, <1>9, <1>10, <1>11, <1>12, <1>13, <1>14,
     <1>15, <1>16, <1>17, <1>18, <1>19, <1>20, <1>21, <1>22, <1>23, <1>24 DEF SystemNext,
     SystemCallStep, SystemThreadStep

\* Past the waits only what was left behind lives.
LEMMA GoneNext == SystemIInv /\ [SystemNext]_systemVars => JoinedAreGone'
<1> SUFFICES ASSUME SystemIInv, [SystemNext]_systemVars PROVE JoinedAreGone'
  OBVIOUS
<1> USE SystemAssumption DEF SystemIInv, JoinedAreGone, PastJoin, SystemTypeOK, SysThreads
<1>1. ASSUME NEW resumed \in BOOLEAN, SysStart(resumed) PROVE JoinedAreGone'
  BY <1>1, StartsFit
<1>2. CASE SysPauses
  BY <1>2 DEF SysPauses, sysThreadVars, noteVars
<1>3. CASE SysResumes
  <2>1. sysStatus' = "running" /\ sysCall' = "none"
    BY <1>3 DEF SysResumes, SysIdle
  <2> QED
    BY <2>1
<1>4. CASE SysStops
  BY <1>4 DEF SysStops, TellsToStop, sysThreadVars, noteVars
<1>5. CASE SysShutsDown
  BY <1>5 DEF SysShutsDown, sysThreadVars, noteVars
<1>6. CASE LoopBuilds
  BY <1>6 DEF LoopBuilds, BuildsNotes, sysThreadVars
<1>7. CASE SysMarks
  BY <1>7 DEF SysMarks, sysThreadVars, noteVars
<1>8. CASE SysJoins
  <2>1. /\ sysOutlived' = sysOutlived \cup Unended /\ tape' = "off"
        /\ sysStop' /\ sysCall' = "joined"
        /\ UNCHANGED <<sysCaptures, sysLoops, sysWorkers, sysLeft>>
    BY <1>8 DEF SysJoins, SysStopJoins, sysThreadVars
  <2>2. sysSource \in {0, sysStarts} /\ \A g \in sysCaptures \cup sysLoops \cup sysWorkers :
          g = sysSource \/ g \in sysLeft
    BY DEF SourceIsLast, ThreadsAreKnown, SysThreads
  <2>3. 0 \notin sysCaptures /\ 0 \notin sysLoops /\ 0 \notin sysWorkers
    OBVIOUS
  <2>4. SysThreads \subseteq sysLeft \cup Unended
    BY <2>2, <2>3 DEF SysThreads, Unended
  <2>5. SysThreads' \subseteq sysLeft' \cup sysOutlived'
    BY <2>1, <2>4 DEF SysThreads
  <2> QED
    BY <2>1, <2>5
<1>9. CASE SysBuilds
  BY <1>9 DEF SysBuilds, StopBuilds, BuildsNotes, sysThreadVars
<1>10. CASE SysStopped
  BY <1>10 DEF SysStopped, WritesNotes, NotesAre, sysThreadVars, noteVars
<1>11. ASSUME NEW e \in SystemExports, ExportEnters(e) PROVE JoinedAreGone'
  BY <1>11 DEF ExportEnters, SystemRest, sysThreadVars, noteVars
<1>12. ASSUME NEW e \in SystemExports, ExportReturns(e) PROVE JoinedAreGone'
  BY <1>12 DEF ExportReturns, SystemRest, sysThreadVars, noteVars
<1>13. ASSUME NEW g \in SysStarts, CaptureEnds(g) PROVE JoinedAreGone'
  BY <1>13 DEF CaptureEnds, noteVars
<1>14. ASSUME NEW g \in SysStarts, SysLoopEnds(g) PROVE JoinedAreGone'
  BY <1>14 DEF SysLoopEnds, noteVars
<1>15. CASE ThreadWrites("loop")
  BY <1>15 DEF ThreadWrites, WritesNotes, NotesAre, sysThreadVars
<1>16. CASE ThreadWrites("worker")
  BY <1>16 DEF ThreadWrites, WritesNotes, NotesAre, sysThreadVars
<1>17. ASSUME NEW g \in SysStarts, SysCaptureFails(g) PROVE JoinedAreGone'
  BY <1>17 DEF SysCaptureFails, Fails, NotesAre
<1>18. ASSUME NEW g \in SysStarts, WorkerFails(g) PROVE JoinedAreGone'
  BY <1>18 DEF WorkerFails, Fails, NotesAre, sysThreadVars
<1>19. ASSUME NEW g \in SysStarts, WorkerEnds(g) PROVE JoinedAreGone'
  BY <1>19 DEF WorkerEnds, noteVars
<1>20. ASSUME NEW g \in SysStarts, RotationFails(g) PROVE JoinedAreGone'
  BY <1>20 DEF RotationFails, noteVars
<1>21. ASSUME NEW g \in SysStarts, SegmentHeard(g) PROVE JoinedAreGone'
  BY <1>21 DEF SegmentHeard, sysThreadVars
<1>22. ASSUME NEW e \in SystemExports, ExportSubmits(e) PROVE JoinedAreGone'
  BY <1>22 DEF ExportSubmits, SystemRest, sysThreadVars, noteVars
<1>23. ASSUME NEW e \in SystemExports, ExportRuns(e) PROVE JoinedAreGone'
  BY <1>23 DEF ExportRuns, SystemRest, sysThreadVars, noteVars
<1>24. CASE UNCHANGED systemVars
  BY <1>24 DEF systemVars, sysThreadVars, noteVars
<1> QED
  BY <1>1, <1>2, <1>3, <1>4, <1>5, <1>6, <1>7, <1>8, <1>9, <1>10, <1>11, <1>12, <1>13, <1>14,
     <1>15, <1>16, <1>17, <1>18, <1>19, <1>20, <1>21, <1>22, <1>23, <1>24 DEF SystemNext,
     SystemCallStep, SystemThreadStep

\* The notes catch up with the segments.
LEMMA CatchUpNext == SystemIInv /\ [SystemNext]_systemVars => NotesCatchUp'
<1> SUFFICES ASSUME SystemIInv, [SystemNext]_systemVars PROVE NotesCatchUp'
  OBVIOUS
<1> USE SystemAssumption DEF SystemIInv, NotesCatchUp, SysIdle
<1>1. ASSUME NEW resumed \in BOOLEAN, SysStart(resumed) PROVE NotesCatchUp'
  BY <1>1, StartsFit
<1>2. CASE SysPauses
  BY <1>2 DEF SysPauses, sysThreadVars, noteVars
<1>3. CASE SysResumes
  BY <1>3 DEF SysResumes, sysThreadVars, noteVars
<1>4. CASE SysStops
  BY <1>4 DEF SysStops, TellsToStop, sysThreadVars, noteVars
<1>5. CASE SysShutsDown
  BY <1>5 DEF SysShutsDown, sysThreadVars, noteVars
<1>6. CASE LoopBuilds
  BY <1>6, BuiltFits DEF LoopBuilds, BuildsNotes, SystemTypeOK
<1>7. CASE SysMarks
  BY <1>7 DEF SysMarks, sysThreadVars, noteVars
<1>8. CASE SysJoins
  BY <1>8 DEF SysJoins, SysStopJoins, Unended, sysThreadVars, noteVars
<1>9. CASE SysBuilds
  BY <1>9, BuiltFits DEF SysBuilds, StopBuilds, BuildsNotes, sysThreadVars, SystemTypeOK
<1>10. CASE SysStopped
  BY <1>10, BuiltFits DEF SysStopped, WritesNotes, NotesAre, noteVars, NotesHaveABuilder,
     sysThreadVars
<1>11. ASSUME NEW e \in SystemExports, ExportEnters(e) PROVE NotesCatchUp'
  BY <1>11 DEF ExportEnters, SystemRest, sysThreadVars, noteVars
<1>12. ASSUME NEW e \in SystemExports, ExportReturns(e) PROVE NotesCatchUp'
  BY <1>12 DEF ExportReturns, SystemRest, sysThreadVars, noteVars
<1>13. ASSUME NEW g \in SysStarts, CaptureEnds(g) PROVE NotesCatchUp'
  BY <1>13 DEF CaptureEnds, noteVars
<1>14. ASSUME NEW g \in SysStarts, SysLoopEnds(g) PROVE NotesCatchUp'
  BY <1>14 DEF SysLoopEnds, noteVars
<1>15. CASE ThreadWrites("loop")
  BY <1>15, BuiltFits DEF NotesHaveABuilder, JoinedAreGone, PastJoin, SysThreads, ThreadWrites,
     WritesNotes, NotesAre, SystemTypeOK
<1>16. CASE ThreadWrites("worker")
  BY <1>16, BuiltFits DEF NotesHaveABuilder, JoinedAreGone, PastJoin, SysThreads, ThreadWrites,
     WritesNotes, NotesAre, SystemTypeOK
<1>17. ASSUME NEW g \in SysStarts, SysCaptureFails(g) PROVE NotesCatchUp'
  BY <1>17, BuiltFits DEF NotesHaveABuilder, JoinedAreGone, PastJoin, SysThreads,
     SysCaptureFails, Fails, NotesAre
<1>18. ASSUME NEW g \in SysStarts, WorkerFails(g) PROVE NotesCatchUp'
  BY <1>18, BuiltFits DEF NotesHaveABuilder, JoinedAreGone, PastJoin, SysThreads,
     WorkerFails, Fails, NotesAre
<1>19. ASSUME NEW g \in SysStarts, WorkerEnds(g) PROVE NotesCatchUp'
  BY <1>19 DEF WorkerEnds, noteVars
<1>20. ASSUME NEW g \in SysStarts, RotationFails(g) PROVE NotesCatchUp'
  BY <1>20 DEF RotationFails, noteVars
<1>21. ASSUME NEW g \in SysStarts, SegmentHeard(g) PROVE NotesCatchUp'
  BY <1>21, BuiltFits DEF NotesHaveABuilder, JoinedAreGone, PastJoin, SysThreads, SegmentHeard
<1>22. ASSUME NEW e \in SystemExports, ExportSubmits(e) PROVE NotesCatchUp'
  BY <1>22 DEF ExportSubmits, SystemRest, sysThreadVars, noteVars
<1>23. ASSUME NEW e \in SystemExports, ExportRuns(e) PROVE NotesCatchUp'
  BY <1>23 DEF ExportRuns, SystemRest, sysThreadVars, noteVars
<1>24. CASE UNCHANGED systemVars
  BY <1>24 DEF systemVars, sysThreadVars, noteVars
<1> QED
  BY <1>1, <1>2, <1>3, <1>4, <1>5, <1>6, <1>7, <1>8, <1>9, <1>10, <1>11, <1>12, <1>13, <1>14,
     <1>15, <1>16, <1>17, <1>18, <1>19, <1>20, <1>21, <1>22, <1>23, <1>24 DEF SystemNext,
     SystemCallStep, SystemThreadStep

\* A stopped session (system_session.py) has let its recorder go, what still lives of it is on
\* record and was told to end, and its notes cover all that was said if nothing outlived it.
THEOREM NotesAreKept == SystemInit /\ [][SystemNext]_systemVars => []SystemInv
<1>1. SystemIInv /\ [SystemNext]_systemVars => SystemIInv'
  BY SystemTypeNext, SourceNext, KnownNext, BuilderNext, GoneNext, CatchUpNext DEF SystemIInv
<1>2. SystemIInv => SystemInv
  <2> SUFFICES ASSUME SystemIInv PROVE SystemInv
    OBVIOUS
  <2>1. NotesAreComplete
    BY DEF NotesAreComplete, SystemIInv, NotesCatchUp, SysIdle
  <2>2. StopReleases
    <3> SUFFICES ASSUME sysStatus = "stopped" PROVE StopReleases
      BY DEF StopReleases
    <3>1. SysThreads \subseteq sysLeft \cup sysOutlived /\ tape = "off" /\ sysStop
      BY DEF SystemIInv, JoinedAreGone, PastJoin
    <3>2. \A g \in sysCaptures \ sysLeft : ToldToStop(g)
      BY <3>1 DEF SysThreads, ToldToStop
    <3> QED
      BY <3>1, <3>2 DEF StopReleases, SysThreads
  <2> QED
    BY <2>1, <2>2 DEF SystemInv, SystemIInv
<1> QED
  BY SystemInitInv, <1>1, <1>2, PTL

-----------------------------------------------------------------------------
(* The components side by side *)

\* What the composition does to the pool, the pool does.
LEMMA PoolsSteps == Spec => PoolInit /\ [][PoolNext]_poolVars
<1>1. Init => PoolInit
  BY DEF Init
<1>2. [Next]_vars => [PoolNext]_poolVars
  BY DEF Next, Alone, vars
<1> QED
  BY <1>1, <1>2, PTL DEF Spec

\* What the composition does to preloading, preloading does.
LEMMA PreloadsSteps == Spec => PreloadInit /\ [][PreloadNext]_preloadVars
<1>1. Init => PreloadInit
  BY DEF Init
<1>2. [Next]_vars => [PreloadNext]_preloadVars
  BY DEF Next, Alone, vars
<1> QED
  BY <1>1, <1>2, PTL DEF Spec

\* What the composition does to the transcriber, the transcriber does.
LEMMA TranscribersSteps == Spec => SttInit /\ [][SttNext]_sttVars
<1>1. Init => SttInit
  BY DEF Init
<1>2. [Next]_vars => [SttNext]_sttVars
  BY DEF Next, Alone, vars
<1> QED
  BY <1>1, <1>2, PTL DEF Spec

\* What the composition does to the modes, the mode manager does.
LEMMA ModesSteps == Spec => ModeInit /\ [][ModeNext]_modeVars
<1>1. Init => ModeInit
  BY DEF Init
<1>2. [Next]_vars => [ModeNext]_modeVars
  BY DEF Next, Alone, vars
<1> QED
  BY <1>1, <1>2, PTL DEF Spec

\* What the composition does to a dictation, the dictation does.
LEMMA DesksSteps == Spec => DeskInit /\ [][DeskNext]_deskVars
<1>1. Init => DeskInit
  BY DEF Init
<1>2. [Next]_vars => [DeskNext]_deskVars
  BY DEF Next, Alone, vars
<1> QED
  BY <1>1, <1>2, PTL DEF Spec

\* What the composition does to a recording, the recording does.
LEMMA SystemsSteps == Spec => SystemInit /\ [][SystemNext]_systemVars
<1>1. Init => SystemInit
  BY DEF Init
<1>2. [Next]_vars => [SystemNext]_systemVars
  BY DEF Next, Alone, vars
<1> QED
  BY <1>1, <1>2, PTL DEF Spec

\* The pool (model_pool.py) holds no more models than it may, but for one for each load that
\* began while another was under way, whatever its queue and its locks have lost.
THEOREM PoolKeepsItsModels == Spec => []PoolInv
<1> QED
  BY PoolsSteps, PoolIsSafe, PTL

\* A preload (backend_service.py) is cancelled by later requests only, if requests do not
\* overlap; and the transcriber (fast_engine.py) gives segments in the order of the speech.
THEOREM TranscriberKeepsItsOrder == Spec => []TranscriberInv
<1>1. Spec => []PreloadInv
  BY PreloadsSteps, PreloadIsSafe, PTL
<1>2. Spec => []SttInv
  BY TranscribersSteps, SttIsSafe, PTL
<1>3. PreloadInv /\ SttInv => TranscriberInv
  BY DEF TranscriberInv
<1> QED
  BY <1>1, <1>2, <1>3, PTL

\* The current mode (mode_manager.py) is the one that runs, the only one, the engine's and the
\* one that is saved, unless it is on record as unfaithful; an engine that was shut down is idle.
THEOREM CurrentModeIsTheOneThatRuns == Spec => []ModeInv
<1> QED
  BY ModesSteps, ModeIsSafe, PTL

\* What was recorded at the desktop (hotkey_session.py) is transcribed whole and given out
\* once; and the notes of a stopped session (system_session.py) cover all that was said, unless
\* a thread outlived the waits of the stop, and then it is on record and was told to end.
THEOREM RecordersKeepWhatWasSaid == Spec => []RecordersInv
<1>1. Spec => []DeskInv
  BY DesksSteps, DictationIsWhole, PTL
<1>2. Spec => []SystemInv
  BY SystemsSteps, NotesAreKept, PTL
<1>3. DeskInv /\ SystemInv => RecordersInv
  BY DEF RecordersInv
<1> QED
  BY <1>1, <1>2, <1>3, PTL
===========================================================================
