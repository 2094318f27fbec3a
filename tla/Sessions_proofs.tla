------------------------- MODULE Sessions_proofs --------------------------
(***************************************************************************)
(* Proofs about long recordings, for every value of the constants: every   *)
(* behaviour of SessionManager, by itself and in the composition, has its  *)
(* invariant.                                                              *)
(***************************************************************************)
EXTENDS MCEngine, FiniteSetTheorems, SequenceTheorems, TLAPS

-----------------------------------------------------------------------------
(* session_manager.py.  What is spoken passes from a source's queue to an executor, to a    *)
(* transcriber's queue, into its worker's hands and into a list of segments.  That it is    *)
(* at one of these places only holds whatever requests overlap.  What concerns microphones  *)
(* and stopped sessions holds as long as requests come one after the other: then all the    *)
(* fields are the last start's, once its threads run.                                       *)

\* What is in a family of sequences, or of sets; that it is there once; and what of start r
\* is with another start.
All(f) == {b \in Blocks : \E r \in Starts : \E i \in 1..Len(f[r]) : f[r][i] = b}
AllOf(f) == {b \in Blocks : \E r \in Starts : b \in f[r]}
Once(f) ==
  \A r, q \in Starts : \A i \in 1..Len(f[r]), j \in 1..Len(f[q]) :
    f[r][i] = f[q][j] => r = q /\ i = j
OnceOf(f) == \A r, q \in Starts : r # q => f[r] \cap f[q] = {}
Away(f, r) ==
  {b \in Blocks : b[1] = r /\ \E q \in Starts \ {r} : \E i \in 1..Len(f[q]) : f[q][i] = b}
AwayOf(f, r) == {b \in Blocks : b[1] = r /\ \E q \in Starts \ {r} : b \in f[q]}

PutIn(f, r, b) == [f EXCEPT ![r] = Append(f[r], b)]
TakeFrom(f, r) == [f EXCEPT ![r] = Tail(f[r])]
AddTo(f, r, b) == [f EXCEPT ![r] = f[r] \cup {b}]
DropFrom(f, r, b) == [f EXCEPT ![r] = f[r] \ {b}]

\* What a sequence holds when one is appended, or the first is taken.
LEMMA SequencesMove ==
  ASSUME NEW s \in Seq(Blocks), NEW b \in Blocks
  PROVE  /\ Append(s, b) \in Seq(Blocks) /\ Len(Append(s, b)) = Len(s) + 1
         /\ \A i \in 1..Len(s) : Append(s, b)[i] = s[i]
         /\ Append(s, b)[Len(s) + 1] = b
         /\ s # <<>> => /\ Head(s) \in Blocks /\ Head(s) = s[1] /\ Len(s) >= 1
                       /\ Tail(s) \in Seq(Blocks) /\ Len(Tail(s)) = Len(s) - 1
                       /\ \A i \in 1..Len(s) - 1 : Tail(s)[i] = s[i + 1]
<1>1. Len(s) \in Nat /\ (s # <<>> => Len(s) >= 1)
  BY EmptySeq
<1>2. s # <<>> => Head(s) = s[1] /\ s[1] \in Blocks
  BY <1>1
<1>3. s # <<>> => /\ Tail(s) \in Seq(Blocks) /\ Len(Tail(s)) = Len(s) - 1
                  /\ \A i \in 1..Len(s) - 1 : Tail(s)[i] = s[i + 1]
  BY <1>1
<1>4. /\ Append(s, b) \in Seq(Blocks) /\ Len(Append(s, b)) = Len(s) + 1
      /\ \A i \in 1..Len(s) : Append(s, b)[i] = s[i]
      /\ Append(s, b)[Len(s) + 1] = b
  BY <1>1
<1> QED
  BY <1>1, <1>2, <1>3, <1>4

\* A block that is appended to one sequence of a family is there, once if it was not.
LEMMA FamilyGrows ==
  ASSUME NEW f \in [Starts -> Seq(Blocks)], NEW r \in Starts, NEW b \in Blocks
  PROVE  /\ PutIn(f, r, b) \in [Starts -> Seq(Blocks)] /\ All(PutIn(f, r, b)) = All(f) \cup {b}
         /\ Once(f) /\ b \notin All(f) => Once(PutIn(f, r, b))
         /\ \A q \in Starts : Away(PutIn(f, r, b), q) = Away(f, q) \cup (IF b[1] = q
              /\ q # r THEN {b} ELSE {})
<1> DEFINE g == PutIn(f, r, b)
<1>0. g = [f EXCEPT ![r] = Append(f[r], b)]
  BY DEF PutIn
<1> HIDE DEF g
<1>1. /\ Append(f[r], b) \in Seq(Blocks) /\ Len(g[r]) = Len(f[r]) + 1 /\ Len(f[r]) \in Nat
      /\ \A i \in 1..Len(f[r]) : g[r][i] = f[r][i]
      /\ g[r][Len(f[r]) + 1] = b
  BY <1>0, SequencesMove
<1>2. g \in [Starts -> Seq(Blocks)] /\ \A q \in Starts \ {r} : g[q] = f[q]
  BY <1>0, <1>1
<1>6. /\ \A i \in 1..Len(g[r]) : i \in 1..Len(f[r]) \/ i = Len(f[r]) + 1
      /\ \A i \in 1..Len(f[r]) : i \in 1..Len(g[r])
  BY <1>1
<1>7. \A q \in Starts : \A i \in 1..Len(f[q]) : i \in 1..Len(g[q]) /\ g[q][i] = f[q][i]
  BY <1>1, <1>2, <1>6
<1>8. \A q \in Starts : \A i \in 1..Len(g[q]) :
        \/ i \in 1..Len(f[q]) /\ g[q][i] = f[q][i]
        \/ q = r /\ i = Len(f[r]) + 1 /\ g[q][i] = b
  BY <1>1, <1>2, <1>6
<1>3. All(g) = All(f) \cup {b}
  <2>1. ASSUME NEW d \in All(g) PROVE d \in All(f) \cup {b}
    <3>1. PICK q \in Starts : \E i \in 1..Len(g[q]) : g[q][i] = d
      BY <2>1 DEF All
    <3>2. CASE q = r
      BY <1>8, <3>1, <3>2, <2>1 DEF All
    <3>3. CASE q # r
      BY <1>2, <3>1, <3>3, <2>1 DEF All
    <3> QED
      BY <3>2, <3>3
  <2>2. ASSUME NEW d \in All(f) PROVE d \in All(g)
    <3>1. PICK q \in Starts : \E i \in 1..Len(f[q]) : f[q][i] = d
      BY <2>2 DEF All
    <3>2. \E i \in 1..Len(g[q]) : g[q][i] = d
      BY <1>7, <3>1
    <3> QED
      BY <2>2, <3>2 DEF All
  <2>3. b \in All(g)
    <3>1. Len(f[r]) + 1 \in 1..Len(g[r])
      BY <1>1
    <3> QED
      BY <3>1, <1>1 DEF All
  <2> QED
    BY <2>1, <2>2, <2>3
<1>4. ASSUME Once(f), b \notin All(f) PROVE Once(g)
  <2>1. \A q \in Starts : \A i \in 1..Len(f[q]) : f[q][i] # b
    BY <1>4 DEF All
  <2>2. ASSUME NEW p \in Starts, NEW q \in Starts, NEW i \in 1..Len(g[p]), NEW j \in 1..Len(g[q]),
               g[p][i] = g[q][j]
        PROVE  p = q /\ i = j
    <3>1. \/ i \in 1..Len(f[p]) /\ g[p][i] = f[p][i]
          \/ p = r /\ i = Len(f[r]) + 1 /\ g[p][i] = b
      BY <1>8
    <3>2. \/ j \in 1..Len(f[q]) /\ g[q][j] = f[q][j]
          \/ q = r /\ j = Len(f[r]) + 1 /\ g[q][j] = b
      BY <1>8
    <3> QED
      BY <3>1, <3>2, <2>1, <2>2, <1>4 DEF Once
  <2> QED
    BY <2>2 DEF Once
<1>5. ASSUME NEW q \in Starts
      PROVE  Away(g, q) = Away(f, q) \cup (IF b[1] = q /\ q # r THEN {b} ELSE {})
  <2>1. ASSUME NEW d \in Away(g, q), d \notin Away(f, q) PROVE d = b /\ b[1] = q /\ q # r
    <3>1. PICK p \in Starts \ {q} : \E i \in 1..Len(g[p]) : g[p][i] = d
      BY <2>1 DEF Away
    <3>2. PICK i \in 1..Len(g[p]) : g[p][i] = d
      BY <3>1
    <3>3. CASE i \in 1..Len(f[p]) /\ g[p][i] = f[p][i]
      BY <3>2, <3>3, <2>1 DEF Away
    <3>4. CASE p = r /\ g[p][i] = b
      BY <3>2, <3>4, <2>1 DEF Away
    <3> QED
      BY <1>8, <3>3, <3>4
  <2>2. ASSUME NEW d \in Away(f, q) PROVE d \in Away(g, q)
    <3>1. PICK p \in Starts \ {q} : \E i \in 1..Len(f[p]) : f[p][i] = d
      BY <2>2 DEF Away
    <3>2. \E i \in 1..Len(g[p]) : g[p][i] = d
      BY <1>7, <3>1
    <3> QED
      BY <2>2, <3>2 DEF Away
  <2>3. b[1] = q /\ q # r => b \in Away(g, q)
    <3>1. Len(f[r]) + 1 \in 1..Len(g[r])
      BY <1>1
    <3> QED
      BY <3>1, <1>1 DEF Away
  <2> QED
    BY <2>1, <2>2, <2>3
<1> QED
  BY <1>2, <1>3, <1>4, <1>5 DEF g

\* The first of a sequence of a family that is taken is no longer there, if it was there once.
LEMMA FamilyShrinks ==
  ASSUME NEW f \in [Starts -> Seq(Blocks)], NEW r \in Starts, f[r] # <<>>, Once(f)
  PROVE  /\ TakeFrom(f, r) \in [Starts -> Seq(Blocks)] /\ Head(f[r]) \in Blocks
              /\ Head(f[r]) \in All(f)
         /\ All(TakeFrom(f, r)) = All(f) \ {Head(f[r])} /\ Once(TakeFrom(f, r))
         /\ \A q \in Starts : /\ Away(TakeFrom(f, r), q) \subseteq Away(f, q)
                              /\ Head(f[r])[1] = q /\ q # r => Head(f[r]) \in Away(f, q)
<1> DEFINE g == TakeFrom(f, r)
<1>0. g = [f EXCEPT ![r] = Tail(f[r])]
  BY DEF TakeFrom
<1> HIDE DEF g
<1>1. /\ Head(f[r]) \in Blocks /\ Head(f[r]) = f[r][1] /\ Len(f[r]) >= 1 /\ Len(f[r]) \in Nat
      /\ Tail(f[r]) \in Seq(Blocks) /\ Len(g[r]) = Len(f[r]) - 1
      /\ \A i \in 1..Len(f[r]) - 1 : g[r][i] = f[r][i + 1]
  BY <1>0, SequencesMove, f[r] \in Seq(Blocks)
<1>2. g \in [Starts -> Seq(Blocks)] /\ \A q \in Starts \ {r} : g[q] = f[q]
  BY <1>0, <1>1
<1>3. Head(f[r]) \in All(f)
  BY <1>1 DEF All
<1>4. \A q \in Starts : \A i \in 1..Len(g[q]) :
        \E j \in 1..Len(f[q]) : g[q][i] = f[q][j] /\ j = (IF q = r THEN i + 1 ELSE i)
  BY <1>1, <1>2
<1>5. ASSUME NEW q \in Starts, NEW j \in 1..Len(f[q]), q # r \/ j # 1
      PROVE  \E i \in 1..Len(g[q]) : g[q][i] = f[q][j]
  <2>1. CASE q # r
    BY <2>1, <1>2
  <2>2. CASE q = r
    <3>1. j - 1 \in 1..Len(g[q]) /\ g[q][j - 1] = f[q][j]
      BY <2>2, <1>1, <1>5
    <3> QED
      BY <3>1
  <2> QED
    BY <2>1, <2>2
<1>6. \A d \in All(g) : d \in All(f) /\ d # Head(f[r])
  <2>1. ASSUME NEW d \in All(g) PROVE d \in All(f) /\ d # Head(f[r])
    <3>0. PICK q \in Starts : \E i \in 1..Len(g[q]) : g[q][i] = d
      BY <2>1 DEF All
    <3>1. PICK i \in 1..Len(g[q]) : g[q][i] = d
      BY <3>0
    <3>2. PICK j \in 1..Len(f[q]) : d = f[q][j] /\ j = (IF q = r THEN i + 1 ELSE i)
      BY <3>1, <1>4
    <3>3. d \in All(f)
      BY <3>2, <2>1 DEF All
    <3>4. d # f[r][1]
      <4>1. CASE q = r
        <5>1. i + 1 # 1 /\ j = i + 1 /\ 1 \in 1..Len(f[r])
          BY <3>1, <3>2, <4>1, <1>1
        <5> QED
          BY <5>1, <3>2, <4>1 DEF Once
      <4>2. CASE q # r
        BY <4>2, <3>2, <1>1 DEF Once
      <4> QED
        BY <4>1, <4>2
    <3> QED
      BY <3>3, <3>4, <1>1
  <2> QED
    BY <2>1
<1>7. ASSUME NEW d \in All(f), d # Head(f[r]) PROVE d \in All(g)
  <2>1. PICK q \in Starts : \E j \in 1..Len(f[q]) : f[q][j] = d
    BY <1>7 DEF All
  <2>2. PICK j \in 1..Len(f[q]) : f[q][j] = d
    BY <2>1
  <2>3. q # r \/ j # 1
    BY <2>2, <1>7, <1>1
  <2>4. \E i \in 1..Len(g[q]) : g[q][i] = d
    BY <2>2, <2>3, <1>5
  <2> QED
    BY <2>4, <1>7 DEF All
<1>8. Once(g)
  <2>1. ASSUME NEW p \in Starts, NEW q \in Starts, NEW i \in 1..Len(g[p]), NEW j \in 1..Len(g[q]),
               g[p][i] = g[q][j]
        PROVE  p = q /\ i = j
    <3>1. PICK k \in 1..Len(f[p]) : g[p][i] = f[p][k] /\ k = (IF p = r THEN i + 1 ELSE i)
      BY <1>4
    <3>2. PICK m \in 1..Len(f[q]) : g[q][j] = f[q][m] /\ m = (IF q = r THEN j + 1 ELSE j)
      BY <1>4
    <3>3. p = q /\ k = m
      BY <3>1, <3>2, <2>1 DEF Once
    <3> QED
      BY <3>1, <3>2, <3>3
  <2> QED
    BY <2>1 DEF Once
<1>9. ASSUME NEW q \in Starts
      PROVE  /\ Away(g, q) \subseteq Away(f, q)
             /\ Head(f[r])[1] = q /\ q # r => Head(f[r]) \in Away(f, q)
  <2>1. ASSUME NEW d \in Away(g, q) PROVE d \in Away(f, q)
    <3>1. PICK p \in Starts \ {q} : \E i \in 1..Len(g[p]) : g[p][i] = d
      BY <2>1 DEF Away
    <3>2. PICK i \in 1..Len(g[p]) : g[p][i] = d
      BY <3>1
    <3>3. \E j \in 1..Len(f[p]) : f[p][j] = d
      BY <3>2, <1>4
    <3> QED
      BY <2>1, <3>3 DEF Away
  <2>2. Head(f[r])[1] = q /\ q # r => Head(f[r]) \in Away(f, q)
    BY <1>1 DEF Away
  <2> QED
    BY <2>1, <2>2
<1> QED
  BY <1>1, <1>2, <1>3, <1>6, <1>7, <1>8, <1>9 DEF g

\* The same of a family of sets.
LEMMA SetsGrow ==
  ASSUME NEW f \in [Starts -> SUBSET Blocks], NEW r \in Starts, NEW b \in Blocks
  PROVE  /\ AddTo(f, r, b) \in [Starts -> SUBSET Blocks]
         /\ AllOf(AddTo(f, r, b)) = AllOf(f) \cup {b}
         /\ OnceOf(f) /\ b \notin AllOf(f) => OnceOf(AddTo(f, r, b))
         /\ \A q \in Starts : AwayOf(AddTo(f, r, b), q)
                                = AwayOf(f, q) \cup (IF b[1] = q /\ q # r THEN {b} ELSE {})
<1> DEFINE g == AddTo(f, r, b)
<1>1. /\ g \in [Starts -> SUBSET Blocks] /\ g[r] = f[r] \cup {b}
      /\ \A q \in Starts \ {r} : g[q] = f[q]
  BY DEF AddTo
<1> HIDE DEF g
<1>2. AllOf(g) = AllOf(f) \cup {b}
  BY <1>1 DEF AllOf
<1>3. OnceOf(f) /\ b \notin AllOf(f) => OnceOf(g)
  BY <1>1 DEF AllOf, OnceOf
<1>4. \A q \in Starts : AwayOf(g, q) = AwayOf(f, q) \cup (IF b[1] = q /\ q # r THEN {b} ELSE {})
  BY <1>1 DEF AwayOf
<1> QED
  BY <1>1, <1>2, <1>3, <1>4 DEF g

\* A block that is taken from one set of a family is in none, if it was in one.
LEMMA SetsShrink ==
  ASSUME NEW f \in [Starts -> SUBSET Blocks], NEW r \in Starts, NEW b \in f[r], OnceOf(f)
  PROVE  /\ DropFrom(f, r, b) \in [Starts -> SUBSET Blocks]
         /\ AllOf(DropFrom(f, r, b)) = AllOf(f) \ {b} /\ b \in AllOf(f)
         /\ OnceOf(DropFrom(f, r, b))
         /\ \A q \in Starts : /\ AwayOf(DropFrom(f, r, b), q) \subseteq AwayOf(f, q)
                              /\ b[1] = q /\ q # r => b \in AwayOf(f, q)
<1> DEFINE g == DropFrom(f, r, b)
<1>1. /\ g \in [Starts -> SUBSET Blocks] /\ g[r] = f[r] \ {b}
      /\ \A q \in Starts \ {r} : g[q] = f[q]
  BY DEF DropFrom
<1> HIDE DEF g
<1>2. AllOf(g) = AllOf(f) \ {b} /\ b \in AllOf(f)
  BY <1>1 DEF AllOf, OnceOf
<1>3. OnceOf(g)
  BY <1>1 DEF OnceOf
<1>4. \A q \in Starts : /\ AwayOf(g, q) \subseteq AwayOf(f, q)
                        /\ b[1] = q /\ q # r => b \in AwayOf(f, q)
  BY <1>1 DEF AwayOf
<1> QED
  BY <1>1, <1>2, <1>3, <1>4 DEF g

\* A set whose members are all equal has one at most.
LEMMA AtMostOne ==
  ASSUME NEW T, \A b, d \in T : b = d
  PROVE  Cardinality(T) <= 1
<1>1. CASE T = {}
  BY <1>1, FS_EmptySet
<1>2. CASE T # {}
  <2>1. PICK b \in T : TRUE
    BY <1>2
  <2>2. T = {b}
    BY <2>1
  <2>3. Cardinality({b}) = 1
    BY FS_Singleton
  <2> QED
    BY <2>2, <2>3
<1> QED
  BY <1>1, <1>2

\* What is in each worker's hands.
Hands == [r \in Starts |->
            {b \in Blocks : handling[r].at = "decoded" /\ handling[r].chunk = b}]
Heard ==
  All(captured) \cup AllOf(chunks) \cup All(toDecode) \cup AllOf(Hands) \cup All(listed)

Handlings == {Idle} \cup [at : {"decoded", "listed"}, chunk : Blocks]
                    \cup [at : {"shown"}, session : Starts]

\* The types.
RequestTyped ==
  request \in [Starts \cup Stops -> Done \cup
    {"checked", "loading", "launched", "marked", "source", "transcriber", "executor", "loop"}]
GivenTyped == given \in [Starts -> Starts \cup {NoStart}]
KnownTyped == known \in [Fields -> Starts \cup {NoStart}]
StopTyped == stopEvent \in BOOLEAN
SessionsTyped ==
  sessionIs \in [Starts -> {"none", "starting", "running", "error", "stopped"}]
ListsTyped == listed \in [Starts -> Seq(Blocks)]
CaptureTyped == capture \in [Starts -> ThreadStates]
SourcesTyped == captured \in [Starts -> Seq(Blocks)]
LoopsTyped == looping \subseteq Starts
ExecutorsTyped ==
  /\ chunks \in [Starts -> SUBSET Blocks]
  /\ shut \subseteq Starts /\ (\A r \in shut : chunks[r] = {})
DecodersTyped == decoder \in [Starts -> ThreadStates]
QueuesTyped == toDecode \in [Starts -> Seq(Blocks)]
HandlingTyped == handling \in [Starts -> Handlings]
SnapshotTyped ==
  /\ snapshot.session \in Starts \cup {NoStart}
  /\ snapshot.text \in Seq(Blocks)
SnapshotIs == snapshot = [session |-> snapshot.session, text |-> snapshot.text]
EventsTyped == events \in 0 .. SessionEvents
OverlapTyped == overlapped \in BOOLEAN
SessionTyped ==
  /\ RequestTyped /\ GivenTyped /\ KnownTyped /\ StopTyped /\ SessionsTyped /\ ListsTyped
  /\ CaptureTyped /\ SourcesTyped /\ LoopsTyped /\ ExecutorsTyped /\ DecodersTyped /\ QueuesTyped
  /\ HandlingTyped /\ SnapshotTyped /\ SnapshotIs /\ EventsTyped /\ OverlapTyped

\* Until a session is made nothing is handled, and a request that is about to return has one.
NothingYet ==
  known["session"] = NoStart =>
    \A r \in Starts : request[r] \in {"idle", "checked"} /\ decoder[r] = "off"
      /\ handling[r] = Idle
GivenIsMade == \A r \in Starts : request[r] = "marked" => given[r] \in Starts

\* A block is at one place, and there once.
HeardIsCounted == \A b \in Heard : b[2] <= events
SourcesAreTheirs == \A r \in Starts : \A i \in 1..Len(captured[r]) : captured[r][i][1] = r
PlacesDiffer ==
  /\ Once(captured) /\ OnceOf(chunks) /\ Once(toDecode) /\ OnceOf(Hands) /\ Once(listed)
  /\ All(captured) \cap AllOf(chunks) = {}
  /\ (All(captured) \cup AllOf(chunks)) \cap All(toDecode) = {}
  /\ (All(captured) \cup AllOf(chunks) \cup All(toDecode)) \cap AllOf(Hands) = {}
  /\ (All(captured) \cup AllOf(chunks) \cup All(toDecode) \cup AllOf(Hands)) \cap All(listed) = {}

\* What is not made is nowhere.
UnmadeIsUnused ==
  \A r \in Starts : request[r] \in {"idle", "checked", "refused"} =>
    /\ \A f \in Fields : known[f] # r
    /\ sessionIs[r] = "none" /\ capture[r] = "off" /\ decoder[r] = "off"
HeardIsCaptured == \A b \in Heard : capture[b[1]] # "off"

\* While requests come one after the other: one is in flight, and what it has found holds.
OneInFlight ==
  \A p, q \in Starts \cup Stops : request[p] \notin Done /\ request[q] \notin Done => p = q
NoneRunsAtStart ==
  \A r \in Starts : request[r] = "checked" /\ known["session"] # NoStart =>
    sessionIs[known["session"]] # "running"
LoadingIsKnown ==
  \A r \in Starts : request[r] = "loading" =>
    /\ known["session"] = r /\ known["source"] = r /\ known["transcriber"] = r
    /\ capture[r] = "off" /\ decoder[r] = "off" /\ sessionIs[r] \in {"starting", "error"}
LaunchedIsRunning ==
  \A r \in Starts : request[r] = "launched" => capture[r] # "off" /\ known["session"] = r
RunningIsKnown ==
  LET cur == known["session"] IN
  cur # NoStart /\ capture[cur] # "off" => \A f \in Fields : known[f] = cur
DecodersAreCaptured == \A r \in Starts : decoder[r] = "on" => capture[r] # "off"
StartingIsLaunched ==
  \A r \in Starts : capture[r] # "off" =>
    sessionIs[r] # "none" /\ (sessionIs[r] = "starting" => request[r] = "launched")
OpenIsCurrent ==
  \A r \in Starts : capture[r] = "on" =>
    IF r = known["session"] THEN known["source"] = r ELSE sessionIs[r] = "error"
StopsTell ==
  \A s \in Stops :
    /\ request[s] \in {"transcriber", "executor", "loop"} /\ known["source"] # NoStart
         => capture[known["source"]] # "on"
    /\ request[s] \in {"executor", "loop"} /\ known["transcriber"] # NoStart
         => decoder[known["transcriber"]] # "on"
    /\ request[s] = "loop" => known["executor"] \in shut \cup {NoStart}

\* What was said in the session that is known is with its own threads and in its own list; in
\* one that is stopped, all but what its worker still holds.
CurrentIsAtHome ==
  LET cur == known["session"] IN
  cur # NoStart => /\ Away(listed, cur) = {} /\ AwayOf(chunks, cur) = {}
                   /\ Away(toDecode, cur) = {} /\ AwayOf(Hands, cur) = {}
Stray(r) == Away(listed, r) \cup {b \in Hands[r] : b[1] = r}
StoppedIsAtHome ==
  \A r \in Starts : sessionIs[r] = "stopped" =>
    /\ capture[r] # "on" /\ decoder[r] # "on"
    /\ \A b \in AllOf(chunks) : b[1] # r
    /\ Away(toDecode, r) = {} /\ AwayOf(Hands, r) = {}
    /\ \A b, d \in Stray(r) : b = d
StoppedIsShut ==
  known["source"] # NoStart /\ sessionIs[known["source"]] = "stopped" =>
    known["executor"] \in shut \cup {NoStart}

OrderInv ==
  /\ OneInFlight /\ NoneRunsAtStart /\ LoadingIsKnown /\ LaunchedIsRunning /\ RunningIsKnown
  /\ DecodersAreCaptured /\ StartingIsLaunched /\ OpenIsCurrent /\ StopsTell
HomeInv == CurrentIsAtHome /\ StoppedIsAtHome /\ StoppedIsShut
SessionIInv ==
  /\ SessionTyped /\ NothingYet /\ GivenIsMade /\ UnmadeIsUnused /\ SnapshotCatchesUp
  /\ HeardIsCounted /\ SourcesAreTheirs /\ PlacesDiffer /\ HeardIsCaptured
  /\ ~overlapped => OrderInv /\ HomeInv

\* What the constants and the types come to.
LEMMA SessionShape ==
  ASSUME SessionTyped
  PROVE  /\ NStarts \in Nat /\ SessionEvents \in Nat /\ 0 \notin Starts /\ Starts \subseteq Nat
         /\ Starts \cap Stops = {} /\ NoStart \notin Starts
         /\ \A r \in Starts, n \in 1..SessionEvents : <<r, n>> \in Blocks /\ <<r, n>>[1] = r
         /\ \A b \in Blocks : b[1] \in Starts /\ b[2] \in 1..SessionEvents
         /\ \A f \in Fields : known[f] \in Starts \cup {NoStart}
         /\ "session" \in Fields /\ "source" \in Fields /\ "transcriber" \in Fields
         /\ "executor" \in Fields /\ "loop" \in Fields
         /\ events \in Nat
BY SessionAssumption DEF Starts, NoStart, Blocks, Fields, SessionTyped, KnownTyped, EventsTyped

\* What is handled.
LEMMA HandlingIs ==
  ASSUME HandlingTyped, NEW r \in Starts
  PROVE  /\ handling[r].at \in {"idle", "decoded", "listed", "shown"}
         /\ handling[r].at \in {"decoded", "listed"} => handling[r].chunk \in Blocks
         /\ handling[r].at = "shown" => handling[r].session \in Starts
         /\ handling[r].at = "idle" => handling[r] = Idle
BY DEF HandlingTyped, Handlings, Idle

\* Helpers of the steps keep the types.
LEMMA RequestMoves ==
  ASSUME RequestTyped, NEW q \in Starts \cup Stops,
         NEW p \in Done \cup {"checked", "loading", "launched", "marked", "source", "transcriber",
                              "executor", "loop"}, GoesTo(q, p)
  PROVE  RequestTyped'
BY DEF GoesTo, RequestTyped

\* Events are counted up to their bound.
LEMMA EventsMove ==
  ASSUME EventsTyped
  PROVE  /\ Happens => EventsTyped' /\ events' = events + 1 /\ events' \in 1..SessionEvents
         /\ \A q \in Starts \cup Stops : Begins(q) => EventsTyped' /\ overlapped' \in BOOLEAN
<1>1. Happens => EventsTyped' /\ events' = events + 1 /\ events' \in 1..SessionEvents
  BY SessionAssumption DEF Happens, EventsTyped
<1>2. events' = events => EventsTyped'
  BY DEF EventsTyped
<1>3. ASSUME NEW q \in Starts \cup Stops, Begins(q) PROVE Happens \/ events' = events
  BY <1>3 DEF Begins
<1>4. ASSUME NEW q \in Starts \cup Stops, Begins(q) PROVE overlapped' \in BOOLEAN
  BY <1>4, Zenon DEF Begins
<1> QED
  BY <1>1, <1>2, <1>3, <1>4

\* What is shown is of a session, and a mark keeps it so.
LEMMA SnapshotMoves ==
  ASSUME ListsTyped
  PROVE  /\ \A r \in Starts : Shows(r) => SnapshotTyped' /\ SnapshotIs'
         /\ \A new \in {"error", "running", "stopped"} :
              Marks(new) /\ SessionsTyped /\ KnownTyped /\ SnapshotTyped /\ SnapshotIs =>
                SessionsTyped' /\ SnapshotTyped' /\ SnapshotIs'
<1>1. \A r \in Starts : Shows(r) => SnapshotTyped' /\ SnapshotIs'
  BY DEF ListsTyped, Shows, SnapshotTyped, SnapshotIs
<1>2. ASSUME NEW new \in {"error", "running", "stopped"}, Marks(new), SessionsTyped, KnownTyped,
             SnapshotTyped, SnapshotIs
      PROVE  SessionsTyped' /\ SnapshotTyped' /\ SnapshotIs'
  <2>1. CASE known["session"] = NoStart
    BY <1>2, <2>1 DEF Marks, SessionsTyped, SnapshotTyped, SnapshotIs
  <2>2. CASE known["session"] # NoStart
    <3>1. known["session"] \in Starts
      BY <1>2, <2>2 DEF KnownTyped, Fields
    <3>2. Shows(known["session"]) /\ SessionsTyped'
      BY <1>2, <2>2, <3>1 DEF Marks, SessionsTyped
    <3> QED
      BY <3>1, <3>2, <1>1
  <2> QED
    BY <2>1, <2>2
<1> QED
  BY <1>1, <1>2

\* A thread that is told to stop no longer runs, and the others go on.
LEMMA ToldIs ==
  ASSUME NEW thread \in [Starts -> ThreadStates], NEW r \in Starts \cup {NoStart}
  PROVE  /\ Told(thread, r) \in [Starts -> ThreadStates]
         /\ \A q \in Starts : /\ Told(thread, r)[q] \in {thread[q], "told"}
                              /\ Told(thread, r)[q] = "on" => thread[q] = "on" /\ q # r
                              /\ Told(thread, r)[q] = "off" <=> thread[q] = "off"
<1>1. CASE r \in Starts /\ thread[r] = "on"
  BY <1>1 DEF Told, ThreadStates
<1>2. CASE ~(r \in Starts /\ thread[r] = "on")
  BY <1>2 DEF Told
<1> QED
  BY <1>1, <1>2

\* Every step preserves the types.
LEMMA SessionTypeNext == SessionIInv /\ [SessionNext]_sessionVars => SessionTyped'
<1> SUFFICES ASSUME SessionIInv, [SessionNext]_sessionVars PROVE SessionTyped'
  OBVIOUS
<1> USE DEF SessionTyped, SessionIInv, NothingYet, GivenIsMade
<1>1. ASSUME NEW r \in Starts, StartChecks(r) PROVE SessionTyped'
  <2>1. RequestTyped'
    BY <1>1, RequestMoves DEF StartChecks, Done, RequestTyped
  <2>2. GivenTyped' /\ KnownTyped' /\ StopTyped' /\ SessionsTyped' /\ ListsTyped'
        /\ CaptureTyped' /\ SourcesTyped' /\ LoopsTyped' /\ ExecutorsTyped'
        /\ DecodersTyped' /\ QueuesTyped' /\ HandlingTyped' /\ SnapshotTyped' /\ SnapshotIs'
    BY <1>1 DEF GivenTyped, KnownTyped, StopTyped, SessionsTyped, ListsTyped, CaptureTyped,
       SourcesTyped, LoopsTyped, ExecutorsTyped, DecodersTyped, QueuesTyped, HandlingTyped,
       SnapshotTyped, SnapshotIs, StartChecks, Begins, GoesTo, Happens, threadVars
  <2>3. EventsTyped' /\ OverlapTyped'
    BY <1>1, EventsMove DEF EventsTyped, OverlapTyped, StartChecks
  <2> QED
    BY <2>1, <2>2, <2>3 DEF RequestTyped, GivenTyped, KnownTyped, StopTyped, SessionsTyped,
       ListsTyped, CaptureTyped, SourcesTyped, LoopsTyped, ExecutorsTyped, DecodersTyped,
       QueuesTyped, HandlingTyped, SnapshotTyped, SnapshotIs, EventsTyped, OverlapTyped
<1>2. ASSUME NEW r \in Starts, StartCreates(r) PROVE SessionTyped'
  <2>1. RequestTyped'
    BY <1>2, RequestMoves DEF StartCreates, Done, RequestTyped
  <2>2. GivenTyped' /\ KnownTyped' /\ StopTyped' /\ SessionsTyped' /\ ListsTyped'
        /\ CaptureTyped' /\ SourcesTyped' /\ LoopsTyped' /\ ExecutorsTyped'
        /\ DecodersTyped' /\ QueuesTyped' /\ HandlingTyped' /\ SnapshotTyped' /\ SnapshotIs'
        /\ EventsTyped' /\ OverlapTyped'
    BY <1>2 DEF GivenTyped, KnownTyped, StopTyped, SessionsTyped, ListsTyped, CaptureTyped,
       SourcesTyped, LoopsTyped, ExecutorsTyped, DecodersTyped, QueuesTyped, HandlingTyped,
       SnapshotTyped, SnapshotIs, EventsTyped, OverlapTyped, StartCreates, GoesTo,
       threadVars
  <2> QED
    BY <2>1, <2>2 DEF RequestTyped, GivenTyped, KnownTyped, StopTyped, SessionsTyped,
       ListsTyped, CaptureTyped, SourcesTyped, LoopsTyped, ExecutorsTyped, DecodersTyped,
       QueuesTyped, HandlingTyped, SnapshotTyped, SnapshotIs, EventsTyped, OverlapTyped
<1>3. ASSUME NEW r \in Starts, StartAborts(r) PROVE SessionTyped'
  <2>1. RequestTyped'
    BY <1>3, RequestMoves DEF StartAborts, Done, RequestTyped
  <2>2. GivenTyped' /\ KnownTyped' /\ StopTyped' /\ SessionsTyped' /\ ListsTyped'
        /\ CaptureTyped' /\ SourcesTyped' /\ LoopsTyped' /\ ExecutorsTyped'
        /\ DecodersTyped' /\ QueuesTyped' /\ HandlingTyped' /\ SnapshotTyped' /\ SnapshotIs'
        /\ OverlapTyped'
    BY <1>3 DEF GivenTyped, KnownTyped, StopTyped, SessionsTyped, ListsTyped, CaptureTyped,
       SourcesTyped, LoopsTyped, ExecutorsTyped, DecodersTyped, QueuesTyped, HandlingTyped,
       SnapshotTyped, SnapshotIs, OverlapTyped, StartAborts, GoesTo, Happens, threadVars
  <2>3. EventsTyped'
    BY <1>3, EventsMove DEF StartAborts, EventsTyped
  <2> QED
    BY <2>1, <2>2, <2>3 DEF RequestTyped, GivenTyped, KnownTyped, StopTyped, SessionsTyped,
       ListsTyped, CaptureTyped, SourcesTyped, LoopsTyped, ExecutorsTyped, DecodersTyped,
       QueuesTyped, HandlingTyped, SnapshotTyped, SnapshotIs, EventsTyped, OverlapTyped
<1>4. ASSUME NEW r \in Starts, StartFails(r) PROVE SessionTyped'
  <2>1. RequestTyped'
    BY <1>4, RequestMoves DEF StartFails, Done, RequestTyped
  <2>2. GivenTyped' /\ KnownTyped' /\ StopTyped' /\ ListsTyped' /\ CaptureTyped'
        /\ SourcesTyped' /\ LoopsTyped' /\ ExecutorsTyped' /\ DecodersTyped' /\ QueuesTyped'
        /\ HandlingTyped' /\ OverlapTyped'
    BY <1>4 DEF GivenTyped, KnownTyped, StopTyped, ListsTyped, CaptureTyped, SourcesTyped,
       LoopsTyped, ExecutorsTyped, DecodersTyped, QueuesTyped, HandlingTyped, OverlapTyped,
       StartFails, GoesTo, Happens, Marks, Shows, threadVars
  <2>3. SessionsTyped' /\ SnapshotTyped' /\ SnapshotIs'
    BY <1>4, SnapshotMoves DEF SessionsTyped, SnapshotTyped, SnapshotIs, StartFails
  <2>4. EventsTyped'
    BY <1>4, EventsMove DEF StartFails, EventsTyped, EventsTyped
  <2> QED
    BY <2>1, <2>2, <2>3, <2>4 DEF RequestTyped, GivenTyped, KnownTyped, StopTyped,
       SessionsTyped, ListsTyped, CaptureTyped, SourcesTyped, LoopsTyped, ExecutorsTyped,
       DecodersTyped, QueuesTyped, HandlingTyped, SnapshotTyped, SnapshotIs, EventsTyped,
       OverlapTyped
<1>5. ASSUME NEW r \in Starts, StartLaunches(r) PROVE SessionTyped'
  <2>1. RequestTyped'
    BY <1>5, RequestMoves DEF StartLaunches, Done, RequestTyped
  <2>2. GivenTyped' /\ KnownTyped' /\ StopTyped' /\ SessionsTyped' /\ ListsTyped'
        /\ SourcesTyped' /\ LoopsTyped' /\ ExecutorsTyped' /\ QueuesTyped' /\ HandlingTyped'
        /\ SnapshotTyped' /\ SnapshotIs' /\ EventsTyped' /\ OverlapTyped'
    BY <1>5 DEF GivenTyped, KnownTyped, StopTyped, SessionsTyped, ListsTyped, SourcesTyped,
       LoopsTyped, ExecutorsTyped, QueuesTyped, HandlingTyped, SnapshotTyped, SnapshotIs,
       EventsTyped, OverlapTyped, StartLaunches, GoesTo
  <2>3. CaptureTyped' /\ DecodersTyped'
    BY <1>5, SessionShape DEF CaptureTyped, DecodersTyped, StartLaunches, ThreadStates
  <2> QED
    BY <2>1, <2>2, <2>3 DEF RequestTyped, GivenTyped, KnownTyped, StopTyped, SessionsTyped,
       ListsTyped, CaptureTyped, SourcesTyped, LoopsTyped, ExecutorsTyped, DecodersTyped,
       QueuesTyped, HandlingTyped, SnapshotTyped, SnapshotIs, EventsTyped, OverlapTyped
<1>6. ASSUME NEW r \in Starts, StartMarks(r) PROVE SessionTyped'
  <2>1. RequestTyped'
    BY <1>6, RequestMoves DEF StartMarks, Done, RequestTyped
  <2>2. GivenTyped'
    BY <1>6, SessionShape DEF StartMarks, GivenTyped, GivenTyped
  <2>3. KnownTyped' /\ StopTyped' /\ ListsTyped' /\ CaptureTyped' /\ SourcesTyped'
        /\ LoopsTyped' /\ ExecutorsTyped' /\ DecodersTyped' /\ QueuesTyped'
        /\ HandlingTyped' /\ EventsTyped' /\ OverlapTyped'
    BY <1>6 DEF KnownTyped, StopTyped, ListsTyped, CaptureTyped, SourcesTyped, LoopsTyped,
       ExecutorsTyped, DecodersTyped, QueuesTyped, HandlingTyped, EventsTyped, OverlapTyped,
       StartMarks, GoesTo, Marks, Shows, threadVars
  <2>4. SessionsTyped' /\ SnapshotTyped' /\ SnapshotIs'
    BY <1>6, SnapshotMoves DEF SessionsTyped, SnapshotTyped, SnapshotIs, StartMarks
  <2> QED
    BY <2>1, <2>2, <2>3, <2>4 DEF RequestTyped, GivenTyped, KnownTyped, StopTyped,
       SessionsTyped, ListsTyped, CaptureTyped, SourcesTyped, LoopsTyped, ExecutorsTyped,
       DecodersTyped, QueuesTyped, HandlingTyped, SnapshotTyped, SnapshotIs, EventsTyped,
       OverlapTyped
<1>7. ASSUME NEW r \in Starts, StartReturns(r) PROVE SessionTyped'
  <2>1. RequestTyped'
    BY <1>7, RequestMoves DEF StartReturns, Done, RequestTyped
  <2>2. GivenTyped' /\ KnownTyped' /\ StopTyped' /\ SessionsTyped' /\ ListsTyped'
        /\ CaptureTyped' /\ SourcesTyped' /\ LoopsTyped' /\ ExecutorsTyped'
        /\ DecodersTyped' /\ QueuesTyped' /\ HandlingTyped' /\ EventsTyped' /\ OverlapTyped'
    BY <1>7 DEF GivenTyped, KnownTyped, StopTyped, SessionsTyped, ListsTyped, CaptureTyped,
       SourcesTyped, LoopsTyped, ExecutorsTyped, DecodersTyped, QueuesTyped, HandlingTyped,
       EventsTyped, OverlapTyped, StartReturns, GoesTo, Shows, threadVars
  <2>3. SnapshotTyped' /\ SnapshotIs'
    BY <1>7, SnapshotMoves DEF SnapshotTyped, SnapshotIs, StartReturns
  <2> QED
    BY <2>1, <2>2, <2>3 DEF RequestTyped, GivenTyped, KnownTyped, StopTyped, SessionsTyped,
       ListsTyped, CaptureTyped, SourcesTyped, LoopsTyped, ExecutorsTyped, DecodersTyped,
       QueuesTyped, HandlingTyped, SnapshotTyped, SnapshotIs, EventsTyped, OverlapTyped
<1>8. ASSUME NEW s \in Stops, StopBegin(s) PROVE SessionTyped'
  <2>1. RequestTyped'
    BY <1>8, RequestMoves DEF StopBegin, Done, RequestTyped
  <2>2. GivenTyped' /\ KnownTyped' /\ StopTyped' /\ SessionsTyped' /\ ListsTyped'
        /\ CaptureTyped' /\ SourcesTyped' /\ LoopsTyped' /\ ExecutorsTyped'
        /\ DecodersTyped' /\ QueuesTyped' /\ HandlingTyped' /\ SnapshotTyped' /\ SnapshotIs'
    BY <1>8 DEF GivenTyped, KnownTyped, StopTyped, SessionsTyped, ListsTyped, CaptureTyped,
       SourcesTyped, LoopsTyped, ExecutorsTyped, DecodersTyped, QueuesTyped, HandlingTyped,
       SnapshotTyped, SnapshotIs, StopBegin, Begins, GoesTo, Happens, threadVars
  <2>3. EventsTyped' /\ OverlapTyped'
    BY <1>8, EventsMove DEF EventsTyped, OverlapTyped, StopBegin
  <2> QED
    BY <2>1, <2>2, <2>3 DEF RequestTyped, GivenTyped, KnownTyped, StopTyped, SessionsTyped,
       ListsTyped, CaptureTyped, SourcesTyped, LoopsTyped, ExecutorsTyped, DecodersTyped,
       QueuesTyped, HandlingTyped, SnapshotTyped, SnapshotIs, EventsTyped, OverlapTyped
<1>9. ASSUME NEW s \in Stops, StopSource(s) PROVE SessionTyped'
  <2>1. RequestTyped'
    BY <1>9, RequestMoves DEF StopSource, Done, RequestTyped
  <2>2. GivenTyped' /\ KnownTyped' /\ StopTyped' /\ SessionsTyped' /\ ListsTyped'
        /\ SourcesTyped' /\ LoopsTyped' /\ ExecutorsTyped' /\ DecodersTyped' /\ QueuesTyped'
        /\ HandlingTyped' /\ SnapshotTyped' /\ SnapshotIs' /\ EventsTyped' /\ OverlapTyped'
    BY <1>9 DEF GivenTyped, KnownTyped, StopTyped, SessionsTyped, ListsTyped, SourcesTyped,
       LoopsTyped, ExecutorsTyped, DecodersTyped, QueuesTyped, HandlingTyped, SnapshotTyped,
       SnapshotIs, EventsTyped, OverlapTyped, StopSource, GoesTo, Told
  <2>3. CaptureTyped'
    BY <1>9, ToldIs, SessionShape DEF StopSource, CaptureTyped, CaptureTyped
  <2> QED
    BY <2>1, <2>2, <2>3 DEF RequestTyped, GivenTyped, KnownTyped, StopTyped, SessionsTyped,
       ListsTyped, CaptureTyped, SourcesTyped, LoopsTyped, ExecutorsTyped, DecodersTyped,
       QueuesTyped, HandlingTyped, SnapshotTyped, SnapshotIs, EventsTyped, OverlapTyped
<1>10. ASSUME NEW s \in Stops, StopTranscriber(s) PROVE SessionTyped'
  <2>1. RequestTyped'
    BY <1>10, RequestMoves DEF StopTranscriber, Done, RequestTyped
  <2>2. GivenTyped' /\ KnownTyped' /\ StopTyped' /\ SessionsTyped' /\ ListsTyped'
        /\ CaptureTyped' /\ SourcesTyped' /\ LoopsTyped' /\ ExecutorsTyped' /\ QueuesTyped'
        /\ HandlingTyped' /\ SnapshotTyped' /\ SnapshotIs' /\ EventsTyped' /\ OverlapTyped'
    BY <1>10 DEF GivenTyped, KnownTyped, StopTyped, SessionsTyped, ListsTyped, CaptureTyped,
       SourcesTyped, LoopsTyped, ExecutorsTyped, QueuesTyped, HandlingTyped, SnapshotTyped,
       SnapshotIs, EventsTyped, OverlapTyped, StopTranscriber, GoesTo, Told
  <2>3. DecodersTyped'
    BY <1>10, ToldIs, SessionShape DEF StopTranscriber, DecodersTyped, DecodersTyped
  <2> QED
    BY <2>1, <2>2, <2>3 DEF RequestTyped, GivenTyped, KnownTyped, StopTyped, SessionsTyped,
       ListsTyped, CaptureTyped, SourcesTyped, LoopsTyped, ExecutorsTyped, DecodersTyped,
       QueuesTyped, HandlingTyped, SnapshotTyped, SnapshotIs, EventsTyped, OverlapTyped
<1>11. ASSUME NEW s \in Stops, StopExecutor(s) PROVE SessionTyped'
  <2>1. RequestTyped'
    BY <1>11, RequestMoves DEF StopExecutor, Done, RequestTyped
  <2>2. GivenTyped' /\ KnownTyped' /\ StopTyped' /\ SessionsTyped' /\ ListsTyped'
        /\ CaptureTyped' /\ SourcesTyped' /\ LoopsTyped' /\ DecodersTyped' /\ QueuesTyped'
        /\ HandlingTyped' /\ SnapshotTyped' /\ SnapshotIs' /\ EventsTyped' /\ OverlapTyped'
    BY <1>11 DEF GivenTyped, KnownTyped, StopTyped, SessionsTyped, ListsTyped, CaptureTyped,
       SourcesTyped, LoopsTyped, DecodersTyped, QueuesTyped, HandlingTyped, SnapshotTyped,
       SnapshotIs, EventsTyped, OverlapTyped, StopExecutor, GoesTo
  <2>3. ExecutorsTyped'
    BY <1>11, SessionShape DEF StopExecutor, ExecutorsTyped, ExecutorsTyped
  <2> QED
    BY <2>1, <2>2, <2>3 DEF RequestTyped, GivenTyped, KnownTyped, StopTyped, SessionsTyped,
       ListsTyped, CaptureTyped, SourcesTyped, LoopsTyped, ExecutorsTyped, DecodersTyped,
       QueuesTyped, HandlingTyped, SnapshotTyped, SnapshotIs, EventsTyped, OverlapTyped
<1>12. ASSUME NEW s \in Stops, StopMarks(s) PROVE SessionTyped'
  <2>1. RequestTyped'
    BY <1>12, RequestMoves DEF StopMarks, Done, RequestTyped
  <2>2. GivenTyped' /\ KnownTyped' /\ StopTyped' /\ ListsTyped' /\ CaptureTyped'
        /\ SourcesTyped' /\ LoopsTyped' /\ ExecutorsTyped' /\ DecodersTyped' /\ QueuesTyped'
        /\ HandlingTyped' /\ EventsTyped' /\ OverlapTyped'
    BY <1>12 DEF GivenTyped, KnownTyped, StopTyped, ListsTyped, CaptureTyped, SourcesTyped,
       LoopsTyped, ExecutorsTyped, DecodersTyped, QueuesTyped, HandlingTyped, EventsTyped,
       OverlapTyped, StopMarks, GoesTo, Marks, Shows, threadVars
  <2>3. SessionsTyped' /\ SnapshotTyped' /\ SnapshotIs'
    BY <1>12, SnapshotMoves DEF SessionsTyped, SnapshotTyped, SnapshotIs, StopMarks
  <2> QED
    BY <2>1, <2>2, <2>3 DEF RequestTyped, GivenTyped, KnownTyped, StopTyped, SessionsTyped,
       ListsTyped, CaptureTyped, SourcesTyped, LoopsTyped, ExecutorsTyped, DecodersTyped,
       QueuesTyped, HandlingTyped, SnapshotTyped, SnapshotIs, EventsTyped, OverlapTyped
<1>13. ASSUME NEW r \in Starts, Captures(r) PROVE SessionTyped'
  <2>1. RequestTyped' /\ GivenTyped' /\ KnownTyped' /\ StopTyped' /\ SessionsTyped'
        /\ ListsTyped' /\ CaptureTyped' /\ LoopsTyped' /\ ExecutorsTyped' /\ DecodersTyped'
        /\ QueuesTyped' /\ HandlingTyped' /\ SnapshotTyped' /\ SnapshotIs' /\ OverlapTyped'
    BY <1>13 DEF RequestTyped, GivenTyped, KnownTyped, StopTyped, SessionsTyped, ListsTyped,
       CaptureTyped, LoopsTyped, ExecutorsTyped, DecodersTyped, QueuesTyped, HandlingTyped,
       SnapshotTyped, SnapshotIs, OverlapTyped, Captures, Happens
  <2>2. SourcesTyped'
    BY <1>13, EventsMove, SessionShape, SequencesMove DEF Captures, SourcesTyped,
       SourcesTyped
  <2>3. EventsTyped'
    BY <1>13, EventsMove DEF Captures, EventsTyped
  <2> QED
    BY <2>1, <2>2, <2>3 DEF RequestTyped, GivenTyped, KnownTyped, StopTyped, SessionsTyped,
       ListsTyped, CaptureTyped, SourcesTyped, LoopsTyped, ExecutorsTyped, DecodersTyped,
       QueuesTyped, HandlingTyped, SnapshotTyped, SnapshotIs, EventsTyped, OverlapTyped
<1>14. ASSUME NEW r \in Starts, CaptureFails(r) PROVE SessionTyped'
  <2>1. RequestTyped' /\ GivenTyped' /\ KnownTyped' /\ StopTyped' /\ ListsTyped'
        /\ SourcesTyped' /\ LoopsTyped' /\ ExecutorsTyped' /\ DecodersTyped' /\ QueuesTyped'
        /\ HandlingTyped' /\ OverlapTyped'
    BY <1>14 DEF RequestTyped, GivenTyped, KnownTyped, StopTyped, ListsTyped, SourcesTyped,
       LoopsTyped, ExecutorsTyped, DecodersTyped, QueuesTyped, HandlingTyped, OverlapTyped,
       CaptureFails, Happens, Marks, Shows
  <2>2. SessionsTyped' /\ SnapshotTyped' /\ SnapshotIs'
    BY <1>14, SnapshotMoves DEF SessionsTyped, SnapshotTyped, SnapshotIs, CaptureFails
  <2>3. CaptureTyped'
    BY <1>14 DEF CaptureFails, CaptureTyped, ThreadStates, CaptureTyped
  <2>4. EventsTyped'
    BY <1>14, EventsMove DEF CaptureFails, EventsTyped
  <2> QED
    BY <2>1, <2>2, <2>3, <2>4 DEF RequestTyped, GivenTyped, KnownTyped, StopTyped,
       SessionsTyped, ListsTyped, CaptureTyped, SourcesTyped, LoopsTyped, ExecutorsTyped,
       DecodersTyped, QueuesTyped, HandlingTyped, SnapshotTyped, SnapshotIs, EventsTyped,
       OverlapTyped
<1>15. ASSUME NEW r \in Starts, LoopReads(r) PROVE SessionTyped'
  <2>1. RequestTyped' /\ GivenTyped' /\ KnownTyped' /\ StopTyped' /\ SessionsTyped'
        /\ ListsTyped' /\ CaptureTyped' /\ LoopsTyped' /\ DecodersTyped' /\ QueuesTyped'
        /\ HandlingTyped' /\ SnapshotTyped' /\ SnapshotIs' /\ EventsTyped' /\ OverlapTyped'
    BY <1>15 DEF RequestTyped, GivenTyped, KnownTyped, StopTyped, SessionsTyped, ListsTyped,
       CaptureTyped, LoopsTyped, DecodersTyped, QueuesTyped, HandlingTyped, SnapshotTyped,
       SnapshotIs, EventsTyped, OverlapTyped, LoopReads
  <2>2. SourcesTyped' /\ ExecutorsTyped'
    BY <1>15, SessionShape, SequencesMove DEF SourcesTyped, ExecutorsTyped, LoopReads
  <2> QED
    BY <2>1, <2>2 DEF RequestTyped, GivenTyped, KnownTyped, StopTyped, SessionsTyped,
       ListsTyped, CaptureTyped, SourcesTyped, LoopsTyped, ExecutorsTyped, DecodersTyped,
       QueuesTyped, HandlingTyped, SnapshotTyped, SnapshotIs, EventsTyped, OverlapTyped
<1>16. ASSUME NEW r \in Starts, LoopEnds(r) PROVE SessionTyped'
  BY <1>16 DEF RequestTyped, GivenTyped, KnownTyped, StopTyped, SessionsTyped, ListsTyped,
     CaptureTyped, SourcesTyped, LoopsTyped, ExecutorsTyped, DecodersTyped, QueuesTyped,
     HandlingTyped, SnapshotTyped, SnapshotIs, EventsTyped, OverlapTyped, LoopEnds
<1>17. ASSUME NEW r \in Starts, NEW c \in Blocks, ProcessChunk(r, c) PROVE SessionTyped'
  <2>1. RequestTyped' /\ GivenTyped' /\ KnownTyped' /\ StopTyped' /\ SessionsTyped'
        /\ ListsTyped' /\ CaptureTyped' /\ SourcesTyped' /\ LoopsTyped' /\ ExecutorsTyped'
        /\ DecodersTyped' /\ HandlingTyped' /\ SnapshotTyped' /\ SnapshotIs' /\ EventsTyped'
        /\ OverlapTyped'
    BY <1>17 DEF RequestTyped, GivenTyped, KnownTyped, StopTyped, SessionsTyped, ListsTyped,
       CaptureTyped, SourcesTyped, LoopsTyped, ExecutorsTyped, DecodersTyped, HandlingTyped,
       SnapshotTyped, SnapshotIs, EventsTyped, OverlapTyped, ProcessChunk
  <2>2. QueuesTyped'
    BY <1>17, SessionShape, SequencesMove DEF ProcessChunk, QueuesTyped, QueuesTyped
  <2> QED
    BY <2>1, <2>2 DEF RequestTyped, GivenTyped, KnownTyped, StopTyped, SessionsTyped,
       ListsTyped, CaptureTyped, SourcesTyped, LoopsTyped, ExecutorsTyped, DecodersTyped,
       QueuesTyped, HandlingTyped, SnapshotTyped, SnapshotIs, EventsTyped, OverlapTyped
<1>18. ASSUME NEW r \in Starts, Decodes(r) PROVE SessionTyped'
  <2>1. RequestTyped' /\ GivenTyped' /\ KnownTyped' /\ StopTyped' /\ SessionsTyped'
        /\ ListsTyped' /\ CaptureTyped' /\ SourcesTyped' /\ LoopsTyped' /\ ExecutorsTyped'
        /\ DecodersTyped' /\ SnapshotTyped' /\ SnapshotIs' /\ EventsTyped' /\ OverlapTyped'
    BY <1>18 DEF RequestTyped, GivenTyped, KnownTyped, StopTyped, SessionsTyped, ListsTyped,
       CaptureTyped, SourcesTyped, LoopsTyped, ExecutorsTyped, DecodersTyped, SnapshotTyped,
       SnapshotIs, EventsTyped, OverlapTyped, Decodes
  <2>2. QueuesTyped' /\ HandlingTyped'
    BY <1>18, SequencesMove DEF QueuesTyped, HandlingTyped, Decodes, Handlings
  <2> QED
    BY <2>1, <2>2 DEF RequestTyped, GivenTyped, KnownTyped, StopTyped, SessionsTyped,
       ListsTyped, CaptureTyped, SourcesTyped, LoopsTyped, ExecutorsTyped, DecodersTyped,
       QueuesTyped, HandlingTyped, SnapshotTyped, SnapshotIs, EventsTyped, OverlapTyped
<1>19. ASSUME NEW r \in Starts, Lists(r) PROVE SessionTyped'
  <2>1. RequestTyped' /\ GivenTyped' /\ KnownTyped' /\ StopTyped' /\ SessionsTyped'
        /\ CaptureTyped' /\ SourcesTyped' /\ LoopsTyped' /\ ExecutorsTyped'
        /\ DecodersTyped' /\ QueuesTyped' /\ SnapshotTyped' /\ SnapshotIs' /\ EventsTyped'
        /\ OverlapTyped'
    BY <1>19 DEF RequestTyped, GivenTyped, KnownTyped, StopTyped, SessionsTyped,
       CaptureTyped, SourcesTyped, LoopsTyped, ExecutorsTyped, DecodersTyped, QueuesTyped,
       SnapshotTyped, SnapshotIs, EventsTyped, OverlapTyped, Lists
  <2>2. ListsTyped'
    BY <1>19, SessionShape, SequencesMove, HandlingIs DEF Lists, ListsTyped, Idle,
       ListsTyped
  <2>3. HandlingTyped'
    BY <1>19, HandlingIs DEF Lists, HandlingTyped, Handlings, HandlingTyped
  <2> QED
    BY <2>1, <2>2, <2>3 DEF RequestTyped, GivenTyped, KnownTyped, StopTyped, SessionsTyped,
       ListsTyped, CaptureTyped, SourcesTyped, LoopsTyped, ExecutorsTyped, DecodersTyped,
       QueuesTyped, HandlingTyped, SnapshotTyped, SnapshotIs, EventsTyped, OverlapTyped
<1>20. ASSUME NEW r \in Starts, ShowsSegment(r) PROVE SessionTyped'
  <2>1. RequestTyped' /\ GivenTyped' /\ KnownTyped' /\ StopTyped' /\ SessionsTyped'
        /\ ListsTyped' /\ CaptureTyped' /\ SourcesTyped' /\ LoopsTyped' /\ ExecutorsTyped'
        /\ DecodersTyped' /\ QueuesTyped' /\ SnapshotIs' /\ EventsTyped' /\ OverlapTyped'
    BY <1>20 DEF RequestTyped, GivenTyped, KnownTyped, StopTyped, SessionsTyped, ListsTyped,
       CaptureTyped, SourcesTyped, LoopsTyped, ExecutorsTyped, DecodersTyped, QueuesTyped,
       SnapshotIs, EventsTyped, OverlapTyped, ShowsSegment
  <2>2. HandlingTyped'
    BY <1>20, HandlingIs, SessionShape DEF ShowsSegment, HandlingTyped, Handlings, Idle,
       HandlingTyped
  <2>3. SnapshotTyped'
    BY <1>20, HandlingIs, SequencesMove DEF ShowsSegment, SnapshotTyped, SnapshotIs,
       SnapshotTyped
  <2> QED
    BY <2>1, <2>2, <2>3 DEF RequestTyped, GivenTyped, KnownTyped, StopTyped, SessionsTyped,
       ListsTyped, CaptureTyped, SourcesTyped, LoopsTyped, ExecutorsTyped, DecodersTyped,
       QueuesTyped, HandlingTyped, SnapshotTyped, SnapshotIs, EventsTyped, OverlapTyped
<1>21. ASSUME NEW r \in Starts, ShowsState(r) PROVE SessionTyped'
  <2>1. RequestTyped' /\ GivenTyped' /\ KnownTyped' /\ StopTyped' /\ SessionsTyped'
        /\ ListsTyped' /\ CaptureTyped' /\ SourcesTyped' /\ LoopsTyped' /\ ExecutorsTyped'
        /\ DecodersTyped' /\ QueuesTyped' /\ EventsTyped' /\ OverlapTyped'
    BY <1>21 DEF RequestTyped, GivenTyped, KnownTyped, StopTyped, SessionsTyped, ListsTyped,
       CaptureTyped, SourcesTyped, LoopsTyped, ExecutorsTyped, DecodersTyped, QueuesTyped,
       EventsTyped, OverlapTyped, ShowsState, Shows
  <2>2. HandlingTyped'
    BY <1>21 DEF ShowsState, HandlingTyped, Handlings, HandlingTyped
  <2>3. SnapshotTyped' /\ SnapshotIs'
    BY <1>21, HandlingIs, SnapshotMoves DEF SnapshotTyped, SnapshotIs, ShowsState
  <2> QED
    BY <2>1, <2>2, <2>3 DEF RequestTyped, GivenTyped, KnownTyped, StopTyped, SessionsTyped,
       ListsTyped, CaptureTyped, SourcesTyped, LoopsTyped, ExecutorsTyped, DecodersTyped,
       QueuesTyped, HandlingTyped, SnapshotTyped, SnapshotIs, EventsTyped, OverlapTyped
<1>22. ASSUME NEW r \in Starts, DecoderFails(r) PROVE SessionTyped'
  <2>1. RequestTyped' /\ GivenTyped' /\ KnownTyped' /\ StopTyped' /\ ListsTyped'
        /\ CaptureTyped' /\ SourcesTyped' /\ LoopsTyped' /\ ExecutorsTyped' /\ QueuesTyped'
        /\ HandlingTyped' /\ OverlapTyped'
    BY <1>22 DEF RequestTyped, GivenTyped, KnownTyped, StopTyped, ListsTyped, CaptureTyped,
       SourcesTyped, LoopsTyped, ExecutorsTyped, QueuesTyped, HandlingTyped, OverlapTyped,
       DecoderFails, Happens, Marks, Shows
  <2>2. SessionsTyped' /\ SnapshotTyped' /\ SnapshotIs'
    BY <1>22, SnapshotMoves DEF SessionsTyped, SnapshotTyped, SnapshotIs, DecoderFails
  <2>3. DecodersTyped'
    BY <1>22 DEF DecoderFails, DecodersTyped, ThreadStates, DecodersTyped
  <2>4. EventsTyped'
    BY <1>22, EventsMove DEF DecoderFails, EventsTyped
  <2> QED
    BY <2>1, <2>2, <2>3, <2>4 DEF RequestTyped, GivenTyped, KnownTyped, StopTyped,
       SessionsTyped, ListsTyped, CaptureTyped, SourcesTyped, LoopsTyped, ExecutorsTyped,
       DecodersTyped, QueuesTyped, HandlingTyped, SnapshotTyped, SnapshotIs, EventsTyped,
       OverlapTyped
<1>23. CASE UNCHANGED sessionVars
  BY <1>23 DEF RequestTyped, GivenTyped, KnownTyped, StopTyped, SessionsTyped, ListsTyped,
     CaptureTyped, SourcesTyped, LoopsTyped, ExecutorsTyped, DecodersTyped, QueuesTyped,
     HandlingTyped, SnapshotTyped, SnapshotIs, EventsTyped, OverlapTyped, sessionVars,
     threadVars
<1> QED
  BY <1>1, <1>2, <1>3, <1>4, <1>5, <1>6, <1>7, <1>8, <1>9, <1>10, <1>11, <1>12, <1>13, <1>14,
     <1>15, <1>16, <1>17, <1>18, <1>19, <1>20, <1>21, <1>22, <1>23 DEF SessionNext, StartStep,
     StopStep, CaptureStep, LoopStep, DecoderStep

\* What a step does to the places.
Settles == UNCHANGED <<captured, chunks, toDecode, Hands, listed>>
MoveHears(r) ==
  /\ events' = events + 1 /\ events' \in 1..SessionEvents /\ capture[r] = "on"
  /\ captured' = PutIn(captured, r, <<r, events'>>)
  /\ UNCHANGED <<chunks, toDecode, Hands, listed>>
MoveReads(q, e) ==
  /\ captured[q] # <<>> /\ captured' = TakeFrom(captured, q)
  /\ chunks' = AddTo(chunks, e, Head(captured[q]))
  /\ UNCHANGED <<events, toDecode, Hands, listed>>
MoveCancels(e) ==
  /\ chunks' = [r \in Starts |-> IF r = e THEN {} ELSE chunks[r]]
  /\ UNCHANGED <<events, captured, toDecode, Hands, listed>>
MoveDrops(e, c) ==
  /\ c \in chunks[e] /\ chunks' = DropFrom(chunks, e, c)
  /\ UNCHANGED <<events, captured, toDecode, Hands, listed>>
MoveSubmits(e, c, q) ==
  /\ c \in chunks[e] /\ chunks' = DropFrom(chunks, e, c)
  /\ toDecode' = PutIn(toDecode, q, c)
  /\ UNCHANGED <<events, captured, Hands, listed>>
MoveDecodes(r) ==
  /\ toDecode[r] # <<>> /\ toDecode' = TakeFrom(toDecode, r)
  /\ Hands[r] = {} /\ Hands' = AddTo(Hands, r, Head(toDecode[r]))
  /\ UNCHANGED <<events, captured, chunks, listed>>
MoveLists(r, c, q) ==
  /\ c \in Hands[r] /\ Hands[r] = {c} /\ Hands' = DropFrom(Hands, r, c)
  /\ listed' = PutIn(listed, q, c)
  /\ UNCHANGED <<events, captured, chunks, toDecode>>

\* The steps that move what is heard.
LEMMA HearsMoves ==
  ASSUME SessionIInv, NEW r \in Starts, Captures(r)
  PROVE  MoveHears(r)
BY EventsMove DEF SessionIInv, SessionTyped, Captures, MoveHears, PutIn, Hands

\* The loop reads from the source in the fields for the executor in the fields.
LEMMA ReadsMoves ==
  ASSUME SessionIInv, NEW r \in Starts, LoopReads(r)
  PROVE  /\ known["source"] \in Starts /\ known["executor"] \in Starts \ shut
         /\ MoveReads(known["source"], known["executor"])
<1>1. known["source"] \in Starts /\ known["executor"] \in Starts \ shut
  BY SessionShape DEF LoopReads, SessionIInv
<1> QED
  BY <1>1 DEF LoopReads, MoveReads, TakeFrom, AddTo, Hands

\* A chunk that is processed is dropped, or submitted to the transcriber in the fields.
LEMMA ChunkMoves ==
  ASSUME SessionIInv, NEW r \in Starts, NEW c \in Blocks, ProcessChunk(r, c)
  PROVE  \/ MoveDrops(r, c)
         \/ known["transcriber"] \in Starts /\ MoveSubmits(r, c, known["transcriber"])
BY SessionShape DEF ProcessChunk, MoveDrops, MoveSubmits, PutIn, DropFrom, Hands, SessionIInv

\* A chunk that is decoded is in its worker's hands.
LEMMA DecodesMoves ==
  ASSUME SessionIInv, NEW r \in Starts, Decodes(r)
  PROVE  decoder[r] = "on" /\ MoveDecodes(r)
<1>1. toDecode[r] # <<>> /\ Head(toDecode[r]) \in Blocks
  BY SequencesMove DEF Decodes, SessionIInv, SessionTyped, QueuesTyped
<1>2. Hands[r] = {}
  BY DEF Decodes, Hands, Idle
<1>3. /\ handling \in [Starts -> Handlings]
      /\ handling' = [handling EXCEPT ![r] = [at |-> "decoded", chunk |-> Head(toDecode[r])]]
  BY DEF Decodes, SessionIInv, SessionTyped, HandlingTyped
<1>4. Hands'[r] = {Head(toDecode[r])} /\ \A q \in Starts \ {r} : Hands'[q] = Hands[q]
  BY <1>1, <1>3 DEF Hands
<1>5. Hands' = AddTo(Hands, r, Head(toDecode[r]))
  <2>1. Hands \in [Starts -> SUBSET Blocks] /\ Hands' \in [Starts -> SUBSET Blocks]
    BY DEF Hands
  <2> QED
    BY <1>2, <1>4, <2>1 DEF AddTo
<1> QED
  BY <1>1, <1>2, <1>5 DEF Decodes, MoveDecodes, TakeFrom

\* A segment is listed in the session in the fields.
LEMMA ListsMoves ==
  ASSUME SessionIInv, NEW r \in Starts, Lists(r)
  PROVE  /\ known["session"] \in Starts /\ handling[r].chunk \in Blocks
         /\ MoveLists(r, handling[r].chunk, known["session"])
<1>1. handling[r].at = "decoded" /\ handling[r].chunk \in Blocks
  BY HandlingIs DEF Lists, SessionIInv, SessionTyped
<1>2. known["session"] \in Starts
  BY <1>1, SessionShape DEF SessionIInv, NothingYet, Idle
<1>3. Hands[r] = {handling[r].chunk}
  BY <1>1 DEF Hands
<1>4. /\ handling \in [Starts -> Handlings]
      /\ handling' = [handling EXCEPT ![r] = [at |-> "listed", chunk |-> handling[r].chunk]]
  BY DEF Lists, SessionIInv, SessionTyped, HandlingTyped
<1>5. Hands'[r] = {} /\ \A q \in Starts \ {r} : Hands'[q] = Hands[q]
  BY <1>1, <1>4 DEF Hands
<1>6. Hands' = DropFrom(Hands, r, handling[r].chunk)
  <2>1. Hands \in [Starts -> SUBSET Blocks] /\ Hands' \in [Starts -> SUBSET Blocks]
    BY DEF Hands
  <2> QED
    BY <1>3, <1>5, <2>1 DEF DropFrom
<1> QED
  BY <1>1, <1>2, <1>3, <1>6 DEF Lists, MoveLists, PutIn

\* A segment that was listed is in nobody's hands.
LEMMA HandsStay ==
  ASSUME HandlingTyped, NEW r \in Starts, ShowsSegment(r) \/ ShowsState(r)
  PROVE  Hands' = Hands
<1>1. handling[r].at \in {"listed", "shown"} /\ handling'[r].at \in {"shown", "idle"}
  BY DEF ShowsSegment, ShowsState, HandlingTyped, Idle
<1>2. \A q \in Starts \ {r} : handling'[q] = handling[q]
  BY DEF ShowsSegment, ShowsState, HandlingTyped
<1> QED
  BY <1>1, <1>2 DEF Hands

\* The other steps move nothing.
MovesOne ==
  \/ Settles
  \/ \E r \in Starts : MoveHears(r) \/ MoveCancels(r) \/ (MoveDecodes(r) /\ decoder[r] = "on")
  \/ \E r \in Starts, c \in Blocks : MoveDrops(r, c)
  \/ known["source"] \in Starts /\ known["executor"] \in Starts \ shut
       /\ MoveReads(known["source"], known["executor"])
  \/ \E r \in Starts, c \in Blocks : known["transcriber"] \in Starts
       /\ MoveSubmits(r, c, known["transcriber"])
  \/ \E r \in Starts, c \in Blocks : known["session"] \in Starts
       /\ MoveLists(r, c, known["session"])

\* A step moves at most one block, or drops what waits.
LEMMA NextMoves == SessionIInv /\ [SessionNext]_sessionVars => MovesOne
<1> SUFFICES ASSUME SessionIInv, [SessionNext]_sessionVars PROVE MovesOne
  OBVIOUS
<1>1. ASSUME NEW r \in Starts, StartChecks(r) PROVE MovesOne
  BY <1>1 DEF StartChecks, Begins, GoesTo, Happens, threadVars, Settles, Hands, MovesOne
<1>2. ASSUME NEW r \in Starts, StartCreates(r) PROVE MovesOne
  BY <1>2 DEF StartCreates, GoesTo, threadVars, Settles, Hands, MovesOne
<1>3. ASSUME NEW r \in Starts, StartAborts(r) PROVE MovesOne
  BY <1>3 DEF StartAborts, GoesTo, Happens, threadVars, Settles, Hands, MovesOne
<1>4. ASSUME NEW r \in Starts, StartFails(r) PROVE MovesOne
  BY <1>4 DEF StartFails, GoesTo, Happens, Marks, Shows, threadVars, Settles, Hands, MovesOne
<1>5. ASSUME NEW r \in Starts, StartLaunches(r) PROVE MovesOne
  BY <1>5 DEF StartLaunches, GoesTo, Settles, Hands, MovesOne
<1>6. ASSUME NEW r \in Starts, StartMarks(r) PROVE MovesOne
  BY <1>6 DEF StartMarks, GoesTo, Marks, Shows, threadVars, Settles, Hands, MovesOne
<1>7. ASSUME NEW r \in Starts, StartReturns(r) PROVE MovesOne
  BY <1>7 DEF StartReturns, GoesTo, Shows, threadVars, Settles, Hands, MovesOne
<1>8. ASSUME NEW s \in Stops, StopBegin(s) PROVE MovesOne
  BY <1>8 DEF StopBegin, Begins, GoesTo, Happens, threadVars, Settles, Hands, MovesOne
<1>9. ASSUME NEW s \in Stops, StopSource(s) PROVE MovesOne
  BY <1>9 DEF StopSource, GoesTo, Told, Settles, Hands, MovesOne
<1>10. ASSUME NEW s \in Stops, StopTranscriber(s) PROVE MovesOne
  BY <1>10 DEF StopTranscriber, GoesTo, Told, Settles, Hands, MovesOne
<1>11. ASSUME NEW s \in Stops, StopExecutor(s) PROVE MovesOne
  <2>1. CASE known["executor"] \in Starts
    BY <1>11, <2>1 DEF StopExecutor, MoveCancels, Hands, MovesOne
  <2>2. CASE known["executor"] = NoStart
    <3>1. chunks' = chunks
      BY <1>11, <2>2, SessionShape DEF StopExecutor, SessionIInv, SessionTyped, ExecutorsTyped
    <3> QED
      BY <1>11, <3>1 DEF StopExecutor, Settles, Hands, MovesOne
  <2> QED
    BY <2>1, <2>2, SessionShape DEF SessionIInv
<1>12. ASSUME NEW s \in Stops, StopMarks(s) PROVE MovesOne
  BY <1>12 DEF StopMarks, GoesTo, Marks, Shows, threadVars, Settles, Hands, MovesOne
<1>13. ASSUME NEW r \in Starts, Captures(r) PROVE MovesOne
  BY <1>13, HearsMoves DEF MovesOne
<1>14. ASSUME NEW r \in Starts, CaptureFails(r) PROVE MovesOne
  BY <1>14 DEF CaptureFails, Happens, Marks, Shows, Settles, Hands, MovesOne
<1>15. ASSUME NEW r \in Starts, LoopReads(r) PROVE MovesOne
  BY <1>15, ReadsMoves DEF MovesOne
<1>16. ASSUME NEW r \in Starts, LoopEnds(r) PROVE MovesOne
  BY <1>16 DEF LoopEnds, Settles, Hands, MovesOne
<1>17. ASSUME NEW r \in Starts, NEW c \in Blocks, ProcessChunk(r, c) PROVE MovesOne
  BY <1>17, ChunkMoves DEF MovesOne
<1>18. ASSUME NEW r \in Starts, Decodes(r) PROVE MovesOne
  BY <1>18, DecodesMoves DEF MovesOne
<1>19. ASSUME NEW r \in Starts, Lists(r) PROVE MovesOne
  BY <1>19, ListsMoves DEF MovesOne
<1>20. ASSUME NEW r \in Starts, ShowsSegment(r) PROVE MovesOne
  BY <1>20, HandsStay DEF ShowsSegment, Settles, MovesOne, SessionIInv, SessionTyped
<1>21. ASSUME NEW r \in Starts, ShowsState(r) PROVE MovesOne
  BY <1>21, HandsStay DEF ShowsState, Settles, MovesOne, SessionIInv, SessionTyped
<1>22. ASSUME NEW r \in Starts, DecoderFails(r) PROVE MovesOne
  BY <1>22 DEF DecoderFails, Happens, Marks, Shows, Settles, Hands, MovesOne
<1>23. CASE UNCHANGED sessionVars
  BY <1>23 DEF sessionVars, threadVars, Settles, Hands, MovesOne
<1> QED
  BY <1>1, <1>2, <1>3, <1>4, <1>5, <1>6, <1>7, <1>8, <1>9, <1>10, <1>11, <1>12, <1>13, <1>14,
     <1>15, <1>16, <1>17, <1>18, <1>19, <1>20, <1>21, <1>22, <1>23 DEF SessionNext, StartStep,
     StopStep, CaptureStep, LoopStep, DecoderStep

\* What a move does to what is heard.
LEMMA MovesKeepPlaces ==
  ASSUME SessionIInv, MovesOne
  PROVE  /\ PlacesDiffer'
         /\ \A b \in Heard' : b \in Heard \/ \E r \in Starts : b = <<r, events'>> /\ MoveHears(r)
<1> DEFINE Goal == /\ PlacesDiffer'
                   /\ \A b \in Heard' : b \in Heard \/ \E r \in Starts : b = <<r, events'>>
                        /\ MoveHears(r)
<1>0. /\ captured \in [Starts -> Seq(Blocks)] /\ toDecode \in [Starts -> Seq(Blocks)]
      /\ listed \in [Starts -> Seq(Blocks)] /\ chunks \in [Starts -> SUBSET Blocks]
      /\ Hands \in [Starts -> SUBSET Blocks]
      /\ All(captured) \subseteq Blocks /\ All(toDecode) \subseteq Blocks
           /\ All(listed) \subseteq Blocks
      /\ AllOf(chunks) \subseteq Blocks /\ AllOf(Hands) \subseteq Blocks
  BY DEF SessionIInv, SessionTyped, SourcesTyped, QueuesTyped, ListsTyped, ExecutorsTyped,
     Hands, All, AllOf
<1>9. /\ Once(captured) /\ OnceOf(chunks) /\ Once(toDecode) /\ OnceOf(Hands) /\ Once(listed)
      /\ All(captured) \cap AllOf(chunks) = {}
      /\ (All(captured) \cup AllOf(chunks)) \cap All(toDecode) = {}
      /\ (All(captured) \cup AllOf(chunks) \cup All(toDecode)) \cap AllOf(Hands) = {}
      /\ (All(captured) \cup AllOf(chunks) \cup All(toDecode) \cup AllOf(Hands)) \cap All(listed) = {}
  BY DEF SessionIInv, PlacesDiffer
<1>1. CASE Settles
  BY <1>1 DEF Settles, Heard, PlacesDiffer, SessionIInv
<1>2. ASSUME NEW r \in Starts, MoveHears(r) PROVE Goal
  <2> DEFINE b == <<r, events'>>
  <2>1. b \in Blocks /\ b[2] = events + 1 /\ events \in Nat
    BY <1>2, SessionShape DEF MoveHears, SessionIInv
  <2>2. b \notin Heard
    BY <2>1 DEF HeardIsCounted, SessionIInv
  <2>3. All(captured') = All(captured) \cup {b} /\ Once(captured')
    <3>1. captured' = PutIn(captured, r, b)
      BY <1>2 DEF MoveHears
    <3>2. b \notin All(captured)
      BY <2>2 DEF Heard
    <3>3. /\ All(PutIn(captured, r, b)) = All(captured) \cup {b}
          /\ Once(captured) /\ b \notin All(captured) => Once(PutIn(captured, r, b))
      BY ZenonT(60), <1>0, <2>1, FamilyGrows
    <3> QED
      BY <1>9, <3>1, <3>2, <3>3
  <2>4. UNCHANGED <<chunks, toDecode, Hands, listed>>
    BY <1>2 DEF MoveHears
  <2>5. PlacesDiffer'
    BY <1>9, <2>2, <2>3, <2>4 DEF Heard, PlacesDiffer
  <2>6. Heard' = Heard \cup {b}
    BY <2>3, <2>4 DEF Heard
  <2> QED
    BY <1>2, <2>5, <2>6
<1>3. ASSUME NEW q \in Starts, NEW e \in Starts, MoveReads(q, e) PROVE Goal
  <2> DEFINE b == Head(captured[q])
  <2>1. /\ All(captured') = All(captured) \ {b} /\ Once(captured')
        /\ b \in All(captured) /\ b \in Blocks
    <3>1. captured' = TakeFrom(captured, q) /\ captured[q] # <<>>
      BY <1>3 DEF MoveReads
    <3> QED
      BY <1>0, <1>9, <3>1, FamilyShrinks
  <2>2. AllOf(chunks') = AllOf(chunks) \cup {b} /\ OnceOf(chunks')
    <3>1. chunks' = AddTo(chunks, e, b)
      BY <1>3 DEF MoveReads
    <3> QED
      BY <1>0, <1>9, <3>1, <2>1, SetsGrow
  <2>3. UNCHANGED <<toDecode, Hands, listed>>
    BY <1>3 DEF MoveReads
  <2>4. PlacesDiffer'
    BY <1>9, <2>1, <2>2, <2>3 DEF PlacesDiffer
  <2>5. Heard' = Heard
    BY <2>1, <2>2, <2>3 DEF Heard
  <2> QED
    BY <2>4, <2>5
<1>4. ASSUME NEW e \in Starts, MoveCancels(e) PROVE Goal
  <2>0. \A r \in Starts : chunks'[r] \subseteq chunks[r]
    BY <1>4 DEF MoveCancels
  <2>1. AllOf(chunks') \subseteq AllOf(chunks) /\ OnceOf(chunks')
    BY <1>9, <2>0 DEF AllOf, OnceOf
  <2>2. UNCHANGED <<captured, toDecode, Hands, listed>>
    BY <1>4 DEF MoveCancels
  <2>3. PlacesDiffer'
    BY <1>9, <2>1, <2>2 DEF PlacesDiffer
  <2>4. Heard' \subseteq Heard
    BY <2>1, <2>2 DEF Heard
  <2> QED
    BY <2>3, <2>4
<1>5. ASSUME NEW e \in Starts, NEW c \in Blocks, MoveDrops(e, c) PROVE Goal
  <2>1. AllOf(chunks') = AllOf(chunks) \ {c} /\ OnceOf(chunks')
    <3>1. chunks' = DropFrom(chunks, e, c) /\ c \in chunks[e]
      BY <1>5 DEF MoveDrops
    <3> QED
      BY <1>0, <1>9, <3>1, SetsShrink
  <2>2. UNCHANGED <<captured, toDecode, Hands, listed>>
    BY <1>5 DEF MoveDrops
  <2>3. PlacesDiffer'
    BY <1>9, <2>1, <2>2 DEF PlacesDiffer
  <2>4. Heard' \subseteq Heard
    BY <2>1, <2>2 DEF Heard
  <2> QED
    BY <2>3, <2>4
<1>6. ASSUME NEW e \in Starts, NEW c \in Blocks, NEW q \in Starts, MoveSubmits(e, c, q)
      PROVE  Goal
  <2>1. AllOf(chunks') = AllOf(chunks) \ {c} /\ OnceOf(chunks') /\ c \in AllOf(chunks)
    <3>1. chunks' = DropFrom(chunks, e, c) /\ c \in chunks[e]
      BY <1>6 DEF MoveSubmits
    <3> QED
      BY <1>0, <1>9, <3>1, SetsShrink
  <2>2. All(toDecode') = All(toDecode) \cup {c} /\ Once(toDecode')
    <3>1. toDecode' = PutIn(toDecode, q, c)
      BY <1>6 DEF MoveSubmits
    <3> QED
      BY <1>0, <1>9, <3>1, <2>1, FamilyGrows
  <2>3. UNCHANGED <<captured, Hands, listed>>
    BY <1>6 DEF MoveSubmits
  <2>4. PlacesDiffer'
    BY <1>9, <2>1, <2>2, <2>3 DEF PlacesDiffer
  <2>5. Heard' = Heard
    BY <2>1, <2>2, <2>3 DEF Heard
  <2> QED
    BY <2>4, <2>5
<1>7. ASSUME NEW r \in Starts, MoveDecodes(r) PROVE Goal
  <2> DEFINE b == Head(toDecode[r])
  <2>1. /\ All(toDecode') = All(toDecode) \ {b} /\ Once(toDecode')
        /\ b \in All(toDecode) /\ b \in Blocks
    <3>1. toDecode' = TakeFrom(toDecode, r) /\ toDecode[r] # <<>>
      BY <1>7 DEF MoveDecodes
    <3> QED
      BY <1>0, <1>9, <3>1, FamilyShrinks
  <2>2. AllOf(Hands') = AllOf(Hands) \cup {b} /\ OnceOf(Hands')
    <3>1. Hands' = AddTo(Hands, r, b)
      BY <1>7 DEF MoveDecodes
    <3>2. b \notin AllOf(Hands)
      BY <1>9, <2>1
    <3> QED
      BY ZenonT(60), <1>0, <1>9, <3>1, <3>2, <2>1, SetsGrow
  <2>3. UNCHANGED <<captured, chunks, listed>>
    BY <1>7 DEF MoveDecodes
  <2>4. PlacesDiffer'
    BY <1>9, <2>1, <2>2, <2>3 DEF PlacesDiffer
  <2>5. Heard' = Heard
    BY <2>1, <2>2, <2>3 DEF Heard
  <2> QED
    BY <2>4, <2>5
<1>8. ASSUME NEW r \in Starts, NEW c \in Blocks, NEW q \in Starts, MoveLists(r, c, q) PROVE Goal
  <2>1. AllOf(Hands') = AllOf(Hands) \ {c} /\ OnceOf(Hands') /\ c \in AllOf(Hands)
    <3>1. Hands' = DropFrom(Hands, r, c) /\ c \in Hands[r]
      BY <1>8 DEF MoveLists
    <3> QED
      BY <1>0, <1>9, <3>1, SetsShrink
  <2>2. All(listed') = All(listed) \cup {c} /\ Once(listed')
    <3>1. listed' = PutIn(listed, q, c)
      BY <1>8 DEF MoveLists
    <3>2. c \notin All(listed)
      BY <1>9, <2>1
    <3>3. /\ All(PutIn(listed, q, c)) = All(listed) \cup {c}
          /\ Once(listed) /\ c \notin All(listed) => Once(PutIn(listed, q, c))
      <4>1. listed \in [Starts -> Seq(Blocks)]
        BY <1>0
      <4> HIDE DEF Goal
      <4> QED
        BY <4>1, FamilyGrows, SMTT(30)
    <3> QED
      BY <1>9, <3>1, <3>2, <3>3
  <2>3. UNCHANGED <<captured, chunks, toDecode>>
    BY <1>8 DEF MoveLists
  <2>4. PlacesDiffer'
    BY <1>9, <2>1, <2>2, <2>3 DEF PlacesDiffer
  <2>5. Heard' = Heard
    BY <2>1, <2>2, <2>3 DEF Heard
  <2> QED
    BY <2>4, <2>5
<1> QED
  BY <1>1, <1>2, <1>3, <1>4, <1>5, <1>6, <1>7, <1>8 DEF MovesOne

\* The types of what requests and threads share, as functions.
LEMMA SharedShape ==
  ASSUME SessionIInv
  PROVE  /\ request \in [Starts \cup Stops -> Done \cup {"checked", "loading", "launched",
              "marked",
                           "source", "transcriber", "executor", "loop"}]
         /\ known \in [Fields -> Starts \cup {NoStart}]
         /\ sessionIs \in [Starts -> {"none", "starting", "running", "error", "stopped"}]
         /\ capture \in [Starts -> ThreadStates] /\ decoder \in [Starts -> ThreadStates]
         /\ shut \subseteq Starts
BY DEF SessionIInv, SessionTyped, RequestTyped, KnownTyped, SessionsTyped, CaptureTyped,
   DecodersTyped, ExecutorsTyped

\* A capture that has run is never as it was before, and events are only counted.
CapturedSince ==
  /\ \A r \in Starts : capture[r] # "off" => capture'[r] # "off"
  /\ events' >= events

\* So it is after every step.
LEMMA CaptureStays == SessionIInv /\ [SessionNext]_sessionVars => CapturedSince
<1> SUFFICES ASSUME SessionIInv, [SessionNext]_sessionVars PROVE CapturedSince
  OBVIOUS
<1> USE DEF CapturedSince
<1>0. capture \in [Starts -> ThreadStates] /\ known \in [Fields -> Starts \cup {NoStart}]
        /\ events \in Nat
      /\ "source" \in Fields
  BY SharedShape, SessionShape DEF SessionIInv
<1>1. ASSUME NEW r \in Starts, StartChecks(r) PROVE CapturedSince
  BY <1>1, <1>0 DEF StartChecks, Begins, GoesTo, Happens, threadVars
<1>2. ASSUME NEW r \in Starts, StartCreates(r) PROVE CapturedSince
  BY <1>2, <1>0 DEF StartCreates, GoesTo, threadVars
<1>3. ASSUME NEW r \in Starts, StartAborts(r) PROVE CapturedSince
  BY <1>3, <1>0 DEF StartAborts, GoesTo, Happens, threadVars
<1>4. ASSUME NEW r \in Starts, StartFails(r) PROVE CapturedSince
  BY <1>4, <1>0 DEF StartFails, GoesTo, Happens, Marks, Shows, threadVars
<1>5. ASSUME NEW r \in Starts, StartLaunches(r) PROVE CapturedSince
  BY <1>5, <1>0 DEF StartLaunches, GoesTo
<1>6. ASSUME NEW r \in Starts, StartMarks(r) PROVE CapturedSince
  BY <1>6, <1>0 DEF StartMarks, GoesTo, Marks, Shows, threadVars
<1>7. ASSUME NEW r \in Starts, StartReturns(r) PROVE CapturedSince
  BY <1>7, <1>0 DEF StartReturns, GoesTo, Shows, threadVars
<1>8. ASSUME NEW s \in Stops, StopBegin(s) PROVE CapturedSince
  BY <1>8, <1>0 DEF StopBegin, Begins, GoesTo, Happens, threadVars
<1>9. ASSUME NEW s \in Stops, StopSource(s) PROVE CapturedSince
  BY <1>9, <1>0 DEF StopSource, GoesTo, Told
<1>10. ASSUME NEW s \in Stops, StopTranscriber(s) PROVE CapturedSince
  BY <1>10, <1>0 DEF StopTranscriber, GoesTo, Told
<1>11. ASSUME NEW s \in Stops, StopExecutor(s) PROVE CapturedSince
  BY <1>11, <1>0 DEF StopExecutor, GoesTo
<1>12. ASSUME NEW s \in Stops, StopMarks(s) PROVE CapturedSince
  BY <1>12, <1>0 DEF StopMarks, GoesTo, Marks, Shows, threadVars
<1>13. ASSUME NEW r \in Starts, Captures(r) PROVE CapturedSince
  BY <1>13, <1>0 DEF Captures, Happens
<1>14. ASSUME NEW r \in Starts, CaptureFails(r) PROVE CapturedSince
  BY <1>14, <1>0 DEF CaptureFails, Happens, Marks, Shows
<1>15. ASSUME NEW r \in Starts, LoopReads(r) PROVE CapturedSince
  BY <1>15, <1>0 DEF LoopReads
<1>16. ASSUME NEW r \in Starts, LoopEnds(r) PROVE CapturedSince
  BY <1>16, <1>0 DEF LoopEnds
<1>17. ASSUME NEW r \in Starts, NEW c \in Blocks, ProcessChunk(r, c) PROVE CapturedSince
  BY <1>17, <1>0 DEF ProcessChunk
<1>18. ASSUME NEW r \in Starts, Decodes(r) PROVE CapturedSince
  BY <1>18, <1>0 DEF Decodes
<1>19. ASSUME NEW r \in Starts, Lists(r) PROVE CapturedSince
  BY <1>19, <1>0 DEF Lists
<1>20. ASSUME NEW r \in Starts, ShowsSegment(r) PROVE CapturedSince
  BY <1>20, <1>0 DEF ShowsSegment
<1>21. ASSUME NEW r \in Starts, ShowsState(r) PROVE CapturedSince
  BY <1>21, <1>0 DEF ShowsState, Shows
<1>22. ASSUME NEW r \in Starts, DecoderFails(r) PROVE CapturedSince
  BY <1>22, <1>0 DEF DecoderFails, Happens, Marks, Shows
<1>23. CASE UNCHANGED sessionVars
  BY <1>23, <1>0 DEF sessionVars, threadVars
<1> QED
  BY <1>1, <1>2, <1>3, <1>4, <1>5, <1>6, <1>7, <1>8, <1>9, <1>10, <1>11, <1>12, <1>13, <1>14,
     <1>15, <1>16, <1>17, <1>18, <1>19, <1>20, <1>21, <1>22, <1>23 DEF SessionNext, StartStep,
     StopStep, CaptureStep, LoopStep, DecoderStep

\* The status of a session that is marked.
LEMMA MarksOne ==
  ASSUME SessionIInv, NEW new, Marks(new)
  PROVE  \A r \in Starts : sessionIs'[r] = IF r = known["session"] THEN new ELSE sessionIs[r]
BY SharedShape, SessionShape DEF SessionIInv, Marks

\* A block stays at one place, where it is once.
LEMMA SessionHeardNext ==
  SessionIInv /\ [SessionNext]_sessionVars => PlacesDiffer' /\ HeardIsCounted' /\ HeardIsCaptured'
<1> SUFFICES ASSUME SessionIInv, [SessionNext]_sessionVars
             PROVE  PlacesDiffer' /\ HeardIsCounted' /\ HeardIsCaptured'
  OBVIOUS
<1>1. PlacesDiffer'
  BY NextMoves, MovesKeepPlaces
<1>2. \A b \in Heard' : b \in Heard \/ \E r \in Starts : b = <<r, events'>> /\ MoveHears(r)
  BY NextMoves, MovesKeepPlaces
<1>3. ASSUME NEW b \in Heard, b \in Heard' PROVE b[2] <= events' /\ capture'[b[1]] # "off"
  <2>1. b \in Blocks
    BY DEF Heard, All, AllOf
  <2>2. b[1] \in Starts /\ b[2] \in Nat /\ b[2] <= events /\ capture[b[1]] # "off"
    BY <2>1, SessionShape DEF SessionIInv, HeardIsCounted, HeardIsCaptured
  <2>3. events \in Nat /\ events' \in Nat /\ events' >= events
    BY CaptureStays, SessionTypeNext DEF CapturedSince, SessionIInv, SessionTyped, EventsTyped
  <2> QED
    BY <2>2, <2>3, CaptureStays DEF CapturedSince
<1>4. ASSUME NEW r \in Starts, MoveHears(r)
      PROVE  /\ <<r, events'>>[1] = r /\ <<r, events'>>[2] = events' /\ events' \in Nat
             /\ capture'[r] # "off"
  BY <1>4, CaptureStays DEF CapturedSince, MoveHears
<1>5. HeardIsCounted' /\ HeardIsCaptured'
  BY <1>2, <1>3, <1>4 DEF HeardIsCounted, HeardIsCaptured
<1> QED
  BY <1>1, <1>5, <1>5

\* A source queues its own blocks.
LEMMA SessionSourcesNext == SessionIInv /\ [SessionNext]_sessionVars => SourcesAreTheirs'
<1> SUFFICES ASSUME SessionIInv, [SessionNext]_sessionVars PROVE SourcesAreTheirs'
  OBVIOUS
<1>1. captured \in [Starts -> Seq(Blocks)] /\ SourcesAreTheirs
  BY DEF SessionIInv, SessionTyped, SourcesTyped
<1>2. CASE captured' = captured
  BY <1>1, <1>2 DEF SourcesAreTheirs
<1>3. ASSUME NEW r \in Starts, MoveHears(r) PROVE SourcesAreTheirs'
  <2> DEFINE b == <<r, events'>>
  <2>1. b \in Blocks /\ b[1] = r
    BY <1>3, SessionShape DEF MoveHears, SessionIInv
  <2>2. /\ Len(captured'[r]) = Len(captured[r]) + 1 /\ Len(captured[r]) \in Nat
        /\ \A i \in 1..Len(captured[r]) : captured'[r][i] = captured[r][i]
        /\ captured'[r][Len(captured[r]) + 1] = b
        /\ \A q \in Starts \ {r} : captured'[q] = captured[q]
    BY <1>1, <1>3, <2>1, SequencesMove DEF MoveHears, PutIn
  <2>3. ASSUME NEW i \in 1..Len(captured'[r]) PROVE captured'[r][i][1] = r
    <3>1. i \in 1..Len(captured[r]) \/ i = Len(captured[r]) + 1
      BY <2>2
    <3>2. CASE i \in 1..Len(captured[r])
      BY <3>2, <2>2, <1>1 DEF SourcesAreTheirs
    <3>3. CASE i = Len(captured[r]) + 1
      BY <3>3, <2>1, <2>2
    <3> QED
      BY <3>1, <3>2, <3>3
  <2> QED
    BY <1>1, <2>2, <2>3 DEF SourcesAreTheirs
<1>4. ASSUME NEW q \in Starts, NEW e \in Starts, MoveReads(q, e) PROVE SourcesAreTheirs'
  <2>1. /\ Len(captured'[q]) = Len(captured[q]) - 1 /\ Len(captured[q]) \in Nat
        /\ \A i \in 1..Len(captured[q]) - 1 : captured'[q][i] = captured[q][i + 1]
        /\ \A p \in Starts \ {q} : captured'[p] = captured[p]
    <3>1. captured[q] \in Seq(Blocks) /\ captured[q] # <<>> /\ captured' = TakeFrom(captured, q)
      BY <1>1, <1>4 DEF MoveReads
    <3>2. \E b \in Blocks : TRUE
      BY <3>1, SequencesMove, Head(captured[q]) \in Blocks
    <3> QED
      BY <1>1, <3>1, <3>2, SequencesMove DEF TakeFrom
  <2>2. ASSUME NEW i \in 1..Len(captured'[q]) PROVE captured'[q][i][1] = q
    <3>1. i \in 1..Len(captured[q]) - 1 /\ i + 1 \in 1..Len(captured[q])
      BY <2>1
    <3> QED
      BY <3>1, <2>1, <1>1 DEF SourcesAreTheirs
  <2> QED
    BY <1>1, <2>1, <2>2 DEF SourcesAreTheirs
<1> QED
  BY <1>2, <1>3, <1>4, NextMoves
  DEF MovesOne, Settles, MoveCancels, MoveDecodes, MoveDrops, MoveSubmits, MoveLists

\* Once a session is made there is one.
LEMMA SessionNothingNext == SessionIInv /\ [SessionNext]_sessionVars => NothingYet'
<1> SUFFICES ASSUME SessionIInv, [SessionNext]_sessionVars PROVE NothingYet'
  OBVIOUS
<1> USE DEF NothingYet, GivenIsMade, SnapshotCatchesUp
<1>0. /\ NothingYet /\ handling \in [Starts -> Handlings] /\ NoStart \notin Starts
      /\ known \in [Fields -> Starts \cup {NoStart}] /\ "session" \in Fields
      /\ request \in [Starts \cup Stops -> Done \cup {"checked", "loading", "launched", "marked",
                       "source", "transcriber", "executor", "loop"}]
      /\ decoder \in [Starts -> ThreadStates] /\ Starts \cap Stops = {}
  BY SharedShape, SessionShape DEF SessionIInv, SessionTyped, HandlingTyped
<1>1. ASSUME NEW r \in Starts, StartChecks(r) PROVE NothingYet'
  BY <1>1, <1>0 DEF StartChecks, Begins, GoesTo, Happens, threadVars
<1>2. ASSUME NEW r \in Starts, StartCreates(r) PROVE NothingYet'
  BY <1>2, <1>0 DEF StartCreates, GoesTo, threadVars
<1>3. ASSUME NEW r \in Starts, StartAborts(r) PROVE NothingYet'
  BY <1>3, <1>0 DEF StartAborts, GoesTo, Happens, threadVars
<1>4. ASSUME NEW r \in Starts, StartFails(r) PROVE NothingYet'
  BY <1>4, <1>0 DEF StartFails, GoesTo, Happens, Marks, Shows, threadVars
<1>5. ASSUME NEW r \in Starts, StartLaunches(r) PROVE NothingYet'
  BY <1>5, <1>0 DEF StartLaunches, GoesTo
<1>6. ASSUME NEW r \in Starts, StartMarks(r) PROVE NothingYet'
  BY <1>6, <1>0 DEF StartMarks, GoesTo, Marks, Shows, threadVars
<1>7. ASSUME NEW r \in Starts, StartReturns(r) PROVE NothingYet'
  BY <1>7, <1>0 DEF StartReturns, GoesTo, Shows, threadVars
<1>8. ASSUME NEW s \in Stops, StopBegin(s) PROVE NothingYet'
  BY <1>8, <1>0 DEF StopBegin, Begins, GoesTo, Happens, threadVars
<1>9. ASSUME NEW s \in Stops, StopSource(s) PROVE NothingYet'
  BY <1>9, <1>0 DEF StopSource, GoesTo, Told
<1>10. ASSUME NEW s \in Stops, StopTranscriber(s) PROVE NothingYet'
  BY <1>10, <1>0 DEF StopTranscriber, GoesTo, Told
<1>11. ASSUME NEW s \in Stops, StopExecutor(s) PROVE NothingYet'
  BY <1>11, <1>0 DEF StopExecutor, GoesTo
<1>12. ASSUME NEW s \in Stops, StopMarks(s) PROVE NothingYet'
  BY <1>12, <1>0 DEF StopMarks, GoesTo, Marks, Shows, threadVars
<1>13. ASSUME NEW r \in Starts, Captures(r) PROVE NothingYet'
  BY <1>13, <1>0 DEF Captures, Happens
<1>14. ASSUME NEW r \in Starts, CaptureFails(r) PROVE NothingYet'
  BY <1>14, <1>0 DEF CaptureFails, Happens, Marks, Shows
<1>15. ASSUME NEW r \in Starts, LoopReads(r) PROVE NothingYet'
  BY <1>15, <1>0 DEF LoopReads
<1>16. ASSUME NEW r \in Starts, LoopEnds(r) PROVE NothingYet'
  BY <1>16, <1>0 DEF LoopEnds
<1>17. ASSUME NEW r \in Starts, NEW c \in Blocks, ProcessChunk(r, c) PROVE NothingYet'
  BY <1>17, <1>0 DEF ProcessChunk
<1>18. ASSUME NEW r \in Starts, Decodes(r) PROVE NothingYet'
  BY <1>18, <1>0 DEF Decodes
<1>19. ASSUME NEW r \in Starts, Lists(r) PROVE NothingYet'
  BY <1>19, <1>0 DEF Lists, Idle
<1>20. ASSUME NEW r \in Starts, ShowsSegment(r) PROVE NothingYet'
  BY <1>20, <1>0 DEF ShowsSegment, Idle
<1>21. ASSUME NEW r \in Starts, ShowsState(r) PROVE NothingYet'
  BY <1>21, <1>0 DEF ShowsState, Shows
<1>22. ASSUME NEW r \in Starts, DecoderFails(r) PROVE NothingYet'
  BY <1>22, <1>0 DEF DecoderFails, Happens, Marks, Shows
<1>23. CASE UNCHANGED sessionVars
  BY <1>23, <1>0 DEF sessionVars, threadVars
<1> QED
  BY <1>1, <1>2, <1>3, <1>4, <1>5, <1>6, <1>7, <1>8, <1>9, <1>10, <1>11, <1>12, <1>13, <1>14,
     <1>15, <1>16, <1>17, <1>18, <1>19, <1>20, <1>21, <1>22, <1>23 DEF SessionNext, StartStep,
     StopStep, CaptureStep, LoopStep, DecoderStep

\* A start that is marked has its session to return.
LEMMA SessionGivenNext == SessionIInv /\ [SessionNext]_sessionVars => GivenIsMade'
<1> SUFFICES ASSUME SessionIInv, [SessionNext]_sessionVars PROVE GivenIsMade'
  OBVIOUS
<1> USE DEF GivenIsMade
<1>0. /\ GivenIsMade /\ NothingYet /\ given \in [Starts -> Starts \cup {NoStart}]
      /\ known \in [Fields -> Starts \cup {NoStart}] /\ "session" \in Fields
      /\ request \in [Starts \cup Stops -> Done \cup {"checked", "loading", "launched", "marked",
                       "source", "transcriber", "executor", "loop"}] /\ Starts \cap Stops = {}
  BY SharedShape, SessionShape DEF SessionIInv, SessionTyped, GivenTyped
<1>1. ASSUME NEW r \in Starts, StartChecks(r) PROVE GivenIsMade'
  BY <1>1, <1>0 DEF StartChecks, Begins, GoesTo, Happens, threadVars
<1>2. ASSUME NEW r \in Starts, StartCreates(r) PROVE GivenIsMade'
  BY <1>2, <1>0 DEF StartCreates, GoesTo, threadVars
<1>3. ASSUME NEW r \in Starts, StartAborts(r) PROVE GivenIsMade'
  BY <1>3, <1>0 DEF StartAborts, GoesTo, Happens, threadVars
<1>4. ASSUME NEW r \in Starts, StartFails(r) PROVE GivenIsMade'
  BY <1>4, <1>0 DEF StartFails, GoesTo, Happens, Marks, Shows, threadVars
<1>5. ASSUME NEW r \in Starts, StartLaunches(r) PROVE GivenIsMade'
  BY <1>5, <1>0 DEF StartLaunches, GoesTo
<1>6. ASSUME NEW r \in Starts, StartMarks(r) PROVE GivenIsMade'
  <2>1. known["session"] \in Starts /\ given' = [given EXCEPT ![r] = known["session"]]
    <3>1. request[r] = "launched" /\ given' = [given EXCEPT ![r] = known["session"]]
      BY <1>6 DEF StartMarks
    <3>2. known["session"] \in Starts \cup {NoStart}
      BY <1>0
    <3> QED
      BY <3>1, <3>2, <1>0 DEF NothingYet
  <2>2. \A q \in Starts : request'[q] = "marked" => q = r \/ request[q] = "marked"
    BY <1>6, <1>0 DEF StartMarks, GoesTo
  <2> QED
    BY <2>1, <2>2, <1>0
<1>7. ASSUME NEW r \in Starts, StartReturns(r) PROVE GivenIsMade'
  BY <1>7, <1>0 DEF StartReturns, GoesTo, Shows, threadVars
<1>8. ASSUME NEW s \in Stops, StopBegin(s) PROVE GivenIsMade'
  BY <1>8, <1>0 DEF StopBegin, Begins, GoesTo, Happens, threadVars
<1>9. ASSUME NEW s \in Stops, StopSource(s) PROVE GivenIsMade'
  BY <1>9, <1>0 DEF StopSource, GoesTo, Told
<1>10. ASSUME NEW s \in Stops, StopTranscriber(s) PROVE GivenIsMade'
  BY <1>10, <1>0 DEF StopTranscriber, GoesTo, Told
<1>11. ASSUME NEW s \in Stops, StopExecutor(s) PROVE GivenIsMade'
  BY <1>11, <1>0 DEF StopExecutor, GoesTo
<1>12. ASSUME NEW s \in Stops, StopMarks(s) PROVE GivenIsMade'
  BY <1>12, <1>0 DEF StopMarks, GoesTo, Marks, Shows, threadVars
<1>13. ASSUME NEW r \in Starts, Captures(r) PROVE GivenIsMade'
  BY <1>13, <1>0 DEF Captures, Happens
<1>14. ASSUME NEW r \in Starts, CaptureFails(r) PROVE GivenIsMade'
  BY <1>14, <1>0 DEF CaptureFails, Happens, Marks, Shows
<1>15. ASSUME NEW r \in Starts, LoopReads(r) PROVE GivenIsMade'
  BY <1>15, <1>0 DEF LoopReads
<1>16. ASSUME NEW r \in Starts, LoopEnds(r) PROVE GivenIsMade'
  BY <1>16, <1>0 DEF LoopEnds
<1>17. ASSUME NEW r \in Starts, NEW c \in Blocks, ProcessChunk(r, c) PROVE GivenIsMade'
  BY <1>17, <1>0 DEF ProcessChunk
<1>18. ASSUME NEW r \in Starts, Decodes(r) PROVE GivenIsMade'
  BY <1>18, <1>0 DEF Decodes
<1>19. ASSUME NEW r \in Starts, Lists(r) PROVE GivenIsMade'
  BY <1>19, <1>0 DEF Lists
<1>20. ASSUME NEW r \in Starts, ShowsSegment(r) PROVE GivenIsMade'
  BY <1>20, <1>0 DEF ShowsSegment
<1>21. ASSUME NEW r \in Starts, ShowsState(r) PROVE GivenIsMade'
  BY <1>21, <1>0 DEF ShowsState, Shows
<1>22. ASSUME NEW r \in Starts, DecoderFails(r) PROVE GivenIsMade'
  BY <1>22, <1>0 DEF DecoderFails, Happens, Marks, Shows
<1>23. CASE UNCHANGED sessionVars
  BY <1>23, <1>0 DEF sessionVars, threadVars
<1> QED
  BY <1>1, <1>2, <1>3, <1>4, <1>5, <1>6, <1>7, <1>8, <1>9, <1>10, <1>11, <1>12, <1>13, <1>14,
     <1>15, <1>16, <1>17, <1>18, <1>19, <1>20, <1>21, <1>22, <1>23 DEF SessionNext, StartStep,
     StopStep, CaptureStep, LoopStep, DecoderStep

\* What is not made is nowhere, still.
LEMMA SessionUnmadeNext == SessionIInv /\ [SessionNext]_sessionVars => UnmadeIsUnused'
<1> SUFFICES ASSUME SessionIInv, [SessionNext]_sessionVars PROVE UnmadeIsUnused'
  OBVIOUS
<1> USE DEF UnmadeIsUnused
<1>0. /\ UnmadeIsUnused /\ known \in [Fields -> Starts \cup {NoStart}]
      /\ request \in [Starts \cup Stops -> Done \cup {"checked", "loading", "launched", "marked",
                       "source", "transcriber", "executor", "loop"}] /\ Starts \cap Stops = {}
      /\ sessionIs \in [Starts -> {"none", "starting", "running", "error", "stopped"}]
      /\ capture \in [Starts -> ThreadStates] /\ decoder \in [Starts -> ThreadStates]
      /\ \A f \in Fields : known[f] \in Starts \cup {NoStart}
      /\ "session" \in Fields /\ "source" \in Fields /\ "transcriber" \in Fields
      /\ "executor" \in Fields /\ "loop" \in Fields /\ NoStart \notin Starts
  BY SharedShape, SessionShape DEF SessionIInv
<1>1. ASSUME NEW r \in Starts, StartChecks(r) PROVE UnmadeIsUnused'
  BY <1>1, <1>0 DEF StartChecks, Begins, GoesTo, Happens, threadVars
<1>2. ASSUME NEW r \in Starts, StartCreates(r) PROVE UnmadeIsUnused'
  BY <1>2, <1>0 DEF StartCreates, GoesTo, threadVars
<1>3. ASSUME NEW r \in Starts, StartAborts(r) PROVE UnmadeIsUnused'
  BY <1>3, <1>0 DEF StartAborts, GoesTo, Happens, threadVars
<1>4. ASSUME NEW r \in Starts, StartFails(r) PROVE UnmadeIsUnused'
  <2>1. ASSUME NEW q \in Starts, request'[q] \in {"idle", "checked", "refused"}
        PROVE  q # r /\ request[q] \in {"idle", "checked", "refused"}
    <3>1. \A p \in Starts : p # r => request'[p] = request[p]
      BY <1>4, <1>0 DEF StartFails, GoesTo
    <3>2. r = NoStart \/ request'[r] \notin {"idle", "checked", "refused"}
      BY <1>4, <1>0 DEF StartFails, GoesTo
    <3> QED
      BY <2>1, <3>1, <3>2, <1>0
  <2>2. \A q \in Starts : q # known["session"] => sessionIs'[q] = sessionIs[q]
    BY <1>4, MarksOne DEF StartFails
  <2>3. ASSUME NEW q \in Starts, q # r PROVE capture[q] = "off" => capture'[q] = "off"
    BY <1>4, <1>0, <2>3 DEF StartFails, threadVars
  <2>4. ASSUME NEW q \in Starts, q # r PROVE decoder[q] = "off" => decoder'[q] = "off"
    BY <1>4, <1>0, <2>4 DEF StartFails, threadVars
  <2>5. \A f \in Fields : known'[f] \in {known[f], NoStart}
    BY <1>4, <1>0 DEF StartFails
  <2>6. ASSUME NEW q \in Starts, request'[q] \in {"idle", "checked", "refused"}
        PROVE  /\ \A f \in Fields : known'[f] # q
               /\ sessionIs'[q] = "none" /\ capture'[q] = "off" /\ decoder'[q] = "off"
    <3>1. q # r /\ request[q] \in {"idle", "checked", "refused"}
      BY <2>1, <2>6
    <3>2. /\ \A f \in Fields : known[f] # q
          /\ sessionIs[q] = "none" /\ capture[q] = "off" /\ decoder[q] = "off"
      BY <1>0, <3>1
    <3>3. /\ q # known["session"] /\ q # known["source"] /\ q # known["transcriber"]
          /\ q # NoStart
      BY <1>0, <3>2
    <3>4. \A f \in Fields : known'[f] # q
      BY <3>1, <3>2, <3>3, <2>5
    <3> QED
      BY <3>1, <3>2, <3>3, <3>4, <2>2, <2>3, <2>4
  <2> QED
    BY <2>6
<1>5. ASSUME NEW r \in Starts, StartLaunches(r) PROVE UnmadeIsUnused'
  <2>1. ASSUME NEW q \in Starts, request'[q] \in {"idle", "checked", "refused"}
        PROVE  q # r /\ request[q] \in {"idle", "checked", "refused"}
    BY <1>5, <1>0, <2>1 DEF StartLaunches, GoesTo
  <2>2. ASSUME NEW q \in Starts, q # known["source"], q # known["transcriber"]
        PROVE  capture'[q] = capture[q] /\ decoder'[q] = decoder[q]
    BY <1>5, <1>0, <2>2 DEF StartLaunches
  <2>3. \A f \in Fields : known'[f] \in {known[f], r}
    BY <1>5, <1>0 DEF StartLaunches
  <2>4. sessionIs' = sessionIs
    BY <1>5 DEF StartLaunches
  <2>6. ASSUME NEW q \in Starts, request'[q] \in {"idle", "checked", "refused"}
        PROVE  /\ \A f \in Fields : known'[f] # q
               /\ sessionIs'[q] = "none" /\ capture'[q] = "off" /\ decoder'[q] = "off"
    <3>1. q # r /\ request[q] \in {"idle", "checked", "refused"}
      BY <2>1, <2>6
    <3>2. /\ \A f \in Fields : known[f] # q
          /\ sessionIs[q] = "none" /\ capture[q] = "off" /\ decoder[q] = "off"
      BY <1>0, <3>1
    <3>3. /\ q # known["session"] /\ q # known["source"] /\ q # known["transcriber"]
          /\ q # NoStart
      BY <1>0, <3>2
    <3>4. \A f \in Fields : known'[f] # q
      BY <3>1, <3>2, <3>3, <2>3
    <3> QED
      BY <3>1, <3>2, <3>3, <3>4, <2>2, <2>4
  <2> QED
    BY <2>6
<1>6. ASSUME NEW r \in Starts, StartMarks(r) PROVE UnmadeIsUnused'
  <2>1. ASSUME NEW q \in Starts, request'[q] \in {"idle", "checked", "refused"}
        PROVE  q # r /\ request[q] \in {"idle", "checked", "refused"}
    <3>1. \A p \in Starts : p # r => request'[p] = request[p]
      BY <1>6, <1>0 DEF StartMarks, GoesTo
    <3>2. r = NoStart \/ request'[r] \notin {"idle", "checked", "refused"}
      BY <1>6, <1>0 DEF StartMarks, GoesTo
    <3> QED
      BY <2>1, <3>1, <3>2, <1>0
  <2>2. \A q \in Starts : q # known["session"] => sessionIs'[q] = sessionIs[q]
    BY <1>6, MarksOne DEF StartMarks
  <2>3. ASSUME NEW q \in Starts, q # r PROVE capture[q] = "off" => capture'[q] = "off"
    BY <1>6, <1>0, <2>3 DEF StartMarks, threadVars
  <2>4. ASSUME NEW q \in Starts, q # r PROVE decoder[q] = "off" => decoder'[q] = "off"
    BY <1>6, <1>0, <2>4 DEF StartMarks, threadVars
  <2>5. \A f \in Fields : known'[f] \in {known[f], NoStart}
    BY <1>6, <1>0 DEF StartMarks
  <2>6. ASSUME NEW q \in Starts, request'[q] \in {"idle", "checked", "refused"}
        PROVE  /\ \A f \in Fields : known'[f] # q
               /\ sessionIs'[q] = "none" /\ capture'[q] = "off" /\ decoder'[q] = "off"
    <3>1. q # r /\ request[q] \in {"idle", "checked", "refused"}
      BY <2>1, <2>6
    <3>2. /\ \A f \in Fields : known[f] # q
          /\ sessionIs[q] = "none" /\ capture[q] = "off" /\ decoder[q] = "off"
      BY <1>0, <3>1
    <3>3. /\ q # known["session"] /\ q # known["source"] /\ q # known["transcriber"]
          /\ q # NoStart
      BY <1>0, <3>2
    <3>4. \A f \in Fields : known'[f] # q
      BY <3>1, <3>2, <3>3, <2>5
    <3> QED
      BY <3>1, <3>2, <3>3, <3>4, <2>2, <2>3, <2>4
  <2> QED
    BY <2>6
<1>7. ASSUME NEW r \in Starts, StartReturns(r) PROVE UnmadeIsUnused'
  BY <1>7, <1>0 DEF StartReturns, GoesTo, Shows, threadVars
<1>8. ASSUME NEW s \in Stops, StopBegin(s) PROVE UnmadeIsUnused'
  BY <1>8, <1>0 DEF StopBegin, Begins, GoesTo, Happens, threadVars
<1>9. ASSUME NEW s \in Stops, StopSource(s) PROVE UnmadeIsUnused'
  BY <1>9, <1>0 DEF StopSource, GoesTo, Told
<1>10. ASSUME NEW s \in Stops, StopTranscriber(s) PROVE UnmadeIsUnused'
  BY <1>10, <1>0 DEF StopTranscriber, GoesTo, Told
<1>11. ASSUME NEW s \in Stops, StopExecutor(s) PROVE UnmadeIsUnused'
  BY <1>11, <1>0 DEF StopExecutor, GoesTo
<1>12. ASSUME NEW s \in Stops, StopMarks(s) PROVE UnmadeIsUnused'
  <2>1. ASSUME NEW q \in Starts, request'[q] \in {"idle", "checked", "refused"}
        PROVE  q # NoStart /\ request[q] \in {"idle", "checked", "refused"}
    <3>1. \A p \in Starts : p # NoStart => request'[p] = request[p]
      BY <1>12, <1>0 DEF StopMarks, GoesTo
    <3>2. NoStart = NoStart \/ request'[NoStart] \notin {"idle", "checked", "refused"}
      BY <1>12, <1>0 DEF StopMarks, GoesTo
    <3> QED
      BY <2>1, <3>1, <3>2, <1>0
  <2>2. \A q \in Starts : q # known["session"] => sessionIs'[q] = sessionIs[q]
    BY <1>12, MarksOne DEF StopMarks
  <2>3. ASSUME NEW q \in Starts, q # NoStart PROVE capture[q] = "off" => capture'[q] = "off"
    BY <1>12, <1>0, <2>3 DEF StopMarks, threadVars
  <2>4. ASSUME NEW q \in Starts, q # NoStart PROVE decoder[q] = "off" => decoder'[q] = "off"
    BY <1>12, <1>0, <2>4 DEF StopMarks, threadVars
  <2>5. \A f \in Fields : known'[f] \in {known[f], NoStart}
    BY <1>12, <1>0 DEF StopMarks
  <2>6. ASSUME NEW q \in Starts, request'[q] \in {"idle", "checked", "refused"}
        PROVE  /\ \A f \in Fields : known'[f] # q
               /\ sessionIs'[q] = "none" /\ capture'[q] = "off" /\ decoder'[q] = "off"
    <3>1. q # NoStart /\ request[q] \in {"idle", "checked", "refused"}
      BY <2>1, <2>6
    <3>2. /\ \A f \in Fields : known[f] # q
          /\ sessionIs[q] = "none" /\ capture[q] = "off" /\ decoder[q] = "off"
      BY <1>0, <3>1
    <3>3. /\ q # known["session"] /\ q # known["source"] /\ q # known["transcriber"]
          /\ q # NoStart
      BY <1>0, <3>2
    <3>4. \A f \in Fields : known'[f] # q
      BY <3>1, <3>2, <3>3, <2>5
    <3> QED
      BY <3>1, <3>2, <3>3, <3>4, <2>2, <2>3, <2>4
  <2> QED
    BY <2>6
<1>13. ASSUME NEW r \in Starts, Captures(r) PROVE UnmadeIsUnused'
  BY <1>13, <1>0 DEF Captures, Happens
<1>14. ASSUME NEW r \in Starts, CaptureFails(r) PROVE UnmadeIsUnused'
  <2>1. ASSUME NEW q \in Starts, request'[q] \in {"idle", "checked", "refused"}
        PROVE  q # NoStart /\ request[q] \in {"idle", "checked", "refused"}
    <3>1. \A p \in Starts : p # NoStart => request'[p] = request[p]
      BY <1>14, <1>0 DEF CaptureFails
    <3>2. NoStart = NoStart \/ request'[NoStart] \notin {"idle", "checked", "refused"}
      BY <1>14, <1>0 DEF CaptureFails
    <3> QED
      BY <2>1, <3>1, <3>2, <1>0
  <2>2. \A q \in Starts : q # known["session"] => sessionIs'[q] = sessionIs[q]
    BY <1>14, MarksOne DEF CaptureFails
  <2>3. ASSUME NEW q \in Starts, q # NoStart PROVE capture[q] = "off" => capture'[q] = "off"
    BY <1>14, <1>0, <2>3 DEF CaptureFails, threadVars
  <2>4. ASSUME NEW q \in Starts, q # NoStart PROVE decoder[q] = "off" => decoder'[q] = "off"
    BY <1>14, <1>0, <2>4 DEF CaptureFails, threadVars
  <2>5. \A f \in Fields : known'[f] \in {known[f], NoStart}
    BY <1>14, <1>0 DEF CaptureFails
  <2>6. ASSUME NEW q \in Starts, request'[q] \in {"idle", "checked", "refused"}
        PROVE  /\ \A f \in Fields : known'[f] # q
               /\ sessionIs'[q] = "none" /\ capture'[q] = "off" /\ decoder'[q] = "off"
    <3>1. q # NoStart /\ request[q] \in {"idle", "checked", "refused"}
      BY <2>1, <2>6
    <3>2. /\ \A f \in Fields : known[f] # q
          /\ sessionIs[q] = "none" /\ capture[q] = "off" /\ decoder[q] = "off"
      BY <1>0, <3>1
    <3>3. /\ q # known["session"] /\ q # known["source"] /\ q # known["transcriber"]
          /\ q # NoStart
      BY <1>0, <3>2
    <3>4. \A f \in Fields : known'[f] # q
      BY <3>1, <3>2, <3>3, <2>5
    <3> QED
      BY <3>1, <3>2, <3>3, <3>4, <2>2, <2>3, <2>4
  <2> QED
    BY <2>6
<1>15. ASSUME NEW r \in Starts, LoopReads(r) PROVE UnmadeIsUnused'
  BY <1>15, <1>0 DEF LoopReads
<1>16. ASSUME NEW r \in Starts, LoopEnds(r) PROVE UnmadeIsUnused'
  BY <1>16, <1>0 DEF LoopEnds
<1>17. ASSUME NEW r \in Starts, NEW c \in Blocks, ProcessChunk(r, c) PROVE UnmadeIsUnused'
  BY <1>17, <1>0 DEF ProcessChunk
<1>18. ASSUME NEW r \in Starts, Decodes(r) PROVE UnmadeIsUnused'
  BY <1>18, <1>0 DEF Decodes
<1>19. ASSUME NEW r \in Starts, Lists(r) PROVE UnmadeIsUnused'
  BY <1>19, <1>0 DEF Lists
<1>20. ASSUME NEW r \in Starts, ShowsSegment(r) PROVE UnmadeIsUnused'
  BY <1>20, <1>0 DEF ShowsSegment
<1>21. ASSUME NEW r \in Starts, ShowsState(r) PROVE UnmadeIsUnused'
  BY <1>21, <1>0 DEF ShowsState, Shows
<1>22. ASSUME NEW r \in Starts, DecoderFails(r) PROVE UnmadeIsUnused'
  <2>1. ASSUME NEW q \in Starts, request'[q] \in {"idle", "checked", "refused"}
        PROVE  q # NoStart /\ request[q] \in {"idle", "checked", "refused"}
    <3>1. \A p \in Starts : p # NoStart => request'[p] = request[p]
      BY <1>22, <1>0 DEF DecoderFails
    <3>2. NoStart = NoStart \/ request'[NoStart] \notin {"idle", "checked", "refused"}
      BY <1>22, <1>0 DEF DecoderFails
    <3> QED
      BY <2>1, <3>1, <3>2, <1>0
  <2>2. \A q \in Starts : q # known["session"] => sessionIs'[q] = sessionIs[q]
    BY <1>22, MarksOne DEF DecoderFails
  <2>3. ASSUME NEW q \in Starts, q # NoStart PROVE capture[q] = "off" => capture'[q] = "off"
    BY <1>22, <1>0, <2>3 DEF DecoderFails, threadVars
  <2>4. ASSUME NEW q \in Starts, q # NoStart PROVE decoder[q] = "off" => decoder'[q] = "off"
    BY <1>22, <1>0, <2>4 DEF DecoderFails, threadVars
  <2>5. \A f \in Fields : known'[f] \in {known[f], NoStart}
    BY <1>22, <1>0 DEF DecoderFails
  <2>6. ASSUME NEW q \in Starts, request'[q] \in {"idle", "checked", "refused"}
        PROVE  /\ \A f \in Fields : known'[f] # q
               /\ sessionIs'[q] = "none" /\ capture'[q] = "off" /\ decoder'[q] = "off"
    <3>1. q # NoStart /\ request[q] \in {"idle", "checked", "refused"}
      BY <2>1, <2>6
    <3>2. /\ \A f \in Fields : known[f] # q
          /\ sessionIs[q] = "none" /\ capture[q] = "off" /\ decoder[q] = "off"
      BY <1>0, <3>1
    <3>3. /\ q # known["session"] /\ q # known["source"] /\ q # known["transcriber"]
          /\ q # NoStart
      BY <1>0, <3>2
    <3>4. \A f \in Fields : known'[f] # q
      BY <3>1, <3>2, <3>3, <2>5
    <3> QED
      BY <3>1, <3>2, <3>3, <3>4, <2>2, <2>3, <2>4
  <2> QED
    BY <2>6
<1>23. CASE UNCHANGED sessionVars
  BY <1>23, <1>0 DEF sessionVars, threadVars
<1> QED
  BY <1>1, <1>2, <1>3, <1>4, <1>5, <1>6, <1>7, <1>8, <1>9, <1>10, <1>11, <1>12, <1>13, <1>14,
     <1>15, <1>16, <1>17, <1>18, <1>19, <1>20, <1>21, <1>22, <1>23 DEF SessionNext, StartStep,
     StopStep, CaptureStep, LoopStep, DecoderStep

\* Whoever shows a session shows its list as it is, and nothing is listed unseen.
LEMMA SessionSnapshotNext == SessionIInv /\ [SessionNext]_sessionVars => SnapshotCatchesUp'
<1> SUFFICES ASSUME SessionIInv, [SessionNext]_sessionVars PROVE SnapshotCatchesUp'
  OBVIOUS
<1> USE DEF SnapshotCatchesUp
<1>0. /\ SnapshotCatchesUp /\ handling \in [Starts -> Handlings] /\ NothingYet
      /\ listed \in [Starts -> Seq(Blocks)] /\ GivenIsMade
      /\ NoStart \notin Starts /\ known["session"] \in Starts \cup {NoStart}
  BY SharedShape, SessionShape DEF SessionIInv, SessionTyped, HandlingTyped, ListsTyped
<1>1. ASSUME NEW r \in Starts, StartChecks(r) PROVE SnapshotCatchesUp'
  BY <1>1, <1>0 DEF StartChecks, Begins, GoesTo, Happens, threadVars
<1>2. ASSUME NEW r \in Starts, StartCreates(r) PROVE SnapshotCatchesUp'
  BY <1>2, <1>0 DEF StartCreates, GoesTo, threadVars
<1>3. ASSUME NEW r \in Starts, StartAborts(r) PROVE SnapshotCatchesUp'
  BY <1>3, <1>0 DEF StartAborts, GoesTo, Happens, threadVars
<1>4. ASSUME NEW r \in Starts, StartFails(r) PROVE SnapshotCatchesUp'
  BY <1>4, <1>0 DEF StartFails, GoesTo, Happens, Marks, Shows, threadVars
<1>5. ASSUME NEW r \in Starts, StartLaunches(r) PROVE SnapshotCatchesUp'
  BY <1>5, <1>0 DEF StartLaunches, GoesTo
<1>6. ASSUME NEW r \in Starts, StartMarks(r) PROVE SnapshotCatchesUp'
  BY <1>6, <1>0 DEF StartMarks, GoesTo, Marks, Shows, threadVars
<1>7. ASSUME NEW r \in Starts, StartReturns(r) PROVE SnapshotCatchesUp'
  BY <1>7, <1>0 DEF StartReturns, GoesTo, Shows, threadVars
<1>8. ASSUME NEW s \in Stops, StopBegin(s) PROVE SnapshotCatchesUp'
  BY <1>8, <1>0 DEF StopBegin, Begins, GoesTo, Happens, threadVars
<1>9. ASSUME NEW s \in Stops, StopSource(s) PROVE SnapshotCatchesUp'
  BY <1>9, <1>0 DEF StopSource, GoesTo, Told
<1>10. ASSUME NEW s \in Stops, StopTranscriber(s) PROVE SnapshotCatchesUp'
  BY <1>10, <1>0 DEF StopTranscriber, GoesTo, Told
<1>11. ASSUME NEW s \in Stops, StopExecutor(s) PROVE SnapshotCatchesUp'
  BY <1>11, <1>0 DEF StopExecutor, GoesTo
<1>12. ASSUME NEW s \in Stops, StopMarks(s) PROVE SnapshotCatchesUp'
  BY <1>12, <1>0 DEF StopMarks, GoesTo, Marks, Shows, threadVars
<1>13. ASSUME NEW r \in Starts, Captures(r) PROVE SnapshotCatchesUp'
  BY <1>13, <1>0 DEF Captures, Happens
<1>14. ASSUME NEW r \in Starts, CaptureFails(r) PROVE SnapshotCatchesUp'
  BY <1>14, <1>0 DEF CaptureFails, Happens, Marks, Shows
<1>15. ASSUME NEW r \in Starts, LoopReads(r) PROVE SnapshotCatchesUp'
  BY <1>15, <1>0 DEF LoopReads
<1>16. ASSUME NEW r \in Starts, LoopEnds(r) PROVE SnapshotCatchesUp'
  BY <1>16, <1>0 DEF LoopEnds
<1>17. ASSUME NEW r \in Starts, NEW c \in Blocks, ProcessChunk(r, c) PROVE SnapshotCatchesUp'
  BY <1>17, <1>0 DEF ProcessChunk
<1>18. ASSUME NEW r \in Starts, Decodes(r) PROVE SnapshotCatchesUp'
  BY <1>18, <1>0 DEF Decodes
<1>19. ASSUME NEW r \in Starts, Lists(r) PROVE SnapshotCatchesUp'
  BY <1>19, <1>0 DEF Lists, Idle
<1>20. ASSUME NEW r \in Starts, ShowsSegment(r) PROVE SnapshotCatchesUp'
  BY <1>20, <1>0 DEF ShowsSegment, Idle
<1>21. ASSUME NEW r \in Starts, ShowsState(r) PROVE SnapshotCatchesUp'
  BY <1>21, <1>0 DEF ShowsState, Shows
<1>22. ASSUME NEW r \in Starts, DecoderFails(r) PROVE SnapshotCatchesUp'
  BY <1>22, <1>0 DEF DecoderFails, Happens, Marks, Shows
<1>23. CASE UNCHANGED sessionVars
  BY <1>23, <1>0 DEF sessionVars, threadVars
<1> QED
  BY <1>1, <1>2, <1>3, <1>4, <1>5, <1>6, <1>7, <1>8, <1>9, <1>10, <1>11, <1>12, <1>13, <1>14,
     <1>15, <1>16, <1>17, <1>18, <1>19, <1>20, <1>21, <1>22, <1>23 DEF SessionNext, StartStep,
     StopStep, CaptureStep, LoopStep, DecoderStep

\* As long as requests came one after the other, they did before; and one that begins finds
\* every other done.
LEMMA OrderNow ==
  ASSUME SessionIInv, [SessionNext]_sessionVars, ~overlapped'
  PROVE  /\ OrderInv /\ HomeInv
         /\ \A q \in Starts \cup Stops : Begins(q) => \A p \in Starts \cup Stops :
              request[p] \in Done
<1>1. request \in [Starts \cup Stops -> Done \cup {"checked", "loading", "launched", "marked",
                     "source", "transcriber", "executor", "loop"}]
  BY SharedShape
<1>2. ASSUME NEW q \in Starts \cup Stops, Begins(q)
      PROVE  ~overlapped /\ \A p \in Starts \cup Stops : request[p] \in Done
  BY <1>1, <1>2 DEF Begins
<1>3. ~overlapped
  <2>1. overlapped' = overlapped \/ \E q \in Starts \cup Stops : Begins(q)
    BY DEF SessionNext, StartStep, StopStep, CaptureStep, LoopStep, DecoderStep, sessionVars,
       threadVars, StartChecks, StartCreates, StartAborts, StartFails, StartLaunches,
       StartMarks,
       StartReturns, StopBegin, StopSource, StopTranscriber, StopExecutor, StopMarks, Captures,
       CaptureFails, LoopReads, LoopEnds, ProcessChunk, Decodes, Lists, ShowsSegment,
       ShowsState,
       DecoderFails
  <2> QED
    BY <2>1, <1>2
<1> QED
  BY <1>2, <1>3 DEF SessionIInv

\* What a step of a request does to where requests are.
LEMMA RequestGoes ==
  ASSUME SessionIInv, OneInFlight, NEW q \in Starts \cup Stops,
         NEW place \in Done \cup {"checked", "loading", "launched", "marked", "source",
           "transcriber",
                                  "executor", "loop"},
         GoesTo(q, place), request[q] \notin Done \/ \A p \in Starts \cup Stops :
           request[p] \in Done
  PROVE  /\ OneInFlight'
         /\ \A p \in Starts \cup Stops : p # q => request'[p] = request[p] /\ request[p] \in Done
         /\ request'[q] = place
BY SharedShape DEF OneInFlight, GoesTo

\* One request is in flight, and a step of a request is a step of that one.
OnlyOneMoves(q) ==
  /\ \A p \in Starts \cup Stops : p # q => request'[p] = request[p] /\ request[p] \in Done
  /\ q \in Starts \cup Stops
AloneMoves ==
  /\ \A r \in Starts : StartChecks(r) => OnlyOneMoves(r)
  /\ \A r \in Starts : StartCreates(r) => OnlyOneMoves(r)
  /\ \A r \in Starts : StartAborts(r) => OnlyOneMoves(r)
  /\ \A r \in Starts : StartFails(r) => OnlyOneMoves(r)
  /\ \A r \in Starts : StartLaunches(r) => OnlyOneMoves(r)
  /\ \A r \in Starts : StartMarks(r) => OnlyOneMoves(r)
  /\ \A r \in Starts : StartReturns(r) => OnlyOneMoves(r)
  /\ \A s \in Stops : StopBegin(s) => OnlyOneMoves(s)
  /\ \A s \in Stops : StopSource(s) => OnlyOneMoves(s)
  /\ \A s \in Stops : StopTranscriber(s) => OnlyOneMoves(s)
  /\ \A s \in Stops : StopExecutor(s) => OnlyOneMoves(s)
  /\ \A s \in Stops : StopMarks(s) => OnlyOneMoves(s)

\* A step of a request is of the one in flight, and leaves one in flight at most.
LEMMA SessionAloneNext ==
  ASSUME SessionIInv, [SessionNext]_sessionVars, ~overlapped'
  PROVE  AloneMoves /\ OneInFlight'
<1>0. /\ request \in [Starts \cup Stops -> Done \cup {"checked", "loading", "launched", "marked",
                        "source", "transcriber", "executor", "loop"}]
      /\ known \in [Fields -> Starts \cup {NoStart}]
      /\ sessionIs \in [Starts -> {"none", "starting", "running", "error", "stopped"}]
      /\ capture \in [Starts -> ThreadStates] /\ decoder \in [Starts -> ThreadStates]
      /\ "session" \in Fields /\ "source" \in Fields /\ "transcriber" \in Fields
      /\ "executor" \in Fields /\ "loop" \in Fields /\ NoStart \notin Starts
      /\ Starts \cap Stops = {}
  BY SharedShape, SessionShape DEF SessionIInv
<1>1. /\ OneInFlight
      /\ \A q \in Starts \cup Stops : Begins(q) => \A p \in Starts \cup Stops :
           request[p] \in Done
  BY OrderNow DEF OrderInv
<1>2. ASSUME NEW r \in Starts, StartChecks(r) PROVE OnlyOneMoves(r) /\ OneInFlight'
  <2>1. GoesTo(r, "refused") \/ GoesTo(r, "checked")
    BY <1>2 DEF StartChecks
  <2>2. request[r] \notin Done \/ \A p \in Starts \cup Stops : request[p] \in Done
    BY <1>2, <1>1 DEF StartChecks, Done
  <2> QED
    BY <2>1, <2>2, <1>1, RequestGoes DEF Done, OnlyOneMoves
<1>3. ASSUME NEW r \in Starts, StartCreates(r) PROVE OnlyOneMoves(r) /\ OneInFlight'
  <2>1. GoesTo(r, "loading")
    BY <1>3 DEF StartCreates
  <2>2. request[r] \notin Done \/ \A p \in Starts \cup Stops : request[p] \in Done
    BY <1>3, <1>1 DEF StartCreates, Done
  <2> QED
    BY <2>1, <2>2, <1>1, RequestGoes DEF Done, OnlyOneMoves
<1>4. ASSUME NEW r \in Starts, StartAborts(r) PROVE OnlyOneMoves(r) /\ OneInFlight'
  <2>1. GoesTo(r, "failed")
    BY <1>4 DEF StartAborts
  <2>2. request[r] \notin Done \/ \A p \in Starts \cup Stops : request[p] \in Done
    BY <1>4, <1>1 DEF StartAborts, Done
  <2> QED
    BY <2>1, <2>2, <1>1, RequestGoes DEF Done, OnlyOneMoves
<1>5. ASSUME NEW r \in Starts, StartFails(r) PROVE OnlyOneMoves(r) /\ OneInFlight'
  <2>1. GoesTo(r, "failed")
    BY <1>5 DEF StartFails
  <2>2. request[r] \notin Done \/ \A p \in Starts \cup Stops : request[p] \in Done
    BY <1>5, <1>1 DEF StartFails, Done
  <2> QED
    BY <2>1, <2>2, <1>1, RequestGoes DEF Done, OnlyOneMoves
<1>6. ASSUME NEW r \in Starts, StartLaunches(r) PROVE OnlyOneMoves(r) /\ OneInFlight'
  <2>1. GoesTo(r, "launched")
    BY <1>6 DEF StartLaunches
  <2>2. request[r] \notin Done \/ \A p \in Starts \cup Stops : request[p] \in Done
    BY <1>6, <1>1 DEF StartLaunches, Done
  <2> QED
    BY <2>1, <2>2, <1>1, RequestGoes DEF Done, OnlyOneMoves
<1>7. ASSUME NEW r \in Starts, StartMarks(r) PROVE OnlyOneMoves(r) /\ OneInFlight'
  <2>1. GoesTo(r, "marked")
    BY <1>7 DEF StartMarks
  <2>2. request[r] \notin Done \/ \A p \in Starts \cup Stops : request[p] \in Done
    BY <1>7, <1>1 DEF StartMarks, Done
  <2> QED
    BY <2>1, <2>2, <1>1, RequestGoes DEF Done, OnlyOneMoves
<1>8. ASSUME NEW r \in Starts, StartReturns(r) PROVE OnlyOneMoves(r) /\ OneInFlight'
  <2>1. GoesTo(r, "started")
    BY <1>8 DEF StartReturns
  <2>2. request[r] \notin Done \/ \A p \in Starts \cup Stops : request[p] \in Done
    BY <1>8, <1>1 DEF StartReturns, Done
  <2> QED
    BY <2>1, <2>2, <1>1, RequestGoes DEF Done, OnlyOneMoves
<1>9. ASSUME NEW s \in Stops, StopBegin(s) PROVE OnlyOneMoves(s) /\ OneInFlight'
  <2>1. GoesTo(s, "source")
    BY <1>9 DEF StopBegin
  <2>2. request[s] \notin Done \/ \A p \in Starts \cup Stops : request[p] \in Done
    BY <1>9, <1>1 DEF StopBegin, Done
  <2> QED
    BY <2>1, <2>2, <1>1, RequestGoes DEF Done, OnlyOneMoves
<1>10. ASSUME NEW s \in Stops, StopSource(s) PROVE OnlyOneMoves(s) /\ OneInFlight'
  <2>1. GoesTo(s, "transcriber")
    BY <1>10 DEF StopSource
  <2>2. request[s] \notin Done \/ \A p \in Starts \cup Stops : request[p] \in Done
    BY <1>10, <1>1 DEF StopSource, Done
  <2> QED
    BY <2>1, <2>2, <1>1, RequestGoes DEF Done, OnlyOneMoves
<1>11. ASSUME NEW s \in Stops, StopTranscriber(s) PROVE OnlyOneMoves(s) /\ OneInFlight'
  <2>1. GoesTo(s, "executor")
    BY <1>11 DEF StopTranscriber
  <2>2. request[s] \notin Done \/ \A p \in Starts \cup Stops : request[p] \in Done
    BY <1>11, <1>1 DEF StopTranscriber, Done
  <2> QED
    BY <2>1, <2>2, <1>1, RequestGoes DEF Done, OnlyOneMoves
<1>12. ASSUME NEW s \in Stops, StopExecutor(s) PROVE OnlyOneMoves(s) /\ OneInFlight'
  <2>1. GoesTo(s, "loop")
    BY <1>12 DEF StopExecutor
  <2>2. request[s] \notin Done \/ \A p \in Starts \cup Stops : request[p] \in Done
    BY <1>12, <1>1 DEF StopExecutor, Done
  <2> QED
    BY <2>1, <2>2, <1>1, RequestGoes DEF Done, OnlyOneMoves
<1>13. ASSUME NEW s \in Stops, StopMarks(s) PROVE OnlyOneMoves(s) /\ OneInFlight'
  <2>1. GoesTo(s, "stopped")
    BY <1>13 DEF StopMarks
  <2>2. request[s] \notin Done \/ \A p \in Starts \cup Stops : request[p] \in Done
    BY <1>13, <1>1 DEF StopMarks, Done
  <2> QED
    BY <2>1, <2>2, <1>1, RequestGoes DEF Done, OnlyOneMoves
<1>14. ASSUME request' = request PROVE OneInFlight'
  <2>1. OneInFlight
    BY <1>1
  <2> QED
    BY <1>14, <2>1 DEF OneInFlight
<1>15. request' = request \/ (\E r \in Starts : StartStep(r)) \/ (\E s \in Stops : StopStep(s))
  BY DEF SessionNext, CaptureStep, LoopStep, DecoderStep, sessionVars, Captures, CaptureFails,
     LoopReads, LoopEnds, ProcessChunk, Decodes, Lists, ShowsSegment, ShowsState, DecoderFails
<1>16. OneInFlight'
  BY <1>2, <1>3, <1>4, <1>5, <1>6, <1>7, <1>8, <1>9, <1>10, <1>11, <1>12, <1>13, <1>14,
     <1>15 DEF StartStep, StopStep
<1> QED
  BY <1>2, <1>3, <1>4, <1>5, <1>6, <1>7, <1>8, <1>9, <1>10, <1>11, <1>12, <1>13, <1>16
     DEF AloneMoves

\* What the steps of a start do to the fields and the threads.
LEMMA CreatesIs ==
  ASSUME SessionIInv, NEW r \in Starts, StartCreates(r)
  PROVE  /\ request[r] = "checked" /\ request'[r] = "loading"
         /\ known'["session"] = r /\ known'["source"] = r /\ known'["transcriber"] = r
         /\ known'["executor"] = known["executor"] /\ known'["loop"] = known["loop"]
         /\ \A f \in Fields : known[f] # r
         /\ sessionIs'[r] = "starting" /\ \A q \in Starts \ {r} : sessionIs'[q] = sessionIs[q]
         /\ capture[r] = "off" /\ decoder[r] = "off" /\ capture' = capture /\ decoder' = decoder
         /\ UNCHANGED <<shut, chunks>>
<1>1. UnmadeIsUnused /\ request[r] = "checked"
  BY DEF StartCreates, SessionIInv
<1>2. /\ capture[r] = "off" /\ decoder[r] = "off" /\ \A f \in Fields : known[f] # r
  BY <1>1 DEF UnmadeIsUnused
<1> QED
  BY <1>1, <1>2, SharedShape, SessionShape DEF StartCreates, GoesTo, threadVars, SessionIInv

\* The session of a start that aborts is in the fields, and nothing else of it.
LEMMA AbortsIs ==
  ASSUME SessionIInv, NEW r \in Starts, StartAborts(r)
  PROVE  /\ request[r] = "checked" /\ request'[r] = "failed"
         /\ known'["session"] = r /\ known'["source"] = known["source"]
         /\ known'["transcriber"] = known["transcriber"]
         /\ known'["executor"] = known["executor"] /\ known'["loop"] = known["loop"]
         /\ \A f \in Fields : known[f] # r
         /\ sessionIs'[r] = "starting" /\ \A q \in Starts \ {r} : sessionIs'[q] = sessionIs[q]
         /\ capture[r] = "off" /\ decoder[r] = "off" /\ capture' = capture /\ decoder' = decoder
         /\ UNCHANGED <<shut, chunks>>
<1>1. UnmadeIsUnused /\ request[r] = "checked"
  BY DEF StartAborts, SessionIInv
<1>2. /\ capture[r] = "off" /\ decoder[r] = "off" /\ \A f \in Fields : known[f] # r
  BY <1>1 DEF UnmadeIsUnused
<1> QED
  BY <1>1, <1>2, SharedShape, SessionShape DEF StartAborts, GoesTo, threadVars, SessionIInv

\* A start that fails clears the fields it had set.
LEMMA FailsIs ==
  ASSUME SessionIInv, LoadingIsKnown, NEW r \in Starts, StartFails(r)
  PROVE  /\ request[r] = "loading" /\ request'[r] = "failed"
         /\ known["session"] = r /\ known'["session"] = r /\ known'["source"] = NoStart
         /\ known'["transcriber"] = NoStart /\ known'["executor"] = NoStart
         /\ sessionIs'[r] = "error" /\ \A q \in Starts \ {r} : sessionIs'[q] = sessionIs[q]
         /\ capture[r] = "off" /\ decoder[r] = "off" /\ capture' = capture /\ decoder' = decoder
         /\ UNCHANGED <<shut, chunks>>
<1>1. request[r] = "loading" /\ known["session"] = r /\ capture[r] = "off" /\ decoder[r] = "off"
  BY DEF StartFails, LoadingIsKnown
<1>2. \A q \in Starts : sessionIs'[q] = IF q = known["session"] THEN "error" ELSE sessionIs[q]
  BY MarksOne DEF StartFails
<1> QED
  BY <1>1, <1>2, SharedShape, SessionShape DEF StartFails, GoesTo, threadVars, SessionIInv

\* A start that launches runs its own threads.
LEMMA LaunchesIs ==
  ASSUME SessionIInv, LoadingIsKnown, NEW r \in Starts, StartLaunches(r)
  PROVE  /\ request[r] = "loading" /\ request'[r] = "launched"
         /\ known["session"] = r /\ known["source"] = r /\ known["transcriber"] = r
         /\ known'["session"] = r /\ known'["source"] = r /\ known'["transcriber"] = r
         /\ known'["executor"] = r /\ known'["loop"] = r
         /\ capture[r] = "off" /\ decoder[r] = "off" /\ capture'[r] = "on" /\ decoder'[r] = "on"
         /\ \A q \in Starts \ {r} : capture'[q] = capture[q] /\ decoder'[q] = decoder[q]
         /\ sessionIs' = sessionIs /\ sessionIs[r] \in {"starting", "error"}
         /\ UNCHANGED <<shut, chunks>>
<1>1. /\ request[r] = "loading" /\ capture[r] = "off" /\ decoder[r] = "off"
      /\ known["session"] = r /\ known["source"] = r /\ known["transcriber"] = r
      /\ sessionIs[r] \in {"starting", "error"}
  BY DEF StartLaunches, LoadingIsKnown
<1> QED
  BY <1>1, SharedShape, SessionShape DEF StartLaunches, GoesTo, SessionIInv

\* A start that goes on found no running session, and nothing has made one run since.
LEMMA SessionNoneRunsAtStartNext ==
  SessionIInv /\ ~overlapped' /\ [SessionNext]_sessionVars => NoneRunsAtStart'
<1> SUFFICES ASSUME SessionIInv, ~overlapped', [SessionNext]_sessionVars
    PROVE  NoneRunsAtStart'
  OBVIOUS
<1> USE DEF NoneRunsAtStart
<1>0. /\ request \in [Starts \cup Stops -> Done \cup {"checked", "loading", "launched", "marked",
                        "source", "transcriber", "executor", "loop"}]
      /\ known \in [Fields -> Starts \cup {NoStart}]
      /\ sessionIs \in [Starts -> {"none", "starting", "running", "error", "stopped"}]
      /\ capture \in [Starts -> ThreadStates] /\ decoder \in [Starts -> ThreadStates]
      /\ "session" \in Fields /\ "source" \in Fields /\ "transcriber" \in Fields
      /\ "executor" \in Fields /\ "loop" \in Fields /\ NoStart \notin Starts
      /\ Starts \cap Stops = {}
  BY SharedShape, SessionShape DEF SessionIInv
<1>i. AloneMoves /\ OneInFlight /\ NoneRunsAtStart
  BY OrderNow, SessionAloneNext DEF SessionIInv, OrderInv
<1>1. ASSUME NEW r \in Starts, StartChecks(r) PROVE NoneRunsAtStart'
  BY <1>1, <1>0, <1>i DEF AloneMoves, OnlyOneMoves, GoesTo, Done, StartChecks, threadVars
<1>2. ASSUME NEW r \in Starts, StartCreates(r) PROVE NoneRunsAtStart'
  BY <1>2, <1>0, <1>i DEF AloneMoves, OnlyOneMoves, GoesTo, Done, StartCreates, threadVars
<1>3. ASSUME NEW r \in Starts, StartAborts(r) PROVE NoneRunsAtStart'
  BY <1>3, <1>0, <1>i DEF AloneMoves, OnlyOneMoves, GoesTo, Done, StartAborts, threadVars
<1>4. ASSUME NEW r \in Starts, StartFails(r) PROVE NoneRunsAtStart'
  BY <1>4, <1>0, <1>i, MarksOne DEF AloneMoves, OnlyOneMoves, GoesTo, Done, StartFails,
     threadVars
<1>5. ASSUME NEW r \in Starts, StartLaunches(r) PROVE NoneRunsAtStart'
  BY <1>5, <1>0, <1>i DEF AloneMoves, OnlyOneMoves, GoesTo, Done, StartLaunches
<1>6. ASSUME NEW r \in Starts, StartMarks(r) PROVE NoneRunsAtStart'
  BY ZenonT(60), <1>6, <1>0, <1>i, MarksOne DEF AloneMoves, OnlyOneMoves, GoesTo, Done, StartMarks,
     threadVars
<1>7. ASSUME NEW r \in Starts, StartReturns(r) PROVE NoneRunsAtStart'
  BY <1>7, <1>0, <1>i DEF AloneMoves, OnlyOneMoves, GoesTo, Done, StartReturns, Shows,
     threadVars
<1>8. ASSUME NEW s \in Stops, StopBegin(s) PROVE NoneRunsAtStart'
  BY <1>8, <1>0, <1>i DEF AloneMoves, OnlyOneMoves, GoesTo, Done, StopBegin, threadVars
<1>9. ASSUME NEW s \in Stops, StopSource(s) PROVE NoneRunsAtStart'
  BY <1>9, <1>0, <1>i, ToldIs DEF AloneMoves, OnlyOneMoves, GoesTo, Done, StopSource
<1>10. ASSUME NEW s \in Stops, StopTranscriber(s) PROVE NoneRunsAtStart'
  BY <1>10, <1>0, <1>i, ToldIs DEF AloneMoves, OnlyOneMoves, GoesTo, Done, StopTranscriber
<1>11. ASSUME NEW s \in Stops, StopExecutor(s) PROVE NoneRunsAtStart'
  BY <1>11, <1>0, <1>i DEF AloneMoves, OnlyOneMoves, GoesTo, Done, StopExecutor
<1>12. ASSUME NEW s \in Stops, StopMarks(s) PROVE NoneRunsAtStart'
  BY <1>12, <1>0, <1>i, MarksOne DEF AloneMoves, OnlyOneMoves, GoesTo, Done, StopMarks,
     threadVars
<1>13. ASSUME NEW r \in Starts, Captures(r) PROVE NoneRunsAtStart'
  BY <1>13, <1>0, <1>i DEF Captures
<1>14. ASSUME NEW r \in Starts, CaptureFails(r) PROVE NoneRunsAtStart'
  BY <1>14, <1>0, <1>i, MarksOne DEF CaptureFails
<1>15. ASSUME NEW r \in Starts, LoopReads(r) PROVE NoneRunsAtStart'
  BY <1>15, <1>0, <1>i DEF LoopReads
<1>16. ASSUME NEW r \in Starts, LoopEnds(r) PROVE NoneRunsAtStart'
  BY <1>16, <1>0, <1>i DEF LoopEnds
<1>17. ASSUME NEW r \in Starts, NEW c \in Blocks, ProcessChunk(r, c) PROVE NoneRunsAtStart'
  BY <1>17, <1>0, <1>i DEF ProcessChunk
<1>18. ASSUME NEW r \in Starts, Decodes(r) PROVE NoneRunsAtStart'
  BY <1>18, <1>0, <1>i DEF Decodes
<1>19. ASSUME NEW r \in Starts, Lists(r) PROVE NoneRunsAtStart'
  BY <1>19, <1>0, <1>i DEF Lists
<1>20. ASSUME NEW r \in Starts, ShowsSegment(r) PROVE NoneRunsAtStart'
  BY <1>20, <1>0, <1>i DEF ShowsSegment
<1>21. ASSUME NEW r \in Starts, ShowsState(r) PROVE NoneRunsAtStart'
  BY <1>21, <1>0, <1>i DEF ShowsState, Shows
<1>22. ASSUME NEW r \in Starts, DecoderFails(r) PROVE NoneRunsAtStart'
  BY <1>22, <1>0, <1>i, MarksOne DEF DecoderFails
<1>23. CASE UNCHANGED sessionVars
  BY <1>23, <1>0, <1>i DEF sessionVars, threadVars
<1> QED
  BY <1>1, <1>2, <1>3, <1>4, <1>5, <1>6, <1>7, <1>8, <1>9, <1>10, <1>11, <1>12, <1>13, <1>14,
     <1>15, <1>16, <1>17, <1>18, <1>19, <1>20, <1>21, <1>22, <1>23 DEF SessionNext, StartStep,
     StopStep, CaptureStep, LoopStep, DecoderStep

\* A start that loads has its objects in the fields.
LEMMA SessionLoadingIsKnownNext ==
  SessionIInv /\ ~overlapped' /\ [SessionNext]_sessionVars => LoadingIsKnown'
<1> SUFFICES ASSUME SessionIInv, ~overlapped', [SessionNext]_sessionVars PROVE LoadingIsKnown'
  OBVIOUS
<1> USE DEF LoadingIsKnown
<1>0. /\ request \in [Starts \cup Stops -> Done \cup {"checked", "loading", "launched", "marked",
                        "source", "transcriber", "executor", "loop"}]
      /\ known \in [Fields -> Starts \cup {NoStart}]
      /\ sessionIs \in [Starts -> {"none", "starting", "running", "error", "stopped"}]
      /\ capture \in [Starts -> ThreadStates] /\ decoder \in [Starts -> ThreadStates]
      /\ "session" \in Fields /\ "source" \in Fields /\ "transcriber" \in Fields
      /\ "executor" \in Fields /\ "loop" \in Fields /\ NoStart \notin Starts
      /\ Starts \cap Stops = {}
  BY SharedShape, SessionShape DEF SessionIInv
<1>i. AloneMoves /\ UnmadeIsUnused /\ OneInFlight /\ LoadingIsKnown
  BY OrderNow, SessionAloneNext DEF SessionIInv, OrderInv
<1>1. ASSUME NEW r \in Starts, StartChecks(r) PROVE LoadingIsKnown'
  BY <1>1, <1>0, <1>i DEF AloneMoves, OnlyOneMoves, GoesTo, Done, StartChecks, threadVars
<1>2. ASSUME NEW r \in Starts, StartCreates(r) PROVE LoadingIsKnown'
  BY <1>2, <1>0, <1>i, CreatesIs DEF AloneMoves, OnlyOneMoves, Done, Fields
<1>3. ASSUME NEW r \in Starts, StartAborts(r) PROVE LoadingIsKnown'
  BY <1>3, <1>0, <1>i DEF AloneMoves, OnlyOneMoves, GoesTo, Done, StartAborts, threadVars
<1>4. ASSUME NEW r \in Starts, StartFails(r) PROVE LoadingIsKnown'
  BY <1>4, <1>0, <1>i, MarksOne DEF AloneMoves, OnlyOneMoves, GoesTo, Done, StartFails,
     threadVars
<1>5. ASSUME NEW r \in Starts, StartLaunches(r) PROVE LoadingIsKnown'
  BY <1>5, <1>0, <1>i DEF AloneMoves, OnlyOneMoves, GoesTo, Done, StartLaunches
<1>6. ASSUME NEW r \in Starts, StartMarks(r) PROVE LoadingIsKnown'
  BY <1>6, <1>0, <1>i, MarksOne DEF AloneMoves, OnlyOneMoves, GoesTo, Done, StartMarks,
     threadVars
<1>7. ASSUME NEW r \in Starts, StartReturns(r) PROVE LoadingIsKnown'
  BY <1>7, <1>0, <1>i DEF AloneMoves, OnlyOneMoves, GoesTo, Done, StartReturns, Shows,
     threadVars
<1>8. ASSUME NEW s \in Stops, StopBegin(s) PROVE LoadingIsKnown'
  BY <1>8, <1>0, <1>i DEF AloneMoves, OnlyOneMoves, GoesTo, Done, StopBegin, threadVars
<1>9. ASSUME NEW s \in Stops, StopSource(s) PROVE LoadingIsKnown'
  BY <1>9, <1>0, <1>i, ToldIs DEF AloneMoves, OnlyOneMoves, GoesTo, Done, StopSource
<1>10. ASSUME NEW s \in Stops, StopTranscriber(s) PROVE LoadingIsKnown'
  BY <1>10, <1>0, <1>i, ToldIs DEF AloneMoves, OnlyOneMoves, GoesTo, Done, StopTranscriber
<1>11. ASSUME NEW s \in Stops, StopExecutor(s) PROVE LoadingIsKnown'
  BY <1>11, <1>0, <1>i DEF AloneMoves, OnlyOneMoves, GoesTo, Done, StopExecutor
<1>12. ASSUME NEW s \in Stops, StopMarks(s) PROVE LoadingIsKnown'
  BY ZenonT(60), <1>12, <1>0, <1>i, MarksOne DEF AloneMoves, OnlyOneMoves, GoesTo, Done, StopMarks,
     threadVars
<1>13. ASSUME NEW r \in Starts, Captures(r) PROVE LoadingIsKnown'
  BY <1>13, <1>0, <1>i DEF Captures
<1>14. ASSUME NEW r \in Starts, CaptureFails(r) PROVE LoadingIsKnown'
  BY <1>14, <1>0, <1>i, MarksOne DEF CaptureFails
<1>15. ASSUME NEW r \in Starts, LoopReads(r) PROVE LoadingIsKnown'
  BY <1>15, <1>0, <1>i DEF LoopReads
<1>16. ASSUME NEW r \in Starts, LoopEnds(r) PROVE LoadingIsKnown'
  BY <1>16, <1>0, <1>i DEF LoopEnds
<1>17. ASSUME NEW r \in Starts, NEW c \in Blocks, ProcessChunk(r, c) PROVE LoadingIsKnown'
  BY <1>17, <1>0, <1>i DEF ProcessChunk
<1>18. ASSUME NEW r \in Starts, Decodes(r) PROVE LoadingIsKnown'
  BY <1>18, <1>0, <1>i DEF Decodes
<1>19. ASSUME NEW r \in Starts, Lists(r) PROVE LoadingIsKnown'
  BY <1>19, <1>0, <1>i DEF Lists
<1>20. ASSUME NEW r \in Starts, ShowsSegment(r) PROVE LoadingIsKnown'
  BY <1>20, <1>0, <1>i DEF ShowsSegment
<1>21. ASSUME NEW r \in Starts, ShowsState(r) PROVE LoadingIsKnown'
  BY <1>21, <1>0, <1>i DEF ShowsState, Shows
<1>22. ASSUME NEW r \in Starts, DecoderFails(r) PROVE LoadingIsKnown'
  BY <1>22, <1>0, <1>i, MarksOne DEF DecoderFails
<1>23. CASE UNCHANGED sessionVars
  BY <1>23, <1>0, <1>i DEF sessionVars, threadVars
<1> QED
  BY <1>1, <1>2, <1>3, <1>4, <1>5, <1>6, <1>7, <1>8, <1>9, <1>10, <1>11, <1>12, <1>13, <1>14,
     <1>15, <1>16, <1>17, <1>18, <1>19, <1>20, <1>21, <1>22, <1>23 DEF SessionNext, StartStep,
     StopStep, CaptureStep, LoopStep, DecoderStep

\* A start that has launched runs its capture, for the session in the fields.
LEMMA SessionLaunchedIsRunningNext ==
  SessionIInv /\ ~overlapped' /\ [SessionNext]_sessionVars => LaunchedIsRunning'
<1> SUFFICES ASSUME SessionIInv, ~overlapped', [SessionNext]_sessionVars
    PROVE  LaunchedIsRunning'
  OBVIOUS
<1> USE DEF LaunchedIsRunning
<1>0. /\ request \in [Starts \cup Stops -> Done \cup {"checked", "loading", "launched", "marked",
                        "source", "transcriber", "executor", "loop"}]
      /\ known \in [Fields -> Starts \cup {NoStart}]
      /\ sessionIs \in [Starts -> {"none", "starting", "running", "error", "stopped"}]
      /\ capture \in [Starts -> ThreadStates] /\ decoder \in [Starts -> ThreadStates]
      /\ "session" \in Fields /\ "source" \in Fields /\ "transcriber" \in Fields
      /\ "executor" \in Fields /\ "loop" \in Fields /\ NoStart \notin Starts
      /\ Starts \cap Stops = {}
  BY SharedShape, SessionShape DEF SessionIInv
<1>i. AloneMoves /\ OneInFlight /\ LoadingIsKnown /\ LaunchedIsRunning
  BY OrderNow, SessionAloneNext DEF SessionIInv, OrderInv
<1>1. ASSUME NEW r \in Starts, StartChecks(r) PROVE LaunchedIsRunning'
  BY <1>1, <1>0, <1>i DEF AloneMoves, OnlyOneMoves, GoesTo, Done, StartChecks, threadVars
<1>2. ASSUME NEW r \in Starts, StartCreates(r) PROVE LaunchedIsRunning'
  BY ZenonT(60), <1>2, <1>0, <1>i DEF AloneMoves, OnlyOneMoves, GoesTo, Done, StartCreates, threadVars
<1>3. ASSUME NEW r \in Starts, StartAborts(r) PROVE LaunchedIsRunning'
  BY ZenonT(60), <1>3, <1>0, <1>i DEF AloneMoves, OnlyOneMoves, GoesTo, Done, StartAborts, threadVars
<1>4. ASSUME NEW r \in Starts, StartFails(r) PROVE LaunchedIsRunning'
  BY <1>4, <1>0, <1>i, MarksOne DEF AloneMoves, OnlyOneMoves, GoesTo, Done, StartFails,
     threadVars
<1>5. ASSUME NEW r \in Starts, StartLaunches(r) PROVE LaunchedIsRunning'
  BY <1>5, <1>0, <1>i, LaunchesIs DEF AloneMoves, OnlyOneMoves, Done, Fields
<1>6. ASSUME NEW r \in Starts, StartMarks(r) PROVE LaunchedIsRunning'
  BY <1>6, <1>0, <1>i, MarksOne DEF AloneMoves, OnlyOneMoves, GoesTo, Done, StartMarks,
     threadVars
<1>7. ASSUME NEW r \in Starts, StartReturns(r) PROVE LaunchedIsRunning'
  BY <1>7, <1>0, <1>i DEF AloneMoves, OnlyOneMoves, GoesTo, Done, StartReturns, Shows,
     threadVars
<1>8. ASSUME NEW s \in Stops, StopBegin(s) PROVE LaunchedIsRunning'
  BY <1>8, <1>0, <1>i DEF AloneMoves, OnlyOneMoves, GoesTo, Done, StopBegin, threadVars
<1>9. ASSUME NEW s \in Stops, StopSource(s) PROVE LaunchedIsRunning'
  BY <1>9, <1>0, <1>i, ToldIs DEF AloneMoves, OnlyOneMoves, GoesTo, Done, StopSource
<1>10. ASSUME NEW s \in Stops, StopTranscriber(s) PROVE LaunchedIsRunning'
  BY <1>10, <1>0, <1>i, ToldIs DEF AloneMoves, OnlyOneMoves, GoesTo, Done, StopTranscriber
<1>11. ASSUME NEW s \in Stops, StopExecutor(s) PROVE LaunchedIsRunning'
  BY <1>11, <1>0, <1>i DEF AloneMoves, OnlyOneMoves, GoesTo, Done, StopExecutor
<1>12. ASSUME NEW s \in Stops, StopMarks(s) PROVE LaunchedIsRunning'
  BY <1>12, <1>0, <1>i, MarksOne DEF AloneMoves, OnlyOneMoves, GoesTo, Done, StopMarks,
     threadVars
<1>13. ASSUME NEW r \in Starts, Captures(r) PROVE LaunchedIsRunning'
  BY <1>13, <1>0, <1>i DEF Captures
<1>14. ASSUME NEW r \in Starts, CaptureFails(r) PROVE LaunchedIsRunning'
  BY <1>14, <1>0, <1>i, MarksOne DEF CaptureFails
<1>15. ASSUME NEW r \in Starts, LoopReads(r) PROVE LaunchedIsRunning'
  BY <1>15, <1>0, <1>i DEF LoopReads
<1>16. ASSUME NEW r \in Starts, LoopEnds(r) PROVE LaunchedIsRunning'
  BY <1>16, <1>0, <1>i DEF LoopEnds
<1>17. ASSUME NEW r \in Starts, NEW c \in Blocks, ProcessChunk(r, c) PROVE LaunchedIsRunning'
  BY <1>17, <1>0, <1>i DEF ProcessChunk
<1>18. ASSUME NEW r \in Starts, Decodes(r) PROVE LaunchedIsRunning'
  BY <1>18, <1>0, <1>i DEF Decodes
<1>19. ASSUME NEW r \in Starts, Lists(r) PROVE LaunchedIsRunning'
  BY <1>19, <1>0, <1>i DEF Lists
<1>20. ASSUME NEW r \in Starts, ShowsSegment(r) PROVE LaunchedIsRunning'
  BY <1>20, <1>0, <1>i DEF ShowsSegment
<1>21. ASSUME NEW r \in Starts, ShowsState(r) PROVE LaunchedIsRunning'
  BY <1>21, <1>0, <1>i DEF ShowsState, Shows
<1>22. ASSUME NEW r \in Starts, DecoderFails(r) PROVE LaunchedIsRunning'
  BY <1>22, <1>0, <1>i, MarksOne DEF DecoderFails
<1>23. CASE UNCHANGED sessionVars
  BY <1>23, <1>0, <1>i DEF sessionVars, threadVars
<1> QED
  BY <1>1, <1>2, <1>3, <1>4, <1>5, <1>6, <1>7, <1>8, <1>9, <1>10, <1>11, <1>12, <1>13, <1>14,
     <1>15, <1>16, <1>17, <1>18, <1>19, <1>20, <1>21, <1>22, <1>23 DEF SessionNext, StartStep,
     StopStep, CaptureStep, LoopStep, DecoderStep

\* The threads of the session in the fields are in the fields.
LEMMA SessionRunningIsKnownNext ==
  SessionIInv /\ ~overlapped' /\ [SessionNext]_sessionVars => RunningIsKnown'
<1> SUFFICES ASSUME SessionIInv, ~overlapped', [SessionNext]_sessionVars PROVE RunningIsKnown'
  OBVIOUS
<1> USE DEF RunningIsKnown
<1>0. /\ request \in [Starts \cup Stops -> Done \cup {"checked", "loading", "launched", "marked",
                        "source", "transcriber", "executor", "loop"}]
      /\ known \in [Fields -> Starts \cup {NoStart}]
      /\ sessionIs \in [Starts -> {"none", "starting", "running", "error", "stopped"}]
      /\ capture \in [Starts -> ThreadStates] /\ decoder \in [Starts -> ThreadStates]
      /\ "session" \in Fields /\ "source" \in Fields /\ "transcriber" \in Fields
      /\ "executor" \in Fields /\ "loop" \in Fields /\ NoStart \notin Starts
      /\ Starts \cap Stops = {}
  BY SharedShape, SessionShape DEF SessionIInv
<1>i. AloneMoves /\ UnmadeIsUnused /\ LoadingIsKnown /\ RunningIsKnown
  BY OrderNow, SessionAloneNext DEF SessionIInv, OrderInv
<1>1. ASSUME NEW r \in Starts, StartChecks(r) PROVE RunningIsKnown'
  BY <1>1, <1>0, <1>i DEF AloneMoves, OnlyOneMoves, GoesTo, Done, StartChecks, threadVars
<1>2. ASSUME NEW r \in Starts, StartCreates(r) PROVE RunningIsKnown'
  BY <1>2, <1>0, <1>i, CreatesIs DEF AloneMoves, OnlyOneMoves, Done, Fields
<1>3. ASSUME NEW r \in Starts, StartAborts(r) PROVE RunningIsKnown'
  BY <1>3, <1>0, <1>i, AbortsIs DEF AloneMoves, OnlyOneMoves, Done, Fields
<1>4. ASSUME NEW r \in Starts, StartFails(r) PROVE RunningIsKnown'
  BY <1>4, <1>0, <1>i, FailsIs DEF AloneMoves, OnlyOneMoves, Done, Fields
<1>5. ASSUME NEW r \in Starts, StartLaunches(r) PROVE RunningIsKnown'
  BY <1>5, <1>0, <1>i, LaunchesIs DEF AloneMoves, OnlyOneMoves, Done, Fields
<1>6. ASSUME NEW r \in Starts, StartMarks(r) PROVE RunningIsKnown'
  BY <1>6, <1>0, <1>i, MarksOne DEF AloneMoves, OnlyOneMoves, GoesTo, Done, StartMarks,
     threadVars
<1>7. ASSUME NEW r \in Starts, StartReturns(r) PROVE RunningIsKnown'
  BY <1>7, <1>0, <1>i DEF AloneMoves, OnlyOneMoves, GoesTo, Done, StartReturns, Shows,
     threadVars
<1>8. ASSUME NEW s \in Stops, StopBegin(s) PROVE RunningIsKnown'
  BY <1>8, <1>0, <1>i DEF AloneMoves, OnlyOneMoves, GoesTo, Done, StopBegin, threadVars
<1>9. ASSUME NEW s \in Stops, StopSource(s) PROVE RunningIsKnown'
  BY <1>9, <1>0, <1>i, ToldIs DEF AloneMoves, OnlyOneMoves, GoesTo, Done, StopSource
<1>10. ASSUME NEW s \in Stops, StopTranscriber(s) PROVE RunningIsKnown'
  BY <1>10, <1>0, <1>i, ToldIs DEF AloneMoves, OnlyOneMoves, GoesTo, Done, StopTranscriber
<1>11. ASSUME NEW s \in Stops, StopExecutor(s) PROVE RunningIsKnown'
  BY <1>11, <1>0, <1>i DEF AloneMoves, OnlyOneMoves, GoesTo, Done, StopExecutor
<1>12. ASSUME NEW s \in Stops, StopMarks(s) PROVE RunningIsKnown'
  BY <1>12, <1>0, <1>i, MarksOne DEF AloneMoves, OnlyOneMoves, GoesTo, Done, StopMarks,
     threadVars
<1>13. ASSUME NEW r \in Starts, Captures(r) PROVE RunningIsKnown'
  BY <1>13, <1>0, <1>i DEF Captures
<1>14. ASSUME NEW r \in Starts, CaptureFails(r) PROVE RunningIsKnown'
  BY <1>14, <1>0, <1>i, MarksOne DEF CaptureFails
<1>15. ASSUME NEW r \in Starts, LoopReads(r) PROVE RunningIsKnown'
  BY <1>15, <1>0, <1>i DEF LoopReads
<1>16. ASSUME NEW r \in Starts, LoopEnds(r) PROVE RunningIsKnown'
  BY <1>16, <1>0, <1>i DEF LoopEnds
<1>17. ASSUME NEW r \in Starts, NEW c \in Blocks, ProcessChunk(r, c) PROVE RunningIsKnown'
  BY <1>17, <1>0, <1>i DEF ProcessChunk
<1>18. ASSUME NEW r \in Starts, Decodes(r) PROVE RunningIsKnown'
  BY <1>18, <1>0, <1>i DEF Decodes
<1>19. ASSUME NEW r \in Starts, Lists(r) PROVE RunningIsKnown'
  BY <1>19, <1>0, <1>i DEF Lists
<1>20. ASSUME NEW r \in Starts, ShowsSegment(r) PROVE RunningIsKnown'
  BY <1>20, <1>0, <1>i DEF ShowsSegment
<1>21. ASSUME NEW r \in Starts, ShowsState(r) PROVE RunningIsKnown'
  BY <1>21, <1>0, <1>i DEF ShowsState, Shows
<1>22. ASSUME NEW r \in Starts, DecoderFails(r) PROVE RunningIsKnown'
  BY <1>22, <1>0, <1>i, MarksOne DEF DecoderFails
<1>23. CASE UNCHANGED sessionVars
  BY <1>23, <1>0, <1>i DEF sessionVars, threadVars
<1> QED
  BY <1>1, <1>2, <1>3, <1>4, <1>5, <1>6, <1>7, <1>8, <1>9, <1>10, <1>11, <1>12, <1>13, <1>14,
     <1>15, <1>16, <1>17, <1>18, <1>19, <1>20, <1>21, <1>22, <1>23 DEF SessionNext, StartStep,
     StopStep, CaptureStep, LoopStep, DecoderStep

\* A worker is launched with its capture.
LEMMA SessionDecodersAreCapturedNext ==
  SessionIInv /\ ~overlapped' /\ [SessionNext]_sessionVars => DecodersAreCaptured'
<1> SUFFICES ASSUME SessionIInv, ~overlapped', [SessionNext]_sessionVars
    PROVE  DecodersAreCaptured'
  OBVIOUS
<1> USE DEF DecodersAreCaptured
<1>0. /\ request \in [Starts \cup Stops -> Done \cup {"checked", "loading", "launched", "marked",
                        "source", "transcriber", "executor", "loop"}]
      /\ known \in [Fields -> Starts \cup {NoStart}]
      /\ sessionIs \in [Starts -> {"none", "starting", "running", "error", "stopped"}]
      /\ capture \in [Starts -> ThreadStates] /\ decoder \in [Starts -> ThreadStates]
      /\ "session" \in Fields /\ "source" \in Fields /\ "transcriber" \in Fields
      /\ "executor" \in Fields /\ "loop" \in Fields /\ NoStart \notin Starts
      /\ Starts \cap Stops = {}
  BY SharedShape, SessionShape DEF SessionIInv
<1>i. AloneMoves /\ LoadingIsKnown /\ DecodersAreCaptured
  BY OrderNow, SessionAloneNext DEF SessionIInv, OrderInv
<1>1. ASSUME NEW r \in Starts, StartChecks(r) PROVE DecodersAreCaptured'
  BY <1>1, <1>0, <1>i DEF AloneMoves, OnlyOneMoves, GoesTo, Done, StartChecks, threadVars
<1>2. ASSUME NEW r \in Starts, StartCreates(r) PROVE DecodersAreCaptured'
  BY <1>2, <1>0, <1>i DEF AloneMoves, OnlyOneMoves, GoesTo, Done, StartCreates, threadVars
<1>3. ASSUME NEW r \in Starts, StartAborts(r) PROVE DecodersAreCaptured'
  BY <1>3, <1>0, <1>i DEF AloneMoves, OnlyOneMoves, GoesTo, Done, StartAborts, threadVars
<1>4. ASSUME NEW r \in Starts, StartFails(r) PROVE DecodersAreCaptured'
  BY <1>4, <1>0, <1>i, MarksOne DEF AloneMoves, OnlyOneMoves, GoesTo, Done, StartFails,
     threadVars
<1>5. ASSUME NEW r \in Starts, StartLaunches(r) PROVE DecodersAreCaptured'
  BY <1>5, <1>0, <1>i, LaunchesIs DEF AloneMoves, OnlyOneMoves, Done, Fields
<1>6. ASSUME NEW r \in Starts, StartMarks(r) PROVE DecodersAreCaptured'
  BY <1>6, <1>0, <1>i, MarksOne DEF AloneMoves, OnlyOneMoves, GoesTo, Done, StartMarks,
     threadVars
<1>7. ASSUME NEW r \in Starts, StartReturns(r) PROVE DecodersAreCaptured'
  BY <1>7, <1>0, <1>i DEF AloneMoves, OnlyOneMoves, GoesTo, Done, StartReturns, Shows,
     threadVars
<1>8. ASSUME NEW s \in Stops, StopBegin(s) PROVE DecodersAreCaptured'
  BY <1>8, <1>0, <1>i DEF AloneMoves, OnlyOneMoves, GoesTo, Done, StopBegin, threadVars
<1>9. ASSUME NEW s \in Stops, StopSource(s) PROVE DecodersAreCaptured'
  BY <1>9, <1>0, <1>i, ToldIs DEF AloneMoves, OnlyOneMoves, GoesTo, Done, StopSource
<1>10. ASSUME NEW s \in Stops, StopTranscriber(s) PROVE DecodersAreCaptured'
  BY <1>10, <1>0, <1>i, ToldIs DEF AloneMoves, OnlyOneMoves, GoesTo, Done, StopTranscriber
<1>11. ASSUME NEW s \in Stops, StopExecutor(s) PROVE DecodersAreCaptured'
  BY <1>11, <1>0, <1>i DEF AloneMoves, OnlyOneMoves, GoesTo, Done, StopExecutor
<1>12. ASSUME NEW s \in Stops, StopMarks(s) PROVE DecodersAreCaptured'
  BY <1>12, <1>0, <1>i, MarksOne DEF AloneMoves, OnlyOneMoves, GoesTo, Done, StopMarks,
     threadVars
<1>13. ASSUME NEW r \in Starts, Captures(r) PROVE DecodersAreCaptured'
  BY <1>13, <1>0, <1>i DEF Captures
<1>14. ASSUME NEW r \in Starts, CaptureFails(r) PROVE DecodersAreCaptured'
  BY <1>14, <1>0, <1>i, MarksOne DEF CaptureFails
<1>15. ASSUME NEW r \in Starts, LoopReads(r) PROVE DecodersAreCaptured'
  BY <1>15, <1>0, <1>i DEF LoopReads
<1>16. ASSUME NEW r \in Starts, LoopEnds(r) PROVE DecodersAreCaptured'
  BY <1>16, <1>0, <1>i DEF LoopEnds
<1>17. ASSUME NEW r \in Starts, NEW c \in Blocks, ProcessChunk(r, c) PROVE DecodersAreCaptured'
  BY <1>17, <1>0, <1>i DEF ProcessChunk
<1>18. ASSUME NEW r \in Starts, Decodes(r) PROVE DecodersAreCaptured'
  BY <1>18, <1>0, <1>i DEF Decodes
<1>19. ASSUME NEW r \in Starts, Lists(r) PROVE DecodersAreCaptured'
  BY <1>19, <1>0, <1>i DEF Lists
<1>20. ASSUME NEW r \in Starts, ShowsSegment(r) PROVE DecodersAreCaptured'
  BY <1>20, <1>0, <1>i DEF ShowsSegment
<1>21. ASSUME NEW r \in Starts, ShowsState(r) PROVE DecodersAreCaptured'
  BY <1>21, <1>0, <1>i DEF ShowsState, Shows
<1>22. ASSUME NEW r \in Starts, DecoderFails(r) PROVE DecodersAreCaptured'
  BY <1>22, <1>0, <1>i, MarksOne DEF DecoderFails
<1>23. CASE UNCHANGED sessionVars
  BY <1>23, <1>0, <1>i DEF sessionVars, threadVars
<1> QED
  BY <1>1, <1>2, <1>3, <1>4, <1>5, <1>6, <1>7, <1>8, <1>9, <1>10, <1>11, <1>12, <1>13, <1>14,
     <1>15, <1>16, <1>17, <1>18, <1>19, <1>20, <1>21, <1>22, <1>23 DEF SessionNext, StartStep,
     StopStep, CaptureStep, LoopStep, DecoderStep

\* A session whose capture has run is marked, or about to be.
LEMMA SessionStartingIsLaunchedNext ==
  SessionIInv /\ ~overlapped' /\ [SessionNext]_sessionVars => StartingIsLaunched'
<1> SUFFICES ASSUME SessionIInv, ~overlapped', [SessionNext]_sessionVars
    PROVE  StartingIsLaunched'
  OBVIOUS
<1> USE DEF StartingIsLaunched
<1>0. /\ request \in [Starts \cup Stops -> Done \cup {"checked", "loading", "launched", "marked",
                        "source", "transcriber", "executor", "loop"}]
      /\ known \in [Fields -> Starts \cup {NoStart}]
      /\ sessionIs \in [Starts -> {"none", "starting", "running", "error", "stopped"}]
      /\ capture \in [Starts -> ThreadStates] /\ decoder \in [Starts -> ThreadStates]
      /\ "session" \in Fields /\ "source" \in Fields /\ "transcriber" \in Fields
      /\ "executor" \in Fields /\ "loop" \in Fields /\ NoStart \notin Starts
      /\ Starts \cap Stops = {}
  BY SharedShape, SessionShape DEF SessionIInv
<1>i. AloneMoves /\ UnmadeIsUnused /\ OneInFlight /\ LoadingIsKnown /\ LaunchedIsRunning
        /\ StartingIsLaunched
  BY OrderNow, SessionAloneNext DEF SessionIInv, OrderInv
<1>1. ASSUME NEW r \in Starts, StartChecks(r) PROVE StartingIsLaunched'
  <2>1. request[r] = "idle" /\ sessionIs' = sessionIs /\ capture' = capture
    BY <1>1 DEF StartChecks, Begins, threadVars
  <2>2. capture[r] = "off"
    BY <2>1, <1>i DEF UnmadeIsUnused
  <2>3. \A q \in Starts : q # r => request'[q] = request[q]
    BY <1>1, <1>i DEF AloneMoves, OnlyOneMoves
  <2> QED
    BY <2>1, <2>2, <2>3, <1>i
<1>2. ASSUME NEW r \in Starts, StartCreates(r) PROVE StartingIsLaunched'
  BY <1>2, <1>0, <1>i, CreatesIs DEF AloneMoves, OnlyOneMoves, Done, Fields
<1>3. ASSUME NEW r \in Starts, StartAborts(r) PROVE StartingIsLaunched'
  BY <1>3, <1>0, <1>i, AbortsIs DEF AloneMoves, OnlyOneMoves, Done, Fields
<1>4. ASSUME NEW r \in Starts, StartFails(r) PROVE StartingIsLaunched'
  BY <1>4, <1>0, <1>i, MarksOne DEF AloneMoves, OnlyOneMoves, GoesTo, Done, StartFails,
     threadVars
<1>5. ASSUME NEW r \in Starts, StartLaunches(r) PROVE StartingIsLaunched'
  BY <1>5, <1>0, <1>i, LaunchesIs DEF AloneMoves, OnlyOneMoves, Done, Fields
<1>6. ASSUME NEW r \in Starts, StartMarks(r) PROVE StartingIsLaunched'
  <2>1. request[r] = "launched" /\ capture' = capture
    BY <1>6 DEF StartMarks, threadVars
  <2>2. known["session"] = r
    BY <2>1, <1>i DEF LaunchedIsRunning
  <2>3. \A q \in Starts : q # r => request'[q] = request[q]
    BY <1>6, <1>i DEF AloneMoves, OnlyOneMoves
  <2>4. \A q \in Starts : sessionIs'[q] = IF q = r THEN "running" ELSE sessionIs[q]
    BY <1>6, <2>2, MarksOne DEF StartMarks
  <2> QED
    BY <2>1, <2>3, <2>4, <1>i
<1>7. ASSUME NEW r \in Starts, StartReturns(r) PROVE StartingIsLaunched'
  BY <1>7, <1>0, <1>i DEF AloneMoves, OnlyOneMoves, GoesTo, Done, StartReturns, Shows,
     threadVars
<1>8. ASSUME NEW s \in Stops, StopBegin(s) PROVE StartingIsLaunched'
  BY <1>8, <1>0, <1>i DEF AloneMoves, OnlyOneMoves, GoesTo, Done, StopBegin, threadVars
<1>9. ASSUME NEW s \in Stops, StopSource(s) PROVE StartingIsLaunched'
  BY <1>9, <1>0, <1>i, ToldIs DEF AloneMoves, OnlyOneMoves, GoesTo, Done, StopSource
<1>10. ASSUME NEW s \in Stops, StopTranscriber(s) PROVE StartingIsLaunched'
  BY <1>10, <1>0, <1>i, ToldIs DEF AloneMoves, OnlyOneMoves, GoesTo, Done, StopTranscriber
<1>11. ASSUME NEW s \in Stops, StopExecutor(s) PROVE StartingIsLaunched'
  BY <1>11, <1>0, <1>i DEF AloneMoves, OnlyOneMoves, GoesTo, Done, StopExecutor
<1>12. ASSUME NEW s \in Stops, StopMarks(s) PROVE StartingIsLaunched'
  BY <1>12, <1>0, <1>i, MarksOne DEF AloneMoves, OnlyOneMoves, GoesTo, Done, StopMarks,
     threadVars
<1>13. ASSUME NEW r \in Starts, Captures(r) PROVE StartingIsLaunched'
  BY <1>13, <1>0, <1>i DEF Captures
<1>14. ASSUME NEW r \in Starts, CaptureFails(r) PROVE StartingIsLaunched'
  BY <1>14, <1>0, <1>i, MarksOne DEF CaptureFails
<1>15. ASSUME NEW r \in Starts, LoopReads(r) PROVE StartingIsLaunched'
  BY <1>15, <1>0, <1>i DEF LoopReads
<1>16. ASSUME NEW r \in Starts, LoopEnds(r) PROVE StartingIsLaunched'
  BY <1>16, <1>0, <1>i DEF LoopEnds
<1>17. ASSUME NEW r \in Starts, NEW c \in Blocks, ProcessChunk(r, c) PROVE StartingIsLaunched'
  BY <1>17, <1>0, <1>i DEF ProcessChunk
<1>18. ASSUME NEW r \in Starts, Decodes(r) PROVE StartingIsLaunched'
  BY <1>18, <1>0, <1>i DEF Decodes
<1>19. ASSUME NEW r \in Starts, Lists(r) PROVE StartingIsLaunched'
  BY <1>19, <1>0, <1>i DEF Lists
<1>20. ASSUME NEW r \in Starts, ShowsSegment(r) PROVE StartingIsLaunched'
  BY <1>20, <1>0, <1>i DEF ShowsSegment
<1>21. ASSUME NEW r \in Starts, ShowsState(r) PROVE StartingIsLaunched'
  BY <1>21, <1>0, <1>i DEF ShowsState, Shows
<1>22. ASSUME NEW r \in Starts, DecoderFails(r) PROVE StartingIsLaunched'
  BY <1>22, <1>0, <1>i, MarksOne DEF DecoderFails
<1>23. CASE UNCHANGED sessionVars
  BY <1>23, <1>0, <1>i DEF sessionVars, threadVars
<1> QED
  BY <1>1, <1>2, <1>3, <1>4, <1>5, <1>6, <1>7, <1>8, <1>9, <1>10, <1>11, <1>12, <1>13, <1>14,
     <1>15, <1>16, <1>17, <1>18, <1>19, <1>20, <1>21, <1>22, <1>23 DEF SessionNext, StartStep,
     StopStep, CaptureStep, LoopStep, DecoderStep

\* An open source is in the fields, or its session has failed.
LEMMA SessionOpenIsCurrentNext ==
  SessionIInv /\ ~overlapped' /\ [SessionNext]_sessionVars => OpenIsCurrent'
<1> SUFFICES ASSUME SessionIInv, ~overlapped', [SessionNext]_sessionVars PROVE OpenIsCurrent'
  OBVIOUS
<1> USE DEF OpenIsCurrent
<1>0. /\ request \in [Starts \cup Stops -> Done \cup {"checked", "loading", "launched", "marked",
                        "source", "transcriber", "executor", "loop"}]
      /\ known \in [Fields -> Starts \cup {NoStart}]
      /\ sessionIs \in [Starts -> {"none", "starting", "running", "error", "stopped"}]
      /\ capture \in [Starts -> ThreadStates] /\ decoder \in [Starts -> ThreadStates]
      /\ "session" \in Fields /\ "source" \in Fields /\ "transcriber" \in Fields
      /\ "executor" \in Fields /\ "loop" \in Fields /\ NoStart \notin Starts
      /\ Starts \cap Stops = {}
  BY SharedShape, SessionShape DEF SessionIInv
<1>i. AloneMoves /\ UnmadeIsUnused /\ OneInFlight /\ NoneRunsAtStart /\ LoadingIsKnown
        /\ StartingIsLaunched /\ StoppedIsAtHome /\ OpenIsCurrent
  BY OrderNow, SessionAloneNext DEF SessionIInv, OrderInv, HomeInv
<1>1. ASSUME NEW r \in Starts, StartChecks(r) PROVE OpenIsCurrent'
  BY <1>1, <1>0, <1>i DEF AloneMoves, OnlyOneMoves, GoesTo, Done, StartChecks, threadVars
<1>2. ASSUME NEW r \in Starts, StartCreates(r) PROVE OpenIsCurrent'
  <2>1. \A p \in Starts : p # r => request[p] \in Done
    BY <1>2, <1>i DEF AloneMoves, OnlyOneMoves
  <2>2. ASSUME NEW q \in Starts, capture[q] = "on" PROVE sessionIs[q] = "error" /\ q # r
    <3>1. q # r
      BY <1>2, <2>2, CreatesIs
    <3>2. CASE q = known["session"]
      <4>1. sessionIs[q] # "running"
        BY <3>2, <1>2, CreatesIs, <1>0, <1>i DEF NoneRunsAtStart
      <4>2. sessionIs[q] # "none" /\ sessionIs[q] # "starting"
        BY <2>1, <2>2, <3>1, <1>i DEF StartingIsLaunched, Done
      <4>3. sessionIs[q] # "stopped"
        BY <2>2, <1>i DEF StoppedIsAtHome
      <4>4. sessionIs[q] \in {"none", "starting", "running", "error", "stopped"}
        BY <1>0
      <4> QED
        BY <3>1, <4>1, <4>2, <4>3, <4>4
    <3>3. CASE q # known["session"]
      BY <3>1, <3>3, <2>2, <1>i
    <3> QED
      BY <3>2, <3>3
  <2>3. /\ known'["session"] = r /\ capture' = capture
        /\ \A q \in Starts \ {r} : sessionIs'[q] = sessionIs[q]
    BY <1>2, CreatesIs
  <2> QED
    BY <2>2, <2>3
<1>3. ASSUME NEW r \in Starts, StartAborts(r) PROVE OpenIsCurrent'
  <2>1. \A p \in Starts : p # r => request[p] \in Done
    BY <1>3, <1>i DEF AloneMoves, OnlyOneMoves
  <2>2. ASSUME NEW q \in Starts, capture[q] = "on" PROVE sessionIs[q] = "error" /\ q # r
    <3>1. q # r
      BY <1>3, <2>2, AbortsIs
    <3>2. CASE q = known["session"]
      <4>1. sessionIs[q] # "running"
        BY <3>2, <1>3, AbortsIs, <1>0, <1>i DEF NoneRunsAtStart
      <4>2. sessionIs[q] # "none" /\ sessionIs[q] # "starting"
        BY <2>1, <2>2, <3>1, <1>i DEF StartingIsLaunched, Done
      <4>3. sessionIs[q] # "stopped"
        BY <2>2, <1>i DEF StoppedIsAtHome
      <4>4. sessionIs[q] \in {"none", "starting", "running", "error", "stopped"}
        BY <1>0
      <4> QED
        BY <3>1, <4>1, <4>2, <4>3, <4>4
    <3>3. CASE q # known["session"]
      BY <3>1, <3>3, <2>2, <1>i
    <3> QED
      BY <3>2, <3>3
  <2>3. /\ known'["session"] = r /\ capture' = capture
        /\ \A q \in Starts \ {r} : sessionIs'[q] = sessionIs[q]
    BY <1>3, AbortsIs
  <2> QED
    BY <2>2, <2>3
<1>4. ASSUME NEW r \in Starts, StartFails(r) PROVE OpenIsCurrent'
  BY <1>4, <1>0, <1>i, FailsIs DEF AloneMoves, OnlyOneMoves, Done, Fields
<1>5. ASSUME NEW r \in Starts, StartLaunches(r) PROVE OpenIsCurrent'
  BY <1>5, <1>0, <1>i, LaunchesIs DEF AloneMoves, OnlyOneMoves, Done, Fields
<1>6. ASSUME NEW r \in Starts, StartMarks(r) PROVE OpenIsCurrent'
  BY <1>6, <1>0, <1>i, MarksOne DEF AloneMoves, OnlyOneMoves, GoesTo, Done, StartMarks,
     threadVars
<1>7. ASSUME NEW r \in Starts, StartReturns(r) PROVE OpenIsCurrent'
  BY <1>7, <1>0, <1>i DEF AloneMoves, OnlyOneMoves, GoesTo, Done, StartReturns, Shows,
     threadVars
<1>8. ASSUME NEW s \in Stops, StopBegin(s) PROVE OpenIsCurrent'
  BY <1>8, <1>0, <1>i DEF AloneMoves, OnlyOneMoves, GoesTo, Done, StopBegin, threadVars
<1>9. ASSUME NEW s \in Stops, StopSource(s) PROVE OpenIsCurrent'
  BY <1>9, <1>0, <1>i, ToldIs DEF AloneMoves, OnlyOneMoves, GoesTo, Done, StopSource
<1>10. ASSUME NEW s \in Stops, StopTranscriber(s) PROVE OpenIsCurrent'
  BY <1>10, <1>0, <1>i, ToldIs DEF AloneMoves, OnlyOneMoves, GoesTo, Done, StopTranscriber
<1>11. ASSUME NEW s \in Stops, StopExecutor(s) PROVE OpenIsCurrent'
  BY <1>11, <1>0, <1>i DEF AloneMoves, OnlyOneMoves, GoesTo, Done, StopExecutor
<1>12. ASSUME NEW s \in Stops, StopMarks(s) PROVE OpenIsCurrent'
  BY <1>12, <1>0, <1>i, MarksOne DEF AloneMoves, OnlyOneMoves, GoesTo, Done, StopMarks,
     threadVars
<1>13. ASSUME NEW r \in Starts, Captures(r) PROVE OpenIsCurrent'
  BY <1>13, <1>0, <1>i DEF Captures
<1>14. ASSUME NEW r \in Starts, CaptureFails(r) PROVE OpenIsCurrent'
  BY <1>14, <1>0, <1>i, MarksOne DEF CaptureFails
<1>15. ASSUME NEW r \in Starts, LoopReads(r) PROVE OpenIsCurrent'
  BY <1>15, <1>0, <1>i DEF LoopReads
<1>16. ASSUME NEW r \in Starts, LoopEnds(r) PROVE OpenIsCurrent'
  BY <1>16, <1>0, <1>i DEF LoopEnds
<1>17. ASSUME NEW r \in Starts, NEW c \in Blocks, ProcessChunk(r, c) PROVE OpenIsCurrent'
  BY <1>17, <1>0, <1>i DEF ProcessChunk
<1>18. ASSUME NEW r \in Starts, Decodes(r) PROVE OpenIsCurrent'
  BY <1>18, <1>0, <1>i DEF Decodes
<1>19. ASSUME NEW r \in Starts, Lists(r) PROVE OpenIsCurrent'
  BY <1>19, <1>0, <1>i DEF Lists
<1>20. ASSUME NEW r \in Starts, ShowsSegment(r) PROVE OpenIsCurrent'
  BY <1>20, <1>0, <1>i DEF ShowsSegment
<1>21. ASSUME NEW r \in Starts, ShowsState(r) PROVE OpenIsCurrent'
  BY <1>21, <1>0, <1>i DEF ShowsState, Shows
<1>22. ASSUME NEW r \in Starts, DecoderFails(r) PROVE OpenIsCurrent'
  BY <1>22, <1>0, <1>i, MarksOne DEF DecoderFails
<1>23. CASE UNCHANGED sessionVars
  BY <1>23, <1>0, <1>i DEF sessionVars, threadVars
<1> QED
  BY <1>1, <1>2, <1>3, <1>4, <1>5, <1>6, <1>7, <1>8, <1>9, <1>10, <1>11, <1>12, <1>13, <1>14,
     <1>15, <1>16, <1>17, <1>18, <1>19, <1>20, <1>21, <1>22, <1>23 DEF SessionNext, StartStep,
     StopStep, CaptureStep, LoopStep, DecoderStep

\* A stop has told what it has passed.
LEMMA SessionStopsTellNext ==
  SessionIInv /\ ~overlapped' /\ [SessionNext]_sessionVars => StopsTell'
<1> SUFFICES ASSUME SessionIInv, ~overlapped', [SessionNext]_sessionVars PROVE StopsTell'
  OBVIOUS
<1> USE DEF StopsTell
<1>0. /\ request \in [Starts \cup Stops -> Done \cup {"checked", "loading", "launched", "marked",
                        "source", "transcriber", "executor", "loop"}]
      /\ known \in [Fields -> Starts \cup {NoStart}]
      /\ sessionIs \in [Starts -> {"none", "starting", "running", "error", "stopped"}]
      /\ capture \in [Starts -> ThreadStates] /\ decoder \in [Starts -> ThreadStates]
      /\ "session" \in Fields /\ "source" \in Fields /\ "transcriber" \in Fields
      /\ "executor" \in Fields /\ "loop" \in Fields /\ NoStart \notin Starts
      /\ Starts \cap Stops = {}
  BY SharedShape, SessionShape DEF SessionIInv
<1>i. AloneMoves /\ OneInFlight /\ LoadingIsKnown /\ StopsTell
  BY OrderNow, SessionAloneNext DEF SessionIInv, OrderInv
<1>1. ASSUME NEW r \in Starts, StartChecks(r) PROVE StopsTell'
  BY <1>1, <1>0, <1>i DEF AloneMoves, OnlyOneMoves, GoesTo, Done, StartChecks, threadVars
<1>2. ASSUME NEW r \in Starts, StartCreates(r) PROVE StopsTell'
  BY ZenonT(60), <1>2, <1>0, <1>i DEF AloneMoves, OnlyOneMoves, GoesTo, Done, StartCreates, threadVars
<1>3. ASSUME NEW r \in Starts, StartAborts(r) PROVE StopsTell'
  BY <1>3, <1>0, <1>i DEF AloneMoves, OnlyOneMoves, GoesTo, Done, StartAborts, threadVars
<1>4. ASSUME NEW r \in Starts, StartFails(r) PROVE StopsTell'
  BY <1>4, <1>0, <1>i, MarksOne DEF AloneMoves, OnlyOneMoves, GoesTo, Done, StartFails,
     threadVars
<1>5. ASSUME NEW r \in Starts, StartLaunches(r) PROVE StopsTell'
  BY ZenonT(60), <1>5, <1>0, <1>i DEF AloneMoves, OnlyOneMoves, GoesTo, Done, StartLaunches
<1>6. ASSUME NEW r \in Starts, StartMarks(r) PROVE StopsTell'
  BY <1>6, <1>0, <1>i, MarksOne DEF AloneMoves, OnlyOneMoves, GoesTo, Done, StartMarks,
     threadVars
<1>7. ASSUME NEW r \in Starts, StartReturns(r) PROVE StopsTell'
  BY <1>7, <1>0, <1>i DEF AloneMoves, OnlyOneMoves, GoesTo, Done, StartReturns, Shows,
     threadVars
<1>8. ASSUME NEW s \in Stops, StopBegin(s) PROVE StopsTell'
  BY <1>8, <1>0, <1>i DEF AloneMoves, OnlyOneMoves, GoesTo, Done, StopBegin, threadVars
<1>9. ASSUME NEW s \in Stops, StopSource(s) PROVE StopsTell'
  BY <1>9, <1>0, <1>i, ToldIs DEF AloneMoves, OnlyOneMoves, GoesTo, Done, StopSource
<1>10. ASSUME NEW s \in Stops, StopTranscriber(s) PROVE StopsTell'
  BY <1>10, <1>0, <1>i, ToldIs DEF AloneMoves, OnlyOneMoves, GoesTo, Done, StopTranscriber
<1>11. ASSUME NEW s \in Stops, StopExecutor(s) PROVE StopsTell'
  BY <1>11, <1>0, <1>i DEF AloneMoves, OnlyOneMoves, GoesTo, Done, StopExecutor
<1>12. ASSUME NEW s \in Stops, StopMarks(s) PROVE StopsTell'
  BY <1>12, <1>0, <1>i, MarksOne DEF AloneMoves, OnlyOneMoves, GoesTo, Done, StopMarks,
     threadVars
<1>13. ASSUME NEW r \in Starts, Captures(r) PROVE StopsTell'
  BY <1>13, <1>0, <1>i DEF Captures
<1>14. ASSUME NEW r \in Starts, CaptureFails(r) PROVE StopsTell'
  BY <1>14, <1>0, <1>i, MarksOne DEF CaptureFails
<1>15. ASSUME NEW r \in Starts, LoopReads(r) PROVE StopsTell'
  BY <1>15, <1>0, <1>i DEF LoopReads
<1>16. ASSUME NEW r \in Starts, LoopEnds(r) PROVE StopsTell'
  BY <1>16, <1>0, <1>i DEF LoopEnds
<1>17. ASSUME NEW r \in Starts, NEW c \in Blocks, ProcessChunk(r, c) PROVE StopsTell'
  BY <1>17, <1>0, <1>i DEF ProcessChunk
<1>18. ASSUME NEW r \in Starts, Decodes(r) PROVE StopsTell'
  BY <1>18, <1>0, <1>i DEF Decodes
<1>19. ASSUME NEW r \in Starts, Lists(r) PROVE StopsTell'
  BY <1>19, <1>0, <1>i DEF Lists
<1>20. ASSUME NEW r \in Starts, ShowsSegment(r) PROVE StopsTell'
  BY <1>20, <1>0, <1>i DEF ShowsSegment
<1>21. ASSUME NEW r \in Starts, ShowsState(r) PROVE StopsTell'
  BY <1>21, <1>0, <1>i DEF ShowsState, Shows
<1>22. ASSUME NEW r \in Starts, DecoderFails(r) PROVE StopsTell'
  BY <1>22, <1>0, <1>i, MarksOne DEF DecoderFails
<1>23. CASE UNCHANGED sessionVars
  BY <1>23, <1>0, <1>i DEF sessionVars, threadVars
<1> QED
  BY <1>1, <1>2, <1>3, <1>4, <1>5, <1>6, <1>7, <1>8, <1>9, <1>10, <1>11, <1>12, <1>13, <1>14,
     <1>15, <1>16, <1>17, <1>18, <1>19, <1>20, <1>21, <1>22, <1>23 DEF SessionNext, StartStep,
     StopStep, CaptureStep, LoopStep, DecoderStep

\* A stopped session's executor takes no more, while its source is known.
LEMMA SessionStoppedIsShutNext ==
  SessionIInv /\ ~overlapped' /\ [SessionNext]_sessionVars => StoppedIsShut'
<1> SUFFICES ASSUME SessionIInv, ~overlapped', [SessionNext]_sessionVars PROVE StoppedIsShut'
  OBVIOUS
<1> USE DEF StoppedIsShut
<1>0. /\ request \in [Starts \cup Stops -> Done \cup {"checked", "loading", "launched", "marked",
                        "source", "transcriber", "executor", "loop"}]
      /\ known \in [Fields -> Starts \cup {NoStart}]
      /\ sessionIs \in [Starts -> {"none", "starting", "running", "error", "stopped"}]
      /\ capture \in [Starts -> ThreadStates] /\ decoder \in [Starts -> ThreadStates]
      /\ "session" \in Fields /\ "source" \in Fields /\ "transcriber" \in Fields
      /\ "executor" \in Fields /\ "loop" \in Fields /\ NoStart \notin Starts
      /\ Starts \cap Stops = {}
  BY SharedShape, SessionShape DEF SessionIInv
<1>i. AloneMoves /\ UnmadeIsUnused /\ LoadingIsKnown /\ StopsTell /\ StoppedIsShut
  BY OrderNow, SessionAloneNext DEF SessionIInv, OrderInv, HomeInv
<1>1. ASSUME NEW r \in Starts, StartChecks(r) PROVE StoppedIsShut'
  BY <1>1, <1>0, <1>i DEF AloneMoves, OnlyOneMoves, GoesTo, Done, StartChecks, threadVars
<1>2. ASSUME NEW r \in Starts, StartCreates(r) PROVE StoppedIsShut'
  BY <1>2, <1>0, <1>i, CreatesIs DEF AloneMoves, OnlyOneMoves, Done, Fields
<1>3. ASSUME NEW r \in Starts, StartAborts(r) PROVE StoppedIsShut'
  BY <1>3, <1>0, <1>i, AbortsIs DEF AloneMoves, OnlyOneMoves, Done, Fields
<1>4. ASSUME NEW r \in Starts, StartFails(r) PROVE StoppedIsShut'
  BY <1>4, <1>0, <1>i, FailsIs DEF AloneMoves, OnlyOneMoves, Done, Fields
<1>5. ASSUME NEW r \in Starts, StartLaunches(r) PROVE StoppedIsShut'
  BY <1>5, <1>0, <1>i, LaunchesIs DEF AloneMoves, OnlyOneMoves, Done, Fields
<1>6. ASSUME NEW r \in Starts, StartMarks(r) PROVE StoppedIsShut'
  BY <1>6, <1>0, <1>i, MarksOne DEF AloneMoves, OnlyOneMoves, GoesTo, Done, StartMarks,
     threadVars
<1>7. ASSUME NEW r \in Starts, StartReturns(r) PROVE StoppedIsShut'
  BY <1>7, <1>0, <1>i DEF AloneMoves, OnlyOneMoves, GoesTo, Done, StartReturns, Shows,
     threadVars
<1>8. ASSUME NEW s \in Stops, StopBegin(s) PROVE StoppedIsShut'
  BY <1>8, <1>0, <1>i DEF AloneMoves, OnlyOneMoves, GoesTo, Done, StopBegin, threadVars
<1>9. ASSUME NEW s \in Stops, StopSource(s) PROVE StoppedIsShut'
  BY <1>9, <1>0, <1>i, ToldIs DEF AloneMoves, OnlyOneMoves, GoesTo, Done, StopSource
<1>10. ASSUME NEW s \in Stops, StopTranscriber(s) PROVE StoppedIsShut'
  BY <1>10, <1>0, <1>i, ToldIs DEF AloneMoves, OnlyOneMoves, GoesTo, Done, StopTranscriber
<1>11. ASSUME NEW s \in Stops, StopExecutor(s) PROVE StoppedIsShut'
  BY <1>11, <1>0, <1>i DEF AloneMoves, OnlyOneMoves, GoesTo, Done, StopExecutor
<1>12. ASSUME NEW s \in Stops, StopMarks(s) PROVE StoppedIsShut'
  <2>1. request[s] = "loop" /\ known["executor"] \in shut \cup {NoStart}
    BY <1>12, <1>i DEF StopMarks, StopsTell
  <2> QED
    BY <1>12, <2>1 DEF StopMarks, threadVars
<1>13. ASSUME NEW r \in Starts, Captures(r) PROVE StoppedIsShut'
  BY <1>13, <1>0, <1>i DEF Captures
<1>14. ASSUME NEW r \in Starts, CaptureFails(r) PROVE StoppedIsShut'
  BY <1>14, <1>0, <1>i, MarksOne DEF CaptureFails
<1>15. ASSUME NEW r \in Starts, LoopReads(r) PROVE StoppedIsShut'
  BY <1>15, <1>0, <1>i DEF LoopReads
<1>16. ASSUME NEW r \in Starts, LoopEnds(r) PROVE StoppedIsShut'
  BY <1>16, <1>0, <1>i DEF LoopEnds
<1>17. ASSUME NEW r \in Starts, NEW c \in Blocks, ProcessChunk(r, c) PROVE StoppedIsShut'
  BY <1>17, <1>0, <1>i DEF ProcessChunk
<1>18. ASSUME NEW r \in Starts, Decodes(r) PROVE StoppedIsShut'
  BY <1>18, <1>0, <1>i DEF Decodes
<1>19. ASSUME NEW r \in Starts, Lists(r) PROVE StoppedIsShut'
  BY <1>19, <1>0, <1>i DEF Lists
<1>20. ASSUME NEW r \in Starts, ShowsSegment(r) PROVE StoppedIsShut'
  BY <1>20, <1>0, <1>i DEF ShowsSegment
<1>21. ASSUME NEW r \in Starts, ShowsState(r) PROVE StoppedIsShut'
  BY <1>21, <1>0, <1>i DEF ShowsState, Shows
<1>22. ASSUME NEW r \in Starts, DecoderFails(r) PROVE StoppedIsShut'
  BY <1>22, <1>0, <1>i, MarksOne DEF DecoderFails
<1>23. CASE UNCHANGED sessionVars
  BY <1>23, <1>0, <1>i DEF sessionVars, threadVars
<1> QED
  BY <1>1, <1>2, <1>3, <1>4, <1>5, <1>6, <1>7, <1>8, <1>9, <1>10, <1>11, <1>12, <1>13, <1>14,
     <1>15, <1>16, <1>17, <1>18, <1>19, <1>20, <1>21, <1>22, <1>23 DEF SessionNext, StartStep,
     StopStep, CaptureStep, LoopStep, DecoderStep

\* A thread that runs ran before, or is launched for a session that is not stopped; and a
\* session is stopped by a stop request.
ThreadsOn ==
  \A r \in Starts : capture'[r] = "on" \/ decoder'[r] = "on" =>
    capture[r] = "on" \/ decoder[r] = "on" \/ sessionIs[r] # "stopped"

\* So it is of every step.
LEMMA SessionThreadsOn ==
  SessionIInv /\ ~overlapped' /\ [SessionNext]_sessionVars => ThreadsOn
<1> SUFFICES ASSUME SessionIInv, ~overlapped', [SessionNext]_sessionVars PROVE ThreadsOn
  OBVIOUS
<1> USE DEF ThreadsOn
<1>0. /\ request \in [Starts \cup Stops -> Done \cup {"checked", "loading", "launched", "marked",
                        "source", "transcriber", "executor", "loop"}]
      /\ known \in [Fields -> Starts \cup {NoStart}]
      /\ sessionIs \in [Starts -> {"none", "starting", "running", "error", "stopped"}]
      /\ capture \in [Starts -> ThreadStates] /\ decoder \in [Starts -> ThreadStates]
      /\ "session" \in Fields /\ "source" \in Fields /\ "transcriber" \in Fields
      /\ "executor" \in Fields /\ "loop" \in Fields /\ NoStart \notin Starts
      /\ Starts \cap Stops = {}
  BY SharedShape, SessionShape DEF SessionIInv
<1>i. AloneMoves /\ LoadingIsKnown
  BY OrderNow, SessionAloneNext DEF SessionIInv, OrderInv
<1>1. ASSUME NEW r \in Starts, StartChecks(r) PROVE ThreadsOn
  BY <1>1, <1>0, <1>i DEF AloneMoves, OnlyOneMoves, GoesTo, Done, StartChecks, threadVars
<1>2. ASSUME NEW r \in Starts, StartCreates(r) PROVE ThreadsOn
  BY <1>2, <1>0, <1>i DEF AloneMoves, OnlyOneMoves, GoesTo, Done, StartCreates, threadVars
<1>3. ASSUME NEW r \in Starts, StartAborts(r) PROVE ThreadsOn
  BY <1>3, <1>0, <1>i DEF AloneMoves, OnlyOneMoves, GoesTo, Done, StartAborts, threadVars
<1>4. ASSUME NEW r \in Starts, StartFails(r) PROVE ThreadsOn
  BY <1>4, <1>0, <1>i, FailsIs DEF AloneMoves, OnlyOneMoves, Done, Fields
<1>5. ASSUME NEW r \in Starts, StartLaunches(r) PROVE ThreadsOn
  BY <1>5, <1>0, <1>i, LaunchesIs DEF AloneMoves, OnlyOneMoves, Done, Fields
<1>6. ASSUME NEW r \in Starts, StartMarks(r) PROVE ThreadsOn
  BY <1>6, <1>0, <1>i, MarksOne DEF AloneMoves, OnlyOneMoves, GoesTo, Done, StartMarks,
     threadVars
<1>7. ASSUME NEW r \in Starts, StartReturns(r) PROVE ThreadsOn
  BY <1>7, <1>0, <1>i DEF AloneMoves, OnlyOneMoves, GoesTo, Done, StartReturns, Shows,
     threadVars
<1>8. ASSUME NEW s \in Stops, StopBegin(s) PROVE ThreadsOn
  BY <1>8, <1>0, <1>i DEF AloneMoves, OnlyOneMoves, GoesTo, Done, StopBegin, threadVars
<1>9. ASSUME NEW s \in Stops, StopSource(s) PROVE ThreadsOn
  BY <1>9, <1>0, <1>i, ToldIs DEF AloneMoves, OnlyOneMoves, GoesTo, Done, StopSource
<1>10. ASSUME NEW s \in Stops, StopTranscriber(s) PROVE ThreadsOn
  BY SMTT(60), <1>10, <1>0, <1>i, ToldIs DEF AloneMoves, OnlyOneMoves, GoesTo, Done, StopTranscriber
<1>11. ASSUME NEW s \in Stops, StopExecutor(s) PROVE ThreadsOn
  BY <1>11, <1>0, <1>i DEF AloneMoves, OnlyOneMoves, GoesTo, Done, StopExecutor
<1>12. ASSUME NEW s \in Stops, StopMarks(s) PROVE ThreadsOn
  BY <1>12, <1>0, <1>i, MarksOne DEF AloneMoves, OnlyOneMoves, GoesTo, Done, StopMarks,
     threadVars
<1>13. ASSUME NEW r \in Starts, Captures(r) PROVE ThreadsOn
  BY <1>13, <1>0, <1>i DEF Captures
<1>14. ASSUME NEW r \in Starts, CaptureFails(r) PROVE ThreadsOn
  BY <1>14, <1>0, <1>i, MarksOne DEF CaptureFails
<1>15. ASSUME NEW r \in Starts, LoopReads(r) PROVE ThreadsOn
  BY <1>15, <1>0, <1>i DEF LoopReads
<1>16. ASSUME NEW r \in Starts, LoopEnds(r) PROVE ThreadsOn
  BY <1>16, <1>0, <1>i DEF LoopEnds
<1>17. ASSUME NEW r \in Starts, NEW c \in Blocks, ProcessChunk(r, c) PROVE ThreadsOn
  BY <1>17, <1>0, <1>i DEF ProcessChunk
<1>18. ASSUME NEW r \in Starts, Decodes(r) PROVE ThreadsOn
  BY <1>18, <1>0, <1>i DEF Decodes
<1>19. ASSUME NEW r \in Starts, Lists(r) PROVE ThreadsOn
  BY <1>19, <1>0, <1>i DEF Lists
<1>20. ASSUME NEW r \in Starts, ShowsSegment(r) PROVE ThreadsOn
  BY <1>20, <1>0, <1>i DEF ShowsSegment
<1>21. ASSUME NEW r \in Starts, ShowsState(r) PROVE ThreadsOn
  BY <1>21, <1>0, <1>i DEF ShowsState, Shows
<1>22. ASSUME NEW r \in Starts, DecoderFails(r) PROVE ThreadsOn
  BY <1>22, <1>0, <1>i, MarksOne DEF DecoderFails
<1>23. CASE UNCHANGED sessionVars
  BY <1>23, <1>0, <1>i DEF sessionVars, threadVars
<1> QED
  BY <1>1, <1>2, <1>3, <1>4, <1>5, <1>6, <1>7, <1>8, <1>9, <1>10, <1>11, <1>12, <1>13, <1>14,
     <1>15, <1>16, <1>17, <1>18, <1>19, <1>20, <1>21, <1>22, <1>23 DEF SessionNext, StartStep,
     StopStep, CaptureStep, LoopStep, DecoderStep

StopsByRequest ==
  /\ \A r \in Starts : sessionIs'[r] = "stopped" =>
       sessionIs[r] = "stopped" \/ \E s \in Stops : StopMarks(s) /\ known["session"] = r
  /\ known'["session"] = known["session"]
       \/ \E r \in Starts : capture[r] = "off" /\ known'["session"] = r /\ Settles

\* So it is of every step.
LEMMA SessionStopsByRequest ==
  SessionIInv /\ ~overlapped' /\ [SessionNext]_sessionVars => StopsByRequest
<1> SUFFICES ASSUME SessionIInv, ~overlapped', [SessionNext]_sessionVars PROVE StopsByRequest
  OBVIOUS
<1> USE DEF StopsByRequest
<1>0. /\ request \in [Starts \cup Stops -> Done \cup {"checked", "loading", "launched", "marked",
                        "source", "transcriber", "executor", "loop"}]
      /\ known \in [Fields -> Starts \cup {NoStart}]
      /\ sessionIs \in [Starts -> {"none", "starting", "running", "error", "stopped"}]
      /\ capture \in [Starts -> ThreadStates] /\ decoder \in [Starts -> ThreadStates]
      /\ "session" \in Fields /\ "source" \in Fields /\ "transcriber" \in Fields
      /\ "executor" \in Fields /\ "loop" \in Fields /\ NoStart \notin Starts
      /\ Starts \cap Stops = {}
  BY SharedShape, SessionShape DEF SessionIInv
<1>i. AloneMoves /\ UnmadeIsUnused
  BY OrderNow, SessionAloneNext DEF SessionIInv, OrderInv
<1>1. ASSUME NEW r \in Starts, StartChecks(r) PROVE StopsByRequest
  BY <1>1, <1>0, <1>i DEF AloneMoves, OnlyOneMoves, GoesTo, Done, StartChecks, threadVars
<1>2. ASSUME NEW r \in Starts, StartCreates(r) PROVE StopsByRequest
  <2>1. capture[r] = "off" /\ known'["session"] = r /\ sessionIs'[r] = "starting"
           /\ \A q \in Starts \ {r} : sessionIs'[q] = sessionIs[q]
    BY <1>2, CreatesIs
  <2>2. Settles
    BY <1>2 DEF StartCreates, threadVars, Settles, Hands
  <2> QED
    BY <2>1, <2>2
<1>3. ASSUME NEW r \in Starts, StartAborts(r) PROVE StopsByRequest
  <2>1. capture[r] = "off" /\ known'["session"] = r /\ sessionIs'[r] = "starting"
           /\ \A q \in Starts \ {r} : sessionIs'[q] = sessionIs[q]
    BY <1>3, AbortsIs
  <2>2. Settles
    BY <1>3 DEF StartAborts, threadVars, Settles, Hands
  <2> QED
    BY <2>1, <2>2
<1>4. ASSUME NEW r \in Starts, StartFails(r) PROVE StopsByRequest
  BY <1>4, <1>0, <1>i, MarksOne DEF AloneMoves, OnlyOneMoves, GoesTo, Done, StartFails,
     threadVars
<1>5. ASSUME NEW r \in Starts, StartLaunches(r) PROVE StopsByRequest
  BY <1>5, <1>0, <1>i DEF AloneMoves, OnlyOneMoves, GoesTo, Done, StartLaunches
<1>6. ASSUME NEW r \in Starts, StartMarks(r) PROVE StopsByRequest
  BY <1>6, <1>0, <1>i, MarksOne DEF AloneMoves, OnlyOneMoves, GoesTo, Done, StartMarks,
     threadVars
<1>7. ASSUME NEW r \in Starts, StartReturns(r) PROVE StopsByRequest
  BY <1>7, <1>0, <1>i DEF AloneMoves, OnlyOneMoves, GoesTo, Done, StartReturns, Shows,
     threadVars
<1>8. ASSUME NEW s \in Stops, StopBegin(s) PROVE StopsByRequest
  BY <1>8, <1>0, <1>i DEF AloneMoves, OnlyOneMoves, GoesTo, Done, StopBegin, threadVars
<1>9. ASSUME NEW s \in Stops, StopSource(s) PROVE StopsByRequest
  BY <1>9, <1>0, <1>i, ToldIs DEF AloneMoves, OnlyOneMoves, GoesTo, Done, StopSource
<1>10. ASSUME NEW s \in Stops, StopTranscriber(s) PROVE StopsByRequest
  BY <1>10, <1>0, <1>i, ToldIs DEF AloneMoves, OnlyOneMoves, GoesTo, Done, StopTranscriber
<1>11. ASSUME NEW s \in Stops, StopExecutor(s) PROVE StopsByRequest
  BY <1>11, <1>0, <1>i DEF AloneMoves, OnlyOneMoves, GoesTo, Done, StopExecutor
<1>12. ASSUME NEW s \in Stops, StopMarks(s) PROVE StopsByRequest
  BY <1>12, <1>0, MarksOne DEF StopMarks
<1>13. ASSUME NEW r \in Starts, Captures(r) PROVE StopsByRequest
  BY <1>13, <1>0, <1>i DEF Captures
<1>14. ASSUME NEW r \in Starts, CaptureFails(r) PROVE StopsByRequest
  BY <1>14, <1>0, <1>i, MarksOne DEF CaptureFails
<1>15. ASSUME NEW r \in Starts, LoopReads(r) PROVE StopsByRequest
  BY <1>15, <1>0, <1>i DEF LoopReads
<1>16. ASSUME NEW r \in Starts, LoopEnds(r) PROVE StopsByRequest
  BY <1>16, <1>0, <1>i DEF LoopEnds
<1>17. ASSUME NEW r \in Starts, NEW c \in Blocks, ProcessChunk(r, c) PROVE StopsByRequest
  BY <1>17, <1>0, <1>i DEF ProcessChunk
<1>18. ASSUME NEW r \in Starts, Decodes(r) PROVE StopsByRequest
  BY <1>18, <1>0, <1>i DEF Decodes
<1>19. ASSUME NEW r \in Starts, Lists(r) PROVE StopsByRequest
  BY <1>19, <1>0, <1>i DEF Lists
<1>20. ASSUME NEW r \in Starts, ShowsSegment(r) PROVE StopsByRequest
  BY <1>20, <1>0, <1>i DEF ShowsSegment
<1>21. ASSUME NEW r \in Starts, ShowsState(r) PROVE StopsByRequest
  BY <1>21, <1>0, <1>i DEF ShowsState, Shows
<1>22. ASSUME NEW r \in Starts, DecoderFails(r) PROVE StopsByRequest
  BY <1>22, <1>0, <1>i, MarksOne DEF DecoderFails
<1>23. CASE UNCHANGED sessionVars
  BY <1>23, <1>0, <1>i DEF sessionVars, threadVars
<1> QED
  BY <1>1, <1>2, <1>3, <1>4, <1>5, <1>6, <1>7, <1>8, <1>9, <1>10, <1>11, <1>12, <1>13, <1>14,
     <1>15, <1>16, <1>17, <1>18, <1>19, <1>20, <1>21, <1>22, <1>23 DEF SessionNext, StartStep,
     StopStep, CaptureStep, LoopStep, DecoderStep

\* What of a start is with another, when a block is appended.
LEMMA AwayGrows ==
  ASSUME NEW f \in [Starts -> Seq(Blocks)], NEW r \in Starts, NEW b \in Blocks
  PROVE  \A q \in Starts : Away(PutIn(f, r, b), q)
                             = Away(f, q) \cup (IF b[1] = q /\ q # r THEN {b} ELSE {})
BY FamilyGrows

\* A session whose capture has not run is heard nowhere.
LEMMA UnheardIsNowhere ==
  ASSUME SessionIInv, NEW r \in Starts, capture[r] = "off"
  PROVE  /\ Away(listed, r) = {} /\ AwayOf(chunks, r) = {}
         /\ Away(toDecode, r) = {} /\ AwayOf(Hands, r) = {}
<1>1. \A b \in Heard : b[1] # r
  BY DEF SessionIInv, HeardIsCaptured
<1>2. /\ Away(listed, r) \subseteq Heard /\ Away(toDecode, r) \subseteq Heard
  BY DEF Away, All, Heard
<1>3. /\ AwayOf(chunks, r) \subseteq Heard /\ AwayOf(Hands, r) \subseteq Heard
  BY DEF AwayOf, AllOf, Heard
<1>4. /\ \A b \in Away(listed, r) : b[1] = r
      /\ \A b \in Away(toDecode, r) : b[1] = r
      /\ \A b \in AwayOf(chunks, r) : b[1] = r
      /\ \A b \in AwayOf(Hands, r) : b[1] = r
  BY DEF Away, AwayOf
<1> QED
  BY <1>1, <1>2, <1>3, <1>4

\* What the moves take from and put into the families of the state.
LEMMA MovesAre ==
  ASSUME SessionIInv
  PROVE  /\ captured \in [Starts -> Seq(Blocks)] /\ toDecode \in [Starts -> Seq(Blocks)]
         /\ listed \in [Starts -> Seq(Blocks)] /\ chunks \in [Starts -> SUBSET Blocks]
         /\ Hands \in [Starts -> SUBSET Blocks]
         /\ Once(captured) /\ OnceOf(chunks) /\ Once(toDecode) /\ OnceOf(Hands) /\ Once(listed)
BY DEF SessionIInv, SessionTyped, SourcesTyped, QueuesTyped, ListsTyped, ExecutorsTyped, Hands,
   PlacesDiffer

\* The block that a loop reads is its source's own.
LEMMA ReadIsOwn ==
  ASSUME SessionIInv, NEW q \in Starts, captured[q] # <<>>
  PROVE  /\ Head(captured[q]) \in Blocks /\ Head(captured[q])[1] = q /\ capture[q] # "off"
<1>1. captured[q] \in Seq(Blocks)
  BY MovesAre
<1>2. Head(captured[q]) \in Blocks /\ Head(captured[q]) = captured[q][1] /\ Len(captured[q]) >= 1
  <2>1. \E b \in Blocks : TRUE
    BY <1>1, Head(captured[q]) \in Blocks
  <2> QED
    BY <1>1, <2>1, SequencesMove
<1>3. 1 \in 1..Len(captured[q])
  BY <1>1, <1>2
<1>4. Head(captured[q])[1] = q
  BY <1>2, <1>3 DEF SessionIInv, SourcesAreTheirs
<1>5. Head(captured[q]) \in Heard
  BY <1>2, <1>3 DEF Heard, All
<1> QED
  BY <1>2, <1>4, <1>5 DEF SessionIInv, HeardIsCaptured

\* What is said in the session that is known stays with its own threads and its own list.
LEMMA MovesAtHome ==
  ASSUME SessionIInv, OrderInv, HomeInv, MovesOne, known["session"] \in Starts
  PROVE  /\ Away(listed', known["session"]) = {} /\ AwayOf(chunks', known["session"]) = {}
         /\ Away(toDecode', known["session"]) = {} /\ AwayOf(Hands', known["session"]) = {}
<1> DEFINE cur == known["session"]
           Home == /\ Away(listed', cur) = {} /\ AwayOf(chunks', cur) = {}
                   /\ Away(toDecode', cur) = {} /\ AwayOf(Hands', cur) = {}
<1>0. /\ Away(listed, cur) = {} /\ AwayOf(chunks, cur) = {} /\ cur \in Starts
      /\ Away(toDecode, cur) = {} /\ AwayOf(Hands, cur) = {}
  BY SessionShape DEF HomeInv, CurrentIsAtHome, SessionIInv
<1>9. capture[cur] # "off" => \A f \in Fields : known[f] = cur
  BY <1>0, SessionShape DEF OrderInv, RunningIsKnown, SessionIInv
<1> HIDE DEF cur
<1>1. ASSUME Settles PROVE Home
  BY <1>0, <1>1 DEF Settles
<1>2. ASSUME NEW r \in Starts, MoveHears(r) PROVE Home
  BY <1>0, <1>2 DEF MoveHears
<1>3. ASSUME NEW q \in Starts, NEW e \in Starts, MoveReads(q, e),
             q = known["source"], e = known["executor"]
      PROVE  Home
  <2> DEFINE b == Head(captured[q])
  <2>1. captured[q] # <<>> /\ chunks' = AddTo(chunks, e, b)
    BY <1>3 DEF MoveReads
  <2>2. b \in Blocks /\ b[1] = q /\ capture[q] # "off"
    BY <2>1, ReadIsOwn
  <2>3. ~(b[1] = cur /\ cur # e)
    BY <2>2, <1>9, <1>3, SessionShape DEF SessionIInv
  <2>4. AwayOf(chunks', cur) = AwayOf(chunks, cur) \cup (IF b[1] = cur
          /\ cur # e THEN {b} ELSE {})
    <3>0. chunks \in [Starts -> SUBSET Blocks]
      BY MovesAre
    <3>2. b \in Blocks
      BY <2>2
    <3> HIDE DEF b
    <3>1. \A p \in Starts : AwayOf(AddTo(chunks, e, b), p)
            = AwayOf(chunks, p) \cup (IF b[1] = p /\ p # e THEN {b} ELSE {})
      BY <3>2, <3>0, SetsGrow, SMTT(30)
    <3> QED
      BY <3>1, <2>1, <1>0
  <2>5. UNCHANGED <<listed, toDecode, Hands>>
    BY <1>3 DEF MoveReads
  <2> QED
    BY <2>3, <2>4, <2>5, <1>0
<1>4. ASSUME NEW e \in Starts, MoveCancels(e) PROVE Home
  <2>1. AwayOf(chunks', cur) \subseteq AwayOf(chunks, cur)
    BY <1>4 DEF MoveCancels, AwayOf
  <2> QED
    BY <1>0, <1>4, <2>1 DEF MoveCancels
<1>5. ASSUME NEW e \in Starts, NEW c \in Blocks, MoveDrops(e, c) PROVE Home
  <2>1. AwayOf(chunks', cur) \subseteq AwayOf(chunks, cur)
    BY <1>5, <1>0, MovesAre, SetsShrink DEF MoveDrops
  <2> QED
    BY <1>0, <1>5, <2>1 DEF MoveDrops
<1>6. ASSUME NEW e \in Starts, NEW c \in Blocks, NEW q \in Starts, MoveSubmits(e, c, q),
             q = known["transcriber"]
      PROVE  Home
  <2>1. c \in chunks[e] /\ chunks' = DropFrom(chunks, e, c) /\ toDecode' = PutIn(toDecode, q, c)
    BY <1>6 DEF MoveSubmits
  <2>2. AwayOf(chunks', cur) \subseteq AwayOf(chunks, cur)
    BY <2>1, <1>0, MovesAre, SetsShrink
  <2>3. c[1] = cur => capture[cur] # "off"
    <3>1. c \in Heard
      BY <2>1 DEF Heard, AllOf
    <3> QED
      BY <3>1 DEF SessionIInv, HeardIsCaptured
  <2>4. ~(c[1] = cur /\ cur # q)
    BY <2>3, <1>9, <1>6, SessionShape DEF SessionIInv
  <2>5. Away(toDecode', cur) = Away(toDecode, cur) \cup (IF c[1] = cur
          /\ cur # q THEN {c} ELSE {})
    <3>0. toDecode \in [Starts -> Seq(Blocks)]
      BY MovesAre
    <3>1. \A p \in Starts : Away(PutIn(toDecode, q, c), p)
            = Away(toDecode, p) \cup (IF c[1] = p /\ p # q THEN {c} ELSE {})
      BY <3>0, AwayGrows
    <3> QED
      BY <3>1, <2>1, <1>0
  <2> QED
    BY <2>2, <2>4, <2>5, <1>0, <1>6 DEF MoveSubmits
<1>7. ASSUME NEW r \in Starts, MoveDecodes(r) PROVE Home
  <2> DEFINE b == Head(toDecode[r])
  <2>1. toDecode[r] # <<>> /\ toDecode' = TakeFrom(toDecode, r) /\ Hands' = AddTo(Hands, r, b)
    BY <1>7 DEF MoveDecodes
  <2>2. /\ b \in Blocks /\ Away(toDecode', cur) \subseteq Away(toDecode, cur)
        /\ b[1] = cur /\ cur # r => b \in Away(toDecode, cur)
    BY <2>1, <1>0, MovesAre, FamilyShrinks
  <2>3. AwayOf(Hands', cur) = AwayOf(Hands, cur) \cup (IF b[1] = cur /\ cur # r THEN {b} ELSE {})
    <3>1. \A p \in Starts : AwayOf(AddTo(Hands, r, b), p)
            = AwayOf(Hands, p) \cup (IF b[1] = p /\ p # r THEN {b} ELSE {})
      BY ZenonT(60), <2>2, MovesAre, SetsGrow
    <3> QED
      BY <3>1, <2>1, <1>0
  <2> QED
    BY <2>2, <2>3, <1>0, <1>7 DEF MoveDecodes
<1>8. ASSUME NEW r \in Starts, NEW c \in Blocks, MoveLists(r, c, cur) PROVE Home
  <2>1. c \in Hands[r] /\ Hands' = DropFrom(Hands, r, c) /\ listed' = PutIn(listed, cur, c)
    BY <1>8 DEF MoveLists
  <2>2. AwayOf(Hands', cur) \subseteq AwayOf(Hands, cur)
    BY <2>1, <1>0, MovesAre, SetsShrink
  <2>3. Away(listed', cur) = Away(listed, cur) \cup (IF c[1] = cur /\ cur # cur THEN {c} ELSE {})
    <3>0. listed \in [Starts -> Seq(Blocks)]
      BY MovesAre
    <3>1. \A p \in Starts : Away(PutIn(listed, cur, c), p)
            = Away(listed, p) \cup (IF c[1] = p /\ p # cur THEN {c} ELSE {})
      BY SMTT(60), <3>0, <1>0, AwayGrows
    <3> QED
      BY <3>1, <2>1, <1>0
  <2> QED
    BY <2>2, <2>3, <1>0, <1>8 DEF MoveLists
<1>10. Home
  BY <1>1, <1>2, <1>3, <1>4, <1>5, <1>6, <1>7, <1>8 DEF MovesOne, cur
<1> QED
  BY <1>10 DEF cur

\* What was said in a session that is stopped is where it was, or on its way into a list.
LEMMA MovesOfStopped ==
  ASSUME SessionIInv, OrderInv, HomeInv, MovesOne, NEW r \in Starts, sessionIs[r] = "stopped"
  PROVE  /\ \A b \in AllOf(chunks') : b[1] # r
         /\ Away(toDecode', r) = {} /\ AwayOf(Hands', r) = {}
         /\ Stray(r)' \subseteq Stray(r)
<1> DEFINE Kept == /\ \A b \in AllOf(chunks') : b[1] # r
                   /\ Away(toDecode', r) = {} /\ AwayOf(Hands', r) = {}
                   /\ Stray(r)' \subseteq Stray(r)
<1>0. /\ \A b \in AllOf(chunks) : b[1] # r
      /\ Away(toDecode, r) = {} /\ AwayOf(Hands, r) = {} /\ decoder[r] # "on"
  BY DEF HomeInv, StoppedIsAtHome
<1>1. ASSUME Settles PROVE Kept
  BY <1>0, <1>1 DEF Settles, Stray
<1>2. ASSUME NEW q \in Starts, MoveHears(q) PROVE Kept
  BY <1>0, <1>2 DEF MoveHears, Stray
<1>3. ASSUME NEW q \in Starts, NEW e \in Starts \ shut, MoveReads(q, e),
             q = known["source"], e = known["executor"]
      PROVE  Kept
  <2> DEFINE b == Head(captured[q])
  <2>1. captured[q] # <<>> /\ chunks' = AddTo(chunks, e, b)
    BY <1>3 DEF MoveReads
  <2>2. b \in Blocks /\ b[1] = q
    BY <2>1, ReadIsOwn
  <2>3. q # r
    BY <1>3, SessionShape DEF HomeInv, StoppedIsShut, SessionIInv
  <2>4. AllOf(chunks') = AllOf(chunks) \cup {b}
    <3>0. chunks \in [Starts -> SUBSET Blocks]
      BY MovesAre
    <3>1. b \in Blocks
      BY <2>2
    <3> HIDE DEF b
    <3> QED
      BY <2>1, <3>0, <3>1, SetsGrow
  <2>5. UNCHANGED <<listed, toDecode, Hands>>
    BY <1>3 DEF MoveReads
  <2> QED
    BY <2>2, <2>3, <2>4, <2>5, <1>0 DEF Stray
<1>4. ASSUME NEW e \in Starts, MoveCancels(e) PROVE Kept
  <2>1. AllOf(chunks') \subseteq AllOf(chunks)
    BY <1>4 DEF MoveCancels, AllOf
  <2> QED
    BY <1>0, <1>4, <2>1 DEF MoveCancels, Stray
<1>5. ASSUME NEW e \in Starts, NEW c \in Blocks, MoveDrops(e, c) PROVE Kept
  <2>1. AllOf(chunks') \subseteq AllOf(chunks)
    <3>1. c \in chunks[e] /\ chunks' = DropFrom(chunks, e, c)
      BY <1>5 DEF MoveDrops
    <3>2. chunks \in [Starts -> SUBSET Blocks] /\ OnceOf(chunks)
      BY MovesAre
    <3> QED
      BY <3>1, <3>2, SetsShrink
  <2> QED
    BY <1>0, <1>5, <2>1 DEF MoveDrops, Stray
<1>6. ASSUME NEW e \in Starts, NEW c \in Blocks, NEW q \in Starts, MoveSubmits(e, c, q)
      PROVE  Kept
  <2>1. c \in chunks[e] /\ chunks' = DropFrom(chunks, e, c) /\ toDecode' = PutIn(toDecode, q, c)
    BY <1>6 DEF MoveSubmits
  <2>2. AllOf(chunks') \subseteq AllOf(chunks) /\ c \in AllOf(chunks)
    <3>1. chunks \in [Starts -> SUBSET Blocks] /\ OnceOf(chunks)
      BY MovesAre
    <3> QED
      BY <2>1, <3>1, SetsShrink
  <2>3. c[1] # r
    BY <2>2, <1>0
  <2>4. Away(toDecode', r) = Away(toDecode, r) \cup (IF c[1] = r /\ r # q THEN {c} ELSE {})
    <3>0. toDecode \in [Starts -> Seq(Blocks)]
      BY MovesAre
    <3>1. \A p \in Starts : Away(PutIn(toDecode, q, c), p)
            = Away(toDecode, p) \cup (IF c[1] = p /\ p # q THEN {c} ELSE {})
      BY <3>0, AwayGrows
    <3> QED
      BY <3>1, <2>1
  <2>5. UNCHANGED <<listed, Hands>>
    BY <1>6 DEF MoveSubmits
  <2> QED
    BY <2>2, <2>3, <2>4, <2>5, <1>0 DEF Stray
<1>7. ASSUME NEW q \in Starts, MoveDecodes(q), decoder[q] = "on" PROVE Kept
  <2> DEFINE b == Head(toDecode[q])
  <2>1. toDecode[q] # <<>> /\ toDecode' = TakeFrom(toDecode, q) /\ Hands' = AddTo(Hands, q, b)
    BY <1>7 DEF MoveDecodes
  <2>2. /\ b \in Blocks /\ Away(toDecode', r) \subseteq Away(toDecode, r)
        /\ b[1] = r /\ r # q => b \in Away(toDecode, r)
    BY <2>1, <1>0, MovesAre, FamilyShrinks
  <2>3. q # r /\ b[1] # r
    BY <2>2, <1>7, <1>0
  <2>4. AwayOf(Hands', r) = AwayOf(Hands, r) \cup (IF b[1] = r /\ r # q THEN {b} ELSE {})
    <3>0. Hands \in [Starts -> SUBSET Blocks]
      BY MovesAre
    <3>2. b \in Blocks
      BY <2>2
    <3> HIDE DEF b
    <3>1. \A p \in Starts : AwayOf(AddTo(Hands, q, b), p)
            = AwayOf(Hands, p) \cup (IF b[1] = p /\ p # q THEN {b} ELSE {})
      BY <3>2, <3>0, SetsGrow, SMTT(30)
    <3> QED
      BY <3>1, <2>1
  <2>5. Hands'[r] = Hands[r]
    <3>0. Hands \in [Starts -> SUBSET Blocks]
      BY MovesAre
    <3> QED
      BY <2>1, <2>3, <3>0 DEF AddTo
  <2>6. UNCHANGED <<chunks, listed>>
    BY <1>7 DEF MoveDecodes
  <2> QED
    BY <2>2, <2>3, <2>4, <2>5, <2>6, <1>0 DEF Stray
<1>8. ASSUME NEW q \in Starts, NEW c \in Blocks, NEW cur \in Starts, MoveLists(q, c, cur)
      PROVE  Kept
  <2>1. c \in Hands[q] /\ Hands' = DropFrom(Hands, q, c) /\ listed' = PutIn(listed, cur, c)
    BY <1>8 DEF MoveLists
  <2>2. /\ AwayOf(Hands', r) \subseteq AwayOf(Hands, r)
        /\ c[1] = r /\ r # q => c \in AwayOf(Hands, r)
    BY <2>1, <1>0, MovesAre, SetsShrink
  <2>3. Away(listed', r) = Away(listed, r) \cup (IF c[1] = r /\ r # cur THEN {c} ELSE {})
    <3>0. listed \in [Starts -> Seq(Blocks)]
      BY MovesAre
    <3>1. \A p \in Starts : Away(PutIn(listed, cur, c), p)
            = Away(listed, p) \cup (IF c[1] = p /\ p # cur THEN {c} ELSE {})
      BY <3>0, AwayGrows
    <3> QED
      BY <3>1, <2>1
  <2>4. c[1] = r => q = r
    BY <2>2, <1>0
  <2>5. Hands'[r] \subseteq Hands[r]
    <3>0. Hands \in [Starts -> SUBSET Blocks]
      BY MovesAre
    <3> QED
      BY <2>1, <3>0 DEF DropFrom
  <2>6. Stray(r)' \subseteq Stray(r)
    BY <2>1, <2>3, <2>4, <2>5 DEF Stray
  <2>7. UNCHANGED <<chunks, toDecode>>
    BY <1>8 DEF MoveLists
  <2> QED
    BY <2>2, <2>6, <2>7, <1>0
<1> QED
  BY <1>1, <1>2, <1>3, <1>4, <1>5, <1>6, <1>7, <1>8 DEF MovesOne

\* What is said in the session in the fields is at home.
LEMMA SessionCurrentNext ==
  SessionIInv /\ ~overlapped' /\ [SessionNext]_sessionVars => CurrentIsAtHome'
<1> SUFFICES ASSUME SessionIInv, ~overlapped', [SessionNext]_sessionVars PROVE CurrentIsAtHome'
  OBVIOUS
<1>1. MovesOne /\ OrderInv /\ HomeInv
  BY NextMoves, OrderNow
<1>2. CASE known'["session"] = known["session"]
  BY <1>1, <1>2, MovesAtHome, SessionShape DEF CurrentIsAtHome, SessionIInv
<1>3. ASSUME NEW r \in Starts, capture[r] = "off", known'["session"] = r, Settles
      PROVE  CurrentIsAtHome'
  BY <1>3, UnheardIsNowhere DEF CurrentIsAtHome, Settles
<1> QED
  BY <1>2, <1>3, SessionStopsByRequest DEF StopsByRequest

\* A session is stopped when its own threads have been told to stop, and its executor is shut.
LEMMA MarkedIsAtHome ==
  ASSUME SessionIInv, OrderInv, HomeInv, NEW s \in Stops, request[s] = "loop",
         NEW r \in Starts, known["session"] = r
  PROVE  /\ capture[r] # "on" /\ decoder[r] # "on"
         /\ \A b \in AllOf(chunks) : b[1] # r
         /\ Away(toDecode, r) = {} /\ AwayOf(Hands, r) = {}
         /\ \A b, d \in Stray(r) : b = d
<1>0. /\ \A f \in Fields : known[f] \in Starts \cup {NoStart}
      /\ "session" \in Fields /\ "source" \in Fields /\ "transcriber" \in Fields
      /\ "executor" \in Fields /\ NoStart \notin Starts
  BY SessionShape DEF SessionIInv
<1>1. /\ known["source"] # NoStart => capture[known["source"]] # "on"
      /\ known["transcriber"] # NoStart => decoder[known["transcriber"]] # "on"
      /\ known["executor"] \in shut \cup {NoStart}
  BY DEF OrderInv, StopsTell
<1>2. capture[r] # "off" => \A f \in Fields : known[f] = r
  BY <1>0 DEF OrderInv, RunningIsKnown
<1>3. capture[r] # "on"
  BY <1>0, <1>1 DEF OrderInv, OpenIsCurrent
<1>4. decoder[r] # "on"
  BY <1>0, <1>1, <1>2 DEF OrderInv, DecodersAreCaptured
<1>5. /\ Away(listed, r) = {} /\ AwayOf(chunks, r) = {}
      /\ Away(toDecode, r) = {} /\ AwayOf(Hands, r) = {}
  BY <1>0 DEF HomeInv, CurrentIsAtHome
<1>6. ASSUME NEW b \in AllOf(chunks), b[1] = r PROVE FALSE
  <2>1. b \in Heard /\ b \in Blocks
    BY DEF Heard, AllOf
  <2>2. capture[r] # "off"
    BY <1>6, <2>1 DEF SessionIInv, HeardIsCaptured
  <2>3. r \in shut
    BY <2>2, <1>0, <1>1, <1>2
  <2>4. chunks[r] = {}
    BY <2>3 DEF SessionIInv, SessionTyped, ExecutorsTyped
  <2>5. b \in AwayOf(chunks, r)
    BY <1>6, <2>1, <2>4 DEF AllOf, AwayOf
  <2> QED
    BY <2>5, <1>5
<1>7. \A b, d \in Stray(r) : b = d
  <2>1. \A b, d \in Hands[r] : b = d
    BY DEF Hands
  <2> QED
    BY <2>1, <1>5 DEF Stray
<1> QED
  BY <1>3, <1>4, <1>5, <1>6, <1>7

\* What was said in a stopped session is where it was when it stopped.
LEMMA SessionStoppedNext ==
  SessionIInv /\ ~overlapped' /\ [SessionNext]_sessionVars => StoppedIsAtHome'
<1> SUFFICES ASSUME SessionIInv, ~overlapped', [SessionNext]_sessionVars,
                    NEW r \in Starts, sessionIs'[r] = "stopped"
             PROVE  /\ capture'[r] # "on" /\ decoder'[r] # "on"
                    /\ \A b \in AllOf(chunks') : b[1] # r
                    /\ Away(toDecode', r) = {} /\ AwayOf(Hands', r) = {}
                    /\ \A b, d \in Stray(r)' : b = d
  BY DEF StoppedIsAtHome
<1>1. MovesOne /\ OrderInv /\ HomeInv
  BY NextMoves, OrderNow
<1>2. CASE sessionIs[r] = "stopped"
  <2>1. capture[r] # "on" /\ decoder[r] # "on" /\ \A b, d \in Stray(r) : b = d
    BY <1>1, <1>2 DEF HomeInv, StoppedIsAtHome
  <2>2. capture'[r] # "on" /\ decoder'[r] # "on"
    BY <1>2, <2>1, SessionThreadsOn DEF ThreadsOn
  <2>3. /\ \A b \in AllOf(chunks') : b[1] # r
        /\ Away(toDecode', r) = {} /\ AwayOf(Hands', r) = {}
        /\ Stray(r)' \subseteq Stray(r)
    BY <1>1, <1>2, MovesOfStopped
  <2> QED
    BY <2>1, <2>2, <2>3
<1>3. ASSUME NEW s \in Stops, StopMarks(s), known["session"] = r
      PROVE  /\ capture'[r] # "on" /\ decoder'[r] # "on"
             /\ \A b \in AllOf(chunks') : b[1] # r
             /\ Away(toDecode', r) = {} /\ AwayOf(Hands', r) = {}
             /\ \A b, d \in Stray(r)' : b = d
  <2>1. request[s] = "loop" /\ UNCHANGED <<capture, decoder, chunks, toDecode, Hands, listed>>
    BY <1>3 DEF StopMarks, threadVars, Hands
  <2>2. /\ capture[r] # "on" /\ decoder[r] # "on"
        /\ \A b \in AllOf(chunks) : b[1] # r
        /\ Away(toDecode, r) = {} /\ AwayOf(Hands, r) = {}
        /\ \A b, d \in Stray(r) : b = d
    BY <2>1, <1>1, <1>3, MarkedIsAtHome
  <2>3. Stray(r)' = Stray(r)
    BY <2>1 DEF Stray
  <2> QED
    BY <2>1, <2>2, <2>3
<1> QED
  BY <1>2, <1>3, SessionStopsByRequest DEF StopsByRequest

\* The invariant holds at first,
LEMMA SessionInitInv == SessionInit => SessionIInv
<1> SUFFICES ASSUME SessionInit PROVE SessionIInv
  OBVIOUS
<1>0. NStarts \in Nat /\ SessionEvents \in Nat /\ NoStart = 0 /\ Starts \cap Stops = {}
  BY SessionAssumption DEF NoStart
<1>1. SessionTyped
  <2>1. <<>> \in Seq(Blocks)
    OBVIOUS
  <2>2. RequestTyped
    BY DEF SessionInit, RequestTyped, Done
  <2>3. GivenTyped /\ KnownTyped /\ SessionsTyped
    BY DEF SessionInit, GivenTyped, KnownTyped, SessionsTyped
  <2>4. ListsTyped /\ SourcesTyped /\ QueuesTyped
    BY <2>1 DEF SessionInit, ListsTyped, SourcesTyped, QueuesTyped
  <2>5. CaptureTyped /\ DecodersTyped
    BY DEF SessionInit, CaptureTyped, DecodersTyped, ThreadStates
  <2>6. LoopsTyped /\ ExecutorsTyped /\ HandlingTyped
    BY DEF SessionInit, LoopsTyped, ExecutorsTyped, HandlingTyped, Handlings
  <2>7. SnapshotTyped /\ SnapshotIs
    BY <2>1 DEF SessionInit, SnapshotTyped, SnapshotIs
  <2>8. EventsTyped
    BY <1>0 DEF SessionInit, EventsTyped
  <2>9. StopTyped /\ OverlapTyped
    BY DEF SessionInit, StopTyped, OverlapTyped
  <2> QED
    BY <2>2, <2>3, <2>4, <2>5, <2>6, <2>7, <2>8, <2>9 DEF SessionTyped
<1>2. 0 \notin Starts
  BY <1>0 DEF Starts
<1>3. /\ \A r \in Starts : request[r] = "idle" /\ capture[r] = "off" /\ decoder[r] = "off"
                           /\ sessionIs[r] = "none" /\ handling[r] = Idle
      /\ \A s \in Stops : request[s] = "idle"
      /\ \A f \in Fields : known[f] = 0
  <2>1. /\ request = [q \in Starts \cup Stops |-> "idle"] /\ known = [f \in Fields |-> NoStart]
        /\ capture = [r \in Starts |-> "off"] /\ decoder = [r \in Starts |-> "off"]
        /\ sessionIs = [r \in Starts |-> "none"] /\ handling = [r \in Starts |-> Idle]
    BY DEF SessionInit
  <2> QED
    BY <2>1, <1>0
<1>4. Heard = {} /\ Hands = [r \in Starts |-> {}]
  <2>1. All(captured) = {} /\ All(toDecode) = {} /\ All(listed) = {} /\ AllOf(chunks) = {}
    BY DEF SessionInit, All, AllOf
  <2>2. Hands = [r \in Starts |-> {}]
    BY <1>3 DEF Hands, Idle
  <2>3. AllOf(Hands) = {}
    BY <2>2 DEF AllOf
  <2> QED
    BY <2>1, <2>2, <2>3 DEF Heard
<1>5. NothingYet /\ GivenIsMade /\ UnmadeIsUnused /\ HeardIsCounted /\ HeardIsCaptured
  BY <1>0, <1>2, <1>3, <1>4 DEF NothingYet, GivenIsMade, UnmadeIsUnused, HeardIsCounted,
     HeardIsCaptured
<1>6. SnapshotCatchesUp
  BY <1>0 DEF SnapshotCatchesUp, SessionInit
<1>7. SourcesAreTheirs
  BY DEF SourcesAreTheirs, SessionInit
<1>8. PlacesDiffer
  <2>1. Once(captured) /\ OnceOf(chunks) /\ Once(toDecode) /\ OnceOf(Hands) /\ Once(listed)
    BY <1>4 DEF SessionInit, Once, OnceOf
  <2>2. /\ All(captured) = {} /\ AllOf(chunks) = {} /\ All(toDecode) = {} /\ AllOf(Hands) = {}
        /\ All(listed) = {}
    BY <1>4 DEF Heard
  <2> QED
    BY <2>1, <2>2 DEF PlacesDiffer
<1>9. OrderInv
  BY <1>0, <1>2, <1>3 DEF OrderInv, OneInFlight, NoneRunsAtStart, LoadingIsKnown,
     LaunchedIsRunning,
     RunningIsKnown, DecodersAreCaptured, StartingIsLaunched, OpenIsCurrent, StopsTell, Done,
     Fields
<1>10. HomeInv
  BY <1>0, <1>3 DEF HomeInv, CurrentIsAtHome, StoppedIsAtHome, StoppedIsShut, Fields
<1> QED
  BY <1>1, <1>5, <1>6, <1>7, <1>8, <1>9, <1>10 DEF SessionIInv

\* and after every step.
LEMMA SessionIInvNext == SessionIInv /\ [SessionNext]_sessionVars => SessionIInv'
<1> SUFFICES ASSUME SessionIInv, [SessionNext]_sessionVars PROVE SessionIInv'
  OBVIOUS
<1>1. SessionTyped' /\ NothingYet' /\ GivenIsMade' /\ UnmadeIsUnused' /\ SnapshotCatchesUp'
  BY SessionTypeNext, SessionNothingNext, SessionGivenNext, SessionUnmadeNext,
     SessionSnapshotNext
<1>2. HeardIsCounted' /\ SourcesAreTheirs' /\ PlacesDiffer' /\ HeardIsCaptured'
  BY SessionHeardNext, SessionSourcesNext
<1>3. ASSUME ~overlapped' PROVE OrderInv' /\ HomeInv'
  <2>1. OrderInv'
    BY <1>3, SessionAloneNext, SessionNoneRunsAtStartNext, SessionLoadingIsKnownNext,
       SessionLaunchedIsRunningNext, SessionRunningIsKnownNext, SessionDecodersAreCapturedNext,
       SessionStartingIsLaunchedNext, SessionOpenIsCurrentNext, SessionStopsTellNext
       DEF OrderInv
  <2>2. HomeInv'
    BY <1>3, SessionCurrentNext, SessionStoppedNext, SessionStoppedIsShutNext DEF HomeInv
  <2> QED
    BY <2>1, <2>2
<1> QED
  BY <1>1, <1>2, <1>3 DEF SessionIInv

\* What the invariant comes to.
LEMMA SessionIInvImplies == SessionIInv => SessionInv
<1> SUFFICES ASSUME SessionIInv PROVE SessionInv
  OBVIOUS
<1>1. SessionTypeOK
  <2>1. \A r \in Starts : handling[r].at \in {"idle", "decoded", "listed", "shown"}
    BY HandlingIs DEF SessionIInv, SessionTyped
  <2> QED
    BY <2>1 DEF SessionIInv, SessionTypeOK, SessionTyped, RequestTyped, GivenTyped, KnownTyped,
       StopTyped, SessionsTyped, ListsTyped, CaptureTyped, SourcesTyped, LoopsTyped,
       ExecutorsTyped, DecodersTyped, QueuesTyped, SnapshotTyped, EventsTyped, OverlapTyped
<1>2. OneHome
  <2> SUFFICES ASSUME NEW b \in Blocks PROVE Cardinality(Places(b)) <= 1
    BY DEF OneHome
  <2>1. ASSUME NEW p \in Places(b), NEW q \in Places(b) PROVE p = q
    <3>1. /\ p \in Starts \X (1..SessionEvents) /\ q \in Starts \X (1..SessionEvents)
          /\ p[2] <= Len(listed[p[1]]) /\ listed[p[1]][p[2]] = b
          /\ q[2] <= Len(listed[q[1]]) /\ listed[q[1]][q[2]] = b
      BY DEF Places
    <3>2. /\ p[1] \in Starts /\ p[2] \in 1..SessionEvents /\ p = <<p[1], p[2]>>
          /\ q[1] \in Starts /\ q[2] \in 1..SessionEvents /\ q = <<q[1], q[2]>>
      BY <3>1
    <3>3. listed[p[1]] \in Seq(Blocks) /\ listed[q[1]] \in Seq(Blocks) /\ Once(listed)
      BY <3>2, MovesAre
    <3>4. p[2] \in 1..Len(listed[p[1]]) /\ q[2] \in 1..Len(listed[q[1]])
      BY <3>1, <3>2, <3>3
    <3>5. p[1] = q[1] /\ p[2] = q[2]
      BY <3>1, <3>2, <3>3, <3>4 DEF Once
    <3> QED
      BY <3>2, <3>5
  <2> QED
    BY <2>1, AtMostOne
<1>3. OpenCaptureIsKnown
  <2>1. ASSUME ~overlapped, NEW r \in Starts, capture[r] = "on"
        PROVE  known["source"] = r \/ sessionIs[r] = "error"
    BY <2>1 DEF SessionIInv, OrderInv, OpenIsCurrent
  <2> QED
    BY <2>1 DEF OpenCaptureIsKnown
<1>4. StoppedSpeechStays
  <2>1. ASSUME ~overlapped, NEW r \in Starts, sessionIs[r] = "stopped"
        PROVE  Cardinality(Foreign(r)) <= 1
    <3>1. \A b, d \in Stray(r) : b = d
      BY <2>1 DEF SessionIInv, HomeInv, StoppedIsAtHome
    <3>2. Foreign(r) \subseteq Stray(r)
      BY DEF Foreign, Stray, Away
    <3>3. \A b, d \in Foreign(r) : b = d
      BY <3>1, <3>2
    <3> HIDE DEF Foreign
    <3> QED
      BY <3>3, AtMostOne
  <2> QED
    BY <2>1 DEF StoppedSpeechStays
<1> QED
  BY <1>1, <1>2, <1>3, <1>4 DEF SessionInv, SessionIInv

\* However requests, their threads and failures interleave, a segment is listed once, and
\* what OpenCaptureIsKnown and StoppedSpeechStays say of requests that do not overlap holds.
THEOREM SpeechHasOneHome == SessionInit /\ [][SessionNext]_sessionVars => []SessionInv
<1>1. SessionInit => SessionIInv
  BY SessionInitInv
<1>2. SessionIInv /\ [SessionNext]_sessionVars => SessionIInv'
  BY SessionIInvNext
<1>3. SessionIInv => SessionInv
  BY SessionIInvImplies
<1> QED
  BY <1>1, <1>2, <1>3, PTL

-----------------------------------------------------------------------------
(* Beside the other components *)

\* What the composition does to a long recording, its manager and threads do.
LEMMA SessionsSteps == Spec => SessionInit /\ [][SessionNext]_sessionVars
<1>1. Init => SessionInit
  BY DEF Init
<1>2. [Next]_vars => [SessionNext]_sessionVars
  BY DEF Next, Alone, vars
<1> QED
  BY <1>1, <1>2, PTL DEF Spec

\* A segment of a long recording (session_manager.py) is listed once, whatever requests overlap;
\* if none do, no source is left open unknown, and no more than one segment of a stopped session
\* is listed in another.
THEOREM SegmentsHaveOneHome == Spec => []SessionInv
<1> QED
  BY SessionsSteps, SpeechHasOneHome, PTL
===========================================================================
