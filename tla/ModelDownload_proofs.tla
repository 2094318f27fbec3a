------------------------ MODULE ModelDownload_proofs ------------------------
(***************************************************************************)
(* Proofs about ModelDownload, whatever calls overlap: its types; that     *)
(* what is in the table is being transferred; and, until an attempt is     *)
(* entered over another, that every transfer is in the table and whatever  *)
(* is in an artifact's place is the remote artifact.                       *)
(***************************************************************************)
EXTENDS ModelDownload, SequenceTheorems, TLAPS

States == {"idle", "catalog", "fetch", "stream", "finalize", "delay", "ended"}
Endings == {"nothing", "underway", "completed", "cancelled", "failed", "crashed"}

-----------------------------------------------------------------------------
(* Types *)

\* A call that waits for its retry has an attempt left.
Delayed == \A d \in Calls : pc[d] = "delay" => attempt[d] < MaxAttempts

TypeInv == TypeOK /\ Delayed

\* The parts of the type invariant that the control of a call changes.
ControlOK ==
  /\ pc \in [Calls -> States]
  /\ at \in [Calls -> Artifacts] /\ off \in [Calls -> Nat]
  /\ told \in [Calls -> Endings]
  /\ entry \in Calls \cup {None}

\* Sizes are natural numbers.
LEMMA SizeType ==
  ASSUME content \in [Inodes -> Seq(0 .. Blocks)], NEW i \in Inodes \cup {0}
  PROVE  Size(i) \in Nat
<1>1. CASE i = 0
  BY <1>1 DEF Size
<1>2. CASE i # 0
  BY <1>2 DEF Size
<1> QED BY <1>1, <1>2

\* Going on keeps the control of a call typed, and leaves it anywhere but in a delay.
LEMMA GoOnType ==
  ASSUME TypeOK, NEW c \in Calls, NEW a \in Nat \ {0},
         NEW temps \in [Artifacts -> Inodes \cup {0}], NEW targets,
         NEW mine \in Calls \cup {None}, GoOn(c, a, temps, targets, mine)
  PROVE  ControlOK' /\ pc'[c] # "delay" /\ \A d \in Calls \ {c} : pc'[d] = pc[d]
<1> USE DEF TypeOK, ControlOK, States, Endings
<1>1. CASE Missing(a, targets) = {} /\ End(c, "completed") /\ entry' = None
           /\ UNCHANGED <<at, off>>
  BY <1>1 DEF End
<1>2. ASSUME NEW j \in Missing(a, targets),
             pc' = [pc EXCEPT ![c] = "fetch"], at' = [at EXCEPT ![c] = j],
             off' = [off EXCEPT ![c] = Size(temps[j])], entry' = mine, UNCHANGED told
      PROVE  ControlOK' /\ pc'[c] # "delay" /\ \A d \in Calls \ {c} : pc'[d] = pc[d]
  <2>1. j \in Artifacts
    BY DownloadAssumption DEF Missing, Artifacts
  <2>2. Size(temps[j]) \in Nat
    BY <2>1, SizeType
  <2> QED BY <1>2, <2>1, <2>2
<1> QED BY <1>1, <1>2 DEF GoOn

\* Throwing ends the call, or delays one that has an attempt left.
LEMMA ThrowType ==
  ASSUME TypeInv, NEW c \in Calls, NEW retryable \in BOOLEAN, Throw(c, retryable)
  PROVE  /\ pc' \in [Calls -> States] /\ told' \in [Calls -> Endings] /\ entry' = None
         /\ pc'[c] = "delay" => attempt[c] < MaxAttempts
         /\ \A d \in Calls \ {c} : pc'[d] = pc[d]
         /\ pc'[c] \in {"delay", "ended"}
BY DEF TypeInv, TypeOK, Throw, End, Retries, States, Endings

\* A written file is a sequence of blocks.
LEMMA WrittenType ==
  ASSUME NEW f \in Seq(0 .. Blocks), NEW k \in 1 .. Blocks, NEW appending \in BOOLEAN
  PROVE  Written(f, k, appending) \in Seq(0 .. Blocks)
<1>1. CASE appending
  BY <1>1, DownloadAssumption DEF Written
<1>2. CASE ~appending
  <2> DEFINE n == IF Len(f) < k THEN k ELSE Len(f)
             g == [j \in 1 .. n |-> IF j = k THEN k ELSE IF j <= Len(f) THEN f[j] ELSE 0]
  <2>1. n \in Nat
    OBVIOUS
  <2>2. \A j \in 1 .. n : g[j] \in 0 .. Blocks
    BY DownloadAssumption
  <2>3. g \in [1 .. n -> 0 .. Blocks]
    BY <2>2
  <2>4. g \in Seq(0 .. Blocks)
    <3> HIDE DEF g, n
    <3> QED BY <2>1, <2>3, SeqDef
  <2> QED BY <1>2, <2>4 DEF Written
<1> QED BY <1>1, <1>2

\* The type invariant is inductive together with Delayed.
LEMMA TypeInvariant == Spec => []TypeInv
<1>1. Init => TypeInv
  <2> SUFFICES ASSUME Init PROVE TypeInv
    OBVIOUS
  <2>1. 0 \in 0 .. MaxAttempts /\ 0 \in 0 .. Blocks /\ 0 \in 0 .. MaxFaults /\ 1 \in Artifacts
    BY DownloadAssumption DEF Artifacts
  <2>2. content \in [Inodes -> Seq(0 .. Blocks)]
    BY DEF Init
  <2>3. TypeOK
    BY <2>1, <2>2 DEF Init, TypeOK
  <2> QED BY <2>3 DEF Init, TypeInv, Delayed
<1>2. TypeInv /\ [Next]_vars => TypeInv'
  <2> SUFFICES ASSUME TypeInv, [Next]_vars PROVE TypeInv'
    OBVIOUS
  <2> USE DEF TypeInv, TypeOK, Delayed
  <2>1. ASSUME NEW c \in Calls, Request(c) PROVE TypeInv'
    <3>1. attempt' \in [Calls -> 0 .. MaxAttempts]
      <4>1. 1 \in 0 .. MaxAttempts
        BY DownloadAssumption
      <4>2. attempt' = attempt \/ attempt' = [attempt EXCEPT ![c] = 1]
        BY <2>1 DEF Request
      <4> QED BY <4>1, <4>2
    <3>2. pc' \in [Calls -> States] /\ told' \in [Calls -> Endings]
      BY <2>1 DEF Request, End, States, Endings
    <3>3. \A d \in Calls : pc'[d] = "delay" => attempt'[d] = attempt[d] /\ pc[d] = "delay"
      BY <2>1 DEF Request, End
    <3> QED BY <2>1, <3>1, <3>2, <3>3 DEF Request, diskVars, States, Endings
  <2>2. ASSUME NEW c \in Calls, CatalogComes(c) PROVE TypeInv'
    <3>1. ControlOK' /\ pc'[c] # "delay" /\ \A d \in Calls \ {c} : pc'[d] = pc[d]
      <4>1. GoOn(c, 1, temp, target, c)
        BY <2>2 DEF CatalogComes
      <4> HIDE DEF TypeOK
      <4>2. temp \in [Artifacts -> Inodes \cup {0}] /\ 1 \in Nat \ {0}
            /\ c \in Calls \cup {None}
        BY DEF TypeOK
      <4> QED BY <4>1, <4>2, GoOnType
    <3> QED BY <2>2, <3>1 DEF CatalogComes, ControlOK, States, Endings
  <2>3. ASSUME NEW c \in Calls, CatalogFails(c) PROVE TypeInv'
    <3>1. faults' \in 0 .. MaxFaults
      BY <2>3, DownloadAssumption DEF CatalogFails, Fault
    <3> QED BY <2>3, <3>1 DEF CatalogFails, Retries, End, diskVars
  <2>4. ASSUME NEW c \in Calls, RetryTimer(c) PROVE TypeInv'
    BY <2>4, DownloadAssumption DEF RetryTimer, diskVars
  <2>5. ASSUME NEW c \in Calls, FetchFails(c) \/ StreamFails(c) PROVE TypeInv'
    <3>1. faults' \in 0 .. MaxFaults
      BY <2>5, DownloadAssumption DEF FetchFails, StreamFails, Fault
    <3>2. PICK retryable \in BOOLEAN : Throw(c, retryable)
      BY <2>5 DEF FetchFails, StreamFails
    <3>3. fd' \in [Calls -> Inodes \cup {0}]
      BY <2>5 DEF FetchFails, StreamFails
    <3> QED BY SMTT(60), <2>5, <3>1, <3>2, <3>3, ThrowType
            DEF FetchFails, StreamFails, diskVars, States, Endings
  <2>6. ASSUME NEW c \in Calls, FetchResumes(c) \/ FetchStarts(c) PROVE TypeInv'
    <3>1. PICK i \in Inodes :
            /\ fd' = [fd EXCEPT ![c] = i]
            /\ temp' = [temp EXCEPT ![at[c]] = i]
            /\ content' = [content EXCEPT ![i] = <<>>] \/ content' = content
      <4>1. Opened(c) \subseteq Inodes
        BY DownloadAssumption DEF Opened, Free
      <4> QED BY <2>6, <4>1 DEF FetchResumes, FetchStarts
    <3>2. content' \in [Inodes -> Seq(0 .. Blocks)]
      <4>1. <<>> \in Seq(0 .. Blocks)
        OBVIOUS
      <4> QED BY <3>1, <4>1
    <3>3. pos' \in [Calls -> 0 .. Blocks]
      <4>1. 0 \in 0 .. Blocks /\ 1 .. Blocks - 1 \subseteq 0 .. Blocks
        BY DownloadAssumption
      <4>2. PICK q \in 0 .. Blocks : pos' = [pos EXCEPT ![c] = q]
        BY <2>6, <4>1 DEF FetchResumes, FetchStarts
      <4> QED BY <4>2
    <3>4. /\ fd' \in [Calls -> Inodes \cup {0}]
          /\ temp' \in [Artifacts -> Inodes \cup {0}]
      BY <3>1
    <3>5. /\ pc' = [pc EXCEPT ![c] = "stream"]
          /\ append' \in [Calls -> BOOLEAN]
          /\ UNCHANGED <<attempt, at, off, aborted, told, entry, dir, target, faults, overrun>>
      BY <2>6 DEF FetchResumes, FetchStarts
    <3> QED BY <3>2, <3>3, <3>4, <3>5
  <2>7. ASSUME NEW c \in Calls, OpenFails(c) PROVE TypeInv'
    <3>1. Throw(c, FALSE)
      BY <2>7 DEF OpenFails
    <3> QED BY <2>7, <3>1, ThrowType DEF OpenFails, diskVars, States, Endings
  <2>8. ASSUME NEW c \in Calls, FetchBeyond(c) \/ Finalize(c) PROVE TypeInv'
    <3>1. /\ temp' \in [Artifacts -> Inodes \cup {0}]
          /\ target' \in [Artifacts -> Inodes \cup {0}]
      BY <2>8 DEF FetchBeyond, Finalize, Renamed
    <3>2. CASE GoOn(c, at[c] + 1, temp', target', entry)
      <4>1. at[c] + 1 \in Nat \ {0}
        BY DownloadAssumption DEF Artifacts
      <4>2. ControlOK' /\ pc'[c] # "delay" /\ \A d \in Calls \ {c} : pc'[d] = pc[d]
        BY <3>1, <3>2, <4>1, GoOnType
      <4> QED BY <2>8, <3>1, <4>2 DEF FetchBeyond, Finalize, ControlOK, States, Endings
    <3>3. CASE Throw(c, FALSE) /\ UNCHANGED <<at, off>>
      BY <2>8, <3>1, <3>3, ThrowType DEF FetchBeyond, Finalize, States, Endings
    <3> QED BY <2>8, <3>2, <3>3 DEF FetchBeyond, Finalize
  <2>9. ASSUME NEW c \in Calls, FetchStale(c) PROVE TypeInv'
    BY <2>9 DEF FetchStale
  <2>10. ASSUME NEW c \in Calls, FetchSkips(c) PROVE TypeInv'
    <3>1. at[c] + 1 \in Nat \ {0}
      BY DownloadAssumption DEF Artifacts
    <3>2. ControlOK' /\ pc'[c] # "delay" /\ \A d \in Calls \ {c} : pc'[d] = pc[d]
      BY <2>10, <3>1, GoOnType DEF FetchSkips
    <3> QED BY <2>10, <3>2 DEF FetchSkips, ControlOK, States, Endings, diskVars
  <2>11. ASSUME NEW c \in Calls, StreamWrites(c) PROVE TypeInv'
    <3>1. pos[c] + 1 \in 1 .. Blocks
      BY <2>11, DownloadAssumption DEF StreamWrites
    <3>2. fd[c] \in Inodes => Written(content[fd[c]], pos[c] + 1, append[c]) \in Seq(0 .. Blocks)
      BY <3>1, WrittenType
    <3>3. content' \in [Inodes -> Seq(0 .. Blocks)]
      BY <2>11, <3>2 DEF StreamWrites
    <3> QED BY <2>11, <3>1, <3>3 DEF StreamWrites
  <2>12. ASSUME NEW c \in Calls, StreamEnds(c) PROVE TypeInv'
    BY <2>12 DEF StreamEnds, diskVars
  <2>13. ASSUME Cancel PROVE TypeInv'
    BY <2>13 DEF Cancel, diskVars
  <2>14. ASSUME Remove PROVE TypeInv'
    BY <2>14 DEF Remove, callVars
  <2>15. ASSUME Crash PROVE TypeInv'
    <3>1. faults' \in 0 .. MaxFaults
      BY <2>15, DownloadAssumption DEF Crash, Fault
    <3> QED BY <2>15, <3>1 DEF Crash, diskVars
  <2>16. CASE UNCHANGED vars
    BY <2>16 DEF vars, callVars, diskVars
  <2> QED BY <2>1, <2>2, <2>3, <2>4, <2>5, <2>6, <2>7, <2>8, <2>9, <2>10, <2>11, <2>12,
             <2>13, <2>14, <2>15, <2>16 DEF Next, Step
<1> QED BY <1>1, <1>2, PTL DEF Spec

\* TypeOK, for any number of calls, artifacts, attempts and faults: every variable of the
\* download manager keeps its type.
THEOREM TypesAreKept == Spec => []TypeOK
<1>1. TypeInv => TypeOK
  BY DEF TypeInv
<1> QED BY <1>1, TypeInvariant, PTL

-----------------------------------------------------------------------------
(* Transfers and the table of downloads *)

\* Where a call may be after going on.
LEMMA GoOnEnters ==
  ASSUME TypeOK, NEW c \in Calls, NEW a, NEW temps, NEW targets, NEW mine,
         GoOn(c, a, temps, targets, mine)
  PROVE  /\ \A d \in Calls \ {c} : pc'[d] = pc[d]
         /\ \/ pc'[c] = "fetch" /\ entry' = mine
            \/ pc'[c] = "ended" /\ entry' = None
BY DEF TypeOK, GoOn, End

\* A call that is not transferring: what it does before its catalogue comes.
Prepares(c) == Request(c) \/ CatalogFails(c) \/ RetryTimer(c)

\* A step of a call moves no other call.  Either it prepares, and the table stays; or its
\* attempt is entered, or over at once; or it goes on with a transfer, whose entry stays or goes.
LEMMA StepMoves ==
  ASSUME TypeInv, NEW c \in Calls, Request(c) \/ Step(c)
  PROVE  /\ \A d \in Calls \ {c} : pc'[d] = pc[d]
         /\ \/ /\ Prepares(c) /\ pc[c] \notin Moving /\ pc'[c] \notin Moving
               /\ entry' = entry /\ overrun' = overrun
            \/ /\ CatalogComes(c) /\ pc[c] \notin Moving
               /\ overrun' = (overrun \/ entry # None)
               /\ entry' = None \/ (entry' = c /\ pc'[c] \in Moving)
            \/ /\ pc[c] \in Moving /\ overrun' = overrun
               /\ \/ entry' = entry /\ pc'[c] \in Moving
                  \/ entry' = None /\ pc'[c] \notin Moving
<1>1. CASE Prepares(c)
  BY <1>1 DEF Prepares, TypeInv, TypeOK, Request, CatalogFails, RetryTimer, End, Moving
<1>2. CASE CatalogComes(c)
  <2>1. GoOn(c, 1, temp, target, c) /\ overrun' = (overrun \/ entry # None) /\ pc[c] = "catalog"
    BY <1>2 DEF CatalogComes
  <2> QED BY <1>2, <2>1, GoOnEnters DEF TypeInv, Moving
<1>3. CASE FetchFails(c) \/ OpenFails(c) \/ StreamFails(c)
  <2>1. PICK retryable \in BOOLEAN : Throw(c, retryable)
    BY <1>3 DEF FetchFails, OpenFails, StreamFails
  <2>2. pc[c] \in Moving /\ overrun' = overrun
    BY <1>3 DEF FetchFails, OpenFails, StreamFails, Moving
  <2> QED BY <2>1, <2>2, ThrowType DEF Moving
<1>4. CASE FetchResumes(c) \/ FetchStarts(c) \/ FetchStale(c) \/ StreamWrites(c)
           \/ StreamEnds(c)
  BY <1>4 DEF TypeInv, TypeOK, FetchResumes, FetchStarts, FetchStale, StreamWrites, StreamEnds,
              Moving
<1>5. CASE FetchBeyond(c) \/ FetchSkips(c) \/ Finalize(c)
  <2>1. pc[c] \in Moving /\ overrun' = overrun
    BY <1>5 DEF FetchBeyond, FetchSkips, Finalize, Moving
  <2>2. Throw(c, FALSE) \/ \E temps, targets : GoOn(c, at[c] + 1, temps, targets, entry)
    BY <1>5 DEF FetchBeyond, FetchSkips, Finalize
  <2> QED BY <2>1, <2>2, GoOnEnters, ThrowType DEF TypeInv, Moving
<1> QED BY <1>1, <1>2, <1>3, <1>4, <1>5 DEF Step, Prepares

EntriesInv == TypeInv /\ TransferIsEntered /\ EntryIsTransferred

\* A call that transfers and is in the table is the only one, unless it is entered over, and
\* the others at most prepare.
LEMMA StepEnters ==
  ASSUME EntriesInv, NEW c \in Calls, Request(c) \/ Step(c)
  PROVE  /\ TransferIsEntered' /\ EntryIsTransferred' /\ (overrun => overrun')
         /\ ~overrun' => Prepares(c) \/ \A d \in Calls \ {c} : pc'[d] \notin Moving
<1> USE DEF EntriesInv
<1>0. entry \in Calls \cup {None} /\ None \notin Calls /\ overrun \in BOOLEAN
  BY DownloadAssumption DEF TypeInv, TypeOK
<1>1. \A d \in Calls \ {c} : pc'[d] = pc[d]
  BY StepMoves
<1>2. CASE /\ Prepares(c) /\ pc[c] \notin Moving /\ pc'[c] \notin Moving
           /\ entry' = entry /\ overrun' = overrun
  BY <1>0, <1>1, <1>2 DEF TransferIsEntered, EntryIsTransferred
<1>3. CASE /\ CatalogComes(c) /\ pc[c] \notin Moving
           /\ overrun' = (overrun \/ entry # None)
           /\ entry' = None \/ (entry' = c /\ pc'[c] \in Moving)
  <2>1. pc'[c] \in Moving => entry' = c
    <3>1. GoOn(c, 1, temp, target, c)
      BY <1>3 DEF CatalogComes
    <3> QED BY <3>1, GoOnEnters DEF TypeInv, Moving
  <2>2. EntryIsTransferred'
    BY <1>0, <1>3 DEF EntryIsTransferred
  <2>3. ASSUME ~overrun' PROVE \A d \in Calls \ {c} : pc'[d] \notin Moving
    <3>1. entry = None /\ ~overrun
      BY <1>3, <2>3
    <3>2. \A d \in Calls : pc[d] \notin Moving
      BY <1>0, <3>1 DEF TransferIsEntered
    <3> QED BY <1>1, <3>2
  <2>4. TransferIsEntered'
    BY <2>1, <2>3 DEF TransferIsEntered
  <2> QED BY <1>0, <1>3, <2>2, <2>3, <2>4
<1>4. CASE /\ pc[c] \in Moving /\ overrun' = overrun
           /\ \/ entry' = entry /\ pc'[c] \in Moving
              \/ entry' = None /\ pc'[c] \notin Moving
  BY <1>0, <1>1, <1>4 DEF TransferIsEntered, EntryIsTransferred
<1> QED BY <1>2, <1>3, <1>4, StepMoves

\* The table is as it should be, whatever the calls, the user and crashes do.
LEMMA EntriesInvariant == Spec => []EntriesInv
<1>1. Init => TransferIsEntered /\ EntryIsTransferred
  BY DEF Init, TransferIsEntered, EntryIsTransferred, Moving
<1>2. EntriesInv /\ [Next]_vars => (TransferIsEntered /\ EntryIsTransferred)'
  <2> SUFFICES ASSUME EntriesInv, [Next]_vars
               PROVE  (TransferIsEntered /\ EntryIsTransferred)'
    OBVIOUS
  <2>1. ASSUME NEW c \in Calls, Request(c) \/ Step(c)
        PROVE  (TransferIsEntered /\ EntryIsTransferred)'
    BY <2>1, StepEnters
  <2>2. ASSUME Cancel \/ Remove \/ UNCHANGED vars
        PROVE  (TransferIsEntered /\ EntryIsTransferred)'
    <3>1. UNCHANGED <<pc, entry, overrun>>
      BY <2>2 DEF Cancel, Remove, callVars, vars
    <3> QED BY <3>1 DEF EntriesInv, TransferIsEntered, EntryIsTransferred
  <2>3. ASSUME Crash PROVE (TransferIsEntered /\ EntryIsTransferred)'
    <3>1. entry' = None /\ \A d \in Calls : pc'[d] \notin Moving
      BY <2>3 DEF Crash, Underway, Moving
    <3> QED BY <3>1 DEF TransferIsEntered, EntryIsTransferred
  <2> QED BY <2>1, <2>2, <2>3 DEF Next
<1> QED BY <1>1, <1>2, TypeInvariant, PTL DEF Spec, EntriesInv

\* DownloadInv, for any number of calls that overlap as they will, and whatever fails and
\* whenever the program ends: what is in the table of downloads is being transferred, and every
\* transfer is in the table until, after both awaited the catalogue, one is entered over another.
THEOREM TransfersAreEntered == Spec => []DownloadInv
<1>1. EntriesInv => DownloadInv
  BY DEF EntriesInv, TypeInv, DownloadInv
<1> QED BY <1>1, EntriesInvariant, PTL

-----------------------------------------------------------------------------
(* What is on the disk *)

\* A file that holds the first blocks of the remote artifact, in order.
Begun(f) == Len(f) <= Blocks /\ \A j \in 1 .. Len(f) : f[j] = j

WholeInPlace == \A a \in Artifacts : target[a] # 0 => content[target[a]] = Remote

OnDisk ==
  /\ \A a \in Artifacts : temp[a] # 0 => Begun(content[temp[a]])
  /\ WholeInPlace
  /\ \A a, b \in Artifacts : temp[a] # 0 /\ temp[a] = temp[b] => a = b
  /\ \A a, b \in Artifacts : temp[a] # 0 => temp[a] # target[b]
  /\ ~dir => \A a \in Artifacts : temp[a] = 0 /\ target[a] = 0

\* The range that was asked for begins where the partial file ends; the stream writes
\* on from there, to a file that is nobody else's; a stream that ended left a whole one.
Fetching(d) == pc[d] = "fetch" /\ dir => off[d] = Size(temp[at[d]])
Streaming(d) ==
  pc[d] = "stream" =>
    /\ fd[d] # 0 /\ Begun(content[fd[d]]) /\ Len(content[fd[d]]) = pos[d]
    /\ \A b \in Artifacts : target[b] # fd[d] /\ (temp[b] = fd[d] => b = at[d])
    /\ dir => temp[at[d]] = fd[d]
Finalizing(d) == pc[d] = "finalize" /\ temp[at[d]] # 0 => content[temp[at[d]]] = Remote

InHand(d) == Fetching(d) /\ Streaming(d) /\ Finalizing(d)
FilesInv == OnDisk /\ \A d \in Calls : InHand(d)

\* A file that holds as many blocks as the artifact, in order, is the artifact.
LEMMA BegunAndLong ==
  ASSUME NEW f \in Seq(0 .. Blocks), Begun(f), Len(f) >= Blocks
  PROVE  f = Remote
<1>1. Blocks \in Nat
  BY DownloadAssumption
<1>2. Len(f) = Blocks
  BY <1>1 DEF Begun
<1>3. f = [j \in 1 .. Blocks |-> f[j]]
  BY <1>2
<1> QED BY <1>2, <1>3 DEF Begun, Remote

\* The next block, appended or put in its place, is in order.
LEMMA WrittenInOrder ==
  ASSUME NEW f \in Seq(0 .. Blocks), Begun(f), Len(f) < Blocks, NEW appending \in BOOLEAN
  PROVE  /\ Begun(Written(f, Len(f) + 1, appending))
         /\ Len(Written(f, Len(f) + 1, appending)) = Len(f) + 1
<1>1. Blocks \in Nat /\ Len(f) \in Nat
  BY DownloadAssumption
<1>2. CASE appending
  BY <1>1, <1>2 DEF Written, Begun
<1>3. CASE ~appending
  <2> DEFINE k == Len(f) + 1
             g == [j \in 1 .. k |-> IF j = k THEN k ELSE IF j <= Len(f) THEN f[j] ELSE 0]
  <2>1. Written(f, k, appending) = g
    BY <1>1, <1>3 DEF Written
  <2>2. Len(g) = k
    BY <1>1
  <2>3. \A j \in 1 .. k : g[j] = j
    BY <1>1 DEF Begun
  <2> QED BY <1>1, <2>1, <2>2, <2>3 DEF Begun
<1> QED BY <1>2, <1>3

\* Renaming a whole partial file, or none, leaves whole files in place.
LEMMA RenamedIsWhole ==
  ASSUME TypeOK, OnDisk, NEW a \in Artifacts, temp[a] # 0 => content[temp[a]] = Remote,
         Renamed(a), UNCHANGED <<dir, content>>
  PROVE  OnDisk'
<1>1. WholeInPlace'
  BY DEF TypeOK, OnDisk, WholeInPlace, Renamed
<1> QED BY <1>1 DEF TypeOK, OnDisk, Renamed

\* Going on asks for the next artifact from where its partial file ends.
LEMMA GoOnInHand ==
  ASSUME TypeOK, NEW c \in Calls, NEW a, NEW targets, NEW mine,
         GoOn(c, a, temp', targets, mine), UNCHANGED content
  PROVE  InHand(c)'
<1>1. CASE Missing(a, targets) = {} /\ End(c, "completed")
  BY <1>1 DEF TypeOK, End, InHand, Fetching, Streaming, Finalizing
<1>2. ASSUME NEW j \in Missing(a, targets), pc' = [pc EXCEPT ![c] = "fetch"],
             at' = [at EXCEPT ![c] = j], off' = [off EXCEPT ![c] = Size(temp'[j])]
      PROVE  InHand(c)'
  <2>1. pc'[c] = "fetch" /\ at'[c] = j /\ off'[c] = Size(temp'[j])
    BY <1>2 DEF TypeOK
  <2>2. Size(temp'[at'[c]]) = Size(temp[at[c]])'
    BY <2>1 DEF Size
  <2> QED BY <2>1, <2>2 DEF InHand, Fetching, Streaming, Finalizing
<1> QED BY <1>1, <1>2 DEF GoOn

\* A call that is not fetching, writing or renaming has nothing in hand.
LEMMA NothingInHand ==
  ASSUME NEW c \in Calls, pc'[c] \notin Moving
  PROVE  InHand(c)'
BY DEF InHand, Fetching, Streaming, Finalizing, Moving

\* A partial file that is open was there before, or is new to every artifact and call.
LEMMA OpenedIsOwn ==
  ASSUME TypeOK, OnDisk, NEW c \in Calls, NEW i \in Opened(c)
  PROVE  /\ i \in Inodes /\ i # 0
         /\ \A b \in Artifacts : target[b] # i /\ (temp[b] = i => b = at[c])
<1>1. at[c] \in Artifacts /\ 0 \notin Inodes
  BY DEF TypeOK, Inodes
<1>2. CASE temp[at[c]] # 0
  BY <1>1, <1>2 DEF Opened, TypeOK, OnDisk
<1>3. CASE temp[at[c]] = 0
  BY <1>1, <1>3 DEF Opened, Free, InUse
<1> QED BY <1>2, <1>3

\* What one call does to the files.
LEMMA StepKeepsFiles ==
  ASSUME TypeInv, TypeInv', FilesInv, NEW c \in Calls, Request(c) \/ Step(c)
  PROVE  OnDisk' /\ InHand(c)'
<1> USE DEF TypeInv
<1>1. TypeOK /\ TypeOK' /\ OnDisk /\ InHand(c)
  BY DEF FilesInv
<1>2. CASE Request(c) \/ CatalogFails(c) \/ RetryTimer(c)
  <2>1. UNCHANGED diskVars /\ pc'[c] \notin Moving
    BY <1>1, <1>2 DEF TypeOK, Request, CatalogFails, RetryTimer, End, Moving
  <2> QED BY <1>1, <2>1, NothingInHand DEF diskVars, OnDisk, WholeInPlace
<1>3. CASE CatalogComes(c)
  <2>1. OnDisk'
    BY <1>1, <1>3 DEF CatalogComes, OnDisk, WholeInPlace
  <2>2. GoOn(c, 1, temp', target, c) /\ UNCHANGED content
    BY <1>3 DEF CatalogComes
  <2> QED BY <1>1, <2>1, <2>2, GoOnInHand
<1>4. CASE FetchFails(c) \/ OpenFails(c) \/ StreamFails(c)
  <2>1. UNCHANGED diskVars /\ \E retryable \in BOOLEAN : Throw(c, retryable)
    BY <1>4 DEF FetchFails, OpenFails, StreamFails
  <2>2. pc'[c] \notin Moving
    BY <2>1, ThrowType DEF Moving
  <2> QED BY <1>1, <2>1, <2>2, NothingInHand DEF diskVars, OnDisk, WholeInPlace
<1>5. CASE FetchResumes(c)
  <2>1. PICK i \in Opened(c) :
          /\ fd' = [fd EXCEPT ![c] = i]
          /\ temp' = [temp EXCEPT ![at[c]] = i]
          /\ content' = IF temp[at[c]] = 0 THEN [content EXCEPT ![i] = <<>>] ELSE content
    BY <1>5 DEF FetchResumes
  <2>2. /\ i \in Inodes /\ i # 0
        /\ \A b \in Artifacts : target[b] # i /\ (temp[b] = i => b = at[c])
    BY <1>1, OpenedIsOwn
  <2>3. /\ pc[c] = "fetch" /\ dir /\ off[c] \in 1 .. Blocks - 1
        /\ pc'[c] = "stream" /\ pos'[c] = off[c]
        /\ UNCHANGED <<at, dir, target>>
    BY <1>1, <1>5 DEF TypeOK, FetchResumes
  <2>4. temp[at[c]] # 0 /\ off[c] = Len(content[temp[at[c]]])
    BY <1>1, <2>3 DEF InHand, Fetching, Size
  <2>5. i = temp[at[c]] /\ UNCHANGED <<temp, content>>
    BY <1>1, <2>1, <2>4 DEF Opened, TypeOK
  <2>6. OnDisk'
    BY <1>1, <2>3, <2>5 DEF OnDisk, WholeInPlace
  <2>7. fd'[c] = i /\ at[c] \in Artifacts
    BY <1>1, <2>1 DEF TypeOK
  <2>8. InHand(c)'
    BY <1>1, <2>2, <2>3, <2>4, <2>5, <2>7 DEF InHand, Fetching, Streaming, Finalizing, OnDisk
  <2> QED BY <2>6, <2>8
<1>6. CASE FetchStarts(c)
  <2>1. PICK i \in Opened(c) :
          /\ fd' = [fd EXCEPT ![c] = i]
          /\ temp' = [temp EXCEPT ![at[c]] = i]
          /\ content' = [content EXCEPT ![i] = <<>>]
    BY <1>6 DEF FetchStarts
  <2>2. /\ i \in Inodes /\ i # 0
        /\ \A b \in Artifacts : target[b] # i /\ (temp[b] = i => b = at[c])
    BY <1>1, OpenedIsOwn
  <2>3. /\ dir /\ pc'[c] = "stream" /\ pos'[c] = 0 /\ fd'[c] = i
        /\ at[c] \in Artifacts /\ temp'[at[c]] = i /\ content'[i] = <<>>
        /\ UNCHANGED <<at, dir, target>>
    BY <1>1, <1>6, <2>1, <2>2 DEF TypeOK, FetchStarts
  <2>4. Begun(<<>>) /\ Len(<<>>) = 0
    BY DownloadAssumption DEF Begun
  <2>5. \A a \in Artifacts : temp'[a] # 0 => Begun(content'[temp'[a]])
    BY <1>1, <2>1, <2>2, <2>3, <2>4 DEF TypeOK, OnDisk
  <2>6. WholeInPlace'
    BY <1>1, <2>1, <2>2, <2>3 DEF TypeOK, OnDisk, WholeInPlace
  <2>7. OnDisk'
    BY <1>1, <2>1, <2>2, <2>3, <2>5, <2>6 DEF TypeOK, OnDisk
  <2>8. InHand(c)'
    BY <1>1, <2>1, <2>2, <2>3, <2>4 DEF TypeOK, InHand, Fetching, Streaming, Finalizing
  <2> QED BY <2>7, <2>8
<1>7. CASE FetchBeyond(c)
  <2>1. at[c] \in Artifacts /\ Blocks \in Nat
    BY <1>1, DownloadAssumption DEF TypeOK
  <2>2. temp[at[c]] # 0 => content[temp[at[c]]] = Remote
    <3> SUFFICES ASSUME temp[at[c]] # 0 PROVE content[temp[at[c]]] = Remote
      OBVIOUS
    <3>1. off[c] = Len(content[temp[at[c]]]) /\ off[c] >= Blocks
      BY <1>1, <1>7, <2>1 DEF FetchBeyond, InHand, Fetching, OnDisk, Size
    <3>2. content[temp[at[c]]] \in Seq(0 .. Blocks) /\ Begun(content[temp[at[c]]])
      BY <1>1, <2>1 DEF TypeOK, OnDisk
    <3> QED BY <3>1, <3>2, BegunAndLong
  <2>3. OnDisk'
    BY <1>1, <1>7, <2>1, <2>2, RenamedIsWhole DEF FetchBeyond
  <2>4. Throw(c, FALSE) \/ GoOn(c, at[c] + 1, temp', target', entry)
    BY <1>7 DEF FetchBeyond
  <2>5. CASE Throw(c, FALSE)
    BY <2>3, <2>5, ThrowType, NothingInHand DEF Moving
  <2>6. CASE GoOn(c, at[c] + 1, temp', target', entry)
    BY <1>1, <1>7, <2>3, <2>6, GoOnInHand DEF FetchBeyond
  <2> QED BY <2>4, <2>5, <2>6
<1>8. CASE Finalize(c)
  <2>1. at[c] \in Artifacts /\ (temp[at[c]] # 0 => content[temp[at[c]]] = Remote)
    BY <1>1, <1>8 DEF TypeOK, Finalize, InHand, Finalizing
  <2>2. OnDisk'
    BY <1>1, <1>8, <2>1, RenamedIsWhole DEF Finalize
  <2>3. Throw(c, FALSE) \/ GoOn(c, at[c] + 1, temp', target', entry)
    BY <1>8 DEF Finalize
  <2>4. CASE Throw(c, FALSE)
    BY <2>2, <2>4, ThrowType, NothingInHand DEF Moving
  <2>5. CASE GoOn(c, at[c] + 1, temp', target', entry)
    BY <1>1, <1>8, <2>2, <2>5, GoOnInHand DEF Finalize
  <2> QED BY <2>3, <2>4, <2>5
<1>9. CASE FetchStale(c)
  <2>1. /\ pc'[c] = "fetch" /\ at[c] \in Artifacts /\ temp'[at[c]] = 0 /\ off'[c] = 0
        /\ UNCHANGED <<at, dir, target, content>>
        /\ \A b \in Artifacts : b # at[c] => temp'[b] = temp[b]
    BY <1>1, <1>9 DEF TypeOK, FetchStale
  <2>2. OnDisk'
    BY <1>1, <2>1 DEF OnDisk, WholeInPlace
  <2>3. InHand(c)'
    BY <2>1 DEF InHand, Fetching, Streaming, Finalizing, Size
  <2> QED BY <2>2, <2>3
<1>10. CASE FetchSkips(c)
  <2>1. UNCHANGED diskVars /\ GoOn(c, at[c] + 1, temp, target, entry)
    BY <1>10 DEF FetchSkips
  <2>2. GoOn(c, at[c] + 1, temp', target, entry) /\ UNCHANGED content
    BY <2>1 DEF diskVars
  <2> QED BY <1>1, <2>1, <2>2, GoOnInHand DEF diskVars, OnDisk, WholeInPlace
<1>11. CASE StreamWrites(c)
  <2> DEFINE f == content[fd[c]]
             g == Written(f, pos[c] + 1, append[c])
  <2>1. /\ pc[c] = "stream" /\ pc'[c] = "stream" /\ pos'[c] = pos[c] + 1 /\ pos[c] < Blocks
        /\ content' = [content EXCEPT ![fd[c]] = g]
        /\ UNCHANGED <<at, fd, dir, temp, target>>
    BY <1>1, <1>11 DEF TypeOK, StreamWrites
  <2>2. /\ fd[c] \in Inodes /\ Begun(f) /\ Len(f) = pos[c]
        /\ \A b \in Artifacts : target[b] # fd[c] /\ (temp[b] = fd[c] => b = at[c])
        /\ dir => temp[at[c]] = fd[c]
    BY <1>1, <2>1 DEF TypeOK, InHand, Streaming
  <2>3. Begun(g) /\ Len(g) = pos[c] + 1
    BY <1>1, <2>1, <2>2, WrittenInOrder DEF TypeOK
  <2>4. content'[fd[c]] = g /\ \A i \in Inodes \ {fd[c]} : content'[i] = content[i]
    <3> HIDE DEF g
    <3> QED BY <1>1, <2>1, <2>2 DEF TypeOK
  <2> HIDE DEF f, g
  <2>5. OnDisk'
    <3>1. \A a \in Artifacts : temp[a] # 0 => Begun(content'[temp[a]])
      BY <1>1, <2>3, <2>4 DEF TypeOK, OnDisk
    <3>2. \A a \in Artifacts : target[a] # 0 => content'[target[a]] = Remote
      BY <1>1, <2>2, <2>4 DEF TypeOK, OnDisk, WholeInPlace
    <3> QED BY <1>1, <2>1, <3>1, <3>2 DEF OnDisk, WholeInPlace
  <2>6. InHand(c)'
    BY <1>1, <2>1, <2>2, <2>3, <2>4 DEF InHand, Fetching, Streaming, Finalizing, TypeOK, Inodes
  <2> QED BY <2>5, <2>6
<1>12. CASE StreamEnds(c)
  <2>1. /\ pc[c] = "stream" /\ pc'[c] = "finalize" /\ pos[c] = Blocks
        /\ UNCHANGED <<at, dir, temp, target, content>>
    BY <1>1, <1>12 DEF TypeOK, StreamEnds, diskVars
  <2>2. OnDisk'
    BY <1>1, <2>1 DEF OnDisk, WholeInPlace
  <2>3. temp[at[c]] # 0 => content[temp[at[c]]] = Remote
    <3> SUFFICES ASSUME temp[at[c]] # 0 PROVE content[temp[at[c]]] = Remote
      OBVIOUS
    <3>1. at[c] \in Artifacts /\ dir /\ temp[at[c]] = fd[c]
      BY <1>1, <2>1 DEF TypeOK, OnDisk, InHand, Streaming
    <3>2. content[fd[c]] \in Seq(0 .. Blocks) /\ Begun(content[fd[c]])
          /\ Len(content[fd[c]]) = Blocks
      BY <1>1, <2>1, <3>1 DEF TypeOK, InHand, Streaming
    <3>3. Blocks \in Nat
      BY DownloadAssumption
    <3> QED BY <3>1, <3>2, <3>3, BegunAndLong
  <2>4. InHand(c)'
    BY <2>1, <2>3 DEF InHand, Fetching, Streaming, Finalizing
  <2> QED BY <2>2, <2>4
<1> QED BY <1>2, <1>3, <1>4, <1>5, <1>6, <1>7, <1>8, <1>9, <1>10, <1>11, <1>12 DEF Step

\* A call that prepares has nothing in hand, and leaves to the others what they have.
LEMMA PreparesAside ==
  ASSUME NEW c \in Calls, Prepares(c), NEW d \in Calls
  PROVE  /\ UNCHANGED <<at, off, fd, pos, diskVars>>
         /\ d # c /\ TypeInv => pc'[d] = pc[d] /\ told'[d] = told[d]
BY DEF Prepares, Request, CatalogFails, RetryTimer, End, TypeInv, TypeOK

\* InstalledIsWhole, for any number of artifacts, blocks, attempts, calls, faults, cancels and
\* removals: until an attempt is entered over another, a file in an artifact's place is the
\* artifact.
THEOREM InstalledArtifactsAreWhole == Spec => []InstalledIsWhole
<1> DEFINE Files == ~overrun => FilesInv
<1>1. Init => Files
  BY DEF Init, FilesInv, OnDisk, WholeInPlace, InHand, Fetching, Streaming, Finalizing
<1>2. EntriesInv /\ EntriesInv' /\ Files /\ [Next]_vars => Files'
  <2> SUFFICES ASSUME EntriesInv, EntriesInv', Files, [Next]_vars, ~overrun' PROVE FilesInv'
    OBVIOUS
  <2>1. ASSUME NEW c \in Calls, Request(c) \/ Step(c) PROVE FilesInv'
    <3>0. FilesInv
      BY <2>1, StepEnters
    <3>1. OnDisk' /\ InHand(c)'
      BY <2>1, <3>0, StepKeepsFiles DEF EntriesInv
    <3>2. CASE Prepares(c)
      <4>1. ASSUME NEW d \in Calls \ {c} PROVE InHand(d)'
        <5>1. UNCHANGED <<at, off, fd, pos, diskVars>> /\ pc'[d] = pc[d]
          BY <3>2, PreparesAside DEF EntriesInv
        <5> QED BY <3>0, <5>1 DEF FilesInv, InHand, Fetching, Streaming, Finalizing, Size,
                                  diskVars
      <4> QED BY <3>1, <4>1 DEF FilesInv
    <3>3. CASE \A d \in Calls \ {c} : pc'[d] \notin Moving
      BY <3>1, <3>3, NothingInHand DEF FilesInv
    <3> QED BY <2>1, <3>2, <3>3, StepEnters
  <2>2. CASE Cancel \/ UNCHANGED vars
    BY <2>2 DEF Cancel, callVars, diskVars, vars, FilesInv, OnDisk, WholeInPlace, InHand,
                Fetching, Streaming, Finalizing, Size
  <2>3. CASE Remove
    <3>1. OnDisk'
      BY <2>3 DEF Remove, OnDisk, WholeInPlace
    <3>2. \A d \in Calls : InHand(d)'
      BY <2>3 DEF Remove, callVars, FilesInv, InHand, Fetching, Streaming, Finalizing,
                  EntriesInv, TypeInv, TypeOK
    <3> QED BY <3>1, <3>2 DEF FilesInv
  <2>4. CASE Crash
    <3>1. OnDisk'
      BY <2>4 DEF Crash, diskVars, FilesInv, OnDisk, WholeInPlace
    <3>2. \A d \in Calls : pc'[d] \notin Moving
      BY <2>4 DEF Crash, Underway, Moving
    <3> QED BY <3>1, <3>2, NothingInHand DEF FilesInv
  <2> QED BY <2>1, <2>2, <2>3, <2>4 DEF Next
<1>3. Files => InstalledIsWhole
  BY DEF FilesInv, OnDisk, WholeInPlace, InstalledIsWhole
<1> QED BY <1>1, <1>2, <1>3, EntriesInvariant, PTL DEF Spec

-----------------------------------------------------------------------------
(* What a completed download has *)

\* The artifacts before a are in their places, but for optional ones.
Had(a, targets) == \A k \in Artifacts : k < a => k \in Optional \/ targets[k] # 0

Gathered(d) == pc[d] \in Moving /\ dir => Had(at[d], target)
GatheredInv == \A d \in Calls : Gathered(d)

\* What CompletedHasAll says of one call.
HasAll(d) ==
  told[d] = "nothing" /\ told'[d] = "completed" /\ dir'
    => \A a \in Artifacts \ Optional : target'[a] # 0

\* Going on at artifact a gathers what comes before the next one, or all of it.
LEMMA GoOnGathers ==
  ASSUME TypeOK, NEW c \in Calls, NEW a \in Nat \ {0}, NEW temps, NEW mine,
         GoOn(c, a, temps, target', mine), dir' => Had(a, target')
  PROVE  Gathered(c)' /\ HasAll(c)
<1>1. CASE Missing(a, target') = {} /\ End(c, "completed")
  <2>1. \A k \in Artifacts : k >= a => target'[k] # 0
    BY <1>1, DownloadAssumption DEF Missing, Present, Artifacts
  <2>2. pc'[c] = "ended"
    BY <1>1 DEF End, TypeOK
  <2> QED BY <2>1, <2>2 DEF Had, HasAll, Gathered, Moving, Artifacts
<1>2. ASSUME NEW j \in Missing(a, target'), \A m \in Missing(a, target') : j <= m,
             pc' = [pc EXCEPT ![c] = "fetch"], at' = [at EXCEPT ![c] = j], UNCHANGED told
      PROVE  Gathered(c)' /\ HasAll(c)
  <2>1. j \in Artifacts /\ \A k \in Artifacts : k >= a /\ k < j => target'[k] # 0
    BY <1>2, DownloadAssumption DEF Missing, Present, Artifacts
  <2>2. at'[c] = j
    BY <1>2 DEF TypeOK
  <2>3. dir' => Had(j, target')
    BY <2>1 DEF Had, Artifacts
  <2> QED BY <1>2, <2>2, <2>3 DEF HasAll, Gathered
<1> QED BY <1>1, <1>2 DEF GoOn

\* A call that fails, is retried or is not there any more has nothing to have gathered.
LEMMA ThrowGathers ==
  ASSUME TypeInv, NEW c \in Calls, NEW retryable \in BOOLEAN, Throw(c, retryable)
  PROVE  Gathered(c)' /\ HasAll(c)
BY DEF TypeInv, TypeOK, Throw, End, Gathered, HasAll, Moving

\* What one call does to what has been gathered.
LEMMA StepGathers ==
  ASSUME TypeInv, GatheredInv, NEW c \in Calls, Request(c) \/ Step(c)
  PROVE  /\ Gathered(c)' /\ HasAll(c)
         /\ \A d \in Calls \ {c} : told'[d] = told[d]
<1> USE DEF TypeInv
<1>1. Gathered(c) /\ at[c] \in Artifacts
  BY DEF GatheredInv, TypeOK
<1>2. \A d \in Calls \ {c} : told'[d] = told[d]
  BY DEF Step, Request, CatalogComes, CatalogFails, RetryTimer, FetchFails, FetchResumes,
         FetchStarts, OpenFails, FetchBeyond, FetchStale, FetchSkips, StreamWrites,
         StreamFails, StreamEnds, Finalize, GoOn, Throw, End, TypeOK
<1>3. CASE Request(c) \/ CatalogFails(c) \/ RetryTimer(c)
  BY <1>3 DEF TypeOK, Request, CatalogFails, RetryTimer, End, Gathered, HasAll, Moving
<1>4. CASE CatalogComes(c)
  <2>1. GoOn(c, 1, temp, target', c) /\ Had(1, target')
    BY <1>4 DEF CatalogComes, Had, Artifacts
  <2> QED BY <1>2, <2>1, GoOnGathers
<1>5. CASE FetchFails(c) \/ OpenFails(c) \/ StreamFails(c)
  <2>1. \E retryable \in BOOLEAN : Throw(c, retryable)
    BY <1>5 DEF FetchFails, OpenFails, StreamFails
  <2> QED BY <1>2, <2>1, ThrowGathers
<1>6. CASE FetchResumes(c) \/ FetchStarts(c) \/ FetchStale(c) \/ StreamWrites(c)
           \/ StreamEnds(c)
  <2>1. pc[c] \in Moving /\ UNCHANGED <<at, dir, target, told>>
    BY <1>6 DEF FetchResumes, FetchStarts, FetchStale, StreamWrites, StreamEnds, diskVars,
                Moving
  <2> QED BY <1>1, <1>2, <2>1 DEF Gathered, HasAll, Had
<1>7. CASE FetchBeyond(c) \/ Finalize(c)
  <2>1. pc[c] \in Moving /\ UNCHANGED dir /\ Renamed(at[c])
    BY <1>7 DEF FetchBeyond, Finalize, Moving
  <2>2. Throw(c, FALSE) \/ (temp[at[c]] # 0 /\ GoOn(c, at[c] + 1, temp', target', entry))
    BY <1>7 DEF FetchBeyond, Finalize
  <2>3. CASE temp[at[c]] # 0 /\ GoOn(c, at[c] + 1, temp', target', entry)
    <3>1. dir' => Had(at[c] + 1, target')
      BY <1>1, <2>1, <2>3 DEF Gathered, Had, Renamed, TypeOK, Artifacts
    <3>2. at[c] + 1 \in Nat \ {0}
      BY <1>1 DEF Artifacts
    <3> QED BY <1>2, <2>3, <3>1, <3>2, GoOnGathers
  <2> QED BY <1>2, <2>2, <2>3, ThrowGathers
<1>8. CASE FetchSkips(c)
  <2>1. /\ pc[c] \in Moving /\ at[c] \in Optional /\ UNCHANGED <<dir, target>>
        /\ GoOn(c, at[c] + 1, temp, target', entry)
    BY <1>8 DEF FetchSkips, diskVars, Moving
  <2>2. dir' => Had(at[c] + 1, target')
    BY <1>1, <2>1 DEF Gathered, Had, Artifacts
  <2>3. at[c] + 1 \in Nat \ {0}
    BY <1>1 DEF Artifacts
  <2> QED BY <1>2, <2>1, <2>2, <2>3, GoOnGathers
<1> QED BY <1>2, <1>3, <1>4, <1>5, <1>6, <1>7, <1>8 DEF Step

\* CompletedHasAll, for any model, calls, faults and cancels: until an attempt is entered over
\* another, and when the model is not removed meanwhile, a download that is told to be complete
\* has brought every artifact that is not optional.
THEOREM CompletedDownloadsHaveAll == Spec => CompletedHasAll
<1> DEFINE Gathers == ~overrun => GatheredInv
<1>1. Init => Gathers
  BY DEF Init, GatheredInv, Gathered, Moving
<1>2. EntriesInv /\ Gathers /\ [Next]_vars
        => Gathers' /\ (~overrun' => \A d \in Calls : HasAll(d))
  <2> SUFFICES ASSUME EntriesInv, Gathers, [Next]_vars, ~overrun'
               PROVE  GatheredInv' /\ \A d \in Calls : HasAll(d)
    OBVIOUS
  <2>1. ASSUME NEW c \in Calls, Request(c) \/ Step(c)
        PROVE  GatheredInv' /\ \A d \in Calls : HasAll(d)
    <3>0. GatheredInv
      BY <2>1, StepEnters
    <3>1. /\ Gathered(c)' /\ HasAll(c)
          /\ \A d \in Calls \ {c} : told'[d] = told[d]
      BY <2>1, <3>0, StepGathers DEF EntriesInv
    <3>2. CASE Prepares(c)
      <4>1. ASSUME NEW d \in Calls \ {c} PROVE Gathered(d)'
        <5>1. UNCHANGED <<at, diskVars>> /\ pc'[d] = pc[d]
          BY <3>2, PreparesAside DEF EntriesInv
        <5> QED BY <3>0, <5>1 DEF GatheredInv, Gathered, Had, diskVars
      <4> QED BY <3>1, <4>1 DEF GatheredInv, HasAll
    <3>3. CASE \A d \in Calls \ {c} : pc'[d] \notin Moving
      BY <3>1, <3>3 DEF GatheredInv, Gathered, HasAll
    <3> QED BY <2>1, <3>2, <3>3, StepEnters
  <2>2. CASE Cancel \/ Remove \/ UNCHANGED vars
    BY <2>2 DEF Cancel, Remove, callVars, diskVars, vars, GatheredInv, Gathered, HasAll, Had
  <2>3. CASE Crash
    BY <2>3 DEF Crash, Underway, GatheredInv, Gathered, HasAll, Moving
  <2> QED BY <2>1, <2>2, <2>3 DEF Next
<1>3. (~overrun' => \A d \in Calls : HasAll(d))
        => \A c \in Calls : told[c] = "nothing" /\ told'[c] = "completed" /\ dir' /\ ~overrun'
             => \A a \in Artifacts \ Optional : target'[a] # 0
  BY DEF HasAll
<1> QED BY <1>1, <1>2, <1>3, EntriesInvariant, PTL DEF Spec, CompletedHasAll

=============================================================================
