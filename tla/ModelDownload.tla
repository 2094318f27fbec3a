--------------------------- MODULE ModelDownload ---------------------------
(***************************************************************************)
(* The download of one model, ModelDownloadManager of                      *)
(* app/electron/main/services/modelDownloadManager.js: its artifacts are   *)
(* fetched one after the other into ".partial" files that survive a failed *)
(* attempt or the end of the program, and are renamed when they are        *)
(* complete.  The manager runs on the JavaScript event loop of the main    *)
(* process: what lies between two awaits is one action.                    *)
(*                                                                         *)
(* A file is a numbered inode, because a stream goes on writing to the     *)
(* file it opened after the file is renamed or removed.  Its content is    *)
(* the sequence of the remote blocks it holds, 0 where nothing was written.*)
(* Every remote artifact has the same Blocks blocks, always.               *)
(***************************************************************************)
EXTENDS Naturals, Sequences, FiniteSets

CONSTANTS Calls,        \* calls of downloadModel, all for the one model
          None,         \* no call
          NArtifacts,   \* artifacts of the model
          Optional,     \* the artifacts that may be missing on the server
          Blocks,       \* size of an artifact
          MinBlocks,    \* its min_size_bytes
          MaxAttempts,  \* maxRetries
          MaxFaults     \* bound: network faults and crashes

Artifacts == 1 .. NArtifacts

ASSUME DownloadAssumption ==
  /\ None \notin Calls
  /\ IsFiniteSet(Calls)
  /\ NArtifacts \in Nat \ {0}
  /\ Optional \subseteq Artifacts
  /\ Blocks \in Nat \ {0}
  /\ MinBlocks \in 1 .. Blocks
  /\ MaxAttempts \in Nat \ {0}
  /\ MaxFaults \in Nat

VARIABLES
  pc, attempt,    \* where each call is, and the attempt it makes
  at, off,        \* the artifact it fetches, and from which block
  fd, append,     \* the file it writes (0 if none), and whether by appending
  pos,            \* the last remote block it wrote
  aborted,        \* controller.signal.aborted
  told,           \* how each call ended
  entry,          \* this.downloads: the call entered for the model
  dir,            \* does the install directory exist?
  temp, target,   \* the inodes of each artifact's two files, 0 if absent
  content,        \* what each inode holds
  faults,         \* faults so far
  overrun         \* history: an attempt was entered over another that was in the table

callVars == <<pc, attempt, at, off, fd, append, pos, aborted, told>>
diskVars == <<dir, temp, target, content>>
vars == <<callVars, diskVars, entry, faults, overrun>>

Inodes == 1 .. 2 * NArtifacts + Cardinality(Calls)
InUse == {temp[a] : a \in Artifacts} \cup {target[a] : a \in Artifacts}
         \cup {fd[c] : c \in Calls}
Free == {i \in Inodes \ InUse : \A j \in Inodes \ InUse : i <= j}

Remote == [k \in 1 .. Blocks |-> k]
Size(i) == IF i = 0 THEN 0 ELSE Len(content[i])
\* The model service, and the manager itself, look at sizes only.
Present(files, a) == files[a] # 0 /\ Size(files[a]) >= MinBlocks

Underway == {c \in Calls : pc[c] \notin {"idle", "ended"}}
Fault == faults < MaxFaults /\ faults' = faults + 1

Init ==
  /\ pc = [c \in Calls |-> "idle"]
  /\ attempt = [c \in Calls |-> 0]
  /\ at = [c \in Calls |-> 1]
  /\ off = [c \in Calls |-> 0]
  /\ fd = [c \in Calls |-> 0]
  /\ append = [c \in Calls |-> FALSE]
  /\ pos = [c \in Calls |-> 0]
  /\ aborted = [c \in Calls |-> FALSE]
  /\ told = [c \in Calls |-> "nothing"]
  /\ entry = None
  /\ dir = FALSE
  /\ temp = [a \in Artifacts |-> 0]
  /\ target = [a \in Artifacts |-> 0]
  /\ content = [i \in Inodes |-> <<>>]
  /\ faults = 0
  /\ overrun = FALSE

-----------------------------------------------------------------------------
(* Steps that several handlers end with *)

End(c, how) ==
  /\ pc' = [pc EXCEPT ![c] = "ended"]
  /\ told' = [told EXCEPT ![c] = how]

\* Variant of Missing: the artifact that comes next is taken as fetched.
MissingLater(a, targets) == {k \in a + 1 .. NArtifacts : ~Present(targets, k)}

\* The artifacts from a on that are still to be fetched.
Missing(a, targets) == {k \in a .. NArtifacts : ~Present(targets, k)}

\* Go on with artifact a: files that are large enough are skipped, and the next one
\* is asked for from where its partial file ends.  Without one the download is
\* complete, and the finally block takes the model out of the table.
GoOn(c, a, temps, targets, mine) ==
  \/ /\ Missing(a, targets) = {}
     /\ End(c, "completed")
     /\ entry' = None
     /\ UNCHANGED <<at, off>>
  \/ \E k \in Missing(a, targets) :
       /\ \A m \in Missing(a, targets) : k <= m
       /\ pc' = [pc EXCEPT ![c] = "fetch"]
       /\ at' = [at EXCEPT ![c] = k]
       /\ off' = [off EXCEPT ![c] = Size(temps[k])]
       /\ entry' = mine
       /\ UNCHANGED told

Retries(c, retryable) == retryable /\ attempt[c] < MaxAttempts

\* An attempt throws: a cancelled call returns, another is tried again or fails.
Throw(c, retryable) ==
  /\ entry' = None
  /\ IF aborted[c] THEN End(c, "cancelled")
     ELSE IF Retries(c, retryable)
     THEN pc' = [pc EXCEPT ![c] = "delay"] /\ UNCHANGED told
     ELSE End(c, "failed")

-----------------------------------------------------------------------------
(* A call and its attempts *)

\* downloadModel: a model that is in the table is being downloaded already.
Request(c) ==
  /\ pc[c] = "idle"
  /\ IF entry # None
     THEN End(c, "underway") /\ UNCHANGED attempt
     ELSE /\ pc' = [pc EXCEPT ![c] = "catalog"]
          /\ attempt' = [attempt EXCEPT ![c] = 1]
          /\ UNCHANGED told
  /\ UNCHANGED <<at, off, fd, append, pos, aborted, entry, diskVars, faults, overrun>>

\* Variant of CatalogComes: the attempt is not entered in the table.
CatalogComesUnseen(c) ==
  /\ pc[c] = "catalog"
  /\ aborted' = [aborted EXCEPT ![c] = FALSE]
  /\ dir' = TRUE
  /\ overrun' = (overrun \/ entry # None)
  /\ GoOn(c, 1, temp, target, entry)
  /\ UNCHANGED <<attempt, fd, append, pos, temp, target, content, faults>>

\* The catalogue has come: the attempt is entered in the table, over any other, and
\* the install directory is made.
CatalogComes(c) ==
  /\ pc[c] = "catalog"
  /\ aborted' = [aborted EXCEPT ![c] = FALSE]
  /\ dir' = TRUE
  /\ overrun' = (overrun \/ entry # None)
  /\ GoOn(c, 1, temp, target, c)
  /\ UNCHANGED <<attempt, fd, append, pos, temp, target, content, faults>>

\* The catalogue cannot be had; the model is not in the table yet, and this call is
\* not to be cancelled.
CatalogFails(c) ==
  /\ pc[c] = "catalog"
  /\ Fault
  /\ \E retryable \in BOOLEAN :
       IF Retries(c, retryable)
       THEN pc' = [pc EXCEPT ![c] = "delay"] /\ UNCHANGED told
       ELSE End(c, "failed")
  /\ UNCHANGED <<attempt, at, off, fd, append, pos, aborted, entry, diskVars, overrun>>

RetryTimer(c) ==
  /\ pc[c] = "delay"
  /\ pc' = [pc EXCEPT ![c] = "catalog"]
  /\ attempt' = [attempt EXCEPT ![c] = @ + 1]
  /\ UNCHANGED <<at, off, fd, append, pos, aborted, told, entry, diskVars, faults, overrun>>

-----------------------------------------------------------------------------
(* The answer to a request for an artifact *)

\* A network error, a timeout, a bad status, or the signal of a cancel.
FetchFails(c) ==
  /\ pc[c] = "fetch"
  /\ \/ aborted[c] /\ UNCHANGED faults
     \/ Fault
  /\ \E retryable \in BOOLEAN : Throw(c, retryable)
  /\ UNCHANGED <<attempt, at, off, fd, append, pos, aborted, diskVars, overrun>>

\* The file to write: the partial file, or a new one in its place.
Opened(c) == IF temp[at[c]] # 0 THEN {temp[at[c]]} ELSE Free

\* 206: the stream is appended to the partial file.  A file in a directory that was
\* removed cannot be opened.
FetchResumes(c) ==
  /\ pc[c] = "fetch"
  /\ off[c] \in 1 .. Blocks - 1
  /\ dir
  /\ \E i \in Opened(c) :
       /\ fd' = [fd EXCEPT ![c] = i]
       /\ temp' = [temp EXCEPT ![at[c]] = i]
       /\ content' = IF temp[at[c]] = 0 THEN [content EXCEPT ![i] = <<>>] ELSE content
  /\ append' = [append EXCEPT ![c] = TRUE]
  /\ pos' = [pos EXCEPT ![c] = off[c]]
  /\ pc' = [pc EXCEPT ![c] = "stream"]
  /\ UNCHANGED <<attempt, at, off, aborted, told, entry, dir, target, faults, overrun>>

\* Variant of FetchStarts: a server that ignores the range is not noticed.
FetchStartsAppending(c) ==
  /\ pc[c] = "fetch"
  /\ dir
  /\ \E i \in Opened(c) :
       /\ fd' = [fd EXCEPT ![c] = i]
       /\ temp' = [temp EXCEPT ![at[c]] = i]
       /\ content' = IF temp[at[c]] = 0 THEN [content EXCEPT ![i] = <<>>] ELSE content
  /\ append' = [append EXCEPT ![c] = TRUE]
  /\ pos' = [pos EXCEPT ![c] = 0]
  /\ pc' = [pc EXCEPT ![c] = "stream"]
  /\ UNCHANGED <<attempt, at, off, aborted, told, entry, dir, target, faults, overrun>>

\* 200: nothing was there to resume, or the server ignores the range; the partial
\* file is truncated and written from the start.
FetchStarts(c) ==
  /\ pc[c] = "fetch"
  /\ dir
  /\ \E i \in Opened(c) :
       /\ fd' = [fd EXCEPT ![c] = i]
       /\ temp' = [temp EXCEPT ![at[c]] = i]
       /\ content' = [content EXCEPT ![i] = <<>>]
  /\ append' = [append EXCEPT ![c] = FALSE]
  /\ pos' = [pos EXCEPT ![c] = 0]
  /\ pc' = [pc EXCEPT ![c] = "stream"]
  /\ UNCHANGED <<attempt, at, off, aborted, told, entry, dir, target, faults, overrun>>

\* The file cannot be opened, because its directory was removed.
OpenFails(c) ==
  /\ pc[c] = "fetch"
  /\ ~dir
  /\ Throw(c, FALSE)
  /\ UNCHANGED <<attempt, at, off, fd, append, pos, aborted, diskVars, faults, overrun>>

\* The partial file takes the place of the artifact's file, which is removed first: it
\* is gone also when there is no partial file to rename.
Renamed(a) ==
  /\ temp' = [temp EXCEPT ![a] = 0]
  /\ target' = [target EXCEPT ![a] = temp[a]]

\* 416: the partial file holds all of the artifact already.  It is renamed as it is,
\* or, if it is gone, the attempt fails.
FetchBeyond(c) ==
  /\ pc[c] = "fetch"
  /\ off[c] >= Blocks
  /\ Renamed(at[c])
  /\ IF temp[at[c]] = 0
     THEN Throw(c, FALSE) /\ UNCHANGED <<at, off>>
     ELSE GoOn(c, at[c] + 1, temp', target', entry)
  /\ UNCHANGED <<attempt, fd, append, pos, aborted, dir, content, faults, overrun>>

\* 416 without the size of the artifact: the partial file is removed and the artifact
\* asked for from the start.
FetchStale(c) ==
  /\ pc[c] = "fetch"
  /\ off[c] >= Blocks
  /\ temp' = [temp EXCEPT ![at[c]] = 0]
  /\ off' = [off EXCEPT ![c] = 0]
  /\ UNCHANGED <<pc, attempt, at, fd, append, pos, aborted, told, entry, dir, target,
                 content, faults, overrun>>

\* 404 for an optional artifact: it is skipped.
FetchSkips(c) ==
  /\ pc[c] = "fetch"
  /\ at[c] \in Optional
  /\ GoOn(c, at[c] + 1, temp, target, entry)
  /\ UNCHANGED <<attempt, fd, append, pos, aborted, diskVars, faults, overrun>>

-----------------------------------------------------------------------------
(* The stream and the end of an artifact *)

\* A block is written at the end of the file, or at its own place in it.
Written(f, k, appending) ==
  IF appending THEN Append(f, k)
  ELSE [j \in 1 .. IF Len(f) < k THEN k ELSE Len(f) |->
          IF j = k THEN k ELSE IF j <= Len(f) THEN f[j] ELSE 0]

\* Variant of StreamWrites: one block too many is written.
StreamWritesOn(c) ==
  /\ pc[c] = "stream"
  /\ ~aborted[c]
  /\ pos[c] <= Blocks
  /\ pos' = [pos EXCEPT ![c] = @ + 1]
  /\ content' = [content EXCEPT ![fd[c]] = Written(@, pos[c] + 1, append[c])]
  /\ UNCHANGED <<pc, attempt, at, off, fd, append, aborted, told, dir, temp, target,
                 entry, faults, overrun>>

\* A part of the stream arrives and is written; a cancelled stream takes no more.
StreamWrites(c) ==
  /\ pc[c] = "stream"
  /\ ~aborted[c]
  /\ pos[c] < Blocks
  /\ pos' = [pos EXCEPT ![c] = @ + 1]
  /\ content' = [content EXCEPT ![fd[c]] = Written(@, pos[c] + 1, append[c])]
  /\ UNCHANGED <<pc, attempt, at, off, fd, append, aborted, told, dir, temp, target,
                 entry, faults, overrun>>

\* Variant of StreamFails: the stream waits for the next block whatever the signal.
StreamFailsUncancelled(c) ==
  /\ pc[c] = "stream"
  /\ Fault
  /\ \E retryable \in BOOLEAN : Throw(c, retryable)
  /\ fd' = [fd EXCEPT ![c] = 0]
  /\ UNCHANGED <<attempt, at, off, append, pos, aborted, diskVars, overrun>>

\* The connection breaks or times out, or the signal of a cancel ends the stream.
StreamFails(c) ==
  /\ pc[c] = "stream"
  /\ \/ aborted[c] /\ UNCHANGED faults
     \/ Fault
  /\ \E retryable \in BOOLEAN : Throw(c, retryable)
  /\ fd' = [fd EXCEPT ![c] = 0]
  /\ UNCHANGED <<attempt, at, off, append, pos, aborted, diskVars, overrun>>

\* The file is closed and its partial name flushed to disk.
StreamEnds(c) ==
  /\ pc[c] = "stream"
  /\ ~aborted[c]
  /\ pos[c] = Blocks
  /\ fd' = [fd EXCEPT ![c] = 0]
  /\ pc' = [pc EXCEPT ![c] = "finalize"]
  /\ UNCHANGED <<attempt, at, off, append, pos, aborted, told, entry, diskVars, faults, overrun>>

\* The partial file is renamed, then its size is looked at.  The attempt fails if the
\* file is gone or too small.
Finalize(c) ==
  /\ pc[c] = "finalize"
  /\ Renamed(at[c])
  /\ IF temp[at[c]] # 0 /\ Present(target', at[c])
     THEN GoOn(c, at[c] + 1, temp', target', entry)
     ELSE Throw(c, FALSE) /\ UNCHANGED <<at, off>>
  /\ UNCHANGED <<attempt, fd, append, pos, aborted, dir, content, faults, overrun>>

-----------------------------------------------------------------------------
(* From outside *)

\* cancelDownload reaches the attempt that is in the table, and no other.
Cancel ==
  /\ entry # None
  /\ ~aborted[entry]
  /\ aborted' = [aborted EXCEPT ![entry] = TRUE]
  /\ UNCHANGED <<pc, attempt, at, off, fd, append, pos, told, entry, diskVars, faults, overrun>>

\* removeModel removes the install directory, whatever is going on in it.
Remove ==
  /\ dir
  /\ dir' = FALSE
  /\ temp' = [a \in Artifacts |-> 0]
  /\ target' = [a \in Artifacts |-> 0]
  /\ UNCHANGED <<callVars, content, entry, faults, overrun>>

\* The program ends and is started again: the disk is all that is left.
Crash ==
  /\ Fault
  /\ pc' = [c \in Calls |-> IF c \in Underway THEN "ended" ELSE pc[c]]
  /\ told' = [c \in Calls |-> IF c \in Underway THEN "crashed" ELSE told[c]]
  /\ fd' = [c \in Calls |-> 0]
  /\ entry' = None
  /\ UNCHANGED <<attempt, at, off, append, pos, aborted, diskVars, overrun>>

Step(c) ==
  \/ CatalogComes(c) \/ CatalogFails(c) \/ RetryTimer(c)
  \/ FetchFails(c) \/ FetchResumes(c) \/ FetchStarts(c) \/ OpenFails(c)
  \/ FetchBeyond(c) \/ FetchStale(c) \/ FetchSkips(c)
  \/ StreamWrites(c) \/ StreamFails(c) \/ StreamEnds(c) \/ Finalize(c)

Next == Cancel \/ Remove \/ Crash \/ \E c \in Calls : Request(c) \/ Step(c)

Spec == Init /\ [][Next]_vars

\* Fetches and streams end, by their timeouts if need be; timers fire.
FairSpec == Spec /\ \A c \in Calls : WF_vars(Step(c))

-----------------------------------------------------------------------------
(* Properties *)

\* Every variable has its type.
TypeOK ==
  /\ pc \in [Calls -> {"idle", "catalog", "fetch", "stream", "finalize", "delay", "ended"}]
  /\ attempt \in [Calls -> 0 .. MaxAttempts]
  /\ at \in [Calls -> Artifacts] /\ off \in [Calls -> Nat]
  /\ fd \in [Calls -> Inodes \cup {0}] /\ append \in [Calls -> BOOLEAN]
  /\ pos \in [Calls -> 0 .. Blocks] /\ aborted \in [Calls -> BOOLEAN]
  /\ told \in [Calls -> {"nothing", "underway", "completed", "cancelled", "failed",
                         "crashed"}]
  /\ entry \in Calls \cup {None} /\ dir \in BOOLEAN
  /\ temp \in [Artifacts -> Inodes \cup {0}] /\ target \in [Artifacts -> Inodes \cup {0}]
  /\ content \in [Inodes -> Seq(0 .. Blocks)]
  /\ faults \in 0 .. MaxFaults /\ overrun \in BOOLEAN

\* Calls may overlap, and one may begin while another waits for its retry.  Until an attempt
\* is entered over another that is in the table, an artifact that is in its place is the remote
\* artifact, block by block, although only its size is ever looked at: neither a resumed, a
\* restarted, a cancelled nor a crashed download leaves anything else there.
InstalledIsWhole ==
  ~overrun => \A a \in Artifacts : target[a] # 0 => content[target[a]] = Remote

\* Until then, when a call reports that the download is complete, and the model was not
\* removed behind its back, every artifact the server must have is in its place.
CompletedHasAll ==
  [][\A c \in Calls : told[c] = "nothing" /\ told'[c] = "completed" /\ dir' /\ ~overrun'
       => \A a \in Artifacts \ Optional : target'[a] # 0]_vars

Moving == {"fetch", "stream", "finalize"}

\* An attempt that fetches or writes is in the table, so that it can be cancelled and a
\* further call finds it: until another was entered over it, which is what happens when both
\* awaited the catalogue.
TransferIsEntered == ~overrun => \A c \in Calls : pc[c] \in Moving => entry = c

\* Whatever overlaps, fails or crashes, what is in the table is being transferred: no entry is
\* left behind that would turn away every later call for the model.
EntryIsTransferred == entry # None => pc[entry] \in Moving

\* The calls, the table of downloads and the files fit together.
DownloadInv == TypeOK /\ TransferIsEntered /\ EntryIsTransferred

\* Every call ends, with its bounded number of attempts.
CallsEnd == \A c \in Calls : pc[c] = "catalog" ~> pc[c] = "ended"

\* modelDownloadManager.js: a call for a model that is being downloaded finds
\* "Download already in progress", so no two calls transfer the model at once.
\* The code does not keep this: README, section 6.
OneTransfer ==
  \A c, d \in Calls : pc[c] \in {"fetch", "stream"} /\ pc[d] \in {"fetch", "stream"} => c = d
\* Bound of the run download: two calls in each other's files are followed to their end where no fault occurs.
CalmOverrun == overrun => faults = 0
=============================================================================
