----------------------------- MODULE LocalStore -----------------------------
(***************************************************************************)
(* The store of the runners' reports: rootDir/ingest with one temporary    *)
(* file per upload, rootDir/data with the committed ones, and the handlers *)
(* that upload (postRunnerGroupsRunnerResult), read (readBlob) and delete. *)
(* The process may die at any point; what is in the two directories stays. *)
(*                                                                         *)
(* os.CreateTemp draws a random name that is not in rootDir/ingest.  The   *)
(* model takes it that it does not draw the name of an upload whose        *)
(* handler has not returned yet: such a name may be gone from the          *)
(* directory, and the handler will still remove it.                        *)
(***************************************************************************)
EXTENDS Naturals

CONSTANTS
  Clients,    \* the requests handled at the same time
  Readers,    \* the calls of readBlob at the same time
  Refs,       \* the names of the runners
  Bodies,     \* the reports that are uploaded
  TempNames,  \* the names os.CreateTemp draws from
  Size,       \* the number of writes each whole body takes
  MaxCrashes, \* bound on the restarts of the server
  None

ASSUME SizeAssumption == Size \in [Bodies -> Nat]
ASSUME BoundsAssumption == MaxCrashes \in Nat
ASSUME NoneAssumption ==
  /\ None \notin Clients /\ None \notin Readers /\ None \notin Bodies
  /\ None \notin Refs /\ None \notin TempNames
  /\ None \notin [body : Bodies, size : Nat]
  /\ None \notin [ref : Refs, body : Bodies]
ASSUME ActorsAssumption == Clients \cap Readers = {}

VARIABLES
  ingest,   \* the temporary files by name
  data,     \* the committed files by name
  lock,     \* who holds Store.Mutex
  pc,       \* where each upload is
  name,     \* writer.name of each upload
  request,  \* the runner name and the body of each upload
  outcome,  \* how Commit ended
  rpc,      \* where each reader is
  blob,     \* the name, the size from Stat and the open file of each reader
  crashes

writers == <<pc, name, request, outcome>>
readers == <<rpc, blob>>
vars == <<ingest, data, lock, pc, name, request, outcome, rpc, blob, crashes>>

File == [body : Bodies, size : Nat]
Upload == [ref : Refs, body : Bodies]
PcValues == {"idle", "copy", "commit", "sync", "stat", "rename", "close",
             "return"}
Critical == {"sync", "stat", "rename", "close"}

TypeOK ==
  /\ ingest \in [TempNames -> File \cup {None}]
  /\ data \in [Refs -> File \cup {None}]
  /\ lock \in Clients \cup Readers \cup {None}
  /\ pc \in [Clients -> PcValues]
  /\ name \in [Clients -> TempNames \cup {None}]
  /\ request \in [Clients -> Upload \cup {None}]
  /\ outcome \in [Clients -> {"none", "created", "exists", "failed"}]
  /\ rpc \in [Readers -> {"idle", "stat", "open", "read"}]
  /\ blob \in [Readers -> [ref : Refs \cup {None}, size : Nat,
                          file : File \cup {None}]]
  /\ crashes \in Nat

NoBlob == [ref |-> None, size |-> 0, file |-> None]

\* NewStore on an empty directory.
Init ==
  /\ ingest = [n \in TempNames |-> None]
  /\ data = [r \in Refs |-> None]
  /\ lock = None
  /\ pc = [c \in Clients |-> "idle"]
  /\ name = [c \in Clients |-> None]
  /\ request = [c \in Clients |-> None]
  /\ outcome = [c \in Clients |-> "none"]
  /\ rpc = [d \in Readers |-> "idle"]
  /\ blob = [d \in Readers |-> NoBlob]
  /\ crashes = 0

-----------------------------------------------------------------------------
(* An upload.                                                              *)

Goto(c, label) == pc' = [pc EXCEPT ![c] = label]
FreshNames ==
  {n \in TempNames : ingest[n] = None /\ \A c \in Clients : name[c] # n}

\* OpenWriter: O_EXCL creates an empty file.
OpenWriter(c) ==
  /\ pc[c] = "idle"
  /\ \E n \in FreshNames, u \in Upload :
       /\ ingest' = [ingest EXCEPT ![n] = [body |-> u.body, size |-> 0]]
       /\ name' = [name EXCEPT ![c] = n]
       /\ request' = [request EXCEPT ![c] = u]
  /\ outcome' = [outcome EXCEPT ![c] = "none"]
  /\ Goto(c, "copy")
  /\ UNCHANGED <<data, lock, readers, crashes>>

\* io.Copy takes the next piece of the body.
Write(c) ==
  /\ pc[c] = "copy"
  /\ ingest[name[c]].size < Size[request[c].body]
  /\ ingest' = [ingest EXCEPT ![name[c]].size = @ + 1]
  /\ UNCHANGED <<data, lock, writers, readers, crashes>>

\* The body ends early or the disk is full.
CopyFailed(c) ==
  /\ pc[c] = "copy"
  /\ outcome' = [outcome EXCEPT ![c] = "failed"]
  /\ Goto(c, "return")
  /\ UNCHANGED <<ingest, data, lock, name, request, readers, crashes>>

CopyDone(c) ==
  /\ pc[c] = "copy"
  /\ ingest[name[c]].size = Size[request[c].body]
  /\ Goto(c, "commit")
  /\ UNCHANGED <<ingest, data, lock, name, request, outcome, readers, crashes>>

CommitLockSkipped(c) ==
  /\ pc[c] = "commit"
  /\ Goto(c, "sync")
  /\ UNCHANGED <<ingest, data, lock, name, request, outcome, readers, crashes>>

CommitLockAssumed(c) ==
  /\ pc[c] = "commit"
  /\ lock = c
  /\ Goto(c, "sync")
  /\ UNCHANGED <<ingest, data, lock, name, request, outcome, readers, crashes>>

\* Commit: w.s.Lock().
CommitLock(c) ==
  /\ pc[c] = "commit"
  /\ lock = None
  /\ lock' = c
  /\ Goto(c, "sync")
  /\ UNCHANGED <<ingest, data, name, request, outcome, readers, crashes>>

CommitSync(c) ==
  /\ pc[c] = "sync"
  /\ Goto(c, "stat")
  /\ UNCHANGED <<ingest, data, lock, name, request, outcome, readers, crashes>>

\* Sync, Stat or Rename gives an error.
CommitFailed(c) ==
  /\ pc[c] \in {"sync", "stat", "rename"}
  /\ outcome' = [outcome EXCEPT ![c] = "failed"]
  /\ Goto(c, "close")
  /\ UNCHANGED <<ingest, data, lock, name, request, readers, crashes>>

CommitStat(c) ==
  /\ pc[c] = "stat"
  /\ IF data[request[c].ref] # None
       THEN /\ outcome' = [outcome EXCEPT ![c] = "exists"]
            /\ Goto(c, "close")
       ELSE Goto(c, "rename") /\ UNCHANGED outcome
  /\ UNCHANGED <<ingest, data, lock, name, request, readers, crashes>>

CommitRename(c) ==
  /\ pc[c] = "rename"
  /\ data' = [data EXCEPT ![request[c].ref] = ingest[name[c]]]
  /\ ingest' = [ingest EXCEPT ![name[c]] = None]
  /\ outcome' = [outcome EXCEPT ![c] = "created"]
  /\ Goto(c, "close")
  /\ UNCHANGED <<lock, name, request, readers, crashes>>

\* The deferred w.Close() and w.s.Unlock() of Commit.
CommitClose(c) ==
  /\ pc[c] = "close"
  /\ ingest' = [ingest EXCEPT ![name[c]] = None]
  /\ lock' = None
  /\ Goto(c, "return")
  /\ UNCHANGED <<data, name, request, outcome, readers, crashes>>

\* The deferred writer.Close() of the handler, a second Close after Commit.
Return(c) ==
  /\ pc[c] = "return"
  /\ ingest' = [ingest EXCEPT ![name[c]] = None]
  /\ name' = [name EXCEPT ![c] = None]
  /\ Goto(c, "idle")
  /\ UNCHANGED <<data, lock, request, outcome, readers, crashes>>

-----------------------------------------------------------------------------
(* readBlob, Delete and the restart.                                       *)

OpenReaderLockSkipped(d, r) ==
  /\ rpc[d] = "idle"
  /\ blob' = [blob EXCEPT ![d] = [NoBlob EXCEPT !.ref = r]]
  /\ rpc' = [rpc EXCEPT ![d] = "stat"]
  /\ UNCHANGED <<ingest, data, lock, writers, crashes>>

\* OpenReader: s.Lock().
OpenReaderLock(d, r) ==
  /\ rpc[d] = "idle"
  /\ lock = None
  /\ lock' = d
  /\ blob' = [blob EXCEPT ![d] = [NoBlob EXCEPT !.ref = r]]
  /\ rpc' = [rpc EXCEPT ![d] = "stat"]
  /\ UNCHANGED <<ingest, data, writers, crashes>>

\* os.Stat finds the file and its size, or OpenReader returns an error.
OpenReaderStat(d) ==
  /\ rpc[d] = "stat"
  /\ IF data[blob[d].ref] # None
       THEN /\ blob' = [blob EXCEPT ![d].size = data[blob[d].ref].size]
            /\ rpc' = [rpc EXCEPT ![d] = "open"]
            /\ UNCHANGED lock
       ELSE /\ rpc' = [rpc EXCEPT ![d] = "idle"]
            /\ lock' = None
            /\ UNCHANGED blob
  /\ UNCHANGED <<ingest, data, writers, crashes>>

OpenReaderOpen(d) ==
  /\ rpc[d] = "open"
  /\ blob' = [blob EXCEPT ![d].file = data[blob[d].ref]]
  /\ rpc' = [rpc EXCEPT ![d] = "read"]
  /\ lock' = None
  /\ UNCHANGED <<ingest, data, writers, crashes>>

\* io.ReadAll on the open file, which a Delete does not take away.
CloseReader(d) ==
  /\ rpc[d] = "read"
  /\ rpc' = [rpc EXCEPT ![d] = "idle"]
  /\ UNCHANGED <<ingest, data, lock, writers, blob, crashes>>

\* Delete, all of it under the lock.
Delete(r) ==
  /\ lock = None
  /\ data' = [data EXCEPT ![r] = None]
  /\ UNCHANGED <<ingest, lock, writers, readers, crashes>>

\* The process dies and NewStore finds the directories as they are.
Crash ==
  /\ crashes < MaxCrashes
  /\ crashes' = crashes + 1
  /\ lock' = None
  /\ pc' = [c \in Clients |-> "idle"]
  /\ name' = [c \in Clients |-> None]
  /\ request' = [c \in Clients |-> None]
  /\ outcome' = [c \in Clients |-> "none"]
  /\ rpc' = [d \in Readers |-> "idle"]
  /\ blob' = [d \in Readers |-> NoBlob]
  /\ UNCHANGED <<ingest, data>>

Commit(c) ==
  \/ CommitSync(c) \/ CommitFailed(c) \/ CommitStat(c) \/ CommitRename(c)
  \/ CommitClose(c)

Handle(c) ==
  \/ Write(c) \/ CopyFailed(c) \/ CopyDone(c)
  \/ CommitLock(c) \/ Commit(c)
  \/ Return(c)

OpenReader(d) == OpenReaderStat(d) \/ OpenReaderOpen(d)

Next ==
  \/ \E c \in Clients : OpenWriter(c) \/ Handle(c)
  \/ \E d \in Readers, r \in Refs : OpenReaderLock(d, r)
  \/ \E d \in Readers : OpenReader(d) \/ CloseReader(d)
  \/ \E r \in Refs : Delete(r)
  \/ Crash

\* A goroutine that can run is run.  Store.Mutex lets nobody starve: a waiter
\* gets it if it is free again and again.  Nobody has to upload or to read.
Fairness ==
  /\ \A c \in Clients :
       /\ WF_vars(Write(c) \/ CopyDone(c) \/ Commit(c) \/ Return(c))
       /\ SF_vars(CommitLock(c))
  /\ \A d \in Readers : WF_vars(OpenReader(d))

Spec == Init /\ [][Next]_vars
FairSpec == Spec /\ Fairness

-----------------------------------------------------------------------------
(* Properties.                                                             *)

\* A committed report is a whole body: no interleaving of uploads, failed
\* copies, second Close calls and restarts moves a partial file or another
\* upload's file into rootDir/data (store.go:16-19, writer.go:43-63).
CommittedIsWhole ==
  \A r \in Refs : data[r] # None => data[r].size = Size[data[r].body]

\* What a reader opens is what it took the size of, although the two are
\* separate system calls and reports are deleted and committed meanwhile
\* (store.go:67-88).
ReaderSizeIsRight ==
  \A d \in Readers :
    rpc[d] = "read" => /\ blob[d].file # None
                       /\ blob[d].size = Size[blob[d].file.body]

\* Every temporary file belongs to an upload under way, except for those a
\* restart left behind: NewStore never cleans rootDir/ingest.
NoLitter ==
  crashes = 0 =>
    \A n \in TempNames : ingest[n] # None => \E c \in Clients : name[c] = n

\* The store is a put-if-absent map: each upload takes effect at one moment,
\* stores its own body or nothing, and its answer (201, 409, 500) tells which
\* (writer.go:43-63, server.go:149-171).
stored == [r \in Refs |-> IF data[r] = None THEN None ELSE data[r].body]
Abstract == INSTANCE PutIfAbsent WITH stored <- stored, request <- request,
                                     outcome <- outcome
AbstractSpec == Abstract!Spec

\* An upload that was started is answered, unless the server restarts: the
\* lock is always given back (writer.go:44-47, store.go:68-69).
UploadsEnd ==
  \A c \in Clients : (pc[c] # "idle") ~> (pc[c] = "idle")

-----------------------------------------------------------------------------
(* The inductive invariant behind the four safety properties.              *)

\* The mutex is held exactly by the call that is inside its critical section.
Exclusive ==
  /\ \A c \in Clients : lock = c <=> pc[c] \in Critical
  /\ \A d \in Readers : lock = d <=> rpc[d] \in {"stat", "open"}

\* An upload under way has a temporary name of its own.
OwnNames ==
  /\ \A c \in Clients : pc[c] = "idle" <=> name[c] = None
  /\ \A c \in Clients : pc[c] # "idle" => request[c] # None
  /\ \A c, e \in Clients : c # e /\ name[c] # None => name[c] # name[e]

\* Until the rename, that name holds the upload's own body, and from the end
\* of the copy on all of it.
Writing == {"copy", "commit", "sync", "stat", "rename"}
OwnFile(c) ==
  /\ outcome[c] = "none"
  /\ ingest[name[c]] # None
  /\ ingest[name[c]].body = request[c].body
  /\ pc[c] # "copy" => ingest[name[c]].size = Size[request[c].body]
OwnFiles == \A c \in Clients : pc[c] \in Writing => OwnFile(c)

\* Between the Stat of Commit and its Rename nobody takes the name.
StillFree ==
  \A c \in Clients : pc[c] = "rename" => data[request[c].ref] = None

\* Between the Stat of OpenReader and its Open the file stays the same.
StillThere ==
  \A d \in Readers :
    /\ rpc[d] \in {"stat", "open"} => blob[d].ref # None
    /\ rpc[d] = "open" => /\ data[blob[d].ref] # None
                          /\ blob[d].size = data[blob[d].ref].size

\* The strengthening every step of the store preserves.
IInv ==
  /\ TypeOK
  /\ Exclusive
  /\ OwnNames
  /\ OwnFiles
  /\ StillFree
  /\ StillThere
  /\ CommittedIsWhole
  /\ ReaderSizeIsRight
  /\ NoLitter
=============================================================================
