------------------------------ MODULE JobWatch ------------------------------
(***************************************************************************)
(* How the runner group server waits for the Job of one runner group:      *)
(* Handler.Wait with its Get and its loop of watches, waitForJob with its  *)
(* events, and the part of the API server they talk to: the versions of    *)
(* the Job, the compaction of old versions and a watch that ends at any    *)
(* moment.                                                                 *)
(*                                                                         *)
(* A version is a position in hist.  hist[v] is Failed + Succeeded of the  *)
(* Job at version v; a version may also belong to another object or to     *)
(* another field of the Job, and then the count stays as it was.  The Job  *)
(* controller may give the Job up before every runner was created          *)
(* (BackoffLimit is 0), and somebody may delete the Job.                   *)
(***************************************************************************)
EXTENDS Naturals, Sequences

CONSTANTS
  Completions,  \* *job.Spec.Completions, the Count of the group
  MaxVersion,   \* bound on the versions the cluster goes through
  MaxErrors     \* bound on the closed watches and transient errors

ASSUME CompletionsAssumption == Completions \in Nat \ {0}
ASSUME BoundsAssumption == MaxVersion \in Nat /\ MaxErrors \in Nat

VARIABLES
  hist,       \* Failed + Succeeded of the Job at each version
  job,        \* whether the Job controller has given the Job up
  gone,       \* the version at which the Job was deleted, 0 while it exists
  compacted,  \* a watch from a version below this one is refused
  pc,         \* where Wait is
  lastRv,     \* Wait's lastRv, 0 for the empty string
  pos,        \* the version up to which the open watch has been read
  owed,       \* what the open watch sends before anything else
  errors      \* closed watches and transient errors so far

cluster == <<hist, job, gone, compacted>>
vars == <<hist, job, gone, compacted, pc, lastRv, pos, owed, errors>>

Version == Len(hist)
JobFinished(v) == hist[v] = Completions
Looping == {"connect", "watch", "backoff"}
Ended == {"returned", "failed"}

TypeOK ==
  /\ hist \in Seq(0..Completions) /\ hist # << >>
  /\ job \in {"active", "failed"}
  /\ gone \in 0..Version
  /\ compacted \in 0..Version
  /\ pc \in {"get"} \cup Looping \cup Ended
  /\ lastRv \in 0..Version
  /\ pos \in 0..Version
  /\ owed \in {"nothing", "added", "expired"}
  /\ errors \in Nat

\* The Job was created, by this server or by the one before a restart.
Init ==
  /\ hist \in {<<n>> : n \in 0..Completions}
  /\ job = "active"
  /\ gone = 0
  /\ compacted = 0
  /\ pc = "get"
  /\ lastRv = 0
  /\ pos = 0
  /\ owed = "nothing"
  /\ errors = 0

-----------------------------------------------------------------------------
(* The cluster.                                                            *)

\* The Job controller counts pods that ended.
JobProgress ==
  /\ ~JobFinished(Version) /\ job = "active" /\ gone = 0
  /\ \E n \in hist[Version] + 1 .. Completions : hist' = Append(hist, n)
  /\ UNCHANGED <<job, gone, compacted, pc, lastRv, pos, owed, errors>>

\* A runner failed, and the Job controller creates no further pods.
JobFailed ==
  /\ ~JobFinished(Version) /\ job = "active" /\ gone = 0
  /\ job' = "failed"
  /\ UNCHANGED <<hist, gone, compacted, pc, lastRv, pos, owed, errors>>

\* Versions that do not change the count are kept from using up the versions
\* the Job needs.
Spare == Version + (Completions - hist[Version]) < MaxVersion

OtherUpdate ==
  /\ Spare
  /\ hist' = Append(hist, hist[Version])
  /\ UNCHANGED <<job, gone, compacted, pc, lastRv, pos, owed, errors>>

JobDeleted ==
  /\ Spare /\ gone = 0
  /\ hist' = Append(hist, hist[Version])
  /\ gone' = Version + 1
  /\ UNCHANGED <<job, compacted, pc, lastRv, pos, owed, errors>>

Compact ==
  /\ \E v \in compacted + 1 .. Version : compacted' = v
  /\ UNCHANGED <<hist, job, gone, pc, lastRv, pos, owed, errors>>

-----------------------------------------------------------------------------
(* Wait.                                                                   *)

GetJob ==
  /\ pc = "get" /\ gone = 0
  /\ IF JobFinished(Version)
       THEN pc' = "returned" /\ UNCHANGED lastRv
       ELSE pc' = "connect" /\ lastRv' = Version
  /\ UNCHANGED <<cluster, pos, owed, errors>>

GetJobFailed ==
  /\ pc = "get"
  /\ pc' = "failed"
  /\ UNCHANGED <<cluster, lastRv, pos, owed, errors>>

\* A watch from a version starts right behind it, or sends an ERROR event when
\* that version is gone.  A watch from "" starts at the present and first sends
\* the Job as it is, if it is, as an ADDED event.
Watch ==
  /\ pc = "connect"
  /\ pc' = "watch"
  /\ pos' = IF lastRv = 0 THEN Version ELSE lastRv
  /\ owed' = CASE lastRv = 0 /\ gone = 0 -> "added"
               [] lastRv # 0 /\ lastRv < compacted -> "expired"
               [] OTHER -> "nothing"
  /\ UNCHANGED <<cluster, lastRv, errors>>

\* Connection refused, 429 or 500.
WatchRetryable ==
  /\ pc = "connect"
  /\ errors < MaxErrors
  /\ errors' = errors + 1
  /\ pc' = "backoff"
  /\ UNCHANGED <<cluster, lastRv, pos, owed>>

\* Any other error of the call, 410 included.
WatchFailed ==
  /\ pc = "connect"
  /\ pc' = "failed"
  /\ UNCHANGED <<cluster, lastRv, pos, owed, errors>>

Backoff ==
  /\ pc = "backoff"
  /\ pc' = "connect"
  /\ UNCHANGED <<cluster, lastRv, pos, owed, errors>>

-----------------------------------------------------------------------------
(* waitForJob.                                                             *)

\* Only a MODIFIED event is compared with Completions.
ReceiveAdded ==
  /\ pc = "watch"
  /\ owed = "added"
  /\ owed' = "nothing"
  /\ lastRv' = pos
  /\ UNCHANGED <<cluster, pc, pos, errors>>

ReceiveModifiedLate ==
  /\ pc = "watch"
  /\ owed = "nothing"
  /\ pos < Version /\ pos + 1 # gone
  /\ pos' = pos + 1
  /\ lastRv' = pos + 1
  /\ IF JobFinished(pos)
       THEN pc' = "returned"
       ELSE UNCHANGED pc
  /\ UNCHANGED <<cluster, owed, errors>>

ReceiveModifiedAny ==
  /\ pc = "watch"
  /\ owed = "nothing"
  /\ pos < Version /\ pos + 1 # gone
  /\ pos' = pos + 1
  /\ pc' = "returned"
  /\ UNCHANGED <<cluster, lastRv, owed, errors>>

ReceiveModified ==
  /\ pc = "watch"
  /\ owed = "nothing"
  /\ pos < Version /\ pos + 1 # gone
  /\ pos' = pos + 1
  /\ IF JobFinished(pos + 1)
       THEN pc' = "returned" /\ UNCHANGED lastRv
       ELSE lastRv' = pos + 1 /\ UNCHANGED pc
  /\ UNCHANGED <<cluster, owed, errors>>

\* A DELETED event is only logged.
ReceiveDeleted ==
  /\ pc = "watch"
  /\ owed = "nothing"
  /\ pos < Version /\ pos + 1 = gone
  /\ pos' = pos + 1
  /\ lastRv' = pos + 1
  /\ UNCHANGED <<cluster, pc, owed, errors>>

\* The next version is not one of the Job: the watch says nothing of it.
SkipOther ==
  /\ pc = "watch"
  /\ owed = "nothing"
  /\ pos < Version /\ pos + 1 # gone
  /\ hist[pos + 1] = hist[pos]
  /\ pos' = pos + 1
  /\ UNCHANGED <<cluster, pc, lastRv, owed, errors>>

ReceiveBookmark ==
  /\ pc = "watch"
  /\ owed = "nothing"
  /\ lastRv # pos
  /\ lastRv' = pos
  /\ UNCHANGED <<cluster, pc, pos, owed, errors>>

ReceiveExpiredKept ==
  /\ pc = "watch"
  /\ owed = "expired"
  /\ pc' = "connect"
  /\ UNCHANGED <<cluster, lastRv, pos, owed, errors>>

\* An ERROR event that says Expired or Gone.
ReceiveExpired ==
  /\ pc = "watch"
  /\ owed = "expired"
  /\ lastRv' = 0
  /\ pc' = "connect"
  /\ UNCHANGED <<cluster, pos, owed, errors>>

\* An ERROR event with 429 or 500, or the channel was closed.
WatchBroken ==
  /\ pc = "watch"
  /\ errors < MaxErrors
  /\ errors' = errors + 1
  /\ pc' = "backoff"
  /\ UNCHANGED <<cluster, lastRv, pos, owed>>

\* Any other ERROR event.
ReceiveError ==
  /\ pc = "watch"
  /\ pc' = "failed"
  /\ UNCHANGED <<cluster, lastRv, pos, owed, errors>>

Receive ==
  \/ ReceiveAdded \/ ReceiveModified \/ ReceiveDeleted \/ SkipOther
  \/ ReceiveExpired

\* Wait has ended; the cluster may go on.
Done == pc \in Ended /\ UNCHANGED vars

Next ==
  \/ JobProgress \/ JobFailed \/ JobDeleted \/ OtherUpdate \/ Compact
  \/ GetJob \/ GetJobFailed
  \/ Watch \/ WatchRetryable \/ WatchFailed \/ Backoff
  \/ Receive \/ ReceiveBookmark \/ WatchBroken
  \/ ReceiveError
  \/ Done

\* The pods end, Wait goes on, the backoff timer fires and an open watch
\* delivers what it has.  No error has to happen.
Fairness ==
  /\ WF_vars(JobProgress)
  /\ WF_vars(GetJob)
  /\ WF_vars(Watch)
  /\ WF_vars(Backoff)
  /\ WF_vars(Receive)

Spec == Init /\ [][Next]_vars
FairSpec == Spec /\ Fairness

-----------------------------------------------------------------------------
(* Properties.                                                             *)

\* Wait returns nil only after every runner of the group has ended, however
\* often it lost its watch and whatever versions it missed (handler.go:244,
\* 345).
NoEarlyReturn == pc = "returned" => JobFinished(Version)

\* Wait has read a version at which the Job was finished, and goes on.
PassedTheEnd == pc \in Looping /\ lastRv # 0 /\ JobFinished(lastRv)

\* Losing a watch, a bookmark or a retry never makes Wait read past the end of
\* the Job: that can happen only at the first event after lastRv was reset to
\* "" (handler.go:296).
PassedOnlyAfterReset == [][~PassedTheEnd /\ PassedTheEnd' => lastRv = 0]_vars

\* A watch that is resumed misses nothing: Wait ends, or has read past the end
\* after a reset, unless the Job was given up or deleted before it finished,
\* which Wait never notices (handler.go:260-310, 348, 521).
WaitEndsOrPasses ==
  <>(pc \in Ended \/ PassedTheEnd \/ job = "failed" \/ gone # 0)

\* What the comments say: "Wait waits runners until they finish."
\* (handler.go:234) and "waitForJob will return if job finish."
\* (handler.go:313).  A Job that was given up or deleted does not count.
WaitEnds == <>(pc \in Ended \/ job = "failed" \/ gone # 0)

-----------------------------------------------------------------------------
(* The inductive invariant behind NoEarlyReturn and PassedOnlyAfterReset.  *)

\* The Job never loses an ended pod, so a finished Job stays finished.
CountGrows ==
  \A v \in 1..Version : \A u \in 1..v : hist[u] <= hist[v]

\* The version of the deletion has the count of the one before.
DeletionKeeps == gone # 0 => gone > 1 /\ hist[gone] = hist[gone - 1]

\* What Wait knows of its position: lastRv is "" only before the first event
\* of a watch from "", and between lastRv and the position of the watch the
\* count has not changed.
Position ==
  pc = "watch" => /\ pos # 0
                  /\ owed = "added" => lastRv = 0
                  /\ lastRv = 0 => owed = "added" \/ gone # 0
                  /\ lastRv # 0 => /\ lastRv <= pos
                                   /\ hist[pos] = hist[lastRv]

\* The strengthening every step preserves (handler.go:235-354).
IInv ==
  /\ TypeOK
  /\ CountGrows
  /\ DeletionKeeps
  /\ Position
  /\ NoEarlyReturn
=============================================================================
