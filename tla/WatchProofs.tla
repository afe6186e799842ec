---------------------------- MODULE WatchProofs ----------------------------
(***************************************************************************)
(* Proofs about those who wait for the API server or for each other, for   *)
(* any number of runners and versions of the Job, of configmaps, of        *)
(* threads, other goroutines and instances, of workers and resources.      *)
(***************************************************************************)
EXTENDS WatchParts, TLAPS

\* The elements of a sequence over S are in S.
LEMMA Elements ==
  ASSUME NEW S, NEW s \in Seq(S) PROVE \A i \in 1..Len(s) : s[i] \in S
OBVIOUS

\* There is a last version, and every version has a count.
LEMMA HistTyped ==
  ASSUME TypeOK
  PROVE  /\ Version \in Nat \ {0}
         /\ \A v \in 1..Version : hist[v] \in 0..Completions
         /\ \A v \in 1..Version : hist[v] \in Nat
<1>1. hist \in Seq(0..Completions) /\ hist # << >>
  BY DEF TypeOK
<1>2. Len(hist) \in Nat \ {0}
  BY <1>1
<1>3. \A v \in 1..Version : hist[v] \in 0..Completions
  BY <1>1, Elements, Zenon DEF Version
<1>4. QED
  BY <1>2, <1>3, CompletionsAssumption DEF Version

\* A version added to the history leaves the earlier ones as they were.
LEMMA AppendKeeps ==
  ASSUME TypeOK, NEW n \in 0..Completions, hist' = Append(hist, n)
  PROVE  /\ hist' \in Seq(0..Completions) /\ hist' # << >>
         /\ Version \in Nat \ {0}
         /\ Version' = Version + 1
         /\ hist'[Version'] = n
         /\ \A v \in 1..Version : hist'[v] = hist[v]
<1>1. hist \in Seq(0..Completions)
  BY DEF TypeOK
<1>2. QED
  BY <1>1, HistTyped DEF Version

\* A growing table stays growing when an entry not below its last is added.
LEMMA ExtendGrows ==
  ASSUME NEW L \in Nat \ {0}, NEW h, NEW g, NEW n \in Nat,
         \A v \in 1..L : h[v] \in Nat,
         \A v \in 1..L : \A u \in 1..v : h[u] <= h[v],
         \A v \in 1..L : g[v] = h[v],
         g[L + 1] = n, h[L] <= n
  PROVE  \A v \in 1..L + 1 : \A u \in 1..v : g[u] <= g[v]
<1> SUFFICES ASSUME NEW v \in 1..L + 1, NEW u \in 1..v
             PROVE  g[u] <= g[v]
  OBVIOUS
<1>1. CASE v \in 1..L
  BY <1>1
<1>2. CASE v = L + 1 /\ u \in 1..L
  <2>1. h[u] <= h[L] /\ h[u] \in Nat /\ h[L] \in Nat
    BY <1>2
  <2>2. QED
    BY <1>2, <2>1
<1>3. CASE v = L + 1 /\ u = L + 1
  BY <1>3
<1>4. QED
  BY <1>1, <1>2, <1>3

\* A version whose count is not below the last one keeps the counts growing.
LEMMA AppendGrows ==
  ASSUME TypeOK, CountGrows, NEW n \in 0..Completions, hist[Version] <= n,
         hist' = Append(hist, n)
  PROVE  CountGrows'
<1>1. /\ Version \in Nat \ {0}
      /\ Version' = Version + 1
      /\ hist'[Version'] = n
      /\ \A v \in 1..Version : hist'[v] = hist[v]
  BY AppendKeeps, Zenon
<1>2. n \in Nat /\ \A v \in 1..Version : hist[v] \in Nat
  BY HistTyped, CompletionsAssumption
<1>3. \A v \in 1..Version : \A u \in 1..v : hist[u] <= hist[v]
  BY DEF CountGrows
<1>4. ASSUME NEW L, NEW h, NEW g, L = Version, h = hist, g = hist'
      PROVE  \A v \in 1..L + 1 : \A u \in 1..v : g[u] <= g[v]
  BY <1>1, <1>2, <1>3, <1>4, ExtendGrows, Zenon
<1>5. QED
  BY <1>1, <1>4, Zenon DEF CountGrows

\* A Job that was finished at some version is finished at the last one.
LEMMA FinishedStays ==
  ASSUME TypeOK, CountGrows, NEW v \in 1..Version, JobFinished(v)
  PROVE  JobFinished(Version)
<1>1. hist[v] <= hist[Version] /\ hist[Version] \in 0..Completions
  BY HistTyped DEF CountGrows
<1>2. QED
  BY <1>1, CompletionsAssumption DEF JobFinished

\* The initial states satisfy the inductive invariant.
LEMMA InitIInv == Init => IInv
<1> SUFFICES ASSUME Init PROVE IInv
  OBVIOUS
<1>1. PICK n \in 0..Completions : hist = <<n>>
  BY DEF Init
<1>2. hist \in Seq(0..Completions) /\ Version = 1
  BY <1>1 DEF Version
<1>3. TypeOK
  BY <1>1, <1>2 DEF Init, TypeOK, Version
<1>4. CountGrows
  BY <1>1, <1>2, CompletionsAssumption DEF CountGrows
<1>5. QED
  BY <1>3, <1>4 DEF Init, IInv, DeletionKeeps, Position, NoEarlyReturn

\* Every step of Wait and of the cluster preserves the inductive invariant.
LEMMA NextIInv == IInv /\ [Next]_vars => IInv'
<1> SUFFICES ASSUME IInv, [Next]_vars PROVE IInv'
  OBVIOUS
<1>v. /\ Version \in Nat \ {0}
      /\ \A v \in 1..Version : hist[v] \in 0..Completions
      /\ \A v \in 1..Version : hist[v] \in Nat
  BY HistTyped DEF IInv
<1>a. ASSUME NEW n \in 0..Completions, hist' = Append(hist, n),
             hist[Version] <= n, JobFinished(Version) => n = Completions,
             gone' # gone => gone' = Version + 1 /\ n = hist[Version],
             UNCHANGED <<job, compacted, pc, lastRv, pos, owed, errors>>
      PROVE  IInv'
  <2>1. /\ hist' \in Seq(0..Completions) /\ hist' # << >>
        /\ Version' = Version + 1
        /\ hist'[Version'] = n
        /\ \A v \in 1..Version : hist'[v] = hist[v]
    BY <1>a, AppendKeeps, Zenon DEF IInv
  <2>2. TypeOK'
    BY <1>a, <1>v, <2>1 DEF IInv, TypeOK
  <2>3. CountGrows'
    BY <1>a, AppendGrows DEF IInv
  <2>4. Position'
    <3>1. SUFFICES ASSUME pc = "watch"
                   PROVE  /\ pos # 0
                          /\ owed = "added" => lastRv = 0
                          /\ lastRv = 0 => owed = "added" \/ gone' # 0
                          /\ lastRv # 0 => /\ lastRv <= pos
                                           /\ hist'[pos] = hist'[lastRv]
      BY <1>a, Zenon DEF Position
    <3>2. pos \in 1..Version /\ lastRv \in 0..Version
      BY <1>v, <3>1 DEF IInv, TypeOK, Position
    <3>3. lastRv = 0 => owed = "added" \/ gone' # 0
      BY <1>a, <1>v, <3>1 DEF IInv, TypeOK, Position
    <3>4. QED
      BY <1>v, <2>1, <3>1, <3>2, <3>3 DEF IInv, Position
  <2>5. NoEarlyReturn'
    BY <1>a, <2>1 DEF IInv, NoEarlyReturn, JobFinished
  <2>6. DeletionKeeps'
    <3>1. CASE gone' = Version + 1 /\ n = hist[Version]
      BY <1>v, <2>1, <3>1 DEF DeletionKeeps
    <3>2. CASE gone' = gone
      BY <1>v, <2>1, <3>2 DEF IInv, TypeOK, DeletionKeeps
    <3>3. QED
      BY <1>a, <3>1, <3>2
  <2>7. QED
    BY <2>2, <2>3, <2>4, <2>5, <2>6 DEF IInv
<1>b. ASSUME UNCHANGED <<hist, gone>>, TypeOK', Position', NoEarlyReturn'
      PROVE  IInv'
  BY <1>b DEF IInv, CountGrows, DeletionKeeps, Version
<1>1. CASE JobProgress
  <2>1. PICK n \in hist[Version] + 1 .. Completions : hist' = Append(hist, n)
    BY <1>1 DEF JobProgress
  <2>2. n \in 0..Completions /\ hist[Version] <= n
    BY <1>v, <2>1, CompletionsAssumption
  <2>3. /\ hist' = Append(hist, n)
        /\ JobFinished(Version) => n = Completions
        /\ gone' # gone => gone' = Version + 1 /\ n = hist[Version]
        /\ UNCHANGED <<job, compacted, pc, lastRv, pos, owed, errors>>
    BY <1>1, <2>1 DEF JobProgress
  <2>4. QED
    BY <1>a, <2>2, <2>3
<1>2. CASE OtherUpdate
  <2>1. hist[Version] \in 0..Completions /\ hist[Version] <= hist[Version]
    BY <1>v, CompletionsAssumption
  <2>2. QED
    BY <1>2, <1>a, <2>1 DEF OtherUpdate, JobFinished
<1>2a. CASE JobDeleted
  <2>1. hist[Version] \in 0..Completions /\ hist[Version] <= hist[Version]
    BY <1>v, CompletionsAssumption
  <2>2. gone' = Version + 1 /\ hist' = Append(hist, hist[Version])
        /\ UNCHANGED <<job, compacted, pc, lastRv, pos, owed, errors>>
    BY <1>2a DEF JobDeleted
  <2>3. QED
    BY <1>a, <2>1, <2>2 DEF JobFinished
<1>2b. CASE JobFailed
  BY <1>2b, <1>b DEF JobFailed, IInv, TypeOK, Version, Position,
     NoEarlyReturn, JobFinished
<1>3. CASE Compact
  BY <1>3, <1>b, <1>v DEF Compact, IInv, TypeOK, Version, Position,
     NoEarlyReturn, JobFinished
<1>4. CASE GetJob
  BY <1>4, <1>b, <1>v, SMTT(40) DEF GetJob, IInv, TypeOK, Version, Position, Looping,
     Ended, NoEarlyReturn, JobFinished, cluster
<1>5. CASE GetJobFailed \/ WatchRetryable \/ WatchFailed \/ Backoff
  BY <1>5, <1>b DEF GetJobFailed, WatchRetryable, WatchFailed, Backoff, IInv,
     TypeOK, Version, Position, Looping, Ended, NoEarlyReturn, JobFinished,
     cluster
<1>6. CASE Watch
  BY <1>6, <1>b, <1>v DEF Watch, IInv, TypeOK, Version, Position, Looping,
     Ended, NoEarlyReturn, JobFinished, cluster
<1>7. CASE ReceiveAdded
  BY <1>7, <1>b, <1>v DEF ReceiveAdded, IInv, TypeOK, Version, Position,
     Looping, Ended, NoEarlyReturn, JobFinished, cluster
<1>8. CASE ReceiveModified
  <2>1. pos + 1 \in 1..Version
    BY <1>8, <1>v DEF ReceiveModified, IInv, TypeOK
  <2>2. JobFinished(pos + 1) => JobFinished(Version)
    BY <2>1, FinishedStays DEF IInv
  <2>3. TypeOK' /\ Position'
    BY <1>8, <1>v, <2>1 DEF ReceiveModified, IInv, TypeOK, Version, Position,
       Looping, Ended, cluster
  <2>4. NoEarlyReturn'
    BY <1>8, <2>2 DEF ReceiveModified, IInv, NoEarlyReturn, JobFinished,
       Version, cluster
  <2>5. QED
    BY <1>8, <1>b, <2>3, <2>4 DEF ReceiveModified, cluster
<1>8a. CASE ReceiveDeleted
  <2>1. pos + 1 \in 1..Version /\ gone # 0
    BY <1>8a, <1>v DEF ReceiveDeleted, IInv, TypeOK
  <2>2. TypeOK' /\ Position'
    BY <1>8a, <1>v, <2>1, SMTT(40)
    DEF ReceiveDeleted, IInv, TypeOK, Version, Position,
       Looping, Ended, cluster
  <2>3. QED
    BY <1>8a, <1>b, <2>2 DEF ReceiveDeleted, IInv, NoEarlyReturn, cluster
<1>9. CASE SkipOther
  BY <1>9, <1>b, <1>v, SMTT(40)
  DEF SkipOther, IInv, TypeOK, Version, Position, Looping,
     Ended, NoEarlyReturn, JobFinished, cluster
<1>10. CASE ReceiveBookmark
  BY <1>10, <1>b, <1>v, SMTT(40) DEF ReceiveBookmark, IInv, TypeOK, Version, Position,
     Looping, Ended, NoEarlyReturn, JobFinished, cluster
<1>11. CASE ReceiveExpired \/ WatchBroken \/ ReceiveError
  BY <1>11, <1>b, <1>v, SMTT(40) DEF ReceiveExpired, WatchBroken, ReceiveError, IInv,
     TypeOK, Version, Position, Looping, Ended, NoEarlyReturn, JobFinished,
     cluster
<1>12. CASE UNCHANGED vars
  BY <1>12, <1>b DEF vars, IInv, TypeOK, Version, Position, NoEarlyReturn,
     JobFinished
<1>13. QED
  BY <1>1, <1>2, <1>2a, <1>2b, <1>3, <1>4, <1>5, <1>6, <1>7, <1>8, <1>8a,
     <1>9, <1>10, <1>11, <1>12 DEF Next, Receive, Done

\* The inductive invariant holds in every reachable state.
LEMMA SpecIInv == Spec => []IInv
  BY InitIInv, NextIInv, PTL DEF Spec

\* The variables keep their types: in particular lastRv and the position of
\* the watch are versions that exist.
THEOREM TypeCorrect == Spec => []TypeOK
  BY SpecIInv, PTL DEF IInv

\* For any number of runners and any loss of watches, Wait returns nil only
\* when all runners have ended.
THEOREM NoEarlyReturnHolds == Spec => []NoEarlyReturn
  BY SpecIInv, PTL DEF IInv

\* Wait reads past the end of the Job only with the first event after lastRv
\* was reset.
THEOREM PassedOnlyAfterResetHolds == Spec => PassedOnlyAfterReset
<1>1. IInv /\ [Next]_vars
        => [~PassedTheEnd /\ PassedTheEnd' => lastRv = 0]_vars
  <2> SUFFICES ASSUME IInv, Next, ~PassedTheEnd, PassedTheEnd', lastRv # 0
               PROVE  FALSE
    BY DEF vars, PassedTheEnd, JobFinished
  <2>v. /\ Version \in Nat \ {0} /\ lastRv \in 1..Version
        /\ \A v \in 1..Version : hist[v] \in 0..Completions
        /\ \A v \in 1..Version : hist[v] \in Nat
    BY HistTyped DEF IInv, TypeOK
  <2>1. CASE JobProgress
    <3>1. PICK n \in hist[Version] + 1 .. Completions : hist' = Append(hist, n)
      BY <2>1 DEF JobProgress
    <3>2. n \in 0..Completions
      BY <2>v, <3>1, CompletionsAssumption
    <3>3. hist'[lastRv] = hist[lastRv]
      BY <2>v, <3>1, <3>2, AppendKeeps, Zenon DEF IInv
    <3>4. QED
      BY <2>1, <3>3, Zenon DEF JobProgress, PassedTheEnd, JobFinished
  <2>2. CASE OtherUpdate
    <3>1. hist'[lastRv] = hist[lastRv]
      <4>1. hist[Version] \in 0..Completions /\ TypeOK
        BY <2>v DEF IInv
      <4>2. hist' = Append(hist, hist[Version])
        BY <2>2 DEF OtherUpdate
      <4>3. QED
        BY <2>v, <4>1, <4>2, AppendKeeps, Zenon
    <3>2. QED
      BY <2>2, <3>1, Zenon DEF OtherUpdate, PassedTheEnd, JobFinished
  <2>2a. CASE JobDeleted
    <3>1. hist'[lastRv] = hist[lastRv]
      <4>1. hist[Version] \in 0..Completions /\ TypeOK
        BY <2>v DEF IInv
      <4>2. hist' = Append(hist, hist[Version])
        BY <2>2a DEF JobDeleted
      <4>3. QED
        BY <2>v, <4>1, <4>2, AppendKeeps, Zenon
    <3>2. QED
      BY <2>2a, <3>1, Zenon DEF JobDeleted, PassedTheEnd, JobFinished
  <2>2b. CASE ReceiveDeleted
    <3>1. hist[pos + 1] = hist[pos] /\ hist[pos] = hist[lastRv]
      BY <2>2b, <2>v, SMTT(40)
      DEF ReceiveDeleted, IInv, TypeOK, Position, DeletionKeeps
    <3>2. QED
      BY <2>2b, <3>1 DEF ReceiveDeleted, PassedTheEnd, JobFinished, cluster
  <2>3. CASE GetJob
    BY <2>3, <2>v DEF GetJob, PassedTheEnd, JobFinished, Version, Looping,
       cluster
  <2>4. CASE JobFailed \/ Compact \/ GetJobFailed \/ Watch
             \/ WatchRetryable \/ WatchFailed \/ Backoff \/ SkipOther
             \/ WatchBroken \/ ReceiveError \/ Done
    BY <2>4 DEF JobFailed, Compact, GetJobFailed, Watch, WatchRetryable,
       WatchFailed, Backoff, SkipOther, WatchBroken, ReceiveError, Done, vars,
       PassedTheEnd, JobFinished, Looping, cluster
  <2>5. CASE ReceiveAdded \/ ReceiveModified \/ ReceiveBookmark
             \/ ReceiveExpired
    BY <2>5, <2>v, SMTT(40) DEF ReceiveAdded, ReceiveModified, ReceiveBookmark,
       ReceiveExpired, IInv, TypeOK, Position, PassedTheEnd, JobFinished,
       Looping, cluster
  <2>6. QED
    BY <2>1, <2>2, <2>2a, <2>2b, <2>3, <2>4, <2>5 DEF Next, Receive
<1>2. QED
  BY <1>1, SpecIInv, PTL DEF Spec, PassedOnlyAfterReset

-----------------------------------------------------------------------------
(* The watches of read_update.                                             *)

\* No step lets a goroutine work after the wait for all of them.
LEMMA QuietNext ==
  ASSUME Watches!TypeOK, Watches!QuietBeforeCleanup, [Watches!Next]_(Watches!vars)
  PROVE  Watches!TypeOK' /\ Watches!QuietBeforeCleanup'
<1>1. CASE Watches!Start
  BY <1>1, TotalAssumption
  DEF Watches!Start, Watches!TypeOK, Watches!QuietBeforeCleanup,
      Watches!Configmaps
<1>2. CASE Watches!AllStarted \/ Watches!Deployed \/ Watches!dpCancel
  BY <1>2, Zenon
  DEF Watches!AllStarted, Watches!Deployed, Watches!dpCancel, Watches!TypeOK,
      Watches!QuietBeforeCleanup
<1>3. CASE Watches!Wait
  BY <1>3 DEF Watches!Wait, Watches!TypeOK, Watches!QuietBeforeCleanup
<1>4. CASE Watches!stopWatches \/ Watches!Delete
  BY <1>4
  DEF Watches!stopWatches, Watches!Delete, Watches!TypeOK,
      Watches!QuietBeforeCleanup
<1>5. ASSUME NEW i \in Watches!Configmaps, Watches!Opens(i) \/ Watches!SeeDone(i)
      PROVE  Watches!TypeOK' /\ Watches!QuietBeforeCleanup'
  <2>1. CASE Watches!Open(i)
    BY <2>1 DEF Watches!Open, Watches!TypeOK, Watches!QuietBeforeCleanup
  <2>2. CASE Watches!AppendLoad(i)
    BY <2>2 DEF Watches!AppendLoad, Watches!TypeOK, Watches!QuietBeforeCleanup
  <2>3. CASE Watches!AppendStore(i)
    BY <2>3 DEF Watches!AppendStore, Watches!TypeOK, Watches!QuietBeforeCleanup
  <2>4. CASE Watches!SeeDone(i)
    BY <2>4 DEF Watches!SeeDone, Watches!TypeOK, Watches!QuietBeforeCleanup
  <2> QED BY <1>5, <2>1, <2>2, <2>3, <2>4 DEF Watches!Opens
<1>6. ASSUME NEW i \in Watches!Configmaps,
             Watches!Event(i) \/ Watches!ServerCloses(i)
      PROVE  Watches!TypeOK' /\ Watches!QuietBeforeCleanup'
  BY <1>6
  DEF Watches!Event, Watches!ServerCloses, Watches!TypeOK,
      Watches!QuietBeforeCleanup
<1>7. CASE UNCHANGED Watches!vars
  BY <1>7 DEF Watches!vars, Watches!TypeOK, Watches!QuietBeforeCleanup
<1> QED
  BY <1>1, <1>2, <1>3, <1>4, <1>5, <1>6, <1>7
  DEF Watches!Next, Watches!Main, Watches!Watcher, Watches!Over

\* Before the first goroutine is started.
LEMMA QuietInit ==
  ASSUME Watches!Init PROVE Watches!TypeOK /\ Watches!QuietBeforeCleanup
<1>1. cancelled \in BOOLEAN
  BY Zenon DEF Watches!Init
<1> QED
  BY <1>1, TotalAssumption
  DEF Watches!Init, Watches!TypeOK, Watches!QuietBeforeCleanup

\* For any number of configmaps, whatever the watches do: the clean-up begins
\* when no goroutine is left, because the deferred functions run in the order
\* cancel, wait, stop, delete.
THEOREM QuietBeforeCleanupHolds ==
  Watches!Spec => [](Watches!TypeOK /\ QuietBeforeCleanup)
  BY QuietNext, QuietInit, PTL DEF Watches!Spec, QuietBeforeCleanup

-----------------------------------------------------------------------------
(* The metrics of one instance.                                            *)

\* Nothing has been asked yet.
LEMMA NsInitIInv == Ns!Init => Ns!IInv
<1> SUFFICES ASSUME Ns!Init PROVE Ns!IInv
  OBVIOUS
<1>1. Ns!TypeOK
  BY DEF Ns!Init, Ns!TypeOK, Ns!Namespaces
<1>2. Ns!SchedInv /\ Ns!LockInv
  BY NamesAssumption
  DEF Ns!Init, Ns!SchedInv, Ns!LockInv, Ns!Thread, Ns!Goroutines
<1>3. Ns!HostsInv /\ Ns!AsksItsInstance
  BY DEF Ns!Init, Ns!HostsInv, Ns!AsksItsInstance, Ns!Namespaces
<1>4. QED
  BY <1>1, <1>2, <1>3 DEF Ns!IInv

-----------------------------------------------------------------------------
(* The scheduler.                                                          *)

\* A goroutine gets a thread, and no other goroutine the locked one.
LEMMA RunStep ==
  ASSUME Ns!IInv, NEW g \in Ns!Goroutines, NEW t \in Threads, Ns!Run(g, t)
  PROVE  Ns!IInv'
<1>1. Ns!TypeOK'
  BY DEF Ns!IInv, Ns!TypeOK, Ns!Run
<1>2. /\ \A h \in Ns!Goroutines : on'[h] = IF h = g THEN t ELSE on[h]
      /\ \A h \in Ns!Goroutines : on[h] # t
      /\ ns[t] # None
      /\ g = "closure" => nsPc # "idle" /\ locked \in {None, t}
      /\ g # "closure" => t # locked
  BY SMTT(40) DEF Ns!IInv, Ns!TypeOK, Ns!Run, Ns!Idle
<1>3. Ns!SchedInv'
  BY <1>2, NamesAssumption, SMTT(40) DEF Ns!IInv, Ns!SchedInv, Ns!Run, Ns!Goroutines
<1>4. Ns!LockInv'
  BY <1>2, NamesAssumption, SMTT(40)
  DEF Ns!IInv, Ns!LockInv, Ns!Run, Ns!Thread, Ns!Goroutines
<1>5. Ns!HostsInv' /\ Ns!AsksItsInstance'
  BY DEF Ns!IInv, Ns!HostsInv, Ns!AsksItsInstance, Ns!Run
<1>6. QED
  BY <1>1, <1>3, <1>4, <1>5 DEF Ns!IInv

\* A goroutine loses its thread, which may stay locked.
LEMMA PreemptStep ==
  ASSUME Ns!IInv, NEW g \in Ns!Goroutines, Ns!Preempt(g) PROVE Ns!IInv'
<1>1. Ns!TypeOK'
  BY DEF Ns!IInv, Ns!TypeOK, Ns!Preempt
<1>2. \A h \in Ns!Goroutines : on'[h] = IF h = g THEN None ELSE on[h]
  BY DEF Ns!IInv, Ns!TypeOK, Ns!Preempt
<1>3. Ns!SchedInv'
  BY <1>2 DEF Ns!IInv, Ns!SchedInv, Ns!Preempt, Ns!Goroutines
<1>4. Ns!LockInv'
  BY <1>2 DEF Ns!IInv, Ns!LockInv, Ns!Preempt, Ns!Thread, Ns!Goroutines
<1>5. Ns!HostsInv' /\ Ns!AsksItsInstance'
  BY DEF Ns!IInv, Ns!HostsInv, Ns!AsksItsInstance, Ns!Preempt
<1>6. QED
  BY <1>1, <1>3, <1>4, <1>5 DEF Ns!IInv

\* A new thread starts in the namespace of the process.
LEMMA NewThreadStep ==
  ASSUME Ns!IInv, NEW t \in Threads, Ns!NewThread(t) PROVE Ns!IInv'
<1>1. Ns!TypeOK'
  BY DEF Ns!IInv, Ns!TypeOK, Ns!NewThread, Ns!Namespaces
<1>2. ns[t] = None /\ \A s \in Threads : ns'[s] = IF s = t THEN Ns!Host ELSE ns[s]
  BY DEF Ns!IInv, Ns!TypeOK, Ns!NewThread
<1>3. Ns!SchedInv'
  BY <1>2, NamesAssumption
  DEF Ns!IInv, Ns!TypeOK, Ns!SchedInv, Ns!NewThread, Ns!Goroutines
<1>4. Ns!LockInv'
  BY <1>2, NamesAssumption DEF Ns!IInv, Ns!LockInv, Ns!NewThread, Ns!Thread
<1>5. Ns!HostsInv' /\ Ns!AsksItsInstance'
  BY DEF Ns!IInv, Ns!HostsInv, Ns!AsksItsInstance, Ns!NewThread
<1>6. QED
  BY <1>1, <1>3, <1>4, <1>5 DEF Ns!IInv

-----------------------------------------------------------------------------
(* The call.                                                               *)

\* A call begins.
LEMMA MetricsStep == ASSUME Ns!IInv, NEW i \in IPs, Ns!Metrics(i) PROVE Ns!IInv'
<1>1. Ns!TypeOK'
  BY SMTT(40) DEF Ns!IInv, Ns!TypeOK, Ns!Metrics
<1>2. Ns!SchedInv' /\ Ns!LockInv'
  BY DEF Ns!IInv, Ns!SchedInv, Ns!LockInv, Ns!Metrics, Ns!Thread
<1>3. Ns!HostsInv' /\ Ns!AsksItsInstance'
  BY DEF Ns!IInv, Ns!HostsInv, Ns!AsksItsInstance, Ns!Metrics
<1>4. QED
  BY <1>1, <1>2, <1>3 DEF Ns!IInv

\* The thread that is locked is in the namespace of the process.
LEMMA LockStep == ASSUME Ns!IInv, Ns!LockOSThread PROVE Ns!IInv'
<1>1. Ns!Thread \in Threads /\ ns[Ns!Thread] = Ns!Host
  BY DEF Ns!IInv, Ns!TypeOK, Ns!SchedInv, Ns!LockInv, Ns!LockOSThread, Ns!At,
         Ns!Thread, Ns!Goroutines
<1>2. Ns!TypeOK'
  BY <1>1 DEF Ns!IInv, Ns!TypeOK, Ns!LockOSThread
<1>3. Ns!SchedInv'
  BY <1>1, NamesAssumption
  DEF Ns!IInv, Ns!SchedInv, Ns!LockOSThread, Ns!At, Ns!Thread, Ns!Goroutines
<1>4. Ns!LockInv'
  BY <1>1, NamesAssumption, SMTT(40)
  DEF Ns!IInv, Ns!LockInv, Ns!LockOSThread, Ns!At, Ns!Thread
<1>5. Ns!HostsInv' /\ Ns!AsksItsInstance'
  BY DEF Ns!IInv, Ns!HostsInv, Ns!AsksItsInstance, Ns!LockOSThread
<1>6. QED
  BY <1>2, <1>3, <1>4, <1>5 DEF Ns!IInv

\* From Lock to Exit the closure runs on its thread only.
LEMMA OnLocked ==
  ASSUME Ns!IInv, nsPc \notin {"idle", "lock"}, Ns!Thread # None
  PROVE  /\ Ns!Thread = locked /\ locked \in Threads /\ ip \in IPs /\ ip # Ns!Host
         /\ ip \in Ns!Namespaces /\ ip # None
  BY NamesAssumption DEF Ns!IInv, Ns!LockInv, Ns!Namespaces

\* Only the locked thread leaves the namespace of the process.
LEMMA UnshareStep == ASSUME Ns!IInv, Ns!Unshare PROVE Ns!IInv'
<1>1. /\ Ns!Thread = locked /\ locked \in Threads /\ ip \in IPs /\ ip # Ns!Host
      /\ ip \in Ns!Namespaces /\ ip # None
  BY OnLocked DEF Ns!Unshare, Ns!At
<1>2. nsPc = "unshare" /\ ns[locked] = Ns!Host
  BY DEF Ns!IInv, Ns!LockInv, Ns!Unshare, Ns!At
<1>3. UNCHANGED <<ip, on, locked, files>>
  BY DEF Ns!Unshare
<1>4. CASE /\ nsPc' = "file" /\ ns' = [ns EXCEPT ![Ns!Thread] = ip]
           /\ hosts' = [hosts EXCEPT ![ip] = hosts[ns[Ns!Thread]]]
           /\ UNCHANGED answer
  <2>1. Ns!TypeOK'
    BY <1>1, <1>2, <1>3, <1>4 DEF Ns!IInv, Ns!TypeOK, Ns!Namespaces
  <2>2. \A t \in Threads : ns'[t] = IF t = locked THEN ip ELSE ns[t]
    BY <1>1, <1>4 DEF Ns!IInv, Ns!TypeOK
  <2>3. Ns!SchedInv'
    BY <1>1, <1>3, <2>2 DEF Ns!IInv, Ns!TypeOK, Ns!SchedInv, Ns!Goroutines
  <2>4. Ns!LockInv'
    BY <1>1, <1>2, <1>3, <1>4, <2>2 DEF Ns!IInv, Ns!LockInv, Ns!Thread
  <2>5. Ns!HostsInv' /\ Ns!AsksItsInstance'
    BY <1>1, <1>4
    DEF Ns!IInv, Ns!TypeOK, Ns!HostsInv, Ns!AsksItsInstance, Ns!Namespaces
  <2>6. QED
    BY <2>1, <2>3, <2>4, <2>5 DEF Ns!IInv
<1>5. CASE nsPc' = "exit" /\ Ns!Fail /\ UNCHANGED <<ns, hosts>>
  <2>1. Ns!TypeOK'
    BY <1>1, <1>3, <1>5, SMTT(40) DEF Ns!IInv, Ns!TypeOK, Ns!Fail
  <2>2. Ns!SchedInv' /\ Ns!LockInv'
    BY <1>1, <1>2, <1>3, <1>5, SMTT(40)
    DEF Ns!IInv, Ns!SchedInv, Ns!LockInv, Ns!Thread
  <2>3. Ns!HostsInv' /\ Ns!AsksItsInstance'
    BY <1>1, <1>5
    DEF Ns!IInv, Ns!TypeOK, Ns!HostsInv, Ns!AsksItsInstance, Ns!Fail
  <2>4. QED
    BY <2>1, <2>2, <2>3 DEF Ns!IInv
<1>6. QED
  BY <1>4, <1>5 DEF Ns!Unshare

\* The file that will be /etc/hosts.
LEMMA CreateTempFileStep ==
  ASSUME Ns!IInv, Ns!CreateTempFileWithContent PROVE Ns!IInv'
<1>1. ip \in IPs /\ nsPc = "file"
  BY OnLocked DEF Ns!CreateTempFileWithContent, Ns!At
<1>2. Ns!TypeOK'
  BY <1>1, SMTT(40) DEF Ns!IInv, Ns!TypeOK, Ns!CreateTempFileWithContent, Ns!Fail
<1>3. Ns!SchedInv' /\ Ns!LockInv'
  BY <1>1
  DEF Ns!IInv, Ns!SchedInv, Ns!LockInv, Ns!CreateTempFileWithContent, Ns!Thread
<1>4. Ns!HostsInv' /\ Ns!AsksItsInstance'
  BY <1>1, SMTT(40)
  DEF Ns!IInv, Ns!TypeOK, Ns!HostsInv, Ns!AsksItsInstance,
      Ns!CreateTempFileWithContent, Ns!Fail
<1>5. QED
  BY <1>2, <1>3, <1>4 DEF Ns!IInv

\* The mount is seen in the namespace of the call only.
LEMMA MountStep == ASSUME Ns!IInv, Ns!Mount PROVE Ns!IInv'
<1>1. /\ Ns!Thread = locked /\ ip \in IPs /\ ip # Ns!Host
      /\ ip \in Ns!Namespaces
      /\ nsPc = "mount" /\ ns[Ns!Thread] = ip
  BY OnLocked DEF Ns!Mount, Ns!At, Ns!IInv, Ns!LockInv
<1>2. Ns!TypeOK'
  BY <1>1, SMTT(40) DEF Ns!IInv, Ns!TypeOK, Ns!Mount, Ns!Fail
<1>3. Ns!SchedInv' /\ Ns!LockInv'
  BY <1>1 DEF Ns!IInv, Ns!SchedInv, Ns!LockInv, Ns!Mount, Ns!Thread
<1>4. Ns!HostsInv' /\ Ns!AsksItsInstance'
  BY <1>1, SMTT(40)
  DEF Ns!IInv, Ns!TypeOK, Ns!HostsInv, Ns!AsksItsInstance, Ns!Mount, Ns!Fail,
      Ns!Namespaces
<1>5. QED
  BY <1>2, <1>3, <1>4 DEF Ns!IInv

\* kubectl runs where /etc/hosts names the instance of the call.
LEMMA runCommandStep == ASSUME Ns!IInv, Ns!runCommand PROVE Ns!IInv'
<1>1. /\ ip \in IPs /\ nsPc = "kubectl" /\ hosts[ns[Ns!Thread]] = ip
  BY OnLocked DEF Ns!runCommand, Ns!At, Ns!IInv, Ns!LockInv, Ns!HostsInv
<1>2. Ns!TypeOK'
  BY <1>1, SMTT(40) DEF Ns!IInv, Ns!TypeOK, Ns!runCommand, Ns!Fail
<1>3. Ns!SchedInv' /\ Ns!LockInv'
  BY <1>1 DEF Ns!IInv, Ns!SchedInv, Ns!LockInv, Ns!runCommand, Ns!Thread
<1>4. Ns!HostsInv' /\ Ns!AsksItsInstance'
  BY <1>1, SMTT(40)
  DEF Ns!IInv, Ns!TypeOK, Ns!HostsInv, Ns!AsksItsInstance, Ns!runCommand,
      Ns!Fail
<1>5. QED
  BY <1>2, <1>3, <1>4 DEF Ns!IInv

\* The mount is undone, in its namespace.
LEMMA UnmountStep == ASSUME Ns!IInv, Ns!Unmount PROVE Ns!IInv'
<1>1. /\ ip \in IPs /\ ip # Ns!Host /\ ip \in Ns!Namespaces
      /\ nsPc = "unmount" /\ ns[Ns!Thread] = ip
  BY OnLocked DEF Ns!Unmount, Ns!At, Ns!IInv, Ns!LockInv
<1>2. Ns!TypeOK'
  BY <1>1, SMTT(40) DEF Ns!IInv, Ns!TypeOK, Ns!Unmount
<1>3. Ns!SchedInv' /\ Ns!LockInv'
  BY <1>1 DEF Ns!IInv, Ns!SchedInv, Ns!LockInv, Ns!Unmount, Ns!Thread
<1>4. Ns!HostsInv' /\ Ns!AsksItsInstance'
  BY <1>1
  DEF Ns!IInv, Ns!TypeOK, Ns!HostsInv, Ns!AsksItsInstance, Ns!Unmount,
      Ns!Namespaces
<1>5. QED
  BY <1>2, <1>3, <1>4 DEF Ns!IInv

\* The file is removed.
LEMMA RemoveFileStep == ASSUME Ns!IInv, Ns!RemoveFile PROVE Ns!IInv'
<1>1. ip \in IPs /\ nsPc = "remove"
  BY OnLocked DEF Ns!RemoveFile, Ns!At
<1>2. Ns!TypeOK'
  BY <1>1, SMTT(40) DEF Ns!IInv, Ns!TypeOK, Ns!RemoveFile
<1>3. Ns!SchedInv' /\ Ns!LockInv'
  BY <1>1 DEF Ns!IInv, Ns!SchedInv, Ns!LockInv, Ns!RemoveFile, Ns!Thread
<1>4. Ns!HostsInv' /\ Ns!AsksItsInstance'
  BY DEF Ns!IInv, Ns!HostsInv, Ns!AsksItsInstance, Ns!RemoveFile
<1>5. QED
  BY <1>2, <1>3, <1>4 DEF Ns!IInv

\* The thread goes, and its namespace with it.
LEMMA ExitStep == ASSUME Ns!IInv, Ns!Exit PROVE Ns!IInv'
<1>1. Ns!Thread = locked /\ locked \in Threads /\ nsPc = "exit"
  BY OnLocked DEF Ns!Exit, Ns!At
<1>2. /\ \A t \in Threads : ns'[t] = IF t = locked THEN None ELSE ns[t]
      /\ \A g \in Ns!Goroutines : on'[g] = IF g = "closure" THEN None ELSE on[g]
      /\ locked' = None /\ nsPc' = "idle" /\ ip' = None
  BY <1>1 DEF Ns!IInv, Ns!TypeOK, Ns!Exit, Ns!Goroutines
<1>3. Ns!TypeOK'
  BY <1>1, Zenon DEF Ns!IInv, Ns!TypeOK, Ns!Exit
<1>4. Ns!SchedInv'
  BY <1>1, <1>2, NamesAssumption, SMTT(40)
  DEF Ns!IInv, Ns!TypeOK, Ns!SchedInv, Ns!Goroutines
<1>5. Ns!LockInv'
  BY <1>1, <1>2 DEF Ns!IInv, Ns!LockInv, Ns!Thread, Ns!Goroutines
<1>6. Ns!HostsInv' /\ Ns!AsksItsInstance'
  BY <1>2 DEF Ns!IInv, Ns!HostsInv, Ns!AsksItsInstance, Ns!Exit
<1>7. QED
  BY <1>3, <1>4, <1>5, <1>6 DEF Ns!IInv

-----------------------------------------------------------------------------
(* Every step keeps the invariant.                                         *)

\* One step per action of the scheduler and of the call.
LEMMA NsNextIInv == Ns!IInv /\ [Ns!Next]_(Ns!vars) => Ns!IInv'
<1> SUFFICES ASSUME Ns!IInv, [Ns!Next]_(Ns!vars) PROVE Ns!IInv'
  OBVIOUS
<1>1. CASE Ns!Step
  BY <1>1, LockStep, UnshareStep, CreateTempFileStep, MountStep, runCommandStep,
     UnmountStep, RemoveFileStep, ExitStep, SMTT(40)
  DEF Ns!Step
<1>2. CASE UNCHANGED Ns!vars
  BY <1>2
  DEF Ns!IInv, Ns!TypeOK, Ns!SchedInv, Ns!LockInv, Ns!HostsInv,
      Ns!AsksItsInstance, Ns!Thread, Ns!vars
<1>3. QED
  BY <1>1, <1>2, RunStep, PreemptStep, NewThreadStep, MetricsStep DEF Ns!Next

\* The invariant holds of every schedule (ns_linux.go:21-41).
THEOREM NsSpecIInv == Ns!Spec => []Ns!IInv
  BY NsInitIInv, NsNextIInv, PTL DEF Ns!Spec

\* For any number of threads, goroutines and instances, no goroutine but the
\* closure of Executes ever runs in a mount namespace other than that of the
\* process, nor sees another /etc/hosts: the thread is locked before Unshare
\* and never given back (ns_linux.go:26-37).
THEOREM OthersKeepHostsHolds == Ns!Spec => []OthersKeepHosts
<1>1. Ns!IInv => OthersKeepHosts
  <2> SUFFICES ASSUME Ns!IInv, NEW g \in Others, on[g] # None
               PROVE  hosts[ns[on[g]]] = Ns!Own /\ ns[on[g]] = Ns!Host
    BY DEF OthersKeepHosts, Ns!OthersKeepHosts
  <2>1. on[g] \in Threads /\ on[g] # locked /\ ns[on[g]] # None
    BY DEF Ns!IInv, Ns!TypeOK, Ns!SchedInv, Ns!Goroutines
  <2>2. QED
    BY <2>1 DEF Ns!IInv, Ns!LockInv, Ns!HostsInv
<1>2. QED
  BY <1>1, NsSpecIInv, PTL

\* The metrics Metrics reports for an instance are those of the instance, for
\* any number of instances, whatever the scheduler does between the mount and
\* kubectl (kubectl_cmd_linux.go:20-54).
THEOREM AsksItsInstanceHolds == Ns!Spec => []AsksItsInstance
<1>1. Ns!IInv => AsksItsInstance
  BY DEF Ns!IInv, AsksItsInstance
<1>2. QED
  BY <1>1, NsSpecIInv, PTL

\* The variables have their types.
THEOREM NsTypeCorrect == Ns!Spec => []Ns!TypeOK
<1>1. Ns!IInv => Ns!TypeOK
  BY SMTT(40) DEF Ns!IInv
<1>2. QED
  BY <1>1, NsSpecIInv, PTL

-----------------------------------------------------------------------------
(* The loading of Cilium resources.                                        *)

\* What comes before needs no theorem about finite sets.
INSTANCE FiniteSetTheorems

\* The Cardinality of the instance is that of FiniteSets.
LEMMA CiliumCardinality == \A S : Cilium!Cardinality(S) = Cardinality(S)
  BY DEF Cilium!Cardinality, Cardinality

\* Workers are finitely many.
LEMMA OfFinite ==
  ASSUME NEW f, NEW state
  PROVE  IsFiniteSet(Cilium!Of(f, state)) /\ Cilium!Num(f, state) \in Nat
<1>1. Cilium!Of(f, state) \subseteq Workers
  BY SMTT(40) DEF Cilium!Of
<1>2. QED
  BY <1>1, NumbersAssumption, FS_Subset, FS_CardinalityType, CiliumCardinality,
     SMTT(40)
  DEF Cilium!Num

\* A worker goes from one state to another.
Moved(f, g, w, old, new) ==
  /\ f \in [Workers -> {"select", "apply", "done", "failed"}]
  /\ w \in Workers /\ f[w] = old /\ old # new
  /\ g = [f EXCEPT ![w] = new]

\* One worker more is in its new state, and one less in its old one.
LEMMA WorkerMoves ==
  ASSUME NEW f, NEW g, NEW w, NEW old, NEW new, Moved(f, g, w, old, new)
  PROVE  /\ Cilium!Num(g, new) = Cilium!Num(f, new) + 1
         /\ Cilium!Num(g, old) = Cilium!Num(f, old) - 1
         /\ \A x : x # new /\ x # old => Cilium!Num(g, x) = Cilium!Num(f, x)
<1>1. /\ \A v \in Workers : g[v] = IF v = w THEN new ELSE f[v]
      /\ w \in Workers /\ f[w] = old /\ old # new
  BY SMTT(40) DEF Moved
<1>2. Cilium!Of(g, new) = Cilium!Of(f, new) \cup {w} /\ w \notin Cilium!Of(f, new)
  BY <1>1, SMTT(40) DEF Cilium!Of
<1>3. Cilium!Of(g, old) = Cilium!Of(f, old) \ {w} /\ w \in Cilium!Of(f, old)
  BY <1>1, SMTT(40) DEF Cilium!Of
<1>4. \A x : x # new /\ x # old => Cilium!Of(g, x) = Cilium!Of(f, x)
  BY <1>1 DEF Cilium!Of
<1>5. Cilium!Cardinality(Cilium!Of(f, new) \cup {w}) = Cilium!Num(f, new) + 1
  BY <1>2, OfFinite, FS_AddElement, CiliumCardinality, Zenon DEF Cilium!Num
<1>6. Cilium!Cardinality(Cilium!Of(f, old) \ {w}) = Cilium!Num(f, old) - 1
  BY <1>3, OfFinite, FS_RemoveElement, CiliumCardinality, Zenon DEF Cilium!Num
<1>7. QED
  BY <1>2, <1>3, <1>4, <1>5, <1>6, SMTT(40) DEF Cilium!Num

-----------------------------------------------------------------------------
(* The invariant.                                                          *)

\* The number of resources and the capacity of the channel are numbers.
LEMMA TotalType ==
  /\ Cilium!totalNumResources \in Nat
  /\ Cilium!capacity \in Nat
  /\ Workers = {} => Cilium!capacity = 0
<1>1. Cilium!Cardinality(Workers) \in Nat
  BY NumbersAssumption, FS_CardinalityType, CiliumCardinality, SMTT(40)
<1>2. Workers = {} => Cilium!Cardinality(Workers) = 0
  BY FS_EmptySet, CiliumCardinality
<1>3. QED
  BY <1>1, <1>2, NumbersAssumption, SMTT(40)
  DEF Cilium!totalNumResources, Cilium!capacity

\* The inductive invariant holds when the goroutines start.
LEMMA CiliumInit == Cilium!Init => Cilium!IInv
<1> SUFFICES ASSUME Cilium!Init PROVE Cilium!IInv
  OBVIOUS
<1>1. Cilium!TypeOK /\ Cilium!AttemptInv
  <2>1. 0 \in 0..Cilium!totalNumResources /\ 0 \in 0..Cilium!capacity
        /\ 0 \in 0..maxNumCRApplyAttempts
    BY TotalType, NumbersAssumption
  <2>2. /\ worker \in [Workers -> {"select", "apply", "done", "failed"}]
        /\ attempts \in [Workers -> 0..maxNumCRApplyAttempts]
    BY <2>1 DEF Cilium!Init
  <2>3. closed \in BOOLEAN /\ groupCancelled \in BOOLEAN
    BY Zenon DEF Cilium!Init
  <2>4. Cilium!TypeOK
    BY <2>1, <2>2, <2>3, SMTT(40) DEF Cilium!Init, Cilium!TypeOK
  <2>5. QED
    BY <2>4 DEF Cilium!Init, Cilium!AttemptInv
<1>2. Cilium!Num(worker, "apply") = 0 /\ Cilium!Num(worker, "failed") = 0
  <2>1. Cilium!Of(worker, "apply") = {} /\ Cilium!Of(worker, "failed") = {}
    BY DEF Cilium!Of, Cilium!Init
  <2>2. QED
    BY <2>1, FS_EmptySet, CiliumCardinality, SMTT(40) DEF Cilium!Num
<1>3. Cilium!Conserved
  BY <1>2 DEF Cilium!Conserved, Cilium!There, Cilium!Init
<1>4. Cilium!CancelInv /\ Cilium!EndInv /\ Cilium!MainInv
  BY DEF Cilium!CancelInv, Cilium!EndInv, Cilium!MainInv, Cilium!Init
<1>5. QED
  BY <1>1, <1>3, <1>4, SMTT(40) DEF Cilium!IInv

\* The producer sends a resource: it is there once more, in the channel.
LEMMA ProduceStep == ASSUME Cilium!IInv, Cilium!Produce PROVE Cilium!IInv'
<1>1. Cilium!TypeOK' /\ Cilium!AttemptInv'
  BY TotalType, SMTT(40)
  DEF Cilium!IInv, Cilium!TypeOK, Cilium!AttemptInv, Cilium!Produce
<1>2. /\ Cilium!There' = Cilium!There + 1 /\ Cilium!There \in Nat
      /\ Cilium!Num(worker', "failed") = Cilium!Num(worker, "failed")
  BY OfFinite, TotalType, SMTT(40)
  DEF Cilium!IInv, Cilium!TypeOK, Cilium!There, Cilium!Produce
<1>3. Cilium!Conserved'
  BY <1>2, OfFinite, TotalType, SMTT(40)
  DEF Cilium!IInv, Cilium!Conserved, Cilium!Produce, Cilium!TypeOK
<1>4. Cilium!CancelInv'
  BY <1>2, TotalType, SMTT(40)
  DEF Cilium!IInv, Cilium!CancelInv, Cilium!Produce, Cilium!TypeOK
<1>5. Cilium!EndInv' /\ Cilium!MainInv'
  BY DEF Cilium!IInv, Cilium!EndInv, Cilium!MainInv, Cilium!Produce
<1>6. QED
  BY <1>1, <1>3, <1>4, <1>5, SMTT(40) DEF Cilium!IInv

\* Steps that move no resource.
LEMMA CiliumStill ==
  ASSUME Cilium!IInv, UNCHANGED <<sent, queue, worker, attempts, applied>>
  PROVE  /\ Cilium!AttemptInv' /\ Cilium!Conserved'
         /\ Cilium!There' = Cilium!There /\ Cilium!There \in Nat
         /\ Cilium!There <= sent
<1>1. /\ Cilium!There' = Cilium!There /\ Cilium!There \in Nat
      /\ Cilium!Num(worker', "failed") = Cilium!Num(worker, "failed")
  BY OfFinite, TotalType DEF Cilium!IInv, Cilium!TypeOK, Cilium!There
<1>2. QED
  BY <1>1, SMTT(40) DEF Cilium!IInv, Cilium!AttemptInv, Cilium!Conserved

\* The producer gives up, because the group is cancelled.
LEMMA ProducerCancelledStep ==
  ASSUME Cilium!IInv, Cilium!ProducerCancelled PROVE Cilium!IInv'
<1>1. Cilium!AttemptInv' /\ Cilium!Conserved' /\ Cilium!There' = Cilium!There
  BY CiliumStill, SMTT(40) DEF Cilium!ProducerCancelled
<1>2. Cilium!TypeOK'
  BY DEF Cilium!IInv, Cilium!TypeOK, Cilium!ProducerCancelled
<1>3. Cilium!CancelInv'
  BY <1>1, SMTT(40) DEF Cilium!IInv, Cilium!CancelInv, Cilium!ProducerCancelled
<1>4. Cilium!EndInv'
  BY DEF Cilium!IInv, Cilium!EndInv, Cilium!ProducerCancelled
<1>5. Cilium!MainInv'
  BY SMTT(40) DEF Cilium!IInv, Cilium!MainInv, Cilium!ProducerCancelled
<1>6. QED
  BY <1>1, <1>2, <1>3, <1>4, <1>5, SMTT(40) DEF Cilium!IInv

\* The producer has sent all, and closes the channel.
LEMMA CloseStep == ASSUME Cilium!IInv, Cilium!Close PROVE Cilium!IInv'
<1>1. Cilium!AttemptInv' /\ Cilium!Conserved' /\ Cilium!There' = Cilium!There
  BY CiliumStill, SMTT(40) DEF Cilium!Close
<1>2. Cilium!TypeOK'
  BY DEF Cilium!IInv, Cilium!TypeOK, Cilium!Close
<1>3. Cilium!CancelInv'
  BY <1>1, SMTT(40) DEF Cilium!IInv, Cilium!CancelInv, Cilium!Close
<1>4. Cilium!EndInv'
  BY DEF Cilium!IInv, Cilium!EndInv, Cilium!Close
<1>5. Cilium!MainInv'
  BY SMTT(40) DEF Cilium!IInv, Cilium!MainInv, Cilium!Close
<1>6. QED
  BY <1>1, <1>2, <1>3, <1>4, <1>5 DEF Cilium!IInv

\* The reporter ends with the channel, or with the group.
LEMMA ReporterEndsStep == ASSUME Cilium!IInv, Cilium!ReporterEnds PROVE Cilium!IInv'
<1>1. Cilium!AttemptInv' /\ Cilium!Conserved' /\ Cilium!There' = Cilium!There
  BY CiliumStill, SMTT(40) DEF Cilium!ReporterEnds
<1>2. Cilium!TypeOK'
  BY DEF Cilium!IInv, Cilium!TypeOK, Cilium!ReporterEnds
<1>3. Cilium!CancelInv'
  BY <1>1, SMTT(40) DEF Cilium!IInv, Cilium!CancelInv, Cilium!ReporterEnds
<1>4. Cilium!EndInv'
  BY DEF Cilium!IInv, Cilium!EndInv, Cilium!ReporterEnds
<1>5. Cilium!MainInv'
  BY DEF Cilium!IInv, Cilium!MainInv, Cilium!ReporterEnds
<1>6. QED
  BY <1>1, <1>2, <1>3, <1>4, <1>5 DEF Cilium!IInv

-----------------------------------------------------------------------------
(* The steps of a worker.                                                  *)

\* A worker takes a resource from the channel.
LEMMA TakeStep ==
  ASSUME Cilium!IInv, NEW w \in Workers, Cilium!Take(w) PROVE Cilium!IInv'
<1>1. Cilium!TypeOK' /\ Cilium!AttemptInv'
  BY TotalType, NumbersAssumption, SMTT(40)
  DEF Cilium!IInv, Cilium!TypeOK, Cilium!AttemptInv, Cilium!Take
<1>2. /\ Cilium!Num(worker', "apply") = Cilium!Num(worker, "apply") + 1
      /\ Cilium!Num(worker', "failed") = Cilium!Num(worker, "failed")
  <2>1. Moved(worker, worker', w, "select", "apply")
    BY SMTT(40) DEF Cilium!IInv, Cilium!TypeOK, Moved, Cilium!Take
  <2>2. QED
    BY <2>1, WorkerMoves, SMTT(40)
<1>3. Cilium!There' = Cilium!There
  BY <1>2, OfFinite, TotalType, SMTT(40)
  DEF Cilium!IInv, Cilium!TypeOK, Cilium!There, Cilium!Take
<1>4. Cilium!Conserved' /\ Cilium!CancelInv'
  BY <1>2, <1>3, SMTT(40)
  DEF Cilium!IInv, Cilium!Conserved, Cilium!CancelInv, Cilium!Take
<1>5. Cilium!EndInv'
  BY DEF Cilium!IInv, Cilium!TypeOK, Cilium!EndInv, Cilium!Take
<1>6. Cilium!MainInv'
  BY SMTT(40) DEF Cilium!IInv, Cilium!MainInv, Cilium!Take
<1>7. QED
  BY <1>1, <1>4, <1>5, <1>6, SMTT(40) DEF Cilium!IInv

\* A worker ends, because the channel is closed and empty.
LEMMA WorkerDoneStep ==
  ASSUME Cilium!IInv, NEW w \in Workers, Cilium!WorkerDone(w) PROVE Cilium!IInv'
<1>1. Cilium!TypeOK' /\ Cilium!AttemptInv'
  BY DEF Cilium!IInv, Cilium!TypeOK, Cilium!AttemptInv, Cilium!WorkerDone
<1>2. /\ Cilium!Num(worker', "apply") = Cilium!Num(worker, "apply")
      /\ Cilium!Num(worker', "failed") = Cilium!Num(worker, "failed")
  <2>1. Moved(worker, worker', w, "select", "done")
    BY DEF Cilium!IInv, Cilium!TypeOK, Moved, Cilium!WorkerDone
  <2>2. QED
    BY <2>1, WorkerMoves, SMTT(40)
<1>3. Cilium!There' = Cilium!There
  BY <1>2, SMTT(40) DEF Cilium!There, Cilium!WorkerDone
<1>4. Cilium!Conserved' /\ Cilium!CancelInv'
  BY <1>2, <1>3, SMTT(40)
  DEF Cilium!IInv, Cilium!Conserved, Cilium!CancelInv, Cilium!WorkerDone
<1>5. Cilium!EndInv'
  BY DEF Cilium!IInv, Cilium!TypeOK, Cilium!EndInv, Cilium!WorkerDone
<1>6. Cilium!MainInv'
  BY SMTT(40) DEF Cilium!IInv, Cilium!MainInv, Cilium!WorkerDone
<1>7. QED
  BY <1>1, <1>4, <1>5, <1>6 DEF Cilium!IInv

\* A worker without a resource ends, because the group is cancelled.
LEMMA WorkerCancelledStep ==
  ASSUME Cilium!IInv, NEW w \in Workers, Cilium!WorkerCancelled(w)
  PROVE  Cilium!IInv'
<1>1. Cilium!TypeOK' /\ Cilium!AttemptInv'
  BY DEF Cilium!IInv, Cilium!TypeOK, Cilium!AttemptInv, Cilium!WorkerCancelled
<1>2. /\ Cilium!Num(worker', "apply") = Cilium!Num(worker, "apply")
      /\ Cilium!Num(worker', "failed") = Cilium!Num(worker, "failed") + 1
  <2>1. Moved(worker, worker', w, "select", "failed")
    BY SMTT(40) DEF Cilium!IInv, Cilium!TypeOK, Moved, Cilium!WorkerCancelled
  <2>2. QED
    BY <2>1, WorkerMoves, SMTT(40)
<1>3. Cilium!There' = Cilium!There /\ Cilium!There \in Nat
  BY <1>2, OfFinite, TotalType, SMTT(40)
  DEF Cilium!IInv, Cilium!TypeOK, Cilium!There, Cilium!WorkerCancelled
<1>4. Cilium!Conserved' /\ Cilium!CancelInv'
  BY <1>2, <1>3, OfFinite, TotalType, SMTT(40)
     DEF Cilium!IInv, Cilium!TypeOK, Cilium!Conserved, Cilium!CancelInv,
         Cilium!WorkerCancelled
<1>5. Cilium!EndInv'
  BY DEF Cilium!IInv, Cilium!TypeOK, Cilium!EndInv, Cilium!WorkerCancelled
<1>6. Cilium!MainInv'
  BY SMTT(40) DEF Cilium!IInv, Cilium!MainInv, Cilium!WorkerCancelled
<1>7. QED
  BY <1>1, <1>4, <1>5, <1>6 DEF Cilium!IInv

\* A resource is applied.
LEMMA ApplyOkStep ==
  ASSUME Cilium!IInv, NEW w \in Workers, Cilium!ApplyOk(w) PROVE Cilium!IInv'
<1>1. /\ Cilium!Num(worker', "apply") = Cilium!Num(worker, "apply") - 1
      /\ Cilium!Num(worker', "failed") = Cilium!Num(worker, "failed")
  <2>1. Moved(worker, worker', w, "apply", "select")
    BY SMTT(40) DEF Cilium!IInv, Cilium!TypeOK, Moved, Cilium!ApplyOk
  <2>2. QED
    BY <2>1, WorkerMoves, SMTT(40)
<1>2. Cilium!There' = Cilium!There /\ applied + 1 <= Cilium!There
  BY <1>1, OfFinite, TotalType, SMTT(40)
  DEF Cilium!IInv, Cilium!TypeOK, Cilium!There, Cilium!ApplyOk
<1>3. applied + 1 \in 0..Cilium!totalNumResources
  BY <1>2, OfFinite, TotalType, SMTT(40)
  DEF Cilium!IInv, Cilium!TypeOK, Cilium!Conserved, Cilium!There
<1>4. Cilium!TypeOK' /\ Cilium!AttemptInv'
  BY <1>3, SMTT(40) DEF Cilium!IInv, Cilium!TypeOK, Cilium!AttemptInv, Cilium!ApplyOk
<1>5. Cilium!Conserved' /\ Cilium!CancelInv'
  BY <1>1, <1>2, SMTT(40)
  DEF Cilium!IInv, Cilium!Conserved, Cilium!CancelInv, Cilium!ApplyOk
<1>6. Cilium!EndInv'
  BY DEF Cilium!IInv, Cilium!TypeOK, Cilium!EndInv, Cilium!ApplyOk
<1>7. Cilium!MainInv'
  BY DEF Cilium!IInv, Cilium!MainInv, Cilium!ApplyOk
<1>8. QED
  BY <1>4, <1>5, <1>6, <1>7 DEF Cilium!IInv

\* An attempt fails, and there is another one.
LEMMA RetryStep ==
  ASSUME Cilium!IInv, NEW w \in Workers, Cilium!ApplyFails(w),
         attempts'[w] # maxNumCRApplyAttempts
  PROVE  Cilium!IInv'
<1>1. attempts' = [attempts EXCEPT ![w] = @ + 1] /\ worker[w] = "apply"
  BY SMTT(40) DEF Cilium!ApplyFails
<1>2. /\ worker' = worker
      /\ (groupCancelled' <=> groupCancelled) /\ groupCancelled' \in BOOLEAN
  BY DEF Cilium!IInv, Cilium!TypeOK, Cilium!ApplyFails
<1>3. UNCHANGED <<sent, queue, closed, applied, producer, reporter, group>>
  BY SMTT(40) DEF Cilium!ApplyFails
<1>4. /\ attempts' \in [Workers -> 0..maxNumCRApplyAttempts]
      /\ attempts'[w] < maxNumCRApplyAttempts
  BY <1>1, NumbersAssumption, SMTT(40)
  DEF Cilium!IInv, Cilium!TypeOK, Cilium!AttemptInv
<1>5. Cilium!TypeOK'
  BY <1>2, <1>3, <1>4, SMTT(40) DEF Cilium!IInv, Cilium!TypeOK
<1>6. Cilium!AttemptInv'
  BY <1>1, <1>2, <1>4, SMTT(40) DEF Cilium!IInv, Cilium!TypeOK, Cilium!AttemptInv
<1>7. Cilium!There' = Cilium!There
  BY <1>2, <1>3, SMTT(40) DEF Cilium!There
<1>8. Cilium!Conserved' /\ Cilium!CancelInv'
  BY <1>2, <1>3, <1>7, SMTT(40) DEF Cilium!IInv, Cilium!Conserved, Cilium!CancelInv
<1>9. Cilium!EndInv' /\ Cilium!MainInv'
  BY <1>2, <1>3, SMTT(40) DEF Cilium!IInv, Cilium!EndInv, Cilium!MainInv
<1>10. QED
  BY <1>5, <1>6, <1>8, <1>9, SMTT(40) DEF Cilium!IInv

\* The last attempt fails.
LEMMA GiveUpStep ==
  ASSUME Cilium!IInv, NEW w \in Workers, Cilium!ApplyFails(w),
         attempts'[w] = maxNumCRApplyAttempts
  PROVE  Cilium!IInv'
<1>1. attempts' = [attempts EXCEPT ![w] = @ + 1] /\ worker[w] = "apply"
  BY DEF Cilium!ApplyFails
<1>2. /\ worker' = [worker EXCEPT ![w] = "failed"]
      /\ groupCancelled' /\ groupCancelled' \in BOOLEAN
  BY Zenon DEF Cilium!ApplyFails
<1>3. UNCHANGED <<sent, queue, closed, applied, producer, reporter, group>>
  BY SMTT(40) DEF Cilium!ApplyFails
<1>4. attempts' \in [Workers -> 0..maxNumCRApplyAttempts]
  BY <1>1, NumbersAssumption, SMTT(40)
  DEF Cilium!IInv, Cilium!TypeOK, Cilium!AttemptInv
<1>5. Cilium!TypeOK'
  BY <1>2, <1>3, <1>4, ZenonT(60) DEF Cilium!IInv, Cilium!TypeOK
<1>6. Cilium!AttemptInv'
  BY <1>1, <1>2, SMTT(40) DEF Cilium!IInv, Cilium!TypeOK, Cilium!AttemptInv
<1>7. /\ Cilium!Num(worker', "failed") = Cilium!Num(worker, "failed") + 1
      /\ Cilium!Num(worker', "apply") = Cilium!Num(worker, "apply") - 1
  <2>1. Moved(worker, worker', w, "apply", "failed")
    BY <1>1, <1>2, SMTT(40) DEF Cilium!IInv, Cilium!TypeOK, Moved
  <2>2. QED
    BY <2>1, WorkerMoves, SMTT(40)
<1>8. Cilium!There' = Cilium!There - 1 /\ Cilium!There \in Nat
  BY <1>3, <1>7, OfFinite, TotalType, SMTT(40)
  DEF Cilium!IInv, Cilium!TypeOK, Cilium!There
<1>9. Cilium!Conserved' /\ Cilium!CancelInv'
  BY <1>3, <1>7, <1>8, OfFinite, TotalType, SMTT(40)
  DEF Cilium!IInv, Cilium!TypeOK, Cilium!Conserved, Cilium!CancelInv
<1>10. Cilium!EndInv'
  BY <1>2, <1>3, SMTT(40) DEF Cilium!IInv, Cilium!TypeOK, Cilium!EndInv
<1>11. Cilium!MainInv'
  BY <1>1, <1>3, SMTT(40) DEF Cilium!IInv, Cilium!MainInv
<1>12. QED
  BY <1>5, <1>6, <1>9, <1>10, <1>11, SMTT(40) DEF Cilium!IInv

-----------------------------------------------------------------------------
(* Wait.                                                                   *)

\* All have ended.  An error means that a worker gave a resource up, which is
\* then not applied; no error means that the channel is empty behind the last.
LEMMA WaitStep == ASSUME Cilium!IInv, Cilium!Wait PROVE Cilium!IInv'
<1>1. /\ group = "wait" /\ producer # "run" /\ reporter # "run"
      /\ \A w \in Workers : worker[w] \in {"done", "failed"}
      /\ group' \in {"ok", "error"}
      /\ groupCancelled' /\ groupCancelled' \in BOOLEAN
      /\ UNCHANGED <<sent, queue, closed, worker, attempts, applied, producer,
                     reporter>>
  BY DEF Cilium!Wait
<1>2. /\ Cilium!AttemptInv' /\ Cilium!Conserved'
      /\ Cilium!There \in Nat /\ Cilium!There <= sent
  BY <1>1, CiliumStill, SMTT(40)
<1>3. Cilium!TypeOK'
  BY <1>1 DEF Cilium!IInv, Cilium!TypeOK
<1>4. Cilium!CancelInv'
  BY <1>1, SMTT(40) DEF Cilium!CancelInv
<1>5. Cilium!EndInv'
  BY <1>1, SMTT(40) DEF Cilium!IInv, Cilium!EndInv
<1>6. applied <= Cilium!There
  BY OfFinite, TotalType, SMTT(40) DEF Cilium!IInv, Cilium!TypeOK, Cilium!There
<1>7. ASSUME group' = "error" PROVE applied # Cilium!totalNumResources
  <2>1. groupCancelled
    BY <1>7, SMTT(40) DEF Cilium!Wait, Cilium!IInv, Cilium!EndInv
  <2>2. Cilium!There < sent
    BY <1>1, <2>1, SMTT(40) DEF Cilium!IInv, Cilium!CancelInv
  <2>3. QED
    BY <1>2, <1>6, <2>2, TotalType, SMTT(40) DEF Cilium!IInv, Cilium!TypeOK
<1>8. ASSUME group' = "ok" PROVE applied = Cilium!totalNumResources
  <2>1. producer # "failed" /\ \A w \in Workers : worker[w] = "done"
    BY <1>1, <1>8, SMTT(40) DEF Cilium!Wait
  <2>2. sent = Cilium!totalNumResources
    BY <1>1, <2>1, SMTT(40) DEF Cilium!IInv, Cilium!TypeOK, Cilium!EndInv
  <2>3. queue = 0
    <3>1. CASE Workers = {}
      BY <3>1, TotalType, SMTT(40) DEF Cilium!IInv, Cilium!TypeOK
    <3>2. CASE Workers # {}
      BY <2>1, <3>2, SMTT(40) DEF Cilium!IInv, Cilium!EndInv
    <3>3. QED
      BY <3>1, <3>2, SMTT(40)
  <2>4. Cilium!Of(worker, "apply") = {} /\ Cilium!Of(worker, "failed") = {}
    BY <2>1, SMTT(40) DEF Cilium!Of
  <2>5. QED
    BY <2>2, <2>3, <2>4, FS_EmptySet, CiliumCardinality, TotalType, SMTT(40)
    DEF Cilium!Num, Cilium!IInv, Cilium!TypeOK, Cilium!Conserved, Cilium!There
<1>9. Cilium!MainInv'
  <2>1. group' = "ok" <=> applied' = Cilium!totalNumResources
    BY <1>1, <1>7, <1>8, SMTT(40)
  <2>2. QED
    BY <1>1, <2>1, SMTT(40) DEF Cilium!MainInv
<1>10. QED
  BY <1>2, <1>3, <1>4, <1>5, <1>9, SMTT(40) DEF Cilium!IInv

-----------------------------------------------------------------------------
(* Every step keeps the invariant.                                         *)

\* Every step of the loading preserves the inductive invariant.
LEMMA CiliumNext == Cilium!IInv /\ [Cilium!Next]_(Cilium!vars) => Cilium!IInv'
<1> SUFFICES ASSUME Cilium!IInv, [Cilium!Next]_(Cilium!vars) PROVE Cilium!IInv'
  OBVIOUS
<1>1. CASE Cilium!loadCiliumData
  BY <1>1, ProduceStep, ProducerCancelledStep, CloseStep, ReporterEndsStep,
     WaitStep, SMTT(40)
  DEF Cilium!loadCiliumData
<1>2. ASSUME NEW w \in Workers, Cilium!Worker(w) PROVE Cilium!IInv'
  <2>1. CASE Cilium!ApplyFails(w)
    BY <2>1, RetryStep, GiveUpStep, SMTT(40)
  <2>2. QED
    BY <1>2, <2>1, TakeStep, WorkerDoneStep, WorkerCancelledStep, ApplyOkStep,
       SMTT(40)
       DEF Cilium!Worker
<1>3. CASE UNCHANGED Cilium!vars
  <2>1. Cilium!AttemptInv' /\ Cilium!Conserved' /\ Cilium!There' = Cilium!There
    BY <1>3, CiliumStill, SMTT(40) DEF Cilium!vars
  <2>2. Cilium!TypeOK' /\ Cilium!EndInv'
    BY <1>3, SMTT(40) DEF Cilium!IInv, Cilium!TypeOK, Cilium!EndInv, Cilium!vars
  <2>3. Cilium!CancelInv' /\ Cilium!MainInv'
    BY <1>3, <2>1, SMTT(40)
    DEF Cilium!IInv, Cilium!CancelInv, Cilium!MainInv, Cilium!vars
  <2>4. QED
    BY <2>1, <2>2, <2>3, SMTT(40) DEF Cilium!IInv
<1>4. QED
  BY <1>1, <1>2, <1>3, SMTT(40) DEF Cilium!Next, Cilium!Over

\* The invariant holds of every run of loadCiliumData.
THEOREM CiliumIInv == Cilium!Spec => []Cilium!IInv
  BY CiliumInit, CiliumNext, PTL DEF Cilium!Spec

\* The variables have their types: in particular the channel never holds more
\* than its capacity (cilium_cr_list.go:137).
THEOREM CiliumTypeCorrect == Cilium!Spec => []Cilium!TypeOK
<1>1. Cilium!IInv => Cilium!TypeOK
  BY DEF Cilium!IInv
<1>2. QED
  BY <1>1, CiliumIInv, PTL

\* No resource is lost or applied twice on its way from the producer to a
\* worker, for any number of workers, resources and attempts
\* (cilium_cr_list.go:139-166).
THEOREM ConservedHolds == Cilium!Spec => []Cilium!Conserved
<1>1. Cilium!IInv => Cilium!Conserved
  BY SMTT(40) DEF Cilium!IInv
<1>2. QED
  BY <1>1, CiliumIInv, PTL

\* loadCiliumData returns no error exactly if every resource was applied, for
\* any number of workers, resources and attempts
\* (cilium_cr_list.go:158-161, 210).
THEOREM ErrorIffMissingHolds == Cilium!Spec => []ErrorIffMissing
<1>1. Cilium!IInv => ErrorIffMissing
  BY DEF Cilium!IInv, Cilium!MainInv, ErrorIffMissing, Cilium!ErrorIffMissing
<1>2. QED
  BY <1>1, CiliumIInv, PTL
=============================================================================
