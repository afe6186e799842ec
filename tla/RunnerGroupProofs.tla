-------------------------- MODULE RunnerGroupProofs --------------------------
(***************************************************************************)
(* Proofs about a benchmark run by the runner group server, for any groups *)
(* and runners, any number of restarts, lost connections and posts.        *)
(***************************************************************************)
EXTENDS RunnerGroup, TLAPS

\* The state before the first start of the server satisfies the inductive
\* invariant.
LEMMA InitIInv == Init => IInv
<1> SUFFICES ASSUME Init PROVE IInv
  OBVIOUS
<1>1. TypeOK
  BY Zenon DEF Init, TypeOK, NoHandlers, HandlerStates
<1>2. Succeeded = {}
  BY DEF Init, Succeeded
<1>3. QED
  BY <1>1, <1>2, NoneAssumption DEF Init, IInv, NoHandlers, HandlersKnow,
     OnlyPostersWait, SucceededIsStored, WaitedIsOver, NoneForgotten,
     ServedIsOver, ServedStaysComplete

\* A handler that moves leaves the other handlers where they are.
LEMMA HandlerMoves ==
  ASSUME TypeOK, NEW r \in Runners, NEW k \in Slots,
         NEW label \in HandlerStates, HandlerGoto(r, k, label)
  PROVE  /\ handler' \in [Runners -> [Slots -> HandlerStates]]
         /\ \A q \in Runners, j \in Slots :
              handler'[q][j] = IF q = r /\ j = k THEN label ELSE handler[q][j]
<1>1. handler[r] \in [Slots -> HandlerStates]
  BY DEF TypeOK
<1>2. handler' = [handler EXCEPT ![r] = [handler[r] EXCEPT ![k] = label]]
  BY DEF HandlerGoto
<1>3. QED
  BY <1>1, <1>2 DEF TypeOK

\* Every step of the server, the pods and the clients preserves the inductive
\* invariant.
LEMMA NextIInv == IInv /\ [Next]_vars => IInv'
<1> SUFFICES ASSUME IInv, [Next]_vars PROVE IInv'
  OBVIOUS
<1> USE NoneAssumption, GroupOfAssumption, BoundsAssumption DEF IInv
<1>1. ASSUME Start PROVE IInv'
  <2>1. TypeOK'
    BY <1>1 DEF Start, cluster, summary, bounds, TypeOK
  <2>2. /\ HandlersKnow'
        /\ OnlyPostersWait'
        /\ SucceededIsStored'
        /\ (Succeeded \subseteq cached)'
        /\ WaitedIsOver'
        /\ NoneForgotten'
        /\ ServedIsOver'
        /\ ServedStaysComplete'
    BY <1>1 DEF Start, summary, HandlersKnow, OnlyPostersWait,
       SucceededIsStored, Succeeded, WaitedIsOver, JobFinished, NoneForgotten,
       ServedIsOver, ServedStaysComplete
  <2>3. QED
    BY <2>1, <2>2
<1>2. ASSUME Serve PROVE IInv'
  <2>1. TypeOK'
    BY <1>2 DEF Serve, cluster, summary, bounds, TypeOK
  <2>2. /\ HandlersKnow'
        /\ OnlyPostersWait'
        /\ SucceededIsStored'
        /\ (Succeeded \subseteq cached)'
        /\ WaitedIsOver'
        /\ NoneForgotten'
        /\ ServedIsOver'
        /\ ServedStaysComplete'
    BY <1>2 DEF Serve, summary, HandlersKnow, OnlyPostersWait,
       SucceededIsStored, Succeeded, WaitedIsOver, JobFinished, NoneForgotten,
       ServedIsOver, ServedStaysComplete
  <2>3. QED
    BY <2>1, <2>2
<1>3. ASSUME RunFailed PROVE IInv'
  <2>1. TypeOK'
    <3>1. handler' \in [Runners -> [Slots -> HandlerStates]]
      BY <1>3 DEF RunFailed, Down, NoHandlers, HandlerStates
    <3>2. runner' \in [Runners -> {"none"} \cup Active \cup Over]
      BY <1>3 DEF RunFailed, Down, TypeOK, Active
    <3>3. /\ answer' \in [Runners -> Slots \cup {None}]
          /\ deploy' \in [Groups -> {"configmap", "job", "done", "error"}]
      BY <1>3 DEF RunFailed, Down
    <3>4. /\ ready' \in BOOLEAN /\ server' = "down"
          /\ waited' = {} /\ left' = Groups /\ todo' = {}
          /\ report' = {} /\ skipped' = {}
          /\ crashes' = crashes + 1
          /\ UNCHANGED <<configmap, job, cached, served, lost, store>>
      BY <1>3, Zenon DEF RunFailed, Down, cluster
    <3>5. QED
      BY <3>1, <3>2, <3>3, <3>4 DEF TypeOK
  <2>2. HandlersKnow'
    BY <1>3 DEF RunFailed, Down, NoHandlers, TypeOK, HandlersKnow
  <2>3. OnlyPostersWait'
    BY <1>3 DEF RunFailed, Down, TypeOK, OnlyPostersWait
  <2>4. SucceededIsStored'
    BY <1>3 DEF RunFailed, Down, TypeOK, SucceededIsStored, Succeeded
  <2>5. (Succeeded \subseteq cached)'
    BY <1>3 DEF RunFailed, Down, TypeOK, Succeeded
  <2>6. WaitedIsOver'
    BY <1>3 DEF RunFailed, Down, TypeOK, WaitedIsOver, JobFinished, Of, Over
  <2>7. NoneForgotten'
    BY <1>3 DEF RunFailed, Down, TypeOK, NoneForgotten, Succeeded
  <2>8. ServedIsOver'
    BY <1>3 DEF RunFailed, Down, TypeOK, ServedIsOver, Over, WaitedIsOver,
       JobFinished, Of, Active
  <2>9. ServedStaysComplete'
    BY <1>3 DEF RunFailed, Down, TypeOK, ServedStaysComplete, Succeeded
  <2>10. QED
    BY <2>1, <2>2, <2>3, <2>4, <2>5, <2>6, <2>7, <2>8, <2>9
<1>4. ASSUME Crash PROVE IInv'
  <2>1. TypeOK'
    <3>1. handler' \in [Runners -> [Slots -> HandlerStates]]
      BY <1>4 DEF Crash, Down, NoHandlers, HandlerStates
    <3>2. runner' \in [Runners -> {"none"} \cup Active \cup Over]
      BY <1>4 DEF Crash, Down, TypeOK, Active
    <3>3. /\ answer' \in [Runners -> Slots \cup {None}]
          /\ deploy' \in [Groups -> {"configmap", "job", "done", "error"}]
      BY <1>4 DEF Crash, Down
    <3>4. /\ ready' \in BOOLEAN /\ server' = "down"
          /\ waited' = {} /\ left' = Groups /\ todo' = {}
          /\ report' = {} /\ skipped' = {}
          /\ crashes' = crashes + 1
          /\ UNCHANGED <<configmap, job, cached, served, lost, store>>
      BY <1>4, Zenon DEF Crash, Down, cluster
    <3>5. QED
      BY <3>1, <3>2, <3>3, <3>4 DEF TypeOK
  <2>2. HandlersKnow'
    BY <1>4 DEF Crash, Down, NoHandlers, TypeOK, HandlersKnow
  <2>3. OnlyPostersWait'
    BY <1>4 DEF Crash, Down, TypeOK, OnlyPostersWait
  <2>4. SucceededIsStored'
    BY <1>4 DEF Crash, Down, TypeOK, SucceededIsStored, Succeeded
  <2>5. (Succeeded \subseteq cached)'
    BY <1>4 DEF Crash, Down, TypeOK, Succeeded
  <2>6. WaitedIsOver'
    BY <1>4 DEF Crash, Down, TypeOK, WaitedIsOver, JobFinished, Of, Over
  <2>7. NoneForgotten'
    BY <1>4 DEF Crash, Down, TypeOK, NoneForgotten, Succeeded
  <2>8. ServedIsOver'
    BY <1>4 DEF Crash, Down, TypeOK, ServedIsOver, Over, WaitedIsOver,
       JobFinished, Of, Active
  <2>9. ServedStaysComplete'
    BY <1>4 DEF Crash, Down, TypeOK, ServedStaysComplete, Succeeded
  <2>10. QED
    BY <2>1, <2>2, <2>3, <2>4, <2>5, <2>6, <2>7, <2>8, <2>9
<1>5. ASSUME NEW g \in Groups, DeployConfigMap(g) PROVE IInv'
  <2>1. TypeOK'
    BY <1>5 DEF DeployConfigMap, cluster, summary, bounds, TypeOK
  <2>2. /\ HandlersKnow'
        /\ OnlyPostersWait'
        /\ SucceededIsStored'
        /\ (Succeeded \subseteq cached)'
        /\ WaitedIsOver'
        /\ NoneForgotten'
        /\ ServedIsOver'
        /\ ServedStaysComplete'
    BY <1>5 DEF DeployConfigMap, summary, HandlersKnow, OnlyPostersWait,
       SucceededIsStored, Succeeded, WaitedIsOver, JobFinished, NoneForgotten,
       ServedIsOver, ServedStaysComplete
  <2>3. QED
    BY <2>1, <2>2
<1>6. ASSUME NEW g \in Groups, DeployJob(g) PROVE IInv'
  <2>1. TypeOK'
    BY <1>6 DEF DeployJob, cluster, summary, bounds, TypeOK
  <2>2. /\ HandlersKnow'
        /\ OnlyPostersWait'
        /\ SucceededIsStored'
        /\ (Succeeded \subseteq cached)'
        /\ WaitedIsOver'
        /\ NoneForgotten'
        /\ ServedIsOver'
        /\ ServedStaysComplete'
    BY <1>6 DEF DeployJob, summary, HandlersKnow, OnlyPostersWait,
       SucceededIsStored, Succeeded, WaitedIsOver, JobFinished, NoneForgotten,
       ServedIsOver, ServedStaysComplete
  <2>3. QED
    BY <2>1, <2>2
<1>7. ASSUME NEW g \in Groups, DeployFailed(g) PROVE IInv'
  <2>1. TypeOK'
    BY <1>7 DEF DeployFailed, cluster, summary, bounds, TypeOK
  <2>2. /\ HandlersKnow'
        /\ OnlyPostersWait'
        /\ SucceededIsStored'
        /\ (Succeeded \subseteq cached)'
        /\ WaitedIsOver'
        /\ NoneForgotten'
        /\ ServedIsOver'
        /\ ServedStaysComplete'
    BY <1>7 DEF DeployFailed, summary, HandlersKnow, OnlyPostersWait,
       SucceededIsStored, Succeeded, WaitedIsOver, JobFinished, NoneForgotten,
       ServedIsOver, ServedStaysComplete
  <2>3. QED
    BY <2>1, <2>2
<1>8. ASSUME NEW r \in Runners, CreatePod(r) PROVE IInv'
  <2>1. TypeOK'
    BY <1>8 DEF CreatePod, cluster, summary, bounds, TypeOK, Active, Over
  <2>2. OnlyPostersWait'
    BY <1>8 DEF CreatePod, TypeOK, OnlyPostersWait
  <2>3. SucceededIsStored'
    BY <1>8 DEF CreatePod, TypeOK, SucceededIsStored, Succeeded
  <2>4. (Succeeded \subseteq cached)'
    BY <1>8 DEF CreatePod, TypeOK, Succeeded
  <2>5. WaitedIsOver'
    BY <1>8 DEF CreatePod, summary, TypeOK, WaitedIsOver, JobFinished, Of,
       Over
  <2>6. NoneForgotten'
    BY <1>8 DEF CreatePod, summary, TypeOK, NoneForgotten, Succeeded
  <2>7. ServedIsOver'
    BY <1>8 DEF CreatePod, TypeOK, ServedIsOver, Over, WaitedIsOver,
       JobFinished, Of, Active
  <2>8. ServedStaysComplete'
    BY <1>8 DEF CreatePod, TypeOK, ServedStaysComplete, Succeeded,
       ServedIsOver, Over, Active
  <2>9. HandlersKnow'
    BY <1>8 DEF CreatePod, HandlersKnow
  <2>10. QED
    BY <2>1, <2>2, <2>3, <2>4, <2>5, <2>6, <2>7, <2>8, <2>9
<1>9. ASSUME NEW r \in Runners, CachePod(r) PROVE IInv'
  <2>1. TypeOK'
    BY <1>9 DEF CachePod, cluster, summary, bounds, TypeOK
  <2>2. HandlersKnow'
    BY <1>9 DEF CachePod, TypeOK, HandlersKnow
  <2>3. (Succeeded \subseteq cached)'
    BY <1>9 DEF CachePod, TypeOK, Succeeded
  <2>4. /\ OnlyPostersWait'
        /\ SucceededIsStored'
        /\ WaitedIsOver'
        /\ NoneForgotten'
        /\ ServedIsOver'
        /\ ServedStaysComplete'
    BY <1>9 DEF CachePod, summary, OnlyPostersWait, SucceededIsStored,
       Succeeded, WaitedIsOver, JobFinished, NoneForgotten, ServedIsOver,
       ServedStaysComplete
  <2>5. QED
    BY <2>1, <2>2, <2>3, <2>4
<1>10. ASSUME NEW r \in Runners, BenchmarkDone(r) PROVE IInv'
  <2>1. TypeOK'
    BY <1>10 DEF BenchmarkDone, cluster, summary, bounds, TypeOK, Active, Over
  <2>2. OnlyPostersWait'
    BY <1>10 DEF BenchmarkDone, TypeOK, OnlyPostersWait
  <2>3. SucceededIsStored'
    BY <1>10 DEF BenchmarkDone, TypeOK, SucceededIsStored, Succeeded
  <2>4. (Succeeded \subseteq cached)'
    BY <1>10 DEF BenchmarkDone, TypeOK, Succeeded
  <2>5. WaitedIsOver'
    BY <1>10 DEF BenchmarkDone, summary, TypeOK, WaitedIsOver, JobFinished,
       Of, Over
  <2>6. NoneForgotten'
    BY <1>10 DEF BenchmarkDone, summary, TypeOK, NoneForgotten, Succeeded
  <2>7. ServedIsOver'
    BY <1>10 DEF BenchmarkDone, TypeOK, ServedIsOver, Over, WaitedIsOver,
       JobFinished, Of, Active
  <2>8. ServedStaysComplete'
    BY <1>10 DEF BenchmarkDone, TypeOK, ServedStaysComplete, Succeeded,
       ServedIsOver, Over, Active
  <2>9. HandlersKnow'
    BY <1>10 DEF BenchmarkDone, HandlersKnow
  <2>10. QED
    BY <2>1, <2>2, <2>3, <2>4, <2>5, <2>6, <2>7, <2>8, <2>9
<1>11. ASSUME NEW r \in Runners, PodFailed(r) PROVE IInv'
  <2>1. TypeOK'
    BY <1>11 DEF PodFailed, cluster, summary, bounds, TypeOK, Active, Over
  <2>2. OnlyPostersWait'
    BY <1>11 DEF PodFailed, TypeOK, OnlyPostersWait
  <2>3. SucceededIsStored'
    BY <1>11 DEF PodFailed, TypeOK, SucceededIsStored, Succeeded
  <2>4. (Succeeded \subseteq cached)'
    BY <1>11 DEF PodFailed, TypeOK, Succeeded
  <2>5. WaitedIsOver'
    BY <1>11 DEF PodFailed, summary, TypeOK, WaitedIsOver, JobFinished, Of,
       Over
  <2>6. NoneForgotten'
    BY <1>11 DEF PodFailed, summary, TypeOK, NoneForgotten, Succeeded
  <2>7. ServedIsOver'
    BY <1>11 DEF PodFailed, TypeOK, ServedIsOver, Over, WaitedIsOver,
       JobFinished, Of, Active
  <2>8. ServedStaysComplete'
    BY <1>11 DEF PodFailed, TypeOK, ServedStaysComplete, Succeeded,
       ServedIsOver, Over, Active
  <2>9. HandlersKnow'
    BY <1>11 DEF PodFailed, HandlersKnow
  <2>10. QED
    BY <2>1, <2>2, <2>3, <2>4, <2>5, <2>6, <2>7, <2>8, <2>9
<1>12. ASSUME NEW r \in Runners, LoseConnection(r) PROVE IInv'
  <2>1. TypeOK'
    BY <1>12 DEF LoseConnection, cluster, summary, TypeOK, Active, Over
  <2>2. OnlyPostersWait'
    BY <1>12 DEF LoseConnection, TypeOK, OnlyPostersWait
  <2>3. SucceededIsStored'
    BY <1>12 DEF LoseConnection, TypeOK, SucceededIsStored, Succeeded
  <2>4. (Succeeded \subseteq cached)'
    BY <1>12 DEF LoseConnection, TypeOK, Succeeded
  <2>5. WaitedIsOver'
    BY <1>12 DEF LoseConnection, summary, TypeOK, WaitedIsOver, JobFinished,
       Of, Over
  <2>6. NoneForgotten'
    BY <1>12 DEF LoseConnection, summary, TypeOK, NoneForgotten, Succeeded
  <2>7. ServedIsOver'
    BY <1>12 DEF LoseConnection, TypeOK, ServedIsOver, Over, WaitedIsOver,
       JobFinished, Of, Active
  <2>8. ServedStaysComplete'
    BY <1>12 DEF LoseConnection, TypeOK, ServedStaysComplete, Succeeded,
       ServedIsOver, Over, Active
  <2>9. HandlersKnow'
    BY <1>12 DEF LoseConnection, HandlersKnow
  <2>10. QED
    BY <2>1, <2>2, <2>3, <2>4, <2>5, <2>6, <2>7, <2>8, <2>9
<1>13. ASSUME NEW r \in Runners, NEW k \in Slots, Post(r, k) PROVE IInv'
  <2>1. HandlerGoto(r, k, "check")
    BY <1>13 DEF Post, HandlerGoto
  <2>2. /\ handler' \in [Runners -> [Slots -> HandlerStates]]
        /\ \A q \in Runners, j \in Slots :
             handler'[q][j] = IF q = r /\ j = k THEN "check" ELSE handler[q][j]
    BY <2>1, HandlerMoves DEF HandlerStates
  <2>3. TypeOK'
    BY <1>13, <2>2 DEF Post, cluster, summary, bounds, TypeOK, Active, Over
  <2>4. HandlersKnow'
    BY <1>13, <2>2 DEF Post, TypeOK, HandlersKnow
  <2>5. OnlyPostersWait'
    BY <1>13 DEF Post, TypeOK, OnlyPostersWait
  <2>6. SucceededIsStored'
    BY <1>13 DEF Post, TypeOK, SucceededIsStored, Succeeded
  <2>7. (Succeeded \subseteq cached)'
    BY <1>13 DEF Post, TypeOK, Succeeded
  <2>8. WaitedIsOver'
    BY <1>13 DEF Post, summary, TypeOK, WaitedIsOver, JobFinished, Of, Over
  <2>9. NoneForgotten'
    BY <1>13 DEF Post, summary, TypeOK, NoneForgotten, Succeeded
  <2>10. ServedIsOver'
    BY <1>13 DEF Post, TypeOK, ServedIsOver, Over, WaitedIsOver, JobFinished,
       Of, Active
  <2>11. ServedStaysComplete'
    BY <1>13 DEF Post, TypeOK, ServedStaysComplete, Succeeded, ServedIsOver,
       Over, Active
  <2>12. QED
    BY <2>3, <2>4, <2>5, <2>6, <2>7, <2>8, <2>9, <2>10, <2>11
<1>14. ASSUME NEW r \in Runners, NEW k \in Slots, HandlerCheck(r, k)
      PROVE  IInv'
  <2>1. PICK label \in {"copy", "404", "500"} :
          HandlerGoto(r, k, label) /\ (label = "copy" => r \in cached)
    BY <1>14 DEF HandlerCheck, HandlersKnow
  <2>2. /\ handler' \in [Runners -> [Slots -> HandlerStates]]
        /\ \A q \in Runners, j \in Slots :
             handler'[q][j] = IF q = r /\ j = k THEN label ELSE handler[q][j]
    BY <2>1, HandlerMoves DEF HandlerStates
  <2>3. TypeOK'
    BY <1>14, <2>2 DEF HandlerCheck, HandlerKeeps, cluster, summary, bounds,
       TypeOK
  <2>4. HandlersKnow'
    BY <1>14, <2>1, <2>2 DEF HandlerCheck, HandlerKeeps, TypeOK, HandlersKnow
  <2>5. /\ OnlyPostersWait'
        /\ SucceededIsStored'
        /\ (Succeeded \subseteq cached)'
        /\ WaitedIsOver'
        /\ NoneForgotten'
        /\ ServedIsOver'
        /\ ServedStaysComplete'
    BY <1>14 DEF HandlerCheck, HandlerKeeps, summary, OnlyPostersWait,
       SucceededIsStored, Succeeded, WaitedIsOver, JobFinished, NoneForgotten,
       ServedIsOver, ServedStaysComplete
  <2>6. QED
    BY <2>3, <2>4, <2>5
<1>15. ASSUME NEW r \in Runners, NEW k \in Slots, HandlerCopy(r, k)
      PROVE  IInv'
  <2>1. PICK label \in {"commit", "500"} :
          HandlerGoto(r, k, label) /\ r \in cached
    BY <1>15 DEF HandlerCopy, HandlersKnow
  <2>2. /\ handler' \in [Runners -> [Slots -> HandlerStates]]
        /\ \A q \in Runners, j \in Slots :
             handler'[q][j] = IF q = r /\ j = k THEN label ELSE handler[q][j]
    BY <2>1, HandlerMoves DEF HandlerStates
  <2>3. TypeOK'
    BY <1>15, <2>2 DEF HandlerCopy, HandlerKeeps, cluster, summary, bounds,
       TypeOK
  <2>4. HandlersKnow'
    BY <1>15, <2>1, <2>2 DEF HandlerCopy, HandlerKeeps, TypeOK, HandlersKnow
  <2>5. /\ OnlyPostersWait'
        /\ SucceededIsStored'
        /\ (Succeeded \subseteq cached)'
        /\ WaitedIsOver'
        /\ NoneForgotten'
        /\ ServedIsOver'
        /\ ServedStaysComplete'
    BY <1>15 DEF HandlerCopy, HandlerKeeps, summary, OnlyPostersWait,
       SucceededIsStored, Succeeded, WaitedIsOver, JobFinished, NoneForgotten,
       ServedIsOver, ServedStaysComplete
  <2>6. QED
    BY <2>3, <2>4, <2>5
<1>16. ASSUME NEW r \in Runners, NEW k \in Slots, HandlerCommit(r, k)
      PROVE  IInv'
  <2>1. PICK label \in {"201", "409", "500"} :
          HandlerGoto(r, k, label) /\ r \in cached
          /\ (label # "500" => r \in store')
    BY <1>16 DEF HandlerCommit, HandlersKnow
  <2>2. /\ handler' \in [Runners -> [Slots -> HandlerStates]]
        /\ \A q \in Runners, j \in Slots :
             handler'[q][j] = IF q = r /\ j = k THEN label ELSE handler[q][j]
    BY <2>1, HandlerMoves DEF HandlerStates
  <2>3. TypeOK'
    BY <1>16, <2>2 DEF HandlerCommit, HandlerKeeps, cluster, summary, bounds,
       TypeOK
  <2>4. HandlersKnow'
    BY <1>16, <2>1, <2>2 DEF HandlerCommit, HandlerKeeps, TypeOK, HandlersKnow
  <2>5. SucceededIsStored'
    BY <1>16 DEF HandlerCommit, HandlerKeeps, TypeOK, SucceededIsStored,
       Succeeded
  <2>6. /\ OnlyPostersWait'
        /\ (Succeeded \subseteq cached)'
        /\ WaitedIsOver'
        /\ NoneForgotten'
        /\ ServedIsOver'
        /\ ServedStaysComplete'
    BY <1>16 DEF HandlerCommit, HandlerKeeps, summary, OnlyPostersWait,
       Succeeded, WaitedIsOver, JobFinished, NoneForgotten, ServedIsOver,
       ServedStaysComplete
  <2>7. QED
    BY <2>3, <2>4, <2>5, <2>6
<1>17. ASSUME NEW r \in Runners, NEW k \in Slots, Reply(r, k) PROVE IInv'
  <2>1. HandlerGoto(r, k, "free")
    BY <1>17 DEF Reply
  <2>2. /\ handler' \in [Runners -> [Slots -> HandlerStates]]
        /\ \A q \in Runners, j \in Slots :
             handler'[q][j] = IF q = r /\ j = k THEN "free" ELSE handler[q][j]
    BY <2>1, HandlerMoves DEF HandlerStates
  <2>3. TypeOK'
    <3>1. runner' \in [Runners -> {"none"} \cup Active \cup Over]
      BY <1>17 DEF Reply, RunnerAfter, TypeOK, Over, Active
    <3>2. answer' \in [Runners -> Slots \cup {None}]
      BY <1>17 DEF Reply, TypeOK
    <3>3. UNCHANGED <<configmap, job, cached, store, server, deploy, waited,
                      left, todo, report, skipped, ready, served, crashes,
                      lost>>
      BY <1>17 DEF Reply, cluster, summary, bounds
    <3>4. QED
      BY <3>1, <3>2, <3>3, <2>2 DEF TypeOK
  <2>4. HandlersKnow'
    BY <1>17, <2>2 DEF Reply, TypeOK, HandlersKnow
  <2>5. OnlyPostersWait'
    BY <1>17 DEF Reply, RunnerAfter, OnlyPostersWait, HandlersKnow, TypeOK
  <2>6. SucceededIsStored'
    BY <1>17 DEF Reply, RunnerAfter, OnlyPostersWait, HandlersKnow, TypeOK,
       SucceededIsStored, Succeeded
  <2>7. (Succeeded \subseteq cached)'
    BY <1>17 DEF Reply, RunnerAfter, OnlyPostersWait, HandlersKnow, TypeOK,
       Succeeded
  <2>8. WaitedIsOver'
    BY <1>17 DEF Reply, summary, RunnerAfter, OnlyPostersWait, HandlersKnow,
       TypeOK, WaitedIsOver, JobFinished, Of, Over
  <2>9. NoneForgotten'
    <3>1. CASE answer[r] = k
      <4>1. runner[r] = "posting"
        BY <3>1 DEF OnlyPostersWait
      <4>2. GroupOf[r] \in Groups /\ ~JobFinished(GroupOf[r])
        BY <4>1 DEF JobFinished, Of, Over
      <4>3. left = Groups
        BY <4>2 DEF WaitedIsOver
      <4>4. QED
        BY <1>17, <4>3 DEF Reply, summary, NoneForgotten, Succeeded
    <3>2. CASE answer[r] # k
      BY <1>17, <3>2 DEF Reply, summary, NoneForgotten, Succeeded
    <3>3. QED
      BY <3>1, <3>2
  <2>10. ServedIsOver'
    BY <1>17 DEF Reply, RunnerAfter, OnlyPostersWait, HandlersKnow, TypeOK,
       ServedIsOver, Over, WaitedIsOver, JobFinished, Of, Active
  <2>11. ServedStaysComplete'
    BY <1>17 DEF Reply, RunnerAfter, OnlyPostersWait, HandlersKnow, TypeOK,
       ServedStaysComplete, Succeeded, ServedIsOver, Over, Active
  <2>12. QED
    BY <2>3, <2>4, <2>5, <2>6, <2>7, <2>8, <2>9, <2>10, <2>11
<1>18. ASSUME NEW g \in Groups, WaitReturns(g) PROVE IInv'
  <2>1. TypeOK'
    BY <1>18 DEF WaitReturns, SummaryKeeps, cluster, bounds, TypeOK
  <2>2. WaitedIsOver'
    BY <1>18 DEF WaitReturns, SummaryKeeps, TypeOK, WaitedIsOver, JobFinished,
       Of, Over
  <2>3. /\ HandlersKnow'
        /\ OnlyPostersWait'
        /\ SucceededIsStored'
        /\ (Succeeded \subseteq cached)'
        /\ NoneForgotten'
        /\ ServedIsOver'
        /\ ServedStaysComplete'
    BY <1>18 DEF WaitReturns, SummaryKeeps, HandlersKnow, OnlyPostersWait,
       SucceededIsStored, Succeeded, NoneForgotten, ServedIsOver,
       ServedStaysComplete
  <2>4. QED
    BY <2>1, <2>2, <2>3
<1>19. ASSUME NEW g \in Groups, ListPods(g) PROVE IInv'
  <2>1. TypeOK'
    <3>1. left' \subseteq Groups /\ todo' \subseteq Runners
      BY <1>19 DEF ListPods, TypeOK, Of
    <3>2. skipped' \subseteq Runners
      BY <1>19 DEF ListPods, TypeOK, Of
    <3>3. UNCHANGED <<configmap, job, cached, runner, answer, handler, store,
                      server, deploy, waited, report, ready, served, crashes,
                      lost>>
      BY <1>19 DEF ListPods, SummaryKeeps, cluster, bounds
    <3>4. QED
      BY <3>1, <3>2, <3>3 DEF TypeOK
  <2>2. WaitedIsOver'
    BY <1>19 DEF ListPods, SummaryKeeps, TypeOK, WaitedIsOver, JobFinished,
       Of, Over
  <2>3. NoneForgotten'
    BY <1>19 DEF ListPods, SummaryKeeps, TypeOK, NoneForgotten, Succeeded, Of
  <2>4. /\ HandlersKnow'
        /\ OnlyPostersWait'
        /\ SucceededIsStored'
        /\ (Succeeded \subseteq cached)'
        /\ ServedIsOver'
        /\ ServedStaysComplete'
    BY <1>19 DEF ListPods, SummaryKeeps, HandlersKnow, OnlyPostersWait,
       SucceededIsStored, Succeeded, ServedIsOver, ServedStaysComplete
  <2>5. QED
    BY <2>1, <2>2, <2>3, <2>4
<1>20. ASSUME NEW r \in Runners, ReadReport(r) PROVE IInv'
  <2>1. TypeOK'
    BY <1>20 DEF ReadReport, SummaryKeeps, cluster, bounds, TypeOK
  <2>2. WaitedIsOver'
    BY <1>20 DEF ReadReport, SummaryKeeps, TypeOK, WaitedIsOver, JobFinished,
       Of, Over
  <2>3. NoneForgotten'
    BY <1>20 DEF ReadReport, SummaryKeeps, TypeOK, NoneForgotten, Succeeded,
       SucceededIsStored
  <2>4. /\ HandlersKnow'
        /\ OnlyPostersWait'
        /\ SucceededIsStored'
        /\ (Succeeded \subseteq cached)'
        /\ ServedIsOver'
        /\ ServedStaysComplete'
    BY <1>20 DEF ReadReport, SummaryKeeps, HandlersKnow, OnlyPostersWait,
       SucceededIsStored, Succeeded, ServedIsOver, ServedStaysComplete
  <2>5. QED
    BY <2>1, <2>2, <2>3, <2>4
<1>21. ASSUME NEW r \in Runners, ReadFailed(r) PROVE IInv'
  <2>1. TypeOK'
    BY <1>21 DEF ReadFailed, SummaryKeeps, cluster, bounds, TypeOK
  <2>2. WaitedIsOver'
    BY <1>21 DEF ReadFailed, SummaryKeeps, TypeOK, WaitedIsOver, JobFinished,
       Of, Over
  <2>3. NoneForgotten'
    BY <1>21 DEF ReadFailed, SummaryKeeps, TypeOK, NoneForgotten, Succeeded
  <2>4. /\ HandlersKnow'
        /\ OnlyPostersWait'
        /\ SucceededIsStored'
        /\ (Succeeded \subseteq cached)'
        /\ ServedIsOver'
        /\ ServedStaysComplete'
    BY <1>21 DEF ReadFailed, SummaryKeeps, HandlersKnow, OnlyPostersWait,
       SucceededIsStored, Succeeded, ServedIsOver, ServedStaysComplete
  <2>5. QED
    BY <2>1, <2>2, <2>3, <2>4
<1>22. ASSUME Publish PROVE IInv'
  <2>1. TypeOK'
    BY <1>22 DEF Publish, SummaryKeeps, cluster, bounds, TypeOK
  <2>2. WaitedIsOver'
    BY <1>22 DEF Publish, SummaryKeeps, TypeOK, WaitedIsOver, JobFinished, Of,
       Over
  <2>3. /\ HandlersKnow'
        /\ OnlyPostersWait'
        /\ SucceededIsStored'
        /\ (Succeeded \subseteq cached)'
        /\ NoneForgotten'
        /\ ServedIsOver'
        /\ ServedStaysComplete'
    BY <1>22 DEF Publish, SummaryKeeps, HandlersKnow, OnlyPostersWait,
       SucceededIsStored, Succeeded, NoneForgotten, ServedIsOver,
       ServedStaysComplete
  <2>4. QED
    BY <2>1, <2>2, <2>3
<1>23. ASSUME GetSummary PROVE IInv'
  <2>1. TypeOK'
    BY <1>23 DEF GetSummary, SummaryKeeps, cluster, summary, bounds, TypeOK,
       Summaries
  <2>2. ServedIsOver'
    BY <1>23, Zenon DEF GetSummary, SummaryKeeps, TypeOK, ServedIsOver, Over,
       WaitedIsOver, JobFinished, Of, Active
  <2>3. ServedStaysComplete'
    BY <1>23 DEF GetSummary, SummaryKeeps, TypeOK, ServedStaysComplete,
       Succeeded, NoneForgotten, WaitedIsOver
  <2>4. /\ HandlersKnow'
        /\ OnlyPostersWait'
        /\ SucceededIsStored'
        /\ (Succeeded \subseteq cached)'
        /\ WaitedIsOver'
        /\ NoneForgotten'
    BY <1>23 DEF GetSummary, SummaryKeeps, summary, HandlersKnow,
       OnlyPostersWait, SucceededIsStored, Succeeded, WaitedIsOver,
       JobFinished, NoneForgotten
  <2>5. QED
    BY <2>1, <2>2, <2>3, <2>4
<1>24. CASE UNCHANGED vars
  BY <1>24 DEF vars, TypeOK, HandlersKnow, OnlyPostersWait, SucceededIsStored,
     Succeeded, WaitedIsOver, JobFinished, NoneForgotten, ServedIsOver,
     ServedStaysComplete
<1>25. QED
  BY <1>1, <1>2, <1>3, <1>4, <1>5, <1>6, <1>7, <1>8, <1>9, <1>10, <1>11,
     <1>12, <1>13, <1>14, <1>15, <1>16, <1>17, <1>18, <1>19, <1>20, <1>21,
     <1>22, <1>23, <1>24, Zenon DEF Next, Deploy, Handle, Summarise

\* The inductive invariant holds in every reachable state.
LEMMA SpecIInv == Spec => []IInv
  BY InitIInv, NextIInv, PTL DEF Spec

\* The variables keep their types.
THEOREM TypeCorrect == Spec => []TypeOK
  BY SpecIInv, PTL DEF IInv

\* For any groups and runners, a runner that exits with success has its
\* report in the store.
THEOREM SucceededIsStoredHolds == Spec => []SucceededIsStored
  BY SpecIInv, PTL DEF IInv

\* For any groups and runners, a summary that is ready holds the report of
\* every runner that succeeded, but for those left out after an error.
THEOREM SummaryIsCompleteHolds == Spec => []SummaryIsComplete
<1>1. IInv => SummaryIsComplete
  BY DEF IInv, SummaryIsComplete, WaitedIsOver, NoneForgotten
<1>2. QED
  BY <1>1, SpecIInv, PTL

\* For any groups and runners, a summary that a client got stays complete.
THEOREM ServedStaysCompleteHolds == Spec => []ServedStaysComplete
  BY SpecIInv, PTL DEF IInv
=============================================================================
