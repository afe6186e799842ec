---------------------------- MODULE RunnerGroup ----------------------------
(***************************************************************************)
(* The life of a benchmark that the runner group server runs: the server   *)
(* deploys a ConfigMap and a Job for every group, the pods of the Jobs run *)
(* the benchmark and post their reports until one post is answered, the    *)
(* server waits for the Jobs and adds the reports up, and a client fetches *)
(* the summary.  The server may die and be restarted in its pod at any     *)
(* moment: its memory is lost, the reports in its volume stay.             *)
(*                                                                         *)
(* The store is used through what LocalStore is shown to promise           *)
(* (PutIfAbsent), and Handler.Wait through what JobWatch shows of it: it   *)
(* returns only when the runners have ended, or it fails.                  *)
(***************************************************************************)
EXTENDS Naturals, FiniteSets

CONSTANTS
  Groups,      \* the runner groups of the server
  Runners,     \* the pods of all Jobs
  GroupOf,     \* the group of each runner
  Slots,       \* the posts of one runner handled at the same time
  MaxCrashes,  \* bound on the ends of the server process
  MaxLost,     \* bound on the connections that are lost
  None

ASSUME GroupOfAssumption == GroupOf \in [Runners -> Groups]
ASSUME BoundsAssumption == MaxCrashes \in Nat /\ MaxLost \in Nat
ASSUME NoneAssumption ==
  /\ None \notin Slots
  /\ None \notin [report : SUBSET Runners, skipped : SUBSET Runners]

VARIABLES
  configmap, job,  \* the groups whose ConfigMap or Job exists
  cached,   \* the runners the watch cache of the API server knows
  runner,   \* where each runner is
  answer,   \* the slot whose answer each runner waits for
  handler,  \* where the handler of each post is
  store,    \* the runners whose report is committed
  server,   \* where Server.Run is
  deploy,   \* where the deployment of each group is
  waited,   \* the groups whose Wait has returned
  left,     \* the groups buildRunnerGroupSummary has still to visit
  todo,     \* the listed pods of the present group still to read
  report,   \* the runners added up so far
  skipped,  \* the runners left out because of an error
  ready,    \* readyCh is closed
  served,   \* the summary the last client got
  crashes, lost

cluster == <<configmap, job>>
summary == <<waited, left, todo, report, skipped, ready>>
bounds == <<crashes, lost>>
vars == <<configmap, job, cached, runner, answer, handler, store, server,
          deploy, waited, left, todo, report, skipped, ready, served,
          crashes, lost>>

Active == {"running", "upload", "posting"}
Over == {"succeeded", "failed"}
Of(g) == {r \in Runners : GroupOf[r] = g}
Succeeded == {r \in Runners : runner[r] = "succeeded"}
JobFinished(g) == \A r \in Of(g) : runner[r] \in Over

HandlerStates == {"free", "check", "copy", "commit", "201", "409", "404", "500"}

Summaries == [report : SUBSET Runners, skipped : SUBSET Runners]

TypeOK ==
  /\ configmap \subseteq Groups /\ job \subseteq Groups
  /\ cached \subseteq Runners /\ store \subseteq Runners
  /\ runner \in [Runners -> {"none"} \cup Active \cup Over]
  /\ answer \in [Runners -> Slots \cup {None}]
  /\ handler \in [Runners -> [Slots -> HandlerStates]]
  /\ server \in {"down", "deploy", "serve"}
  /\ deploy \in [Groups -> {"configmap", "job", "done", "error"}]
  /\ waited \subseteq Groups /\ left \subseteq Groups
  /\ todo \subseteq Runners /\ report \subseteq Runners
  /\ skipped \subseteq Runners
  /\ ready \in BOOLEAN
  /\ served \in Summaries \cup {None}
  /\ crashes \in Nat /\ lost \in Nat

NoHandlers == [r \in Runners |-> [k \in Slots |-> "free"]]

Init ==
  /\ configmap = {} /\ job = {} /\ cached = {} /\ store = {}
  /\ runner = [r \in Runners |-> "none"]
  /\ answer = [r \in Runners |-> None]
  /\ handler = NoHandlers
  /\ server = "down"
  /\ deploy = [g \in Groups |-> "configmap"]
  /\ waited = {} /\ left = Groups /\ todo = {} /\ report = {} /\ skipped = {}
  /\ ready = FALSE
  /\ served = None
  /\ crashes = 0 /\ lost = 0

-----------------------------------------------------------------------------
(* The server process: Run, deployRunnerGroups and its end.                *)

Start ==
  /\ server = "down"
  /\ server' = "deploy"
  /\ UNCHANGED <<cluster, cached, runner, answer, handler, store, deploy,
                 summary, served, bounds>>

\* uploadLoadProfileAsConfigMap: a ConfigMap that exists is kept.
DeployConfigMap(g) ==
  /\ server = "deploy"
  /\ deploy[g] = "configmap"
  /\ configmap' = configmap \cup {g}
  /\ deploy' = [deploy EXCEPT ![g] = "job"]
  /\ UNCHANGED <<job, cached, runner, answer, handler, store, server,
                 summary, served, bounds>>

\* deployRunners: a Job that exists is kept.
DeployJob(g) ==
  /\ server = "deploy"
  /\ deploy[g] = "job"
  /\ job' = job \cup {g}
  /\ deploy' = [deploy EXCEPT ![g] = "done"]
  /\ UNCHANGED <<configmap, cached, runner, answer, handler, store, server,
                 summary, served, bounds>>

\* A Get or a Create gives an error; a Create may have taken effect.
DeployFailed(g) ==
  /\ server = "deploy"
  /\ deploy[g] \in {"configmap", "job"}
  /\ crashes < MaxCrashes
  /\ \/ UNCHANGED cluster
     \/ deploy[g] = "configmap" /\ configmap' = configmap \cup {g}
        /\ UNCHANGED job
     \/ deploy[g] = "job" /\ job' = job \cup {g} /\ UNCHANGED configmap
  /\ deploy' = [deploy EXCEPT ![g] = "error"]
  /\ UNCHANGED <<cached, runner, answer, handler, store, server, summary,
                 served, bounds>>

\* All goroutines of deployRunnerGroups have returned.
Serve ==
  /\ server = "deploy"
  /\ \A g \in Groups : deploy[g] = "done"
  /\ server' = "serve"
  /\ UNCHANGED <<cluster, cached, runner, answer, handler, store, deploy,
                 summary, served, bounds>>

\* The memory of the process goes, and its connections with it.
Down ==
  /\ server' = "down"
  /\ handler' = NoHandlers
  /\ runner' = [r \in Runners |->
                  IF runner[r] = "posting" THEN "upload" ELSE runner[r]]
  /\ answer' = [r \in Runners |-> None]
  /\ deploy' = [g \in Groups |-> "configmap"]
  /\ waited' = {} /\ left' = Groups /\ todo' = {} /\ report' = {}
  /\ skipped' = {}
  /\ ready' = FALSE
  /\ crashes' = crashes + 1
  /\ UNCHANGED <<cluster, cached, served, lost>>

\* Run returns the error of a deployment once all of them are through.
RunFailed ==
  /\ server = "deploy"
  /\ \A g \in Groups : deploy[g] \in {"done", "error"}
  /\ \E g \in Groups : deploy[g] = "error"
  /\ Down
  /\ UNCHANGED store

\* The process is killed, or Wait returns an error and the server panics.
Crash ==
  /\ server # "down"
  /\ crashes < MaxCrashes
  /\ Down
  /\ UNCHANGED store

-----------------------------------------------------------------------------
(* The pods: the Job controller, the benchmark and run_runner.sh.          *)

CreatePod(r) ==
  /\ GroupOf[r] \in job
  /\ runner[r] = "none"
  /\ runner' = [runner EXCEPT ![r] = "running"]
  /\ UNCHANGED <<cluster, cached, answer, handler, store, server, deploy,
                 summary, served, bounds>>

\* The watch cache, from which a list with resource version "0" is answered,
\* learns of the pod.
CachePod(r) ==
  /\ runner[r] # "none"
  /\ r \notin cached
  /\ cached' = cached \cup {r}
  /\ UNCHANGED <<cluster, runner, answer, handler, store, server, deploy,
                 summary, served, bounds>>

BenchmarkDone(r) ==
  /\ runner[r] = "running"
  /\ runner' = [runner EXCEPT ![r] = "upload"]
  /\ UNCHANGED <<cluster, cached, answer, handler, store, server, deploy,
                 summary, served, bounds>>

\* kperf fails, or the pod is killed; a post under way goes on without it.
PodFailed(r) ==
  /\ runner[r] \in Active
  /\ runner' = [runner EXCEPT ![r] = "failed"]
  /\ answer' = [answer EXCEPT ![r] = None]
  /\ UNCHANGED <<cluster, cached, handler, store, server, deploy, summary,
                 served, bounds>>

Post(r, k) ==
  /\ server = "serve"
  /\ runner[r] = "upload"
  /\ handler[r][k] = "free"
  /\ runner' = [runner EXCEPT ![r] = "posting"]
  /\ answer' = [answer EXCEPT ![r] = k]
  /\ handler' = [handler EXCEPT ![r][k] = "check"]
  /\ UNCHANGED <<cluster, cached, store, server, deploy, summary, served,
                 bounds>>

\* curl gives up; the handler does not know.
LoseConnection(r) ==
  /\ runner[r] = "posting"
  /\ lost < MaxLost
  /\ lost' = lost + 1
  /\ runner' = [runner EXCEPT ![r] = "upload"]
  /\ answer' = [answer EXCEPT ![r] = None]
  /\ UNCHANGED <<cluster, cached, handler, store, server, deploy, summary,
                 served, crashes>>

-----------------------------------------------------------------------------
(* postRunnerGroupsRunnerResult.                                           *)

HandlerGoto(r, k, label) == handler' = [handler EXCEPT ![r][k] = label]
HandlerKeeps == UNCHANGED <<cluster, cached, runner, answer, server, deploy,
                            summary, served, bounds>>

\* IsControlled of one group after the other; an error ends the search.
HandlerCheck(r, k) ==
  /\ handler[r][k] = "check"
  /\ \/ HandlerGoto(r, k, IF r \in cached THEN "copy" ELSE "404")
     \/ HandlerGoto(r, k, "500")
  /\ HandlerKeeps /\ UNCHANGED store

\* OpenWriter and io.Copy.
HandlerCopy(r, k) ==
  /\ handler[r][k] = "copy"
  /\ HandlerGoto(r, k, "commit") \/ HandlerGoto(r, k, "500")
  /\ HandlerKeeps /\ UNCHANGED store

HandlerCommit(r, k) ==
  /\ handler[r][k] = "commit"
  /\ \/ r \notin store /\ store' = store \cup {r} /\ HandlerGoto(r, k, "201")
     \/ r \in store /\ HandlerGoto(r, k, "409") /\ UNCHANGED store
     \/ HandlerGoto(r, k, "500") /\ UNCHANGED store
  /\ HandlerKeeps

RunnerAfterConflict(code) == IF code = "201" THEN "succeeded" ELSE "upload"

\* What run_runner.sh does with an answer.
RunnerAfter(code) ==
  CASE code \in {"201", "409"} -> "succeeded"
    [] code = "404" -> "failed"
    [] code = "500" -> "upload"

\* The answer reaches the runner if it is still there to read it.
Reply(r, k) ==
  /\ handler[r][k] \in {"201", "409", "404", "500"}
  /\ HandlerGoto(r, k, "free")
  /\ IF answer[r] = k
       THEN /\ runner' = [runner EXCEPT ![r] = RunnerAfter(handler[r][k])]
            /\ answer' = [answer EXCEPT ![r] = None]
       ELSE UNCHANGED <<runner, answer>>
  /\ UNCHANGED <<cluster, cached, store, server, deploy, summary, served,
                 bounds>>

-----------------------------------------------------------------------------
(* waitForRunnerGroups, buildRunnerGroupSummary and getRunnerGroupsSummary. *)

SummaryKeeps == UNCHANGED <<cluster, cached, runner, answer, handler, store,
                            server, deploy, bounds>>

WaitReturns(g) ==
  /\ server = "serve"
  /\ g \notin waited
  /\ JobFinished(g)
  /\ waited' = waited \cup {g}
  /\ SummaryKeeps /\ UNCHANGED <<left, todo, report, skipped, ready, served>>

\* The pods of the next group, from the watch cache; an error is logged and
\* the group left out.
ListPods(g) ==
  /\ waited = Groups
  /\ todo = {}
  /\ g \in left
  /\ left' = left \ {g}
  /\ \/ todo' = cached \cap Of(g) /\ UNCHANGED skipped
     \/ skipped' = skipped \cup Of(g) /\ UNCHANGED todo
  /\ SummaryKeeps /\ UNCHANGED <<waited, report, ready, served>>

\* A runner without a report is logged and left out.
ReadReport(r) ==
  /\ r \in todo
  /\ todo' = todo \ {r}
  /\ report' = IF r \in store THEN report \cup {r} ELSE report
  /\ SummaryKeeps /\ UNCHANGED <<waited, left, skipped, ready, served>>

\* A report that is there cannot be read.
ReadFailed(r) ==
  /\ r \in todo
  /\ todo' = todo \ {r}
  /\ skipped' = skipped \cup {r}
  /\ SummaryKeeps /\ UNCHANGED <<waited, left, report, ready, served>>

PublishEarly ==
  /\ waited = Groups
  /\ ~ready
  /\ ready' = TRUE
  /\ SummaryKeeps /\ UNCHANGED <<waited, left, todo, report, skipped, served>>

\* s.report is set, then readyCh closed.
Publish ==
  /\ waited = Groups
  /\ left = {} /\ todo = {}
  /\ ~ready
  /\ ready' = TRUE
  /\ SummaryKeeps /\ UNCHANGED <<waited, left, todo, report, skipped, served>>

\* A client that waits, or asks again, until the summary is ready.
GetSummary ==
  /\ ready
  /\ served' = [report |-> report, skipped |-> skipped]
  /\ SummaryKeeps /\ UNCHANGED summary

Handle(r, k) ==
  \/ HandlerCheck(r, k) \/ HandlerCopy(r, k) \/ HandlerCommit(r, k)
  \/ Reply(r, k)

Deploy(g) == DeployConfigMap(g) \/ DeployJob(g)

Summarise ==
  \/ \E g \in Groups : WaitReturns(g) \/ ListPods(g)
  \/ \E r \in Runners : ReadReport(r) \/ ReadFailed(r)
  \/ Publish

Next ==
  \/ Start \/ Serve \/ RunFailed \/ Crash
  \/ \E g \in Groups : Deploy(g) \/ DeployFailed(g)
  \/ \E r \in Runners :
       \/ CreatePod(r) \/ CachePod(r) \/ BenchmarkDone(r) \/ PodFailed(r)
       \/ LoseConnection(r)
       \/ \E k \in Slots : Post(r, k) \/ Handle(r, k)
  \/ Summarise
  \/ GetSummary

\* The kubelet restarts the server, goroutines that can run are run, the Job
\* controller creates the pods, the benchmark ends, and a runner whose post
\* fails posts again: a post is answered in the end with something else than
\* an error, if the errors stop.
Fairness ==
  /\ WF_vars(Start) /\ WF_vars(Serve) /\ WF_vars(RunFailed)
  /\ \A g \in Groups : WF_vars(Deploy(g))
  /\ \A r \in Runners :
       /\ WF_vars(CreatePod(r)) /\ WF_vars(CachePod(r))
       /\ WF_vars(BenchmarkDone(r))
       /\ WF_vars(\E k \in Slots : Post(r, k))
       /\ \A k \in Slots :
            /\ WF_vars(Handle(r, k))
            /\ SF_vars(HandlerCheck(r, k) /\ handler'[r][k] # "500")
            /\ SF_vars(HandlerCopy(r, k) /\ handler'[r][k] # "500")
            /\ SF_vars(HandlerCommit(r, k) /\ handler'[r][k] # "500")
  /\ WF_vars(Summarise)

Spec == Init /\ [][Next]_vars
FairSpec == Spec /\ Fairness

-----------------------------------------------------------------------------
(* Properties.                                                             *)

\* A runner that exits with success has its report in the store, whatever was
\* lost, sent twice or cut off by a restart on the way: 201 and 409 are both
\* answered only when the report is there (server.go:160-171,
\* run_runner.sh:20-32).
SucceededIsStored == Succeeded \subseteq store

\* The summary holds the report of every runner that succeeded, unless the
\* pods of its group could not be listed or the report not be read: no runner
\* is still running then, and the watch cache knows the pod, because the server
\* looked it up there when it took the report (server_runnergroup.go:47-66,
\* utils.go:70-83).
SummaryIsComplete == ready => Succeeded \subseteq skipped \cup report

\* A summary stays complete after a client got it, also when the server is
\* restarted and makes another one: no runner succeeds after the fact.
ServedStaysComplete ==
  served # None => Succeeded \subseteq served.skipped \cup served.report

\* The summary is ready in the end, and stays so.
SummaryGetsReady == <>[]ready

-----------------------------------------------------------------------------
(* The inductive invariant behind the safety properties.                   *)

\* What a handler knows: it has found the pod in the watch cache, and an
\* answer of 201 or 409 means that the report is there.
HandlersKnow ==
  \A r \in Runners, k \in Slots :
    /\ handler[r][k] \in {"copy", "commit", "201", "409"} => r \in cached
    /\ handler[r][k] \in {"201", "409"} => r \in store

\* A runner waits for an answer only while it posts.
OnlyPostersWait == \A r \in Runners : answer[r] # None => runner[r] = "posting"

\* The runners of a group whose Wait has returned are over, and the reports
\* are added up only after all of them.
WaitedIsOver ==
  /\ \A g \in waited : JobFinished(g)
  /\ waited # Groups => left = Groups /\ todo = {}
  /\ ready => waited = Groups /\ left = {} /\ todo = {}

\* A runner that succeeded is still to be visited, left out after an error, or
\* added up.
NoneForgotten ==
  \A r \in Succeeded :
    GroupOf[r] \in left \/ r \in todo \cup skipped \cup report

\* A client gets a summary only when all runners are over.
ServedIsOver == served # None => \A r \in Runners : runner[r] \in Over

\* The strengthening every step preserves.
IInv ==
  /\ TypeOK
  /\ HandlersKnow
  /\ OnlyPostersWait
  /\ SucceededIsStored
  /\ Succeeded \subseteq cached
  /\ WaitedIsOver
  /\ NoneForgotten
  /\ ServedIsOver
  /\ ServedStaysComplete
=============================================================================
