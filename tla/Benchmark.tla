----------------------------- MODULE Benchmark -----------------------------
(***************************************************************************)
(* The benchmarks of runkperf and its warm-up.  Each is a list of steps    *)
(* that create something, push its clean-up with defer and may fail; a     *)
(* goroutine may work on the cluster in the background meanwhile.  A       *)
(* benchmark is run again and again on one cluster, also after a run that  *)
(* was killed or that panicked, and finds what the runs before it left.    *)
(*                                                                         *)
(* The commands kubectl, kperf and helm (external) do their work or fail;  *)
(* `kubectl create namespace` fails if the namespace exists, `kperf vc     *)
(* nodepool add` and `kperf rg run` if the pool or the server exists, and  *)
(* a command whose context is cancelled fails.                             *)
(***************************************************************************)
EXTENDS Integers, Sequences

CONSTANTS
  Cases,     \* the benchmarks that are run
  MaxRuns,   \* bound on the runs one after the other
  MaxKills,  \* bound on the runs killed by the operator
  Totals     \* the numbers of deployments that are asked for

\* The commands of runkperf that have a course here.
AllCases ==
  {"node10_job1_pod100", "node10_job1_pod1k", "node100_job1_pod3k",
   "node100_pod10k", "node100_job10_pod10k", "list_configmaps", "read_update",
   "cilium_cr_list", "timeseries_replay", "warmup"}

ASSUME BenchAssumption ==
  /\ Cases \subseteq AllCases
  /\ Totals \subseteq Nat /\ MaxRuns \in Nat /\ MaxKills \in Nat

VARIABLES
  case,       \* the benchmark
  total,      \* its number of deployments
  run,        \* the number of the run
  phase,      \* off, run, unwind, ended, rendered, crashed
  pc,         \* the next step of the benchmark
  defers,     \* the deferred clean-ups, last in first out
  err,        \* an error is returned
  report,     \* the run whose runner group the result is of
  cluster,    \* what exists, by the run that made it, 0 if absent
  server,     \* the pod of the runner group server: running, ready, lost
  bg,         \* where the background goroutine is
  todo,       \* the deployments of this round not yet restarted
  cancelled,  \* the context of the background goroutine
  excused,    \* what could not be removed, or was left by a crash
  kills

control == <<case, total, run, phase, pc, defers, err>>
world == <<cluster, server, excused>>
background == <<bg, todo, cancelled>>
vars == <<control, report, world, background, kills>>

Kinds == {"file", "nodepool", "namespace", "job", "release", "configmaps",
          "runnergroup", "cilium"}

TypeOK ==
  /\ case \in Cases /\ total \in Totals
  /\ run \in 0..MaxRuns
  /\ phase \in {"off", "run", "unwind", "ended", "rendered", "crashed"}
  /\ pc \in Nat \ {0}
  /\ defers \in Seq(Kinds)
  /\ err \in BOOLEAN /\ cancelled \in BOOLEAN
  /\ server \in {"running", "ready", "lost"}
  /\ report \in 0..MaxRuns
  /\ cluster \in [Kinds -> 0..MaxRuns]
  /\ bg \in {"off", "namespace", "check", "apply", "wait", "delete",
             "cleanup", "interval", "update", "ended"}
  /\ todo \in Nat
  /\ excused \subseteq Kinds
  /\ kills \in 0..MaxKills

-----------------------------------------------------------------------------
(* The steps of each benchmark.                                            *)

newLoadProfileFromEmbed == <<"profile">>
FetchNodeProviderIDByType == <<"provider">>
patchEKSDaemonsetWithoutToleration == <<"patch">>
CreateConfigmaps == <<"configmaps">>
DeployDeployments == <<"deployRelease">>
dumpDeploymentReplicas == <<"replicas">>
getDeploymentPodSize == <<"podSize">>
installCiliumCRDs == <<"crds">>
loadCiliumData == <<"cilium">>

deployVirtualNodepool ==
  FetchNodeProviderIDByType \o <<"deletePool", "newPool">>
deployWarmupVirtualNodepool ==
  FetchNodeProviderIDByType \o <<"deletePool", "newPool">>
DeployRunnerGroup == <<"rgDelete", "rgRun", "rgResult", "rgCleanup">>
DeployJobs == <<"createNamespace", "deployRelease">>

benchNode10Job1Pod100CaseRun ==
  newLoadProfileFromEmbed \o deployVirtualNodepool \o <<"repeatJob">>
    \o DeployRunnerGroup \o <<"join">>
benchNode10Job1Pod1kCaseRun ==
  newLoadProfileFromEmbed \o deployVirtualNodepool \o <<"repeatJob">>
    \o DeployRunnerGroup \o <<"join">>
benchNode100Job1Pod3KCaseRun ==
  newLoadProfileFromEmbed \o deployVirtualNodepool \o <<"repeatJob">>
    \o DeployRunnerGroup \o <<"join">>
benchNode100DeploymentNPod10KRun ==
  newLoadProfileFromEmbed \o deployVirtualNodepool \o <<"replica">>
    \o DeployDeployments \o dumpDeploymentReplicas \o getDeploymentPodSize
    \o <<"rollingUpdate">> \o DeployRunnerGroup \o <<"join">>
benchNode100Job10Pod10kCaseRun ==
  newLoadProfileFromEmbed \o deployVirtualNodepool \o DeployJobs
    \o DeployRunnerGroup
benchListConfigmapsRun ==
  newLoadProfileFromEmbed \o CreateConfigmaps \o DeployRunnerGroup
benchReadUpdateRun ==
  newLoadProfileFromEmbed \o <<"validate">> \o CreateConfigmaps
    \o DeployRunnerGroup
ciliumCustomResourceListRun ==
  newLoadProfileFromEmbed \o installCiliumCRDs \o loadCiliumData
    \o DeployRunnerGroup
benchTimeseriesReplayRun == newLoadProfileFromEmbed \o DeployRunnerGroup
warmup ==
  newLoadProfileFromEmbed \o patchEKSDaemonsetWithoutToleration \o <<"cores">>
    \o deployWarmupVirtualNodepool \o <<"repeatJob">> \o DeployRunnerGroup
    \o <<"join", "coresAfter">>

Program ==
  CASE case = "node10_job1_pod100" -> benchNode10Job1Pod100CaseRun
    [] case = "node10_job1_pod1k" -> benchNode10Job1Pod1kCaseRun
    [] case = "node100_job1_pod3k" -> benchNode100Job1Pod3KCaseRun
    [] case = "node100_pod10k" -> benchNode100DeploymentNPod10KRun
    [] case = "node100_job10_pod10k" -> benchNode100Job10Pod10kCaseRun
    [] case = "list_configmaps" -> benchListConfigmapsRun
    [] case = "read_update" -> benchReadUpdateRun
    [] case = "cilium_cr_list" -> ciliumCustomResourceListRun
    [] case = "timeseries_replay" -> benchTimeseriesReplayRun
    [] case = "warmup" -> warmup

Step == IF phase = "run" /\ pc <= Len(Program) THEN Program[pc] ELSE "none"
Past(step) == \E i \in 1..(pc - 1) : i <= Len(Program) /\ Program[i] = step

PushedForgotten(step) == IF step = "profile" THEN <<"file">> ELSE << >>

\* The clean-ups a step pushes once it has succeeded.
Pushed(step) ==
  CASE step = "profile" -> <<"file">>
    [] step = "newPool" -> <<"nodepool">>
    [] step = "deployRelease" /\ case = "node100_job10_pod10k" ->
         <<"release", "namespace">>
    [] step = "deployRelease" /\ case # "node100_job10_pod10k" -> <<"release">>
    [] step = "configmaps" /\ case = "list_configmaps" ->
         <<"configmaps", "namespace">>
    [] step = "configmaps" /\ case # "list_configmaps" -> <<"configmaps">>
    [] OTHER -> << >>

\* What a step creates.
Made(step) ==
  CASE step = "profile" -> {"file"}
    [] step = "newPool" -> {"nodepool"}
    [] step = "createNamespace" -> {"namespace"}
    [] step = "deployRelease" -> {"release"}
    [] step = "configmaps" /\ case = "list_configmaps" ->
         {"configmaps", "namespace"}
    [] step = "configmaps" /\ case # "list_configmaps" -> {"configmaps"}
    [] step = "cilium" -> {"cilium"}
    [] OTHER -> {}

Init ==
  /\ case \in Cases /\ total \in Totals
  /\ run = 0 /\ phase = "off" /\ pc = 1 /\ defers = << >> /\ err = FALSE
  /\ report = 0
  /\ cluster = [k \in Kinds |-> 0] /\ server = "running" /\ excused = {}
  /\ bg = "off" /\ todo = 0 /\ cancelled = FALSE
  /\ kills = 0

\* The command is started (again).
Begin ==
  /\ phase \in {"off", "rendered", "crashed"}
  /\ run < MaxRuns
  /\ run' = run + 1
  /\ phase' = "run" /\ pc' = 1 /\ defers' = << >> /\ err' = FALSE
  /\ report' = 0
  /\ bg' = "off" /\ todo' = 0 /\ cancelled' = FALSE
  /\ UNCHANGED <<case, total, world, kills>>

Advance == pc' = pc + 1 /\ UNCHANGED <<case, total, run, phase, defers, err>>

\* An error returns from the benchmark, after the background was stopped.
FailStep ==
  /\ err' = TRUE
  /\ IF bg # "off" /\ ~Past("join")
       THEN /\ pc' = CHOOSE i \in DOMAIN Program : Program[i] = "join"
            /\ UNCHANGED phase
       ELSE phase' = "unwind" /\ UNCHANGED pc
  /\ UNCHANGED <<case, total, run, defers>>

Put(kinds, who) ==
  [k \in Kinds |-> IF k \in kinds THEN who ELSE cluster[k]]

\* A namespace goes with all that is in it.
Removed(kind) ==
  IF kind = "namespace" THEN {"namespace", "job", "release", "configmaps"}
                        ELSE {kind}

-----------------------------------------------------------------------------
(* The steps in the foreground.                                            *)

Creating == {"profile", "newPool", "createNamespace", "deployRelease",
             "configmaps", "cilium"}
Plain == {"provider", "replica", "replicas", "podSize", "validate", "crds",
          "patch"}

\* `nodepool add`, `create namespace` and `configmap add` refuse what exists;
\* helm upgrades its release.  10000 / total panics if total is 0.
MayCreate(step) ==
  /\ step = "replica" => total # 0
  /\ step = "configmaps" => cluster["configmaps"] = 0
  /\ step = "newPool" => cluster["nodepool"] = 0
  /\ step = "createNamespace" => cluster["namespace"] = 0

StepOkReused ==
  /\ Step \in Creating \cup Plain
  /\ cluster' = Put({k \in Made(Step) : cluster[k] = 0}, run)
  /\ excused' = excused \ Made(Step)
  /\ pc' = pc + 1
  /\ defers' = Pushed(Step) \o defers
  /\ UNCHANGED <<case, total, run, phase, err>>
  /\ UNCHANGED <<report, server, background, kills>>

StepOk ==
  /\ Step \in Creating \cup Plain
  /\ MayCreate(Step)
  /\ cluster' = Put(Made(Step), run)
  /\ excused' = excused \ Made(Step)
  /\ pc' = pc + 1
  /\ defers' = Pushed(Step) \o defers
  /\ UNCHANGED <<case, total, run, phase, err>>
  /\ UNCHANGED <<report, server, background, kills>>

\* The step fails and leaves nothing, or something no clean-up is pushed
\* for: also the namespace of DeployJobs when its release fails.
StepFailed ==
  /\ Step \in Creating \cup Plain
  /\ Step = "replica" => ~MayCreate(Step)
  /\ \E left \in SUBSET (Made(Step) \ {"file"}) :
       /\ cluster' = Put({k \in left : cluster[k] = 0}, run)
       /\ excused' = excused \cup left
            \cup (IF Step = "deployRelease" /\ Past("createNamespace")
                    THEN {"namespace"} ELSE {})
  /\ FailStep
  /\ UNCHANGED <<report, server, background, kills>>

\* kr.DeleteNodepool "if necessary": an error is only logged.
DeletePool ==
  /\ Step = "deletePool"
  /\ \/ /\ cluster' = Put({"nodepool"}, 0)
        /\ excused' = excused \ {"nodepool"}
     \/ UNCHANGED <<cluster, excused>>
  /\ Advance
  /\ UNCHANGED <<report, server, background, kills>>

\* The warm-up looks at the cores of the API servers: enough of them end it,
\* before the work without an error, afterwards whatever the error was.
Cores ==
  /\ Step \in {"cores", "coresAfter"}
  /\ \/ /\ phase' = "unwind" /\ err' = FALSE
        /\ UNCHANGED <<case, total, run, pc, defers>>
     \/ /\ Step = "coresAfter" => ~err
        /\ Advance
     \/ /\ Step = "coresAfter" /\ err
        /\ phase' = "unwind"
        /\ UNCHANGED <<case, total, run, pc, defers, err>>
  /\ UNCHANGED <<report, world, background, kills>>

StartBackground ==
  /\ Step \in {"repeatJob", "rollingUpdate"}
  /\ bg' = IF Step = "repeatJob" THEN "namespace" ELSE "interval"
  /\ Advance
  /\ UNCHANGED <<report, world, todo, cancelled, kills>>

Cancel ==
  /\ Step = "join" /\ ~cancelled
  /\ cancelled' = TRUE
  /\ UNCHANGED <<control, report, world, bg, todo, kills>>

JoinAtOnce ==
  /\ Step = "join" /\ cancelled
  /\ IF err /\ case # "warmup"
       THEN phase' = "unwind" /\ UNCHANGED <<case, total, run, pc, defers, err>>
       ELSE Advance
  /\ UNCHANGED <<report, world, background, kills>>

\* wg.Wait().
Join ==
  /\ Step = "join" /\ cancelled /\ bg = "ended"
  /\ IF err /\ case # "warmup"
       THEN phase' = "unwind" /\ UNCHANGED <<case, total, run, pc, defers, err>>
       ELSE Advance
  /\ UNCHANGED <<report, world, background, kills>>

\* The benchmark has its report.
Finish ==
  /\ phase = "run" /\ pc > Len(Program)
  /\ phase' = "unwind"
  /\ UNCHANGED <<case, total, run, pc, defers, err>>
  /\ UNCHANGED <<report, world, background, kills>>

-----------------------------------------------------------------------------
(* DeployRunnerGroup.                                                      *)

\* kr.RGDelete removes the release and its namespace; not found is no error.
RGDelete ==
  /\ Step = "rgDelete"
  /\ \/ /\ cluster' = Put({"runnergroup"}, 0)
        /\ excused' = excused \ {"runnergroup"}
        /\ server' = "running"
        /\ Advance
     \/ FailStep /\ UNCHANGED world
  /\ UNCHANGED <<report, background, kills>>

RGRun ==
  /\ Step = "rgRun"
  /\ \/ /\ cluster["runnergroup"] = 0
        /\ cluster' = Put({"runnergroup"}, run) /\ server' = "running"
        /\ Advance /\ UNCHANGED excused
     \/ \* helm could not take back what it had installed
        /\ cluster["runnergroup"] = 0
        /\ cluster' = Put({"runnergroup"}, run) /\ server' = "running"
        /\ excused' = excused \cup {"runnergroup"}
        /\ FailStep
     \/ FailStep /\ UNCHANGED world
  /\ UNCHANGED <<report, background, kills>>

\* The runners end (RunnerGroup), or the pod of the server is lost.
RunnersEnd ==
  /\ cluster["runnergroup"] # 0 /\ server = "running"
  /\ server' = "ready"
  /\ UNCHANGED <<control, report, cluster, excused, background, kills>>

ServerLost ==
  /\ Step = "rgResult" /\ server # "lost"
  /\ server' = "lost"
  /\ UNCHANGED <<control, report, cluster, excused, background, kills>>

\* kr.RGResult gives the report, or finds no pod; any other error, the
\* timeout of a minute included, is tried again.  Without a pod, or if the
\* data cannot be unmarshalled, the group stays where it is.
RGResultFound ==
  /\ server = "ready"
  /\ report' = cluster["runnergroup"]
  /\ Advance /\ UNCHANGED excused

RGResultFailed ==
  /\ server \in {"ready", "lost"}
  /\ excused' = excused \cup {"runnergroup"}
  /\ FailStep /\ UNCHANGED report

RGResultForgiving ==
  /\ Step = "rgResult"
  /\ \/ RGResultFound
     \/ server = "lost" /\ Advance /\ UNCHANGED <<report, excused>>
  /\ UNCHANGED <<cluster, server, background, kills>>

RGResult ==
  /\ Step = "rgResult"
  /\ RGResultFound \/ RGResultFailed
  /\ UNCHANGED <<cluster, server, background, kills>>

\* The second RGDelete, whose error is only logged.
RGCleanup ==
  /\ Step = "rgCleanup"
  /\ \/ cluster' = Put({"runnergroup"}, 0) /\ UNCHANGED excused
     \/ excused' = excused \cup {"runnergroup"} /\ UNCHANGED cluster
  /\ Advance
  /\ UNCHANGED <<report, server, background, kills>>

-----------------------------------------------------------------------------
(* The background.                                                         *)

Crashed ==
  /\ phase' = "crashed"
  /\ bg' = "ended"
  /\ excused' = {k \in Kinds : cluster'[k] # 0}

\* RepeatJobWithPod panics if the namespace cannot be created, be it because
\* it exists or because the context was cancelled meanwhile; the deferred
\* functions of the benchmark do not run.
JobNamespace ==
  /\ bg = "namespace" /\ phase = "run"
  /\ \/ /\ ~cancelled /\ cluster["namespace"] = 0
        /\ cluster' = Put({"namespace"}, run)
        /\ excused' = excused \ {"namespace"}
        /\ bg' = "check"
        /\ UNCHANGED phase
     \/ /\ \/ UNCHANGED cluster
           \/ /\ cluster["namespace"] = 0
              /\ cluster' = Put({"namespace"}, run)
        /\ Crashed
  /\ UNCHANGED <<case, total, run, pc, defers, err>>
  /\ UNCHANGED <<report, server, todo, cancelled, kills>>

JobFrame ==
  /\ phase = "run"
  /\ UNCHANGED <<control, report, server, todo, cancelled, kills>>

JobCheckIgnored == bg = "check" /\ bg' = "apply" /\ JobFrame
                     /\ UNCHANGED <<cluster, excused>>

JobCheck ==
  /\ bg = "check"
  /\ bg' = IF cancelled THEN "cleanup" ELSE "apply"
  /\ JobFrame /\ UNCHANGED <<cluster, excused>>

\* A failed apply is repeated; a cancelled one may have reached the server.
JobApply ==
  /\ bg = "apply"
  /\ \/ ~cancelled /\ bg' = "wait" /\ cluster' = Put({"job"}, run)
     \/ bg' = "check" /\ cluster' \in {cluster, Put({"job"}, run)}
  /\ JobFrame /\ UNCHANGED excused

JobWait ==
  /\ bg = "wait"
  /\ bg' = "delete"
  /\ JobFrame /\ UNCHANGED <<cluster, excused>>

JobDelete ==
  /\ bg = "delete"
  /\ bg' = "check"
  /\ \/ ~cancelled /\ cluster' = Put({"job"}, 0)
     \/ UNCHANGED cluster
  /\ JobFrame /\ UNCHANGED excused

\* The deferred DeleteNamespace, with a context of its own, takes the job
\* along.
JobCleanup ==
  /\ bg = "cleanup"
  /\ bg' = "ended"
  /\ \/ cluster' = Put(Removed("namespace"), 0) /\ UNCHANGED excused
     \/ /\ excused' = excused \cup {"namespace", "job"}
        /\ UNCHANGED cluster
  /\ JobFrame

RollFrame ==
  /\ phase = "run"
  /\ UNCHANGED <<control, report, world, cancelled, kills>>

RollInterval ==
  /\ bg = "interval"
  /\ IF cancelled THEN bg' = "ended" /\ UNCHANGED todo
                  ELSE bg' = "update" /\ todo' = total
  /\ RollFrame

\* DeploymentRestart and DeploymentRolloutStatus; an error is only logged,
\* and the context is not looked at before the round is over.
RollUpdate ==
  /\ bg = "update"
  /\ IF todo = 0 THEN bg' = "interval" /\ UNCHANGED todo
                 ELSE todo' = todo - 1 /\ UNCHANGED bg
  /\ RollFrame

-----------------------------------------------------------------------------
(* The return.                                                             *)

\* One deferred clean-up; the warm-up returns its error.
Cleanup ==
  /\ phase = "unwind" /\ defers # << >>
  /\ defers' = Tail(defers)
  /\ \/ /\ cluster' = Put(Removed(Head(defers)), 0) /\ UNCHANGED excused
        /\ UNCHANGED err
     \/ /\ excused' = excused \cup {Head(defers)} /\ UNCHANGED cluster
        /\ err' = (err \/ (case = "warmup" /\ Head(defers) = "nodepool"))
  /\ UNCHANGED <<case, total, run, phase, pc>>
  /\ UNCHANGED <<report, server, background, kills>>

Return ==
  /\ phase = "unwind" /\ defers = << >>
  /\ phase' = "ended"
  /\ UNCHANGED <<case, total, run, pc, defers, err>>
  /\ UNCHANGED <<report, world, background, kills>>

\* The interceptors add the cores and write the report.
Render ==
  /\ phase = "ended"
  /\ phase' = "rendered"
  /\ report' \in IF err \/ case = "warmup" THEN {0} ELSE {0, report}
  /\ UNCHANGED <<case, total, run, pc, defers, err>>
  /\ UNCHANGED <<world, background, kills>>

\* The operator stops the command; its children die with it.
Kill ==
  /\ phase \in {"run", "unwind"} /\ kills < MaxKills
  /\ kills' = kills + 1
  /\ UNCHANGED cluster
  /\ Crashed
  /\ UNCHANGED <<case, total, run, pc, defers, err>>
  /\ UNCHANGED <<report, server, todo, cancelled>>

Over ==
  phase \in {"rendered", "crashed"} /\ run = MaxRuns /\ UNCHANGED vars

Foreground ==
  \/ StepOk \/ StepFailed \/ DeletePool \/ Cores \/ StartBackground
  \/ Cancel \/ Join \/ Finish
  \/ RGDelete \/ RGRun \/ RGResult \/ RGCleanup
  \/ Cleanup \/ Return \/ Render

RepeatJobWithPod ==
  \/ JobNamespace \/ JobCheck \/ JobApply \/ JobWait \/ JobDelete
  \/ JobCleanup

RollingUpdateDeployments == RollInterval \/ RollUpdate

Next ==
  \/ Begin \/ Foreground
  \/ RepeatJobWithPod \/ RollingUpdateDeployments
  \/ RunnersEnd \/ ServerLost \/ Kill \/ Over

\* Each command of the three actors ends, by itself or by its timeout; the
\* runners come to an end (RunnerGroup), and a request for the result that is
\* repeated for ever gets through.
Fairness ==
  /\ WF_vars(Foreground)
  /\ WF_vars(RepeatJobWithPod)
  /\ WF_vars(RollingUpdateDeployments)
  /\ WF_vars(RunnersEnd)

Spec == Init /\ [][Next]_vars
FairSpec == Spec /\ Fairness

-----------------------------------------------------------------------------
(* Properties.                                                             *)

\* A benchmark that has returned, with or without an error, has removed all it
\* made, save what a failing command left and the Cilium resources, which
\* nothing removes (the defer statements of each benchmark).
CleanAfterReturn ==
  phase \in {"ended", "rendered"} =>
    \A k \in Kinds \ {"cilium"} : cluster[k] # 0 => k \in excused

\* The background works only on what the benchmark has set up and not yet
\* taken down: it is stopped and waited for on every path before the deferred
\* clean-ups run (node10_job1_pod100.go:68-87, node100_pod10k.go:84-139).
BackgroundWithinSetup ==
  bg \notin {"off", "ended"} =>
    /\ phase = "run"
    /\ cluster["nodepool"] = run
    /\ bg \in {"interval", "update"} => cluster["release"] = run

\* The load runs on the node pool of this run, never on one that an earlier
\* run left with other nodes (bench/utils.go:120-132).
OwnNodepool ==
  Past("newPool") /\ phase = "run" => cluster["nodepool"] = run

\* A benchmark returns no error exactly if it has the result of its own
\* runner group, although the server has a fixed name, an earlier run may have
\* left one, and the pod may vanish (utils.go:329-381).
ReportIsOwn ==
  phase = "ended" /\ case # "warmup" => (report = run <=> ~err)

\* The load runs on the own node pool, and what is reported is its result.
RunIsItsOwn == OwnNodepool /\ ReportIsOwn

\* A run that was started comes to its end: neither wg.Wait nor the loop
\* around RGResult holds it for ever.
RunEnds == (phase = "run") ~> (phase \in {"rendered", "crashed"})

-----------------------------------------------------------------------------
(* The inductive invariant behind the first four.                          *)

\* The order in which the benchmarks take their steps.
Stage(step) ==
  CASE step = "profile" -> 1
    [] step \in {"validate", "crds", "patch"} -> 2
    [] step = "cores" -> 3
    [] step = "provider" -> 4
    [] step = "deletePool" -> 5
    [] step = "newPool" -> 6
    [] step \in {"replica", "createNamespace"} -> 7
    [] step \in {"deployRelease", "configmaps", "cilium"} -> 8
    [] step = "replicas" -> 9
    [] step = "podSize" -> 10
    [] step \in {"repeatJob", "rollingUpdate"} -> 11
    [] step = "rgDelete" -> 12
    [] step = "rgRun" -> 13
    [] step = "rgResult" -> 14
    [] step = "rgCleanup" -> 15
    [] step = "join" -> 16
    [] step = "coresAfter" -> 17

Has(step) == \E i \in DOMAIN Program : Program[i] = step
Follows(step, next) ==
  \A i \in DOMAIN Program :
    Program[i] = step => i + 1 \in DOMAIN Program /\ Program[i + 1] = next

Steps ==
  Creating \cup Plain
    \cup {"deletePool", "cores", "repeatJob", "rollingUpdate", "rgDelete",
          "rgRun", "rgResult", "rgCleanup", "join", "coresAfter"}

\* What the benchmarks have in common.
IsProgram ==
  /\ Len(Program) \in Nat /\ DOMAIN Program = 1..Len(Program)
  /\ \A i \in DOMAIN Program : Program[i] \in Steps

Increasing ==
  \A i, j \in DOMAIN Program : i < j => Stage(Program[i]) < Stage(Program[j])

Adjacent ==
  /\ Follows("createNamespace", "deployRelease")
  /\ Follows("rgRun", "rgResult") /\ Follows("rgResult", "rgCleanup")

Complete ==
  /\ Has("createNamespace") => case = "node100_job10_pod10k"
  /\ Has("cores") \/ Has("coresAfter") => case = "warmup"
  /\ Has("repeatJob") \/ Has("rollingUpdate") => Has("newPool") /\ Has("join")
  /\ Has("rollingUpdate") => Has("deployRelease") /\ ~Has("repeatJob")
  /\ Has("coresAfter") => Has("join")
  /\ Has("rgRun") /\ Has("rgResult")

JobStates == {"namespace", "check", "apply", "wait", "delete", "cleanup"}
RollStates == {"interval", "update"}

\* Who will remove what exists, or why nobody does.
Owed(kind) ==
  \/ kind \in excused
  \/ phase \in {"run", "unwind"} /\ \E i \in DOMAIN defers : defers[i] = kind
  \/ kind \in {"namespace", "job"} /\ bg \in JobStates \ {"namespace"}
  \/ kind = "namespace" /\ Step = "deployRelease" /\ Past("createNamespace")
  \/ kind = "runnergroup" /\ Step \in {"rgResult", "rgCleanup"}

\* Nothing that exists is forgotten.
Accounted ==
  \A k \in Kinds \ {"cilium"} : cluster[k] # 0 => Owed(k)

\* The background runs between its start and its join.
BackgroundJoined ==
  /\ bg \in JobStates => Past("repeatJob")
  /\ bg \in RollStates => Past("rollingUpdate")
  /\ phase = "run" /\ bg = "ended" => Past("repeatJob") \/ Past("rollingUpdate")
  /\ bg \notin {"off", "ended"} => phase = "run" /\ ~Past("join")

\* Node pool and release are the ones of this run.
SetUp ==
  /\ OwnNodepool
  /\ phase = "run" /\ Past("deployRelease") /\ ~Past("repeatJob") =>
       cluster["release"] = run

\* The report is the one of this run's runner group, unless there is an error.
ReportSoFar ==
  /\ phase # "off" => run > 0
  /\ Step = "rgResult" => cluster["runnergroup"] = run
  /\ case # "warmup" =>
       /\ phase = "run" /\ err => Step = "join" /\ report = 0
       /\ phase = "run" /\ ~err => report = IF Past("rgResult") THEN run ELSE 0
       /\ phase \in {"unwind", "ended"} => report = IF err THEN 0 ELSE run

\* The strengthening every step preserves.
IInv ==
  /\ TypeOK /\ Accounted /\ BackgroundJoined /\ SetUp /\ ReportSoFar
=============================================================================
