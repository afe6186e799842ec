--------------------------- MODULE BenchmarkProofs ---------------------------
(***************************************************************************)
(* Proofs about the course of the benchmarks, for any number of runs one   *)
(* after the other, of killed runs and of deployments: first the order of  *)
(* the steps, then each action, then the properties.                       *)
(***************************************************************************)
EXTENDS Benchmark, TLAPS

\* The stage of every step.
LEMMA Stages ==
  /\ Stage("profile") = 1 /\ Stage("validate") = 2 /\ Stage("crds") = 2
  /\ Stage("patch") = 2 /\ Stage("cores") = 3 /\ Stage("provider") = 4
  /\ Stage("deletePool") = 5 /\ Stage("newPool") = 6 /\ Stage("replica") = 7
  /\ Stage("createNamespace") = 7 /\ Stage("deployRelease") = 8
  /\ Stage("configmaps") = 8
  /\ Stage("cilium") = 8 /\ Stage("replicas") = 9 /\ Stage("podSize") = 10
  /\ Stage("repeatJob") = 11 /\ Stage("rollingUpdate") = 11
  /\ Stage("rgDelete") = 12
  /\ Stage("rgRun") = 13 /\ Stage("rgResult") = 14 /\ Stage("rgCleanup") = 15
  /\ Stage("join") = 16 /\ Stage("coresAfter") = 17
BY DEF Stage

\* The order of the steps, and what they have in common, for every benchmark.
LEMMA Ordered ==
  ASSUME case \in AllCases PROVE IsProgram /\ Increasing /\ Adjacent /\ Complete
<1>1. CASE case \in {"node10_job1_pod100", "node10_job1_pod1k",
                     "node100_job1_pod3k"}
  <2>1. /\ Len(Program) = 10 /\ DOMAIN Program = 1..10
        /\ Program[1] = "profile" /\ Program[2] = "provider"
        /\ Program[3] = "deletePool" /\ Program[4] = "newPool"
        /\ Program[5] = "repeatJob" /\ Program[6] = "rgDelete"
        /\ Program[7] = "rgRun" /\ Program[8] = "rgResult"
        /\ Program[9] = "rgCleanup" /\ Program[10] = "join"
    <3>1. CASE case = "node10_job1_pod100"
      BY <3>1
      DEF Program, benchNode10Job1Pod100CaseRun, newLoadProfileFromEmbed,
          DeployRunnerGroup, deployVirtualNodepool, FetchNodeProviderIDByType
    <3>2. CASE case = "node10_job1_pod1k"
      BY <3>2
      DEF Program, benchNode10Job1Pod1kCaseRun, newLoadProfileFromEmbed,
          DeployRunnerGroup, deployVirtualNodepool, FetchNodeProviderIDByType
    <3>3. CASE case = "node100_job1_pod3k"
      BY <3>3
      DEF Program, benchNode100Job1Pod3KCaseRun, newLoadProfileFromEmbed,
          DeployRunnerGroup, deployVirtualNodepool, FetchNodeProviderIDByType
    <3> QED BY <1>1, <3>1, <3>2, <3>3
  <2>2. \A i \in DOMAIN Program :
          \/ (i = 1 /\ Program[i] = "profile")
          \/ (i = 2 /\ Program[i] = "provider")
          \/ (i = 3 /\ Program[i] = "deletePool")
          \/ (i = 4 /\ Program[i] = "newPool")
          \/ (i = 5 /\ Program[i] = "repeatJob")
          \/ (i = 6 /\ Program[i] = "rgDelete")
          \/ (i = 7 /\ Program[i] = "rgRun") \/ (i = 8 /\ Program[i] = "rgResult")
          \/ (i = 9 /\ Program[i] = "rgCleanup")
          \/ (i = 10 /\ Program[i] = "join")
    BY <2>1
  <2>3. IsProgram BY <2>1, <2>2 DEF IsProgram, Steps, Creating, Plain
  <2>4. Increasing BY <2>2, Stages DEF Increasing
  <2>5. Adjacent BY <2>1, <2>2 DEF Adjacent, Follows
  <2>6. Complete BY <1>1, <2>1, <2>2 DEF Complete, Has
  <2> QED BY <2>3, <2>4, <2>5, <2>6
<1>2. CASE case = "node100_pod10k"
  <2>1. /\ Len(Program) = 14 /\ DOMAIN Program = 1..14
        /\ Program[1] = "profile" /\ Program[2] = "provider"
        /\ Program[3] = "deletePool" /\ Program[4] = "newPool"
        /\ Program[5] = "replica" /\ Program[6] = "deployRelease"
        /\ Program[7] = "replicas" /\ Program[8] = "podSize"
        /\ Program[9] = "rollingUpdate" /\ Program[10] = "rgDelete"
        /\ Program[11] = "rgRun" /\ Program[12] = "rgResult"
        /\ Program[13] = "rgCleanup" /\ Program[14] = "join"
    BY <1>2
    DEF Program, benchNode100DeploymentNPod10KRun, newLoadProfileFromEmbed,
        DeployRunnerGroup, deployVirtualNodepool, FetchNodeProviderIDByType,
        DeployDeployments, dumpDeploymentReplicas, getDeploymentPodSize
  <2>2. \A i \in DOMAIN Program :
          \/ (i = 1 /\ Program[i] = "profile")
          \/ (i = 2 /\ Program[i] = "provider")
          \/ (i = 3 /\ Program[i] = "deletePool")
          \/ (i = 4 /\ Program[i] = "newPool")
          \/ (i = 5 /\ Program[i] = "replica")
          \/ (i = 6 /\ Program[i] = "deployRelease")
          \/ (i = 7 /\ Program[i] = "replicas")
          \/ (i = 8 /\ Program[i] = "podSize")
          \/ (i = 9 /\ Program[i] = "rollingUpdate")
          \/ (i = 10 /\ Program[i] = "rgDelete")
          \/ (i = 11 /\ Program[i] = "rgRun")
          \/ (i = 12 /\ Program[i] = "rgResult")
          \/ (i = 13 /\ Program[i] = "rgCleanup")
          \/ (i = 14 /\ Program[i] = "join")
    BY <2>1
  <2>3. IsProgram BY <2>1, <2>2 DEF IsProgram, Steps, Creating, Plain
  <2>4. Increasing BY <2>2, Stages DEF Increasing
  <2>5. Adjacent BY <2>1, <2>2 DEF Adjacent, Follows
  <2>6. Complete BY <1>2, <2>1, <2>2 DEF Complete, Has
  <2> QED BY <2>3, <2>4, <2>5, <2>6
<1>3. CASE case = "node100_job10_pod10k"
  <2>1. /\ Len(Program) = 10 /\ DOMAIN Program = 1..10
        /\ Program[1] = "profile" /\ Program[2] = "provider"
        /\ Program[3] = "deletePool" /\ Program[4] = "newPool"
        /\ Program[5] = "createNamespace" /\ Program[6] = "deployRelease"
        /\ Program[7] = "rgDelete" /\ Program[8] = "rgRun"
        /\ Program[9] = "rgResult" /\ Program[10] = "rgCleanup"
    BY <1>3
    DEF Program, benchNode100Job10Pod10kCaseRun, newLoadProfileFromEmbed,
        DeployRunnerGroup, deployVirtualNodepool, FetchNodeProviderIDByType,
        DeployJobs
  <2>2. \A i \in DOMAIN Program :
          \/ (i = 1 /\ Program[i] = "profile")
          \/ (i = 2 /\ Program[i] = "provider")
          \/ (i = 3 /\ Program[i] = "deletePool")
          \/ (i = 4 /\ Program[i] = "newPool")
          \/ (i = 5 /\ Program[i] = "createNamespace")
          \/ (i = 6 /\ Program[i] = "deployRelease")
          \/ (i = 7 /\ Program[i] = "rgDelete") \/ (i = 8 /\ Program[i] = "rgRun")
          \/ (i = 9 /\ Program[i] = "rgResult")
          \/ (i = 10 /\ Program[i] = "rgCleanup")
    BY <2>1
  <2>3. IsProgram BY <2>1, <2>2 DEF IsProgram, Steps, Creating, Plain
  <2>4. Increasing BY <2>2, Stages DEF Increasing
  <2>5. Adjacent BY <2>1, <2>2 DEF Adjacent, Follows
  <2>6. Complete BY <1>3, <2>1, <2>2 DEF Complete, Has
  <2> QED BY <2>3, <2>4, <2>5, <2>6
<1>4. CASE case = "list_configmaps"
  <2>1. /\ Len(Program) = 6 /\ DOMAIN Program = 1..6
        /\ Program[1] = "profile" /\ Program[2] = "configmaps"
        /\ Program[3] = "rgDelete" /\ Program[4] = "rgRun"
        /\ Program[5] = "rgResult" /\ Program[6] = "rgCleanup"
    BY <1>4
    DEF Program, benchListConfigmapsRun, newLoadProfileFromEmbed,
        DeployRunnerGroup, CreateConfigmaps
  <2>2. \A i \in DOMAIN Program :
          \/ (i = 1 /\ Program[i] = "profile")
          \/ (i = 2 /\ Program[i] = "configmaps")
          \/ (i = 3 /\ Program[i] = "rgDelete") \/ (i = 4 /\ Program[i] = "rgRun")
          \/ (i = 5 /\ Program[i] = "rgResult")
          \/ (i = 6 /\ Program[i] = "rgCleanup")
    BY <2>1
  <2>3. IsProgram BY <2>1, <2>2 DEF IsProgram, Steps, Creating, Plain
  <2>4. Increasing BY <2>2, Stages DEF Increasing
  <2>5. Adjacent BY <2>1, <2>2 DEF Adjacent, Follows
  <2>6. Complete BY <1>4, <2>1, <2>2 DEF Complete, Has
  <2> QED BY <2>3, <2>4, <2>5, <2>6
<1>5. CASE case = "read_update"
  <2>1. /\ Len(Program) = 7 /\ DOMAIN Program = 1..7
        /\ Program[1] = "profile" /\ Program[2] = "validate"
        /\ Program[3] = "configmaps" /\ Program[4] = "rgDelete"
        /\ Program[5] = "rgRun" /\ Program[6] = "rgResult"
        /\ Program[7] = "rgCleanup"
    BY <1>5
    DEF Program, benchReadUpdateRun, newLoadProfileFromEmbed, DeployRunnerGroup,
        CreateConfigmaps
  <2>2. \A i \in DOMAIN Program :
          \/ (i = 1 /\ Program[i] = "profile")
          \/ (i = 2 /\ Program[i] = "validate")
          \/ (i = 3 /\ Program[i] = "configmaps")
          \/ (i = 4 /\ Program[i] = "rgDelete")
          \/ (i = 5 /\ Program[i] = "rgRun") \/ (i = 6 /\ Program[i] = "rgResult")
          \/ (i = 7 /\ Program[i] = "rgCleanup")
    BY <2>1
  <2>3. IsProgram BY <2>1, <2>2 DEF IsProgram, Steps, Creating, Plain
  <2>4. Increasing BY <2>2, Stages DEF Increasing
  <2>5. Adjacent BY <2>1, <2>2 DEF Adjacent, Follows
  <2>6. Complete BY <1>5, <2>1, <2>2 DEF Complete, Has
  <2> QED BY <2>3, <2>4, <2>5, <2>6
<1>6. CASE case = "cilium_cr_list"
  <2>1. /\ Len(Program) = 7 /\ DOMAIN Program = 1..7
        /\ Program[1] = "profile" /\ Program[2] = "crds"
        /\ Program[3] = "cilium" /\ Program[4] = "rgDelete"
        /\ Program[5] = "rgRun" /\ Program[6] = "rgResult"
        /\ Program[7] = "rgCleanup"
    BY <1>6
    DEF Program, ciliumCustomResourceListRun, newLoadProfileFromEmbed,
        DeployRunnerGroup, installCiliumCRDs, loadCiliumData
  <2>2. \A i \in DOMAIN Program :
          \/ (i = 1 /\ Program[i] = "profile") \/ (i = 2 /\ Program[i] = "crds")
          \/ (i = 3 /\ Program[i] = "cilium")
          \/ (i = 4 /\ Program[i] = "rgDelete")
          \/ (i = 5 /\ Program[i] = "rgRun") \/ (i = 6 /\ Program[i] = "rgResult")
          \/ (i = 7 /\ Program[i] = "rgCleanup")
    BY <2>1
  <2>3. IsProgram BY <2>1, <2>2 DEF IsProgram, Steps, Creating, Plain
  <2>4. Increasing BY <2>2, Stages DEF Increasing
  <2>5. Adjacent BY <2>1, <2>2 DEF Adjacent, Follows
  <2>6. Complete BY <1>6, <2>1, <2>2 DEF Complete, Has
  <2> QED BY <2>3, <2>4, <2>5, <2>6
<1>7. CASE case = "timeseries_replay"
  <2>1. /\ Len(Program) = 5 /\ DOMAIN Program = 1..5
        /\ Program[1] = "profile" /\ Program[2] = "rgDelete"
        /\ Program[3] = "rgRun" /\ Program[4] = "rgResult"
        /\ Program[5] = "rgCleanup"
    BY <1>7
    DEF Program, benchTimeseriesReplayRun, newLoadProfileFromEmbed,
        DeployRunnerGroup
  <2>2. \A i \in DOMAIN Program :
          \/ (i = 1 /\ Program[i] = "profile")
          \/ (i = 2 /\ Program[i] = "rgDelete")
          \/ (i = 3 /\ Program[i] = "rgRun") \/ (i = 4 /\ Program[i] = "rgResult")
          \/ (i = 5 /\ Program[i] = "rgCleanup")
    BY <2>1
  <2>3. IsProgram BY <2>1, <2>2 DEF IsProgram, Steps, Creating, Plain
  <2>4. Increasing BY <2>2, Stages DEF Increasing
  <2>5. Adjacent BY <2>1, <2>2 DEF Adjacent, Follows
  <2>6. Complete BY <1>7, <2>1, <2>2 DEF Complete, Has
  <2> QED BY <2>3, <2>4, <2>5, <2>6
<1>8. CASE case = "warmup"
  <2>1. /\ Len(Program) = 13 /\ DOMAIN Program = 1..13
        /\ Program[1] = "profile" /\ Program[2] = "patch"
        /\ Program[3] = "cores" /\ Program[4] = "provider"
        /\ Program[5] = "deletePool" /\ Program[6] = "newPool"
        /\ Program[7] = "repeatJob" /\ Program[8] = "rgDelete"
        /\ Program[9] = "rgRun" /\ Program[10] = "rgResult"
        /\ Program[11] = "rgCleanup" /\ Program[12] = "join"
        /\ Program[13] = "coresAfter"
    BY <1>8
    DEF Program, warmup, newLoadProfileFromEmbed, DeployRunnerGroup,
        patchEKSDaemonsetWithoutToleration, deployWarmupVirtualNodepool,
        FetchNodeProviderIDByType
  <2>2. \A i \in DOMAIN Program :
          \/ (i = 1 /\ Program[i] = "profile") \/ (i = 2 /\ Program[i] = "patch")
          \/ (i = 3 /\ Program[i] = "cores") \/ (i = 4 /\ Program[i] = "provider")
          \/ (i = 5 /\ Program[i] = "deletePool")
          \/ (i = 6 /\ Program[i] = "newPool")
          \/ (i = 7 /\ Program[i] = "repeatJob")
          \/ (i = 8 /\ Program[i] = "rgDelete")
          \/ (i = 9 /\ Program[i] = "rgRun")
          \/ (i = 10 /\ Program[i] = "rgResult")
          \/ (i = 11 /\ Program[i] = "rgCleanup")
          \/ (i = 12 /\ Program[i] = "join")
          \/ (i = 13 /\ Program[i] = "coresAfter")
    BY <2>1
  <2>3. IsProgram BY <2>1, <2>2 DEF IsProgram, Steps, Creating, Plain
  <2>4. Increasing BY <2>2, Stages DEF Increasing
  <2>5. Adjacent BY <2>1, <2>2 DEF Adjacent, Follows
  <2>6. Complete BY <1>8, <2>1, <2>2 DEF Complete, Has
  <2> QED BY <2>3, <2>4, <2>5, <2>6
<1> QED BY <1>1, <1>2, <1>3, <1>4, <1>5, <1>6, <1>7, <1>8 DEF AllCases

-----------------------------------------------------------------------------
(* Where the benchmark is.                                                 *)

\* The program is that of the benchmark.
LEMMA SameProgram == ASSUME case' = case PROVE Program' = Program
BY DEF Program

\* What is past depends on the benchmark and on pc.
LEMMA SamePast ==
  ASSUME UNCHANGED <<case, pc>>, NEW s PROVE Past(s)' <=> Past(s)
BY SameProgram DEF Past

\* The step at hand depends on the benchmark, on pc and on the phase.
LEMMA SameStep == ASSUME UNCHANGED <<case, pc, phase>> PROVE Step' = Step
BY SameProgram DEF Step

\* A step is in the program while it is taken.
LEMMA StepIn ==
  ASSUME TypeOK, case \in AllCases, Step # "none"
  PROVE  /\ phase = "run" /\ pc \in DOMAIN Program /\ Program[pc] = Step
         /\ Step \in Steps /\ Has(Step)
BY Ordered DEF Step, IsProgram, TypeOK, Has

\* A past step is a step of the program.
LEMMA PastIn ==
  ASSUME TypeOK, case \in AllCases, NEW s, Past(s) PROVE Has(s)
BY Ordered DEF Past, IsProgram, TypeOK, Has

\* What is past comes before the step that is taken.
LEMMA PastBefore ==
  ASSUME TypeOK, case \in AllCases, Step # "none", NEW s, Past(s)
  PROVE  Stage(s) < Stage(Step)
<1>1. PICK i \in 1..(pc - 1) : i <= Len(Program) /\ Program[i] = s
  BY DEF Past
<1>2. i \in DOMAIN Program /\ i < pc
  BY <1>1, Ordered DEF IsProgram, TypeOK
<1> QED BY <1>1, <1>2, StepIn, Ordered DEF Increasing

\* What comes before something past is past.
LEMMA PastEarlier ==
  ASSUME TypeOK, case \in AllCases, NEW s, NEW t, Past(t), Has(s),
         Stage(s) < Stage(t), Stage(s) \in Nat, Stage(t) \in Nat
  PROVE  Past(s)
<1>1. PICK i \in 1..(pc - 1) : i <= Len(Program) /\ Program[i] = t
  BY DEF Past
<1>2. PICK j \in DOMAIN Program : Program[j] = s
  BY DEF Has
<1>3. i \in DOMAIN Program /\ j <= Len(Program) /\ j \in Nat /\ i \in Nat /\ j > 0
  BY <1>1, <1>2, Ordered DEF IsProgram, TypeOK
<1>4. ~(i < j) /\ i # j
  BY <1>1, <1>2, <1>3, Ordered DEF Increasing
<1> QED BY <1>1, <1>2, <1>3, <1>4 DEF Past, TypeOK

\* What comes before the step that is taken is past.
LEMMA StepAfter ==
  ASSUME TypeOK, case \in AllCases, Step # "none", NEW s, Has(s),
         Stage(s) < Stage(Step), Stage(s) \in Nat, Stage(Step) \in Nat
  PROVE  Past(s)
<1>1. PICK j \in DOMAIN Program : Program[j] = s
  BY DEF Has
<1>2. pc \in DOMAIN Program /\ Program[pc] = Step
  BY StepIn
<1>3. ~(pc < j) /\ pc # j
  BY <1>1, <1>2, Ordered DEF Increasing
<1> QED BY <1>1, <1>2, <1>3, Ordered DEF Past, IsProgram

\* One step on.
LEMMA PastNext ==
  ASSUME TypeOK, case \in AllCases, Step # "none", case' = case, pc' = pc + 1,
         NEW s \in Steps
  PROVE  Past(s)' <=> Past(s) \/ s = Step
<1>1. pc \in Nat \ {0} /\ pc <= Len(Program) /\ Len(Program) \in Nat
  BY StepIn, Ordered DEF IsProgram, TypeOK
<1>2. 1..(pc' - 1) = 1..(pc - 1) \cup {pc}
  BY <1>1
<1> QED BY <1>1, <1>2, StepIn, SameProgram DEF Past

\* The step after one that succeeded.
LEMMA StepNext ==
  ASSUME TypeOK, case \in AllCases, Step # "none", UNCHANGED <<case, phase>>,
         pc' = pc + 1
  PROVE  /\ Step = "createNamespace" => Step' = "deployRelease"
         /\ Step = "rgRun" => Step' = "rgResult"
         /\ Step = "rgResult" => Step' = "rgCleanup"
         /\ Step' = "rgResult" => Step = "rgRun"
<1>1. pc \in Nat \ {0} /\ pc <= Len(Program) /\ Len(Program) \in Nat
  BY StepIn, Ordered DEF IsProgram, TypeOK
<1>2. ASSUME NEW s, NEW t, Follows(s, t), Step = s PROVE Step' = t
  <2>1. pc + 1 \in DOMAIN Program /\ Program[pc + 1] = t
    BY <1>2, StepIn DEF Follows
  <2> QED BY <1>1, <2>1, StepIn, SameProgram, Ordered DEF Step, IsProgram
<1>3. ASSUME Step' = "rgResult" PROVE Step = "rgRun"
  <2>1. PICK i \in DOMAIN Program : Program[i] = "rgRun"
    BY Ordered DEF Complete, Has
  <2>2. i + 1 \in DOMAIN Program /\ Program[i + 1] = "rgResult"
    BY <2>1, Ordered DEF Adjacent, Follows
  <2>3. pc + 1 \in DOMAIN Program /\ Program[pc + 1] = "rgResult"
    BY <1>1, <1>3, StepIn, SameProgram, Ordered DEF Step, IsProgram
  <2>4. ~(Stage("rgResult") < Stage("rgResult"))
    BY Stages
  <2>5. ~(i + 1 < pc + 1) /\ ~(pc + 1 < i + 1)
    BY <2>2, <2>3, <2>4, Ordered DEF Increasing
  <2>6. i \in Nat
    BY <2>1, Ordered DEF IsProgram
  <2> QED BY <1>1, <2>1, <2>5, <2>6, StepIn
<1> QED BY <1>2, <1>3, Ordered DEF Adjacent

\* After an error the benchmark goes on with the join.
LEMMA PastJoin ==
  ASSUME TypeOK, case \in AllCases, case' = case, Has("join"),
         pc' = CHOOSE i \in DOMAIN Program : Program[i] = "join"
  PROVE  /\ pc' \in DOMAIN Program /\ Program[pc'] = "join"
         /\ pc' \in Nat \ {0} /\ pc' <= Len(Program)
         /\ ~Past("join")'
         /\ Past("repeatJob") => Past("repeatJob")'
         /\ Past("rollingUpdate") => Past("rollingUpdate")'
<1>1. pc' \in DOMAIN Program /\ Program[pc'] = "join"
  BY DEF Has
<1>2. pc' \in Nat \ {0} /\ pc' <= Len(Program) /\ Len(Program) \in Nat
  BY <1>1, Ordered DEF IsProgram
<1>3. ASSUME Past("join")' PROVE FALSE
  <2>1. PICK i \in 1..(pc' - 1) : i <= Len(Program) /\ Program[i] = "join"
    BY <1>3, SameProgram, Zenon DEF Past
  <2>2. i \in DOMAIN Program /\ i < pc'
    BY <1>2, <2>1, Ordered DEF IsProgram
  <2> QED BY <1>1, <2>1, <2>2, Stages, Ordered DEF Increasing
<1>4. ASSUME NEW s \in {"repeatJob", "rollingUpdate"}, Past(s) PROVE Past(s)'
  <2>1. PICK i \in 1..(pc - 1) : i <= Len(Program) /\ Program[i] = s
    BY <1>4 DEF Past
  <2>2. i \in DOMAIN Program
    BY <1>2, <2>1, Ordered DEF IsProgram, TypeOK
  <2>3. Stage("join") = 16
    BY Stages
  <2>4. Stage(s) # 16 /\ ~(16 < Stage(s))
    BY Stages
  <2>5. ~(pc' < i) /\ pc' # i
    BY <1>1, <2>1, <2>2, <2>3, <2>4, Ordered DEF Increasing
  <2>6. i \in 1..(pc' - 1)
    BY <1>2, <2>1, <2>5 DEF TypeOK
  <2> QED BY <2>1, <2>6, SameProgram, Zenon DEF Past
<1> QED BY <1>1, <1>2, <1>3, <1>4

-----------------------------------------------------------------------------
(* The steps of the foreground preserve the invariant.                     *)

\* The benchmark is one of those modelled.
LEMMA KnownCase == ASSUME TypeOK PROVE case \in AllCases
BY BenchAssumption DEF TypeOK

\* An error, at a step before the clean-up of the runner group.
LEMMA FailKeeps ==
  ASSUME IInv, FailStep, UNCHANGED <<bg, report>>,
         Step # "none", Stage(Step) <= 14, Stage(Step) \in Nat,
         \A k \in Kinds : cluster'[k] \in {cluster[k], run}
  PROVE  /\ BackgroundJoined' /\ SetUp' /\ ReportSoFar'
         /\ pc' \in Nat \ {0} /\ Step' \in {"none", "join"}
<1> TypeOK BY DEF IInv
<1> case \in AllCases BY KnownCase
<1>1. phase = "run" /\ ~Past("join") /\ ~Past("rgResult") /\ Step # "join"
  BY StepIn, PastBefore, Stages
<1>2. case' = case /\ run' = run /\ err' = TRUE
  BY DEF FailStep
<1>3. case # "warmup" => report = 0
  BY <1>1 DEF IInv, ReportSoFar
<1>4. CASE bg # "off"
  <2>1. Past("repeatJob") \/ Past("rollingUpdate")
    BY <1>1, <1>4 DEF IInv, TypeOK, BackgroundJoined, JobStates, RollStates
  <2>2. Has("join") /\ Has("newPool")
    BY <2>1, PastIn, Ordered DEF Complete
  <2>3. Past("newPool")
    BY <2>1, <2>2, PastEarlier, Stages
  <2>4. ~Past("repeatJob") => Past("deployRelease")
    BY <2>1, PastIn, PastEarlier, Stages, Ordered DEF Complete
  <2>5. /\ pc' = CHOOSE i \in DOMAIN Program : Program[i] = "join"
        /\ phase' = "run"
    BY <1>1, <1>4 DEF FailStep
  <2>6. /\ pc' \in Nat \ {0} /\ pc' <= Len(Program) /\ Program[pc'] = "join"
        /\ ~Past("join")'
        /\ Past("repeatJob") => Past("repeatJob")'
        /\ Past("rollingUpdate") => Past("rollingUpdate")'
    BY <1>2, <2>2, <2>5, PastJoin, Stages
  <2>7. Step' = "join"
    BY <1>2, <2>5, <2>6, SameProgram DEF Step
  <2>8. BackgroundJoined'
    BY <2>1, <2>5, <2>6 DEF IInv, BackgroundJoined
  <2>9. SetUp'
    BY <1>1, <1>2, <2>1, <2>3, <2>4, <2>6 DEF IInv, SetUp, OwnNodepool, Kinds
  <2>10. ReportSoFar'
    BY <1>1, <1>2, <1>3, <2>5, <2>7 DEF IInv, ReportSoFar
  <2> QED BY <2>6, <2>7, <2>8, <2>9, <2>10
<1>5. CASE bg = "off"
  <2>1. phase' = "unwind" /\ pc' = pc
    BY <1>5 DEF FailStep
  <2>2. Step' = "none"
    BY <2>1 DEF Step
  <2>3. BackgroundJoined' /\ SetUp'
    BY <1>5, <2>1
    DEF BackgroundJoined, SetUp, OwnNodepool, JobStates, RollStates
  <2>4. ReportSoFar'
    BY <1>1, <1>2, <1>3, <2>1, <2>2 DEF IInv, ReportSoFar
  <2> QED BY <2>1, <2>2, <2>3, <2>4 DEF TypeOK
<1> QED BY <1>4, <1>5

\* No benchmark begins with the result.
LEMMA FirstStep == ASSUME case \in AllCases PROVE Program[1] # "rgResult"
<1>1. PICK i \in DOMAIN Program : Program[i] = "rgRun"
  BY Ordered DEF Complete, Has
<1>2. CASE i = 1
  BY <1>1, <1>2
<1>3. CASE i # 1
  <2>1. 1 < i /\ 1 \in DOMAIN Program
    BY <1>1, <1>3, Ordered DEF IsProgram
  <2>2. Stage(Program[1]) < Stage("rgRun")
    BY <1>1, <2>1, Ordered DEF Increasing
  <2> QED BY <2>2, Stages
<1> QED BY <1>2, <1>3

\* A run starts with the first step, whatever the runs before it left.
LEMMA BeginStep == ASSUME IInv, Begin PROVE IInv'
<1> TypeOK BY DEF IInv
<1> case' = case BY DEF Begin
<1>1. TypeOK'
  <2>1. defers' \in Seq(Kinds) /\ UNCHANGED <<cluster, server, excused>>
    BY DEF Begin, world
  <2>2. err' \in BOOLEAN /\ cancelled' \in BOOLEAN
    BY Zenon DEF Begin
  <2>3. run' \in 0..MaxRuns /\ report' \in 0..MaxRuns
    BY BenchAssumption DEF Begin, TypeOK
  <2> QED BY <2>1, <2>2, <2>3 DEF Begin, TypeOK
<1>2. \A s : ~Past(s)'
  BY DEF Begin, Past
<1>3. Step' # "rgResult"
  BY KnownCase, SameProgram, FirstStep DEF Begin, Step
<1>4. Accounted'
  BY DEF Begin, world, IInv, Accounted, Owed, BackgroundJoined, Step, JobStates
<1>5. BackgroundJoined' /\ SetUp'
  BY <1>2 DEF Begin, BackgroundJoined, SetUp, OwnNodepool, JobStates, RollStates
<1>6. ReportSoFar'
  BY <1>1, <1>2, <1>3 DEF Begin, IInv, ReportSoFar, TypeOK
<1> QED BY <1>1, <1>4, <1>5, <1>6 DEF IInv

\* A step that is one of these is not the end of the program.
LEMMA NamesOfSteps ==
  /\ {"createNamespace", "newPool", "deployRelease", "repeatJob",
      "rollingUpdate", "rgResult", "join"} \subseteq Steps
  /\ "none" \notin Steps
BY DEF Steps, Creating, Plain

\* The steps that set up are before the start of the background.
LEMMA SetUpStage ==
  ASSUME Step \in Creating \cup Plain
  PROVE  Step # "none" /\ Stage(Step) \in Nat /\ Stage(Step) < 11
BY Stages DEF Creating, Plain

\* Whatever is in one of two sequences is in both together.
LEMMA ConcatLeft ==
  ASSUME NEW S, NEW s \in Seq(S), NEW t \in Seq(S), NEW x,
         \E i \in DOMAIN s : s[i] = x
  PROVE  \E i \in DOMAIN (s \o t) : (s \o t)[i] = x
<1>1. PICK i \in DOMAIN s : s[i] = x
  OBVIOUS
<1>2. i \in DOMAIN (s \o t) /\ (s \o t)[i] = x
  BY <1>1
<1> QED BY <1>2

\* What was pushed before is still there after it.
LEMMA ConcatRight ==
  ASSUME NEW S, NEW s \in Seq(S), NEW t \in Seq(S), NEW i \in DOMAIN t
  PROVE  Len(s) + i \in DOMAIN (s \o t) /\ (s \o t)[Len(s) + i] = t[i]
OBVIOUS

\* What a step makes it also pushes, save the namespace of DeployJobs.
LEMMA MadeIsPushed ==
  ASSUME NEW k \in Made(Step) \ {"cilium"}
  PROVE  \/ \E i \in DOMAIN Pushed(Step) : Pushed(Step)[i] = k
         \/ Step = "createNamespace" /\ k = "namespace"
BY DEF Made, Pushed

\* What a step pushes are kinds of objects.
LEMMA PushedType == Pushed(Step) \in Seq(Kinds)
<1>1. Pushed(Step) \in {<< >>, <<"file">>, <<"nodepool">>, <<"release">>,
                       <<"release", "namespace">>, <<"configmaps">>,
                       <<"configmaps", "namespace">>}
  BY DEF Pushed
<1>2. /\ << >> \in Seq(Kinds) /\ <<"file">> \in Seq(Kinds)
      /\ <<"nodepool">> \in Seq(Kinds) /\ <<"release">> \in Seq(Kinds)
      /\ <<"release", "namespace">> \in Seq(Kinds)
      /\ <<"configmaps">> \in Seq(Kinds)
      /\ <<"configmaps", "namespace">> \in Seq(Kinds)
  BY DEF Kinds
<1> QED BY <1>1, <1>2, Zenon

\* A step that succeeds has its clean-up pushed with it.
LEMMA StepOkStep == ASSUME IInv, StepOk PROVE IInv'
<1> TypeOK BY DEF IInv
<1> case \in AllCases BY KnownCase
<1>1. /\ Step # "none" /\ Stage(Step) \in Nat /\ Stage(Step) < 11
      /\ phase = "run" /\ Step \in Steps
  BY SetUpStage, StepIn DEF StepOk
<1>2. UNCHANGED <<case, total, run, phase, err, report, server, bg, todo,
                cancelled, kills>>
  BY DEF StepOk, background
<1>3. \A s \in Steps : Past(s)' <=> Past(s) \/ s = Step
  BY <1>1, <1>2, PastNext DEF StepOk
<1>4. /\ Step = "createNamespace" => Step' = "deployRelease"
      /\ Step' # "rgResult"
  BY <1>1, <1>2, StepNext, Stages DEF StepOk
<1>5. /\ cluster' = [k \in Kinds |-> IF k \in Made(Step) THEN run ELSE cluster[k]]
      /\ excused' = excused \ Made(Step)
      /\ defers' = Pushed(Step) \o defers
      /\ pc' = pc + 1
  BY DEF StepOk, Put
<1>6. TypeOK'
  BY <1>2, <1>5, PushedType, BenchAssumption DEF TypeOK
<1>7. Accounted'
  <2> SUFFICES ASSUME NEW k \in Kinds \ {"cilium"}, cluster'[k] # 0 PROVE Owed(k)'
    BY DEF Accounted
  <2> defers \in Seq(Kinds) BY DEF TypeOK
  <2>1. CASE k \in Made(Step)
    <3>1. CASE Step = "createNamespace" /\ k = "namespace"
      BY <1>3, <1>4, <3>1, NamesOfSteps DEF Owed
    <3>2. CASE \E i \in DOMAIN Pushed(Step) : Pushed(Step)[i] = k
      <4>1. \E i \in DOMAIN defers' : defers'[i] = k
        BY <1>5, <3>2, PushedType, ConcatLeft
      <4> QED BY <1>1, <1>2, <4>1 DEF Owed
    <3> QED BY <2>1, <3>1, <3>2, MadeIsPushed
  <2>2. CASE k \notin Made(Step)
    <3>1. Owed(k)
      BY <1>5, <2>2 DEF IInv, Accounted
    <3>2. CASE k \in excused
      BY <1>5, <2>2, <3>2 DEF Owed
    <3>3. CASE \E i \in DOMAIN defers : defers[i] = k
      <4>1. \E i \in DOMAIN defers' : defers'[i] = k
        <5>1. PICK i \in DOMAIN defers : defers[i] = k
          BY <3>3
        <5>2. /\ Len(Pushed(Step)) + i \in DOMAIN defers'
              /\ defers'[Len(Pushed(Step)) + i] = k
          BY <1>5, <5>1, PushedType, ConcatRight
        <5> QED BY <5>2
      <4> QED BY <1>1, <1>2, <4>1 DEF Owed
    <3>4. CASE k \in {"namespace", "job"} /\ bg \in JobStates \ {"namespace"}
      BY <1>2, <3>4 DEF Owed
    <3>5. CASE k = "namespace" /\ Step = "deployRelease" /\ Past("createNamespace")
      <4>1. case = "node100_job10_pod10k"
        BY <3>5, PastIn, Ordered DEF Complete
      <4>2. Pushed(Step)[2] = k /\ 2 \in DOMAIN Pushed(Step)
        BY <3>5, <4>1 DEF Pushed
      <4>3. \E i \in DOMAIN defers' : defers'[i] = k
        BY <1>5, <4>2, PushedType, ConcatLeft
      <4> QED BY <1>1, <1>2, <4>3 DEF Owed
    <3> QED
      BY <1>1, <3>1, <3>2, <3>3, <3>4, <3>5, Stages DEF Owed
  <2> QED BY <2>1, <2>2
<1>8. BackgroundJoined'
  BY <1>1, <1>2, <1>3, NamesOfSteps, Stages DEF IInv, BackgroundJoined
<1>9. SetUp'
  BY <1>1, <1>2, <1>3, <1>5, NamesOfSteps, Stages
  DEF IInv, SetUp, OwnNodepool, Made, Kinds
<1>10. ReportSoFar'
  BY <1>1, <1>2, <1>3, <1>4, NamesOfSteps, Stages DEF IInv, ReportSoFar
<1> QED BY <1>6, <1>7, <1>8, <1>9, <1>10 DEF IInv

\* A step that fails leaves what it made to nobody, which excuses it.
LEMMA StepFailedStep == ASSUME IInv, StepFailed PROVE IInv'
<1> TypeOK BY DEF IInv
<1> case \in AllCases BY KnownCase
<1>1. /\ Step # "none" /\ Stage(Step) \in Nat /\ Stage(Step) < 11
      /\ Step \in Creating \cup Plain
  BY SetUpStage DEF StepFailed
<1>2. UNCHANGED <<case, total, run, defers, report, server, bg, todo,
                cancelled, kills>>
  BY DEF StepFailed, FailStep, background
<1>3. PICK left \in SUBSET (Made(Step) \ {"file"}) :
        /\ cluster' = Put({k \in left : cluster[k] = 0}, run)
        /\ excused' = excused \cup left
             \cup (IF Step = "deployRelease" /\ Past("createNamespace")
                     THEN {"namespace"} ELSE {})
  BY Zenon DEF StepFailed
<1>4. /\ \A k \in Kinds : cluster'[k] \in {cluster[k], run}
      /\ \A k \in Kinds : cluster'[k] # cluster[k] => k \in left
      /\ cluster' \in [Kinds -> 0..MaxRuns]
  BY <1>3 DEF Put, TypeOK
<1>5. /\ BackgroundJoined' /\ SetUp' /\ ReportSoFar'
      /\ pc' \in Nat \ {0} /\ Step' \in {"none", "join"}
  BY <1>1, <1>2, <1>4, FailKeeps DEF StepFailed
<1>6. Made(Step) \subseteq Kinds
  BY DEF Made, Kinds
<1>7. phase' \in {phase, "unwind"} /\ err' = TRUE /\ phase = "run"
  BY <1>1, StepIn DEF StepFailed, FailStep
<1>8. TypeOK'
  BY <1>2, <1>3, <1>4, <1>5, <1>6, <1>7, Zenon DEF TypeOK, Kinds
<1>9. Accounted'
  <2> SUFFICES ASSUME NEW k \in Kinds \ {"cilium"}, cluster'[k] # 0 PROVE Owed(k)'
    BY DEF Accounted
  <2>1. CASE k \in excused'
    BY <2>1 DEF Owed
  <2>2. CASE k \notin excused'
    <3>1. Owed(k) /\ k \notin excused
      BY <1>3, <1>4, <2>2 DEF IInv, Accounted
    <3>2. ~(k = "namespace" /\ Step = "deployRelease" /\ Past("createNamespace"))
      BY <1>3, <2>2
    <3>3. Step \notin {"rgResult", "rgCleanup"}
      BY <1>1, Stages
    <3> QED BY <1>2, <1>7, <3>1, <3>2, <3>3 DEF Owed
  <2> QED BY <2>1, <2>2
<1> QED BY <1>5, <1>8, <1>9 DEF IInv

\* The node pool of an earlier run goes before the new one comes.
LEMMA DeletePoolStep == ASSUME IInv, DeletePool PROVE IInv'
<1> TypeOK BY DEF IInv
<1> case \in AllCases BY KnownCase
<1>1. Step = "deletePool" /\ phase = "run" /\ Step \in Steps
  BY StepIn DEF DeletePool
<1>2. /\ pc' = pc + 1
      /\ UNCHANGED <<case, total, run, phase, defers, err, report, server, bg,
                     todo, cancelled, kills>>
  BY DEF DeletePool, Advance, background
<1>3. \A s \in Steps : Past(s)' <=> Past(s) \/ s = Step
  BY <1>1, <1>2, PastNext
<1>4. Step' # "rgResult" /\ ~Past("newPool") /\ ~Past("join") /\ ~Past("rgResult")
  BY <1>1, <1>2, StepNext, PastBefore, Stages
<1>5. /\ \A k \in Kinds : cluster'[k] # cluster[k] => k = "nodepool" /\ cluster'[k] = 0
      /\ \A k \in Kinds : cluster'[k] # 0 /\ k \in excused => k \in excused'
      /\ cluster' \in [Kinds -> 0..MaxRuns] /\ excused' \subseteq Kinds
  BY BenchAssumption DEF DeletePool, Put, TypeOK
<1>6. TypeOK'
  BY <1>2, <1>5 DEF TypeOK
<1>7. Accounted'
  BY <1>1, <1>2, <1>5 DEF IInv, Accounted, Owed
<1>8. BackgroundJoined' /\ SetUp' /\ ReportSoFar'
  BY <1>1, <1>2, <1>3, <1>4, <1>5, NamesOfSteps
  DEF IInv, BackgroundJoined, SetUp, OwnNodepool, ReportSoFar, Kinds
<1> QED BY <1>6, <1>7, <1>8 DEF IInv

\* The cores are read before and after the load, and may fail the run.
LEMMA CoresStep == ASSUME IInv, Cores PROVE IInv'
<1> TypeOK BY DEF IInv
<1> case \in AllCases BY KnownCase
<1>1. Step \in {"cores", "coresAfter"} /\ phase = "run" /\ Step \in Steps
  BY StepIn DEF Cores
<1>2. /\ UNCHANGED <<case, total, run, defers, report, cluster, server, excused, bg,
                     todo, cancelled, kills>>
      /\ phase' \in {"run", "unwind"}
      /\ phase' = "run" => pc' = pc + 1
      /\ phase' = "unwind" => pc' = pc
  BY <1>1 DEF Cores, Advance, background, world
<1> err' \in BOOLEAN
  BY Zenon DEF Cores, Advance, TypeOK
<1>3. case = "warmup"
  BY <1>1, StepIn, Ordered DEF Complete
<1>4. bg \in {"off", "ended"}
  <2>1. Step = "cores" => ~Past("repeatJob") /\ ~Past("rollingUpdate")
    BY PastBefore, Stages
  <2>2. Step = "coresAfter" => Past("join")
    BY StepAfter, StepIn, Stages, Ordered DEF Complete
  <2> QED BY <1>1, <2>1, <2>2
          DEF IInv, TypeOK, BackgroundJoined, JobStates, RollStates
<1>5. CASE phase' = "run"
  <2>1. \A s \in Steps : Past(s)' <=> Past(s) \/ s = Step
    BY <1>1, <1>2, <1>5, PastNext
  <2>2. Step' # "rgResult"
    BY <1>1, <1>2, <1>5, StepNext
  <2>3. TypeOK'
    BY <1>2, <1>5 DEF TypeOK
  <2>4. Accounted'
    BY <1>1, <1>2, <1>5 DEF IInv, Accounted, Owed
  <2>5. BackgroundJoined' /\ SetUp' /\ ReportSoFar'
    BY <1>1, <1>2, <1>3, <1>4, <1>5, <2>1, <2>2, NamesOfSteps
    DEF IInv, BackgroundJoined, SetUp, OwnNodepool, ReportSoFar, JobStates,
        RollStates
  <2> QED BY <2>3, <2>4, <2>5 DEF IInv
<1>6. CASE phase' = "unwind"
  <2>1. Step' = "none"
    BY <1>6 DEF Step
  <2>2. TypeOK'
    BY <1>2, <1>6 DEF TypeOK
  <2>3. Accounted'
    BY <1>1, <1>2, <1>6 DEF IInv, Accounted, Owed
  <2>4. BackgroundJoined' /\ SetUp' /\ ReportSoFar'
    BY <1>1, <1>2, <1>3, <1>4, <1>6, <2>1
    DEF IInv, BackgroundJoined, SetUp, OwnNodepool, ReportSoFar, JobStates,
        RollStates
  <2> QED BY <2>2, <2>3, <2>4 DEF IInv
<1> QED BY <1>2, <1>5, <1>6

\* The background starts when what it works on is set up.
LEMMA StartBackgroundStep == ASSUME IInv, StartBackground PROVE IInv'
<1> TypeOK BY DEF IInv
<1> case \in AllCases BY KnownCase
<1>1. Step \in {"repeatJob", "rollingUpdate"} /\ phase = "run" /\ Step \in Steps
  BY StepIn DEF StartBackground
<1>2. /\ pc' = pc + 1
      /\ UNCHANGED <<case, total, run, phase, defers, err, report, cluster, server,
                     excused, todo, cancelled, kills>>
      /\ Step = "repeatJob" => bg' = "namespace"
      /\ Step = "rollingUpdate" => bg' = "interval"
  BY DEF StartBackground, Advance, world
<1>3. \A s \in Steps : Past(s)' <=> Past(s) \/ s = Step
  BY <1>1, <1>2, PastNext
<1>4. Step' # "rgResult" /\ ~Past("join") /\ ~Past("repeatJob") /\ ~Past("rollingUpdate")
  BY <1>1, <1>2, StepNext, PastBefore, Stages
<1>5. bg = "off"
  BY <1>1, <1>4 DEF IInv, TypeOK, BackgroundJoined, JobStates, RollStates
<1>6. TypeOK'
  BY <1>1, <1>2 DEF TypeOK
<1>7. Accounted'
  BY <1>1, <1>2, <1>5 DEF IInv, Accounted, Owed, JobStates
<1>8. BackgroundJoined' /\ SetUp' /\ ReportSoFar'
  BY <1>1, <1>2, <1>3, <1>4, NamesOfSteps
  DEF IInv, BackgroundJoined, SetUp, OwnNodepool, ReportSoFar, JobStates,
      RollStates
<1> QED BY <1>6, <1>7, <1>8 DEF IInv

\* What leaves the benchmark and its background where they are.
LEMMA SameKeeps ==
  ASSUME IInv, UNCHANGED <<case, run, phase, pc, defers, err, report, cluster,
                           excused, bg>>
  PROVE  Accounted' /\ BackgroundJoined' /\ SetUp' /\ ReportSoFar'
<1>1. Step' = Step /\ \A s \in Steps : Past(s)' <=> Past(s)
  BY SameStep, SamePast
<1>2. Accounted'
  BY <1>1, NamesOfSteps DEF IInv, Accounted, Owed
<1>3. BackgroundJoined' /\ SetUp' /\ ReportSoFar'
  BY <1>1, NamesOfSteps
  DEF IInv, BackgroundJoined, SetUp, OwnNodepool, ReportSoFar
<1> QED BY <1>2, <1>3

\* Steps that touch neither the course nor the cluster.
LEMMA QuietStep ==
  ASSUME IInv, Cancel \/ RunnersEnd \/ ServerLost \/ UNCHANGED vars PROVE IInv'
<1>1. TypeOK'
  <2>1. CASE Cancel
    BY <2>1 DEF IInv, TypeOK, Cancel, control, world
  <2>2. CASE RunnersEnd \/ ServerLost
    BY <2>2 DEF IInv, TypeOK, RunnersEnd, ServerLost, control, background
  <2>3. CASE UNCHANGED vars
    BY <2>3 DEF IInv, TypeOK, vars, control, world, background
  <2> QED BY <2>1, <2>2, <2>3
<1>2. UNCHANGED <<case, run, phase, pc, defers, err, report, cluster, excused, bg>>
  BY DEF Cancel, RunnersEnd, ServerLost, vars, control, world, background
<1> QED BY <1>1, <1>2, SameKeeps DEF IInv

\* The background has ended when wg.Wait returns.
LEMMA JoinStep == ASSUME IInv, Join PROVE IInv'
<1> TypeOK BY DEF IInv
<1> case \in AllCases BY KnownCase
<1>1. Step = "join" /\ phase = "run" /\ Step \in Steps /\ bg = "ended"
  BY StepIn DEF Join
<1>2. UNCHANGED <<case, total, run, defers, err, report, cluster, server, excused, bg,
                  todo, cancelled, kills>>
  BY DEF Join, Advance, background, world
<1>3. Past("rgResult")
  BY <1>1, StepAfter, Stages, Ordered DEF Complete
<1>4. CASE err /\ case # "warmup"
  <2>1. phase' = "unwind" /\ pc' = pc
    BY <1>4 DEF Join
  <2>2. TypeOK' /\ Step' = "none"
    BY <1>2, <2>1 DEF TypeOK, Step
  <2>3. Accounted'
    BY <1>1, <1>2, <2>1 DEF IInv, Accounted, Owed
  <2>4. BackgroundJoined' /\ SetUp' /\ ReportSoFar'
    BY <1>1, <1>2, <1>4, <2>1, <2>2
    DEF IInv, BackgroundJoined, SetUp, OwnNodepool, ReportSoFar, JobStates,
        RollStates
  <2> QED BY <2>2, <2>3, <2>4 DEF IInv
<1>5. CASE ~(err /\ case # "warmup")
  <2>1. phase' = phase /\ pc' = pc + 1
    BY <1>5 DEF Join, Advance
  <2>2. \A s \in Steps : Past(s)' <=> Past(s) \/ s = Step
    BY <1>1, <1>2, <2>1, PastNext
  <2>3. TypeOK' /\ Step' # "rgResult"
    BY <1>1, <1>2, <2>1, StepNext DEF TypeOK
  <2>4. Accounted'
    BY <1>1, <1>2, <2>1 DEF IInv, Accounted, Owed
  <2>5. BackgroundJoined' /\ SetUp' /\ ReportSoFar'
    BY <1>1, <1>2, <1>3, <1>5, <2>1, <2>2, <2>3, NamesOfSteps
    DEF IInv, BackgroundJoined, SetUp, OwnNodepool, ReportSoFar, JobStates,
        RollStates
  <2> QED BY <2>3, <2>4, <2>5 DEF IInv
<1> QED BY <1>4, <1>5

\* The program is at its end, and the deferred calls begin.
LEMMA FinishStep == ASSUME IInv, Finish PROVE IInv'
<1> TypeOK BY DEF IInv
<1> case \in AllCases BY KnownCase
<1>1. phase = "run" /\ pc > Len(Program) /\ phase' = "unwind"
  BY DEF Finish
<1>2. UNCHANGED <<case, total, run, pc, defers, err, report, cluster, server, excused,
                  bg, todo, cancelled, kills>>
  BY DEF Finish, background, world
<1>3. ASSUME NEW s, Has(s) PROVE Past(s)
  BY <1>1, <1>3, Ordered DEF Has, Past, IsProgram, TypeOK
<1>4. Past("rgResult") /\ Step = "none" /\ Step' = "none"
  BY <1>1, <1>3, Ordered DEF Complete, Step, IsProgram, TypeOK
<1>5. bg \in {"off", "ended"}
  BY <1>1, <1>3, PastIn, Ordered
  DEF IInv, TypeOK, BackgroundJoined, Complete, JobStates, RollStates
<1>6. TypeOK'
  BY <1>1, <1>2 DEF TypeOK
<1>7. Accounted'
  BY <1>1, <1>2, <1>4 DEF IInv, Accounted, Owed
<1>8. BackgroundJoined' /\ SetUp' /\ ReportSoFar'
  BY <1>1, <1>2, <1>4, <1>5
  DEF IInv, BackgroundJoined, SetUp, OwnNodepool, ReportSoFar, JobStates,
      RollStates
<1> QED BY <1>6, <1>7, <1>8 DEF IInv

\* The runner group server an earlier run left is removed.
LEMMA RGDeleteStep == ASSUME IInv, RGDelete PROVE IInv'
<1> TypeOK BY DEF IInv
<1> case \in AllCases BY KnownCase
<1>1. Step = "rgDelete" /\ phase = "run" /\ Step \in Steps
  BY StepIn DEF RGDelete
<1>2. UNCHANGED <<case, total, run, defers, report, bg, todo, cancelled, kills>>
  BY DEF RGDelete, Advance, FailStep, background
<1>3. CASE /\ cluster' = Put({"runnergroup"}, 0)
           /\ excused' = excused \ {"runnergroup"}
           /\ server' = "running"
           /\ Advance
  <2>1. UNCHANGED <<phase, err>> /\ pc' = pc + 1
    BY <1>3 DEF Advance
  <2>2. \A s \in Steps : Past(s)' <=> Past(s) \/ s = Step
    BY <1>1, <1>2, <2>1, PastNext
  <2>3. Step' # "rgResult"
    BY <1>1, <1>2, <2>1, StepNext
  <2>4. cluster' = [cluster EXCEPT !["runnergroup"] = 0]
    BY <1>3, Zenon DEF Put, Kinds, TypeOK
  <2>5. TypeOK'
    BY <1>2, <1>3, <2>1, <2>4, BenchAssumption DEF TypeOK
  <2>6. Accounted'
    BY <1>1, <1>2, <1>3, <2>1, <2>4 DEF IInv, Accounted, Owed, TypeOK
  <2>7. BackgroundJoined' /\ SetUp' /\ ReportSoFar'
    BY <1>1, <1>2, <2>1, <2>2, <2>3, <2>4, NamesOfSteps
    DEF IInv, BackgroundJoined, SetUp, OwnNodepool, ReportSoFar, TypeOK, Kinds
  <2> QED BY <2>5, <2>6, <2>7 DEF IInv
<1>4. CASE FailStep /\ UNCHANGED world
  <2>1. UNCHANGED <<cluster, server, excused>> /\ err' = TRUE
    BY <1>4 DEF world, FailStep
  <2>2. /\ BackgroundJoined' /\ SetUp' /\ ReportSoFar'
        /\ pc' \in Nat \ {0}
    BY <1>1, <1>2, <1>4, <2>1, FailKeeps, Stages
  <2>3. phase' \in {"run", "unwind"}
    BY <1>1, <1>4 DEF FailStep
  <2>4. TypeOK'
    BY <1>2, <2>1, <2>2, <2>3 DEF TypeOK
  <2>5. Accounted'
    BY <1>1, <1>2, <2>1, <2>3 DEF IInv, Accounted, Owed
  <2> QED BY <2>2, <2>4, <2>5 DEF IInv
<1> QED BY <1>3, <1>4 DEF RGDelete

\* The server of this run is started.
LEMMA RGRunStep == ASSUME IInv, RGRun PROVE IInv'
<1> TypeOK BY DEF IInv
<1> case \in AllCases BY KnownCase
<1>1. Step = "rgRun" /\ phase = "run" /\ Step \in Steps
  BY StepIn DEF RGRun
<1>2. UNCHANGED <<case, total, run, defers, report, bg, todo, cancelled, kills>>
  BY DEF RGRun, Advance, FailStep, background
<1>3. CASE /\ cluster["runnergroup"] = 0
           /\ cluster' = Put({"runnergroup"}, run) /\ server' = "running"
           /\ Advance /\ UNCHANGED excused
  <2>1. UNCHANGED <<phase, err>> /\ pc' = pc + 1
    BY <1>3 DEF Advance
  <2>2. \A s \in Steps : Past(s)' <=> Past(s) \/ s = Step
    BY <1>1, <1>2, <2>1, PastNext
  <2>3. Step' = "rgResult"
    BY <1>1, <1>2, <2>1, StepNext
  <2>4. cluster' = [cluster EXCEPT !["runnergroup"] = run]
    BY <1>3, Zenon DEF Put, Kinds, TypeOK
  <2>5. TypeOK'
    BY <1>2, <1>3, <2>1, <2>4 DEF TypeOK
  <2>6. Accounted'
    BY <1>1, <1>2, <1>3, <2>1, <2>3, <2>4 DEF IInv, Accounted, Owed, TypeOK
  <2>7. BackgroundJoined' /\ SetUp' /\ ReportSoFar'
    BY <1>1, <1>2, <2>1, <2>2, <2>3, <2>4, NamesOfSteps
    DEF IInv, BackgroundJoined, SetUp, OwnNodepool, ReportSoFar, TypeOK, Kinds
  <2> QED BY <2>5, <2>6, <2>7 DEF IInv
<1>4. CASE /\ \/ UNCHANGED world
              \/ /\ cluster' = Put({"runnergroup"}, run) /\ server' = "running"
                 /\ excused' = excused \cup {"runnergroup"}
           /\ FailStep
  <2>1. err' = TRUE /\ phase' \in {"run", "unwind"}
    BY <1>1, <1>4 DEF FailStep
  <2>2. /\ \A k \in Kinds : cluster'[k] \in {cluster[k], run}
        /\ \A k \in Kinds : cluster'[k] # cluster[k] => k \in excused'
        /\ excused \subseteq excused' /\ excused' \subseteq Kinds
        /\ cluster' \in [Kinds -> 0..MaxRuns]
        /\ server' \in {"running", "ready", "lost"}
    <3> "runnergroup" \in Kinds BY DEF Kinds
    <3>1. CASE UNCHANGED world
      BY <3>1 DEF world, TypeOK
    <3>2. CASE /\ cluster' = Put({"runnergroup"}, run) /\ server' = "running"
               /\ excused' = excused \cup {"runnergroup"}
      BY <3>2 DEF Put, TypeOK
    <3> QED BY <1>4, <3>1, <3>2
  <2>3. /\ BackgroundJoined' /\ SetUp' /\ ReportSoFar'
        /\ pc' \in Nat \ {0}
    BY <1>1, <1>2, <1>4, <2>2, FailKeeps, Stages
  <2>4. TypeOK'
    BY <1>2, <2>1, <2>2, <2>3 DEF TypeOK
  <2>5. Accounted'
    BY <1>1, <1>2, <2>1, <2>2 DEF IInv, Accounted, Owed
  <2> QED BY <2>3, <2>4, <2>5 DEF IInv
<1> QED BY <1>3, <1>4 DEF RGRun

\* The result is that of the server of this run.
LEMMA RGResultStep == ASSUME IInv, RGResult PROVE IInv'
<1> TypeOK BY DEF IInv
<1> case \in AllCases BY KnownCase
<1>1. Step = "rgResult" /\ phase = "run" /\ Step \in Steps
  BY StepIn DEF RGResult
<1>2. UNCHANGED <<case, total, run, defers, cluster, server, bg, todo,
                cancelled, kills>>
  BY DEF RGResult, RGResultFound, RGResultFailed, Advance, FailStep, background
<1>3. CASE RGResultFound
  <2>1. /\ UNCHANGED <<phase, err, excused>> /\ pc' = pc + 1
        /\ report' = cluster["runnergroup"]
    BY <1>3 DEF RGResultFound, Advance
  <2>2. \A s \in Steps : Past(s)' <=> Past(s) \/ s = Step
    BY <1>1, <1>2, <2>1, PastNext
  <2>3. Step' = "rgCleanup"
    BY <1>1, <1>2, <2>1, StepNext
  <2>4. TypeOK'
    BY <1>2, <2>1 DEF TypeOK, Kinds
  <2>5. Accounted'
    BY <1>1, <1>2, <2>1, <2>3 DEF IInv, Accounted, Owed
  <2>6. BackgroundJoined' /\ SetUp' /\ ReportSoFar'
    BY <1>1, <1>2, <2>1, <2>2, <2>3, NamesOfSteps
    DEF IInv, BackgroundJoined, SetUp, OwnNodepool, ReportSoFar
  <2> QED BY <2>4, <2>5, <2>6 DEF IInv
<1>4. CASE RGResultFailed
  <2>1. /\ err' = TRUE /\ phase' \in {"run", "unwind"} /\ report' = report
        /\ excused' = excused \cup {"runnergroup"} /\ FailStep
    BY <1>1, <1>4 DEF RGResultFailed, FailStep
  <2>2. /\ BackgroundJoined' /\ SetUp' /\ ReportSoFar'
        /\ pc' \in Nat \ {0}
    BY <1>1, <1>2, <2>1, FailKeeps, Stages
  <2>3. TypeOK'
    BY <1>2, <2>1, <2>2 DEF TypeOK, Kinds
  <2>4. Accounted'
    BY <1>1, <1>2, <2>1 DEF IInv, Accounted, Owed
  <2> QED BY <2>2, <2>3, <2>4 DEF IInv
<1> QED BY <1>3, <1>4 DEF RGResult

\* The server of this run is removed.
LEMMA RGCleanupStep == ASSUME IInv, RGCleanup PROVE IInv'
<1> TypeOK BY DEF IInv
<1> case \in AllCases BY KnownCase
<1>1. Step = "rgCleanup" /\ phase = "run" /\ Step \in Steps
  BY StepIn DEF RGCleanup
<1>2. /\ pc' = pc + 1
      /\ UNCHANGED <<case, total, run, phase, defers, err, report, server, bg,
                     todo, cancelled, kills>>
  BY DEF RGCleanup, Advance, background
<1>3. \A s \in Steps : Past(s)' <=> Past(s) \/ s = Step
  BY <1>1, <1>2, PastNext
<1>4. Step' # "rgResult"
  BY <1>1, <1>2, StepNext
<1>5. /\ \A k \in Kinds \ {"runnergroup"} : cluster'[k] = cluster[k]
      /\ cluster'["runnergroup"] = 0 \/ "runnergroup" \in excused'
      /\ cluster' \in [Kinds -> 0..MaxRuns]
      /\ excused \subseteq excused' /\ excused' \subseteq Kinds
  <2> "runnergroup" \in Kinds BY DEF Kinds
  <2>1. CASE cluster' = Put({"runnergroup"}, 0) /\ UNCHANGED excused
    BY <2>1, BenchAssumption DEF Put, TypeOK
  <2>2. CASE excused' = excused \cup {"runnergroup"} /\ UNCHANGED cluster
    BY <2>2 DEF TypeOK
  <2> QED BY <2>1, <2>2 DEF RGCleanup
<1>6. TypeOK'
  BY <1>2, <1>5 DEF TypeOK
<1>7. Accounted'
  BY <1>1, <1>2, <1>5 DEF IInv, Accounted, Owed
<1>8. BackgroundJoined' /\ SetUp' /\ ReportSoFar'
  BY <1>1, <1>2, <1>3, <1>4, <1>5, NamesOfSteps
  DEF IInv, BackgroundJoined, SetUp, OwnNodepool, ReportSoFar, Kinds
<1> QED BY <1>6, <1>7, <1>8 DEF IInv

-----------------------------------------------------------------------------
(* The steps of the background preserve the invariant.                     *)

\* The background goes on, or ends, while the benchmark stays where it is; it
\* takes nothing away but what is in the namespace of its jobs.
LEMMA BackgroundKeeps ==
  ASSUME IInv, UNCHANGED <<case, run, phase, pc, err, report>>,
         phase = "run",
         \/ bg \in JobStates /\ bg' \in JobStates \cup {"ended"}
         \/ bg \in RollStates /\ bg' \in RollStates \cup {"ended"},
         /\ cluster'["nodepool"] = cluster["nodepool"]
         /\ cluster'["runnergroup"] = cluster["runnergroup"]
         /\ bg \in JobStates \/ cluster'["release"] = cluster["release"]
  PROVE  BackgroundJoined' /\ SetUp' /\ ReportSoFar'
<1>1. Step' = Step /\ \A s \in Steps : Past(s)' <=> Past(s)
  BY SameStep, SamePast
<1>2. ~Past("join") /\ (bg \in JobStates => Past("repeatJob"))
        /\ (bg \in RollStates => Past("rollingUpdate"))
  BY DEF IInv, BackgroundJoined, JobStates, RollStates
<1>3. JobStates \cap RollStates = {} /\ "ended" \notin JobStates \cup RollStates
  BY DEF JobStates, RollStates
<1>4. BackgroundJoined'
  BY <1>1, <1>2, <1>3, NamesOfSteps DEF BackgroundJoined
<1>5. SetUp' /\ ReportSoFar'
  BY <1>1, <1>2, NamesOfSteps DEF IInv, SetUp, OwnNodepool, ReportSoFar
<1> QED BY <1>4, <1>5

\* The process ends, and what exists stays.
LEMMA CrashKeeps ==
  ASSUME IInv, Crashed, UNCHANGED <<case, run, pc, err>>, phase # "off",
         cluster' \in [Kinds -> 0..MaxRuns]
  PROVE  Accounted' /\ BackgroundJoined' /\ SetUp' /\ ReportSoFar'
<1>1. phase' = "crashed" /\ bg' = "ended" /\ Step' = "none"
  BY DEF Crashed, Step
<1>2. Accounted'
  BY DEF Crashed, Accounted, Owed
<1>3. BackgroundJoined' /\ SetUp' /\ ReportSoFar'
  BY <1>1
  DEF IInv, BackgroundJoined, SetUp, OwnNodepool, ReportSoFar, JobStates,
      RollStates
<1> QED BY <1>2, <1>3

\* The background makes the namespace of its jobs.
LEMMA JobNamespaceStep == ASSUME IInv, JobNamespace PROVE IInv'
<1> TypeOK BY DEF IInv
<1>1. /\ bg = "namespace" /\ phase = "run"
      /\ UNCHANGED <<case, total, run, pc, defers, err, report, server, todo,
                     cancelled, kills>>
  BY DEF JobNamespace
<1>2. "namespace" \in Kinds /\ "nodepool" \in Kinds /\ "runnergroup" \in Kinds
  BY DEF Kinds
<1>3. CASE /\ cluster' = Put({"namespace"}, run)
           /\ excused' = excused \ {"namespace"}
           /\ bg' = "check"
           /\ UNCHANGED phase
  <2>1. cluster' = [cluster EXCEPT !["namespace"] = run]
    BY <1>3, Zenon DEF Put, TypeOK
  <2>2. TypeOK'
    BY <1>1, <1>2, <1>3, <2>1 DEF TypeOK
  <2>3. Step' = Step /\ (Past("createNamespace")' <=> Past("createNamespace"))
    BY <1>1, <1>3, SameStep, SamePast
  <2>4. Accounted'
    <3> SUFFICES ASSUME NEW k \in Kinds \ {"cilium"}, cluster'[k] # 0 PROVE Owed(k)'
      BY DEF Accounted
    <3>1. CASE k = "namespace"
      BY <1>3, <3>1 DEF Owed, JobStates
    <3>2. CASE k # "namespace"
      <4>1. Owed(k)
        BY <2>1, <3>2 DEF IInv, Accounted, TypeOK
      <4> QED BY <1>1, <1>3, <2>3, <3>2, <4>1 DEF Owed, JobStates
    <3> QED BY <3>1, <3>2
  <2>5. BackgroundJoined' /\ SetUp' /\ ReportSoFar'
    BY <1>1, <1>2, <1>3, <2>1, BackgroundKeeps DEF JobStates, TypeOK
  <2> QED BY <2>2, <2>4, <2>5 DEF IInv
<1>4. CASE /\ cluster' \in {cluster, Put({"namespace"}, run)}
           /\ Crashed
  <2>1. cluster' \in [Kinds -> 0..MaxRuns]
    BY <1>4 DEF Put, TypeOK
  <2>2. TypeOK'
    BY <1>1, <1>4, <2>1 DEF TypeOK, Crashed
  <2> QED BY <1>1, <1>4, <2>1, <2>2, CrashKeeps DEF IInv
<1> QED BY <1>3, <1>4 DEF JobNamespace

\* The operator kills the run, which excuses all that exists.
LEMMA KillStep == ASSUME IInv, Kill PROVE IInv'
<1>1. TypeOK'
  BY BenchAssumption DEF IInv, TypeOK, Kill, Crashed
<1>2. /\ UNCHANGED <<case, run, pc, err, cluster>> /\ Crashed
      /\ phase # "off" /\ cluster' \in [Kinds -> 0..MaxRuns]
  BY DEF Kill, IInv, TypeOK
<1> QED BY <1>1, <1>2, CrashKeeps DEF IInv

\* The rounds of the job touch only the job.
LEMMA JobRoundStep ==
  ASSUME IInv, JobCheck \/ JobApply \/ JobWait \/ JobDelete PROVE IInv'
<1> TypeOK BY DEF IInv
<1>1. /\ bg \in JobStates \ {"namespace"} /\ bg' \in JobStates \ {"namespace"}
      /\ phase = "run" /\ excused' = excused
      /\ UNCHANGED <<case, total, run, phase, pc, defers, err, report, server, todo,
                     cancelled, kills>>
  BY DEF JobCheck, JobApply, JobWait, JobDelete, JobFrame, JobStates, control
<1>2. cluster' \in {cluster, Put({"job"}, run), Put({"job"}, 0)}
  BY DEF JobCheck, JobApply, JobWait, JobDelete
<1>3. /\ cluster' \in [Kinds -> 0..MaxRuns]
      /\ \A k \in Kinds : k # "job" => cluster'[k] = cluster[k]
  BY <1>2, BenchAssumption DEF Put, TypeOK
<1>4. TypeOK'
  BY <1>1, <1>3 DEF TypeOK, JobStates
<1>5. Step' = Step /\ (Past("createNamespace")' <=> Past("createNamespace"))
  BY <1>1, SameStep, SamePast
<1>6. Accounted'
  BY <1>1, <1>3, <1>5 DEF IInv, Accounted, Owed
<1>7. BackgroundJoined' /\ SetUp' /\ ReportSoFar'
  BY <1>1, <1>3, BackgroundKeeps DEF Kinds
<1> QED BY <1>4, <1>6, <1>7 DEF IInv

\* The background removes its namespace.
LEMMA JobCleanupStep == ASSUME IInv, JobCleanup PROVE IInv'
<1> TypeOK BY DEF IInv
<1>1. /\ bg = "cleanup" /\ bg' = "ended" /\ phase = "run"
      /\ UNCHANGED <<case, total, run, phase, pc, defers, err, report, server, todo,
                     cancelled, kills>>
  BY DEF JobCleanup, JobFrame, control
<1>2. /\ cluster' \in [Kinds -> 0..MaxRuns] /\ excused' \subseteq Kinds
      /\ excused \subseteq excused'
      /\ \A k \in {"namespace", "job"} : cluster'[k] # 0 => k \in excused'
      /\ \A k \in Kinds : cluster'[k] # 0 => cluster[k] # 0
      /\ \A k \in {"nodepool", "runnergroup"} : cluster'[k] = cluster[k]
  <2>1. CASE cluster' = Put(Removed("namespace"), 0) /\ UNCHANGED excused
    BY <2>1, BenchAssumption DEF Put, Removed, TypeOK, Kinds
  <2>2. CASE /\ excused' = excused \cup {"namespace", "job"}
             /\ UNCHANGED cluster
    BY <2>2 DEF TypeOK, Kinds
  <2> QED BY <2>1, <2>2 DEF JobCleanup
<1>3. TypeOK'
  BY <1>1, <1>2 DEF TypeOK
<1>4. Step' = Step /\ (Past("createNamespace")' <=> Past("createNamespace"))
  BY <1>1, SameStep, SamePast
<1>5. Accounted'
  BY <1>1, <1>2, <1>4 DEF IInv, Accounted, Owed
<1>6. BackgroundJoined' /\ SetUp' /\ ReportSoFar'
  BY <1>1, <1>2, BackgroundKeeps DEF JobStates
<1> QED BY <1>3, <1>5, <1>6 DEF IInv

\* The background restarts deployments of the release.
LEMMA RollStep == ASSUME IInv, RollingUpdateDeployments PROVE IInv'
<1> TypeOK BY DEF IInv
<1>1. /\ bg \in RollStates /\ bg' \in RollStates \cup {"ended"} /\ phase = "run"
      /\ UNCHANGED <<case, total, run, phase, pc, defers, err, report, cluster, server,
                     excused, cancelled, kills>>
  BY DEF RollingUpdateDeployments, RollInterval, RollUpdate, RollFrame,
         RollStates, control, world
<1>2. todo' \in Nat
  BY BenchAssumption
  DEF RollingUpdateDeployments, RollInterval, RollUpdate, TypeOK
<1>3. TypeOK'
  BY <1>1, <1>2 DEF TypeOK, RollStates
<1>4. Step' = Step /\ (Past("createNamespace")' <=> Past("createNamespace"))
  BY <1>1, SameStep, SamePast
<1>5. Accounted'
  BY <1>1, <1>4 DEF IInv, Accounted, Owed, JobStates, RollStates
<1>6. BackgroundJoined' /\ SetUp' /\ ReportSoFar'
  BY <1>1, BackgroundKeeps
<1> QED BY <1>3, <1>5, <1>6 DEF IInv

-----------------------------------------------------------------------------
(* The return.                                                             *)

\* A deferred call removes what it was pushed for, or fails.
LEMMA CleanupStep == ASSUME IInv, Cleanup PROVE IInv'
<1> TypeOK BY DEF IInv
<1>1. /\ phase = "unwind" /\ defers # << >> /\ defers' = Tail(defers)
      /\ UNCHANGED <<case, total, run, phase, pc, report, server, bg, todo,
                     cancelled, kills>>
  BY DEF Cleanup, background
<1>2. Head(defers) \in Kinds /\ Tail(defers) \in Seq(Kinds)
  BY <1>1 DEF TypeOK
<1>3. /\ cluster' \in [Kinds -> 0..MaxRuns] /\ excused' \subseteq Kinds
      /\ excused \subseteq excused'
      /\ cluster'[Head(defers)] # 0 => Head(defers) \in excused'
      /\ \A k \in Kinds : cluster'[k] # 0 => cluster[k] # 0
  <2>1. CASE cluster' = Put(Removed(Head(defers)), 0) /\ UNCHANGED excused
    BY <1>2, <2>1, BenchAssumption DEF Put, Removed, TypeOK
  <2>2. CASE excused' = excused \cup {Head(defers)} /\ UNCHANGED cluster
    BY <1>2, <2>2 DEF TypeOK
  <2> QED BY <2>1, <2>2 DEF Cleanup
<1>4. err' \in BOOLEAN /\ (case # "warmup" => err' = err)
  BY Zenon DEF Cleanup, TypeOK
<1>5. TypeOK'
  BY <1>1, <1>2, <1>3, <1>4 DEF TypeOK
<1>6. Step = "none" /\ Step' = "none" /\ bg \in {"off", "ended"}
  BY <1>1 DEF Step, IInv, BackgroundJoined
<1>7. Accounted'
  <2> SUFFICES ASSUME NEW k \in Kinds \ {"cilium"}, cluster'[k] # 0, k \notin excused'
               PROVE  \E i \in DOMAIN defers' : defers'[i] = k
    BY <1>1 DEF Accounted, Owed
  <2>1. Owed(k) /\ k \notin excused
    BY <1>3 DEF IInv, Accounted
  <2>2. PICK i \in DOMAIN defers : defers[i] = k
    BY <1>6, <2>1 DEF Owed, JobStates
  <2>3. i \in Nat \ {0} /\ i # 1
    BY <1>3, <2>2 DEF TypeOK
  <2>4. i - 1 \in DOMAIN defers' /\ defers'[i - 1] = k
    BY <1>1, <2>2, <2>3 DEF TypeOK
  <2> QED BY <2>4
<1>8. BackgroundJoined' /\ SetUp' /\ ReportSoFar'
  BY <1>1, <1>4, <1>6
  DEF IInv, BackgroundJoined, SetUp, OwnNodepool, ReportSoFar, JobStates,
      RollStates
<1> QED BY <1>5, <1>7, <1>8 DEF IInv

\* The benchmark returns, and its report is rendered.
LEMMA ReturnStep == ASSUME IInv, Return \/ Render PROVE IInv'
<1> TypeOK BY DEF IInv
<1>1. /\ phase \in {"unwind", "ended"} /\ phase' \in {"ended", "rendered"}
      /\ phase = "unwind" => defers = << >>
      /\ phase' = "ended" => phase = "unwind" /\ report' = report
      /\ UNCHANGED <<case, total, run, pc, defers, err, cluster, server, excused, bg,
                     todo, cancelled, kills>>
  BY DEF Return, Render, world, background
<1>2. report' \in {0, report}
  BY DEF Return, Render
<1>3. TypeOK'
  BY <1>1, <1>2, BenchAssumption DEF TypeOK
<1>4. Step = "none" /\ Step' = "none" /\ bg \in {"off", "ended"}
  BY <1>1 DEF Step, IInv, BackgroundJoined
<1>5. Accounted'
  BY <1>1, <1>4 DEF IInv, Accounted, Owed, JobStates
<1>6. BackgroundJoined' /\ SetUp' /\ ReportSoFar'
  BY <1>1, <1>4
  DEF IInv, BackgroundJoined, SetUp, OwnNodepool, ReportSoFar, JobStates,
      RollStates
<1> QED BY <1>3, <1>5, <1>6 DEF IInv

-----------------------------------------------------------------------------
(* The theorems.                                                           *)

\* The invariant holds before the first run.
LEMMA InitIInv == ASSUME Init PROVE IInv
<1>1. TypeOK
  <2>1. defers \in Seq(Kinds) /\ cluster \in [Kinds -> 0..MaxRuns]
    BY BenchAssumption DEF Init
  <2>2. err \in BOOLEAN /\ cancelled \in BOOLEAN
    BY Zenon DEF Init
  <2>3. run \in 0..MaxRuns /\ report \in 0..MaxRuns /\ kills \in 0..MaxKills
    BY BenchAssumption DEF Init
  <2> QED BY <2>1, <2>2, <2>3 DEF Init, TypeOK
<1>2. Accounted /\ BackgroundJoined /\ SetUp /\ ReportSoFar
  BY DEF Init, Accounted, BackgroundJoined, SetUp, OwnNodepool, ReportSoFar, Step,
         JobStates, RollStates
<1> QED BY <1>1, <1>2 DEF IInv

\* Every step of every actor keeps the invariant.
LEMMA NextIInv == ASSUME IInv, [Next]_vars PROVE IInv'
<1>1. CASE Begin BY <1>1, BeginStep
<1>2. CASE StepOk BY <1>2, StepOkStep
<1>3. CASE StepFailed BY <1>3, StepFailedStep
<1>4. CASE DeletePool BY <1>4, DeletePoolStep
<1>5. CASE Cores BY <1>5, CoresStep
<1>6. CASE StartBackground BY <1>6, StartBackgroundStep
<1>7. CASE Join BY <1>7, JoinStep
<1>8. CASE Finish BY <1>8, FinishStep
<1>9. CASE RGDelete BY <1>9, RGDeleteStep
<1>10. CASE RGRun BY <1>10, RGRunStep
<1>11. CASE RGResult BY <1>11, RGResultStep
<1>12. CASE RGCleanup BY <1>12, RGCleanupStep
<1>13. CASE Cleanup BY <1>13, CleanupStep
<1>14. CASE Return \/ Render BY <1>14, ReturnStep
<1>15. CASE JobNamespace BY <1>15, JobNamespaceStep
<1>16. CASE JobCheck \/ JobApply \/ JobWait \/ JobDelete BY <1>16, JobRoundStep
<1>17. CASE JobCleanup BY <1>17, JobCleanupStep
<1>18. CASE RollingUpdateDeployments BY <1>18, RollStep
<1>19. CASE Cancel \/ RunnersEnd \/ ServerLost \/ UNCHANGED vars
  BY <1>19, QuietStep
<1>20. CASE Kill BY <1>20, KillStep
<1>21. Over => UNCHANGED vars BY DEF Over
<1> QED
  BY <1>1, <1>2, <1>3, <1>4, <1>5, <1>6, <1>7, <1>8, <1>9, <1>10, <1>11, <1>12,
     <1>13, <1>14, <1>15, <1>16, <1>17, <1>18, <1>19, <1>20, <1>21
  DEF Next, Foreground, RepeatJobWithPod

\* The invariant holds of every sequence of runs.
THEOREM SpecIInv == Spec => []IInv
BY InitIInv, NextIInv, PTL DEF Spec

\* The variables have their types.
THEOREM TypeCorrect == Spec => []TypeOK
BY SpecIInv, PTL DEF IInv

\* For any number of runs, killed runs and deployments: a benchmark that has
\* returned has removed all it made, but for what a failing command left and the
\* Cilium resources (the defer statements of each benchmark).
THEOREM CleanAfterReturnHolds == Spec => []CleanAfterReturn
<1>1. IInv => CleanAfterReturn
  BY DEF IInv, Accounted, Owed, CleanAfterReturn, BackgroundJoined, Step,
         JobStates
<1> QED BY <1>1, SpecIInv, PTL

\* The load runs on the node pool of its run, and no error is returned exactly if
\* the result is that of its own runner group (bench/utils.go:120-132,
\* utils.go:329-381).
THEOREM RunIsItsOwnHolds == Spec => []RunIsItsOwn
<1>1. IInv => OwnNodepool
  BY DEF IInv, SetUp
<1>2. IInv => ReportIsOwn
  BY DEF IInv, ReportSoFar, ReportIsOwn
<1>3. QED
  BY <1>1, <1>2, SpecIInv, PTL DEF RunIsItsOwn

\* What the background works on was set up before it and is still there.
LEMMA WithinSetup == ASSUME IInv PROVE BackgroundWithinSetup
<1> TypeOK BY DEF IInv
<1> case \in AllCases BY KnownCase
<1> SUFFICES ASSUME bg \notin {"off", "ended"}
             PROVE  /\ phase = "run" /\ cluster["nodepool"] = run
                    /\ bg \in RollStates => cluster["release"] = run
  BY DEF BackgroundWithinSetup, RollStates
<1>1. phase = "run" /\ (bg \in RollStates => Past("rollingUpdate"))
        /\ (Past("repeatJob") \/ Past("rollingUpdate"))
  BY DEF IInv, BackgroundJoined, TypeOK, JobStates, RollStates
<1>2. Past("newPool")
  BY <1>1, PastIn, PastEarlier, Stages, Ordered DEF Complete
<1>3. Past("rollingUpdate") => Past("deployRelease") /\ ~Past("repeatJob")
  BY PastIn, PastEarlier, Stages, Ordered DEF Complete
<1> QED BY <1>1, <1>2, <1>3 DEF IInv, SetUp, OwnNodepool

\* The background never works on what is not there yet or is being taken down:
\* every path waits for it before the deferred calls
\* (node10_job1_pod100.go:68-87, node100_pod10k.go:84-139).
THEOREM BackgroundWithinSetupHolds == Spec => []BackgroundWithinSetup
  BY WithinSetup, SpecIInv, PTL
=============================================================================
