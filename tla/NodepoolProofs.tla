--------------------------- MODULE NodepoolProofs ---------------------------
(***************************************************************************)
(* Proofs about the node pools, for any names, any number of commands at   *)
(* the same time, any failures of helm and any number of kills.            *)
(***************************************************************************)
EXTENDS Nodepool, TLAPS

\* The names that CreateNodepool and DeleteNodepool accept.
Valid(p) == \A q \in Names : p # Controller[q]

\* What a command on p knows of the nodes of its pool, and of its
\* controllers, at each of its steps, unless Get did not see the release.
StepInv(p) ==
  /\ pc[p] \in {"crd", "def", "controller"} => status[p] = "absent"
  /\ pc[p] = "nodes" =>
       /\ status[Controller[p]] = "deployed"
       /\ p \in busy => was[p] = "absent"
       /\ p \notin busy => status[p] = "absent"
  /\ pc[p] = "cleanup" => status[p] \in {"absent", "failed"}
  /\ status[p] \in {"pending", "deployed"} => status[Controller[p]] = "deployed"

\* The same of a pool on which nothing was left half done.
CleanInv(p) ==
  /\ pc[p] \in {"idle", "get", "delNodes"} =>
       /\ status[p] \in {"absent", "deployed"}
       /\ status[Controller[p]] = status[p]
  /\ pc[p] \in {"crd", "def"} => status[Controller[p]] = "absent"
  /\ pc[p] = "controller" =>
       /\ p \in busy => was[p] = "absent"
       /\ p \notin busy => status[Controller[p]] = "absent"
  /\ pc[p] = "cleanup" => status[p] = "absent" /\ status[Controller[p]] = "deployed"

PoolInv(p) ==
  /\ p \in busy => pc[p] \in Steps
  /\ pc[p] = "delController" => status[p] = "absent"
  /\ p \in blind => p \in dirty
  /\ p \notin blind => StepInv(p)
  /\ p \notin dirty => CleanInv(p)
  /\ pc[p] = "idle" /\ outcome[p] = "deleted" =>
       status[p] = "absent" /\ status[Controller[p]] = "absent"

\* A command on a name that is refused never gets anywhere.
RefusedInv(p) == pc[p] = "idle" /\ p \notin busy /\ outcome[p] # "deleted"

BatchInv ==
  /\ batch.phase \in {"next", "wait"} =>
       /\ <<batch.total, batch.size>> \in Requests
       /\ batch.size > 0
       /\ batch.made = IF batch.i < batch.total THEN batch.i ELSE batch.total
  /\ batch.phase = "wait" => batch.i < batch.total
  /\ batch.phase = "done" => batch.made = batch.total

IInv ==
  /\ TypeOK
  /\ \A p \in Names : IF Valid(p) THEN PoolInv(p) ELSE RefusedInv(p)
  /\ BatchInv

PoolOk(p) == IF Valid(p) THEN PoolInv(p) ELSE RefusedInv(p)

\* A step on p leaves what the invariant says of the other pools alone.
OthersSame(p) ==
  \A q \in Names \ {p} :
    /\ pc'[q] = pc[q] /\ was'[q] = was[q] /\ outcome'[q] = outcome[q]
    /\ (q \in busy') <=> (q \in busy)
    /\ (q \in dirty') <=> (q \in dirty)
    /\ (q \in blind') <=> (q \in blind)
    /\ Valid(q) => /\ status'[q] = status[q]
                   /\ status'[Controller[q]] = status[Controller[q]]

-----------------------------------------------------------------------------
(* The releases of different pools are different releases.                 *)

LEMMA Apart ==
  ASSUME NEW p \in Names, NEW q \in Names, p # q, Valid(p), Valid(q),
         NEW r \in {p, Controller[p], CRD, Def}
  PROVE  r # q /\ r # Controller[q]
<1>1. p # Controller[q] /\ q # Controller[p]
  BY DEF Valid
<1>2. Controller[p] # Controller[q]
  BY ControllerAssumption
<1>3. \A x \in Names : CRD # x /\ Def # x /\ CRD # Controller[x] /\ Def # Controller[x]
  BY SharedAssumption
<1>4. QED
  BY <1>1, <1>2, <1>3

\* Writing one release of p keeps those of the other pools.
LEMMA StatusApart ==
  ASSUME TypeOK, NEW p \in Names, Valid(p), NEW s,
         NEW r \in {p, Controller[p], CRD, Def},
         status' = [status EXCEPT ![r] = s]
  PROVE  \A q \in Names \ {p} :
           Valid(q) => /\ status'[q] = status[q]
                       /\ status'[Controller[q]] = status[Controller[q]]
<1> SUFFICES ASSUME NEW q \in Names \ {p}, Valid(q)
             PROVE  /\ status'[q] = status[q]
                    /\ status'[Controller[q]] = status[Controller[q]]
  OBVIOUS
<1>1. r # q /\ r # Controller[q]
  BY Apart
<1>2. q \in Releases /\ Controller[q] \in Releases
  BY DEF Releases
<1>3. QED
  BY <1>1, <1>2 DEF TypeOK

LEMMA Others ==
  ASSUME NEW p \in Names, NEW q \in Names \ {p}, OthersSame(p), PoolOk(q)
  PROVE  PoolOk(q)'
<1>1. CASE Valid(q)
  BY <1>1 DEF OthersSame, PoolOk, PoolInv, StepInv, CleanInv, Steps, Valid
<1>2. CASE ~Valid(q)
  BY <1>2 DEF OthersSame, PoolOk, RefusedInv, Valid
<1>3. QED
  BY <1>1, <1>2

\* A command that is not idle has a name that was accepted.
LEMMA RunningIsValid ==
  ASSUME IInv, NEW p \in Names, pc[p] # "idle" \/ p \in busy
  PROVE  Valid(p) /\ PoolInv(p)
  BY DEF IInv, RefusedInv

\* The release a command works on is one of its own or a shared one.
LEMMA TargetOwn ==
  ASSUME NEW p \in Names
  PROVE  /\ Target(p) \in {p, Controller[p], CRD, Def}
         /\ Target(p) \in Releases
         /\ p \in Releases /\ Controller[p] \in Releases
  BY DEF Target, Releases, nodeControllerHelmReleaseName, nodeHelmReleaseName

LEMMA TargetCases ==
  ASSUME NEW p \in Names
  PROVE  /\ pc[p] = "crd" => Target(p) = CRD
         /\ pc[p] = "def" => Target(p) = Def
         /\ pc[p] = "controller" => Target(p) = Controller[p]
         /\ pc[p] = "nodes" => Target(p) = p
  BY DEF Target, nodeControllerHelmReleaseName, nodeHelmReleaseName

\* What has to be shown of a step on p that leaves batch-add alone.
LEMMA Local ==
  ASSUME IInv, NEW p \in Names, TypeOK', OthersSame(p), PoolOk(p)', BatchInv'
  PROVE  IInv'
<1> SUFFICES ASSUME NEW q \in Names
             PROVE  (IF Valid(q) THEN PoolInv(q) ELSE RefusedInv(q))'
  BY DEF IInv
<1>1. CASE q = p
  BY <1>1 DEF PoolOk
<1>2. CASE q # p
  <2>1. PoolOk(q)
    BY DEF IInv, PoolOk
  <2>2. PoolOk(q)'
    BY <1>2, <2>1, Others
  <2>3. QED
    BY <2>2 DEF PoolOk
<1>3. QED
  BY <1>1, <1>2

LEMMA BatchKept == IInv /\ UNCHANGED batch => BatchInv'
  BY DEF IInv, BatchInv

LEMMA InitIInv == Init => IInv
<1> SUFFICES ASSUME Init PROVE IInv
  OBVIOUS
<1>1. TypeOK
  BY BoundsAssumption DEF Init, TypeOK, Status, PcValues, Steps
<1>2. ASSUME NEW p \in Names PROVE PoolInv(p) /\ RefusedInv(p)
  <2>1. p \in Releases /\ Controller[p] \in Releases
    BY DEF Releases
  <2>2. QED
    BY <2>1 DEF Init, PoolInv, StepInv, CleanInv, RefusedInv
<1>3. BatchInv
  BY DEF Init, BatchInv
<1>4. QED
  BY <1>1, <1>2, <1>3 DEF IInv

-----------------------------------------------------------------------------
(* The steps of CreateNodepool.                                            *)

LEMMA CreateStep ==
  ASSUME IInv, NEW p \in Names, NEW n, Create(p, n)
  PROVE  /\ OthersSame(p)
         /\ PoolOk(p)'
         /\ pc' \in [Names -> PcValues]
         /\ outcome' \in [Names -> {"none", "added", "deleted", "error"}]
<1>1. pc[p] = "idle" /\ PoolOk(p) /\ TypeOK
  BY DEF IInv, PoolOk, Create
<1>2. OthersSame(p)
  BY <1>1 DEF OthersSame, Create, Goto, Return, TypeOK, ghosts
<1>3. CASE validate(p, n)
  <2>1. Valid(p) /\ PoolInv(p)
    BY <1>1, <1>3 DEF Valid, validate, PoolOk
  <2>2. pc'[p] = "get" /\ outcome'[p] = "none"
    BY <1>1, <1>3 DEF Create, Goto, TypeOK
  <2>3. PoolInv(p)'
    BY <1>1, <2>1, <2>2
       DEF Create, PoolInv, StepInv, CleanInv, ghosts, Steps
  <2>4. QED
    BY <1>1, <1>2, <1>3, <2>1, <2>3
       DEF PoolOk, Valid, Create, Goto, TypeOK, PcValues
<1>4. CASE ~validate(p, n)
  <2>1. pc'[p] = "idle" /\ outcome'[p] = "error"
    BY <1>1, <1>4 DEF Create, Return, Goto, TypeOK
  <2>2. Valid(p) => PoolInv(p)'
    BY <1>1, <2>1 DEF Create, PoolOk, PoolInv, StepInv, CleanInv, ghosts, Steps
  <2>3. ~Valid(p) => RefusedInv(p)'
    BY <1>1, <2>1 DEF Create, PoolOk, RefusedInv
  <2>4. QED
    BY <1>1, <1>2, <1>4, <2>2, <2>3
       DEF PoolOk, Valid, Create, Return, Goto, TypeOK, PcValues
<1>5. QED
  BY <1>3, <1>4

LEMMA AddStep == ASSUME IInv, NEW p \in Names, Add(p) PROVE IInv'
<1>1. PICK n \in 0..1 : Create(p, n)
  BY DEF Add
<1>2. TypeOK'
  BY <1>1, CreateStep DEF IInv, TypeOK, Add, Create, ghosts
<1>3. QED
  BY <1>1, <1>2, CreateStep, BatchKept, Local DEF Add

LEMMA GetFoundStep == ASSUME IInv, NEW p \in Names, GetFound(p) PROVE IInv'
<1>1. Valid(p) /\ PoolInv(p) /\ TypeOK /\ pc[p] = "get"
  BY RunningIsValid DEF GetFound, IInv
<1>2. pc'[p] = "idle" /\ outcome'[p] = "error"
  BY <1>1 DEF GetFound, Return, Goto, TypeOK
<1>3. TypeOK'
  BY <1>1 DEF TypeOK, GetFound, Return, Goto, ghosts, PcValues
<1>4. OthersSame(p)
  BY <1>1 DEF OthersSame, GetFound, Return, Goto, TypeOK, ghosts
<1>5. PoolInv(p)'
  BY <1>1, <1>2 DEF GetFound, PoolInv, StepInv, CleanInv, ghosts, Steps
<1>6. QED
  BY <1>1, <1>3, <1>4, <1>5, BatchKept, Local DEF PoolOk, Valid, GetFound

LEMMA GetErrorStep == ASSUME IInv, NEW p \in Names, GetError(p) PROVE IInv'
<1>1. Valid(p) /\ PoolInv(p) /\ TypeOK /\ pc[p] = "get"
  BY RunningIsValid DEF GetError, IInv
<1>2. pc'[p] = "crd"
  BY <1>1 DEF GetError, Goto, TypeOK
<1>3. TypeOK'
  BY <1>1 DEF TypeOK, GetError, Goto, PcValues, Steps
<1>4. OthersSame(p)
  BY <1>1 DEF OthersSame, GetError, Goto, TypeOK
<1>5. p \notin blind' => status[p] = "absent"
  BY DEF GetError, nodeHelmReleaseName
<1>6. /\ p \notin dirty' => p \notin dirty /\ p \notin blind'
      /\ p \in blind' => p \in dirty'
  BY <1>1 DEF GetError, PoolInv
<1>7. PoolInv(p)'
  BY <1>1, <1>2, <1>5, <1>6 DEF GetError, PoolInv, StepInv, CleanInv, Steps
<1>8. QED
  BY <1>1, <1>3, <1>4, <1>7, BatchKept, Local DEF PoolOk, Valid, GetError

LEMMA DeployBeginStep == ASSUME IInv, NEW p \in Names, DeployBegin(p) PROVE IInv'
<1>1. Valid(p) /\ PoolInv(p) /\ TypeOK /\ pc[p] \in Steps /\ p \notin busy
  BY RunningIsValid DEF DeployBegin, IInv, Steps
<1>2. p \in busy' /\ was'[p] = status[Target(p)] /\ status'[Target(p)] = "pending"
  BY <1>1, TargetOwn DEF DeployBegin, TypeOK
<1>3. TypeOK'
  BY <1>1, TargetOwn DEF TypeOK, DeployBegin, ghosts, Status
<1>4. OthersSame(p)
  <2>1. \A q \in Names \ {p} :
           Valid(q) => /\ status'[q] = status[q]
                       /\ status'[Controller[q]] = status[Controller[q]]
    BY <1>1, TargetOwn, StatusApart, Zenon DEF DeployBegin
  <2>2. QED
    BY <1>1, <2>1 DEF OthersSame, DeployBegin, TypeOK, ghosts
<1>5. \A r \in Releases : r # Target(p) => status'[r] = status[r]
  BY <1>1 DEF DeployBegin, TypeOK
<1>6. p # Controller[p] /\ p \notin {CRD, Def} /\ Controller[p] \notin {CRD, Def}
  BY SharedAssumption
<1>7. PoolInv(p)'
  <2>1. CASE pc[p] \in {"crd", "def"}
    <3>1. Target(p) \in {CRD, Def}
      BY <2>1, TargetCases
    <3>2. status'[p] = status[p] /\ status'[Controller[p]] = status[Controller[p]]
      BY <1>5, <1>6, <3>1, TargetOwn
    <3>3. QED
      BY <1>1, <2>1, <3>2 DEF DeployBegin, PoolInv, StepInv, CleanInv, ghosts, Steps
  <2>2. CASE pc[p] = "controller"
    <3>1. status'[p] = status[p] /\ was'[p] = status[Controller[p]]
      BY <1>2, <1>5, <1>6, <2>2, TargetCases, TargetOwn
    <3>2. QED
      BY <1>1, <1>2, <2>2, <3>1
      DEF DeployBegin, PoolInv, StepInv, CleanInv, ghosts, Steps
  <2>3. CASE pc[p] = "nodes"
    <3>1. /\ status'[Controller[p]] = status[Controller[p]]
          /\ was'[p] = status[p] /\ status'[p] = "pending"
      BY <1>2, <1>5, <1>6, <2>3, TargetCases, TargetOwn
    <3>2. QED
      BY <1>1, <1>2, <2>3, <3>1
      DEF DeployBegin, PoolInv, StepInv, CleanInv, ghosts, Steps
  <2>4. QED
    BY <1>1, <2>1, <2>2, <2>3 DEF Steps
<1>8. QED
  BY <1>1, <1>3, <1>4, <1>7, BatchKept, Local DEF PoolOk, Valid, DeployBegin

LEMMA DeployRefusedStep ==
  ASSUME IInv, NEW p \in Names, DeployRefused(p) PROVE IInv'
<1>1. Valid(p) /\ PoolInv(p) /\ TypeOK /\ pc[p] \in Steps /\ p \notin busy
  BY RunningIsValid DEF DeployRefused, IInv, Steps
<1>2. TypeOK'
  BY <1>1 DEF TypeOK, DeployRefused, Fail, Return, Goto, ghosts, PcValues, Steps
<1>3. OthersSame(p)
  BY <1>1 DEF OthersSame, DeployRefused, Fail, Return, Goto, TypeOK, ghosts
<1>4. /\ pc[p] = "nodes" => pc'[p] = "cleanup"
      /\ pc[p] # "nodes" => pc'[p] = "idle" /\ outcome'[p] = "error"
  BY <1>1 DEF DeployRefused, Fail, Return, Goto, TypeOK
<1>5. PoolInv(p)'
  BY <1>1, <1>4 DEF DeployRefused, PoolInv, StepInv, CleanInv, ghosts, Steps
<1>6. QED
  BY <1>1, <1>2, <1>3, <1>5, BatchKept, Local DEF PoolOk, Valid, DeployRefused

LEMMA DeployDoneStep == ASSUME IInv, NEW p \in Names, DeployDone(p) PROVE IInv'
<1>1. Valid(p) /\ PoolInv(p) /\ TypeOK /\ p \in busy
  BY RunningIsValid DEF DeployDone, IInv
<1>2. pc[p] \in Steps
  BY <1>1 DEF PoolInv
<1>3. /\ pc[p] = "crd" => pc'[p] = "def"
      /\ pc[p] = "def" => pc'[p] = "controller"
      /\ pc[p] = "controller" => pc'[p] = "nodes"
      /\ pc[p] = "nodes" => pc'[p] = "idle" /\ outcome'[p] = "added"
      /\ pc' = [pc EXCEPT ![p] = pc'[p]]
      /\ outcome' = [outcome EXCEPT ![p] = outcome'[p]]
      /\ outcome'[p] \in {"none", "added", "deleted", "error"}
  BY <1>1, <1>2 DEF DeployDone, After, Return, Goto, TypeOK, Steps
<1>4. TypeOK'
  BY <1>1, <1>2, <1>3, TargetOwn
     DEF TypeOK, DeployDone, ghosts, PcValues, Steps, Status
<1>5. OthersSame(p)
  <2>1. \A q \in Names \ {p} :
           Valid(q) => /\ status'[q] = status[q]
                       /\ status'[Controller[q]] = status[Controller[q]]
    BY <1>1, TargetOwn, StatusApart, Zenon DEF DeployDone
  <2>2. QED
    BY <1>1, <1>3, <2>1 DEF OthersSame, DeployDone, TypeOK, ghosts
<1>6. /\ \A r \in Releases : r # Target(p) => status'[r] = status[r]
      /\ status'[Target(p)] = "deployed"
      /\ p \notin busy'
  BY <1>1, TargetOwn DEF DeployDone, TypeOK
<1>7. p # Controller[p] /\ p \notin {CRD, Def} /\ Controller[p] \notin {CRD, Def}
  BY SharedAssumption
<1>8. PoolInv(p)'
  <2>1. CASE pc[p] \in {"crd", "def"}
    <3>1. status'[p] = status[p] /\ status'[Controller[p]] = status[Controller[p]]
      BY <1>6, <1>7, <2>1, TargetCases, TargetOwn
    <3>2. QED
      BY <1>1, <1>3, <1>6, <2>1, <3>1
         DEF DeployDone, PoolInv, StepInv, CleanInv, ghosts, Steps
  <2>2. CASE pc[p] = "controller"
    <3>1. status'[p] = status[p] /\ status'[Controller[p]] = "deployed"
      BY <1>6, <1>7, <2>2, TargetCases, TargetOwn
    <3>2. QED
      BY <1>1, <1>3, <1>6, <2>2, <3>1
         DEF DeployDone, PoolInv, StepInv, CleanInv, ghosts, Steps
  <2>3. CASE pc[p] = "nodes"
    <3>1. /\ status'[Controller[p]] = status[Controller[p]]
          /\ status'[p] = "deployed"
      BY <1>6, <1>7, <2>3, TargetCases, TargetOwn
    <3>2. QED
      BY <1>1, <1>3, <1>6, <2>3, <3>1
         DEF DeployDone, PoolInv, StepInv, CleanInv, ghosts, Steps
  <2>4. QED
    BY <1>2, <2>1, <2>2, <2>3 DEF Steps
<1>9. QED
  BY <1>1, <1>4, <1>5, <1>8, BatchKept, Local DEF PoolOk, Valid, DeployDone

LEMMA DeployFailedStep ==
  ASSUME IInv, NEW p \in Names, DeployFailed(p) PROVE IInv'
<1>1. Valid(p) /\ PoolInv(p) /\ TypeOK /\ p \in busy
  BY RunningIsValid DEF DeployFailed, IInv
<1>2. pc[p] \in Steps
  BY <1>1 DEF PoolInv
<1>3. PICK s \in {was[p], "failed"} :
        /\ status' = [status EXCEPT ![Target(p)] = s]
        /\ dirty' = IF s = was[p] THEN dirty ELSE dirty \cup {p}
  BY Zenon DEF DeployFailed
<1>4. /\ pc[p] = "nodes" => pc'[p] = "cleanup"
      /\ pc[p] # "nodes" => pc'[p] = "idle" /\ outcome'[p] = "error"
  BY <1>1 DEF DeployFailed, Fail, Return, Goto, TypeOK
<1>5. TypeOK'
  <2>1. s \in Status
    BY <1>1 DEF TypeOK, Status
  <2>2. status' \in [Releases -> Status] /\ dirty' \subseteq Names
    BY <1>1, <1>3, <2>1, TargetOwn DEF TypeOK
  <2>3. /\ pc' \in [Names -> PcValues]
        /\ outcome' \in [Names -> {"none", "added", "deleted", "error"}]
    BY <1>1 DEF TypeOK, DeployFailed, Fail, Return, Goto, PcValues
  <2>4. busy' \subseteq Names /\ was' \in [Names -> Status]
    BY <1>1 DEF TypeOK, DeployFailed, Status
  <2>5. QED
    BY <1>1, <2>2, <2>3, <2>4 DEF TypeOK, DeployFailed
<1>6. OthersSame(p)
  <2>1. \A q \in Names \ {p} :
           Valid(q) => /\ status'[q] = status[q]
                       /\ status'[Controller[q]] = status[Controller[q]]
    BY <1>1, <1>3, TargetOwn, StatusApart, Zenon
  <2>2. QED
    BY <1>1, <1>3, <2>1 DEF OthersSame, DeployFailed, Fail, Return, Goto, TypeOK
<1>7. /\ \A r \in Releases : r # Target(p) => status'[r] = status[r]
      /\ status'[Target(p)] = s
      /\ p \notin busy'
      /\ p \notin dirty' => s = was[p] /\ p \notin dirty
      /\ p \in dirty => p \in dirty'
  BY <1>1, <1>3, TargetOwn DEF DeployFailed, TypeOK
<1>8. p # Controller[p] /\ p \notin {CRD, Def} /\ Controller[p] \notin {CRD, Def}
  BY SharedAssumption
<1>9. PoolInv(p)'
  <2>1. CASE pc[p] \in {"crd", "def"}
    <3>1. status'[p] = status[p] /\ status'[Controller[p]] = status[Controller[p]]
      BY <1>7, <1>8, <2>1, TargetCases, TargetOwn
    <3>2. QED
      BY <1>1, <1>4, <1>7, <2>1, <3>1
         DEF DeployFailed, PoolInv, StepInv, CleanInv, Steps
  <2>2. CASE pc[p] = "controller"
    <3>1. status'[p] = status[p] /\ status'[Controller[p]] = s
      BY <1>7, <1>8, <2>2, TargetCases, TargetOwn
    <3>2. QED
      BY <1>1, <1>4, <1>7, <2>2, <3>1
         DEF DeployFailed, PoolInv, StepInv, CleanInv, Steps
  <2>3. CASE pc[p] = "nodes"
    <3>1. status'[Controller[p]] = status[Controller[p]] /\ status'[p] = s
      BY <1>7, <1>8, <2>3, TargetCases, TargetOwn
    <3>2. QED
      BY <1>1, <1>4, <1>7, <2>3, <3>1
         DEF DeployFailed, PoolInv, StepInv, CleanInv, Steps
  <2>4. QED
    BY <1>2, <2>1, <2>2, <2>3 DEF Steps
<1>10. QED
  BY <1>1, <1>5, <1>6, <1>9, BatchKept, Local DEF PoolOk, Valid, DeployFailed

LEMMA CleanupStep == ASSUME IInv, NEW p \in Names, Cleanup(p) PROVE IInv'
<1>1. Valid(p) /\ PoolInv(p) /\ TypeOK /\ pc[p] = "cleanup" /\ p \notin busy
  BY RunningIsValid DEF Cleanup, IInv, PoolInv, Steps
<1>2. pc'[p] = "idle" /\ outcome'[p] = "error"
  BY <1>1 DEF Cleanup, Return, Goto, TypeOK
<1>3. PICK s \in Status :
        /\ status' = [status EXCEPT ![Controller[p]] = s]
        /\ \/ s = "absent" /\ dirty' = dirty
           \/ dirty' = dirty \cup {p}
  BY <1>1, TargetOwn
     DEF Cleanup, Uninstalled, UninstallFailed, nodeControllerHelmReleaseName,
         TypeOK, Status
<1>4. TypeOK'
  BY <1>1, <1>3, TargetOwn DEF TypeOK, Cleanup, Return, Goto, PcValues
<1>5. OthersSame(p)
  <2>1. \A q \in Names \ {p} :
           Valid(q) => /\ status'[q] = status[q]
                       /\ status'[Controller[q]] = status[Controller[q]]
    BY <1>1, <1>3, StatusApart, Zenon
  <2>2. QED
    BY <1>1, <1>3, <2>1 DEF OthersSame, Cleanup, Return, Goto, TypeOK
<1>6. status'[p] = status[p] /\ status'[Controller[p]] = s
  BY <1>1, <1>3, TargetOwn, SharedAssumption DEF TypeOK
<1>7. PoolInv(p)'
  BY <1>1, <1>2, <1>3, <1>6 DEF Cleanup, PoolInv, StepInv, CleanInv, Steps
<1>8. QED
  BY <1>1, <1>4, <1>5, <1>7, BatchKept, Local DEF PoolOk, Valid, Cleanup

-----------------------------------------------------------------------------
(* The steps of DeleteNodepool, and the kill.                              *)

LEMMA DeleteNodepoolStep ==
  ASSUME IInv, NEW p \in Names, DeleteNodepool(p) PROVE IInv'
<1>1. pc[p] = "idle" /\ PoolOk(p) /\ TypeOK
  BY DEF IInv, PoolOk, DeleteNodepool
<1>2. TypeOK'
  BY <1>1 DEF TypeOK, DeleteNodepool, Return, Goto, ghosts, PcValues
<1>3. OthersSame(p)
  BY <1>1 DEF OthersSame, DeleteNodepool, Goto, Return, TypeOK, ghosts
<1>4. CASE validate(p, 1)
  <2>1. Valid(p) /\ PoolInv(p)
    BY <1>1, <1>4 DEF Valid, validate, PoolOk
  <2>2. pc'[p] = "delNodes" /\ outcome'[p] = "none"
    BY <1>1, <1>4 DEF DeleteNodepool, Goto, TypeOK
  <2>3. PoolInv(p)'
    BY <1>1, <2>1, <2>2
       DEF DeleteNodepool, PoolInv, StepInv, CleanInv, ghosts, Steps
  <2>4. QED
    BY <1>2, <1>3, <2>1, <2>3, BatchKept, Local DEF PoolOk, Valid, DeleteNodepool
<1>5. CASE ~validate(p, 1)
  <2>1. pc'[p] = "idle" /\ outcome'[p] = "error"
    BY <1>1, <1>5 DEF DeleteNodepool, Return, Goto, TypeOK
  <2>2. Valid(p) => PoolInv(p)'
    BY <1>1, <2>1
       DEF DeleteNodepool, PoolOk, PoolInv, StepInv, CleanInv, ghosts, Steps
  <2>3. ~Valid(p) => RefusedInv(p)'
    BY <1>1, <2>1 DEF DeleteNodepool, PoolOk, RefusedInv
  <2>4. QED
    BY <1>2, <1>3, <2>2, <2>3, BatchKept, Local DEF PoolOk, Valid, DeleteNodepool
<1>6. QED
  BY <1>4, <1>5

LEMMA DeleteNodesStep == ASSUME IInv, NEW p \in Names, DeleteNodes(p) PROVE IInv'
<1>1. Valid(p) /\ PoolInv(p) /\ TypeOK /\ pc[p] = "delNodes" /\ p \notin busy
  BY RunningIsValid DEF DeleteNodes, IInv, PoolInv, Steps
<1>2. status' = [status EXCEPT ![p] = "absent"]
  BY DEF DeleteNodes, Uninstalled, nodeHelmReleaseName
<1>3. TypeOK'
  BY <1>1, <1>2, TargetOwn DEF TypeOK, DeleteNodes, Goto, PcValues, Status, ghosts
<1>4. OthersSame(p)
  <2>1. \A q \in Names \ {p} :
           Valid(q) => /\ status'[q] = status[q]
                       /\ status'[Controller[q]] = status[Controller[q]]
    BY <1>1, <1>2, StatusApart, Zenon
  <2>2. QED
    BY <1>1, <2>1 DEF OthersSame, DeleteNodes, Goto, TypeOK, ghosts
<1>5. pc'[p] = "delController" /\ status'[p] = "absent"
  BY <1>1, <1>2, TargetOwn DEF DeleteNodes, Goto, TypeOK
<1>6. PoolInv(p)'
  BY <1>1, <1>5 DEF DeleteNodes, PoolInv, StepInv, CleanInv, Steps, ghosts
<1>7. QED
  BY <1>1, <1>3, <1>4, <1>6, BatchKept, Local DEF PoolOk, Valid, DeleteNodes

LEMMA DeleteControllerStep ==
  ASSUME IInv, NEW p \in Names, DeleteController(p) PROVE IInv'
<1>1. /\ Valid(p) /\ PoolInv(p) /\ TypeOK /\ pc[p] = "delController"
      /\ p \notin busy /\ status[p] = "absent"
  BY RunningIsValid DEF DeleteController, IInv, PoolInv, Steps
<1>2. status' = [status EXCEPT ![Controller[p]] = "absent"]
  BY DEF DeleteController, Uninstalled, nodeControllerHelmReleaseName
<1>3. TypeOK'
  BY <1>1, <1>2, TargetOwn
     DEF TypeOK, DeleteController, Return, Goto, PcValues, Status
<1>4. OthersSame(p)
  <2>1. \A q \in Names \ {p} :
           Valid(q) => /\ status'[q] = status[q]
                       /\ status'[Controller[q]] = status[Controller[q]]
    BY <1>1, <1>2, StatusApart, Zenon
  <2>2. QED
    BY <1>1, <2>1 DEF OthersSame, DeleteController, Return, Goto, TypeOK
<1>5. /\ pc'[p] = "idle" /\ outcome'[p] = "deleted"
      /\ status'[p] = "absent" /\ status'[Controller[p]] = "absent"
  BY <1>1, <1>2, TargetOwn, SharedAssumption
  DEF DeleteController, Return, Goto, TypeOK
<1>6. PoolInv(p)'
  BY <1>1, <1>5, Zenon DEF DeleteController, PoolInv, StepInv, CleanInv, Steps
<1>7. QED
  BY <1>1, <1>3, <1>4, <1>6, BatchKept, Local DEF PoolOk, Valid, DeleteController

\* A failed uninstall leaves the release as it was or failed; the pool is
\* dirty from then on.
LEMMA DeleteFailedStep ==
  ASSUME IInv, NEW p \in Names, DeleteFailed(p) PROVE IInv'
<1>1. /\ Valid(p) /\ PoolInv(p) /\ TypeOK /\ p \notin busy
      /\ pc[p] \in {"delNodes", "delController"}
  BY RunningIsValid DEF DeleteFailed, IInv, PoolInv, Steps
<1>2. PICK r \in {p, Controller[p]} :
        /\ r = IF pc[p] = "delNodes" THEN p ELSE Controller[p]
        /\ UninstallFailed(p, r)
  BY DEF DeleteFailed, nodeHelmReleaseName, nodeControllerHelmReleaseName
<1>3. PICK s \in {status[r], "failed"} : status' = [status EXCEPT ![r] = s]
  BY <1>2, Zenon DEF UninstallFailed
<1>4. s \in Status /\ r \in Releases
  BY <1>1, <1>2, <1>3, TargetOwn DEF TypeOK, Status
<1>5. TypeOK'
  BY <1>1, <1>2, <1>3, <1>4
     DEF TypeOK, DeleteFailed, UninstallFailed, Return, Goto, PcValues
<1>6. OthersSame(p)
  <2>1. \A q \in Names \ {p} :
           Valid(q) => /\ status'[q] = status[q]
                       /\ status'[Controller[q]] = status[Controller[q]]
    BY <1>1, <1>3, StatusApart, Zenon
  <2>2. dirty' = dirty \cup {p}
    BY <1>2 DEF UninstallFailed
  <2>3. QED
    BY <1>1, <2>1, <2>2 DEF OthersSame, DeleteFailed, Return, Goto, TypeOK
<1>7. /\ pc'[p] = "idle" /\ outcome'[p] = "error" /\ p \in dirty'
      /\ pc[p] = "delNodes" => /\ status'[p] \in {status[p], "failed"}
                               /\ status'[Controller[p]] = status[Controller[p]]
      /\ pc[p] = "delController" => status'[p] = status[p]
  BY <1>1, <1>2, <1>3, <1>4, TargetOwn, SharedAssumption
     DEF DeleteFailed, UninstallFailed, Return, Goto, TypeOK
<1>8. PoolInv(p)'
  BY <1>1, <1>7, Zenon DEF DeleteFailed, PoolInv, StepInv, CleanInv, Steps
<1>9. QED
  BY <1>1, <1>5, <1>6, <1>8, BatchKept, Local DEF PoolOk, Valid, DeleteFailed

LEMMA KillStep == ASSUME IInv, NEW p \in Names, Kill(p) PROVE IInv'
<1>1. Valid(p) /\ PoolInv(p) /\ TypeOK
  BY RunningIsValid DEF Kill, IInv
<1>2. TypeOK'
  BY <1>1 DEF TypeOK, Kill, Return, Goto, PcValues, Status
<1>3. OthersSame(p)
  BY <1>1 DEF OthersSame, Kill, Return, Goto, TypeOK
<1>4. /\ pc'[p] = "idle" /\ outcome'[p] = "error"
      /\ p \in dirty' /\ p \notin busy'
  BY <1>1 DEF Kill, Return, Goto, TypeOK
<1>5. PoolInv(p)'
  BY <1>1, <1>4 DEF Kill, PoolInv, StepInv, CleanInv, Steps
<1>6. QED
  BY <1>1, <1>2, <1>3, <1>5, BatchKept, Local, Zenon DEF PoolOk, Valid, Kill

-----------------------------------------------------------------------------
(* The steps of batch-add.                                                 *)

\* The pool of a batch is one of the names.
LEMMA BatchPoolNamed ==
  ASSUME IInv, batch.phase \in {"next", "wait"}, batch.i < batch.total
  PROVE  BatchPool[batch.i \div batch.size] \in Names
<1>1. /\ batch.i \in Nat /\ batch.size \in Nat /\ batch.total \in Nat
      /\ batch.size > 0
      /\ <<batch.total, batch.size>> \in Requests
  BY DEF IInv, TypeOK, BatchInv
<1>2. batch.i \div batch.size \in 0..batch.total
  BY <1>1
<1>3. 0..batch.total \subseteq DOMAIN BatchPool
  BY <1>1, BoundsAssumption
<1>4. QED
  BY <1>2, <1>3, BoundsAssumption

LEMMA BatchAddStep == ASSUME IInv, BatchAdd PROVE IInv'
<1>1. PICK r \in Requests :
        batch' = [total |-> r[1], size |-> r[2], i |-> 0, made |-> 0,
                  phase |-> IF r[2] > 0 THEN "next" ELSE "error"]
  BY DEF BatchAdd
<1>2. r[1] \in Nat /\ r[2] \in Nat /\ r = <<r[1], r[2]>>
  BY BoundsAssumption
<1>3. TypeOK'
  BY <1>1, <1>2 DEF IInv, TypeOK, BatchAdd, ghosts
<1>4. BatchInv'
  BY <1>1, <1>2 DEF BatchInv
<1>5. ASSUME NEW p \in Names PROVE PoolOk(p)'
  BY DEF IInv, PoolOk, PoolInv, StepInv, CleanInv, RefusedInv, Valid, BatchAdd, ghosts
<1>6. QED
  BY <1>3, <1>4, <1>5 DEF IInv, PoolOk

LEMMA BatchNextStep == ASSUME IInv, BatchNext PROVE IInv'
<1> DEFINE p == BatchPool[batch.i \div batch.size]
<1>1. p \in Names
  BY BatchPoolNamed DEF BatchNext
<1>2. Create(p, currentBatchSize) /\ batch' = [batch EXCEPT !.phase = "wait"]
  BY DEF BatchNext
<1> HIDE DEF p
<1>3. TypeOK'
  BY <1>1, <1>2, CreateStep DEF IInv, TypeOK, Create, ghosts
<1>4. BatchInv'
  BY <1>2 DEF IInv, TypeOK, BatchInv, BatchNext
<1>5. QED
  BY <1>1, <1>2, <1>3, <1>4, CreateStep, Local

LEMMA BatchReturnStep == ASSUME IInv, BatchReturn PROVE IInv'
<1>1. /\ batch.i \in Nat /\ batch.size \in Nat /\ batch.total \in Nat
      /\ batch.size > 0 /\ batch.i < batch.total /\ batch.made = batch.i
      /\ <<batch.total, batch.size>> \in Requests
  BY DEF IInv, TypeOK, BatchInv, BatchReturn
<1>2. currentBatchSize \in Nat
  BY <1>1 DEF currentBatchSize
<1>3. \/ batch' = [batch EXCEPT !.made = @ + currentBatchSize,
                                !.i = @ + batch.size, !.phase = "next"]
      \/ batch' = [batch EXCEPT !.phase = "error"]
  BY DEF BatchReturn
<1>4. ASSUME NEW p \in Names PROVE PoolOk(p)'
  BY
  DEF IInv, PoolOk, PoolInv, StepInv, CleanInv, RefusedInv, Valid, BatchReturn, ghosts
<1>5. CASE batch' = [batch EXCEPT !.made = @ + currentBatchSize,
                                  !.i = @ + batch.size, !.phase = "next"]
  <2>1. /\ batch'.total = batch.total /\ batch'.size = batch.size
        /\ batch'.i = batch.i + batch.size /\ batch'.phase = "next"
        /\ batch'.made = batch.i + currentBatchSize
    BY <1>1, <1>5 DEF IInv, TypeOK
  <2>2. batch'.made = IF batch'.i < batch'.total THEN batch'.i ELSE batch'.total
    BY <1>1, <2>1 DEF currentBatchSize
  <2>3. BatchInv'
    BY <1>1, <2>1, <2>2 DEF BatchInv
  <2>4. batch' \in [total : Nat, size : Nat, i : Nat, made : Nat,
                    phase : {"off", "next", "wait", "done", "error"}]
    <3>1. batch' = [total |-> batch.total, size |-> batch.size,
                    i |-> batch.i + batch.size,
                    made |-> batch.i + currentBatchSize, phase |-> "next"]
      BY <1>1, <1>5, Zenon DEF IInv, TypeOK
    <3>2. batch.i + batch.size \in Nat /\ batch.i + currentBatchSize \in Nat
      BY <1>1, <1>2
    <3>3. QED
      BY <1>1, <3>1, <3>2
  <2>5. TypeOK'
    BY <2>4 DEF IInv, TypeOK, BatchReturn, ghosts
  <2>6. QED
    BY <1>4, <2>3, <2>5 DEF IInv, PoolOk
<1>6. CASE batch' = [batch EXCEPT !.phase = "error"]
  <2>1. TypeOK'
    BY <1>6 DEF IInv, TypeOK, BatchReturn, ghosts
  <2>2. BatchInv'
    BY <1>6 DEF IInv, TypeOK, BatchInv
  <2>3. QED
    BY <1>4, <2>1, <2>2 DEF IInv, PoolOk
<1>7. QED
  BY <1>3, <1>5, <1>6

LEMMA BatchDoneStep == ASSUME IInv, BatchDone PROVE IInv'
<1>1. TypeOK' /\ BatchInv'
  BY DEF IInv, TypeOK, BatchInv, BatchDone, ghosts
<1>2. ASSUME NEW p \in Names PROVE PoolOk(p)'
  BY
  DEF IInv, PoolOk, PoolInv, StepInv, CleanInv, RefusedInv, Valid, BatchDone, ghosts
<1>3. QED
  BY <1>1, <1>2 DEF IInv, PoolOk

-----------------------------------------------------------------------------
(* Every step keeps the invariant.                                         *)

LEMMA NextIInv == IInv /\ [Next]_vars => IInv'
<1> SUFFICES ASSUME IInv, [Next]_vars PROVE IInv'
  OBVIOUS
<1>1. ASSUME NEW p \in Names, CreateNodepool(p) PROVE IInv'
  BY <1>1, GetFoundStep, GetErrorStep, DeployBeginStep, DeployRefusedStep,
     DeployDoneStep, DeployFailedStep, CleanupStep DEF CreateNodepool
<1>2. ASSUME NEW p \in Names,
             Add(p) \/ DeleteNodepool(p) \/ DeleteNodes(p)
               \/ DeleteController(p) \/ DeleteFailed(p) \/ Kill(p)
      PROVE  IInv'
  BY <1>2, AddStep, DeleteNodepoolStep, DeleteNodesStep, DeleteControllerStep,
     DeleteFailedStep, KillStep
<1>3. CASE BatchAdd \/ BatchNext \/ BatchReturn \/ BatchDone
  BY <1>3, BatchAddStep, BatchNextStep, BatchReturnStep, BatchDoneStep
<1>4. CASE UNCHANGED vars
  <2>1. TypeOK' /\ BatchInv'
    BY <1>4 DEF IInv, TypeOK, BatchInv, vars
  <2>2. ASSUME NEW p \in Names PROVE PoolOk(p)'
    BY <1>4 DEF IInv, PoolOk, PoolInv, StepInv, CleanInv, RefusedInv, Valid, vars
  <2>3. QED
    BY <2>1, <2>2 DEF IInv, PoolOk
<1>5. QED
  BY <1>1, <1>2, <1>3, <1>4 DEF Next

\* The invariant holds of every behaviour of the commands on the pools
\* (nodes_create.go, nodes_delete.go, nodepool.go).
THEOREM SpecIInv == Spec => []IInv
  BY InitIInv, NextIInv, PTL DEF Spec

\* The variables have their types.
THEOREM SpecTypeOK == Spec => []TypeOK
<1>1. IInv => TypeOK
  BY DEF IInv
<1>2. QED
  BY <1>1, SpecIInv, PTL

\* Nodes that are there or on their way have their controllers, for any
\* number of pools and commands, through every failure and kill: the order of
\* the releases in CreateNodepool and DeleteNodepool
\* (nodes_create.go:54-74, nodes_delete.go:30-38).
THEOREM SpecNodesHaveController == Spec => []NodesHaveController
<1>1. IInv => NodesHaveController
  BY DEF IInv, NodesHaveController, Valid, PoolInv, StepInv,
         nodeHelmReleaseName, nodeControllerHelmReleaseName
<1>2. QED
  BY <1>1, SpecIInv, PTL

\* Between commands a pool is complete or not there at all, unless something
\* was left half done: the clean-up of a failed CreateNodepool
\* (nodes_create.go:68-74).
THEOREM SpecAllOrNothing == Spec => []AllOrNothing
<1>1. IInv => AllOrNothing
  BY DEF IInv, AllOrNothing, Valid, PoolInv, CleanInv,
         nodeHelmReleaseName, nodeControllerHelmReleaseName
<1>2. QED
  BY <1>1, SpecIInv, PTL

\* A delete that reports success has removed both releases
\* (nodes_delete.go:30-40).
THEOREM SpecDeletedIsGone == Spec => []DeletedIsGone
<1>1. IInv => DeletedIsGone
  BY DEF IInv, DeletedIsGone, PoolInv, RefusedInv,
         nodeHelmReleaseName, nodeControllerHelmReleaseName
<1>2. QED
  BY <1>1, SpecIInv, PTL

\* batch-add makes exactly the nodes it was asked for, the last batch being
\* the rest, for any total and any batch size (nodepool.go:201-222).
THEOREM SpecBatchIsExact == Spec => []BatchIsExact
<1>1. IInv => BatchIsExact
  BY DEF IInv, BatchIsExact, BatchInv
<1>2. QED
  BY <1>1, SpecIInv, PTL

\* The list shows pools only, and of those that are complete or not there the
\* complete ones: AllOrNothing makes the one release ListNodepools looks at
\* stand for both (nodes_list.go:28-36).
THEOREM SpecListsPools == Spec => []ListsPools
<1>1. AllOrNothing => ListsPools
  <2>1. ListNodepools \subseteq Names
    BY LifecycleAssumption DEF ListNodepools, Releases
  <2>2. ASSUME AllOrNothing, NEW p \in Names \ (dirty \cup Lifecycle),
               pc[p] = "idle", \A q \in Names : p # Controller[q]
        PROVE  p \in ListNodepools
                 <=> status[nodeControllerHelmReleaseName(p)] = "deployed"
    <3>1. /\ status[p] \in {"absent", "deployed"}
          /\ status[Controller[p]] = status[p]
      BY <2>2 DEF AllOrNothing, nodeHelmReleaseName,
                  nodeControllerHelmReleaseName
    <3>2. p \in Releases
      BY DEF Releases
    <3>3. QED
      BY <2>2, <3>1, <3>2 DEF ListNodepools, nodeControllerHelmReleaseName
  <2>3. QED
    BY <2>1, <2>2 DEF ListsPools
<1>2. QED
  BY <1>1, SpecAllOrNothing, PTL
=============================================================================
