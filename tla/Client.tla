------------------------------- MODULE Client -------------------------------
(***************************************************************************)
(* The commands `kperf runnergroup run`, `status`, `result` and `delete`,  *)
(* given by several users at the same time: the helm release of the runner *)
(* group server, its pod, its namespace, and the port forward through      *)
(* which a command talks to the server.                                    *)
(*                                                                         *)
(* Helm, Kubernetes and the forwarding goroutine of client-go are          *)
(* external.  The specification of a run is named by its user.  It reaches *)
(* the server in a ConfigMap of the release, which the server reads when   *)
(* it starts; the pod itself is the same for every run, so that an upgrade *)
(* leaves it alone.                                                        *)
(***************************************************************************)
EXTENDS Naturals, FiniteSets

CONSTANTS
  Users,
  Commands,     \* the commands they give
  MaxCommands,  \* bound on the commands given
  MaxFaults,    \* bound on calls that fail for no reason of their own
  None

ASSUME BoundsAssumption == MaxCommands \in Nat /\ MaxFaults \in Nat

Releases == [by : Users, status : {"pending", "deployed", "failed"}]
ASSUME NoneAssumption == None \notin Users \cup Releases

\* "forever" is `result --wait` with a timeout of 0.
Waiting == {"wait", "forever"}
AllCommands == {"run", "delete", "status", "result"} \cup Waiting
ASSUME CommandsAssumption == Commands \subseteq AllCommands

VARIABLES
  cmd,      \* the command of each user
  pc,       \* where it is
  outcome,  \* how it ended
  release,  \* the helm release: whose specification, and its status
  was,      \* what each upgrade under way replaces
  pod,      \* the server: whose specification it runs, its phase and whether
            \* its summary is ready
  ns,       \* the namespace
  fwd,      \* the forwarding goroutine of each command
  held,     \* the commands whose portForwarder is set
  late,     \* the commands whose Start timed out
  alone,    \* the runs no other run overlapped, and whose Get had an answer
  servers,  \* the users whose run succeeded since the last delete began
  fresh,    \* the deletes since whose begin no run was past Get
  commands, faults

helm == <<release, was, pod, ns>>
forward == <<fwd, held, late>>
ghosts == <<alone, servers, fresh>>
bounds == <<commands, faults>>
vars == <<cmd, pc, outcome, helm, forward, ghosts, bounds>>

Release(u, s) == [by |-> u, status |-> s]
InRun == {"deploy", "install", "upgrade"}
PcValues == InRun \cup {"idle", "load", "get", "uninstall", "namespace",
                        "gone", "forward", "start", "http"}

NoPod == [of |-> None, phase |-> "none", ready |-> FALSE]

TypeOK ==
  /\ cmd \in [Users -> AllCommands \cup {"none"}]
  /\ pc \in [Users -> PcValues]
  /\ outcome \in [Users -> {"none", "ok", "error"}]
  /\ release \in Releases \cup {None} /\ was \in [Users -> Releases \cup {None}]
  /\ pod \in [of : Users \cup {None}, ready : BOOLEAN,
              phase : {"none", "running", "terminating"}]
  /\ ns \in {"none", "active", "terminating"}
  /\ fwd \in [Users -> {"none", "dialing", "open", "failed", "lost", "closed"}]
  /\ {held, late, alone, servers, fresh} \subseteq SUBSET Users
  /\ commands \in 0..MaxCommands /\ faults \in 0..MaxFaults

Init ==
  /\ cmd = [u \in Users |-> "none"]
  /\ pc = [u \in Users |-> "idle"]
  /\ outcome = [u \in Users |-> "none"]
  /\ release = None /\ was = [u \in Users |-> None]
  /\ pod = NoPod /\ ns = "none"
  /\ fwd = [u \in Users |-> "none"]
  /\ held = {} /\ late = {} /\ alone = {} /\ servers = {} /\ fresh = {}
  /\ commands = 0 /\ faults = 0

Fault == faults < MaxFaults /\ faults' = faults + 1
Goto(u, label) == pc' = [pc EXCEPT ![u] = label]
Return(u, result) ==
  /\ Goto(u, "idle")
  /\ outcome' = [outcome EXCEPT ![u] = result]

\* A new process.
Command(u, c) ==
  /\ pc[u] = "idle" /\ commands < MaxCommands
  /\ commands' = commands + 1
  /\ cmd' = [cmd EXCEPT ![u] = c]
  /\ outcome' = [outcome EXCEPT ![u] = "none"]
  /\ Goto(u, CASE c = "run" -> "load" [] c = "delete" -> "uninstall"
               [] OTHER -> "forward")
  /\ fwd' = [fwd EXCEPT ![u] = "none"]
  /\ held' = held \ {u} /\ late' = late \ {u} /\ alone' = alone \ {u}
  /\ IF c = "delete" THEN /\ servers' = {}
                          /\ fresh' = IF \A v \in Users : pc[v] \notin InRun
                                        THEN fresh \cup {u} ELSE fresh \ {u}
                     ELSE fresh' = fresh \ {u} /\ UNCHANGED servers
  /\ UNCHANGED <<helm, faults>>

-----------------------------------------------------------------------------
(* run: CreateRunnerGroupServer.                                           *)

\* The flags are parsed and the one specification is read.
Load(u) ==
  /\ pc[u] = "load"
  /\ \/ Goto(u, "get") /\ UNCHANGED outcome
     \/ Return(u, "error")
  /\ UNCHANGED <<cmd, helm, forward, ghosts, bounds>>

PassGet(u, single) ==
  /\ Goto(u, "deploy")
  /\ alone' = IF single /\ \A v \in Users \ {u} : pc[v] \notin InRun
                THEN {u} ELSE {}
  /\ fresh' = {}
  /\ UNCHANGED <<cmd, outcome, helm, forward, servers, commands>>

GetIgnored(u) == pc[u] = "get" /\ PassGet(u, TRUE) /\ UNCHANGED faults

\* "runner group server already exists" in any status; no release is what the
\* code hopes for.
Get(u) ==
  /\ pc[u] = "get"
  /\ \/ /\ release # None
        /\ Return(u, "error")
        /\ UNCHANGED <<cmd, helm, forward, ghosts, commands>>
     \/ release = None /\ PassGet(u, TRUE)
  /\ UNCHANGED faults

\* Any other error of Get counts as no release too.
GetError(u) == pc[u] = "get" /\ Fault /\ PassGet(u, FALSE)

\* ReleaseCli.Deploy: install when there is no history, upgrade otherwise.
Deploy(u) ==
  /\ pc[u] = "deploy"
  /\ \/ /\ release = None /\ ns # "terminating"
        /\ Goto(u, "install")
        /\ ns' = "active" /\ UNCHANGED was
     \/ /\ release # None /\ release.status # "pending"
        /\ Goto(u, "upgrade")
        /\ was' = [was EXCEPT ![u] = release] /\ UNCHANGED ns
  /\ release' = Release(u, "pending")
  /\ UNCHANGED <<cmd, outcome, pod, forward, ghosts, bounds>>

\* Another helm operation is under way, the namespace terminates, or there is
\* a fault.
DeployRefused(u) ==
  /\ pc[u] = "deploy"
  /\ \/ /\ \/ release # None /\ release.status = "pending"
           \/ release = None /\ ns = "terminating"
        /\ UNCHANGED faults
     \/ Fault
  /\ Return(u, "error")
  /\ UNCHANGED <<cmd, helm, forward, ghosts, commands>>

\* Helm waits until the pod runs.
DeployDone(u) ==
  /\ pc[u] \in {"install", "upgrade"}
  /\ release # None /\ pod.phase = "running"
  /\ release' = Release(u, "deployed")
  /\ Return(u, "ok")
  /\ servers' = servers \cup {u}
  /\ was' = [was EXCEPT ![u] = None]
  /\ UNCHANGED <<cmd, pod, ns, forward, alone, fresh, bounds>>

\* Atomic: after a timeout an install is uninstalled and an upgrade rolled
\* back, unless that fails too.
DeployFailed(u) ==
  /\ pc[u] \in {"install", "upgrade"}
  /\ Return(u, "error")
  /\ \/ /\ UNCHANGED faults
        /\ release' = IF release = None THEN None
                      ELSE IF pc[u] = "upgrade" THEN was[u] ELSE None
        /\ pod' = IF pc[u] = "install" /\ pod.phase = "running"
                    THEN [pod EXCEPT !.phase = "terminating"] ELSE pod
     \/ /\ Fault
        /\ release' = IF release = None THEN None ELSE Release(u, "failed")
        /\ UNCHANGED pod
  /\ was' = [was EXCEPT ![u] = None]
  /\ UNCHANGED <<cmd, ns, forward, ghosts, commands>>

\* The pod of a release that is installed; its server reads the ConfigMap.
PodRuns ==
  /\ release # None /\ pod.phase = "none"
  /\ \E u \in Users : pc[u] = "install" /\ release.by = u
  /\ pod' = [of |-> release.by, phase |-> "running", ready |-> FALSE]
  /\ UNCHANGED <<cmd, pc, outcome, release, was, ns, forward, ghosts, bounds>>

\* The groups have ended and the server has built the summary.
SummaryReady ==
  /\ pod.phase = "running" /\ ~pod.ready
  /\ pod' = [pod EXCEPT !.ready = TRUE]
  /\ UNCHANGED <<cmd, pc, outcome, release, was, ns, forward, ghosts, bounds>>

-----------------------------------------------------------------------------
(* delete: DeleteRunnerGroupServer.                                        *)

UninstallOnly(u) ==
  /\ pc[u] = "uninstall"
  /\ release' = None
  /\ pod' = IF pod.phase = "running" THEN [pod EXCEPT !.phase = "terminating"]
                                     ELSE pod
  /\ Return(u, "ok")
  /\ UNCHANGED <<cmd, was, ns, forward, ghosts, bounds>>

\* DeleteCli.Delete: a release that is not there is no error, and the pod is
\* not waited for.
Uninstall(u) ==
  /\ pc[u] = "uninstall"
  /\ release' = None
  /\ pod' = IF pod.phase = "running" THEN [pod EXCEPT !.phase = "terminating"]
                                     ELSE pod
  /\ Goto(u, "namespace")
  /\ UNCHANGED <<cmd, outcome, was, ns, forward, ghosts, bounds>>

\* kubectl delete namespace --ignore-not-found.
DeleteNamespace(u) ==
  /\ pc[u] = "namespace"
  /\ ns' = IF ns = "active" THEN "terminating" ELSE ns
  /\ Goto(u, "gone")
  /\ UNCHANGED <<cmd, outcome, release, was, pod, forward, ghosts, bounds>>

\* kubectl waits for the end of the namespace it deleted.
NamespaceGone(u) ==
  /\ pc[u] = "gone" /\ ns # "terminating"
  /\ Return(u, "ok")
  /\ UNCHANGED <<cmd, helm, forward, ghosts, bounds>>

DeleteFailed(u) ==
  /\ pc[u] \in {"uninstall", "namespace", "gone"} /\ Fault
  /\ Return(u, "error")
  /\ UNCHANGED <<cmd, helm, forward, ghosts, commands>>

PodGone ==
  /\ pod.phase = "terminating"
  /\ pod' = NoPod
  /\ UNCHANGED <<cmd, pc, outcome, release, was, ns, forward, ghosts, bounds>>

\* The namespace takes with it what is in it.
Wiped ==
  /\ ns = "terminating"
  /\ ns' = "none" /\ release' = None /\ pod' = NoPod
  /\ UNCHANGED <<cmd, pc, outcome, was, forward, ghosts, bounds>>

-----------------------------------------------------------------------------
(* status and result: the port forward and one request.                    *)

\* A pod that terminates still has phase Running.
ensurePodIsRunning == pod.phase # "none"

\* NewPodPortForwarder, after which Start begins.
NewPodPortForwarder(u) ==
  /\ pc[u] = "forward"
  /\ \/ /\ ensurePodIsRunning
        /\ Goto(u, "start") /\ fwd' = [fwd EXCEPT ![u] = "dialing"]
        /\ UNCHANGED <<outcome, faults>>
     \/ /\ (~ensurePodIsRunning /\ UNCHANGED faults) \/ Fault
        /\ Return(u, "error") /\ UNCHANGED fwd
  /\ UNCHANGED <<cmd, helm, held, late, ghosts, commands>>

\* ForwardPorts in its goroutine: startCh is closed when it is open, errCh
\* has a value when it is failed, both when it is lost.
ForwardPorts(u) ==
  /\ \/ /\ fwd[u] = "dialing" /\ pod.phase # "none"
        /\ fwd' = [fwd EXCEPT ![u] = "open"] /\ UNCHANGED faults
     \/ /\ fwd[u] = "dialing"
        /\ (pod.phase = "none" /\ UNCHANGED faults) \/ Fault
        /\ fwd' = [fwd EXCEPT ![u] = "failed"]
     \/ /\ fwd[u] = "open"
        /\ (pod.phase = "none" /\ UNCHANGED faults) \/ Fault
        /\ fwd' = [fwd EXCEPT ![u] = "lost"]
  /\ UNCHANGED <<cmd, pc, outcome, helm, held, late, ghosts, commands>>

\* Stop closes the forwarder, if Start had set it.
Stop(u, isHeld) ==
  fwd' = IF isHeld /\ fwd[u] = "open" THEN [fwd EXCEPT ![u] = "closed"] ELSE fwd

\* The select of Start; with an error initPortForwardToServer defers Stop.
StartReady(u) ==
  /\ pc[u] = "start" /\ fwd[u] \in {"open", "lost"}
  /\ held' = held \cup {u}
  /\ Goto(u, "http")
  /\ UNCHANGED <<cmd, outcome, helm, fwd, late, ghosts, bounds>>

StartError(u) ==
  /\ pc[u] = "start" /\ fwd[u] \in {"failed", "lost"}
  /\ Stop(u, u \in held) /\ Return(u, "error")
  /\ UNCHANGED <<cmd, helm, held, late, ghosts, bounds>>

StartTimeout(u) ==
  /\ pc[u] = "start" /\ Fault
  /\ late' = late \cup {u}
  /\ Stop(u, u \in held) /\ Return(u, "error")
  /\ UNCHANGED <<cmd, helm, held, ghosts, commands>>

AnswerLeaves(u, result) ==
  /\ Return(u, result)
  /\ UNCHANGED <<cmd, helm, forward, ghosts, commands>>

\* The request has an answer; the deferred done is Stop.
Answer(u, result) ==
  /\ Return(u, result)
  /\ Stop(u, u \in held)
  /\ UNCHANGED <<cmd, helm, held, late, ghosts, commands>>

Served(u) == pc[u] = "http" /\ fwd[u] = "open" /\ pod.phase # "none"

\* status: ListRunnerGroups gets the list at once.
ListResponse(u) ==
  /\ Served(u) /\ cmd[u] = "status"
  /\ Answer(u, "ok") /\ UNCHANGED faults

\* result: 200 for a summary that is ready, 404 for one that is not unless the
\* request waits.
SummaryResponse(u) ==
  /\ Served(u) /\ cmd[u] \in {"result"} \cup Waiting
  /\ \/ pod.ready /\ Answer(u, "ok")
     \/ ~pod.ready /\ cmd[u] \notin Waiting /\ Answer(u, "error")
  /\ UNCHANGED faults

RequestErrorNoTimeout(u) ==
  /\ pc[u] = "http"
  /\ (fwd[u] = "lost" /\ UNCHANGED faults) \/ Fault
  /\ Answer(u, "error")

\* The connection broke, or the context of `result --wait --timeout` ended.
RequestError(u) ==
  /\ pc[u] = "http"
  /\ \/ (fwd[u] = "lost" \/ cmd[u] = "wait") /\ UNCHANGED faults
     \/ Fault
  /\ Answer(u, "error")

-----------------------------------------------------------------------------

Run(u) ==
  \/ Load(u) \/ Get(u) \/ GetError(u)
  \/ Deploy(u) \/ DeployRefused(u) \/ DeployDone(u) \/ DeployFailed(u)

DeleteServer(u) ==
  \/ Uninstall(u) \/ DeleteNamespace(u) \/ NamespaceGone(u) \/ DeleteFailed(u)

Query(u) ==
  \/ NewPodPortForwarder(u) \/ StartReady(u) \/ StartError(u)
  \/ StartTimeout(u) \/ ListResponse(u) \/ SummaryResponse(u)
  \/ RequestError(u)

Cluster == PodRuns \/ SummaryReady \/ PodGone \/ Wiped

Next ==
  \/ \E u \in Users :
       \/ \E c \in Commands : Command(u, c)
       \/ Run(u) \/ DeleteServer(u) \/ Query(u) \/ ForwardPorts(u)
  \/ Cluster

Spec == Init /\ [][Next]_vars

\* The Go scheduler, the timeouts of helm (120 s) and of the request, the
\* kubelet, the garbage collector of namespaces.
Fairness ==
  /\ \A u \in Users : WF_vars(Run(u) \/ DeleteServer(u) \/ Query(u))
                      /\ WF_vars(ForwardPorts(u))
  /\ WF_vars(PodGone) /\ WF_vars(Wiped)

FairSpec == Spec /\ Fairness

-----------------------------------------------------------------------------
(* Properties.                                                             *)

\* A command that has returned leaves no forwarding goroutine and no local
\* listener behind, whichever error ended it; the exception is a Start that
\* timed out (runnergroup_common.go:46, runnergroup_result.go:22,
\* runnergroup_list.go:22).
ForwardClosed ==
  \A u \in Users : pc[u] = "idle" /\ fwd[u] \in {"dialing", "open"} => u \in late

\* A run that no other run overlapped, and whose Get was answered, succeeds
\* only with a server that runs its own specification: the question before
\* Deploy keeps it from upgrading the server of someone else
\* (runnergroup_run.go:63-66).
RunsItsSpec ==
  [][\A u \in alone : cmd[u] = "run" /\ outcome[u] = "none" /\ outcome'[u] = "ok"
       => pod'.of = u /\ release'.by = u]_vars

\* After a delete that succeeded, and that no run past its check overlapped,
\* nothing of a server is left until a run passes its check: no release, no
\* pod and no namespace, whatever other deletes did meanwhile (runnergroup_delete.go:21-31).
DeletedIsGone ==
  \A u \in fresh : outcome[u] = "ok" =>
    release = None /\ pod = NoPod /\ ns = "none"

\* Every command returns, `result --wait` because of its timeout; only one
\* that waits without a timeout may go on for ever (result.go:39,
\* portforward.go:100-106).
CommandsReturn ==
  \A u \in Users : pc[u] # "idle" /\ cmd[u] # "forever" ~> pc[u] = "idle"

\* docs/kperf.md:186: "Only one long-running server is allowed per cluster
\* currently".  So of the runs since the last delete at most one succeeds.
OnlyOneServer == Cardinality(servers) <= 1

-----------------------------------------------------------------------------
(* The inductive invariant behind ForwardClosed, RunsItsSpec and           *)
(* DeletedIsGone.                                                          *)

\* A process is where its command may be, and has no outcome on its way.
CommandAtWork ==
  \A u \in Users :
    /\ pc[u] \in {"load", "get"} \cup InRun => cmd[u] = "run"
    /\ pc[u] \in {"uninstall", "namespace", "gone"} => cmd[u] = "delete"
    /\ pc[u] # "idle" => outcome[u] = "none"

\* The forwarder is held exactly while the request is under way, and one that
\* is neither held nor awaited was left by a Start that timed out.
Forwarders ==
  \A u \in Users :
    /\ pc[u] \in {"forward", "start"} => u \notin held
    /\ pc[u] = "http" => u \in held /\ fwd[u] \in {"open", "lost"}
    /\ pc[u] \notin {"start", "http"} /\ fwd[u] \in {"dialing", "open"} => u \in late

\* Release and pod are in the namespace, a pod runs only of a release, and an
\* upgrade has something to go back to.
OneNamespace ==
  /\ release # None \/ pod.phase # "none" => ns # "none"
  /\ pod.phase = "none" => pod = NoPod
  /\ pod.phase = "running" => release # None
  /\ \A u \in Users : pc[u] = "upgrade" => was[u] # None

\* A run that has the cluster for itself finds no release and installs its own.
RunAlone ==
  \A u \in alone : pc[u] \in InRun =>
    /\ \A v \in Users \ {u} : pc[v] \notin InRun
    /\ pc[u] # "upgrade"
    /\ pc[u] = "deploy" => release = None
    /\ pc[u] = "install" => /\ release # None => release.by = u
                            /\ pod.phase = "running" => pod.of = u

\* What a delete that no run overlaps has taken away stays away.
DeletedSoFar ==
  \A u \in fresh :
    /\ cmd[u] = "delete" /\ \A v \in Users : pc[v] \notin InRun
    /\ pc[u] \in {"namespace", "gone"} \/ outcome[u] = "ok" =>
         release = None /\ pod.phase # "running"
    /\ pc[u] = "gone" \/ outcome[u] = "ok" => ns # "active"
    /\ outcome[u] = "ok" => ns = "none"

\* The strengthening every step preserves.
IInv ==
  /\ TypeOK /\ CommandAtWork /\ Forwarders /\ OneNamespace /\ RunAlone
  /\ DeletedSoFar
=============================================================================
