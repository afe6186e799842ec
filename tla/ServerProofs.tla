---------------------------- MODULE ServerProofs ----------------------------
(***************************************************************************)
(* Proofs about the commands on a runner group server, for any number of   *)
(* users, and about the start of the server process, for any list of       *)
(* addresses.                                                              *)
(***************************************************************************)
EXTENDS ServerParts, FiniteSetTheorems, TLAPS

\* Nothing is deployed before the first command.
LEMMA InitIInv == Init => IInv
  BY BoundsAssumption, NoneAssumption
  DEF Init, IInv, TypeOK, CommandAtWork, Forwarders, OneNamespace, RunAlone,
      DeletedSoFar, PcValues, InRun, NoPod

\* Every step of a command, a forwarder or the cluster preserves IInv.
LEMMA NextIInv == IInv /\ [Next]_vars => IInv'
<1> SUFFICES ASSUME IInv, [Next]_vars PROVE IInv'
  OBVIOUS
<1>1. ASSUME NEW u \in Users, NEW c \in Commands, Command(u, c) PROVE IInv'
  <2>1. TypeOK'
    BY <1>1, CommandsAssumption, BoundsAssumption
    DEF IInv, Command, Goto, helm, TypeOK, PcValues
  <2>2. CommandAtWork' /\ Forwarders'
    BY <1>1 DEF IInv, Command, Goto, CommandAtWork, Forwarders, TypeOK, InRun
  <2>3. OneNamespace'
    BY <1>1 DEF IInv, Command, Goto, helm, OneNamespace
  <2>4. RunAlone' /\ DeletedSoFar'
    BY <1>1 DEF IInv, Command, Goto, helm, RunAlone, DeletedSoFar, TypeOK, InRun
  <2>5. QED
    BY <2>1, <2>2, <2>3, <2>4 DEF IInv
<1>2. ASSUME NEW u \in Users, Load(u) PROVE IInv'
  <2>1. TypeOK'
    BY <1>2
    DEF IInv, Load, Goto, Return, helm, forward, ghosts, bounds, TypeOK,
        PcValues
  <2>2. CommandAtWork' /\ Forwarders'
    BY <1>2
    DEF IInv, Load, Goto, Return, forward, CommandAtWork, Forwarders, TypeOK
  <2>3. OneNamespace'
    BY <1>2 DEF IInv, Load, Goto, Return, helm, OneNamespace, TypeOK
  <2>4. RunAlone' /\ DeletedSoFar'
    BY <1>2
    DEF IInv, Load, Goto, Return, helm, ghosts, RunAlone, DeletedSoFar, TypeOK,
        InRun
  <2>5. QED
    BY <2>1, <2>2, <2>3, <2>4 DEF IInv
<1>3. ASSUME NEW u \in Users, Get(u) PROVE IInv'
  <2>1. TypeOK'
    BY <1>3
    DEF IInv, Get, PassGet, Goto, Return, helm, forward, ghosts, TypeOK,
        PcValues, InRun
  <2>2. CommandAtWork' /\ Forwarders'
    BY <1>3
    DEF IInv, Get, PassGet, Goto, Return, forward, CommandAtWork, Forwarders,
        TypeOK
  <2>3. OneNamespace'
    BY <1>3 DEF IInv, Get, PassGet, Goto, Return, helm, OneNamespace, TypeOK
  <2>4. RunAlone' /\ DeletedSoFar'
    BY <1>3
    DEF IInv, Get, PassGet, Goto, Return, helm, ghosts, RunAlone, DeletedSoFar,
        TypeOK, InRun
  <2>5. QED
    BY <2>1, <2>2, <2>3, <2>4 DEF IInv
<1>4. ASSUME NEW u \in Users, GetError(u) PROVE IInv'
  <2>1. TypeOK'
    BY <1>4, BoundsAssumption
    DEF IInv, GetError, PassGet, Fault, Goto, helm, forward, TypeOK, PcValues,
        InRun
  <2>2. CommandAtWork' /\ Forwarders'
    BY <1>4
    DEF IInv, GetError, PassGet, Goto, forward, CommandAtWork, Forwarders
  <2>3. OneNamespace'
    BY <1>4 DEF IInv, GetError, PassGet, Goto, helm, OneNamespace
  <2>4. RunAlone' /\ DeletedSoFar'
    BY <1>4 DEF GetError, PassGet, RunAlone, DeletedSoFar
  <2>5. QED
    BY <2>1, <2>2, <2>3, <2>4 DEF IInv
<1>5. ASSUME NEW u \in Users, Deploy(u) PROVE IInv'
  <2>1. TypeOK'
    BY <1>5, NoneAssumption
    DEF IInv, Deploy, Goto, Release, forward, ghosts, bounds, TypeOK, PcValues,
        InRun, Releases
  <2>2. CommandAtWork' /\ Forwarders'
    BY <1>5
    DEF IInv, Deploy, Goto, forward, CommandAtWork, Forwarders, TypeOK, InRun
  <2>3. OneNamespace'
    BY <1>5, NoneAssumption
    DEF IInv, Deploy, Goto, Release, OneNamespace, TypeOK, Releases
  <2>4. RunAlone' /\ DeletedSoFar'
    BY <1>5, NoneAssumption
    DEF IInv, Deploy, Goto, Release, ghosts, RunAlone, DeletedSoFar, TypeOK,
        OneNamespace, InRun
  <2>5. QED
    BY <2>1, <2>2, <2>3, <2>4 DEF IInv
<1>6. ASSUME NEW u \in Users, DeployRefused(u) PROVE IInv'
  <2>1. TypeOK'
    BY <1>6, BoundsAssumption
    DEF IInv, DeployRefused, Fault, Return, Goto, helm, forward, ghosts, TypeOK,
        PcValues
  <2>2. CommandAtWork' /\ Forwarders'
    BY <1>6
    DEF IInv, DeployRefused, Return, Goto, forward, CommandAtWork, Forwarders,
        TypeOK, InRun
  <2>3. OneNamespace'
    BY <1>6 DEF IInv, DeployRefused, Return, Goto, helm, OneNamespace
  <2>4. RunAlone' /\ DeletedSoFar'
    BY <1>6
    DEF IInv, DeployRefused, Return, Goto, helm, ghosts, RunAlone, DeletedSoFar,
        InRun
  <2>5. QED
    BY <2>1, <2>2, <2>3, <2>4 DEF IInv
<1>7. ASSUME NEW u \in Users, DeployDone(u) PROVE IInv'
  <2>1. TypeOK'
    BY <1>7, NoneAssumption
    DEF IInv, DeployDone, Release, Return, Goto, forward, bounds, TypeOK,
        PcValues, Releases
  <2>2. CommandAtWork' /\ Forwarders'
    BY <1>7
    DEF IInv, DeployDone, Return, Goto, forward, CommandAtWork, Forwarders,
        TypeOK, InRun
  <2>3. OneNamespace'
    BY <1>7, NoneAssumption
    DEF IInv, DeployDone, Release, Return, Goto, OneNamespace, TypeOK, Releases
  <2>4. RunAlone' /\ DeletedSoFar'
    BY <1>7, NoneAssumption
    DEF IInv, DeployDone, Release, Return, Goto, RunAlone, DeletedSoFar, InRun
  <2>5. QED
    BY <2>1, <2>2, <2>3, <2>4 DEF IInv
<1>8. ASSUME NEW u \in Users, DeployFailed(u) PROVE IInv'
  <2>1. TypeOK'
    BY <1>8, BoundsAssumption, NoneAssumption
    DEF IInv, DeployFailed, Fault, Release, Return, Goto, forward, ghosts,
        TypeOK, PcValues, Releases
  <2>2. CommandAtWork' /\ Forwarders'
    BY <1>8
    DEF IInv, DeployFailed, Return, Goto, forward, CommandAtWork, Forwarders,
        TypeOK, InRun
  <2>3. OneNamespace'
    BY <1>8, NoneAssumption
    DEF IInv, DeployFailed, Release, Return, Goto, OneNamespace, TypeOK,
        Releases
  <2>4. RunAlone' /\ DeletedSoFar'
    BY <1>8, NoneAssumption
    DEF IInv, DeployFailed, Return, Goto, ghosts, RunAlone, DeletedSoFar,
        TypeOK, InRun
  <2>5. QED
    BY <2>1, <2>2, <2>3, <2>4 DEF IInv
<1>9. ASSUME NEW u \in Users, Uninstall(u) PROVE IInv'
  <2>1. TypeOK'
    BY <1>9 DEF IInv, Uninstall, Goto, forward, ghosts, bounds, TypeOK, PcValues
  <2>2. CommandAtWork' /\ Forwarders'
    BY <1>9 DEF IInv, Uninstall, Goto, forward, CommandAtWork, Forwarders, InRun
  <2>3. OneNamespace'
    BY <1>9 DEF IInv, Uninstall, Goto, OneNamespace
  <2>4. RunAlone' /\ DeletedSoFar'
    BY <1>9 DEF IInv, Uninstall, Goto, ghosts, RunAlone, DeletedSoFar, InRun
  <2>5. QED
    BY <2>1, <2>2, <2>3, <2>4 DEF IInv
<1>10. ASSUME NEW u \in Users, DeleteNamespace(u) PROVE IInv'
  <2>1. TypeOK'
    BY <1>10
    DEF IInv, DeleteNamespace, Goto, forward, ghosts, bounds, TypeOK, PcValues
  <2>2. CommandAtWork' /\ Forwarders'
    BY <1>10
    DEF IInv, DeleteNamespace, Goto, forward, CommandAtWork, Forwarders, InRun
  <2>3. OneNamespace'
    BY <1>10 DEF IInv, DeleteNamespace, Goto, OneNamespace
  <2>4. RunAlone' /\ DeletedSoFar'
    BY <1>10
    DEF IInv, DeleteNamespace, Goto, ghosts, RunAlone, DeletedSoFar, InRun
  <2>5. QED
    BY <2>1, <2>2, <2>3, <2>4 DEF IInv
<1>11. ASSUME NEW u \in Users, NamespaceGone(u) PROVE IInv'
  <2>1. TypeOK'
    BY <1>11
    DEF IInv, NamespaceGone, Return, Goto, helm, forward, ghosts, bounds,
        TypeOK, PcValues
  <2>2. CommandAtWork' /\ Forwarders'
    BY <1>11
    DEF IInv, NamespaceGone, Return, Goto, forward, CommandAtWork, Forwarders,
        TypeOK, InRun
  <2>3. OneNamespace'
    BY <1>11 DEF IInv, NamespaceGone, Return, Goto, helm, OneNamespace
  <2>4. RunAlone' /\ DeletedSoFar'
    BY <1>11
    DEF IInv, NamespaceGone, Return, Goto, helm, ghosts, RunAlone, DeletedSoFar,
        TypeOK, InRun
  <2>5. QED
    BY <2>1, <2>2, <2>3, <2>4 DEF IInv
<1>12. ASSUME NEW u \in Users, DeleteFailed(u) PROVE IInv'
  <2>1. TypeOK'
    BY <1>12, BoundsAssumption
    DEF IInv, DeleteFailed, Fault, Return, Goto, helm, forward, ghosts, TypeOK,
        PcValues
  <2>2. CommandAtWork' /\ Forwarders'
    BY <1>12
    DEF IInv, DeleteFailed, Return, Goto, forward, CommandAtWork, Forwarders,
        TypeOK, InRun
  <2>3. OneNamespace'
    BY <1>12 DEF IInv, DeleteFailed, Return, Goto, helm, OneNamespace
  <2>4. RunAlone' /\ DeletedSoFar'
    BY <1>12
    DEF IInv, DeleteFailed, Return, Goto, helm, ghosts, RunAlone, DeletedSoFar,
        InRun
  <2>5. QED
    BY <2>1, <2>2, <2>3, <2>4 DEF IInv
<1>13. ASSUME NEW u \in Users, NewPodPortForwarder(u) PROVE IInv'
  <2>1. TypeOK'
    BY <1>13, BoundsAssumption
    DEF IInv, NewPodPortForwarder, Fault, Return, Goto, helm, ghosts, TypeOK,
        PcValues
  <2>2. CommandAtWork' /\ Forwarders'
    BY <1>13
    DEF IInv, NewPodPortForwarder, Return, Goto, CommandAtWork, Forwarders,
        TypeOK, InRun
  <2>3. OneNamespace'
    BY <1>13
    DEF IInv, NewPodPortForwarder, Return, Goto, helm, OneNamespace, TypeOK
  <2>4. RunAlone' /\ DeletedSoFar'
    BY <1>13
    DEF IInv, NewPodPortForwarder, Return, Goto, helm, ghosts, RunAlone,
        DeletedSoFar, TypeOK, InRun
  <2>5. QED
    BY <2>1, <2>2, <2>3, <2>4 DEF IInv
<1>14. ASSUME NEW u \in Users, StartReady(u) PROVE IInv'
  <2>1. TypeOK'
    BY <1>14 DEF IInv, StartReady, Goto, helm, ghosts, bounds, TypeOK, PcValues
  <2>2. CommandAtWork' /\ Forwarders'
    BY <1>14
    DEF IInv, StartReady, Goto, CommandAtWork, Forwarders, TypeOK, InRun
  <2>3. OneNamespace'
    BY <1>14 DEF IInv, StartReady, Goto, helm, OneNamespace
  <2>4. RunAlone' /\ DeletedSoFar'
    BY <1>14
    DEF IInv, StartReady, Goto, helm, ghosts, RunAlone, DeletedSoFar, InRun
  <2>5. QED
    BY <2>1, <2>2, <2>3, <2>4 DEF IInv
<1>15. ASSUME NEW u \in Users, StartError(u) PROVE IInv'
  <2>1. TypeOK'
    BY <1>15
    DEF IInv, StartError, Stop, Return, Goto, helm, ghosts, bounds, TypeOK,
        PcValues
  <2>2. CommandAtWork' /\ Forwarders'
    BY <1>15
    DEF IInv, StartError, Stop, Return, Goto, CommandAtWork, Forwarders, TypeOK,
        InRun
  <2>3. OneNamespace'
    BY <1>15 DEF IInv, StartError, Return, Goto, helm, OneNamespace
  <2>4. RunAlone' /\ DeletedSoFar'
    BY <1>15
    DEF IInv, StartError, Return, Goto, helm, ghosts, RunAlone, DeletedSoFar,
        InRun
  <2>5. QED
    BY <2>1, <2>2, <2>3, <2>4 DEF IInv
<1>16. ASSUME NEW u \in Users, StartTimeout(u) PROVE IInv'
  <2>1. TypeOK'
    BY <1>16, BoundsAssumption
    DEF IInv, StartTimeout, Stop, Fault, Return, Goto, helm, ghosts, TypeOK,
        PcValues
  <2>2. CommandAtWork' /\ Forwarders'
    BY <1>16
    DEF IInv, StartTimeout, Stop, Return, Goto, CommandAtWork, Forwarders,
        TypeOK, InRun
  <2>3. OneNamespace'
    BY <1>16 DEF IInv, StartTimeout, Return, Goto, helm, OneNamespace
  <2>4. RunAlone' /\ DeletedSoFar'
    BY <1>16
    DEF IInv, StartTimeout, Return, Goto, helm, ghosts, RunAlone, DeletedSoFar,
        InRun
  <2>5. QED
    BY <2>1, <2>2, <2>3, <2>4 DEF IInv
<1>17. ASSUME NEW u \in Users, ListResponse(u) PROVE IInv'
  <2>1. TypeOK'
    BY <1>17
    DEF IInv, ListResponse, Answer, Stop, Return, Goto, helm, ghosts, TypeOK,
        PcValues
  <2>2. CommandAtWork' /\ Forwarders'
    BY <1>17
    DEF IInv, ListResponse, Served, Answer, Stop, Return, Goto, CommandAtWork,
        Forwarders, TypeOK, InRun
  <2>3. OneNamespace'
    BY <1>17 DEF IInv, ListResponse, Answer, Return, Goto, helm, OneNamespace
  <2>4. RunAlone' /\ DeletedSoFar'
    BY <1>17
    DEF IInv, ListResponse, Answer, Return, Goto, helm, ghosts, RunAlone,
        DeletedSoFar, InRun
  <2>5. QED
    BY <2>1, <2>2, <2>3, <2>4 DEF IInv
<1>18. ASSUME NEW u \in Users, SummaryResponse(u) PROVE IInv'
  <2>1. TypeOK'
    BY <1>18
    DEF IInv, SummaryResponse, Answer, Stop, Return, Goto, helm, ghosts, TypeOK,
        PcValues
  <2>2. CommandAtWork' /\ Forwarders'
    BY <1>18
    DEF IInv, SummaryResponse, Served, Answer, Stop, Return, Goto,
        CommandAtWork, Forwarders, TypeOK, InRun
  <2>3. OneNamespace'
    BY <1>18
    DEF IInv, SummaryResponse, Answer, Return, Goto, helm, OneNamespace, TypeOK
  <2>4. RunAlone' /\ DeletedSoFar'
    BY <1>18
    DEF IInv, SummaryResponse, Answer, Return, Goto, helm, ghosts, RunAlone,
        DeletedSoFar, TypeOK, InRun, Waiting
  <2>5. QED
    BY <2>1, <2>2, <2>3, <2>4 DEF IInv
<1>19. ASSUME NEW u \in Users, RequestError(u) PROVE IInv'
  <2>1. TypeOK'
    BY <1>19, BoundsAssumption
    DEF IInv, RequestError, Answer, Fault, Stop, Return, Goto, helm, ghosts,
        TypeOK, PcValues
  <2>2. CommandAtWork' /\ Forwarders'
    BY <1>19
    DEF IInv, RequestError, Answer, Stop, Return, Goto, CommandAtWork,
        Forwarders, TypeOK, InRun
  <2>3. OneNamespace'
    BY <1>19 DEF IInv, RequestError, Answer, Return, Goto, helm, OneNamespace
  <2>4. RunAlone' /\ DeletedSoFar'
    BY <1>19
    DEF IInv, RequestError, Answer, Return, Goto, helm, ghosts, RunAlone,
        DeletedSoFar, InRun
  <2>5. QED
    BY <2>1, <2>2, <2>3, <2>4 DEF IInv
<1>20. ASSUME NEW u \in Users, ForwardPorts(u) PROVE IInv'
  <2>1. TypeOK'
    BY <1>20, BoundsAssumption
    DEF IInv, ForwardPorts, Fault, helm, ghosts, TypeOK
  <2>2. CommandAtWork' /\ Forwarders'
    BY <1>20 DEF IInv, ForwardPorts, CommandAtWork, Forwarders, TypeOK
  <2>3. OneNamespace'
    BY <1>20 DEF IInv, ForwardPorts, helm, OneNamespace
  <2>4. RunAlone' /\ DeletedSoFar'
    BY <1>20 DEF IInv, ForwardPorts, helm, ghosts, RunAlone, DeletedSoFar
  <2>5. QED
    BY <2>1, <2>2, <2>3, <2>4 DEF IInv
<1>21. ASSUME PodRuns PROVE IInv'
  <2>1. TypeOK'
    BY <1>21 DEF IInv, PodRuns, forward, ghosts, bounds, TypeOK
  <2>2. CommandAtWork' /\ Forwarders'
    BY <1>21 DEF IInv, PodRuns, forward, CommandAtWork, Forwarders
  <2>3. OneNamespace'
    BY <1>21 DEF IInv, PodRuns, OneNamespace
  <2>4. RunAlone' /\ DeletedSoFar'
    BY <1>21 DEF IInv, PodRuns, ghosts, RunAlone, DeletedSoFar
  <2>5. QED
    BY <2>1, <2>2, <2>3, <2>4 DEF IInv
<1>22. ASSUME SummaryReady PROVE IInv'
  <2>1. TypeOK'
    BY <1>22, Zenon DEF IInv, SummaryReady, forward, ghosts, bounds, TypeOK
  <2>2. CommandAtWork' /\ Forwarders'
    BY <1>22 DEF IInv, SummaryReady, forward, CommandAtWork, Forwarders
  <2>3. OneNamespace'
    BY <1>22 DEF IInv, SummaryReady, OneNamespace
  <2>4. RunAlone' /\ DeletedSoFar'
    BY <1>22 DEF IInv, SummaryReady, ghosts, RunAlone, DeletedSoFar
  <2>5. QED
    BY <2>1, <2>2, <2>3, <2>4 DEF IInv
<1>23. ASSUME PodGone PROVE IInv'
  <2>1. TypeOK'
    BY <1>23 DEF IInv, PodGone, forward, ghosts, bounds, TypeOK, NoPod
  <2>2. CommandAtWork' /\ Forwarders'
    BY <1>23 DEF IInv, PodGone, forward, CommandAtWork, Forwarders
  <2>3. OneNamespace'
    BY <1>23 DEF IInv, PodGone, OneNamespace, NoPod
  <2>4. RunAlone' /\ DeletedSoFar'
    BY <1>23 DEF IInv, PodGone, ghosts, RunAlone, DeletedSoFar, NoPod
  <2>5. QED
    BY <2>1, <2>2, <2>3, <2>4 DEF IInv
<1>24. ASSUME Wiped PROVE IInv'
  <2>1. TypeOK'
    BY <1>24 DEF IInv, Wiped, forward, ghosts, bounds, TypeOK, NoPod
  <2>2. CommandAtWork' /\ Forwarders'
    BY <1>24 DEF IInv, Wiped, forward, CommandAtWork, Forwarders
  <2>3. OneNamespace'
    BY <1>24 DEF IInv, Wiped, OneNamespace, NoPod
  <2>4. RunAlone' /\ DeletedSoFar'
    BY <1>24 DEF IInv, Wiped, ghosts, RunAlone, DeletedSoFar, NoPod
  <2>5. QED
    BY <2>1, <2>2, <2>3, <2>4 DEF IInv
<1>25. CASE UNCHANGED vars
  BY <1>25
  DEF vars, helm, forward, ghosts, bounds, IInv, TypeOK, CommandAtWork,
      Forwarders, OneNamespace, RunAlone, DeletedSoFar
<1>26. QED
  BY <1>1, <1>2, <1>3, <1>4, <1>5, <1>6, <1>7, <1>8, <1>9, <1>10, <1>11, <1>12,
     <1>13, <1>14, <1>15, <1>16, <1>17, <1>18, <1>19, <1>20, <1>21, <1>22,
     <1>23, <1>24, <1>25
  DEF Next, Run, DeleteServer, Query, Cluster

\* The inductive invariant holds in every reachable state.
LEMMA SpecIInv == Spec => []IInv
  BY InitIInv, NextIInv, PTL DEF Spec

\* The commands, the release, the pod and the forwarders are well typed.
THEOREM TypeCorrect == Spec => []TypeOK
<1>1. IInv => TypeOK
  BY DEF IInv
<1>2. QED
  BY SpecIInv, <1>1, PTL

\* For any number of users and commands, no command that has returned leaves a
\* forwarding goroutine behind, unless its Start timed out.
THEOREM ForwardClosedHolds == Spec => []ForwardClosed
<1>1. IInv => ForwardClosed
  BY DEF IInv, Forwarders, ForwardClosed
<1>2. QED
  BY SpecIInv, <1>1, PTL

\* For any number of users and commands, a delete that succeeded and that no
\* run past its check overlapped has left no release, pod or namespace.
THEOREM DeletedIsGoneHolds == Spec => []DeletedIsGone
<1>1. IInv => DeletedIsGone
  BY DEF IInv, DeletedSoFar, OneNamespace, DeletedIsGone
<1>2. QED
  BY SpecIInv, <1>1, PTL

\* For any number of users and commands, a run that no other run overlapped and
\* whose Get was answered succeeds only with a server of its own specification.
THEOREM RunsItsSpecHolds == Spec => RunsItsSpec
<1> DEFINE Own(u) ==
      cmd[u] = "run" /\ outcome[u] = "none" /\ outcome'[u] = "ok"
        => pod'.of = u /\ release'.by = u
<1>1. ASSUME IInv, Next, NEW u \in alone PROVE Own(u)
  <2> SUFFICES ASSUME cmd[u] = "run", outcome[u] = "none", outcome'[u] = "ok"
               PROVE  pod'.of = u /\ release'.by = u
    OBVIOUS
  <2>0. u \in Users
    BY <1>1 DEF IInv, TypeOK
  <2>1. outcome' # outcome
    OBVIOUS
  <2>2. ASSUME NEW v \in Users, \E c \in Commands : Command(v, c) PROVE FALSE
    BY <2>0, <2>2, <1>1 DEF Command
  <2>3. ASSUME NEW v \in Users, Run(v) PROVE v = u /\ DeployDone(u)
    BY <2>0, <2>3, <1>1
    DEF Run, Load, Get, GetError, PassGet, Deploy, DeployRefused, DeployDone,
        DeployFailed, Return, IInv, TypeOK
  <2>4. ASSUME NEW v \in Users, DeleteServer(v) PROVE FALSE
    BY <2>0, <2>4, <1>1
    DEF DeleteServer, Uninstall, DeleteNamespace, NamespaceGone, DeleteFailed,
        Return, IInv, TypeOK, CommandAtWork
  <2>5. ASSUME NEW v \in Users, Query(v) PROVE FALSE
    BY <2>0, <2>5, <1>1
    DEF Query, NewPodPortForwarder, StartReady, StartError, StartTimeout,
        ListResponse, SummaryResponse, RequestError, Answer, Return, Waiting,
        IInv, TypeOK
  <2>6. ASSUME NEW v \in Users, ForwardPorts(v) PROVE FALSE
    BY <2>1, <2>6 DEF ForwardPorts
  <2>7. ASSUME Cluster PROVE FALSE
    BY <2>1, <2>7 DEF Cluster, PodRuns, SummaryReady, PodGone, Wiped
  <2>8. DeployDone(u)
    BY <1>1, <2>2, <2>3, <2>4, <2>5, <2>6, <2>7 DEF Next
  <2>9. QED
    BY <2>0, <2>8, <1>1 DEF DeployDone, Release, IInv, RunAlone, InRun
<1>2. IInv /\ [Next]_vars => [\A u \in alone : Own(u)]_vars
  BY <1>1
<1>3. QED
  BY <1>2, SpecIInv, PTL DEF Spec, RunsItsSpec

-----------------------------------------------------------------------------
(* The process of the server.                                              *)

\* errCh holds one value for each goroutine that has ended.
Dead == {i \in DOMAIN listeners : listeners[i] = "dead"}
OneValueEach == reported = Cardinality(Dead)

\* The inductive invariant behind StartIsSound and the type of reported.
ServeIInv ==
  /\ Srv!TypeOK /\ Srv!NoListenerLeaks /\ Srv!ListenersSoFar
  /\ Srv!UploadIsOuter /\ OneValueEach

\* The values in errCh are counted by a finite set.
LEMMA DeadCount ==
  ASSUME Srv!TypeOK
  PROVE  /\ IsFiniteSet(Dead) /\ Cardinality(Dead) \in 0..Len(listeners)
         /\ Dead # DOMAIN listeners => Cardinality(Dead) < Len(listeners)
<1>1. DOMAIN listeners = 1..Len(listeners) /\ Len(listeners) \in Nat
  BY DEF Srv!TypeOK
<1>2. IsFiniteSet(1..Len(listeners)) /\ Cardinality(1..Len(listeners)) = Len(listeners)
  <2> DEFINE n == Len(listeners)
  <2>1. n \in Int /\ 1 \in Int /\ n >= 0
    BY <1>1
  <2> HIDE DEF n
  <2>2. IsFiniteSet(1..n) /\ Cardinality(1..n) = IF 1 > n THEN 0 ELSE n - 1 + 1
    BY <2>1, FS_Interval
  <2>3. Cardinality(1..n) = n
    BY <2>1, <2>2
  <2>4. QED
    BY <2>2, <2>3 DEF n
<1>3. Dead \subseteq 1..Len(listeners)
  BY <1>1 DEF Dead
<1>4. IsFiniteSet(Dead) /\ Cardinality(Dead) \in Nat
  BY <1>2, <1>3, FS_Subset, FS_CardinalityType, Zenon
<1>5. /\ Cardinality(Dead) <= Cardinality(1..Len(listeners))
      /\ Cardinality(1..Len(listeners)) = Cardinality(Dead) => 1..Len(listeners) = Dead
  BY <1>2, <1>3, FS_Subset, Zenon
<1>6. QED
  BY <1>1, <1>2, <1>4, <1>5

\* A process starts with no listener.
LEMMA ServeInit == Srv!Init => ServeIInv
<1> SUFFICES ASSUME Srv!Init PROVE ServeIInv
  OBVIOUS
<1>1. Srv!TypeOK
  BY FlagsAssumption DEF Srv!Init, Srv!TypeOK
<1>2. Dead = {} /\ reported = 0
  BY DEF Srv!Init, Dead
<1>3. OneValueEach
  BY <1>2, FS_EmptySet DEF OneValueEach
<1>4. QED
  BY <1>1, <1>3
  DEF Srv!Init, ServeIInv, Srv!NoListenerLeaks, Srv!ListenersSoFar,
      Srv!UploadIsOuter

\* A step that opens a listener or leaves them alone keeps the count.
LEMMA DeadKept ==
  ASSUME OneValueEach, UNCHANGED reported,
         Dead' = Dead
  PROVE  OneValueEach'
  BY DEF OneValueEach

\* What closing every listener leaves.
LEMMA Closed ==
  ASSUME NEW s \in Seq({"open", "closed", "dead"})
  PROVE  /\ [i \in DOMAIN s |-> "closed"] \in Seq({"open", "closed", "dead"})
         /\ Len([i \in DOMAIN s |-> "closed"]) = Len(s)
  OBVIOUS

\* Every step of the process preserves its invariant.
LEMMA ServeNext == ServeIInv /\ [Srv!Next]_(Srv!vars) => ServeIInv'
<1> SUFFICES ASSUME ServeIInv, [Srv!Next]_(Srv!vars) PROVE ServeIInv'
  OBVIOUS
<1>0. addrs \in Seq({"loopback", "outer"}) /\ Len(addrs) \in Nat /\ Len(uris) \in Nat
  BY FlagsAssumption DEF ServeIInv, Srv!TypeOK
<1>a. UNCHANGED flags => UNCHANGED Srv!Handlers
  BY DEF Srv!Handlers, Srv!Overrides
<1>b. UNCHANGED listeners => UNCHANGED Dead
  BY DEF Dead
<1>1. ASSUME Srv!BuildHandler PROVE ServeIInv'
  <2> DEFINE k == Len(handlers) + 1
             p == Srv!Place(uris[k])
             h == [spec |-> Stored[p].name, set |-> Srv!Overrides(Stored[p])]
  <2>1. \/ handlers' = handlers
        \/ p \in DOMAIN Stored /\ handlers' = Append(handlers, h)
    BY <1>a, <1>1 DEF Srv!BuildHandler
  <2>2. handlers \in Seq(Srv!Handlers) /\ Len(handlers) < Len(uris)
    BY <1>a, <1>1 DEF Srv!BuildHandler, ServeIInv, Srv!TypeOK
  <2>3. p \in DOMAIN Stored => h \in Srv!Handlers
    BY DEF Srv!Specs, Srv!Handlers
  <2>4. handlers' \in Seq(Srv!Handlers) /\ Len(handlers') <= Len(uris)
    <3> HIDE DEF h
    <3>1. QED
      BY <1>0, <2>1, <2>2, <2>3
  <2>5. UNCHANGED <<addrs, uris, flags, listeners, upload, reported>>
    BY <1>a, <1>1 DEF Srv!BuildHandler, Srv!input
  <2>6. servePc = "handlers" /\ servePc' \in {"failed", "store", "handlers"}
    BY <1>a, <1>1 DEF Srv!BuildHandler, Srv!Goto
  <2>7. Srv!TypeOK'
    BY <1>a, <2>4, <2>5, <2>6 DEF ServeIInv, Srv!TypeOK, Srv!Ended
  <2>8. QED
    BY <1>b, <2>5, <2>6, <2>7
    DEF ServeIInv, Srv!NoListenerLeaks, Srv!ListenersSoFar, Srv!UploadIsOuter,
        OneValueEach
<1>2. ASSUME Srv!NewStore PROVE ServeIInv'
  BY <1>a, <1>b, <1>2
  DEF Srv!NewStore, Srv!Goto, Srv!input, ServeIInv, Srv!TypeOK, Srv!Ended,
      Srv!NoListenerLeaks, Srv!ListenersSoFar, Srv!UploadIsOuter, OneValueEach
<1>3. ASSUME Srv!Listen PROVE ServeIInv'
  <2> DEFINE T == {"open", "closed", "dead"}
  <2>0. listeners \in Seq(T) /\ Len(listeners) <= Len(addrs) /\ servePc = "listen"
    BY <1>3 DEF Srv!Listen, ServeIInv, Srv!TypeOK
  <2>1. UNCHANGED <<addrs, uris, flags, handlers, upload, reported>>
    BY <1>3 DEF Srv!Listen, Srv!input
  <2>2. \A k \in DOMAIN listeners : listeners[k] = "open"
    BY <2>0 DEF ServeIInv, Srv!ListenersSoFar
  <2>3. \/ /\ listeners' = listeners
           /\ servePc' = "address" /\ Len(listeners) = Len(addrs)
        \/ /\ listeners' = Append(listeners, "open")
           /\ servePc' = "listen" /\ Len(listeners) # Len(addrs)
        \/ listeners' = [k \in DOMAIN listeners |-> "closed"] /\ servePc' = "failed"
    BY <1>3 DEF Srv!Listen, Srv!Goto
  <2>4. /\ listeners' \in Seq(T) /\ Len(listeners) <= Len(listeners')
        /\ Len(listeners') <= Len(addrs)
        /\ servePc' # "failed" => \A k \in DOMAIN listeners' : listeners'[k] = "open"
        /\ servePc' = "failed" => \A k \in DOMAIN listeners' : listeners'[k] = "closed"
    <3>1. CASE listeners' = listeners /\ servePc' = "address"
      BY <2>0, <2>2, <3>1
    <3>2. CASE /\ Len(listeners) # Len(addrs) /\ servePc' = "listen"
               /\ listeners' = Append(listeners, "open")
      <4>1. \A k \in DOMAIN listeners' : listeners'[k] = "open"
        BY <2>0, <2>2, <3>2
      <4>2. QED
        BY <1>0, <2>0, <3>2, <4>1
    <3>3. CASE /\ listeners' = [k \in DOMAIN listeners |-> "closed"]
               /\ servePc' = "failed"
      BY <2>0, <3>3, Closed
    <3>4. QED
      BY <2>3, <3>1, <3>2, <3>3
  <2>5. Srv!TypeOK'
    BY <1>a, <2>1, <2>3, <2>4 DEF ServeIInv, Srv!TypeOK, Srv!Ended
  <2>6. Dead = {} /\ Dead' = {}
    BY <2>2, <2>4 DEF Dead
  <2>7. OneValueEach'
    BY <2>1, <2>6, DeadKept DEF ServeIInv
  <2>8. Srv!NoListenerLeaks' /\ Srv!ListenersSoFar' /\ Srv!UploadIsOuter'
    BY <2>1, <2>3, <2>4
    DEF Srv!NoListenerLeaks, Srv!ListenersSoFar, Srv!UploadIsOuter
  <2>9. QED
    BY <2>5, <2>7, <2>8 DEF ServeIInv
<1>4. ASSUME Srv!Address PROVE ServeIInv'
  <2>1. Srv!TypeOK'
    BY <1>a, <1>0, <1>4
    DEF Srv!Address, Srv!firstNonLocalAddr, Srv!Goto, Srv!input, ServeIInv,
        Srv!TypeOK, Srv!Ended, Srv!ListenersSoFar
  <2>2. QED
    BY <1>0, <1>b, <1>4, <2>1
    DEF Srv!Address, Srv!firstNonLocalAddr, Srv!Goto, Srv!input, ServeIInv,
        Srv!NoListenerLeaks, Srv!ListenersSoFar, Srv!UploadIsOuter, OneValueEach
<1>5. ASSUME Srv!Deploy PROVE ServeIInv'
  BY <1>a, <1>b, <1>5
  DEF Srv!Deploy, Srv!Goto, Srv!input, ServeIInv, Srv!TypeOK, Srv!Ended,
      Srv!NoListenerLeaks, Srv!ListenersSoFar, Srv!UploadIsOuter, OneValueEach
<1>6. ASSUME Srv!Return PROVE ServeIInv'
  BY <1>a, <1>b, <1>6, Zenon
  DEF Srv!Return, Srv!Goto, Srv!input, ServeIInv, Srv!TypeOK, Srv!Ended,
      Srv!NoListenerLeaks, Srv!ListenersSoFar, Srv!UploadIsOuter, OneValueEach
<1>7. ASSUME Srv!WaitPanics PROVE ServeIInv'
  BY <1>a, <1>b, <1>7
  DEF Srv!WaitPanics, Srv!Goto, Srv!input, ServeIInv, Srv!TypeOK, Srv!Ended,
      Srv!NoListenerLeaks, Srv!ListenersSoFar, Srv!UploadIsOuter, OneValueEach
<1>8. ASSUME NEW i \in DOMAIN listeners, Srv!ServeEnds(i) PROVE ServeIInv'
  <2>1. i \notin Dead /\ Dead' = Dead \cup {i}
    BY <1>a, <1>8 DEF Srv!ServeEnds, Dead
  <2>2. Cardinality(Dead') = Cardinality(Dead) + 1 /\ Cardinality(Dead) < Len(listeners)
    BY <1>8, <2>1, DeadCount, FS_AddElement, Zenon DEF ServeIInv
  <2>3. reported = Cardinality(Dead) /\ reported' = Cardinality(Dead')
    BY <1>8, <2>2 DEF Srv!ServeEnds, ServeIInv, OneValueEach
  <2>4. OneValueEach'
    BY <2>3 DEF OneValueEach
  <2>5. Srv!TypeOK'
    BY <1>a, <1>8, <2>2, <2>3
    DEF Srv!ServeEnds, Srv!input, ServeIInv, Srv!TypeOK
  <2>6. QED
    BY <1>8, <2>4, <2>5
    DEF Srv!ServeEnds, Srv!input, ServeIInv, Srv!NoListenerLeaks,
        Srv!ListenersSoFar, Srv!UploadIsOuter
<1>9. ASSUME UNCHANGED Srv!vars PROVE ServeIInv'
  BY <1>a, <1>b, <1>9
  DEF Srv!vars, ServeIInv, Srv!TypeOK, Srv!NoListenerLeaks, Srv!ListenersSoFar,
      Srv!UploadIsOuter, OneValueEach
<1>10. QED
  BY <1>1, <1>2, <1>3, <1>4, <1>5, <1>6, <1>7, <1>8, <1>9
  DEF Srv!Next, Srv!Main, Srv!Idle

\* The invariant of the process holds in every reachable state.
LEMMA ServeSpecIInv == Srv!Spec => []ServeIInv
  BY ServeInit, ServeNext, PTL DEF Srv!Spec

\* The state of the process is well typed; in particular errCh never holds more
\* values than there are listeners, which is its capacity.
THEOREM ServeTypeCorrect == Srv!Spec => []Srv!TypeOK
<1>1. ServeIInv => Srv!TypeOK
  BY DEF ServeIInv
<1>2. QED
  BY ServeSpecIInv, <1>1, PTL

\* For any flags and any stored specifications: no listener leaks from a server
\* that could not be built, every group has the owner and account of the flags,
\* and the runners get the address of an open listener they can reach.
THEOREM StartIsSoundHolds == Srv!Spec => StartIsSound
<1>1. ServeIInv => Srv!NoListenerLeaks
  BY DEF ServeIInv
<1>2. ServeIInv => Srv!GroupsAreOwned
  <2> SUFFICES ASSUME ServeIInv, NEW i \in DOMAIN handlers
               PROVE  /\ flags.owner # "" => handlers[i].set.owner = flags.owner
                      /\ flags.sa # "" => handlers[i].set.sa = flags.sa
    BY Zenon DEF Srv!GroupsAreOwned
  <2>1. handlers[i] \in Srv!Handlers
    BY DEF ServeIInv, Srv!TypeOK
  <2>2. PICK s \in Srv!Specs : handlers[i].set = Srv!Overrides(s)
    BY <2>1 DEF Srv!Handlers
  <2>3. /\ Srv!Overrides(s).owner = IF flags.owner # "" THEN flags.owner ELSE s.owner
        /\ Srv!Overrides(s).sa = IF flags.sa # "" THEN flags.sa ELSE s.sa
    BY DEF Srv!Overrides
  <2>4. QED
    BY <2>2, <2>3, Zenon
<1>3. ServeIInv => (servePc = "deploy" => /\ addrs[upload] # "loopback"
                                         /\ listeners[upload] = "open")
  BY FlagsAssumption
  DEF ServeIInv, Srv!UploadIsOuter, Srv!ListenersSoFar, Srv!isLocalhost
<1>4. QED
  BY <1>1, <1>2, <1>3, ServeSpecIInv, PTL
  DEF StartIsSound, Srv!RunnersReachServer
=============================================================================
