------------------------------ MODULE MountNs -------------------------------
(***************************************************************************)
(* Asking one instance of the API server for its metrics                   *)
(* (KubectlRunner.Metrics and mountns.Executes).  The name of the cluster  *)
(* resolves to all instances, so kubectl is run where /etc/hosts names one *)
(* of them: a goroutine locks its thread, moves the thread to a mount      *)
(* namespace of its own, mounts a file over /etc/hosts there and runs      *)
(* kubectl.  It ends without unlocking the thread, and the Go runtime then *)
(* destroys the thread instead of giving it to another goroutine.          *)
(*                                                                         *)
(* The Go scheduler and the kernel are modelled from their use: goroutines *)
(* move between threads unless locked, new threads start in the namespace  *)
(* of the process, mounts are private to their namespace.                  *)
(***************************************************************************)
CONSTANTS
  Others,   \* goroutines besides the one of Executes
  Threads,
  IPs,      \* instances of the API server
  None

VARIABLES
  pc,      \* the step of the closure
  ip,      \* the instance of the call
  on,      \* the thread each goroutine runs on
  locked,  \* the thread of LockOSThread
  ns,      \* the mount namespace of each thread; None if it is destroyed
  hosts,   \* the instance that /etc/hosts names, per namespace
  files,   \* temporary files
  answer   \* whose metrics the call for an instance returned

vars == <<pc, ip, on, locked, ns, hosts, files, answer>>

Host == "host"
Own == "own"

Goroutines == Others \cup {"closure"}
Namespaces == IPs \cup {Host}

TypeOK ==
  /\ pc \in {"idle", "lock", "unshare", "file", "mount", "kubectl", "unmount",
             "remove", "exit"}
  /\ ip \in IPs \cup {None}
  /\ on \in [Goroutines -> Threads \cup {None}]
  /\ locked \in Threads \cup {None}
  /\ ns \in [Threads -> Namespaces \cup {None}]
  /\ hosts \in [Namespaces -> IPs \cup {Own}]
  /\ files \subseteq IPs
  /\ answer \in [IPs -> IPs \cup {Own, "error", None}]

Init ==
  /\ pc = "idle" /\ ip = None
  /\ on = [g \in Goroutines |-> None]
  /\ locked = None
  /\ ns = [t \in Threads |-> Host]
  /\ hosts = [n \in Namespaces |-> Own]
  /\ files = {}
  /\ answer = [i \in IPs |-> None]

-----------------------------------------------------------------------------
(* The Go scheduler                                                        *)

Idle(t) == ns[t] # None /\ \A g \in Goroutines : on[g] # t

Run(g, t) ==
  /\ on[g] = None /\ Idle(t)
  /\ g = "closure" => pc # "idle" /\ locked \in {None, t}
  /\ g # "closure" => t # locked
  /\ on' = [on EXCEPT ![g] = t]
  /\ UNCHANGED <<pc, ip, locked, ns, hosts, files, answer>>

Preempt(g) ==
  /\ on[g] # None
  /\ on' = [on EXCEPT ![g] = None]
  /\ UNCHANGED <<pc, ip, locked, ns, hosts, files, answer>>

\* A thread is cloned from one in the namespace of the process.
NewThread(t) ==
  /\ ns[t] = None
  /\ ns' = [ns EXCEPT ![t] = Host]
  /\ UNCHANGED <<pc, ip, on, locked, hosts, files, answer>>

-----------------------------------------------------------------------------
(* One call                                                                *)

Thread == on["closure"]
At(step) == pc = step /\ Thread # None

Metrics(i) ==
  /\ pc = "idle" /\ answer[i] = None
  /\ ip' = i /\ pc' = "lock"
  /\ UNCHANGED <<on, locked, ns, hosts, files, answer>>

LockOSThread ==
  /\ At("lock") /\ pc' = "unshare"
  /\ locked' = Thread
  /\ UNCHANGED <<ip, on, ns, hosts, files, answer>>

Fail == answer' = [answer EXCEPT ![ip] = "error"]

\* The new namespace is a copy of the old one.
Unshare ==
  /\ At("unshare")
  /\ \/ /\ pc' = "file"
        /\ ns' = [ns EXCEPT ![Thread] = ip]
        /\ hosts' = [hosts EXCEPT ![ip] = hosts[ns[Thread]]]
        /\ UNCHANGED answer
     \/ /\ pc' = "exit" /\ Fail
        /\ UNCHANGED <<ns, hosts>>
  /\ UNCHANGED <<ip, on, locked, files>>

CreateTempFileWithContent ==
  /\ At("file")
  /\ \/ pc' = "mount" /\ files' = files \cup {ip} /\ UNCHANGED answer
     \/ pc' = "exit" /\ Fail /\ UNCHANGED files
  /\ UNCHANGED <<ip, on, locked, ns, hosts>>

\* What going on after a failed mount would do.
MountIgnored ==
  /\ At("mount") /\ pc' = "kubectl"
  /\ hosts' \in {hosts, [hosts EXCEPT ![ns[Thread]] = ip]}
  /\ UNCHANGED <<ip, on, locked, ns, files, answer>>

\* What deferring the removal of the file only after the mount would do.
MountLeavesFile ==
  /\ At("mount")
  /\ \/ pc' = "kubectl" /\ hosts' = [hosts EXCEPT ![ns[Thread]] = ip] /\ UNCHANGED answer
     \/ pc' = "exit" /\ Fail /\ UNCHANGED hosts
  /\ UNCHANGED <<ip, on, locked, ns, files>>

Mount ==
  /\ At("mount")
  /\ \/ pc' = "kubectl" /\ hosts' = [hosts EXCEPT ![ns[Thread]] = ip] /\ UNCHANGED answer
     \/ pc' = "remove" /\ Fail /\ UNCHANGED hosts
  /\ UNCHANGED <<ip, on, locked, ns, files>>

\* kubectl inherits the namespace of the thread that starts it.
runCommand ==
  /\ At("kubectl") /\ pc' = "unmount"
  /\ \/ answer' = [answer EXCEPT ![ip] = hosts[ns[Thread]]]
     \/ Fail
  /\ UNCHANGED <<ip, on, locked, ns, hosts, files>>

\* A failure is only logged.
Unmount ==
  /\ At("unmount") /\ pc' = "remove"
  /\ hosts' \in {hosts, [hosts EXCEPT ![ns[Thread]] = Own]}
  /\ UNCHANGED <<ip, on, locked, ns, files, answer>>

RemoveFile ==
  /\ At("remove") /\ pc' = "exit"
  /\ files' = files \ {ip}
  /\ UNCHANGED <<ip, on, locked, ns, hosts, answer>>

\* What unlocking the thread at the end would do.
ExitUnlocked ==
  /\ At("exit") /\ pc' = "idle"
  /\ ip' = None
  /\ locked' = None /\ on' = [on EXCEPT !["closure"] = None]
  /\ UNCHANGED <<ns, hosts, files, answer>>

\* The goroutine ends with its thread locked, and Executes returns.  wg.Done is
\* called just before the end; the thread has no other user in between.
Exit ==
  /\ At("exit") /\ pc' = "idle"
  /\ ip' = None
  /\ ns' = IF locked = Thread THEN [ns EXCEPT ![Thread] = None] ELSE ns
  /\ locked' = None /\ on' = [on EXCEPT !["closure"] = None]
  /\ UNCHANGED <<hosts, files, answer>>

Step ==
  \/ LockOSThread \/ Unshare \/ CreateTempFileWithContent \/ Mount
  \/ runCommand \/ Unmount \/ RemoveFile \/ Exit

Next ==
  \/ \E g \in Goroutines : Preempt(g) \/ \E t \in Threads : Run(g, t)
  \/ \E t \in Threads : NewThread(t)
  \/ \E i \in IPs : Metrics(i)
  \/ Step

\* The Go scheduler lets every goroutine run again and again, and long enough
\* to take a step; the kernel and kubectl answer.
Fairness ==
  /\ \A t \in Threads : WF_vars(NewThread(t))
  /\ \A g \in Others : WF_vars(Preempt(g))
  /\ SF_vars(\E t \in Threads : Run("closure", t))
  /\ SF_vars(Step)

Spec == Init /\ [][Next]_vars /\ Fairness

-----------------------------------------------------------------------------
(* Properties                                                              *)

(* No other goroutine ever runs where /etc/hosts names one instance,       *)
(* neither during the call nor after it, on a thread that was left in the  *)
(* namespace (the NOTE of Executes, ns_linux.go:18-20).                    *)
OthersKeepHosts ==
  \A g \in Others : on[g] # None => hosts[ns[on[g]]] = Own /\ ns[on[g]] = Host

(* Metrics that are reported for an instance are its own, not those of     *)
(* whichever instance the name of the cluster leads to.                    *)
AsksItsInstance == \A i \in IPs : answer[i] \in {None, "error", i}

(* Every call returns, and then its temporary file is gone, whichever of   *)
(* its steps failed.                                                       *)
CallReturns == \A i \in IPs : ip = i ~> ip # i /\ i \notin files

-----------------------------------------------------------------------------
(* The inductive invariant behind OthersKeepHosts and AsksItsInstance.     *)

\* A thread runs one goroutine, and no other goroutine gets the locked one.
SchedInv ==
  /\ \A g, h \in Goroutines : g # h /\ on[g] # None => on[g] # on[h]
  /\ \A g \in Goroutines : on[g] # None => ns[on[g]] # None
  /\ \A g \in Others : on[g] # None => on[g] # locked

\* Where the closure is, and that only its thread leaves the host.
LockInv ==
  /\ pc = "idle" => Thread = None
  /\ pc # "idle" => ip \in IPs
  /\ pc \in {"idle", "lock"} => locked = None
  /\ pc \notin {"idle", "lock"} => locked \in Threads /\ Thread \in {None, locked}
  /\ \A t \in Threads : t # locked => ns[t] \in {Host, None}
  /\ pc = "unshare" => ns[locked] = Host
  /\ pc \in {"file", "mount", "kubectl", "unmount", "remove"} => ns[locked] = ip
  /\ pc = "exit" => ns[locked] \in {Host, ip}

HostsInv == hosts[Host] = Own /\ (pc = "kubectl" => hosts[ip] = ip)

IInv == TypeOK /\ SchedInv /\ LockInv /\ HostsInv /\ AsksItsInstance
=============================================================================
