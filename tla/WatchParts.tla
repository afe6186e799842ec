---------------------------- MODULE WatchParts -----------------------------
(***************************************************************************)
(* Goroutines that wait for the API server or for each other, and share no *)
(* state: the wait for the Job of a runner group (JobWatch), the watches   *)
(* of the read_update benchmark (ReadUpdate), the metrics of one instance  *)
(* (MountNs), and the loading of Cilium resources (CiliumLoad).            *)
(***************************************************************************)
EXTENDS JobWatch, FiniteSets

CONSTANTS
  total,                                                         \* ReadUpdate
  Others, Threads, IPs, None,                                       \* MountNs
  Workers, numCID, numCEP, maxNumCRApplyAttempts                 \* CiliumLoad

VARIABLES
  main, started, watchPc, watch, copy, watches, cancelled,       \* ReadUpdate
  nsPc, ip, on, locked, ns, hosts, files, answer,                   \* MountNs
  sent, queue, closed, worker, attempts, applied, producer, reporter,
  groupCancelled, group                                          \* CiliumLoad

watchVars == <<main, started, watchPc, watch, copy, watches, cancelled>>
nsVars == <<nsPc, ip, on, locked, ns, hosts, files, answer>>
ciliumVars == <<sent, queue, closed, worker, attempts, applied, producer,
                reporter, groupCancelled, group>>

Watches == INSTANCE ReadUpdate WITH pc <- watchPc

Ns == INSTANCE MountNs WITH pc <- nsPc

Cilium == INSTANCE CiliumLoad WITH
            cancelled <- groupCancelled, main <- group

ASSUME TotalAssumption == total \in Nat

\* A thread, an instance and a namespace are told apart from their absence, and
\* the goroutine of the call from the others.
ASSUME NamesAssumption ==
  /\ None \notin Threads \cup IPs \cup {Ns!Host} /\ Ns!Host \notin IPs
  /\ "closure" \notin Others

ASSUME NumbersAssumption ==
  /\ IsFiniteSet(Workers)
  /\ numCID \in Nat /\ numCEP \in Nat /\ maxNumCRApplyAttempts \in Nat \ {0}

-----------------------------------------------------------------------------
(* Properties of the parts.                                                *)

\* When the clean-up of read_update begins, no goroutine is left that could
\* open or append a watch (read_update.go:106-123).
QuietBeforeCleanup == Watches!QuietBeforeCleanup

\* No other goroutine ever runs where /etc/hosts names one instance, neither
\* during the call for its metrics nor after it, on a thread that was left in
\* the namespace (the NOTE of Executes, ns_linux.go:18-20).
OthersKeepHosts == Ns!OthersKeepHosts

\* What a call returns are the metrics of the instance it was made for, though
\* all instances have one name (kubectl_cmd_linux.go:20-51).
AsksItsInstance == Ns!AsksItsInstance

\* loadCiliumData returns no error exactly if every resource was applied
\* (cilium_cr_list.go:158-161, 210).
ErrorIffMissing == Cilium!ErrorIffMissing

\* Who waits comes to an end: Wait with the Job, unless it has read past the
\* end; read_update, though its goroutines may spin over a watch that the server
\* has closed; a call for metrics, with an answer or an error; and the loading,
\* which a full channel does not hold (handler.go:260-310,
\* read_update.go:143-156, ns_linux.go:21-41, cilium_cr_list.go:190-195).
WaitsEnd ==
  /\ WaitEndsOrPasses
  /\ <>(main = "returned")
  /\ Ns!CallReturns
  /\ <>(group # "wait")
=============================================================================
