----------------------------- MODULE CiliumLoad -----------------------------
(***************************************************************************)
(* loadCiliumData of the cilium_cr_list benchmark: a producer sends the    *)
(* resources through a bounded channel to workers that apply them with     *)
(* retries, a reporter logs, and an errgroup joins them.  The first error  *)
(* cancels the context of all.                                             *)
(***************************************************************************)
EXTENDS Naturals, FiniteSets

CONSTANTS
  Workers,                \* the workers, numCRApplyWorkers
  numCID, numCEP,         \* the numbers of identities and of endpoints
  maxNumCRApplyAttempts   \* the attempts for one resource

VARIABLES
  sent,       \* the resources the producer has sent
  queue,      \* the resources in taskChan
  closed,     \* taskChan and reporterDoneChan are closed
  worker,     \* per worker: select, apply, done, failed
  attempts,   \* per worker: the attempts for its resource
  applied,    \* appliedCount
  producer, reporter,  \* run, done, failed
  cancelled,  \* the context of the group
  main        \* wait, ok, error

vars == <<sent, queue, closed, worker, attempts, applied, producer, reporter,
          cancelled, main>>

totalNumResources == numCID + numCEP
capacity == 2 * Cardinality(Workers)

TypeOK ==
  /\ sent \in 0..totalNumResources
  /\ queue \in 0..capacity
  /\ closed \in BOOLEAN /\ cancelled \in BOOLEAN
  /\ worker \in [Workers -> {"select", "apply", "done", "failed"}]
  /\ attempts \in [Workers -> 0..maxNumCRApplyAttempts]
  /\ applied \in 0..totalNumResources
  /\ producer \in {"run", "done", "failed"}
  /\ reporter \in {"run", "done", "failed"}
  /\ main \in {"wait", "ok", "error"}

Init ==
  /\ sent = 0 /\ queue = 0 /\ closed = FALSE
  /\ worker = [w \in Workers |-> "select"]
  /\ attempts = [w \in Workers |-> 0]
  /\ applied = 0
  /\ producer = "run" /\ reporter = "run"
  /\ cancelled = FALSE /\ main = "wait"

-----------------------------------------------------------------------------
(* The producer.                                                           *)

\* First the identities, then the endpoints.
Produce ==
  /\ producer = "run" /\ sent < totalNumResources
  /\ queue < capacity
  /\ sent' = sent + 1 /\ queue' = queue + 1
  /\ UNCHANGED <<closed, worker, attempts, applied, producer, reporter,
                 cancelled, main>>

ProducerWaits ==
  /\ producer = "run" /\ sent < totalNumResources /\ cancelled
  /\ UNCHANGED vars

ProducerCancelled ==
  /\ producer = "run" /\ sent < totalNumResources /\ cancelled
  /\ producer' = "failed"
  /\ UNCHANGED <<sent, queue, closed, worker, attempts, applied, reporter,
                 cancelled, main>>

Close ==
  /\ producer = "run" /\ sent = totalNumResources
  /\ closed' = TRUE /\ producer' = "done"
  /\ UNCHANGED <<sent, queue, worker, attempts, applied, reporter, cancelled,
                 main>>

-----------------------------------------------------------------------------
(* A worker; its select takes any case that is ready.                      *)

Take(w) ==
  /\ worker[w] = "select" /\ queue > 0
  /\ queue' = queue - 1
  /\ worker' = [worker EXCEPT ![w] = "apply"]
  /\ attempts' = [attempts EXCEPT ![w] = 0]
  /\ UNCHANGED <<sent, closed, applied, producer, reporter, cancelled, main>>

WorkerDone(w) ==
  /\ worker[w] = "select" /\ queue = 0 /\ closed
  /\ worker' = [worker EXCEPT ![w] = "done"]
  /\ UNCHANGED <<sent, queue, closed, attempts, applied, producer, reporter,
                 cancelled, main>>

WorkerCancelled(w) ==
  /\ worker[w] = "select" /\ cancelled
  /\ worker' = [worker EXCEPT ![w] = "failed"]
  /\ UNCHANGED <<sent, queue, closed, attempts, applied, producer, reporter,
                 cancelled, main>>

\* kubectl fails at once if the context is cancelled.
ApplyOk(w) ==
  /\ worker[w] = "apply" /\ ~cancelled
  /\ applied' = applied + 1
  /\ worker' = [worker EXCEPT ![w] = "select"]
  /\ UNCHANGED <<sent, queue, closed, attempts, producer, reporter, cancelled,
                 main>>

\* The last attempt fails the worker and cancels the group.
ApplyFails(w) ==
  /\ worker[w] = "apply"
  /\ attempts' = [attempts EXCEPT ![w] = @ + 1]
  /\ LET last == attempts'[w] = maxNumCRApplyAttempts IN
       /\ worker' = [worker EXCEPT ![w] = IF last THEN "failed" ELSE "apply"]
       /\ cancelled' = (cancelled \/ last)
  /\ UNCHANGED <<sent, queue, closed, applied, producer, reporter, main>>

-----------------------------------------------------------------------------

ReporterEnds ==
  /\ reporter = "run"
  /\ \/ closed /\ reporter' = "done"
     \/ cancelled /\ reporter' = "failed"
  /\ UNCHANGED <<sent, queue, closed, worker, attempts, applied, producer,
                 cancelled, main>>

WaitProducerOnly ==
  /\ main = "wait" /\ producer # "run" /\ reporter # "run"
  /\ \A w \in Workers : worker[w] \in {"done", "failed"}
  /\ main' = IF producer = "failed" THEN "error" ELSE "ok"
  /\ cancelled' = TRUE
  /\ UNCHANGED <<sent, queue, closed, worker, attempts, applied, producer,
                 reporter>>

\* g.Wait() returns the first error, and cancels the context.
Wait ==
  /\ main = "wait" /\ producer # "run" /\ reporter # "run"
  /\ \A w \in Workers : worker[w] \in {"done", "failed"}
  /\ main' = IF \/ producer = "failed" \/ reporter = "failed"
                \/ \E w \in Workers : worker[w] = "failed"
               THEN "error" ELSE "ok"
  /\ cancelled' = TRUE
  /\ UNCHANGED <<sent, queue, closed, worker, attempts, applied, producer,
                 reporter>>

Over == main # "wait" /\ UNCHANGED vars

Worker(w) ==
  Take(w) \/ WorkerDone(w) \/ WorkerCancelled(w) \/ ApplyOk(w) \/ ApplyFails(w)

loadCiliumData ==
  Produce \/ ProducerCancelled \/ Close \/ ReporterEnds \/ Wait

Next == loadCiliumData \/ (\E w \in Workers : Worker(w)) \/ Over

\* Every goroutine runs; kubectl returns within its timeout.
Fairness ==
  /\ WF_vars(loadCiliumData)
  /\ \A w \in Workers : WF_vars(Worker(w))

Spec == Init /\ [][Next]_vars /\ Fairness

-----------------------------------------------------------------------------
(* Properties.                                                             *)

\* The workers that f has in a state.
Of(f, state) == {w \in Workers : f[w] = state}
Num(f, state) == Cardinality(Of(f, state))

\* What has not gone down with a worker: applied, queued or being applied.
There == applied + queue + Num(worker, "apply")

\* No resource is lost or applied twice on its way from the producer through
\* the channel to a worker; at most one goes down with each worker that gave
\* up (cilium_cr_list.go:139-166).
Conserved == There <= sent /\ sent <= There + Num(worker, "failed")

\* It returns no error exactly if every resource was applied
\* (cilium_cr_list.go:158-161, 210).
ErrorIffMissing ==
  main # "wait" => (main = "ok" <=> applied = totalNumResources)

-----------------------------------------------------------------------------
(* The inductive invariant.                                                *)

\* Only a worker that gave up a resource cancels the group.
CancelInv == main = "wait" /\ cancelled => There < sent

\* How the goroutines end.
EndInv ==
  /\ closed => producer = "done"
  /\ producer = "done" => sent = totalNumResources
  /\ producer = "failed" => cancelled
  /\ reporter = "failed" => cancelled
  /\ \A w \in Workers : worker[w] = "failed" => cancelled
  /\ \A w \in Workers : worker[w] = "done" => queue = 0 /\ producer = "done"

\* When all have ended, what Wait returns says whether all was applied.
MainInv ==
  main # "wait" =>
    /\ \A w \in Workers : worker[w] \in {"done", "failed"}
    /\ producer # "run" /\ reporter # "run"
    /\ main = "ok" <=> applied = totalNumResources

\* A worker that applies has an attempt left.
AttemptInv ==
  \A w \in Workers : worker[w] = "apply" => attempts[w] < maxNumCRApplyAttempts

IInv == TypeOK /\ AttemptInv /\ Conserved /\ CancelInv /\ EndInv /\ MainInv
=============================================================================
