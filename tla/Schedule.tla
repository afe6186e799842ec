------------------------------ MODULE Schedule ------------------------------
(***************************************************************************)
(* The load generator of one runner: request.Schedule, the picker it runs  *)
(* on its own goroutine (WeightedRandomRequests.Run and Stop) and the      *)
(* worker goroutines that receive a request builder, build a request, wait *)
(* for the rate limiter, send the request and record the outcome.          *)
(*                                                                         *)
(* reqBuilderCh is unbuffered: a send is one step of the picker and of the *)
(* worker that receives.  A request is an anonymous unit; what counts is   *)
(* how many of them were handed out and where each of them ended.          *)
(***************************************************************************)
EXTENDS Naturals, FiniteSets

CONSTANTS
  Workers,   \* the goroutines started for spec.Client
  MaxTotal,  \* the largest spec.Total considered
  MaxSum     \* bound on the requests handed out when spec.Total = 0

VARIABLES
  total,      \* spec.Total
  duration,   \* spec.Duration > 0
  pc,         \* where Schedule's own goroutine is
  sum,        \* Run's counter of builders handed out
  closed,     \* reqBuilderCh is closed
  cancelled,  \* the outer ctx was cancelled, by a worker or by the return
  expired,    \* the deadline of the inner ctx has passed
  wpc,        \* where each worker is
  latencies,  \* number of ObserveLatency calls
  failures,   \* number of ObserveFailure calls
  dropped,    \* requests built, then given up when the limiter failed
  result      \* the Result Schedule returns

picker == <<pc, sum, closed>>
metric == <<latencies, failures>>
vars == <<total, duration, pc, sum, closed, cancelled, expired, wpc,
          latencies, failures, dropped, result>>

CtxDone == cancelled \/ expired
Enough == total > 0 /\ sum >= total

TypeOK ==
  /\ total \in Nat
  /\ duration \in BOOLEAN
  /\ pc \in {"run", "stop", "wait", "returned"}
  /\ sum \in Nat
  /\ closed \in BOOLEAN
  /\ cancelled \in BOOLEAN
  /\ expired \in BOOLEAN
  /\ wpc \in [Workers -> {"receive", "built", "sent", "exited"}]
  /\ latencies \in Nat
  /\ failures \in Nat
  /\ dropped \in Nat
  /\ result \in [Total : Nat, latencies : Nat, failures : Nat]

\* LoadProfileSpec.Validate lets a spec through when one of the two limits
\* is set.
Init ==
  /\ total \in 0..MaxTotal
  /\ duration \in BOOLEAN
  /\ total > 0 \/ duration
  /\ pc = "run"
  /\ sum = 0
  /\ closed = FALSE
  /\ cancelled = FALSE
  /\ expired = FALSE
  /\ wpc = [w \in Workers |-> "receive"]
  /\ latencies = 0
  /\ failures = 0
  /\ dropped = 0
  /\ result = [Total |-> 0, latencies |-> 0, failures |-> 0]

-----------------------------------------------------------------------------
(* Schedule's goroutine: Run, Stop, wg.Wait and the return.                *)

RunBreak ==
  /\ pc = "run"
  /\ Enough
  /\ pc' = "stop"
  /\ UNCHANGED <<total, duration, sum, closed, cancelled, expired, wpc,
                 metric, dropped, result>>

\* The picker hands a builder to worker w, which builds its request at once.
\* The select may choose this case even when ctx is already done.
RunSend(w) ==
  /\ pc = "run"
  /\ ~Enough
  /\ total = 0 => sum < MaxSum
  /\ wpc[w] = "receive"
  /\ sum' = sum + 1
  /\ wpc' = [wpc EXCEPT ![w] = "built"]
  /\ UNCHANGED <<total, duration, pc, closed, cancelled, expired, metric,
                 dropped, result>>

RunCancelled ==
  /\ pc = "run"
  /\ ~Enough
  /\ CtxDone
  /\ pc' = "stop"
  /\ UNCHANGED <<total, duration, sum, closed, cancelled, expired, wpc,
                 metric, dropped, result>>

\* once.Do: cancel the picker, wait for Run (which has returned) and close
\* the channel.
Stop ==
  /\ pc = "stop"
  /\ closed' = TRUE
  /\ pc' = "wait"
  /\ UNCHANGED <<total, duration, sum, cancelled, expired, wpc, metric,
                 dropped, result>>

ReturnEarly ==
  /\ pc = "wait"
  /\ result' = [Total |-> total, latencies |-> latencies,
                failures |-> failures]
  /\ cancelled' = TRUE
  /\ pc' = "returned"
  /\ UNCHANGED <<total, duration, sum, closed, expired, wpc, metric, dropped>>

\* wg.Wait, Gather and the deferred cancel.
Return ==
  /\ pc = "wait"
  /\ \A w \in Workers : wpc[w] = "exited"
  /\ result' = [Total |-> total, latencies |-> latencies,
                failures |-> failures]
  /\ cancelled' = TRUE
  /\ pc' = "returned"
  /\ UNCHANGED <<total, duration, sum, closed, expired, wpc, metric, dropped>>

-----------------------------------------------------------------------------
(* A worker goroutine.                                                     *)

WorkerExitIgnored(w) ==
  /\ wpc[w] = "receive"
  /\ closed
  /\ UNCHANGED vars

\* range over the closed channel ends the loop.
WorkerExit(w) ==
  /\ wpc[w] = "receive"
  /\ closed
  /\ wpc' = [wpc EXCEPT ![w] = "exited"]
  /\ UNCHANGED <<total, duration, picker, cancelled, expired, metric,
                 dropped, result>>

\* limiter.Wait looks at ctx first: it succeeds only if ctx was not done then.
LimiterPass(w) ==
  /\ wpc[w] = "built"
  /\ ~CtxDone
  /\ wpc' = [wpc EXCEPT ![w] = "sent"]
  /\ UNCHANGED <<total, duration, picker, cancelled, expired, metric,
                 dropped, result>>

\* The limiter starts with a burst of one: somebody has taken that token.
BurstTaken == latencies + failures > 0 \/ \E w \in Workers : wpc[w] = "sent"

\* limiter.Wait fails once ctx is done, and, when ctx has a deadline, already
\* when the token would come after it.  The worker cancels ctx and returns:
\* the request it has built is never sent.
LimiterFail(w) ==
  /\ wpc[w] = "built"
  /\ CtxDone \/ (duration /\ BurstTaken)
  /\ cancelled' = TRUE
  /\ dropped' = dropped + 1
  /\ wpc' = [wpc EXCEPT ![w] = "exited"]
  /\ UNCHANGED <<total, duration, picker, expired, metric, result>>

\* What req.Do gives: a response, an error, or the HTTP/2 stream error
\* NO_ERROR, which Schedule turns into success.
Outcomes == {"ok", "no_error", "error"}
IsFailure(outcome) == outcome = "error"

ObserveTwice(w, outcome) ==
  /\ wpc[w] = "sent"
  /\ failures' = IF outcome = "ok" THEN failures ELSE failures + 1
  /\ latencies' = IF IsFailure(outcome) THEN latencies ELSE latencies + 1
  /\ wpc' = [wpc EXCEPT ![w] = "receive"]
  /\ UNCHANGED <<total, duration, picker, cancelled, expired, dropped, result>>

Observe(w, outcome) ==
  /\ wpc[w] = "sent"
  /\ failures' = IF IsFailure(outcome) THEN failures + 1 ELSE failures
  /\ latencies' = IF IsFailure(outcome) THEN latencies ELSE latencies + 1
  /\ wpc' = [wpc EXCEPT ![w] = "receive"]
  /\ UNCHANGED <<total, duration, picker, cancelled, expired, dropped, result>>

\* The timer of context.WithTimeout fires.
Expire ==
  /\ duration
  /\ ~expired
  /\ pc # "returned"
  /\ expired' = TRUE
  /\ UNCHANGED <<total, duration, picker, cancelled, wpc, metric, dropped,
                 result>>

Worker(w) ==
  \/ WorkerExit(w)
  \/ LimiterPass(w)
  \/ LimiterFail(w)
  \/ \E outcome \in Outcomes : Observe(w, outcome)

\* Schedule has returned and its worker goroutines are gone.
Finished ==
  /\ pc = "returned"
  /\ UNCHANGED vars

Next ==
  \/ RunBreak
  \/ \E w \in Workers : RunSend(w)
  \/ RunCancelled
  \/ Stop
  \/ Return
  \/ \E w \in Workers : Worker(w)
  \/ Expire
  \/ Finished

\* Goroutines that can run are run; the timer fires; req.Do ends, because its
\* request carries a timeout; and a select whose ctx.Done case stays ready
\* takes it in the end, because it chooses among the ready cases at random.
Fairness ==
  /\ WF_vars(RunBreak)
  /\ WF_vars(\E w \in Workers : RunSend(w))
  /\ WF_vars(RunCancelled)
  /\ WF_vars(Stop)
  /\ WF_vars(Return)
  /\ \A w \in Workers : WF_vars(Worker(w))
  /\ WF_vars(Expire)

Spec == Init /\ [][Next]_vars
FairSpec == Spec /\ Fairness

-----------------------------------------------------------------------------
(* Properties.                                                             *)

\* The requests that have been handed out and whose end is still open.
Held == {w \in Workers : wpc[w] \in {"built", "sent"}}

\* Every request Run counts is in exactly one place: recorded as a latency,
\* recorded as a failure, dropped by a failed limiter wait, or still held by
\* one worker (schedule.go:65-113 against random.go:91-105).
Accounting ==
  sum = latencies + failures + dropped + Cardinality(Held)

\* A benchmark bounded only by spec.Total reports exactly that many
\* responses, latencies and failures together: none is lost when the channel
\* is closed behind the last one and none is sent beyond the total.
TotalIsExact ==
  pc = "returned" /\ ~duration => result.latencies + result.failures = total

\* With a total and a deadline the generator never hands out more than the
\* total, and the report never holds more responses than were handed out.
NeverOvershoots ==
  /\ total > 0 => sum <= total
  /\ pc = "returned" => result.latencies + result.failures <= sum

\* Once Gather has run no worker is left that could still record an outcome:
\* the Result is the final one (wg.Wait before Gather, schedule.go:138-141).
ResultIsFinal ==
  [][pc = "returned" => UNCHANGED <<latencies, failures>>]_vars

\* Schedule returns: the picker leaves its select, every worker leaves its
\* loop, whatever mix of limiter failures and deadline the run meets.
Terminates == <>(pc = "returned")

-----------------------------------------------------------------------------
(* The inductive invariant behind Accounting, TotalIsExact,                *)
(* NeverOvershoots and ResultIsFinal.                                      *)

\* Without a deadline nothing cancels ctx before the return, so no limiter
\* wait fails and the picker stops only when the total is reached.
NoDeadline ==
  ~duration =>
    /\ total > 0
    /\ ~expired
    /\ dropped = 0
    /\ cancelled => pc = "returned"
    /\ pc # "run" => sum = total

\* The result is what the metric holds, and no worker is left to change it.
Gathered ==
  pc = "returned" =>
    /\ \A w \in Workers : wpc[w] = "exited"
    /\ result = [Total |-> total, latencies |-> latencies,
                 failures |-> failures]

\* The strengthening that every step of the generator preserves
\* (schedule.go:34-147 with random.go:87-142).
IInv ==
  /\ TypeOK
  /\ Accounting
  /\ NoDeadline
  /\ Gathered
  /\ total > 0 => sum <= total
=============================================================================
