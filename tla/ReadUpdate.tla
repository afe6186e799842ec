----------------------------- MODULE ReadUpdate -----------------------------
(***************************************************************************)
(* The watches of the read_update benchmark.  One goroutine per configmap  *)
(* opens a watch, appends it to a slice that all share without a lock, and *)
(* drops the events; the benchmark cancels the goroutines, waits for them, *)
(* stops the watches of the slice and deletes the configmaps, by deferred  *)
(* functions that run last in first out.                                   *)
(***************************************************************************)
EXTENDS Naturals

CONSTANT total  \* the number of configmaps, at least 1

Configmaps == 1..total

VARIABLES
  main,       \* start, deploy, cancel, wait, stop, delete, returned
  started,    \* the number of goroutines started
  pc,         \* per goroutine: off, open, load, store, loop, done
  watch,      \* per watch: none, open, closed by the server, stopped
  copy,       \* per goroutine: the slice append has read
  watches,    \* the slice, as the set of its elements
  cancelled   \* dpCtx

vars == <<main, started, pc, watch, copy, watches, cancelled>>

TypeOK ==
  /\ main \in {"start", "deploy", "cancel", "wait", "stop", "delete", "returned"}
  /\ started \in 0..total
  /\ pc \in [Configmaps -> {"off", "open", "load", "store", "loop", "done"}]
  /\ watch \in [Configmaps -> {"none", "open", "closed", "stopped"}]
  /\ copy \in [Configmaps -> SUBSET Configmaps]
  /\ watches \subseteq Configmaps
  /\ cancelled \in BOOLEAN

Init ==
  /\ main = "start" /\ started = 0 /\ cancelled = FALSE
  /\ pc = [i \in Configmaps |-> "off"]
  /\ watch = [i \in Configmaps |-> "none"]
  /\ copy = [i \in Configmaps |-> {}]
  /\ watches = {}

Start ==
  /\ main = "start"
  /\ started < total
  /\ started' = started + 1
  /\ pc' = [pc EXCEPT ![started + 1] = "open"]
  /\ UNCHANGED <<main, watch, copy, watches, cancelled>>

AllStarted ==
  /\ main = "start" /\ started = total
  /\ main' = "deploy"
  /\ UNCHANGED <<started, pc, watch, copy, watches, cancelled>>

\* DeployRunnerGroup returns, with or without an error (Benchmark).
Deployed ==
  /\ main = "deploy"
  /\ main' = "cancel"
  /\ UNCHANGED <<started, pc, watch, copy, watches, cancelled>>

dpCancel ==
  /\ main = "cancel"
  /\ cancelled' = TRUE /\ main' = "wait"
  /\ UNCHANGED <<started, pc, watch, copy, watches>>

WaitNone ==
  /\ main = "wait"
  /\ main' = "stop"
  /\ UNCHANGED <<started, pc, watch, copy, watches, cancelled>>

\* wg.Wait()
Wait ==
  /\ main = "wait"
  /\ \A i \in Configmaps : pc[i] = "done"
  /\ main' = "stop"
  /\ UNCHANGED <<started, pc, watch, copy, watches, cancelled>>

stopWatches ==
  /\ main = "stop"
  /\ watch' = [i \in Configmaps |->
                 IF i \in watches /\ watch[i] # "none" THEN "stopped"
                                                       ELSE watch[i]]
  /\ main' = "delete"
  /\ UNCHANGED <<started, pc, copy, watches, cancelled>>

\* DeleteConfigmaps, whose error is only logged.
Delete ==
  /\ main = "delete"
  /\ main' = "returned"
  /\ UNCHANGED <<started, pc, watch, copy, watches, cancelled>>

-----------------------------------------------------------------------------
(* The goroutine of configmap i.                                           *)

\* Watch succeeds or fails, with a context of its own; append follows in both
\* cases, of nil in the second.
Open(i) ==
  /\ pc[i] = "open"
  /\ watch' \in {watch, [watch EXCEPT ![i] = "open"]}
  /\ pc' = [pc EXCEPT ![i] = "load"]
  /\ UNCHANGED <<main, started, copy, watches, cancelled>>

\* watches = append(watches, watchReq): two goroutines that read the same
\* slice write the same slot or two slices of the same length, and one of the
\* two elements is lost.
AppendLoad(i) ==
  /\ pc[i] = "load"
  /\ copy' = [copy EXCEPT ![i] = watches]
  /\ pc' = [pc EXCEPT ![i] = "store"]
  /\ UNCHANGED <<main, started, watch, watches, cancelled>>

AppendStore(i) ==
  /\ pc[i] = "store"
  /\ watches' = copy[i] \cup {i}
  /\ pc' = [pc EXCEPT ![i] = IF watch[i] = "none" THEN "done" ELSE "loop"]
  /\ UNCHANGED <<main, started, watch, copy, cancelled>>

SeeDone(i) ==
  /\ pc[i] = "loop" /\ cancelled
  /\ pc' = [pc EXCEPT ![i] = "done"]
  /\ UNCHANGED <<main, started, watch, copy, watches, cancelled>>

\* An event of type Error ends the goroutine; any other event, and the zero
\* event of a closed channel, is dropped.
Event(i) ==
  /\ pc[i] = "loop"
  /\ \/ watch[i] = "open" /\ pc' = [pc EXCEPT ![i] = "done"]
     \/ UNCHANGED pc
  /\ UNCHANGED <<main, started, watch, copy, watches, cancelled>>

\* The API server closes a watch from time to time.
ServerCloses(i) ==
  /\ watch[i] = "open"
  /\ watch' = [watch EXCEPT ![i] = "closed"]
  /\ UNCHANGED <<main, started, pc, copy, watches, cancelled>>

Over == main = "returned" /\ UNCHANGED vars

Main ==
  \/ Start \/ AllStarted \/ Deployed \/ dpCancel \/ Wait \/ stopWatches
  \/ Delete

Opens(i) == Open(i) \/ AppendLoad(i) \/ AppendStore(i)

Watcher(i) == Opens(i) \/ SeeDone(i) \/ Event(i)

Next ==
  \/ Main
  \/ \E i \in Configmaps : Watcher(i) \/ ServerCloses(i)
  \/ Over

\* Watch returns, the goroutines run, and a select whose Done is ready takes
\* it at some time although the closed channel of the watch is ready as well.
Fairness ==
  /\ WF_vars(Main)
  /\ \A i \in Configmaps : WF_vars(Opens(i)) /\ WF_vars(SeeDone(i))

Spec == Init /\ [][Next]_vars /\ Fairness

-----------------------------------------------------------------------------
(* Properties.                                                             *)

\* The clean-up begins when no goroutine is left that could open or append a
\* watch or read the slice: the deferred functions run in the order cancel,
\* wait, stop, delete (read_update.go:106-123).
QuietBeforeCleanup ==
  main \in {"stop", "delete", "returned"} =>
    \A i \in Configmaps : pc[i] = "done"
=============================================================================
