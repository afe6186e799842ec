------------------------------ MODULE Summary ------------------------------
(***************************************************************************)
(* How the runner group server makes one report out of the reports its     *)
(* runners have posted: buildRunnerGroupSummary, which visits the groups   *)
(* and their pods in turn and leaves out what it cannot list, read or      *)
(* parse.  A blob is what a runner has posted: nothing, something that is  *)
(* no report, or a report in one of the two formats.                       *)
(***************************************************************************)
EXTENDS Metrics

CONSTANTS
  Groups,    \* a sequence of sequences of pods
  Stats,     \* what a runner may have observed
  Durations  \* how long it may have run

VARIABLES
  blob,      \* the blob of each pod
  pc,
  g, i,      \* the present group and pod
  listed,    \* the groups whose pods could be listed
  acc,       \* the totals so far
  report     \* the summary

vars == <<blob, pc, g, i, listed, acc, report>>

Pods == UNION {ToSet(Groups[k]) : k \in DOMAIN Groups}
Single == [report : Stats, duration : Durations]
Multi == [perSpec : {"some"}, aggregated : Stats, duration : Durations]
Posted == Single \cup Multi
Blobs == {[missing |-> TRUE], [garbage |-> TRUE]} \cup Posted

\* A blob is first read as a multi-spec report, of which the aggregated one
\* counts, and as a plain report when it has no results by spec.
Observed(b) == IF b \in Multi THEN b.aggregated ELSE b.report
Requests(b) == CountOf(Observed(b).latencies) + Len(Observed(b).errors)
ReportOf(b) ==
  buildRunnerMetricReport([stats |-> Observed(b), total |-> Requests(b)])

NoTotals ==
  [bytes |-> 0, totalResp |-> 0, latencies |-> << >>, errStats |-> << >>,
   maxDuration |-> 0]

TypeOK ==
  /\ blob \in [Pods -> Blobs]
  /\ pc \in {"group", "pod", "done"}
  /\ g \in 1..Len(Groups) + 1
  /\ pc = "pod" => i \in 1..Len(Groups[g]) + 1
  /\ listed \subseteq DOMAIN Groups
  /\ pc # "done" => report = NoTotals
  /\ acc.bytes \in Nat /\ acc.totalResp \in Nat /\ acc.maxDuration \in Nat

Init ==
  /\ blob \in [Pods -> Blobs]
  /\ pc = "group" /\ g = 1 /\ i = 1 /\ listed = {}
  /\ acc = NoTotals /\ report = NoTotals

\* A group whose pods cannot be listed is left out.
ListPods ==
  /\ pc = "group" /\ g <= Len(Groups)
  /\ i' = 1
  /\ \/ pc' = "pod" /\ listed' = listed \cup {g} /\ UNCHANGED g
     \/ g' = g + 1 /\ UNCHANGED <<pc, listed>>
  /\ UNCHANGED <<blob, acc, report>>

mergeErrorStatOver(s, d) == d @@ s

mergeErrorStat(s, d) ==
  [e \in DOMAIN s \cup DOMAIN d |->
     (IF e \in DOMAIN s THEN s[e] ELSE 0) + (IF e \in DOMAIN d THEN d[e] ELSE 0)]

\* One report added to the totals.
Added(a, r, duration) ==
  [bytes |-> a.bytes + r.bytes,
   totalResp |-> a.totalResp + CountOf(r.raw),
   latencies |-> MergeLatencies(a.latencies, r.raw),
   errStats |-> mergeErrorStat(a.errStats, r.errorStats),
   maxDuration |-> Max({a.maxDuration, duration})]

\* A blob that cannot be read or parsed is left out.
ReadPod ==
  /\ pc = "pod" /\ i <= Len(Groups[g])
  /\ LET b == blob[Groups[g][i]]
     IN  acc' = IF b \in Posted THEN Added(acc, ReportOf(b), b.duration) ELSE acc
  /\ i' = i + 1
  /\ UNCHANGED <<blob, pc, g, listed, report>>

NextGroup ==
  /\ pc = "pod" /\ i > Len(Groups[g])
  /\ g' = g + 1 /\ pc' = "group"
  /\ UNCHANGED <<blob, i, listed, acc, report>>

ReturnTyped ==
  /\ pc = "group" /\ g > Len(Groups)
  /\ g' = g + 1 /\ report' = acc
  /\ UNCHANGED <<blob, pc, i, listed, acc>>

Return ==
  /\ pc = "group" /\ g > Len(Groups)
  /\ pc' = "done"
  /\ report' =
       [total |-> acc.totalResp, errorStats |-> acc.errStats,
        bytes |-> acc.bytes, duration |-> acc.maxDuration,
        percentiles |-> BuildPercentileLatencies(Flat(acc.latencies)),
        byURL |-> [u \in DOMAIN acc.latencies |->
                     BuildPercentileLatencies(acc.latencies[u])]]
  /\ UNCHANGED <<blob, g, i, listed, acc>>

Over == pc = "done" /\ UNCHANGED vars

Next == ListPods \/ ReadPod \/ NextGroup \/ Return \/ Over

Spec == Init /\ [][Next]_vars

-----------------------------------------------------------------------------
(* Properties.                                                             *)

\* The pods that have to be in the summary: those with a report, in a group
\* that could be listed.
Usable == {p \in Pods : /\ blob[p] \in Posted
                        /\ \E k \in listed : p \in ToSet(Groups[k])}

\* The summary is the report one runner would have made that had sent the
\* requests of all usable runners: the percentiles are those of the latencies
\* together, never a mean of percentiles, the errors and bytes add up and the
\* duration is the longest; a runner or a group that is left out takes no
\* other with it (utils.go:62-156).
SummaryIsOneRun ==
  pc = "done" =>
    LET All == SetToSeq(Usable)
        Of(k) == Observed(blob[All[k]])
        one == buildRunnerMetricReport(
                 [total |-> 0,
                  stats |->
                    [errors |-> FlattenSeq([k \in DOMAIN All |-> Of(k).errors]),
                     latencies |-> FoldLeftDomain(
                       LAMBDA map, k : MergeLatencies(map, Of(k).latencies), << >>, All),
                     bytes |-> SumOf([k \in DOMAIN All |-> Of(k).bytes])]])
    IN  /\ report.percentiles = one.percentiles
        /\ report.byURL = one.byURL
        /\ report.errorStats = one.errorStats
        /\ report.bytes = one.bytes
        /\ report.duration = Max({0} \cup {blob[p].duration : p \in Usable})
=============================================================================
