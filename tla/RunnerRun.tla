----------------------------- MODULE RunnerRun -----------------------------
(***************************************************************************)
(* The command kperf runner run: the profile is read, overridden by flags  *)
(* and validated, clients are made, the file of the result is created,     *)
(* the specs run one after the other, and what was observed of each of     *)
(* them and of all of them is reported.                                    *)
(***************************************************************************)
EXTENDS LoadProfile, Metrics

CONSTANTS
  Profiles,      \* the profiles the configuration file may hold
  Flags,         \* the flags that may be given: maps of a flag to its value
  Responses(_),  \* what may be observed of one request, by the profile
  DefaultTotal,  \* what --total is if it is not given
  MaxSent        \* bound on the requests of a spec that runs for a duration

VARIABLES
  flags, profile,
  pc,        \* load, overrides, clients, output, spec, run, print, done, failed,
             \* panicked
  conns,     \* the number of clients, which all specs share
  metric,    \* the ResponseMetric of the spec that runs
  sent,      \* for each spec that was started, the requests that were done
  results,   \* the results of the specs that are over
  file       \* what the file holds: absent, empty or the report

vars == <<flags, profile, pc, conns, metric, sent, results, file>>

overrideFlags == {"rate", "conns", "client", "total", "duration", "contentType"}

Default == [rate |-> 0, conns |-> 1, client |-> 1, total |-> DefaultTotal,
            duration |-> 0, contentType |-> "json"]

IsSet(f) == f \in DOMAIN flags
Value(f) == IF IsSet(f) THEN flags[f] ELSE Default[f]

Specs == profile.specs
Absent == [state |-> "absent"]

TypeOK ==
  /\ flags \in Flags
  /\ pc \in {"load", "overrides", "clients", "output", "spec", "run", "print",
             "done", "failed", "panicked"}
  /\ Len(results) <= Len(Specs)
  /\ Len(sent) \in {Len(results), Len(results) + 1}
  /\ file.state \in {"absent", "empty", "report"}

Init ==
  /\ flags \in Flags /\ profile \in Profiles
  /\ pc = "load" /\ conns = 0 /\ metric = NewResponseMetric
  /\ sent = << >> /\ results = << >> /\ file = Absent

-----------------------------------------------------------------------------
(* loadConfig.                                                             *)

\* The first spec under the flags.  A total overrules a duration, and with
\* neither of them --total has its default.
Overridden(spec) ==
  LET zero(f) == IF f = "contentType" THEN "" ELSE 0
      Set(f) == IF IsSet(f) \/ (f \in {"conns", "client", "contentType"}
                                /\ spec[f] = zero(f))
                  THEN Value(f) ELSE spec[f]
      duration == IF Set("total") > 0 /\ Set("duration") > 0
                    THEN 0 ELSE Set("duration")
      total == IF Set("total") = 0 /\ duration = 0
                 THEN Value("total") ELSE Set("total")
  IN  [spec EXCEPT !.rate = Set("rate"), !.conns = Set("conns"),
         !.client = Set("client"), !.total = total, !.duration = duration,
         !.contentType = Set("contentType")]

\* The first spec is used before Validate asks whether there is one.
loadConfig ==
  /\ pc = "load"
  /\ \/ pc' = "failed" /\ UNCHANGED profile
     \/ /\ Specs = << >>
        /\ pc' = "panicked" /\ UNCHANGED profile
     \/ /\ Specs # << >>
        /\ profile' = [profile EXCEPT !.specs[1] = Overridden(@)]
        /\ pc' = IF ProfileValidate(profile') THEN "overrides" ELSE "failed"
  /\ UNCHANGED <<flags, conns, metric, sent, results, file>>

hasCliOverrides == DOMAIN flags \cap overrideFlags # {}

CheckOverridesNever ==
  /\ pc = "overrides"
  /\ pc' = "clients"
  /\ UNCHANGED <<flags, profile, conns, metric, sent, results, file>>

CheckOverrides ==
  /\ pc = "overrides"
  /\ pc' = IF Len(Specs) > 1 /\ hasCliOverrides THEN "failed" ELSE "clients"
  /\ UNCHANGED <<flags, profile, conns, metric, sent, results, file>>

\* The kubeconfig may not load, and its clients may not be made.
NewClients ==
  /\ pc = "clients"
  /\ \/ pc' = "failed" /\ UNCHANGED conns
     \/ pc' = "output" /\ conns' = Specs[1].conns
  /\ UNCHANGED <<flags, profile, metric, sent, results, file>>

CreateOutput ==
  /\ pc = "output"
  /\ \/ pc' = "failed" /\ UNCHANGED file
     \/ pc' = "spec" /\ file' = [state |-> "empty"]
  /\ UNCHANGED <<flags, profile, conns, metric, sent, results>>

-----------------------------------------------------------------------------
(* executeSpecs.                                                           *)

Current == Specs[Len(results) + 1]
Sent == Last(sent)

StartSpec ==
  /\ pc = "spec"
  /\ Len(results) < Len(Specs)
  /\ pc' = "run"
  /\ metric' = NewResponseMetric
  /\ sent' = Append(sent, 0)
  /\ UNCHANGED <<flags, profile, conns, results, file>>

\* A request is answered: bytes are counted for failures too.
Observed(m, r) ==
  LET n == ObserveReceivedBytes(m, r.bytes)
  IN  IF r.err.text = "" THEN ObserveLatency(n, r.key, r.latency)
                         ELSE ObserveFailure(n, r.key, r.err)

Respond(r) ==
  /\ pc = "run"
  /\ Sent < IF Current.total > 0 THEN Current.total ELSE MaxSent
  /\ metric' = Observed(metric, r)
  /\ sent' = [sent EXCEPT ![Len(sent)] = @ + 1]
  /\ UNCHANGED <<flags, profile, pc, conns, results, file>>

EndSpecTwice ==
  /\ pc = "run"
  /\ Sent = Current.total \/ Current.duration > 0
  /\ LET r == [stats |-> metric, total |-> Current.total]
     IN  results' = results \o <<r, r>>
  /\ pc' = "print"
  /\ UNCHANGED <<flags, profile, conns, metric, sent, file>>

EndSpecFirstOnly ==
  /\ pc = "run"
  /\ Sent = Current.total \/ Current.duration > 0
  /\ results' = Append(results, [stats |-> metric, total |-> Current.total])
  /\ pc' = "print"
  /\ UNCHANGED <<flags, profile, conns, metric, sent, file>>

\* The spec is over when it has done its requests or its time is up.
EndSpec ==
  /\ pc = "run"
  /\ \/ Current.total > 0 /\ Sent = Current.total
     \/ Current.duration > 0
  /\ results' = Append(results, [stats |-> metric, total |-> Current.total])
  /\ pc' = IF Len(results') = Len(Specs) THEN "print" ELSE "spec"
  /\ UNCHANGED <<flags, profile, conns, metric, sent, file>>

aggregateResultsLastWins ==
  [stats |-> [errors |-> FlattenSeq([i \in DOMAIN results |-> results[i].stats.errors]),
              latencies |-> FoldSeq(LAMBDA r, map : r.stats.latencies @@ map, << >>, results),
              bytes |-> SumOf([i \in DOMAIN results |-> results[i].stats.bytes])],
   total |-> SumOf([i \in DOMAIN results |-> results[i].total])]

aggregateResults ==
  [stats |-> [errors |-> FlattenSeq([i \in DOMAIN results |-> results[i].stats.errors]),
              latencies |-> FoldSeq(LAMBDA r, map : MergeLatencies(map, r.stats.latencies),
                                    << >>, results),
              bytes |-> SumOf([i \in DOMAIN results |-> results[i].stats.bytes])],
   total |-> SumOf([i \in DOMAIN results |-> results[i].total])]

\* The report may not be written.
printMultiSpecResults ==
  /\ pc = "print"
  /\ \/ pc' = "failed" /\ UNCHANGED file
     \/ /\ pc' = "done"
        /\ file' = [state |-> "report",
                    perSpec |-> [i \in DOMAIN results |->
                                   buildRunnerMetricReport(results[i])],
                    aggregated |-> buildRunnerMetricReport(aggregateResults)]
  /\ UNCHANGED <<flags, profile, conns, metric, sent, results>>

Over == pc \in {"done", "failed", "panicked"} /\ UNCHANGED vars

Step ==
  \/ loadConfig \/ CheckOverrides \/ NewClients \/ CreateOutput
  \/ StartSpec \/ (\E r \in Responses(profile) : Respond(r)) \/ EndSpec
  \/ printMultiSpecResults

Next == Step \/ Over

Spec == Init /\ [][Next]_vars

-----------------------------------------------------------------------------
(* Properties.                                                             *)

\* No flag is given in vain or spread over the wrong spec: once the clients
\* exist, a run with flags has one spec, and that has the value of every flag,
\* a duration aside that a total overrules (runner.go:108-111, 179-211).
FlagsReachTheRun ==
  pc \in {"output", "spec", "run", "print", "done"} /\ DOMAIN flags # {} =>
    /\ Len(Specs) = 1
    /\ \A f \in DOMAIN flags :
         \/ Specs[1][f] = flags[f]
         \/ f = "duration" /\ Specs[1].total > 0
         \/ f = "total" /\ flags[f] = 0

\* Nothing is lost or counted twice between a response and the report: for
\* each spec and for all of them, errors and latencies add up to the requests
\* that were done (runner.go:259-347, metrics/request.go).
ReportConserves ==
  pc = "done" =>
    LET Count(r) == SumOf(r.errorStats) + CountOf(r.raw)
    IN  /\ \A i \in DOMAIN sent : Count(file.perSpec[i]) = sent[i]
        /\ Count(file.aggregated) = SumOf(sent)
        /\ file.aggregated.bytes
             = SumOf([i \in DOMAIN sent |-> file.perSpec[i].bytes])

\* Every percentile that is reported is the one of its definition, for each
\* URL and over all of them (metrics/utils.go:23-42).
PercentilesAreRanks ==
  pc = "done" =>
    LET Right(p, lats) ==
          p = IF lats = << >> THEN << >>
              ELSE [i \in DOMAIN percentiles |-> NearestRank(lats, percentiles[i])]
        r == file.aggregated
    IN  /\ Right(r.percentiles, Flat(r.raw))
        /\ \A u \in DOMAIN r.raw : Right(r.byURL[u], r.raw[u])

\* The file holds a report exactly when every spec was run to its end
\* (runner.go:140-160): a failure leaves no report that looks like one.
ReportIffAllRan ==
  file.state = "report" <=>
    pc = "done" /\ Len(results) = Len(Specs) /\ Len(file.perSpec) = Len(Specs)

=============================================================================
