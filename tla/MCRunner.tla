------------------------------ MODULE MCRunner ------------------------------
(***************************************************************************)
(* Two parts of kperf runner that share no state, for one run of TLC: the  *)
(* requests made from a profile (Requests) and the command itself          *)
(* (RunnerRun).  A behaviour is one of one of them, while the other is     *)
(* over.                                                                   *)
(***************************************************************************)
EXTENDS Integers, Sequences, TLC

VARIABLES
  spec, phase, pick, name, req,                                  \* Requests
  flags, profile, runPc, conns, metric, sent, results, file     \* RunnerRun

reqVars == <<spec, phase, pick, name, req>>
runVars == <<flags, profile, runPc, conns, metric, sent, results, file>>

-----------------------------------------------------------------------------
(* What Requests is given.                                                 *)

Base == [group |-> "", version |-> "v1", resource |-> "configmaps",
         namespace |-> "ns", name |-> "obj", limit |-> 0, keySpaceSize |-> 2,
         payloadSize |-> 1, patchType |-> "merge", body |-> "json",
         deleteRatio |-> 50]

Types == {"StaleList", "QuorumList", "WatchList", "StaleGet", "QuorumGet",
          "Put", "Patch", "GetPodLog", "PostDel"}

\* One field changed, to a value the source tells apart.
Variants ==
  {Base}
    \cup {[Base EXCEPT !.group = v] : v \in {"core", "apps"}}
    \cup {[Base EXCEPT !.version = v] : v \in {"", "v2"}}
    \cup {[Base EXCEPT !.resource = v] : v \in {"", "pods"}}
    \cup {[Base EXCEPT !.name = ""]}
    \cup {[Base EXCEPT !.limit = v] : v \in {-1, 5}}
    \cup {[Base EXCEPT !.payloadSize = v] : v \in {-1, 0}}
    \cup {[Base EXCEPT !.patchType = v] : v \in {"json", "strategic-merge", "x"}}
    \cup {[Base EXCEPT !.body = v] : v \in {"", "padded", "text"}}
    \cup {[Base EXCEPT !.deleteRatio = v] : v \in {-1, 0, 51}}

Pods == [Base EXCEPT !.resource = "pods"]

Unscoped == [Base EXCEPT !.namespace = ""]

Of(n, type, s) == [shares |-> n, type |-> (type :> s)]

SpecOf(requests) ==
  [conns |-> 1, rate |-> 0, total |-> 1, duration |-> 0, client |-> 1,
   contentType |-> "json", requests |-> requests]

\* Each type with each variant; the types with an optional namespace without
\* one; two requests with shares from 0; each field of the spec.
SingleSpecs ==
  {SpecOf(<<Of(1, t, v)>>) : t \in Types, v \in Variants}
    \cup {SpecOf(<<Of(1, t, Unscoped)>>) : t \in Types \ {"Put"}}
    \cup {SpecOf(<<Of(i, "StaleGet", Base), Of(j, t, Pods), Of(k, "Put", Base)>>) :
            t \in {"Patch", "PostDel"}, i \in -1..2, j \in 0..2, k \in 1..2}
    \cup {[SpecOf(<<Of(1, "StaleGet", Base)>>) EXCEPT !.conns = c, !.client = d,
             !.total = t, !.duration = u, !.contentType = e, !.rate = f] :
            c \in 0..1, d \in 0..1, t \in 0..1, u \in 0..1,
            e \in {"", "json", "protobuf"}, f \in -1..1}
    \cup {SpecOf(<<[shares |-> 1, type |-> << >>]>>)}

-----------------------------------------------------------------------------
(* What RunnerRun is given.                                                *)

AGet == [shares |-> 1,
         type |-> ("QuorumGet" :> [group |-> "", version |-> "v1",
                                   resource |-> "pods", name |-> "p"])]

ASpec(t, d, c, ct) ==
  [rate |-> 0, total |-> t, duration |-> d, conns |-> c,
   client |-> 1, contentType |-> ct, requests |-> <<AGet>>]

Profile(specs) == [version |-> 1, specs |-> specs]

\* Enough requests that the ranks of 90 and 95 percent differ.
LongProfile == Profile(<<ASpec(11, 0, 1, "json")>>)

\* One spec, and two specs of which the second gets no defaults.
MCProfiles ==
  {Profile(<<ASpec(t, d, c, ct)>>) :
     t \in {0, 3}, d \in {0, 1}, c \in {0, 1}, ct \in {"", "json"}}
    \cup {Profile(<<ASpec(1, 0, 1, "json"), ASpec(t, d, 2, ct)>>) :
            t \in {0, 2}, d \in {0, 1}, ct \in {"", "json"}}
    \cup {[version |-> 2, specs |-> <<ASpec(1, 0, 1, "json")>>], LongProfile}

MCFlags ==
  {<< >>, "total" :> 0, "total" :> 2, "duration" :> 5, "rate" :> 7,
   ("conns" :> 3) @@ ("client" :> 2), "contentType" :> "text",
   ("total" :> 2) @@ ("duration" :> 5)}

NoError == [reason |-> "", code |-> 0, traits |-> {}, text |-> ""]

\* Answers with two latencies, and errors: of the API server, of a chain with
\* traits of HTTP2 and of the connection, and of none of them.
MCResponses ==
  {[key |-> u, latency |-> l, bytes |-> l, err |-> NoError] :
     u \in {"u", "v"}, l \in {1, 2}}
    \cup {[key |-> "u", latency |-> 1, bytes |-> 0, err |-> e] :
            e \in {[reason |-> "NotFound", code |-> 404, traits |-> {}, text |-> "x"],
                   [reason |-> "", code |-> 0, traits |-> {"StreamError", "EOF"},
                    text |-> "y"]}}

\* Two latencies of one URL.
TwoLatencies == {r \in MCResponses : r.key = "u" /\ r.err = NoError}

MCResponsesOf(p) ==
  IF p.specs[1].total = 11 THEN TwoLatencies ELSE MCResponses

-----------------------------------------------------------------------------
(* The parts together.                                                     *)

Req == INSTANCE Requests WITH Specs <- SingleSpecs, Cached <- {"", "a", "b"}

Run == INSTANCE RunnerRun WITH
         Profiles <- MCProfiles, Flags <- MCFlags, Responses <- MCResponsesOf,
         DefaultTotal <- 2, MaxSent <- 2, pc <- runPc

RequestsOver ==
  /\ spec = SpecOf(<<[shares |-> 1, type |-> << >>]>>)
  /\ phase = "rejected" /\ pick = 0 /\ name = "" /\ req = Req!NoRequest

CommandOver ==
  /\ flags = << >> /\ profile = LongProfile
  /\ runPc = "failed" /\ conns = 0 /\ metric = Run!NewResponseMetric
  /\ sent = << >> /\ results = << >> /\ file = Run!Absent

PartsInit ==
  \/ Req!Init /\ CommandOver
  \/ RequestsOver /\ Run!Init

PartsNext ==
  \/ Req!Next /\ UNCHANGED runVars
  \/ Run!Next /\ UNCHANGED reqVars

PartsSpec == PartsInit /\ [][PartsNext]_<<reqVars, runVars>>

-----------------------------------------------------------------------------
(* Properties of the parts.                                                *)

\* The variables of Requests and RunnerRun have the types the code gives them:
\* a pick is an index of the requests, and a spec that was started has at most
\* one result (random.go:113-133, runner.go:244-262).
PartsTypeOK == Req!TypeOK /\ Run!TypeOK

\* What is sent for an accepted spec is what it asks for: each request as often
\* as it has shares, to the object or collection it names, and under one key of
\* the metrics however many objects it changes
\* (random.go:113-133, 173-613, requester.go:43-56).
RequestsAsAsked ==
  Req!PickByWeight /\ Req!BuiltAsAsked /\ Req!KeyPerRequest

\* A run with flags has one spec, and that has the value of every flag
\* (runner.go:108-111, 179-211).
FlagsReachTheRun == Run!FlagsReachTheRun

\* The file holds a report exactly when every spec ran to its end; then errors
\* and latencies add up to the requests that were done, for each spec and for
\* all of them, and every percentile is the one of its definition
\* (runner.go:140-160, 259-347, metrics/request.go, metrics/utils.go:23-42).
ReportIsRight ==
  Run!ReportIffAllRan /\ Run!ReportConserves /\ Run!PercentilesAreRanks
=============================================================================
