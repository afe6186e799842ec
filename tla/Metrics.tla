------------------------------ MODULE Metrics ------------------------------
(***************************************************************************)
(* What is observed of the responses, and the figures made of it.  An      *)
(* error is a record of what the code asks of it: the code of an API       *)
(* status in its chain (0 if none), the reasons the predicates of          *)
(* apimachinery recognise it by, the traits that errors.As, errors.Is and  *)
(* strings.Contains find, and its text.                                    *)
(***************************************************************************)
EXTENDS Integers, Sequences, FiniteSets, FiniteSetsExt, SequencesExt, TLC

\* The predicates of codeFromHTTP in its order, with the codes it returns.
httpReasons ==
  <<<<"BadRequest", 400>>, <<"Unauthorized", 401>>, <<"Forbidden", 403>>,
    <<"NotFound", 404>>, <<"MethodNotAllowed", 405>>, <<"NotAcceptable", 406>>,
    <<"AlreadyExists", 409>>, <<"Gone", 410>>, <<"TooLarge", 413>>,
    <<"UnsupportedMediaType", 415>>, <<"Invalid", 422>>,
    <<"TooManyRequests", 429>>, <<"InternalError", 500>>,
    <<"ServiceUnavailable", 503>>, <<"Timeout", 504>>>>

codeFromHTTP(err) ==
  LET hits == {i \in DOMAIN httpReasons : httpReasons[i][1] = err.reason}
  IN  IF hits = {} THEN err.code ELSE httpReasons[Min(hits)][2]

\* The first trait of a list that the error has, "" if it has none.
FirstTrait(order, err) ==
  LET hits == {i \in DOMAIN order : order[i] \in err.traits}
  IN  IF hits = {} THEN "" ELSE order[Min(hits)]

isHTTP2Error(err) ==
  FirstTrait(<<"ConnectionError", "StreamError", "GoAwayError",
               "client connection lost">>, err)

\* A timeout keeps its whole text.
isConnectionError(err) ==
  LET found == FirstTrait(<<"timeout", "ECONNREFUSED", "ECONNRESET",
                            "unexpected EOF", "EOF",
                            "TLS handshake timeout">>, err)
  IN  IF found = "timeout" THEN err.text ELSE found

\* The category of an error and what counts as the same error within it.
Categorized(err) ==
  IF codeFromHTTP(err) # 0 THEN <<"http", codeFromHTTP(err)>>
  ELSE IF isHTTP2Error(err) # "" THEN <<"http2-protocol", isHTTP2Error(err)>>
  ELSE IF isConnectionError(err) # "" THEN <<"connection", isConnectionError(err)>>
  ELSE <<"unknown", err.text>>

-----------------------------------------------------------------------------
(* responseMetricImpl, and the stats it is gathered to.                    *)

NewResponseMetric == [errors |-> << >>, latencies |-> << >>, bytes |-> 0]

\* A map of sequences with v added to the one of a key, new if there is none.
PushBack(map, key, v) ==
  (key :> Append(IF key \in DOMAIN map THEN map[key] ELSE << >>, v)) @@ map

ObserveLatency(m, key, seconds) ==
  [m EXCEPT !.latencies = PushBack(@, key, seconds)]

ObserveFailure(m, key, err) ==
  [m EXCEPT !.errors = Append(@, [key |-> key, category |-> Categorized(err)])]

ObserveReceivedBytes(m, bytes) == [m EXCEPT !.bytes = @ + bytes]

-----------------------------------------------------------------------------
(* The figures.                                                            *)

\* In percent.
percentiles == <<0, 50, 90, 95, 99, 100>>

ceilDiv(a, b) == (a + b - 1) \div b

BuildPercentileLatenciesNoDecrement(latencies) ==
  LET sorted == SortSeq(latencies, <)
      n == Len(latencies)
      At(pv) == sorted[Min({n, ceilDiv(n * pv, 100) + 1})]
  IN  IF n = 0 THEN << >> ELSE [i \in DOMAIN percentiles |-> At(percentiles[i])]

\* idx counts from 0 in the code, and is lowered by one unless it is 0.
BuildPercentileLatencies(latencies) ==
  LET sorted == SortSeq(latencies, <)
      n == Len(latencies)
      idx(pv) == LET i == ceilDiv(n * pv, 100) IN IF i > 0 THEN i - 1 ELSE i
  IN  IF n = 0 THEN << >>
               ELSE [i \in DOMAIN percentiles |-> sorted[idx(percentiles[i]) + 1]]

BuildErrorStatsGroupByType(errors) ==
  [c \in {errors[i].category : i \in DOMAIN errors} |->
     Cardinality({i \in DOMAIN errors : errors[i].category = c})]

\* The sum of a map's numbers, and the number of values a map of sequences has.
SumOf(map) == FoldFunction(+, 0, map)
CountOf(map) == SumOf([k \in DOMAIN map |-> Len(map[k])])

\* All the values of a map of sequences, in some order.
Flat(map) == FoldFunction(\o, << >>, map)

\* The same map with the sequences of another one put after its own.
MergeLatencies(map, other) ==
  [k \in DOMAIN map \cup DOMAIN other |->
     (IF k \in DOMAIN map THEN map[k] ELSE << >>)
       \o (IF k \in DOMAIN other THEN other[k] ELSE << >>)]

\* The raw latencies are there with --raw-data, which run_runner.sh gives.
buildRunnerMetricReport(result) ==
  LET lats == result.stats.latencies
  IN  [total |-> result.total,
       errorStats |-> BuildErrorStatsGroupByType(result.stats.errors),
       bytes |-> result.stats.bytes,
       percentiles |-> BuildPercentileLatencies(Flat(lats)),
       byURL |-> [u \in DOMAIN lats |-> BuildPercentileLatencies(lats[u])],
       raw |-> [u \in DOMAIN lats |-> SortSeq(lats[u], <)]]

\* The value of a percentile: the least one that at least so many of the
\* hundred parts of the latencies do not exceed.
NearestRank(latencies, pv) ==
  Min({latencies[i] : i \in {j \in DOMAIN latencies :
        Cardinality({k \in DOMAIN latencies : latencies[k] <= latencies[j]}) * 100
          >= pv * Len(latencies)}})
=============================================================================
