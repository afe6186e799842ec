------------------------------ MODULE MCServer ------------------------------
(***************************************************************************)
(* The life of a runner group server in four parts that share no state,    *)
(* for one run of TLC: the commands on it and the process (ServerParts),   *)
(* the summary it makes (Summary) and the values of its helm release       *)
(* (Values).  A behaviour is one of one of them, while the others are      *)
(* over.                                                                   *)
(***************************************************************************)
EXTENDS ServerParts, TLC

CONSTANTS
  Groups, Stats, Durations,                                         \* Summary
  Chart, Docs, Paths, Bad, MaxDeploys, MaxAppliers                  \* Values

VARIABLES
  blob, sumPc, group, index, listed, acc, report,                   \* Summary
  heap, cli, log, used, result, deploys                              \* Values

sumVars == <<blob, sumPc, group, index, listed, acc, report>>
valVars == <<heap, cli, log, used, result, deploys>>

-----------------------------------------------------------------------------
(* What Serve is given: up to three addresses and two groups.              *)

MCAddrs == UNION {[1..n -> {"loopback", "outer"}] : n \in 0..3}

URI(s, space, path, key) ==
  [scheme |-> s, namespace |-> space, path |-> path, specName |-> key]

MCURIs ==
  {<<a>> : a \in {URI("file", "", "f", ""), URI("http", "", "f", "")}}
    \cup {<<URI("configmap", space, "cm", ""), URI("configmap", "", "cm", key)>> :
            space \in {"", "kperf"}, key \in {"", "other"}}

MCStored ==
  [p \in {<<"file", "f">>, <<"configmap", "kperf", "cm", "spec">>,
          <<"configmap", "default", "cm", "spec">>,
          <<"configmap", "default", "cm", "other">>} |->
     [name |-> p, sa |-> "mine",
      owner |-> IF p[1] = "file" THEN "" ELSE
                IF p[4] = "other" THEN "malformed" ELSE "theirs"]]

MCFlags == [owner : {"", "server", "malformed"}, sa : {"", "server"}]

-----------------------------------------------------------------------------
(* What Summary is given.                                                  *)

\* Three runners in two groups, one of them alone.
MCGroups == <<<<"p1", "p2">>, <<"p3">>>>

\* Two URLs, latencies that tie and cross, failures of the same and of
\* different kinds, and a runner that did nothing.
MCStats ==
  {[errors |-> << >>, latencies |-> << >>, bytes |-> 0],
   [errors |-> <<[key |-> "a", category |-> <<"http", 429>>]>>,
    latencies |-> "a" :> <<3, 1>>, bytes |-> 2],
   [errors |-> <<[key |-> "a", category |-> <<"http", 429>>],
                 [key |-> "b", category |-> <<"unknown", "x">>]>>,
    latencies |-> ("a" :> <<2>>) @@ ("b" :> <<2, 5>>), bytes |-> 3]}

-----------------------------------------------------------------------------
(* What Values is given.                                                   *)

\* Documents that meet in every way: map on map, map on number, number on
\* map, a key the chart lacks.
MCChart == "x" :> ("a" :> 1)
MCDocs == [flat  |-> "y" :> ("leaf" :> 2),
           deep  |-> ("y" :> ("a" :> 3)) @@ ("x" :> ("b" :> 3)),
           other |-> "y" :> ("b" :> 4)]
MCPaths == [path |-> <<"x" :> ("a" :> 5), "y" :> ("a" :> 5)>>,
            fail |-> <<"x" :> ("b" :> 6), Bad>>]

-----------------------------------------------------------------------------
(* The parts together.                                                     *)

Sum == INSTANCE Summary WITH pc <- sumPc, g <- group, i <- index

Val == INSTANCE Values

ClientOver ==
  /\ cmd = [u \in Users |-> "none"]
  /\ pc = [u \in Users |-> "idle"]
  /\ outcome = [u \in Users |-> "none"]
  /\ release = None /\ was = [u \in Users |-> None]
  /\ pod = NoPod /\ ns = "none"
  /\ fwd = [u \in Users |-> "none"]
  /\ held = {} /\ late = {} /\ alone = {} /\ servers = {} /\ fresh = {}
  /\ commands = MaxCommands /\ faults = 0

ServeOver ==
  /\ addrs = << >> /\ uris = <<URI("http", "", "f", "")>>
  /\ flags = [owner |-> "", sa |-> ""] /\ servePc = "failed"
  /\ handlers = << >> /\ listeners = << >> /\ upload = 0 /\ reported = 0

SummaryOver ==
  /\ blob = [p \in Sum!Pods |-> [missing |-> TRUE]]
  /\ sumPc = "done" /\ group = Len(Groups) + 1 /\ index = 1 /\ listed = {}
  /\ acc = Sum!NoTotals
  /\ report = [total |-> 0, errorStats |-> << >>, bytes |-> 0, duration |-> 0,
               percentiles |-> << >>, byURL |-> << >>]

ValuesOver ==
  /\ heap = ("chart" :> Chart) @@ Docs @@ [o \in Val!Copies |-> << >>]
  /\ cli = Val!NoCli /\ log = << >> /\ used = {}
  /\ result = "ok" /\ deploys = MaxDeploys

PartsInit ==
  \/ Init /\ ServeOver /\ SummaryOver /\ ValuesOver
  \/ ClientOver /\ Srv!Init /\ SummaryOver /\ ValuesOver
  \/ ClientOver /\ ServeOver /\ Sum!Init /\ ValuesOver
  \/ ClientOver /\ ServeOver /\ SummaryOver /\ Val!Init

PartsNext ==
  \/ Next /\ UNCHANGED <<serveVars, sumVars, valVars>>
  \/ Srv!Next /\ UNCHANGED <<vars, sumVars, valVars>>
  \/ Sum!Next /\ UNCHANGED <<vars, serveVars, valVars>>
  \/ Val!Next /\ UNCHANGED <<vars, serveVars, sumVars>>

PartsSpec ==
  /\ PartsInit
  /\ [][PartsNext]_<<vars, serveVars, sumVars, valVars>>
  /\ Fairness /\ Srv!Fairness

-----------------------------------------------------------------------------
(* Properties of the parts.                                                *)

\* The variables of the parts have the types the code gives them: errCh has
\* at most one value per listener, the loops of the summary stay within groups
\* and pods (server.go:64-83, utils.go:72-96).
PartsTypeOK == TypeOK /\ Srv!TypeOK /\ Sum!TypeOK /\ Val!TypeOK

\* The summary is the report one runner would have made that had sent the
\* requests of all usable runners (utils.go:62-156).
SummaryIsOneRun == Sum!SummaryIsOneRun

\* The values of a release are what its documents say path by path on top of
\* the defaults of the chart, which never change, and a call that fails leaves
\* them as they were (release.go:63-89, 115, 202-216).
ValuesKept ==
  []Val!ValuesByPath /\ []Val!ChartKept /\ Val!RollbackOnError
=============================================================================
