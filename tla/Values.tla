------------------------------- MODULE Values -------------------------------
(***************************************************************************)
(* The values of a helm release (helmcli/release.go): NewReleaseCli copies *)
(* the defaults of the chart and runs the appliers on the copy, Deploy     *)
(* runs more appliers on a copy of the values of the last deployment and   *)
(* keeps the result only if helm succeeds.                                 *)
(*                                                                         *)
(* Go maps are references.  An applier made from YAML keeps the map it     *)
(* parsed and applyValues stores the maps below it in the values as they   *)
(* are, so that a later applier that merges into them writes to the map of *)
(* the earlier one.  The heap below makes that sharing visible.            *)
(*                                                                         *)
(* Two levels of keys stand for the levels of a document.  The value of a  *)
(* key is a function from the keys below it to numbers; a plain number is  *)
(* the function whose only key is Leaf.  Only the structure is kept: the   *)
(* JSON round trip of copyValues also turns integers into floats.          *)
(***************************************************************************)
EXTENDS Integers, Sequences, FiniteSets, FiniteSetsExt, SequencesExt, TLC

CONSTANTS
  Chart,        \* the default values of the chart: key -> value
  Docs,         \* applier -> YAML document: key -> value
  Paths,        \* applier -> sequence of strings, each a document x.y=n or Bad
  Bad,          \* a string that strvals cannot parse
  MaxDeploys,   \* bound on the number of deployments
  MaxAppliers   \* bound on the appliers of one call

VARIABLES
  heap,     \* owner -> key -> value: the maps of chart, documents and copies
  cli,      \* the ReleaseCli: its copy and, per key, the owner of the value
  log,      \* the appliers whose effect cli.values should have, in order
  used,     \* the appliers that have run
  result,   \* of the last call: ok, or what failed: an applier, helm
  deploys

vars == <<heap, cli, log, used, result, deploys>>

Leaf == "leaf"
NoCli == [copy |-> "none", values |-> <<>>]
Copies == {"copy1", "copy2"}
Appliers == DOMAIN Docs \cup DOMAIN Paths
Owners == {"chart"} \cup Copies \cup DOMAIN Docs

IsMap(v) == Leaf \notin DOMAIN v

\* The contents of a map of references.
Content(h, values) == [k \in DOMAIN values |-> h[values[k]][k]]

TypeOK ==
  /\ DOMAIN heap = Owners
  /\ cli = NoCli \/ cli.copy \in Copies
  /\ \A k \in DOMAIN cli.values :
       cli.values[k] \in Owners /\ k \in DOMAIN heap[cli.values[k]]
  /\ Range(log) \subseteq used /\ used \subseteq Appliers
  /\ result \in {"ok", "applier", "helm"}
  /\ deploys \in 0..MaxDeploys

Init ==
  /\ heap = [o \in Owners |-> CASE o = "chart" -> Chart
                                [] o \in Copies -> <<>>
                                [] OTHER -> Docs[o]]
  /\ cli = NoCli
  /\ log = <<>> /\ used = {}
  /\ result = "ok" /\ deploys = 0

-----------------------------------------------------------------------------
(* A call in progress: the heap, the copy it works on, its values, an error *)

\* What a copy of the top level alone would give.
copyValuesShallow(h, src, copy) ==
  [heap |-> h, copy |-> copy, values |-> src, err |-> FALSE]

copyValues(h, src, copy) ==
  [heap |-> [h EXCEPT ![copy] = Content(h, src)], copy |-> copy,
   values |-> [k \in DOMAIN src |-> copy], err |-> FALSE]

\* What overwriting whole keys, without merging the maps, would give.
applyValuesOverwrites(w, d) ==
  [w EXCEPT !.values = [k \in DOMAIN w.heap[d] |-> d] @@ w.values]

applyValues(w, d) ==
  LET from == w.heap[d]
      to == Content(w.heap, w.values)
      Merged == {k \in DOMAIN from \cap DOMAIN to :
                   IsMap(from[k]) /\ IsMap(to[k])}
  IN [w EXCEPT
        !.heap = [o \in Owners |->
          [k \in DOMAIN w.heap[o] |->
             IF k \in Merged /\ w.values[k] = o
             THEN from[k] @@ w.heap[o][k] ELSE w.heap[o][k]]],
        !.values = [k \in DOMAIN from \ Merged |-> d] @@ w.values]

\* strvals.ParseInto creates the maps on the way and fails where a path
\* leads through a plain value.
ParseInto(w, doc) ==
  LET to == Content(w.heap, w.values)
      new == DOMAIN doc \ DOMAIN to
  IN IF doc = Bad \/ \E k \in DOMAIN doc \cap DOMAIN to : ~IsMap(to[k])
     THEN [w EXCEPT !.err = TRUE]
     ELSE [w EXCEPT
             !.heap = [o \in Owners |->
               [k \in DOMAIN w.heap[o] \cup (IF o = w.copy THEN new ELSE {}) |->
                  CASE k \in new /\ o = w.copy -> doc[k]
                    [] k \in DOMAIN doc \ new /\ w.values[k] = o
                         -> doc[k] @@ w.heap[o][k]
                    [] OTHER -> w.heap[o][k]]],
             !.values = [k \in new |-> w.copy] @@ w.values]

StringPathValuesApplier(w, strs) ==
  FoldLeft(LAMBDA x, s : IF x.err THEN x ELSE ParseInto(x, s), w, strs)

Apply(w, a) ==
  CASE w.err -> w
    [] ~w.err /\ a \in DOMAIN Docs -> applyValues(w, a)
    [] OTHER -> StringPathValuesApplier(w, Paths[a])

initValues(h, src, copy, appliers) ==
  FoldLeft(Apply, copyValues(h, src, copy), appliers)

\* The appliers are remembered even if the call fails: they have run.
Uses(appliers) == used' = used \cup Range(appliers)

NewReleaseCli(appliers) ==
  /\ cli = NoCli
  /\ LET w == initValues(heap, [k \in DOMAIN Chart |-> "chart"], "copy1", appliers)
     IN /\ heap' = w.heap
        /\ result' = IF w.err THEN "applier" ELSE "ok"
        /\ IF w.err THEN UNCHANGED <<cli, log>>
           ELSE /\ cli' = [copy |-> w.copy, values |-> w.values]
                /\ log' = appliers
  /\ Uses(appliers)
  /\ deploys' = deploys + 1

\* What keeping the new values before helm answers would do.
DeployKeepsEarly(appliers, installed) ==
  /\ cli # NoCli
  /\ LET copy == CHOOSE c \in Copies : c # cli.copy
         w == initValues(heap, cli.values, copy, appliers)
     IN /\ heap' = w.heap
        /\ result' = IF w.err THEN "applier" ELSE IF installed THEN "ok" ELSE "helm"
        /\ IF w.err THEN UNCHANGED <<cli, log>>
           ELSE /\ cli' = [copy |-> copy, values |-> w.values]
                /\ log' = log \o appliers
  /\ Uses(appliers)
  /\ deploys' = deploys + 1

\* helm may refuse the release; release.Config is the map it was given.
Deploy(appliers, installed) ==
  /\ cli # NoCli
  /\ LET copy == CHOOSE c \in Copies : c # cli.copy
         w == initValues(heap, cli.values, copy, appliers)
     IN /\ heap' = w.heap
        /\ result' = IF w.err THEN "applier" ELSE IF installed THEN "ok" ELSE "helm"
        /\ IF result' # "ok" THEN UNCHANGED <<cli, log>>
           ELSE /\ cli' = [copy |-> copy, values |-> w.values]
                /\ log' = log \o appliers
  /\ Uses(appliers)
  /\ deploys' = deploys + 1

\* The callers in the repository make a new applier for every call, so that
\* none runs twice.
Calls ==
  {appliers \in SeqOf(Appliers \ used, MaxAppliers) : IsInjective(appliers)}

Next ==
  /\ deploys < MaxDeploys
  /\ \E appliers \in Calls :
       \/ NewReleaseCli(appliers)
       \/ \E installed \in BOOLEAN : Deploy(appliers, installed)

Spec == Init /\ [][Next]_vars

-----------------------------------------------------------------------------
(* Properties                                                              *)

\* The documents applied so far, the chart first.
Documents ==
  <<Chart>> \o FlattenSeq([i \in 1..Len(log) |->
                 IF log[i] \in DOMAIN Docs THEN <<Docs[log[i]]>> ELSE Paths[log[i]]])

\* The value of every path without any merging: the last document that names
\* the path wins, and a plain value hides whatever came before it.
ByPath(docs) ==
  LET Naming(k) == {i \in 1..Len(docs) : k \in DOMAIN docs[i]}
      Since(k) == Max({0} \cup {i \in Naming(k) : ~IsMap(docs[i][k])})
      Maps(k) == {i \in Naming(k) : i > Since(k)}
      Last_(k, s) == Max({i \in Maps(k) : s \in DOMAIN docs[i][k]})
  IN [k \in UNION {DOMAIN docs[i] : i \in 1..Len(docs)} |->
        IF Maps(k) = {} THEN docs[Since(k)][k]
        ELSE [s \in UNION {DOMAIN docs[i][k] : i \in Maps(k)} |->
                docs[Last_(k, s)][k][s]]]

\* The values of a release are what its documents say path by path: merging
\* through maps that applyValues shares with the appliers loses nothing, and
\* leaks nothing from a call that failed (release.go:63-89).
ValuesByPath ==
  cli # NoCli => Content(heap, cli.values) = ByPath(Documents)

\* The defaults of the chart never change, whatever is merged into the values
\* later (the copy NewReleaseCli makes, release.go:115).
ChartKept == heap["chart"] = Chart

\* A call that fails, in an applier or in helm, leaves the contents of
\* cli.values as they were (initValues, release.go:202-216).
RollbackOnError ==
  [][result' # "ok" =>
       Content(heap, cli.values)' = Content(heap, cli.values)]_vars
=============================================================================
