------------------------------ MODULE Requests ------------------------------
(***************************************************************************)
(* From a load profile spec to the requests of a run: the spec is          *)
(* validated, a builder is made for each of its requests, and again and    *)
(* again one is picked by weight and builds a request.                     *)
(***************************************************************************)
EXTENDS LoadProfile

CONSTANTS
  Specs,    \* the specs that are tried
  Cached    \* the names the cache of PostDel may hold, with "" for none

VARIABLES
  spec,     \* the load profile spec
  phase,    \* given, rejected, ready, picked, built, panicked
  pick,     \* the index of the request that was picked
  name,     \* what PostDel took from its cache
  req       \* the request that was built

vars == <<spec, phase, pick, name, req>>

NoRequest == [method |-> "", path |-> << >>, options |-> << >>, suffix |-> -1]

TypeOK ==
  /\ \E s \in Specs : spec \in {s, SpecTrimmed(s)}
  /\ phase \in {"given", "rejected", "ready", "picked", "built", "panicked"}
  /\ pick \in 0..Len(spec.requests)
  /\ name \in Cached
  /\ req.suffix >= -1

shares == [i \in DOMAIN spec.requests |-> spec.requests[i].shares]
Picked == spec.requests[pick]
PickedType == BuilderType(Picked)
PickedSpec == Picked.type[PickedType]

Init ==
  /\ spec \in Specs
  /\ phase = "given" /\ pick = 0 /\ name = "" /\ req = NoRequest

NewWeightedRandomRequests ==
  /\ phase = "given"
  /\ IF SpecValidate(spec)
       THEN phase' = "ready" /\ spec' = SpecTrimmed(spec)
       ELSE phase' = "rejected" /\ UNCHANGED spec
  /\ UNCHANGED <<pick, name, req>>

\* The draw below a sum of zero panics.
Pick ==
  /\ phase \in {"ready", "built"}
  /\ IF ShareSum(shares) = 0
       THEN phase' = "panicked" /\ UNCHANGED pick
       ELSE /\ phase' = "picked"
            /\ \E rnd \in 0..(ShareSum(shares) - 1) :
                 pick' = randomPick(shares, rnd)
  /\ req' = NoRequest
  /\ UNCHANGED <<spec, name>>

BuildRequest ==
  /\ phase = "picked"
  /\ name' \in IF PickedType = "PostDel" /\ PickedSpec.deleteRatio > 0
              THEN Cached ELSE {""}
  /\ IF /\ KeySpace(PickedType, PickedSpec) # {}
        /\ Renders(PickedType, PickedSpec, name')
       THEN /\ phase' = "built"
            /\ \E rnd \in KeySpace(PickedType, PickedSpec) :
                 req' = Build(PickedType, PickedSpec, rnd, name')
       ELSE phase' = "panicked" /\ UNCHANGED req
  /\ UNCHANGED <<spec, pick>>

Over == phase \in {"rejected", "panicked"} /\ UNCHANGED vars

Next == NewWeightedRandomRequests \/ Pick \/ BuildRequest \/ Over

Spec == Init /\ [][Next]_vars

-----------------------------------------------------------------------------
(* Properties.                                                             *)

\* Of the numbers that may be drawn exactly as many pick a request as it has
\* shares, so that 1000 of 2000 shares are a chance of one half and a request
\* without shares is never sent (random.go:113-133).
PickByWeight ==
  phase \in {"ready", "built"} =>
    \A i \in DOMAIN shares :
      Cardinality({rnd \in 0..(ShareSum(shares) - 1) :
                     randomPick(shares, rnd) = i}) = shares[i]

\* How the API server reads the path of a request (external).
Target(path) ==
  LET rest == SubSeq(path, IF path[1] = "api" THEN 3 ELSE 4, Len(path))
      scoped == Len(rest) > 2 /\ rest[1] = "namespaces"
      what == IF scoped THEN SubSeq(rest, 3, Len(rest)) ELSE rest
  IN  [group |-> IF path[1] = "api" THEN "" ELSE path[2],
       namespace |-> IF scoped THEN rest[2] ELSE "",
       resource |-> what[1],
       name |-> IF Len(what) > 1 THEN what[2] ELSE ""]

\* What the profile asks for.
Asked ==
  [group |-> IF PickedType \in {"GetPodLog", "Put"} THEN "" ELSE PickedSpec.group,
   namespace |-> PickedSpec.namespace,
   resource |-> IF PickedType = "GetPodLog" THEN "pods" ELSE PickedSpec.resource,
   name |-> CASE PickedType \in {"StaleList", "QuorumList", "WatchList"} -> ""
              [] PickedType = "PostDel" -> name
              [] OTHER -> PickedSpec.name]

\* Every request that is built from a spec that was accepted reaches the
\* object or the collection the profile names: the API server reads from the
\* joined path what the builder was given (random.go:173-613).
BuiltAsAsked == phase = "built" => Target(req.path) = Asked

\* The metrics have one key per request of the profile, however many objects
\* it changes: the key depends neither on the random suffix nor on the name
\* taken from the cache, and still tells the resources apart
\* (requester.go:43-56).
KeyPerRequest ==
  phase = "built" /\ req.method \in {"PATCH", "PUT", "DELETE"} =>
    /\ \A rnd \in KeySpace(PickedType, PickedSpec), n \in Cached \ {""} :
         MaskedURL(Build(PickedType, PickedSpec, rnd, n)).path
           = MaskedURL(req).path
    /\ Target(MaskedURL(req).path).resource = Asked.resource
=============================================================================
