---------------------------- MODULE LoadProfile ----------------------------
(***************************************************************************)
(* The load profile: what Validate accepts, and which requests the         *)
(* builders make of it.  A weighted request is a record of its shares and  *)
(* of the request types that are set, each with its fields; a body is one  *)
(* of "", "json", "padded" (JSON between spaces) and "text"; a delete      *)
(* ratio is in percent.                                                    *)
(***************************************************************************)
EXTENDS Integers, Sequences, FiniteSets, FiniteSetsExt, SequencesExt

Positions(order, set) == {i \in DOMAIN order : order[i] \in set}

\* The first of the cases of a switch whose type is set.
FirstSet(order, set) == order[Min(Positions(order, set))]

-----------------------------------------------------------------------------
(* Validation.                                                             *)

ContentTypeValidate(ct) == ct \in {"json", "protobuf"}

GVRValidate(s) == s.version # "" /\ s.resource # ""

ListValidate(s, stale) ==
  /\ GVRValidate(s)
  /\ s.limit >= 0
  /\ stale => s.limit = 0

WatchListValidate(s) == GVRValidate(s)

GetValidate(s) == GVRValidate(s) /\ s.name # ""

PutValidate(s) ==
  /\ GVRValidate(s)
  /\ s.group \in {"", "core"} /\ s.version = "v1" /\ s.resource = "configmaps"
  /\ s.name # "" /\ s.keySpaceSize > 0 /\ s.payloadSize > 0

GetPodLogValidate(s) == s.namespace # "" /\ s.name # ""

GetPatchType(t) ==
  CASE t = "json" -> "JSONPatchType"
    [] t = "merge" -> "MergePatchType"
    [] t = "strategic-merge" -> "StrategicMergePatchType"
    [] OTHER -> ""

PatchValidate(s) ==
  /\ GVRValidate(s)
  /\ s.name # "" /\ s.body # ""
  /\ GetPatchType(s.patchType) # ""
  /\ s.body \in {"json", "padded"}

\* Validation keeps the body without the spaces around it.
Trimmed(s) == IF s.body = "padded" THEN [s EXCEPT !.body = "json"] ELSE s

PostDelValidate(s) ==
  /\ GVRValidate(s)
  /\ s.deleteRatio \in 0..50
  /\ s.payloadSize >= 0

TypeValidate(type, s) ==
  CASE type = "StaleList" -> ListValidate(s, TRUE)
    [] type = "QuorumList" -> ListValidate(s, FALSE)
    [] type = "WatchList" -> WatchListValidate(s)
    [] type \in {"StaleGet", "QuorumGet"} -> GetValidate(s)
    [] type = "Put" -> PutValidate(s)
    [] type = "Patch" -> PatchValidate(s)
    [] type = "GetPodLog" -> GetPodLogValidate(s)
    [] type = "PostDel" -> PostDelValidate(s)

validateOrder ==
  <<"StaleList", "QuorumList", "WatchList", "StaleGet", "QuorumGet", "Put",
    "Patch", "GetPodLog", "PostDel">>

RequestValidate(r) ==
  /\ r.shares >= 0
  /\ DOMAIN r.type # {}
  /\ LET type == FirstSet(validateOrder, DOMAIN r.type)
     IN  TypeValidate(type, r.type[type])

RequestTrimmed(r) ==
  IF DOMAIN r.type # {} /\ FirstSet(validateOrder, DOMAIN r.type) = "Patch"
    THEN [r EXCEPT !.type["Patch"] = Trimmed(@)] ELSE r

SpecTrimmed(spec) ==
  [spec EXCEPT !.requests =
     [i \in DOMAIN @ |-> RequestTrimmed(spec.requests[i])]]

SpecValidate(spec) ==
  /\ spec.conns > 0
  /\ spec.rate >= 0
  /\ spec.total > 0 \/ spec.duration > 0
  /\ spec.client > 0
  /\ ContentTypeValidate(spec.contentType)
  /\ \A i \in DOMAIN spec.requests : RequestValidate(spec.requests[i])

ProfileValidate(lp) ==
  /\ lp.version = 1
  /\ Len(lp.specs) # 0
  /\ \A i \in DOMAIN lp.specs : SpecValidate(lp.specs[i])

-----------------------------------------------------------------------------
(* The builders.  A request has a method, the components of its path, what *)
(* tells the API server about freshness and pages, and the random number   *)
(* that ends the name in the path, -1 if none does.                        *)

\* AbsPath joins the components, and an empty one leaves no trace.
AbsPath(comps) == SelectSeq(comps, LAMBDA c : c # "")

groupPathAlwaysScoped(s) ==
  (IF s.group = "" THEN <<"api", s.version>> ELSE <<"apis", s.group, s.version>>)
    \o <<"namespaces", s.namespace>>

groupPath(s) ==
  (IF s.group = "" THEN <<"api", s.version>> ELSE <<"apis", s.group, s.version>>)
    \o (IF s.namespace = "" THEN << >> ELSE <<"namespaces", s.namespace>>)

Request(method, comps, options, suffix) ==
  [method |-> method, path |-> AbsPath(comps), options |-> options,
   suffix |-> suffix]

requestGetBuilder(s, resourceVersion) ==
  Request("GET", groupPath(s) \o <<s.resource, s.name>>,
          <<resourceVersion>>, -1)

requestListBuilder(s, resourceVersion) ==
  Request("LIST", groupPath(s) \o <<s.resource>>,
          <<resourceVersion, s.limit>>, -1)

requestWatchListBuilder(s) ==
  Request("WATCHLIST", groupPath(s) \o <<s.resource>>,
          <<"", "watch", "initial", "bookmarks">>, -1)

requestGetPodLogBuilder(s) ==
  Request("POD_LOG",
          <<"api", "v1", "namespaces", s.namespace, "pods", s.name, "log">>,
          << >>, -1)

requestPatchBuilder(s, rnd) ==
  Request("PATCH", groupPath(s) \o <<s.resource, s.name>>,
          <<GetPatchType(s.patchType), s.body>>, rnd)

requestPutBuilder(s, rnd) ==
  Request("PUT",
          <<"api", s.version, "namespaces", s.namespace, s.resource, s.name>>,
          << >>, rnd)

\* Deletion, whose name comes from the cache, or creation (PostDel).
requestPostDelBuilder(s, cached) ==
  IF cached = "" THEN Request("POST", groupPath(s) \o <<s.resource>>, << >>, -1)
                 ELSE Request("DELETE", groupPath(s) \o <<s.resource, cached>>,
                              << >>, -1)

MaskedURLSuffixOnly(req) == [req EXCEPT !.suffix = -1]

\* The name of an object that is changed is masked; the suffix goes with it.
MaskedURL(req) ==
  IF req.method \in {"DELETE", "PATCH", "PUT"}
    THEN [req EXCEPT !.path = Append(Front(@), ":name"), !.suffix = -1]
    ELSE req

buildOrder ==
  <<"StaleList", "QuorumList", "WatchList", "StaleGet", "QuorumGet",
    "GetPodLog", "Patch", "PostDel", "Put">>

\* The type NewWeightedRandomRequests makes a builder for.
BuilderType(r) == FirstSet(buildOrder, DOMAIN r.type)

\* What can be drawn for the suffix; a draw from an empty range panics.
KeySpace(type, s) ==
  IF type \in {"Patch", "Put"} THEN 0..(s.keySpaceSize - 1) ELSE {-1}

\* The resources that RenderTemplate has a body for.
templatePaths == {"pods"}

\* Only a body without a template cannot be built.
Renders(type, s, cached) ==
  type = "PostDel" /\ cached = "" => s.resource \in templatePaths

Build(type, s, rnd, cached) ==
  CASE type = "StaleList" -> requestListBuilder(s, "0")
    [] type = "QuorumList" -> requestListBuilder(s, "")
    [] type = "WatchList" -> requestWatchListBuilder(s)
    [] type = "StaleGet" -> requestGetBuilder(s, "0")
    [] type = "QuorumGet" -> requestGetBuilder(s, "")
    [] type = "GetPodLog" -> requestGetPodLogBuilder(s)
    [] type = "Patch" -> requestPatchBuilder(s, rnd)
    [] type = "PostDel" -> requestPostDelBuilder(s, cached)
    [] type = "Put" -> requestPutBuilder(s, rnd)

-----------------------------------------------------------------------------
(* The weighted draw.                                                      *)

ShareSum(shares) == FoldSeq(LAMBDA x, y : x + y, 0, shares)

randomPickAtMost(shares, rnd) ==
  Min({i \in DOMAIN shares : rnd <= ShareSum(SubSeq(shares, 1, i))})

\* The request that is picked for the number rnd below the sum.
randomPick(shares, rnd) ==
  Min({i \in DOMAIN shares : rnd < ShareSum(SubSeq(shares, 1, i))})
=============================================================================
