------------------------------ MODULE PostDel ------------------------------
(***************************************************************************)
(* The POST/DELETE load: requestPostDelBuilder and its cache of the names  *)
(* it has created, used by the workers of Schedule, against an API server  *)
(* whose answers may be lost or come too late.  A DELETE takes a name out  *)
(* of the cache when it is built; PostDelDiscardRequester.Do puts a name   *)
(* back, or in, when the answer is known.                                  *)
(***************************************************************************)
EXTENDS Naturals, Sequences

CONSTANTS
  Workers,   \* the goroutines of Schedule
  MaxNames,  \* bound on the names that are made up
  None

ASSUME BoundsAssumption == MaxNames \in Nat
ASSUME NoneAssumption == None \notin [op : {"POST", "DELETE"}, name : Nat]

VARIABLES
  cache,      \* Cache.items, the front first
  counter,    \* resourceCounter; the name of a resource is its value
  pc,         \* where each worker is
  held,       \* the request each worker has built
  result,     \* what the API server has done with a request that was sent
  late,       \* requests under way whose sender has given up
  objects,    \* the resources that exist
  made,       \* the resources that have existed
  untracked   \* names given up: a POST that failed, a DELETE never sent

server == <<late, objects, made>>
vars == <<cache, counter, pc, held, result, late, objects, made, untracked>>

Request == [op : {"POST", "DELETE"}, name : Nat]
Names(s) == {s[i] : i \in DOMAIN s}
Distinct(s) == \A i, j \in DOMAIN s : s[i] = s[j] => i = j
Holds(w, n) == held[w] # None /\ held[w].name = n
Deleting(w) == held[w] # None /\ held[w].op = "DELETE"

TypeOK ==
  /\ cache \in Seq(Nat)
  /\ counter \in Nat
  /\ pc \in [Workers -> {"idle", "built", "sent", "answered", "gone"}]
  /\ held \in [Workers -> Request \cup {None}]
  /\ \A w \in Workers : held[w] = None <=> pc[w] \in {"idle", "gone"}
  /\ result \in [Workers -> {"none", "ok", "error"}]
  /\ late \subseteq Request
  /\ objects \subseteq Nat /\ made \subseteq Nat /\ untracked \subseteq Nat

Init ==
  /\ cache = << >>
  /\ counter = 0
  /\ pc = [w \in Workers |-> "idle"]
  /\ held = [w \in Workers |-> None]
  /\ result = [w \in Workers |-> "none"]
  /\ late = {} /\ objects = {} /\ made = {} /\ untracked = {}

-----------------------------------------------------------------------------
(* Build, the limiter and the request.                                     *)

\* The draw said POST, or the cache was empty.
BuildPost(w) ==
  /\ pc[w] = "idle"
  /\ counter < MaxNames
  /\ counter' = counter + 1
  /\ held' = [held EXCEPT ![w] = [op |-> "POST", name |-> counter + 1]]
  /\ pc' = [pc EXCEPT ![w] = "built"]
  /\ UNCHANGED <<cache, result, server, untracked>>

BuildDeletePeek(w) ==
  /\ pc[w] = "idle"
  /\ cache # << >>
  /\ held' = [held EXCEPT ![w] = [op |-> "DELETE", name |-> Head(cache)]]
  /\ pc' = [pc EXCEPT ![w] = "built"]
  /\ UNCHANGED <<cache, counter, result, server, untracked>>

\* The draw said DELETE and Pop gave a name.
BuildDelete(w) ==
  /\ pc[w] = "idle"
  /\ cache # << >>
  /\ cache' = Tail(cache)
  /\ held' = [held EXCEPT ![w] = [op |-> "DELETE", name |-> Head(cache)]]
  /\ pc' = [pc EXCEPT ![w] = "built"]
  /\ UNCHANGED <<counter, result, server, untracked>>

\* Schedule drops the request and the worker quits.
LimiterFail(w) ==
  /\ pc[w] = "built"
  /\ untracked' = untracked \cup {held[w].name}
  /\ held' = [held EXCEPT ![w] = None]
  /\ pc' = [pc EXCEPT ![w] = "gone"]
  /\ UNCHANGED <<cache, counter, result, server>>

Send(w) ==
  /\ pc[w] = "built"
  /\ pc' = [pc EXCEPT ![w] = "sent"]
  /\ UNCHANGED <<cache, counter, held, result, server, untracked>>

\* The API server creates the resource, or deletes it if it is there.
CarryOut(q) ==
  /\ objects' = IF q.op = "POST" THEN objects \cup {q.name}
                ELSE objects \ {q.name}
  /\ made' = IF q.op = "POST" THEN made \cup {q.name} ELSE made

Accept(w) ==
  /\ pc[w] = "sent"
  /\ CarryOut(held[w])
  /\ result' = [result EXCEPT ![w] =
                  IF Deleting(w) /\ held[w].name \notin objects
                  THEN "error" ELSE "ok"]
  /\ pc' = [pc EXCEPT ![w] = "answered"]
  /\ UNCHANGED <<cache, counter, held, late, untracked>>

Reject(w) ==
  /\ pc[w] = "sent"
  /\ result' = [result EXCEPT ![w] = "error"]
  /\ pc' = [pc EXCEPT ![w] = "answered"]
  /\ UNCHANGED <<cache, counter, held, server, untracked>>

AcceptLate(q) ==
  /\ q \in late
  /\ late' = late \ {q}
  /\ CarryOut(q)
  /\ UNCHANGED <<cache, counter, pc, held, result, untracked>>

-----------------------------------------------------------------------------
(* PostDelDiscardRequester.Do, when DiscardRequester.Do has returned.      *)

\* A worker is through with its request.
Through(w) ==
  /\ held' = [held EXCEPT ![w] = None]
  /\ result' = [result EXCEPT ![w] = "none"]
  /\ pc' = [pc EXCEPT ![w] = "idle"]
  /\ UNCHANGED counter

DoSucceeded(w) ==
  /\ pc[w] = "answered"
  /\ result[w] = "ok"
  /\ cache' = IF Deleting(w) THEN cache ELSE Append(cache, held[w].name)
  /\ Through(w)
  /\ UNCHANGED <<server, untracked>>

FailWithoutRestore(w) ==
  /\ UNCHANGED <<cache, untracked>>

\* err # nil: a POST is forgotten, the name of a DELETE goes back.
Fail(w) ==
  /\ cache' = IF Deleting(w) THEN Append(cache, held[w].name) ELSE cache
  /\ untracked' = IF Deleting(w) THEN untracked
                  ELSE untracked \cup {held[w].name}

\* The API server refused, or its answer was lost.
DoFailed(w) ==
  /\ pc[w] = "answered"
  /\ Fail(w)
  /\ Through(w)
  /\ UNCHANGED server

\* The timeout of the request; the API server may carry it out later.
DoTimeout(w) ==
  /\ pc[w] = "sent"
  /\ late' = late \cup {held[w]}
  /\ Fail(w)
  /\ Through(w)
  /\ UNCHANGED <<objects, made>>

Work(w) ==
  \/ BuildPost(w) \/ BuildDelete(w) \/ LimiterFail(w) \/ Send(w)
  \/ Accept(w) \/ Reject(w)
  \/ DoSucceeded(w) \/ DoFailed(w) \/ DoTimeout(w)

Next ==
  \/ \E w \in Workers : Work(w)
  \/ \E q \in late : AcceptLate(q)

Spec == Init /\ [][Next]_vars

-----------------------------------------------------------------------------
(* Properties.                                                             *)

\* A name has one owner: it is in the cache once, or one worker holds it.
\* Two workers never delete the same resource at the same time, however
\* failed deletes put names back (random.go:474-492, 536-549).
OneOwner ==
  /\ Distinct(cache)
  /\ \A w \in Workers : held[w] # None => held[w].name \notin Names(cache)
  /\ \A v, w \in Workers : held[w] # None /\ Holds(v, held[w].name) => v = w

\* A DELETE is sent only for a resource that has existed: a name gets into the
\* cache when its POST was answered with success (random.go:538-542).
DeletesWereMade ==
  /\ Names(cache) \subseteq made
  /\ \A w \in Workers : Deleting(w) => held[w].name \in made

\* A resource that exists is in the cache or in the hands of a worker,
\* unless it was given up: its POST failed, or its DELETE was not sent
\* (random.go:526-552, schedule.go:68-72).
NothingForgotten ==
  \A n \in objects :
    n \in Names(cache) \cup untracked \/ \E w \in Workers : Holds(w, n)

-----------------------------------------------------------------------------
(* What the invariants above rest on.                                      *)

\* Names are made up in order: every name in use is at most the counter.
NamesAreOld ==
  /\ \A n \in Names(cache) : n <= counter
  /\ \A w \in Workers : held[w] # None => held[w].name <= counter
  /\ \A q \in late : q.name <= counter

\* The name of a POST that timed out was given up and is nowhere else.
LatePostsGivenUp ==
  \A q \in late : q.op = "POST" =>
    /\ q.name \in untracked
    /\ q.name \notin Names(cache)
    /\ \A w \in Workers : ~Holds(w, q.name)

\* A request that succeeded has had its effect, and nothing undid it.
SuccessIsReal ==
  \A w \in Workers : pc[w] = "answered" /\ result[w] = "ok" =>
    IF Deleting(w) THEN held[w].name \notin objects ELSE held[w].name \in made

IInv ==
  /\ TypeOK /\ OneOwner /\ DeletesWereMade /\ NothingForgotten
  /\ NamesAreOld /\ LatePostsGivenUp /\ SuccessIsReal
=============================================================================
