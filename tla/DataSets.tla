------------------------------ MODULE DataSets ------------------------------
(***************************************************************************)
(* The commands runkperf data configmap and runkperf data daemonset: add,  *)
(* delete and list of numbered sets of objects, run against one cluster    *)
(* by several users at a time.  ConfigMaps are created in groups of        *)
(* concurrent calls and deleted in batches of them; daemonsets one by one, *)
(* which is a group and a batch of one.                                    *)
(***************************************************************************)
EXTENDS Integers, Sequences, FiniteSets

CONSTANTS
  Users,        \* whoever runs a command
  ConfigMaps,   \* names of sets of configmaps
  DaemonSets,   \* names of sets of daemonsets
  Params,       \* [size, groupSize, total] an add may be given
  Batch,        \* how many configmaps are deleted at a time (300)
  MaxCommands   \* bound on the commands that are run

\* Sizes are numbers, and a set of configmaps is not one of daemonsets.
ASSUME DataAssumption ==
  /\ Params \subseteq [size : Nat, groupSize : Nat, total : Nat]
  /\ Batch \in Nat \ {0} /\ MaxCommands \in Nat
  /\ ConfigMaps \cap DaemonSets = {}

Sets == ConfigMaps \cup DaemonSets

VARIABLES
  objects,   \* what the cluster holds: [set, idx, size, owner]
  job,       \* the command of each user
  shown,     \* what the last list printed: [set, size, groupSize, total]
  left       \* the commands that may still be run

vars == <<objects, job, shown, left>>

\* A command: what it does, how far it is (the index its group starts at, or
\* how many of the listed ones are in batches before), which calls are under
\* way, whether one failed, whether no other command met it on its set, and
\* whether a delete did.
Idle == [op |-> "idle", set |-> "", p |-> [size |-> 0, groupSize |-> 0, total |-> 0],
         at |-> 0, calls |-> {}, failed |-> FALSE, listed |-> << >>, lone |-> TRUE,
         cleared |-> FALSE]

Active(u) == job[u].op \in {"add", "delete"}
Of(set) == {o \in objects : o.set = set}
At(set, i) == {o \in Of(set) : o.idx = i}

Jobs ==
  [op : {"idle", "add", "delete", "added", "deleted", "error"},
   set : Sets \cup {""}, p : [size : Nat, groupSize : Nat, total : Nat],
   at : Nat, calls : SUBSET Nat, failed : BOOLEAN, listed : Seq(Nat),
   lone : BOOLEAN, cleared : BOOLEAN]

TypeOK ==
  /\ objects \subseteq [set : Sets, idx : Nat, size : Nat, owner : Nat]
  /\ \A o, q \in objects : o.set = q.set /\ o.idx = q.idx => o = q
  /\ job \in [Users -> Jobs]
  /\ left \in 0..MaxCommands

Init ==
  /\ objects = {} /\ shown = {} /\ left = MaxCommands
  /\ job = [u \in Users |-> Idle]

\* A command starts, and meets those of others on its set; the traces of
\* commands that are over no longer count.
Start(u, new) ==
  LET met == {v \in Users \ {u} : Active(v) /\ job[v].set = new.set}
      stale == {v \in Users \ {u} : ~Active(v) /\ job[v].set = new.set}
  IN  job' = [v \in Users |->
                IF v = u
                  THEN [new EXCEPT !.lone = met = {},
                                   !.cleared = \E w \in met : job[w].op = "delete"]
                ELSE IF v \in met
                  THEN [job[v] EXCEPT !.lone = FALSE,
                                      !.cleared = @ \/ new.op = "delete"]
                ELSE IF v \in stale THEN Idle
                ELSE job[v]]

Refuse(u) == job' = [job EXCEPT ![u] = [Idle EXCEPT !.op = "error"]]

Launch == left > 0 /\ left' = left - 1

-----------------------------------------------------------------------------
(* add.                                                                    *)

checkConfigmapParams(p) ==
  p.size > 0 /\ p.groupSize > 0 /\ p.total > 0 /\ p.groupSize <= p.total

Group(p, i) == {j \in i..(i + p.groupSize - 1) : j < p.total}

\* The namespace cannot be prepared, or the calls of the first group go out.
AddTo(u, set, p) ==
  Refuse(u) \/ Start(u, [Idle EXCEPT !.op = "add", !.set = set, !.p = p,
                                     !.calls = Group(p, 0)])

AddConfigmaps(u, set, p) ==
  /\ ~Active(u) /\ Launch
  /\ IF checkConfigmapParams(p) THEN AddTo(u, set, p) ELSE Refuse(u)
  /\ UNCHANGED <<objects, shown>>

AddDaemonsets(u, set, count) ==
  /\ ~Active(u) /\ Launch
  /\ IF count > 0
       THEN AddTo(u, set, [size |-> 0, groupSize |-> 1, total |-> count])
       ELSE Refuse(u)
  /\ UNCHANGED <<objects, shown>>

\* A call is answered, well or with an error.
Answered(j, i, ok) == [j EXCEPT !.calls = @ \ {i}, !.failed = @ \/ ~ok]

Answer(u, i, ok) == job' = [job EXCEPT ![u] = Answered(job[u], i, ok)]

NewOwnIndex(u, i) ==
  [set |-> job[u].set, idx |-> i, size |-> job[u].p.size, owner |-> i]

New(u, i) ==
  [set |-> job[u].set, idx |-> i, size |-> job[u].p.size, owner |-> job[u].at]

CreateOrUpdate(u, i) ==
  /\ job[u].op = "add" /\ i \in job[u].calls
  /\ objects' = (objects \ At(job[u].set, i)) \cup {New(u, i)}
  /\ Answer(u, i, TRUE)
  /\ UNCHANGED <<shown, left>>

\* Creation fails for an object that exists; its answer may be lost.
Create(u, i) ==
  /\ job[u].op = "add" /\ i \in job[u].calls
  /\ \/ At(job[u].set, i) = {} /\ objects' = objects \cup {New(u, i)}
          /\ \E ok \in BOOLEAN : Answer(u, i, ok)
     \/ UNCHANGED objects /\ Answer(u, i, FALSE)
  /\ UNCHANGED <<shown, left>>

\* An error ends the command once the group is done; otherwise the next one.
GroupDone(u) ==
  LET j == job[u]
      next == j.at + j.p.groupSize
  IN  /\ j.op = "add" /\ j.calls = {}
      /\ job' = [job EXCEPT ![u] =
           IF j.failed THEN [j EXCEPT !.op = "error"]
           ELSE IF next >= j.p.total THEN [j EXCEPT !.op = "added"]
           ELSE [j EXCEPT !.at = next, !.calls = Group(j.p, next)]]
      /\ UNCHANGED <<objects, shown, left>>

-----------------------------------------------------------------------------
(* delete.                                                                 *)

\* Of numbers of up to two digits; beyond, the order below is still one of all
\* numbers, though not the API server's.
Digits(n) == IF n < 10 THEN <<n>> ELSE <<n \div 10, n % 10>>

\* The API server lists objects by name, which ends with the index in digits.
ByName(i, j) ==
  LET a == Digits(i)
      b == Digits(j)
  IN  a[1] < b[1] \/ (a[1] = b[1] /\ (Len(a) < Len(b) \/ (Len(a) = Len(b) /\ i < j)))

Before(names, i) == {j \in names : ByName(j, i)}

Sorted(names) ==
  [n \in 1..Cardinality(names) |->
     CHOOSE i \in names : Cardinality(Before(names, i)) = n - 1]

Listing(set) == Sorted({o.idx : o \in Of(set)})

BatchOf(set) == IF set \in DaemonSets THEN 1 ELSE Batch

BatchAt(set, names, i) ==
  {names[j] : j \in {k \in DOMAIN names : k > i /\ k <= i + BatchOf(set)}}

\* The list fails, or is empty, which is an error, or the calls of the first
\* batch go out.
Delete(u, set) ==
  /\ ~Active(u) /\ Launch
  /\ \/ Refuse(u)
     \/ /\ Of(set) # {}
        /\ Start(u, [Idle EXCEPT !.op = "delete", !.set = set,
                       !.listed = Listing(set),
                       !.calls = BatchAt(set, Listing(set), 0)])
  /\ UNCHANGED <<objects, shown>>

\* What is not found counts as deleted; the answer may be lost.
DeleteOne(u, i) ==
  /\ job[u].op = "delete" /\ i \in job[u].calls
  /\ \/ /\ objects' = objects \ At(job[u].set, i)
        /\ \E ok \in BOOLEAN : Answer(u, i, ok)
     \/ UNCHANGED objects /\ Answer(u, i, FALSE)
  /\ UNCHANGED <<shown, left>>

BatchDoneFirst(u) ==
  /\ job[u].op = "delete" /\ job[u].calls = {}
  /\ job' = [job EXCEPT ![u].op = IF job[u].failed THEN "error" ELSE "deleted"]
  /\ UNCHANGED <<objects, shown, left>>

BatchDone(u) ==
  LET j == job[u]
      next == j.at + BatchOf(j.set)
  IN  /\ j.op = "delete" /\ j.calls = {}
      /\ job' = [job EXCEPT ![u] =
           IF j.failed THEN [j EXCEPT !.op = "error"]
           ELSE IF next >= Len(j.listed) THEN [j EXCEPT !.op = "deleted"]
           ELSE [j EXCEPT !.at = next, !.calls = BatchAt(j.set, j.listed, next)]]
      /\ UNCHANGED <<objects, shown, left>>

-----------------------------------------------------------------------------
(* list.                                                                   *)

RowFirstOwner(set) ==
  LET names == Listing(set)
      first == CHOOSE o \in At(set, names[1]) : TRUE
  IN  [set |-> set, size |-> first.size, groupSize |-> first.owner,
       total |-> Len(names)]

\* The first owner but 0, in the order of the listing.
FirstOwner(owners) ==
  LET other == {i \in DOMAIN owners : owners[i] > 0}
  IN  IF other = {} THEN 0
      ELSE owners[CHOOSE i \in other : \A k \in other : i <= k]

\* The first object gives the size, the owners the group size.
Row(set) ==
  LET names == Listing(set)
      One(i) == CHOOSE o \in At(set, names[i]) : TRUE
  IN  [set |-> set, size |-> One(1).size,
       groupSize |-> FirstOwner([i \in DOMAIN names |-> One(i).owner]),
       total |-> Len(names)]

\* Daemonsets are counted by their names without the number at the end.
listDaemonsets(set) ==
  [set |-> set, size |-> 0, groupSize |-> 0, total |-> Cardinality(Of(set))]

List ==
  /\ Launch
  /\ shown' = {IF set \in DaemonSets THEN listDaemonsets(set) ELSE Row(set) :
                 set \in {s \in Sets : Of(s) # {}}}
  /\ UNCHANGED <<objects, job>>

-----------------------------------------------------------------------------
createConfigmaps(u) ==
  /\ job[u].set \in ConfigMaps
  /\ (\E i \in job[u].calls : Create(u, i)) \/ GroupDone(u)

createDaemonsets(u) ==
  /\ job[u].set \in DaemonSets
  /\ (\E i \in job[u].calls : Create(u, i)) \/ GroupDone(u)

deleteConfigmaps(u) ==
  /\ job[u].set \in ConfigMaps
  /\ (\E i \in job[u].calls : DeleteOne(u, i)) \/ BatchDone(u)

deleteDaemonsets(u) ==
  /\ job[u].set \in DaemonSets
  /\ (\E i \in job[u].calls : DeleteOne(u, i)) \/ BatchDone(u)

Work(u) ==
  \/ createConfigmaps(u) \/ createDaemonsets(u)
  \/ deleteConfigmaps(u) \/ deleteDaemonsets(u)

Over == left = 0 /\ UNCHANGED vars

Next ==
  \/ \E u \in Users :
       \/ \E set \in ConfigMaps, p \in Params : AddConfigmaps(u, set, p)
       \/ \E set \in DaemonSets, p \in Params : AddDaemonsets(u, set, p.total)
       \/ \E set \in Sets : Delete(u, set)
       \/ Work(u)
  \/ List
  \/ Over

Spec == Init /\ [][Next]_vars

-----------------------------------------------------------------------------
(* Properties.                                                             *)

\* An add that succeeds and that no other command met, before or after, has
\* made its whole set, every object in the group the label names
\* (configmap.go:274-314).
AddedIsComplete ==
  \A u \in Users : job[u].op = "added" /\ job[u].lone =>
    LET p == job[u].p
    IN  {[set |-> job[u].set, idx |-> i, size |-> p.size,
          owner |-> i - (i % p.groupSize)] : i \in 0..(p.total - 1)}
          \subseteq objects

\* Of two adds that met on a set at most one can succeed, unless a deletion
\* took away what the first one had made: what exists is never written over
\* (configmap.go:302-305).
OneAddWins ==
  \A u, v \in Users :
    /\ u # v /\ job[u].set = job[v].set
    /\ job[u].op = "added" /\ job[v].op = "added"
    => job[u].cleared \/ job[v].cleared

\* A deletion that succeeds and that no other command met has left nothing of
\* the set, however many batches it took (configmap.go:326-344).
DeletedIsGone ==
  \A u \in Users : job[u].op = "deleted" /\ job[u].lone => Of(job[u].set) = {}

\* What add and delete report is true.  Of a set no other command met: an add
\* has made all of it and a deletion has left nothing; of two adds that met, at
\* most one succeeds, unless a deletion came in between
\* (configmap.go:274-314, 326-344).
ReportedIsTrue == AddedIsComplete /\ DeletedIsGone /\ OneAddWins

\* A set of configmaps that one add made and nothing else has touched is listed
\* with the size, the group size and the total of that add, although the
\* group size is only guessed from the labels; it has to have two groups and
\* at most ten objects, beyond which names are not in the order of their
\* numbers (configmap.go:348-407).
ListShowsSet ==
  [][\A u \in Users :
       LET j == job[u]
       IN  /\ shown' # shown
           /\ j.op = "added" /\ j.lone /\ j.set \in ConfigMaps
           /\ Cardinality(Of(j.set)) = j.p.total
           /\ j.p.groupSize < j.p.total /\ j.p.total <= 10
           => [set |-> j.set, size |-> j.p.size, groupSize |-> j.p.groupSize,
               total |-> j.p.total] \in shown']_vars

-----------------------------------------------------------------------------
(* The inductive invariant, on the command j of a user and the command k   *)
(* of another one.                                                         *)

Adds(j) == j.op \in {"add", "added"}
Deletes(j) == j.op \in {"delete", "deleted"}

\* The indices an add has behind it.
Made(j) ==
  {i \in 0..(j.p.total - 1) : i < j.at + j.p.groupSize /\ i \notin j.calls}

\* Where a command is: an add at the start of a group, with calls of that group
\* only; one that has succeeded met no failure and came to the end.
Shape(j) ==
  /\ Adds(j) =>
       /\ j.set \in Sets /\ 0 < j.p.groupSize /\ 0 < j.p.total
       /\ j.at % j.p.groupSize = 0 /\ j.calls \subseteq Group(j.p, j.at)
  /\ j.op = "added" =>
       ~j.failed /\ j.calls = {} /\ j.p.total <= j.at + j.p.groupSize
  /\ Deletes(j) => j.set \in Sets
  /\ j.op = "deleted" =>
       ~j.failed /\ j.calls = {} /\ Len(j.listed) <= j.at + BatchOf(j.set)

\* What an add that met nobody has behind it is there, as it made it.
Whole(j, objs) ==
  Adds(j) /\ ~j.failed /\ j.lone =>
    \A i \in Made(j) :
      [set |-> j.set, idx |-> i, size |-> j.p.size,
       owner |-> i - (i % j.p.groupSize)] \in objs

\* What an add that no deletion met has behind it is there, from whomever.
Stands(j, objs) ==
  Adds(j) /\ ~j.failed /\ ~j.cleared =>
    \A i \in Made(j) : \E o \in objs : o.set = j.set /\ o.idx = i

\* What is left of a set under a deletion that met nobody is yet to come.
ToCome(j, i) ==
  \/ i \in j.calls
  \/ \E k \in 1..Len(j.listed) : k > j.at + BatchOf(j.set) /\ j.listed[k] = i

Leaves(j, objs) ==
  Deletes(j) /\ ~j.failed /\ j.lone =>
    \A o \in objs : o.set = j.set => ToCome(j, o.idx)

\* Whoever shares its set with a command under way knows of it.
Met(j, k) ==
  k.op \in {"add", "delete"} /\ j.set = k.set =>
    /\ Adds(j) \/ Deletes(j) => ~j.lone
    /\ Adds(j) /\ k.op = "delete" => j.cleared

\* Two adds of one set made none of its objects both.
Apart(j, k) ==
  /\ Adds(j) /\ ~j.failed /\ ~j.cleared
  /\ Adds(k) /\ ~k.failed /\ ~k.cleared
  /\ j.set = k.set
  => Made(j) \cap Made(k) = {}

Single(j, objs) == Shape(j) /\ Whole(j, objs) /\ Stands(j, objs) /\ Leaves(j, objs)
Pair(j, k) == Met(j, k) /\ Apart(j, k)

IInv ==
  /\ TypeOK
  /\ \A u \in Users : Single(job[u], objects)
  /\ \A u, v \in Users : u # v => Pair(job[u], job[v])

\* The cluster holds finitely many objects, so that they can be listed.
Finite == IsFiniteSet(objects)
=============================================================================
