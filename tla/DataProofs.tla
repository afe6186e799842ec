---------------------------- MODULE DataProofs ------------------------------
(***************************************************************************)
(* Proofs about the data commands, for any users, sets, parameters and     *)
(* batch size: what add and delete report is true, and list shows a set as *)
(* it was added.  The invariant says of every command where it is and what *)
(* it has behind it, and of every two commands on one set that they know   *)
(* of each other.                                                          *)
(***************************************************************************)
EXTENDS DataSets, TLAPS

-----------------------------------------------------------------------------
(* Numbers.                                                                *)

\* A multiple of a number that is less than another multiple is less by at
\* least that number.
LEMMA Product ==
  ASSUME NEW a \in Int, NEW b \in Int, NEW g \in Nat, a < b
  PROVE  a * g + g <= b * g
<1>1. PICK d \in Nat : b = a + 1 + d
  <2>1. b - a - 1 \in Nat /\ b = a + 1 + (b - a - 1)
    OBVIOUS
  <2>2. QED
    BY <2>1
<1>2. b * g = a * g + g + d * g /\ d * g >= 0
  BY <1>1
<1>3. QED
  BY <1>2

\* Quotient and remainder are unique.
LEMMA Remainder ==
  ASSUME NEW g \in Nat, g > 0, NEW x \in Nat, NEW q \in Int,
         NEW r \in 0..(g - 1), x = q * g + r
  PROVE  x % g = r
<1>1. PICK p \in Int : x = p * g + (x % g)
  BY SMT
<1>2. x % g \in 0..(g - 1)
  BY SMT
<1>3. ~(p < q)
  <2>1. ASSUME p < q PROVE FALSE
    <3>1. p * g + g <= q * g
      BY <2>1, Product
    <3>2. QED
      BY <1>1, <1>2, <3>1
  <2>2. QED
    BY <2>1
<1>4. ~(q < p)
  <2>1. ASSUME q < p PROVE FALSE
    <3>1. q * g + g <= p * g
      BY <2>1, Product
    <3>2. QED
      BY <1>1, <1>2, <3>1
  <2>2. QED
    BY <2>1
<1>5. QED
  BY <1>1, <1>2, <1>3, <1>4

\* A number without remainder is a multiple.
LEMMA Multiple ==
  ASSUME NEW g \in Nat, g > 0, NEW x \in Nat, x % g = 0
  PROVE  \E q \in Int : x = q * g
<1>1. PICK q \in Int : x = q * g + (x % g)
  BY SMT
<1>2. QED
  BY <1>1

\* The group of an index starts at the multiple of the group size before it.
LEMMA GroupStart ==
  ASSUME NEW g \in Nat, g > 0, NEW at \in Nat, at % g = 0,
         NEW i \in Nat, at <= i, i < at + g
  PROVE  i - (i % g) = at
<1>1. PICK q \in Int : at = q * g
  BY Multiple, Zenon
<1>2. i - at \in 0..(g - 1) /\ i = q * g + (i - at)
  BY <1>1
<1>3. i % g = i - at
  BY <1>2, Remainder, SMTT(40)
<1>4. QED
  BY <1>3

\* The next group starts at a multiple too.
LEMMA NextGroup ==
  ASSUME NEW g \in Nat, g > 0, NEW at \in Nat, at % g = 0
  PROVE  (at + g) % g = 0
<1>1. PICK q \in Int : at = q * g
  BY Multiple
<1>2. /\ q + 1 \in Int /\ at + g = (q + 1) * g + 0
      /\ 0 \in 0..(g - 1) /\ at + g \in Nat
  BY <1>1
<1>3. QED
  BY <1>2, Remainder, SMTT(20)

-----------------------------------------------------------------------------
(* Commands.                                                               *)

\* No command, and one that was refused, are commands.
LEMMA IdleType == Idle \in Jobs /\ [Idle EXCEPT !.op = "error"] \in Jobs
<1>1. << >> \in Seq(Nat) /\ {} \in SUBSET Nat
  OBVIOUS
<1>2. QED
  BY <1>1, Zenon DEF Idle, Jobs

\* A command that is not running and has not succeeded says nothing.
LEMMA Quiet ==
  ASSUME NEW j, j.op \in {"idle", "error"}
  PROVE  /\ \A objs : Single(j, objs)
         /\ \A k : Pair(j, k) /\ Pair(k, j)
  BY DEF Single, Pair, Shape, Whole, Stands, Leaves, Met, Apart, Adds, Deletes

\* A step of a command as others see it: it may end.
Follows(j, k) ==
  /\ k.set = j.set /\ k.lone = j.lone /\ k.cleared = j.cleared
  /\ \/ k.op = j.op
     \/ j.op = "add" /\ k.op \in {"added", "error"}
     \/ j.op = "delete" /\ k.op \in {"deleted", "error"}

\* Those who knew of a command still do after its step.
LEMMA MetKept ==
  ASSUME NEW j, NEW k, NEW l, Follows(j, k), Met(j, l), Met(l, j)
  PROVE  Met(k, l) /\ Met(l, k)
  BY DEF Follows, Met, Adds, Deletes

\* It has made nothing new, or has failed.
LEMMA ApartKept ==
  ASSUME NEW j, NEW k, NEW l, Follows(j, k), Apart(j, l), Apart(l, j),
         ~k.failed => ~j.failed /\ Made(k) \subseteq Made(j)
  PROVE  Apart(k, l) /\ Apart(l, k)
<1>1. Apart(k, l)
  BY DEF Follows, Apart, Adds
<1>2. Apart(l, k)
  BY DEF Follows, Apart, Adds
<1>3. QED
  BY <1>1, <1>2

\* A command goes one step.
LEMMA Update ==
  ASSUME IInv, NEW u \in Users, NEW j \in Jobs, job' = [job EXCEPT ![u] = j],
         /\ objects' \subseteq [set : Sets, idx : Nat, size : Nat, owner : Nat]
         /\ \A o, q \in objects' : o.set = q.set /\ o.idx = q.idx => o = q
         /\ left' \in 0..MaxCommands,
         Single(j, objects'),
         \A v \in Users \ {u} :
           /\ Whole(job[v], objects') /\ Stands(job[v], objects')
           /\ Leaves(job[v], objects')
           /\ Pair(j, job[v]) /\ Pair(job[v], j)
  PROVE  IInv'
<1>1. job \in [Users -> Jobs]
  BY DEF IInv, TypeOK
<1>2. job' \in [Users -> Jobs]
  BY <1>1
<1>3. job'[u] = j /\ \A v \in Users \ {u} : job'[v] = job[v]
  BY <1>1
<1>4. TypeOK'
  BY <1>2 DEF TypeOK
<1>5. ASSUME NEW v \in Users PROVE Single(job'[v], objects')
  BY <1>3 DEF IInv, Single
<1>6. ASSUME NEW v \in Users, NEW w \in Users, v # w PROVE Pair(job'[v], job'[w])
  BY <1>3, <1>6 DEF IInv
<1>7. QED
  BY <1>4, <1>5, <1>6 DEF IInv

\* An answer changes the calls and the failure only.
LEMMA AnsweredIs ==
  ASSUME NEW j \in Jobs, NEW i \in j.calls, NEW ok \in BOOLEAN
  PROVE  LET k == Answered(j, i, ok)
         IN  /\ k \in Jobs /\ Follows(j, k)
             /\ k.op = j.op /\ k.set = j.set /\ k.p = j.p /\ k.at = j.at
             /\ k.listed = j.listed /\ k.calls = j.calls \ {i}
             /\ k.failed <=> (j.failed \/ ~ok)
  BY Zenon DEF Answered, Jobs, Follows

\* An answer leaves a command where it is.
LEMMA AnsweredShape ==
  ASSUME NEW j \in Jobs, NEW i \in j.calls, NEW ok \in BOOLEAN, Shape(j)
  PROVE  Shape(Answered(j, i, ok))
<1>1. j.op # "added" /\ j.op # "deleted"
  BY DEF Shape
<1>2. QED
  BY <1>1, AnsweredIs DEF Shape, Adds, Deletes

\* Only the call that is answered well is done.
LEMMA AnsweredMade ==
  ASSUME NEW j \in Jobs, NEW i \in j.calls, NEW ok \in BOOLEAN
  PROVE  Made(Answered(j, i, ok)) \subseteq Made(j) \cup {i}
  BY AnsweredIs DEF Made

\* A failed call is noted, and says no more.
LEMMA AnsweredBadly ==
  ASSUME NEW j \in Jobs, NEW i \in j.calls, Shape(j), NEW objs
  PROVE  /\ Single(Answered(j, i, FALSE), objs)
         /\ \A l : Pair(j, l) /\ Pair(l, j) =>
              Pair(Answered(j, i, FALSE), l) /\ Pair(l, Answered(j, i, FALSE))
<1>1. LET k == Answered(j, i, FALSE) IN k.failed /\ Follows(j, k) /\ Shape(k)
  BY AnsweredIs, AnsweredShape, Zenon
<1>2. QED
  BY <1>1, MetKept, ApartKept, Zenon DEF Single, Whole, Stands, Leaves, Pair

-----------------------------------------------------------------------------
(* add.                                                                    *)

\* The objects of a set grow by one; only a deletion that met nobody would
\* mind.
LEMMA Grown ==
  ASSUME NEW j, NEW objs, NEW o, Whole(j, objs), Stands(j, objs), Leaves(j, objs),
         NEW k, k.op = "add", o.set = k.set, Met(j, k)
  PROVE  /\ Whole(j, objs \cup {o}) /\ Stands(j, objs \cup {o})
         /\ Leaves(j, objs \cup {o})
<1>1. Whole(j, objs \cup {o})
  BY DEF Whole
<1>2. Stands(j, objs \cup {o})
  BY DEF Stands
<1>3. Leaves(j, objs \cup {o})
  BY DEF Leaves, Met
<1>4. QED
  BY <1>1, <1>2, <1>3

\* An object is made that was not there.
LEMMA ObjectMade ==
  ASSUME IInv, NEW u \in Users, NEW i \in job[u].calls, job[u].op = "add",
         At(job[u].set, i) = {}, objects' = objects \cup {New(u, i)}
  PROVE  /\ objects' \subseteq [set : Sets, idx : Nat, size : Nat, owner : Nat]
         /\ \A o, q \in objects' : o.set = q.set /\ o.idx = q.idx => o = q
<1>1. job[u] \in Jobs /\ job[u].set \in Sets
  BY DEF IInv, TypeOK, Single, Shape, Adds
<1>2. New(u, i) \in [set : Sets, idx : Nat, size : Nat, owner : Nat]
  BY <1>1, Zenon DEF New, Jobs
<1>3. New(u, i).set = job[u].set /\ New(u, i).idx = i
  BY DEF New
<1>4. \A o \in objects : ~(o.set = job[u].set /\ o.idx = i)
  BY DEF At, Of
<1>6. \A o, q \in objects' : o.set = q.set /\ o.idx = q.idx => o = q
  BY <1>3, <1>4 DEF IInv, TypeOK
<1>7. QED
  BY <1>2, <1>6 DEF IInv, TypeOK

\* The object carries the label of its group.
LEMMA NewIs ==
  ASSUME IInv, NEW u \in Users, NEW i \in job[u].calls, job[u].op = "add"
  PROVE  New(u, i) = [set |-> job[u].set, idx |-> i, size |-> job[u].p.size,
                      owner |-> i - (i % job[u].p.groupSize)]
<1>1. job[u] \in Jobs /\ Shape(job[u])
  BY DEF IInv, TypeOK, Single
<1>2. /\ job[u].p.groupSize \in Nat /\ job[u].p.total \in Nat
      /\ job[u].at \in Nat /\ i \in Nat
  BY <1>1, Zenon DEF Jobs
<1>3. /\ 0 < job[u].p.groupSize /\ job[u].at % job[u].p.groupSize = 0
      /\ i \in Group(job[u].p, job[u].at)
  BY <1>1 DEF Shape, Adds
<1>4. job[u].at <= i /\ i < job[u].at + job[u].p.groupSize
  BY <1>2, <1>3 DEF Group
<1>5. i - (i % job[u].p.groupSize) = job[u].at
  BY <1>2, <1>3, <1>4, GroupStart, Zenon
<1>6. QED
  BY <1>5 DEF New

\* A call of an add is answered.  What it made is in the group of its label, and
\* no other add has made it; what failed, or whose answer is lost, only says that
\* the add will fail.
LEMMA CreateStep ==
  ASSUME IInv, NEW u \in Users, NEW i \in job[u].calls, Create(u, i)
  PROVE  IInv'
<1> DEFINE j == job[u]
<1>1. /\ j \in Jobs /\ j.op = "add"
      /\ Shape(j) /\ Whole(j, objects) /\ Stands(j, objects)
  BY DEF IInv, TypeOK, Single, Create
<1>2. \A v \in Users \ {u} :
        /\ Whole(job[v], objects) /\ Stands(job[v], objects)
        /\ Leaves(job[v], objects)
        /\ Pair(j, job[v]) /\ Pair(job[v], j)
  BY DEF IInv, Single
<1>3. left' \in 0..MaxCommands
  BY DEF IInv, TypeOK, Create
<1>4. CASE UNCHANGED objects /\ Answer(u, i, FALSE)
  <2>1. job' = [job EXCEPT ![u] = Answered(j, i, FALSE)]
    BY <1>4 DEF Answer
  <2>2. Answered(j, i, FALSE) \in Jobs
    BY <1>1, AnsweredIs, Zenon
  <2>3. QED
    BY <1>1, <1>2, <1>3, <1>4, <2>1, <2>2, AnsweredBadly, Update, Zenon
       DEF IInv, TypeOK
<1>5. ASSUME NEW ok \in BOOLEAN, At(j.set, i) = {},
             objects' = objects \cup {New(u, i)}, Answer(u, i, ok)
      PROVE  IInv'
  <2> DEFINE k == Answered(j, i, ok)
  <2>1. job' = [job EXCEPT ![u] = k] /\ k \in Jobs
    BY <1>1, <1>5, AnsweredIs DEF Answer
  <2>2. New(u, i).set = j.set /\ New(u, i).idx = i
    BY DEF New
  <2>3. \A v \in Users \ {u} :
          /\ Whole(job[v], objects') /\ Stands(job[v], objects')
          /\ Leaves(job[v], objects')
    BY <1>1, <1>2, <1>5, <2>2, Grown DEF Pair
  <2>4. CASE ok = FALSE
    <3>1. /\ Single(k, objects')
          /\ \A v \in Users \ {u} : Pair(k, job[v]) /\ Pair(job[v], k)
      BY <1>1, <1>2, <2>4, AnsweredBadly, Zenon
    <3>2. QED
      BY <1>1, <1>3, <1>5, <2>1, <2>3, <3>1, ObjectMade, Update, Zenon
  <2>5. CASE ok = TRUE
    <3>1. /\ Follows(j, k) /\ k.op = "add" /\ k.set = j.set /\ k.p = j.p
          /\ k.lone = j.lone /\ k.cleared = j.cleared /\ (k.failed <=> j.failed)
      BY <1>1, <2>5, AnsweredIs, ZenonT(60) DEF Follows
    <3>2. Made(k) \subseteq Made(j) \cup {i}
      BY <1>1, AnsweredMade
    <3>3. Whole(k, objects')
      BY <1>1, <1>5, <3>1, <3>2, NewIs DEF Whole, Adds
    <3>4. Stands(k, objects')
      BY <1>1, <1>5, <2>2, <3>1, <3>2 DEF Stands, Adds
    <3>5. Single(k, objects')
      BY <1>1, <3>1, <3>3, <3>4, AnsweredShape DEF Single, Leaves, Deletes
    <3>6. ASSUME NEW v \in Users \ {u} PROVE Pair(k, job[v]) /\ Pair(job[v], k)
      <4>1. Met(k, job[v]) /\ Met(job[v], k)
        BY <1>2, <3>1, MetKept DEF Pair
      <4>2. /\ Adds(job[v]) /\ ~job[v].failed /\ ~job[v].cleared
            /\ job[v].set = j.set
            => i \notin Made(job[v])
        BY <1>2, <1>5, SMTT(40) DEF Stands, At, Of
      <4>3. Apart(k, job[v]) /\ Apart(job[v], k)
        BY <1>1, <1>2, <3>1, <3>2, <4>2 DEF Pair, Apart, Adds
      <4>4. QED
        BY <4>1, <4>3 DEF Pair
    <3>7. QED
      BY <1>1, <1>3, <1>5, <2>1, <2>3, <3>5, <3>6, ObjectMade, Update, Zenon
  <2>6. QED
    BY <1>5, <2>4, <2>5, Zenon
<1>6. QED
  BY <1>4, <1>5, Zenon DEF Create

\* A command goes on without a call: what it has behind it stays the same.
LEMMA Moves ==
  ASSUME IInv, NEW u \in Users, NEW k \in Jobs, job' = [job EXCEPT ![u] = k],
         UNCHANGED <<objects, left>>, Follows(job[u], k), Single(k, objects),
         ~k.failed => ~job[u].failed /\ Made(k) \subseteq Made(job[u])
  PROVE  IInv'
<1>1. \A v \in Users \ {u} :
        /\ Whole(job[v], objects) /\ Stands(job[v], objects)
        /\ Leaves(job[v], objects)
        /\ Pair(job[u], job[v]) /\ Pair(job[v], job[u])
  BY DEF IInv, Single
<1>2. \A v \in Users \ {u} : Pair(k, job[v]) /\ Pair(job[v], k)
  BY <1>1, MetKept, ApartKept DEF Pair
<1>3. QED
  BY <1>1, <1>2, Update DEF IInv, TypeOK

\* A group is done: the add ends, or goes on with the next group, none of which
\* it has made yet.
LEMMA GroupDoneStep ==
  ASSUME IInv, NEW u \in Users, GroupDone(u) PROVE IInv'
<1> DEFINE j == job[u]
           next == j.at + j.p.groupSize
           more == [j EXCEPT !.at = next, !.calls = Group(j.p, next)]
<1>1. /\ j \in Jobs /\ j.op = "add" /\ j.calls = {}
      /\ Shape(j) /\ Whole(j, objects) /\ Stands(j, objects)
  BY DEF IInv, TypeOK, Single, GroupDone
<1>2. /\ j.p.groupSize \in Nat /\ j.p.total \in Nat /\ j.at \in Nat
      /\ j.failed \in BOOLEAN
  BY <1>1, Zenon DEF Jobs
<1>3. UNCHANGED <<objects, left>>
  BY DEF GroupDone
<1>4. CASE j.failed
  <2> DEFINE k == [j EXCEPT !.op = "error"]
  <2>1. job' = [job EXCEPT ![u] = k]
    BY <1>4 DEF GroupDone
  <2>2. k \in Jobs /\ Follows(j, k) /\ k.failed /\ k.op = "error"
    BY <1>1, <1>4, Zenon DEF Jobs, Follows
  <2> HIDE DEF k
  <2>3. Single(k, objects)
    BY <2>2, Quiet
  <2>4. QED
    BY <1>3, <2>1, <2>2, <2>3, Moves, Zenon
<1>5. CASE ~j.failed /\ next >= j.p.total
  <2> DEFINE k == [j EXCEPT !.op = "added"]
  <2>1. job' = [job EXCEPT ![u] = k]
    BY <1>5, Zenon DEF GroupDone
  <2>2. /\ k \in Jobs /\ Follows(j, k) /\ k.op = "added"
        /\ k.set = j.set /\ k.p = j.p /\ k.at = j.at /\ k.calls = j.calls
        /\ k.failed = j.failed /\ k.lone = j.lone /\ k.cleared = j.cleared
    BY <1>1, Zenon DEF Jobs, Follows
  <2>3. Made(k) = Made(j)
    BY <2>2 DEF Made
  <2>4. Shape(k)
    BY <1>1, <1>2, <1>5, <2>2 DEF Shape, Adds, Deletes
  <2>5. Whole(k, objects) /\ Stands(k, objects) /\ Leaves(k, objects)
    BY <1>1, <2>2, <2>3 DEF Whole, Stands, Leaves, Adds, Deletes
  <2>6. QED
    BY <1>3, <1>5, <2>1, <2>2, <2>3, <2>4, <2>5, Moves, Zenon DEF Single
<1>6. CASE ~j.failed /\ ~(next >= j.p.total)
  <2>1. job' = [job EXCEPT ![u] = more]
    BY <1>6, Zenon DEF GroupDone
  <2>2. next \in Nat /\ Group(j.p, next) \subseteq Nat
    BY <1>2 DEF Group
  <2>3. /\ more \in Jobs /\ Follows(j, more) /\ more.op = "add"
        /\ more.set = j.set /\ more.p = j.p /\ more.at = next
        /\ more.calls = Group(j.p, next)
        /\ more.failed = j.failed /\ more.lone = j.lone /\ more.cleared = j.cleared
    BY <1>1, <2>2, Zenon DEF Jobs, Follows
  <2> HIDE DEF more
  <2>4. Made(more) \subseteq Made(j)
    BY <1>1, <1>2, <2>3 DEF Made, Group
  <2>5. next % j.p.groupSize = 0
    BY <1>1, <1>2, NextGroup, Zenon DEF Shape, Adds
  <2>6. Shape(more)
    BY <1>1, <2>3, <2>5 DEF Shape, Adds, Deletes
  <2>7. Whole(more, objects) /\ Stands(more, objects) /\ Leaves(more, objects)
    BY <1>1, <2>3, <2>4 DEF Whole, Stands, Leaves, Adds, Deletes
  <2>8. QED
    BY <1>3, <1>6, <2>1, <2>3, <2>4, <2>6, <2>7, Moves, Zenon DEF Single
<1>7. QED
  BY <1>2, <1>4, <1>5, <1>6

-----------------------------------------------------------------------------
(* delete.                                                                 *)

\* Objects of a set go, under a deletion the other commands know of.
LEMMA Shrunk ==
  ASSUME NEW j, NEW objs, NEW gone,
         Whole(j, objs), Stands(j, objs), Leaves(j, objs),
         NEW k, k.op = "delete", \A o \in gone : o.set = k.set, Met(j, k)
  PROVE  /\ Whole(j, objs \ gone) /\ Stands(j, objs \ gone)
         /\ Leaves(j, objs \ gone)
<1>1. Whole(j, objs \ gone)
  BY DEF Whole, Met
<1>2. Stands(j, objs \ gone)
  BY DEF Stands, Met
<1>3. Leaves(j, objs \ gone)
  BY DEF Leaves
<1>4. QED
  BY <1>1, <1>2, <1>3

\* A call of a deletion is answered.  Adds on its set know of it, so that what
\* they have made may go.
LEMMA DeleteOneStep ==
  ASSUME IInv, NEW u \in Users, NEW i \in job[u].calls, DeleteOne(u, i)
  PROVE  IInv'
<1> DEFINE j == job[u]
<1>1. j \in Jobs /\ j.op = "delete" /\ Shape(j) /\ Leaves(j, objects)
  BY DEF IInv, TypeOK, Single, DeleteOne
<1>2. \A v \in Users \ {u} :
        /\ Whole(job[v], objects) /\ Stands(job[v], objects)
        /\ Leaves(job[v], objects)
        /\ Pair(j, job[v]) /\ Pair(job[v], j)
  BY DEF IInv, Single
<1>3. left' \in 0..MaxCommands
  BY DEF IInv, TypeOK, DeleteOne
<1>4. CASE UNCHANGED objects /\ Answer(u, i, FALSE)
  <2>1. job' = [job EXCEPT ![u] = Answered(j, i, FALSE)]
    BY <1>4 DEF Answer
  <2>2. Answered(j, i, FALSE) \in Jobs
    BY <1>1, AnsweredIs, Zenon
  <2>3. QED
    BY <1>1, <1>2, <1>3, <1>4, <2>1, <2>2, AnsweredBadly, Update, ZenonT(60)
       DEF IInv, TypeOK
<1>5. ASSUME NEW ok \in BOOLEAN, objects' = objects \ At(j.set, i), Answer(u, i, ok)
      PROVE  IInv'
  <2> DEFINE k == Answered(j, i, ok)
  <2>1. job' = [job EXCEPT ![u] = k] /\ k \in Jobs
    BY <1>1, <1>5, AnsweredIs DEF Answer
  <2>2. \A v \in Users \ {u} :
          /\ Whole(job[v], objects') /\ Stands(job[v], objects')
          /\ Leaves(job[v], objects')
    <3>1. \A o \in At(j.set, i) : o.set = j.set
      BY DEF At, Of
    <3>2. QED
      BY <1>1, <1>2, <1>5, <3>1, Shrunk DEF Pair
  <2>3. /\ objects' \subseteq [set : Sets, idx : Nat, size : Nat, owner : Nat]
        /\ \A o, q \in objects' : o.set = q.set /\ o.idx = q.idx => o = q
    <3>1. objects' \in SUBSET objects
      BY <1>5
    <3>2. QED
      BY <3>1 DEF IInv, TypeOK
  <2>4. /\ Follows(j, k) /\ k.op = "delete" /\ k.set = j.set /\ k.at = j.at
        /\ k.listed = j.listed /\ k.calls = j.calls \ {i}
        /\ k.lone = j.lone /\ (k.failed <=> (j.failed \/ ~ok))
    BY <1>1, AnsweredIs DEF Follows
  <2> HIDE DEF k
  <2>5. Leaves(k, objects')
    <3>1. \A o \in objects' : o.set = j.set => o \in objects /\ o.idx # i
      BY <1>5 DEF At, Of
    <3>2. \A n : n # i /\ ToCome(j, n) => ToCome(k, n)
      BY <2>4 DEF ToCome
    <3>3. QED
      BY <1>1, <2>4, <3>1, <3>2 DEF Leaves, Deletes
  <2>6. Single(k, objects')
    BY <1>1, <2>4, <2>5, AnsweredShape, SMTT(40) DEF Single, Whole, Stands, Adds, k
  <2>7. \A v \in Users \ {u} : Pair(k, job[v]) /\ Pair(job[v], k)
    BY <1>2, <2>4, MetKept DEF Pair, Apart, Adds
  <2>8. QED
    BY <1>3, <2>1, <2>2, <2>3, <2>6, <2>7, Update, Zenon
<1>6. QED
  BY <1>4, <1>5, Zenon DEF DeleteOne

\* A batch holds at least one name.
LEMMA BatchType == \A set : BatchOf(set) \in Nat \ {0}
  BY DataAssumption DEF BatchOf

\* A batch is done: the deletion ends, or the names of the next batch are no
\* longer to come but under way.
LEMMA BatchDoneStep ==
  ASSUME IInv, NEW u \in Users, BatchDone(u) PROVE IInv'
<1> DEFINE j == job[u]
           next == j.at + BatchOf(j.set)
           calls == BatchAt(j.set, j.listed, next)
           more == [j EXCEPT !.at = next, !.calls = calls]
<1>1. /\ j \in Jobs /\ j.op = "delete" /\ j.calls = {}
      /\ Shape(j) /\ Leaves(j, objects)
  BY DEF IInv, TypeOK, Single, BatchDone
<1>2. /\ j.listed \in Seq(Nat) /\ j.at \in Nat /\ j.failed \in BOOLEAN
      /\ BatchOf(j.set) \in Nat /\ next \in Nat
  <2>1. j.listed \in Seq(Nat) /\ j.at \in Nat /\ j.failed \in BOOLEAN
    BY <1>1, Zenon DEF Jobs
  <2>2. QED
    BY <2>1, BatchType
<1>3. UNCHANGED <<objects, left>>
  BY DEF BatchDone
<1>4. CASE j.failed
  <2> DEFINE k == [j EXCEPT !.op = "error"]
  <2>1. job' = [job EXCEPT ![u] = k]
    BY <1>4 DEF BatchDone
  <2>2. k \in Jobs /\ Follows(j, k) /\ k.failed /\ k.op = "error"
    BY <1>1, <1>4, Zenon DEF Jobs, Follows
  <2> HIDE DEF k
  <2>3. Single(k, objects)
    BY <2>2, Quiet
  <2>4. QED
    BY <1>3, <2>1, <2>2, <2>3, Moves, Zenon
<1>5. CASE ~j.failed /\ next >= Len(j.listed)
  <2> DEFINE k == [j EXCEPT !.op = "deleted"]
  <2>1. job' = [job EXCEPT ![u] = k]
    BY <1>5 DEF BatchDone
  <2>2. /\ k \in Jobs /\ Follows(j, k) /\ k.op = "deleted"
        /\ k.set = j.set /\ k.p = j.p /\ k.at = j.at /\ k.calls = j.calls
        /\ k.failed = j.failed /\ k.lone = j.lone /\ k.listed = j.listed
    BY <1>1, Zenon DEF Jobs, Follows
  <2>3. Made(k) = Made(j)
    BY <2>2 DEF Made
  <2>4. Shape(k)
    BY <1>1, <1>2, <1>5, <2>2 DEF Shape, Adds, Deletes
  <2>5. \A i : ToCome(k, i) <=> ToCome(j, i)
    BY <2>2 DEF ToCome
  <2>6. Whole(k, objects) /\ Stands(k, objects) /\ Leaves(k, objects)
    BY <1>1, <2>2, <2>5 DEF Whole, Stands, Leaves, Adds, Deletes
  <2>7. QED
    BY <1>3, <1>5, <2>1, <2>2, <2>3, <2>4, <2>6, Moves, Zenon DEF Single
<1>6. CASE ~j.failed /\ ~(next >= Len(j.listed))
  <2>1. job' = [job EXCEPT ![u] = more]
    BY <1>6 DEF BatchDone
  <2>2. calls \subseteq Nat
    BY <1>2, SMTT(40) DEF BatchAt
  <2>3. /\ more \in Jobs /\ Follows(j, more) /\ more.op = "delete"
        /\ more.set = j.set /\ more.at = next /\ more.calls = calls
        /\ more.failed = j.failed /\ more.lone = j.lone /\ more.listed = j.listed
    <3> HIDE DEF calls, next
    <3>1. QED
      BY <1>1, <1>2, <2>2, Zenon DEF Jobs, Follows
  <2> HIDE DEF more
  <2>4. Shape(more)
    BY <1>1, <2>3 DEF Shape, Adds, Deletes
  <2>5. ASSUME NEW i, ToCome(j, i) PROVE ToCome(more, i)
    <3>1. PICK n \in 1..Len(j.listed) : n > next /\ j.listed[n] = i
      BY <1>1, <2>5 DEF ToCome
    <3>2. CASE n <= next + BatchOf(j.set)
      BY <1>2, <2>3, <3>1, <3>2, SMTT(40) DEF ToCome, BatchAt
    <3>3. CASE n > next + BatchOf(j.set)
      BY <1>2, <2>3, <3>1, <3>3 DEF ToCome
    <3>4. QED
      BY <1>2, <3>2, <3>3
  <2>6. Leaves(more, objects)
    BY <1>1, <2>3, <2>5 DEF Leaves, Deletes
  <2>7. Single(more, objects)
    BY <2>3, <2>4, <2>6, SMTT(20) DEF Single, Whole, Stands, Adds
  <2>8. \A v \in Users \ {u} :
          /\ Whole(job[v], objects) /\ Stands(job[v], objects)
          /\ Leaves(job[v], objects)
          /\ Pair(more, job[v]) /\ Pair(job[v], more)
    BY <2>3, MetKept DEF IInv, Single, Pair, Apart, Adds
  <2>9. QED
    BY <1>3, <2>1, <2>3, <2>7, <2>8, Update DEF IInv, TypeOK
<1>7. QED
  BY <1>2, <1>4, <1>5, <1>6

-----------------------------------------------------------------------------
(* A command starts.                                                       *)

\* What the start of another command leaves of a command: it may have met that
\* one, or be over and no longer count.
Reduced(j, k) ==
  \/ k.op = "idle"
  \/ /\ k.op = j.op /\ k.set = j.set /\ k.p = j.p /\ k.at = j.at
     /\ k.calls = j.calls /\ k.failed = j.failed /\ k.listed = j.listed
     /\ k.lone => j.lone
     /\ j.cleared => k.cleared

\* A command keeps what holds of it when another one starts.
LEMMA ReducedSingle ==
  ASSUME NEW j, NEW k, NEW objs, Reduced(j, k), Single(j, objs)
  PROVE  Single(k, objs)
<1>1. CASE k.op = "idle"
  BY <1>1, Quiet
<1>2. CASE k.op # "idle"
  <2>1. Made(k) = Made(j) /\ \A i : ToCome(k, i) <=> ToCome(j, i)
    BY <1>2 DEF Reduced, Made, ToCome
  <2>2. Shape(k)
    BY <1>2 DEF Reduced, Single, Shape, Adds, Deletes
  <2>3. Whole(k, objs)
    BY <1>2, <2>1 DEF Reduced, Single, Whole, Adds
  <2>4. Stands(k, objs)
    BY <1>2, <2>1 DEF Reduced, Single, Stands, Adds
  <2>5. Leaves(k, objs)
    BY <1>2, <2>1 DEF Reduced, Single, Leaves, Deletes
  <2>6. QED
    BY <2>2, <2>3, <2>4, <2>5 DEF Single
<1>3. QED
  BY <1>1, <1>2

\* Two commands keep what holds of them when a third one starts.
LEMMA ReducedPair ==
  ASSUME NEW j, NEW k, NEW l, NEW m, Reduced(j, k), Reduced(l, m), Pair(j, l)
  PROVE  Pair(k, m)
<1>1. CASE k.op = "idle" \/ m.op = "idle"
  BY <1>1, Quiet
<1>2. CASE k.op # "idle" /\ m.op # "idle"
  <2>1. Made(k) = Made(j) /\ Made(m) = Made(l)
    BY <1>2 DEF Reduced, Made
  <2>2. Met(k, m)
    BY <1>2 DEF Reduced, Pair, Met, Adds, Deletes
  <2>3. Apart(k, m)
    BY <1>2, <2>1 DEF Reduced, Pair, Apart, Adds
  <2>4. QED
    BY <2>2, <2>3 DEF Pair
<1>3. QED
  BY <1>1, <1>2

\* A command that may start: an add that has made nothing yet, a deletion that
\* has all of the set to come.
Fresh(new) ==
  /\ new \in Jobs /\ new.op \in {"add", "delete"} /\ Shape(new) /\ ~new.failed
  /\ new.op = "add" => Made(new) = {}
  /\ new.op = "delete" => \A o \in objects : o.set = new.set => ToCome(new, o.idx)

\* A command starts.  It meets those under way on its set, and those that are
\* over on its set no longer count.
LEMMA StartStep ==
  ASSUME IInv, NEW u \in Users, NEW new, Fresh(new), Start(u, new),
         UNCHANGED objects, left' \in 0..MaxCommands
  PROVE  IInv'
<1> DEFINE met == {v \in Users \ {u} : Active(v) /\ job[v].set = new.set}
           stale == {v \in Users \ {u} : ~Active(v) /\ job[v].set = new.set}
           lone == met = {}
           cleared == \E w \in met : job[w].op = "delete"
           first == [new EXCEPT !.lone = lone, !.cleared = cleared]
           Seen(v) == [job[v] EXCEPT !.lone = FALSE,
                                     !.cleared = @ \/ new.op = "delete"]
<1>1. job \in [Users -> Jobs]
  BY SMTT(20) DEF IInv, TypeOK
<1>2. job' = [v \in Users |->
                IF v = u THEN first
                ELSE IF v \in met THEN Seen(v)
                ELSE IF v \in stale THEN Idle
                ELSE job[v]]
  BY Zenon DEF Start
<1>3. /\ first \in Jobs /\ first.op = new.op /\ first.set = new.set
      /\ first.p = new.p /\ first.at = new.at /\ first.calls = new.calls
      /\ first.failed = new.failed /\ first.listed = new.listed
      /\ (first.lone <=> lone) /\ (first.cleared <=> cleared)
  <2>1. lone \in BOOLEAN /\ cleared \in BOOLEAN
    BY Zenon
  <2> HIDE DEF lone, cleared
  <2>2. QED
    BY <2>1, Zenon DEF Fresh, Jobs
<1>4. ASSUME NEW v \in Users
      PROVE  /\ Seen(v) \in Jobs /\ Reduced(job[v], Seen(v))
             /\ Seen(v).op = job[v].op /\ Seen(v).set = job[v].set
             /\ ~Seen(v).lone /\ (new.op = "delete" => Seen(v).cleared)
  <2>1. job[v] \in Jobs
    BY <1>1
  <2>2. QED
    BY <2>1, Zenon DEF Jobs, Reduced
<1>5. job'[u] = first
  BY <1>2, Zenon
<1>6. ASSUME NEW v \in Users \ {u}
      PROVE  \/ v \in met /\ job'[v] = Seen(v)
             \/ v \in stale /\ job'[v] = Idle
             \/ job[v].set # new.set /\ job'[v] = job[v]
  BY <1>2, Zenon
<1> HIDE DEF first, Seen, met, stale
<1>7. ASSUME NEW v \in Users \ {u}
      PROVE  job'[v] \in Jobs /\ Reduced(job[v], job'[v])
  <2>1. Idle.op = "idle" /\ job[v] \in Jobs
    BY <1>1 DEF Idle
  <2>2. Reduced(job[v], Idle) /\ Reduced(job[v], job[v])
    BY <2>1 DEF Reduced
  <2>3. QED
    BY <1>4, <1>6, <2>1, <2>2, IdleType
<1>8. TypeOK'
  <2>1. job' \in [Users -> Jobs]
    <3>1. \A v \in Users : job'[v] \in Jobs
      BY <1>3, <1>5, <1>7
    <3>2. job' = [v \in Users |-> job'[v]]
      BY <1>2
    <3>3. QED
      BY <3>1, <3>2
  <2>2. QED
    BY <2>1 DEF IInv, TypeOK
<1>9. Single(first, objects)
  <2>1. Shape(first)
    BY <1>3 DEF Fresh, Shape, Adds, Deletes
  <2>2. Made(first) = Made(new) /\ \A i : ToCome(first, i) <=> ToCome(new, i)
    BY <1>3 DEF Made, ToCome
  <2>3. Whole(first, objects) /\ Stands(first, objects)
    BY <1>3, <2>2 DEF Fresh, Whole, Stands, Adds
  <2>4. Leaves(first, objects)
    BY <1>3, <2>2 DEF Fresh, Leaves, Deletes
  <2>5. QED
    BY <2>1, <2>3, <2>4, SMTT(20) DEF Single
<1>10. ASSUME NEW v \in Users PROVE Single(job'[v], objects')
  BY <1>5, <1>7, <1>9, ReducedSingle DEF IInv
<1>11. ASSUME NEW v \in Users \ {u} PROVE Met(first, job'[v]) /\ Met(job'[v], first)
  <2>1. CASE v \in met /\ job'[v] = Seen(v)
    <3>1. ~first.lone /\ (job[v].op = "delete" => first.cleared)
      BY <1>3, <2>1
    <3>2. QED
      BY <1>3, <1>4, <2>1, <3>1 DEF Met, Adds, Deletes
  <2>2. CASE v \in stale /\ job'[v] = Idle
    <3>1. Idle.op = "idle"
      BY DEF Idle
    <3>2. QED
      BY <2>2, <3>1, Quiet DEF Pair
  <2>3. CASE job[v].set # new.set /\ job'[v] = job[v]
    BY <1>3, <2>3 DEF Met
  <2>4. QED
    BY <1>6, <2>1, <2>2, <2>3
<1>12. ASSUME NEW v \in Users \ {u}
       PROVE  Apart(first, job'[v]) /\ Apart(job'[v], first)
  <2>1. Adds(first) => Made(first) = {}
    BY <1>3 DEF Fresh, Adds, Made
  <2>2. QED
    BY <2>1 DEF Apart
<1>13. ASSUME NEW v \in Users, NEW w \in Users, v # w PROVE Pair(job'[v], job'[w])
  <2>1. CASE v = u
    BY <1>5, <1>11, <1>12, <1>13, <2>1 DEF Pair
  <2>2. CASE w = u
    BY <1>5, <1>11, <1>12, <1>13, <2>2 DEF Pair
  <2>3. CASE v # u /\ w # u
    BY <1>7, <1>13, <2>3, ReducedPair DEF IInv
  <2>4. QED
    BY <2>1, <2>2, <2>3
<1>14. QED
  BY <1>8, <1>10, <1>13 DEF IInv

\* A command is refused.
LEMMA RefuseStep ==
  ASSUME IInv, NEW u \in Users, Refuse(u), UNCHANGED objects,
         left' \in 0..MaxCommands
  PROVE  IInv'
<1> DEFINE k == [Idle EXCEPT !.op = "error"]
<1>1. k \in Jobs /\ k.op = "error" /\ job' = [job EXCEPT ![u] = k]
  BY IdleType, Zenon DEF Refuse, Idle
<1> HIDE DEF k
<1>2. Single(k, objects) /\ \A v \in Users : Pair(k, job[v]) /\ Pair(job[v], k)
  BY <1>1, Quiet
<1>3. QED
  BY <1>1, <1>2, Update DEF IInv, TypeOK, Single

\* The number of commands left stays within its bound.
LEMMA LaunchLeft == ASSUME IInv, Launch PROVE left' \in 0..MaxCommands
  BY DataAssumption DEF IInv, TypeOK, Launch

\* An add starts with the calls of its first group.
LEMMA AddToStep ==
  ASSUME IInv, NEW u \in Users, NEW set \in Sets,
         NEW p \in [size : Nat, groupSize : Nat, total : Nat],
         p.groupSize > 0, p.total > 0,
         AddTo(u, set, p), UNCHANGED objects, left' \in 0..MaxCommands
  PROVE  IInv'
<1> DEFINE new == [Idle EXCEPT !.op = "add", !.set = set, !.p = p,
                               !.calls = Group(p, 0)]
<1>1. CASE Refuse(u)
  BY <1>1, RefuseStep
<1>2. CASE Start(u, new)
  <2>1. p.groupSize \in Nat /\ p.total \in Nat /\ Group(p, 0) \in SUBSET Nat
    BY DEF Group
  <2>2. /\ new \in Jobs /\ new.op = "add" /\ new.set = set
        /\ new.p = p /\ new.at = 0
        /\ new.calls = Group(p, 0) /\ ~new.failed
    BY <2>1, IdleType, Zenon DEF Jobs, Idle
  <2> HIDE DEF new
  <2>3. 0 % p.groupSize = 0
    BY <2>1, Remainder
  <2>4. Shape(new)
    BY <2>2, <2>3 DEF Shape, Adds, Deletes
  <2>5. Made(new) = {}
    BY <2>1, <2>2 DEF Made, Group
  <2>6. QED
    BY <1>2, <2>2, <2>4, <2>5, StartStep DEF Fresh
<1>3. QED
  BY <1>1, <1>2 DEF AddTo

\* data configmap add starts, or refuses its parameters.
LEMMA AddConfigmapsStep ==
  ASSUME IInv, NEW u \in Users, NEW set \in ConfigMaps, NEW p \in Params,
         AddConfigmaps(u, set, p)
  PROVE  IInv'
<1>1. left' \in 0..MaxCommands /\ UNCHANGED objects
  BY LaunchLeft DEF AddConfigmaps
<1>2. p \in [size : Nat, groupSize : Nat, total : Nat] /\ set \in Sets
  BY DataAssumption DEF Sets
<1>3. CASE checkConfigmapParams(p)
  BY <1>1, <1>2, <1>3, AddToStep DEF AddConfigmaps, checkConfigmapParams
<1>4. CASE ~checkConfigmapParams(p)
  BY <1>1, <1>4, RefuseStep DEF AddConfigmaps
<1>5. QED
  BY <1>3, <1>4

\* data daemonset add starts, in groups of one.
LEMMA AddDaemonsetsStep ==
  ASSUME IInv, NEW u \in Users, NEW set \in DaemonSets, NEW count \in Nat,
         AddDaemonsets(u, set, count)
  PROVE  IInv'
<1> DEFINE p == [size |-> 0, groupSize |-> 1, total |-> count]
<1>1. left' \in 0..MaxCommands /\ UNCHANGED objects
  BY LaunchLeft DEF AddDaemonsets
<1>2. /\ p \in [size : Nat, groupSize : Nat, total : Nat] /\ set \in Sets
      /\ p.groupSize > 0 /\ p.total = count
  BY DEF Sets
<1>3. CASE count > 0
  <2>1. AddTo(u, set, p)
    BY <1>3 DEF AddDaemonsets
  <2> HIDE DEF p
  <2>2. QED
    BY <1>1, <1>2, <1>3, <2>1, AddToStep
<1>4. CASE ~(count > 0)
  BY <1>1, <1>4, RefuseStep DEF AddDaemonsets
<1>5. QED
  BY <1>3, <1>4

\* A command under way goes one step.
LEMMA WorkStep == ASSUME IInv, NEW u \in Users, Work(u) PROVE IInv'
  BY CreateStep, GroupDoneStep, DeleteOneStep, BatchDoneStep
     DEF Work, createConfigmaps, createDaemonsets, deleteConfigmaps,
         deleteDaemonsets

\* The invariant says nothing of what was listed.
LEMMA StillIInv ==
  ASSUME IInv, UNCHANGED <<objects, job>>, left' \in 0..MaxCommands
  PROVE  IInv'
  BY DEF IInv, TypeOK

\* The invariant implies what the commands report: an add at the end of its last
\* group has made all of its set, a deletion behind its last batch has nothing to
\* come, and two adds that made all of one set would have made an object both.
LEMMA IInvReported == IInv => AddedIsComplete /\ DeletedIsGone /\ OneAddWins
<1> SUFFICES ASSUME IInv PROVE AddedIsComplete /\ DeletedIsGone /\ OneAddWins
  OBVIOUS
<1>1. \A u \in Users : job[u] \in Jobs /\ Single(job[u], objects)
  BY DEF IInv, TypeOK
<1>2. ASSUME NEW u \in Users, job[u].op = "added"
      PROVE  /\ Made(job[u]) = 0..(job[u].p.total - 1) /\ ~job[u].failed
             /\ 0 \in Made(job[u])
  <2>1. /\ job[u].p.total \in Nat /\ job[u].p.groupSize \in Nat /\ job[u].at \in Nat
    BY <1>1, Zenon DEF Jobs
  <2>2. /\ job[u].calls = {} /\ ~job[u].failed /\ 0 < job[u].p.total
        /\ job[u].p.total <= job[u].at + job[u].p.groupSize
    BY <1>1, <1>2 DEF Single, Shape, Adds
  <2>3. QED
    BY <2>1, <2>2 DEF Made
<1>3. AddedIsComplete
  BY <1>1, <1>2, Zenon DEF AddedIsComplete, Single, Whole, Adds
<1>4. ASSUME NEW u \in Users, job[u].op = "deleted", job[u].lone
      PROVE  Of(job[u].set) = {}
  <2>1. job[u].at \in Nat /\ job[u].listed \in Seq(Nat)
    BY <1>1, Zenon DEF Jobs
  <2>2. /\ job[u].calls = {} /\ ~job[u].failed
        /\ Len(job[u].listed) <= job[u].at + BatchOf(job[u].set)
    BY <1>1, <1>4 DEF Single, Shape
  <2>3. BatchOf(job[u].set) \in Nat /\ Len(job[u].listed) \in Nat
    BY <2>1, BatchType
  <2>4. \A i : ~ToCome(job[u], i)
    BY <2>1, <2>2, <2>3 DEF ToCome
  <2>5. QED
    BY <1>1, <1>4, <2>2, <2>4 DEF Single, Leaves, Deletes, Of
<1>5. OneAddWins
  BY <1>2 DEF IInv, OneAddWins, Pair, Apart, Adds
<1>6. QED
  BY <1>3, <1>4, <1>5 DEF DeletedIsGone

-----------------------------------------------------------------------------
(* The order of names.                                                     *)

\* Names are in a strict total order.
LEMMA ByNameOrder ==
  /\ \A i \in Nat : ~ByName(i, i)
  /\ \A i, j \in Nat : i # j => ByName(i, j) \/ ByName(j, i)
  /\ \A i, j, k \in Nat : ByName(i, j) /\ ByName(j, k) => ByName(i, k)
<1> DEFINE first == [n \in Nat |-> Digits(n)[1]]
           len == [n \in Nat |-> Len(Digits(n))]
<1>1. first \in [Nat -> Nat] /\ len \in [Nat -> Nat]
  BY DEF Digits
<1> DEFINE Less(i, j) ==
             \/ first[i] < first[j]
             \/ /\ first[i] = first[j]
                /\ len[i] < len[j] \/ (len[i] = len[j] /\ i < j)
<1>2. \A i, j \in Nat : ByName(i, j) <=> Less(i, j)
  BY DEF ByName
<1> HIDE DEF first, len
<1>3. \A i \in Nat : ~Less(i, i)
  BY <1>1
<1>4. ASSUME NEW i \in Nat, NEW j \in Nat, i # j PROVE Less(i, j) \/ Less(j, i)
  BY <1>1, <1>4
<1>5. ASSUME NEW i \in Nat, NEW j \in Nat, NEW k \in Nat, Less(i, j), Less(j, k)
      PROVE  Less(i, k)
  BY <1>1, <1>5
<1> HIDE DEF Less
<1>6. QED
  BY <1>2, <1>3, <1>4, <1>5, Zenon

\* A function on 1..n is a sequence of length n.
LEMMA IsSequence ==
  ASSUME NEW S, NEW n \in Nat, NEW f, DOMAIN f = 1..n, f = [k \in 1..n |-> f[k]],
         \A k \in 1..n : f[k] \in S
  PROVE  f \in Seq(S) /\ Len(f) = n
  OBVIOUS

\* The names of numbers below ten are in the order of the numbers.
LEMMA SmallNames ==
  ASSUME NEW i \in 0..9, NEW j \in 0..9
  PROVE  ByName(i, j) <=> i < j
<1>1. Digits(i) = <<i>> /\ Digits(j) = <<j>>
  BY DEF Digits
<1>2. QED
  BY <1>1 DEF ByName

\* The first owner but 0, in order, is that of the second group.
LEMMA SecondGroup ==
  ASSUME NEW g \in Nat, NEW n \in Nat, 0 < g, g < n, NEW owners,
         owners = [k \in 1..n |-> (k - 1) - ((k - 1) % g)]
  PROVE  FirstOwner(owners) = g
<1> DEFINE other == {k \in DOMAIN owners : owners[k] > 0}
<1>1. ASSUME NEW k \in 1..n, k <= g PROVE owners[k] = 0
  <2>1. k - 1 \in Nat /\ k - 1 \in 0..(g - 1) /\ k - 1 = 0 * g + (k - 1)
    BY <1>1
  <2>2. (k - 1) % g = k - 1
    BY <2>1, Remainder
  <2>3. QED
    BY <2>2
<1>2. owners[g + 1] = g /\ g + 1 \in 1..n
  <2>1. g = 1 * g + 0 /\ 0 \in 0..(g - 1)
    OBVIOUS
  <2>2. g % g = 0
    BY <2>1, Remainder
  <2>3. g + 1 \in 1..n /\ (g + 1) - 1 = g
    OBVIOUS
  <2>4. QED
    BY <2>2, <2>3
<1>3. other \subseteq 1..n /\ g + 1 \in other /\ \A k \in other : g + 1 <= k
  BY <1>1, <1>2
<1> HIDE DEF other
<1> DEFINE least == CHOOSE i \in other : \A k \in other : i <= k
<1>4. least \in other /\ \A k \in other : least <= k
  BY <1>3, Zenon
<1>5. least = g + 1
  <2> HIDE DEF least
  <2>1. QED
    BY <1>3, <1>4
<1> HIDE DEF least
<1>6. FirstOwner(owners) = IF other = {} THEN 0 ELSE owners[least]
  BY DEF FirstOwner, other, least
<1>7. QED
  BY <1>2, <1>3, <1>5, <1>6

\* Nothing but list prints.
LEMMA OthersShow == ASSUME Next, ~List PROVE shown' = shown
  BY ZenonT(60) DEF Next, Over, AddConfigmaps, AddDaemonsets, Delete, Work, vars,
         createConfigmaps, createDaemonsets, deleteConfigmaps, deleteDaemonsets,
         Create, GroupDone, DeleteOne, BatchDone

-----------------------------------------------------------------------------
(* The listing.                                                            *)

\* What comes before needs no theorem about finite sets.
INSTANCE FiniteSetTheorems

\* How many names come before one of them tells it from the others.
LEMMA Ranks ==
  ASSUME NEW N, N \subseteq Nat, IsFiniteSet(N)
  PROVE  /\ \A i \in N : Cardinality(Before(N, i)) \in 0..(Cardinality(N) - 1)
         /\ \A i, j \in N : Cardinality(Before(N, i)) = Cardinality(Before(N, j))
                              => i = j
<1>1. \A i \in N : IsFiniteSet(Before(N, i)) /\ Cardinality(Before(N, i)) \in Nat
  <2>1. \A i \in N : Before(N, i) \in SUBSET N
    BY DEF Before
  <2>2. QED
    BY <2>1, FS_Subset, FS_CardinalityType
<1>2. Cardinality(N) \in Nat
  BY FS_CardinalityType
<1>3. ASSUME NEW i \in N PROVE Cardinality(Before(N, i)) < Cardinality(N)
  <2>1. Before(N, i) \in SUBSET N /\ Before(N, i) # N
    BY ByNameOrder DEF Before
  <2>2. QED
    BY <1>1, <1>2, <2>1, FS_Subset
<1>4. ASSUME NEW i \in N, NEW j \in N, ByName(i, j)
      PROVE  Cardinality(Before(N, i)) < Cardinality(Before(N, j))
  <2>1. Before(N, i) \in SUBSET Before(N, j) /\ Before(N, i) # Before(N, j)
    <3>1. Before(N, i) \in SUBSET Before(N, j)
      BY <1>4, ByNameOrder, Zenon DEF Before
    <3>2. i \in Before(N, j) /\ i \notin Before(N, i)
      BY <1>4, ByNameOrder DEF Before
    <3>3. QED
      BY <3>1, <3>2
  <2>2. QED
    BY <1>1, <2>1, FS_Subset
<1>5. QED
  BY <1>1, <1>2, <1>3, <1>4, ByNameOrder

\* The listing holds every name, and nothing else.
LEMMA SortedIs ==
  ASSUME NEW N, N \subseteq Nat, IsFiniteSet(N)
  PROVE  /\ Sorted(N) \in Seq(N) /\ Len(Sorted(N)) = Cardinality(N)
         /\ \A i \in N : \E n \in 1..Len(Sorted(N)) : Sorted(N)[n] = i
<1> DEFINE rank == [i \in N |-> Cardinality(Before(N, i))]
           c == Cardinality(N)
<1>1. c \in Nat
  BY FS_CardinalityType
<1>2. rank \in [N -> 0..(c - 1)] /\ \A i, j \in N : rank[i] = rank[j] => i = j
  BY Ranks, Zenon
<1>3. ASSUME NEW n \in 1..c PROVE \E i \in N : Cardinality(Before(N, i)) = n - 1
  <2>1. IsFiniteSet(0..(c - 1)) /\ Cardinality(0..(c - 1)) = c
    <3>1. c - 1 \in Int /\ 0 \in Int
      BY <1>1
    <3>2. QED
      BY <1>1, <3>1, FS_Interval
  <2>2. rank \in Injection(N, 0..(c - 1))
    BY <1>2 DEF Injection, IsInjective
  <2>3. rank \in Surjection(N, 0..(c - 1))
    <3> HIDE DEF rank
    <3>1. QED
      BY <2>1, <2>2, FS_Injection
  <2>4. \E i \in N : rank[i] = n - 1
    <3> HIDE DEF rank
    <3>1. n - 1 \in 0..(c - 1)
      BY <1>1
    <3>2. QED
      BY <2>3, <3>1 DEF Surjection
  <2>5. QED
    BY <2>4
<1>4. \A n \in 1..c :
        Sorted(N)[n] \in N /\ Cardinality(Before(N, Sorted(N)[n])) = n - 1
  BY <1>3 DEF Sorted
<1>5. Sorted(N) \in Seq(N) /\ Len(Sorted(N)) = c
  <2>1. Sorted(N) = [n \in 1..c |-> Sorted(N)[n]] /\ DOMAIN Sorted(N) = 1..c
    BY DEF Sorted
  <2>2. QED
    BY <1>1, <1>4, <2>1, IsSequence
<1>6. ASSUME NEW i \in N PROVE \E n \in 1..c : Sorted(N)[n] = i
  <2>1. rank[i] + 1 \in 1..c
    BY <1>1, <1>2
  <2>2. Cardinality(Before(N, Sorted(N)[rank[i] + 1])) = rank[i]
    BY <1>1, <1>2, <1>4, <2>1
  <2>3. Sorted(N)[rank[i] + 1] = i
    BY <1>4, <2>1, <2>2, Ranks, Zenon
  <2>4. QED
    BY <2>1, <2>3
<1>7. QED
  BY <1>5, <1>6

\* The names of a set, as a listing gives them.
Names(set) == {o.idx : o \in Of(set)}

\* The listing of a set is a sequence that holds every object of the set.
LEMMA ListingIs ==
  ASSUME TypeOK, Finite, NEW set
  PROVE  /\ Names(set) \subseteq Nat /\ IsFiniteSet(Names(set))
         /\ Listing(set) \in Seq(Nat)
         /\ \A o \in Of(set) :
              \E n \in 1..Len(Listing(set)) : Listing(set)[n] = o.idx
<1>1. Names(set) \subseteq Nat
  BY DEF TypeOK, Names, Of
<1>2. IsFiniteSet(Of(set))
  BY FS_Subset DEF Finite, Of
<1>3. IsFiniteSet(Names(set))
  <2> DEFINE f == [o \in Of(set) |-> o.idx]
  <2>1. f \in Surjection(Of(set), Names(set))
    BY DEF Surjection, Names
  <2>2. QED
    BY <1>2, <2>1, FS_Surjection
<1>4. Listing(set) = Sorted(Names(set))
  BY DEF Listing, Names
<1>5. Sorted(Names(set)) \in Seq(Nat)
  <2>1. Sorted(Names(set)) \in Seq(Names(set))
    BY <1>1, <1>3, SortedIs
  <2>2. QED
    BY <1>1, <2>1
<1>6. \A o \in Of(set) : o.idx \in Names(set)
  BY DEF Names
<1>7. \A i \in Names(set) :
        \E n \in 1..Len(Sorted(Names(set))) : Sorted(Names(set))[n] = i
  BY <1>1, <1>3, SortedIs, Zenon
<1>8. QED
  BY <1>1, <1>3, <1>4, <1>5, <1>6, <1>7

\* A deletion starts with the calls of its first batch.
LEMMA DeleteStep ==
  ASSUME IInv, Finite, NEW u \in Users, NEW set \in Sets, Delete(u, set)
  PROVE  IInv'
<1> DEFINE names == Listing(set)
           calls == BatchAt(set, names, 0)
           new == [Idle EXCEPT !.op = "delete", !.set = set,
                               !.listed = names, !.calls = calls]
<1>1. left' \in 0..MaxCommands /\ UNCHANGED objects
  BY LaunchLeft DEF Delete
<1>2. CASE Refuse(u)
  BY <1>1, <1>2, RefuseStep
<1>3. CASE Start(u, new)
  <2>1. /\ names \in Seq(Nat)
        /\ \A o \in Of(set) : \E n \in 1..Len(names) : names[n] = o.idx
    BY ListingIs DEF IInv
  <2> HIDE DEF names
  <2>2. BatchOf(set) \in Nat
    BY BatchType
  <2>3. calls \in SUBSET Nat
    BY <2>1 DEF BatchAt
  <2>4. /\ new \in Jobs /\ new.op = "delete" /\ new.set = set /\ new.at = 0
        /\ new.calls = calls /\ new.listed = names /\ ~new.failed
    <3> HIDE DEF calls
    <3>1. QED
      BY <2>1, <2>3, IdleType, Zenon DEF Jobs, Idle
  <2> HIDE DEF new
  <2>5. Shape(new)
    BY <2>4 DEF Shape, Adds, Deletes
  <2>6. ASSUME NEW o \in objects, o.set = set PROVE ToCome(new, o.idx)
    <3>1. PICK n \in 1..Len(names) : names[n] = o.idx
      BY <2>1, <2>6 DEF Of
    <3>2. CASE n <= BatchOf(set)
      <4>1. n \in DOMAIN names /\ n > 0 /\ n <= 0 + BatchOf(set)
        BY <2>1, <2>2, <3>2
      <4>2. o.idx \in calls
        BY <3>1, <4>1 DEF BatchAt
      <4>3. QED
        BY <2>4, <4>2 DEF ToCome
    <3>3. CASE n > BatchOf(set)
      BY <2>2, <2>4, <3>1, <3>3, SMTT(40) DEF ToCome
    <3>4. QED
      BY <2>1, <2>2, <3>2, <3>3
  <2>7. QED
    BY <1>1, <1>3, <2>4, <2>5, <2>6, StartStep DEF Fresh
<1>4. QED
  BY <1>2, <1>3 DEF Delete

-----------------------------------------------------------------------------
(* Every step keeps the invariant.                                         *)

\* The invariant holds of the empty cluster.
LEMMA InitIInv == Init => IInv /\ Finite
<1> SUFFICES ASSUME Init PROVE IInv /\ Finite
  OBVIOUS
<1>1. job = [u \in Users |-> Idle] /\ Idle.op = "idle" /\ Idle \in Jobs
  BY IdleType, Zenon DEF Init, Idle
<1>2. TypeOK
  BY <1>1, DataAssumption DEF Init, TypeOK
<1>3. \A u \in Users : job[u] = Idle
  BY <1>1
<1>4. Single(Idle, objects) /\ Pair(Idle, Idle)
  BY <1>1, Quiet, SMTT(40)
<1>5. QED
  BY <1>2, <1>3, <1>4, FS_EmptySet DEF IInv, Finite, Init

\* Nothing but calls changes the objects, one at a time.
LEMMA FiniteNext == Finite /\ [Next]_vars => Finite'
<1> SUFFICES ASSUME Finite, [Next]_vars PROVE Finite'
  OBVIOUS
<1>1. ASSUME NEW u \in Users, NEW i, Create(u, i) PROVE Finite'
  <2>1. objects' = objects \/ objects' = objects \cup {New(u, i)}
    BY <1>1, Zenon DEF Create
  <2>2. QED
    BY <2>1, FS_AddElement, SMTT(40) DEF Finite
<1>2. ASSUME NEW u \in Users, NEW i, DeleteOne(u, i) PROVE Finite'
  <2>1. objects' \in SUBSET objects
    BY <1>2, Zenon DEF DeleteOne
  <2>2. QED
    BY <2>1, FS_Subset DEF Finite
<1>3. CASE UNCHANGED objects
  BY <1>3 DEF Finite
<1>4. QED
  BY <1>1, <1>2, <1>3, Zenon
     DEF Next, Over, AddConfigmaps, AddDaemonsets, Delete, Work, List, vars,
         createConfigmaps, createDaemonsets, deleteConfigmaps, deleteDaemonsets,
         GroupDone, BatchDone

\* Every step of the commands preserves the invariant.
LEMMA NextIInv == IInv /\ Finite /\ [Next]_vars => IInv'
<1> SUFFICES ASSUME IInv, Finite, [Next]_vars PROVE IInv'
  OBVIOUS
<1>1. ASSUME NEW u \in Users, NEW set \in DaemonSets, NEW p \in Params,
             AddDaemonsets(u, set, p.total)
      PROVE  IInv'
  <2>1. p.total \in Nat
    BY DataAssumption
  <2>2. QED
    BY <1>1, <2>1, AddDaemonsetsStep
<1>2. CASE List
  BY <1>2, LaunchLeft, StillIInv, SMTT(40) DEF List
<1>3. CASE UNCHANGED vars
  BY <1>3, StillIInv DEF vars, IInv, TypeOK
<1>4. QED
  BY <1>1, <1>2, <1>3, AddConfigmapsStep, DeleteStep, WorkStep DEF Next, Over

\* The invariant holds in every reachable state, for any users, sets, parameters
\* and batch size.
THEOREM SpecIInv == Spec => [](IInv /\ Finite)
  BY InitIInv, NextIInv, FiniteNext, PTL DEF Spec

\* For any number of users, sets, parameters, batch size and commands: an add
\* that succeeds and met no other command has made its whole set, a deletion that
\* succeeds and met none has left nothing, and of two adds that met at most one
\* succeeds unless a deletion came in between (configmap.go:274-314, 326-344).
THEOREM ReportedIsTrueHolds == Spec => []ReportedIsTrue
  BY SpecIInv, IInvReported, PTL DEF ReportedIsTrue

-----------------------------------------------------------------------------
(* list.                                                                   *)

\* The names of up to ten objects are listed in the order of their numbers.
LEMMA SmallSorted ==
  ASSUME NEW n \in 1..10
  PROVE  Sorted(0..(n - 1)) = [k \in 1..n |-> k - 1]
<1> DEFINE N == 0..(n - 1)
<1>1. ASSUME NEW a \in Nat PROVE Cardinality(0..(a - 1)) = a
  <2>1. 0 \in Int /\ a - 1 \in Int
    OBVIOUS
  <2>2. QED
    BY <2>1, FS_Interval
<1>2. Cardinality(N) = n
  BY <1>1
<1>3. ASSUME NEW i \in N PROVE Cardinality(Before(N, i)) = i
  <2>1. Before(N, i) = 0..(i - 1)
    BY SmallNames DEF Before
  <2>2. QED
    BY <1>1, <2>1
<1> HIDE DEF N
<1>4. ASSUME NEW k \in 1..n
      PROVE  (CHOOSE i \in N : Cardinality(Before(N, i)) = k - 1) = k - 1
  <2>1. k - 1 \in N
    BY SMTT(40) DEF N
  <2>2. QED
    BY <1>3, <2>1
<1>5. QED
  BY <1>2, <1>4 DEF Sorted, N

\* All of a set.
AllOf(set, size, g, n) ==
  {[set |-> set, idx |-> i, size |-> size, owner |-> i - (i % g)] :
     i \in 0..(n - 1)}

\* The row of a set that is as its add left it.
LEMMA RowIs ==
  ASSUME NEW set, NEW size, NEW g \in Nat, NEW n \in 1..10, 0 < g, g < n,
         Of(set) = AllOf(set, size, g, n)
  PROVE  Row(set) = [set |-> set, size |-> size, groupSize |-> g, total |-> n]
<1> DEFINE names == Listing(set)
           Obj(i) == [set |-> set, idx |-> i, size |-> size, owner |-> i - (i % g)]
           One(i) == CHOOSE o \in At(set, names[i]) : TRUE
           owners == [k \in DOMAIN names |-> One(k).owner]
<1>1. /\ Of(set) = {Obj(i) : i \in 0..(n - 1)}
      /\ \A i \in 0..(n - 1) :
           Obj(i).idx = i /\ Obj(i).size = size /\ Obj(i).owner = i - (i % g)
  BY DEF AllOf
<1> HIDE DEF Obj
<1>2. {o.idx : o \in Of(set)} = 0..(n - 1)
  BY <1>1
<1>3. names = [k \in 1..n |-> k - 1]
  BY <1>2, SmallSorted, Zenon DEF Listing
<1>4. Len(names) = n /\ DOMAIN names = 1..n /\ \A k \in 1..n : names[k] = k - 1
  BY <1>3
<1> HIDE DEF names
<1>5. ASSUME NEW k \in 1..n PROVE One(k) = Obj(k - 1) /\ k - 1 \in 0..(n - 1)
  <2>1. names[k] = k - 1 /\ k - 1 \in 0..(n - 1)
    BY <1>4
  <2>2. At(set, k - 1) = {Obj(k - 1)}
    BY <1>1, <2>1, SMTT(40) DEF At
  <2>3. QED
    BY <2>1, <2>2
<1>6. Row(set) = [set |-> set, size |-> One(1).size,
                  groupSize |-> FirstOwner(owners), total |-> Len(names)]
  BY DEF Row, names
<1> HIDE DEF One
<1>7. owners = [k \in 1..n |-> (k - 1) - ((k - 1) % g)]
  BY <1>1, <1>4, <1>5, Zenon
<1>8. One(1).size = size
  BY <1>1, <1>5
<1>9. FirstOwner(owners) = g
  <2> HIDE DEF owners
  <2>1. QED
    BY <1>7, SecondGroup
<1>10. QED
  BY <1>4, <1>6, <1>8, <1>9, SMTT(40)

\* A set as large as the add that made it holds nothing else.
LEMMA NothingElse ==
  ASSUME NEW set, NEW size, NEW g \in Nat, NEW n \in 1..10, IsFiniteSet(Of(set)),
         AllOf(set, size, g, n) \subseteq Of(set), Cardinality(Of(set)) = n
  PROVE  Of(set) = AllOf(set, size, g, n)
<1> DEFINE Obj(i) == [set |-> set, idx |-> i, size |-> size, owner |-> i - (i % g)]
           f == [i \in 0..(n - 1) |-> Obj(i)]
           all == {Obj(i) : i \in 0..(n - 1)}
<1>1. all = AllOf(set, size, g, n)
  BY DEF AllOf
<1>2. \A i, k \in 0..(n - 1) : Obj(i) = Obj(k) => i = k
  <2>1. \A i : Obj(i).idx = i
    OBVIOUS
  <2> HIDE DEF Obj
  <2>2. QED
    BY <2>1
<1> HIDE DEF Obj
<1>3. f \in Surjection(0..(n - 1), all)
  BY DEF Surjection
<1>4. f \in Injection(0..(n - 1), all)
  BY <1>2 DEF Injection, IsInjective
<1> HIDE DEF f, all
<1>5. IsFiniteSet(0..(n - 1)) /\ Cardinality(0..(n - 1)) = n
  <2>1. 0 \in Int /\ n - 1 \in Int
    OBVIOUS
  <2>2. QED
    BY <2>1, FS_Interval
<1>6. Cardinality(all) = n
  BY <1>3, <1>4, <1>5, FS_Surjection, SMTT(40)
<1>7. all \in SUBSET Of(set) /\ Cardinality(all) = Cardinality(Of(set))
  BY <1>1, <1>6, SMTT(40)
<1>8. QED
  BY <1>1, <1>7, FS_Subset, SMTT(40)

\* list shows a set of at most ten objects, in two groups or more, as the add
\* that made it.
LEMMA ListStep ==
  ASSUME IInv, Finite, List, NEW u \in Users,
         job[u].op = "added", job[u].lone, job[u].set \in ConfigMaps,
         Cardinality(Of(job[u].set)) = job[u].p.total,
         job[u].p.groupSize < job[u].p.total, job[u].p.total <= 10
  PROVE  [set |-> job[u].set, size |-> job[u].p.size,
          groupSize |-> job[u].p.groupSize, total |-> job[u].p.total] \in shown'
<1> DEFINE set == job[u].set
           g == job[u].p.groupSize
           n == job[u].p.total
           all == AllOf(set, job[u].p.size, g, n)
<1>1. /\ g \in Nat /\ n \in Nat /\ 0 < g /\ 0 < n
  <2>1. job[u] \in Jobs /\ Shape(job[u])
    BY DEF IInv, TypeOK, Single
  <2>2. g \in Nat /\ n \in Nat
    BY <2>1, Zenon DEF Jobs
  <2>3. QED
    BY <2>1, <2>2, SMTT(40) DEF Shape, Adds
<1>2. n \in 1..10
  BY <1>1, SMTT(40)
<1>3. all \subseteq Of(set)
  <2>1. all \subseteq objects
    BY IInvReported, SMTT(40) DEF AddedIsComplete, AllOf
  <2>2. \A o \in all : o.set = set
    BY SMTT(40) DEF AllOf
  <2>3. QED
    BY <2>1, <2>2, SMTT(40) DEF Of
<1>4. IsFiniteSet(Of(set))
  BY FS_Subset, SMTT(40) DEF Finite, Of
<1>5. Of(set) = all
  BY <1>1, <1>2, <1>3, <1>4, NothingElse, SMTT(40)
<1>6. Row(set) = [set |-> set, size |-> job[u].p.size, groupSize |-> g, total |-> n]
  BY <1>1, <1>2, <1>5, RowIs, SMTT(40)
<1>7. Of(set) # {}
  BY <1>1, FS_EmptySet, SMTT(40)
<1>8. set \in Sets /\ set \notin DaemonSets
  BY DataAssumption DEF Sets
<1>9. Row(set) \in shown'
  BY <1>7, <1>8, SMTT(20) DEF List
<1>10. QED
  BY <1>6, <1>9, SMTT(40)

\* For any number of users, sets and parameters: a set of configmaps that one add
\* made and nothing else has touched is listed with the size, the group size and
\* the total of that add, if it has two groups and at most ten objects
\* (configmap.go:348-407).
THEOREM ListShowsSetHolds == Spec => ListShowsSet
<1> DEFINE A == \A u \in Users :
       LET j == job[u]
       IN  /\ shown' # shown
           /\ j.op = "added" /\ j.lone /\ j.set \in ConfigMaps
           /\ Cardinality(Of(j.set)) = j.p.total
           /\ j.p.groupSize < j.p.total /\ j.p.total <= 10
           => [set |-> j.set, size |-> j.p.size, groupSize |-> j.p.groupSize,
               total |-> j.p.total] \in shown'
<1>1. IInv /\ Finite /\ [Next]_vars => [A]_vars
  BY ListStep, OthersShow DEF vars
<1>2. QED
  BY <1>1, SpecIInv, PTL DEF Spec, ListShowsSet
=============================================================================
