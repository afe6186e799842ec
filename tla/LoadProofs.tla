---------------------------- MODULE LoadProofs -----------------------------
(***************************************************************************)
(* Proofs about the load of a benchmark, for any number of workers and     *)
(* names and for any flags: who owns the names of a POST/DELETE load (the  *)
(* cache as a sequence first, then the inductive invariant), that the load *)
(* is the one the flags ask for, and where each of its requests ends.      *)
(***************************************************************************)
EXTENDS LoadParts, TLAPS

\* Cache.Push adds one name at the back.
LEMMA PushNames ==
  ASSUME NEW s \in Seq(Nat), NEW n \in Nat
  PROVE  /\ Append(s, n) \in Seq(Nat)
         /\ Names(Append(s, n)) = Names(s) \cup {n}
         /\ Distinct(s) /\ n \notin Names(s) => Distinct(Append(s, n))
<1>1. /\ Append(s, n) \in Seq(Nat)
      /\ Len(Append(s, n)) = Len(s) + 1
      /\ \A i \in 1 .. Len(s) : Append(s, n)[i] = s[i]
      /\ Append(s, n)[Len(s) + 1] = n
  OBVIOUS
<1>2. /\ Len(s) \in Nat /\ DOMAIN s = 1 .. Len(s)
      /\ DOMAIN Append(s, n) = 1 .. Len(s) + 1
  BY <1>1
<1> DEFINE t == Append(s, n)
<1> HIDE DEF t
<1>3. /\ DOMAIN t = 1 .. Len(s) + 1
      /\ \A i \in 1 .. Len(s) : t[i] = s[i]
      /\ t[Len(s) + 1] = n
  BY <1>1, <1>2 DEF t
<1>4. Names(t) = Names(s) \cup {n}
  <2>1. ASSUME NEW x \in Names(t) PROVE x \in Names(s) \cup {n}
    BY <1>2, <1>3 DEF Names
  <2>2. ASSUME NEW x \in Names(s) PROVE x \in Names(t)
    <3>1. PICK i \in 1 .. Len(s) : x = s[i]
      BY <1>2 DEF Names
    <3>2. i \in DOMAIN t /\ t[i] = x
      BY <1>2, <1>3, <3>1
    <3> QED  BY <3>2 DEF Names
  <2>3. n \in Names(t)
    BY <1>2, <1>3 DEF Names
  <2> QED  BY <2>1, <2>2, <2>3, Zenon
<1>5. Distinct(s) /\ n \notin Names(s) => Distinct(t)
  BY <1>2, <1>3 DEF Distinct, Names
<1> QED  BY <1>1, <1>4, <1>5 DEF t

\* Cache.Pop takes the front name out.
LEMMA PopNames ==
  ASSUME NEW s \in Seq(Nat), s # << >>, Distinct(s)
  PROVE  /\ Tail(s) \in Seq(Nat) /\ Head(s) \in Nat
         /\ Head(s) \in Names(s)
         /\ Names(Tail(s)) = Names(s) \ {Head(s)}
         /\ Distinct(Tail(s))
<1>1. /\ Tail(s) \in Seq(Nat) /\ Head(s) \in Nat
      /\ Len(Tail(s)) = Len(s) - 1
      /\ \A i \in 1 .. Len(Tail(s)) : Tail(s)[i] = s[i + 1]
  OBVIOUS
<1>2. /\ Len(s) \in Nat /\ Len(s) # 0 /\ DOMAIN s = 1 .. Len(s)
      /\ DOMAIN Tail(s) = 1 .. Len(s) - 1
      /\ Head(s) = s[1]
  BY <1>1
<1> DEFINE t == Tail(s)
           h == Head(s)
<1> HIDE DEF t, h
<1>3. /\ DOMAIN t = 1 .. Len(s) - 1
      /\ \A i \in 1 .. Len(s) - 1 : t[i] = s[i + 1]
      /\ h = s[1]
  BY <1>1, <1>2 DEF t, h
<1>4. h \in Names(s)
  BY <1>2, <1>3, SMTT(40) DEF Names
<1>5. ASSUME NEW x \in Names(t) PROVE x \in Names(s) /\ x # h
  <2>1. PICK i \in 1 .. Len(s) - 1 : x = t[i]
    BY <1>3 DEF Names
  <2>2. i + 1 \in DOMAIN s /\ x = s[i + 1] /\ i + 1 # 1 /\ 1 \in DOMAIN s
    BY <1>2, <1>3, <2>1
  <2> QED  BY <1>3, <2>2 DEF Names, Distinct
<1>6. ASSUME NEW x \in Names(s), x # h PROVE x \in Names(t)
  <2>1. PICK i \in 1 .. Len(s) : x = s[i]
    BY <1>2 DEF Names
  <2>2. i - 1 \in DOMAIN t /\ x = t[i - 1]
    BY <1>2, <1>3, <1>6, <2>1
  <2> QED  BY <2>2 DEF Names
<1>7. Distinct(t)
  <2> SUFFICES ASSUME NEW i \in DOMAIN t, NEW j \in DOMAIN t, t[i] = t[j]
               PROVE  i = j
    BY DEF Distinct
  <2>1. /\ i + 1 \in DOMAIN s /\ j + 1 \in DOMAIN s
        /\ s[i + 1] = s[j + 1] /\ i \in Int /\ j \in Int
    BY <1>2, <1>3, SMTT(40)
  <2>2. i + 1 = j + 1
    BY <2>1 DEF Distinct
  <2> QED  BY <2>1, <2>2
<1> QED  BY <1>1, <1>4, <1>5, <1>6, <1>7 DEF t, h

\* The empty cache satisfies the inductive invariant.
LEMMA InitIInv == Init => IInv
<1> SUFFICES ASSUME Init PROVE IInv
  OBVIOUS
<1>1. cache \in Seq(Nat) /\ Names(cache) = {} /\ Distinct(cache)
  BY DEF Init, Names, Distinct
<1>2. TypeOK
  BY <1>1 DEF Init, TypeOK
<1>3. OneOwner /\ DeletesWereMade /\ NothingForgotten
  BY <1>1 DEF Init, OneOwner, DeletesWereMade, NothingForgotten, Holds,
     Deleting
<1>4. NamesAreOld /\ LatePostsGivenUp /\ SuccessIsReal
  BY <1>1 DEF Init, NamesAreOld, LatePostsGivenUp, SuccessIsReal
<1> QED  BY <1>2, <1>3, <1>4 DEF IInv

\* Every step of a worker and of the API server preserves the inductive
\* invariant.
LEMMA NextIInv == IInv /\ [Next]_vars => IInv'
<1> SUFFICES ASSUME IInv, [Next]_vars PROVE IInv'
  OBVIOUS
<1> USE NoneAssumption DEF Request
<1>0. /\ TypeOK /\ OneOwner /\ DeletesWereMade /\ NothingForgotten
      /\ NamesAreOld /\ LatePostsGivenUp /\ SuccessIsReal
  BY DEF IInv
<1>1. ASSUME NEW w \in Workers, BuildPost(w) PROVE IInv'
  <2>1. cache' = cache /\ Names(cache') = Names(cache)
        /\ (Distinct(cache) => Distinct(cache'))
    BY <1>1 DEF BuildPost
  <2>2. TypeOK'
    BY <1>0, <1>1, <2>1 DEF BuildPost, server, TypeOK
  <2>3. OneOwner'
    BY <1>0, <1>1, <2>1 DEF BuildPost, TypeOK, OneOwner, Holds, NamesAreOld
  <2>4. DeletesWereMade'
    BY <1>0, <1>1, <2>1 DEF BuildPost, server, TypeOK, DeletesWereMade,
       Deleting
  <2>5. NothingForgotten'
    BY <1>0, <1>1, <2>1 DEF BuildPost, server, TypeOK, NothingForgotten, Holds
  <2>6. NamesAreOld'
    <3>1. counter \in Nat /\ counter' = counter + 1
      BY <1>0, <1>1, <2>1 DEF BuildPost, TypeOK
    <3>2. \A n \in Names(cache') : n <= counter'
      <4>1. cache \in Seq(Nat)
        BY <1>0 DEF TypeOK
      <4>2. Names(cache) \subseteq Nat
        BY <4>1 DEF Names
      <4> QED  BY <1>0, <1>1, <2>1, <3>1, <4>2 DEF NamesAreOld
    <3>3. ASSUME NEW v \in Workers, held'[v] # None
          PROVE  held'[v].name <= counter'
      BY <1>0, <1>1, <2>1, <3>1, <3>3 DEF BuildPost, TypeOK, NamesAreOld
    <3>4. \A q \in late' : q.name <= counter'
      BY <1>0, <1>1, <2>1, <3>1 DEF BuildPost, server, TypeOK, NamesAreOld
    <3> QED  BY <3>2, <3>3, <3>4 DEF NamesAreOld
  <2>7. LatePostsGivenUp'
    BY <1>0, <1>1, <2>1 DEF BuildPost, server, TypeOK, LatePostsGivenUp,
       Holds, NamesAreOld
  <2>8. SuccessIsReal'
    BY <1>0, <1>1, <2>1 DEF BuildPost, server, TypeOK, SuccessIsReal, Deleting
  <2> QED  BY <2>2, <2>3, <2>4, <2>5, <2>6, <2>7, <2>8 DEF IInv
<1>2. ASSUME NEW w \in Workers, BuildDelete(w) PROVE IInv'
  <2>0. /\ cache' \in Seq(Nat) /\ Head(cache) \in Nat
        /\ Head(cache) \in Names(cache)
        /\ Names(cache') = Names(cache) \ {Head(cache)}
        /\ Distinct(cache')
    BY <1>0, <1>2, PopNames DEF BuildDelete, TypeOK, OneOwner
  <2>2. TypeOK'
    BY <1>0, <1>2, <2>0 DEF BuildDelete, server, TypeOK
  <2>3. OneOwner'
    BY <1>0, <1>2, <2>0 DEF BuildDelete, TypeOK, OneOwner, Holds
  <2>4. DeletesWereMade'
    BY <1>0, <1>2, <2>0 DEF BuildDelete, server, TypeOK, DeletesWereMade,
       Deleting
  <2>5. NothingForgotten'
    BY <1>0, <1>2, <2>0 DEF BuildDelete, server, TypeOK, NothingForgotten,
       Holds
  <2>6. NamesAreOld'
    BY <1>0, <1>2, <2>0 DEF BuildDelete, server, TypeOK, NamesAreOld
  <2>7. LatePostsGivenUp'
    BY <1>0, <1>2, <2>0 DEF BuildDelete, server, TypeOK, LatePostsGivenUp,
       Holds
  <2>8. SuccessIsReal'
    BY <1>0, <1>2, <2>0 DEF BuildDelete, server, TypeOK, SuccessIsReal,
       Deleting
  <2> QED  BY <2>2, <2>3, <2>4, <2>5, <2>6, <2>7, <2>8 DEF IInv
<1>3. ASSUME NEW w \in Workers, LimiterFail(w) PROVE IInv'
  <2>0. held[w] # None /\ held[w] \in Request
    BY <1>0, <1>3 DEF LimiterFail, TypeOK
  <2>1. cache' = cache /\ Names(cache') = Names(cache)
        /\ (Distinct(cache) => Distinct(cache'))
    BY <1>3 DEF LimiterFail
  <2>2. TypeOK'
    BY <1>0, <1>3, <2>0, <2>1, Zenon DEF LimiterFail, server, TypeOK
  <2>3. OneOwner'
    BY <1>0, <1>3, <2>0, <2>1 DEF LimiterFail, TypeOK, OneOwner, Holds
  <2>4. DeletesWereMade'
    BY <1>0, <1>3, <2>0, <2>1 DEF LimiterFail, server, TypeOK,
       DeletesWereMade, Deleting
  <2>5. NothingForgotten'
    BY <1>0, <1>3, <2>0, <2>1 DEF LimiterFail, server, TypeOK,
       NothingForgotten, Holds
  <2>6. NamesAreOld'
    BY <1>0, <1>3, <2>0, <2>1 DEF LimiterFail, server, TypeOK, NamesAreOld
  <2>7. LatePostsGivenUp'
    BY <1>0, <1>3, <2>0, <2>1 DEF LimiterFail, server, TypeOK,
       LatePostsGivenUp, Holds
  <2>8. SuccessIsReal'
    BY <1>0, <1>3, <2>0, <2>1 DEF LimiterFail, server, TypeOK, SuccessIsReal,
       Deleting
  <2> QED  BY <2>2, <2>3, <2>4, <2>5, <2>6, <2>7, <2>8 DEF IInv
<1>4. ASSUME NEW w \in Workers, Send(w) PROVE IInv'
  <2>0. held[w] # None /\ held[w] \in Request
    BY <1>0, <1>4 DEF Send, TypeOK
  <2>1. cache' = cache /\ Names(cache') = Names(cache)
        /\ (Distinct(cache) => Distinct(cache'))
    BY <1>4 DEF Send
  <2>2. TypeOK'
    BY <1>0, <1>4, <2>0, <2>1 DEF Send, server, TypeOK
  <2>3. SuccessIsReal'
    BY <1>0, <1>4, <2>0, <2>1, SMTT(40) DEF Send, server, TypeOK, SuccessIsReal,
       Deleting
  <2>4. /\ OneOwner'
        /\ DeletesWereMade'
        /\ NothingForgotten'
        /\ NamesAreOld'
        /\ LatePostsGivenUp'
    BY <1>0, <1>4, <2>0, <2>1 DEF Send, server, OneOwner, Holds,
       DeletesWereMade, Deleting, NothingForgotten, NamesAreOld,
       LatePostsGivenUp
  <2> QED  BY <2>2, <2>3, <2>4 DEF IInv
<1>5. ASSUME NEW w \in Workers, Accept(w) PROVE IInv'
  <2>0. held[w] # None /\ held[w] \in Request
    BY <1>0, <1>5 DEF Accept, TypeOK
  <2>1. cache' = cache /\ Names(cache') = Names(cache)
        /\ (Distinct(cache) => Distinct(cache'))
    BY <1>5 DEF Accept
  <2>2. TypeOK'
    BY <1>0, <1>5, <2>0, <2>1, Zenon DEF Accept, CarryOut, TypeOK
  <2>3. DeletesWereMade'
    BY <1>0, <1>5, <2>0, <2>1 DEF Accept, CarryOut, TypeOK, DeletesWereMade,
       Deleting
  <2>4. NothingForgotten'
    BY <1>0, <1>5, <2>0, <2>1, SMTT(40)
    DEF Accept, CarryOut, TypeOK, NothingForgotten,
       Holds
  <2>5. SuccessIsReal'
    BY <1>0, <1>5, <2>0, <2>1, SMTT(40) DEF Accept, CarryOut, TypeOK, SuccessIsReal,
       Deleting, OneOwner, Holds
  <2>6. /\ OneOwner'
        /\ NamesAreOld'
        /\ LatePostsGivenUp'
    BY <1>0, <1>5, <2>0, <2>1 DEF Accept, CarryOut, OneOwner, Holds,
       NamesAreOld, LatePostsGivenUp
  <2> QED  BY <2>2, <2>3, <2>4, <2>5, <2>6 DEF IInv
<1>6. ASSUME NEW w \in Workers, Reject(w) PROVE IInv'
  <2>0. held[w] # None /\ held[w] \in Request
    BY <1>0, <1>6 DEF Reject, TypeOK
  <2>1. cache' = cache /\ Names(cache') = Names(cache)
        /\ (Distinct(cache) => Distinct(cache'))
    BY <1>6 DEF Reject
  <2>2. TypeOK'
    BY <1>0, <1>6, <2>0, <2>1 DEF Reject, server, TypeOK
  <2>3. SuccessIsReal'
    BY <1>0, <1>6, <2>0, <2>1, SMTT(40) DEF Reject, server, TypeOK, SuccessIsReal,
       Deleting
  <2>4. /\ OneOwner'
        /\ DeletesWereMade'
        /\ NothingForgotten'
        /\ NamesAreOld'
        /\ LatePostsGivenUp'
    BY <1>0, <1>6, <2>0, <2>1 DEF Reject, server, OneOwner, Holds,
       DeletesWereMade, Deleting, NothingForgotten, NamesAreOld,
       LatePostsGivenUp
  <2> QED  BY <2>2, <2>3, <2>4 DEF IInv
<1>7. ASSUME NEW w \in Workers, DoSucceeded(w) PROVE IInv'
  <2>0. held[w] # None /\ held[w] \in Request
    BY <1>0, <1>7 DEF DoSucceeded, TypeOK
  <2>1. /\ cache' \in Seq(Nat) /\ Distinct(cache')
        /\ Names(cache') = IF Deleting(w) THEN Names(cache)
                           ELSE Names(cache) \cup {held[w].name}
    BY <1>0, <1>7, <2>0, PushNames, Zenon DEF DoSucceeded, TypeOK, OneOwner
  <2>2. TypeOK'
    BY <1>0, <1>7, <2>0, <2>1 DEF DoSucceeded, Through, server, TypeOK
  <2>3. OneOwner'
    BY <1>0, <1>7, <2>0, <2>1 DEF DoSucceeded, Through, TypeOK, OneOwner,
       Holds
  <2>4. DeletesWereMade'
    BY <1>0, <1>7, <2>0, <2>1 DEF DoSucceeded, Through, server, TypeOK,
       DeletesWereMade, Deleting, SuccessIsReal
  <2>5. NothingForgotten'
    BY <1>0, <1>7, <2>0, <2>1 DEF DoSucceeded, Through, server, TypeOK,
       NothingForgotten, Holds, SuccessIsReal, Deleting
  <2>6. NamesAreOld'
    BY <1>0, <1>7, <2>0, <2>1 DEF DoSucceeded, Through, server, TypeOK,
       NamesAreOld
  <2>7. LatePostsGivenUp'
    BY <1>0, <1>7, <2>0, <2>1 DEF DoSucceeded, Through, server, TypeOK,
       LatePostsGivenUp, Holds
  <2>8. SuccessIsReal'
    BY <1>0, <1>7, <2>0, <2>1 DEF DoSucceeded, Through, server, TypeOK,
       SuccessIsReal, Deleting
  <2> QED  BY <2>2, <2>3, <2>4, <2>5, <2>6, <2>7, <2>8 DEF IInv
<1>8. ASSUME NEW w \in Workers, DoFailed(w) PROVE IInv'
  <2>0. held[w] # None /\ held[w] \in Request
    BY <1>0, <1>8 DEF DoFailed, TypeOK
  <2>1. /\ cache' \in Seq(Nat) /\ Distinct(cache')
        /\ Names(cache') = IF Deleting(w)
                           THEN Names(cache) \cup {held[w].name}
                           ELSE Names(cache)
    BY <1>0, <1>8, <2>0, PushNames, Zenon DEF DoFailed, Fail, TypeOK, OneOwner
  <2>2. TypeOK'
    BY <1>0, <1>8, <2>0, <2>1, Zenon DEF DoFailed, Through, Fail, server, TypeOK
  <2>3. OneOwner'
    BY <1>0, <1>8, <2>0, <2>1 DEF DoFailed, Through, Fail, TypeOK, OneOwner,
       Holds
  <2>4. DeletesWereMade'
    BY <1>0, <1>8, <2>0, <2>1 DEF DoFailed, Through, Fail, server, TypeOK,
       DeletesWereMade, Deleting
  <2>5. NothingForgotten'
    BY <1>0, <1>8, <2>0, <2>1 DEF DoFailed, Through, Fail, server, TypeOK,
       NothingForgotten, Holds
  <2>6. NamesAreOld'
    BY <1>0, <1>8, <2>0, <2>1 DEF DoFailed, Through, Fail, server, TypeOK,
       NamesAreOld
  <2>7. LatePostsGivenUp'
    BY <1>0, <1>8, <2>0, <2>1, SMTT(40) DEF DoFailed, Through, Fail, server, TypeOK,
       LatePostsGivenUp, Holds, Deleting
  <2>8. SuccessIsReal'
    BY <1>0, <1>8, <2>0, <2>1 DEF DoFailed, Through, Fail, server, TypeOK,
       SuccessIsReal, Deleting
  <2> QED  BY <2>2, <2>3, <2>4, <2>5, <2>6, <2>7, <2>8 DEF IInv
<1>9. ASSUME NEW w \in Workers, DoTimeout(w) PROVE IInv'
  <2>0. held[w] # None /\ held[w] \in Request
    BY <1>0, <1>9 DEF DoTimeout, TypeOK
  <2>1. /\ cache' \in Seq(Nat) /\ Distinct(cache')
        /\ Names(cache') = IF Deleting(w)
                           THEN Names(cache) \cup {held[w].name}
                           ELSE Names(cache)
    BY <1>0, <1>9, <2>0, PushNames, Zenon DEF DoTimeout, Fail, TypeOK, OneOwner
  <2>2. TypeOK'
    BY <1>0, <1>9, <2>0, <2>1, Zenon DEF DoTimeout, Through, Fail, TypeOK
  <2>3. OneOwner'
    BY <1>0, <1>9, <2>0, <2>1, SMTT(40)
    DEF DoTimeout, Through, Fail, TypeOK, OneOwner,
       Holds
  <2>4. DeletesWereMade'
    BY <1>0, <1>9, <2>0, <2>1, SMTT(40) DEF DoTimeout, Through, Fail, TypeOK,
       DeletesWereMade, Deleting
  <2>5. NothingForgotten'
    BY <1>0, <1>9, <2>0, <2>1 DEF DoTimeout, Through, Fail, TypeOK,
       NothingForgotten, Holds
  <2>6. NamesAreOld'
    BY <1>0, <1>9, <2>0, <2>1, SMTT(40) DEF DoTimeout, Through, Fail, TypeOK,
       NamesAreOld
  <2>7. LatePostsGivenUp'
    BY <1>0, <1>9, <2>0, <2>1, SMTT(40) DEF DoTimeout, Through, Fail, TypeOK,
       LatePostsGivenUp, Holds, OneOwner, Deleting
  <2>8. SuccessIsReal'
    BY <1>0, <1>9, <2>0, <2>1 DEF DoTimeout, Through, Fail, TypeOK,
       SuccessIsReal, Deleting
  <2> QED  BY <2>2, <2>3, <2>4, <2>5, <2>6, <2>7, <2>8 DEF IInv
<1>10. ASSUME NEW q \in late, AcceptLate(q) PROVE IInv'
  <2>1. cache' = cache /\ Names(cache') = Names(cache)
        /\ (Distinct(cache) => Distinct(cache'))
    BY <1>10 DEF AcceptLate
  <2>2. TypeOK'
    BY <1>0, <1>10, <2>1, Zenon DEF AcceptLate, CarryOut, TypeOK
  <2>3. DeletesWereMade'
    BY <1>0, <1>10, <2>1, SMTT(40) DEF AcceptLate, CarryOut, TypeOK, DeletesWereMade,
       Deleting
  <2>4. NothingForgotten'
    BY <1>0, <1>10, <2>1 DEF AcceptLate, CarryOut, TypeOK, NothingForgotten,
       Holds, LatePostsGivenUp
  <2>5. NamesAreOld'
    BY <1>0, <1>10, <2>1 DEF AcceptLate, CarryOut, TypeOK, NamesAreOld
  <2>6. LatePostsGivenUp'
    BY <1>0, <1>10, <2>1, SMTT(40) DEF AcceptLate, CarryOut, TypeOK, LatePostsGivenUp,
       Holds
  <2>7. SuccessIsReal'
    BY <1>0, <1>10, <2>1, SMTT(40) DEF AcceptLate, CarryOut, TypeOK, SuccessIsReal,
       Deleting, LatePostsGivenUp, Holds
  <2>8. OneOwner'
    BY <1>0, <1>10, <2>1, SMTT(40) DEF AcceptLate, CarryOut, OneOwner, Holds
  <2> QED  BY <2>2, <2>3, <2>4, <2>5, <2>6, <2>7, <2>8 DEF IInv
<1>11. ASSUME UNCHANGED vars PROVE IInv'
  BY <1>0, <1>11, Zenon DEF vars, IInv, TypeOK, OneOwner, DeletesWereMade,
     NothingForgotten, NamesAreOld, LatePostsGivenUp, SuccessIsReal, Holds,
     Deleting
<1> QED
  BY <1>1, <1>2, <1>3, <1>4, <1>5, <1>6, <1>7, <1>8, <1>9, <1>10, <1>11 DEF
     Next, Work

\* The inductive invariant holds in every reachable state.
LEMMA SpecIInv == Spec => []IInv
  BY InitIInv, NextIInv, PTL DEF Spec

\* The state is well typed, and a worker holds a request exactly between Build
\* and the return of Do.
THEOREM TypeCorrect == Spec => []TypeOK
<1>1. IInv => TypeOK  BY DEF IInv
<1> QED  BY SpecIInv, <1>1, PTL

\* For any number of workers a name is in the cache once or held by one worker:
\* Pop and Push never let two workers delete the same resource.
THEOREM OneOwnerHolds == Spec => []OneOwner
<1>1. IInv => OneOwner  BY DEF IInv
<1> QED  BY SpecIInv, <1>1, PTL

\* Only resources that have existed are deleted.
THEOREM DeletesWereMadeHolds == Spec => []DeletesWereMade
<1>1. IInv => DeletesWereMade  BY DEF IInv
<1> QED  BY SpecIInv, <1>1, PTL

\* A resource is lost sight of only by a POST that failed or a request that
\* the limiter dropped.
THEOREM NothingForgottenHolds == Spec => []NothingForgotten
<1>1. IInv => NothingForgotten  BY DEF IInv
<1> QED  BY SpecIInv, <1>1, PTL

-----------------------------------------------------------------------------
(* From the flags to the load.                                             *)

\* A profile of one spec.
LEMMA OneSpec ==
  ASSUME NEW s \in Conf!Specs
  PROVE  /\ <<s>> \in Seq(Conf!Specs) /\ Len(<<s>>) = 1
         /\ \A i \in DOMAIN <<s>> : ~(i > 1)
OBVIOUS

\* What the embedded profiles have in common.
LEMMA EmbeddedShape ==
  ASSUME NEW cmd \in Conf!Commands
  PROVE  /\ Conf!Embedded(cmd) \in Seq(Conf!Specs)
         /\ Len(Conf!Embedded(cmd)) =
              IF cmd = "timeseries_replay" THEN Len(Phases) ELSE 1
         /\ \A i \in DOMAIN Conf!Embedded(cmd) :
              i > 1 => Conf!Valid(Conf!Embedded(cmd)[i])
<1>1. CASE cmd = "timeseries_replay"
  <2>1. Conf!Embedded(cmd) =
          [i \in 1..Len(Phases) |-> [total |-> 0, duration |-> Phases[i]]]
    BY <1>1 DEF Conf!Embedded
  <2>2. \A i \in 1..Len(Phases) : Phases[i] \in Nat \ {0}
    BY ConfigAssumption
  <2>3. Len(Phases) \in Nat
    BY ConfigAssumption
  <2>4. /\ Conf!Embedded(cmd) \in Seq(Conf!Specs)
        /\ Len(Conf!Embedded(cmd)) = Len(Phases)
    <3>1. \A i \in 1..Len(Phases) :
            [total |-> 0, duration |-> Phases[i]] \in Conf!Specs
      BY <2>2 DEF Conf!Specs
    <3> QED BY <2>1, <2>3, <3>1
  <2> QED BY <1>1, <2>1, <2>2, <2>4 DEF Conf!Valid
<1>2. CASE cmd = "list_configmaps"
  <2>1. Conf!Embedded(cmd) = <<[total |-> 0, duration |-> 0]>>
    BY <1>2 DEF Conf!Embedded
  <2>2. [total |-> 0, duration |-> 0] \in Conf!Specs
    BY DEF Conf!Specs
  <2> QED BY <1>2, <2>1, <2>2, OneSpec, Zenon
<1>3. CASE cmd \notin {"list_configmaps", "timeseries_replay"}
  <2>1. Conf!Embedded(cmd) = <<[total |-> Total, duration |-> 0]>>
    BY <1>3 DEF Conf!Embedded
  <2>2. [total |-> Total, duration |-> 0] \in Conf!Specs
    BY ConfigAssumption DEF Conf!Specs
  <2> QED BY <1>3, <2>1, <2>2, OneSpec
<1> QED BY <1>1, <1>2, <1>3

\* A profile has a first spec, the one the flags change.
LEMMA FirstExists ==
  ASSUME Conf!Shape PROVE 1 \in DOMAIN specs /\ Len(specs) \in Nat \ {0}
BY ConfigAssumption DEF Conf!Shape

\* The inductive invariant holds before the profile is read.
LEMMA ConfigInit == ASSUME Conf!Init PROVE Conf!IInv
<1>1. flags \in Conf!Flags /\ flags.cmd \in Conf!Commands /\ Conf!HasFlags(flags)
  BY DEF Conf!Init, Conf!Flags
<1>2. Conf!Shape
  BY <1>1, EmbeddedShape, Zenon DEF Conf!Init, Conf!Shape
<1>3. Conf!TypeOK
  <2>1. DOMAIN cores = Instances
    BY DEF Conf!Init
  <2>2. \A i \in DOMAIN specs : specs[i] \in Conf!Specs
    BY <1>2 DEF Conf!Shape
  <2>3. Len(took) = 0 /\ Len(specs) \in Nat
    BY <1>2, FirstExists DEF Conf!Init
  <2>4. clock \in 0..MaxTime /\ sent \in 0..(MaxTime * Rate)
    BY ConfigAssumption, SMTT(40) DEF Conf!Init
  <2> QED BY <1>1, <2>1, <2>2, <2>3, <2>4 DEF Conf!Init, Conf!TypeOK
<1>4. Conf!FirstAsAsked
  BY <1>1, SMTT(40) DEF Conf!Init, Conf!FirstAsAsked, Conf!Tweaked
<1>5. Conf!Progress
  BY ConfigAssumption DEF Conf!Init, Conf!Progress
<1>6. /\ Conf!TotalWins /\ Conf!DurationHonoured
      /\ Conf!RunnerAccepts /\ Conf!SharesAreWhole
  BY DEF Conf!Init, Conf!TotalWins, Conf!DurationHonoured, Conf!RunnerAccepts,
         Conf!SharesAreWhole
<1> QED BY <1>2, <1>3, <1>4, <1>5, <1>6 DEF Conf!IInv

\* The first spec is changed and the others are not.
LEMMA FirstChanged ==
  ASSUME Conf!Shape, NEW first \in Conf!Specs,
         specs' = [specs EXCEPT ![1] = first], flags' = flags, st' # "start"
  PROVE  Conf!Shape' /\ specs'[1] = first /\ Len(specs') = Len(specs)
<1>1. 1 \in DOMAIN specs /\ Len(specs) \in Nat \ {0}
  BY FirstExists
<1>2. specs' \in Seq(Conf!Specs) /\ Len(specs') = Len(specs)
  BY <1>1 DEF Conf!Shape
<1> QED BY <1>1, <1>2 DEF Conf!Shape

\* newLoadProfileFromEmbed and the callbacks that change the profile.
LEMMA TweakStep == ASSUME Conf!IInv, Conf!Tweak PROVE Conf!IInv'
<1>1. /\ st = "start" /\ UNCHANGED <<flags, cores, took, clock, sent>>
      /\ took = << >> /\ clock = 0 /\ sent = 0
  BY SMTT(40) DEF Conf!Tweak, Conf!IInv, Conf!Progress
<1>2. flags \in Conf!Flags /\ Conf!HasFlags(flags)
  BY DEF Conf!IInv, Conf!TypeOK, Conf!FirstAsAsked
<1>3. CASE ~Conf!FlagsOk(flags)
  <2>1. st' = "error" /\ UNCHANGED <<specs, shares>>
    BY <1>3, SMTT(40) DEF Conf!Tweak
  <2>2. Conf!TypeOK' /\ Conf!Shape' /\ Conf!FirstAsAsked' /\ Conf!Progress'
    BY <1>1, <2>1, ZenonT(60)
    DEF Conf!IInv, Conf!TypeOK, Conf!Shape, Conf!FirstAsAsked, Conf!Progress,
        Conf!Tweaked
  <2> QED BY <1>1, <2>1, <2>2
          DEF Conf!IInv, Conf!TotalWins, Conf!DurationHonoured,
              Conf!RunnerAccepts, Conf!SharesAreWhole
<1>4. CASE Conf!FlagsOk(flags)
  <2> DEFINE first == IF flags.cmd = "warmup"
                        THEN Conf!warmupProfile(flags, specs[1])
                        ELSE Conf!newLoadProfileFromEmbed(flags, specs[1])
  <2>1. /\ specs' = [specs EXCEPT ![1] = first]
        /\ st' \in {"fetch", "deploy"}
        /\ shares' = IF flags.cmd = "read_update"
                       THEN Conf!tweakReadUpdateProfile(flags) ELSE shares
    <3>1. 1 \in DOMAIN specs
      BY FirstExists DEF Conf!IInv
    <3> QED BY <1>1, <1>4, <3>1 DEF Conf!Tweak
  <2>2. /\ specs[1].total \in Nat /\ specs[1].duration \in Nat
        /\ specs[1] \in Conf!Specs
    <3>1. specs[1] \in Conf!Specs
      BY FirstExists DEF Conf!IInv, Conf!Shape
    <3> QED BY <3>1 DEF Conf!Specs
  <2>3. flags.total \in Nat /\ flags.duration \in Int /\ flags.ratio \in Int
    <3>1. /\ flags.total \in Totals \cup {-1, Default}
          /\ flags.duration \in Durations
          /\ flags.ratio \in Ratios
      BY <1>2 DEF Conf!Flags
    <3>2. /\ Totals \cup {-1, Default} \subseteq Int
          /\ Durations \subseteq Int /\ Ratios \subseteq Int
      BY ConfigAssumption
    <3>3. flags.total \in Int /\ flags.duration \in Int /\ flags.ratio \in Int
      BY <3>1, <3>2, Zenon
    <3> QED BY <1>4, <3>3 DEF Conf!FlagsOk
  <2>4. first \in Conf!Specs
    BY <2>2, <2>3
    DEF Conf!warmupProfile, Conf!newLoadProfileFromEmbed, Conf!Specs
  <2>5. Conf!ByTotal => first.total = flags.total
    BY <2>2, <2>3, SMTT(40)
    DEF Conf!ByTotal, Conf!warmupProfile, Conf!newLoadProfileFromEmbed
  <2>6. Conf!ByDuration => first.total = 0 /\ first.duration = flags.duration
    <3>1. flags.cmd = "list_configmaps" => specs[1].total = 0
      BY <1>1 DEF Conf!IInv, Conf!Shape, Conf!Embedded
    <3> QED
      BY <2>2, <2>3, <3>1 DEF Conf!ByDuration, Conf!newLoadProfileFromEmbed
  <2> HIDE DEF first
  <2>7. Conf!Shape' /\ specs'[1] = first /\ Len(specs') = Len(specs)
    BY <1>1, <2>1, <2>4, FirstChanged, Zenon DEF Conf!IInv
  <2>8. Conf!ByTotal \/ Conf!ByDuration => Len(specs) = 1
    BY <1>2, SMTT(40)
    DEF Conf!IInv, Conf!Shape, Conf!HasFlags, Conf!ByTotal, Conf!ByDuration
  <2>9. Conf!FirstAsAsked'
    BY <1>1, <1>2, <2>1, <2>5, <2>6, <2>7, <2>8
    DEF Conf!FirstAsAsked, Conf!Tweaked, Conf!ByTotal, Conf!ByDuration,
        Conf!HasFlags
  <2>10. /\ shares'.patch \in 0..100 /\ shares'.staleList \in 0..100
         /\ shares'.patch + shares'.staleList = 100
    <3>1. CASE flags.cmd = "read_update"
      <4>1. flags.ratio \in 1..1000
        BY <1>4, <2>3, <3>1, SMTT(40) DEF Conf!FlagsOk
      <4>2. flags.ratio \div 10 \in 0..100
        BY <4>1, SMTT(40)
      <4> QED BY <2>1, <3>1, <4>2, SMTT(40)
              DEF Conf!tweakReadUpdateProfile, Conf!Percent
    <3>2. CASE flags.cmd # "read_update"
      BY <2>1, <3>2 DEF Conf!IInv, Conf!TypeOK, Conf!SharesAreWhole
    <3> QED BY <3>1, <3>2, SMTT(40)
  <2>11. Conf!TypeOK'
    <3>1. \A i \in DOMAIN specs' : specs'[i] \in Conf!Specs
      BY <2>7 DEF Conf!Shape
    <3> QED BY <1>1, <2>1, <2>7, <2>10, <3>1 DEF Conf!IInv, Conf!TypeOK
  <2>12. Conf!Progress'
    BY <1>1, <2>1 DEF Conf!IInv, Conf!Progress
  <2> QED BY <1>1, <2>1, <2>7, <2>9, <2>10, <2>11, <2>12, SMTT(40)
          DEF Conf!IInv, Conf!TotalWins, Conf!DurationHonoured,
              Conf!RunnerAccepts, Conf!SharesAreWhole
<1> QED BY <1>3, <1>4

\* The warm-up asks the instances for their cores.
LEMMA FetchStep == ASSUME Conf!IInv, Conf!FetchAPIServerCores PROVE Conf!IInv'
<1>1. /\ st = "fetch" /\ st' \in {"skipped", "deploy"}
      /\ UNCHANGED <<flags, cores, specs, shares, took, clock, sent>>
  BY SMTT(20) DEF Conf!FetchAPIServerCores
<1>2. Conf!TypeOK' /\ Conf!Shape' /\ Conf!FirstAsAsked' /\ Conf!Progress'
  BY <1>1, Zenon
  DEF Conf!IInv, Conf!TypeOK, Conf!Shape, Conf!FirstAsAsked, Conf!Progress,
      Conf!Tweaked, Conf!ByTotal, Conf!ByDuration
<1> QED BY <1>1, <1>2
        DEF Conf!IInv, Conf!TotalWins, Conf!DurationHonoured,
            Conf!RunnerAccepts, Conf!SharesAreWhole

\* What the runner makes of the first spec is valid.
LEMMA FirstSpecFact ==
  ASSUME NEW s \in Conf!Specs
  PROVE  /\ Conf!FirstSpec(s) \in Conf!Specs /\ Conf!Valid(Conf!FirstSpec(s))
         /\ s.total > 0 => /\ Conf!FirstSpec(s).total = s.total
                           /\ Conf!FirstSpec(s).duration = 0
         /\ s.total = 0 /\ s.duration > 0 => Conf!FirstSpec(s) = s
<1>1. s.total \in Nat /\ s.duration \in Nat
  BY DEF Conf!Specs
<1>2. CASE s.total > 0
  BY <1>1, <1>2 DEF Conf!FirstSpec, Conf!Specs, Conf!Valid
<1>3. CASE s.total = 0 /\ s.duration = 0
  BY <1>1, <1>3, ConfigAssumption, SMTT(40) DEF Conf!FirstSpec, Conf!Specs, Conf!Valid
<1>4. CASE s.total = 0 /\ s.duration > 0
  BY <1>1, <1>4 DEF Conf!FirstSpec, Conf!Specs, Conf!Valid
<1> QED BY <1>1, <1>2, <1>3, <1>4

\* The runner changes the first spec, and checks the profile.
LEMMA LoadConfigStep == ASSUME Conf!IInv, Conf!loadConfig PROVE Conf!IInv'
<1>1. /\ st = "deploy" /\ UNCHANGED <<flags, cores, shares, took, clock, sent>>
      /\ took = << >> /\ clock = 0 /\ sent = 0
  BY DEF Conf!loadConfig, Conf!IInv, Conf!Progress
<1>2. 1 \in DOMAIN specs /\ specs[1] \in Conf!Specs /\ Len(specs) \in Nat \ {0}
  BY FirstExists DEF Conf!IInv, Conf!Shape
<1>3. specs' = [specs EXCEPT ![1] = Conf!FirstSpec(specs[1])]
  BY <1>2 DEF Conf!loadConfig
<1>4. /\ Conf!Shape' /\ specs'[1] = Conf!FirstSpec(specs[1])
      /\ Len(specs') = Len(specs)
  BY <1>1, <1>2, <1>3, FirstSpecFact, FirstChanged, Zenon
  DEF Conf!IInv, Conf!loadConfig
<1>5. \A i \in DOMAIN specs : Conf!Valid(specs'[i])
  <2> SUFFICES ASSUME NEW i \in DOMAIN specs PROVE Conf!Valid(specs'[i])
    OBVIOUS
  <2>1. CASE i = 1
    BY <1>2, <1>4, <2>1, FirstSpecFact
  <2>2. CASE i # 1
    BY <1>3, <2>2 DEF Conf!IInv, Conf!Shape
  <2> QED BY <2>1, <2>2
<1>6. st' = "running"
  BY <1>5, SMTT(40) DEF Conf!loadConfig
<1>7. Conf!FirstAsAsked'
  <2>1. specs[1].total \in Nat
    BY <1>2, SMTT(40) DEF Conf!Specs
  <2> QED
    BY <1>1, <1>2, <1>4, <1>6, <2>1, FirstSpecFact
    DEF Conf!IInv, Conf!FirstAsAsked, Conf!Tweaked, Conf!ByTotal,
        Conf!ByDuration
<1>8. Conf!TypeOK'
  <2>1. \A i \in DOMAIN specs' : specs'[i] \in Conf!Specs
    BY <1>4, SMTT(40) DEF Conf!Shape
  <2> QED BY <1>1, <1>4, <1>6, <2>1 DEF Conf!IInv, Conf!TypeOK
<1>9. Conf!Progress'
  <2>1. specs'[1].total \in Nat /\ specs'[1].duration \in Nat
    BY <1>2, <1>4, FirstSpecFact, Zenon DEF Conf!Specs
  <2>2. Conf!Phase' = 1 /\ Len(took') = 0
    BY <1>1 DEF Conf!Phase
  <2> QED BY <1>1, <1>2, <1>4, <1>6, <2>1, <2>2 DEF Conf!IInv, Conf!Progress
<1> QED BY <1>1, <1>4, <1>6, <1>7, <1>8, <1>9
        DEF Conf!IInv, Conf!TotalWins, Conf!DurationHonoured,
            Conf!RunnerAccepts, Conf!SharesAreWhole

\* The phase that is running.
LEMMA RunningPhase ==
  ASSUME Conf!IInv, st = "running"
  PROVE  /\ Conf!Phase \in DOMAIN specs /\ Len(took) \in Nat /\ Len(specs) \in Nat
         /\ Conf!Phase = Len(took) + 1
         /\ specs[Conf!Phase].total \in Nat
         /\ specs[Conf!Phase].duration \in Nat
         /\ clock \in Nat /\ sent \in Nat /\ took \in Seq(Nat)
<1>1. /\ Len(took) \in Nat /\ Len(specs) \in Nat
      /\ Len(took) < Len(specs) /\ took \in Seq(Nat)
  BY FirstExists DEF Conf!IInv, Conf!Progress
<1>2. Conf!Phase \in DOMAIN specs /\ specs[Conf!Phase] \in Conf!Specs
  <2>1. specs \in Seq(Conf!Specs)
    BY DEF Conf!IInv, Conf!Shape
  <2>2. Conf!Phase \in 1..Len(specs)
    BY <1>1 DEF Conf!Phase
  <2> QED BY <2>1, <2>2
<1>3. clock \in Nat /\ sent \in Nat
  BY ConfigAssumption DEF Conf!IInv, Conf!TypeOK
<1> QED BY <1>1, <1>2, <1>3 DEF Conf!Phase, Conf!Specs

\* The bound on the requests of a second grows with the seconds.
LEMMA Product ==
  ASSUME NEW a \in Nat, NEW b \in Nat, NEW r \in Nat, a <= b
  PROVE  a * r <= b * r /\ a * r \in Nat /\ b * r \in Nat
<1>1. b - a \in Nat /\ b = a + (b - a)
  OBVIOUS
<1>2. \A d \in Nat : (a + d) * r = a * r + d * r /\ d * r \in Nat /\ a * r \in Nat
  OBVIOUS
<1> QED BY <1>1, <1>2

\* A second of a phase passes, with some requests.
LEMMA SendStep == ASSUME Conf!IInv, Conf!Send PROVE Conf!IInv'
<1>1. /\ st = "running" /\ ~Conf!Over /\ clock < MaxTime /\ clock' = clock + 1
      /\ UNCHANGED <<flags, cores, st, specs, shares, took>>
  BY DEF Conf!Send
<1>2. PICK n \in 0..Rate :
        /\ specs[Conf!Phase].total > 0 => sent + n <= specs[Conf!Phase].total
        /\ sent' = sent + n
  BY DEF Conf!Send
<1>3. /\ Conf!Phase \in DOMAIN specs
      /\ specs[Conf!Phase].total \in Nat /\ specs[Conf!Phase].duration \in Nat
      /\ clock \in Nat /\ sent \in Nat
  BY <1>1, RunningPhase
<1>4. Conf!Phase' = Conf!Phase
  BY <1>1 DEF Conf!Phase
<1>5. sent' <= clock' * Rate /\ sent' \in Nat /\ clock' \in 0..MaxTime
  <2>1. n \in Nat /\ n <= Rate /\ Rate \in Nat
    BY ConfigAssumption
  <2>2. sent <= clock * Rate
    BY DEF Conf!IInv, Conf!Progress
  <2>3. (clock + 1) * Rate = clock * Rate + Rate
    BY <1>3, <2>1
  <2>4. clock * Rate \in Nat
    BY <1>3, <2>1
  <2>5. sent + n <= clock * Rate + Rate
    BY <1>3, <2>1, <2>2, <2>4
  <2> QED BY <1>1, <1>2, <1>3, <2>1, <2>3, <2>5, ConfigAssumption
<1>6. sent' \in 0..(MaxTime * Rate)
  <2>1. clock' \in Nat /\ clock' <= MaxTime /\ MaxTime \in Nat /\ Rate \in Nat
    BY <1>5, ConfigAssumption
  <2>2. /\ clock' * Rate <= MaxTime * Rate
        /\ clock' * Rate \in Nat /\ MaxTime * Rate \in Nat
    BY <2>1, Product, ZenonT(60)
  <2> QED BY <1>5, <2>2
<1>7. Conf!TypeOK' /\ Conf!Shape' /\ Conf!FirstAsAsked'
  BY <1>1, <1>5, <1>6, ZenonT(60)
  DEF Conf!IInv, Conf!TypeOK, Conf!Shape, Conf!FirstAsAsked, Conf!Tweaked,
      Conf!ByTotal, Conf!ByDuration
<1>8. Conf!Progress'
  BY <1>1, <1>2, <1>3, <1>4, <1>5, SMTT(40) DEF Conf!IInv, Conf!Progress, Conf!Over
<1> QED BY <1>1, <1>7, <1>8
        DEF Conf!IInv, Conf!TotalWins, Conf!DurationHonoured,
            Conf!RunnerAccepts, Conf!SharesAreWhole

\* A spec reaches its total or its duration, and the next one begins.
LEMMA EndSpecStep == ASSUME Conf!IInv, Conf!EndSpec PROVE Conf!IInv'
<1>1. /\ st = "running" /\ Conf!Over /\ took' = Append(took, clock)
      /\ UNCHANGED <<flags, cores, specs, shares>>
  BY SMTT(40) DEF Conf!EndSpec
<1>2. /\ Conf!Phase \in DOMAIN specs /\ Len(took) \in Nat /\ Len(specs) \in Nat
      /\ Conf!Phase = Len(took) + 1
      /\ specs[Conf!Phase].total \in Nat /\ specs[Conf!Phase].duration \in Nat
      /\ clock \in Nat /\ sent \in Nat /\ took \in Seq(Nat)
  BY <1>1, RunningPhase, SMTT(20)
<1>3. took' \in Seq(Nat) /\ Len(took') = Conf!Phase
  BY <1>1, <1>2
<1>4. DOMAIN specs = 1..Len(specs)
  <2>1. specs \in Seq(Conf!Specs)
    BY DEF Conf!IInv, Conf!Shape
  <2> QED BY <2>1
<1>5. CASE Conf!Phase = Len(specs)
  <2>1. st' = "ended" /\ UNCHANGED <<clock, sent>>
    BY <1>5 DEF Conf!EndSpec
  <2>2. Conf!TypeOK' /\ Conf!Shape' /\ Conf!FirstAsAsked'
    <3>1. Conf!TypeOK'
      BY <1>1, <1>3, <1>5, <2>1, SMTT(40) DEF Conf!IInv, Conf!TypeOK
    <3>2. Conf!Shape' /\ Conf!FirstAsAsked'
      BY <1>1, <2>1, SMTT(40)
      DEF Conf!IInv, Conf!Shape, Conf!FirstAsAsked, Conf!Tweaked, Conf!ByTotal,
          Conf!ByDuration
    <3> QED BY <3>1, <3>2, SMTT(40)
  <2>3. Conf!Progress'
    BY <1>3, <2>1, SMTT(40) DEF Conf!IInv, Conf!Progress
  <2>4. Conf!TotalWins'
    BY <1>1, <1>2, <1>5, <2>1, SMTT(40)
    DEF Conf!IInv, Conf!FirstAsAsked, Conf!Tweaked, Conf!ByTotal, Conf!Progress,
        Conf!Over, Conf!TotalWins
  <2>5. Conf!DurationHonoured'
    <3> SUFFICES ASSUME Conf!ByDuration PROVE took' = <<flags.duration>>
      BY <1>1, SMTT(40) DEF Conf!ByDuration, Conf!DurationHonoured
    <3>1. /\ Len(specs) = 1 /\ specs[1].total = 0
          /\ specs[1].duration = flags.duration /\ flags.duration > 0
      BY <1>1, SMTT(40)
      DEF Conf!IInv, Conf!FirstAsAsked, Conf!Tweaked, Conf!ByDuration
    <3>2. Conf!Phase = 1 /\ Len(took) = 0 /\ clock = flags.duration
      BY <1>1, <1>2, <1>5, <3>1 DEF Conf!IInv, Conf!Progress, Conf!Over
    <3>3. took = << >>
      BY <1>2, <3>2
    <3> QED BY <1>1, <3>2, <3>3
  <2> QED BY <1>1, <2>1, <2>2, <2>3, <2>4, <2>5
          DEF Conf!IInv, Conf!RunnerAccepts, Conf!SharesAreWhole
<1>6. CASE Conf!Phase # Len(specs)
  <2>1. st' = st /\ clock' = 0 /\ sent' = 0
    BY <1>6 DEF Conf!EndSpec
  <2>0. Conf!Phase \in Nat /\ Conf!Phase <= Len(specs) /\ Conf!Phase < Len(specs)
    <3>1. Conf!Phase \in 1..Len(specs)
      BY <1>2, <1>4
    <3>2. Conf!Phase \in Int /\ Len(specs) \in Int
      BY <1>2
    <3> QED BY <1>6, <3>1, <3>2
  <2>2. /\ Conf!Phase' = Conf!Phase + 1 /\ Conf!Phase + 1 \in DOMAIN specs
        /\ specs[Conf!Phase + 1].total \in Nat
        /\ specs[Conf!Phase + 1].duration \in Nat
    <3>1. Conf!Phase' = Conf!Phase + 1 /\ Conf!Phase + 1 \in DOMAIN specs
      <4>1. Conf!Phase' = Len(took') + 1
        BY DEF Conf!Phase
      <4> QED BY <1>2, <1>3, <1>4, <2>0, <4>1
    <3>2. specs[Conf!Phase + 1] \in Conf!Specs
      BY <3>1 DEF Conf!IInv, Conf!TypeOK
    <3> QED BY <3>1, <3>2 DEF Conf!Specs
  <2>3. Len(took') < Len(specs) /\ Len(took') <= Len(specs)
    BY <1>2, <1>3, <2>0
  <2>4. clock' \in 0..MaxTime /\ sent' \in 0..(MaxTime * Rate)
    BY <2>1, ConfigAssumption, SMTT(20)
  <2>5. Conf!TypeOK' /\ Conf!Shape' /\ Conf!FirstAsAsked'
    BY <1>1, <2>1, <2>3, <2>4, Zenon
    DEF Conf!IInv, Conf!TypeOK, Conf!Shape, Conf!FirstAsAsked, Conf!Tweaked,
        Conf!ByTotal, Conf!ByDuration
  <2>6. Conf!Progress'
    BY <1>1, <1>3, <2>1, <2>2, <2>3, ConfigAssumption DEF Conf!Progress
  <2> QED BY <1>1, <2>1, <2>5, <2>6
          DEF Conf!IInv, Conf!TotalWins, Conf!DurationHonoured,
              Conf!RunnerAccepts, Conf!SharesAreWhole
<1> QED BY <1>5, <1>6

\* Every step preserves the inductive invariant.
LEMMA ConfigNext == ASSUME Conf!IInv, [Conf!Next]_(Conf!vars) PROVE Conf!IInv'
<1>1. CASE Conf!Tweak BY <1>1, TweakStep
<1>2. CASE Conf!FetchAPIServerCores BY <1>2, FetchStep, SMTT(40)
<1>3. CASE Conf!loadConfig BY <1>3, LoadConfigStep
<1>4. CASE Conf!Send BY <1>4, SendStep
<1>5. CASE Conf!EndSpec BY <1>5, EndSpecStep
<1>6. CASE UNCHANGED Conf!vars
  <2>1. Conf!TypeOK' /\ Conf!Shape' /\ Conf!FirstAsAsked' /\ Conf!Progress'
    BY <1>6, ZenonT(60)
    DEF Conf!vars, Conf!IInv, Conf!TypeOK, Conf!Shape, Conf!FirstAsAsked,
        Conf!Progress, Conf!Tweaked, Conf!ByTotal, Conf!ByDuration, Conf!Phase
  <2> QED BY <1>6, <2>1, SMTT(20)
          DEF Conf!vars, Conf!IInv, Conf!TotalWins, Conf!DurationHonoured,
              Conf!RunnerAccepts, Conf!SharesAreWhole
<1> QED BY <1>1, <1>2, <1>3, <1>4, <1>5, <1>6 DEF Conf!Next

\* For any flags, embedded profile, defaults, rate and number of instances the
\* load of a benchmark is the one its flags ask for: --total wins over
\* --duration, the runners accept the profile, and the shares of read_update
\* are percentages.
THEOREM LoadAsAskedHolds == Conf!Spec => []LoadAsAsked
<1>1. Conf!IInv => LoadAsAsked
  BY DEF Conf!IInv, LoadAsAsked
<1> QED  BY <1>1, ConfigInit, ConfigNext, PTL DEF Conf!Spec

-----------------------------------------------------------------------------
(* The load generator.                                                     *)

\* What comes before needs no theorem about finite sets.
INSTANCE FiniteSetTheorems

\* The Cardinality of the instance is that of FiniteSets.
LEMMA GenCardinality == \A S : Gen!Cardinality(S) = Cardinality(S)
  BY DEF Gen!Cardinality, Cardinality

\* The set of workers that hold a request is finite, so its cardinality is a
\* natural number.
LEMMA HeldFinite == IsFiniteSet(Gen!Held) /\ Gen!Cardinality(Gen!Held) \in Nat
  BY WorkersAssumption, FS_Subset, FS_CardinalityType, GenCardinality, SMTT(40)
  DEF Gen!Held

\* A worker that takes a request makes the set of holders one larger.
LEMMA HeldGrows ==
  ASSUME Gen!TypeOK, NEW w \in Workers, wpc[w] \notin {"built", "sent"},
         NEW s \in {"built", "sent"}, wpc' = [wpc EXCEPT ![w] = s]
  PROVE  Gen!Cardinality(Gen!Held') = Gen!Cardinality(Gen!Held) + 1
<1>1. Gen!Held' = Gen!Held \cup {w} /\ w \notin Gen!Held
  BY DEF Gen!Held, Gen!TypeOK
<1>2. QED
  BY <1>1, HeldFinite, FS_AddElement, GenCardinality, SMTT(40)

\* A worker that gives its request up makes the set of holders one smaller.
LEMMA HeldShrinks ==
  ASSUME Gen!TypeOK, NEW w \in Workers, wpc[w] \in {"built", "sent"},
         NEW s \in {"receive", "exited"}, wpc' = [wpc EXCEPT ![w] = s]
  PROVE  Gen!Cardinality(Gen!Held) = Gen!Cardinality(Gen!Held') + 1
<1>1. Gen!Held' = Gen!Held \ {w} /\ w \in Gen!Held
  BY DEF Gen!Held, Gen!TypeOK
<1>2. Gen!Cardinality(Gen!Held') = Gen!Cardinality(Gen!Held) - 1
  BY <1>1, HeldFinite, FS_RemoveElement, GenCardinality, ZenonT(60)
<1>3. QED
  BY <1>2, HeldFinite, SMTT(40)

\* A worker that moves without taking or giving up a request leaves the set of
\* holders as it is.
LEMMA HeldKept ==
  ASSUME Gen!TypeOK, NEW w \in Workers, NEW s,
         wpc[w] \in {"built", "sent"} <=> s \in {"built", "sent"},
         wpc' = [wpc EXCEPT ![w] = s]
  PROVE  Gen!Held' = Gen!Held
  BY SMTT(40) DEF Gen!Held, Gen!TypeOK

\* Every initial state satisfies the inductive invariant.
LEMMA GenInit == Gen!Init => Gen!IInv
<1> SUFFICES ASSUME Gen!Init PROVE Gen!IInv
  OBVIOUS
<1>1. Gen!TypeOK
  <2>1. total \in Nat
    BY SumsAssumption, SMTT(40) DEF Gen!Init
  <2>2. wpc \in [Workers -> {"receive", "built", "sent", "exited"}]
    BY DEF Gen!Init
  <2>3. report \in [Total : Nat, latencies : Nat, failures : Nat]
    BY DEF Gen!Init
  <2>4. QED
    BY <2>1, <2>2, <2>3, ZenonT(60) DEF Gen!Init, Gen!TypeOK
<1>2. Gen!Held = {}
  BY SMTT(40) DEF Gen!Init, Gen!Held
<1>3. Gen!Accounting
  BY <1>2, FS_EmptySet, GenCardinality, SMTT(40) DEF Gen!Init, Gen!Accounting
<1>4. QED
  BY <1>1, <1>3, SumsAssumption
  DEF Gen!Init, Gen!IInv, Gen!NoDeadline, Gen!Gathered

\* Every step of the generator preserves the inductive invariant.
LEMMA GenNext == Gen!IInv /\ [Gen!Next]_(Gen!vars) => Gen!IInv'
<1> SUFFICES ASSUME Gen!IInv, [Gen!Next]_(Gen!vars) PROVE Gen!IInv'
  OBVIOUS
<1> USE DEF Gen!IInv
<1>h. Gen!Cardinality(Gen!Held) \in Nat
  BY HeldFinite, SMTT(40)
<1>1. CASE Gen!RunBreak
  <2>1. Gen!Held' = Gen!Held
    BY <1>1, SMTT(40) DEF Gen!RunBreak, Gen!Held
  <2>2. QED
    BY <1>1, <2>1, SMTT(40)
    DEF Gen!RunBreak, Gen!TypeOK, Gen!Accounting, Gen!NoDeadline, Gen!Gathered,
        Gen!Enough, Gen!metric
<1>2. ASSUME NEW w \in Workers, Gen!RunSend(w) PROVE Gen!IInv'
  <2>1. Gen!Cardinality(Gen!Held') = Gen!Cardinality(Gen!Held) + 1
    BY <1>2, HeldGrows, ZenonT(60) DEF Gen!RunSend
  <2>2. Gen!TypeOK'
    BY <1>2, SMTT(40) DEF Gen!RunSend, Gen!TypeOK, Gen!metric
  <2>3. Gen!Accounting'
    BY <1>2, <2>1, <1>h, SMTT(40)
    DEF Gen!RunSend, Gen!TypeOK, Gen!Accounting, Gen!metric
  <2>4. QED
    BY <1>2, <2>2, <2>3, SMTT(40)
    DEF Gen!RunSend, Gen!TypeOK, Gen!NoDeadline, Gen!Gathered, Gen!Enough,
        Gen!metric
<1>3. CASE Gen!RunCancelled
  <2>1. Gen!Held' = Gen!Held
    BY <1>3, SMTT(40) DEF Gen!RunCancelled, Gen!Held
  <2>2. QED
    BY <1>3, <2>1, SMTT(40)
    DEF Gen!RunCancelled, Gen!TypeOK, Gen!Accounting, Gen!NoDeadline,
        Gen!Gathered, Gen!CtxDone, Gen!metric
<1>4. CASE Gen!Stop
  <2>1. Gen!Held' = Gen!Held
    BY <1>4, SMTT(40) DEF Gen!Stop, Gen!Held
  <2>2. QED
    BY <1>4, <2>1, SMTT(40)
    DEF Gen!Stop, Gen!TypeOK, Gen!Accounting, Gen!NoDeadline, Gen!Gathered,
        Gen!metric
<1>5. CASE Gen!Return
  <2>1. Gen!Held' = Gen!Held
    BY <1>5, SMTT(40) DEF Gen!Return, Gen!Held
  <2>2. QED
    BY <1>5, <2>1, SMTT(40)
    DEF Gen!Return, Gen!TypeOK, Gen!Accounting, Gen!NoDeadline, Gen!Gathered,
        Gen!metric
<1>6. ASSUME NEW w \in Workers, Gen!WorkerExit(w) PROVE Gen!IInv'
  <2>1. Gen!Held' = Gen!Held
    BY <1>6, HeldKept, ZenonT(60) DEF Gen!WorkerExit
  <2>2. QED
    BY <1>6, <2>1
    DEF Gen!WorkerExit, Gen!TypeOK, Gen!Accounting, Gen!NoDeadline,
        Gen!Gathered, Gen!picker, Gen!metric
<1>7. ASSUME NEW w \in Workers, Gen!LimiterPass(w) PROVE Gen!IInv'
  <2>1. Gen!Held' = Gen!Held
    BY <1>7, HeldKept, ZenonT(60) DEF Gen!LimiterPass
  <2>2. QED
    BY <1>7, <2>1
    DEF Gen!LimiterPass, Gen!TypeOK, Gen!Accounting, Gen!NoDeadline,
        Gen!Gathered, Gen!picker, Gen!metric
<1>8. ASSUME NEW w \in Workers, Gen!LimiterFail(w) PROVE Gen!IInv'
  <2>1. Gen!Cardinality(Gen!Held) = Gen!Cardinality(Gen!Held') + 1
    BY <1>8, HeldShrinks, ZenonT(60) DEF Gen!LimiterFail
  <2>2. Gen!Cardinality(Gen!Held') \in Nat
    BY <1>8, WorkersAssumption, FS_Subset, FS_CardinalityType, GenCardinality,
       SMTT(40)
    DEF Gen!Held
  <2>3. Gen!TypeOK'
    BY <1>8, SMTT(40) DEF Gen!LimiterFail, Gen!TypeOK, Gen!picker, Gen!metric
  <2>4. Gen!Accounting'
    BY <1>8, <2>1, <2>2, <1>h, SMTT(40)
    DEF Gen!LimiterFail, Gen!TypeOK, Gen!Accounting, Gen!picker, Gen!metric
  <2>5. QED
    BY <1>8, <2>3, <2>4, SMTT(40)
    DEF Gen!LimiterFail, Gen!CtxDone, Gen!TypeOK, Gen!NoDeadline, Gen!Gathered,
        Gen!picker, Gen!metric
<1>9. ASSUME NEW w \in Workers, NEW o \in Gen!Outcomes, Gen!Observe(w, o)
      PROVE  Gen!IInv'
  <2>1. Gen!Cardinality(Gen!Held) = Gen!Cardinality(Gen!Held') + 1
    BY <1>9, HeldShrinks, ZenonT(60) DEF Gen!Observe
  <2>2. Gen!Cardinality(Gen!Held') \in Nat
    BY <1>9, WorkersAssumption, FS_Subset, FS_CardinalityType, GenCardinality,
       SMTT(40)
    DEF Gen!Held
  <2>3. Gen!TypeOK'
    BY <1>9, SMTT(40) DEF Gen!Observe, Gen!TypeOK, Gen!picker
  <2>4. Gen!Accounting'
    BY <1>9, <2>1, <2>2, <1>h, SMTT(40)
    DEF Gen!Observe, Gen!TypeOK, Gen!Accounting, Gen!picker
  <2>5. QED
    BY <1>9, <2>3, <2>4, SMTT(40)
    DEF Gen!Observe, Gen!TypeOK, Gen!NoDeadline, Gen!Gathered, Gen!picker
<1>10. CASE Gen!Expire
  <2>1. Gen!Held' = Gen!Held
    BY <1>10, SMTT(40) DEF Gen!Expire, Gen!Held
  <2>2. QED
    BY <1>10, <2>1, SMTT(40)
    DEF Gen!Expire, Gen!TypeOK, Gen!Accounting, Gen!NoDeadline, Gen!Gathered,
        Gen!picker, Gen!metric
<1>11. CASE UNCHANGED Gen!vars
  <2>1. Gen!Held' = Gen!Held
    BY <1>11 DEF Gen!vars, Gen!Held
  <2>2. QED
    BY <1>11, <2>1, SMTT(40)
    DEF Gen!vars, Gen!TypeOK, Gen!Accounting, Gen!NoDeadline, Gen!Gathered
<1>12. QED
  BY <1>1, <1>2, <1>3, <1>4, <1>5, <1>6, <1>7, <1>8, <1>9, <1>10, <1>11, SMTT(40)
     DEF Gen!Next, Gen!Worker, Gen!Finished

\* The inductive invariant holds in every reachable state of the generator.
LEMMA GenIInv == Gen!Spec => []Gen!IInv
  BY GenInit, GenNext, PTL DEF Gen!Spec

\* The variables of the generator keep their types.
THEOREM GenTypeCorrect == Gen!Spec => []Gen!TypeOK
  BY GenIInv, PTL DEF Gen!IInv

\* For any number of workers and any spec, every request Run counts is
\* recorded once, dropped once or held by exactly one worker.
THEOREM AccountingHolds == Gen!Spec => []Accounting
  BY GenIInv, PTL DEF Gen!IInv, Accounting

\* For any number of workers, a run bounded by spec.Total alone reports
\* exactly spec.Total responses.
THEOREM TotalIsExactHolds == Gen!Spec => []TotalIsExact
<1>1. Gen!IInv => TotalIsExact
  <2> SUFFICES ASSUME Gen!IInv, runPc = "returned", ~duration
               PROVE  report.latencies + report.failures = total
    BY DEF TotalIsExact, Gen!TotalIsExact
  <2>1. Gen!Held = {}
    BY DEF Gen!IInv, Gen!Gathered, Gen!Held
  <2>2. QED
    BY <2>1, FS_EmptySet, GenCardinality
    DEF Gen!IInv, Gen!TypeOK, Gen!Accounting, Gen!NoDeadline, Gen!Gathered
<1>2. QED
  BY <1>1, GenIInv, PTL

\* For any number of workers, Run never hands out more than spec.Total
\* requests and the result never counts more than Run handed out.
THEOREM NeverOvershootsHolds == Gen!Spec => []Gen!NeverOvershoots
<1>1. Gen!IInv => Gen!NeverOvershoots
  BY HeldFinite
  DEF Gen!IInv, Gen!NeverOvershoots, Gen!TypeOK, Gen!Accounting, Gen!Gathered
<1>2. QED
  BY <1>1, GenIInv, PTL

\* No step changes the metric once Schedule has returned.
THEOREM ResultIsFinalHolds == Gen!Spec => Gen!ResultIsFinal
<1>1. Gen!IInv /\ [Gen!Next]_(Gen!vars)
        => [runPc = "returned" => UNCHANGED <<latencies, failures>>]_(Gen!vars)
  <2> SUFFICES ASSUME Gen!IInv, [Gen!Next]_(Gen!vars), runPc = "returned"
               PROVE  UNCHANGED <<latencies, failures>>
    OBVIOUS
  <2>1. \A w \in Workers : wpc[w] = "exited"
    BY DEF Gen!IInv, Gen!Gathered
  <2>2. QED
    BY <2>1, Zenon
    DEF Gen!Next, Gen!Worker, Gen!RunBreak, Gen!RunSend, Gen!RunCancelled,
        Gen!Stop, Gen!Return, Gen!WorkerExit, Gen!LimiterPass, Gen!LimiterFail,
        Gen!Observe, Gen!Expire, Gen!Finished, Gen!vars, Gen!metric
<1>2. QED
  BY <1>1, GenIInv, PTL DEF Gen!Spec, Gen!ResultIsFinal
=============================================================================
