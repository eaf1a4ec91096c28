---------------------------- MODULE CrawlerProofs ----------------------------
(***************************************************************************)
(* Proofs about the folder crawler and the queues it works on.  First the  *)
(* queue of unique values (module UniqueQueue), for any finite set of      *)
(* values and any number of priorities: its two containers agree, and seen *)
(* from outside it is the sequence its header promises.  Then the crawler  *)
(* (module FolderCrawler), for any tree of folders and any number of       *)
(* threads.                                                                *)
(***************************************************************************)
EXTENDS UniqueQueue, FolderCrawler, SequenceTheorems, FiniteSetTheorems, TLAPS

-----------------------------------------------------------------------------
(***************************************************************************)
(* The operators of module Subsequences.                                   *)
(***************************************************************************)

\* The position of a number in the order of S.
Rank(S) == [x \in S |-> Cardinality({y \in S : y <= x})]

\* Ranks number the finite set S from 1 on, in ascending order.
LEMMA RankNumbers ==
    ASSUME NEW S, S \subseteq Nat, IsFiniteSet(S)
    PROVE  /\ Cardinality(S) \in Nat
           /\ Rank(S) \in [S -> 1 .. Cardinality(S)]
           /\ \A x, y \in S : x < y => Rank(S)[x] < Rank(S)[y]
           /\ \A n \in 1 .. Cardinality(S) : \E x \in S : Rank(S)[x] = n
<1> DEFINE upto(x) == {y \in S : y <= x}
           n == Cardinality(S)
<1>1. n \in Nat
  BY FS_CardinalityType
<1>2. ASSUME NEW x \in S
      PROVE  IsFiniteSet(upto(x)) /\ Cardinality(upto(x)) \in 1 .. n
  <2>1. upto(x) \in SUBSET S
    OBVIOUS
  <2>2. IsFiniteSet(upto(x)) /\ Cardinality(upto(x)) <= n /\ Cardinality(upto(x)) \in Nat
    BY <1>1, <2>1, FS_Subset, FS_CardinalityType
  <2>3. x \in upto(x)
    OBVIOUS
  <2>4. Cardinality(upto(x)) # 0
    BY <2>2, <2>3, FS_EmptySet
  <2> QED BY <1>1, <2>2, <2>4
<1>3. ASSUME NEW x \in S, NEW y \in S, x < y
      PROVE  Cardinality(upto(x)) < Cardinality(upto(y))
  <2>1. upto(x) \in SUBSET upto(y) /\ y \in upto(y) /\ y \notin upto(x)
    <3>1. ASSUME NEW z \in S, z <= x PROVE z <= y
      BY <1>3, <3>1
    <3>2. ~(y <= x) /\ y <= y
      BY <1>3
    <3> QED BY <3>1, <3>2
  <2>2. /\ Cardinality(upto(x)) \in Nat /\ Cardinality(upto(y)) \in Nat
        /\ IsFiniteSet(upto(y))
    BY <1>1, <1>2
  <2>3. /\ Cardinality(upto(x)) <= Cardinality(upto(y))
        /\ Cardinality(upto(y)) = Cardinality(upto(x)) => upto(y) = upto(x)
    BY <2>1, <2>2, FS_Subset
  <2> QED BY <2>1, <2>2, <2>3
<1> HIDE DEF upto
<1>4. Rank(S) = [x \in S |-> Cardinality(upto(x))]
  BY DEF Rank, upto
<1>5. Rank(S) \in [S -> 1 .. n] /\ \A x, y \in S : x < y => Rank(S)[x] < Rank(S)[y]
  BY <1>2, <1>3, <1>4
<1> HIDE DEF n
<1>6. Rank(S) \in Injection(S, 1 .. n)
  <2>1. ASSUME NEW x \in S, NEW y \in S, Rank(S)[x] = Rank(S)[y] PROVE x = y
    <3>1. Rank(S)[x] \in Nat /\ Rank(S)[y] \in Nat
      BY <1>5
    <3>2. ~(x < y) /\ ~(y < x)
      BY <1>5, <2>1, <3>1
    <3> QED BY <3>2
  <2> QED BY <1>5, <2>1 DEF Injection, IsInjective
<1>7. IsFiniteSet(1 .. n) /\ Cardinality(1 .. n) = n
  BY <1>1, FS_Interval
<1>8. Rank(S) \in Surjection(S, 1 .. n)
  BY <1>6, <1>7, FS_Injection DEF n
<1>9. \A k \in 1 .. n : \E x \in S : Rank(S)[x] = k
  BY <1>8 DEF Surjection
<1> QED BY <1>1, <1>5, <1>9 DEF n

\* Ascending meets every number of S once, in ascending order.
LEMMA AscendingIs ==
    ASSUME NEW S, S \subseteq Nat, IsFiniteSet(S)
    PROVE  /\ Cardinality(S) \in Nat
           /\ Ascending(S) \in [1 .. Cardinality(S) -> S]
           /\ \A m, n \in 1 .. Cardinality(S) : m < n => Ascending(S)[m] < Ascending(S)[n]
           /\ \A x \in S : \E n \in 1 .. Cardinality(S) : Ascending(S)[n] = x
<1> DEFINE c == Cardinality(S)
           rank == Rank(S)
           a == Ascending(S)
<1>1. /\ c \in Nat /\ rank \in [S -> 1 .. c]
      /\ \A x, y \in S : x < y => rank[x] < rank[y]
      /\ \A n \in 1 .. c : \E x \in S : rank[x] = n
  BY RankNumbers
<1>2. ASSUME NEW n \in 1 .. c PROVE a[n] \in S /\ rank[a[n]] = n
  <2> DEFINE Nth(x) == x \in S /\ Cardinality({y \in S : y <= x}) = n
  <2>1. PICK x \in S : rank[x] = n
    BY <1>1
  <2>2. Nth(x)
    BY <2>1 DEF Rank
  <2>3. a[n] = CHOOSE y : Nth(y)
    BY DEF Ascending
  <2> HIDE DEF Nth
  <2>4. Nth(a[n])
    BY <2>2, <2>3
  <2> QED BY <2>4 DEF Nth, Rank
<1>3. a \in [1 .. c -> S] /\ \A n \in 1 .. c : rank[a[n]] = n
  <2>1. DOMAIN a = 1 .. c /\ a = [n \in 1 .. c |-> a[n]]
    BY DEF Ascending
  <2> HIDE DEF a, c, rank
  <2> QED BY <1>2, <2>1
<1> HIDE DEF c, rank, a
<1>4. ASSUME NEW x \in S, NEW y \in S, rank[x] = rank[y] PROVE x = y
  <2>1. rank[x] \in Nat /\ rank[y] \in Nat
    BY <1>1
  <2>2. ~(x < y) /\ ~(y < x)
    BY <1>1, <1>4, <2>1
  <2> QED BY <2>2
<1>5. ASSUME NEW m \in 1 .. c, NEW n \in 1 .. c, m < n PROVE a[m] < a[n]
  <2>1. a[m] \in S /\ a[n] \in S /\ rank[a[m]] = m /\ rank[a[n]] = n
    BY <1>3
  <2>2. ~(rank[a[n]] < rank[a[m]]) /\ rank[a[n]] # rank[a[m]]
    BY <1>5, <2>1
  <2>3. ~(a[n] < a[m]) /\ a[n] # a[m]
    BY <1>1, <2>1, <2>2
  <2>4. a[m] \in Nat /\ a[n] \in Nat
    BY <2>1
  <2> QED BY <2>3, <2>4
<1>6. ASSUME NEW x \in S PROVE \E n \in 1 .. c : a[n] = x
  <2>1. rank[x] \in 1 .. c
    BY <1>1
  <2>2. a[rank[x]] \in S /\ rank[a[rank[x]]] = rank[x]
    BY <1>3, <2>1
  <2>3. a[rank[x]] = x
    BY <1>4, <2>2
  <2> QED BY <2>1, <2>3
<1> QED BY <1>1, <1>3, <1>5, <1>6 DEF c, a

\* Omit keeps what is not in S.
LEMMA OmitIs ==
    ASSUME NEW T, NEW s \in Seq(T), NEW S
    PROVE  Omit(s, S) \in Seq(T) /\ Range(Omit(s, S)) = Range(s) \ S
<1> DEFINE places == {k \in DOMAIN s : s[k] \notin S}
           c == Cardinality(places)
           kept == Ascending(places)
           rest == [n \in DOMAIN kept |-> s[kept[n]]]
<1>1. Len(s) \in Nat /\ DOMAIN s = 1 .. Len(s) /\ \A k \in DOMAIN s : s[k] \in T
  BY LenProperties, ElementOfSeq
<1>2. places \subseteq Nat /\ IsFiniteSet(places)
  <2>1. places \in SUBSET (1 .. Len(s)) /\ IsFiniteSet(1 .. Len(s))
    BY <1>1, FS_Interval
  <2> QED BY <2>1, FS_Subset
<1>3. c \in Nat /\ kept \in [1 .. c -> places] /\ \A k \in places : \E n \in 1 .. c : kept[n] = k
  BY <1>2, AscendingIs
<1>4. Omit(s, S) = rest
  BY DEF Omit
<1>5. \A k : k \in places <=> k \in DOMAIN s /\ s[k] \notin S
  OBVIOUS
<1> HIDE DEF places, c, kept
<1>6. /\ DOMAIN rest = 1 .. c
      /\ \A n \in 1 .. c : rest[n] = s[kept[n]] /\ kept[n] \in DOMAIN s /\ s[kept[n]] \notin S
  BY <1>3, <1>5
<1>7. rest \in Seq(T)
  <2>1. rest \in [1 .. c -> T]
    BY <1>1, <1>6
  <2> HIDE DEF rest
  <2> QED BY <1>3, <2>1, IsASeq
<1> HIDE DEF rest
<1>8. Range(rest) \subseteq Range(s) \ S
  BY <1>6 DEF Range
<1>9. ASSUME NEW k \in DOMAIN s, s[k] \notin S PROVE s[k] \in Range(rest)
  <2>1. PICK n \in 1 .. c : kept[n] = k
    BY <1>3, <1>5, <1>9
  <2> QED BY <1>6, <2>1 DEF Range
<1>10. Range(s) \ S \subseteq Range(rest)
  BY <1>9 DEF Range
<1> QED BY <1>4, <1>7, <1>8, <1>10

\* Omitting nothing changes nothing.
LEMMA OmitNone ==
    ASSUME NEW T, NEW s \in Seq(T)
    PROVE  Omit(s, {}) = s
<1> DEFINE N == 1 .. Len(s)
           a == Ascending(N)
<1>1. Len(s) \in Nat /\ DOMAIN s = N /\ s = [k \in N |-> s[k]]
  BY LenProperties
<1>2. {k \in DOMAIN s : s[k] \notin {}} = N
  BY <1>1
<1>3. Cardinality(N) = Len(s) /\ \A x \in N : Cardinality({y \in N : y <= x}) = x
  <2>1. Cardinality(N) = Len(s)
    BY <1>1, FS_Interval
  <2>2. ASSUME NEW x \in N PROVE Cardinality({y \in N : y <= x}) = x
    <3>1. {y \in N : y <= x} = 1 .. x
      <4>1. \A y : y \in N /\ y <= x <=> y \in 1 .. x
        BY <1>1
      <4> QED BY <4>1
    <3>2. x \in Int /\ ~(1 > x)
      BY <1>1
    <3>3. Cardinality(1 .. x) = x
      <4>1. Cardinality(1 .. x) = x - 1 + 1
        BY <3>2, FS_Interval
      <4> QED BY <3>2, <4>1
    <3> HIDE DEF N
    <3> QED BY <3>1, <3>3, Zenon
  <2> QED BY <2>1, <2>2
<1>4. \A n \in N : (CHOOSE x \in N : Cardinality({y \in N : y <= x}) = n) = n
  BY <1>3
<1>5. a = [n \in N |-> n]
  BY <1>3, <1>4 DEF Ascending
<1> HIDE DEF a, N
<1>6. Omit(s, {}) = [n \in DOMAIN a |-> s[a[n]]]
  BY <1>2 DEF Omit, a
<1> QED BY <1>1, <1>5, <1>6

-----------------------------------------------------------------------------
\* Taking the entry at n out of a sequence.
LEMMA RemoveAtIs ==
    ASSUME NEW E, NEW q \in Seq(E), NEW n \in 1 .. Len(q)
    PROVE  /\ RemoveAt(q, n) \in Seq(E)
           /\ Len(RemoveAt(q, n)) = Len(q) - 1
           /\ \A i \in 1 .. Len(q) - 1 :
                 RemoveAt(q, n)[i] = IF i < n THEN q[i] ELSE q[i + 1]
<1> DEFINE a == SubSeq(q, 1, n - 1)
           b == SubSeq(q, n + 1, Len(q))
<1>1. /\ a \in Seq(E) /\ Len(a) = n - 1
      /\ \A i \in 1 .. n - 1 : a[i] = q[i]
  OBVIOUS
<1>2. /\ b \in Seq(E) /\ Len(b) = Len(q) - n
      /\ \A i \in 1 .. Len(q) - n : b[i] = q[n + i]
  OBVIOUS
<1> HIDE DEF a, b
<1>3. RemoveAt(q, n) = a \o b
  BY DEF RemoveAt, a, b
<1>4. Len(q) \in Nat /\ n \in Nat /\ n <= Len(q) /\ n >= 1
  OBVIOUS
<1>5. a \o b \in Seq(E) /\ Len(a \o b) = Len(q) - 1
  <2>1. a \o b \in Seq(E) /\ Len(a \o b) = Len(a) + Len(b)
    BY <1>1, <1>2, ConcatProperties
  <2> QED BY <2>1, <1>1, <1>2, <1>4
<1>6. ASSUME NEW i \in 1 .. Len(q) - 1
      PROVE  (a \o b)[i] = IF i < n THEN q[i] ELSE q[i + 1]
  <2>1. (a \o b)[i] = IF i <= Len(a) THEN a[i] ELSE b[i - Len(a)]
    BY <1>1, <1>2, <1>4
  <2>2. CASE i < n
    BY <2>1, <2>2, <1>1, <1>4
  <2>3. CASE ~(i < n)
    <3>1. (a \o b)[i] = b[i - (n - 1)]
      BY <2>1, <2>3, <1>1, <1>4
    <3>2. i - (n - 1) \in 1 .. Len(q) - n /\ n + (i - (n - 1)) = i + 1
      BY <2>3, <1>4
    <3>3. b[i - (n - 1)] = q[n + (i - (n - 1))]
      BY <3>2, <1>2
    <3> QED BY <3>1, <3>2, <3>3, <2>3
  <2> QED BY <2>2, <2>3
<1> QED BY <1>3, <1>5, <1>6

\* An entry found by a priority that no other entry has.
LEMMA WithoutPriorityIs ==
    ASSUME NEW q, NEW n \in DOMAIN q,
           \A i \in DOMAIN q : i # n => q[i].priority # q[n].priority,
           n \in Nat
    PROVE  WithoutPriority(q, q[n].priority) = RemoveAt(q, n)
<1>1. {i \in DOMAIN q : q[i].priority = q[n].priority} = {n}
  OBVIOUS
<1>2. Min({n}) = n
  BY DEF Min
<1> QED BY <1>1, <1>2 DEF WithoutPriority

-----------------------------------------------------------------------------
(* Every entry of the deque is the one the map leads to, every value of    *)
(* the map is in the deque, nothing is in it twice, and the next priority  *)
(* is above all of them.                                                   *)
LinkedBy(q, map, next) ==
    /\ \A i \in DOMAIN q :
          /\ q[i].value \in DOMAIN map
          /\ map[q[i].value] = q[i].priority
          /\ q[i].priority < next
    /\ \A v \in DOMAIN map : \E i \in DOMAIN q : q[i].value = v
    /\ \A i, j \in DOMAIN q :
          i # j => /\ q[i].value # q[j].value
                   /\ q[i].priority # q[j].priority

Linked == LinkedBy(m_Queue, m_QueueTMap, m_highestValue)

(* The inductive invariant: a wrapped move ends what it says.              *)
UniqueInv == UniqueTypeOK /\ (wrapped \/ Linked)

\* Entry by entry, it is the invariant ContainersAgree.
LEMMA LinkedAgree == UniqueInv => ContainersAgree
<1> SUFFICES ASSUME UniqueTypeOK, Linked PROVE ContainersAgree
  BY DEF UniqueInv, ContainersAgree
<1>1. \A i \in DOMAIN m_Queue :
         \E v \in DOMAIN m_QueueTMap :
            <<m_Queue[i].value, m_Queue[i].priority>> = <<v, m_QueueTMap[v]>>
  BY DEF Linked, LinkedBy
<1>2. \A v \in DOMAIN m_QueueTMap :
         \E i \in DOMAIN m_Queue :
            <<m_Queue[i].value, m_Queue[i].priority>> = <<v, m_QueueTMap[v]>>
  BY DEF Linked, LinkedBy
<1> QED BY <1>1, <1>2 DEF Linked, LinkedBy, ContainersAgree

\* What a step may do, seen from outside.
Promise ==
    wrapped' \/
        \/ queued # <<>> /\ queued' = Tail(queued)
        \/ \E v \in Values :
              \/ v \notin Range(queued) /\ queued' = Append(queued, v)
              \/ \E rest \in Without(v) : queued' \in {rest, Append(rest, v)}
              \/ /\ m_highestValue = Wrap - 1
                 /\ v \notin Range(queued)
                 /\ IsInjective(queued')
                 /\ Range(queued') = Range(queued) \union {v}

\* There is at least one priority.
LEMMA WrapIs == Wrap \in Nat \ {0} /\ Cardinality(Values) \in Nat
BY ValuesAssumption, WrapAssumption, FS_CardinalityType

-----------------------------------------------------------------------------
\* The entries, and what a value adds to the map or leaves of it.
E == [value : Values, priority : Priorities]
Minus(map, v) == [x \in DOMAIN map \ {v} |-> map[x]]
Plus(map, v, p) == [x \in DOMAIN map \union {v} |-> IF x = v THEN p ELSE map[x]]
ValuesOf(q) == [i \in DOMAIN q |-> q[i].value]

\* The values of a sequence of entries, and that their priorities are numbers.
LEMMA ValuesOfIs ==
    ASSUME NEW q \in Seq(E)
    PROVE  /\ ValuesOf(q) \in Seq(Values) /\ Len(ValuesOf(q)) = Len(q)
           /\ \A i \in 1 .. Len(q) : ValuesOf(q)[i] = q[i].value /\ q[i].priority \in Nat
<1>1. DOMAIN q = 1 .. Len(q) /\ Len(q) \in Nat /\ \A i \in 1 .. Len(q) : q[i] \in E
  OBVIOUS
<1>2. \A i \in 1 .. Len(q) : q[i].value \in Values /\ q[i].priority \in Nat
  BY <1>1, WrapIs DEF E, Priorities
<1>3. ValuesOf(q) = [i \in 1 .. Len(q) |-> q[i].value]
  BY <1>1 DEF ValuesOf
<1> QED BY <1>1, <1>2, <1>3

\* An entry leaves both containers.
LEMMA EntryLeaves ==
    ASSUME NEW q \in Seq(E), NEW map, NEW next, LinkedBy(q, map, next),
           NEW n \in 1 .. Len(q)
    PROVE  /\ RemoveAt(q, n) \in Seq(E)
           /\ LinkedBy(RemoveAt(q, n), Minus(map, q[n].value), next)
           /\ ValuesOf(RemoveAt(q, n)) = RemoveAt(ValuesOf(q), n)
           /\ ValuesOf(RemoveAt(q, n)) \in Seq(Values)
<1> DEFINE rest == RemoveAt(q, n)
<1>1. /\ rest \in Seq(E) /\ Len(rest) = Len(q) - 1
      /\ \A i \in 1 .. Len(q) - 1 : rest[i] = IF i < n THEN q[i] ELSE q[i + 1]
  BY RemoveAtIs
<1>2. /\ DOMAIN q = 1 .. Len(q) /\ Len(q) \in Nat \ {0} /\ n \in Nat
      /\ DOMAIN rest = 1 .. Len(q) - 1
  BY <1>1
<1> HIDE DEF rest
<1> DEFINE from(i) == IF i < n THEN i ELSE i + 1
<1>3. \A i \in DOMAIN rest :
         i \in Nat /\ from(i) \in DOMAIN q /\ from(i) # n /\ rest[i] = q[from(i)]
  BY <1>1, <1>2
<1>4. \A i, j \in DOMAIN rest : i # j => from(i) # from(j)
  BY <1>2
<1>5. \A j \in DOMAIN q : j # n => \E i \in DOMAIN rest : from(i) = j
  <2> SUFFICES ASSUME NEW j \in DOMAIN q, j # n PROVE \E i \in DOMAIN rest : from(i) = j
    OBVIOUS
  <2>1. CASE j < n
    <3>1. j \in DOMAIN rest /\ from(j) = j
      BY <2>1, <1>2
    <3> QED BY <3>1
  <2>2. CASE ~(j < n)
    <3>1. j - 1 \in DOMAIN rest /\ from(j - 1) = j
      BY <2>2, <1>2
    <3> QED BY <3>1
  <2> QED BY <2>1, <2>2
<1> HIDE DEF from
<1>6. LinkedBy(rest, Minus(map, q[n].value), next)
  <2>1. ASSUME NEW i \in DOMAIN rest
        PROVE  /\ rest[i].value \in DOMAIN Minus(map, q[n].value)
               /\ Minus(map, q[n].value)[rest[i].value] = rest[i].priority
               /\ rest[i].priority < next
    <3>1. q[from(i)].value # q[n].value
      BY <1>2, <1>3 DEF LinkedBy
    <3>2. /\ q[from(i)].value \in DOMAIN map
          /\ map[q[from(i)].value] = q[from(i)].priority
          /\ q[from(i)].priority < next
      BY <1>3 DEF LinkedBy
    <3> QED BY <1>3, <3>1, <3>2 DEF Minus
  <2>2. ASSUME NEW v \in DOMAIN Minus(map, q[n].value)
        PROVE  \E i \in DOMAIN rest : rest[i].value = v
    <3>1. v \in DOMAIN map /\ v # q[n].value
      BY DEF Minus
    <3>2. PICK j \in DOMAIN q : q[j].value = v
      BY <3>1 DEF LinkedBy
    <3>3. PICK i \in DOMAIN rest : from(i) = j
      BY <3>1, <3>2, <1>5
    <3> QED BY <3>2, <3>3, <1>3
  <2>3. ASSUME NEW i \in DOMAIN rest, NEW j \in DOMAIN rest, i # j
        PROVE  /\ rest[i].value # rest[j].value
               /\ rest[i].priority # rest[j].priority
    BY <2>3, <1>3, <1>4 DEF LinkedBy
  <2> QED BY <2>1, <2>2, <2>3 DEF LinkedBy
<1>7. ValuesOf(rest) = RemoveAt(ValuesOf(q), n) /\ ValuesOf(rest) \in Seq(Values)
  <2>1. ValuesOf(q) \in Seq(Values) /\ Len(ValuesOf(q)) = Len(q)
    BY ValuesOfIs
  <2>2. ValuesOf(rest) \in Seq(Values) /\ Len(ValuesOf(rest)) = Len(q) - 1
    BY <1>1, ValuesOfIs
  <2>3. n \in 1 .. Len(ValuesOf(q))
    BY <2>1
  <2>4. /\ RemoveAt(ValuesOf(q), n) \in Seq(Values)
        /\ Len(RemoveAt(ValuesOf(q), n)) = Len(q) - 1
        /\ \A i \in 1 .. Len(q) - 1 :
              RemoveAt(ValuesOf(q), n)[i] = IF i < n THEN ValuesOf(q)[i] ELSE ValuesOf(q)[i + 1]
    BY <2>1, <2>3, RemoveAtIs
  <2>5. ASSUME NEW i \in 1 .. Len(q) - 1
        PROVE  ValuesOf(rest)[i] = RemoveAt(ValuesOf(q), n)[i]
    <3>1. RemoveAt(ValuesOf(q), n)[i] = ValuesOf(q)[from(i)]
      BY <2>4 DEF from
    <3> QED BY <3>1, <1>2, <1>3 DEF ValuesOf
  <2> QED BY <2>2, <2>4, <2>5, SeqEqual
<1> QED BY <1>1, <1>6, <1>7 DEF rest

\* An entry is appended to both.
LEMMA EntryArrives ==
    ASSUME NEW q \in Seq(E), NEW map, NEW next \in Nat, LinkedBy(q, map, next),
           NEW v \in Values, v \notin DOMAIN map, next \in Priorities
    PROVE  /\ Append(q, Entry(v, next)) \in Seq(E)
           /\ LinkedBy(Append(q, Entry(v, next)), Plus(map, v, next), next + 1)
           /\ ValuesOf(Append(q, Entry(v, next))) = Append(ValuesOf(q), v)
<1> DEFINE new == Entry(v, next)
           all == Append(q, new)
<1>1. new \in E /\ new.value = v /\ new.priority = next
  BY DEF Entry, E
<1> HIDE DEF new
<1>2. /\ all \in Seq(E) /\ DOMAIN q = 1 .. Len(q) /\ Len(q) \in Nat
      /\ DOMAIN all = 1 .. Len(q) + 1
      /\ \A i \in 1 .. Len(q) : all[i] = q[i]
      /\ all[Len(q) + 1] = new
  BY <1>1
<1> HIDE DEF all
<1>3. \A i \in DOMAIN all : \/ i \in DOMAIN q /\ all[i] = q[i]
                            \/ i = Len(q) + 1 /\ all[i] = new
  <2>1. \A i \in 1 .. Len(q) + 1 : i \in 1 .. Len(q) \/ i = Len(q) + 1
    BY <1>2
  <2>2. \A i \in 1 .. Len(q) : i \in DOMAIN q /\ all[i] = q[i]
    BY <1>2
  <2> QED BY <1>2, <2>1, <2>2
<1>4. \A i \in DOMAIN q : /\ q[i].value \in DOMAIN map /\ q[i].value # v
                         /\ map[q[i].value] = q[i].priority
                         /\ q[i].priority < next /\ q[i].priority \in Nat
  <2>1. \A i \in DOMAIN q : q[i].priority \in Nat
    BY <1>2, ValuesOfIs
  <2> QED BY <2>1 DEF LinkedBy
<1>5. ASSUME NEW i \in DOMAIN all
      PROVE  /\ all[i].value \in DOMAIN Plus(map, v, next)
             /\ Plus(map, v, next)[all[i].value] = all[i].priority
             /\ all[i].priority < next + 1
  <2>1. CASE i \in DOMAIN q /\ all[i] = q[i]
    <3>1. q[i].priority < next + 1
      BY <2>1, <1>4
    <3> QED BY <2>1, <3>1, <1>4 DEF Plus
  <2>2. CASE all[i] = new
    BY <2>2, <1>1 DEF Plus
  <2> QED BY <2>1, <2>2, <1>3
<1>6. ASSUME NEW x \in DOMAIN Plus(map, v, next)
      PROVE  \E i \in DOMAIN all : all[i].value = x
  <2>1. CASE x = v
    BY <2>1, <1>1, <1>2
  <2>2. CASE x # v
    <3>1. PICK i \in DOMAIN q : q[i].value = x
      BY <2>2 DEF Plus, LinkedBy
    <3> QED BY <3>1, <1>2
  <2> QED BY <2>1, <2>2
<1>7. ASSUME NEW i \in DOMAIN all, NEW j \in DOMAIN all, i # j
      PROVE  /\ all[i].value # all[j].value
             /\ all[i].priority # all[j].priority
  <2>1. CASE i \in DOMAIN q /\ all[i] = q[i] /\ j \in DOMAIN q /\ all[j] = q[j]
    BY <2>1, <1>7 DEF LinkedBy
  <2>2. CASE i \in DOMAIN q /\ all[i] = q[i] /\ all[j] = new
    BY <2>2, <1>1, <1>4
  <2>3. CASE j \in DOMAIN q /\ all[j] = q[j] /\ all[i] = new
    BY <2>3, <1>1, <1>4
  <2> QED BY <2>1, <2>2, <2>3, <1>3, <1>7
<1>8. ValuesOf(all) = Append(ValuesOf(q), v)
  <2>1. ValuesOf(q) \in Seq(Values) /\ Len(ValuesOf(q)) = Len(q)
    BY ValuesOfIs
  <2>2. ValuesOf(all) \in Seq(Values) /\ Len(ValuesOf(all)) = Len(q) + 1
    BY <1>2, ValuesOfIs
  <2>3. /\ Append(ValuesOf(q), v) \in Seq(Values)
        /\ Len(Append(ValuesOf(q), v)) = Len(q) + 1
        /\ \A i \in 1 .. Len(q) : Append(ValuesOf(q), v)[i] = ValuesOf(q)[i]
        /\ Append(ValuesOf(q), v)[Len(q) + 1] = v
    BY <2>1
  <2>4. ASSUME NEW i \in 1 .. Len(q) + 1
        PROVE  ValuesOf(all)[i] = Append(ValuesOf(q), v)[i]
    <3>1. i \in DOMAIN all
      BY <1>2
    <3>2. CASE i \in DOMAIN q /\ all[i] = q[i]
      BY <3>1, <3>2, <2>3, <1>2 DEF ValuesOf
    <3>3. CASE i = Len(q) + 1 /\ all[i] = new
      BY <3>1, <3>3, <2>3, <1>1 DEF ValuesOf
    <3> QED BY <3>1, <3>2, <3>3, <1>3
  <2> QED BY <2>2, <2>3, <2>4, SeqEqual
<1> QED BY <1>2, <1>5, <1>6, <1>7, <1>8 DEF LinkedBy, all, new

\* Pop takes the first entry out of both containers.
LEMMA PopInv ==
    ASSUME UniqueTypeOK, Linked, ~wrapped, Pop
    PROVE  UniqueTypeOK' /\ Linked' /\ Promise
<1>1. /\ m_Queue \in Seq(E) /\ m_Queue # <<>> /\ m_Queue' = Tail(m_Queue)
      /\ m_QueueTMap' = [x \in DOMAIN m_QueueTMap \ {m_Queue[1].value} |-> m_QueueTMap[x]]
      /\ m_highestValue' = IF m_Queue' = <<>> THEN 0 ELSE m_highestValue
      /\ wrapped' = FALSE
  BY DEF UniqueTypeOK, Pop, E
<1>2. /\ m_Queue' \in Seq(E) /\ Len(m_Queue') = Len(m_Queue) - 1
      /\ \A i \in 1 .. Len(m_Queue) - 1 : m_Queue'[i] = m_Queue[i + 1]
      /\ DOMAIN m_Queue = 1 .. Len(m_Queue) /\ DOMAIN m_Queue' = 1 .. Len(m_Queue) - 1
      /\ Len(m_Queue) \in Nat \ {0} /\ 1 \in DOMAIN m_Queue
  BY <1>1
<1>3. UniqueTypeOK'
  <2>1. m_highestValue' \in Priorities
    BY <1>1, WrapIs DEF UniqueTypeOK, Priorities
  <2>2. /\ DOMAIN m_QueueTMap' \subseteq Values
        /\ \A v \in DOMAIN m_QueueTMap' : m_QueueTMap'[v] \in Priorities
    BY <1>1 DEF UniqueTypeOK
  <2> QED BY <1>1, <1>2, <2>1, <2>2 DEF UniqueTypeOK, E
<1>4. Linked'
  <2>1. \A i \in DOMAIN m_Queue' : i \in Nat /\ i + 1 \in DOMAIN m_Queue /\ i + 1 # 1
    BY <1>2
  <2>2. ASSUME NEW i \in DOMAIN m_Queue'
        PROVE  /\ m_Queue'[i].value \in DOMAIN m_QueueTMap'
               /\ m_QueueTMap'[m_Queue'[i].value] = m_Queue'[i].priority
               /\ m_Queue'[i].priority < m_highestValue'
    <3>1. m_Queue'[i] = m_Queue[i + 1] /\ m_Queue' # <<>>
      BY <1>2
    <3>2. m_highestValue' = m_highestValue
      BY <1>1, <3>1
    <3>3. m_Queue[i + 1].value # m_Queue[1].value
      BY <1>2, <2>1 DEF Linked, LinkedBy
    <3>4. /\ m_Queue[i + 1].value \in DOMAIN m_QueueTMap
          /\ m_QueueTMap[m_Queue[i + 1].value] = m_Queue[i + 1].priority
          /\ m_Queue[i + 1].priority < m_highestValue
      BY <2>1 DEF Linked, LinkedBy
    <3> QED BY <1>1, <3>1, <3>2, <3>3, <3>4
  <2>3. ASSUME NEW v \in DOMAIN m_QueueTMap'
        PROVE  \E i \in DOMAIN m_Queue' : m_Queue'[i].value = v
    <3>1. PICK j \in DOMAIN m_Queue : m_Queue[j].value = v
      BY <1>1 DEF Linked, LinkedBy
    <3>2. j # 1
      BY <3>1, <1>1
    <3>3. j - 1 \in 1 .. Len(m_Queue) - 1 /\ (j - 1) + 1 = j
      BY <3>2, <1>2
    <3>4. m_Queue'[j - 1] = m_Queue[j]
      BY <3>3, <1>2
    <3> QED BY <3>1, <3>3, <3>4, <1>2
  <2>4. ASSUME NEW i \in DOMAIN m_Queue', NEW j \in DOMAIN m_Queue', i # j
        PROVE  /\ m_Queue'[i].value # m_Queue'[j].value
               /\ m_Queue'[i].priority # m_Queue'[j].priority
    <3>1. i + 1 # j + 1 /\ i + 1 \in DOMAIN m_Queue /\ j + 1 \in DOMAIN m_Queue
      BY <2>1, <2>4
    <3>2. /\ m_Queue[i + 1].value # m_Queue[j + 1].value
          /\ m_Queue[i + 1].priority # m_Queue[j + 1].priority
      BY <3>1 DEF Linked, LinkedBy
    <3> QED BY <3>2, <1>2
  <2> QED BY <2>2, <2>3, <2>4 DEF Linked, LinkedBy
<1>5. Promise
  <2>1. queued # <<>>
    BY <1>2 DEF queued
  <2>2. queued' = Tail(queued)
    BY <1>1, <1>2 DEF queued
  <2> QED BY <2>1, <2>2 DEF Promise
<1> QED BY <1>3, <1>4, <1>5

\* The map leads to the entry of v.
LEMMA EntryFound ==
    ASSUME Linked, m_Queue \in Seq(E), NEW n \in 1 .. Len(m_Queue)
    PROVE  WithoutPriority(m_Queue, m_QueueTMap[m_Queue[n].value]) = RemoveAt(m_Queue, n)
<1>1. n \in DOMAIN m_Queue /\ n \in Nat
  OBVIOUS
<1>2. /\ m_QueueTMap[m_Queue[n].value] = m_Queue[n].priority
      /\ \A i \in DOMAIN m_Queue : i # n => m_Queue[i].priority # m_Queue[n].priority
  BY <1>1 DEF Linked, LinkedBy
<1> QED BY <1>1, <1>2, WithoutPriorityIs

\* The priority after p, unless it wraps.
LEMMA FollowingIs ==
    ASSUME NEW p \in Priorities
    PROVE  /\ Following(p) \in Priorities
           /\ Following(p) # 0 => Following(p) = p + 1
           /\ Following(p) = 0 => p = Wrap - 1
<1>1. p \in Nat /\ p < Wrap /\ Wrap \in Nat \ {0}
  BY WrapIs DEF Priorities
<1>2. CASE p + 1 < Wrap
  BY <1>1, <1>2 DEF Following, Priorities
<1>3. CASE p + 1 = Wrap
  BY <1>1, <1>3 DEF Following, Priorities
<1> QED BY <1>1, <1>2, <1>3

\* erase takes out the entry of its value.
LEMMA EraseInv ==
    ASSUME UniqueTypeOK, Linked, ~wrapped, NEW v \in Values, Erase(v)
    PROVE  UniqueTypeOK' /\ Linked' /\ Promise
<1>1. /\ m_Queue \in Seq(E) /\ v \in DOMAIN m_QueueTMap
      /\ m_Queue' = WithoutPriority(m_Queue, m_QueueTMap[v])
      /\ m_QueueTMap' = Minus(m_QueueTMap, v)
      /\ m_highestValue' = m_highestValue /\ wrapped' = FALSE
  BY DEF UniqueTypeOK, Erase, Minus, E
<1>2. PICK n \in 1 .. Len(m_Queue) : m_Queue[n].value = v
  BY <1>1 DEF Linked, LinkedBy
<1>3. m_Queue' = RemoveAt(m_Queue, n)
  BY <1>1, <1>2, EntryFound
<1>4. /\ m_Queue' \in Seq(E)
      /\ LinkedBy(m_Queue', m_QueueTMap', m_highestValue')
      /\ ValuesOf(m_Queue') = RemoveAt(ValuesOf(m_Queue), n)
  BY <1>1, <1>2, <1>3, EntryLeaves DEF Linked
<1>5. UniqueTypeOK'
  BY <1>1, <1>4 DEF UniqueTypeOK, Minus, E
<1>6. queued = ValuesOf(m_Queue) /\ queued' = ValuesOf(m_Queue')
  BY DEF queued, ValuesOf
<1>7. queued' \in Without(v)
  <2>1. n \in DOMAIN queued /\ queued[n] = v
    BY <1>1, <1>2, <1>6, ValuesOfIs
  <2> QED BY <2>1, <1>4, <1>6 DEF Without
<1> QED BY <1>4, <1>5, <1>7 DEF Linked, Promise

\* A value that is queued moves to the end, with the next priority.
LEMMA PushMoveInv ==
    ASSUME UniqueTypeOK, Linked, ~wrapped, NEW v \in Values, PushMove(v)
    PROVE  UniqueTypeOK' /\ (wrapped' \/ Linked') /\ Promise
<1>1. /\ m_Queue \in Seq(E) /\ v \in DOMAIN m_QueueTMap /\ m_highestValue \in Priorities
      /\ m_Queue' = Append(WithoutPriority(m_Queue, m_QueueTMap[v]),
                           Entry(v, m_highestValue))
      /\ m_QueueTMap' = [m_QueueTMap EXCEPT ![v] = m_highestValue]
      /\ m_highestValue' = Following(m_highestValue)
      /\ wrapped' = (m_highestValue' = 0)
  BY DEF UniqueTypeOK, PushMove, E
<1>2. PICK n \in 1 .. Len(m_Queue) : m_Queue[n].value = v
  BY <1>1 DEF Linked, LinkedBy
<1> DEFINE rest == RemoveAt(m_Queue, n)
           map == Minus(m_QueueTMap, v)
<1>3. m_Queue' = Append(rest, Entry(v, m_highestValue))
  BY <1>1, <1>2, EntryFound
<1>4. /\ rest \in Seq(E)
      /\ LinkedBy(rest, map, m_highestValue)
      /\ ValuesOf(rest) = RemoveAt(ValuesOf(m_Queue), n)
  BY <1>1, <1>2, EntryLeaves DEF Linked
<1>5. m_highestValue \in Nat /\ v \notin DOMAIN map
  BY <1>1, WrapIs DEF Priorities, Minus
<1>6. m_QueueTMap' = Plus(map, v, m_highestValue)
  BY <1>1 DEF Minus, Plus
<1> HIDE DEF rest, map
<1>7. /\ m_Queue' \in Seq(E)
      /\ LinkedBy(m_Queue', m_QueueTMap', m_highestValue + 1)
      /\ ValuesOf(m_Queue') = Append(ValuesOf(rest), v)
  <2>1. /\ Append(rest, Entry(v, m_highestValue)) \in Seq(E)
        /\ LinkedBy(Append(rest, Entry(v, m_highestValue)),
                    Plus(map, v, m_highestValue), m_highestValue + 1)
        /\ ValuesOf(Append(rest, Entry(v, m_highestValue))) = Append(ValuesOf(rest), v)
    <3>1. /\ v \in Values /\ m_highestValue \in Nat /\ m_highestValue \in Priorities
          /\ rest \in Seq(E) /\ LinkedBy(rest, map, m_highestValue) /\ v \notin DOMAIN map
      BY <1>1, <1>4, <1>5
    <3> QED BY ONLY <3>1, EntryArrives
  <2> QED BY <1>3, <1>6, <2>1
<1>8. /\ m_highestValue' \in Priorities
      /\ m_highestValue' # 0 => m_highestValue' = m_highestValue + 1
  BY <1>1, FollowingIs
<1>9. UniqueTypeOK'
  <2>1. DOMAIN m_QueueTMap' = DOMAIN m_QueueTMap
    BY <1>1
  <2>2. \A x \in DOMAIN m_QueueTMap : m_QueueTMap'[x] \in Priorities
    BY <1>1 DEF UniqueTypeOK
  <2>3. wrapped' \in BOOLEAN
    BY <1>1
  <2> QED BY <1>1, <1>7, <1>8, <2>1, <2>2, <2>3 DEF UniqueTypeOK, E
<1>10. wrapped' \/ Linked'
  BY <1>1, <1>7, <1>8 DEF Linked
<1>11. queued = ValuesOf(m_Queue) /\ queued' = ValuesOf(m_Queue')
  BY DEF queued, ValuesOf
<1>12. ValuesOf(rest) \in Without(v)
  <2>1. n \in DOMAIN queued /\ queued[n] = v
    BY <1>1, <1>2, <1>11, ValuesOfIs
  <2> QED BY <2>1, <1>4, <1>11 DEF Without
<1>13. Promise
  BY <1>7, <1>11, <1>12 DEF Promise
<1> QED BY <1>9, <1>10, <1>13

\* A new value is appended, or all entries are numbered anew.
LEMMA PushNewInv ==
    ASSUME UniqueTypeOK, Linked, ~wrapped, NEW v \in Values, PushNew(v)
    PROVE  UniqueTypeOK' /\ Linked' /\ Promise
<1> DEFINE map == Plus(m_QueueTMap, v, m_highestValue)
           order == Ascending(DOMAIN map)
<1>1. /\ m_Queue \in Seq(E) /\ v \notin DOMAIN m_QueueTMap /\ m_highestValue \in Priorities
      /\ DOMAIN m_QueueTMap \subseteq Values
      /\ \A x \in DOMAIN m_QueueTMap : m_QueueTMap[x] \in Priorities
      /\ wrapped' = FALSE
  BY DEF UniqueTypeOK, PushNew, E
<1>2. /\ DOMAIN map = DOMAIN m_QueueTMap \union {v}
      /\ \A x \in DOMAIN map : map[x] \in Priorities
      /\ DOMAIN map \subseteq Values
  BY <1>1 DEF Plus
<1>3. queued = ValuesOf(m_Queue) /\ queued' = ValuesOf(m_Queue')
  BY DEF queued, ValuesOf
<1>4. v \notin Range(queued)
  <2>1. \A i \in 1 .. Len(m_Queue) : m_Queue[i].value # v
    BY <1>1 DEF Linked, LinkedBy
  <2>2. DOMAIN queued = 1 .. Len(m_Queue)
    BY <1>1, <1>3, ValuesOfIs
  <2>3. \A i \in 1 .. Len(m_Queue) : queued[i] # v
    BY <1>1, <1>3, <2>1, ValuesOfIs
  <2> QED BY <2>2, <2>3 DEF Range
<1>5. CASE Following(m_highestValue) # 0
  <2>1. /\ m_QueueTMap' = map
        /\ m_Queue' = Append(m_Queue, Entry(v, m_highestValue))
        /\ m_highestValue' = m_highestValue + 1
        /\ m_highestValue' \in Priorities
    BY <1>1, <1>5, FollowingIs DEF PushNew, Plus
  <2>2. m_highestValue \in Nat
    BY <1>1, WrapIs DEF Priorities
  <2>3. /\ m_Queue' \in Seq(E)
        /\ LinkedBy(m_Queue', m_QueueTMap', m_highestValue')
        /\ ValuesOf(m_Queue') = Append(ValuesOf(m_Queue), v)
    BY <1>1, <2>1, <2>2, EntryArrives DEF Linked
  <2>4. UniqueTypeOK'
    BY <1>1, <1>2, <2>1, <2>3 DEF UniqueTypeOK, E
  <2>5. Promise
    BY <1>3, <1>4, <2>3 DEF Promise
  <2> QED BY <2>3, <2>4, <2>5 DEF Linked
<1>6. CASE Following(m_highestValue) = 0
  <2> DEFINE n == Cardinality(DOMAIN map)
             place(x) == CHOOSE i \in 1 .. n : order[i] = x
  <2>0. DOMAIN map \subseteq Nat /\ IsFiniteSet(DOMAIN map) /\ n <= Cardinality(Values)
    BY <1>2, ValuesAssumption, FS_Subset
  <2>1. n \in Nat /\ n < Wrap
    <3>1. n \in Nat /\ Cardinality(Values) \in Nat
      BY <2>0, ValuesAssumption, FS_CardinalityType
    <3> QED BY <2>0, <3>1, WrapAssumption
  <2>2. /\ order \in [1 .. n -> DOMAIN map]
        /\ \A i, j \in 1 .. n : i < j => order[i] < order[j]
        /\ \A x \in DOMAIN map : \E i \in 1 .. n : order[i] = x
    BY <2>0, AscendingIs
  <2>3. /\ m_QueueTMap' = [x \in DOMAIN map |-> (CHOOSE i \in DOMAIN order : order[i] = x) - 1]
        /\ m_Queue' = [i \in DOMAIN order |-> Entry(order[i], i - 1)]
        /\ m_highestValue' = Len(order)
    BY <1>6 DEF PushNew, Plus
  <2> HIDE DEF map, order, n
  <2>4. /\ DOMAIN order = 1 .. n /\ order \in Seq(DOMAIN map) /\ Len(order) = n
        /\ \A i \in 1 .. n : order[i] \in DOMAIN map
    BY <2>1, <2>2
  <2>5. /\ m_QueueTMap' = [x \in DOMAIN map |-> place(x) - 1]
        /\ m_Queue' = [i \in 1 .. n |-> Entry(order[i], i - 1)]
        /\ m_highestValue' = n
    BY <2>3, <2>4
  <2>6. ASSUME NEW i \in 1 .. n, NEW j \in 1 .. n, order[i] = order[j]
        PROVE  i = j
    <3>1. order[i] \in Nat /\ order[j] \in Nat
      BY <2>4, <1>2, ValuesAssumption
    <3>2. ~(i < j) /\ ~(j < i)
      BY <2>2, <2>6, <3>1
    <3> QED BY <3>2, <2>1
  <2>7. \A x \in DOMAIN map : place(x) \in 1 .. n /\ order[place(x)] = x
    BY <2>2
  <2>8. \A i \in 1 .. n : place(order[i]) = i
    BY <2>4, <2>6, <2>7
  <2> HIDE DEF place
  <2>9. \A i \in 1 .. n : /\ i - 1 \in Priorities
                          /\ i - 1 < n
                          /\ order[i] \in Values
    BY <2>1, <2>4, <1>2, WrapIs DEF Priorities
  <2>10. /\ DOMAIN m_Queue' = 1 .. n
         /\ \A i \in 1 .. n : m_Queue'[i] \in E /\ m_Queue'[i].value = order[i]
                             /\ m_Queue'[i].priority = i - 1
    BY <2>5, <2>9 DEF Entry, E
  <2>11. m_Queue' \in Seq(E)
    BY <2>1, <2>5, <2>10
  <2>12. UniqueTypeOK'
    <3>1. m_highestValue' \in Priorities
      BY <2>1, <2>5, WrapIs DEF Priorities
    <3>2. /\ DOMAIN m_QueueTMap' \subseteq Values
          /\ \A x \in DOMAIN m_QueueTMap' : m_QueueTMap'[x] \in Priorities
      BY <2>5, <2>7, <2>9, <1>2
    <3> QED BY <1>1, <2>11, <3>1, <3>2 DEF UniqueTypeOK, E
  <2>13. LinkedBy(m_Queue', m_QueueTMap', m_highestValue')
    <3>1. ASSUME NEW i \in DOMAIN m_Queue'
          PROVE  /\ m_Queue'[i].value \in DOMAIN m_QueueTMap'
                 /\ m_QueueTMap'[m_Queue'[i].value] = m_Queue'[i].priority
                 /\ m_Queue'[i].priority < m_highestValue'
      BY <2>4, <2>5, <2>8, <2>9, <2>10
    <3>2. ASSUME NEW x \in DOMAIN m_QueueTMap'
          PROVE  \E i \in DOMAIN m_Queue' : m_Queue'[i].value = x
      BY <2>5, <2>7, <2>10
    <3>3. ASSUME NEW i \in DOMAIN m_Queue', NEW j \in DOMAIN m_Queue', i # j
          PROVE  /\ m_Queue'[i].value # m_Queue'[j].value
                 /\ m_Queue'[i].priority # m_Queue'[j].priority
      <4>1. order[i] # order[j]
        BY <2>6, <2>10, <3>3
      <4>2. i - 1 # j - 1
        BY <2>10, <2>1, <3>3
      <4> QED BY <4>1, <4>2, <2>10
    <3> QED BY <3>1, <3>2, <3>3 DEF LinkedBy
  <2>14. DOMAIN queued' = 1 .. n /\ \A i \in 1 .. n : queued'[i] = order[i]
    BY <2>10, <1>3 DEF ValuesOf
  <2>15. IsInjective(queued')
    BY <2>6, <2>14 DEF IsInjective
  <2>16. Range(queued') = Range(queued) \union {v}
    <3>1. Range(queued') = DOMAIN map
      <4>1. \A i \in DOMAIN queued' : queued'[i] \in DOMAIN map
        BY <2>4, <2>14
      <4>2. \A x \in DOMAIN map : \E i \in DOMAIN queued' : queued'[i] = x
        BY <2>2, <2>14
      <4> QED BY <4>1, <4>2 DEF Range
    <3>2. DOMAIN queued = 1 .. Len(m_Queue)
          /\ \A i \in 1 .. Len(m_Queue) : queued[i] = m_Queue[i].value
      BY <1>1, <1>3, ValuesOfIs
    <3>3. /\ \A i \in 1 .. Len(m_Queue) : m_Queue[i].value \in DOMAIN m_QueueTMap
          /\ \A x \in DOMAIN m_QueueTMap : \E i \in 1 .. Len(m_Queue) : m_Queue[i].value = x
      BY <1>1 DEF Linked, LinkedBy
    <3>4. Range(queued) = DOMAIN m_QueueTMap
      <4>1. \A i \in DOMAIN queued : queued[i] \in DOMAIN m_QueueTMap
        BY <3>2, <3>3
      <4>2. \A x \in DOMAIN m_QueueTMap : \E i \in DOMAIN queued : queued[i] = x
        BY <3>2, <3>3
      <4> QED BY <4>1, <4>2 DEF Range
    <3> QED BY <1>2, <3>1, <3>4
  <2>17. m_highestValue = Wrap - 1
    BY <1>1, <1>6, FollowingIs
  <2> QED BY <2>12, <2>13, <2>15, <2>16, <2>17, <1>4 DEF Linked, Promise
<1> QED BY <1>5, <1>6

\* Every step keeps the invariant and the promise.
LEMMA UniqueStep ==
    ASSUME UniqueInv, UniqueNext
    PROVE  UniqueInv' /\ Promise
<1>1. UniqueTypeOK /\ Linked /\ ~wrapped
  BY DEF UniqueInv, UniqueNext
<1>2. CASE Pop
  BY <1>1, <1>2, PopInv DEF UniqueInv
<1>3. ASSUME NEW v \in Values, Erase(v) PROVE UniqueInv' /\ Promise
  BY <1>1, <1>3, EraseInv DEF UniqueInv
<1>4. ASSUME NEW v \in Values, Push(v) PROVE UniqueInv' /\ Promise
  BY <1>1, <1>4, PushMoveInv, PushNewInv DEF UniqueInv, Push
<1> QED BY <1>2, <1>3, <1>4 DEF UniqueNext

\* The invariant holds in every state.
LEMMA UniqueInvariant == UniqueSpec => []UniqueInv
<1>1. UniqueInit => UniqueInv
  <2> SUFFICES ASSUME UniqueInit PROVE UniqueInv
    OBVIOUS
  <2>1. m_highestValue \in Priorities
    BY WrapIs DEF UniqueInit, Priorities
  <2>2. DOMAIN m_QueueTMap = {} /\ DOMAIN m_Queue = {}
    BY DEF UniqueInit
  <2>3. UniqueTypeOK
    <3>1. m_Queue \in Seq([value : Values, priority : Priorities])
      BY DEF UniqueInit
    <3>2. wrapped \in BOOLEAN
      BY DEF UniqueInit
    <3> QED BY <2>1, <2>2, <3>1, <3>2 DEF UniqueTypeOK
  <2> QED BY <2>2, <2>3 DEF UniqueInv, Linked, LinkedBy
<1>2. ASSUME UniqueInv, [UniqueNext]_uniqueVars PROVE UniqueInv'
  <2>1. CASE UNCHANGED uniqueVars
    BY <2>1, <1>2 DEF uniqueVars, UniqueInv, UniqueTypeOK, Linked, LinkedBy
  <2> QED BY <2>1, <1>2, UniqueStep
<1> QED BY <1>1, <1>2, PTL DEF UniqueSpec

\* The priorities stay in the range of their type, through wraps and
\* renumberings, and every value of the deque is one that was pushed.
THEOREM UniqueTypeCorrect == UniqueSpec => []UniqueTypeOK
<1>1. UniqueInv => UniqueTypeOK
  BY DEF UniqueInv
<1> QED BY <1>1, UniqueInvariant, PTL

\* Map and deque of UniqueQueue are one queue (Push, Pop and erase of
\* UniqueQueue.h), through every renumbering: the priority of a value leads to
\* its entry and no other, until a move to the end wraps the priorities.
THEOREM ContainersStayOne == UniqueSpec => []ContainersAgree
BY LinkedAgree, UniqueInvariant, PTL

\* Seen from outside, Push puts its value last, Pop takes the front, erase takes
\* out its value, and nothing else changes its place; only the renumbering of
\* UniqueQueue.h:101-120 may reorder the queue.
THEOREM PushedIsLast == UniqueSpec => LastPushLast
<1>1. ASSUME UniqueInv, [UniqueNext]_uniqueVars PROVE [Promise]_uniqueVars
  <2>1. CASE UniqueNext
    BY <2>1, <1>1, UniqueStep
  <2> QED BY <2>1, <1>1
<1>2. UniqueSpec => [][Promise]_uniqueVars
  BY <1>1, UniqueInvariant, PTL DEF UniqueSpec
<1> QED BY <1>2 DEF LastPushLast, Promise

-----------------------------------------------------------------------------
(***************************************************************************)
(* The queues of the crawler, as sequences.                                *)
(***************************************************************************)

\* AddDirectoryForUpdate for a finite set: its folders, in some order.
LEMMA SetToSeqIs ==
    ASSUME NEW S, IsFiniteSet(S)
    PROVE  SetToSeq(S) \in Seq(S) /\ Range(SetToSeq(S)) = S
<1> DEFINE n == Cardinality(S)
           f == SetToSeq(S)
<1>1. n \in Nat /\ ExistsBijection(1 .. n, S)
  BY FS_CardinalityType
<1>2. PICK g : g \in Bijection(1 .. n, S)
  BY <1>1 DEF ExistsBijection
<1>3. g \in [1 .. n -> S] /\ IsInjective(g)
  BY <1>2 DEF Bijection, Injection
<1>4. f \in [1 .. n -> S] /\ IsInjective(f)
  BY <1>3 DEF SetToSeq
<1> HIDE DEF f
<1>5. f \in Injection(1 .. n, S)
  BY <1>4 DEF Injection
<1>6. IsFiniteSet(1 .. n) /\ Cardinality(1 .. n) = n
  BY <1>1, FS_Interval
<1>7. f \in Surjection(1 .. n, S)
  BY <1>5, <1>6, FS_Injection
<1>8. \A x \in S : \E k \in 1 .. n : f[k] = x
  BY <1>7 DEF Surjection
<1>9. Range(f) = S
  BY <1>4, <1>8 DEF Range
<1>10. f \in Seq(S)
  BY <1>1, <1>4
<1> QED BY <1>9, <1>10 DEF f

\* A value pushed joins the queue, and one erased leaves it.
LEMMA PushedIs ==
    ASSUME NEW T, NEW q \in Seq(T), NEW p \in T
    PROVE  Pushed(q, p) \in Seq(T) /\ Range(Pushed(q, p)) = Range(q) \union {p}
<1> DEFINE rest == Omit(q, {p})
           all == Append(rest, p)
<1>1. rest \in Seq(T) /\ Range(rest) = Range(q) \ {p}
  BY OmitIs
<1> HIDE DEF rest
<1>2. /\ all \in Seq(T) /\ Len(rest) \in Nat
      /\ DOMAIN rest = 1 .. Len(rest) /\ DOMAIN all = 1 .. Len(rest) + 1
      /\ \A k \in 1 .. Len(rest) : all[k] = rest[k]
      /\ all[Len(rest) + 1] = p
  <2>1. Len(all) = Len(rest) + 1 /\ all \in Seq(T)
    BY <1>1, AppendProperties
  <2>2. DOMAIN rest = 1 .. Len(rest) /\ Len(rest) \in Nat /\ DOMAIN all = 1 .. Len(all)
    BY <2>1, <1>1, LenProperties
  <2> QED BY <2>1, <2>2, <1>1, AppendProperties
<1> HIDE DEF all
<1>3. \A x : x \in Range(all) <=> x \in Range(rest) \/ x = p
  <2>1. 1 .. Len(rest) + 1 = (1 .. Len(rest)) \union {Len(rest) + 1}
    BY <1>2
  <2> QED BY <1>2, <2>1 DEF Range
<1>4. Pushed(q, p) = all
  BY DEF Pushed, Erased, all, rest
<1> QED BY <1>1, <1>2, <1>3, <1>4

\* Erasing a path takes that path out of its queue and no other.
LEMMA ErasedIs ==
    ASSUME NEW T, NEW q \in Seq(T), NEW p
    PROVE  Erased(q, p) \in Seq(T) /\ Range(Erased(q, p)) = Range(q) \ {p}
BY OmitIs DEF Erased

\* Folders that are queued together are all in the queue, and nothing is lost.
LEMMA PushedAllIs ==
    ASSUME NEW T, NEW q \in Seq(T), NEW S, S \subseteq T, IsFiniteSet(S)
    PROVE  /\ PushedAll(q, S) \in Seq(T)
           /\ Range(PushedAll(q, S)) = Range(q) \union S
           /\ S = {} => PushedAll(q, S) = q
<1> DEFINE rest == Omit(q, S)
           new == SetToSeq(S)
<1>1. rest \in Seq(T) /\ Range(rest) = Range(q) \ S
  BY OmitIs
<1>2. new \in Seq(T) /\ Range(new) = S
  <2>1. new \in Seq(S) /\ Range(new) = S
    BY SetToSeqIs
  <2> HIDE DEF new
  <2>2. new \in Seq(T)
    BY <2>1, SeqMonotonic
  <2> QED BY <2>1, <2>2
<1>3. ASSUME S = {} PROVE rest = q /\ new = <<>>
  <2>1. Omit(q, {}) = q
    BY OmitNone
  <2>2. new \in Seq({})
    BY <1>3, SetToSeqIs
  <2> HIDE DEF new
  <2>3. new = <<>>
    BY <2>2
  <2> QED BY <2>1, <2>3, <1>3
<1>4. PushedAll(q, S) = rest \o new
  BY DEF PushedAll
<1> HIDE DEF rest, new
<1>5. rest \o new \in Seq(T) /\ Range(rest \o new) = Range(rest) \union Range(new)
  <2>1. /\ rest \o new \in Seq(T) /\ Len(rest \o new) = Len(rest) + Len(new)
        /\ \A k \in 1 .. Len(rest) + Len(new) :
              (rest \o new)[k] = IF k <= Len(rest) THEN rest[k] ELSE new[k - Len(rest)]
    BY <1>1, <1>2, ConcatProperties
  <2>2. /\ Len(rest) \in Nat /\ Len(new) \in Nat
        /\ DOMAIN rest = 1 .. Len(rest) /\ DOMAIN new = 1 .. Len(new)
        /\ DOMAIN (rest \o new) = 1 .. Len(rest) + Len(new)
    BY <2>1, <1>1, <1>2, LenProperties
  <2>3. \A k \in 1 .. Len(rest) : k \in 1 .. Len(rest) + Len(new) /\ (rest \o new)[k] = rest[k]
    BY <2>1, <2>2
  <2>4. \A k \in 1 .. Len(new) : /\ k + Len(rest) \in 1 .. Len(rest) + Len(new)
                                 /\ (rest \o new)[k + Len(rest)] = new[k]
    BY <2>1, <2>2
  <2>5. \A k \in 1 .. Len(rest) + Len(new) :
           \/ k \in 1 .. Len(rest) /\ (rest \o new)[k] = rest[k]
           \/ k - Len(rest) \in 1 .. Len(new) /\ (rest \o new)[k] = new[k - Len(rest)]
    BY <2>1, <2>2
  <2>6. \A x \in Range(rest) : x \in Range(rest \o new)
    BY <2>2, <2>3 DEF Range
  <2>7. \A x \in Range(new) : x \in Range(rest \o new)
    BY <2>2, <2>4 DEF Range
  <2>8. \A x \in Range(rest \o new) : x \in Range(rest) \/ x \in Range(new)
    BY <2>2, <2>5 DEF Range
  <2> QED BY <2>1, <2>6, <2>7, <2>8
<1>6. S = {} => rest \o new = q
  <2>1. q \o <<>> = q
    BY ConcatEmptySeq
  <2> QED BY <2>1, <1>3
<1> QED BY <1>1, <1>2, <1>4, <1>5, <1>6

-----------------------------------------------------------------------------
(***************************************************************************)
(* The tree of paths.                                                      *)
(***************************************************************************)

\* Every path at or below p is a path, p is one of them, and what lies
\* directly below one is another.
LEMMA UnderClosed ==
    ASSUME NEW p \in Paths \union {NoPath}
    PROVE  /\ Under(p) \subseteq Paths
           /\ p \in Paths => p \in Under(p)
           /\ \A x \in Paths : Containing[x] \in Under(p) => x \in Under(p)
BY DEF Under, Tree

\* They are no more than that: induction over the tree.
LEMMA UnderLeast ==
    ASSUME NEW p \in Paths \union {NoPath}, NEW S \in SUBSET Paths,
           \A x \in Paths : x = p \/ Containing[x] \in S => x \in S
    PROVE  Under(p) \subseteq S
BY DEF Under, Tree

\* The tree of a path below p is part of the tree of p.
LEMMA UnderTransitive ==
    ASSUME NEW p \in Paths \union {NoPath}, NEW q \in Under(p)
    PROVE  q \in Paths /\ Under(q) \subseteq Under(p)
<1>1. /\ Under(p) \in SUBSET Paths /\ q \in Paths
      /\ \A x \in Paths : Containing[x] \in Under(p) => x \in Under(p)
  BY UnderClosed
<1>2. \A x \in Paths : x = q \/ Containing[x] \in Under(p) => x \in Under(p)
  BY <1>1
<1>3. Under(q) \subseteq Under(p)
  BY <1>1, <1>2, UnderLeast
<1> QED BY <1>1, <1>3

\* A path below p other than p is directly in one of those below p, so that a
\* block that does not start at it also holds for its folder.
LEMMA ContainingUnder ==
    ASSUME NEW p \in Paths \union {NoPath}, NEW q \in Under(p), q # p
    PROVE  Containing[q] \in Under(p)
<1> DEFINE S == {x \in Under(p) : x = p \/ Containing[x] \in Under(p)}
<1>1. /\ Under(p) \subseteq Paths /\ (p \in Paths => p \in Under(p))
      /\ \A x \in Paths : Containing[x] \in Under(p) => x \in Under(p)
  BY UnderClosed
<1>2. S \in SUBSET Paths
  BY <1>1
<1>3. \A x \in Paths : x = p \/ Containing[x] \in S => x \in S
  BY <1>1
<1> HIDE DEF S
<1>4. Under(p) \subseteq S
  BY <1>2, <1>3, UnderLeast
<1> QED BY <1>4 DEF S

\* A folder below p other than p lies at or below a folder directly in p.
LEMMA UnderChild ==
    ASSUME NEW p \in Paths \union {NoPath}, NEW d \in Under(p), d # p, d \in Dirs
    PROVE  \E c \in Dirs : Containing[c] = p /\ d \in Under(c)
<1> DEFINE S == {x \in Under(p) : x = p \/ \E c \in Paths : Containing[c] = p /\ x \in Under(c)}
<1>1. /\ Under(p) \subseteq Paths /\ (p \in Paths => p \in Under(p))
      /\ \A x \in Paths : Containing[x] \in Under(p) => x \in Under(p)
  BY UnderClosed
<1>2. S \in SUBSET Paths
  BY <1>1
<1>3. ASSUME NEW x \in Paths, x = p \/ Containing[x] \in S PROVE x \in S
  <2>1. CASE x = p
    BY <2>1, <1>1
  <2>2. CASE Containing[x] = p /\ p \in S
    <3>1. x \in Under(x)
      BY UnderClosed
    <3> QED BY <2>2, <3>1, <1>1
  <2>3. ASSUME NEW c \in Paths, Containing[c] = p, Containing[x] \in Under(c),
               Containing[x] \in Under(p)
        PROVE  x \in S
    <3>1. x \in Under(c)
      BY <2>3, UnderClosed
    <3> QED BY <2>3, <3>1, <1>1
  <2> QED BY <2>1, <2>2, <2>3, <1>3
<1> HIDE DEF S
<1>4. Under(p) \subseteq S
  BY <1>2, <1>3, UnderLeast
<1>5. PICK c \in Paths : Containing[c] = p /\ d \in Under(c)
  BY <1>4 DEF S
<1>6. c \in Dirs
  <2> SUFFICES ASSUME c \in Files \union Databases PROVE FALSE
    BY DEF Paths
  <2>1. \A x \in Paths : Containing[x] # c
    BY PathsAssumption DEF Paths
  <2>2. {c} \in SUBSET Paths /\ \A x \in Paths : x = c \/ Containing[x] \in {c} => x \in {c}
    BY <2>1
  <2>3. Under(c) \subseteq {c}
    BY <2>2, UnderLeast
  <2>4. d = c
    BY <1>5, <2>3
  <2> QED BY <2>4, PathsAssumption
<1> QED BY <1>5, <1>6

-----------------------------------------------------------------------------
(***************************************************************************)
(* The types of the crawler's state, in groups, and what is known of the   *)
(* working path at the places of the loop.                                 *)
(***************************************************************************)
QueueTypes ==
    /\ m_pathsToUpdate \in Seq(Paths) /\ m_foldersToUpdate \in Seq(Dirs)
    /\ added \in BOOLEAN /\ wake \in BOOLEAN

FlagTypes ==
    /\ m_bRun \in BOOLEAN /\ guarded \in BOOLEAN
    /\ holdoff \in BOOLEAN /\ first \in BOOLEAN

BlockTypes ==
    /\ blocked \in Dirs \union {NoPath} /\ released \in BOOLEAN
    /\ DOMAIN noWatch \subseteq Versioned /\ Range(noWatch) \subseteq {"timed", "over"}

\* Only the crawler takes paths out, so the queue it has seen filled still is;
\* what it works on is a file where it looks at files and a folder elsewhere.
PlaceTypes ==
    /\ pc \in Places /\ work \in Paths \union {NoPath}
    /\ pc = "paths" => m_pathsToUpdate # <<>>
    /\ pc = "check" => work \in Paths
    /\ pc = "member" => work \in Files
    /\ pc = "refresh" => work \in Dirs \union {NoPath}
    /\ pc \in {"crawlcheck", "crawl", "crawlerase"} => work \in Dirs

\* The threads of the shell that are in a call hold the inhibitors.
IsAsking(x) == x.at = "leave" \/ (x.at # "idle" /\ x.shell)
Asking == {t \in Threads : IsAsking(call[t])}

ThreadTypes == call \in [Threads -> CallStates] /\ inhibit = Cardinality(Asking)

DiskTypes ==
    /\ exists \subseteq Dirs /\ gone \subseteq Files /\ dbChanged \subseteq Databases
    /\ cached \subseteq Dirs /\ stale \subseteq cached

BoundTypes == calls \in 0 .. MaxCalls /\ failures \in 0 .. MaxFailures

CrawlerTypes ==
    /\ QueueTypes /\ FlagTypes /\ BlockTypes /\ PlaceTypes /\ ThreadTypes /\ DiskTypes
    /\ BoundTypes

\* What the assumption on the paths comes to: folders, files and databases are
\* different paths, and every set of folders is finite.
LEMMA PathFacts ==
    /\ Dirs \subseteq Paths /\ Files \subseteq Paths /\ Databases \subseteq Paths
    /\ Versioned \subseteq Dirs /\ Outside \subseteq Dirs /\ NoPath \notin Paths
    /\ \A p \in Paths : Containing[p] \in Dirs \union {NoPath}
    /\ \A p \in Files \union Databases : Containing[p] \in Versioned
    /\ \A d \in Dirs : d \notin Files /\ d \notin Databases
    /\ \A f \in Files : f \notin Databases
    /\ \A d : ChildDirs(d) \subseteq Dirs
    /\ \A S \in SUBSET Dirs : IsFiniteSet(S)
<1>1. \A S \in SUBSET Dirs : IsFiniteSet(S)
  <2>1. \A S \in SUBSET Paths : IsFiniteSet(S)
    BY PathsAssumption, FS_Subset
  <2> QED BY <2>1 DEF Paths
<1>2. Dirs \subseteq Paths /\ Files \subseteq Paths /\ Databases \subseteq Paths
  BY DEF Paths
<1> QED BY <1>1, <1>2, PathsAssumption DEF Versioned, ChildDirs

\* There are finitely many threads.
LEMMA ThreadFacts == IsFiniteSet(Threads) /\ Watcher \in Threads /\ Shells \subseteq Threads
<1>1. IsFiniteSet({Watcher})
  BY FS_Singleton
<1>2. IsFiniteSet({Watcher} \union Shells)
  BY <1>1, BoundsAssumption, FS_Union
<1> QED BY <1>2 DEF Threads

\* Folders are queued.
LEMMA DirectoriesAdded ==
    ASSUME QueueTypes, NEW S \in SUBSET Dirs, AddDirectories(S)
    PROVE  /\ m_foldersToUpdate' \in Seq(Dirs) /\ added' \in BOOLEAN /\ wake' \in BOOLEAN
           /\ Range(m_foldersToUpdate') = Range(m_foldersToUpdate) \union S
           /\ S = {} => m_foldersToUpdate' = m_foldersToUpdate
           /\ S # {} => wake'
           /\ wake => wake'
<1>1. IsFiniteSet(S)
  BY PathFacts
<1>2. m_foldersToUpdate' = PushedAll(m_foldersToUpdate, S)
  BY DEF AddDirectories
<1>3. /\ m_foldersToUpdate' \in Seq(Dirs)
      /\ Range(m_foldersToUpdate') = Range(m_foldersToUpdate) \union S
      /\ S = {} => m_foldersToUpdate' = m_foldersToUpdate
  BY <1>1, <1>2, PushedAllIs DEF QueueTypes
<1>4. added' \in BOOLEAN /\ wake' \in BOOLEAN /\ (S # {} => wake') /\ (wake => wake')
  BY Zenon DEF AddDirectories
<1> QED BY <1>3, <1>4

\* A fetch leaves entries of folders that exist, and the fetched one fresh; the
\* new ones that are not blocked are queued, and so are those of S.
LEMMA FetchedIs ==
    ASSUME CrawlerTypes, NEW d \in Dirs, NEW S \in SUBSET Dirs, Fetched(d, S)
    PROVE  /\ cached' \subseteq Dirs /\ stale' \subseteq cached'
           /\ stale' = (stale \union NewEntries(d)) \ {d} /\ cached \subseteq cached'
           /\ NewEntries(d) \subseteq Dirs
           /\ m_foldersToUpdate' \in Seq(Dirs) /\ added' \in BOOLEAN /\ wake' \in BOOLEAN
           /\ Range(m_foldersToUpdate') = Range(m_foldersToUpdate)
                  \union {c \in S \union NewEntries(d) : IsPathGood(c)}
           /\ UNCHANGED <<blocked, released, noWatch, failures>>
<1>1. NewEntries(d) \subseteq Dirs
  BY DEF NewEntries, CrawlerTypes, DiskTypes
<1>2. {c \in S \union NewEntries(d) : IsPathGood(c)} \in SUBSET Dirs
  BY <1>1
<1>3. /\ m_foldersToUpdate' \in Seq(Dirs) /\ added' \in BOOLEAN /\ wake' \in BOOLEAN
      /\ Range(m_foldersToUpdate') = Range(m_foldersToUpdate)
             \union {c \in S \union NewEntries(d) : IsPathGood(c)}
  BY <1>2, DirectoriesAdded DEF Fetched, CrawlerTypes
<1>4. /\ cached' = cached \union NewEntries(d)
      /\ stale' = (stale \union NewEntries(d)) \ {d}
      /\ UNCHANGED <<blocked, released, noWatch, failures>>
  BY DEF Fetched, blockVars
<1> QED BY <1>1, <1>3, <1>4 DEF CrawlerTypes, DiskTypes

\* A fetch that fails.
LEMMA FetchFailsIs ==
    ASSUME CrawlerTypes, NEW d \in Versioned,
           FetchBlocks(d) \/ FetchRetries(d) \/ FetchGivesUp(d)
    PROVE  /\ cached \subseteq cached' /\ cached' \subseteq Dirs
           /\ stale' = stale \union {d} /\ stale' \subseteq cached'
           /\ m_foldersToUpdate' \in Seq(Dirs) /\ added' \in BOOLEAN /\ wake' \in BOOLEAN
           /\ Range(m_foldersToUpdate) \subseteq Range(m_foldersToUpdate')
           /\ BlockTypes' /\ failures' \in 0 .. MaxFailures
           /\ DOMAIN noWatch \subseteq DOMAIN noWatch'
<1>0. d \in Dirs
  BY PathFacts
<1>1. {c \in {d} \ cached : IsPathGood(c)} \in SUBSET Dirs
  BY <1>0
<1>2. {c \in {d} : IsPathGood(c)} \in SUBSET Dirs
  BY <1>0
<1>3. FetchFails(d)
  BY DEF FetchBlocks, FetchRetries, FetchGivesUp
<1>4. cached' = cached \union {d} /\ stale' = stale \union {d}
  BY <1>3 DEF FetchFails
<1>5. failures' \in 0 .. MaxFailures
  BY <1>3, BoundsAssumption DEF FetchFails, CrawlerTypes, BoundTypes
<1>6. \/ AddDirectories({c \in {d} \ cached : IsPathGood(c)})
      \/ AddDirectories({c \in {d} : IsPathGood(c)})
  BY DEF FetchBlocks, FetchRetries, FetchGivesUp, NewEntry
<1>7. /\ m_foldersToUpdate' \in Seq(Dirs) /\ added' \in BOOLEAN /\ wake' \in BOOLEAN
      /\ Range(m_foldersToUpdate) \subseteq Range(m_foldersToUpdate')
  BY <1>1, <1>2, <1>6, DirectoriesAdded DEF CrawlerTypes
<1>8. BlockTypes' /\ DOMAIN noWatch \subseteq DOMAIN noWatch'
  <2>1. CASE Block(d) /\ UNCHANGED <<blocked, released>>
    BY <2>1 DEF Block, CrawlerTypes, BlockTypes, Range
  <2>2. CASE blocked' = d /\ released' = FALSE /\ UNCHANGED noWatch
    BY <1>0, <2>2 DEF CrawlerTypes, BlockTypes
  <2>3. CASE UNCHANGED blockVars
    BY <2>3 DEF blockVars, CrawlerTypes, BlockTypes
  <2> QED BY <2>1, <2>2, <2>3 DEF FetchBlocks, FetchRetries, FetchGivesUp
<1> QED BY <1>0, <1>4, <1>5, <1>7, <1>8 DEF CrawlerTypes, DiskTypes

\* The folder that is being fetched when a fetch fails.
LEMMA FetchingIs ==
    ASSUME CrawlerTypes, NEW outcome, FetchStep(outcome)
    PROVE  /\ Fetching \in Versioned
           /\ pc = "member" => work \in Files /\ Fetching = Containing[work]
           /\ pc # "member" => pc \in {"refresh", "crawl"} /\ Fetching = work
BY DEF FetchStep, Fetching, CrawlerTypes, PlaceTypes

\* The root of the working copy of a versioned folder is at or above it.
LEMMA WCRootIs ==
    ASSUME NEW d \in Versioned
    PROVE  WCRoot(d) \in Versioned /\ d \in Under(WCRoot(d))
<1> DEFINE roots == {x \in Versioned : /\ IsAncestorOf(x, d)
                                       /\ \E b \in Databases : Containing[b] = x}
           nearest == {x \in roots : \A r \in roots : IsAncestorOf(r, x)}
<1>1. WCRoot(d) = IF nearest = {} THEN d ELSE CHOOSE x \in nearest : TRUE
  BY Zenon DEF WCRoot
<1>2. \A x \in nearest : x \in Versioned /\ d \in Under(x)
  BY DEF IsAncestorOf
<1>3. d \in Under(d)
  BY UnderClosed, PathFacts
<1> HIDE DEF nearest
<1>4. nearest # {} => (CHOOSE x \in nearest : TRUE) \in nearest
  OBVIOUS
<1> QED BY <1>1, <1>2, <1>3, <1>4

\* Blocks end, and the folder they were for may be queued.
LEMMA EndBlockIs ==
    ASSUME BlockTypes, QueueTypes, NEW d \in Versioned, EndBlock(d)
    PROVE  /\ DOMAIN noWatch' = DOMAIN noWatch \ UnblockedBy(d)
           /\ Range(noWatch') \subseteq {"timed", "over"}
           /\ m_foldersToUpdate' \in Seq(Dirs) /\ added' \in BOOLEAN /\ wake' \in BOOLEAN
           /\ Range(m_foldersToUpdate) \subseteq Range(m_foldersToUpdate')
           /\ d \in Range(m_foldersToUpdate') \/ ~GoodWithout(UnblockedBy(d), d)
           /\ m_foldersToUpdate' # m_foldersToUpdate => wake'
           /\ wake => wake'
<1> DEFINE S == {c \in {d} : GoodWithout(UnblockedBy(d), c)}
<1>1. S \in SUBSET Dirs /\ AddDirectories(S) /\ Unblock(UnblockedBy(d))
  BY PathFacts DEF EndBlock
<1>2. d \in S \/ ~GoodWithout(UnblockedBy(d), d)
  OBVIOUS
<1> HIDE DEF S
<1>3. /\ m_foldersToUpdate' \in Seq(Dirs) /\ added' \in BOOLEAN /\ wake' \in BOOLEAN
      /\ Range(m_foldersToUpdate') = Range(m_foldersToUpdate) \union S
      /\ m_foldersToUpdate' # m_foldersToUpdate => wake'
      /\ wake => wake'
  BY <1>1, DirectoriesAdded
<1>4. /\ DOMAIN noWatch' = DOMAIN noWatch \ UnblockedBy(d)
      /\ Range(noWatch') \subseteq {"timed", "over"}
  BY <1>1 DEF BlockTypes, Unblock, Range
<1> QED BY <1>2, <1>3, <1>4

-----------------------------------------------------------------------------
(* The calls.                                                              *)

\* A call that goes on, and one that returns, are still or no longer among
\* those of the shell.
LEMMA CallGoesOn ==
    ASSUME ThreadTypes, NEW t \in Threads, NEW x \in CallStates, call' = [call EXCEPT ![t] = x],
           IsAsking(x) <=> IsAsking(call[t])
    PROVE  call' \in [Threads -> CallStates] /\ Asking' = Asking
<1>1. call' \in [Threads -> CallStates]
  BY DEF ThreadTypes
<1>2. \A u \in Threads : call'[u] = IF u = t THEN x ELSE call[u]
  BY DEF ThreadTypes
<1>3. \A u \in Threads : IsAsking(call'[u]) <=> IsAsking(call[u])
  BY <1>2
<1> QED BY <1>1, <1>3 DEF Asking

\* The states of a call one by one, with their fields.
LEMMA CallKinds ==
    ASSUME NEW x \in CallStates
    PROVE  \/ x = [at |-> "idle"]
           \/ x = [at |-> "leave"]
           \/ /\ x.at \in {"check", "push", "set"} /\ x.queue = "paths" /\ x.path \in Paths
              /\ x.shell = FALSE
              /\ x = [at |-> x.at, queue |-> x.queue, path |-> x.path, shell |-> x.shell]
           \/ /\ x.at \in {"check", "push", "set"} /\ x.queue = "folders" /\ x.path \in Dirs
              /\ x.shell \in BOOLEAN
              /\ x = [at |-> x.at, queue |-> x.queue, path |-> x.path, shell |-> x.shell]
<1>1. CASE x \in [at : {"check", "push", "set"}, queue : {"paths"}, path : Paths, shell : {FALSE}]
  BY <1>1
<1>2. CASE x \in [at : {"check", "push", "set"}, queue : {"folders"}, path : Dirs, shell : BOOLEAN]
  BY <1>2
<1>3. CASE x \in {[at |-> "idle"], [at |-> "leave"]}
  BY <1>3
<1> QED BY <1>1, <1>2, <1>3 DEF CallStates

\* A call that is on its way has a path for its queue.
LEMMA RequestIs ==
    ASSUME ThreadTypes, NEW t \in Threads, call[t].at \notin {"idle", "leave"}
    PROVE  /\ call[t].at \in {"check", "push", "set"} /\ call[t].shell \in BOOLEAN
           /\ \/ call[t].queue = "paths" /\ call[t].path \in Paths /\ call[t].shell = FALSE
              \/ call[t].queue = "folders" /\ call[t].path \in Dirs
           /\ call[t] = [at |-> call[t].at, queue |-> call[t].queue, path |-> call[t].path,
                         shell |-> call[t].shell]
<1>1. call[t] \in CallStates
  BY DEF ThreadTypes
<1>2. call[t] # [at |-> "idle"] /\ call[t] # [at |-> "leave"]
  OBVIOUS
<1> QED BY <1>1, <1>2, CallKinds

\* A call of which only the place changes.
LEMMA AtChanged ==
    ASSUME ThreadTypes, NEW t \in Threads, call[t].at \notin {"idle", "leave"}, NEW place
    PROVE  [call[t] EXCEPT !.at = place] =
               [at |-> place, queue |-> call[t].queue, path |-> call[t].path,
                shell |-> call[t].shell]
<1>1. PICK a, q, p, s : call[t] = [at |-> a, queue |-> q, path |-> p, shell |-> s]
  BY RequestIs
<1>2. call[t].queue = q /\ call[t].path = p /\ call[t].shell = s
  BY <1>1
<1>3. [[at |-> a, queue |-> q, path |-> p, shell |-> s] EXCEPT !.at = place] =
          [at |-> place, queue |-> q, path |-> p, shell |-> s]
  OBVIOUS
<1> QED BY <1>1, <1>2, <1>3

\* A call that moves on to queue its path or to set the event.
LEMMA CallTo ==
    ASSUME ThreadTypes, NEW t \in Threads, NEW place \in {"push", "set"},
           call[t].at \in {"check", "push"}, To(t, place)
    PROVE  call' \in [Threads -> CallStates] /\ Asking' = Asking
<1> DEFINE x == [call[t] EXCEPT !.at = place]
<1>1. call' = [call EXCEPT ![t] = x]
  BY DEF To
<1>2. x = [at |-> place, queue |-> call[t].queue, path |-> call[t].path, shell |-> call[t].shell]
  BY AtChanged
<1> HIDE DEF x
<1>3. x \in CallStates
  BY <1>2, RequestIs DEF CallStates
<1>4. IsAsking(x) <=> IsAsking(call[t])
  BY <1>2 DEF IsAsking
<1> QED BY <1>1, <1>3, <1>4, CallGoesOn

\* A call that returns, or leaves its inhibitor behind when it is the shell's.
LEMMA CallReturns ==
    ASSUME ThreadTypes, NEW t \in Threads, call[t].at \in {"check", "set"}, Return(t)
    PROVE  call' \in [Threads -> CallStates] /\ Asking' = Asking
<1> DEFINE x == [at |-> IF call[t].shell THEN "leave" ELSE "idle"]
<1>1. call' = [call EXCEPT ![t] = x]
  BY DEF Return
<1>2. call[t].shell \in BOOLEAN
  BY RequestIs
<1>3. x \in CallStates /\ (x.at = "leave" <=> call[t].shell) /\ x.at \in {"leave", "idle"}
  BY <1>2 DEF CallStates
<1> HIDE DEF x
<1>4. IsAsking(x) <=> IsAsking(call[t])
  BY <1>3 DEF IsAsking
<1> QED BY <1>1, <1>3, <1>4, CallGoesOn

\* A call that begins in a thread that was outside may add an inhibitor.
LEMMA CallEnters ==
    ASSUME ThreadTypes, NEW t \in Threads, call[t].at = "idle", NEW x \in CallStates,
           call' = [call EXCEPT ![t] = x]
    PROVE  /\ call' \in [Threads -> CallStates] /\ t \notin Asking
           /\ Asking' = IF IsAsking(x) THEN Asking \union {t} ELSE Asking
<1>1. \A u \in Threads : call'[u] = IF u = t THEN x ELSE call[u]
  BY DEF ThreadTypes
<1>2. t \notin Asking
  BY DEF Asking, IsAsking
<1>3. \A u \in Threads : u \in Asking' <=> u \in Asking \/ (u = t /\ IsAsking(x))
  BY <1>1, <1>2 DEF Asking
<1>4. Asking \subseteq Threads /\ Asking' \subseteq Threads
  BY DEF Asking
<1>5. call' \in [Threads -> CallStates]
  BY DEF ThreadTypes
<1> QED BY <1>2, <1>3, <1>4, <1>5

\* A call that queues something begins.
LEMMA CallBegins ==
    ASSUME ThreadTypes, NEW t \in Threads, NEW q, NEW p, NEW shell \in BOOLEAN,
           \/ q = "paths" /\ p \in Paths /\ shell = FALSE
           \/ q = "folders" /\ p \in Dirs,
           Begin(t, q, p, shell)
    PROVE  /\ call' \in [Threads -> CallStates] /\ t \notin Asking
           /\ Asking' = IF shell THEN Asking \union {t} ELSE Asking
<1> DEFINE x == [at |-> "check", queue |-> q, path |-> p, shell |-> shell]
<1>1. call' = [call EXCEPT ![t] = x] /\ call[t].at = "idle"
  BY DEF Begin
<1>2. x \in CallStates
  BY DEF CallStates
<1>3. IsAsking(x) <=> shell
  BY DEF IsAsking
<1> HIDE DEF x
<1> QED BY <1>1, <1>2, <1>3, CallEnters

\* The last step of a call of the shell gives its inhibitor back.
LEMMA CallLeaves ==
    ASSUME ThreadTypes, NEW t \in Threads, LeaveCall(t)
    PROVE  call' \in [Threads -> CallStates] /\ t \in Asking /\ Asking' = Asking \ {t}
<1>1. call' = [call EXCEPT ![t] = [at |-> "idle"]] /\ call[t].at = "leave"
  BY DEF LeaveCall
<1>2. [at |-> "idle"] \in CallStates
  BY DEF CallStates
<1>3. \A u \in Threads : call'[u] = IF u = t THEN [at |-> "idle"] ELSE call[u]
  BY <1>1 DEF ThreadTypes
<1>4. t \in Asking /\ ~IsAsking([at |-> "idle"])
  BY <1>1 DEF Asking, IsAsking
<1>5. \A u \in Threads : u \in Asking' <=> u \in Asking /\ u # t
  BY <1>3, <1>4 DEF Asking
<1>6. Asking \subseteq Threads /\ Asking' \subseteq Threads
  BY DEF Asking
<1> QED BY <1>1, <1>2, <1>4, <1>5, <1>6 DEF ThreadTypes

\* The counter of the inhibitors follows.
LEMMA InhibitFollows ==
    ASSUME ThreadTypes, call' \in [Threads -> CallStates], NEW t \in Threads,
           \/ Asking' = Asking /\ inhibit' = inhibit
           \/ t \notin Asking /\ Asking' = Asking \union {t} /\ inhibit' = inhibit + 1
           \/ t \in Asking /\ Asking' = Asking \ {t} /\ inhibit' = inhibit - 1
    PROVE  ThreadTypes'
<1>1. IsFiniteSet(Asking)
  <2>1. Asking \in SUBSET Threads
    BY DEF Asking
  <2> QED BY <2>1, ThreadFacts, FS_Subset
<1>2. /\ t \notin Asking => Cardinality(Asking \union {t}) = Cardinality(Asking) + 1
      /\ t \in Asking => Cardinality(Asking \ {t}) = Cardinality(Asking) - 1
  BY <1>1, FS_AddElement, FS_RemoveElement
<1>3. inhibit' = Cardinality(Asking)'
  BY <1>2 DEF ThreadTypes
<1> QED BY <1>3 DEF ThreadTypes

\* The calls are as before when neither they nor the counter change.
LEMMA ThreadsSame ==
    ASSUME ThreadTypes, UNCHANGED <<call, inhibit>>
    PROVE  ThreadTypes'
BY DEF ThreadTypes, Asking

\* The steps of the crawler, whatever they give up.
CrawlerStep ==
    \/ CarefulStep
    \/ \E b \in DOMAIN noWatch : RemoveTimedoutBlock(b)
    \/ ErasePath \/ EraseFolder \/ RefreshMissing \/ CrawlMissing \/ FetchLost

\* They keep the types.
LEMMA CrawlerTyped ==
    ASSUME CrawlerTypes, CrawlerStep
    PROVE  CrawlerTypes'
<1> USE DEF CrawlerTypes, QueueTypes, FlagTypes, BlockTypes, PlaceTypes, DiskTypes, BoundTypes,
        Places, Goto, queueVars, blockVars, crawlerVars, diskVars, cacheVars, bounds
<1>1. CASE Wait
  BY <1>1, ThreadsSame DEF Wait
<1>2. CASE LoopTop
  BY <1>2, ThreadsSame DEF LoopTop
<1>3. CASE NothingLeft
  BY <1>3, ThreadsSame DEF NothingLeft
<1>4. CASE PopPath
  <2>1. Head(m_pathsToUpdate) \in Paths /\ Tail(m_pathsToUpdate) \in Seq(Paths)
    BY <1>4 DEF PopPath
  <2>2. Pushed(Tail(m_pathsToUpdate), Head(m_pathsToUpdate)) \in Seq(Paths)
    BY <2>1, PushedIs
  <2> QED BY <1>4, <2>1, <2>2, ThreadsSame DEF PopPath
<1>5. CASE CheckPath
  <2>1. UNCHANGED <<call, inhibit>>
    BY <1>5, Zenon DEF CheckPath
  <2>2. ThreadTypes'
    BY <2>1, ThreadsSame
  <2>3. cached' \subseteq Dirs /\ stale' \subseteq cached' /\ holdoff' \in BOOLEAN
    BY <1>5 DEF CheckPath, RemoveCacheForPath
  <2>4. PlaceTypes' /\ dbChanged' \subseteq Databases
    BY <1>5, PathFacts DEF CheckPath
  <2>5. QueueTypes' /\ BlockTypes' /\ BoundTypes'
    BY <1>5 DEF CheckPath
  <2>6. m_bRun' \in BOOLEAN /\ guarded' \in BOOLEAN /\ first' \in BOOLEAN
    BY <1>5 DEF CheckPath
  <2>7. exists' \subseteq Dirs /\ gone' \subseteq Files /\ cached' \subseteq Dirs
    BY <1>5, <2>3 DEF CheckPath
  <2> QED BY <2>2, <2>3, <2>4, <2>5, <2>6, <2>7
<1>6. CASE RefreshFolder
  <2>1. CASE work \in exists /\ Fetched(work, ChildDirs(work)) /\ UNCHANGED holdoff
    <3>1. work \in Dirs /\ ChildDirs(work) \in SUBSET Dirs
      BY <2>1, PathFacts
    <3> QED BY <1>6, <2>1, <3>1, ThreadsSame, FetchedIs DEF RefreshFolder
  <2>2. CASE /\ RemoveCacheForPath(work)
             /\ UNCHANGED <<m_foldersToUpdate, added, wake, blockVars, failures>>
    BY <1>6, <2>2, ThreadsSame DEF RefreshFolder, RemoveCacheForPath
  <2> QED BY <1>6, <2>1, <2>2 DEF RefreshFolder
<1>7. CASE RefreshMember
  BY <1>7, ThreadsSame, FetchedIs, PathFacts DEF RefreshMember
<1>8. CASE PopFolder
  <2>1. CASE m_foldersToUpdate = <<>>
    BY <1>8, <2>1, ThreadsSame DEF PopFolder
  <2>2. CASE m_foldersToUpdate # <<>>
    <3>1. Head(m_foldersToUpdate) \in Dirs /\ Tail(m_foldersToUpdate) \in Seq(Dirs)
      BY <2>2
    <3>2. Pushed(Tail(m_foldersToUpdate), Head(m_foldersToUpdate)) \in Seq(Dirs)
      BY <3>1, PushedIs
    <3>3. Head(m_foldersToUpdate) \in Paths
      BY <3>1, PathFacts
    <3> QED BY <1>8, <2>2, <3>1, <3>2, <3>3, ThreadsSame DEF PopFolder
  <2> QED BY <2>1, <2>2
<1>9. CASE CheckFolder
  BY <1>9, ThreadsSame DEF CheckFolder
<1>10. CASE CrawlFolder
  BY <1>10, ThreadsSame, FetchedIs, PathFacts, DirectoriesAdded DEF CrawlFolder
<1>11. ASSUME NEW b \in DOMAIN noWatch, RemoveTimedoutBlock(b) PROVE CrawlerTypes'
  <2>1. b \in Versioned /\ EndBlock(b)
    BY <1>11 DEF RemoveTimedoutBlock
  <2>2. /\ DOMAIN noWatch' \subseteq Versioned /\ Range(noWatch') \subseteq {"timed", "over"}
        /\ m_foldersToUpdate' \in Seq(Dirs) /\ added' \in BOOLEAN /\ wake' \in BOOLEAN
    BY <2>1, EndBlockIs
  <2>3. blocked' \in Dirs \union {NoPath} /\ released' \in BOOLEAN
    BY <1>11 DEF RemoveTimedoutBlock, ResetBlockedPath
  <2> QED BY <1>11, <2>2, <2>3, ThreadsSame DEF RemoveTimedoutBlock
<1>12. CASE ErasePath
  BY <1>12, ThreadsSame, ErasedIs DEF ErasePath
<1>13. CASE EraseFolder
  BY <1>13, ThreadsSame, ErasedIs DEF EraseFolder
<1>14. CASE FetchError \/ FetchLost
  <2>1. PICK d \in Versioned : FetchBlocks(d) \/ FetchRetries(d) \/ FetchGivesUp(d)
    BY <1>14, FetchingIs, Zenon DEF FetchError, FetchLost, FetchStep
  <2>2. /\ cached' \subseteq Dirs /\ stale' \subseteq cached'
        /\ m_foldersToUpdate' \in Seq(Dirs) /\ added' \in BOOLEAN /\ wake' \in BOOLEAN
        /\ BlockTypes' /\ failures' \in 0 .. MaxFailures
    BY <2>1, FetchFailsIs
  <2>3. /\ pc \in {"refresh", "member", "crawl"}
        /\ pc' = IF pc = "crawl" THEN "crawlerase" ELSE "erase"
        /\ UNCHANGED <<m_pathsToUpdate, work, first, m_bRun, guarded, holdoff, inhibit, call,
                       exists, gone, dbChanged, calls>>
    BY <1>14, Zenon DEF FetchError, FetchLost, FetchStep
  <2> QED BY <2>2, <2>3, ThreadsSame
<1>15. CASE RefreshMissing
  BY <1>15, ThreadsSame DEF RefreshMissing
<1>16. CASE CrawlMissing
  BY <1>16, ThreadsSame DEF CrawlMissing
<1>17. CASE NoTimedoutBlock
  BY <1>17, ThreadsSame DEF NoTimedoutBlock, ResetBlockedPath
<1> QED
  BY <1>1, <1>2, <1>3, <1>4, <1>5, <1>6, <1>7, <1>8, <1>9, <1>10, <1>11, <1>12, <1>13, <1>14,
     <1>15, <1>16, <1>17, Zenon DEF CrawlerStep, CarefulStep

\* A call begins.
LEMMA CallTyped ==
    ASSUME CrawlerTypes, NEW t \in Threads, NEW q, NEW p, NEW shell \in BOOLEAN,
           Begin(t, q, p, shell), Counted,
           \/ q = "paths" /\ p \in Paths /\ shell = FALSE
           \/ q = "folders" /\ p \in Dirs,
           inhibit' = IF shell THEN inhibit + 1 ELSE inhibit
    PROVE  ThreadTypes' /\ calls' \in 0 .. MaxCalls
<1>1. calls' \in 0 .. MaxCalls
  BY BoundsAssumption DEF Counted, CrawlerTypes, BoundTypes
<1>2. ThreadTypes
  BY DEF CrawlerTypes
<1>3. /\ call' \in [Threads -> CallStates] /\ t \notin Asking
      /\ Asking' = IF shell THEN Asking \union {t} ELSE Asking
  BY <1>2, CallBegins
<1>4. \/ Asking' = Asking /\ inhibit' = inhibit
      \/ t \notin Asking /\ Asking' = Asking \union {t} /\ inhibit' = inhibit + 1
  BY <1>3
<1>5. ThreadTypes'
  BY <1>2, <1>3, <1>4, InhibitFollows
<1> QED BY <1>1, <1>5

\* What the watcher reports.
Report ==
    \/ \E f \in Files : ChangeFile(f) \/ DeleteFile(f)
    \/ \E b \in Databases : ChangeDatabase(b)
    \/ \E d \in Versioned : RemoveFolder(d) \/ TouchFolder(d)

\* The changes that the watcher reports keep the types.
LEMMA ReportsTyped ==
    ASSUME CrawlerTypes, Report
    PROVE  CrawlerTypes'
<1> USE DEF CrawlerTypes, QueueTypes, FlagTypes, BlockTypes, PlaceTypes, DiskTypes, BoundTypes,
        queueVars, blockVars, crawlerVars, diskVars, cacheVars, bounds
<1>0. /\ Dirs \subseteq Paths /\ Files \subseteq Paths /\ Databases \subseteq Paths
      /\ Versioned \subseteq Dirs
  BY PathFacts
<1>1. ASSUME NEW f \in Files, ChangeFile(f) PROVE CrawlerTypes'
  <2>1. /\ Begin(Watcher, "paths", f, FALSE) /\ Counted
        /\ f \in Paths /\ inhibit' = inhibit
    BY <1>0, <1>1 DEF ChangeFile
  <2>2. ThreadTypes' /\ calls' \in 0 .. MaxCalls
    BY <2>1, ThreadFacts, CallTyped
  <2> QED BY <1>0, <1>1, <2>1, <2>2 DEF ChangeFile
<1>2. ASSUME NEW f \in Files, DeleteFile(f) PROVE CrawlerTypes'
  <2>1. /\ Begin(Watcher, "paths", f, FALSE) /\ Counted
        /\ f \in Paths /\ inhibit' = inhibit
    BY <1>0, <1>2 DEF DeleteFile
  <2>2. ThreadTypes' /\ calls' \in 0 .. MaxCalls
    BY <2>1, ThreadFacts, CallTyped
  <2> QED BY <1>0, <1>2, <2>1, <2>2 DEF DeleteFile
<1>3. ASSUME NEW b \in Databases, ChangeDatabase(b) PROVE CrawlerTypes'
  <2>1. /\ Begin(Watcher, "paths", b, FALSE) /\ Counted
        /\ b \in Paths /\ inhibit' = inhibit
    BY <1>0, <1>3 DEF ChangeDatabase
  <2>2. ThreadTypes' /\ calls' \in 0 .. MaxCalls
    BY <2>1, ThreadFacts, CallTyped
  <2> QED BY <1>0, <1>3, <2>1, <2>2 DEF ChangeDatabase
<1>4. ASSUME NEW d \in Versioned, RemoveFolder(d) PROVE CrawlerTypes'
  <2>1. /\ Begin(Watcher, "paths", d, FALSE) /\ Counted
        /\ d \in Paths /\ inhibit' = inhibit
    BY <1>0, <1>4 DEF RemoveFolder
  <2>2. ThreadTypes' /\ calls' \in 0 .. MaxCalls
    BY <2>1, ThreadFacts, CallTyped
  <2> QED BY <1>0, <1>4, <2>1, <2>2 DEF RemoveFolder
<1>5. ASSUME NEW d \in Versioned, TouchFolder(d) PROVE CrawlerTypes'
  <2>1. /\ Begin(Watcher, "paths", d, FALSE) /\ Counted
        /\ d \in Paths /\ inhibit' = inhibit
    BY <1>0, <1>5 DEF TouchFolder
  <2>2. ThreadTypes' /\ calls' \in 0 .. MaxCalls
    BY <2>1, ThreadFacts, CallTyped
  <2> QED BY <1>0, <1>5, <2>1, <2>2 DEF TouchFolder
<1> QED
  BY <1>1, <1>2, <1>3, <1>4, <1>5, Zenon DEF Report

\* So do the requests.
LEMMA RequestsTyped ==
    ASSUME CrawlerTypes, NEW t \in Threads, Request(t)
    PROVE  CrawlerTypes'
<1> USE DEF CrawlerTypes, QueueTypes, FlagTypes, BlockTypes, PlaceTypes, DiskTypes, BoundTypes,
        queueVars, blockVars, crawlerVars, diskVars, cacheVars, bounds
<1>0. Versioned \subseteq Dirs
  BY PathFacts
<1>1. CASE AskCached(t)
  <2>1. ThreadTypes /\ [at |-> "leave"] \in CallStates /\ IsAsking([at |-> "leave"])
    BY DEF CallStates, IsAsking
  <2>2. /\ call' \in [Threads -> CallStates] /\ t \notin Asking
        /\ Asking' = Asking \union {t} /\ inhibit' = inhibit + 1
    BY <1>1, <2>1, CallEnters DEF AskCached
  <2>3. ThreadTypes'
    BY <2>1, <2>2, InhibitFollows
  <2> QED BY <1>1, <2>3 DEF AskCached
<1>2. ASSUME NEW d \in Versioned, AskStatus(t, d) PROVE CrawlerTypes'
  <2>1. /\ Begin(t, "folders", d, TRUE) /\ Counted
        /\ d \in Dirs /\ inhibit' = inhibit + 1
    BY <1>0, <1>2 DEF AskStatus
  <2>2. ThreadTypes' /\ calls' \in 0 .. MaxCalls
    BY <2>1, ThreadFacts, CallTyped
  <2> QED BY <1>0, <1>2, <2>1, <2>2 DEF AskStatus
<1>3. ASSUME NEW d \in Versioned, CrawlCommand(t, d) PROVE CrawlerTypes'
  <2>1. /\ Begin(t, "folders", d, FALSE) /\ Counted
        /\ d \in Dirs /\ inhibit' = inhibit
    BY <1>0, <1>3 DEF CrawlCommand
  <2>2. ThreadTypes' /\ calls' \in 0 .. MaxCalls
    BY <2>1, ThreadFacts, CallTyped
  <2> QED BY <1>0, <1>3, <2>1, <2>2 DEF CrawlCommand, RemoveCacheForPath
<1> QED
  BY <1>1, <1>2, <1>3, Zenon DEF Request

\* The steps of a call keep them.
LEMMA CallersTyped ==
    ASSUME CrawlerTypes, NEW t \in Threads, Caller(t)
    PROVE  CrawlerTypes'
<1> USE DEF CrawlerTypes, QueueTypes, FlagTypes, BlockTypes, PlaceTypes, DiskTypes, BoundTypes,
        queueVars, blockVars, crawlerVars, diskVars, cacheVars, bounds
<1>7. CASE CheckCall(t)
  <2>1. call' \in [Threads -> CallStates] /\ Asking' = Asking
    BY <1>7, CallTo, CallReturns DEF CheckCall
  <2>2. ThreadTypes'
    BY <1>7, <2>1, InhibitFollows DEF CheckCall
  <2> QED BY <1>7, <2>2 DEF CheckCall
<1>8. CASE PushCall(t)
  <2>1. call' \in [Threads -> CallStates] /\ Asking' = Asking
    BY <1>8, CallTo DEF PushCall
  <2>2. ThreadTypes'
    BY <1>8, <2>1, InhibitFollows DEF PushCall
  <2> DEFINE p == call[t].path
  <2>3. p \in Paths /\ (call[t].queue # "paths" => p \in Dirs)
    BY <1>8, RequestIs, PathFacts DEF PushCall
  <2> HIDE DEF p
  <2>4. CASE call[t].queue = "paths"
    <3>1. Pushed(m_pathsToUpdate, p) \in Seq(Paths)
          /\ Range(Pushed(m_pathsToUpdate, p)) = Range(m_pathsToUpdate) \union {p}
      BY <2>3, PushedIs
    <3>2. Pushed(m_pathsToUpdate, p) # <<>>
      <4>1. Range(<<>>) = {}
        BY DEF Range
      <4> QED BY <3>1, <4>1
    <3>3. m_pathsToUpdate' = Pushed(m_pathsToUpdate, p)
          /\ UNCHANGED <<m_foldersToUpdate, added>>
      BY <1>8, <2>4 DEF PushCall, p
    <3> QED BY <1>8, <2>2, <3>1, <3>2, <3>3 DEF PushCall
  <2>5. CASE call[t].queue # "paths"
    <3>1. Pushed(m_foldersToUpdate, p) \in Seq(Dirs)
      BY <2>3, <2>5, PushedIs
    <3>2. m_foldersToUpdate' = Pushed(m_foldersToUpdate, p) /\ added' = TRUE
          /\ UNCHANGED m_pathsToUpdate
      BY <1>8, <2>5 DEF PushCall, p
    <3> QED BY <1>8, <2>2, <3>1, <3>2 DEF PushCall
  <2> QED BY <2>4, <2>5
<1>9. CASE SetCall(t)
  <2>1. call' \in [Threads -> CallStates] /\ Asking' = Asking
    BY <1>9, CallReturns DEF SetCall
  <2>2. ThreadTypes'
    BY <1>9, <2>1, InhibitFollows DEF SetCall
  <2> QED BY <1>9, <2>2 DEF SetCall
<1>10. CASE LeaveCall(t)
  <2>1. ThreadTypes'
    BY <1>10, CallLeaves, InhibitFollows DEF LeaveCall
  <2> QED BY <1>10, <2>1 DEF LeaveCall
<1> QED
  BY <1>7, <1>8, <1>9, <1>10, Zenon DEF Caller

\* The commands, Stop and the passing of time keep them.
LEMMA CommandsTyped ==
    ASSUME CrawlerTypes,
           Command \/ Stop \/ StopReturns \/ Time \/ \E d \in Versioned : UnBlockPath(d)
    PROVE  CrawlerTypes'
<1> USE DEF CrawlerTypes, QueueTypes, FlagTypes, BlockTypes, PlaceTypes, DiskTypes, BoundTypes,
        queueVars, blockVars, crawlerVars, diskVars, cacheVars, bounds
<1>0. Versioned \subseteq Dirs
  BY PathFacts
<1>a. ASSUME Counted PROVE calls' \in 0 .. MaxCalls
  BY <1>a, BoundsAssumption DEF Counted
<1>1. ASSUME NEW d \in Versioned, BlockPath(d) PROVE CrawlerTypes'
  <2>1. WCRoot(d) \in Versioned
    BY WCRootIs
  <2>2. DOMAIN noWatch' \subseteq Versioned /\ Range(noWatch') \subseteq {"timed", "over"}
    BY <1>1, <2>1 DEF BlockPath, Block, Range
  <2>3. ThreadTypes' /\ calls' \in 0 .. MaxCalls
    BY <1>1, <1>a, ThreadsSame DEF BlockPath
  <2> QED BY <1>1, <2>2, <2>3 DEF BlockPath
<1>2. ASSUME NEW d \in Versioned, Release(d) PROVE CrawlerTypes'
  <2>1. ThreadTypes' /\ calls' \in 0 .. MaxCalls
    BY <1>2, <1>a, ThreadsSame DEF Release
  <2>2. cached' \subseteq Dirs /\ stale' \subseteq cached' /\ holdoff' \in BOOLEAN
    BY <1>2 DEF Release, RemoveCacheForPath
  <2>3. blocked' \in Dirs \union {NoPath} /\ released' \in BOOLEAN
    BY <1>0, <1>2 DEF Release
  <2> QED BY <1>2, <2>1, <2>2, <2>3 DEF Release
<1>3. CASE Stop \/ StopReturns
  <2>1. UNCHANGED <<call, inhibit>>
    BY <1>3, Zenon DEF Stop, StopReturns
  <2>2. ThreadTypes'
    BY <2>1, ThreadsSame
  <2>3. CASE Stop
    BY <2>2, <2>3 DEF Stop
  <2>4. CASE StopReturns
    BY <2>2, <2>4 DEF StopReturns
  <2> QED BY <1>3, <2>3, <2>4
<1>4. CASE HoldoffEnds
  <2>1. ThreadTypes'
    BY <1>4, ThreadsSame DEF HoldoffEnds
  <2> QED BY <1>4, <2>1 DEF HoldoffEnds
<1>5. CASE CrawlBlockEnds
  <2>1. ThreadTypes'
    BY <1>5, ThreadsSame DEF CrawlBlockEnds
  <2> QED BY <1>5, <2>1 DEF CrawlBlockEnds
<1>6. ASSUME NEW d \in Dirs, BlockTimesOut(d) PROVE CrawlerTypes'
  <2>1. DOMAIN noWatch' \subseteq Versioned /\ Range(noWatch') \subseteq {"timed", "over"}
    BY <1>6 DEF BlockTimesOut, Range
  <2>2. UNCHANGED <<call, inhibit>>
    BY <1>6, Zenon DEF BlockTimesOut
  <2>3. ThreadTypes'
    BY <2>2, ThreadsSame
  <2>4. UNCHANGED <<queueVars, m_bRun, guarded, holdoff, blocked, released, crawlerVars,
                    diskVars, cacheVars, bounds>>
    BY <1>6, Zenon DEF BlockTimesOut
  <2> QED BY <2>1, <2>3, <2>4
<1>7. ASSUME NEW d \in Versioned, UnBlockPath(d) PROVE CrawlerTypes'
  <2>1. EndBlock(d)
    BY <1>7 DEF UnBlockPath
  <2>2. /\ DOMAIN noWatch' \subseteq Versioned /\ Range(noWatch') \subseteq {"timed", "over"}
        /\ m_foldersToUpdate' \in Seq(Dirs) /\ added' \in BOOLEAN /\ wake' \in BOOLEAN
    BY <2>1, EndBlockIs
  <2>3. ThreadTypes' /\ calls' \in 0 .. MaxCalls
    BY <1>7, <1>a, ThreadsSame DEF UnBlockPath
  <2> QED BY <1>7, <2>2, <2>3 DEF UnBlockPath
<1> QED
  BY <1>1, <1>2, <1>3, <1>4, <1>5, <1>6, <1>7, Zenon DEF Command, Time

-----------------------------------------------------------------------------
(* The type invariant, and the wake event.                                 *)

\* Every step is one of these; what is lost stays stale.
LEMMA StepKinds ==
    ASSUME Next
    PROVE  /\ \/ CrawlerStep \/ Report
              \/ Command \/ Stop \/ StopReturns \/ Time \/ \E d \in Versioned : UnBlockPath(d)
              \/ \E t \in Shells : Request(t)
              \/ \E t \in Threads : Caller(t)
           /\ lost' \subseteq stale'
<1>1. \A S : S \intersect Uncovered' \subseteq stale'
  BY DEF Uncovered
<1>2. \A S : (lost \intersect stale') \union (S \intersect Uncovered') \subseteq stale'
             /\ (lost \intersect stale') \ S \subseteq stale'
  BY <1>1
<1>3. CASE Crawler
  BY <1>2, <1>3, Zenon DEF Crawler, Forgets, Keeps, CrawlerStep
<1>4. CASE \E d \in Versioned : Forgets(UnBlockPath(d), UnblockedBeside(d))
  BY <1>2, <1>4, Zenon DEF Forgets
<1>5. CASE Keeps(Command) \/ Keeps(Stop) \/ Keeps(StopReturns) \/ Keeps(Time)
  BY <1>2, <1>5, Zenon DEF Keeps, Forgets
<1>6. CASE ChangeReported
  BY <1>2, <1>6, Zenon DEF ChangeReported, Renews, Forgets, Keeps, Report
<1>7. CASE (\E t \in Shells : Keeps(Request(t))) \/ (\E t \in Threads : Keeps(Caller(t)))
  BY <1>2, <1>7, Zenon DEF Forgets, Keeps
<1> QED BY <1>3, <1>4, <1>5, <1>6, <1>7, Zenon DEF Next

\* The types, and that what is given up is stale, hold after every step.
LEMMA CrawlerTypesStep ==
    ASSUME CrawlerTypes, lost \subseteq stale, [Next]_vars
    PROVE  CrawlerTypes' /\ lost' \subseteq stale'
<1>0. \A t \in Shells : t \in Threads
  BY ThreadFacts
<1>1. CASE Next
  BY <1>0, <1>1, StepKinds, CrawlerTyped, CommandsTyped, ReportsTyped, RequestsTyped,
     CallersTyped, Zenon
<1>2. CASE UNCHANGED vars
  BY <1>2 DEF vars, queueVars, blockVars, crawlerVars, diskVars, cacheVars, bounds, CrawlerTypes,
     QueueTypes, FlagTypes, BlockTypes, PlaceTypes, ThreadTypes, Asking, DiskTypes, BoundTypes
<1> QED BY <1>1, <1>2

\* They hold when the crawler starts.
LEMMA CrawlerTypesInit ==
    ASSUME Init
    PROVE  CrawlerTypes /\ lost \subseteq stale
<1>1. Asking = {} /\ call \in [Threads -> CallStates]
  BY DEF Init, Asking, IsAsking, CallStates
<1>2. ThreadTypes
  BY <1>1, FS_EmptySet DEF Init, ThreadTypes
<1>3. QueueTypes /\ FlagTypes
  <2>1. \A T : <<>> \in Seq(T)
    BY EmptySeq
  <2> QED BY <2>1 DEF Init, QueueTypes, FlagTypes
<1>4. BlockTypes
  <2>1. DOMAIN <<>> = {} /\ Range(<<>>) = {}
    BY DEF Range
  <2> QED BY <2>1 DEF Init, BlockTypes
<1>5. PlaceTypes /\ BoundTypes
  BY BoundsAssumption DEF Init, PlaceTypes, Places, BoundTypes
<1>6. DiskTypes
  BY PathFacts DEF Init, DiskTypes
<1> QED BY <1>2, <1>3, <1>4, <1>5, <1>6 DEF Init, CrawlerTypes

\* The groups make up the type invariant.
LEMMA CrawlerTypesImply ==
    ASSUME CrawlerTypes, lost \subseteq stale
    PROVE  TypeOK
<1>1. inhibit \in 0 .. Cardinality(Threads)
  <2>1. Asking \subseteq Threads
    BY DEF Asking
  <2>2. IsFiniteSet(Asking) /\ Cardinality(Asking) <= Cardinality(Threads)
    BY <2>1, ThreadFacts, FS_Subset
  <2>3. Cardinality(Asking) \in Nat /\ Cardinality(Threads) \in Nat
    BY <2>2, ThreadFacts, FS_CardinalityType
  <2> QED BY <2>2, <2>3 DEF CrawlerTypes, ThreadTypes
<1> QED
  BY <1>1 DEF CrawlerTypes, QueueTypes, FlagTypes, BlockTypes, PlaceTypes, ThreadTypes,
     DiskTypes, BoundTypes, TypeOK

\* The state of the crawler is always well formed; the paths it works on fit
\* the place of the loop, and the inhibitors are those of the shell's calls.
THEOREM CrawlerTypeCorrect == Spec => []TypeOK
<1>1. Init => CrawlerTypes /\ lost \subseteq stale
  BY CrawlerTypesInit
<1>2. CrawlerTypes /\ lost \subseteq stale /\ [Next]_vars => (CrawlerTypes /\ lost \subseteq stale)'
  BY CrawlerTypesStep
<1>3. CrawlerTypes /\ lost \subseteq stale => TypeOK
  BY CrawlerTypesImply
<1> QED BY <1>1, <1>2, <1>3, PTL DEF Spec

\* A step of a caller leaves the event set, or about to be set by that caller,
\* when it leaves a queue longer.
LEMMA CallsWake ==
    ASSUME CrawlerTypes, NoSleepOnWork, NEW t \in Threads, Caller(t)
    PROVE  NoSleepOnWork'
<1> USE DEF NoSleepOnWork, queueVars, crawlerVars
<1>1. CASE CheckCall(t)
  <2>1. call[t].at # "set" /\ \A u \in Threads \ {t} : call'[u] = call[u]
    BY <1>1 DEF CheckCall, To, Return, CrawlerTypes, ThreadTypes
  <2> QED BY <1>1, <2>1 DEF CheckCall
<1>2. CASE PushCall(t)
  <2>1. call'[t] = [call[t] EXCEPT !.at = "set"]
    BY <1>2 DEF PushCall, To, CrawlerTypes, ThreadTypes
  <2>2. call'[t].at = "set"
    BY <1>2, <2>1, AtChanged DEF PushCall, CrawlerTypes
  <2> QED BY <2>2
<1>3. CASE SetCall(t)
  BY <1>3 DEF SetCall
<1>4. CASE LeaveCall(t)
  <2>1. call[t].at # "set" /\ \A u \in Threads \ {t} : call'[u] = call[u]
    BY <1>4 DEF LeaveCall, CrawlerTypes, ThreadTypes
  <2> QED BY <1>4, <2>1 DEF LeaveCall
<1> QED BY <1>1, <1>2, <1>3, <1>4 DEF Caller

\* A call that begins was not in the crawler.
LEMMA RequestsWake ==
    ASSUME CrawlerTypes, NoSleepOnWork, Report \/ \E t \in Threads : Request(t)
    PROVE  NoSleepOnWork'
<1> USE DEF Request, Report, ChangeFile, DeleteFile, ChangeDatabase, RemoveFolder, TouchFolder,
        AskStatus, AskCached, CrawlCommand
<1>1. UNCHANGED <<m_pathsToUpdate, m_foldersToUpdate, wake, pc, m_bRun>>
  BY Zenon DEF queueVars, crawlerVars
<1>2. \E t \in Threads : \E x : call[t].at = "idle" /\ call' = [call EXCEPT ![t] = x]
  BY ThreadFacts, Zenon DEF Begin
<1>3. \E t \in Threads : call[t].at = "idle" /\ \A u \in Threads \ {t} : call'[u] = call[u]
  BY <1>2 DEF CrawlerTypes, ThreadTypes
<1> QED BY <1>1, <1>3 DEF NoSleepOnWork

\* The crawler goes to sleep with both queues empty only, or to end.
LEMMA CrawlerSleeps ==
    ASSUME CrawlerTypes, NoSleepOnWork, CrawlerStep
    PROVE  NoSleepOnWork'
<1> USE DEF NoSleepOnWork, Goto, queueVars
<1>1. CASE Wait
  BY <1>1 DEF Wait
<1>2. CASE LoopTop
  BY <1>2 DEF LoopTop
<1>3. CASE NothingLeft
  BY <1>3 DEF NothingLeft
<1>4. CASE pc' # "wait"
  BY <1>4
<1>5. ASSUME ~Wait, ~LoopTop, ~NothingLeft PROVE pc' # "wait"
  BY <1>5 DEF CrawlerStep, CarefulStep, RemoveTimedoutBlock, NoTimedoutBlock, ErasePath,
     EraseFolder, FetchError, FetchLost, FetchStep, RefreshMissing, CrawlMissing, PopPath,
     CheckPath, RefreshFolder, RefreshMember, PopFolder, CheckFolder, CrawlFolder
<1> QED BY <1>1, <1>2, <1>3, <1>4, <1>5

\* Whoever queues a folder from a command sets the event.
LEMMA CommandsWake ==
    ASSUME CrawlerTypes, NoSleepOnWork,
           Command \/ Stop \/ StopReturns \/ Time \/ \E d \in Versioned : UnBlockPath(d)
    PROVE  NoSleepOnWork'
<1> USE DEF NoSleepOnWork, queueVars, crawlerVars
<1>1. ASSUME NEW d \in Versioned, UnBlockPath(d) PROVE NoSleepOnWork'
  <2>1. EndBlock(d)
    BY <1>1 DEF UnBlockPath
  <2>2. /\ m_foldersToUpdate' # m_foldersToUpdate => wake'
        /\ wake => wake'
    BY <2>1, EndBlockIs DEF CrawlerTypes
  <2>3. UNCHANGED <<m_pathsToUpdate, pc, m_bRun, call>>
    BY <1>1 DEF UnBlockPath
  <2> QED BY <2>2, <2>3
<1>2. ASSUME NEW d \in Versioned, BlockPath(d) \/ Release(d) PROVE NoSleepOnWork'
  <2>1. UNCHANGED <<m_pathsToUpdate, m_foldersToUpdate, wake, pc, m_bRun, call>>
    BY <1>2, Zenon DEF BlockPath, Release
  <2> QED BY <2>1
<1>3. CASE Stop \/ StopReturns
  BY <1>3 DEF Stop, StopReturns
<1>4. CASE Time
  BY <1>4 DEF Time, HoldoffEnds, CrawlBlockEnds, BlockTimesOut
<1> QED BY <1>1, <1>2, <1>3, <1>4, Zenon DEF Command

\* The crawler never sleeps on work: the event is set, or about to be, whenever
\* it waits while a queue is not empty.
THEOREM CrawlerNoSleepOnWork == Spec => []NoSleepOnWork
<1> DEFINE Inv == CrawlerTypes /\ lost \subseteq stale /\ NoSleepOnWork
<1>1. Init => Inv
  BY CrawlerTypesInit DEF Init, NoSleepOnWork
<1>2. Inv /\ [Next]_vars => Inv'
  <2> SUFFICES ASSUME Inv, [Next]_vars PROVE Inv'
    OBVIOUS
  <2>1. (CrawlerTypes /\ lost \subseteq stale)'
    BY CrawlerTypesStep
  <2>2. NoSleepOnWork'
    <3>1. CASE CrawlerStep
      BY <3>1, CrawlerSleeps
    <3>2. CASE Command \/ Stop \/ StopReturns \/ Time \/ \E d \in Versioned : UnBlockPath(d)
      BY <3>2, CommandsWake
    <3>3. CASE Report \/ (\E t \in Shells : Request(t)) \/ (\E t \in Threads : Caller(t))
      <4>1. \A t \in Shells : t \in Threads
        BY ThreadFacts
      <4> QED BY <3>3, <4>1, RequestsWake, CallsWake, Zenon
    <3>4. CASE UNCHANGED vars
      <4>1. UNCHANGED <<m_pathsToUpdate, m_foldersToUpdate, wake, pc, m_bRun, call>>
        BY <3>4, Zenon DEF vars, queueVars, crawlerVars
      <4> QED BY <4>1 DEF NoSleepOnWork
    <3> QED BY <3>1, <3>2, <3>3, <3>4, StepKinds, Zenon
  <2> QED BY <2>1, <2>2
<1>3. Inv => NoSleepOnWork
  OBVIOUS
<1> QED BY <1>1, <1>2, <1>3, PTL DEF Spec

-----------------------------------------------------------------------------
(***************************************************************************)
(* No change is forgotten.  The five places where a request can be (the    *)
(* queues, the calls, and two stages of the crawler) are taken together:   *)
(* a step moves requests, and the one it drops has been served.            *)
(***************************************************************************)
Asked(q, p) ==
    \/ q = "folders" /\ p \in Range(m_foldersToUpdate)
    \/ q = "paths" /\ p \in Range(m_pathsToUpdate)
    \/ \E t \in Threads : /\ call[t].at \in {"check", "push"}
                          /\ call[t].queue = q /\ call[t].path = p
    \/ q = "paths" /\ pc \in {"check", "member"} /\ p = work
    \/ q = "folders" /\ pc \in {"crawlcheck", "crawl", "refresh"} /\ p = work

\* Covered means blocked or served by a request, wherever that is.
CoverIsRequest ==
    \A d : Covered(d) <=> ~IsPathGood(d) \/ \E q, p : Asked(q, p) /\ Serves(q, p, d)

\* The places Covered names are those where a request can be.
LEMMA CoveredIs == CrawlerTypes => CoverIsRequest
<1> SUFFICES ASSUME CrawlerTypes, NEW d
             PROVE  Covered(d) <=> ~IsPathGood(d) \/ \E q, p : Asked(q, p) /\ Serves(q, p, d)
  BY DEF CoverIsRequest
<1>3. \A p : Serves("folders", p, d) <=> d \in Visited(p)
  BY DEF Serves
<1>4. ASSUME Covered(d), IsPathGood(d) PROVE \E q, p : Asked(q, p) /\ Serves(q, p, d)
  <2>1. CASE \E p \in Range(m_foldersToUpdate) : Serves("folders", p, d)
    BY <2>1 DEF Asked
  <2>2. CASE \E p \in Range(m_pathsToUpdate) : Serves("paths", p, d)
    BY <2>2 DEF Asked
  <2>3. CASE \E t \in Threads : /\ call[t].at \in {"check", "push"}
                                /\ Serves(call[t].queue, call[t].path, d)
    BY <2>3 DEF Asked
  <2>4. CASE pc \in {"check", "member"} /\ Serves("paths", work, d)
    BY <2>4 DEF Asked
  <2>5. CASE pc \in {"crawlcheck", "crawl", "refresh"} /\ d \in Visited(work)
    BY <1>3, <2>5 DEF Asked
  <2> QED BY <1>4, <2>1, <2>2, <2>3, <2>4, <2>5 DEF Covered
<1>5. ASSUME NEW q, NEW p, Asked(q, p), Serves(q, p, d) PROVE Covered(d)
  <2>1. CASE q = "folders" /\ p \in Range(m_foldersToUpdate)
    BY <1>5, <2>1 DEF Covered
  <2>2. CASE q = "paths" /\ p \in Range(m_pathsToUpdate)
    BY <1>5, <2>2 DEF Covered
  <2>3. CASE \E t \in Threads : /\ call[t].at \in {"check", "push"}
                                /\ call[t].queue = q /\ call[t].path = p
    BY <1>5, <2>3 DEF Covered
  <2>4. CASE q = "paths" /\ pc \in {"check", "member"} /\ p = work
    BY <1>5, <2>4 DEF Covered
  <2>5. CASE q = "folders" /\ pc \in {"crawlcheck", "crawl", "refresh"} /\ p = work
    BY <1>3, <1>5, <2>5 DEF Covered
  <2> QED BY <1>5, <2>1, <2>2, <2>3, <2>4, <2>5 DEF Asked
<1>6. ~IsPathGood(d) => Covered(d)
  BY DEF Covered
<1> QED BY <1>4, <1>5, <1>6

\* The same in the state after a step.
LEMMA CoveredAfter ==
    ASSUME CrawlerTypes', NEW d
    PROVE  Covered(d)' <=> ~IsPathGood(d)' \/ \E q, p : Asked(q, p)' /\ Serves(q, p, d)'
<1>1. (CrawlerTypes => CoverIsRequest)'
  BY CoveredIs, PTL
<1> QED BY <1>1 DEF CoverIsRequest

\* Whatever a request leads to is blocked when its path is: folders block what
\* is below them, and a file or a database is not a folder.
BlocksReach == \A q, p, d : Serves(q, p, d) /\ ~IsPathGood(p) => ~IsPathGood(d)

\* Blocks reach what a request leads to in every state of the right types.
LEMMA BlockedBelow == CrawlerTypes => BlocksReach
<1> SUFFICES ASSUME CrawlerTypes, NEW q, NEW p, NEW d, Serves(q, p, d), ~IsPathGood(p)
             PROVE  ~IsPathGood(d)
  BY DEF BlocksReach
<1>1. PICK b \in DOMAIN noWatch : p \in Under(b)
  BY DEF IsPathGood, IsAncestorOf
<1>2. b \in Dirs /\ b \in Paths
  BY PathFacts DEF CrawlerTypes, BlockTypes
<1>3. \A x \in Under(b) : Under(x) \subseteq Under(b)
  BY <1>2, UnderTransitive
<1>4. d \in Under(b)
  <2>1. CASE q = "folders" /\ d \in Visited(p)
    BY <1>1, <1>3, <2>1 DEF Visited
  <2>2. CASE p \in Files /\ d = Containing[p]
    <3>1. p # b
      BY <1>2, <2>2, PathFacts
    <3> QED BY <1>1, <1>2, <2>2, <3>1, ContainingUnder
  <2>3. CASE p \in Databases /\ d \in Visited(Containing[p])
    <3>1. p # b /\ Containing[p] \notin Outside
      BY <1>2, <2>3, PathFacts DEF Versioned
    <3>2. Containing[p] \in Under(b)
      BY <1>1, <1>2, <3>1, ContainingUnder
    <3> QED BY <1>3, <2>3, <3>1, <3>2 DEF Visited
  <2>4. CASE d \in Under(p)
    BY <1>1, <1>3, <2>4
  <2> QED BY <2>1, <2>2, <2>3, <2>4 DEF Serves
<1> QED BY <1>1, <1>4 DEF IsPathGood, IsAncestorOf

\* A step that takes back nothing but one request, which it has served, and
\* leaves the blocks and the disk, keeps a folder covered.
LEMMA CoverMoves ==
    ASSUME CrawlerTypes, CrawlerTypes', NEW d, Covered(d),
           DOMAIN noWatch \subseteq DOMAIN noWatch', exists \subseteq exists',
           NEW Q, NEW P,
           \A q, p : Asked(q, p) => Asked(q, p)' \/ (q = Q /\ p = P),
           \A p \in gone' : p \in gone \/ (Q = "paths" /\ p = P),
           \A p \in dbChanged : p \in dbChanged' \/ (Q = "paths" /\ p = P),
           \A p \in cached : p \in cached' \/ d \notin Under(p),
           Serves(Q, P, d) => Covered(d)'
    PROVE  Covered(d)'
<1>1. CASE ~IsPathGood(d)
  <2>1. ~IsPathGood(d)'
    BY <1>1 DEF IsPathGood
  <2> QED BY <2>1, CoveredAfter
<1>2. ASSUME NEW q, NEW p, Asked(q, p), Serves(q, p, d), ~(q = Q /\ p = P) PROVE Covered(d)'
  <2>1. Asked(q, p)'
    BY <1>2
  <2>2. Serves(q, p, d)'
    BY <1>2 DEF Serves
  <2> QED BY <2>1, <2>2, CoveredAfter
<1>3. ASSUME Serves(Q, P, d) PROVE Covered(d)'
  BY <1>3
<1>4. \/ ~IsPathGood(d)
      \/ \E q, p : Asked(q, p) /\ Serves(q, p, d)
  BY CoveredIs DEF CoverIsRequest
<1> QED BY <1>1, <1>2, <1>3, <1>4

\* Where no request is taken back.
LEMMA CoverKept ==
    ASSUME CrawlerTypes, CrawlerTypes', NEW d, Covered(d),
           DOMAIN noWatch \subseteq DOMAIN noWatch', exists \subseteq exists', gone' \subseteq gone,
           dbChanged \subseteq dbChanged',
           \A q, p : Asked(q, p) => Asked(q, p)',
           \A p \in cached : p \in cached' \/ d \notin Under(p)
    PROVE  Covered(d)'
<1>1. \A p : ~Serves("none", p, d)
  BY DEF Serves
<1>2. \A q, p : Asked(q, p) => Asked(q, p)' \/ (q = "none" /\ p = NoPath)
  OBVIOUS
<1>3. /\ \A p \in gone' : p \in gone \/ ("none" = "paths" /\ p = NoPath)
      /\ \A p \in dbChanged : p \in dbChanged' \/ ("none" = "paths" /\ p = NoPath)
  OBVIOUS
<1>4. Serves("none", NoPath, d) => Covered(d)'
  BY <1>1
<1> QED BY <1>2, <1>3, <1>4, CoverMoves

\* A request after the step.
LEMMA CoveredBy ==
    ASSUME CrawlerTypes', NEW d, NEW q, NEW p, Asked(q, p)', Serves(q, p, d)'
    PROVE  Covered(d)'
BY CoveredAfter

\* What is queued to be crawled, or blocked, is covered.
LEMMA QueuedOrBlocked ==
    ASSUME CrawlerTypes', NEW d \in Dirs, NEW c,
           c \in Range(m_foldersToUpdate') \/ ~IsPathGood(c)', d \in Visited(c)
    PROVE  Covered(d)'
<1>1. Serves("folders", c, d)'
  BY DEF Serves
<1>2. CASE c \in Range(m_foldersToUpdate')
  <2>1. Asked("folders", c)'
    BY <1>2 DEF Asked
  <2> QED BY <1>1, <2>1, CoveredBy
<1>3. CASE ~IsPathGood(c)'
  <2>1. (CrawlerTypes => BlocksReach)'
    BY BlockedBelow, PTL
  <2>2. ~IsPathGood(d)'
    BY <1>1, <1>3, <2>1 DEF BlocksReach
  <2> QED BY <2>2, CoveredAfter
<1> QED BY <1>2, <1>3

\* A folder is in its own tree, and the tree of a folder of a working copy is
\* visited as a whole.
LEMMA VisitedIs ==
    /\ \A d \in Dirs : d \in Visited(d) /\ Visited(d) \subseteq Under(d)
    /\ \A d \in Versioned : Visited(d) = Under(d)
<1>1. \A d \in Dirs : d \in Under(d)
  BY UnderClosed, PathFacts
<1> QED BY <1>1 DEF Visited, Versioned

\* When the sub folders of x that are not blocked are queued, everything below
\* x is covered.
LEMMA ChildrenCover ==
    ASSUME CrawlerTypes', NEW x \in Dirs, NEW d \in Dirs, d \in Visited(x), d # x,
           \A c \in ChildDirs(x) : c \in Range(m_foldersToUpdate') \/ ~IsPathGood(c)'
    PROVE  Covered(d)'
<1>1. x \in Versioned /\ d \in Under(x)
  BY DEF Visited, Versioned
<1>2. PICK c \in Dirs : Containing[c] = x /\ d \in Under(c)
  BY <1>1, PathFacts, UnderChild
<1>3. c \in Versioned
  <2>1. x \notin Outside /\ x # NoPath
    BY <1>1, PathFacts DEF Versioned
  <2> QED BY <1>2, <2>1, PathsAssumption DEF Versioned
<1>4. c \in ChildDirs(x) /\ d \in Visited(c)
  BY <1>1, <1>2, <1>3, VisitedIs DEF ChildDirs, Versioned
<1> QED BY <1>4, QueuedOrBlocked

\* The new entries that a fetch leaves are covered.
LEMMA NewCovered ==
    ASSUME CrawlerTypes, CrawlerTypes', NEW x \in Dirs, NEW S \in SUBSET Dirs, Fetched(x, S),
           NEW d \in Dirs, d \in stale', d \notin stale
    PROVE  Covered(d)'
<1>1. d \in NewEntries(x) /\ noWatch' = noWatch
  BY FetchedIs
<1>2. d \in Range(m_foldersToUpdate') \/ ~IsPathGood(d)
  BY <1>1, FetchedIs
<1>3. d \in Range(m_foldersToUpdate') \/ ~IsPathGood(d)'
  BY <1>1, <1>2 DEF IsPathGood
<1> QED BY <1>3, VisitedIs, QueuedOrBlocked

\* RemoveCacheForPath forgets the entries it removes and nothing else.
LEMMA RemovedIs ==
    ASSUME NEW x \in Paths \union {NoPath}, RemoveCacheForPath(x), NEW d \in stale'
    PROVE  /\ d \in stale
           /\ x \in cached => d \notin Under(x)
           /\ \A p \in cached : p \in cached' \/ d \notin Under(p)
<1> DEFINE removed == IF x \in cached THEN Under(x) ELSE {}
<1>1. cached' = cached \ removed /\ stale' = stale \ removed
  BY DEF RemoveCacheForPath
<1>2. d \in stale /\ d \notin removed
  BY <1>1
<1>3. ASSUME NEW p \in cached, p \notin cached' PROVE d \notin Under(p)
  <2>1. p \in Under(x) /\ removed = Under(x)
    BY <1>1, <1>3
  <2>2. Under(p) \subseteq Under(x)
    BY <2>1, UnderTransitive
  <2> QED BY <1>2, <2>1, <2>2
<1> QED BY <1>2, <1>3

\* What is taken from a queue is its head; the rest stays.
LEMMA HeadTaken ==
    ASSUME NEW T, NEW q \in Seq(T), q # <<>>
    PROVE  /\ Head(q) \in T /\ Tail(q) \in Seq(T)
           /\ \A x \in Range(q) : x = Head(q) \/ x \in Range(Tail(q))
<1>1. /\ Head(q) \in T /\ Tail(q) \in Seq(T) /\ Len(q) \in Nat /\ Len(Tail(q)) = Len(q) - 1
      /\ DOMAIN q = 1 .. Len(q) /\ Head(q) = q[1]
      /\ \A k \in 1 .. Len(Tail(q)) : Tail(q)[k] = q[k + 1]
  BY HeadTailProperties, LenProperties
<1>2. ASSUME NEW k \in DOMAIN q PROVE q[k] = Head(q) \/ q[k] \in Range(Tail(q))
  <2>1. CASE k = 1
    BY <1>1, <2>1
  <2>2. CASE k # 1
    <3>1. k - 1 \in 1 .. Len(Tail(q)) /\ Tail(q)[k - 1] = q[k] /\ DOMAIN Tail(q) = 1 .. Len(Tail(q))
      BY <1>1, <2>2, LenProperties
    <3> QED BY <3>1 DEF Range
  <2> QED BY <2>1, <2>2
<1> QED BY <1>1, <1>2 DEF Range

\* The steps of the crawler that take a request and serve it.
LEMMA PopPathKeeps ==
    ASSUME CrawlerTypes, CrawlerTypes', NEW d, Covered(d), PopPath
    PROVE  Covered(d)'
<1> DEFINE p == Head(m_pathsToUpdate)
           rest == Tail(m_pathsToUpdate)
<1>1. m_pathsToUpdate # <<>> /\ m_pathsToUpdate \in Seq(Paths)
  BY DEF PopPath, CrawlerTypes, PlaceTypes, QueueTypes
<1>2. /\ p \in Paths /\ rest \in Seq(Paths)
      /\ \A x \in Range(m_pathsToUpdate) : x = p \/ x \in Range(rest)
  BY <1>1, HeadTaken
<1>3. \/ m_pathsToUpdate' = Pushed(rest, p)
      \/ m_pathsToUpdate' = rest /\ work' = p /\ pc' = "check"
  BY Zenon DEF PopPath, Goto
<1> HIDE DEF p, rest
<1>4. Range(Pushed(rest, p)) = Range(rest) \union {p}
  BY <1>2, PushedIs
<1>5. /\ pc = "paths"
      /\ UNCHANGED <<m_foldersToUpdate, noWatch, call, exists, gone, dbChanged, cached, stale>>
  BY DEF PopPath, blockVars, diskVars, cacheVars
<1>6. \A q, x : Asked(q, x) => Asked(q, x)'
  BY <1>2, <1>3, <1>4, <1>5 DEF Asked
<1> QED BY <1>5, <1>6, CoverKept

\* The same for a folder that is taken out to be crawled.
LEMMA PopFolderKeeps ==
    ASSUME CrawlerTypes, CrawlerTypes', NEW d, Covered(d), PopFolder
    PROVE  Covered(d)'
<1>1. /\ pc = "folders"
      /\ UNCHANGED <<m_pathsToUpdate, noWatch, call, exists, gone, dbChanged, cached, stale>>
  BY DEF PopFolder, blockVars, diskVars, cacheVars
<1>2. CASE m_foldersToUpdate = <<>>
  <2>1. m_foldersToUpdate' = m_foldersToUpdate
    BY <1>2 DEF PopFolder
  <2>2. \A q, x : Asked(q, x) => Asked(q, x)'
    BY <1>1, <2>1 DEF Asked
  <2> QED BY <1>1, <2>2, CoverKept
<1>3. CASE m_foldersToUpdate # <<>>
  <2> DEFINE p == Head(m_foldersToUpdate)
             rest == Tail(m_foldersToUpdate)
  <2>1. m_foldersToUpdate \in Seq(Dirs)
    BY DEF CrawlerTypes, QueueTypes
  <2>2. /\ p \in Dirs /\ rest \in Seq(Dirs)
        /\ \A x \in Range(m_foldersToUpdate) : x = p \/ x \in Range(rest)
    BY <1>3, <2>1, HeadTaken
  <2>3. \/ m_foldersToUpdate' = Pushed(rest, p)
        \/ m_foldersToUpdate' = rest /\ work' = p /\ pc' = "crawlcheck"
    BY <1>3, Zenon DEF PopFolder, Goto
  <2> HIDE DEF p, rest
  <2>4. Range(Pushed(rest, p)) = Range(rest) \union {p}
    BY <2>2, PushedIs
  <2>5. \A q, x : Asked(q, x) => Asked(q, x)'
    BY <1>1, <2>2, <2>3, <2>4 DEF Asked
  <2> QED BY <1>1, <2>5, CoverKept
<1> QED BY <1>2, <1>3

\* A path that is looked at is blocked, leads to a refresh of its folder, or is
\* gone, and then the entries below it are removed.
LEMMA CheckPathKeeps ==
    ASSUME CrawlerTypes, CrawlerTypes', NEW d \in Dirs, d \in stale', d \in stale => Covered(d),
           CheckPath
    PROVE  Covered(d)'
<1>0. /\ pc = "check" /\ work \in Paths
      /\ UNCHANGED <<m_pathsToUpdate, m_foldersToUpdate, noWatch, call, exists, gone>>
  BY DEF CheckPath, CrawlerTypes, PlaceTypes, queueVars, blockVars
<1>1. \A q, x : Asked(q, x) => Asked(q, x)' \/ (q = "paths" /\ x = work)
  BY <1>0 DEF Asked
<1>2. ASSUME Covered(d), \A p \in dbChanged : p \in dbChanged' \/ p = work,
             \A p \in cached : p \in cached' \/ d \notin Under(p),
             Serves("paths", work, d) => Covered(d)'
      PROVE  Covered(d)'
  BY <1>0, <1>1, <1>2, CoverMoves
<1>3. CASE ~IsPathGood(work) /\ UNCHANGED <<dbChanged, cached, stale>>
  <2>1. Serves("paths", work, d) => ~IsPathGood(d)'
    BY <1>0, <1>3, BlockedBelow DEF BlocksReach, IsPathGood
  <2>2. Serves("paths", work, d) => Covered(d)'
    BY <2>1, CoveredAfter
  <2> QED BY <1>2, <1>3, <2>2
<1>4. CASE /\ work \in Databases /\ pc' = (IF work \in dbChanged THEN "refresh" ELSE "loop")
           /\ dbChanged' = dbChanged \ {work} /\ work' = Containing[work]
           /\ UNCHANGED <<cached, stale>>
  <2>1. ASSUME Serves("paths", work, d) PROVE Covered(d)'
    <3>1. work \in dbChanged /\ d \in Visited(Containing[work])
      BY <1>0, <1>4, <2>1, PathFacts DEF Serves, CrawlerTypes, DiskTypes
    <3> PICK c : c = Containing[work]
      OBVIOUS
    <3>2. Asked("folders", c)'
      BY <1>4, <3>1 DEF Asked
    <3>3. Serves("folders", c, d)'
      BY <3>1 DEF Serves
    <3> QED BY <3>2, <3>3, CoveredBy
  <2> QED BY <1>2, <1>4, <2>1
<1>5. CASE /\ work \in Versioned \intersect exists /\ work' = Containing[work] /\ pc' = "refresh"
           /\ UNCHANGED <<dbChanged, cached, stale>>
  <2>1. ASSUME Serves("paths", work, d) PROVE Covered(d)'
    <3>1. Containing[work] \in Versioned /\ d \in Under(work)
      BY <1>5, <2>1, PathFacts DEF Serves
    <3>2. Under(work) \subseteq Under(Containing[work])
      <4>1. Containing[work] \in Paths
        BY <3>1, PathFacts
      <4>2. work \in Under(Containing[work])
        BY <1>0, <4>1, UnderClosed
      <4> QED BY <4>1, <4>2, UnderTransitive
    <3>3. d \in Visited(Containing[work])
      BY <3>1, <3>2, VisitedIs
    <3> PICK c : c = Containing[work]
      OBVIOUS
    <3>4. Asked("folders", c)'
      BY <1>5 DEF Asked
    <3>5. Serves("folders", c, d)'
      BY <3>3 DEF Serves
    <3> QED BY <3>4, <3>5, CoveredBy
  <2> QED BY <1>2, <1>5, <2>1
<1>6. CASE pc' = "member" /\ UNCHANGED <<dbChanged, cached, stale, work>>
  <2>1. Serves("paths", work, d) => Serves("paths", work, d)'
    BY <1>0, <1>6 DEF Serves
  <2>2. \A p : p = work => Asked("paths", p)'
    BY <1>6 DEF Asked
  <2>3. \A q, x : Asked(q, x) => Asked(q, x)'
    BY <1>1, <2>2
  <2> QED BY <1>0, <1>6, <2>3, CoverKept
<1>7. CASE /\ \/ work \in Dirs /\ work \notin Versioned \intersect exists
              \/ work \in Files /\ (work \in gone \/ Containing[work] \notin exists)
           /\ work \in exists /\ UNCHANGED <<dbChanged, cached, stale>>
  <2>1. ~Serves("paths", work, d)
    BY <1>7, PathFacts, PathsAssumption DEF Serves, Versioned, CrawlerTypes, DiskTypes
  <2> QED BY <1>2, <1>7, <2>1
<1>8. CASE /\ \/ work \in Dirs /\ work \notin Versioned \intersect exists
              \/ work \in Files /\ (work \in gone \/ Containing[work] \notin exists)
           /\ work \notin exists /\ RemoveCacheForPath(work) /\ UNCHANGED dbChanged
  <2>1. /\ d \in stale /\ (work \in cached => d \notin Under(work))
        /\ \A p \in cached : p \in cached' \/ d \notin Under(p)
    BY <1>0, <1>8, RemovedIs
  <2>2. ~Serves("paths", work, d)
    BY <1>8, <2>1, PathFacts DEF Serves, CrawlerTypes, DiskTypes
  <2> QED BY <1>2, <1>8, <2>1, <2>2
<1> QED
  BY <1>3, <1>4, <1>5, <1>6, <1>7, <1>8, Zenon DEF CheckPath, Goto, cacheVars

\* A fetch of x that queues the sub folders serves the request for x, and
\* whatever it leaves stale is covered.
LEMMA FetchKeeps ==
    ASSUME CrawlerTypes, CrawlerTypes', NEW d \in Dirs, d \in stale', d \in stale => Covered(d),
           NEW x \in Dirs, Fetched(x, ChildDirs(x)),
           \A q, p : Asked(q, p) => Asked(q, p)' \/ (q = "folders" /\ p = x),
           UNCHANGED <<exists, gone, dbChanged>>
    PROVE  Covered(d)'
<1>1. ChildDirs(x) \in SUBSET Dirs
  BY PathFacts
<1>2. /\ noWatch' = noWatch /\ cached \subseteq cached' /\ d # x
      /\ \A c \in ChildDirs(x) : c \in Range(m_foldersToUpdate') \/ ~IsPathGood(c)
  BY <1>1, FetchedIs
<1>3. \A c \in ChildDirs(x) : c \in Range(m_foldersToUpdate') \/ ~IsPathGood(c)'
  BY <1>2 DEF IsPathGood
<1>4. Serves("folders", x, d) => Covered(d)'
  BY <1>2, <1>3, ChildrenCover DEF Serves
<1>5. CASE d \in stale
  <2>1. \A p \in dbChanged : p \in dbChanged' \/ ("folders" = "paths" /\ p = x)
    OBVIOUS
  <2>2. \A p \in cached : p \in cached' \/ d \notin Under(p)
    BY <1>2
  <2> QED BY <1>2, <1>4, <1>5, <2>1, <2>2, CoverMoves
<1>6. CASE d \notin stale
  BY <1>1, <1>6, NewCovered
<1> QED BY <1>5, <1>6

\* A refresh fetches the folder and queues its sub folders, or removes it with
\* everything below when it is gone.
LEMMA RefreshFolderKeeps ==
    ASSUME CrawlerTypes, CrawlerTypes', NEW d \in Dirs, d \in stale', d \in stale => Covered(d),
           RefreshFolder
    PROVE  Covered(d)'
<1>1. /\ pc = "refresh" /\ pc' = "erase"
      /\ UNCHANGED <<m_pathsToUpdate, call, exists, gone, dbChanged>>
  BY DEF RefreshFolder, Goto, diskVars
<1>2. CASE work \in exists /\ Fetched(work, ChildDirs(work))
  <2>1. work \in Dirs
    BY <1>2 DEF CrawlerTypes, DiskTypes
  <2>2. Range(m_foldersToUpdate) \subseteq Range(m_foldersToUpdate')
    BY <1>2, <2>1, FetchedIs, PathFacts
  <2>3. \A q, p : Asked(q, p) => Asked(q, p)' \/ (q = "folders" /\ p = work)
    BY <1>1, <2>2 DEF Asked
  <2> QED BY <1>1, <1>2, <2>1, <2>3, FetchKeeps
<1>3. CASE work \in cached /\ RemoveCacheForPath(work) /\ UNCHANGED <<m_foldersToUpdate, noWatch>>
  <2>1. work \in Dirs /\ work \in Paths
    BY <1>3, PathFacts DEF CrawlerTypes, DiskTypes
  <2>2. /\ d \in stale /\ d \notin Under(work)
        /\ \A p \in cached : p \in cached' \/ d \notin Under(p)
    BY <1>3, <2>1, RemovedIs
  <2>3. ~Serves("folders", work, d)
    BY <2>1, <2>2, VisitedIs DEF Serves
  <2>4. \A q, p : Asked(q, p) => Asked(q, p)' \/ (q = "folders" /\ p = work)
    BY <1>1, <1>3 DEF Asked
  <2> QED BY <1>1, <1>3, <2>2, <2>3, <2>4, CoverMoves
<1> QED BY <1>2, <1>3, Zenon DEF RefreshFolder, blockVars

\* The refresh of a file fetches its folder.
LEMMA RefreshMemberKeeps ==
    ASSUME CrawlerTypes, CrawlerTypes', NEW d \in Dirs, d \in stale', d \in stale => Covered(d),
           RefreshMember
    PROVE  Covered(d)'
<1>1. /\ pc = "member" /\ pc' = "erase" /\ work \in Files
      /\ UNCHANGED <<m_pathsToUpdate, call, exists, gone, dbChanged>>
  BY DEF RefreshMember, Goto, diskVars, CrawlerTypes, PlaceTypes
<1>2. Serves("paths", work, d) => d = Containing[work] /\ d \in exists /\ work \notin gone
  BY <1>1, PathFacts DEF Serves, CrawlerTypes, DiskTypes
<1>3. CASE Containing[work] \in exists /\ Fetched(Containing[work], {})
  <2>1. PICK x \in Dirs : x = Containing[work] /\ Fetched(x, {})
    BY <1>3 DEF CrawlerTypes, DiskTypes
  <2>2. /\ Range(m_foldersToUpdate) \subseteq Range(m_foldersToUpdate')
        /\ noWatch' = noWatch /\ cached \subseteq cached' /\ d # x
    BY <2>1, FetchedIs
  <2>3. \A q, p : Asked(q, p) => Asked(q, p)' \/ (q = "paths" /\ p = work)
    BY <1>1, <2>2 DEF Asked
  <2>4. ~Serves("paths", work, d)
    BY <1>2, <2>1, <2>2
  <2>5. CASE d \in stale
    <3>1. \A p \in cached : p \in cached' \/ d \notin Under(p)
      BY <2>2
    <3> QED BY <1>1, <2>2, <2>3, <2>4, <2>5, <3>1, CoverMoves
  <2>6. CASE d \notin stale
    BY <2>1, <2>6, NewCovered
  <2> QED BY <2>5, <2>6
<1>4. CASE /\ Containing[work] \notin exists \/ work \in gone
           /\ UNCHANGED <<cached, stale, m_foldersToUpdate, noWatch>>
  <2>1. \A q, p : Asked(q, p) => Asked(q, p)' \/ (q = "paths" /\ p = work)
    BY <1>1, <1>4 DEF Asked
  <2>2. ~Serves("paths", work, d)
    BY <1>2, <1>4
  <2> QED BY <1>1, <1>4, <2>1, <2>2, CoverMoves
<1> QED BY <1>3, <1>4, Zenon DEF RefreshMember, blockVars, cacheVars

\* A folder that is crawled is fetched or is fresh; its sub folders follow.
LEMMA CrawlFolderKeeps ==
    ASSUME CrawlerTypes, CrawlerTypes', NEW d \in Dirs, d \in stale', d \in stale => Covered(d),
           CrawlFolder
    PROVE  Covered(d)'
<1>1. /\ pc = "crawl" /\ pc' = "crawlerase" /\ work \in Dirs
      /\ UNCHANGED <<m_pathsToUpdate, call, exists, gone, dbChanged>>
  BY DEF CrawlFolder, Goto, diskVars, CrawlerTypes, PlaceTypes
<1>2. CASE Fetched(work, ChildDirs(work))
  <2>1. Range(m_foldersToUpdate) \subseteq Range(m_foldersToUpdate')
    BY <1>1, <1>2, FetchedIs, PathFacts
  <2>2. \A q, p : Asked(q, p) => Asked(q, p)' \/ (q = "folders" /\ p = work)
    BY <1>1, <2>1 DEF Asked
  <2> QED BY <1>1, <1>2, <2>2, FetchKeeps
<1>3. CASE /\ work \in cached \ stale
           /\ AddDirectories({c \in ChildDirs(work) : IsPathGood(c)})
           /\ UNCHANGED <<cached, stale, noWatch>>
  <2>1. {c \in ChildDirs(work) : IsPathGood(c)} \in SUBSET Dirs
    BY PathFacts
  <2>2. Range(m_foldersToUpdate') =
            Range(m_foldersToUpdate) \union {c \in ChildDirs(work) : IsPathGood(c)}
    BY <1>3, <2>1, DirectoriesAdded DEF CrawlerTypes
  <2>3. \A c \in ChildDirs(work) : c \in Range(m_foldersToUpdate') \/ ~IsPathGood(c)'
    BY <1>3, <2>2 DEF IsPathGood
  <2>4. \A q, p : Asked(q, p) => Asked(q, p)' \/ (q = "folders" /\ p = work)
    BY <1>1, <2>2 DEF Asked
  <2>5. Serves("folders", work, d) => Covered(d)'
    BY <1>1, <1>3, <2>3, ChildrenCover DEF Serves
  <2> QED BY <1>1, <1>3, <2>4, <2>5, CoverMoves
<1> QED BY <1>2, <1>3, Zenon DEF CrawlFolder, blockVars, cacheVars

\* A folder that is blocked when it comes up is left to the end of the block.
LEMMA CheckFolderKeeps ==
    ASSUME CrawlerTypes, CrawlerTypes', NEW d, Covered(d), CheckFolder
    PROVE  Covered(d)'
<1>1. /\ pc = "crawlcheck" /\ pc' = IF IsPathGood(work) THEN "crawl" ELSE "loop"
      /\ UNCHANGED <<m_pathsToUpdate, m_foldersToUpdate, work, noWatch, call, exists, gone,
                     dbChanged, cached, stale>>
  BY DEF CheckFolder, Goto, queueVars, blockVars, diskVars, cacheVars
<1>2. CASE IsPathGood(work)
  <2>1. \A q, p : Asked(q, p) => Asked(q, p)'
    BY <1>1, <1>2 DEF Asked
  <2> QED BY <1>1, <2>1, CoverKept
<1>3. CASE ~IsPathGood(work)
  <2>1. \A q, p : Asked(q, p) => Asked(q, p)' \/ (q = "folders" /\ p = work)
    BY <1>1 DEF Asked
  <2>2. Serves("folders", work, d) => ~IsPathGood(d)'
    BY <1>1, <1>3, BlockedBelow DEF BlocksReach, IsPathGood
  <2>3. Serves("folders", work, d) => Covered(d)'
    BY <2>2, CoveredAfter
  <2> QED BY <1>1, <2>1, <2>3, CoverMoves
<1> QED BY <1>2, <1>3

\* A fetch that fails blocks its folder, or queues it again.
LEMMA FetchErrorKeeps ==
    ASSUME CrawlerTypes, CrawlerTypes', NEW d \in Dirs, d \in stale', d \in stale => Covered(d),
           FetchError
    PROVE  Covered(d)'
<1>1. PICK x : x = Fetching
  OBVIOUS
<1>2. /\ x \in Versioned /\ x \in Dirs
      /\ pc = "member" => work \in Files /\ x = Containing[work]
      /\ pc # "member" => pc \in {"refresh", "crawl"} /\ x = work
  BY <1>1, FetchingIs, PathFacts DEF FetchError
<1>3. /\ FetchBlocks(x) \/ FetchRetries(x)
      /\ UNCHANGED <<m_pathsToUpdate, call, exists, gone, dbChanged>>
  BY <1>1, Zenon DEF FetchError, FetchStep, diskVars
<1>4. /\ cached \subseteq cached' /\ stale' = stale \union {x}
      /\ Range(m_foldersToUpdate) \subseteq Range(m_foldersToUpdate')
      /\ DOMAIN noWatch \subseteq DOMAIN noWatch'
  BY <1>2, <1>3, FetchFailsIs
<1>5. x \in Range(m_foldersToUpdate') \/ ~IsPathGood(x)'
  <2>1. CASE FetchBlocks(x)
    <3>1. x \in DOMAIN noWatch'
      BY <2>1 DEF FetchBlocks, Block
    <3>2. x \in Under(x)
      BY <1>2, PathFacts, UnderClosed
    <3> QED BY <3>1, <3>2 DEF IsPathGood, IsAncestorOf
  <2>2. CASE FetchRetries(x)
    <3>1. {c \in {x} : IsPathGood(c)} \in SUBSET Dirs /\ noWatch' = noWatch
      BY <1>2, <2>2 DEF FetchRetries
    <3>2. Range(m_foldersToUpdate') =
              Range(m_foldersToUpdate) \union {c \in {x} : IsPathGood(c)}
      BY <2>2, <3>1, DirectoriesAdded DEF FetchRetries, CrawlerTypes
    <3> QED BY <3>1, <3>2 DEF IsPathGood
  <2> QED BY <1>3, <2>1, <2>2
<1>6. d \in Visited(x) => Covered(d)'
  BY <1>5, QueuedOrBlocked
<1>7. CASE d \notin stale
  BY <1>2, <1>4, <1>6, <1>7, VisitedIs
<1>8. CASE d \in stale
  <2>1. PICK q, p : /\ pc = "member" => q = "paths" /\ p = work
                    /\ pc # "member" => q = "folders" /\ p = work
    <3>1. CASE pc = "member"
      BY <3>1
    <3>2. CASE pc # "member"
      BY <3>2
    <3> QED BY <3>1, <3>2
  <2>2. \A r, y : Asked(r, y) => Asked(r, y)' \/ (r = q /\ y = p)
    BY <1>2, <1>3, <1>4, <2>1 DEF Asked
  <2>3. Serves(q, p, d) => d \in Visited(x)
    <3>1. CASE pc = "member"
      <4>1. Serves("paths", work, d) => d = x
        BY <1>2, <3>1, PathFacts DEF Serves, CrawlerTypes, DiskTypes
      <4> QED BY <1>2, <2>1, <3>1, <4>1, VisitedIs
    <3>2. CASE pc # "member"
      BY <1>2, <2>1, <3>2 DEF Serves
    <3> QED BY <3>1, <3>2
  <2>4. Serves(q, p, d) => Covered(d)'
    BY <1>6, <2>3
  <2>5. \A y \in cached : y \in cached' \/ d \notin Under(y)
    BY <1>4
  <2> QED BY <1>3, <1>4, <1>8, <2>2, <2>4, <2>5, CoverMoves
<1> QED BY <1>7, <1>8

\* A fetch that fails without a block gives up what it was for.
LEMMA FetchLostKeeps ==
    ASSUME CrawlerTypes, CrawlerTypes', NEW d \in Dirs, d \in stale', d \in stale => Covered(d),
           FetchLost, d \notin IF pc = "member" THEN {Fetching} ELSE Visited(Fetching)
    PROVE  Covered(d)'
<1>1. PICK x : x = Fetching
  OBVIOUS
<1>2. /\ x \in Versioned /\ x \in Dirs
      /\ pc = "member" => work \in Files /\ x = Containing[work]
      /\ pc # "member" => pc \in {"refresh", "crawl"} /\ x = work
  BY <1>1, FetchingIs, PathFacts DEF FetchLost
<1>3. /\ FetchGivesUp(x)
      /\ UNCHANGED <<m_pathsToUpdate, call, exists, gone, dbChanged>>
  BY <1>1, Zenon DEF FetchLost, FetchStep, diskVars
<1>4. /\ cached \subseteq cached' /\ stale' = stale \union {x}
      /\ Range(m_foldersToUpdate) \subseteq Range(m_foldersToUpdate')
      /\ DOMAIN noWatch \subseteq DOMAIN noWatch'
  BY <1>2, <1>3, FetchFailsIs
<1>5. /\ d # x
      /\ pc # "member" => d \notin Visited(work)
  BY <1>1, <1>2, VisitedIs
<1>6. PICK q, p : /\ pc = "member" => q = "paths" /\ p = work
                  /\ pc # "member" => q = "folders" /\ p = work
  <2>1. CASE pc = "member"
    BY <2>1
  <2>2. CASE pc # "member"
    BY <2>2
  <2> QED BY <2>1, <2>2
<1>7. \A r, y : Asked(r, y) => Asked(r, y)' \/ (r = q /\ y = p)
  BY <1>2, <1>3, <1>4, <1>6 DEF Asked
<1>8. ~Serves(q, p, d)
  <2>1. CASE pc = "member"
    <3>1. Serves("paths", work, d) => d = x
      BY <1>2, <2>1, PathFacts DEF Serves, CrawlerTypes, DiskTypes
    <3> QED BY <1>5, <1>6, <2>1, <3>1
  <2>2. CASE pc # "member"
    BY <1>5, <1>6, <2>2 DEF Serves
  <2> QED BY <2>1, <2>2
<1>9. \A y \in cached : y \in cached' \/ d \notin Under(y)
  BY <1>4
<1> QED BY <1>3, <1>4, <1>5, <1>7, <1>8, <1>9, CoverMoves

\* The steps of the crawler that keep every change.
LEMMA CarefulKeeps ==
    ASSUME CrawlerTypes, CrawlerTypes', NEW d \in Dirs, d \in stale', d \in stale => Covered(d),
           CarefulStep
    PROVE  Covered(d)'
<1>1. CASE Wait \/ LoopTop \/ NoTimedoutBlock \/ NothingLeft
  <2>1. UNCHANGED <<m_pathsToUpdate, m_foldersToUpdate, noWatch, call, exists, gone, dbChanged,
                    cached, stale>>
    BY <1>1, Zenon DEF Wait, LoopTop, NoTimedoutBlock, NothingLeft, queueVars, blockVars,
       diskVars, cacheVars
  <2>2. pc \notin {"check", "member", "crawlcheck", "crawl", "refresh"}
    BY <1>1 DEF Wait, LoopTop, NoTimedoutBlock, NothingLeft
  <2>3. \A q, p : Asked(q, p) => Asked(q, p)'
    BY <2>1, <2>2 DEF Asked
  <2> QED BY <2>1, <2>3, CoverKept
<1>2. CASE PopPath \/ PopFolder \/ CheckFolder
  <2>1. stale' = stale
    BY <1>2, Zenon DEF PopPath, PopFolder, CheckFolder, cacheVars
  <2> QED BY <1>2, <2>1, PopPathKeeps, PopFolderKeeps, CheckFolderKeeps
<1> QED
  BY <1>1, <1>2, CheckPathKeeps, RefreshFolderKeeps, RefreshMemberKeeps, CrawlFolderKeeps,
     FetchErrorKeeps DEF CarefulStep

\* The end of the blocks of p leaves only the folders beside p to themselves:
\* p is queued, or still blocked, and all that is below it with p.
LEMMA EndBlockKeeps ==
    ASSUME CrawlerTypes, CrawlerTypes', NEW d \in Dirs, Covered(d), NEW p \in Versioned,
           EndBlock(p), d \notin UnblockedBeside(p),
           UNCHANGED <<m_pathsToUpdate, call, exists, gone, dbChanged, cached>>,
           \/ UNCHANGED <<pc, work>>
           \/ pc \notin {"check", "member", "crawlcheck", "crawl", "refresh"}
    PROVE  Covered(d)'
<1>1. /\ DOMAIN noWatch' = DOMAIN noWatch \ UnblockedBy(p)
      /\ Range(m_foldersToUpdate) \subseteq Range(m_foldersToUpdate')
      /\ p \in Range(m_foldersToUpdate') \/ ~GoodWithout(UnblockedBy(p), p)
  BY EndBlockIs DEF CrawlerTypes
<1>2. \A q, x : Asked(q, x) => Asked(q, x)'
  BY <1>1 DEF Asked
<1>3. ASSUME NEW q, NEW x, Asked(q, x), Serves(q, x, d) PROVE Covered(d)'
  <2>1. Asked(q, x)' /\ Serves(q, x, d)'
    BY <1>2, <1>3 DEF Serves
  <2> QED BY <2>1, CoveredBy
<1>4. ASSUME d \in Under(p) PROVE Covered(d)'
  <2>1. p \in Range(m_foldersToUpdate') \/ ~IsPathGood(p)'
    BY <1>1 DEF GoodWithout, IsPathGood
  <2>2. d \in Visited(p)
    BY <1>4, VisitedIs
  <2> QED BY <2>1, <2>2, QueuedOrBlocked
<1>5. ASSUME NEW b \in DOMAIN noWatch, d \in Under(b) PROVE Covered(d)'
  <2>1. CASE b \notin UnblockedBy(p)
    <3>1. ~IsPathGood(d)'
      BY <1>1, <1>5, <2>1 DEF IsPathGood, IsAncestorOf
    <3> QED BY <3>1, CoveredAfter
  <2>2. CASE b = p
    BY <1>4, <1>5, <2>2
  <2>3. CASE b = WCRoot(p)
    BY <1>4, <1>5, <2>3 DEF UnblockedBeside
  <2> QED BY <2>1, <2>2, <2>3 DEF UnblockedBy
<1>6. \/ \E b \in DOMAIN noWatch : d \in Under(b)
      \/ \E q, x : Asked(q, x) /\ Serves(q, x, d)
  BY CoveredIs DEF CoverIsRequest, IsPathGood, IsAncestorOf
<1> QED BY <1>3, <1>5, <1>6

\* A request that is taken out again gives up what it was for, and nothing else.
LEMMA EraseKeeps ==
    ASSUME CrawlerTypes, CrawlerTypes', NEW d \in Dirs, Covered(d),
           \/ ErasePath /\ d \notin PathErased
           \/ EraseFolder /\ d \notin FolderErased
    PROVE  Covered(d)'
<1>1. /\ UNCHANGED <<noWatch, call, exists, gone, dbChanged, cached>>
      /\ pc \in {"erase", "crawlerase"}
  BY Zenon DEF ErasePath, EraseFolder, blockVars, diskVars, cacheVars
<1>2. CASE ErasePath /\ d \notin PathErased
  <2>1. /\ m_foldersToUpdate' = m_foldersToUpdate
        /\ Range(m_pathsToUpdate') = Range(m_pathsToUpdate) \ {work}
    BY <1>2, ErasedIs DEF ErasePath, CrawlerTypes, QueueTypes
  <2>2. CASE work \in Range(m_pathsToUpdate)
    <3>1. ~Serves("paths", work, d)
      BY <1>2, <2>2 DEF PathErased
    <3>2. \A q, p : Asked(q, p) => Asked(q, p)' \/ (q = "paths" /\ p = work)
      BY <1>1, <2>1 DEF Asked
    <3> QED BY <1>1, <3>1, <3>2, CoverMoves
  <2>3. CASE work \notin Range(m_pathsToUpdate)
    <3>1. \A q, p : Asked(q, p) => Asked(q, p)'
      BY <1>1, <2>1, <2>3 DEF Asked
    <3> QED BY <1>1, <3>1, CoverKept
  <2> QED BY <2>2, <2>3
<1>3. CASE EraseFolder /\ d \notin FolderErased
  <2>1. /\ m_pathsToUpdate' = m_pathsToUpdate
        /\ Range(m_foldersToUpdate) \ {work} \subseteq Range(m_foldersToUpdate')
        /\ ~added => m_foldersToUpdate' = m_foldersToUpdate
    BY <1>3, ErasedIs DEF EraseFolder, CrawlerTypes, QueueTypes
  <2>2. CASE added /\ work \in Range(m_foldersToUpdate)
    <3>1. ~Serves("folders", work, d)
      BY <1>3, <2>2 DEF FolderErased, Serves
    <3>2. \A q, p : Asked(q, p) => Asked(q, p)' \/ (q = "folders" /\ p = work)
      BY <1>1, <2>1 DEF Asked
    <3> QED BY <1>1, <3>1, <3>2, CoverMoves
  <2>3. CASE ~(added /\ work \in Range(m_foldersToUpdate))
    <3>1. Range(m_foldersToUpdate) \subseteq Range(m_foldersToUpdate')
      BY <2>1, <2>3
    <3>2. \A q, p : Asked(q, p) => Asked(q, p)'
      BY <1>1, <2>1, <3>1 DEF Asked
    <3> QED BY <1>1, <3>2, CoverKept
  <2> QED BY <2>2, <2>3
<1> QED BY <1>2, <1>3

\* A folder that is gone when it comes up takes what is below it along.
LEMMA MissingKeeps ==
    ASSUME CrawlerTypes, CrawlerTypes', NEW d \in Dirs, Covered(d),
           RefreshMissing \/ CrawlMissing, d \notin Visited(work)
    PROVE  Covered(d)'
<1>1. /\ UNCHANGED <<m_pathsToUpdate, m_foldersToUpdate, noWatch, call, exists, gone, dbChanged,
                     cached>>
      /\ pc \in {"refresh", "crawl"}
  BY Zenon DEF RefreshMissing, CrawlMissing, queueVars, blockVars, diskVars, cacheVars
<1>2. \A q, p : Asked(q, p) => Asked(q, p)' \/ (q = "folders" /\ p = work)
  BY <1>1 DEF Asked
<1>3. ~Serves("folders", work, d)
  BY DEF Serves
<1> QED BY <1>1, <1>2, <1>3, CoverMoves

\* A call that begins takes nothing back, and its own request is added.
LEMMA CallAsks ==
    ASSUME CrawlerTypes, NEW t \in Threads, NEW q, NEW p, NEW shell, Begin(t, q, p, shell),
           UNCHANGED <<m_pathsToUpdate, m_foldersToUpdate, pc, work>>
    PROVE  /\ Asked(q, p)'
           /\ \A r, x : Asked(r, x) => Asked(r, x)'
<1> DEFINE new == [at |-> "check", queue |-> q, path |-> p, shell |-> shell]
<1>1. new.at = "check" /\ new.queue = q /\ new.path = p
  OBVIOUS
<1> HIDE DEF new
<1>2. call[t].at = "idle" /\ call' = [call EXCEPT ![t] = new] /\ DOMAIN call = Threads
  BY DEF Begin, CrawlerTypes, ThreadTypes, new
<1>3. call'[t] = new /\ \A u \in Threads \ {t} : call'[u] = call[u]
  BY <1>2
<1>4. Asked(q, p)'
  BY <1>1, <1>3 DEF Asked
<1>5. ASSUME NEW r, NEW x, Asked(r, x) PROVE Asked(r, x)'
  <2>1. ASSUME NEW u \in Threads, call[u].at \in {"check", "push"}, call[u].queue = r,
               call[u].path = x
        PROVE  call'[u] = call[u]
    BY <1>2, <1>3, <2>1
  <2> QED BY <1>5, <2>1 DEF Asked
<1> QED BY <1>4, <1>5

\* A changed file or database is asked for by the call that reports it, and so
\* are the folders whose status it made old.
LEMMA ChangeFileKeeps ==
    ASSUME CrawlerTypes, CrawlerTypes', NEW d \in Dirs,
           NEW f \in Files, ChangeFile(f), d # Containing[f] => Covered(d)
    PROVE  Covered(d)'
<1>1. /\ Begin(Watcher, "paths", f, FALSE) /\ Containing[f] \in exists /\ gone' = gone \ {f}
      /\ UNCHANGED <<m_pathsToUpdate, m_foldersToUpdate, pc, work, noWatch, exists, dbChanged,
                     cached>>
  BY DEF ChangeFile, queueVars, crawlerVars, blockVars
<1>2. Asked("paths", f)' /\ \A q, p : Asked(q, p) => Asked(q, p)'
  BY <1>1, ThreadFacts, CallAsks
<1>3. CASE d = Containing[f]
  <2>1. Serves("paths", f, d)'
    BY <1>1, <1>3 DEF Serves
  <2> QED BY <1>2, <2>1, CoveredBy
<1>4. CASE d # Containing[f]
  BY <1>1, <1>2, <1>4, CoverKept
<1> QED BY <1>3, <1>4

\* A deleted file is asked for in vain, but no other folder loses by it.
LEMMA DeleteFileKeeps ==
    ASSUME CrawlerTypes, CrawlerTypes', NEW d \in Dirs, Covered(d),
           NEW f \in Files, DeleteFile(f), d # Containing[f]
    PROVE  Covered(d)'
<1>1. /\ Begin(Watcher, "paths", f, FALSE) /\ gone' = gone \union {f}
      /\ UNCHANGED <<m_pathsToUpdate, m_foldersToUpdate, pc, work, noWatch, exists, dbChanged,
                     cached>>
  BY DEF DeleteFile, queueVars, crawlerVars, blockVars
<1>2. \A q, p : Asked(q, p) => Asked(q, p)' \/ (q = "paths" /\ p = f)
  BY <1>1, ThreadFacts, CallAsks
<1>3. ~Serves("paths", f, d)
  BY PathFacts DEF Serves, CrawlerTypes, DiskTypes
<1> QED BY <1>1, <1>2, <1>3, CoverMoves

\* A written database leads to the whole working copy.
LEMMA ChangeDatabaseKeeps ==
    ASSUME CrawlerTypes, CrawlerTypes', NEW d \in Dirs,
           NEW b \in Databases, ChangeDatabase(b), d \notin Under(Containing[b]) => Covered(d)
    PROVE  Covered(d)'
<1>1. /\ Begin(Watcher, "paths", b, FALSE) /\ dbChanged' = dbChanged \union {b}
      /\ UNCHANGED <<m_pathsToUpdate, m_foldersToUpdate, pc, work, noWatch, exists, gone, cached>>
  BY DEF ChangeDatabase, queueVars, crawlerVars, blockVars
<1>2. Asked("paths", b)' /\ \A q, p : Asked(q, p) => Asked(q, p)'
  BY <1>1, ThreadFacts, CallAsks
<1>3. CASE d \in Under(Containing[b])
  <2>1. d \in Visited(Containing[b])
    BY <1>3, PathFacts, VisitedIs
  <2>2. Serves("paths", b, d)'
    BY <1>1, <2>1 DEF Serves
  <2> QED BY <1>2, <2>2, CoveredBy
<1>4. CASE d \notin Under(Containing[b])
  BY <1>1, <1>2, <1>4, CoverKept
<1> QED BY <1>3, <1>4

\* A deleted folder that has an entry of its own is asked for with all that is
\* below it; nothing else goes with it.
LEMMA RemoveFolderKeeps ==
    ASSUME CrawlerTypes, CrawlerTypes', NEW d \in Dirs, NEW x \in Versioned, RemoveFolder(x),
           d \in Under(x) => x \in cached, d \notin Under(x) => Covered(d)
    PROVE  Covered(d)'
<1>1. /\ Begin(Watcher, "paths", x, FALSE) /\ exists' = exists \ Under(x)
      /\ gone' = gone \union (Files \intersect Under(x))
      /\ ~\E b \in Databases : Containing[b] \in Under(x)
      /\ UNCHANGED <<m_pathsToUpdate, m_foldersToUpdate, pc, work, noWatch, dbChanged, cached>>
  BY DEF RemoveFolder, queueVars, crawlerVars, blockVars
<1>2. Asked("paths", x)' /\ \A q, p : Asked(q, p) => Asked(q, p)'
  BY <1>1, ThreadFacts, CallAsks
<1>3. x \in Paths /\ x \in Dirs /\ x \in Under(x)
  BY PathFacts, UnderClosed
<1>4. CASE d \in Under(x)
  <2>1. Containing[x] \in Versioned
    BY <1>1, <1>3, PathsAssumption
  <2>2. Serves("paths", x, d)'
    BY <1>1, <1>4, <2>1 DEF Serves
  <2> QED BY <1>2, <2>2, CoveredBy
<1>5. CASE d \notin Under(x)
  <2>1. CASE ~IsPathGood(d)
    <3>1. ~IsPathGood(d)'
      BY <1>1, <2>1 DEF IsPathGood
    <3> QED BY <3>1, CoveredAfter
  <2>2. ASSUME NEW q, NEW p, Asked(q, p), Serves(q, p, d) PROVE Covered(d)'
    <3>1. ASSUME p \in Files \ gone, d = Containing[p], d \in exists
          PROVE  p \notin gone' /\ d \in exists'
      <4>1. p \notin Under(x)
        <5>1. p # x
          BY <1>3, <3>1, PathFacts
        <5> QED BY <1>3, <1>5, <3>1, <5>1, ContainingUnder
      <4> QED BY <1>1, <1>5, <3>1, <4>1
    <3>2. ASSUME p \in exists \union cached, d \in Under(p)
          PROVE  p \in exists' \union cached'
      <4>1. p \notin Under(x)
        BY <1>3, <1>5, <3>2, UnderTransitive
      <4> QED BY <1>1, <3>2, <4>1
    <3>3. Serves(q, p, d)'
      BY <1>1, <2>2, <3>1, <3>2 DEF Serves
    <3> QED BY <1>2, <2>2, <3>3, CoveredBy
  <2>3. Covered(d)
    BY <1>5
  <2>4. ~IsPathGood(d) \/ \E q, p : Asked(q, p) /\ Serves(q, p, d)
    BY <2>3, CoveredIs DEF CoverIsRequest
  <2> QED BY <2>1, <2>2, <2>4
<1> QED BY <1>4, <1>5

\* A folder that appears takes nothing away.
LEMMA TouchFolderKeeps ==
    ASSUME CrawlerTypes, CrawlerTypes', NEW d \in Dirs, Covered(d),
           NEW x \in Versioned, TouchFolder(x)
    PROVE  Covered(d)'
<1>1. /\ Begin(Watcher, "paths", x, FALSE) /\ exists' = exists \union {x}
      /\ UNCHANGED <<m_pathsToUpdate, m_foldersToUpdate, pc, work, noWatch, gone, dbChanged,
                     cached>>
  BY DEF TouchFolder, queueVars, crawlerVars, blockVars, cacheVars
<1>2. \A q, p : Asked(q, p) => Asked(q, p)'
  BY <1>1, ThreadFacts, CallAsks
<1> QED BY <1>1, <1>2, CoverKept

\* A request of the shell queues the folder it makes an entry for; the crawl
\* command removes the entries below its folder.
LEMMA RequestKeeps ==
    ASSUME CrawlerTypes, CrawlerTypes', NEW d \in Dirs, d \in stale', d \in stale => Covered(d),
           NEW t \in Threads, Request(t)
    PROVE  Covered(d)'
<1> USE DEF queueVars, crawlerVars, blockVars, diskVars, cacheVars
<1>1. CASE AskCached(t)
  <2>1. UNCHANGED <<m_pathsToUpdate, m_foldersToUpdate, pc, work, noWatch, exists, gone, dbChanged,
                    cached, stale>>
    BY <1>1 DEF AskCached
  <2>2. call[t].at = "idle" /\ \A u \in Threads \ {t} : call'[u] = call[u]
    BY <1>1 DEF AskCached, CrawlerTypes, ThreadTypes
  <2>3. \A q, p : Asked(q, p) => Asked(q, p)'
    BY <2>1, <2>2 DEF Asked
  <2> QED BY <2>1, <2>3, CoverKept
<1>2. ASSUME NEW x \in Versioned, AskStatus(t, x) PROVE Covered(d)'
  <2>1. /\ Begin(t, "folders", x, TRUE) /\ cached' = cached \union {x}
        /\ stale' = stale \union ({x} \ cached)
        /\ UNCHANGED <<m_pathsToUpdate, m_foldersToUpdate, pc, work, noWatch, exists, gone, dbChanged>>
    BY <1>2 DEF AskStatus
  <2>2. Asked("folders", x)' /\ \A q, p : Asked(q, p) => Asked(q, p)'
    BY <2>1, CallAsks
  <2>3. CASE d \in stale
    BY <2>1, <2>2, <2>3, CoverKept
  <2>4. CASE d \notin stale
    <3>1. Serves("folders", x, d)'
      BY <2>1, <2>4, VisitedIs DEF Serves
    <3> QED BY <2>2, <3>1, CoveredBy
  <2> QED BY <2>3, <2>4
<1>3. ASSUME NEW x \in Versioned, CrawlCommand(t, x) PROVE Covered(d)'
  <2>1. /\ Begin(t, "folders", x, FALSE) /\ RemoveCacheForPath(x)
        /\ UNCHANGED <<m_pathsToUpdate, m_foldersToUpdate, pc, work, noWatch, exists, gone, dbChanged>>
    BY <1>3 DEF CrawlCommand
  <2>2. \A q, p : Asked(q, p) => Asked(q, p)'
    BY <2>1, CallAsks
  <2>3. d \in stale /\ \A p \in cached : p \in cached' \/ d \notin Under(p)
    BY <2>1, PathFacts, RemovedIs
  <2> QED BY <2>1, <2>2, <2>3, CoverKept
<1> QED BY <1>1, <1>2, <1>3 DEF Request

\* A call hands its request to its queue, or drops it for a block.
LEMMA CallerKeeps ==
    ASSUME CrawlerTypes, CrawlerTypes', NEW d, Covered(d), NEW t \in Threads, Caller(t)
    PROVE  Covered(d)'
<1> USE DEF queueVars, crawlerVars, blockVars, diskVars, cacheVars
<1>0. /\ UNCHANGED <<pc, work, noWatch, exists, gone, dbChanged, cached>>
      /\ \A u \in Threads \ {t} : call'[u] = call[u]
  <2>1. UNCHANGED <<pc, work, noWatch, exists, gone, dbChanged, cached>>
    BY Zenon DEF Caller, CheckCall, PushCall, SetCall, LeaveCall
  <2>2. \E x : call' = [call EXCEPT ![t] = x]
    BY DEF Caller, CheckCall, PushCall, SetCall, LeaveCall, To, Return
  <2>3. DOMAIN call = Threads
    BY DEF CrawlerTypes, ThreadTypes
  <2> QED BY <2>1, <2>2, <2>3
<1>1. ThreadTypes /\ call \in [Threads -> CallStates]
  BY DEF CrawlerTypes, ThreadTypes
<1>2. CASE CheckCall(t)
  <2>1. /\ call[t].at = "check" /\ UNCHANGED <<m_pathsToUpdate, m_foldersToUpdate>>
    BY <1>2 DEF CheckCall
  <2>2. CASE IsPathGood(call[t].path)
    <3>1. call'[t] = [call[t] EXCEPT !.at = "push"]
      BY <1>1, <1>2, <2>2 DEF CheckCall, To
    <3>2. call'[t].at = "push" /\ call'[t].queue = call[t].queue /\ call'[t].path = call[t].path
      BY <1>1, <2>1, <3>1, AtChanged
    <3>3. \A q, p : Asked(q, p) => Asked(q, p)'
      BY <1>0, <2>1, <3>2 DEF Asked
    <3> QED BY <1>0, <3>3, CoverKept
  <2>3. CASE ~IsPathGood(call[t].path)
    <3>1. PICK q, p : q = call[t].queue /\ p = call[t].path
      OBVIOUS
    <3>2. \A r, x : Asked(r, x) => Asked(r, x)' \/ (r = q /\ x = p)
      BY <1>0, <2>1, <3>1 DEF Asked
    <3>3. Serves(q, p, d) => ~IsPathGood(d)'
      BY <1>0, <2>3, <3>1, BlockedBelow DEF BlocksReach, IsPathGood
    <3>4. Serves(q, p, d) => Covered(d)'
      BY <3>3, CoveredAfter
    <3> QED BY <1>0, <3>2, <3>4, CoverMoves
  <2> QED BY <2>2, <2>3
<1>3. CASE PushCall(t)
  <2> DEFINE q == call[t].queue
             p == call[t].path
  <2>1. /\ call[t].at = "push" /\ q \in {"paths", "folders"} /\ p \in Paths
        /\ q = "folders" => p \in Dirs
    BY <1>1, <1>3, RequestIs, PathFacts DEF PushCall
  <2>2. /\ q = "paths" => /\ m_pathsToUpdate' = Pushed(m_pathsToUpdate, p)
                          /\ m_foldersToUpdate' = m_foldersToUpdate
        /\ q = "folders" => /\ m_foldersToUpdate' = Pushed(m_foldersToUpdate, p)
                            /\ m_pathsToUpdate' = m_pathsToUpdate
    BY <1>3 DEF PushCall
  <2> HIDE DEF q, p
  <2>3. /\ q = "paths" => Range(m_pathsToUpdate') = Range(m_pathsToUpdate) \union {p}
        /\ q = "folders" => Range(m_foldersToUpdate') = Range(m_foldersToUpdate) \union {p}
    <3>1. m_pathsToUpdate \in Seq(Paths) /\ m_foldersToUpdate \in Seq(Dirs)
      BY DEF CrawlerTypes, QueueTypes
    <3>2. Range(Pushed(m_pathsToUpdate, p)) = Range(m_pathsToUpdate) \union {p}
      BY <2>1, <3>1, PushedIs
    <3>3. p \in Dirs => Range(Pushed(m_foldersToUpdate, p)) = Range(m_foldersToUpdate) \union {p}
      BY <3>1, PushedIs
    <3> QED BY <2>1, <2>2, <3>2, <3>3
  <2>4. ASSUME NEW r, NEW x, Asked(r, x) PROVE Asked(r, x)'
    <3>1. CASE r = q /\ x = p
      BY <2>1, <2>3, <3>1 DEF Asked
    <3>2. CASE ~(r = q /\ x = p)
      <4>1. ASSUME NEW u \in Threads, call[u].queue = r, call[u].path = x PROVE call'[u] = call[u]
        BY <1>0, <3>2, <4>1 DEF q, p
      <4>2. /\ Range(m_pathsToUpdate) \subseteq Range(m_pathsToUpdate')
            /\ Range(m_foldersToUpdate) \subseteq Range(m_foldersToUpdate')
        BY <2>1, <2>2, <2>3
      <4> QED BY <1>0, <2>4, <4>1, <4>2 DEF Asked
    <3> QED BY <3>1, <3>2
  <2> QED BY <1>0, <2>4, CoverKept
<1>4. CASE SetCall(t) \/ LeaveCall(t)
  <2>1. /\ call[t].at \notin {"check", "push"}
        /\ UNCHANGED <<m_pathsToUpdate, m_foldersToUpdate>>
    BY <1>4 DEF SetCall, LeaveCall
  <2>2. \A q, p : Asked(q, p) => Asked(q, p)'
    BY <1>0, <2>1 DEF Asked
  <2> QED BY <1>0, <2>2, CoverKept
<1> QED BY <1>2, <1>3, <1>4 DEF Caller

\* A command only blocks more, or removes entries with everything below them.
LEMMA CommandKeeps ==
    ASSUME CrawlerTypes, CrawlerTypes', NEW d, d \in stale', d \in stale => Covered(d),
           Command \/ Stop \/ StopReturns \/ Time
    PROVE  Covered(d)'
<1> USE DEF queueVars, crawlerVars, blockVars, diskVars, cacheVars
<1>1. UNCHANGED <<m_pathsToUpdate, m_foldersToUpdate, pc, work, call, exists, gone, dbChanged>>
  BY Zenon DEF Command, BlockPath, Release, Stop, StopReturns, Time, HoldoffEnds, CrawlBlockEnds, BlockTimesOut
<1>2. \A q, p : Asked(q, p) => Asked(q, p)'
  BY <1>1 DEF Asked
<1>3. DOMAIN noWatch \subseteq DOMAIN noWatch'
  BY DEF Command, BlockPath, Block, Release, Stop, StopReturns, Time, HoldoffEnds, CrawlBlockEnds,
         BlockTimesOut
<1>4. CASE UNCHANGED <<cached, stale>>
  BY <1>1, <1>2, <1>3, <1>4, CoverKept
<1>5. ASSUME NEW x \in Versioned, RemoveCacheForPath(x) PROVE Covered(d)'
  <2>1. d \in stale /\ \A p \in cached : p \in cached' \/ d \notin Under(p)
    BY <1>5, PathFacts, RemovedIs
  <2> QED BY <1>1, <1>2, <1>3, <2>1, CoverKept
<1> QED
  BY <1>4, <1>5, Zenon
  DEF Command, BlockPath, Release, Stop, StopReturns, Time, HoldoffEnds, CrawlBlockEnds, BlockTimesOut

\* What was stale and not given up is covered after every step.
LEMMA ForgottenStep ==
    ASSUME CrawlerTypes, CrawlerTypes', NoChangeForgotten, Next
    PROVE  NoChangeForgotten'
<1> SUFFICES ASSUME NEW d \in stale', d \notin lost', ~Covered(d)' PROVE FALSE
  BY DEF NoChangeForgotten
<1>0. d \in Dirs /\ d \in Uncovered'
  BY DEF CrawlerTypes, DiskTypes, Uncovered
<1>1. d \notin lost /\ d \in stale => Covered(d)
  BY DEF NoChangeForgotten
<1>2. ASSUME NEW S, lost' = (lost \intersect stale') \union (S \intersect Uncovered')
      PROVE  d \notin S /\ (d \in stale => Covered(d))
  BY <1>0, <1>1, <1>2
<1>3. CASE Keeps(CarefulStep)
  <2>1. CarefulStep /\ (d \in stale => Covered(d))
    BY <1>2, <1>3 DEF Keeps, Forgets
  <2> QED BY <1>0, <2>1, CarefulKeeps
<1>4. ASSUME NEW b \in DOMAIN noWatch, Forgets(RemoveTimedoutBlock(b), UnblockedBeside(b))
      PROVE  FALSE
  <2>1. /\ RemoveTimedoutBlock(b) /\ d \notin UnblockedBeside(b)
        /\ d \in stale => Covered(d)
    BY <1>2, <1>4 DEF Forgets
  <2>2. /\ EndBlock(b) /\ pc = "blocks" /\ b \in Versioned
        /\ UNCHANGED <<m_pathsToUpdate, call, exists, gone, dbChanged, cached, stale>>
    BY <2>1, Zenon DEF RemoveTimedoutBlock, diskVars, cacheVars, CrawlerTypes, BlockTypes
  <2> QED BY <1>0, <2>1, <2>2, EndBlockKeeps
<1>5. ASSUME NEW x \in Versioned, Forgets(UnBlockPath(x), UnblockedBeside(x)) PROVE FALSE
  <2>1. /\ UnBlockPath(x) /\ d \notin UnblockedBeside(x)
        /\ d \in stale => Covered(d)
    BY <1>2, <1>5 DEF Forgets
  <2>2. /\ EndBlock(x)
        /\ UNCHANGED <<m_pathsToUpdate, pc, work, call, exists, gone, dbChanged, cached, stale>>
    BY <2>1, Zenon DEF UnBlockPath, crawlerVars, diskVars, cacheVars
  <2> QED BY <1>0, <2>1, <2>2, EndBlockKeeps
<1>6. CASE Forgets(ErasePath, PathErased) \/ Forgets(EraseFolder, FolderErased)
  <2>1. /\ \/ ErasePath /\ d \notin PathErased
           \/ EraseFolder /\ d \notin FolderErased
        /\ d \in stale => Covered(d)
    BY <1>2, <1>6 DEF Forgets
  <2>2. stale' = stale
    BY <2>1, Zenon DEF ErasePath, EraseFolder, cacheVars
  <2> QED BY <1>0, <2>1, <2>2, EraseKeeps
<1>7. CASE Forgets(RefreshMissing \/ CrawlMissing, Visited(work))
  <2>1. /\ RefreshMissing \/ CrawlMissing
        /\ d \notin Visited(work) /\ (d \in stale => Covered(d))
    BY <1>2, <1>7 DEF Forgets
  <2>2. stale' = stale
    BY <2>1, Zenon DEF RefreshMissing, CrawlMissing, cacheVars
  <2> QED BY <1>0, <2>1, <2>2, MissingKeeps
<1>8. CASE Forgets(FetchLost, IF pc = "member" THEN {Fetching} ELSE Visited(Fetching))
  <2>1. /\ FetchLost /\ d \notin IF pc = "member" THEN {Fetching} ELSE Visited(Fetching)
        /\ d \in stale => Covered(d)
    BY <1>2, <1>8 DEF Forgets
  <2> QED BY <1>0, <2>1, FetchLostKeeps
<1>9. CASE Keeps(Command) \/ Keeps(Stop) \/ Keeps(StopReturns) \/ Keeps(Time)
  <2>1. (Command \/ Stop \/ StopReturns \/ Time) /\ (d \in stale => Covered(d))
    BY <1>2, <1>9 DEF Keeps, Forgets
  <2> QED BY <2>1, CommandKeeps
<1>10. CASE ChangeReported
  <2>1. ASSUME NEW f \in Files, Renews(ChangeFile(f), {Containing[f]}) PROVE FALSE
    <3>1. ChangeFile(f) /\ lost' = (lost \intersect stale') \ {Containing[f]}
      BY <2>1 DEF Renews
    <3>2. stale' = stale \union ({Containing[f]} \intersect cached)
      BY <3>1 DEF ChangeFile
    <3>3. d # Containing[f] => Covered(d)
      BY <1>1, <3>1, <3>2
    <3> QED BY <1>0, <3>1, <3>3, ChangeFileKeeps
  <2>2. ASSUME NEW f \in Files, Forgets(DeleteFile(f), {Containing[f]}) PROVE FALSE
    <3>1. DeleteFile(f) /\ d \notin {Containing[f]} /\ (d \in stale => Covered(d))
      BY <1>2, <2>2 DEF Forgets
    <3>2. stale' = stale \union ({Containing[f]} \intersect cached)
      BY <3>1 DEF DeleteFile
    <3> QED BY <1>0, <3>1, <3>2, DeleteFileKeeps
  <2>3. ASSUME NEW b \in Databases, Renews(ChangeDatabase(b), Under(Containing[b]))
        PROVE  FALSE
    <3>1. ChangeDatabase(b) /\ lost' = (lost \intersect stale') \ Under(Containing[b])
      BY <2>3 DEF Renews
    <3>2. stale' = stale \union (Under(Containing[b]) \intersect cached)
      BY <3>1 DEF ChangeDatabase
    <3>3. d \notin Under(Containing[b]) => Covered(d)
      BY <1>1, <3>1, <3>2
    <3> QED BY <1>0, <3>1, <3>3, ChangeDatabaseKeeps
  <2>4. ASSUME NEW x \in Versioned,
               Forgets(RemoveFolder(x), IF x \in cached THEN {} ELSE Under(x))
        PROVE  FALSE
    <3>1. /\ RemoveFolder(x) /\ d \notin (IF x \in cached THEN {} ELSE Under(x))
          /\ d \in stale => Covered(d)
      BY <1>2, <2>4 DEF Forgets
    <3>2. stale' = stale \union (Under(x) \intersect cached)
      BY <3>1 DEF RemoveFolder
    <3>3. (d \in Under(x) => x \in cached) /\ (d \notin Under(x) => Covered(d))
      BY <3>1, <3>2
    <3> QED BY <1>0, <3>1, <3>3, RemoveFolderKeeps
  <2>5. ASSUME NEW x \in Versioned, Keeps(TouchFolder(x)) PROVE FALSE
    <3>1. TouchFolder(x) /\ (d \in stale => Covered(d))
      BY <1>2, <2>5 DEF Keeps, Forgets
    <3>2. stale' = stale
      BY <3>1 DEF TouchFolder, cacheVars
    <3> QED BY <1>0, <3>1, <3>2, TouchFolderKeeps
  <2> QED BY <1>10, <2>1, <2>2, <2>3, <2>4, <2>5 DEF ChangeReported
<1>11. ASSUME NEW t \in Shells, Keeps(Request(t)) PROVE FALSE
  <2>1. Request(t) /\ (d \in stale => Covered(d)) /\ t \in Threads
    BY <1>2, <1>11, ThreadFacts DEF Keeps, Forgets
  <2> QED BY <1>0, <2>1, RequestKeeps
<1>12. ASSUME NEW t \in Threads, Keeps(Caller(t)) PROVE FALSE
  <2>1. Caller(t) /\ (d \in stale => Covered(d))
    BY <1>2, <1>12 DEF Keeps, Forgets
  <2>2. stale' = stale
    BY <2>1, Zenon DEF Caller, CheckCall, PushCall, SetCall, LeaveCall, cacheVars
  <2> QED BY <2>1, <2>2, CallerKeeps
<1> QED
  BY <1>3, <1>4, <1>5, <1>6, <1>7, <1>8, <1>9, <1>10, <1>11, <1>12, Zenon DEF Next, Crawler

\* A cached status that is older than the disk is never forgotten by a step,
\* but for the folders that the code gives up there, named one by one in Next:
\* for every tree of folders, any number of callers, and any calls they make.
THEOREM CrawlerForgetsNothing == Spec => []NoChangeForgotten
<1> DEFINE Inv == CrawlerTypes /\ lost \subseteq stale /\ NoChangeForgotten
<1>1. Init => Inv
  BY CrawlerTypesInit DEF Init, NoChangeForgotten
<1>2. Inv /\ [Next]_vars => Inv'
  <2> SUFFICES ASSUME Inv, [Next]_vars PROVE Inv'
    OBVIOUS
  <2>1. (CrawlerTypes /\ lost \subseteq stale)'
    BY CrawlerTypesStep
  <2>2. NoChangeForgotten'
    <3>1. CASE Next
      BY <2>1, <3>1, ForgottenStep
    <3>2. CASE UNCHANGED vars
      <4>1. UNCHANGED <<m_pathsToUpdate, m_foldersToUpdate, noWatch, pc, work, call, exists,
                        gone, dbChanged, cached, stale, lost>>
        BY <3>2, Zenon DEF vars, queueVars, blockVars, crawlerVars, diskVars, cacheVars
      <4>2. \A q, p : Asked(q, p) => Asked(q, p)'
        BY <4>1 DEF Asked
      <4>3. ASSUME NEW d \in stale' \ lost' PROVE Covered(d)'
        <5>1. Covered(d)
          BY <4>1, <4>3 DEF NoChangeForgotten
        <5> QED BY <2>1, <4>1, <4>2, <5>1, CoverKept
      <4> QED BY <4>3 DEF NoChangeForgotten
    <3> QED BY <3>1, <3>2
  <2> QED BY <2>1, <2>2
<1>3. Inv => NoChangeForgotten
  OBVIOUS
<1> QED BY <1>1, <1>2, <1>3, PTL DEF Spec

=============================================================================
