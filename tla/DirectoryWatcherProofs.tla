----------------------- MODULE DirectoryWatcherProofs -----------------------
(***************************************************************************)
(* Proofs about DirectoryWatcher, for any finite set of paths and any      *)
(* number of calls, changes and infos: which handles are open, that the    *)
(* worker hears of every change, and that AddPath covers what was covered. *)
(***************************************************************************)
EXTENDS DirectoryWatcher, SequenceTheorems, FiniteSetTheorems, WellFoundedInduction,
        NaturalsInduction, TLAPS

-----------------------------------------------------------------------------
(***************************************************************************)
(* What an erasing loop leaves of a list (module Subsequences).  The same  *)
(* lemmas serve CrawlerProofs, which cannot be extended together with this *)
(* module: the watcher and the crawler give the same names to their        *)
(* variables.                                                              *)
(***************************************************************************)

\* The position of a number in the order of S.
Rank(S) == [x \in S |-> Cardinality({y \in S : y <= x})]

\* Ranks number the finite set S from 1 on, in ascending order.
LEMMA RankNumbers ==
    ASSUME NEW S, S \subseteq Nat, IsFiniteSet(S)
    PROVE  /\ Cardinality(S) \in Nat
           /\ Rank(S) \in [S -> 1 .. Cardinality(S)]
           /\ \A x, y \in S : x < y => Rank(S)[x] < Rank(S)[y]
           /\ \A n \in 1 .. Cardinality(S) : \E x \in S : Rank(S)[x] = n
<1> DEFINE upto(x) == {y \in S : y <= x}
           n == Cardinality(S)
<1>1. n \in Nat
  BY FS_CardinalityType
<1>2. ASSUME NEW x \in S
      PROVE  IsFiniteSet(upto(x)) /\ Cardinality(upto(x)) \in 1 .. n
  <2>1. upto(x) \in SUBSET S
    OBVIOUS
  <2>2. IsFiniteSet(upto(x)) /\ Cardinality(upto(x)) <= n /\ Cardinality(upto(x)) \in Nat
    BY <1>1, <2>1, FS_Subset, FS_CardinalityType
  <2>3. x \in upto(x)
    OBVIOUS
  <2>4. Cardinality(upto(x)) # 0
    BY <2>2, <2>3, FS_EmptySet
  <2> QED BY <1>1, <2>2, <2>4
<1>3. ASSUME NEW x \in S, NEW y \in S, x < y
      PROVE  Cardinality(upto(x)) < Cardinality(upto(y))
  <2>1. upto(x) \in SUBSET upto(y) /\ y \in upto(y) /\ y \notin upto(x)
    <3>1. ASSUME NEW z \in S, z <= x PROVE z <= y
      BY <1>3, <3>1
    <3>2. ~(y <= x) /\ y <= y
      BY <1>3
    <3> QED BY <3>1, <3>2
  <2>2. /\ Cardinality(upto(x)) \in Nat /\ Cardinality(upto(y)) \in Nat
        /\ IsFiniteSet(upto(y))
    BY <1>1, <1>2
  <2>3. /\ Cardinality(upto(x)) <= Cardinality(upto(y))
        /\ Cardinality(upto(y)) = Cardinality(upto(x)) => upto(y) = upto(x)
    BY <2>1, <2>2, FS_Subset
  <2> QED BY <2>1, <2>2, <2>3
<1> HIDE DEF upto
<1>4. Rank(S) = [x \in S |-> Cardinality(upto(x))]
  BY DEF Rank, upto
<1>5. Rank(S) \in [S -> 1 .. n] /\ \A x, y \in S : x < y => Rank(S)[x] < Rank(S)[y]
  BY <1>2, <1>3, <1>4
<1> HIDE DEF n
<1>6. Rank(S) \in Injection(S, 1 .. n)
  <2>1. ASSUME NEW x \in S, NEW y \in S, Rank(S)[x] = Rank(S)[y] PROVE x = y
    <3>1. Rank(S)[x] \in Nat /\ Rank(S)[y] \in Nat
      BY <1>5
    <3>2. ~(x < y) /\ ~(y < x)
      BY <1>5, <2>1, <3>1
    <3> QED BY <3>2
  <2> QED BY <1>5, <2>1 DEF Injection, IsInjective
<1>7. IsFiniteSet(1 .. n) /\ Cardinality(1 .. n) = n
  BY <1>1, FS_Interval
<1>8. Rank(S) \in Surjection(S, 1 .. n)
  BY <1>6, <1>7, FS_Injection DEF n
<1>9. \A k \in 1 .. n : \E x \in S : Rank(S)[x] = k
  BY <1>8 DEF Surjection
<1> QED BY <1>1, <1>5, <1>9 DEF n

\* Ascending meets every number of S once, in ascending order.
LEMMA AscendingIs ==
    ASSUME NEW S, S \subseteq Nat, IsFiniteSet(S)
    PROVE  /\ Cardinality(S) \in Nat
           /\ Ascending(S) \in [1 .. Cardinality(S) -> S]
           /\ \A m, n \in 1 .. Cardinality(S) : m < n => Ascending(S)[m] < Ascending(S)[n]
           /\ \A x \in S : \E n \in 1 .. Cardinality(S) : Ascending(S)[n] = x
<1> DEFINE c == Cardinality(S)
           rank == Rank(S)
           a == Ascending(S)
<1>1. /\ c \in Nat /\ rank \in [S -> 1 .. c]
      /\ \A x, y \in S : x < y => rank[x] < rank[y]
      /\ \A n \in 1 .. c : \E x \in S : rank[x] = n
  BY RankNumbers
<1>2. ASSUME NEW n \in 1 .. c PROVE a[n] \in S /\ rank[a[n]] = n
  <2> DEFINE Nth(x) == x \in S /\ Cardinality({y \in S : y <= x}) = n
  <2>1. PICK x \in S : rank[x] = n
    BY <1>1
  <2>2. Nth(x)
    BY <2>1 DEF Rank
  <2>3. a[n] = CHOOSE y : Nth(y)
    BY DEF Ascending
  <2> HIDE DEF Nth
  <2>4. Nth(a[n])
    BY <2>2, <2>3
  <2> QED BY <2>4 DEF Nth, Rank
<1>3. a \in [1 .. c -> S] /\ \A n \in 1 .. c : rank[a[n]] = n
  <2>1. DOMAIN a = 1 .. c /\ a = [n \in 1 .. c |-> a[n]]
    BY DEF Ascending
  <2> HIDE DEF a, c, rank
  <2> QED BY <1>2, <2>1
<1> HIDE DEF c, rank, a
<1>4. ASSUME NEW x \in S, NEW y \in S, rank[x] = rank[y] PROVE x = y
  <2>1. rank[x] \in Nat /\ rank[y] \in Nat
    BY <1>1
  <2>2. ~(x < y) /\ ~(y < x)
    BY <1>1, <1>4, <2>1
  <2> QED BY <2>2
<1>5. ASSUME NEW m \in 1 .. c, NEW n \in 1 .. c, m < n PROVE a[m] < a[n]
  <2>1. a[m] \in S /\ a[n] \in S /\ rank[a[m]] = m /\ rank[a[n]] = n
    BY <1>3
  <2>2. ~(rank[a[n]] < rank[a[m]]) /\ rank[a[n]] # rank[a[m]]
    BY <1>5, <2>1
  <2>3. ~(a[n] < a[m]) /\ a[n] # a[m]
    BY <1>1, <2>1, <2>2
  <2>4. a[m] \in Nat /\ a[n] \in Nat
    BY <2>1
  <2> QED BY <2>3, <2>4
<1>6. ASSUME NEW x \in S PROVE \E n \in 1 .. c : a[n] = x
  <2>1. rank[x] \in 1 .. c
    BY <1>1
  <2>2. a[rank[x]] \in S /\ rank[a[rank[x]]] = rank[x]
    BY <1>3, <2>1
  <2>3. a[rank[x]] = x
    BY <1>4, <2>2
  <2> QED BY <2>1, <2>3
<1> QED BY <1>1, <1>3, <1>5, <1>6 DEF c, a

\* Omit keeps what is not in S.
LEMMA OmitIs ==
    ASSUME NEW T, NEW s \in Seq(T), NEW S
    PROVE  Omit(s, S) \in Seq(T) /\ Range(Omit(s, S)) = Range(s) \ S
<1> DEFINE places == {k \in DOMAIN s : s[k] \notin S}
           c == Cardinality(places)
           kept == Ascending(places)
           rest == [n \in DOMAIN kept |-> s[kept[n]]]
<1>1. Len(s) \in Nat /\ DOMAIN s = 1 .. Len(s) /\ \A k \in DOMAIN s : s[k] \in T
  BY LenProperties, ElementOfSeq
<1>2. places \subseteq Nat /\ IsFiniteSet(places)
  <2>1. places \in SUBSET (1 .. Len(s)) /\ IsFiniteSet(1 .. Len(s))
    BY <1>1, FS_Interval
  <2> QED BY <2>1, FS_Subset
<1>3. c \in Nat /\ kept \in [1 .. c -> places] /\ \A k \in places : \E n \in 1 .. c : kept[n] = k
  BY <1>2, AscendingIs
<1>4. Omit(s, S) = rest
  BY DEF Omit
<1>5. \A k : k \in places <=> k \in DOMAIN s /\ s[k] \notin S
  OBVIOUS
<1> HIDE DEF places, c, kept
<1>6. /\ DOMAIN rest = 1 .. c
      /\ \A n \in 1 .. c : rest[n] = s[kept[n]] /\ kept[n] \in DOMAIN s /\ s[kept[n]] \notin S
  BY <1>3, <1>5
<1>7. rest \in Seq(T)
  <2>1. rest \in [1 .. c -> T]
    BY <1>1, <1>6
  <2> HIDE DEF rest
  <2> QED BY <1>3, <2>1, IsASeq
<1> HIDE DEF rest
<1>8. Range(rest) \subseteq Range(s) \ S
  BY <1>6 DEF Range
<1>9. ASSUME NEW k \in DOMAIN s, s[k] \notin S PROVE s[k] \in Range(rest)
  <2>1. PICK n \in 1 .. c : kept[n] = k
    BY <1>3, <1>5, <1>9
  <2> QED BY <1>6, <2>1 DEF Range
<1>10. Range(s) \ S \subseteq Range(rest)
  BY <1>9 DEF Range
<1> QED BY <1>4, <1>7, <1>8, <1>10

-----------------------------------------------------------------------------
(***************************************************************************)
(* Paths and what they cover.                                              *)
(***************************************************************************)

\* The least-number principle, from the well-foundedness of < on Nat.
LEMMA LeastNatural ==
    ASSUME NEW T, T \subseteq Nat, T # {}
    PROVE  \E n \in T : \A m \in T : ~(m < n)
<1>1. IsWellFoundedOn(OpToRel(<, Nat), Nat)
  BY NatLessThanWellFounded
<1>2. OpToRel(<, Nat) = {ss \in Nat \X Nat : ss[1] < ss[2]}
  BY DEF OpToRel
<1> DEFINE R == {ss \in Nat \X Nat : ss[1] < ss[2]}
<1>3. IsWellFoundedOn(R, Nat)
  BY <1>1, <1>2
<1> HIDE DEF R
<1>4. PICK n \in T : \A m \in T : <<m, n>> \notin R
  BY <1>3, WFMin
<1>5. \A m \in T : <<m, n>> \notin R => ~(m < n)
  BY DEF R
<1> QED BY <1>4, <1>5

Names == UNION {Range(p) : p \in Paths}

\* A path is a sequence of names.
LEMMA PathIsSequence ==
    ASSUME NEW p \in Paths
    PROVE  p \in Seq(Names) /\ Len(p) \in Nat /\ Len(p) # 0
<1>1. p \in Seq(Range(p)) /\ p # <<>>
  BY WatcherAssumption DEF WatcherAssumption
<1>2. Range(p) \subseteq Names
  BY DEF Names
<1>3. p \in Seq(Names)
  BY <1>1, <1>2, SeqMonotonic
<1> QED BY <1>1, <1>3, EmptySeq, LenProperties

\* An ancestor agrees with the path below it as far as it goes.
LEMMA AncestorIs ==
    ASSUME NEW p \in Paths, NEW q \in Paths
    PROVE  IsAncestorOf(p, q) <=> Len(p) <= Len(q) /\ \A n \in 1 .. Len(p) : p[n] = q[n]
<1> DEFINE part == SubSeq(q, 1, Len(p))
<1>1. /\ p \in Seq(Names) /\ Len(p) \in Nat /\ Len(p) # 0
      /\ q \in Seq(Names) /\ Len(q) \in Nat
  BY PathIsSequence
<1>2. SubSeq(p, 1, Len(p)) = p
  BY <1>1, SubSeqFull
<1>3. ASSUME Len(p) <= Len(q)
      PROVE  /\ part \in Seq(Names) /\ Len(part) = Len(p)
             /\ \A n \in 1 .. Len(p) : part[n] = q[n]
  <2>1. \A n \in 1 .. Len(p) : q[n] \in Names
    BY <1>1, <1>3, ElementOfSeq
  <2>2. /\ part \in Seq(Names)
        /\ Len(part) = IF 1 <= Len(p) THEN Len(p) - 1 + 1 ELSE 0
        /\ \A n \in 1 .. Len(p) - 1 + 1 : part[n] = q[1 + n - 1]
    BY <1>1, <2>1, SubSeqProperties
  <2> HIDE DEF part
  <2>3. Len(p) - 1 + 1 = Len(p) /\ \A n \in 1 .. Len(p) : 1 + n - 1 = n
    BY <1>1
  <2> QED BY <1>1, <2>2, <2>3
<1>4. IsAncestorOf(p, q) <=> Len(p) <= Len(q) /\ p = part
  BY <1>2 DEF IsAncestorOf, IsPrefix
<1> HIDE DEF part
<1>5. ASSUME Len(p) <= Len(q), \A n \in 1 .. Len(p) : p[n] = q[n] PROVE p = part
  <2>1. \A n \in 1 .. Len(p) : p[n] = part[n]
    BY <1>3, <1>5
  <2> QED BY <1>1, <1>3, <1>5, <2>1, SeqEqual
<1> QED BY <1>3, <1>4, <1>5

\* What is above an ancestor is above the path, and a proper ancestor is
\* shorter.
LEMMA AncestorOrder ==
    ASSUME NEW p \in Paths, NEW q \in Paths, IsAncestorOf(p, q)
    PROVE  /\ \A r \in Paths : IsAncestorOf(q, r) => IsAncestorOf(p, r)
           /\ p # q => Len(p) < Len(q)
<1>1. /\ p \in Seq(Names) /\ Len(p) \in Nat /\ q \in Seq(Names) /\ Len(q) \in Nat
      /\ Len(p) <= Len(q) /\ \A n \in 1 .. Len(p) : p[n] = q[n]
  BY PathIsSequence, AncestorIs
<1>2. ASSUME NEW r \in Paths, IsAncestorOf(q, r) PROVE IsAncestorOf(p, r)
  <2>1. Len(r) \in Nat /\ Len(q) <= Len(r) /\ \A n \in 1 .. Len(q) : q[n] = r[n]
    BY <1>2, PathIsSequence, AncestorIs
  <2>2. Len(p) <= Len(r) /\ \A n \in 1 .. Len(p) : n \in 1 .. Len(q) /\ p[n] = r[n]
    BY <1>1, <2>1
  <2> QED BY <2>2, AncestorIs
<1>3. Len(p) = Len(q) => p = q
  BY <1>1, SeqEqual
<1> QED BY <1>1, <1>2, <1>3

\* A list covers what a member of it is above.
LEMMA CoversIs ==
    ASSUME NEW list, NEW q
    PROVE  Covers(list, q) <=> \E p \in Range(list) : IsAncestorOf(p, q)
BY DEF Covers, Range

\* The sorted list has the paths of the list.
LEMMA SortedIs ==
    ASSUME NEW list, Range(list) \subseteq Paths
    PROVE  /\ SortByPathname(list) \in Seq(Paths)
           /\ Range(SortByPathname(list)) = Range(list)
<1>1. PathOrder \in Seq(Paths) /\ Range(PathOrder) = Paths
  BY WatcherAssumption DEF WatcherAssumption, Paths
<1> DEFINE others == Paths \ Range(list)
<1>2. SortByPathname(list) = Omit(PathOrder, others)
  BY DEF SortByPathname
<1>3. Paths \ others = Range(list)
  OBVIOUS
<1> HIDE DEF others
<1>4. /\ Omit(PathOrder, others) \in Seq(Paths)
      /\ Range(Omit(PathOrder, others)) = Range(PathOrder) \ others
  BY <1>1, OmitIs
<1> QED BY <1>1, <1>2, <1>3, <1>4

\* RemoveChildren leaves the paths of some places of the sorted list, among
\* them every place that has no path above it before it.
LEMMA RemoveChildrenIs ==
    ASSUME NEW list, Range(list) \subseteq Paths
    PROVE  /\ RemoveChildren(list) \in Seq(Paths)
           /\ \A k \in DOMAIN SortByPathname(list) :
                 \/ \E m \in 1 .. k - 1 :
                       IsAncestorOf(SortByPathname(list)[m], SortByPathname(list)[k])
                 \/ SortByPathname(list)[k] \in Range(RemoveChildren(list))
<1> DEFINE sorted == SortByPathname(list)
           places == {k \in DOMAIN sorted : ~\E m \in 1 .. k - 1 :
                         \A j \in m + 1 .. k : IsAncestorOf(sorted[m], sorted[j])}
           c == Cardinality(places)
           kept == Ascending(places)
           rest == [n \in DOMAIN kept |-> sorted[kept[n]]]
<1>1. RemoveChildren(list) = rest
  BY DEF RemoveChildren
<1>2. sorted \in Seq(Paths)
  BY SortedIs
<1>3. \A k \in DOMAIN sorted : k \in places \/ \E m \in 1 .. k - 1 :
         \A j \in m + 1 .. k : IsAncestorOf(sorted[m], sorted[j])
  OBVIOUS
<1>4. places \subseteq DOMAIN sorted
  OBVIOUS
<1> HIDE DEF sorted, places
<1>5. Len(sorted) \in Nat /\ DOMAIN sorted = 1 .. Len(sorted)
      /\ \A k \in DOMAIN sorted : sorted[k] \in Paths
  BY <1>2, LenProperties, ElementOfSeq
<1>6. places \subseteq Nat /\ IsFiniteSet(places)
  <2>1. places \in SUBSET (1 .. Len(sorted)) /\ IsFiniteSet(1 .. Len(sorted))
    BY <1>4, <1>5, FS_Interval
  <2>2. IsFiniteSet(places)
    BY <2>1, FS_Subset
  <2>3. places \subseteq Nat
    BY <1>5, <2>1
  <2> QED BY <2>2, <2>3
<1>7. c \in Nat /\ kept \in [1 .. c -> places] /\ \A k \in places : \E n \in 1 .. c : kept[n] = k
  BY <1>6, AscendingIs
<1> HIDE DEF c, kept
<1>8. DOMAIN rest = 1 .. c /\ \A n \in 1 .. c : rest[n] = sorted[kept[n]] /\ rest[n] \in Paths
  BY <1>4, <1>5, <1>7
<1>9. rest \in Seq(Paths)
  <2>1. rest \in [1 .. c -> Paths]
    BY <1>8
  <2> HIDE DEF rest
  <2> QED BY <1>7, <2>1, IsASeq
<1> HIDE DEF rest
<1>10. ASSUME NEW k \in places PROVE sorted[k] \in Range(rest)
  <2>1. PICK n \in 1 .. c : kept[n] = k
    BY <1>7
  <2> QED BY <1>8, <2>1 DEF Range
<1>11. ASSUME NEW k \in DOMAIN sorted, k \notin places
       PROVE  \E m \in 1 .. k - 1 : IsAncestorOf(sorted[m], sorted[k])
  <2>1. PICK m \in 1 .. k - 1 : \A j \in m + 1 .. k : IsAncestorOf(sorted[m], sorted[j])
    BY <1>3, <1>11
  <2>2. k \in m + 1 .. k
    BY <1>5, <2>1
  <2> QED BY <2>1, <2>2
<1> QED BY <1>1, <1>9, <1>10, <1>11 DEF sorted

\* RemoveChildren leaves an ancestor of every path that was covered: the first
\* one in the order of the list.
LEMMA ChildrenAreCovered ==
    ASSUME NEW list, Range(list) \subseteq Paths, NEW q \in Paths, Covers(list, q)
    PROVE  Covers(RemoveChildren(list), q)
<1> DEFINE sorted == SortByPathname(list)
           above == {k \in DOMAIN sorted : IsAncestorOf(sorted[k], q)}
<1>1. sorted \in Seq(Paths) /\ Range(sorted) = Range(list)
  BY SortedIs
<1>2. /\ Len(sorted) \in Nat /\ DOMAIN sorted = 1 .. Len(sorted)
      /\ \A k \in DOMAIN sorted : sorted[k] \in Paths
  BY <1>1, LenProperties, ElementOfSeq
<1>3. Covers(sorted, q)
  BY <1>1, CoversIs
<1>4. above \subseteq Nat /\ above # {}
  BY <1>2, <1>3 DEF Covers
<1>5. PICK n \in above : \A m \in above : ~(m < n)
  <2> HIDE DEF above
  <2> QED BY <1>4, LeastNatural
<1>6. n \in DOMAIN sorted /\ sorted[n] \in Paths /\ IsAncestorOf(sorted[n], q)
  BY <1>2, <1>5
<1>7. ASSUME NEW m \in 1 .. n - 1, IsAncestorOf(sorted[m], sorted[n]) PROVE FALSE
  <2>1. m \in DOMAIN sorted /\ m < n /\ sorted[m] \in Paths
    BY <1>2, <1>6
  <2>2. IsAncestorOf(sorted[m], q)
    BY <1>6, <1>7, <2>1, AncestorOrder
  <2>3. m \in above
    BY <2>1, <2>2
  <2> HIDE DEF above
  <2> QED BY <1>5, <2>1, <2>3
<1>8. sorted[n] \in Range(RemoveChildren(list))
  <2> HIDE DEF above
  <2> QED BY <1>6, <1>7, RemoveChildrenIs
<1> QED BY <1>6, <1>8, CoversIs

-----------------------------------------------------------------------------
(* The part of the type invariant the argument needs.                      *)
InfoTypes ==
    /\ life \in [Infos -> {"free", "mapped", "condemned"}]
    /\ open \subseteq Infos /\ reading \subseteq Infos /\ dirty \subseteq Infos
    /\ pc \in Places
    /\ port \in BOOLEAN /\ running \in BOOLEAN /\ cleaned \in BOOLEAN /\ bRet \in BOOLEAN
    /\ missed \in BOOLEAN
    /\ pc \in {"got", "notified", "report", "failed"} => pdi \in Infos

(* Between the wait and the test of it, m_bCleaned is FALSE unless the     *)
(* destructor cleaned up: else only the worker itself does.                *)
NotCleaned == running /\ pc \in {"wait", "got", "notified"} => ~cleaned

(* An info that came with a completion was mapped then.                    *)
CompletedInfoExists == pc \in {"got", "notified"} /\ ~cleaned => life[pdi] # "free"

(* A closing that misses hDir leaves the map empty until the worker looks. *)
MissedLeavesNothing == missed => pc = "register" /\ Mapped = {}

(* A stopped watcher has no port when the worker looks for one.            *)
StoppedHasNoPort == ~running /\ pc \in {"arm", "wait", "got", "notified", "report", "failed"}
       => ~port

(* With a port, a directory that is not being read is the one the worker   *)
(* has just been notified about.                                           *)
Deaf ==
    running /\ port =>
       /\ Mapped \subseteq open
       /\ pc \in {"loop", "arm", "wait", "watch", "register"} => Mapped \subseteq reading
       /\ pc \in {"got", "notified", "report", "failed"} => Mapped \ {pdi} \subseteq reading
       /\ pc = "report" /\ bRet => Mapped \subseteq reading

(* The loop that opens the port starts from an empty map.                  *)
NoPortNoInfos == running /\ pc \in {"watch", "register"} /\ ~port => Mapped = {}

WatcherInv ==
    /\ InfoTypes
    /\ open \cup reading \subseteq Mapped
    /\ CompletedInfoExists
    /\ MissedLeavesNothing
    /\ NotCleaned
    /\ StoppedHasNoPort
    /\ Deaf
    /\ NoPortNoInfos

\* A new watcher has an empty map and no port.
LEMMA WatcherInit == Init => WatcherInv
BY DEF Init, WatcherInv, InfoTypes, CompletedInfoExists, MissedLeavesNothing, NotCleaned,
       StoppedHasNoPort, Deaf, NoPortNoInfos, Mapped, Places

\* No call of another thread breaks the invariant, wherever the worker is.
LEMMA CallsInv ==
    ASSUME WatcherInv, Environment
    PROVE  WatcherInv'
<1> USE DEF WatcherInv, InfoTypes, CompletedInfoExists, MissedLeavesNothing, NotCleaned,
        StoppedHasNoPort, Deaf, NoPortNoInfos, Mapped, Places
<1>1. ASSUME NEW p \in Paths, NEW close \in BOOLEAN, AddPath(p, close) PROVE WatcherInv'
  BY <1>1 DEF AddPath, ACall, infoVars, loopVars, ClearInfos, CloseWatchHandles
<1>2. ASSUME NEW p \in Paths, RemovePathAndChildren(p) PROVE WatcherInv'
  BY <1>2 DEF RemovePathAndChildren, ACall, infoVars, loopVars
<1>3. ASSUME NEW p \in Paths, CloseHandlesForPath(p) PROVE WatcherInv'
  BY <1>3 DEF CloseHandlesForPath, ACall, loopVars, ClearInfos, CloseWatchHandles
<1>4. ASSUME NEW k \in Infos, CloseInfoMap(k) PROVE WatcherInv'
  BY <1>4 DEF CloseInfoMap, ACall, loopVars, ClearInfos, CloseWatchHandles
<1>5. ASSUME NEW k \in Infos, Change(k) PROVE WatcherInv'
  BY <1>5 DEF Change, listVars, loopVars
<1>6. ASSUME ClearInfoMap PROVE WatcherInv'
  BY <1>6 DEF ClearInfoMap, ACall, listVars, loopVars, ClearInfos, CloseWatchHandles
<1>7. ASSUME BlockExpires PROVE WatcherInv'
  BY <1>7 DEF BlockExpires, infoVars, loopVars
<1>8. ASSUME Stop PROVE WatcherInv'
  BY <1>8 DEF Stop, listVars, loopVars, CloseWatchHandles
<1>9. ASSUME Destroy PROVE WatcherInv'
  BY <1>9 DEF Destroy, listVars, loopVars, ClearAndCleanup, CloseWatchHandles
<1>10. ASSUME MembersDestroyed PROVE WatcherInv'
  BY <1>10 DEF MembersDestroyed, listVars, infoVars, loopVars
<1> QED
  BY <1>1, <1>2, <1>3, <1>4, <1>5, <1>6, <1>7, <1>8, <1>9, <1>10 DEF Environment, Call

\* Nor does a step of the worker: it maps an info with its directory open and
\* a read pending.
LEMMA WorkerInv ==
    ASSUME WatcherInv, Worker
    PROVE  WatcherInv'
<1> USE DEF WatcherInv, InfoTypes, CompletedInfoExists, MissedLeavesNothing, NotCleaned,
        StoppedHasNoPort, Deaf, NoPortNoInfos, Mapped, Places, Goto, listVars, loopVars
<1>1. CASE Loop
  BY <1>1 DEF Loop, CleanupWatchInfo, infoVars
<1>2. CASE Arm
  BY <1>2 DEF Arm, infoVars
<1>3. CASE Dequeue
  BY <1>3 DEF Dequeue
<1>4. CASE Restart
  BY <1>4 DEF Restart, ClearAndCleanup, CloseWatchHandles, infoVars
<1>5. CASE EndWatch
  BY <1>5 DEF EndWatch, infoVars
<1>6. CASE OpenDirectory
  BY <1>6 DEF OpenDirectory, infoVars
<1>7. CASE Restarted
  BY <1>7 DEF Restarted, ClearAndCleanup, CloseWatchHandles
<1>8. CASE Watch
  <2>1. PICK k \in Infos : /\ life[k] = "free"
                           /\ life' = [life EXCEPT ![k] = "mapped"]
                           /\ open' = open \cup {k}
                           /\ reading' = reading \cup {k}
    BY <1>8 DEF Watch
  <2>2. Mapped' = Mapped \cup {k}
    BY <2>1
  <2>3. running /\ pc = "register" => Mapped \subseteq open /\ Mapped \subseteq reading
    OBVIOUS
  <2> QED
    BY <1>8, <2>1, <2>2, <2>3 DEF Watch
<1>9. CASE WatchFails
  BY <1>9 DEF WatchFails, ClearAndCleanup, CloseWatchHandles
<1>10. CASE Notified
  BY <1>10 DEF Notified
<1>11. CASE Report
  BY <1>11 DEF Report, CleanupWatchInfo
<1>13. CASE Look
  BY <1>13 DEF Look, infoVars
<1>12. CASE ReadFailed
  BY <1>12 DEF ReadFailed
<1> QED
  BY <1>1, <1>2, <1>3, <1>4, <1>5, <1>6, <1>7, <1>8, <1>9, <1>10, <1>11, <1>12, <1>13 DEF Worker

\* Together: the invariant holds in every state.
LEMMA WatcherInvariant == Spec => []WatcherInv
<1>1. WatcherInv /\ [Next]_vars => WatcherInv'
  <2>1. ASSUME WatcherInv, UNCHANGED vars PROVE WatcherInv'
    BY <2>1 DEF vars, infoVars, loopVars, WatcherInv, InfoTypes, CompletedInfoExists, MissedLeavesNothing,
                NotCleaned, StoppedHasNoPort, Deaf, NoPortNoInfos, Mapped
  <2> QED
    BY <2>1, CallsInv, WorkerInv DEF Next
<1> QED
  BY <1>1, WatcherInit, PTL DEF Spec

(* Closing all handles misses at most the one the worker has just opened,  *)
(* and that one is given up if anything was watched before, for any number *)
(* of directories and any interleaving with the loop that opens them.      *)
THEOREM NoHandleLost == Spec => []HandlesTracked
<1>1. ASSUME WatcherInv, missed, CountsUnchanged PROVE numWatch = 0
  <2>1. Mapped = {}
    BY <1>1 DEF WatcherInv, MissedLeavesNothing
  <2> QED BY <1>1, <2>1, FS_EmptySet DEF CountsUnchanged
<1>2. WatcherInv => HandlesTracked
  BY <1>1 DEF WatcherInv, HandlesTracked
<1> QED
  BY <1>2, WatcherInvariant, PTL

(* The worker finds the info of a completion alive or m_bCleaned set, also *)
(* when the destructor did not wait for it.                                *)
THEOREM CompletionSafe == Spec => []NotifiedInfoExists
<1>1. WatcherInv => NotifiedInfoExists
  BY DEF WatcherInv, CompletedInfoExists, NotifiedInfoExists
<1> QED
  BY <1>1, WatcherInvariant, PTL

(* While the worker sleeps on the port, every mapped directory has a read  *)
(* pending.                                                                *)
THEOREM WatcherHears == Spec => []NobodyDeaf
<1>1. WatcherInv => NobodyDeaf
  BY DEF WatcherInv, NobodyDeaf, Deaf, StoppedHasNoPort, InfoTypes
<1> QED
  BY <1>1, WatcherInvariant, PTL

-----------------------------------------------------------------------------
(***************************************************************************)
(* The lists.  Every info in the map has the path it was opened for, which *)
(* is what CloseInfoMap and CloseHandlesForPath block; the loop counts the *)
(* watched paths from 1 on.                                                *)
(***************************************************************************)
WatcherTypes ==
    /\ TypeOK
    /\ i # 0
    /\ pc = "register" => current \in Paths
    /\ \A k \in Mapped : dirName[k] \in Paths

\* What is left of a list of paths is one.
LEMMA OmitPaths ==
    ASSUME NEW list \in Seq(Paths), NEW S
    PROVE  Omit(list, S) \in Seq(Paths)
BY OmitIs

\* AddPath makes a list of paths from one.
LEMMA ListWithIs ==
    ASSUME watchedPaths \in Seq(Paths), NEW p \in Paths
    PROVE  /\ ListWith(p) \in Seq(Paths)
           /\ \/ \E root \in Paths : ListWith(p) = RemoveChildren(Append(watchedPaths, root))
              \/ ListWith(p) = Append(watchedPaths, p)
              \/ ListWith(p) = watchedPaths
<1> DEFINE with == {k \in DOMAIN watchedPaths : NewRoots(p, watchedPaths[k]) # {}}
           last == CHOOSE k \in with : \A m \in with : m <= k
           root == CHOOSE r \in NewRoots(p, watchedPaths[last]) : TRUE
<1>1. ListWith(p) = IF with # {} /\ root \in Versioned
                    THEN RemoveChildren(Append(watchedPaths, root))
                    ELSE IF p \in Versioned THEN Append(watchedPaths, p) ELSE watchedPaths
  BY DEF ListWith
<1> HIDE DEF with, root
<1>2. root \in Versioned => root \in Paths
  BY WatcherAssumption DEF WatcherAssumption
<1>3. ASSUME NEW r \in Paths PROVE RemoveChildren(Append(watchedPaths, r)) \in Seq(Paths)
  <2>1. Append(watchedPaths, r) \in Seq(Paths)
    OBVIOUS
  <2>2. Range(Append(watchedPaths, r)) \subseteq Paths
    BY <2>1, ElementOfSeq, LenProperties DEF Range
  <2> QED BY <2>2, RemoveChildrenIs
<1>4. Append(watchedPaths, p) \in Seq(Paths)
  OBVIOUS
<1> QED BY <1>1, <1>2, <1>3, <1>4

\* The drive of a path is its first name.
LEMMA RootIs ==
    ASSUME NEW p \in Paths
    PROVE  GetRootPath(p) = <<p[1]>>
<1>1. p \in Seq(Names) /\ Len(p) \in Nat /\ Len(p) # 0
  BY PathIsSequence
<1>2. p[1] \in Names /\ 1 \in 1 .. Len(p)
  BY <1>1, ElementOfSeq
<1>3. SubSeq(p, 1, 1) \in Seq(Names) /\ Len(SubSeq(p, 1, 1)) = 1 /\ SubSeq(p, 1, 1)[1] = p[1]
  BY <1>2, SubSeqProperties
<1> DEFINE x == p[1]
<1>4. x \in Names
  BY <1>2
<1> HIDE DEF x
<1>5. <<x>> \in Seq(Names) /\ Len(<<x>>) = 1 /\ <<x>>[1] = x
  BY <1>4
<1>6. SubSeq(p, 1, 1) = <<x>>
  <2>1. \A n \in 1 .. Len(SubSeq(p, 1, 1)) : SubSeq(p, 1, 1)[n] = <<x>>[n]
    BY <1>3, <1>5 DEF x
  <2> QED BY <1>3, <1>5, <2>1, SeqEqual
<1> QED BY <1>6 DEF x, GetRootPath

\* The map has finitely many infos.
LEMMA MappedCount == Cardinality(Mapped) \in Nat
<1>1. Mapped \in SUBSET Infos /\ IsFiniteSet(Infos)
  BY WatcherAssumption DEF WatcherAssumption, Mapped
<1> QED BY <1>1, FS_Subset, FS_CardinalityType

\* The types of what belongs to the infos.
InfosTyped ==
    /\ life \in [Infos -> {"free", "mapped", "condemned"}]
    /\ open \subseteq Infos /\ reading \subseteq Infos /\ dirty \subseteq Infos
    /\ port \in BOOLEAN

\* ClearInfoMap and CleanupWatchInfo leave no info mapped, and no other type.
LEMMA ClosedInfos ==
    ASSUME InfosTyped, ClearInfos \/ ClearAndCleanup
    PROVE  /\ InfosTyped' /\ Mapped' = {} /\ dirName' = dirName
           /\ ClearInfos => missed' \in BOOLEAN
BY DEF InfosTyped, ClearInfos, ClearAndCleanup, CloseWatchHandles, Mapped

\* Everything starts empty.
LEMMA TypesInit == Init => WatcherTypes
<1>1. <<>> \in Seq(Paths)
  BY EmptySeq
<1>2. 0 \in 0 .. MaxCalls
  BY WatcherAssumption DEF WatcherAssumption
<1> SUFFICES ASSUME Init PROVE WatcherTypes
  OBVIOUS
<1>3. watchedPaths \in Seq(Paths) /\ calls \in 0 .. MaxCalls
  BY <1>1, <1>2 DEF Init
<1>4. Mapped = {} /\ life \in [Infos -> {"free", "mapped", "condemned"}]
  BY DEF Init, Mapped
<1>5. dirName \in [Infos -> Paths \cup {<<>>}] /\ current \in Paths \cup {<<>>}
  BY DEF Init
<1>6. blockedPath \in Paths \cup {<<p[1]>> : p \in Paths} \cup {<<>>}
  BY DEF Init
<1>7. open \subseteq Infos /\ reading \subseteq Infos /\ dirty \subseteq Infos
  BY DEF Init
<1>8. /\ port \in BOOLEAN /\ cleaned \in BOOLEAN /\ running \in BOOLEAN /\ missed \in BOOLEAN
      /\ object \in {"alive", "cleared", "gone"}
      /\ locked \in BOOLEAN /\ bRet \in BOOLEAN
  BY Zenon DEF Init
<1>9. /\ pc \in Places /\ pc # "register" /\ pdi \in Infos \cup {NoInfo}
      /\ i \in Nat /\ i # 0 /\ numPaths \in Nat /\ numWatch \in Nat
  BY DEF Init, Places
<1> QED BY <1>3, <1>4, <1>5, <1>6, <1>7, <1>8, <1>9 DEF WatcherTypes, TypeOK

\* The calls of other threads keep the types: only AddPath makes the list
\* longer, by paths.
LEMMA TypesCalls ==
    ASSUME WatcherTypes, Environment
    PROVE  WatcherTypes'
<1> USE DEF WatcherTypes, TypeOK, Places, Mapped, ACall, Exists
<1>0. MaxCalls \in Nat
  BY WatcherAssumption DEF WatcherAssumption
<1>1. ASSUME NEW p \in Paths, NEW close \in BOOLEAN, AddPath(p, close) PROVE WatcherTypes'
  <2>1. watchedPaths' \in Seq(Paths)
    BY <1>1, ListWithIs DEF AddPath
  <2>2. CASE ClearInfos
    <3>1. InfosTyped' /\ Mapped' = {} /\ dirName' = dirName /\ missed' \in BOOLEAN
      BY <2>2, ClosedInfos DEF InfosTyped
    <3> QED BY <1>0, <1>1, <2>1, <3>1 DEF AddPath, loopVars, InfosTyped
  <2>3. CASE UNCHANGED <<infoVars, port, missed>>
    BY <1>0, <1>1, <2>1, <2>3 DEF AddPath, infoVars, loopVars
  <2> QED BY <1>1, <2>2, <2>3 DEF AddPath
<1>2. ASSUME NEW p \in Paths, RemovePathAndChildren(p) PROVE WatcherTypes'
  <2>1. watchedPaths' \in Seq(Paths)
    BY <1>2, OmitPaths DEF RemovePathAndChildren, Without
  <2> QED BY <1>0, <1>2, <2>1 DEF RemovePathAndChildren, infoVars, loopVars
<1>3. ASSUME NEW p \in Paths, CloseHandlesForPath(p) PROVE WatcherTypes'
  <2>1. watchedPaths' \in Seq(Paths)
    BY <1>3, OmitPaths DEF CloseHandlesForPath
  <2>2. blockedPath' \in Paths \cup {blockedPath}
    BY <1>3 DEF CloseHandlesForPath
  <2>3. InfosTyped' /\ Mapped' = {} /\ dirName' = dirName /\ missed' \in BOOLEAN
    BY <1>3, ClosedInfos DEF CloseHandlesForPath, InfosTyped
  <2> QED BY <1>0, <1>3, <2>1, <2>2, <2>3 DEF CloseHandlesForPath, loopVars, InfosTyped
<1>4. ASSUME NEW k \in Infos, CloseInfoMap(k) PROVE WatcherTypes'
  <2>1. watchedPaths' \in Seq(Paths)
    BY <1>4, OmitPaths DEF CloseInfoMap, Without
  <2>2. blockedPath' \in {<<p[1]>> : p \in Paths}
    BY <1>4, RootIs DEF CloseInfoMap
  <2>3. InfosTyped' /\ Mapped' = {} /\ dirName' = dirName /\ missed' \in BOOLEAN
    BY <1>4, ClosedInfos DEF CloseInfoMap, InfosTyped
  <2> QED BY <1>0, <1>4, <2>1, <2>2, <2>3 DEF CloseInfoMap, loopVars, InfosTyped
<1>5. ASSUME NEW k \in Infos, Change(k) PROVE WatcherTypes'
  BY <1>0, <1>5 DEF Change, listVars, loopVars
<1>6. ASSUME ClearInfoMap PROVE WatcherTypes'
  <2>1. InfosTyped' /\ Mapped' = {} /\ dirName' = dirName /\ missed' \in BOOLEAN
    BY <1>6, ClosedInfos DEF ClearInfoMap, InfosTyped
  <2> QED BY <1>0, <1>6, <2>1 DEF ClearInfoMap, listVars, loopVars, InfosTyped
<1>7. ASSUME BlockExpires PROVE WatcherTypes'
  BY <1>7 DEF BlockExpires, infoVars, loopVars
<1>8. ASSUME Stop PROVE WatcherTypes'
  BY <1>8 DEF Stop, listVars, loopVars, CloseWatchHandles
<1>9. ASSUME Destroy PROVE WatcherTypes'
  BY <1>9 DEF Destroy, listVars, loopVars, ClearAndCleanup, CloseWatchHandles
<1>10. ASSUME MembersDestroyed PROVE WatcherTypes'
  BY <1>10 DEF MembersDestroyed, listVars, infoVars, loopVars
<1> QED
  BY <1>1, <1>2, <1>3, <1>4, <1>5, <1>6, <1>7, <1>8, <1>9, <1>10 DEF Environment, Call

\* So does the worker: what it opens is a path of the list, and what it gives
\* up leaves a list.
LEMMA TypesWorker ==
    ASSUME WatcherTypes, Worker
    PROVE  WatcherTypes'
<1> USE DEF WatcherTypes, TypeOK, Places, Mapped, Goto, listVars, loopVars
<1>1. CASE Loop
  BY <1>1 DEF Loop, CleanupWatchInfo, infoVars
<1>2. CASE Arm
  BY <1>2 DEF Arm, infoVars
<1>3. CASE Dequeue
  BY <1>3 DEF Dequeue
<1>4. CASE Restart
  <2>1. CASE ClearAndCleanup
    <3>1. InfosTyped' /\ Mapped' = {} /\ dirName' = dirName
      BY <2>1, ClosedInfos DEF InfosTyped
    <3>2. cleaned' \in BOOLEAN
      BY <2>1 DEF ClearAndCleanup
    <3>3. i' \in Nat /\ i' # 0 /\ pc' \in {"watch", "end"} /\ locked' \in BOOLEAN
      <4>1. CASE running
        BY <1>4, <4>1 DEF Restart
      <4>2. CASE ~running
        BY <1>4, <4>2 DEF Restart
      <4> QED BY <4>1, <4>2
    <3>4. UNCHANGED <<listVars, missed, running, pdi, bRet, current, numPaths, numWatch, object, calls>>
      BY <1>4 DEF Restart
    <3> QED BY <3>1, <3>2, <3>3, <3>4 DEF InfosTyped
  <2>2. CASE UNCHANGED <<infoVars, port, cleaned, i, locked>>
    BY <1>4, <2>2 DEF Restart, infoVars
  <2> QED BY <1>4, <2>1, <2>2 DEF Restart
<1>5. CASE EndWatch
  <2>1. watchedPaths' \in Seq(Paths)
    BY <1>5, OmitPaths DEF EndWatch, RemovePath
  <2> QED BY <1>5, <2>1 DEF EndWatch, infoVars
<1>6. CASE OpenDirectory
  <2>1. watchedPaths[i] \in Paths /\ Len(watchedPaths) \in Nat
    BY <1>6, ElementOfSeq, LenProperties DEF OpenDirectory
  <2> QED BY <1>6, <2>1, MappedCount DEF OpenDirectory, infoVars
<1>7. CASE Restarted
  BY <1>7 DEF Restarted, ClearAndCleanup, CloseWatchHandles
<1>8. CASE Watch
  <2>1. PICK k \in Infos : /\ life[k] = "free"
                           /\ life' = [life EXCEPT ![k] = "mapped"]
                           /\ dirName' = [dirName EXCEPT ![k] = current]
                           /\ open' = open \cup {k}
                           /\ reading' = reading \cup {k}
    BY <1>8 DEF Watch
  <2>2. \A m \in Mapped' : dirName'[m] \in Paths
    BY <1>8, <2>1 DEF Watch
  <2>3. /\ life' \in [Infos -> {"free", "mapped", "condemned"}]
        /\ dirName' \in [Infos -> Paths \cup {<<>>}]
        /\ open' \subseteq Infos /\ reading' \subseteq Infos
    BY <1>8, <2>1 DEF Watch
  <2>4. i' \in Nat /\ i' # 0
    BY <1>8 DEF Watch
  <2>5. UNCHANGED <<listVars, dirty, cleaned, running, object, pdi, bRet, current, numPaths,
                    numWatch, calls>>
    BY <1>8 DEF Watch
  <2>6. port' = TRUE /\ missed' = FALSE /\ locked' = TRUE /\ pc' = "watch"
    BY <1>8 DEF Watch
  <2> QED BY <2>2, <2>3, <2>4, <2>5, <2>6
<1>9. CASE WatchFails
  <2>1. watchedPaths' \in Seq(Paths)
    BY <1>9, OmitPaths DEF WatchFails, RemovePath
  <2> QED BY <1>9, <2>1 DEF WatchFails, ClearAndCleanup, CloseWatchHandles
<1>10. CASE Notified
  <2>1. cleaned' = FALSE /\ pc' \in {"loop", "report"}
    BY <1>10 DEF Notified
  <2>2. bRet' \in BOOLEAN
    BY <1>10 DEF Notified
  <2>3. reading' \subseteq Infos
    BY <1>10 DEF Notified
  <2>4. UNCHANGED <<listVars, life, dirName, open, dirty, port, missed, running, locked, pdi,
                    loopVars, object, calls>>
    BY <1>10 DEF Notified
  <2> QED BY <2>1, <2>2, <2>3, <2>4
<1>11. CASE Report
  BY <1>11 DEF Report, CleanupWatchInfo
<1>13. CASE Look
  BY <1>13 DEF Look, infoVars
<1>12. CASE ReadFailed
  <2>1. watchedPaths' \in Seq(Paths)
    BY <1>12, OmitPaths DEF ReadFailed, RemovePath
  <2> QED BY <1>12, <2>1 DEF ReadFailed
<1> QED
  BY <1>1, <1>2, <1>3, <1>4, <1>5, <1>6, <1>7, <1>8, <1>9, <1>10, <1>11, <1>12, <1>13 DEF Worker

\* Together: the types hold in every state.
LEMMA WatcherTypesInvariant == Spec => []WatcherTypes
<1>1. ASSUME WatcherTypes, UNCHANGED vars PROVE WatcherTypes'
  BY <1>1 DEF vars, infoVars, listVars, loopVars, WatcherTypes, TypeOK, Mapped
<1>2. WatcherTypes /\ [Next]_vars => WatcherTypes'
  BY <1>1, TypesCalls, TypesWorker DEF Next
<1> QED
  BY <1>2, TypesInit, PTL DEF Spec

(* The lists and the infos hold paths whatever the calls erase and the     *)
(* worker gives up.                                                        *)
THEOREM WatcherTypeCorrect == Spec => []TypeOK
<1>1. WatcherTypes => TypeOK
  BY DEF WatcherTypes
<1> QED
  BY <1>1, WatcherTypesInvariant, PTL

(* AddPath covers whatever was covered, also when a new root replaces the  *)
(* watched paths below it, or is above none of them.                       *)
THEOREM AddPathKeepsCover == Spec => AddPathUncoversNothing
<1> DEFINE Keeps == (\E p \in Paths, close \in BOOLEAN : AddPath(p, close)) =>
                       \A q \in Paths : Covers(watchedPaths, q) => Covers(watchedPaths', q)
<1>1. ASSUME WatcherTypes, NEW p \in Paths, NEW close \in BOOLEAN, AddPath(p, close),
             NEW q \in Paths, Covers(watchedPaths, q)
      PROVE  Covers(watchedPaths', q)
  <2>1. watchedPaths \in Seq(Paths)
    BY <1>1 DEF WatcherTypes, TypeOK
  <2>2. watchedPaths' = ListWith(p)
    BY <1>1 DEF AddPath
  <2>3. ASSUME NEW root \in Paths
        PROVE  /\ Range(Append(watchedPaths, root)) \subseteq Paths
               /\ Covers(Append(watchedPaths, root), q)
    <3>1. /\ Append(watchedPaths, root) \in Seq(Paths)
          /\ \A k \in DOMAIN watchedPaths : /\ k \in DOMAIN Append(watchedPaths, root)
                                            /\ Append(watchedPaths, root)[k] = watchedPaths[k]
      BY <2>1
    <3>2. Range(Append(watchedPaths, root)) \subseteq Paths
      BY <3>1, ElementOfSeq, LenProperties DEF Range
    <3> QED BY <1>1, <3>1, <3>2 DEF Covers
  <2>4. CASE \E root \in Paths : ListWith(p) = RemoveChildren(Append(watchedPaths, root))
    BY <2>2, <2>3, <2>4, ChildrenAreCovered
  <2>5. CASE ListWith(p) \in {Append(watchedPaths, p), watchedPaths}
    BY <1>1, <2>2, <2>3, <2>5
  <2> QED BY <2>1, <2>4, <2>5, ListWithIs
<1>2. WatcherTypes /\ [Next]_vars => [Keeps]_vars
  BY <1>1
<1> QED
  BY <1>2, WatcherTypesInvariant, PTL DEF Spec, AddPathUncoversNothing
=============================================================================
