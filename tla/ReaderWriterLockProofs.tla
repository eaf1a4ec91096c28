----------------------- MODULE ReaderWriterLockProofs -----------------------
(***************************************************************************)
(* Proofs about ReaderWriterLock, for any number of threads and any        *)
(* nesting.                                                                *)
(***************************************************************************)
EXTENDS ReaderWriterLock, FiniteSetTheorems, TLAPS

(* A thread that waits holds no write lock, and has an entry in m_map only *)
(* if it waits for (or after) an upgrade.                                  *)
CallState ==
    \A t \in Threads :
       /\ pc[t] # "idle" => writes[t] = 0
       /\ pc[t] \in {"readWait", "readWoken", "readTimedOut", "readExpired"} => reads[t] = 0
       /\ pc[t] \in {"backWait", "backWoken"} => reads[t] > 0

(* A signalled write event is a grant nobody has taken up yet: the lock is *)
(* free, and somebody waits for it.                                        *)
Grant ==
    /\ writeEvent = "set" => WriteOwners = {} /\ ReadOwners = {}
    /\ writeEvent # "none" => numOfWriter > 0

(* The inductive invariant.                                                *)
LockInv ==
    /\ TypeOK
    /\ CallState
    /\ CountersAgree
    /\ MutualExclusion
    /\ Grant
    /\ HandlesOpen
    /\ NoSleepOnFreeLock

-----------------------------------------------------------------------------
(* The sets of threads.                                                    *)

\* How the size of a set of threads changes when one thread changes.
LEMMA CardChange ==
    ASSUME NEW S \in SUBSET Threads, NEW T \in SUBSET Threads, NEW t \in Threads,
           S \ {t} = T \ {t}
    PROVE  /\ Cardinality(S) \in Nat /\ Cardinality(T) \in Nat
           /\ t \in S /\ t \notin T => Cardinality(T) = Cardinality(S) - 1
           /\ t \notin S /\ t \in T => Cardinality(T) = Cardinality(S) + 1
           /\ (t \in S <=> t \in T) => T = S
<1>1. IsFiniteSet(S) /\ IsFiniteSet(T)
  BY ThreadsAssumption, FS_Subset
<1>2. Cardinality(S) \in Nat /\ Cardinality(T) \in Nat
  BY <1>1, FS_CardinalityType
<1>3. ASSUME t \in S, t \notin T PROVE Cardinality(T) = Cardinality(S) - 1
  <2>1. T = S \ {t}
    BY <1>3
  <2> QED
    BY <2>1, <1>1, <1>3, FS_RemoveElement
<1>4. ASSUME t \notin S, t \in T PROVE Cardinality(T) = Cardinality(S) + 1
  <2>1. T = S \cup {t}
    BY <1>4
  <2> QED
    BY <2>1, <1>1, <1>4, FS_AddElement
<1>5. ASSUME t \in S <=> t \in T PROVE T = S
  BY <1>5
<1> QED
  BY <1>2, <1>3, <1>4, <1>5

\* Small cardinalities.
LEMMA CardSmall ==
    ASSUME NEW S \in SUBSET Threads
    PROVE  /\ Cardinality(S) \in Nat
           /\ Cardinality(S) = 0 <=> S = {}
           /\ \A t \in S : Cardinality(S) = 1 => S = {t}
<1>1. IsFiniteSet(S)
  BY ThreadsAssumption, FS_Subset
<1>2. Cardinality(S) \in Nat /\ (Cardinality(S) = 0 <=> S = {})
  BY <1>1, FS_CardinalityType, FS_EmptySet
<1>3. ASSUME NEW t \in S, Cardinality(S) = 1 PROVE S = {t}
  <2>1. IsFiniteSet(S \ {t}) /\ Cardinality(S \ {t}) = 0
    BY <1>1, <1>3, FS_RemoveElement
  <2>2. S \ {t} = {}
    BY <2>1, FS_EmptySet
  <2> QED
    BY <2>2
<1> QED
  BY <1>2, <1>3

Same(f, g, t) == \A u \in Threads \ {t} : g[u] = f[u]

\* A step of thread t changes the membership of no other thread.
LEMMA OnlyOne ==
    ASSUME NEW t \in Threads, Same(reads, reads', t), Same(writes, writes', t), Same(pc, pc', t)
    PROVE  /\ WriteOwners \ {t} = WriteOwners' \ {t}
           /\ WriteWaiters \ {t} = WriteWaiters' \ {t}
           /\ ReadOwners \ {t} = ReadOwners' \ {t}
           /\ ReadWaiters \ {t} = ReadWaiters' \ {t}
BY DEF Same, WriteOwners, WriteWaiters, ReadOwners, ReadWaiters

\* The counters follow the four sets.
LEMMA CountersFollow ==
    ASSUME NEW t \in Threads, Same(reads, reads', t), Same(writes, writes', t), Same(pc, pc', t),
           CountersAgree,
           numOfWriter' = numOfWriter
              + (IF t \in WriteOwners' \cup WriteWaiters' THEN 1 ELSE 0)
              - (IF t \in WriteOwners \cup WriteWaiters THEN 1 ELSE 0),
           t \notin WriteOwners \cap WriteWaiters, t \notin WriteOwners' \cap WriteWaiters',
           readerEntered' = readerEntered
              + (IF t \in ReadOwners' THEN 1 ELSE 0) - (IF t \in ReadOwners THEN 1 ELSE 0),
           readerWaiting' = readerWaiting
              + (IF t \in ReadWaiters' THEN 1 ELSE 0) - (IF t \in ReadWaiters THEN 1 ELSE 0)
    PROVE  CountersAgree'
<1>1. /\ WriteOwners \in SUBSET Threads /\ WriteOwners' \in SUBSET Threads
      /\ WriteWaiters \in SUBSET Threads /\ WriteWaiters' \in SUBSET Threads
      /\ ReadOwners \in SUBSET Threads /\ ReadOwners' \in SUBSET Threads
      /\ ReadWaiters \in SUBSET Threads /\ ReadWaiters' \in SUBSET Threads
  BY DEF WriteOwners, WriteWaiters, ReadOwners, ReadWaiters
<1>2. /\ WriteOwners \ {t} = WriteOwners' \ {t}
      /\ WriteWaiters \ {t} = WriteWaiters' \ {t}
      /\ ReadOwners \ {t} = ReadOwners' \ {t}
      /\ ReadWaiters \ {t} = ReadWaiters' \ {t}
  BY OnlyOne
<1>3. readerEntered' = Cardinality(ReadOwners')
  BY <1>1, <1>2, CardChange DEF CountersAgree
<1>4. readerWaiting' = Cardinality(ReadWaiters')
  BY <1>1, <1>2, CardChange DEF CountersAgree
<1>5. numOfWriter' = Cardinality(WriteOwners') + Cardinality(WriteWaiters')
  <2> DEFINE in(S) == IF t \in S THEN 1 ELSE 0
  <2>1. Cardinality(WriteOwners') = Cardinality(WriteOwners) + in(WriteOwners') - in(WriteOwners)
    BY <1>1, <1>2, CardChange
  <2>2. Cardinality(WriteWaiters') =
           Cardinality(WriteWaiters) + in(WriteWaiters') - in(WriteWaiters)
    BY <1>1, <1>2, CardChange
  <2>3. Cardinality(WriteOwners) \in Nat /\ Cardinality(WriteWaiters) \in Nat
    BY <1>1, CardSmall
  <2> QED
    BY <2>1, <2>2, <2>3 DEF CountersAgree
<1> QED
  BY <1>3, <1>4, <1>5 DEF CountersAgree

\* What the counters say about the sets.
LEMMA CountersSay ==
    ASSUME CountersAgree
    PROVE  /\ numOfWriter = 0 <=> WriteOwners = {} /\ WriteWaiters = {}
           /\ \A t \in WriteOwners : numOfWriter = 1 => WriteOwners = {t} /\ WriteWaiters = {}
           /\ \A t \in WriteWaiters : numOfWriter = 1 => WriteWaiters = {t} /\ WriteOwners = {}
           /\ WriteOwners # {} \/ WriteWaiters # {} => numOfWriter > 0
           /\ readerEntered = 0 <=> ReadOwners = {}
           /\ \A t \in ReadOwners : readerEntered = 1 => ReadOwners = {t}
           /\ readerWaiting = 0 <=> ReadWaiters = {}
           /\ \A t \in ReadWaiters : readerWaiting = 1 => ReadWaiters = {t}
           /\ numOfWriter \in Nat /\ readerEntered \in Nat /\ readerWaiting \in Nat
<1>1. /\ WriteOwners \in SUBSET Threads
      /\ WriteWaiters \in SUBSET Threads
      /\ ReadOwners \in SUBSET Threads
      /\ ReadWaiters \in SUBSET Threads
  BY DEF WriteOwners, WriteWaiters, ReadOwners, ReadWaiters
<1>2. /\ Cardinality(WriteOwners) \in Nat /\ (Cardinality(WriteOwners) = 0 <=> WriteOwners = {})
      /\ \A t \in WriteOwners : Cardinality(WriteOwners) = 1 => WriteOwners = {t}
  BY <1>1, CardSmall
<1>3. /\ Cardinality(WriteWaiters) \in Nat /\ (Cardinality(WriteWaiters) = 0 <=> WriteWaiters = {})
      /\ \A t \in WriteWaiters : Cardinality(WriteWaiters) = 1 => WriteWaiters = {t}
  BY <1>1, CardSmall
<1>4. /\ Cardinality(ReadOwners) \in Nat /\ (Cardinality(ReadOwners) = 0 <=> ReadOwners = {})
      /\ \A t \in ReadOwners : Cardinality(ReadOwners) = 1 => ReadOwners = {t}
  BY <1>1, CardSmall
<1>5. /\ Cardinality(ReadWaiters) \in Nat /\ (Cardinality(ReadWaiters) = 0 <=> ReadWaiters = {})
      /\ \A t \in ReadWaiters : Cardinality(ReadWaiters) = 1 => ReadWaiters = {t}
  BY <1>1, CardSmall
<1>6. numOfWriter = Cardinality(WriteOwners) + Cardinality(WriteWaiters)
  BY DEF CountersAgree
<1>7. /\ readerEntered = Cardinality(ReadOwners)
      /\ readerWaiting = Cardinality(ReadWaiters)
  BY DEF CountersAgree
<1>8. /\ numOfWriter = 0 <=> WriteOwners = {} /\ WriteWaiters = {}
      /\ WriteOwners # {} \/ WriteWaiters # {} => numOfWriter > 0
      /\ numOfWriter \in Nat
  BY <1>2, <1>3, <1>6
<1>9. \A t \in WriteOwners : numOfWriter = 1 => WriteOwners = {t} /\ WriteWaiters = {}
  <2> TAKE t \in WriteOwners
  <2>1. Cardinality(WriteOwners) # 0
    BY <1>2
  <2> QED
    BY <2>1, <1>2, <1>3, <1>6
<1>10. \A t \in WriteWaiters : numOfWriter = 1 => WriteWaiters = {t} /\ WriteOwners = {}
  <2> TAKE t \in WriteWaiters
  <2>1. Cardinality(WriteWaiters) # 0
    BY <1>3
  <2> QED
    BY <2>1, <1>2, <1>3, <1>6
<1> QED
  BY <1>4, <1>5, <1>7, <1>8, <1>9, <1>10

-----------------------------------------------------------------------------
(* Every step preserves the invariant.                                     *)

\* What an action of thread t has to say about its thread.
Local(t) ==
    /\ reads' \in [Threads -> 0 .. MaxNest] /\ writes' \in [Threads -> 0 .. MaxNest]
    /\ pc' \in [Threads -> Places] /\ timed' \in [Threads -> BOOLEAN]
    /\ writeEvent' \in Events /\ readEvent' \in Events
    /\ Same(reads, reads', t) /\ Same(writes, writes', t) /\ Same(pc, pc', t)
    /\ pc'[t] # "idle" => writes'[t] = 0
    /\ pc'[t] \in {"readWait", "readWoken", "readTimedOut", "readExpired"} => reads'[t] = 0
    /\ pc'[t] \in {"backWait", "backWoken"} => reads'[t] > 0

\* The four sets after it.
Sets(t) ==
    /\ WriteOwners' = IF writes'[t] > 0 \/ pc'[t] = "writeWoken"
                      THEN WriteOwners \cup {t} ELSE WriteOwners \ {t}
    /\ WriteWaiters' = IF pc'[t] \in {"writeWait", "writeTimedOut"}
                       THEN WriteWaiters \cup {t} ELSE WriteWaiters \ {t}
    /\ ReadOwners' = IF reads'[t] > 0 /\ writes'[t] = 0 /\ pc'[t] = "idle"
                     THEN ReadOwners \cup {t} ELSE ReadOwners \ {t}
    /\ ReadWaiters' = IF pc'[t] \in {"readWait", "readWoken", "readTimedOut", "readExpired",
                                     "backWait", "backWoken"}
                      THEN ReadWaiters \cup {t} ELSE ReadWaiters \ {t}

\* The place of t before it.
Member(t) ==
    /\ t \in WriteOwners <=> writes[t] > 0 \/ pc[t] = "writeWoken"
    /\ t \in WriteWaiters <=> pc[t] \in {"writeWait", "writeTimedOut"}
    /\ t \in ReadOwners <=> reads[t] > 0 /\ writes[t] = 0 /\ pc[t] = "idle"
    /\ t \in ReadWaiters <=> pc[t] \in {"readWait", "readWoken", "readTimedOut", "readExpired",
                                        "backWait", "backWoken"}

\* The counters after it.
Counted(t) ==
    /\ numOfWriter' = numOfWriter
          + (IF t \in WriteOwners' \cup WriteWaiters' THEN 1 ELSE 0)
          - (IF t \in WriteOwners \cup WriteWaiters THEN 1 ELSE 0)
    /\ readerEntered' = readerEntered
          + (IF t \in ReadOwners' THEN 1 ELSE 0) - (IF t \in ReadOwners THEN 1 ELSE 0)
    /\ readerWaiting' = readerWaiting
          + (IF t \in ReadWaiters' THEN 1 ELSE 0) - (IF t \in ReadWaiters THEN 1 ELSE 0)

\* A step of one thread moves no other thread in or out of the sets of owners
\* and waiters.
LEMMA LocalSets ==
    ASSUME LockInv, NEW t \in Threads, Local(t)
    PROVE  /\ Sets(t) /\ Member(t) /\ CallState'
           /\ t \notin WriteOwners \cap WriteWaiters /\ t \notin WriteOwners' \cap WriteWaiters'
<1>1. Member(t)
  BY DEF Member, WriteOwners, WriteWaiters, ReadOwners, ReadWaiters
<1>2. Sets(t)
  <2>1. /\ t \in WriteOwners' <=> (writes'[t] > 0 \/ pc'[t] = "writeWoken")
        /\ t \in WriteWaiters' <=> pc'[t] \in {"writeWait", "writeTimedOut"}
        /\ t \in ReadOwners' <=> (reads'[t] > 0 /\ writes'[t] = 0 /\ pc'[t] = "idle")
        /\ t \in ReadWaiters' <=> pc'[t] \in {"readWait", "readWoken", "readTimedOut",
                                             "readExpired", "backWait", "backWoken"}
    BY DEF WriteOwners, WriteWaiters, ReadOwners, ReadWaiters
  <2>2. /\ WriteOwners \ {t} = WriteOwners' \ {t}
        /\ WriteWaiters \ {t} = WriteWaiters' \ {t}
        /\ ReadOwners \ {t} = ReadOwners' \ {t}
        /\ ReadWaiters \ {t} = ReadWaiters' \ {t}
    BY OnlyOne DEF Local
  <2>3. WriteOwners' = IF writes'[t] > 0 \/ pc'[t] = "writeWoken"
                      THEN WriteOwners \cup {t} ELSE WriteOwners \ {t}
    BY <2>1, <2>2
  <2>4. WriteWaiters' = IF pc'[t] \in {"writeWait", "writeTimedOut"}
                       THEN WriteWaiters \cup {t} ELSE WriteWaiters \ {t}
    BY <2>1, <2>2
  <2>5. ReadOwners' = IF reads'[t] > 0 /\ writes'[t] = 0 /\ pc'[t] = "idle"
                     THEN ReadOwners \cup {t} ELSE ReadOwners \ {t}
    BY <2>1, <2>2
  <2>6. ReadWaiters' = IF pc'[t] \in {"readWait", "readWoken", "readTimedOut", "readExpired",
                                     "backWait", "backWoken"}
                      THEN ReadWaiters \cup {t} ELSE ReadWaiters \ {t}
    BY <2>1, <2>2
  <2> QED
    BY <2>3, <2>4, <2>5, <2>6 DEF Sets
<1>3. CallState'
  BY DEF CallState, LockInv, Local, Same
<1>4. t \notin WriteOwners \cap WriteWaiters
  BY DEF LockInv, CallState, WriteOwners, WriteWaiters, TypeOK
<1>5. t \notin WriteOwners' \cap WriteWaiters'
  BY DEF Local, WriteOwners, WriteWaiters
<1> QED
  BY <1>1, <1>2, <1>3, <1>4, <1>5

\* If it changes the counters by what it does to the sets, they still agree.
LEMMA LocalInv ==
    ASSUME LockInv, NEW t \in Threads, Local(t), Counted(t)
    PROVE  /\ TypeOK' /\ CallState' /\ CountersAgree'
           /\ numOfWriter' = 0 <=> WriteOwners' \cup WriteWaiters' = {}
           /\ readerEntered' = 0 <=> ReadOwners' = {}
           /\ readerWaiting' = 0 <=> ReadWaiters' = {}
<1>1. CountersAgree'
  BY LocalSets, CountersFollow DEF Local, Counted, LockInv
<1>2. /\ numOfWriter' \in Nat /\ readerEntered' \in Nat /\ readerWaiting' \in Nat
      /\ numOfWriter' = 0 <=> WriteOwners' \cup WriteWaiters' = {}
      /\ readerEntered' = 0 <=> ReadOwners' = {}
      /\ readerWaiting' = 0 <=> ReadWaiters' = {}
  <2>1. /\ WriteOwners' \in SUBSET Threads /\ WriteWaiters' \in SUBSET Threads
        /\ ReadOwners' \in SUBSET Threads /\ ReadWaiters' \in SUBSET Threads
    BY DEF WriteOwners, WriteWaiters, ReadOwners, ReadWaiters
  <2>2. /\ Cardinality(WriteOwners') \in Nat /\ Cardinality(WriteWaiters') \in Nat
        /\ Cardinality(ReadOwners') \in Nat /\ Cardinality(ReadWaiters') \in Nat
        /\ Cardinality(WriteOwners') = 0 <=> WriteOwners' = {}
        /\ Cardinality(WriteWaiters') = 0 <=> WriteWaiters' = {}
        /\ Cardinality(ReadOwners') = 0 <=> ReadOwners' = {}
        /\ Cardinality(ReadWaiters') = 0 <=> ReadWaiters' = {}
    BY <2>1, CardSmall
  <2>3. (WriteOwners' \cup WriteWaiters' = {}) <=> (WriteOwners' = {} /\ WriteWaiters' = {})
    OBVIOUS
  <2>4. /\ numOfWriter' = Cardinality(WriteOwners') + Cardinality(WriteWaiters')
        /\ readerEntered' = Cardinality(ReadOwners')
        /\ readerWaiting' = Cardinality(ReadWaiters')
    BY <1>1 DEF CountersAgree
  <2>5. numOfWriter' = 0 <=> (Cardinality(WriteOwners') = 0 /\ Cardinality(WriteWaiters') = 0)
    BY <2>2, <2>4
  <2> QED
    BY <2>2, <2>3, <2>4, <2>5
<1> QED
  BY <1>1, <1>2, LocalSets DEF TypeOK, Local

\* One lemma per routine: AcquireReaderLock, of a new or of a nested owner,
LEMMA AcquireReaderInv ==
    ASSUME LockInv, NEW t \in Threads, NEW timeout \in BOOLEAN, AcquireReaderLock(t, timeout)
    PROVE  LockInv'
<1>1. Local(t)
  BY NestAssumption
  DEF LockInv, TypeOK, CallState, Local, Same, Places, Events, AcquireReaderLock, ReaderWait,
      CreateIfNone, Goto, Add, InMap, implVars
<1>2. Sets(t) /\ Member(t)
  BY <1>1, LocalSets
<1>3. reads[t] \in 0 .. MaxNest /\ writes[t] \in 0 .. MaxNest
  BY DEF LockInv, TypeOK
<1>4. Counted(t)
  BY <1>2, <1>3, CountersSay
  DEF Counted, Sets, Member, LockInv, TypeOK, CallState, AcquireReaderLock, ReaderWait,
      CreateIfNone, Goto, Add, InMap, implVars
<1>5. /\ TypeOK' /\ CallState' /\ CountersAgree'
      /\ numOfWriter' = 0 <=> WriteOwners' \cup WriteWaiters' = {}
      /\ readerEntered' = 0 <=> ReadOwners' = {}
      /\ readerWaiting' = 0 <=> ReadWaiters' = {}
  BY <1>1, <1>4, LocalInv
<1>6. MutualExclusion'
  BY <1>2, <1>3, CountersSay
  DEF Sets, Member, LockInv, TypeOK, CallState, MutualExclusion, Grant, AcquireReaderLock,
      ReaderWait, CreateIfNone, Goto, Add, InMap, implVars
<1>7. Grant'
  BY <1>2, <1>3, <1>5, CountersSay
  DEF Sets, Member, LockInv, TypeOK, CallState, MutualExclusion, Grant, AcquireReaderLock,
      ReaderWait, CreateIfNone, Goto, Add, InMap, implVars
<1>8. HandlesOpen'
  <2>1. readEvent' # "none" <=> readerWaiting' # 0
    BY <1>2, CountersSay
    DEF Member, LockInv, TypeOK, HandlesOpen, AcquireReaderLock, ReaderWait, CreateIfNone, Goto,
        Add, InMap, implVars
  <2>2. WriteWaiters' # {} => writeEvent' # "none"
    BY <1>2, <1>3, CountersSay
    DEF Sets, Member, LockInv, TypeOK, CallState, HandlesOpen, Grant, AcquireReaderLock,
        ReaderWait, CreateIfNone, Goto, Add, InMap, implVars
  <2>3. writeEvent' # "none" => WriteWaiters' \cup WriteOwners' # {}
    BY <1>5, <1>7 DEF Grant
  <2> QED
    BY <1>5, <2>1, <2>2, <2>3 DEF HandlesOpen
<1>9. NoSleepOnFreeLock'
  <2>1. WriteWaiters' # {} /\ WriteOwners' = {} /\ ReadOwners' = {} => writeEvent' = "set"
    BY <1>2, <1>3, <1>5, CountersSay
    DEF Sets, Member, LockInv, TypeOK, CallState, MutualExclusion, HandlesOpen,
        NoSleepOnFreeLock, AcquireReaderLock, ReaderWait, CreateIfNone, Goto, Add, InMap,
        implVars
  <2>2. readerWaiting' # 0 /\ numOfWriter' = 0 => readEvent' = "set"
    BY <1>2, <1>3, CountersSay
    DEF Sets, Member, LockInv, TypeOK, CallState, HandlesOpen, NoSleepOnFreeLock,
        AcquireReaderLock, ReaderWait, CreateIfNone, Goto, Add, InMap, implVars
  <2> QED
    BY <1>5, <2>1, <2>2 DEF NoSleepOnFreeLock
<1> QED
  BY <1>5, <1>6, <1>7, <1>8, <1>9 DEF LockInv

\* the end of a reader's wait, by the event or in time,
LEMMA ReaderWakeInv ==
    ASSUME LockInv, NEW t \in Threads, ReaderWake(t)
    PROVE  LockInv'
<1>1. Local(t)
  BY NestAssumption
  DEF LockInv, TypeOK, CallState, Local, Same, Places, Events, ReaderWake, Goto, implVars
<1>2. Sets(t) /\ Member(t)
  BY <1>1, LocalSets
<1>3. reads[t] \in 0 .. MaxNest /\ writes[t] \in 0 .. MaxNest
  BY DEF LockInv, TypeOK
<1>4. Counted(t)
  BY <1>2, <1>3, CountersSay
  DEF Counted, Sets, Member, LockInv, TypeOK, CallState, ReaderWake, Goto, implVars
<1>5. /\ TypeOK' /\ CallState' /\ CountersAgree'
      /\ numOfWriter' = 0 <=> WriteOwners' \cup WriteWaiters' = {}
      /\ readerEntered' = 0 <=> ReadOwners' = {}
      /\ readerWaiting' = 0 <=> ReadWaiters' = {}
  BY <1>1, <1>4, LocalInv
<1>6. MutualExclusion'
  BY <1>2, <1>3, CountersSay
  DEF Sets, Member, LockInv, TypeOK, CallState, MutualExclusion, Grant, ReaderWake, Goto,
      implVars
<1>7. Grant'
  BY <1>2, <1>3, <1>5, CountersSay
  DEF Sets, Member, LockInv, TypeOK, CallState, MutualExclusion, Grant, ReaderWake, Goto,
      implVars
<1>8. HandlesOpen'
  <2>1. readEvent' # "none" <=> readerWaiting' # 0
    BY <1>2, CountersSay DEF Member, LockInv, TypeOK, HandlesOpen, ReaderWake, Goto, implVars
  <2>2. WriteWaiters' # {} => writeEvent' # "none"
    BY <1>2, <1>3, CountersSay
    DEF Sets, Member, LockInv, TypeOK, CallState, HandlesOpen, Grant, ReaderWake, Goto, implVars
  <2>3. writeEvent' # "none" => WriteWaiters' \cup WriteOwners' # {}
    BY <1>5, <1>7 DEF Grant
  <2> QED
    BY <1>5, <2>1, <2>2, <2>3 DEF HandlesOpen
<1>9. NoSleepOnFreeLock'
  <2>1. WriteWaiters' # {} /\ WriteOwners' = {} /\ ReadOwners' = {} => writeEvent' = "set"
    BY <1>2, <1>3, <1>5, CountersSay
    DEF Sets, Member, LockInv, TypeOK, CallState, MutualExclusion, HandlesOpen,
        NoSleepOnFreeLock, ReaderWake, Goto, implVars
  <2>2. readerWaiting' # 0 /\ numOfWriter' = 0 => readEvent' = "set"
    BY <1>2, <1>3, CountersSay
    DEF Sets, Member, LockInv, TypeOK, CallState, HandlesOpen, NoSleepOnFreeLock, ReaderWake,
        Goto, implVars
  <2> QED
    BY <1>5, <2>1, <2>2 DEF NoSleepOnFreeLock
<1> QED
  BY <1>5, <1>6, <1>7, <1>8, <1>9 DEF LockInv

\* a woken reader that finds no writer,
LEMMA ReaderEnterInv ==
    ASSUME LockInv, NEW t \in Threads, ReaderEnter(t)
    PROVE  LockInv'
<1>1. Local(t)
  BY NestAssumption
  DEF LockInv, TypeOK, CallState, Local, Same, Places, Events, ReaderEnter, LeaveReaderWait,
      Goto, Add
<1>2. Sets(t) /\ Member(t)
  BY <1>1, LocalSets
<1>3. reads[t] \in 0 .. MaxNest /\ writes[t] \in 0 .. MaxNest
  BY DEF LockInv, TypeOK
<1>4. Counted(t)
  BY <1>2, <1>3, CountersSay
  DEF Counted, Sets, Member, LockInv, TypeOK, CallState, ReaderEnter, LeaveReaderWait, Goto, Add
<1>5. /\ TypeOK' /\ CallState' /\ CountersAgree'
      /\ numOfWriter' = 0 <=> WriteOwners' \cup WriteWaiters' = {}
      /\ readerEntered' = 0 <=> ReadOwners' = {}
      /\ readerWaiting' = 0 <=> ReadWaiters' = {}
  BY <1>1, <1>4, LocalInv
<1>6. MutualExclusion'
  BY <1>2, <1>3, CountersSay
  DEF Sets, Member, LockInv, TypeOK, CallState, MutualExclusion, Grant, ReaderEnter,
      LeaveReaderWait, Goto, Add
<1>7. Grant'
  BY <1>2, <1>3, <1>5, CountersSay
  DEF Sets, Member, LockInv, TypeOK, CallState, MutualExclusion, Grant, ReaderEnter,
      LeaveReaderWait, Goto, Add
<1>8. HandlesOpen'
  <2>1. readEvent' # "none" <=> readerWaiting' # 0
    BY <1>2, CountersSay
    DEF Member, LockInv, TypeOK, HandlesOpen, ReaderEnter, LeaveReaderWait, Goto, Add
  <2>2. WriteWaiters' # {} => writeEvent' # "none"
    BY <1>2, <1>3, CountersSay
    DEF Sets, Member, LockInv, TypeOK, CallState, HandlesOpen, Grant, ReaderEnter,
        LeaveReaderWait, Goto, Add
  <2>3. writeEvent' # "none" => WriteWaiters' \cup WriteOwners' # {}
    BY <1>5, <1>7 DEF Grant
  <2> QED
    BY <1>5, <2>1, <2>2, <2>3 DEF HandlesOpen
<1>9. NoSleepOnFreeLock'
  <2>1. WriteWaiters' # {} /\ WriteOwners' = {} /\ ReadOwners' = {} => writeEvent' = "set"
    BY <1>2, <1>3, <1>5, CountersSay
    DEF Sets, Member, LockInv, TypeOK, CallState, MutualExclusion, HandlesOpen,
        NoSleepOnFreeLock, ReaderEnter, LeaveReaderWait, Goto, Add
  <2>2. readerWaiting' # 0 /\ numOfWriter' = 0 => readEvent' = "set"
    BY <1>2, <1>3, CountersSay
    DEF Sets, Member, LockInv, TypeOK, CallState, HandlesOpen, NoSleepOnFreeLock, ReaderEnter,
        LeaveReaderWait, Goto, Add
  <2> QED
    BY <1>5, <2>1, <2>2 DEF NoSleepOnFreeLock
<1> QED
  BY <1>5, <1>6, <1>7, <1>8, <1>9 DEF LockInv

\* one that finds a writer and waits again,
LEMMA ReaderRetryInv ==
    ASSUME LockInv, NEW t \in Threads, ReaderRetry(t)
    PROVE  LockInv'
<1>1. Local(t)
  BY NestAssumption
  DEF LockInv, TypeOK, CallState, Local, Same, Places, Events, ReaderRetry, Goto, implVars
<1>2. Sets(t) /\ Member(t)
  BY <1>1, LocalSets
<1>3. reads[t] \in 0 .. MaxNest /\ writes[t] \in 0 .. MaxNest
  BY DEF LockInv, TypeOK
<1>4. Counted(t)
  BY <1>2, <1>3, CountersSay
  DEF Counted, Sets, Member, LockInv, TypeOK, CallState, ReaderRetry, Goto, implVars
<1>5. /\ TypeOK' /\ CallState' /\ CountersAgree'
      /\ numOfWriter' = 0 <=> WriteOwners' \cup WriteWaiters' = {}
      /\ readerEntered' = 0 <=> ReadOwners' = {}
      /\ readerWaiting' = 0 <=> ReadWaiters' = {}
  BY <1>1, <1>4, LocalInv
<1>6. MutualExclusion'
  BY <1>2, <1>3, CountersSay
  DEF Sets, Member, LockInv, TypeOK, CallState, MutualExclusion, Grant, ReaderRetry, Goto,
      implVars
<1>7. Grant'
  BY <1>2, <1>3, <1>5, CountersSay
  DEF Sets, Member, LockInv, TypeOK, CallState, MutualExclusion, Grant, ReaderRetry, Goto,
      implVars
<1>8. HandlesOpen'
  <2>1. readEvent' # "none" <=> readerWaiting' # 0
    BY <1>2, CountersSay DEF Member, LockInv, TypeOK, HandlesOpen, ReaderRetry, Goto, implVars
  <2>2. WriteWaiters' # {} => writeEvent' # "none"
    BY <1>2, <1>3, CountersSay
    DEF Sets, Member, LockInv, TypeOK, CallState, HandlesOpen, Grant, ReaderRetry, Goto,
        implVars
  <2>3. writeEvent' # "none" => WriteWaiters' \cup WriteOwners' # {}
    BY <1>5, <1>7 DEF Grant
  <2> QED
    BY <1>5, <2>1, <2>2, <2>3 DEF HandlesOpen
<1>9. NoSleepOnFreeLock'
  <2>1. WriteWaiters' # {} /\ WriteOwners' = {} /\ ReadOwners' = {} => writeEvent' = "set"
    BY <1>2, <1>3, <1>5, CountersSay
    DEF Sets, Member, LockInv, TypeOK, CallState, MutualExclusion, HandlesOpen,
        NoSleepOnFreeLock, ReaderRetry, Goto, implVars
  <2>2. readerWaiting' # 0 /\ numOfWriter' = 0 => readEvent' = "set"
    BY <1>2, <1>3, CountersSay
    DEF Sets, Member, LockInv, TypeOK, CallState, HandlesOpen, NoSleepOnFreeLock, ReaderRetry,
        Goto, implVars
  <2> QED
    BY <1>5, <2>1, <2>2 DEF NoSleepOnFreeLock
<1> QED
  BY <1>5, <1>6, <1>7, <1>8, <1>9 DEF LockInv

\* and one whose time is over;
LEMMA ReaderGiveUpInv ==
    ASSUME LockInv, NEW t \in Threads, ReaderGiveUp(t)
    PROVE  LockInv'
<1>1. Local(t)
  BY NestAssumption
  DEF LockInv, TypeOK, CallState, Local, Same, Places, Events, ReaderGiveUp, LeaveReaderWait,
      Goto
<1>2. Sets(t) /\ Member(t)
  BY <1>1, LocalSets
<1>3. reads[t] \in 0 .. MaxNest /\ writes[t] \in 0 .. MaxNest
  BY DEF LockInv, TypeOK
<1>4. Counted(t)
  BY <1>2, <1>3, CountersSay
  DEF Counted, Sets, Member, LockInv, TypeOK, CallState, ReaderGiveUp, LeaveReaderWait, Goto
<1>5. /\ TypeOK' /\ CallState' /\ CountersAgree'
      /\ numOfWriter' = 0 <=> WriteOwners' \cup WriteWaiters' = {}
      /\ readerEntered' = 0 <=> ReadOwners' = {}
      /\ readerWaiting' = 0 <=> ReadWaiters' = {}
  BY <1>1, <1>4, LocalInv
<1>6. MutualExclusion'
  BY <1>2, <1>3, CountersSay
  DEF Sets, Member, LockInv, TypeOK, CallState, MutualExclusion, Grant, ReaderGiveUp,
      LeaveReaderWait, Goto
<1>7. Grant'
  BY <1>2, <1>3, <1>5, CountersSay
  DEF Sets, Member, LockInv, TypeOK, CallState, MutualExclusion, Grant, ReaderGiveUp,
      LeaveReaderWait, Goto
<1>8. HandlesOpen'
  <2>1. readEvent' # "none" <=> readerWaiting' # 0
    BY <1>2, CountersSay
    DEF Member, LockInv, TypeOK, HandlesOpen, ReaderGiveUp, LeaveReaderWait, Goto
  <2>2. WriteWaiters' # {} => writeEvent' # "none"
    BY <1>2, <1>3, CountersSay
    DEF Sets, Member, LockInv, TypeOK, CallState, HandlesOpen, Grant, ReaderGiveUp,
        LeaveReaderWait, Goto
  <2>3. writeEvent' # "none" => WriteWaiters' \cup WriteOwners' # {}
    BY <1>5, <1>7 DEF Grant
  <2> QED
    BY <1>5, <2>1, <2>2, <2>3 DEF HandlesOpen
<1>9. NoSleepOnFreeLock'
  <2>1. WriteWaiters' # {} /\ WriteOwners' = {} /\ ReadOwners' = {} => writeEvent' = "set"
    BY <1>2, <1>3, <1>5, CountersSay
    DEF Sets, Member, LockInv, TypeOK, CallState, MutualExclusion, HandlesOpen,
        NoSleepOnFreeLock, ReaderGiveUp, LeaveReaderWait, Goto
  <2>2. readerWaiting' # 0 /\ numOfWriter' = 0 => readEvent' = "set"
    BY <1>2, <1>3, CountersSay
    DEF Sets, Member, LockInv, TypeOK, CallState, HandlesOpen, NoSleepOnFreeLock, ReaderGiveUp,
        LeaveReaderWait, Goto
  <2> QED
    BY <1>5, <2>1, <2>2 DEF NoSleepOnFreeLock
<1> QED
  BY <1>5, <1>6, <1>7, <1>8, <1>9 DEF LockInv

\* ReleaseReaderLock, which lets a writer in when it was the last;
LEMMA ReleaseReaderInv ==
    ASSUME LockInv, NEW t \in Threads, ReleaseReaderLock(t)
    PROVE  LockInv'
<1>1. Local(t)
  BY NestAssumption
  DEF LockInv, TypeOK, CallState, Local, Same, Places, Events, ReleaseReaderLock, ReaderRelease,
      SetIfOpen, Add, implVars
<1>2. Sets(t) /\ Member(t)
  BY <1>1, LocalSets
<1>3. reads[t] \in 0 .. MaxNest /\ writes[t] \in 0 .. MaxNest
  BY DEF LockInv, TypeOK
<1>4. Counted(t)
  BY <1>2, <1>3, CountersSay
  DEF Counted, Sets, Member, LockInv, TypeOK, CallState, ReleaseReaderLock, ReaderRelease,
      SetIfOpen, Add, implVars
<1>5. /\ TypeOK' /\ CallState' /\ CountersAgree'
      /\ numOfWriter' = 0 <=> WriteOwners' \cup WriteWaiters' = {}
      /\ readerEntered' = 0 <=> ReadOwners' = {}
      /\ readerWaiting' = 0 <=> ReadWaiters' = {}
  BY <1>1, <1>4, LocalInv
<1>6. MutualExclusion'
  BY <1>2, <1>3, CountersSay
  DEF Sets, Member, LockInv, TypeOK, CallState, MutualExclusion, Grant, ReleaseReaderLock,
      ReaderRelease, SetIfOpen, Add, implVars
<1>7. Grant'
  BY <1>2, <1>3, <1>5, CountersSay
  DEF Sets, Member, LockInv, TypeOK, CallState, MutualExclusion, Grant, ReleaseReaderLock,
      ReaderRelease, SetIfOpen, Add, implVars
<1>8. HandlesOpen'
  <2>1. readEvent' # "none" <=> readerWaiting' # 0
    BY <1>2, CountersSay
    DEF Member, LockInv, TypeOK, HandlesOpen, ReleaseReaderLock, ReaderRelease, SetIfOpen, Add,
        implVars
  <2>2. WriteWaiters' # {} => writeEvent' # "none"
    BY <1>2, <1>3, CountersSay
    DEF Sets, Member, LockInv, TypeOK, CallState, HandlesOpen, Grant, ReleaseReaderLock,
        ReaderRelease, SetIfOpen, Add, implVars
  <2>3. writeEvent' # "none" => WriteWaiters' \cup WriteOwners' # {}
    BY <1>5, <1>7 DEF Grant
  <2> QED
    BY <1>5, <2>1, <2>2, <2>3 DEF HandlesOpen
<1>9. NoSleepOnFreeLock'
  <2>1. WriteWaiters' # {} /\ WriteOwners' = {} /\ ReadOwners' = {} => writeEvent' = "set"
    BY <1>2, <1>3, <1>5, CountersSay
    DEF Sets, Member, LockInv, TypeOK, CallState, MutualExclusion, HandlesOpen,
        NoSleepOnFreeLock, ReleaseReaderLock, ReaderRelease, SetIfOpen, Add, implVars
  <2>2. readerWaiting' # 0 /\ numOfWriter' = 0 => readEvent' = "set"
    BY <1>2, <1>3, CountersSay
    DEF Sets, Member, LockInv, TypeOK, CallState, HandlesOpen, NoSleepOnFreeLock,
        ReleaseReaderLock, ReaderRelease, SetIfOpen, Add, implVars
  <2> QED
    BY <1>5, <2>1, <2>2 DEF NoSleepOnFreeLock
<1> QED
  BY <1>5, <1>6, <1>7, <1>8, <1>9 DEF LockInv

\* AcquireWriterLock by its owner or by a thread without access,
LEMMA AcquireWriterInv ==
    ASSUME LockInv, NEW t \in Threads, NEW timeout \in BOOLEAN, AcquireWriterLock(t, timeout)
    PROVE  LockInv'
<1>1. Local(t)
  BY NestAssumption
  DEF LockInv, TypeOK, CallState, Local, Same, Places, Events, AcquireWriterLock, WriterWait,
      CreateIfNone, Goto, Add, InMap, implVars
<1>2. Sets(t) /\ Member(t)
  BY <1>1, LocalSets
<1>3. reads[t] \in 0 .. MaxNest /\ writes[t] \in 0 .. MaxNest
  BY DEF LockInv, TypeOK
<1>4. Counted(t)
  BY <1>2, <1>3, CountersSay
  DEF Counted, Sets, Member, LockInv, TypeOK, CallState, AcquireWriterLock, WriterWait,
      CreateIfNone, Goto, Add, InMap, implVars
<1>5. /\ TypeOK' /\ CallState' /\ CountersAgree'
      /\ numOfWriter' = 0 <=> WriteOwners' \cup WriteWaiters' = {}
      /\ readerEntered' = 0 <=> ReadOwners' = {}
      /\ readerWaiting' = 0 <=> ReadWaiters' = {}
  BY <1>1, <1>4, LocalInv
<1>6. MutualExclusion'
  BY <1>2, <1>3, CountersSay
  DEF Sets, Member, LockInv, TypeOK, CallState, MutualExclusion, Grant, AcquireWriterLock,
      WriterWait, CreateIfNone, Goto, Add, InMap, implVars
<1>7. Grant'
  BY <1>2, <1>3, <1>5, CountersSay
  DEF Sets, Member, LockInv, TypeOK, CallState, MutualExclusion, Grant, AcquireWriterLock,
      WriterWait, CreateIfNone, Goto, Add, InMap, implVars
<1>8. HandlesOpen'
  <2>1. readEvent' # "none" <=> readerWaiting' # 0
    BY <1>2, CountersSay
    DEF Member, LockInv, TypeOK, HandlesOpen, AcquireWriterLock, WriterWait, CreateIfNone, Goto,
        Add, InMap, implVars
  <2>2. WriteWaiters' # {} => writeEvent' # "none"
    BY <1>2, <1>3, CountersSay
    DEF Sets, Member, LockInv, TypeOK, CallState, HandlesOpen, Grant, AcquireWriterLock,
        WriterWait, CreateIfNone, Goto, Add, InMap, implVars
  <2>3. writeEvent' # "none" => WriteWaiters' \cup WriteOwners' # {}
    BY <1>5, <1>7 DEF Grant
  <2> QED
    BY <1>5, <2>1, <2>2, <2>3 DEF HandlesOpen
<1>9. NoSleepOnFreeLock'
  <2>1. WriteWaiters' # {} /\ WriteOwners' = {} /\ ReadOwners' = {} => writeEvent' = "set"
    BY <1>2, <1>3, <1>5, CountersSay
    DEF Sets, Member, LockInv, TypeOK, CallState, MutualExclusion, HandlesOpen,
        NoSleepOnFreeLock, AcquireWriterLock, WriterWait, CreateIfNone, Goto, Add, InMap,
        implVars
  <2>2. readerWaiting' # 0 /\ numOfWriter' = 0 => readEvent' = "set"
    BY <1>2, <1>3, CountersSay
    DEF Sets, Member, LockInv, TypeOK, CallState, HandlesOpen, NoSleepOnFreeLock,
        AcquireWriterLock, WriterWait, CreateIfNone, Goto, Add, InMap, implVars
  <2> QED
    BY <1>5, <2>1, <2>2 DEF NoSleepOnFreeLock
<1> QED
  BY <1>5, <1>6, <1>7, <1>8, <1>9 DEF LockInv

\* an upgrade by the only reader,
LEMMA UpgradeAtOnceInv ==
    ASSUME LockInv, NEW t \in Threads, UpgradeAtOnce(t)
    PROVE  LockInv'
<1>1. Local(t)
  BY NestAssumption
  DEF LockInv, TypeOK, CallState, Local, Same, Places, Events, UpgradeAtOnce, Add
<1>2. Sets(t) /\ Member(t)
  BY <1>1, LocalSets
<1>3. reads[t] \in 0 .. MaxNest /\ writes[t] \in 0 .. MaxNest
  BY DEF LockInv, TypeOK
<1>4. Counted(t)
  BY <1>2, <1>3, CountersSay
  DEF Counted, Sets, Member, LockInv, TypeOK, CallState, UpgradeAtOnce, Add
<1>5. /\ TypeOK' /\ CallState' /\ CountersAgree'
      /\ numOfWriter' = 0 <=> WriteOwners' \cup WriteWaiters' = {}
      /\ readerEntered' = 0 <=> ReadOwners' = {}
      /\ readerWaiting' = 0 <=> ReadWaiters' = {}
  BY <1>1, <1>4, LocalInv
<1>6. MutualExclusion'
  BY <1>2, <1>3, CountersSay
  DEF Sets, Member, LockInv, TypeOK, CallState, MutualExclusion, Grant, UpgradeAtOnce, Add
<1>7. Grant'
  BY <1>2, <1>3, <1>5, CountersSay
  DEF Sets, Member, LockInv, TypeOK, CallState, MutualExclusion, Grant, UpgradeAtOnce, Add
<1>8. HandlesOpen'
  <2>1. readEvent' # "none" <=> readerWaiting' # 0
    BY <1>2, CountersSay DEF Member, LockInv, TypeOK, HandlesOpen, UpgradeAtOnce, Add
  <2>2. WriteWaiters' # {} => writeEvent' # "none"
    BY <1>2, <1>3, CountersSay
    DEF Sets, Member, LockInv, TypeOK, CallState, HandlesOpen, Grant, UpgradeAtOnce, Add
  <2>3. writeEvent' # "none" => WriteWaiters' \cup WriteOwners' # {}
    BY <1>5, <1>7 DEF Grant
  <2> QED
    BY <1>5, <2>1, <2>2, <2>3 DEF HandlesOpen
<1>9. NoSleepOnFreeLock'
  <2>1. WriteWaiters' # {} /\ WriteOwners' = {} /\ ReadOwners' = {} => writeEvent' = "set"
    BY <1>2, <1>3, <1>5, CountersSay
    DEF Sets, Member, LockInv, TypeOK, CallState, MutualExclusion, HandlesOpen,
        NoSleepOnFreeLock, UpgradeAtOnce, Add
  <2>2. readerWaiting' # 0 /\ numOfWriter' = 0 => readEvent' = "set"
    BY <1>2, <1>3, CountersSay
    DEF Sets, Member, LockInv, TypeOK, CallState, HandlesOpen, NoSleepOnFreeLock, UpgradeAtOnce,
        Add
  <2> QED
    BY <1>5, <2>1, <2>2 DEF NoSleepOnFreeLock
<1> QED
  BY <1>5, <1>6, <1>7, <1>8, <1>9 DEF LockInv

\* and one that gives its read access up and waits;
LEMMA UpgradeByWaitingInv ==
    ASSUME LockInv, NEW t \in Threads, NEW timeout \in BOOLEAN, UpgradeByWaiting(t, timeout)
    PROVE  LockInv'
<1>1. Local(t)
  BY NestAssumption
  DEF LockInv, TypeOK, CallState, Local, Same, Places, Events, UpgradeByWaiting, WriterWait,
      CreateIfNone, Goto
<1>2. Sets(t) /\ Member(t)
  BY <1>1, LocalSets
<1>3. reads[t] \in 0 .. MaxNest /\ writes[t] \in 0 .. MaxNest
  BY DEF LockInv, TypeOK
<1>4. Counted(t)
  BY <1>2, <1>3, CountersSay
  DEF Counted, Sets, Member, LockInv, TypeOK, CallState, UpgradeByWaiting, WriterWait,
      CreateIfNone, Goto
<1>5. /\ TypeOK' /\ CallState' /\ CountersAgree'
      /\ numOfWriter' = 0 <=> WriteOwners' \cup WriteWaiters' = {}
      /\ readerEntered' = 0 <=> ReadOwners' = {}
      /\ readerWaiting' = 0 <=> ReadWaiters' = {}
  BY <1>1, <1>4, LocalInv
<1>6. MutualExclusion'
  BY <1>2, <1>3, CountersSay
  DEF Sets, Member, LockInv, TypeOK, CallState, MutualExclusion, Grant, UpgradeByWaiting,
      WriterWait, CreateIfNone, Goto
<1>7. Grant'
  BY <1>2, <1>3, <1>5, CountersSay
  DEF Sets, Member, LockInv, TypeOK, CallState, MutualExclusion, Grant, UpgradeByWaiting,
      WriterWait, CreateIfNone, Goto
<1>8. HandlesOpen'
  <2>1. readEvent' # "none" <=> readerWaiting' # 0
    BY <1>2, CountersSay
    DEF Member, LockInv, TypeOK, HandlesOpen, UpgradeByWaiting, WriterWait, CreateIfNone, Goto
  <2>2. WriteWaiters' # {} => writeEvent' # "none"
    BY <1>2, <1>3, CountersSay
    DEF Sets, Member, LockInv, TypeOK, CallState, HandlesOpen, Grant, UpgradeByWaiting,
        WriterWait, CreateIfNone, Goto
  <2>3. writeEvent' # "none" => WriteWaiters' \cup WriteOwners' # {}
    BY <1>5, <1>7 DEF Grant
  <2> QED
    BY <1>5, <2>1, <2>2, <2>3 DEF HandlesOpen
<1>9. NoSleepOnFreeLock'
  <2>1. WriteWaiters' # {} /\ WriteOwners' = {} /\ ReadOwners' = {} => writeEvent' = "set"
    BY <1>2, <1>3, <1>5, CountersSay
    DEF Sets, Member, LockInv, TypeOK, CallState, MutualExclusion, HandlesOpen,
        NoSleepOnFreeLock, UpgradeByWaiting, WriterWait, CreateIfNone, Goto
  <2>2. readerWaiting' # 0 /\ numOfWriter' = 0 => readEvent' = "set"
    BY <1>2, <1>3, CountersSay
    DEF Sets, Member, LockInv, TypeOK, CallState, HandlesOpen, NoSleepOnFreeLock,
        UpgradeByWaiting, WriterWait, CreateIfNone, Goto
  <2> QED
    BY <1>5, <2>1, <2>2 DEF NoSleepOnFreeLock
<1> QED
  BY <1>5, <1>6, <1>7, <1>8, <1>9 DEF LockInv

\* the signal a waiting writer takes,
LEMMA WriterWakeInv ==
    ASSUME LockInv, NEW t \in Threads, WriterWake(t)
    PROVE  LockInv'
<1>1. Local(t)
  BY NestAssumption DEF LockInv, TypeOK, CallState, Local, Same, Places, Events, WriterWake, Goto
<1>2. Sets(t) /\ Member(t)
  BY <1>1, LocalSets
<1>3. reads[t] \in 0 .. MaxNest /\ writes[t] \in 0 .. MaxNest
  BY DEF LockInv, TypeOK
<1>4. Counted(t)
  BY <1>2, <1>3, CountersSay
  DEF Counted, Sets, Member, LockInv, TypeOK, CallState, WriterWake, Goto
<1>5. /\ TypeOK' /\ CallState' /\ CountersAgree'
      /\ numOfWriter' = 0 <=> WriteOwners' \cup WriteWaiters' = {}
      /\ readerEntered' = 0 <=> ReadOwners' = {}
      /\ readerWaiting' = 0 <=> ReadWaiters' = {}
  BY <1>1, <1>4, LocalInv
<1>6. MutualExclusion'
  BY <1>2, <1>3, CountersSay
  DEF Sets, Member, LockInv, TypeOK, CallState, MutualExclusion, Grant, WriterWake, Goto
<1>7. Grant'
  BY <1>2, <1>3, <1>5, CountersSay
  DEF Sets, Member, LockInv, TypeOK, CallState, MutualExclusion, Grant, WriterWake, Goto
<1>8. HandlesOpen'
  <2>1. readEvent' # "none" <=> readerWaiting' # 0
    BY <1>2, CountersSay DEF Member, LockInv, TypeOK, HandlesOpen, WriterWake, Goto
  <2>2. WriteWaiters' # {} => writeEvent' # "none"
    BY <1>2, <1>3, CountersSay
    DEF Sets, Member, LockInv, TypeOK, CallState, HandlesOpen, Grant, WriterWake, Goto
  <2>3. writeEvent' # "none" => WriteWaiters' \cup WriteOwners' # {}
    BY <1>5, <1>7 DEF Grant
  <2> QED
    BY <1>5, <2>1, <2>2, <2>3 DEF HandlesOpen
<1>9. NoSleepOnFreeLock'
  <2>1. WriteWaiters' # {} /\ WriteOwners' = {} /\ ReadOwners' = {} => writeEvent' = "set"
    BY <1>2, <1>3, <1>5, CountersSay
    DEF Sets, Member, LockInv, TypeOK, CallState, MutualExclusion, HandlesOpen,
        NoSleepOnFreeLock, WriterWake, Goto
  <2>2. readerWaiting' # 0 /\ numOfWriter' = 0 => readEvent' = "set"
    BY <1>2, <1>3, CountersSay
    DEF Sets, Member, LockInv, TypeOK, CallState, HandlesOpen, NoSleepOnFreeLock, WriterWake,
        Goto
  <2> QED
    BY <1>5, <2>1, <2>2 DEF NoSleepOnFreeLock
<1> QED
  BY <1>5, <1>6, <1>7, <1>8, <1>9 DEF LockInv

\* the timeout that may race it,
LEMMA WriterTimeoutInv ==
    ASSUME LockInv, NEW t \in Threads, WriterTimeout(t)
    PROVE  LockInv'
<1>1. Local(t)
  BY NestAssumption
  DEF LockInv, TypeOK, CallState, Local, Same, Places, Events, WriterTimeout, Goto, implVars
<1>2. Sets(t) /\ Member(t)
  BY <1>1, LocalSets
<1>3. reads[t] \in 0 .. MaxNest /\ writes[t] \in 0 .. MaxNest
  BY DEF LockInv, TypeOK
<1>4. Counted(t)
  BY <1>2, <1>3, CountersSay
  DEF Counted, Sets, Member, LockInv, TypeOK, CallState, WriterTimeout, Goto, implVars
<1>5. /\ TypeOK' /\ CallState' /\ CountersAgree'
      /\ numOfWriter' = 0 <=> WriteOwners' \cup WriteWaiters' = {}
      /\ readerEntered' = 0 <=> ReadOwners' = {}
      /\ readerWaiting' = 0 <=> ReadWaiters' = {}
  BY <1>1, <1>4, LocalInv
<1>6. MutualExclusion'
  BY <1>2, <1>3, CountersSay
  DEF Sets, Member, LockInv, TypeOK, CallState, MutualExclusion, Grant, WriterTimeout, Goto,
      implVars
<1>7. Grant'
  BY <1>2, <1>3, <1>5, CountersSay
  DEF Sets, Member, LockInv, TypeOK, CallState, MutualExclusion, Grant, WriterTimeout, Goto,
      implVars
<1>8. HandlesOpen'
  <2>1. readEvent' # "none" <=> readerWaiting' # 0
    BY <1>2, CountersSay DEF Member, LockInv, TypeOK, HandlesOpen, WriterTimeout, Goto, implVars
  <2>2. WriteWaiters' # {} => writeEvent' # "none"
    BY <1>2, <1>3, CountersSay
    DEF Sets, Member, LockInv, TypeOK, CallState, HandlesOpen, Grant, WriterTimeout, Goto,
        implVars
  <2>3. writeEvent' # "none" => WriteWaiters' \cup WriteOwners' # {}
    BY <1>5, <1>7 DEF Grant
  <2> QED
    BY <1>5, <2>1, <2>2, <2>3 DEF HandlesOpen
<1>9. NoSleepOnFreeLock'
  <2>1. WriteWaiters' # {} /\ WriteOwners' = {} /\ ReadOwners' = {} => writeEvent' = "set"
    BY <1>2, <1>3, <1>5, CountersSay
    DEF Sets, Member, LockInv, TypeOK, CallState, MutualExclusion, HandlesOpen,
        NoSleepOnFreeLock, WriterTimeout, Goto, implVars
  <2>2. readerWaiting' # 0 /\ numOfWriter' = 0 => readEvent' = "set"
    BY <1>2, <1>3, CountersSay
    DEF Sets, Member, LockInv, TypeOK, CallState, HandlesOpen, NoSleepOnFreeLock, WriterTimeout,
        Goto, implVars
  <2> QED
    BY <1>5, <2>1, <2>2 DEF NoSleepOnFreeLock
<1> QED
  BY <1>5, <1>6, <1>7, <1>8, <1>9 DEF LockInv

\* the writer that has the lock now,
LEMMA WriterEnterInv ==
    ASSUME LockInv, NEW t \in Threads, WriterEnter(t)
    PROVE  LockInv'
<1>1. Local(t)
  BY NestAssumption
  DEF LockInv, TypeOK, CallState, Local, Same, Places, Events, WriterEnter, Goto, Add, implVars
<1>2. Sets(t) /\ Member(t)
  BY <1>1, LocalSets
<1>3. reads[t] \in 0 .. MaxNest /\ writes[t] \in 0 .. MaxNest
  BY DEF LockInv, TypeOK
<1>4. Counted(t)
  BY <1>2, <1>3, CountersSay
  DEF Counted, Sets, Member, LockInv, TypeOK, CallState, WriterEnter, Goto, Add, implVars
<1>5. /\ TypeOK' /\ CallState' /\ CountersAgree'
      /\ numOfWriter' = 0 <=> WriteOwners' \cup WriteWaiters' = {}
      /\ readerEntered' = 0 <=> ReadOwners' = {}
      /\ readerWaiting' = 0 <=> ReadWaiters' = {}
  BY <1>1, <1>4, LocalInv
<1>6. MutualExclusion'
  BY <1>2, <1>3, CountersSay
  DEF Sets, Member, LockInv, TypeOK, CallState, MutualExclusion, Grant, WriterEnter, Goto, Add,
      implVars
<1>7. Grant'
  BY <1>2, <1>3, <1>5, CountersSay
  DEF Sets, Member, LockInv, TypeOK, CallState, MutualExclusion, Grant, WriterEnter, Goto, Add,
      implVars
<1>8. HandlesOpen'
  <2>1. readEvent' # "none" <=> readerWaiting' # 0
    BY <1>2, CountersSay
    DEF Member, LockInv, TypeOK, HandlesOpen, WriterEnter, Goto, Add, implVars
  <2>2. WriteWaiters' # {} => writeEvent' # "none"
    BY <1>2, <1>3, CountersSay
    DEF Sets, Member, LockInv, TypeOK, CallState, HandlesOpen, Grant, WriterEnter, Goto, Add,
        implVars
  <2>3. writeEvent' # "none" => WriteWaiters' \cup WriteOwners' # {}
    BY <1>5, <1>7 DEF Grant
  <2> QED
    BY <1>5, <2>1, <2>2, <2>3 DEF HandlesOpen
<1>9. NoSleepOnFreeLock'
  <2>1. WriteWaiters' # {} /\ WriteOwners' = {} /\ ReadOwners' = {} => writeEvent' = "set"
    BY <1>2, <1>3, <1>5, CountersSay
    DEF Sets, Member, LockInv, TypeOK, CallState, MutualExclusion, HandlesOpen,
        NoSleepOnFreeLock, WriterEnter, Goto, Add, implVars
  <2>2. readerWaiting' # 0 /\ numOfWriter' = 0 => readEvent' = "set"
    BY <1>2, <1>3, CountersSay
    DEF Sets, Member, LockInv, TypeOK, CallState, HandlesOpen, NoSleepOnFreeLock, WriterEnter,
        Goto, Add, implVars
  <2> QED
    BY <1>5, <2>1, <2>2 DEF NoSleepOnFreeLock
<1> QED
  BY <1>5, <1>6, <1>7, <1>8, <1>9 DEF LockInv

\* and the one whose time is over: it is the writer after all, or leaves, or was
\* a reader and wants to be one again;
LEMMA WriterGiveUpInv ==
    ASSUME LockInv, NEW t \in Threads, WriterGiveUp(t)
    PROVE  LockInv'
<1>1. Local(t)
  BY NestAssumption
  DEF LockInv, TypeOK, CallState, Local, Same, Places, Events, WriterGiveUp, ReaderWait,
      CreateIfNone, SetIfOpen, InMap, Goto
<1>2. Sets(t) /\ Member(t)
  BY <1>1, LocalSets
<1>3. reads[t] \in 0 .. MaxNest /\ writes[t] \in 0 .. MaxNest
  BY DEF LockInv, TypeOK
<1>4. Counted(t)
  BY <1>2, <1>3, CountersSay
  DEF Counted, Sets, Member, LockInv, TypeOK, CallState, WriterGiveUp, ReaderWait, CreateIfNone,
      SetIfOpen, InMap, Goto
<1>5. /\ TypeOK' /\ CallState' /\ CountersAgree'
      /\ numOfWriter' = 0 <=> WriteOwners' \cup WriteWaiters' = {}
      /\ readerEntered' = 0 <=> ReadOwners' = {}
      /\ readerWaiting' = 0 <=> ReadWaiters' = {}
  BY <1>1, <1>4, LocalInv
<1>6. MutualExclusion'
  BY <1>2, <1>3, CountersSay
  DEF Sets, Member, LockInv, TypeOK, CallState, MutualExclusion, Grant, WriterGiveUp,
      ReaderWait, CreateIfNone, SetIfOpen, InMap, Goto
<1>7. Grant'
  BY <1>2, <1>3, <1>5, CountersSay
  DEF Sets, Member, LockInv, TypeOK, CallState, MutualExclusion, Grant, WriterGiveUp,
      ReaderWait, CreateIfNone, SetIfOpen, InMap, Goto
<1>8. HandlesOpen'
  <2>1. readEvent' # "none" <=> readerWaiting' # 0
    BY <1>2, CountersSay
    DEF Member, LockInv, TypeOK, HandlesOpen, WriterGiveUp, ReaderWait, CreateIfNone, SetIfOpen,
        InMap, Goto
  <2>2. WriteWaiters' # {} => writeEvent' # "none"
    BY <1>2, <1>3, CountersSay
    DEF Sets, Member, LockInv, TypeOK, CallState, HandlesOpen, Grant, WriterGiveUp, ReaderWait,
        CreateIfNone, SetIfOpen, InMap, Goto
  <2>3. writeEvent' # "none" => WriteWaiters' \cup WriteOwners' # {}
    BY <1>5, <1>7 DEF Grant
  <2> QED
    BY <1>5, <2>1, <2>2, <2>3 DEF HandlesOpen
<1>9. NoSleepOnFreeLock'
  <2>1. WriteWaiters' # {} /\ WriteOwners' = {} /\ ReadOwners' = {} => writeEvent' = "set"
    BY <1>2, <1>3, <1>5, CountersSay
    DEF Sets, Member, LockInv, TypeOK, CallState, MutualExclusion, HandlesOpen,
        NoSleepOnFreeLock, WriterGiveUp, ReaderWait, CreateIfNone, SetIfOpen, InMap, Goto
  <2>2. readerWaiting' # 0 /\ numOfWriter' = 0 => readEvent' = "set"
    BY <1>2, <1>3, CountersSay
    DEF Sets, Member, LockInv, TypeOK, CallState, HandlesOpen, NoSleepOnFreeLock, WriterGiveUp,
        ReaderWait, CreateIfNone, SetIfOpen, InMap, Goto
  <2> QED
    BY <1>5, <2>1, <2>2 DEF NoSleepOnFreeLock
<1> QED
  BY <1>5, <1>6, <1>7, <1>8, <1>9 DEF LockInv

\* a failed upgrade that has its read access again;
LEMMA UpgraderBackInv ==
    ASSUME LockInv, NEW t \in Threads, UpgraderBack(t)
    PROVE  LockInv'
<1>1. Local(t)
  BY NestAssumption
  DEF LockInv, TypeOK, CallState, Local, Same, Places, Events, UpgraderBack, LeaveReaderWait,
      Goto, implVars
<1>2. Sets(t) /\ Member(t)
  BY <1>1, LocalSets
<1>3. reads[t] \in 0 .. MaxNest /\ writes[t] \in 0 .. MaxNest
  BY DEF LockInv, TypeOK
<1>4. Counted(t)
  BY <1>2, <1>3, CountersSay
  DEF Counted, Sets, Member, LockInv, TypeOK, CallState, UpgraderBack, LeaveReaderWait, Goto,
      implVars
<1>5. /\ TypeOK' /\ CallState' /\ CountersAgree'
      /\ numOfWriter' = 0 <=> WriteOwners' \cup WriteWaiters' = {}
      /\ readerEntered' = 0 <=> ReadOwners' = {}
      /\ readerWaiting' = 0 <=> ReadWaiters' = {}
  BY <1>1, <1>4, LocalInv
<1>6. MutualExclusion'
  BY <1>2, <1>3, CountersSay
  DEF Sets, Member, LockInv, TypeOK, CallState, MutualExclusion, Grant, UpgraderBack,
      LeaveReaderWait, Goto, implVars
<1>7. Grant'
  BY <1>2, <1>3, <1>5, CountersSay
  DEF Sets, Member, LockInv, TypeOK, CallState, MutualExclusion, Grant, UpgraderBack,
      LeaveReaderWait, Goto, implVars
<1>8. HandlesOpen'
  <2>1. readEvent' # "none" <=> readerWaiting' # 0
    BY <1>2, CountersSay
    DEF Member, LockInv, TypeOK, HandlesOpen, UpgraderBack, LeaveReaderWait, Goto, implVars
  <2>2. WriteWaiters' # {} => writeEvent' # "none"
    BY <1>2, <1>3, CountersSay
    DEF Sets, Member, LockInv, TypeOK, CallState, HandlesOpen, Grant, UpgraderBack,
        LeaveReaderWait, Goto, implVars
  <2>3. writeEvent' # "none" => WriteWaiters' \cup WriteOwners' # {}
    BY <1>5, <1>7 DEF Grant
  <2> QED
    BY <1>5, <2>1, <2>2, <2>3 DEF HandlesOpen
<1>9. NoSleepOnFreeLock'
  <2>1. WriteWaiters' # {} /\ WriteOwners' = {} /\ ReadOwners' = {} => writeEvent' = "set"
    BY <1>2, <1>3, <1>5, CountersSay
    DEF Sets, Member, LockInv, TypeOK, CallState, MutualExclusion, HandlesOpen,
        NoSleepOnFreeLock, UpgraderBack, LeaveReaderWait, Goto, implVars
  <2>2. readerWaiting' # 0 /\ numOfWriter' = 0 => readEvent' = "set"
    BY <1>2, <1>3, CountersSay
    DEF Sets, Member, LockInv, TypeOK, CallState, HandlesOpen, NoSleepOnFreeLock, UpgraderBack,
        LeaveReaderWait, Goto, implVars
  <2> QED
    BY <1>5, <2>1, <2>2 DEF NoSleepOnFreeLock
<1> QED
  BY <1>5, <1>6, <1>7, <1>8, <1>9 DEF LockInv

\* ReleaseWriterLock, which lets in a writer or the readers,
LEMMA ReleaseWriterInv ==
    ASSUME LockInv, NEW t \in Threads, ReleaseWriterLock(t)
    PROVE  LockInv'
<1>1. Local(t)
  BY NestAssumption
  DEF LockInv, TypeOK, CallState, Local, Same, Places, Events, ReleaseWriterLock, WriterRelease,
      SetIfOpen, Add, implVars
<1>2. Sets(t) /\ Member(t)
  BY <1>1, LocalSets
<1>3. reads[t] \in 0 .. MaxNest /\ writes[t] \in 0 .. MaxNest
  BY DEF LockInv, TypeOK
<1>4. Counted(t)
  BY <1>2, <1>3, CountersSay
  DEF Counted, Sets, Member, LockInv, TypeOK, CallState, ReleaseWriterLock, WriterRelease,
      SetIfOpen, Add, implVars
<1>5. /\ TypeOK' /\ CallState' /\ CountersAgree'
      /\ numOfWriter' = 0 <=> WriteOwners' \cup WriteWaiters' = {}
      /\ readerEntered' = 0 <=> ReadOwners' = {}
      /\ readerWaiting' = 0 <=> ReadWaiters' = {}
  BY <1>1, <1>4, LocalInv
<1>6. MutualExclusion'
  BY <1>2, <1>3, CountersSay
  DEF Sets, Member, LockInv, TypeOK, CallState, MutualExclusion, Grant, ReleaseWriterLock,
      WriterRelease, SetIfOpen, Add, implVars
<1>7. Grant'
  BY <1>2, <1>3, <1>5, CountersSay
  DEF Sets, Member, LockInv, TypeOK, CallState, MutualExclusion, Grant, ReleaseWriterLock,
      WriterRelease, SetIfOpen, Add, implVars
<1>8. HandlesOpen'
  <2>1. readEvent' # "none" <=> readerWaiting' # 0
    BY <1>2, CountersSay
    DEF Member, LockInv, TypeOK, HandlesOpen, ReleaseWriterLock, WriterRelease, SetIfOpen, Add,
        implVars
  <2>2. WriteWaiters' # {} => writeEvent' # "none"
    BY <1>2, <1>3, CountersSay
    DEF Sets, Member, LockInv, TypeOK, CallState, HandlesOpen, Grant, ReleaseWriterLock,
        WriterRelease, SetIfOpen, Add, implVars
  <2>3. writeEvent' # "none" => WriteWaiters' \cup WriteOwners' # {}
    BY <1>5, <1>7 DEF Grant
  <2> QED
    BY <1>5, <2>1, <2>2, <2>3 DEF HandlesOpen
<1>9. NoSleepOnFreeLock'
  <2>1. WriteWaiters' # {} /\ WriteOwners' = {} /\ ReadOwners' = {} => writeEvent' = "set"
    BY <1>2, <1>3, <1>5, CountersSay
    DEF Sets, Member, LockInv, TypeOK, CallState, MutualExclusion, HandlesOpen,
        NoSleepOnFreeLock, ReleaseWriterLock, WriterRelease, SetIfOpen, Add, implVars
  <2>2. readerWaiting' # 0 /\ numOfWriter' = 0 => readEvent' = "set"
    BY <1>2, <1>3, CountersSay
    DEF Sets, Member, LockInv, TypeOK, CallState, HandlesOpen, NoSleepOnFreeLock,
        ReleaseWriterLock, WriterRelease, SetIfOpen, Add, implVars
  <2> QED
    BY <1>5, <2>1, <2>2 DEF NoSleepOnFreeLock
<1> QED
  BY <1>5, <1>6, <1>7, <1>8, <1>9 DEF LockInv

\* and ReleaseAllLocks.
LEMMA ReleaseAllInv ==
    ASSUME LockInv, NEW t \in Threads, ReleaseAllLocks(t)
    PROVE  LockInv'
<1>1. Local(t)
  BY NestAssumption
  DEF LockInv, TypeOK, CallState, Local, Same, Places, Events, ReleaseAllLocks, WriterRelease,
      ReaderRelease, SetIfOpen, InMap
<1>2. Sets(t) /\ Member(t)
  BY <1>1, LocalSets
<1>3. reads[t] \in 0 .. MaxNest /\ writes[t] \in 0 .. MaxNest
  BY DEF LockInv, TypeOK
<1>4. Counted(t)
  BY <1>2, <1>3, CountersSay
  DEF Counted, Sets, Member, LockInv, TypeOK, CallState, ReleaseAllLocks, WriterRelease,
      ReaderRelease, SetIfOpen, InMap
<1>5. /\ TypeOK' /\ CallState' /\ CountersAgree'
      /\ numOfWriter' = 0 <=> WriteOwners' \cup WriteWaiters' = {}
      /\ readerEntered' = 0 <=> ReadOwners' = {}
      /\ readerWaiting' = 0 <=> ReadWaiters' = {}
  BY <1>1, <1>4, LocalInv
<1>6. MutualExclusion'
  BY <1>2, <1>3, CountersSay
  DEF Sets, Member, LockInv, TypeOK, CallState, MutualExclusion, Grant, ReleaseAllLocks,
      WriterRelease, ReaderRelease, SetIfOpen, InMap
<1>7. Grant'
  BY <1>2, <1>3, <1>5, CountersSay
  DEF Sets, Member, LockInv, TypeOK, CallState, MutualExclusion, Grant, ReleaseAllLocks,
      WriterRelease, ReaderRelease, SetIfOpen, InMap
<1>8. HandlesOpen'
  <2>1. readEvent' # "none" <=> readerWaiting' # 0
    BY <1>2, CountersSay
    DEF Member, LockInv, TypeOK, HandlesOpen, ReleaseAllLocks, WriterRelease, ReaderRelease,
        SetIfOpen, InMap
  <2>2. WriteWaiters' # {} => writeEvent' # "none"
    BY <1>2, <1>3, CountersSay
    DEF Sets, Member, LockInv, TypeOK, CallState, HandlesOpen, Grant, ReleaseAllLocks,
        WriterRelease, ReaderRelease, SetIfOpen, InMap
  <2>3. writeEvent' # "none" => WriteWaiters' \cup WriteOwners' # {}
    BY <1>5, <1>7 DEF Grant
  <2> QED
    BY <1>5, <2>1, <2>2, <2>3 DEF HandlesOpen
<1>9. NoSleepOnFreeLock'
  <2>1. WriteWaiters' # {} /\ WriteOwners' = {} /\ ReadOwners' = {} => writeEvent' = "set"
    BY <1>2, <1>3, <1>5, CountersSay
    DEF Sets, Member, LockInv, TypeOK, CallState, MutualExclusion, HandlesOpen,
        NoSleepOnFreeLock, ReleaseAllLocks, WriterRelease, ReaderRelease, SetIfOpen, InMap
  <2>2. readerWaiting' # 0 /\ numOfWriter' = 0 => readEvent' = "set"
    BY <1>2, <1>3, CountersSay
    DEF Sets, Member, LockInv, TypeOK, CallState, HandlesOpen, NoSleepOnFreeLock,
        ReleaseAllLocks, WriterRelease, ReaderRelease, SetIfOpen, InMap
  <2> QED
    BY <1>5, <2>1, <2>2 DEF NoSleepOnFreeLock
<1> QED
  BY <1>5, <1>6, <1>7, <1>8, <1>9 DEF LockInv

-----------------------------------------------------------------------------
(* The theorems.                                                           *)

\* A new lock is free.
LEMMA InitInv == Init => LockInv
<1> SUFFICES ASSUME Init PROVE LockInv
  OBVIOUS
<1>1. TypeOK /\ CallState
  BY NestAssumption DEF Init, TypeOK, CallState, Events, Places
<1>2. WriteOwners = {} /\ WriteWaiters = {} /\ ReadOwners = {} /\ ReadWaiters = {}
  BY DEF Init, WriteOwners, WriteWaiters, ReadOwners, ReadWaiters
<1>3. Cardinality({}) = 0
  BY FS_EmptySet
<1>4. CountersAgree
  BY <1>2, <1>3 DEF Init, CountersAgree
<1> QED
  BY <1>1, <1>2, <1>4
  DEF Init, LockInv, MutualExclusion, Grant, HandlesOpen, NoSleepOnFreeLock

\* The routines together.
LEMMA NextInv == LockInv /\ [Next]_vars => LockInv'
<1> SUFFICES ASSUME LockInv, [Next]_vars PROVE LockInv'
  OBVIOUS
<1>1. ASSUME NEW t \in Threads, Acquire(t) PROVE LockInv'
  BY <1>1, AcquireReaderInv, AcquireWriterInv, UpgradeAtOnceInv, UpgradeByWaitingInv
  DEF Acquire
<1>2. ASSUME NEW t \in Threads, Waiting(t) PROVE LockInv'
  BY <1>2, ReaderWakeInv, ReaderEnterInv, ReaderRetryInv, ReaderGiveUpInv, WriterWakeInv,
     WriterTimeoutInv, WriterEnterInv, WriterGiveUpInv, UpgraderBackInv
  DEF Waiting
<1>3. ASSUME NEW t \in Threads, Release(t) PROVE LockInv'
  BY <1>3, ReleaseReaderInv, ReleaseWriterInv, ReleaseAllInv DEF Release
<1>4. ASSUME UNCHANGED vars PROVE LockInv'
  <2>1. /\ WriteOwners' = WriteOwners /\ WriteWaiters' = WriteWaiters
        /\ ReadOwners' = ReadOwners /\ ReadWaiters' = ReadWaiters
    BY <1>4 DEF vars, WriteOwners, WriteWaiters, ReadOwners, ReadWaiters
  <2> QED
    BY <1>4, <2>1
    DEF vars, implVars, LockInv, TypeOK, CallState, CountersAgree, MutualExclusion, Grant,
        HandlesOpen, NoSleepOnFreeLock
<1> QED
  BY <1>1, <1>2, <1>3, <1>4 DEF Next

\* So the invariant holds in every state.
LEMMA LockInvariant == Spec => []LockInv
BY InitInv, NextInv, PTL DEF Spec

(* CReaderWriterLock never grants a thread write access while another      *)
(* thread has any access, for any number of threads, nested locks,         *)
(* upgrades, downgrades and timeouts.                                      *)
THEOREM LockExclusive == Spec => []MutualExclusion
<1>1. LockInv => MutualExclusion
  BY DEF LockInv
<1> QED
  BY <1>1, LockInvariant, PTL

(* The counters and the two handles always agree with the threads that own *)
(* the lock or wait for it.                                                *)
THEOREM LockBookkeeping == Spec => [](TypeOK /\ CountersAgree /\ HandlesOpen)
<1>1. LockInv => TypeOK /\ CountersAgree /\ HandlesOpen
  BY DEF LockInv
<1> QED
  BY <1>1, LockInvariant, PTL

(* Nobody sleeps on a lock that is free: no release, downgrade, upgrade or *)
(* timeout loses a wake-up.                                                *)
THEOREM LockWakesUp == Spec => []NoSleepOnFreeLock
<1>1. LockInv => NoSleepOnFreeLock
  BY DEF LockInv
<1> QED
  BY <1>1, LockInvariant, PTL

-----------------------------------------------------------------------------
(* Refinement: a step changes the access of one thread, and exclusion on   *)
(* both sides of it makes the change one of the abstract lock's.           *)

\* A step changes the access and the place of one thread only.
LEMMA OneThread ==
    ASSUME LockInv, Next
    PROVE  \E t \in Threads : Same(reads, reads', t) /\ Same(writes, writes', t) /\ Same(pc, pc', t)
<1> USE DEF LockInv, TypeOK, Same, Goto, Add
<1>1. ASSUME NEW t \in Threads, Acquire(t)
      PROVE  Same(reads, reads', t) /\ Same(writes, writes', t) /\ Same(pc, pc', t)
  BY <1>1
  DEF Acquire, AcquireReaderLock, AcquireWriterLock, UpgradeAtOnce, UpgradeByWaiting, ReaderWait,
      WriterWait
<1>2. ASSUME NEW t \in Threads, Waiting(t)
      PROVE  Same(reads, reads', t) /\ Same(writes, writes', t) /\ Same(pc, pc', t)
  BY <1>2
  DEF Waiting, ReaderWake, ReaderEnter, ReaderRetry, ReaderGiveUp, WriterWake, WriterTimeout,
      WriterEnter, WriterGiveUp, UpgraderBack, ReaderWait
<1>3. ASSUME NEW t \in Threads, Release(t)
      PROVE  Same(reads, reads', t) /\ Same(writes, writes', t) /\ Same(pc, pc', t)
  BY <1>3 DEF Release, ReleaseReaderLock, ReleaseWriterLock, ReleaseAllLocks
<1> QED
  BY <1>1, <1>2, <1>3 DEF Next

\* The refinement mapping.
Holds == [t \in Threads |-> Holding(t)]

\* That change is a step of the abstract lock.
LEMMA StepImplements ==
    ASSUME LockInv, LockInv', Next
    PROVE  \E t \in Threads : Abstract!Read(t) \/ Abstract!Write(t) \/ Abstract!Leave(t)
<1>1. PICK t \in Threads : Same(reads, reads', t) /\ Same(writes, writes', t) /\ Same(pc, pc', t)
  BY OneThread
<1>2. /\ WriteOwners \ {t} = WriteOwners' \ {t}
      /\ ReadOwners \ {t} = ReadOwners' \ {t}
  BY <1>1, OnlyOne
<1>3. \A u \in Threads \ {t} : Holding(u)' = Holding(u)
  BY <1>2 DEF Holding
<1>4. Holds' = [Holds EXCEPT ![t] = Holding(t)']
  BY <1>3 DEF Holds
<1>5. Holding(t)' \in {"none", "read", "write"}
  BY DEF Holding
<1>6. CASE Holding(t)' = "none"
  BY <1>4, <1>6 DEF Holds, Abstract!Leave, Abstract!Take
<1>7. CASE Holding(t)' = "read"
  <2>1. t \in ReadOwners'
    BY <1>7 DEF Holding
  <2>2. WriteOwners' = {}
    BY <2>1 DEF LockInv, MutualExclusion
  <2>3. \A u \in Threads \ {t} : Holding(u) # "write"
    BY <1>2, <2>2 DEF Holding
  <2> QED
    BY <1>4, <1>7, <2>3 DEF Holds, Abstract!Read, Abstract!OthersOf, Abstract!Take
<1>8. CASE Holding(t)' = "write"
  <2>1. t \in WriteOwners'
    BY <1>8 DEF Holding
  <2>2. WriteOwners' = {t} /\ ReadOwners' = {}
    BY <2>1 DEF LockInv, MutualExclusion
  <2>3. \A u \in Threads \ {t} : Holding(u) = "none"
    BY <1>2, <2>2 DEF Holding
  <2> QED
    BY <1>4, <1>8, <2>3 DEF Holds, Abstract!Write, Abstract!OthersOf, Abstract!Take
<1> QED
  BY <1>5, <1>6, <1>7, <1>8

(* CReaderWriterLock implements the abstract lock, for any number of       *)
(* threads.                                                                *)
THEOREM LockImplementsSharedLock == Spec => ImplementsSharedLock
<1>1. Init => Abstract!Init
  BY DEF Init, Abstract!Init, Holding, WriteOwners, ReadOwners
<1>2. LockInv /\ LockInv' /\ [Next]_vars => [Abstract!Next]_Holds
  <2>1. ASSUME LockInv, LockInv', Next PROVE Abstract!Next
    BY <2>1, StepImplements DEF Abstract!Next
  <2>2. ASSUME UNCHANGED vars PROVE UNCHANGED Holds
    BY <2>2 DEF vars, Holds, Holding, WriteOwners, ReadOwners
  <2> QED
    BY <2>1, <2>2
<1>3. Abstract!Spec <=> Abstract!Init /\ [][Abstract!Next]_Holds
  BY DEF Abstract!Spec, Holds
<1> QED
  BY <1>1, <1>2, <1>3, LockInvariant, PTL DEF Spec, ImplementsSharedLock
=============================================================================
