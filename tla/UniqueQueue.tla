---------------------------- MODULE UniqueQueue ----------------------------
(***************************************************************************)
(* UniqueQueue<T> of Utils/UniqueQueue.h, the queue of the folder crawler: *)
(* a value that is pushed again moves to the end.  The entries are kept    *)
(* twice, in a deque in the order of arrival and in a map that finds a     *)
(* value's entry in the deque by its priority, a running number of type    *)
(* size_t that wraps.                                                      *)
(***************************************************************************)
EXTENDS Naturals, FiniteSets, Sequences, SequencesExt, Subsequences

CONSTANTS Values,  \* what is queued, numbered in the order of std::map
          Wrap     \* number of values of a size_t

ASSUME ValuesAssumption == IsFiniteSet(Values) /\ Values \subseteq Nat
ASSUME WrapAssumption == Wrap \in Nat /\ Cardinality(Values) < Wrap

VARIABLES m_QueueTMap,     \* the priority of every queued value
          m_Queue,         \* the deque: entries of a value and its priority
          m_highestValue,  \* the next priority
          wrapped          \* history: a move to the end has used the last priority

uniqueVars == <<m_QueueTMap, m_Queue, m_highestValue, wrapped>>

Priorities == 0 .. Wrap - 1
Entry(v, p) == [value |-> v, priority |-> p]

Following(p) == (p + 1) % Wrap

-----------------------------------------------------------------------------
\* The deque without its first entry of priority p, if it has one.
WithoutPriority(q, p) ==
    LET hits == {i \in DOMAIN q : q[i].priority = p}
    IN  IF hits = {} THEN q ELSE RemoveAt(q, Min(hits))

UniqueInit ==
    /\ m_QueueTMap = <<>>
    /\ m_Queue = <<>>
    /\ m_highestValue = 0
    /\ wrapped = FALSE

\* Mutant: the old entry stays in the deque.
PushMoveKeepsOld(v) ==
    /\ v \in DOMAIN m_QueueTMap
    /\ m_Queue' = Append(m_Queue, Entry(v, m_highestValue))
    /\ m_QueueTMap' = [m_QueueTMap EXCEPT ![v] = m_highestValue]
    /\ m_highestValue' = Following(m_highestValue)
    /\ wrapped' = (wrapped \/ m_highestValue' = 0)

\* A value that is in the map moves to the end.  This branch does not look
\* whether the priorities wrapped.
PushMove(v) ==
    /\ v \in DOMAIN m_QueueTMap
    /\ m_Queue' = Append(WithoutPriority(m_Queue, m_QueueTMap[v]), Entry(v, m_highestValue))
    /\ m_QueueTMap' = [m_QueueTMap EXCEPT ![v] = m_highestValue]
    /\ m_highestValue' = Following(m_highestValue)
    /\ wrapped' = (wrapped \/ m_highestValue' = 0)

\* A new value gets the next priority; after the last one all entries are
\* numbered anew, in the order of the map.
PushNew(v) ==
    LET map == [x \in DOMAIN m_QueueTMap \union {v} |->
                   IF x = v THEN m_highestValue ELSE m_QueueTMap[x]]
        order == Ascending(DOMAIN map)
    IN  /\ v \notin DOMAIN m_QueueTMap
        /\ IF Following(m_highestValue) # 0
           THEN /\ m_QueueTMap' = map
                /\ m_Queue' = Append(m_Queue, Entry(v, m_highestValue))
                /\ m_highestValue' = Following(m_highestValue)
           ELSE /\ m_QueueTMap' = [x \in DOMAIN map |->
                                      (CHOOSE i \in DOMAIN order : order[i] = x) - 1]
                /\ m_Queue' = [i \in DOMAIN order |-> Entry(order[i], i - 1)]
                /\ m_highestValue' = Len(order)
        /\ UNCHANGED wrapped

Push(v) == PushMove(v) \/ PushNew(v)

\* Mutant: the numbers start again with every Pop.
PopRestarts ==
    /\ m_Queue # <<>>
    /\ m_Queue' = Tail(m_Queue)
    /\ m_QueueTMap' = [x \in DOMAIN m_QueueTMap \ {Head(m_Queue).value} |-> m_QueueTMap[x]]
    /\ m_highestValue' = 0
    /\ UNCHANGED wrapped

\* The front leaves; the numbers start again when the queue is empty.
Pop ==
    /\ m_Queue # <<>>
    /\ m_Queue' = Tail(m_Queue)
    /\ m_QueueTMap' = [x \in DOMAIN m_QueueTMap \ {Head(m_Queue).value} |-> m_QueueTMap[x]]
    /\ m_highestValue' = IF m_Queue' = <<>> THEN 0 ELSE m_highestValue
    /\ UNCHANGED wrapped

\* erase: a value that is not queued changes nothing.
Erase(v) ==
    /\ v \in DOMAIN m_QueueTMap
    /\ m_Queue' = WithoutPriority(m_Queue, m_QueueTMap[v])
    /\ m_QueueTMap' = [x \in DOMAIN m_QueueTMap \ {v} |-> m_QueueTMap[x]]
    /\ UNCHANGED <<m_highestValue, wrapped>>

\* The exploration ends with a move that wraps the priorities: from there on
\* the entries of two values may share one.
UniqueNext == ~wrapped /\ (Pop \/ \E v \in Values : Push(v) \/ Erase(v))

UniqueSpec == UniqueInit /\ [][UniqueNext]_uniqueVars

-----------------------------------------------------------------------------
\* The type invariant.
UniqueTypeOK ==
    /\ DOMAIN m_QueueTMap \subseteq Values
    /\ \A v \in DOMAIN m_QueueTMap : m_QueueTMap[v] \in Priorities
    /\ m_Queue \in Seq([value : Values, priority : Priorities])
    /\ m_highestValue \in Priorities
    /\ wrapped \in BOOLEAN

\* The two containers hold the same entries, each value once and no two of
\* them under one priority, unless a move to the end has wrapped the
\* priorities: the map of UniqueQueue.h:59 leads to the entries of the deque of
\* line 60, so that Push (lines 84-91) and erase (lines 149-156) take out the
\* entry of their value and no other.
ContainersAgree ==
    wrapped \/
    /\ {<<m_Queue[i].value, m_Queue[i].priority>> : i \in DOMAIN m_Queue}
           = {<<v, m_QueueTMap[v]>> : v \in DOMAIN m_QueueTMap}
    /\ \A i, j \in DOMAIN m_Queue :
           i # j => /\ m_Queue[i].value # m_Queue[j].value
                    /\ m_Queue[i].priority # m_Queue[j].priority

-----------------------------------------------------------------------------
\* What the header promises: the values in the order of their last Push,
\* none of them twice.
queued == [i \in DOMAIN m_Queue |-> m_Queue[i].value]

\* The queue without v, for every place where it is.
Without(v) == {RemoveAt(queued, n) : n \in {m \in DOMAIN queued : queued[m] = v}}

\* One call, seen from outside: Pop takes the front, erase takes out its
\* value, Push puts its value last, and the others keep their places; only the
\* renumbering, which takes a new value with the last priority, may reorder
\* them (UniqueQueue.h:20-38).  Holds until a move has wrapped the priorities.
LastPushLast ==
    [][ wrapped' \/
        \/ queued # <<>> /\ queued' = Tail(queued)
        \/ \E v \in Values :
              \/ v \notin Range(queued) /\ queued' = Append(queued, v)
              \/ \E rest \in Without(v) : queued' \in {rest, Append(rest, v)}
              \/ /\ m_highestValue = Wrap - 1
                 /\ v \notin Range(queued)
                 /\ IsInjective(queued')
                 /\ Range(queued') = Range(queued) \union {v} ]_uniqueVars

=============================================================================
