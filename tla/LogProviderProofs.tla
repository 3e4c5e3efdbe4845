------------------------- MODULE LogProviderProofs -------------------------
(*****************************************************************************)
(* The buffer of log events and its readers, for every set of upkeeps,       *)
(* number of threads, length of lookback, limit and depth of reorgs.         *)
(*                                                                           *)
(* What a queue promises of its logs rests on what it remembers of them: a   *)
(* log it holds is enqueued and of the fork the buffer last saw, and of a    *)
(* log it gave away it either keeps the state or accepts the block no more.  *)
(*****************************************************************************)
EXTENDS LogProvider, SequenceTheorems, FiniteSetTheorems, WellFoundedInduction,
        TLAPS

Hashes == {h \in Seq(Tags) : Len(h) \in 1 .. MaxBlock}
Logs == [upkeep : Upkeeps, hash : Hashes, index : Nat]

Blocks == 0 .. MaxBlock

StatesOfLogs == UNION {[known -> States] : known \in SUBSET Logs}

Queue == [logs : SUBSET Logs, blocks : SUBSET Blocks, states : StatesOfLogs,
          dequeued : [Blocks -> Nat]]

(* The queue of upkeep u, in a buffer with these hashes.                     *)
QueueFits(q, u, hashes) ==
  /\ q \in Queue /\ IsFiniteSet(q.logs)
  /\ \A l \in DOMAIN q.states : l.upkeep = u
  /\ \A l \in q.logs :
       /\ l \in DOMAIN q.states /\ q.states[l] = "enqueued"
       /\ Block(l) \in q.blocks
       /\ l.hash = hashes[Block(l)]

Queues == UNION {[known -> Queue] : known \in SUBSET Upkeeps}

BufferFits(buf) ==
  /\ buf \in [queues : Queues, hashes : [1 .. MaxBlock -> Hashes \cup {NoHash}],
              lastSeen : Blocks]
  /\ IsFiniteSet(DOMAIN buf.queues)
  /\ \A u \in DOMAIN buf.queues : QueueFits(buf.queues[u], u, buf.hashes)

(* The logs of a read of upkeep u.                                           *)
ReadFits(logs, u) ==
  /\ logs \in SUBSET Logs /\ IsFiniteSet(logs)
  /\ \A l \in logs : l.upkeep = u
  /\ \A l, m \in logs : Block(l) = Block(m) => l.hash = m.hash

Filters == [lastPoll : Blocks, since : Blocks]

Fetching == [pc : {"fetch"}, upkeep : Upkeeps, latest : Blocks, lastPoll : Blocks,
             since : Blocks]
Enqueuing == [pc : {"enqueue"}, upkeep : Upkeeps, lastPoll : Blocks, logs : SUBSET Logs]
Updating == [pc : {"update"}, upkeep : Upkeeps, lastPoll : Blocks]

ReaderFits(me) ==
  \/ me = Idle
  \/ me \in Fetching
  \/ me \in Enqueuing /\ ReadFits(me.logs, me.upkeep)
  \/ me \in Updating

Taking == [pc : {"minimum", "best effort"}, latest : Blocks, start : Nat \ {0},
           rate : Nat \ {0}, got : Int]

WorldFits ==
  /\ chain \in Seq(Tags) /\ Len(chain) <= MaxBlock
  /\ DOMAIN filters \subseteq Upkeeps /\ filters \in [DOMAIN filters -> Filters]
  /\ config \in Configs

ReadersFit ==
  /\ readers = [r \in Readers |-> readers[r]]
  /\ \A r \in Readers : ReaderFits(readers[r])

FlowFits == flow = Idle \/ flow \in Taking

ProviderInv == WorldFits /\ ReadersFit /\ BufferFits(buffer) /\ FlowFits

(* A log that was given to the plugin was given once, and its queue does not *)
(* take it again.                                                            *)
GivenAway(l) ==
  /\ delivered[l] = 1
  /\ l.upkeep \in DOMAIN buffer.queues
  /\ LET q == buffer.queues[l.upkeep]
     IN /\ l \notin q.logs
        /\ l \in DOMAIN q.states \/ ~Accepted(l)

DeliveryInv == \A l \in DOMAIN delivered : l \in Logs /\ GivenAway(l)

-------------------------------------------------------------------------------
(* Finite sets.  The queues are drained by a fold of the community modules,  *)
(* which takes the greatest element of a set of upkeeps last: a function     *)
(* chosen for satisfying a recursive equation.                               *)

(* Induction over the natural numbers.                                       *)
LEMMA NatSet ==
  ASSUME NEW S, 0 \in S, \A n \in Nat : n \in S => n + 1 \in S
  PROVE Nat \subseteq S
<1> DEFINE T == Nat \ S
           R == OpToRel(<, Nat)
<1>1. \A m, n \in Nat : m < n => <<m, n>> \in R
  BY DEF OpToRel
<1>2. IsWellFoundedOn(R, Nat)
  BY NatLessThanWellFounded
<1> HIDE DEF R
<1>3. SUFFICES ASSUME T # {} PROVE FALSE
  OBVIOUS
<1>4. PICK x \in T : \A y \in T : <<y, x>> \notin R
  BY <1>2, <1>3, WFMin
<1>5. x \in Nat /\ x # 0
  OBVIOUS
<1>6. x - 1 \in Nat /\ x - 1 \in T
  BY <1>5
<1>7. <<x - 1, x>> \in R
  BY <1>1, <1>5, <1>6
<1>8. QED
  BY <1>4, <1>6, <1>7

(* A set that holds a set as soon as it holds all smaller ones holds all.    *)
LEMMA SubsetInduction ==
  ASSUME NEW S, IsFiniteSet(S), NEW G,
         \A T \in SUBSET S : (\A U \in SUBSET T : U # T => U \in G) => T \in G
  PROVE  SUBSET S \subseteq G
<1> DEFINE B == (SUBSET S) \ G
           R == StrictSubsetOrdering(S)
<1>1. \A T \in SUBSET S : \A U \in SUBSET T : U # T => <<U, T>> \in R
  BY DEF StrictSubsetOrdering
<1>2. IsWellFoundedOn(R, SUBSET S)
  BY FS_StrictSubsetOrderingWellFounded, FS_FiniteSubsetsOfFinite
<1>3. B \subseteq SUBSET S /\ \A U \in SUBSET S : U \in B \/ U \in G
  OBVIOUS
<1>4. ASSUME NEW T \in B, \A U \in B : ~ (<<U, T>> \in R)
      PROVE  FALSE
  <2>1. T \in SUBSET S /\ T \notin G
    BY <1>4
  <2>2. \A U \in SUBSET T : U # T => U \in SUBSET S /\ <<U, T>> \in R
    BY <1>1, <2>1
  <2> HIDE DEF R, B
  <2>3. \A U \in SUBSET T : U # T => U \in G
    BY <1>3, <1>4, <2>2, Zenon
  <2>4. QED
    BY <2>1, <2>3
<1> HIDE DEF R, B
<1>5. B = {}
  <2>1. B # {} => \E T \in B : \A U \in B : ~ (<<U, T>> \in R)
    BY <1>2, <1>3, WFMin
  <2>2. QED
    BY <1>4, <2>1
<1>6. QED
  BY <1>5 DEF B

(* A finite set of numbers has a greatest one.                               *)
LEMMA MaxIsGreatest ==
  ASSUME NEW S \in SUBSET Int, IsFiniteSet(S), S # {}
  PROVE  Max(S) \in S /\ \A x \in S : x <= Max(S)
<1> DEFINE G == {T \in SUBSET S : T # {} => \E x \in T : \A y \in T : x >= y}
<1>1. ASSUME NEW T \in SUBSET S, \A U \in SUBSET T : U # T => U \in G
      PROVE  T \in G
  <2>1. SUFFICES ASSUME T # {}
                 PROVE  \E x \in T : \A y \in T : x >= y
    OBVIOUS
  <2>2. PICK x \in T : TRUE
    BY <2>1
  <2>3. CASE T \ {x} = {}
    <3>1. \A y \in T : x >= y
      BY <2>3
    <3>2. QED
      BY <3>1
  <2>4. CASE T \ {x} # {}
    <3>1. T \ {x} \in SUBSET T /\ T \ {x} # T
      OBVIOUS
    <3>2. PICK m \in T \ {x} : \A y \in T \ {x} : m >= y
      BY <1>1, <2>4, <3>1
    <3>3. CASE x >= m
      <4>1. \A y \in T : x >= y
        BY <3>2, <3>3
      <4>2. QED
        BY <4>1
    <3>4. CASE ~(x >= m)
      <4>1. \A y \in T : m >= y
        BY <3>2, <3>4
      <4>2. QED
        BY <4>1
    <3>5. QED
      BY <3>3, <3>4
  <2>5. QED
    BY <2>3, <2>4
<1> HIDE DEF G
<1>2. S \in G
  BY <1>1, SubsetInduction
<1>3. PICK x \in S : \A y \in S : x >= y
  BY <1>2 DEF G
<1>4. Max(S) \in S /\ \A y \in S : Max(S) >= y
  BY <1>3 DEF Max
<1>5. QED
  BY <1>4

(* The greater of two numbers, and the smaller.                              *)
LEMMA MaxOfTwo ==
  ASSUME NEW a \in Int, NEW b \in Int
  PROVE  /\ Max({a, b}) \in {a, b} /\ Max({a, b}) >= a /\ Max({a, b}) >= b
         /\ Min({a, b}) \in {a, b} /\ Min({a, b}) <= a /\ Min({a, b}) <= b
<1>1. \E x \in {a, b} : \A y \in {a, b} : x >= y
  OBVIOUS
<1>2. \E x \in {a, b} : \A y \in {a, b} : x =< y
  OBVIOUS
<1>3. QED
  BY <1>1, <1>2 DEF Max, Min

-------------------------------------------------------------------------------
(* Taking logs.                                                              *)

(* The constants, one by one.                                                *)
LEMMA ConstantsAreNumbers ==
  /\ MaxBlock \in Nat /\ LOOKBACK \in Nat /\ WINDOW_FACTOR \in Nat \ {0}
  /\ MAX_PAYLOADS \in Nat /\ REORG_BUFFER \in Nat
  /\ Upkeeps \subseteq Nat /\ Upkeeps \subseteq Int
  /\ \A c \in Configs : c.blockRate \in Nat \ {0} /\ c.logLimit \in Nat \ {0}
BY BufferAssumption, ProviderAssumption

(* What is left of a queue when the logs in taken are gone.                  *)
Taken(q, new, taken) ==
  /\ new \in Queue
  /\ new.logs = q.logs \ taken
  /\ new.blocks = q.blocks
  /\ DOMAIN new.states = DOMAIN q.states
  /\ \A l \in DOMAIN q.states :
       new.states[l] = IF l \in taken THEN "dequeued" ELSE q.states[l]

Takes(qs, new, taken) ==
  /\ new \in Queues /\ DOMAIN new = DOMAIN qs
  /\ taken \subseteq UNION {qs[u].logs : u \in DOMAIN qs}
  /\ \A u \in DOMAIN qs : Taken(qs[u], new[u], taken)

AllFit(qs, hashes) ==
  /\ qs \in Queues /\ IsFiniteSet(DOMAIN qs)
  /\ \A u \in DOMAIN qs : QueueFits(qs[u], u, hashes)

(* The parts of a queue.                                                     *)
LEMMA QueueParts ==
  ASSUME NEW q \in Queue
  PROVE  /\ q.logs \subseteq Logs /\ q.blocks \subseteq Blocks
         /\ DOMAIN q.states \subseteq Logs /\ q.states \in [DOMAIN q.states -> States]
         /\ q.states \in StatesOfLogs
         /\ q.dequeued \in [Blocks -> Nat]
<1>1. q.states \in StatesOfLogs /\ q.dequeued \in [Blocks -> Nat]
  BY DEF Queue
<1>2. PICK known \in SUBSET Logs : q.states \in [known -> States]
  BY <1>1 DEF StatesOfLogs
<1>3. QED
  BY <1>1, <1>2 DEF Queue

(* The parts of a collection of queues.                                      *)
LEMMA QueuesParts ==
  ASSUME NEW qs \in Queues
  PROVE  /\ DOMAIN qs \subseteq Upkeeps /\ qs \in [DOMAIN qs -> Queue]
         /\ \A u \in DOMAIN qs : qs[u] \in Queue
<1>1. PICK known \in SUBSET Upkeeps : qs \in [known -> Queue]
  BY DEF Queues
<1>2. QED
  BY <1>1

(* A queue gives away some of its logs.                                      *)
LEMMA TakeFromQueueTakes ==
  ASSUME NEW q \in Queue, IsFiniteSet(q.logs), q.logs \subseteq DOMAIN q.states,
         NEW start \in Blocks, NEW taken \in SUBSET q.logs
  PROVE  /\ Cardinality(taken) \in Nat
         /\ Taken(q, TakeFromQueue(q, start, taken), taken)
<1> DEFINE new == TakeFromQueue(q, start, taken)
           states == [l \in DOMAIN q.states |-> IF l \in taken THEN "dequeued" ELSE q.states[l]]
           dequeued == [q.dequeued EXCEPT ![start] = @ + Cardinality(taken)]
<1>1. Cardinality(taken) \in Nat
  BY FS_Subset, FS_CardinalityType
<1>2. /\ states \in StatesOfLogs
      /\ dequeued \in [Blocks -> Nat]
      /\ q.logs \ taken \in SUBSET Logs
  <2>1. states \in [DOMAIN q.states -> States] /\ DOMAIN q.states \in SUBSET Logs
    BY QueueParts DEF States
  <2>2. q.dequeued \in [Blocks -> Nat] /\ q.logs \subseteq Logs
    BY QueueParts
  <2>3. QED
    BY <1>1, <2>1, <2>2 DEF StatesOfLogs
<1>3. new = [logs |-> q.logs \ taken, blocks |-> q.blocks, states |-> states,
             dequeued |-> dequeued]
  <2>1. q = [logs |-> q.logs, blocks |-> q.blocks, states |-> q.states,
             dequeued |-> q.dequeued]
    BY DEF Queue
  <2>2. new = [[[q EXCEPT !.logs = q.logs \ taken] EXCEPT !.states = states]
                 EXCEPT !.dequeued = dequeued]
    BY <2>1 DEF TakeFromQueue
  <2>3. QED
    BY <2>1, <2>2
<1> HIDE DEF states, dequeued, new
<1>4. /\ new \in Queue
      /\ new.logs = q.logs \ taken /\ new.blocks = q.blocks /\ new.states = states
  BY <1>2, <1>3 DEF Queue
<1>5. /\ DOMAIN states = DOMAIN q.states
      /\ \A l \in DOMAIN q.states :
           states[l] = IF l \in taken THEN "dequeued" ELSE q.states[l]
  BY DEF states
<1>6. QED
  BY <1>1, <1>4, <1>5 DEF Taken, new

(* What is left of a queue fits.                                             *)
LEMMA TakenFits ==
  ASSUME NEW q, NEW u, NEW hashes, QueueFits(q, u, hashes),
         NEW new, NEW taken, Taken(q, new, taken)
  PROVE  QueueFits(new, u, hashes)
<1>1. IsFiniteSet(new.logs)
  BY FS_Subset DEF QueueFits, Taken
<1>2. QED
  BY <1>1 DEF QueueFits, Taken

(* One more queue is drained.                                                *)
LEMMA DequeueFromTakes ==
  ASSUME NEW qs, NEW hashes, AllFit(qs, hashes),
         NEW acc \in [queues : Queues, taken : SUBSET Logs, capacity : Int],
         Takes(qs, acc.queues, acc.taken), NEW u \in DOMAIN qs,
         NEW start \in Blocks, NEW minimum, NEW options
  PROVE  LET new == DequeueFrom(acc, u, start, minimum, options)
         IN  /\ new \in [queues : Queues, taken : SUBSET Logs, capacity : Int]
             /\ Takes(qs, new.queues, new.taken)
<1> DEFINE q == acc.queues[u]
           taken == FirstLogs(InRange(q, start, options),
                              Wanted(q, start, acc.capacity, minimum, options))
           queues == [acc.queues EXCEPT ![u] = TakeFromQueue(@, start, taken)]
           next == [queues |-> queues, taken |-> acc.taken \cup taken,
                    capacity |-> acc.capacity - Cardinality(taken)]
           new == DequeueFrom(acc, u, start, minimum, options)
<1>1. new = acc \/ new = next
  BY DEF DequeueFrom
<1>2. /\ acc.queues \in Queues /\ acc.queues \in [DOMAIN qs -> Queue]
      /\ DOMAIN qs \in SUBSET Upkeeps /\ acc.capacity \in Int /\ acc.taken \in SUBSET Logs
  BY QueuesParts DEF Takes
<1>3. QueueFits(q, u, hashes)
  BY TakenFits DEF Takes, AllFit
<1>4. taken \in SUBSET q.logs
  BY DEF FirstLogs, InRange
<1> HIDE DEF q, taken
<1>5. /\ Cardinality(taken) \in Nat
      /\ Taken(q, TakeFromQueue(q, start, taken), taken)
  BY <1>3, <1>4, TakeFromQueueTakes DEF QueueFits
<1>6. /\ queues \in [DOMAIN qs -> Queue]
      /\ queues[u] = TakeFromQueue(q, start, taken)
      /\ \A v \in DOMAIN qs \ {u} : queues[v] = acc.queues[v]
  BY <1>2, <1>5 DEF Taken, q
<1> HIDE DEF queues
<1>7. taken \subseteq qs[u].logs /\ taken \subseteq Logs
  BY <1>4, QueueParts DEF Takes, Taken, AllFit, QueueFits, q
<1>8. ASSUME NEW v \in DOMAIN qs
      PROVE  Taken(qs[v], queues[v], acc.taken \cup taken)
  <2>1. Taken(qs[v], acc.queues[v], acc.taken)
    BY DEF Takes
  <2>2. CASE v = u
    BY <1>5, <1>6, <2>1, <2>2 DEF Taken, q
  <2>3. CASE v # u
    <3>1. \A l \in taken : l \notin qs[v].logs /\ l \notin DOMAIN qs[v].states
      BY <1>7, <2>3 DEF AllFit, QueueFits
    <3>2. queues[v] = acc.queues[v]
      BY <1>6, <2>3
    <3>3. QED
      BY <2>1, <3>1, <3>2 DEF Taken
  <2>4. QED
    BY <2>2, <2>3
<1>9. queues \in Queues
  BY <1>2, <1>6 DEF Queues
<1>10. /\ next \in [queues : Queues, taken : SUBSET Logs, capacity : Int]
       /\ next.queues = queues /\ next.taken = acc.taken \cup taken
  BY <1>2, <1>5, <1>7, <1>9
<1>11. Takes(qs, queues, acc.taken \cup taken)
  <2>1. acc.taken \cup taken \subseteq UNION {qs[v].logs : v \in DOMAIN qs}
    BY <1>7 DEF Takes
  <2>2. DOMAIN queues = DOMAIN qs
    BY <1>6
  <2>3. QED
    BY <1>8, <1>9, <2>1, <2>2 DEF Takes
<1> HIDE DEF next, new
<1>12. CASE new = acc
  BY <1>12 DEF new
<1>13. CASE new = next
  BY <1>10, <1>11, <1>13 DEF new
<1>14. QED
  BY <1>1, <1>12, <1>13

(* iter drains the queues of every subset of S, the greatest upkeep last.    *)
Drains(iter, S, buf, start, capacity, minimum, options) ==
  iter = [T \in SUBSET S |->
            IF T = {} THEN [queues |-> buf.queues, taken |-> {}, capacity |-> capacity]
            ELSE DequeueFrom(iter[T \ {Max(T)}], Max(T), start, minimum, options)]

(* Dequeue in terms of Drains.                                               *)
LEMMA DequeueIsSome ==
  ASSUME NEW buf, NEW start, NEW capacity, NEW minimum, NEW options
  PROVE  Dequeue(buf, start, capacity, minimum, options)
           = (CHOOSE iter : Drains(iter, DOMAIN buf.queues, buf, start, capacity, minimum,
                                   options))[DOMAIN buf.queues]
BY DEF Dequeue, MapThenFoldSet, Drains

(* There is such a function: it is built up by the size of the subsets.      *)
LEMMA DrainsExists ==
  ASSUME NEW S \in SUBSET Int, IsFiniteSet(S),
         NEW buf, NEW start, NEW capacity, NEW minimum, NEW options
  PROVE  \E iter : Drains(iter, S, buf, start, capacity, minimum, options)
<1> DEFINE UpTo(n) == {T \in SUBSET S : Cardinality(T) <= n}
           Body(g, T) ==
             IF T = {} THEN [queues |-> buf.queues, taken |-> {}, capacity |-> capacity]
             ELSE DequeueFrom(g[T \ {Max(T)}], Max(T), start, minimum, options)
           Iterates(g, n) == g = [T \in UpTo(n) |-> Body(g, T)]
           G == {m \in Nat : \E g : Iterates(g, m)}
<1>1. \A T \in SUBSET S : /\ IsFiniteSet(T) /\ Cardinality(T) \in Nat
                          /\ Cardinality(T) <= Cardinality(S)
                          /\ Cardinality(T) = 0 => T = {}
  BY FS_Subset, FS_CardinalityType, FS_EmptySet
<1>2. \A T \in SUBSET S : T # {} => /\ Max(T) \in T
                                    /\ T \ {Max(T)} \in SUBSET S
                                    /\ Cardinality(T \ {Max(T)}) = Cardinality(T) - 1
  BY <1>1, MaxIsGreatest, FS_RemoveElement
<1>3. 0 \in G
  <2> DEFINE g == [T \in UpTo(0) |-> Body({}, T)]
  <2>1. \A T \in UpTo(0) : T = {}
    BY <1>1
  <2>2. \A T \in UpTo(0) : Body({}, T) = Body(g, T)
    BY <2>1
  <2>3. Iterates(g, 0)
    BY <2>2
  <2> HIDE DEF g, Iterates
  <2>4. QED
    BY <2>3
<1>4. ASSUME NEW n \in Nat, n \in G
      PROVE  n + 1 \in G
  <2>1. PICK g : Iterates(g, n)
    BY <1>4
  <2> DEFINE h == [T \in UpTo(n + 1) |-> Body(g, T)]
  <2>2. \A T \in UpTo(n) : h[T] = g[T]
    <3>1. \A T \in UpTo(n) : T \in UpTo(n + 1)
      BY <1>1
    <3>2. QED
      BY <2>1, <3>1
  <2>3. \A T \in UpTo(n + 1) : T # {} => T \ {Max(T)} \in UpTo(n)
    BY <1>1, <1>2
  <2>4. \A T \in UpTo(n + 1) : Body(g, T) = Body(h, T)
    BY <2>2, <2>3
  <2>5. Iterates(h, n + 1)
    BY <2>4
  <2>6. \E k : Iterates(k, n + 1)
    BY <2>5
  <2> HIDE DEF Iterates
  <2>7. QED
    BY <2>6
<1> HIDE DEF G
<1>5. Cardinality(S) \in G
  BY <1>1, <1>3, <1>4, NatSet
<1>6. PICK g : Iterates(g, Cardinality(S))
  BY <1>5 DEF G
<1>7. UpTo(Cardinality(S)) = SUBSET S
  BY <1>1
<1>8. QED
  BY <1>6, <1>7 DEF Drains

(* Dequeue takes logs from queues and changes nothing else.                  *)
LEMMA DequeueTakes ==
  ASSUME NEW buf, NEW hashes, AllFit(buf.queues, hashes),
         NEW start \in Blocks, NEW capacity \in Int, NEW minimum, NEW options
  PROVE  LET result == Dequeue(buf, start, capacity, minimum, options)
         IN  /\ result \in [queues : Queues, taken : SUBSET Logs, capacity : Int]
             /\ Takes(buf.queues, result.queues, result.taken)
<1> DEFINE D == DOMAIN buf.queues
           iter == CHOOSE g : Drains(g, D, buf, start, capacity, minimum, options)
           Right(acc) == /\ acc \in [queues : Queues, taken : SUBSET Logs, capacity : Int]
                         /\ Takes(buf.queues, acc.queues, acc.taken)
           G == {T \in SUBSET D : Right(iter[T])}
<1>1. D \in SUBSET Int /\ IsFiniteSet(D)
  BY QueuesParts, ConstantsAreNumbers DEF AllFit
<1>2. Drains(iter, D, buf, start, capacity, minimum, options)
  BY <1>1, DrainsExists
<1> HIDE DEF iter
<1>3. ASSUME NEW T \in SUBSET D, \A U \in SUBSET T : U # T => U \in G
      PROVE  T \in G
  <2>1. CASE T = {}
    <3> DEFINE base == [queues |-> buf.queues, taken |-> {}, capacity |-> capacity]
    <3>1. iter[T] = base
      BY <1>2, <2>1 DEF Drains
    <3>2. Right(base)
      <4>1. \A u \in D : Taken(buf.queues[u], buf.queues[u], {})
        BY DEF Taken, AllFit, QueueFits
      <4>2. QED
        BY <4>1 DEF Takes, AllFit
    <3> HIDE DEF Right
    <3>3. QED
      BY <3>1, <3>2
  <2>2. CASE T # {}
    <3>1. Max(T) \in T
      BY <1>1, <2>2, MaxIsGreatest, FS_Subset
    <3>2. T \ {Max(T)} \in SUBSET T /\ T \ {Max(T)} # T
      BY <3>1
    <3>3. Right(iter[T \ {Max(T)}])
      BY <1>3, <3>2
    <3>4. iter[T] = DequeueFrom(iter[T \ {Max(T)}], Max(T), start, minimum, options)
      BY <1>2, <2>2 DEF Drains
    <3>5. Right(iter[T])
      BY <3>1, <3>3, <3>4, DequeueFromTakes
    <3>6. QED
      BY <3>5
  <2>3. QED
    BY <2>1, <2>2
<1> HIDE DEF G
<1>4. D \in G
  BY <1>1, <1>3, SubsetInduction
<1>5. Right(iter[D])
  BY <1>4 DEF G
<1>6. Dequeue(buf, start, capacity, minimum, options) = iter[D]
  BY DequeueIsSome DEF iter
<1>7. QED
  BY <1>5, <1>6

-------------------------------------------------------------------------------
(* Adding logs.                                                              *)

(* The parts of a log.                                                       *)
LEMMA LogParts ==
  ASSUME NEW l \in Logs
  PROVE  /\ l.upkeep \in Upkeeps /\ l.hash \in Hashes /\ l.hash # NoHash
         /\ Block(l) \in 1 .. MaxBlock /\ Block(l) \in Blocks /\ Block(l) \in Int
BY ConstantsAreNumbers DEF Logs, Hashes, Block, NoHash, Blocks

(* Blocks are rounded down to the window they are in.                        *)
LEMMA WindowIsLower ==
  ASSUME NEW n \in Int, NEW rate \in Nat \ {0}
  PROVE  /\ Window(n, rate) \in Int /\ Window(n, rate) <= n
         /\ n >= 0 => Window(n, rate) >= 0
BY DEF Window

(* The threshold is a block.                                                 *)
LEMMA ThresholdIsBlock ==
  ASSUME NEW lastSeen \in Blocks, NEW c \in Configs
  PROVE  Threshold(lastSeen, c) \in Nat \ {0}
<1>1. lastSeen - LOOKBACK \in Int /\ c.blockRate \in Nat \ {0}
  BY ConstantsAreNumbers DEF Blocks
<1>2. QED
  BY <1>1, WindowIsLower DEF Threshold

InWindow(logs, w, options) == {l \in logs : Window(Block(l), options.blockRate) = w}

(* What is below the threshold is forgotten; what exceeds a limit is dropped.*)
Cleans(q, new, threshold, options) ==
  /\ new \in Queue
  /\ new.logs \subseteq {l \in q.logs : Block(l) >= threshold}
  /\ new.blocks = {n \in q.blocks : n >= threshold}
  /\ DOMAIN new.states = {l \in DOMAIN q.states : Block(l) >= threshold}
  /\ \A l \in DOMAIN new.states :
       new.states[l] = IF l \in q.logs \ new.logs THEN "dropped" ELSE q.states[l]
  /\ \A w \in Blocks : \E S \in SUBSET q.logs :
       InWindow(new.logs, w, options) \subseteq FirstLogs(S, WindowLimit(options))

(* clean does so.                                                            *)
LEMMA CleanCleans ==
  ASSUME NEW q \in Queue, NEW threshold \in Int, NEW options
  PROVE  Cleans(q, Clean(q, threshold, options), threshold, options)
<1> DEFINE fresh == {l \in q.logs : Block(l) >= threshold}
           inWindow(w) == {l \in fresh : Window(Block(l), options.blockRate) = w}
           kept == UNION {FirstLogs(inWindow(w), WindowLimit(options)) : w \in 0 .. MaxBlock}
           old == {n \in q.blocks : n < threshold}
           states == [l \in {m \in DOMAIN q.states : Block(m) >= threshold} |->
                        IF l \in fresh \ kept THEN "dropped" ELSE q.states[l]]
           dequeued == [w \in 0 .. MaxBlock |->
                          IF w \in {Window(n, options.blockRate) : n \in old} THEN 0
                          ELSE q.dequeued[w]]
           new == [logs |-> kept, blocks |-> q.blocks \ old, states |-> states,
                   dequeued |-> dequeued]
<1>1. Clean(q, threshold, options) = new
  BY DEF Clean, CleanWith
<1>2. kept \subseteq fresh
  BY DEF FirstLogs
<1>3. states \in StatesOfLogs
  <2>1. {m \in DOMAIN q.states : Block(m) >= threshold} \in SUBSET Logs
    BY QueueParts
  <2>2. \A l \in DOMAIN q.states : q.states[l] \in States
    BY QueueParts
  <2>3. "dropped" \in States
    BY DEF States
  <2>4. states \in [{m \in DOMAIN q.states : Block(m) >= threshold} -> States]
    BY <2>2, <2>3
  <2> HIDE DEF states
  <2>5. QED
    BY <2>1, <2>4 DEF StatesOfLogs
<1>4. dequeued \in [Blocks -> Nat]
  BY QueueParts DEF Blocks
<1>5. q.blocks \ old = {n \in q.blocks : n >= threshold}
  <2>1. q.blocks \subseteq Int
    BY QueueParts DEF Blocks
  <2>2. QED
    BY <2>1
<1>6. /\ DOMAIN states = {l \in DOMAIN q.states : Block(l) >= threshold}
      /\ \A l \in DOMAIN states :
           states[l] = IF l \in fresh \ kept THEN "dropped" ELSE q.states[l]
  OBVIOUS
<1>7. ASSUME NEW w \in Blocks
      PROVE  \E S \in SUBSET q.logs :
               InWindow(kept, w, options) \subseteq FirstLogs(S, WindowLimit(options))
  <2>1. inWindow(w) \in SUBSET q.logs
    OBVIOUS
  <2>2. ASSUME NEW l \in InWindow(kept, w, options)
        PROVE  l \in FirstLogs(inWindow(w), WindowLimit(options))
    <3>1. PICK v \in 0 .. MaxBlock : l \in FirstLogs(inWindow(v), WindowLimit(options))
      BY DEF InWindow
    <3>2. l \in inWindow(v) /\ Window(Block(l), options.blockRate) = w
      BY <3>1 DEF FirstLogs, InWindow
    <3>3. QED
      BY <3>1, <3>2
  <2> HIDE DEF kept, inWindow
  <2>3. QED
    BY <2>1, <2>2
<1> HIDE DEF kept, states, dequeued, old
<1>8. kept \subseteq Logs /\ q.blocks \ old \subseteq Blocks
  BY <1>2, QueueParts
<1>9. /\ new \in Queue
      /\ new.logs = kept /\ new.blocks = q.blocks \ old /\ new.states = states
  BY <1>3, <1>4, <1>8 DEF Queue
<1> HIDE DEF new
<1>10. \A l \in DOMAIN states : l \in fresh \ kept <=> l \in q.logs \ kept
  BY <1>6
<1>11. QED
  BY <1>1, <1>2, <1>5, <1>6, <1>9, <1>10, <1>7 DEF Cleans

(* The logs the queue accepts of a read.                                     *)
Accepts(q, logs, threshold) == {l \in logs : Block(l) >= threshold} \ DOMAIN q.states

(* A queue that has taken up the logs of a read.                             *)
Adds(q, new, logs, threshold, options) ==
  /\ new \in Queue /\ IsFiniteSet(new.logs)
  /\ new.logs \subseteq q.logs \cup Accepts(q, logs, threshold)
  /\ \A l \in new.logs :
       /\ l \in DOMAIN new.states /\ new.states[l] = "enqueued"
       /\ Block(l) \in new.blocks
  /\ DOMAIN new.states \subseteq DOMAIN q.states \cup Accepts(q, logs, threshold)
  /\ \A l \in DOMAIN q.states \cup logs : l \in DOMAIN new.states \/ Block(l) < threshold
  /\ \A l \in DOMAIN new.states :
       new.states[l] = "enqueued" /\ l \notin new.logs
         => l \in DOMAIN q.states /\ q.states[l] = "enqueued" /\ l \notin q.logs
  /\ \/ new.logs = q.logs
     \/ \A w \in Blocks : \E S \in SUBSET (q.logs \cup Accepts(q, logs, threshold)) :
          InWindow(new.logs, w, options) \subseteq FirstLogs(S, WindowLimit(options))

WithLogs(q, logs, blocks, states) ==
  [[[q EXCEPT !.logs = logs] EXCEPT !.blocks = blocks] EXCEPT !.states = states]

(* The fields of a queue whose logs change.                                  *)
LEMMA WithLogsFields ==
  ASSUME NEW q \in Queue, NEW logs, NEW blocks, NEW states
  PROVE  WithLogs(q, logs, blocks, states)
           = [logs |-> logs, blocks |-> blocks, states |-> states, dequeued |-> q.dequeued]
<1> DEFINE new == WithLogs(q, logs, blocks, states)
<1>1. q = [logs |-> q.logs, blocks |-> q.blocks, states |-> q.states,
           dequeued |-> q.dequeued]
  BY DEF Queue
<1>2. /\ DOMAIN new = {"logs", "blocks", "states", "dequeued"}
      /\ new.logs = logs /\ new.blocks = blocks /\ new.states = states
      /\ new.dequeued = q.dequeued
  BY <1>1 DEF WithLogs
<1>3. new = [f \in DOMAIN new |-> new[f]]
  BY DEF WithLogs
<1> HIDE DEF new
<1>4. new = [logs |-> logs, blocks |-> blocks, states |-> states, dequeued |-> q.dequeued]
  BY <1>2, <1>3
<1>5. QED
  BY <1>4 DEF new

(* enqueue takes up logs.                                                    *)
LEMMA AddToQueueAdds ==
  ASSUME NEW q \in Queue, IsFiniteSet(q.logs),
         \A l \in q.logs : l \in DOMAIN q.states /\ q.states[l] = "enqueued"
                             /\ Block(l) \in q.blocks,
         NEW logs \in SUBSET Logs, IsFiniteSet(logs),
         NEW threshold \in Int, NEW options
  PROVE  Adds(q, AddToQueue(q, logs, threshold, options), logs, threshold, options)
<1> DEFINE new == Accepts(q, logs, threshold)
           states == [l \in DOMAIN q.states \cup new |->
                        IF l \in new THEN "enqueued" ELSE q.states[l]]
           added == [logs |-> q.logs \cup new, blocks |-> q.blocks \cup {Block(l) : l \in new},
                     states |-> states, dequeued |-> q.dequeued]
           cleaned == Clean(added, threshold, options)
<1>1. AddToQueue(q, logs, threshold, options) = IF new = {} THEN q ELSE cleaned
  <2> DEFINE logsNow == q.logs \cup new
             blocksNow == q.blocks \cup {Block(l) : l \in new}
  <2>2. AddToQueue(q, logs, threshold, options)
          = IF new = {} THEN q
            ELSE Clean(WithLogs(q, logsNow, blocksNow, states), threshold, options)
    BY DEF AddToQueue, Accepts, WithLogs
  <2>3. added = [logs |-> logsNow, blocks |-> blocksNow, states |-> states,
                 dequeued |-> q.dequeued]
    OBVIOUS
  <2> HIDE DEF logsNow, blocksNow, states, new, added
  <2>4. WithLogs(q, logsNow, blocksNow, states)
          = [logs |-> logsNow, blocks |-> blocksNow, states |-> states,
             dequeued |-> q.dequeued]
    BY WithLogsFields
  <2>5. QED
    BY <2>2, <2>3, <2>4
<1>2. /\ q.logs \subseteq Logs /\ q.blocks \subseteq Blocks /\ DOMAIN q.states \subseteq Logs
      /\ q.states \in [DOMAIN q.states -> States] /\ q.dequeued \in [Blocks -> Nat]
  BY QueueParts
<1>3. new \subseteq logs /\ \A l \in new : l \in Logs /\ Block(l) >= threshold
                                             /\ l \notin DOMAIN q.states
  BY DEF Accepts
<1> HIDE DEF new
<1>4. /\ DOMAIN states = DOMAIN q.states \cup new
      /\ \A l \in DOMAIN q.states : states[l] = q.states[l]
      /\ \A l \in new : states[l] = "enqueued"
      /\ states \in [DOMAIN q.states \cup new -> States]
  BY <1>2, <1>3 DEF States
<1> HIDE DEF states
<1>5. /\ added \in Queue
      /\ added.logs = q.logs \cup new /\ added.states = states
      /\ added.blocks = q.blocks \cup {Block(l) : l \in new}
  <2>1. states \in StatesOfLogs
    BY <1>2, <1>3, <1>4 DEF StatesOfLogs
  <2>2. \A l \in new : Block(l) \in Blocks
    BY <1>3, LogParts
  <2>3. QED
    BY <1>2, <1>3, <2>1, <2>2 DEF Queue
<1>6. Cleans(added, cleaned, threshold, options)
  BY <1>5, CleanCleans
<1> HIDE DEF added, cleaned
<1>7. IsFiniteSet(added.logs)
  BY <1>3, <1>5, FS_Subset, FS_Union
<1>8. CASE new = {}
  <2>1. ASSUME NEW l \in DOMAIN q.states \cup logs
        PROVE  l \in DOMAIN q.states \/ Block(l) < threshold
    <3>1. Block(l) \in Int
      BY <1>2, LogParts
    <3>2. QED
      BY <1>8, <3>1 DEF new, Accepts
  <2>2. QED
    BY <1>1, <1>8, <2>1 DEF Adds
<1>9. CASE new # {}
  <2>1. cleaned \in Queue /\ IsFiniteSet(cleaned.logs)
    BY <1>6, <1>7, FS_Subset DEF Cleans
  <2>2. cleaned.logs \subseteq q.logs \cup new
    BY <1>5, <1>6 DEF Cleans
  <2>3. ASSUME NEW l \in cleaned.logs
        PROVE  /\ l \in DOMAIN cleaned.states /\ cleaned.states[l] = "enqueued"
               /\ Block(l) \in cleaned.blocks
    <3>1. l \in q.logs \cup new /\ Block(l) >= threshold
      BY <1>5, <1>6 DEF Cleans
    <3>2. l \in DOMAIN states /\ states[l] = "enqueued" /\ Block(l) \in added.blocks
      BY <1>4, <1>5, <3>1
    <3>3. QED
      BY <1>5, <1>6, <3>1, <3>2 DEF Cleans
  <2>4. DOMAIN cleaned.states \subseteq DOMAIN q.states \cup new
    BY <1>4, <1>5, <1>6 DEF Cleans
  <2>5. ASSUME NEW l \in DOMAIN q.states \cup logs
        PROVE  l \in DOMAIN cleaned.states \/ Block(l) < threshold
    <3>1. Block(l) \in Int
      BY <1>2, LogParts
    <3>2. l \in DOMAIN states \/ Block(l) < threshold
      BY <1>4, <3>1 DEF new, Accepts
    <3>3. QED
      BY <1>5, <1>6, <3>1, <3>2 DEF Cleans
  <2>6. ASSUME NEW l \in DOMAIN cleaned.states, cleaned.states[l] = "enqueued",
               l \notin cleaned.logs
        PROVE  l \in DOMAIN q.states /\ q.states[l] = "enqueued" /\ l \notin q.logs
    <3>1. l \notin q.logs \cup new /\ cleaned.states[l] = states[l]
      BY <1>5, <1>6, <2>6 DEF Cleans
    <3>2. l \in DOMAIN q.states
      BY <2>4, <3>1
    <3>3. QED
      BY <1>4, <2>6, <3>1, <3>2
  <2>7. \A w \in Blocks : \E S \in SUBSET (q.logs \cup new) :
          InWindow(cleaned.logs, w, options) \subseteq FirstLogs(S, WindowLimit(options))
    BY <1>5, <1>6 DEF Cleans
  <2>8. AddToQueue(q, logs, threshold, options) = cleaned
    BY <1>1, <1>9
  <2>9. QED
    BY <2>1, <2>2, <2>3, <2>4, <2>5, <2>6, <2>7, <2>8 DEF Adds, new
<1>10. QED
  BY <1>8, <1>9

(* A queue without the logs of the blocks in gone.                           *)
Evicts(q, new, gone) ==
  /\ new \in Queue
  /\ new.logs = {l \in q.logs : Block(l) \notin gone}
  /\ new.blocks = q.blocks /\ new.states = q.states

(* evictReorgdLogs makes such a queue.                                       *)
LEMMA EvictEvicts ==
  ASSUME NEW q \in Queue, \A l \in q.logs : Block(l) \in q.blocks, NEW gone, NEW options
  PROVE  Evicts(q, Evict(q, gone, options), gone)
<1> DEFINE logs == {l \in q.logs : Block(l) \notin gone \cap q.blocks}
           windows == {Window(n, options.blockRate) : n \in gone \cap q.blocks}
           dequeued == [w \in DOMAIN q.dequeued |-> IF w \in windows THEN 0 ELSE q.dequeued[w]]
           new == Evict(q, gone, options)
<1>1. q.dequeued \in [Blocks -> Nat] /\ q.logs \subseteq Logs /\ q.blocks \subseteq Blocks
      /\ q.states \in StatesOfLogs
  BY QueueParts
<1>2. logs = {l \in q.logs : Block(l) \notin gone}
  OBVIOUS
<1>3. dequeued \in [Blocks -> Nat]
  BY <1>1
<1>4. new = [[q EXCEPT !.logs = logs] EXCEPT !.dequeued = dequeued]
  BY DEF Evict
<1> HIDE DEF dequeued, logs, new
<1>5. new = [logs |-> logs, blocks |-> q.blocks, states |-> q.states, dequeued |-> dequeued]
  <2>1. q = [logs |-> q.logs, blocks |-> q.blocks, states |-> q.states,
             dequeued |-> q.dequeued]
    BY DEF Queue
  <2>2. QED
    BY <1>4, <2>1
<1>6. logs \subseteq Logs
  BY <1>1, <1>2
<1>7. /\ new \in Queue
      /\ new.logs = logs /\ new.blocks = q.blocks /\ new.states = q.states
  BY <1>1, <1>3, <1>5, <1>6 DEF Queue
<1>8. QED
  BY <1>2, <1>7 DEF Evicts, new

(* A queue nothing was put in yet.                                           *)
LEMMA NewQueueFits ==
  ASSUME NEW u, NEW hashes
  PROVE  QueueFits(NewQueue, u, hashes)
<1>1. << >> \in [{} -> States] /\ DOMAIN << >> = {}
  OBVIOUS
<1>2. << >> \in StatesOfLogs
  <2>1. {} \in SUBSET Logs
    OBVIOUS
  <2>2. QED
    BY <1>1, <2>1 DEF StatesOfLogs
<1>3. [w \in 0 .. MaxBlock |-> 0] \in [Blocks -> Nat]
  BY DEF Blocks
<1>4. NewQueue \in Queue /\ NewQueue.logs = {} /\ NewQueue.states = << >>
  BY <1>2, <1>3 DEF NewQueue, Queue
<1>5. QED
  BY <1>1, <1>4, FS_EmptySet DEF QueueFits

(* The queue of u that Enqueue works with.                                   *)
Present(buf, u) == IF u \in DOMAIN buf.queues THEN buf.queues[u] ELSE NewQueue

(* What Enqueue makes of each part of the buffer.                            *)
EnqueuesTo(buf, new, u, logs, options) ==
  LET reorged == ReorgedBlocks(buf, logs)
      threshold == Threshold(new.lastSeen, options)
  IN /\ new.lastSeen \in Blocks /\ new.lastSeen >= buf.lastSeen
     /\ \A l \in logs : new.lastSeen >= Block(l)
     /\ threshold \in Nat
     /\ new.hashes \in [1 .. MaxBlock -> Hashes \cup {NoHash}]
     /\ \A l \in logs : new.hashes[Block(l)] = l.hash
     /\ \A n \in 1 .. MaxBlock :
          (\A l \in logs : Block(l) # n) => new.hashes[n] = buf.hashes[n]
     /\ new.queues \in Queues
     /\ DOMAIN new.queues = DOMAIN buf.queues \cup {u}
     /\ \A v \in DOMAIN buf.queues \ {u} : Evicts(buf.queues[v], new.queues[v], reorged)
     /\ \E q \in Queue : /\ Evicts(Present(buf, u), q, reorged)
                         /\ Adds(q, new.queues[u], logs, threshold, options)

(* Enqueue evicts what was reorged and adds what is new.                     *)
LEMMA EnqueueEnqueues ==
  ASSUME NEW buf, BufferFits(buf), NEW u \in Upkeeps, NEW logs, ReadFits(logs, u),
         NEW options \in Configs
  PROVE  LET new == Enqueue(buf, u, logs, options)
         IN  /\ new = [queues |-> new.queues, hashes |-> new.hashes, lastSeen |-> new.lastSeen]
             /\ EnqueuesTo(buf, new, u, logs, options)
<1> DEFINE new == Enqueue(buf, u, logs, options)
           numbers == {Block(l) : l \in logs}
           reorged == ReorgedBlocks(buf, logs)
           lastSeen == Max({buf.lastSeen} \cup numbers)
           threshold == Threshold(lastSeen, options)
           known == IF u \in DOMAIN buf.queues THEN buf.queues
                    ELSE [v \in DOMAIN buf.queues \cup {u} |->
                            IF v = u THEN NewQueue ELSE buf.queues[v]]
           emptied == [v \in DOMAIN known |-> Evict(known[v], reorged, options)]
           queues == [emptied EXCEPT ![u] = AddToQueue(@, logs, threshold, options)]
           hashes == [n \in DOMAIN buf.hashes |->
                        IF n \in numbers THEN (CHOOSE l \in logs : Block(l) = n).hash
                        ELSE buf.hashes[n]]
<1>1. new = [queues |-> queues, hashes |-> hashes, lastSeen |-> lastSeen]
  BY DEF Enqueue
<1> HIDE DEF new
<1>2. /\ buf.lastSeen \in Blocks /\ buf.queues \in Queues
      /\ buf.hashes \in [1 .. MaxBlock -> Hashes \cup {NoHash}]
  BY DEF BufferFits
<1>3. logs \in SUBSET Logs /\ IsFiniteSet(logs)
  BY DEF ReadFits
<1>4. /\ lastSeen \in Blocks /\ lastSeen >= buf.lastSeen
      /\ \A l \in logs : lastSeen >= Block(l)
  <2>1. {buf.lastSeen} \cup numbers \subseteq Blocks
    BY <1>2, <1>3, LogParts
  <2>2. Blocks \subseteq Int /\ IsFiniteSet(Blocks)
    BY ConstantsAreNumbers, FS_Interval DEF Blocks
  <2>3. IsFiniteSet({buf.lastSeen} \cup numbers)
    BY <2>1, <2>2, FS_Subset
  <2>4. \A l \in logs : Block(l) \in numbers
    OBVIOUS
  <2> HIDE DEF numbers
  <2>5. /\ Max({buf.lastSeen} \cup numbers) \in {buf.lastSeen} \cup numbers
        /\ \A n \in {buf.lastSeen} \cup numbers : n <= Max({buf.lastSeen} \cup numbers)
    BY <2>1, <2>2, <2>3, MaxIsGreatest
  <2>6. lastSeen \in Int /\ \A n \in {buf.lastSeen} \cup numbers : n \in Int /\ n <= lastSeen
    BY <2>1, <2>2, <2>5
  <2>7. QED
    BY <2>1, <2>4, <2>5, <2>6
<1>5. threshold \in Nat
  BY <1>4, ThresholdIsBlock
<1>6. /\ hashes \in [1 .. MaxBlock -> Hashes \cup {NoHash}]
      /\ \A l \in logs : hashes[Block(l)] = l.hash
      /\ \A n \in 1 .. MaxBlock : (\A l \in logs : Block(l) # n) => hashes[n] = buf.hashes[n]
  <2>1. ASSUME NEW l \in logs
        PROVE  hashes[Block(l)] = l.hash /\ Block(l) \in 1 .. MaxBlock
    <3> DEFINE m == CHOOSE k \in logs : Block(k) = Block(l)
    <3>1. m \in logs /\ Block(m) = Block(l)
      OBVIOUS
    <3>2. m.hash = l.hash
      BY <3>1 DEF ReadFits
    <3>3. Block(l) \in DOMAIN buf.hashes /\ Block(l) \in 1 .. MaxBlock
      BY <1>2, <1>3, LogParts
    <3>4. hashes[Block(l)] = m.hash
      BY <3>3
    <3>5. QED
      BY <3>2, <3>3, <3>4
  <2>2. ASSUME NEW n \in 1 .. MaxBlock, \A l \in logs : Block(l) # n
        PROVE  hashes[n] = buf.hashes[n]
    BY <1>2, <2>2
  <2>3. ASSUME NEW n \in 1 .. MaxBlock
        PROVE  hashes[n] \in Hashes \cup {NoHash}
    <3>1. CASE \E l \in logs : Block(l) = n
      BY <1>3, <2>1, <3>1, LogParts
    <3>2. CASE \A l \in logs : Block(l) # n
      BY <1>2, <2>2, <3>2
    <3>3. QED
      BY <3>1, <3>2
  <2>4. hashes = [n \in 1 .. MaxBlock |-> hashes[n]]
    BY <1>2
  <2> HIDE DEF hashes
  <2>5. QED
    BY <2>1, <2>2, <2>3, <2>4
<1> HIDE DEF lastSeen, threshold, hashes, reorged
<1>7. /\ DOMAIN known = DOMAIN buf.queues \cup {u}
      /\ known[u] = Present(buf, u)
      /\ \A v \in DOMAIN buf.queues \ {u} : known[v] = buf.queues[v]
  BY DEF Present
<1>8. \A v \in DOMAIN known : QueueFits(known[v], v, buf.hashes)
  BY <1>7, NewQueueFits DEF Present, BufferFits
<1> HIDE DEF known
<1>9. \A v \in DOMAIN known : Evicts(known[v], Evict(known[v], reorged, options), reorged)
  BY <1>8, EvictEvicts DEF QueueFits
<1> DEFINE q == Evict(known[u], reorged, options)
<1>10. Evicts(Present(buf, u), q, reorged) /\ q \in Queue
  BY <1>7, <1>9 DEF Evicts
<1>11. Adds(q, AddToQueue(q, logs, threshold, options), logs, threshold, options)
  <2>1. QueueFits(Present(buf, u), u, buf.hashes)
    BY <1>7, <1>8
  <2>2. IsFiniteSet(q.logs)
    BY <1>10, <2>1, FS_Subset DEF Evicts, QueueFits
  <2>3. \A l \in q.logs : l \in DOMAIN q.states /\ q.states[l] = "enqueued"
                            /\ Block(l) \in q.blocks
    BY <1>10, <2>1 DEF Evicts, QueueFits
  <2> HIDE DEF q
  <2>4. threshold \in Int
    BY <1>5
  <2>5. QED
    BY <1>3, <1>10, <2>2, <2>3, <2>4, AddToQueueAdds
<1>12. /\ DOMAIN queues = DOMAIN known
       /\ queues[u] = AddToQueue(q, logs, threshold, options)
       /\ \A v \in DOMAIN known \ {u} : queues[v] = Evict(known[v], reorged, options)
       /\ queues = [v \in DOMAIN known |-> queues[v]]
  BY <1>7
<1> HIDE DEF q, queues
<1>13. queues \in Queues
  <2>1. \A v \in DOMAIN known : queues[v] \in Queue
    BY <1>9, <1>11, <1>12 DEF Evicts, Adds
  <2>2. DOMAIN known \in SUBSET Upkeeps
    BY <1>2, <1>7, QueuesParts
  <2>3. queues \in [DOMAIN known -> Queue]
    BY <1>12, <2>1
  <2>4. QED
    BY <2>2, <2>3 DEF Queues
<1>14. /\ new.queues = queues /\ new.hashes = hashes /\ new.lastSeen = lastSeen
       /\ new = [queues |-> new.queues, hashes |-> new.hashes, lastSeen |-> new.lastSeen]
  BY <1>1
<1>15. \A v \in DOMAIN buf.queues \ {u} : Evicts(buf.queues[v], queues[v], reorged)
  BY <1>7, <1>9, <1>12
<1>16. EnqueuesTo(buf, new, u, logs, options)
  BY <1>4, <1>5, <1>6, <1>7, <1>10, <1>11, <1>12, <1>13, <1>14, <1>15
     DEF EnqueuesTo, reorged, threshold
<1>17. QED
  BY <1>14, <1>16 DEF new

(* What is left in a queue after the eviction has the hashes the buffer has  *)
(* after the read.                                                           *)
LEMMA EvictionKeepsForks ==
  ASSUME NEW buf, BufferFits(buf), NEW u \in Upkeeps, NEW logs, ReadFits(logs, u),
         NEW options, NEW new, EnqueuesTo(buf, new, u, logs, options),
         NEW q, NEW v, QueueFits(q, v, buf.hashes),
         NEW kept, Evicts(q, kept, ReorgedBlocks(buf, logs))
  PROVE  QueueFits(kept, v, new.hashes)
<1>1. ASSUME NEW l \in kept.logs
      PROVE  l.hash = new.hashes[Block(l)]
  <2>1. l \in q.logs /\ Block(l) \notin ReorgedBlocks(buf, logs)
    BY DEF Evicts
  <2>2. l \in Logs /\ l.hash = buf.hashes[Block(l)]
    BY <2>1, QueueParts DEF QueueFits
  <2>3. Block(l) \in 1 .. MaxBlock /\ buf.hashes[Block(l)] # NoHash
    BY <2>2, LogParts
  <2>4. CASE \E m \in logs : Block(m) = Block(l)
    <3>1. PICK m \in logs : Block(m) = Block(l)
      BY <2>4
    <3>2. m.hash = buf.hashes[Block(l)]
      BY <2>1, <2>3, <3>1 DEF ReorgedBlocks
    <3>3. new.hashes[Block(m)] = m.hash
      BY DEF EnqueuesTo
    <3>4. QED
      BY <2>2, <3>1, <3>2, <3>3
  <2>5. CASE \A m \in logs : Block(m) # Block(l)
    BY <2>2, <2>3, <2>5 DEF EnqueuesTo
  <2>6. QED
    BY <2>4, <2>5
<1>2. IsFiniteSet(kept.logs)
  BY FS_Subset DEF Evicts, QueueFits
<1>3. QED
  BY <1>1, <1>2 DEF QueueFits, Evicts

(* After Enqueue the buffer fits.                                            *)
LEMMA EnqueueFits ==
  ASSUME NEW buf, BufferFits(buf), NEW u \in Upkeeps, NEW logs, ReadFits(logs, u),
         NEW options \in Configs
  PROVE  BufferFits(Enqueue(buf, u, logs, options))
<1> DEFINE new == Enqueue(buf, u, logs, options)
<1>1. /\ new = [queues |-> new.queues, hashes |-> new.hashes, lastSeen |-> new.lastSeen]
      /\ EnqueuesTo(buf, new, u, logs, options)
  BY EnqueueEnqueues
<1> HIDE DEF new
<1>2. new \in [queues : Queues, hashes : [1 .. MaxBlock -> Hashes \cup {NoHash}],
               lastSeen : Blocks]
  BY <1>1 DEF EnqueuesTo
<1>3. IsFiniteSet(DOMAIN new.queues)
  BY <1>1, FS_AddElement DEF EnqueuesTo, BufferFits
<1>4. ASSUME NEW v \in DOMAIN buf.queues \ {u}
      PROVE  QueueFits(new.queues[v], v, new.hashes)
  <2>1. QueueFits(buf.queues[v], v, buf.hashes)
    BY DEF BufferFits
  <2>2. Evicts(buf.queues[v], new.queues[v], ReorgedBlocks(buf, logs))
    BY <1>1 DEF EnqueuesTo
  <2>3. QED
    BY <1>1, <2>1, <2>2, EvictionKeepsForks
<1>5. QueueFits(new.queues[u], u, new.hashes)
  <2> DEFINE threshold == Threshold(new.lastSeen, options)
             added == new.queues[u]
  <2>1. PICK q \in Queue : /\ Evicts(Present(buf, u), q, ReorgedBlocks(buf, logs))
                           /\ Adds(q, added, logs, threshold, options)
    BY <1>1 DEF EnqueuesTo
  <2>2. QueueFits(Present(buf, u), u, buf.hashes)
    BY NewQueueFits DEF Present, BufferFits
  <2>3. QueueFits(q, u, new.hashes)
    BY <1>1, <2>1, <2>2, EvictionKeepsForks
  <2>4. \A l \in Accepts(q, logs, threshold) : l \in logs
    BY DEF Accepts
  <2> HIDE DEF threshold, added
  <2>5. \A l \in logs : l.upkeep = u /\ l.hash = new.hashes[Block(l)]
    BY <1>1 DEF EnqueuesTo, ReadFits
  <2>6. \A l \in DOMAIN added.states : l.upkeep = u
    BY <2>1, <2>3, <2>4, <2>5 DEF Adds, QueueFits
  <2>7. \A l \in added.logs : l.hash = new.hashes[Block(l)]
    BY <2>1, <2>3, <2>4, <2>5 DEF Adds, QueueFits
  <2>8. QueueFits(added, u, new.hashes)
    BY <2>1, <2>6, <2>7 DEF Adds, QueueFits
  <2>9. QED
    BY <2>8 DEF added
<1>6. \A v \in DOMAIN new.queues : QueueFits(new.queues[v], v, new.hashes)
  BY <1>1, <1>4, <1>5 DEF EnqueuesTo
<1>7. QED
  BY <1>2, <1>3, <1>6 DEF BufferFits, new

-------------------------------------------------------------------------------
(* Reading logs.                                                             *)

(* The logs of an upkeep in a block.                                         *)
LEMMA LogsOfBlock ==
  ASSUME NEW u \in Upkeeps, NEW hash \in Hashes
  PROVE  /\ LogsOf(u, hash) \in SUBSET Logs /\ IsFiniteSet(LogsOf(u, hash))
         /\ \A l \in LogsOf(u, hash) : l.upkeep = u /\ l.hash = hash
<1> DEFINE f == [i \in 1 .. LogCount[u] |-> [upkeep |-> u, hash |-> hash, index |-> i]]
<1>1. LogCount[u] \in Nat
  BY ProviderAssumption
<1>2. f \in Surjection(1 .. LogCount[u], LogsOf(u, hash))
  BY DEF Surjection, LogsOf
<1> HIDE DEF f
<1>3. IsFiniteSet(LogsOf(u, hash))
  BY <1>1, <1>2, FS_Interval, FS_Surjection
<1>4. 1 .. LogCount[u] \subseteq Nat
  BY <1>1
<1>5. QED
  BY <1>3, <1>4 DEF LogsOf, Logs

(* A fork is named by its blocks.                                            *)
LEMMA ForkOfBlock ==
  ASSUME chain \in Seq(Tags), Len(chain) <= MaxBlock, NEW n \in 1 .. Latest
  PROVE  SubSeq(chain, 1, n) \in Hashes /\ Len(SubSeq(chain, 1, n)) = n
<1>1. Len(chain) \in Nat
  BY LenProperties
<1>2. SubSeq(chain, 1, n) \in Seq(Tags) /\ Len(SubSeq(chain, 1, n)) = n
  BY <1>1, SubSeqProperties DEF Latest
<1>3. n \in 1 .. MaxBlock
  BY <1>1, ConstantsAreNumbers DEF Latest
<1>4. QED
  BY <1>2, <1>3 DEF Hashes

(* A read answers with logs of one chain.                                    *)
LEMMA ReadsFit ==
  ASSUME chain \in Seq(Tags), Len(chain) <= MaxBlock, NEW u \in Upkeeps,
         NEW start \in Int, NEW end \in Int
  PROVE  ReadFits(LogsWithSigs(u, start, end), u)
<1> DEFINE numbers == Max({1, start}) .. Min({end, Latest})
           logsIn(n) == LogsOf(u, SubSeq(chain, 1, n))
           parts == {logsIn(n) : n \in numbers}
           f == [n \in numbers |-> logsIn(n)]
<1>1. Latest \in Nat
  BY LenProperties DEF Latest
<1>2. /\ Max({1, start}) \in Int /\ Max({1, start}) >= 1
      /\ Min({end, Latest}) \in Int /\ Min({end, Latest}) <= Latest
  <2>1. 1 \in Int /\ Latest \in Int
    BY <1>1
  <2>2. /\ Max({1, start}) \in {1, start} /\ Max({1, start}) >= 1
        /\ Min({end, Latest}) \in {end, Latest} /\ Min({end, Latest}) <= Latest
    BY <2>1, MaxOfTwo
  <2>3. QED
    BY <2>1, <2>2
<1>3. numbers \subseteq 1 .. Latest /\ IsFiniteSet(numbers)
  <2>1. IsFiniteSet(numbers)
    BY <1>2, FS_Interval
  <2>2. numbers \subseteq 1 .. Latest
    BY <1>1, <1>2
  <2>3. QED
    BY <2>1, <2>2
<1> HIDE DEF numbers
<1>4. ASSUME NEW n \in numbers
      PROVE  /\ logsIn(n) \in SUBSET Logs /\ IsFiniteSet(logsIn(n))
             /\ \A l \in logsIn(n) : /\ l.upkeep = u /\ l.hash = SubSeq(chain, 1, n)
                                     /\ Block(l) = n
  <2>1. SubSeq(chain, 1, n) \in Hashes /\ Len(SubSeq(chain, 1, n)) = n
    BY <1>3, ForkOfBlock
  <2>2. QED
    BY <2>1, LogsOfBlock DEF Block
<1> HIDE DEF logsIn
<1>5. IsFiniteSet(parts)
  <2>1. f \in Surjection(numbers, parts)
    BY DEF Surjection
  <2>2. QED
    BY <1>3, <2>1, FS_Surjection
<1>6. IsFiniteSet(UNION parts)
  BY <1>4, <1>5, FS_UNION
<1>7. /\ UNION parts \in SUBSET Logs
      /\ \A l \in UNION parts : l.upkeep = u
      /\ \A l, m \in UNION parts : Block(l) = Block(m) => l.hash = m.hash
  <2>1. \A l \in UNION parts : \E n \in numbers : l \in logsIn(n)
    OBVIOUS
  <2>2. ASSUME NEW l \in UNION parts
        PROVE  l \in Logs /\ l.upkeep = u /\ l.hash = SubSeq(chain, 1, Block(l))
    <3>1. PICK n \in numbers : l \in logsIn(n)
      BY <2>1
    <3>2. QED
      BY <1>4, <3>1
  <2> HIDE DEF parts
  <2>3. QED
    BY <2>2
<1>8. LogsWithSigs(u, start, end) = UNION parts
  BY DEF LogsWithSigs, logsIn, numbers
<1>9. QED
  BY <1>6, <1>7, <1>8 DEF ReadFits

-------------------------------------------------------------------------------
(* Types, states and forks.                                                  *)

(* In the beginning nothing was read.                                        *)
LEMMA InitFits == Init => ProviderInv
<1> SUFFICES ASSUME Init
             PROVE  ProviderInv
  OBVIOUS
<1>1. WorldFits
  <2>1. chain \in Seq(Tags) /\ Len(chain) = 0
    BY DEF Init
  <2>2. filters \in [Upkeeps -> Filters] /\ DOMAIN filters = Upkeeps
    BY ConstantsAreNumbers DEF Init, Filters, Blocks
  <2>3. QED
    BY <2>1, <2>2, ConstantsAreNumbers DEF Init, WorldFits
<1>2. ReadersFit
  BY DEF Init, ReadersFit, ReaderFits
<1>3. BufferFits(buffer)
  <2>1. << >> \in [{} -> Queue] /\ DOMAIN << >> = {}
    OBVIOUS
  <2>2. << >> \in Queues
    <3>1. {} \in SUBSET Upkeeps
      OBVIOUS
    <3>2. QED
      BY <2>1, <3>1 DEF Queues
  <2>3. [n \in 1 .. MaxBlock |-> NoHash] \in [1 .. MaxBlock -> Hashes \cup {NoHash}]
    OBVIOUS
  <2>4. 0 \in Blocks
    BY ConstantsAreNumbers DEF Blocks
  <2>5. QED
    BY <2>1, <2>2, <2>3, <2>4, FS_EmptySet DEF Init, EmptyBuffer, BufferFits
<1>4. FlowFits
  BY DEF Init, FlowFits
<1>5. QED
  BY <1>1, <1>2, <1>3, <1>4 DEF ProviderInv

(* The chain has only blocks.                                                *)
LEMMA LatestIsBlock ==
  ASSUME WorldFits
  PROVE  Latest \in Blocks /\ Latest \in Nat
BY LenProperties, ConstantsAreNumbers DEF WorldFits, Latest, Blocks

(* The chain grows, or its end is replaced.                                  *)
LEMMA ChainStepFits ==
  ASSUME WorldFits, NewBlock \/ \E n \in DOMAIN chain : Reorg(n)
  PROVE  WorldFits'
<1>1. Latest \in Nat /\ Latest <= MaxBlock /\ MaxBlock \in Nat /\ chain \in Seq(Tags)
      /\ Latest = Len(chain)
  BY LatestIsBlock, ConstantsAreNumbers DEF WorldFits, Latest
<1>2. filters' = filters /\ config' = config
  BY DEF NewBlock, Reorg
<1>3. CASE NewBlock
  <2>1. PICK t \in IF chain = << >> THEN {CHOOSE k \in Tags : TRUE} ELSE {Last(chain)} :
                chain' = Append(chain, t)
    BY <1>3 DEF NewBlock
  <2>2. t \in Tags
    <3>1. CASE chain = << >>
      BY <2>1, <3>1, ProviderAssumption
    <3>2. CASE chain # << >>
      <4>1. Len(chain) \in 1 .. Len(chain)
        BY <1>1, <3>2, EmptySeq
      <4>2. t = chain[Len(chain)]
        BY <2>1, <3>2 DEF Last
      <4>3. QED
        BY <1>1, <4>1, <4>2, ElementOfSeq
    <3>3. QED
      BY <3>1, <3>2
  <2>3. chain' \in Seq(Tags) /\ Len(chain') = Len(chain) + 1
    BY <1>1, <2>1, <2>2, AppendProperties
  <2>4. Latest < MaxBlock
    BY <1>3 DEF NewBlock
  <2>5. QED
    BY <1>1, <1>2, <2>3, <2>4 DEF WorldFits
<1>4. ASSUME NEW n \in DOMAIN chain, Reorg(n)
      PROVE  WorldFits'
  <2>1. n \in 1 .. Len(chain)
    BY <1>1
  <2>2. PICK t \in Tags \ {chain[n]} : chain' = Append(SubSeq(chain, 1, n - 1), t)
    BY <1>4 DEF Reorg
  <2>3. \A i \in 1 .. n - 1 : chain[i] \in Tags
    BY <1>1, <2>1, ElementOfSeq
  <2>4. SubSeq(chain, 1, n - 1) \in Seq(Tags) /\ Len(SubSeq(chain, 1, n - 1)) = n - 1
    <3>1. n \in Int /\ n - 1 \in Int /\ n >= 1
      BY <1>1, <2>1
    <3>2. /\ SubSeq(chain, 1, n - 1) \in Seq(Tags)
          /\ Len(SubSeq(chain, 1, n - 1)) = IF 1 <= n - 1 THEN n - 1 - 1 + 1 ELSE 0
      BY <2>3, <3>1, SubSeqProperties
    <3>3. QED
      BY <3>1, <3>2
  <2>5. chain' \in Seq(Tags) /\ Len(chain') = n - 1 + 1
    BY <2>2, <2>4, AppendProperties
  <2>6. QED
    BY <1>1, <1>2, <2>1, <2>5 DEF WorldFits
<1>5. QED
  BY <1>3, <1>4

(* Filters come, go and are polled; the plugin sets the configuration.       *)
LEMMA FiltersStepFits ==
  ASSUME WorldFits, ReadersFit,
         \/ \E u \in Upkeeps : RegisterFilter(u)
         \/ \E u \in DOMAIN filters : UnregisterFilter(u)
         \/ \E c \in Configs \ {config} : SetConfig(c)
         \/ \E r \in Readers : UpdateLastPoll(r)
  PROVE  WorldFits'
<1>1. chain' = chain
  BY DEF RegisterFilter, UnregisterFilter, SetConfig, UpdateLastPoll
<1>2. /\ DOMAIN filters \subseteq Upkeeps
      /\ \A u \in DOMAIN filters : filters[u] \in Filters
  BY DEF WorldFits
<1>3. ASSUME NEW u \in Upkeeps, RegisterFilter(u)
      PROVE  WorldFits'
  <2>1. [lastPoll |-> 0, since |-> Latest] \in Filters
    BY LatestIsBlock, ConstantsAreNumbers DEF Filters, Blocks
  <2>2. filters' = [v \in DOMAIN filters \cup {u} |->
                      IF v = u THEN [lastPoll |-> 0, since |-> Latest] ELSE filters[v]]
    BY <1>3 DEF RegisterFilter
  <2> DEFINE new == [lastPoll |-> 0, since |-> Latest]
  <2> HIDE DEF new
  <2>3. /\ DOMAIN filters' = DOMAIN filters \cup {u}
        /\ filters' \in [DOMAIN filters \cup {u} -> Filters]
    BY <1>2, <2>1, <2>2 DEF new
  <2>4. config' = config
    BY <1>3 DEF RegisterFilter
  <2>5. QED
    BY <1>1, <1>2, <2>3, <2>4 DEF WorldFits
<1>4. ASSUME NEW u \in DOMAIN filters, UnregisterFilter(u)
      PROVE  WorldFits'
  <2>1. /\ DOMAIN filters' = DOMAIN filters \ {u}
        /\ filters' \in [DOMAIN filters \ {u} -> Filters]
    BY <1>2, <1>4 DEF UnregisterFilter
  <2>2. config' = config
    BY <1>4 DEF UnregisterFilter
  <2>3. QED
    BY <1>1, <1>2, <2>1, <2>2 DEF WorldFits
<1>5. ASSUME NEW c \in Configs, SetConfig(c)
      PROVE  WorldFits'
  BY <1>1, <1>5 DEF SetConfig, WorldFits
<1>6. ASSUME NEW r \in Readers, UpdateLastPoll(r)
      PROVE  WorldFits'
  <2> DEFINE me == readers[r]
  <2>1. me \in Updating
    BY <1>6 DEF UpdateLastPoll, ReadersFit, ReaderFits, Idle, Fetching, Enqueuing
  <2> HIDE DEF me
  <2>2. me.lastPoll \in Blocks
    BY <2>1 DEF Updating
  <2>3. ASSUME NEW u \in DOMAIN filters
        PROVE  [filters[u] EXCEPT !.lastPoll = Max({filters[u].lastPoll, me.lastPoll})] \in Filters
    <3>1. filters[u].lastPoll \in Blocks /\ Blocks \subseteq Int
      BY <1>2 DEF Filters, Blocks
    <3>2. Max({filters[u].lastPoll, me.lastPoll}) \in Blocks
      <4>1. filters[u].lastPoll \in Int /\ me.lastPoll \in Int
        BY <2>2, <3>1
      <4>2. Max({filters[u].lastPoll, me.lastPoll}) \in {filters[u].lastPoll, me.lastPoll}
        BY <4>1, MaxOfTwo
      <4>3. QED
        BY <2>2, <3>1, <4>2
    <3>3. QED
      BY <1>2, <3>2 DEF Filters
  <2>4. filters' = [u \in DOMAIN filters |->
                      IF u = me.upkeep
                      THEN [filters[u] EXCEPT !.lastPoll = Max({filters[u].lastPoll, me.lastPoll})]
                      ELSE filters[u]]
    BY <1>6 DEF UpdateLastPoll, me
  <2>5. DOMAIN filters' = DOMAIN filters /\ filters' \in [DOMAIN filters -> Filters]
    BY <1>2, <2>3, <2>4
  <2>6. config' = config
    BY <1>6 DEF UpdateLastPoll
  <2>7. QED
    BY <1>1, <1>2, <2>5, <2>6 DEF WorldFits
<1>7. QED
  BY <1>3, <1>4, <1>5, <1>6

(* What a thread holds fits after each of its steps.                         *)
LEMMA ReadersStepFits ==
  ASSUME WorldFits, ReadersFit, NEW r \in Readers,
         \/ \E u \in Upkeeps : StartRead(r, u)
         \/ FetchLogs(r) \/ FetchFails(r) \/ EnqueueLogs(r) \/ UpdateLastPoll(r)
  PROVE  ReadersFit'
<1> DEFINE me == readers[r]
<1>1. ReaderFits(me)
  BY DEF ReadersFit
<1>2. SUFFICES ASSUME NEW next, readers' = [readers EXCEPT ![r] = next], ReaderFits(next)
               PROVE  ReadersFit'
  <2>1. ASSUME NEW u \in Upkeeps, StartRead(r, u)
        PROVE  \E next : readers' = [readers EXCEPT ![r] = next] /\ ReaderFits(next)
    <3> DEFINE next == [pc |-> "fetch", upkeep |-> u, latest |-> Latest,
                        lastPoll |-> filters[u].lastPoll, since |-> filters[u].since]
    <3>1. filters[u] \in Filters
      BY <2>1 DEF StartRead, WorldFits
    <3>2. next \in Fetching
      BY <3>1, LatestIsBlock DEF Filters, Fetching
    <3>3. readers' = [readers EXCEPT ![r] = next]
      BY <2>1 DEF StartRead
    <3> HIDE DEF next
    <3>4. QED
      BY <3>2, <3>3 DEF ReaderFits
  <2>2. ASSUME FetchLogs(r)
        PROVE  \E next : readers' = [readers EXCEPT ![r] = next] /\ ReaderFits(next)
    <3> DEFINE from == ReadFrom(me, me.latest)
               logs == LogsWithSigs(me.upkeep, from, me.latest)
               next == [pc |-> "enqueue", upkeep |-> me.upkeep, lastPoll |-> me.latest,
                        logs |-> logs]
    <3>1. me \in Fetching
      BY <1>1, <2>2 DEF FetchLogs, ReaderFits, Idle, Enqueuing, Updating
    <3>2. /\ me.upkeep \in Upkeeps /\ me.latest \in Blocks
          /\ me.latest \in Int /\ me.lastPoll \in Int /\ me.since \in Int
      BY <3>1 DEF Fetching, Blocks
    <3> HIDE DEF me
    <3>3. from \in Int
      <4> DEFINE lookback == IF me.latest < LOOKBACK THEN me.latest - 1 ELSE LOOKBACK
                 start == Max({me.lastPoll, me.latest - lookback}) - REORG_BUFFER
      <4>1. lookback \in Int /\ REORG_BUFFER \in Int
        BY <3>2, ConstantsAreNumbers
      <4> HIDE DEF lookback
      <4>2. Max({me.lastPoll, me.latest - lookback}) \in Int
        <5>1. me.latest - lookback \in Int
          BY <3>2, <4>1
        <5>2. Max({me.lastPoll, me.latest - lookback}) \in {me.lastPoll, me.latest - lookback}
          BY <3>2, <5>1, MaxOfTwo
        <5>3. QED
          BY <3>2, <5>1, <5>2
      <4>3. start \in Int
        BY <4>1, <4>2
      <4>4. from = Max({start, me.since})
        BY DEF ReadFrom, lookback
      <4> HIDE DEF start, from
      <4>5. Max({start, me.since}) \in {start, me.since}
        BY <3>2, <4>3, MaxOfTwo
      <4>6. QED
        BY <3>2, <4>3, <4>4, <4>5
    <3> HIDE DEF from
    <3>4. ReadFits(logs, me.upkeep)
      BY <3>2, <3>3, ReadsFit DEF WorldFits
    <3>5. readers' = [readers EXCEPT ![r] = next]
      BY <2>2 DEF FetchLogs, me, from
    <3> HIDE DEF logs
    <3>6. /\ next \in Enqueuing /\ next.logs = logs /\ next.upkeep = me.upkeep
      BY <3>2, <3>4 DEF Enqueuing, ReadFits
    <3> HIDE DEF next
    <3>7. QED
      BY <3>4, <3>5, <3>6 DEF ReaderFits
  <2>3. ASSUME FetchFails(r) \/ EnqueueLogs(r)
        PROVE  \E next : readers' = [readers EXCEPT ![r] = next] /\ ReaderFits(next)
    <3> DEFINE next == [pc |-> "update", upkeep |-> me.upkeep, lastPoll |-> me.lastPoll]
    <3>1. me \in Fetching \/ me \in Enqueuing
      BY <1>1, <2>3 DEF FetchFails, EnqueueLogs, ReaderFits, Idle, Updating
    <3>2. readers' = [readers EXCEPT ![r] = next]
      BY <2>3 DEF FetchFails, EnqueueLogs
    <3> HIDE DEF me
    <3>3. me.upkeep \in Upkeeps /\ me.lastPoll \in Blocks
      BY <3>1 DEF Fetching, Enqueuing
    <3>4. next \in Updating
      BY <3>3 DEF Updating
    <3> HIDE DEF next
    <3>5. QED
      BY <3>2, <3>4 DEF ReaderFits
  <2>4. ASSUME UpdateLastPoll(r)
        PROVE  \E next : readers' = [readers EXCEPT ![r] = next] /\ ReaderFits(next)
    <3>1. readers' = [readers EXCEPT ![r] = Idle]
      BY <2>4 DEF UpdateLastPoll
    <3>2. QED
      BY <3>1 DEF ReaderFits
  <2>5. PICK next : readers' = [readers EXCEPT ![r] = next] /\ ReaderFits(next)
    BY <2>1, <2>2, <2>3, <2>4
  <2>6. QED
    BY <1>2, <2>5
<1>3. /\ readers' = [q \in Readers |-> readers'[q]]
      /\ \A q \in Readers : readers'[q] = IF q = r THEN next ELSE readers[q]
  BY <1>2 DEF ReadersFit
<1>4. ASSUME NEW q \in Readers
      PROVE  ReaderFits(readers'[q])
  BY <1>2, <1>3 DEF ReadersFit
<1>5. QED
  BY <1>3, <1>4 DEF ReadersFit, ReaderFits, ReadFits, Idle

(* The window the plugin asks for begins at a block.                         *)
LEMMA FlowWindowIsBlock ==
  ASSUME flow \in Taking, flow.start <= flow.latest
  PROVE  Window(flow.start, flow.rate) \in Blocks
<1>1. /\ flow.start \in Nat \ {0} /\ flow.rate \in Nat \ {0} /\ flow.latest \in Blocks
  BY DEF Taking
<1>2. /\ Window(flow.start, flow.rate) \in Int /\ Window(flow.start, flow.rate) <= flow.start
      /\ Window(flow.start, flow.rate) >= 0
  BY <1>1, WindowIsLower
<1>3. QED
  BY <1>1, <1>2, ConstantsAreNumbers DEF Blocks

(* While the plugin takes logs.                                              *)
LEMMA TakingIsFlow ==
  ASSUME FlowFits, flow.pc \in {"minimum", "best effort"}
  PROVE  flow \in Taking
<1>1. Idle.pc = "idle"
  BY DEF Idle
<1>2. flow # Idle
  BY <1>1
<1>3. QED
  BY <1>2 DEF FlowFits

(* The first window the plugin asks for.                                     *)
LEMMA FirstStartIsBlock ==
  ASSUME NEW n \in Blocks
  PROVE  FirstStart(n) \in Nat \ {0}
<1>1. 1 \in Int /\ n - LOOKBACK \in Int
  BY ConstantsAreNumbers DEF Blocks
<1>2. Max({1, n - LOOKBACK}) \in {1, n - LOOKBACK} /\ Max({1, n - LOOKBACK}) >= 1
  BY <1>1, MaxOfTwo
<1>3. QED
  BY <1>1, <1>2 DEF FirstStart

(* DequeueWindow takes logs from the buffer's queues.                        *)
LEMMA DequeueWindowTakes ==
  ASSUME BufferFits(buffer), FlowFits, DequeueWindow
  PROVE  /\ flow' \in Taking
         /\ \E taken \in SUBSET Logs :
              /\ Takes(buffer.queues, buffer'.queues, taken)
              /\ buffer'.hashes = buffer.hashes /\ buffer'.lastSeen = buffer.lastSeen
              /\ buffer' = [queues |-> buffer'.queues, hashes |-> buffer.hashes,
                            lastSeen |-> buffer.lastSeen]
              /\ delivered' = [l \in DOMAIN delivered \cup taken |->
                                 (IF l \in DOMAIN delivered THEN delivered[l] ELSE 0)
                                   + (IF l \in taken THEN 1 ELSE 0)]
<1> DEFINE start == Window(flow.start, flow.rate)
           result == Dequeue(buffer, start, MAX_PAYLOADS - flow.got, flow.pc = "minimum", config)
<1>1. flow \in Taking /\ flow.start <= flow.latest
  BY TakingIsFlow DEF DequeueWindow
<1>2. start \in Blocks
  BY <1>1, FlowWindowIsBlock
<1>3. MAX_PAYLOADS - flow.got \in Int
  <2>1. flow.got \in Int
    BY <1>1 DEF Taking
  <2>2. MAX_PAYLOADS \in Int
    BY ConstantsAreNumbers
  <2>3. QED
    BY <2>1, <2>2
<1>4. AllFit(buffer.queues, buffer.hashes)
  BY DEF BufferFits, AllFit
<1> HIDE DEF start
<1>5. /\ result \in [queues : Queues, taken : SUBSET Logs, capacity : Int]
      /\ Takes(buffer.queues, result.queues, result.taken)
  BY <1>2, <1>3, <1>4, DequeueTakes
<1>6. /\ buffer' = [buffer EXCEPT !.queues = result.queues]
      /\ delivered' = [l \in DOMAIN delivered \cup result.taken |->
                         (IF l \in DOMAIN delivered THEN delivered[l] ELSE 0)
                           + (IF l \in result.taken THEN 1 ELSE 0)]
      /\ flow' = [flow EXCEPT !.start = @ + flow.rate, !.got = MAX_PAYLOADS - result.capacity]
  BY DEF DequeueWindow, start
<1> HIDE DEF result
<1>7. flow' \in Taking
  <2>1. flow.start + flow.rate \in Nat \ {0} /\ MAX_PAYLOADS - result.capacity \in Int
    <3>1. flow.start \in Nat \ {0} /\ flow.rate \in Nat \ {0}
      BY <1>1 DEF Taking
    <3>2. MAX_PAYLOADS \in Int /\ result.capacity \in Int
      BY <1>5, ConstantsAreNumbers
    <3>3. QED
      BY <3>1, <3>2
  <2>2. flow' = [[flow EXCEPT !.start = flow.start + flow.rate]
                   EXCEPT !.got = MAX_PAYLOADS - result.capacity]
    BY <1>1, <1>6 DEF Taking
  <2>3. QED
    BY <1>1, <2>1, <2>2 DEF Taking
<1>8. /\ buffer'.queues = result.queues
      /\ buffer'.hashes = buffer.hashes /\ buffer'.lastSeen = buffer.lastSeen
      /\ buffer' = [queues |-> buffer'.queues, hashes |-> buffer.hashes,
                    lastSeen |-> buffer.lastSeen]
  BY <1>6 DEF BufferFits
<1>9. QED
  BY <1>5, <1>6, <1>7, <1>8

(* The plugin's flow fits after each of its steps.                           *)
LEMMA FlowStepFits ==
  ASSUME ProviderInv, FlowStep
  PROVE  FlowFits'
<1>1. CASE StartPayloads
  <2>1. Latest \in Blocks /\ FirstStart(Latest) \in Nat \ {0}
    BY LatestIsBlock, FirstStartIsBlock DEF ProviderInv
  <2>2. config.blockRate \in Nat \ {0}
    BY ConstantsAreNumbers DEF ProviderInv, WorldFits
  <2>3. flow' = [pc |-> "minimum", latest |-> Latest, start |-> FirstStart(Latest),
                 rate |-> config.blockRate, got |-> 0]
    BY <1>1 DEF StartPayloads
  <2>4. flow' \in Taking
    BY <2>1, <2>2, <2>3 DEF Taking
  <2>5. QED
    BY <2>4 DEF FlowFits
<1>2. CASE DequeueWindow
  BY <1>2, DequeueWindowTakes DEF ProviderInv, FlowFits
<1>3. CASE EndOfMinimum
  <2>1. flow \in Taking
    BY <1>3, TakingIsFlow DEF EndOfMinimum, ProviderInv
  <2>2. FirstStart(flow.latest) \in Nat \ {0}
    BY <2>1, FirstStartIsBlock DEF Taking
  <2>3. config.blockRate \in Nat \ {0}
    BY ConstantsAreNumbers DEF ProviderInv, WorldFits
  <2>4. \/ flow' = Idle
        \/ flow' = [flow EXCEPT !.pc = "best effort", !.start = FirstStart(flow.latest),
                                !.rate = config.blockRate]
    BY <1>3 DEF EndOfMinimum
  <2>5. [flow EXCEPT !.pc = "best effort", !.start = FirstStart(flow.latest),
                     !.rate = config.blockRate] \in Taking
    BY <2>1, <2>2, <2>3 DEF Taking
  <2>6. QED
    BY <2>4, <2>5 DEF FlowFits, Idle
<1>4. CASE EndOfBestEffort
  BY <1>4 DEF EndOfBestEffort, FlowFits, Idle
<1>5. QED
  BY <1>1, <1>2, <1>3, <1>4 DEF FlowStep

(* Queues of upkeeps without a filter disappear, the others stay.            *)
LEMMA SyncFiltersKeeps ==
  ASSUME BufferFits(buffer), SyncFilters
  PROVE  /\ BufferFits(buffer')
         /\ DOMAIN buffer'.queues = DOMAIN buffer.queues \cap DOMAIN filters
         /\ \A u \in DOMAIN buffer'.queues : buffer'.queues[u] = buffer.queues[u]
         /\ buffer'.hashes = buffer.hashes /\ buffer'.lastSeen = buffer.lastSeen
<1> DEFINE queues == [u \in DOMAIN buffer.queues \cap DOMAIN filters |-> buffer.queues[u]]
<1>1. buffer' = [buffer EXCEPT !.queues = queues]
  BY DEF SyncFilters, SyncQueues
<1>2. /\ buffer.queues \in [DOMAIN buffer.queues -> Queue]
      /\ DOMAIN buffer.queues \subseteq Upkeeps
  BY QueuesParts DEF BufferFits
<1>3. queues \in [DOMAIN buffer.queues \cap DOMAIN filters -> Queue]
  BY <1>2
<1>4. queues \in Queues
  <2>1. DOMAIN buffer.queues \cap DOMAIN filters \in SUBSET Upkeeps
    BY <1>2
  <2>2. QED
    BY <1>3, <2>1 DEF Queues
<1>5. /\ DOMAIN queues = DOMAIN buffer.queues \cap DOMAIN filters
      /\ \A u \in DOMAIN queues : queues[u] = buffer.queues[u]
  OBVIOUS
<1>6. IsFiniteSet(DOMAIN queues)
  BY <1>5, FS_Intersection DEF BufferFits
<1> HIDE DEF queues
<1>7. /\ buffer'.queues = queues
      /\ buffer'.hashes = buffer.hashes /\ buffer'.lastSeen = buffer.lastSeen
      /\ buffer' \in [queues : Queues, hashes : [1 .. MaxBlock -> Hashes \cup {NoHash}],
                      lastSeen : Blocks]
  BY <1>1, <1>4 DEF BufferFits
<1>8. \A u \in DOMAIN queues : QueueFits(queues[u], u, buffer.hashes)
  BY <1>5 DEF BufferFits
<1>9. QED
  BY <1>5, <1>6, <1>7, <1>8 DEF BufferFits

(* The read a thread puts into the buffer.                                   *)
LEMMA ReadOfThreadFits ==
  ASSUME ReadersFit, NEW r \in Readers, EnqueueLogs(r)
  PROVE  /\ readers[r].upkeep \in Upkeeps
         /\ ReadFits(readers[r].logs, readers[r].upkeep)
<1> DEFINE me == readers[r]
<1>1. me \in Enqueuing /\ ReadFits(me.logs, me.upkeep)
  BY DEF EnqueueLogs, ReadersFit, ReaderFits, Idle, Fetching, Updating
<1>2. QED
  BY <1>1 DEF Enqueuing

(* What a thread does to the buffer.                                         *)
LEMMA EnqueueLogsEnqueues ==
  ASSUME ProviderInv, NEW r \in Readers, EnqueueLogs(r)
  PROVE  /\ BufferFits(buffer')
         /\ readers[r].upkeep \in Upkeeps
         /\ ReadFits(readers[r].logs, readers[r].upkeep)
         /\ EnqueuesTo(buffer, buffer', readers[r].upkeep, readers[r].logs, config)
         /\ evicted' = evicted \cup ReorgedBlocks(buffer, readers[r].logs)
         /\ delivered' = delivered /\ config' = config
<1>1. /\ readers[r].upkeep \in Upkeeps
      /\ ReadFits(readers[r].logs, readers[r].upkeep)
  BY ReadOfThreadFits DEF ProviderInv
<1>2. buffer' = Enqueue(buffer, readers[r].upkeep, readers[r].logs, config)
  BY DEF EnqueueLogs
<1>3. BufferFits(buffer) /\ config \in Configs
  BY DEF ProviderInv, WorldFits
<1>4. /\ BufferFits(buffer')
      /\ EnqueuesTo(buffer, buffer', readers[r].upkeep, readers[r].logs, config)
  BY <1>1, <1>2, <1>3, EnqueueFits, EnqueueEnqueues
<1>5. /\ evicted' = evicted \cup ReorgedBlocks(buffer, readers[r].logs)
      /\ delivered' = delivered /\ config' = config
  BY DEF EnqueueLogs, world
<1>6. QED
  BY <1>1, <1>4, <1>5

(* Taking logs leaves the buffer in order.                                   *)
LEMMA TakesFits ==
  ASSUME BufferFits(buffer), NEW taken, Takes(buffer.queues, buffer'.queues, taken),
         buffer' = [queues |-> buffer'.queues, hashes |-> buffer.hashes,
                    lastSeen |-> buffer.lastSeen],
         buffer'.hashes = buffer.hashes, buffer'.lastSeen = buffer.lastSeen
  PROVE  BufferFits(buffer')
<1>1. \A u \in DOMAIN buffer.queues : QueueFits(buffer'.queues[u], u, buffer.hashes)
  BY TakenFits DEF Takes, BufferFits
<1>2. /\ buffer.hashes \in [1 .. MaxBlock -> Hashes \cup {NoHash}]
      /\ buffer.lastSeen \in Blocks
      /\ buffer'.queues \in Queues
      /\ DOMAIN buffer'.queues = DOMAIN buffer.queues
  BY DEF Takes, BufferFits
<1>3. buffer' \in [queues : Queues, hashes : [1 .. MaxBlock -> Hashes \cup {NoHash}],
                   lastSeen : Blocks]
  BY <1>2
<1>4. QED
  BY <1>1, <1>2, <1>3 DEF BufferFits

(* The steps that change the buffer, and those that do not.                  *)
LEMMA StepsOfProvider ==
  ASSUME [Next]_vars
  PROVE  \/ SyncFilters
         \/ \E r \in Readers : EnqueueLogs(r)
         \/ DequeueWindow
         \/ UNCHANGED <<buffer, delivered, evicted>>
<1>1. CASE UNCHANGED vars
  BY <1>1 DEF vars
<1>2. CASE \/ NewBlock \/ \E n \in DOMAIN chain : Reorg(n)
           \/ \E u \in Upkeeps : RegisterFilter(u)
           \/ \E u \in DOMAIN filters : UnregisterFilter(u)
           \/ \E c \in Configs \ {config} : SetConfig(c)
  BY <1>2 DEF NewBlock, Reorg, RegisterFilter, UnregisterFilter, SetConfig
<1>3. CASE \/ \E r \in Readers, u \in Upkeeps : StartRead(r, u)
           \/ \E r \in Readers : FetchLogs(r) \/ FetchFails(r) \/ UpdateLastPoll(r)
  BY <1>3 DEF StartRead, FetchLogs, FetchFails, UpdateLastPoll
<1>4. CASE StartPayloads \/ EndOfMinimum \/ EndOfBestEffort
  BY <1>4 DEF StartPayloads, EndOfMinimum, EndOfBestEffort
<1>5. QED
  BY <1>1, <1>2, <1>3, <1>4 DEF Next, ReaderStep, FlowStep

(* The buffer, the threads and the flow fit, always.                         *)
THEOREM ProviderInvHolds == Spec => []ProviderInv
<1>1. Init => ProviderInv
  BY InitFits
<1>2. ProviderInv /\ [Next]_vars => ProviderInv'
  <2> SUFFICES ASSUME ProviderInv, [Next]_vars
               PROVE  ProviderInv'
    OBVIOUS
  <2>1. WorldFits /\ ReadersFit /\ BufferFits(buffer) /\ FlowFits
    BY DEF ProviderInv
  <2>2. BufferFits(buffer')
    <3>1. CASE SyncFilters
      BY <2>1, <3>1, SyncFiltersKeeps
    <3>2. CASE \E r \in Readers : EnqueueLogs(r)
      BY <3>2, EnqueueLogsEnqueues
    <3>3. CASE DequeueWindow
      BY <2>1, <3>3, DequeueWindowTakes, TakesFits
    <3>4. CASE UNCHANGED <<buffer, delivered, evicted>>
      BY <2>1, <3>4
    <3>5. QED
      BY <3>1, <3>2, <3>3, <3>4, StepsOfProvider
  <2>3. ASSUME UNCHANGED <<chain, filters, config>>
        PROVE  WorldFits'
    BY <2>1, <2>3 DEF WorldFits
  <2>4. ASSUME UNCHANGED readers
        PROVE  ReadersFit'
    BY <2>1, <2>4 DEF ReadersFit, ReaderFits, Idle, ReadFits
  <2>5. ASSUME UNCHANGED flow
        PROVE  FlowFits'
    BY <2>1, <2>5 DEF FlowFits, Idle
  <2>6. CASE \/ NewBlock \/ \E n \in DOMAIN chain : Reorg(n)
    <3>1. UNCHANGED <<readers, flow>>
      BY <2>6 DEF NewBlock, Reorg
    <3>2. QED
      BY <2>1, <2>2, <2>4, <2>5, <2>6, <3>1, ChainStepFits DEF ProviderInv
  <2>7. CASE \/ \E u \in Upkeeps : RegisterFilter(u)
             \/ \E u \in DOMAIN filters : UnregisterFilter(u)
             \/ \E c \in Configs \ {config} : SetConfig(c)
    <3>1. UNCHANGED <<readers, flow>>
      BY <2>7 DEF RegisterFilter, UnregisterFilter, SetConfig
    <3>2. QED
      BY <2>1, <2>2, <2>4, <2>5, <2>7, <3>1, FiltersStepFits DEF ProviderInv
  <2>8. CASE SyncFilters
    BY <2>2, <2>3, <2>4, <2>5, <2>8 DEF SyncFilters, ProviderInv, world
  <2>9. ASSUME NEW r \in Readers,
               \/ \E u \in Upkeeps : StartRead(r, u)
               \/ FetchLogs(r) \/ FetchFails(r) \/ EnqueueLogs(r) \/ UpdateLastPoll(r)
        PROVE  ProviderInv'
    <3>1. ReadersFit'
      BY <2>1, <2>9, ReadersStepFits
    <3>2. FlowFits'
      BY <2>5, <2>9 DEF StartRead, FetchLogs, FetchFails, EnqueueLogs, UpdateLastPoll
    <3>3. WorldFits'
      <4>1. CASE UpdateLastPoll(r)
        BY <2>1, <4>1, FiltersStepFits
      <4>2. CASE ~UpdateLastPoll(r)
        BY <2>3, <2>9, <4>2 DEF StartRead, FetchLogs, FetchFails, EnqueueLogs, world
      <4>3. QED
        BY <4>1, <4>2
    <3>4. QED
      BY <2>2, <3>1, <3>2, <3>3 DEF ProviderInv
  <2>10. CASE FlowStep
    <3>1. FlowFits'
      BY <2>10, FlowStepFits
    <3>2. UNCHANGED <<chain, filters, config, readers>>
      BY <2>10 DEF FlowStep, StartPayloads, DequeueWindow, EndOfMinimum, EndOfBestEffort, world
    <3>3. QED
      BY <2>2, <2>3, <2>4, <3>1, <3>2 DEF ProviderInv
  <2>11. CASE UNCHANGED vars
    BY <2>2, <2>3, <2>4, <2>5, <2>11 DEF vars, world, ProviderInv
  <2>12. QED
    BY <2>6, <2>7, <2>8, <2>9, <2>10, <2>11 DEF Next, ReaderStep
<1>3. QED
  BY <1>1, <1>2, PTL DEF Spec

(* What the provider keeps is of its kind: a queue knows the state and has   *)
(* the block of every log in it.                                             *)
THEOREM ProviderTypeCorrect == Spec => []TypeOK
<1>1. ProviderInv => TypeOK
  <2> SUFFICES ASSUME ProviderInv
               PROVE  TypeOK
    OBVIOUS
  <2>1. /\ chain \in Seq(Tags) /\ DOMAIN filters \subseteq Upkeeps
        /\ \A u \in DOMAIN filters : filters[u] \in [lastPoll : 0 .. MaxBlock, since : 0 .. MaxBlock]
    BY DEF ProviderInv, WorldFits, Filters, Blocks
  <2>2. ASSUME NEW u \in DOMAIN buffer.queues
        PROVE  LET q == buffer.queues[u]
               IN  /\ q.logs \subseteq DOMAIN q.states
                   /\ {Block(l) : l \in q.logs} \subseteq q.blocks
                   /\ \A l \in DOMAIN q.states : q.states[l] \in States
    <3> DEFINE q == buffer.queues[u]
    <3>1. QueueFits(q, u, buffer.hashes)
      BY DEF ProviderInv, BufferFits
    <3> HIDE DEF q
    <3>2. \A l \in DOMAIN q.states : q.states[l] \in States
      BY <3>1, QueueParts DEF QueueFits
    <3>3. QED
      BY <3>1, <3>2 DEF QueueFits, q
  <2>3. QED
    BY <2>1, <2>2 DEF TypeOK
<1>2. QED
  BY <1>1, ProviderInvHolds, PTL

(* However reads of different ages and forks are mixed by the threads, the   *)
(* logs the buffer holds for a block are of one fork, across all queues.     *)
THEOREM ForksNeverMix == Spec => []OneForkPerBlock
<1>1. ProviderInv => OneForkPerBlock
  BY DEF ProviderInv, BufferFits, QueueFits, OneForkPerBlock
<1>2. QED
  BY <1>1, ProviderInvHolds, PTL

(* A log a queue knows as enqueued is in it, unless its block was evicted.   *)
THEOREM EnqueuedIsAlwaysKept == Spec => []EnqueuedIsKept
<1>1. Init => EnqueuedIsKept
  BY DEF Init, EmptyBuffer, EnqueuedIsKept
<1>2. ProviderInv /\ EnqueuedIsKept /\ [Next]_vars => EnqueuedIsKept'
  <2> SUFFICES ASSUME ProviderInv, EnqueuedIsKept, [Next]_vars
               PROVE  EnqueuedIsKept'
    OBVIOUS
  <2>1. BufferFits(buffer) /\ FlowFits
    BY DEF ProviderInv
  <2>2. CASE SyncFilters
    <3>1. evicted' = evicted
      BY <2>2 DEF SyncFilters
    <3>2. QED
      BY <2>1, <2>2, <3>1, SyncFiltersKeeps DEF EnqueuedIsKept
  <2>3. ASSUME NEW r \in Readers, EnqueueLogs(r)
        PROVE  EnqueuedIsKept'
    <3> DEFINE u == readers[r].upkeep
               logs == readers[r].logs
               reorged == ReorgedBlocks(buffer, logs)
               threshold == Threshold(buffer'.lastSeen, config)
    <3>1. /\ EnqueuesTo(buffer, buffer', u, logs, config)
          /\ evicted' = evicted \cup reorged
      BY <2>3, EnqueueLogsEnqueues
    <3> HIDE DEF u, logs
    <3>2. ASSUME NEW v \in DOMAIN buffer.queues, NEW new, Evicts(buffer.queues[v], new, reorged),
                 NEW l \in DOMAIN new.states, new.states[l] = "enqueued", Block(l) \notin evicted'
          PROVE  l \in new.logs
      BY <3>1, <3>2 DEF Evicts, EnqueuedIsKept
    <3>3. ASSUME NEW v \in DOMAIN buffer.queues \ {u}, NEW l \in DOMAIN buffer'.queues[v].states,
                 buffer'.queues[v].states[l] = "enqueued", Block(l) \notin evicted'
          PROVE  l \in buffer'.queues[v].logs
      BY <3>1, <3>2, <3>3 DEF EnqueuesTo
    <3>4. ASSUME NEW l \in DOMAIN buffer'.queues[u].states,
                 buffer'.queues[u].states[l] = "enqueued", Block(l) \notin evicted',
                 l \notin buffer'.queues[u].logs
          PROVE  FALSE
      <4>1. PICK q \in Queue : /\ Evicts(Present(buffer, u), q, reorged)
                               /\ Adds(q, buffer'.queues[u], logs, threshold, config)
        BY <3>1 DEF EnqueuesTo
      <4>2. l \in DOMAIN q.states /\ q.states[l] = "enqueued" /\ l \notin q.logs
        BY <3>4, <4>1 DEF Adds
      <4>3. CASE u \in DOMAIN buffer.queues
        BY <3>2, <3>4, <4>1, <4>2, <4>3 DEF Present
      <4>4. CASE u \notin DOMAIN buffer.queues
        <5>1. q.states = << >>
          BY <4>1, <4>4 DEF Evicts, Present, NewQueue
        <5>2. QED
          BY <4>2, <5>1
      <4>5. QED
        BY <4>3, <4>4
    <3>5. DOMAIN buffer'.queues = DOMAIN buffer.queues \cup {u}
      BY <3>1 DEF EnqueuesTo
    <3>6. QED
      BY <3>3, <3>4, <3>5 DEF EnqueuedIsKept
  <2>4. CASE DequeueWindow
    <3>1. PICK taken : Takes(buffer.queues, buffer'.queues, taken)
      BY <2>1, <2>4, DequeueWindowTakes
    <3>2. evicted' = evicted
      BY <2>4 DEF DequeueWindow
    <3>3. ASSUME NEW u \in DOMAIN buffer.queues, NEW l \in DOMAIN buffer'.queues[u].states,
                 buffer'.queues[u].states[l] = "enqueued", Block(l) \notin evicted
          PROVE  l \in buffer'.queues[u].logs
      <4>1. Taken(buffer.queues[u], buffer'.queues[u], taken)
        BY <3>1 DEF Takes
      <4>2. /\ l \in DOMAIN buffer.queues[u].states /\ l \notin taken
            /\ buffer.queues[u].states[l] = "enqueued"
        BY <3>3, <4>1 DEF Taken
      <4>3. QED
        BY <3>3, <4>1, <4>2 DEF Taken, EnqueuedIsKept
    <3>4. DOMAIN buffer'.queues = DOMAIN buffer.queues
      BY <3>1 DEF Takes
    <3>5. QED
      BY <3>2, <3>3, <3>4 DEF EnqueuedIsKept
  <2>5. CASE UNCHANGED <<buffer, delivered, evicted>>
    BY <2>5 DEF EnqueuedIsKept
  <2>6. QED
    BY <2>2, <2>3, <2>4, <2>5, StepsOfProvider
<1>3. QED
  BY <1>1, <1>2, ProviderInvHolds, PTL DEF Spec

-------------------------------------------------------------------------------
(* Deliveries and limits, as long as the plugin leaves the block rate alone. *)
(* A new rate moves the windows: blocks below the old threshold may be       *)
(* accepted again, and a new window may hold what several old ones held.     *)

RateStays == [][config'.blockRate = config.blockRate]_config

(* A later block is in no earlier window.                                    *)
LEMMA WindowIsMonotone ==
  ASSUME NEW a \in Int, NEW b \in Int, a <= b, NEW rate \in Nat \ {0}
  PROVE  Window(a, rate) <= Window(b, rate)
<1>1. /\ a \div rate \in Int /\ b \div rate \in Int
      /\ a % rate \in 0 .. rate - 1 /\ b % rate \in 0 .. rate - 1
      /\ a = rate * (a \div rate) + (a % rate)
      /\ b = rate * (b \div rate) + (b % rate)
  OBVIOUS
<1>2. ASSUME NEW i \in Int, NEW j \in Int, i > j
      PROVE  rate * i >= rate * j + rate
  <2>1. i >= j + 1
    BY <1>2
  <2>2. rate * i >= rate * (j + 1)
    BY <2>1
  <2>3. QED
    BY <2>2
<1>3. a \div rate <= b \div rate
  <2>1. SUFFICES ASSUME a \div rate > b \div rate
                 PROVE  FALSE
    BY <1>1
  <2>2. rate * (a \div rate) >= rate * (b \div rate) + rate
    BY <1>1, <1>2, <2>1
  <2>3. rate * (a \div rate) \in Int /\ rate * (b \div rate) \in Int
    BY <1>1
  <2>4. QED
    BY <1>1, <2>2, <2>3
<1>4. rate * (a \div rate) <= rate * (b \div rate)
  BY <1>1, <1>3
<1>5. Window(a, rate) = rate * (a \div rate) /\ Window(b, rate) = rate * (b \div rate)
  BY <1>1 DEF Window
<1>6. QED
  BY <1>4, <1>5

(* The threshold rises with the blocks.                                      *)
LEMMA ThresholdRises ==
  ASSUME NEW a \in Blocks, NEW b \in Blocks, a <= b, NEW c \in Configs, NEW d \in Configs,
         c.blockRate = d.blockRate
  PROVE  Threshold(a, c) <= Threshold(b, d)
<1>1. /\ a - LOOKBACK \in Int /\ b - LOOKBACK \in Int /\ a - LOOKBACK <= b - LOOKBACK
      /\ c.blockRate \in Nat \ {0}
  BY ConstantsAreNumbers DEF Blocks
<1>2. /\ Window(a - LOOKBACK, c.blockRate) \in Int /\ Window(b - LOOKBACK, c.blockRate) \in Int
      /\ Window(a - LOOKBACK, c.blockRate) <= Window(b - LOOKBACK, c.blockRate)
  BY <1>1, WindowIsLower, WindowIsMonotone
<1>3. QED
  BY <1>2 DEF Threshold

(* A log given away stays so while its queue and the threshold go on.        *)
LEMMA GivenAwayStays ==
  ASSUME ProviderInv, ProviderInv', config'.blockRate = config.blockRate,
         buffer'.lastSeen >= buffer.lastSeen, NEW l \in Logs, ~Accepted(l)
  PROVE  ~(Accepted(l)')
<1>1. /\ buffer.lastSeen \in Blocks /\ buffer'.lastSeen \in Blocks
      /\ config \in Configs /\ config' \in Configs
  BY DEF ProviderInv, BufferFits, WorldFits
<1>2. /\ Threshold(buffer.lastSeen, config) \in Nat
      /\ Threshold(buffer'.lastSeen, config') \in Nat
      /\ Threshold(buffer.lastSeen, config) <= Threshold(buffer'.lastSeen, config')
      /\ Block(l) \in Int
  <2>1. buffer.lastSeen <= buffer'.lastSeen
    BY <1>1 DEF Blocks
  <2>2. QED
    BY <1>1, <2>1, ThresholdRises, ThresholdIsBlock, LogParts
<1>3. QED
  BY <1>2 DEF Accepted, Block

(* Every step keeps what was given away from being taken again.              *)
LEMMA DeliveryStep ==
  ASSUME ProviderInv, ProviderInv', DeliveryInv, [Next]_vars,
         config'.blockRate = config.blockRate
  PROVE  DeliveryInv'
<1>1. BufferFits(buffer) /\ FlowFits
  BY DEF ProviderInv
<1>2. ASSUME NEW l \in DOMAIN delivered, buffer'.lastSeen >= buffer.lastSeen
      PROVE  l \in Logs /\ (Accepted(l) \/ ~(Accepted(l)'))
  BY <1>2, GivenAwayStays DEF DeliveryInv
<1>3. buffer.lastSeen \in Int /\ buffer.lastSeen >= buffer.lastSeen
  BY <1>1 DEF BufferFits, Blocks
<1>4. CASE SyncFilters
  <2>1. DOMAIN delivered' = {m \in DOMAIN delivered : m.upkeep \in DOMAIN filters}
        /\ \A l \in DOMAIN delivered' : delivered'[l] = delivered[l]
    BY <1>4 DEF SyncFilters
  <2>2. /\ DOMAIN buffer'.queues = DOMAIN buffer.queues \cap DOMAIN filters
        /\ \A u \in DOMAIN buffer'.queues : buffer'.queues[u] = buffer.queues[u]
        /\ buffer'.lastSeen = buffer.lastSeen
    BY <1>1, <1>4, SyncFiltersKeeps
  <2>3. ASSUME NEW l \in DOMAIN delivered'
        PROVE  l \in Logs /\ GivenAway(l)'
    <3>1. l \in DOMAIN delivered /\ GivenAway(l)
      BY <2>1 DEF DeliveryInv
    <3>2. l \in Logs /\ (Accepted(l) \/ ~(Accepted(l)'))
      BY <1>2, <1>3, <2>2, <3>1
    <3>3. QED
      BY <2>1, <2>2, <3>1, <3>2 DEF GivenAway
  <2>4. QED
    BY <2>3 DEF DeliveryInv
<1>5. ASSUME NEW r \in Readers, EnqueueLogs(r)
      PROVE  DeliveryInv'
  <2> DEFINE u == readers[r].upkeep
             logs == readers[r].logs
             threshold == Threshold(buffer'.lastSeen, config)
  <2>1. /\ EnqueuesTo(buffer, buffer', u, logs, config)
        /\ delivered' = delivered /\ config' = config
    BY <1>5, EnqueueLogsEnqueues
  <2> HIDE DEF u, logs
  <2>2. buffer'.lastSeen >= buffer.lastSeen
    BY <2>1 DEF EnqueuesTo
  <2>3. ASSUME NEW l \in DOMAIN delivered
        PROVE  l \in Logs /\ GivenAway(l)'
    <3>1. GivenAway(l) /\ l \in Logs /\ (Accepted(l) \/ ~(Accepted(l)'))
      BY <1>2, <2>2 DEF DeliveryInv
    <3> DEFINE v == l.upkeep
               was == buffer.queues[v]
               now == buffer'.queues[v]
    <3>2. /\ v \in DOMAIN buffer.queues /\ v \in DOMAIN buffer'.queues
          /\ delivered'[l] = 1
          /\ l \notin was.logs /\ (l \in DOMAIN was.states \/ ~(Accepted(l)'))
      BY <2>1, <3>1 DEF GivenAway, EnqueuesTo
    <3>3. l \notin now.logs /\ (l \in DOMAIN now.states \/ ~(Accepted(l)'))
      <4>1. CASE v # u
        <5>1. Evicts(was, now, ReorgedBlocks(buffer, logs))
          BY <2>1, <3>2, <4>1 DEF EnqueuesTo
        <5>2. QED
          BY <3>2, <5>1 DEF Evicts
      <4>2. CASE v = u
        <5>1. PICK q \in Queue : /\ Evicts(Present(buffer, u), q, ReorgedBlocks(buffer, logs))
                                 /\ Adds(q, buffer'.queues[u], logs, threshold, config)
          BY <2>1 DEF EnqueuesTo
        <5>2. Present(buffer, u) = was
          BY <3>2, <4>2 DEF Present
        <5> DEFINE below == Block(l) < threshold
        <5>3. below <=> ~(Accepted(l)')
          <6>1. threshold \in Int /\ Block(l) \in Int
            BY <2>1, <3>1, LogParts DEF EnqueuesTo
          <6>2. Accepted(l)' <=> Block(l) >= threshold
            BY <2>1 DEF Accepted, Block
          <6>3. QED
            BY <6>1, <6>2
        <5>4. Block(l) >= threshold => ~below
          <6>1. threshold \in Int /\ Block(l) \in Int
            BY <2>1, <3>1, LogParts DEF EnqueuesTo
          <6>2. QED
            BY <6>1
        <5>5. l \notin q.logs /\ (l \in DOMAIN q.states \/ below)
          BY <3>2, <5>1, <5>2, <5>3 DEF Evicts
        <5>6. l \notin Accepts(q, logs, threshold)
          BY <5>4, <5>5 DEF Accepts
        <5>7. l \notin now.logs
          BY <4>2, <5>1, <5>5, <5>6 DEF Adds
        <5>8. l \in DOMAIN now.states \/ below
          BY <4>2, <5>1, <5>5 DEF Adds
        <5>9. QED
          BY <5>3, <5>7, <5>8
      <4>3. QED
        BY <4>1, <4>2
    <3>4. QED
      BY <3>1, <3>2, <3>3 DEF GivenAway
  <2>4. QED
    BY <2>1, <2>3 DEF DeliveryInv
<1>6. CASE DequeueWindow
  <2>1. PICK taken \in SUBSET Logs :
          /\ Takes(buffer.queues, buffer'.queues, taken)
          /\ buffer'.lastSeen = buffer.lastSeen
          /\ delivered' = [l \in DOMAIN delivered \cup taken |->
                             (IF l \in DOMAIN delivered THEN delivered[l] ELSE 0)
                               + (IF l \in taken THEN 1 ELSE 0)]
    BY <1>1, <1>6, DequeueWindowTakes
  <2>2. /\ DOMAIN delivered' = DOMAIN delivered \cup taken
        /\ DOMAIN buffer'.queues = DOMAIN buffer.queues
    BY <2>1 DEF Takes
  <2>3. ASSUME NEW l \in taken
        PROVE  /\ l.upkeep \in DOMAIN buffer.queues
               /\ l \in buffer.queues[l.upkeep].logs
               /\ l \in DOMAIN buffer.queues[l.upkeep].states
    <3>1. PICK u \in DOMAIN buffer.queues : l \in buffer.queues[u].logs
      BY <2>1 DEF Takes
    <3>2. QueueFits(buffer.queues[u], u, buffer.hashes)
      BY <1>1 DEF BufferFits
    <3>3. QED
      BY <3>1, <3>2 DEF QueueFits
  <2>4. ASSUME NEW l \in DOMAIN delivered'
        PROVE  l \in Logs /\ GivenAway(l)'
    <3>1. CASE l \in taken
      <4>1. l \notin DOMAIN delivered
        BY <2>3, <3>1 DEF DeliveryInv, GivenAway
      <4>2. delivered'[l] = 1
        BY <2>1, <2>2, <3>1, <4>1
      <4>3. Taken(buffer.queues[l.upkeep], buffer'.queues[l.upkeep], taken)
        BY <2>1, <2>3, <3>1 DEF Takes
      <4>4. QED
        BY <2>2, <2>3, <3>1, <4>2, <4>3 DEF GivenAway, Taken
    <3>2. CASE l \notin taken
      <4>1. l \in DOMAIN delivered /\ l \in Logs /\ GivenAway(l)
        BY <2>2, <3>2 DEF DeliveryInv
      <4>2. delivered'[l] = 1
        BY <2>1, <2>2, <3>2, <4>1 DEF GivenAway
      <4>3. Taken(buffer.queues[l.upkeep], buffer'.queues[l.upkeep], taken)
        BY <2>1, <4>1 DEF Takes, GivenAway
      <4>4. Accepted(l) \/ ~(Accepted(l)')
        BY <1>2, <1>3, <2>1, <4>1
      <4>5. QED
        BY <2>2, <4>1, <4>2, <4>3, <4>4 DEF GivenAway, Taken
    <3>3. QED
      BY <3>1, <3>2
  <2>5. QED
    BY <2>4 DEF DeliveryInv
<1>7. CASE UNCHANGED <<buffer, delivered, evicted>>
  <2>1. ASSUME NEW l \in DOMAIN delivered
        PROVE  l \in Logs /\ GivenAway(l)'
    <3>1. l \in Logs /\ (Accepted(l) \/ ~(Accepted(l)'))
      BY <1>2, <1>3, <1>7
    <3>2. QED
      BY <1>7, <3>1 DEF DeliveryInv, GivenAway
  <2>2. QED
    BY <1>7, <2>1 DEF DeliveryInv
<1>8. QED
  BY <1>4, <1>5, <1>6, <1>7, StepsOfProvider

(* Overlapping reads of several threads put a log into its queue again and   *)
(* again, and the queue gives it to the plugin once.                         *)
THEOREM DeliveredAtMostOnce == Spec /\ RateStays => []DeliveredOnce
<1>1. Init => DeliveryInv
  BY DEF Init, DeliveryInv
<1>2. /\ ProviderInv /\ ProviderInv' /\ DeliveryInv /\ [Next]_vars
      /\ [config'.blockRate = config.blockRate]_config
      => DeliveryInv'
  BY DeliveryStep
<1>3. DeliveryInv => DeliveredOnce
  BY DEF DeliveryInv, GivenAway, DeliveredOnce
<1>4. QED
  BY <1>1, <1>2, <1>3, ProviderInvHolds, PTL DEF Spec, RateStays

(* The logs of one upkeep on one fork are ordered.                           *)
Ordered(S) ==
  /\ S \subseteq Logs
  /\ \A l, m \in S : l.upkeep = m.upkeep /\ (Block(l) = Block(m) => l.hash = m.hash)

(* Of two of them one comes first.                                           *)
LEMMA OneIsBefore ==
  ASSUME NEW S, Ordered(S), NEW l \in S, NEW m \in S, l # m
  PROVE  Before(l, m) \/ Before(m, l)
<1>1. /\ l \in [upkeep : Upkeeps, hash : Hashes, index : Nat]
      /\ m \in [upkeep : Upkeeps, hash : Hashes, index : Nat]
      /\ l.upkeep = m.upkeep
      /\ Block(l) = Block(m) => l.hash = m.hash
  BY DEF Ordered, Logs
<1>2. Block(l) \in Int /\ Block(m) \in Int
  BY LogParts DEF Ordered
<1>3. l.index \in Int /\ m.index \in Int
  BY <1>1
<1>4. Block(l) = Block(m) => l.index # m.index
  BY <1>1
<1>5. QED
  BY <1>2, <1>3, <1>4 DEF Before

(* A finite set of them has a last one.                                      *)
LEMMA OneIsLast ==
  ASSUME NEW S, Ordered(S), IsFiniteSet(S), S # {}
  PROVE  \E l \in S : \A m \in S \ {l} : Before(m, l)
<1> DEFINE IsLast(l, T) == \A m \in T \ {l} : Before(m, l)
           G == {T \in SUBSET S : T # {} => \E l \in T : IsLast(l, T)}
<1>1. ASSUME NEW T \in SUBSET S, \A U \in SUBSET T : U # T => U \in G
      PROVE  T \in G
  <2>1. SUFFICES ASSUME T # {}
                 PROVE  \E l \in T : IsLast(l, T)
    OBVIOUS
  <2>2. PICK x \in T : TRUE
    BY <2>1
  <2>3. CASE T \ {x} = {}
    BY <2>3
  <2>4. CASE T \ {x} # {}
    <3>1. T \ {x} \in SUBSET T /\ T \ {x} # T
      OBVIOUS
    <3>2. PICK k \in T \ {x} : IsLast(k, T \ {x})
      BY <1>1, <2>4, <3>1
    <3>3. CASE Before(x, k)
      <4>1. IsLast(k, T)
        BY <3>2, <3>3
      <4>2. QED
        BY <4>1
    <3>4. CASE Before(k, x)
      <4>1. ASSUME NEW m \in T \ {x}
            PROVE  Before(m, x)
        <5>1. m = k \/ Before(m, k)
          BY <3>2
        <5>2. /\ Block(m) \in Int /\ Block(k) \in Int /\ Block(x) \in Int
              /\ m.index \in Int /\ k.index \in Int /\ x.index \in Int
          <6>1. m \in Logs /\ k \in Logs /\ x \in Logs
            BY DEF Ordered
          <6>2. \A l \in Logs : Block(l) \in Int /\ l.index \in Int
            BY LogParts DEF Logs
          <6>3. QED
            BY <6>1, <6>2
        <5>3. QED
          BY <3>4, <5>1, <5>2 DEF Before
      <4>2. QED
        BY <4>1
    <3>5. QED
      BY <3>2, <3>3, <3>4, OneIsBefore
  <2>5. QED
    BY <2>3, <2>4
<1> HIDE DEF G
<1>2. S \in G
  BY <1>1, SubsetInduction
<1>3. QED
  BY <1>2 DEF G

(* The first k logs are no more than k.                                      *)
LEMMA FirstLogsAreFew ==
  ASSUME NEW S, Ordered(S), IsFiniteSet(S), NEW k \in Nat
  PROVE  /\ IsFiniteSet(FirstLogs(S, k))
         /\ Cardinality(FirstLogs(S, k)) \in Nat
         /\ Cardinality(FirstLogs(S, k)) <= k
<1> DEFINE T == FirstLogs(S, k)
<1>1. T \in SUBSET S /\ \A l \in T : Cardinality({m \in S : Before(m, l)}) < k
  BY DEF FirstLogs
<1> HIDE DEF T
<1>2. IsFiniteSet(T) /\ Cardinality(T) \in Nat
  BY <1>1, FS_Subset, FS_CardinalityType
<1>3. CASE T = {}
  BY <1>2, <1>3, FS_EmptySet DEF T
<1>4. CASE T # {}
  <2>1. Ordered(T)
    BY <1>1 DEF Ordered
  <2>2. PICK l \in T : \A m \in T \ {l} : Before(m, l)
    BY <1>2, <1>4, <2>1, OneIsLast
  <2> DEFINE before == {m \in S : Before(m, l)}
  <2>3. IsFiniteSet(before) /\ T \ {l} \in SUBSET before
    BY <1>1, <2>2, FS_Subset
  <2>4. Cardinality(before) < k
    BY <1>1
  <2> HIDE DEF before
  <2>5. Cardinality(T \ {l}) <= Cardinality(before) /\ Cardinality(before) \in Nat
    BY <2>3, FS_Subset, FS_CardinalityType
  <2>6. Cardinality(T \ {l}) = Cardinality(T) - 1
    BY <1>2, FS_RemoveElement
  <2>7. Cardinality(T) <= k
    BY <1>2, <2>4, <2>5, <2>6
  <2>8. QED
    BY <1>2, <2>7 DEF T
<1>5. QED
  BY <1>3, <1>4

HighestLimit == Max({c.logLimit : c \in Configs}) * WINDOW_FACTOR

(* No limit the plugin sets is above the highest.                            *)
LEMMA LimitsAreBounded ==
  ASSUME NEW c \in Configs
  PROVE  /\ WindowLimit(c) \in Nat /\ HighestLimit \in Nat
         /\ WindowLimit(c) <= HighestLimit
<1> DEFINE limits == {d.logLimit : d \in Configs}
           f == [d \in Configs |-> d.logLimit]
<1>1. limits \in SUBSET Int /\ limits \subseteq Nat
  BY ConstantsAreNumbers
<1>2. IsFiniteSet(limits)
  <2>1. f \in Surjection(Configs, limits)
    BY DEF Surjection
  <2>2. QED
    BY <2>1, FS_Surjection, ProviderAssumption
<1>3. c.logLimit \in limits
  OBVIOUS
<1> HIDE DEF limits
<1>4. Max(limits) \in limits /\ c.logLimit <= Max(limits)
  BY <1>1, <1>2, <1>3, MaxIsGreatest
<1>5. c.logLimit \in Nat /\ Max(limits) \in Nat /\ WINDOW_FACTOR \in Nat
  BY <1>1, <1>3, <1>4, ConstantsAreNumbers
<1> DEFINE a == c.logLimit
           b == Max(limits)
<1>6. a * WINDOW_FACTOR \in Nat /\ b * WINDOW_FACTOR \in Nat
      /\ a * WINDOW_FACTOR <= b * WINDOW_FACTOR
  <2>1. a \in Nat /\ b \in Nat /\ a <= b
    BY <1>4, <1>5
  <2> HIDE DEF a, b
  <2>2. QED
    BY <1>5, <2>1
<1>7. WindowLimit(c) = a * WINDOW_FACTOR /\ HighestLimit = b * WINDOW_FACTOR
  BY DEF WindowLimit, HighestLimit, limits
<1>8. QED
  BY <1>6, <1>7

(* A queue within the limit, window by window.                               *)
Bounded(logs, options) ==
  \A w \in Blocks : Cardinality(InWindow(logs, w, options)) <= HighestLimit

(* Fewer logs keep within it.                                                *)
LEMMA FewerLogsAreBounded ==
  ASSUME NEW logs, IsFiniteSet(logs), NEW fewer \in SUBSET logs, NEW options \in Configs,
         Bounded(logs, options)
  PROVE  Bounded(fewer, options)
<1> SUFFICES ASSUME NEW w \in Blocks
             PROVE  Cardinality(InWindow(fewer, w, options)) <= HighestLimit
  BY DEF Bounded
<1> DEFINE S == InWindow(logs, w, options)
           T == InWindow(fewer, w, options)
<1>1. S \in SUBSET logs /\ T \in SUBSET S /\ Cardinality(S) <= HighestLimit
  BY DEF InWindow, Bounded
<1> HIDE DEF S, T
<1>2. IsFiniteSet(S) /\ IsFiniteSet(T)
  BY <1>1, FS_Subset
<1>3. Cardinality(S) \in Nat /\ Cardinality(T) \in Nat /\ Cardinality(T) <= Cardinality(S)
  BY <1>1, <1>2, FS_Subset, FS_CardinalityType
<1>4. Cardinality(T) <= HighestLimit
  BY <1>1, <1>3, LimitsAreBounded
<1>5. QED
  BY <1>4 DEF T

(* What a queue takes up is cut to the limit.                                *)
LEMMA AddedLogsAreBounded ==
  ASSUME NEW q, NEW u, NEW hashes, QueueFits(q, u, hashes),
         NEW logs, ReadFits(logs, u), \A l \in logs : hashes[Block(l)] = l.hash,
         NEW options \in Configs, Bounded(q.logs, options),
         NEW threshold, NEW new, Adds(q, new, logs, threshold, options)
  PROVE  Bounded(new.logs, options)
<1>1. CASE new.logs = q.logs
  BY <1>1
<1>2. ASSUME \A w \in Blocks : \E S \in SUBSET (q.logs \cup Accepts(q, logs, threshold)) :
               InWindow(new.logs, w, options) \subseteq FirstLogs(S, WindowLimit(options)),
             NEW w \in Blocks
      PROVE  Cardinality(InWindow(new.logs, w, options)) <= HighestLimit
  <2> DEFINE all == q.logs \cup Accepts(q, logs, threshold)
             T == InWindow(new.logs, w, options)
  <2>1. all \subseteq Logs /\ IsFiniteSet(all)
    <3>1. Accepts(q, logs, threshold) \in SUBSET logs
      BY DEF Accepts
    <3>2. q.logs \subseteq Logs /\ logs \subseteq Logs
      BY QueueParts DEF QueueFits, ReadFits
    <3>3. IsFiniteSet(Accepts(q, logs, threshold)) /\ IsFiniteSet(q.logs)
      BY <3>1, FS_Subset DEF ReadFits, QueueFits
    <3>4. QED
      BY <3>1, <3>2, <3>3, FS_Union
  <2>2. \A l \in all : l.upkeep = u /\ l.hash = hashes[Block(l)]
    BY DEF QueueFits, ReadFits, Accepts
  <2> HIDE DEF all
  <2>3. PICK S \in SUBSET all : T \subseteq FirstLogs(S, WindowLimit(options))
    BY <1>2 DEF all
  <2>4. Ordered(S) /\ IsFiniteSet(S)
    BY <2>1, <2>2, FS_Subset DEF Ordered
  <2>5. WindowLimit(options) \in Nat /\ WindowLimit(options) <= HighestLimit
        /\ HighestLimit \in Nat
    BY LimitsAreBounded
  <2> HIDE DEF T
  <2> DEFINE F == FirstLogs(S, WindowLimit(options))
  <2>6. IsFiniteSet(F) /\ Cardinality(F) \in Nat /\ Cardinality(F) <= WindowLimit(options)
    BY <2>4, <2>5, FirstLogsAreFew
  <2> HIDE DEF F
  <2>7. T \in SUBSET F
    BY <2>3 DEF F
  <2>8. IsFiniteSet(T) /\ Cardinality(T) \in Nat /\ Cardinality(T) <= Cardinality(F)
    BY <2>6, <2>7, FS_Subset, FS_CardinalityType
  <2>9. Cardinality(T) <= HighestLimit
    BY <2>5, <2>6, <2>8
  <2>10. QED
    BY <2>9 DEF T
<1>3. QED
  BY <1>1, <1>2 DEF Adds, Bounded

QueuesBounded == \A u \in DOMAIN buffer.queues : Bounded(buffer.queues[u].logs, config)

(* Every step keeps all queues within the limit.                             *)
LEMMA BoundedStep ==
  ASSUME ProviderInv, ProviderInv', QueuesBounded, [Next]_vars,
         config'.blockRate = config.blockRate
  PROVE  QueuesBounded'
<1>1. /\ BufferFits(buffer) /\ FlowFits /\ config \in Configs
      /\ \A u \in DOMAIN buffer.queues : IsFiniteSet(buffer.queues[u].logs)
  BY DEF ProviderInv, WorldFits, BufferFits, QueueFits
<1>2. SUFFICES ASSUME NEW u \in DOMAIN buffer'.queues
               PROVE  Bounded(buffer'.queues[u].logs, config)
  BY DEF QueuesBounded, Bounded, InWindow, Block
<1>3. ASSUME u \in DOMAIN buffer.queues,
             buffer'.queues[u].logs \subseteq buffer.queues[u].logs
      PROVE  Bounded(buffer'.queues[u].logs, config)
  BY <1>1, <1>3, FewerLogsAreBounded DEF QueuesBounded
<1>4. CASE SyncFilters
  BY <1>1, <1>3, <1>4, SyncFiltersKeeps
<1>5. ASSUME NEW r \in Readers, EnqueueLogs(r)
      PROVE  Bounded(buffer'.queues[u].logs, config)
  <2> DEFINE v == readers[r].upkeep
             logs == readers[r].logs
             reorged == ReorgedBlocks(buffer, logs)
  <2>1. /\ EnqueuesTo(buffer, buffer', v, logs, config)
        /\ v \in Upkeeps /\ ReadFits(logs, v)
    BY <1>5, EnqueueLogsEnqueues
  <2> HIDE DEF v, logs
  <2>2. CASE u # v
    <3>1. u \in DOMAIN buffer.queues /\ Evicts(buffer.queues[u], buffer'.queues[u], reorged)
      BY <2>1, <2>2 DEF EnqueuesTo
    <3>2. QED
      BY <1>3, <3>1 DEF Evicts
  <2>3. CASE u = v
    <3>1. PICK q \in Queue :
            /\ Evicts(Present(buffer, v), q, reorged)
            /\ Adds(q, buffer'.queues[v], logs, Threshold(buffer'.lastSeen, config), config)
      BY <2>1 DEF EnqueuesTo
    <3>2. QueueFits(Present(buffer, v), v, buffer.hashes)
      BY <1>1, NewQueueFits DEF Present, BufferFits
    <3>3. QueueFits(q, v, buffer'.hashes)
      BY <1>1, <2>1, <3>1, <3>2, EvictionKeepsForks
    <3>4. Bounded(Present(buffer, v).logs, config)
      <4>1. CASE v \in DOMAIN buffer.queues
        BY <4>1 DEF QueuesBounded, Present
      <4>2. CASE v \notin DOMAIN buffer.queues
        <5>1. Present(buffer, v).logs = {}
          BY <4>2 DEF Present, NewQueue
        <5>2. \A w \in Blocks : InWindow({}, w, config) = {}
          BY DEF InWindow
        <5>3. 0 <= HighestLimit
          BY <1>1, LimitsAreBounded
        <5>4. QED
          BY <5>1, <5>2, <5>3, FS_EmptySet DEF Bounded
      <4>3. QED
        BY <4>1, <4>2
    <3>5. Bounded(q.logs, config)
      BY <1>1, <3>1, <3>2, <3>4, FewerLogsAreBounded DEF Evicts, QueueFits
    <3>6. \A l \in logs : buffer'.hashes[Block(l)] = l.hash
      BY <2>1 DEF EnqueuesTo
    <3>7. QED
      BY <1>1, <2>1, <2>3, <3>1, <3>3, <3>5, <3>6, AddedLogsAreBounded
  <2>4. QED
    BY <2>2, <2>3
<1>6. CASE DequeueWindow
  <2>1. PICK taken : Takes(buffer.queues, buffer'.queues, taken)
    BY <1>1, <1>6, DequeueWindowTakes
  <2>2. QED
    BY <1>3, <2>1 DEF Takes, Taken
<1>7. CASE UNCHANGED <<buffer, delivered, evicted>>
  BY <1>2, <1>3, <1>7
<1>8. QED
  BY <1>4, <1>5, <1>6, <1>7, StepsOfProvider

(* However many logs a block has and however reads overlap, a queue holds no *)
(* more logs of a window than the highest limit allows.                      *)
THEOREM WindowsAreBounded == Spec /\ RateStays => []WindowBounded
<1>1. Init => QueuesBounded
  BY DEF Init, EmptyBuffer, QueuesBounded
<1>2. /\ ProviderInv /\ ProviderInv' /\ QueuesBounded /\ [Next]_vars
      /\ [config'.blockRate = config.blockRate]_config
      => QueuesBounded'
  BY BoundedStep
<1>3. QueuesBounded => WindowBounded
  BY DEF QueuesBounded, Bounded, InWindow, HighestLimit, Blocks, WindowBounded
<1>4. QED
  BY <1>1, <1>2, <1>3, ProviderInvHolds, PTL DEF Spec, RateStays


-------------------------------------------------------------------------------
(* What was polled.  lastPollBlock says that everything more than the reorg  *)
(* buffer below it was read on its present fork.  Two things have to be so.  *)
(* A reorg must not reach far below a block that was polled, or is being     *)
(* polled: what it replaces must be in the range of the next read, with the  *)
(* rounding of the threshold to spare.  And the reorg buffer must be at      *)
(* least as long as that rounding, because a thread that comes late skips    *)
(* what is below the lookback, and the buffer must not accept this.          *)

Reaches(n, poll) == n >= poll + config.blockRate - REORG_BUFFER - 1

PollsOf(me) ==
  IF me.pc = "idle" THEN {} ELSE IF me.pc = "fetch" THEN {me.latest} ELSE {me.lastPoll}

Polls ==
  {filters[u].lastPoll : u \in DOMAIN filters} \cup UNION {PollsOf(readers[r]) : r \in Readers}

BufferCoversRate == config.blockRate <= REORG_BUFFER + 1

ShallowStep == \A n \in DOMAIN chain : Reorg(n) => \A poll \in Polls : Reaches(n, poll)
ReorgsAreShallow == [][ShallowStep]_vars

(* The queue knows the log or will not accept it any more.                   *)
Settled(l) == Known(l) \/ ~Accepted(l)

(* With these logs the threshold passes block n.                             *)
Outrun(n, logs) == \E m \in logs : Block(m) >= n + LOOKBACK + config.blockRate

(* Upkeep u was polled up to this block, once these logs are in the buffer.  *)
ReadUpTo(u, poll, logs) ==
  u \in DOMAIN filters =>
    \A n \in 1 .. Latest :
      filters[u].since <= n /\ n < poll - REORG_BUFFER =>
        \A l \in LogsOf(u, SubSeq(chain, 1, n)) : Settled(l) \/ l \in logs \/ Outrun(n, logs)

(* A thread before its read knows where the filter begins, unless this was   *)
(* registered since and begins in the range of the next read.                *)
ReaderPolled(me) ==
  /\ me.pc = "fetch" =>
       /\ ReadUpTo(me.upkeep, me.lastPoll, {}) /\ me.lastPoll <= me.latest
       /\ me.upkeep \in DOMAIN filters =>
            LET since == filters[me.upkeep].since
            IN since = me.since \/ since >= me.latest - REORG_BUFFER
  /\ me.pc = "enqueue" => ReadUpTo(me.upkeep, me.lastPoll, me.logs)
  /\ me.pc = "update" => ReadUpTo(me.upkeep, me.lastPoll, {})

PollInv ==
  /\ BufferCoversRate
  /\ \A poll \in Polls : Reaches(Latest, poll)
  /\ \A u \in DOMAIN filters : ReadUpTo(u, filters[u].lastPoll, {})
  /\ \A r \in Readers : ReaderPolled(readers[r])

(* The steps that change the chain, and the blocks they leave.               *)
LEMMA BlocksStay ==
  ASSUME WorldFits, [Next]_vars, NEW bound \in Int, bound <= Latest,
         \A n \in DOMAIN chain : Reorg(n) => n >= bound,
         NEW n \in 1 .. Latest', n < bound
  PROVE  n \in 1 .. Latest /\ SubSeq(chain', 1, n) = SubSeq(chain, 1, n)
<1>1. Latest \in Nat /\ Latest = Len(chain) /\ chain \in Seq(Tags)
  BY LatestIsBlock DEF WorldFits, Latest
<1>2. \/ chain' = chain \/ NewBlock \/ \E m \in DOMAIN chain : Reorg(m)
  BY DEF Next, vars, world, RegisterFilter, UnregisterFilter, SetConfig, SyncFilters,
         StartRead, ReaderStep, FetchLogs, FetchFails, EnqueueLogs, UpdateLastPoll,
         FlowStep, StartPayloads, DequeueWindow, EndOfMinimum, EndOfBestEffort
<1>3. n \in Nat /\ n \in 1 .. Latest
  <2>1. n >= 1 /\ n \in Int
    OBVIOUS
  <2>2. QED
    BY <1>1, <2>1
<1>4. \A i \in 1 .. n : chain[i] \in Tags
  BY <1>1, <1>3, ElementOfSeq
<1>5. CASE chain' = chain
  BY <1>3, <1>5
<1>6. SUFFICES ASSUME NEW t, NEW kept \in Seq(Tags), t \in Tags, chain' = Append(kept, t),
                      n <= Len(kept), \A i \in 1 .. n : kept[i] = chain[i]
               PROVE  SubSeq(chain', 1, n) = SubSeq(chain, 1, n)
  <2>1. ASSUME NewBlock
        PROVE  \E t \in Tags : chain' = Append(chain, t)
    <3>1. PICK t \in IF chain = << >> THEN {CHOOSE k \in Tags : TRUE} ELSE {Last(chain)} :
                  chain' = Append(chain, t)
      BY <2>1 DEF NewBlock
    <3>2. chain # << >>
      BY <1>1, <1>3, EmptySeq
    <3>3. t = chain[Len(chain)]
      BY <3>1, <3>2 DEF Last
    <3>4. QED
      BY <1>1, <1>3, <3>1, <3>3, ElementOfSeq
  <2>2. ASSUME NEW m \in DOMAIN chain, Reorg(m)
        PROVE  \E t \in Tags : /\ chain' = Append(SubSeq(chain, 1, m - 1), t)
                               /\ SubSeq(chain, 1, m - 1) \in Seq(Tags)
                               /\ n <= Len(SubSeq(chain, 1, m - 1))
                               /\ \A i \in 1 .. n : SubSeq(chain, 1, m - 1)[i] = chain[i]
    <3>1. PICK t \in Tags \ {chain[m]} : chain' = Append(SubSeq(chain, 1, m - 1), t)
      BY <2>2 DEF Reorg
    <3>2. m \in 1 .. Latest /\ n <= m - 1
      BY <1>1, <1>3, <2>2
    <3>3. \A i \in 1 .. m - 1 : chain[i] \in Tags
      BY <1>1, <3>2, ElementOfSeq
    <3>4. /\ SubSeq(chain, 1, m - 1) \in Seq(Tags)
          /\ Len(SubSeq(chain, 1, m - 1)) = IF 1 <= m - 1 THEN m - 1 - 1 + 1 ELSE 0
          /\ \A i \in 1 .. m - 1 - 1 + 1 : SubSeq(chain, 1, m - 1)[i] = chain[1 + i - 1]
      BY <1>1, <3>2, <3>3, SubSeqProperties
    <3>5. QED
      BY <1>1, <1>3, <3>1, <3>2, <3>4
  <2>3. CASE NewBlock
    <3>1. n <= Len(chain) /\ \A i \in 1 .. n : chain[i] = chain[i]
      BY <1>1, <1>3
    <3>2. QED
      BY <1>1, <1>3, <1>6, <2>1, <2>3, <3>1
  <2>4. ASSUME NEW m \in DOMAIN chain, Reorg(m)
        PROVE  SubSeq(chain', 1, n) = SubSeq(chain, 1, n)
    <3> DEFINE kept == SubSeq(chain, 1, m - 1)
    <3>1. PICK t \in Tags : /\ chain' = Append(kept, t) /\ kept \in Seq(Tags)
                            /\ n <= Len(kept) /\ \A i \in 1 .. n : kept[i] = chain[i]
      BY <2>2, <2>4
    <3> HIDE DEF kept
    <3>2. QED
      BY <1>6, <3>1
  <2>5. QED
    BY <1>2, <1>3, <1>5, <2>3, <2>4
<1>7. /\ chain' \in Seq(Tags) /\ \A i \in 1 .. n : chain'[i] = chain[i]
  BY <1>3, <1>6, AppendProperties
<1>8. \A i \in 1 .. n : chain'[i] \in Tags
  BY <1>4, <1>7
<1>9. QED
  <2>1. /\ SubSeq(chain, 1, n) \in Seq(Tags) /\ SubSeq(chain', 1, n) \in Seq(Tags)
        /\ Len(SubSeq(chain, 1, n)) = n /\ Len(SubSeq(chain', 1, n)) = n
        /\ \A i \in 1 .. n : SubSeq(chain, 1, n)[i] = chain[i] /\ SubSeq(chain', 1, n)[i] = chain'[i]
    <3>1. 1 <= n /\ n - 1 + 1 = n /\ \A i \in 1 .. n : 1 + i - 1 = i
      BY <1>3
    <3>2. QED
      BY <1>3, <1>4, <1>8, <3>1, SubSeqProperties
  <2>2. QED
    BY <1>7, <2>1, SeqEqual

(* A log in a read is settled once the read is in the buffer, and one that   *)
(* was settled stays so.                                                     *)
LEMMA EnqueueSettles ==
  ASSUME ProviderInv, ProviderInv', NEW r \in Readers, EnqueueLogs(r),
         NEW l \in Logs, Settled(l) \/ l \in readers[r].logs
  PROVE  Settled(l)'
<1> DEFINE u == readers[r].upkeep
           logs == readers[r].logs
           threshold == Threshold(buffer'.lastSeen, config)
           v == l.upkeep
<1>1. /\ EnqueuesTo(buffer, buffer', u, logs, config) /\ config' = config
      /\ \A k \in logs : k.upkeep = u
  BY EnqueueLogsEnqueues DEF ReadFits
<1>2. l \in logs => v = u
  BY <1>1
<1>3. Settled(l) \/ l \in logs
  OBVIOUS
<1> HIDE DEF u, logs
<1>4. Accepted(l)' <=> ~(Block(l) < threshold)
  <2>1. threshold \in Int /\ Block(l) \in Int
    BY <1>1, LogParts DEF EnqueuesTo
  <2>2. Accepted(l)' <=> Block(l) >= threshold
    BY <1>1 DEF Accepted, Block
  <2>3. QED
    BY <2>1, <2>2
<1>5. CASE ~Accepted(l)
  <2>1. buffer'.lastSeen >= buffer.lastSeen
    BY <1>1 DEF EnqueuesTo
  <2>2. QED
    BY <1>1, <1>5, <2>1, GivenAwayStays DEF Settled
<1>6. CASE v # u /\ Known(l)
  <2>1. Evicts(buffer.queues[v], buffer'.queues[v], ReorgedBlocks(buffer, logs))
        /\ v \in DOMAIN buffer'.queues
    BY <1>1, <1>6 DEF EnqueuesTo, Known
  <2>2. QED
    BY <1>6, <2>1 DEF Evicts, Known, Settled
<1>7. CASE v = u /\ (Known(l) \/ l \in logs)
  <2>1. PICK q \in Queue : /\ Evicts(Present(buffer, u), q, ReorgedBlocks(buffer, logs))
                           /\ Adds(q, buffer'.queues[u], logs, threshold, config)
    BY <1>1 DEF EnqueuesTo
  <2>2. l \in DOMAIN q.states \cup logs
    BY <1>7, <2>1 DEF Evicts, Present, Known
  <2>3. l \in DOMAIN buffer'.queues[u].states \/ Block(l) < threshold
    BY <2>1, <2>2 DEF Adds
  <2>4. u \in DOMAIN buffer'.queues
    BY <1>1 DEF EnqueuesTo
  <2>5. QED
    BY <1>4, <1>7, <2>3, <2>4 DEF Settled, Known
<1>8. QED
  BY <1>2, <1>3, <1>5, <1>6, <1>7 DEF Settled

(* Nothing the buffer knows is forgotten while it would accept it.           *)
LEMMA SettledStays ==
  ASSUME ProviderInv, ProviderInv', [Next]_vars, config'.blockRate = config.blockRate,
         NEW l \in Logs, l.upkeep \in DOMAIN filters, Settled(l)
  PROVE  Settled(l)'
<1>1. BufferFits(buffer) /\ FlowFits
  BY DEF ProviderInv
<1>2. ASSUME buffer'.lastSeen >= buffer.lastSeen
      PROVE  Accepted(l) \/ ~(Accepted(l)')
  BY <1>2, GivenAwayStays
<1>3. buffer.lastSeen \in Int /\ buffer.lastSeen >= buffer.lastSeen
  BY <1>1 DEF BufferFits, Blocks
<1>4. ASSUME buffer'.lastSeen = buffer.lastSeen,
             Known(l) => Known(l)'
      PROVE  Settled(l)'
  BY <1>2, <1>3, <1>4 DEF Settled
<1>5. CASE SyncFilters
  <2>1. /\ DOMAIN buffer'.queues = DOMAIN buffer.queues \cap DOMAIN filters
        /\ \A u \in DOMAIN buffer'.queues : buffer'.queues[u] = buffer.queues[u]
        /\ buffer'.lastSeen = buffer.lastSeen
    BY <1>1, <1>5, SyncFiltersKeeps
  <2>2. QED
    BY <1>4, <2>1 DEF Known
<1>6. CASE \E r \in Readers : EnqueueLogs(r)
  BY <1>6, EnqueueSettles
<1>7. CASE DequeueWindow
  <2>1. PICK taken \in SUBSET Logs :
          Takes(buffer.queues, buffer'.queues, taken) /\ buffer'.lastSeen = buffer.lastSeen
    BY <1>1, <1>7, DequeueWindowTakes
  <2>2. QED
    BY <1>4, <2>1 DEF Takes, Taken, Known
<1>8. CASE UNCHANGED <<buffer, delivered, evicted>>
  BY <1>4, <1>8 DEF Known
<1>9. QED
  BY <1>5, <1>6, <1>7, <1>8, StepsOfProvider

(* Logs above a block that are far enough above it leave it behind.          *)
LEMMA OutrunIsLeft ==
  ASSUME ProviderInv, ProviderInv', NEW r \in Readers, EnqueueLogs(r),
         NEW l \in Logs, Outrun(Block(l), readers[r].logs)
  PROVE  ~(Accepted(l)')
<1> DEFINE rate == config.blockRate
<1>1. /\ EnqueuesTo(buffer, buffer', readers[r].upkeep, readers[r].logs, config)
      /\ config' = config /\ readers[r].logs \subseteq Logs
  BY EnqueueLogsEnqueues DEF ReadFits
<1>2. PICK m \in readers[r].logs : Block(m) >= Block(l) + LOOKBACK + rate
  BY DEF Outrun
<1>3. /\ Block(m) \in Int /\ Block(l) \in Int /\ Block(l) >= 1 /\ LOOKBACK \in Nat
      /\ rate \in Nat \ {0} /\ buffer'.lastSeen \in Int
  <2>1. buffer'.lastSeen \in Blocks /\ config \in Configs
    BY <1>1 DEF EnqueuesTo, ProviderInv, WorldFits
  <2>2. QED
    BY <1>1, <2>1, LogParts, ConstantsAreNumbers DEF Blocks
<1>4. buffer'.lastSeen >= Block(m)
  BY <1>1 DEF EnqueuesTo
<1> DEFINE a == buffer'.lastSeen - LOOKBACK
           start == Window(a, rate)
<1>5. a \in Int /\ a >= Block(l) + rate
  BY <1>2, <1>3, <1>4
<1>6. start \in Int /\ start > a - rate
  <2> DEFINE rest == a % rate
  <2> HIDE DEF a, rate
  <2>1. rest \in Int /\ rest < rate
    BY <1>3, <1>5
  <2>2. start = a - rest
    BY <1>3 DEF Window
  <2> HIDE DEF rest, start
  <2>3. QED
    BY <1>3, <1>5, <2>1, <2>2
<1>7. start > Block(l)
  BY <1>3, <1>5, <1>6
<1>8. Threshold(buffer'.lastSeen, config) = IF start <= 0 THEN 1 ELSE start
  BY DEF Threshold
<1>9. Accepted(l)' <=> Block(l) >= Threshold(buffer'.lastSeen, config)
  BY <1>1 DEF Accepted, Block
<1> HIDE DEF a, start, rate
<1>10. QED
  BY <1>3, <1>6, <1>7, <1>8, <1>9

(* The filters go on, or begin at the latest block.                          *)
LEMMA FiltersGoOn ==
  ASSUME WorldFits, [Next]_vars, NEW u \in DOMAIN filters'
  PROVE  \/ u \in DOMAIN filters /\ filters'[u].since = filters[u].since
         \/ chain' = chain /\ filters'[u] = [lastPoll |-> 0, since |-> Latest]
<1>1. \/ filters' = filters \/ \E v \in Upkeeps : RegisterFilter(v)
      \/ \E v \in DOMAIN filters : UnregisterFilter(v)
      \/ \E r \in Readers : UpdateLastPoll(r)
  BY DEF Next, vars, world, NewBlock, Reorg, SetConfig, SyncFilters, StartRead, ReaderStep,
         FetchLogs, FetchFails, EnqueueLogs, FlowStep, StartPayloads, DequeueWindow,
         EndOfMinimum, EndOfBestEffort
<1>2. \A v \in DOMAIN filters : filters[v] \in Filters
  BY DEF WorldFits
<1>3. CASE filters' = filters
  BY <1>3
<1>4. ASSUME NEW v \in Upkeeps, RegisterFilter(v)
      PROVE  \/ u \in DOMAIN filters /\ filters'[u].since = filters[u].since
             \/ chain' = chain /\ filters'[u] = [lastPoll |-> 0, since |-> Latest]
  BY <1>4 DEF RegisterFilter
<1>5. ASSUME NEW v \in DOMAIN filters, UnregisterFilter(v)
      PROVE  u \in DOMAIN filters /\ filters'[u].since = filters[u].since
  BY <1>5 DEF UnregisterFilter
<1>6. ASSUME NEW r \in Readers, UpdateLastPoll(r)
      PROVE  u \in DOMAIN filters /\ filters'[u].since = filters[u].since
  BY <1>2, <1>6 DEF UpdateLastPoll, Filters
<1>7. QED
  BY <1>1, <1>3, <1>4, <1>5, <1>6

(* What was read up to a block stays read while reorgs do not reach it.      *)
LEMMA ReadStays ==
  ASSUME ProviderInv, ProviderInv', [Next]_vars, config'.blockRate = config.blockRate,
         NEW u, NEW poll \in Blocks, NEW logs, Reaches(Latest, poll),
         \A n \in DOMAIN chain : Reorg(n) => Reaches(n, poll),
         ReadUpTo(u, poll, logs)
  PROVE  ReadUpTo(u, poll, logs)'
<1> DEFINE bound == poll - REORG_BUFFER
<1>1. /\ poll \in Int /\ REORG_BUFFER \in Nat /\ Latest \in Nat /\ Latest' \in Nat
      /\ config.blockRate \in Nat \ {0} /\ bound \in Int
      /\ DOMAIN chain \subseteq Int
  <2>1. Latest \in Nat /\ config \in Configs /\ chain \in Seq(Tags)
    BY LatestIsBlock DEF ProviderInv, WorldFits
  <2>2. Latest' \in Nat
    BY LenProperties DEF ProviderInv, WorldFits, Latest
  <2>3. QED
    BY <2>1, <2>2, ConstantsAreNumbers DEF Blocks
<1>2. \A n \in Int : Reaches(n, poll) => n >= bound
  BY <1>1 DEF Reaches
<1>3. bound <= Latest /\ \A n \in DOMAIN chain : Reorg(n) => n >= bound
  BY <1>1, <1>2
<1>4. SUFFICES ASSUME u \in DOMAIN filters', NEW n \in 1 .. Latest',
                      filters'[u].since <= n, n < bound,
                      NEW l \in LogsOf(u, SubSeq(chain', 1, n))
               PROVE  Settled(l)' \/ l \in logs \/ Outrun(n, logs)'
  BY DEF ReadUpTo, LogsOf
<1> HIDE DEF bound
<1>5. n \in 1 .. Latest /\ SubSeq(chain', 1, n) = SubSeq(chain, 1, n)
  BY <1>1, <1>3, <1>4, BlocksStay DEF ProviderInv
<1>6. u \in DOMAIN filters /\ filters[u].since <= n
  <2>1. CASE u \in DOMAIN filters /\ filters'[u].since = filters[u].since
    BY <1>4, <2>1
  <2>2. CASE filters'[u] = [lastPoll |-> 0, since |-> Latest]
    BY <1>1, <1>3, <1>4, <2>2
  <2>3. QED
    BY <1>4, <2>1, <2>2, FiltersGoOn DEF ProviderInv
<1>7. /\ l \in LogsOf(u, SubSeq(chain, 1, n))
      /\ Settled(l) \/ l \in logs \/ Outrun(n, logs)
  BY <1>4, <1>5, <1>6 DEF ReadUpTo, bound
<1>8. l \in Logs /\ l.upkeep = u
  <2>1. u \in Upkeeps /\ SubSeq(chain, 1, n) \in Hashes
    BY <1>5, <1>6, ForkOfBlock DEF ProviderInv, WorldFits
  <2>2. QED
    BY <1>7, <2>1, LogsOfBlock
<1>9. Settled(l) => Settled(l)'
  BY <1>6, <1>8, SettledStays
<1>10. Outrun(n, logs) => Outrun(n, logs)'
  BY DEF Outrun, Block
<1>11. QED
  BY <1>7, <1>9, <1>10

(* A read brings what was not polled before, and what it skips is left       *)
(* behind.                                                                   *)
LEMMA FetchReads ==
  ASSUME ProviderInv, PollInv, NEW r \in Readers, readers[r].pc = "fetch"
  PROVE  LET me == readers[r]
         IN ReadUpTo(me.upkeep, me.latest,
                     LogsWithSigs(me.upkeep, ReadFrom(me, me.latest), me.latest))
<1> DEFINE me == readers[r]
           u == me.upkeep
           poll == me.latest
           last == me.lastPoll
           from == ReadFrom(me, poll)
           logs == LogsWithSigs(u, from, poll)
           lookback == IF poll < LOOKBACK THEN poll - 1 ELSE LOOKBACK
           rate == config.blockRate
<1>1. me \in Fetching
  BY DEF ProviderInv, ReadersFit, ReaderFits, Idle, Enqueuing, Updating
<1>2. /\ poll \in Nat /\ last \in Nat /\ me.since \in Nat /\ u \in Upkeeps
      /\ rate \in Nat \ {0} /\ REORG_BUFFER \in Nat /\ LOOKBACK \in Nat /\ Latest \in Nat
  <2>1. Latest \in Nat /\ config \in Configs
    BY LatestIsBlock DEF ProviderInv, WorldFits
  <2>2. QED
    BY <1>1, <2>1, ConstantsAreNumbers DEF Fetching, Blocks
<1>3. Latest >= poll + rate - REORG_BUFFER - 1
  <2>1. poll \in Polls
    BY DEF Polls, PollsOf
  <2>2. QED
    BY <2>1 DEF PollInv, Reaches
<1>4. /\ ReadUpTo(u, last, {}) /\ last <= poll
      /\ u \in DOMAIN filters => \/ filters[u].since = me.since
                                 \/ filters[u].since >= poll - REORG_BUFFER
  BY DEF PollInv, ReaderPolled
<1>5. SUFFICES ASSUME u \in DOMAIN filters, NEW n \in 1 .. Latest,
                      filters[u].since <= n, n < poll - REORG_BUFFER,
                      NEW l \in LogsOf(u, SubSeq(chain, 1, n))
               PROVE  Settled(l) \/ l \in logs \/ Outrun(n, logs)
  BY DEF ReadUpTo
<1>6. filters[u] \in Filters
  BY <1>5 DEF ProviderInv, WorldFits
<1>7. /\ n \in Int /\ n >= 1 /\ n <= Latest /\ me.since <= n
  <2>1. filters[u].since \in Int
    BY <1>6 DEF Filters, Blocks
  <2>2. QED
    BY <1>2, <1>4, <1>5, <2>1
<1>8. /\ from \in Int
      /\ from \in {last - REORG_BUFFER, poll - lookback - REORG_BUFFER, me.since}
  <2>1. last \in Int /\ poll - lookback \in Int
    BY <1>2
  <2> DEFINE later == Max({last, poll - lookback})
  <2>2. from = Max({later - REORG_BUFFER, me.since})
    BY DEF ReadFrom
  <2>3. later \in {last, poll - lookback}
    BY <2>1, MaxOfTwo
  <2> HIDE DEF lookback, from, later, me
  <2>4. later - REORG_BUFFER \in Int /\ me.since \in Int
    BY <1>2, <2>1, <2>3
  <2>5. from \in {later - REORG_BUFFER, me.since}
    BY <2>2, <2>4, MaxOfTwo
  <2>6. QED
    BY <2>3, <2>4, <2>5
<1> HIDE DEF from, rate
<1>9. ASSUME NEW k \in 1 .. Latest, k <= poll, from <= k
      PROVE  LogsOf(u, SubSeq(chain, 1, k)) \subseteq logs
  <2> HIDE DEF me
  <2>1. /\ Max({1, from}) \in {1, from} /\ Min({poll, Latest}) \in {poll, Latest}
        /\ Max({1, from}) \in Int /\ Min({poll, Latest}) \in Int
    <3>1. 1 \in Int /\ poll \in Int /\ Latest \in Int
      BY <1>2
    <3>2. Max({1, from}) \in {1, from} /\ Min({poll, Latest}) \in {poll, Latest}
      BY <1>8, <3>1, MaxOfTwo
    <3>3. QED
      BY <1>8, <3>1, <3>2
  <2>2. k \in Max({1, from}) .. Min({poll, Latest})
    BY <1>2, <1>8, <1>9, <2>1
  <2>3. QED
    BY <2>2 DEF LogsWithSigs
<1> HIDE DEF logs
<1>10. CASE n < last - REORG_BUFFER
  BY <1>4, <1>5, <1>10 DEF ReadUpTo, Outrun
<1>11. CASE n >= last - REORG_BUFFER /\ n >= poll - lookback - REORG_BUFFER
  <2>1. from <= n /\ n <= poll
    BY <1>2, <1>5, <1>7, <1>8, <1>11
  <2>2. QED
    BY <1>5, <1>9, <2>1
<1>12. CASE n >= last - REORG_BUFFER /\ n < poll - lookback - REORG_BUFFER
  <2>1. lookback = LOOKBACK
    BY <1>2, <1>7, <1>12
  <2> DEFINE end == IF poll <= Latest THEN poll ELSE Latest
  <2>2. /\ end \in Int /\ end <= poll /\ end <= Latest
        /\ end >= poll + rate - REORG_BUFFER - 1
    <3>1. poll + rate - REORG_BUFFER - 1 <= poll
      BY <1>2 DEF PollInv, BufferCoversRate, rate
    <3>2. QED
      BY <1>2, <1>3, <3>1
  <2> HIDE DEF end
  <2>3. end >= n + LOOKBACK + rate /\ end \in 1 .. Latest
    BY <1>2, <1>7, <1>12, <2>1, <2>2
  <2>4. from <= end
    BY <1>2, <1>4, <1>7, <1>8, <2>1, <2>2, <2>3
  <2> DEFINE fork == SubSeq(chain, 1, end)
             m == [upkeep |-> u, hash |-> fork, index |-> l.index]
  <2>5. m \in LogsOf(u, fork)
    BY <1>5 DEF LogsOf
  <2>6. Block(m) = end
    BY <2>3, ForkOfBlock DEF Block, ProviderInv, WorldFits
  <2>7. m \in logs
    BY <1>9, <2>2, <2>3, <2>4, <2>5
  <2>8. QED
    BY <2>3, <2>6, <2>7 DEF Outrun, rate
<1>13. QED
  BY <1>2, <1>7, <1>10, <1>11, <1>12

(* Where the chain ends after a step.                                        *)
LEMMA ChainEnds ==
  ASSUME WorldFits, [Next]_vars
  PROVE  \/ chain' = chain \/ Latest' = Latest + 1
         \/ \E n \in DOMAIN chain : Reorg(n) /\ Latest' = n
<1>1. Latest \in Nat /\ Latest = Len(chain) /\ chain \in Seq(Tags)
  BY LatestIsBlock DEF WorldFits, Latest
<1>2. \/ chain' = chain \/ NewBlock \/ \E m \in DOMAIN chain : Reorg(m)
  BY DEF Next, vars, world, RegisterFilter, UnregisterFilter, SetConfig, SyncFilters,
         StartRead, ReaderStep, FetchLogs, FetchFails, EnqueueLogs, UpdateLastPoll,
         FlowStep, StartPayloads, DequeueWindow, EndOfMinimum, EndOfBestEffort
<1>3. CASE NewBlock
  <2>1. PICK t : chain' = Append(chain, t)
    BY <1>3 DEF NewBlock
  <2>2. Len(Append(chain, t)) = Len(chain) + 1
    BY <1>1
  <2>3. QED
    BY <1>1, <2>1, <2>2 DEF Latest
<1>4. ASSUME NEW n \in DOMAIN chain, Reorg(n)
      PROVE  Latest' = n
  <2>1. PICK t \in Tags : chain' = Append(SubSeq(chain, 1, n - 1), t)
    BY <1>4 DEF Reorg
  <2>2. n \in 1 .. Latest /\ n - 1 \in Int
    BY <1>1, <1>4
  <2>3. \A i \in 1 .. n - 1 : chain[i] \in Tags
    BY <1>1, <2>2, ElementOfSeq
  <2>4. /\ SubSeq(chain, 1, n - 1) \in Seq(Tags)
        /\ Len(SubSeq(chain, 1, n - 1)) = IF 1 <= n - 1 THEN n - 1 - 1 + 1 ELSE 0
    BY <2>2, <2>3, SubSeqProperties
  <2>5. Len(chain') = Len(SubSeq(chain, 1, n - 1)) + 1
    BY <2>1, <2>4, AppendProperties
  <2>6. QED
    BY <2>2, <2>4, <2>5 DEF Latest
<1>5. QED
  BY <1>2, <1>3, <1>4

(* A filter's lastPollBlock is 0, the one it had, or that of a thread.       *)
LEMMA LastPolls ==
  ASSUME WorldFits, ReadersFit, [Next]_vars, NEW u \in DOMAIN filters'
  PROVE  \/ filters'[u].lastPoll = 0
         \/ u \in DOMAIN filters /\ filters'[u].lastPoll = filters[u].lastPoll
         \/ \E r \in Readers : /\ readers[r].pc = "update" /\ readers[r].upkeep = u
                               /\ filters'[u].lastPoll = readers[r].lastPoll
<1>1. \/ filters' = filters \/ \E v \in Upkeeps : RegisterFilter(v)
      \/ \E v \in DOMAIN filters : UnregisterFilter(v)
      \/ \E r \in Readers : UpdateLastPoll(r)
  BY DEF Next, vars, world, NewBlock, Reorg, SetConfig, SyncFilters, StartRead, ReaderStep,
         FetchLogs, FetchFails, EnqueueLogs, FlowStep, StartPayloads, DequeueWindow,
         EndOfMinimum, EndOfBestEffort
<1>2. CASE filters' = filters
  BY <1>2
<1>3. ASSUME NEW v \in Upkeeps, RegisterFilter(v)
      PROVE  \/ filters'[u].lastPoll = 0
             \/ u \in DOMAIN filters /\ filters'[u].lastPoll = filters[u].lastPoll
  BY <1>3 DEF RegisterFilter
<1>4. ASSUME NEW v \in DOMAIN filters, UnregisterFilter(v)
      PROVE  u \in DOMAIN filters /\ filters'[u].lastPoll = filters[u].lastPoll
  BY <1>4 DEF UnregisterFilter
<1>5. ASSUME NEW r \in Readers, UpdateLastPoll(r)
      PROVE  \/ u \in DOMAIN filters /\ filters'[u].lastPoll = filters[u].lastPoll
             \/ /\ readers[r].pc = "update" /\ readers[r].upkeep = u
                /\ filters'[u].lastPoll = readers[r].lastPoll
  <2> DEFINE me == readers[r]
             later == Max({filters[u].lastPoll, me.lastPoll})
  <2>1. me.pc = "update" /\ me \in Updating
    BY <1>5 DEF UpdateLastPoll, ReadersFit, ReaderFits, Idle, Fetching, Enqueuing
  <2>2. /\ u \in DOMAIN filters
        /\ filters'[u] = IF u = me.upkeep THEN [filters[u] EXCEPT !.lastPoll = later]
                         ELSE filters[u]
    BY <1>5 DEF UpdateLastPoll
  <2>3. filters[u] \in Filters
    BY <2>2 DEF WorldFits
  <2>4. later \in {filters[u].lastPoll, me.lastPoll}
    <3>1. filters[u].lastPoll \in Int /\ me.lastPoll \in Int
      BY <2>1, <2>3 DEF Updating, Filters, Blocks
    <3>2. QED
      BY <3>1, MaxOfTwo
  <2> HIDE DEF later
  <2>5. u = me.upkeep => filters'[u].lastPoll = later
    BY <2>2, <2>3 DEF Filters
  <2>6. QED
    BY <2>1, <2>2, <2>4, <2>5
<1>6. QED
  BY <1>1, <1>2, <1>3, <1>4, <1>5

(* A thread stands still or goes on.                                         *)
LEMMA ThreadSteps ==
  ASSUME ReadersFit, [Next]_vars, NEW r \in Readers
  PROVE  \/ readers'[r] = readers[r]
         \/ \E u \in Upkeeps : StartRead(r, u)
         \/ FetchLogs(r) \/ FetchFails(r) \/ EnqueueLogs(r) \/ UpdateLastPoll(r)
<1>1. \/ readers' = readers
      \/ \E q \in Readers : \/ \E u \in Upkeeps : StartRead(q, u)
                            \/ FetchLogs(q) \/ FetchFails(q) \/ EnqueueLogs(q)
                            \/ UpdateLastPoll(q)
  BY DEF Next, vars, world, NewBlock, Reorg, RegisterFilter, UnregisterFilter, SetConfig,
         SyncFilters, ReaderStep, FlowStep, StartPayloads, DequeueWindow, EndOfMinimum,
         EndOfBestEffort
<1>2. ASSUME NEW q \in Readers, q # r,
             \/ \E u \in Upkeeps : StartRead(q, u)
             \/ FetchLogs(q) \/ FetchFails(q) \/ EnqueueLogs(q) \/ UpdateLastPoll(q)
      PROVE  readers'[r] = readers[r]
  <2>1. PICK next : readers' = [readers EXCEPT ![q] = next]
    BY <1>2 DEF StartRead, FetchLogs, FetchFails, EnqueueLogs, UpdateLastPoll
  <2>2. r \in DOMAIN readers
    BY DEF ReadersFit
  <2>3. QED
    BY <1>2, <2>1, <2>2
<1>3. QED
  BY <1>1, <1>2

(* What is polled are blocks.                                                *)
LEMMA PollsAreBlocks ==
  ASSUME ProviderInv
  PROVE  Polls \subseteq Blocks
<1>1. \A u \in DOMAIN filters : filters[u].lastPoll \in Blocks
  BY DEF ProviderInv, WorldFits, Filters
<1>2. ASSUME NEW r \in Readers
      PROVE  PollsOf(readers[r]) \subseteq Blocks
  BY DEF ProviderInv, ReadersFit, ReaderFits, PollsOf, Idle, Fetching, Enqueuing, Updating
<1>3. QED
  BY <1>1, <1>2 DEF Polls

(* Up to a block that is polled, and up to any below, what was read stays    *)
(* read, and the chain stays that long.                                      *)
LEMMA PollStays ==
  ASSUME ProviderInv, ProviderInv', PollInv, [Next]_vars, ShallowStep,
         config'.blockRate = config.blockRate,
         NEW high \in Polls, NEW poll \in Blocks, poll <= high
  PROVE  /\ Reaches(Latest, poll)'
         /\ \A u, logs : ReadUpTo(u, poll, logs) => ReadUpTo(u, poll, logs)'
<1>1. /\ poll \in Int /\ high \in Int /\ REORG_BUFFER \in Nat /\ Latest \in Nat
      /\ config.blockRate \in Nat \ {0} /\ DOMAIN chain \subseteq Int
  <2>1. Latest \in Nat /\ config \in Configs /\ chain \in Seq(Tags)
    BY LatestIsBlock DEF ProviderInv, WorldFits
  <2>2. QED
    BY <2>1, ConstantsAreNumbers, PollsAreBlocks DEF Blocks
<1>2. \A n \in Int : Reaches(n, high) => Reaches(n, poll)
  BY <1>1 DEF Reaches
<1>3. /\ Reaches(Latest, poll)
      /\ \A n \in DOMAIN chain : Reorg(n) => Reaches(n, poll)
  BY <1>1, <1>2 DEF PollInv, ShallowStep
<1>4. Reaches(Latest, poll)'
  <2>1. Reaches(Latest, poll)' <=> Reaches(Latest', poll)
    BY DEF Reaches
  <2>2. CASE chain' = chain
    BY <1>3, <2>1, <2>2 DEF Latest
  <2>3. CASE Latest' = Latest + 1
    BY <1>1, <1>3, <2>1, <2>3 DEF Reaches
  <2>4. CASE \E n \in DOMAIN chain : Reorg(n) /\ Latest' = n
    BY <1>3, <2>1, <2>4
  <2>5. QED
    BY <2>2, <2>3, <2>4, ChainEnds DEF ProviderInv
<1>5. QED
  BY <1>3, <1>4, ReadStays

(* Every step keeps what filters and threads say of what was polled.         *)
LEMMA PollStep ==
  ASSUME ProviderInv, ProviderInv', PollInv, [Next]_vars, ShallowStep,
         config'.blockRate = config.blockRate
  PROVE  PollInv'
<1>1. /\ REORG_BUFFER \in Nat /\ Latest \in Nat /\ Latest' \in Nat
      /\ config.blockRate \in Nat \ {0}
  <2>1. Latest \in Nat /\ config \in Configs
    BY LatestIsBlock DEF ProviderInv, WorldFits
  <2>2. Latest' \in Nat
    BY LenProperties DEF ProviderInv, WorldFits, Latest
  <2>3. QED
    BY <2>1, <2>2, ConstantsAreNumbers
<1>2. BufferCoversRate /\ BufferCoversRate'
  BY DEF PollInv, BufferCoversRate
<1>3. ASSUME NEW r \in Readers, readers[r].pc \in {"fetch", "enqueue", "update"}
      PROVE  /\ readers[r].upkeep \in Upkeeps /\ readers[r].lastPoll \in Blocks
             /\ ReaderPolled(readers[r])
             /\ readers[r].pc = "fetch" => readers[r].latest \in Polls
             /\ readers[r].pc # "fetch" => readers[r].lastPoll \in Polls
             /\ \E high \in Polls : readers[r].lastPoll <= high
  <2> DEFINE me == readers[r]
  <2>1. /\ me.upkeep \in Upkeeps /\ me.lastPoll \in Blocks
    BY <1>3 DEF ProviderInv, ReadersFit, ReaderFits, Idle, Fetching, Enqueuing, Updating
  <2>2. ReaderPolled(me)
    BY DEF PollInv
  <2>3. /\ me.pc = "fetch" => me.latest \in Polls
        /\ me.pc # "fetch" => me.lastPoll \in Polls
    BY <1>3 DEF Polls, PollsOf
  <2>4. \E high \in Polls : me.lastPoll <= high
    <3>1. me.lastPoll <= me.lastPoll
      BY <2>1 DEF Blocks
    <3>2. QED
      BY <1>3, <2>2, <2>3, <3>1 DEF ReaderPolled
  <2>5. QED
    BY <2>1, <2>2, <2>3, <2>4
<1>4. ASSUME NEW u \in DOMAIN filters', NEW poll, poll = filters'[u].lastPoll
      PROVE  Reaches(Latest, poll)' /\ ReadUpTo(u, poll, {})'
  <2>1. CASE poll = 0
    <3>1. Reaches(Latest, poll)'
      BY <1>1, <1>2, <2>1 DEF Reaches, BufferCoversRate
    <3>2. \A n \in Nat : ~(n < 0 - REORG_BUFFER)
      BY <1>1
    <3>3. 1 .. Latest' \subseteq Nat
      BY <1>1
    <3>4. ReadUpTo(u, poll, {})'
      BY <2>1, <3>2, <3>3 DEF ReadUpTo
    <3>5. QED
      BY <3>1, <3>4
  <2>2. CASE u \in DOMAIN filters /\ poll = filters[u].lastPoll
    <3>1. ReadUpTo(u, poll, {}) /\ poll \in Polls
      BY <2>2 DEF PollInv, Polls
    <3>2. poll \in Blocks /\ poll <= poll
      BY <3>1, PollsAreBlocks DEF Blocks
    <3>3. QED
      BY <3>1, <3>2, PollStays
  <2>3. ASSUME NEW r \in Readers, readers[r].pc = "update", readers[r].upkeep = u,
               poll = readers[r].lastPoll
        PROVE  Reaches(Latest, poll)' /\ ReadUpTo(u, poll, {})'
    <3>1. ReadUpTo(u, poll, {}) /\ poll \in Polls
      BY <1>3, <2>3 DEF ReaderPolled
    <3>2. poll \in Blocks /\ poll <= poll
      BY <3>1, PollsAreBlocks DEF Blocks
    <3>3. QED
      BY <3>1, <3>2, PollStays
  <2>4. QED
    BY <1>4, <2>1, <2>2, <2>3, LastPolls DEF ProviderInv
<1>5. ASSUME NEW r \in Readers, NEW me, me = readers'[r]
      PROVE  ReaderPolled(me)' /\ \A poll \in PollsOf(me) : Reaches(Latest, poll)'
  <2>1. CASE readers'[r] = readers[r]
    <3>1. me = readers[r]
      BY <1>5, <2>1
    <3>2. CASE me.pc = "fetch"
      <4>1. /\ ReadUpTo(me.upkeep, me.lastPoll, {}) /\ me.lastPoll <= me.latest
            /\ me.upkeep \in DOMAIN filters =>
                 \/ filters[me.upkeep].since = me.since
                 \/ filters[me.upkeep].since >= me.latest - REORG_BUFFER
            /\ me.latest \in Polls /\ me.latest \in Blocks /\ me.lastPoll \in Blocks
            /\ me.latest <= me.latest
        BY <1>3, <3>1, <3>2, PollsAreBlocks DEF ReaderPolled, Blocks
      <4>2. ReadUpTo(me.upkeep, me.lastPoll, {})' /\ Reaches(Latest, me.latest)'
        BY <4>1, PollStays
      <4>3. ASSUME me.upkeep \in DOMAIN filters'
            PROVE  \/ filters'[me.upkeep].since = me.since
                   \/ filters'[me.upkeep].since >= me.latest - REORG_BUFFER
        <5>1. CASE me.upkeep \in DOMAIN filters
                   /\ filters'[me.upkeep].since = filters[me.upkeep].since
          BY <4>1, <5>1
        <5>2. CASE chain' = chain
                   /\ filters'[me.upkeep] = [lastPoll |-> 0, since |-> Latest]
          <6>1. Latest >= me.latest - REORG_BUFFER
            <7>1. Reaches(Latest, me.latest) /\ me.latest \in Int
              BY <4>1 DEF PollInv, Blocks
            <7>2. QED
              BY <1>1, <7>1 DEF Reaches
          <6>2. QED
            BY <5>2, <6>1
        <5>3. QED
          BY <4>3, <5>1, <5>2, FiltersGoOn DEF ProviderInv
      <4>4. PollsOf(me) = {me.latest}
        BY <3>2 DEF PollsOf
      <4>5. QED
        BY <3>2, <4>1, <4>2, <4>3, <4>4 DEF ReaderPolled
    <3>3. CASE me.pc = "enqueue"
      <4>1. /\ ReadUpTo(me.upkeep, me.lastPoll, me.logs)
            /\ me.lastPoll \in Polls /\ me.lastPoll \in Blocks /\ me.lastPoll <= me.lastPoll
        BY <1>3, <3>1, <3>3, PollsAreBlocks DEF ReaderPolled, Blocks
      <4>2. ReadUpTo(me.upkeep, me.lastPoll, me.logs)' /\ Reaches(Latest, me.lastPoll)'
        BY <4>1, PollStays
      <4>3. QED
        BY <3>3, <4>2 DEF ReaderPolled, PollsOf
    <3>4. CASE me.pc = "update"
      <4>1. /\ ReadUpTo(me.upkeep, me.lastPoll, {})
            /\ me.lastPoll \in Polls /\ me.lastPoll \in Blocks /\ me.lastPoll <= me.lastPoll
        BY <1>3, <3>1, <3>4, PollsAreBlocks DEF ReaderPolled, Blocks
      <4>2. ReadUpTo(me.upkeep, me.lastPoll, {})' /\ Reaches(Latest, me.lastPoll)'
        BY <4>1, PollStays
      <4>3. QED
        BY <3>4, <4>2 DEF ReaderPolled, PollsOf
    <3>5. CASE me = Idle
      BY <3>5 DEF ReaderPolled, PollsOf, Idle
    <3>6. me = Idle \/ me.pc \in {"fetch", "enqueue", "update"}
      BY <3>1 DEF ProviderInv, ReadersFit, ReaderFits, Fetching, Enqueuing, Updating
    <3>7. QED
      BY <3>2, <3>3, <3>4, <3>5, <3>6
  <2>2. ASSUME NEW u \in Upkeeps, StartRead(r, u)
        PROVE  ReaderPolled(me)' /\ \A poll \in PollsOf(me) : Reaches(Latest, poll)'
    <3>1. /\ me = [pc |-> "fetch", upkeep |-> u, latest |-> Latest,
                   lastPoll |-> filters[u].lastPoll, since |-> filters[u].since]
          /\ u \in DOMAIN filters /\ filters[u].lastPoll <= Latest
          /\ filters' = filters /\ chain' = chain
      BY <1>5, <2>2 DEF StartRead, world, ProviderInv, ReadersFit
    <3>2. /\ me.pc = "fetch" /\ me.upkeep = u /\ me.latest = Latest
          /\ me.lastPoll = filters[u].lastPoll /\ me.since = filters[u].since
      BY <3>1
    <3>3. me.lastPoll = filters'[u].lastPoll
      BY <3>1, <3>2
    <3>4. ReadUpTo(me.upkeep, me.lastPoll, {})'
      BY <1>4, <3>1, <3>2, <3>3
    <3>5. Reaches(Latest, me.latest)'
      <4>1. Latest' = me.latest
        BY <3>1, <3>2 DEF Latest
      <4>2. QED
        BY <1>1, <1>2, <4>1 DEF Reaches, BufferCoversRate
    <3>6. QED
      BY <3>1, <3>2, <3>4, <3>5 DEF ReaderPolled, PollsOf
  <2>3. CASE FetchLogs(r)
    <3> DEFINE was == readers[r]
               logs == LogsWithSigs(was.upkeep, ReadFrom(was, was.latest), was.latest)
    <3>1. /\ was.pc = "fetch" /\ was \in Fetching
          /\ me = [pc |-> "enqueue", upkeep |-> was.upkeep, lastPoll |-> was.latest,
                   logs |-> logs]
      BY <1>5, <2>3 DEF FetchLogs, ProviderInv, ReadersFit, ReaderFits, Idle, Enqueuing,
                        Updating
    <3>2. ReadUpTo(was.upkeep, was.latest, logs)
      BY <3>1, FetchReads
    <3> HIDE DEF logs
    <3>3. /\ me.pc = "enqueue" /\ me.upkeep = was.upkeep /\ me.lastPoll = was.latest
          /\ me.logs = logs
      BY <3>1
    <3>4. /\ ReadUpTo(me.upkeep, me.lastPoll, me.logs)
          /\ me.lastPoll \in Polls /\ me.lastPoll \in Blocks /\ me.lastPoll <= me.lastPoll
      BY <1>3, <3>1, <3>2, <3>3, PollsAreBlocks DEF Blocks
    <3>5. ReadUpTo(me.upkeep, me.lastPoll, me.logs)' /\ Reaches(Latest, me.lastPoll)'
      BY <3>4, PollStays
    <3>6. QED
      BY <3>3, <3>5 DEF ReaderPolled, PollsOf
  <2>4. CASE FetchFails(r)
    <3>1. /\ readers[r].pc = "fetch"
          /\ me = [pc |-> "update", upkeep |-> readers[r].upkeep,
                   lastPoll |-> readers[r].lastPoll]
      BY <1>5, <2>4 DEF FetchFails, ProviderInv, ReadersFit
    <3>2. /\ ReadUpTo(me.upkeep, me.lastPoll, {}) /\ me.lastPoll \in Blocks
          /\ \E high \in Polls : me.lastPoll <= high
      BY <1>3, <3>1 DEF ReaderPolled
    <3>3. ReadUpTo(me.upkeep, me.lastPoll, {})' /\ Reaches(Latest, me.lastPoll)'
      BY <3>2, PollStays
    <3>4. QED
      BY <3>1, <3>3 DEF ReaderPolled, PollsOf
  <2>5. CASE EnqueueLogs(r)
    <3> DEFINE logs == readers[r].logs
    <3>1. /\ readers[r].pc = "enqueue"
          /\ me = [pc |-> "update", upkeep |-> readers[r].upkeep,
                   lastPoll |-> readers[r].lastPoll]
          /\ chain' = chain /\ filters' = filters /\ config' = config
      BY <1>5, <2>5 DEF EnqueueLogs, world, ProviderInv, ReadersFit
    <3>2. /\ ReadUpTo(me.upkeep, me.lastPoll, logs)
          /\ me.lastPoll \in Polls /\ me.lastPoll \in Blocks /\ me.lastPoll <= me.lastPoll
      BY <1>3, <3>1, PollsAreBlocks DEF ReaderPolled, Blocks
    <3>3. Reaches(Latest, me.lastPoll)'
      BY <3>2, PollStays
    <3>4. ReadUpTo(me.upkeep, me.lastPoll, {})'
      <4> HIDE DEF logs
      <4>1. SUFFICES ASSUME me.upkeep \in DOMAIN filters, NEW n \in 1 .. Latest,
                            filters[me.upkeep].since <= n, n < me.lastPoll - REORG_BUFFER,
                            NEW l \in LogsOf(me.upkeep, SubSeq(chain, 1, n))
                     PROVE  Settled(l)'
        BY <3>1 DEF ReadUpTo, Latest, LogsOf
      <4>2. Settled(l) \/ l \in logs \/ Outrun(n, logs)
        BY <3>2, <4>1 DEF ReadUpTo
      <4>3. l \in Logs /\ Block(l) = n
        <5>1. /\ me.upkeep \in Upkeeps /\ SubSeq(chain, 1, n) \in Hashes
              /\ Len(SubSeq(chain, 1, n)) = n
          BY <4>1, ForkOfBlock DEF ProviderInv, WorldFits
        <5>2. QED
          BY <5>1, LogsOfBlock DEF Block
      <4>4. CASE Settled(l) \/ l \in logs
        BY <2>5, <4>3, <4>4, EnqueueSettles DEF logs
      <4>5. CASE Outrun(n, logs)
        BY <2>5, <4>3, <4>5, OutrunIsLeft DEF logs, Settled
      <4>6. QED
        BY <4>2, <4>4, <4>5
    <3>5. QED
      BY <3>1, <3>3, <3>4 DEF ReaderPolled, PollsOf
  <2>6. CASE UpdateLastPoll(r)
    <3>1. me = Idle
      BY <1>5, <2>6 DEF UpdateLastPoll, ProviderInv, ReadersFit
    <3>2. QED
      BY <3>1 DEF ReaderPolled, PollsOf, Idle
  <2>7. QED
    BY <2>1, <2>2, <2>3, <2>4, <2>5, <2>6, ThreadSteps DEF ProviderInv
<1>6. \A poll \in Polls' : Reaches(Latest, poll)'
  <2>1. ASSUME NEW poll \in Polls'
        PROVE  \/ \E u \in DOMAIN filters' : poll = filters'[u].lastPoll
               \/ \E r \in Readers : poll \in PollsOf(readers'[r])
    BY DEF Polls, PollsOf
  <2>2. QED
    BY <1>4, <1>5, <2>1
<1>7. \A u \in DOMAIN filters' : ReadUpTo(u, filters[u].lastPoll, {})'
  BY <1>4 DEF ReadUpTo
<1>8. \A r \in Readers : ReaderPolled(readers[r])'
  BY <1>5 DEF ReaderPolled, ReadUpTo
<1>9. QED
  BY <1>2, <1>6, <1>7, <1>8 DEF PollInv

(* While the reorg buffer covers the block rate and reorgs stay within it:   *)
(* what lastPollBlock says was polled is known to the queue, on the present  *)
(* fork, whatever the threads interleave.                                    *)
THEOREM PolledLogsAlwaysKnown ==
  Spec /\ RateStays /\ BufferCoversRate /\ ReorgsAreShallow => []PolledLogsAreKnown
<1>1. Init /\ BufferCoversRate => PollInv
  <2> SUFFICES ASSUME Init, BufferCoversRate
               PROVE  PollInv
    OBVIOUS
  <2>1. /\ Latest = 0 /\ \A u \in DOMAIN filters : filters[u].lastPoll = 0
        /\ \A r \in Readers : readers[r] = Idle
    BY DEF Init, Latest
  <2>2. Polls \subseteq {0} /\ \A r \in Readers : ReaderPolled(readers[r])
    BY <2>1 DEF Polls, PollsOf, Idle, ReaderPolled
  <2>3. Reaches(Latest, 0)
    <3>1. config.blockRate \in Nat /\ REORG_BUFFER \in Nat
      BY ConstantsAreNumbers DEF Init
    <3>2. QED
      BY <2>1, <3>1 DEF Reaches, BufferCoversRate
  <2>4. \A u : ReadUpTo(u, 0, {})
    BY <2>1 DEF ReadUpTo
  <2>5. QED
    BY <2>1, <2>2, <2>3, <2>4 DEF PollInv
<1>2. /\ ProviderInv /\ ProviderInv' /\ PollInv /\ [Next]_vars
      /\ [config'.blockRate = config.blockRate]_config /\ [ShallowStep]_vars
      => PollInv'
  <2> SUFFICES ASSUME ProviderInv, ProviderInv', PollInv, [Next]_vars,
                      [config'.blockRate = config.blockRate]_config, [ShallowStep]_vars
               PROVE  PollInv'
    OBVIOUS
  <2>1. config'.blockRate = config.blockRate
    OBVIOUS
  <2>2. CASE ShallowStep
    BY <2>1, <2>2, PollStep
  <2>3. CASE UNCHANGED vars
    BY <2>3 DEF vars, world, PollInv, BufferCoversRate, Polls, Reaches, Latest, ReadUpTo,
                Settled, Known, Accepted, Outrun, ReaderPolled
  <2>4. QED
    BY <2>2, <2>3
<1>3. ProviderInv /\ PollInv => PolledLogsAreKnown
  <2> SUFFICES ASSUME ProviderInv, PollInv, NEW u \in DOMAIN filters,
                      NEW l \in CanonicalLogs(u),
                      Block(l) >= filters[u].since, Block(l) < filters[u].lastPoll - REORG_BUFFER,
                      Accepted(l)
               PROVE  Known(l)
    BY DEF PolledLogsAreKnown
  <2>1. PICK n \in DOMAIN chain : l \in LogsOf(u, SubSeq(chain, 1, n))
    BY DEF CanonicalLogs
  <2>2. n \in 1 .. Latest
    BY DEF ProviderInv, WorldFits, Latest
  <2>3. Block(l) = n
    <3>1. u \in Upkeeps /\ SubSeq(chain, 1, n) \in Hashes /\ Len(SubSeq(chain, 1, n)) = n
      BY <2>2, ForkOfBlock DEF ProviderInv, WorldFits
    <3>2. QED
      BY <2>1, <3>1, LogsOfBlock DEF Block
  <2>4. n \in Int /\ filters[u].since \in Int
    BY <2>2, LatestIsBlock DEF ProviderInv, WorldFits, Filters, Blocks
  <2>5. ReadUpTo(u, filters[u].lastPoll, {})
    BY DEF PollInv
  <2>6. Settled(l) \/ Outrun(n, {})
    BY <2>1, <2>2, <2>3, <2>4, <2>5 DEF ReadUpTo
  <2>7. QED
    BY <2>6 DEF Settled, Outrun
<1>4. QED
  BY <1>1, <1>2, <1>3, ProviderInvHolds, PTL DEF Spec, RateStays, ReorgsAreShallow
===============================================================================
