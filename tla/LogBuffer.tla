-------------------------------- MODULE LogBuffer --------------------------------
(*****************************************************************************)
(* The buffer between the readers of log events and the automation plugin    *)
(* (logprovider/buffer_v1.go of the Chainlink node): one queue per upkeep,   *)
(* cut into windows of blocks, with the hashes of the blocks seen last.      *)
(*                                                                           *)
(* Operators from a buffer to a buffer; module LogProvider drives them.      *)
(*****************************************************************************)
EXTENDS Integers, Sequences, FiniteSets, FiniteSetsExt, SequencesExt

CONSTANTS
  Upkeeps,         \* numbers; the queues are visited in ascending order
  MaxBlock,        \* bound: the highest block number
  LOOKBACK,        \* opts.lookback: blocks the buffer keeps
  WINDOW_FACTOR    \* windowLimit / logLimit: 10 in newLogBufferOptions

ASSUME BufferAssumption ==
  /\ Upkeeps \subseteq Nat
  /\ {MaxBlock, LOOKBACK} \subseteq Nat
  /\ WINDOW_FACTOR \in Nat \ {0}

(* A log [upkeep, hash, index]: the hash of its block stands for all the     *)
(* blocks below it as well, so it is the tuple of the blocks' tags and its   *)
(* length is the number of the block.                                        *)
Block(log) == Len(log.hash)
NoHash == <<>>

(* getBlockWindow: the first block of the window of block n.                 *)
Window(n, rate) == IF rate = 0 THEN n ELSE n - (n % rate)

(* The order of a queue: blocks ascend, and within a block the log with the  *)
(* higher index comes first, for orderLogs takes LogSorter, which says that  *)
(* a is after b, for "less".                                                 *)
Before(a, b) == \/ Block(a) < Block(b)
                \/ Block(a) = Block(b) /\ a.index > b.index

(* The first k of a set of logs.                                             *)
FirstLogs(logs, k) == {l \in logs : Cardinality({m \in logs : Before(m, l)}) < k}

States == {"enqueued", "dequeued", "dropped"}

(* A queue: logs in the buffer, the blocks that have an entry (emptied ones  *)
(* included), what became of every log it knows, and how many logs were      *)
(* taken by window.                                                          *)
NewQueue == [logs     |-> {},
             blocks   |-> {},
             states   |-> << >>,
             dequeued |-> [w \in 0 .. MaxBlock |-> 0]]

EmptyBuffer == [queues   |-> << >>,
                hashes   |-> [n \in 1 .. MaxBlock |-> NoHash],
                lastSeen |-> 0]

-------------------------------------------------------------------------------
(* Adding logs.                                                              *)

(* Forget what is below the threshold, and drop of each window what exceeds  *)
(* the limit; states are forgotten below statesFrom.                         *)
CleanWith(q, threshold, statesFrom, limit, config) ==
  LET fresh == {l \in q.logs : Block(l) >= threshold}
      inWindow(w) == {l \in fresh : Window(Block(l), config.blockRate) = w}
      kept == UNION {FirstLogs(inWindow(w), limit) : w \in 0 .. MaxBlock}
      old == {n \in q.blocks : n < threshold}
  IN [logs     |-> kept,
      blocks   |-> q.blocks \ old,
      states   |-> [l \in {m \in DOMAIN q.states : Block(m) >= statesFrom} |->
                      IF l \in fresh \ kept THEN "dropped" ELSE q.states[l]],
      dequeued |-> [w \in 0 .. MaxBlock |->
                      IF w \in {Window(n, config.blockRate) : n \in old} THEN 0 ELSE q.dequeued[w]]]

WindowLimit(config) == config.logLimit * WINDOW_FACTOR

(* Slips: a state is forgotten too early; one log too many stays; a dropped  *)
(* log keeps its state.                                                      *)
CleanEarly(q, threshold, config) ==
  CleanWith(q, threshold, threshold + 1, WindowLimit(config), config)
CleanOneMore(q, threshold, config) ==
  CleanWith(q, threshold, threshold, WindowLimit(config) + 1, config)
CleanQuietly(q, threshold, config) ==
  [CleanWith(q, threshold, threshold, WindowLimit(config), config)
     EXCEPT !.states = [l \in DOMAIN @ |-> q.states[l]]]

(* upkeepLogQueue.clean with cleanStates.                                    *)
Clean(q, threshold, config) ==
  CleanWith(q, threshold, threshold, WindowLimit(config), config)

(* Slip: only the logs still in the buffer are recognised.                   *)
AddUnlessBuffered(q, logs, threshold, config) ==
  LET new == {l \in logs : Block(l) >= threshold} \ q.logs
      added == [q EXCEPT !.logs = @ \cup new,
                         !.blocks = @ \cup {Block(l) : l \in new},
                         !.states = [l \in DOMAIN @ \cup new |->
                                       IF l \in new THEN "enqueued" ELSE @[l]]]
  IN Clean(added, threshold, config)

(* upkeepLogQueue.enqueue.                                                   *)
AddToQueue(q, logs, threshold, config) ==
  LET new == {l \in logs : Block(l) >= threshold} \ DOMAIN q.states
      added == [q EXCEPT !.logs = @ \cup new,
                         !.blocks = @ \cup {Block(l) : l \in new},
                         !.states = [l \in DOMAIN @ \cup new |->
                                       IF l \in new THEN "enqueued" ELSE @[l]]]
  IN IF new = {} THEN q ELSE Clean(added, threshold, config)

(* blockStatistics: the blocks that are known with another hash.             *)
ReorgedBlocks(buf, logs) ==
  {n \in {Block(l) : l \in logs} :
     buf.hashes[n] # NoHash /\ \E l \in logs : Block(l) = n /\ l.hash # buf.hashes[n]}

(* Slip: reorged logs stay.                                                  *)
EvictNothing(q, blocks, config) ==
  [q EXCEPT !.dequeued = [w \in DOMAIN @ |->
                            IF w \in {Window(n, config.blockRate) : n \in blocks} THEN 0 ELSE @[w]]]

(* evictReorgdLogs, for one of the queues.                                   *)
Evict(q, blocks, config) ==
  LET gone == blocks \cap q.blocks
      windows == {Window(n, config.blockRate) : n \in gone}
  IN [q EXCEPT !.logs = {l \in @ : Block(l) \notin gone},
               !.dequeued = [w \in DOMAIN @ |-> IF w \in windows THEN 0 ELSE @[w]]]

(* The oldest block Enqueue accepts.                                         *)
Threshold(lastSeen, config) ==
  LET start == Window(lastSeen - LOOKBACK, config.blockRate)
  IN IF start <= 0 THEN 1 ELSE start

(* logBuffer.Enqueue.                                                        *)
Enqueue(buf, u, logs, config) ==
  LET numbers  == {Block(l) : l \in logs}
      reorged  == ReorgedBlocks(buf, logs)
      lastSeen == Max({buf.lastSeen} \cup numbers)
      known    == IF u \in DOMAIN buf.queues THEN buf.queues
                  ELSE [v \in DOMAIN buf.queues \cup {u} |->
                          IF v = u THEN NewQueue ELSE buf.queues[v]]
      evicted  == [v \in DOMAIN known |-> Evict(known[v], reorged, config)]
  IN [queues   |-> [evicted EXCEPT ![u] = AddToQueue(@, logs, Threshold(lastSeen, config), config)],
      hashes   |-> [n \in DOMAIN buf.hashes |->
                      IF n \in numbers THEN (CHOOSE l \in logs : Block(l) = n).hash
                      ELSE buf.hashes[n]],
      lastSeen |-> lastSeen]

-------------------------------------------------------------------------------
(* Taking logs.                                                              *)

(* logBuffer.dequeue looks at the blocks from start to start + blockRate,    *)
(* both included.                                                            *)
InRange(q, start, config) ==
  {l \in q.logs : Block(l) >= start /\ Block(l) <= start + config.blockRate}

(* How many logs dequeue asks a queue for.                                   *)
Wanted(q, start, capacity, minimum, config) ==
  IF minimum THEN Min({capacity, config.logLimit - q.dequeued[start]}) ELSE capacity

(* upkeepLogQueue.dequeue with the counter its caller moves.                 *)
TakeFromQueue(q, start, taken) ==
  [q EXCEPT !.logs = @ \ taken,
            !.states = [l \in DOMAIN @ |-> IF l \in taken THEN "dequeued" ELSE @[l]],
            !.dequeued[start] = @ + Cardinality(taken)]

(* The body of dequeue's loop; acc is [queues, taken, capacity].             *)
DequeueFrom(acc, u, start, minimum, config) ==
  LET q == acc.queues[u]
      taken == FirstLogs(InRange(q, start, config),
                         Wanted(q, start, acc.capacity, minimum, config))
  IN IF (minimum /\ q.dequeued[start] >= config.logLimit) \/ acc.capacity = 0
     THEN acc
     ELSE [queues   |-> [acc.queues EXCEPT ![u] = TakeFromQueue(@, start, taken)],
           taken    |-> acc.taken \cup taken,
           capacity |-> acc.capacity - Cardinality(taken)]

(* logBuffer.Dequeue: [queues, taken, capacity] afterwards.  The fold takes   *)
(* the greatest upkeep last.                                                 *)
Dequeue(buf, start, capacity, minimum, config) ==
  MapThenFoldSet(LAMBDA u, acc : DequeueFrom(acc, u, start, minimum, config),
                 [queues |-> buf.queues, taken |-> {}, capacity |-> capacity],
                 LAMBDA u : u, Max, DOMAIN buf.queues)

(* logBuffer.SyncFilters.                                                    *)
SyncQueues(buf, registered) ==
  [buf EXCEPT !.queues = [u \in DOMAIN @ \cap registered |-> @[u]]]
===============================================================================
