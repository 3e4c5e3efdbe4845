------------------------------- MODULE LogProvider -------------------------------
(*****************************************************************************)
(* The provider of log events (logprovider/provider.go of the Chainlink      *)
(* node): reader threads poll the logs of the registered upkeeps from a      *)
(* chain that reorganises and put them into the buffer; the plugin's log     *)
(* flow takes them out, window by window.                                    *)
(*                                                                           *)
(* A block carries a tag; a reorg replaces the chain's end by a block with   *)
(* another tag.  With two tags a second reorg can bring an old block back.   *)
(*****************************************************************************)
EXTENDS LogBuffer

CONSTANTS
  Readers,         \* reader threads: readerThreads (4) in provider.go
  Tags,            \* tags of blocks
  LogCount,        \* LogCount[u]: logs of upkeep u in every block
  REORG_BUFFER,    \* reorgBuffer: blocks below the last poll read again (32)
  MAX_PAYLOADS,    \* MaxPayloads: logs the plugin takes at once (100)
  Configs,         \* [blockRate, logLimit] the plugin may set
  MaxReorgs,       \* bound: reorgs
  MaxReorgDepth,   \* bound: blocks a reorg removes
  MaxChanges       \* bound: changes of filters and configuration

ASSUME ProviderAssumption ==
  /\ LogCount \in [Upkeeps -> Nat]
  /\ {REORG_BUFFER, MAX_PAYLOADS, MaxReorgs, MaxReorgDepth, MaxChanges} \subseteq Nat
  /\ Tags # {}
  /\ Configs \subseteq [blockRate : Nat \ {0}, logLimit : Nat \ {0}]
  /\ IsFiniteSet(Configs)   \* the options have 32 bits

VARIABLES
  chain,       \* the tags of the log poller's blocks
  reorgs,      \* reorgs so far
  filters,     \* filterStore: the registered upkeeps with [lastPoll, since]
  config,      \* the buffer's options
  changes,     \* changes of filters and configuration so far
  readers,     \* readers[r]: what thread r is doing
  buffer,      \* the LogBuffer
  flow,        \* the GetLatestPayloads in progress
  delivered,   \* history: how often a log was taken from its queue
  evicted      \* history: blocks whose logs evictReorgdLogs removed

world == <<chain, reorgs, filters, config, changes>>
vars == <<world, readers, buffer, flow, delivered, evicted>>

Idle == [pc |-> "idle"]
Latest == Len(chain)
LogsOf(u, hash) == [upkeep : {u}, hash : {hash}, index : 1 .. LogCount[u]]

(* The log poller's answer for blocks from start to end.                     *)
LogsWithSigs(u, start, end) ==
  UNION {LogsOf(u, SubSeq(chain, 1, n)) : n \in Max({1, start}) .. Min({end, Latest})}

Init ==
  /\ chain = << >> /\ reorgs = 0
  /\ filters = [u \in Upkeeps |-> [lastPoll |-> 0, since |-> 0]]
  /\ config \in Configs /\ changes = 0
  /\ readers = [r \in Readers |-> Idle]
  /\ buffer = EmptyBuffer
  /\ flow = Idle
  /\ delivered = << >> /\ evicted = {}

-------------------------------------------------------------------------------
(* The chain and the configuration.                                          *)

NewBlock ==
  /\ Latest < MaxBlock
  /\ \E t \in IF chain = << >> THEN {CHOOSE t \in Tags : TRUE} ELSE {Last(chain)} :
       chain' = Append(chain, t)
  /\ UNCHANGED <<reorgs, filters, config, changes, readers, buffer, flow, delivered, evicted>>

Reorg(n) ==
  /\ reorgs < MaxReorgs
  /\ Latest - n < MaxReorgDepth
  /\ \E t \in Tags \ {chain[n]} : chain' = Append(SubSeq(chain, 1, n - 1), t)
  /\ reorgs' = reorgs + 1
  /\ UNCHANGED <<filters, config, changes, readers, buffer, flow, delivered, evicted>>

(* Registration with a new configuration, seen in block Latest: the filter   *)
(* store gets an entry without polls.                                        *)
RegisterFilter(u) ==
  /\ changes < MaxChanges
  /\ u \in DOMAIN filters => filters[u].since < Latest
  /\ filters' = [v \in DOMAIN filters \cup {u} |->
                   IF v = u THEN [lastPoll |-> 0, since |-> Latest] ELSE filters[v]]
  /\ changes' = changes + 1
  /\ UNCHANGED <<chain, reorgs, config, readers, buffer, flow, delivered, evicted>>

UnregisterFilter(u) ==
  /\ changes < MaxChanges
  /\ filters' = [v \in DOMAIN filters \ {u} |-> filters[v]]
  /\ changes' = changes + 1
  /\ UNCHANGED <<chain, reorgs, config, readers, buffer, flow, delivered, evicted>>

SetConfig(c) ==
  /\ changes < MaxChanges
  /\ config' = c
  /\ changes' = changes + 1
  /\ UNCHANGED <<chain, reorgs, filters, readers, buffer, flow, delivered, evicted>>

(* The periodic SyncFilters: queues of upkeeps without a filter disappear    *)
(* with what they know.                                                      *)
SyncFilters ==
  /\ ~(DOMAIN buffer.queues \subseteq DOMAIN filters)
  /\ buffer' = SyncQueues(buffer, DOMAIN filters)
  /\ delivered' = [l \in {m \in DOMAIN delivered : m.upkeep \in DOMAIN filters} |-> delivered[l]]
  /\ UNCHANGED <<world, readers, flow, evicted>>

-------------------------------------------------------------------------------
(* A reader thread runs ReadLogs.  The queue of jobs holds every upkeep      *)
(* again and again, so an idle thread may get any; a job is one upkeep.      *)

(* readLogs: the first block of the query.                                   *)
ReadFrom(f, latest) ==
  LET lookback == IF latest < LOOKBACK THEN latest - 1 ELSE LOOKBACK
      start    == Max({f.lastPoll, latest - lookback}) - REORG_BUFFER
  IN Max({start, f.since})

(* LatestBlock and getFilters.                                               *)
StartRead(r, u) ==
  /\ readers[r] = Idle
  /\ Latest > 0
  /\ u \in DOMAIN filters
  /\ filters[u].since <= Latest
  /\ filters[u].lastPoll <= Latest
  /\ readers' = [readers EXCEPT ![r] =
                   [pc |-> "fetch", upkeep |-> u, latest |-> Latest,
                    lastPoll |-> filters[u].lastPoll, since |-> filters[u].since]]
  /\ UNCHANGED <<world, buffer, flow, delivered, evicted>>

(* LogsWithSigs answers ...                                                  *)
FetchLogs(r) ==
  /\ readers[r].pc = "fetch"
  /\ LET me == readers[r]
     IN readers' = [readers EXCEPT ![r] =
          [pc |-> "enqueue", upkeep |-> me.upkeep, lastPoll |-> me.latest,
           logs |-> LogsWithSigs(me.upkeep, ReadFrom(me, me.latest), me.latest)]]
  /\ UNCHANGED <<world, buffer, flow, delivered, evicted>>

(* Slip: a failed read counts as a poll.                                     *)
FetchFailsAsPolled(r) ==
  /\ readers[r].pc = "fetch"
  /\ readers' = [readers EXCEPT ![r] = [pc |-> "update", upkeep |-> readers[r].upkeep,
                                        lastPoll |-> readers[r].latest]]
  /\ UNCHANGED <<world, buffer, flow, delivered, evicted>>

(* ... or fails: the filter keeps the lastPollBlock of its copy.             *)
FetchFails(r) ==
  /\ readers[r].pc = "fetch"
  /\ readers' = [readers EXCEPT ![r] = [pc |-> "update", upkeep |-> readers[r].upkeep,
                                        lastPoll |-> readers[r].lastPoll]]
  /\ UNCHANGED <<world, buffer, flow, delivered, evicted>>

EnqueueLogs(r) ==
  /\ readers[r].pc = "enqueue"
  /\ LET me == readers[r]
     IN /\ buffer' = Enqueue(buffer, me.upkeep, me.logs, config)
        /\ evicted' = evicted \cup ReorgedBlocks(buffer, me.logs)
        /\ readers' = [readers EXCEPT ![r] = [pc |-> "update", upkeep |-> me.upkeep,
                                              lastPoll |-> me.lastPoll]]
  /\ UNCHANGED <<world, flow, delivered>>

(* updateFiltersLastPoll.                                                    *)
UpdateLastPoll(r) ==
  /\ readers[r].pc = "update"
  /\ LET me == readers[r]
     IN filters' = [u \in DOMAIN filters |->
          IF u = me.upkeep THEN [filters[u] EXCEPT !.lastPoll = Max({@, me.lastPoll})]
          ELSE filters[u]]
  /\ readers' = [readers EXCEPT ![r] = Idle]
  /\ UNCHANGED <<chain, reorgs, config, changes, buffer, flow, delivered, evicted>>

-------------------------------------------------------------------------------
(* The log flow of the plugin.                                               *)

FirstStart(latest) == Max({1, latest - LOOKBACK})

(* GetLatestPayloads asks for the latest block ...                           *)
StartPayloads ==
  /\ flow = Idle
  /\ flow' = [pc |-> "minimum", latest |-> Latest, start |-> FirstStart(Latest),
              rate |-> config.blockRate, got |-> 0]
  /\ UNCHANGED <<world, readers, buffer, delivered, evicted>>

(* ... and takes logs window by window: first the minimum of every upkeep,   *)
(* then, from the first window again, what there is.                         *)
DequeueWindow ==
  /\ flow.pc \in {"minimum", "best effort"}
  /\ flow.got < MAX_PAYLOADS
  /\ flow.start <= flow.latest
  /\ LET result == Dequeue(buffer, Window(flow.start, flow.rate),
                           MAX_PAYLOADS - flow.got, flow.pc = "minimum", config)
     IN /\ buffer' = [buffer EXCEPT !.queues = result.queues]
        /\ delivered' = [l \in DOMAIN delivered \cup result.taken |->
                           (IF l \in DOMAIN delivered THEN delivered[l] ELSE 0)
                             + (IF l \in result.taken THEN 1 ELSE 0)]
        /\ flow' = [flow EXCEPT !.start = @ + flow.rate,
                                !.got = MAX_PAYLOADS - result.capacity]
  /\ UNCHANGED <<world, readers, evicted>>

(* Slip: no best effort after the minimum.                                   *)
EndWithMinimum ==
  /\ flow.pc = "minimum"
  /\ flow.got >= MAX_PAYLOADS \/ flow.start > flow.latest
  /\ flow' = Idle
  /\ UNCHANGED <<world, readers, buffer, delivered, evicted>>

EndOfMinimum ==
  /\ flow.pc = "minimum"
  /\ flow.got >= MAX_PAYLOADS \/ flow.start > flow.latest
  /\ flow' = IF flow.got >= MAX_PAYLOADS THEN Idle
             ELSE [flow EXCEPT !.pc = "best effort", !.start = FirstStart(flow.latest),
                               !.rate = config.blockRate]
  /\ UNCHANGED <<world, readers, buffer, delivered, evicted>>

EndOfBestEffort ==
  /\ flow.pc = "best effort"
  /\ flow.got >= MAX_PAYLOADS \/ flow.start > flow.latest
  /\ flow' = Idle
  /\ UNCHANGED <<world, readers, buffer, delivered, evicted>>

ReaderStep(r) == FetchLogs(r) \/ EnqueueLogs(r) \/ UpdateLastPoll(r)
FlowStep == StartPayloads \/ DequeueWindow \/ EndOfMinimum \/ EndOfBestEffort

Next ==
  \/ NewBlock
  \/ \E n \in DOMAIN chain : Reorg(n)
  \/ \E u \in Upkeeps : RegisterFilter(u)
  \/ \E u \in DOMAIN filters : UnregisterFilter(u)
  \/ \E c \in Configs \ {config} : SetConfig(c)
  \/ SyncFilters
  \/ \E r \in Readers, u \in Upkeeps : StartRead(r, u)
  \/ \E r \in Readers : ReaderStep(r) \/ FetchFails(r)
  \/ FlowStep

Spec == Init /\ [][Next]_vars

(* Every upkeep's job comes up again and again, a started job goes on, the   *)
(* node does not fail all reads of an upkeep, the plugin keeps asking.       *)
FairSpec ==
  /\ Spec
  /\ \A u \in Upkeeps :
       /\ SF_vars(\E r \in Readers : StartRead(r, u))
       /\ SF_vars(\E r \in Readers : FetchLogs(r) /\ readers[r].upkeep = u)
  /\ \A r \in Readers : WF_vars(ReaderStep(r))
  /\ WF_vars(FlowStep)

-------------------------------------------------------------------------------
(* Properties.                                                               *)

Canonical(l) == IsPrefix(l.hash, chain)
CanonicalLogs(u) == UNION {LogsOf(u, SubSeq(chain, 1, n)) : n \in DOMAIN chain}
Accepted(l) == Block(l) >= Threshold(buffer.lastSeen, config)
Known(l) == l.upkeep \in DOMAIN buffer.queues /\ l \in DOMAIN buffer.queues[l.upkeep].states

TypeOK ==
  /\ chain \in Seq(Tags)
  /\ DOMAIN filters \subseteq Upkeeps
  /\ \A u \in DOMAIN filters : filters[u] \in [lastPoll : 0 .. MaxBlock, since : 0 .. MaxBlock]
  /\ \A u \in DOMAIN buffer.queues :
       LET q == buffer.queues[u]
       IN /\ q.logs \subseteq DOMAIN q.states
          /\ {Block(l) : l \in q.logs} \subseteq q.blocks
          /\ \A l \in DOMAIN q.states : q.states[l] \in States

(* However reads of different ages are mixed by the reader threads, the logs *)
(* the buffer holds for a block are of one fork, across all queues           *)
(* (evictReorgdLogs goes through every queue).                               *)
OneForkPerBlock ==
  \A u \in DOMAIN buffer.queues : \A l \in buffer.queues[u].logs :
    l.hash = buffer.hashes[Block(l)]

(* Reads overlap, by the reorg buffer and among threads, and still a queue   *)
(* gives a log to the plugin once: what a queue forgets about a log it       *)
(* forgets when it accepts the log no more.                                  *)
DeliveredOnce == \A l \in DOMAIN delivered : delivered[l] = 1

(* A queue holds at most windowLimit logs of a window.                       *)
WindowBounded ==
  \A u \in DOMAIN buffer.queues, w \in 0 .. MaxBlock :
    Cardinality({l \in buffer.queues[u].logs : Window(Block(l), config.blockRate) = w})
      <= Max({c.logLimit : c \in Configs}) * WINDOW_FACTOR

(* A block that will not be read again, because it is further below          *)
(* lastPollBlock than the reorg buffer reaches, has been read on its present *)
(* fork: its logs are known to the queue, which keeps their states also when *)
(* it evicts them.                                                           *)
PolledLogsAreKnown ==
  \A u \in DOMAIN filters : \A l \in CanonicalLogs(u) :
    (/\ Block(l) >= filters[u].since
     /\ Block(l) < filters[u].lastPoll - REORG_BUFFER
     /\ Accepted(l))
      => Known(l)

(* A log the queue knows as enqueued is in the buffer, unless it was evicted *)
(* (it then depends on the recoverer).                                       *)
EnqueuedIsKept ==
  \A u \in DOMAIN buffer.queues : \A l \in DOMAIN buffer.queues[u].states :
    (buffer.queues[u].states[l] = "enqueued" /\ Block(l) \notin evicted)
      => l \in buffer.queues[u].logs

(* When the chain rests, every log of the lookback window that was not       *)
(* evicted reaches the plugin or is dropped for the limit of its window.     *)
LogsAreHandled ==
  <>[](\A u \in DOMAIN filters : \A l \in CanonicalLogs(u) :
         (Block(l) >= Max({filters[u].since, Latest - LOOKBACK}) /\ Block(l) \notin evicted)
           => Known(l) /\ buffer.queues[u].states[l] # "enqueued")
===============================================================================
