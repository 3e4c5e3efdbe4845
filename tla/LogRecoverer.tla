------------------------------ MODULE LogRecoverer ------------------------------
(*****************************************************************************)
(* The recoverer of missed log events (logprovider/recoverer.go of the       *)
(* Chainlink node).  One thread reads the older logs of every upkeep again   *)
(* and puts those without a final state into the pending list, another puts  *)
(* back what was proposed long ago without effect, and the plugin asks for   *)
(* proposals.                                                                *)
(*                                                                           *)
(* The logs are those below the finality depth, so they are a constant.      *)
(*****************************************************************************)
EXTENDS Integers, FiniteSets, FiniteSetsExt

CONSTANTS
  Upkeeps,
  Logs,            \* logs [upkeep, block, index] of the chain
  MaxBlock,        \* bound: the highest block number
  LOOKBACK,        \* lookbackBlocks: blocks the log buffer serves
  FINALITY,        \* finalityDepth
  Days,            \* values of blocksInDay: 24 hours by the block time in use
  LOGS_BUFFER,     \* recoveryLogsBuffer: blocks read at once (200)
  LOGS_BURST,      \* recoveryLogsBurst: the same for a lagging upkeep (500)
  LAG,             \* blocks from which an upkeep lags (100 * recoveryLogsBuffer)
  BATCH_SIZE,      \* recoveryBatchSize: upkeeps read at once (10)
  MAX_PENDING,     \* maxPendingPayloadsPerUpkeep (500)
  PER_UPKEEP,      \* AllowedLogsPerUpkeep: proposals of an upkeep at once (5)
  MAX_PROPOSALS,   \* MaxProposals: proposals at once (20)
  MaxChanges       \* bound: changes of filters and of the block time

ASSUME RecovererAssumption ==
  /\ {MaxBlock, LOOKBACK, FINALITY, LOGS_BUFFER, LOGS_BURST, LAG, MaxChanges} \subseteq Nat
  /\ {BATCH_SIZE, MAX_PENDING, PER_UPKEEP, MAX_PROPOSALS} \subseteq Nat \ {0}
  /\ Days \subseteq Nat /\ Days # {}
  /\ Logs \subseteq [upkeep : Upkeeps, block : 1 .. MaxBlock, index : Nat]
  /\ IsFiniteSet(Logs)

VARIABLES
  latest,       \* the latest block
  blocksInDay,  \* 24 hours divided by the block time
  changes,      \* changes of filters and block time so far
  configBlock,  \* upkeep |-> block of its present configuration
  filters,      \* filterStore: upkeep |-> [lastRePoll, since]
  known,        \* logs whose work is performed or ineligible
  visited,      \* visited: log |-> "fresh" or "old" (RecoveryCacheTTL)
  pending,      \* the pending list
  jobs,         \* upkeep |-> its recoverFilter in progress
  cleaner,      \* the clean in progress
  proposals,    \* what GetRecoveryProposals returned last
  oldest        \* history: the highest start the window ever had

world == <<latest, blocksInDay, oldest, changes, configBlock, known>>
vars == <<world, filters, visited, pending, jobs, cleaner, proposals>>

Idle == [pc |-> "idle"]

Init ==
  /\ latest = 0 /\ blocksInDay \in Days /\ oldest = 0 /\ changes = 0
  /\ filters = [u \in Upkeeps |-> [lastRePoll |-> 0, since |-> 0]]
  /\ configBlock = [u \in Upkeeps |-> 0]
  /\ known = {} /\ visited = << >> /\ pending = {}
  /\ jobs = << >>
  /\ cleaner = Idle /\ proposals = {}

(* getRecoveryWindow.                                                        *)
WindowEnd == latest - LOOKBACK - FINALITY
WindowStart == Min({latest - blocksInDay, WindowEnd})

-------------------------------------------------------------------------------
(* The world.                                                                *)

NewBlock ==
  /\ latest < MaxBlock
  /\ latest' = latest + 1
  /\ UNCHANGED <<blocksInDay, changes, configBlock, known, filters, visited,
                 pending, jobs, cleaner, proposals>>
  /\ oldest' = Max({oldest, WindowStart'})

(* Some node performs the work, or this one finds it ineligible.             *)
Finalise(l) ==
  /\ l \notin known /\ l.block <= latest
  /\ known' = known \cup {l}
  /\ UNCHANGED <<latest, blocksInDay, oldest, changes, configBlock, filters,
                 visited, pending, jobs, cleaner, proposals>>

(* updateBlockTime.                                                          *)
UpdateBlockTime(d) ==
  /\ changes < MaxChanges
  /\ blocksInDay' = d
  /\ changes' = changes + 1
  /\ UNCHANGED <<latest, configBlock, known, filters, visited, pending, jobs,
                 cleaner, proposals>>
  /\ oldest' = Max({oldest, WindowStart'})

AddFilter(u, since) ==
  filters' = [v \in DOMAIN filters \cup {u} |->
                IF v = u THEN [lastRePoll |-> 0, since |-> since] ELSE filters[v]]

(* RegisterFilter with a new configuration ...                               *)
Configure(u) ==
  /\ changes < MaxChanges
  /\ configBlock[u] < latest
  /\ configBlock' = [configBlock EXCEPT ![u] = latest]
  /\ AddFilter(u, latest)
  /\ changes' = changes + 1
  /\ UNCHANGED <<latest, blocksInDay, oldest, known, visited, pending, jobs,
                 cleaner, proposals>>

(* ... or with the old one, after a pause.                                   *)
Unpause(u) ==
  /\ changes < MaxChanges
  /\ u \notin DOMAIN filters
  /\ AddFilter(u, configBlock[u])
  /\ changes' = changes + 1
  /\ UNCHANGED <<latest, blocksInDay, oldest, configBlock, known, visited,
                 pending, jobs, cleaner, proposals>>

UnregisterFilter(u) ==
  /\ changes < MaxChanges
  /\ filters' = [v \in DOMAIN filters \ {u} |-> filters[v]]
  /\ changes' = changes + 1
  /\ UNCHANGED <<latest, blocksInDay, oldest, configBlock, known, visited,
                 pending, jobs, cleaner, proposals>>

(* A log ages in the cache.                                                  *)
Age(l) ==
  /\ visited[l] = "fresh"
  /\ visited' = [visited EXCEPT ![l] = "old"]
  /\ UNCHANGED <<world, filters, pending, jobs, cleaner, proposals>>

-------------------------------------------------------------------------------
(* The recovery thread.                                                      *)

(* getFilterBatch: half of a full batch lags most, the rest is random.       *)
Ready == {u \in DOMAIN filters : filters[u].lastRePoll < WindowEnd /\ filters[u].since <= WindowEnd}
IsBatch(batch) ==
  IF Cardinality(Ready) < BATCH_SIZE THEN batch = Ready
  ELSE /\ Cardinality(batch) = BATCH_SIZE
       /\ \E half \in kSubset(BATCH_SIZE \div 2, batch) :
            \A u \in half, v \in Ready \ half : filters[u].lastRePoll <= filters[v].lastRePoll

(* Slip: the end of the window is not looked at.                             *)
RangeBeyond(f, startBlock, offset) ==
  LET start == Max({f.lastRePoll + 1, f.since, startBlock})
  IN [start |-> start,
      end   |-> IF offset - (start + LOGS_BUFFER) > LAG THEN start + LOGS_BURST
                ELSE start + LOGS_BUFFER]

(* recover starts a goroutine for every upkeep of the batch and waits for    *)
(* them; recoverFilter computes the blocks to read from its copy.            *)
RangeOf(f, startBlock, offset) ==
  LET start == Max({f.lastRePoll + 1, f.since, startBlock})
      end   == IF offset - (start + LOGS_BUFFER) > LAG THEN start + LOGS_BURST
               ELSE start + LOGS_BUFFER
  IN [start |-> start, end |-> Min({end, offset})]

Recover ==
  /\ jobs = << >>
  /\ WindowEnd >= 0
  /\ \E batch \in SUBSET Ready :
       /\ batch # {} /\ IsBatch(batch)
       /\ jobs' = [u \in batch |->
            LET range == RangeOf(filters[u], Max({0, WindowStart}), WindowEnd)
            IN [pc |-> "states", end |-> range.end,
                logs |-> {l \in Logs : l.upkeep = u /\ l.block \in range.start .. range.end}]]
  /\ UNCHANGED <<world, filters, visited, pending, cleaner, proposals>>

JobEnds(u) == jobs' = [v \in DOMAIN jobs \ {u} |-> jobs[v]]

(* LogsWithSigs or SelectByWorkIDs fails.                                    *)
RecoverFails(u) ==
  /\ jobs[u].pc = "states"
  /\ JobEnds(u)
  /\ UNCHANGED <<world, filters, visited, pending, cleaner, proposals>>

(* SelectByWorkIDs and filterFinalizedStates.                                *)
ReadStates(u) ==
  /\ jobs[u].pc = "states"
  /\ jobs' = [jobs EXCEPT ![u].pc = "populate", ![u].logs = @ \ known]
  /\ UNCHANGED <<world, filters, visited, pending, cleaner, proposals>>

(* Slip: one more.                                                           *)
RoomForOneMore(u) == MAX_PENDING + 1 - Cardinality({l \in pending : l.upkeep = u})

(* How many more payloads of an upkeep addPending takes.                     *)
RoomFor(u) == MAX_PENDING - Cardinality({l \in pending : l.upkeep = u})

(* Slip: a full pending list is no reason to read the blocks again.          *)
PopulateWhatFits(u) ==
  LET fresh == jobs[u].logs \ (DOMAIN visited \cup pending)
  IN /\ jobs[u].pc = "populate"
     /\ \E added \in SUBSET fresh :
          /\ Cardinality(added) = Min({Cardinality(fresh), RoomFor(u)})
          /\ pending' = pending \cup added
          /\ visited' = [l \in DOMAIN visited \cup added |->
                           IF l \in added THEN "fresh" ELSE visited[l]]
     /\ jobs' = [jobs EXCEPT ![u].pc = "update"]
     /\ UNCHANGED <<world, filters, cleaner, proposals>>

(* populatePending: new logs go to the pending list while there is room; an  *)
(* upkeep at the limit fails for its pending logs as well.                   *)
PopulatePending(u) ==
  LET new == jobs[u].logs \ DOMAIN visited
      fresh == new \ pending
  IN /\ jobs[u].pc = "populate"
     /\ \E added \in SUBSET new :
          /\ Cardinality(added \ pending) = Min({Cardinality(fresh), RoomFor(u)})
          /\ Cardinality(added \ pending) < RoomFor(u) => added = new
          /\ RoomFor(u) = 0 => added = {}
          /\ pending' = pending \cup added
          /\ visited' = [l \in DOMAIN visited \cup added |->
                           IF l \in added THEN "fresh" ELSE visited[l]]
          /\ IF added = new THEN jobs' = [jobs EXCEPT ![u].pc = "update"] ELSE JobEnds(u)
     /\ UNCHANGED <<world, filters, cleaner, proposals>>

(* UpdateFilters: the stored filter, of whatever registration.               *)
UpdateLastRePoll(u) ==
  /\ jobs[u].pc = "update"
  /\ filters' = [v \in DOMAIN filters |->
                   IF v = u THEN [filters[v] EXCEPT !.lastRePoll = jobs[u].end] ELSE filters[v]]
  /\ JobEnds(u)
  /\ UNCHANGED <<world, visited, pending, cleaner, proposals>>

-------------------------------------------------------------------------------
(* The cleanup thread.                                                       *)

(* clean collects the old logs ...                                           *)
Clean ==
  /\ cleaner = Idle
  /\ \E l \in DOMAIN visited : visited[l] = "old"
  /\ cleaner' = [pc |-> "states", logs |-> {l \in DOMAIN visited : visited[l] = "old"}]
  /\ UNCHANGED <<world, filters, visited, pending, jobs, proposals>>

(* ... tryExpire reads their states and the window ...                       *)
CleanStates ==
  /\ cleaner.pc = "states"
  /\ cleaner' = [pc |-> "expire", logs |-> cleaner.logs, known |-> cleaner.logs \cap known,
                 start |-> WindowStart]
  /\ UNCHANGED <<world, filters, visited, pending, jobs, proposals>>

CleanFails ==
  /\ cleaner.pc = "states"
  /\ cleaner' = Idle
  /\ UNCHANGED <<world, filters, visited, pending, jobs, proposals>>

(* Slip: what is still unknown is only marked as seen again.                 *)
ExpireWithoutRetry ==
  LET unknown == (cleaner.logs \ cleaner.known) \cap DOMAIN visited
      tooOld  == {l \in unknown : l.block < cleaner.start}
  IN /\ cleaner.pc = "expire"
     /\ pending' = pending \ tooOld
     /\ visited' = [l \in DOMAIN visited \ (cleaner.known \cup tooOld) |->
                      IF l \in unknown THEN "fresh" ELSE visited[l]]
     /\ cleaner' = Idle
     /\ UNCHANGED <<world, filters, jobs, proposals>>

(* ... and forgets the finished ones and those that left the window; the     *)
(* others become pending again, where there is room (there is more of it     *)
(* once the old ones are gone).                                              *)
Expire ==
  LET unknown == (cleaner.logs \ cleaner.known) \cap DOMAIN visited
      tooOld  == {l \in unknown : l.block < cleaner.start}
      rest    == pending \ tooOld
      again   == unknown \ tooOld
      of(S, u) == {l \in S : l.upkeep = u}
  IN /\ cleaner.pc = "expire"
     /\ \E added \in SUBSET again :
          /\ \A u \in Upkeeps :
               LET more == Cardinality(of(added \ rest, u))
               IN \E room \in RoomFor(u) .. MAX_PENDING - Cardinality(of(rest, u)) :
                  /\ more = Min({Cardinality(of(again \ rest, u)), room})
                  /\ more < room => of(added, u) = of(again, u)
                  /\ room = 0 => of(added, u) = {}
          /\ pending' = rest \cup added
          /\ visited' = [l \in DOMAIN visited \ (cleaner.known \cup tooOld) |->
                           IF l \in added THEN "fresh" ELSE visited[l]]
     /\ cleaner' = Idle
     /\ UNCHANGED <<world, filters, jobs, proposals>>

-------------------------------------------------------------------------------
(* GetRecoveryProposals: sortPending's order depends on the block, so any    *)
(* pending logs may come first.                                              *)
Propose(chosen) ==
  /\ pending # {}
  /\ \A u \in Upkeeps : Cardinality({l \in chosen : l.upkeep = u}) <= PER_UPKEEP
  /\ Cardinality(chosen) <= MAX_PROPOSALS
  /\ \A l \in pending \ chosen :
       \/ Cardinality(chosen) = MAX_PROPOSALS
       \/ Cardinality({m \in chosen : m.upkeep = l.upkeep}) = PER_UPKEEP
  /\ proposals' = chosen
  /\ pending' = pending \ chosen
  /\ UNCHANGED <<world, filters, visited, jobs, cleaner>>

JobStep(u) == ReadStates(u) \/ PopulatePending(u) \/ UpdateLastRePoll(u)

Next ==
  \/ NewBlock
  \/ \E l \in Logs : Finalise(l)
  \/ \E d \in Days \ {blocksInDay} : UpdateBlockTime(d)
  \/ \E u \in Upkeeps : Configure(u) \/ Unpause(u)
  \/ \E u \in DOMAIN filters : UnregisterFilter(u)
  \/ \E l \in DOMAIN visited : Age(l)
  \/ Recover
  \/ \E u \in DOMAIN jobs : JobStep(u) \/ RecoverFails(u)
  \/ Clean \/ CleanStates \/ CleanFails \/ Expire
  \/ \E chosen \in SUBSET pending : Propose(chosen)

Spec == Init /\ [][Next]_vars

(* The threads run, the reads of an upkeep do not fail for ever, the plugin  *)
(* keeps asking and the order of the pending list, which changes with the    *)
(* chain, favours every log now and then.                                    *)
FairSpec ==
  /\ Spec
  /\ WF_vars(Recover)
  /\ \A u \in Upkeeps : /\ SF_vars(u \in DOMAIN jobs /\ ReadStates(u))
                        /\ WF_vars(u \in DOMAIN jobs /\ (PopulatePending(u) \/ UpdateLastRePoll(u)))
  /\ \A l \in Logs : /\ WF_vars(l \in DOMAIN visited /\ Age(l))
                     /\ SF_vars(\E chosen \in SUBSET pending : l \in chosen /\ Propose(chosen))
  /\ WF_vars(Clean) /\ SF_vars(CleanStates) /\ WF_vars(Expire)

-------------------------------------------------------------------------------
(* Properties.                                                               *)

TypeOK ==
  /\ latest \in 0 .. MaxBlock /\ blocksInDay \in Days
  /\ DOMAIN filters \subseteq Upkeeps
  /\ \A u \in DOMAIN filters : filters[u] \in [lastRePoll : 0 .. MaxBlock, since : 0 .. MaxBlock]
  /\ known \subseteq Logs /\ pending \subseteq Logs /\ proposals \subseteq Logs
  /\ DOMAIN visited \subseteq Logs
  /\ DOMAIN jobs \subseteq Upkeeps /\ \A u \in DOMAIN jobs : jobs[u].end \in 0 .. WindowEnd

(* A registered upkeep's log the recoverer will not read again, because it   *)
(* is not above lastRePollBlock.                                             *)
Repolled(l) ==
  /\ l.upkeep \in DOMAIN filters
  /\ filters[l.upkeep].since <= l.block
  /\ l.block <= filters[l.upkeep].lastRePoll

(* A log that will not be read again and that never left the window has a    *)
(* final state or is in the cache, though lists fill up, reads fail, filters *)
(* change under a running job and its result goes to the stored filter       *)
(* whatever that is by then.  (A window that grows again because the         *)
(* estimate of the block time fell does not bring back what had left it.)    *)
RepolledLogsAreTracked ==
  \A l \in Logs : Repolled(l) /\ l.block >= oldest => l \in known \cup DOMAIN visited

(* Two threads add to the pending list, an upkeep keeps to its share.        *)
PendingBounded ==
  \A u \in Upkeeps : Cardinality({l \in pending : l.upkeep = u}) <= MAX_PENDING

Unfinished(l) == l.block \in WindowStart .. WindowEnd /\ l \notin known
Crowded(u) == Cardinality({l \in Logs : l.upkeep = u /\ Unfinished(l)}) > MAX_PENDING

(* A missed log is proposed again and again until it has a final state or    *)
(* leaves the window, unless its upkeep has more unfinished logs than the    *)
(* pending list has room for.                                                *)
Missed(l) ==
  /\ l.upkeep \in DOMAIN filters /\ filters[l.upkeep].since <= l.block
  /\ Unfinished(l) /\ l.block >= oldest
MissedLogsAreProposed ==
  \A l \in Logs : []<>(~Missed(l) \/ l \in proposals \/ Crowded(l.upkeep))
===============================================================================
