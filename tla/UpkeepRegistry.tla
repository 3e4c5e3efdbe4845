----------------------------- MODULE UpkeepRegistry -----------------------------
(*****************************************************************************)
(* How the automation node follows the upkeeps of the registry contract      *)
(* (registry.go, active_list.go and logprovider/provider_life_cycle.go of    *)
(* the Chainlink node).  One thread polls the contract's logs, a second one  *)
(* processes them, a third one reads the contract's list every 15 minutes.   *)
(* Together they keep the list of active upkeeps and the filters for logs.   *)
(*                                                                           *)
(* All upkeeps are triggered by logs.  Every block holds the event of one    *)
(* call.  The chain does not reorganise here, and the log poller's own       *)
(* filters, which it keeps by name, are not in the model.                    *)
(*****************************************************************************)
EXTENDS Integers, Sequences, FiniteSets, FiniteSetsExt, SequencesExt

CONSTANTS
  Upkeeps,
  LOOKBACK,    \* logEventLookback (250)
  MaxBlock,    \* bound: blocks
  MaxFailures  \* bound: calls that fail

(* Upkeeps are there and the bounds are numbers.                             *)
ASSUME RegistryAssumption == Upkeeps # {} /\ {LOOKBACK, MaxBlock, MaxFailures} \subseteq Nat

VARIABLES
  chain,      \* the event of every block: [kind, upkeep]
  head,       \* bs.latestBlock: the block that calls of the contract refer to
  final,      \* blocks with enough confirmations
  failures,   \* calls that failed so far
  active,     \* activeList
  filters,    \* filterStore: upkeep |-> [config, block], where a trigger config
              \* is the block it was set in and block is configUpdateBlock
  lastPoll,   \* lastPollBlock
  queue,      \* chLog
  processed,  \* logProcessed
  worker,     \* the log in processing
  refresher   \* the refreshActiveUpkeeps in progress

world == <<chain, head, final>>
vars == <<world, failures, active, filters, lastPoll, queue, processed, worker, refresher>>

Idle == [pc |-> "idle"]
Latest == Len(chain)

-------------------------------------------------------------------------------
(* The contract.                                                             *)

BlocksOf(kinds, u, h) == {n \in 1 .. h : chain[n].kind \in kinds /\ chain[n].upkeep = u}
LastOf(kinds, u, h) == Max({0} \cup BlocksOf(kinds, u, h))

(* Registration sets the first trigger config; 0 is none.                    *)
ConfigAt(u, h) == LastOf({"registered", "config"}, u, h)

StatusAt(u, h) ==
  LET n == LastOf({"registered", "paused", "unpaused"}, u, h)
  IN IF n = 0 THEN "none" ELSE IF chain[n].kind = "paused" THEN "paused" ELSE "active"

(* GetActiveUpkeepIDs.                                                       *)
ActiveAt(h) == {u \in Upkeeps : StatusAt(u, h) = "active"}

LogsOf(n) ==
  LET kinds == IF chain[n].kind = "registered" THEN {"registered", "config"}
               ELSE {chain[n].kind}
  IN {[kind |-> kind, upkeep |-> chain[n].upkeep, block |-> n] : kind \in kinds}

(* By block, and the first trigger config after the registration.            *)
InOrder(logs) ==
  \A i, j \in DOMAIN logs : i < j =>
    /\ logs[i].block <= logs[j].block
    /\ logs[i].block = logs[j].block => logs[j].kind = "config"

(* A node that starts beside a contract with one upkeep.                     *)
Init ==
  /\ chain = <<[kind |-> "registered", upkeep |-> CHOOSE u \in Upkeeps : TRUE]>>
  /\ head = 1 /\ final = 1 /\ failures = 0
  /\ active = {} /\ filters = << >>
  /\ lastPoll = 0 /\ queue = << >> /\ processed = {}
  /\ worker = Idle /\ refresher = Idle

(* Received is handled as unpaused is, canceled and migrated as paused.      *)
Event(kind, u) ==
  /\ Latest < MaxBlock
  /\ CASE kind = "registered" -> StatusAt(u, Latest) = "none"
       [] kind = "config"     -> StatusAt(u, Latest) # "none"
       [] kind = "paused"     -> StatusAt(u, Latest) = "active"
       [] kind = "unpaused"   -> StatusAt(u, Latest) = "paused"
  /\ chain' = Append(chain, [kind |-> kind, upkeep |-> u])
  /\ UNCHANGED <<head, final, failures, active, filters, lastPoll, queue, processed, worker,
                 refresher>>

NewHead ==
  /\ head < Latest
  /\ head' \in head + 1 .. Latest
  /\ UNCHANGED <<chain, final, failures, active, filters, lastPoll, queue, processed, worker,
                 refresher>>

Finalise ==
  /\ final < Latest
  /\ final' = final + 1
  /\ UNCHANGED <<chain, head, failures, active, filters, lastPoll, queue, processed, worker,
                 refresher>>

Fails == failures < MaxFailures /\ failures' = failures + 1

-------------------------------------------------------------------------------
(* RegisterFilter and UnregisterFilter of the provider.                      *)

(* The filters afterwards; one of a higher block is an error and one of the  *)
(* same block is taken for the same config.                                  *)
Registered(u, config, block) ==
  IF u \in DOMAIN filters /\ filters[u].block >= block THEN filters
  ELSE [v \in DOMAIN filters \cup {u} |->
          IF v = u THEN [config |-> config, block |-> block] ELSE filters[v]]

Unregistered(u) == [v \in DOMAIN filters \ {u} |-> filters[v]]

-------------------------------------------------------------------------------
(* The polling thread.                                                       *)

PolledLogs == UNION {LogsOf(n) : n \in {i \in 1 .. Latest : i >= Latest - LOOKBACK}}

(* Slip: a log that was processed is processed again.                        *)
PollAnew(fails) ==
  /\ lastPoll # Latest
  /\ fails => lastPoll # 0
  /\ lastPoll' = Latest
  /\ IF fails \/ lastPoll = 0 THEN UNCHANGED queue
     ELSE \E new \in SetToSeqs(PolledLogs \ ToSet(queue)) :
            InOrder(new) /\ queue' = queue \o new
  /\ IF fails THEN Fails ELSE UNCHANGED failures
  /\ UNCHANGED <<world, active, filters, processed, worker, refresher>>

(* pollUpkeepStateLogs; the first poll only notes the block.  A log that is  *)
(* queued or was processed is passed over when its turn comes, so it is not  *)
(* queued again here.  The read may fail when the block is noted already.    *)
Poll(fails) ==
  /\ lastPoll # Latest
  /\ fails => lastPoll # 0
  /\ lastPoll' = Latest
  /\ IF fails \/ lastPoll = 0 THEN UNCHANGED queue
     ELSE \E new \in SetToSeqs(PolledLogs \ (processed \cup ToSet(queue))) :
            InOrder(new) /\ queue' = queue \o new
  /\ IF fails THEN Fails ELSE UNCHANGED failures
  /\ UNCHANGED <<world, active, filters, processed, worker, refresher>>

-------------------------------------------------------------------------------
(* The processing thread.                                                    *)

(* processUpkeepStateLog up to the call of the provider or the contract.     *)
ProcessLog ==
  /\ worker = Idle /\ queue # << >>
  /\ LET log == Head(queue)
     IN /\ processed' = processed \cup {log}
        /\ active' = CASE log.kind = "paused" -> active \ {log.upkeep}
                       [] log.kind = "config" -> active
                       [] OTHER -> active \cup {log.upkeep}
        /\ worker' = CASE log.kind = "paused" -> [pc |-> "unregister", upkeep |-> log.upkeep]
                       [] log.kind = "config" -> [pc |-> "register", upkeep |-> log.upkeep,
                                                  config |-> log.block, block |-> log.block]
                       [] OTHER -> [pc |-> "fetch", upkeep |-> log.upkeep, block |-> log.block]
  /\ queue' = Tail(queue)
  /\ UNCHANGED <<world, failures, filters, lastPoll, refresher>>

(* fetchTriggerConfig; an upkeep unknown at head has a config that cannot be *)
(* unpacked and is ignored.                                                  *)
WorkerFetches ==
  /\ worker.pc = "fetch"
  /\ LET config == ConfigAt(worker.upkeep, head)
     IN worker' = IF config = 0 THEN Idle
                  ELSE [pc |-> "register", upkeep |-> worker.upkeep,
                        config |-> config, block |-> worker.block]
  /\ UNCHANGED <<world, failures, active, filters, lastPoll, queue, processed, refresher>>

WorkerRegisters ==
  /\ worker.pc = "register"
  /\ filters' = Registered(worker.upkeep, worker.config, worker.block)
  /\ worker' = Idle
  /\ UNCHANGED <<world, failures, active, lastPoll, queue, processed, refresher>>

WorkerUnregisters ==
  /\ worker.pc = "unregister"
  /\ filters' = Unregistered(worker.upkeep)
  /\ worker' = Idle
  /\ UNCHANGED <<world, failures, active, lastPoll, queue, processed, refresher>>

(* The error is logged; the log counts as processed.                         *)
WorkerFails ==
  /\ worker # Idle
  /\ Fails
  /\ worker' = Idle
  /\ UNCHANGED <<world, active, filters, lastPoll, queue, processed, refresher>>

-------------------------------------------------------------------------------
(* The refreshing thread.                                                    *)

(* getLatestIDsFromContract, all pages at the same block ...                 *)
ReadIds ==
  /\ refresher = Idle
  /\ refresher' = [pc |-> "reset", ids |-> ActiveAt(head)]
  /\ UNCHANGED <<world, failures, active, filters, lastPoll, queue, processed, worker>>

(* Slip: only what is missing is added.                                      *)
ResetActiveByAdding ==
  /\ refresher.pc = "reset"
  /\ active' = active \cup refresher.ids
  /\ refresher' = IF refresher.ids = {} THEN Idle ELSE [pc |-> "inactive", ids |-> refresher.ids]
  /\ UNCHANGED <<world, failures, filters, lastPoll, queue, processed, worker>>

(* ... for the active list.  Without upkeeps the rest does nothing.          *)
ResetActive ==
  /\ refresher.pc = "reset"
  /\ active' = refresher.ids
  /\ refresher' = IF refresher.ids = {} THEN Idle ELSE [pc |-> "inactive", ids |-> refresher.ids]
  /\ UNCHANGED <<world, failures, filters, lastPoll, queue, processed, worker>>

(* An error ends the refresh once every filter was tried.                    *)
Pruning(ids, gone, failed) ==
  IF gone # {} THEN [pc |-> "prune", ids |-> ids, gone |-> gone, failed |-> failed]
  ELSE IF failed THEN Idle
  ELSE [pc |-> "unpaused", ids |-> ids]

(* RefreshActiveUpkeeps: collect the filters of other upkeeps ...            *)
FindInactive ==
  /\ refresher.pc = "inactive"
  /\ refresher' = Pruning(refresher.ids, DOMAIN filters \ refresher.ids, FALSE)
  /\ UNCHANGED <<world, failures, active, filters, lastPoll, queue, processed, worker>>

(* Slip: the upkeep leaves the list of what to remove only.                  *)
PruneNothing(u, fails) ==
  /\ refresher.pc = "prune" /\ u \in refresher.gone
  /\ refresher' = Pruning(refresher.ids, refresher.gone \ {u}, FALSE)
  /\ UNCHANGED <<world, failures, active, filters, lastPoll, queue, processed, worker>>

(* ... and remove them one by one.                                           *)
Prune(u, fails) ==
  /\ refresher.pc = "prune" /\ u \in refresher.gone
  /\ filters' = IF fails THEN filters ELSE Unregistered(u)
  /\ refresher' = Pruning(refresher.ids, refresher.gone \ {u}, refresher.failed \/ fails)
  /\ IF fails THEN Fails ELSE UNCHANGED failures
  /\ UNCHANGED <<world, active, lastPoll, queue, processed, worker>>

(* refreshLogTriggerUpkeepsBatch reads the logs with enough confirmations.   *)
ReadUnpaused ==
  /\ refresher.pc = "unpaused"
  /\ refresher' = [pc |-> "configs", ids |-> refresher.ids,
                   unpaused |-> [u \in refresher.ids |-> LastOf({"unpaused"}, u, final)]]
  /\ UNCHANGED <<world, failures, active, filters, lastPoll, queue, processed, worker>>

(* An upkeep unpaused after its config was set counts from the later block.  *)
ReadConfigs ==
  /\ refresher.pc = "configs"
  /\ LET config == [u \in refresher.ids |-> ConfigAt(u, final)]
     IN refresher' = [pc |-> "register", ids |-> refresher.ids, config |-> config,
                      block |-> [u \in refresher.ids |-> Max({config[u], refresher.unpaused[u]})]]
  /\ UNCHANGED <<world, failures, active, filters, lastPoll, queue, processed, worker>>

(* Slip: the config counts as that of the poller's latest block.             *)
RefresherFetchesAsLatest(u) ==
  /\ refresher.pc = "register" /\ u \in refresher.ids /\ refresher.config[u] = 0
  /\ refresher' = [refresher EXCEPT !.config[u] = ConfigAt(u, head), !.block[u] = Latest]
  /\ UNCHANGED <<world, failures, active, filters, lastPoll, queue, processed, worker>>

(* updateTriggerConfig for every upkeep: a config without a log is fetched.  *)
RefresherFetches(u) ==
  /\ refresher.pc = "register" /\ u \in refresher.ids /\ refresher.config[u] = 0
  /\ refresher' = [refresher EXCEPT !.config[u] = ConfigAt(u, head)]
  /\ UNCHANGED <<world, failures, active, filters, lastPoll, queue, processed, worker>>

DoneWith(u) ==
  IF refresher.ids = {u} THEN Idle ELSE [refresher EXCEPT !.ids = @ \ {u}]

RefresherRegisters(u) ==
  /\ refresher.pc = "register" /\ u \in refresher.ids /\ refresher.config[u] # 0
  /\ filters' = Registered(u, refresher.config[u], refresher.block[u])
  /\ refresher' = DoneWith(u)
  /\ UNCHANGED <<world, failures, active, lastPoll, queue, processed, worker>>

(* A read fails, or the registration of one upkeep.                          *)
ReadFails ==
  /\ refresher.pc \in {"unpaused", "configs"}
  /\ Fails
  /\ refresher' = Idle
  /\ UNCHANGED <<world, active, filters, lastPoll, queue, processed, worker>>

RefresherFails(u) ==
  /\ refresher.pc = "register" /\ u \in refresher.ids
  /\ Fails
  /\ refresher' = DoneWith(u)
  /\ UNCHANGED <<world, active, filters, lastPoll, queue, processed, worker>>

WorkerStep == ProcessLog \/ WorkerFetches \/ WorkerRegisters \/ WorkerUnregisters
RefresherStep ==
  \/ ReadIds \/ ResetActive \/ FindInactive \/ ReadUnpaused \/ ReadConfigs
  \/ \E u \in Upkeeps : Prune(u, FALSE) \/ RefresherFetches(u) \/ RefresherRegisters(u)

Next ==
  \/ \E kind \in {"registered", "config", "paused", "unpaused"}, u \in Upkeeps : Event(kind, u)
  \/ NewHead \/ Finalise
  \/ \E fails \in BOOLEAN : Poll(fails)
  \/ WorkerStep \/ WorkerFails
  \/ RefresherStep \/ ReadFails
  \/ \E u \in Upkeeps : Prune(u, TRUE) \/ RefresherFails(u)

Spec == Init /\ [][Next]_vars

(* Blocks arrive and become final, the threads go on.  Nothing is assumed of *)
(* the polling thread.                                                       *)
FairSpec ==
  /\ Spec
  /\ WF_vars(NewHead) /\ WF_vars(Finalise)
  /\ WF_vars(WorkerStep) /\ WF_vars(RefresherStep)

-------------------------------------------------------------------------------
(* Properties.                                                               *)

TypeOK ==
  /\ {head, final, lastPoll} \subseteq 0 .. Latest
  /\ active \subseteq Upkeeps /\ DOMAIN filters \subseteq Upkeeps
  /\ \A u \in DOMAIN filters : filters[u].config \in 1 .. Latest /\ filters[u].block \in 0 .. Latest
  /\ ToSet(queue) \cap processed = {}
  /\ \A l \in ToSet(queue) \cup processed : l.block \in 1 .. Latest

(* A filter with a config the upkeep no longer has counts from a block       *)
(* before that of the present config, whose log therefore replaces it        *)
(* whenever it is processed or read again (RegisterFilter), however late,    *)
(* out of order or at whatever head the old config was fetched.  The only    *)
(* way to count from a later block is that of an unpause.                    *)
StaleConfigIsReplaceable ==
  \A u \in DOMAIN filters :
    filters[u].config # ConfigAt(u, Latest)
      => \/ filters[u].block < ConfigAt(u, Latest)
         \/ filters[u].block \in BlocksOf({"unpaused"}, u, Latest)

(* When the contract rests, the active list becomes what the contract says,  *)
(* though logs of the past are processed while a refresh with an older or a  *)
(* newer list is under way, and logs are missed or given up.                 *)
ActiveIsFollowed == <>[](active = ActiveAt(Latest))

(* The same of the filters, unless no upkeep is active (RefreshActiveUpkeeps *)
(* returns at once for an empty list, and a filter whose removal failed then *)
(* stays).                                                                   *)
FiltersFollow == <>[](ActiveAt(Latest) # {} => DOMAIN filters = ActiveAt(Latest))

(* And every filter has the upkeep's present config, unless the upkeep was   *)
(* unpaused after that was set: the config may then have been read at an     *)
(* older head, and is never replaced by the right one, which has a lower     *)
(* block.                                                                    *)
ConfigsSettle ==
  <>[](\A u \in DOMAIN filters \cap ActiveAt(Latest) :
         LastOf({"unpaused"}, u, Latest) < ConfigAt(u, Latest)
           => filters[u].config = ConfigAt(u, Latest))
===============================================================================
