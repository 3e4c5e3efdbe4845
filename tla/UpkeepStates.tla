------------------------------ MODULE UpkeepStates ------------------------------
(*****************************************************************************)
(* The store of the final states of work items (upkeepstate/store.go, orm.go *)
(* and scanner.go of the Chainlink node).  Ineligible work is reported to a  *)
(* cache and written to the database in the background; performed work is    *)
(* found in the logs of the chain.  The node may be closed and may crash.    *)
(*****************************************************************************)
EXTENDS Integers, FiniteSets

CONSTANTS
  Works,       \* work ids
  Callers,     \* threads that ask for states
  Slots,       \* u.sem: inserts that may run at once (10)
  BATCH_SIZE,  \* batchSize: records of one insert (1000)
  RETENTION,   \* CacheExpiration (24 h)
  MaxNow,      \* bound: time
  DBFails,     \* whether the database may fail while the node runs
  MaxStops     \* bound: times the node is closed or crashes

ASSUME StoreAssumption ==
  /\ {RETENTION, MaxNow, MaxStops} \subseteq Nat
  /\ BATCH_SIZE \in Nat \ {0}
  /\ DBFails \in BOOLEAN

VARIABLES
  now,       \* time
  performed, \* work ids with a DedupKeyAdded log deep enough in the chain
  stops,     \* times the node was stopped so far
  closing,   \* Close was called: the context of the store's thread is cancelled
  cache,     \* work id |-> [state, addedAt]
  pending,   \* pendingRecords
  thread,    \* the thread of Start: [pc, rest]
  inserts,   \* inserts[s]: the goroutine of an insert, or NoInsert
  db,        \* evm.upkeep_states: work id |-> inserted_at
  callers,   \* callers[c]: the SelectByWorkIDs in progress
  lost,      \* history: records whose insert failed or that a stop discarded
  written    \* history: records whose insert succeeded

storage == <<cache, pending, db>>
vars == <<now, performed, stops, closing, storage, thread, inserts, callers, lost, written>>

Record == [work : Works, addedAt : 0 .. MaxNow]
NoInsert == [batch |-> {}, cancelled |-> FALSE]
Idle == [pc |-> "idle"]
Unknown == "unknown"

Init ==
  /\ now = 0 /\ performed = {} /\ stops = 0 /\ closing = FALSE
  /\ cache = << >> /\ pending = {} /\ db = << >>
  /\ thread = [pc |-> "loop", rest |-> {}]
  /\ inserts = [s \in Slots |-> NoInsert]
  /\ callers = [c \in Callers |-> Idle]
  /\ lost = {} /\ written = {}

(* Entries are added for keys the function does not have.                    *)
AddMissing(f, g) == [w \in DOMAIN f \cup DOMAIN g |-> IF w \in DOMAIN f THEN f[w] ELSE g[w]]

(* What is older than the retention.                                         *)
Expired(t) == now - t > RETENTION

-------------------------------------------------------------------------------
(* The world.                                                                *)

(* Records on their way to the database.                                     *)
OnTheWay == pending \cup thread.rest \cup UNION {inserts[s].batch : s \in Slots}

(* The unit is hours: calls and inserts end within one, and records are      *)
(* flushed every 30 seconds.                                                 *)
Tick ==
  /\ now < MaxNow
  /\ OnTheWay = {}
  /\ \A c \in Callers : callers[c].pc \in {"idle", "done"}
  /\ now' = now + 1
  /\ UNCHANGED <<performed, stops, closing, storage, thread, inserts, callers, lost, written>>

Perform(w) ==
  /\ performed' = performed \cup {w}
  /\ UNCHANGED <<now, stops, closing, storage, thread, inserts, callers, lost, written>>

-------------------------------------------------------------------------------
(* SetUpkeepState with an ineligible result (an eligible one is ignored).    *)

(* upsertStateRecord: a record that is in the cache keeps its addedAt.       *)
SetUpkeepState(w) ==
  LET at == IF w \in DOMAIN cache THEN cache[w].addedAt ELSE now
  IN /\ thread.pc # "stopped"
     /\ cache' = [v \in DOMAIN cache \cup {w} |->
                    IF v = w THEN [state |-> "ineligible", addedAt |-> at] ELSE cache[v]]
     /\ pending' = pending \cup {[work |-> w, addedAt |-> at]}
     /\ UNCHANGED <<now, performed, stops, closing, db, thread, inserts, callers, lost, written>>

-------------------------------------------------------------------------------
(* The thread: a ticker for flushes, one for cleanups, and the context.      *)

(* flush takes the pending records ...                                       *)
StartFlush(last) ==
  /\ thread.pc = "loop"
  /\ last => closing
  /\ thread' = [pc |-> IF last THEN "last flush" ELSE "flush", rest |-> pending]
  /\ pending' = {}
  /\ UNCHANGED <<now, performed, stops, closing, cache, db, inserts, callers, lost, written>>

(* ... and starts an insert for every batch, when u.sem has room.            *)
StartInsert(s) ==
  /\ thread.pc \in {"flush", "last flush"}
  /\ inserts[s] = NoInsert
  /\ \E batch \in SUBSET thread.rest :
       /\ batch # {}
       /\ Cardinality(batch) = BATCH_SIZE \/ (batch = thread.rest /\ Cardinality(batch) <= BATCH_SIZE)
       /\ inserts' = [inserts EXCEPT ![s] = [batch |-> batch, cancelled |-> closing]]
       /\ thread' = [thread EXCEPT !.rest = @ \ batch]
  /\ UNCHANGED <<now, performed, stops, closing, storage, callers, lost, written>>

(* Slips: the flush ends before all inserts began; the pending records are   *)
(* cleared when it ends.                                                     *)
EndFlushEarly ==
  /\ thread.pc \in {"flush", "last flush"}
  /\ thread' = [thread EXCEPT !.pc = IF @ = "flush" THEN "loop" ELSE "stopped"]
  /\ UNCHANGED <<now, performed, stops, closing, storage, inserts, callers, lost, written>>

EndFlushClears ==
  /\ thread.pc \in {"flush", "last flush"}
  /\ thread.rest = {}
  /\ thread' = [thread EXCEPT !.pc = IF @ = "flush" THEN "loop" ELSE "stopped"]
  /\ pending' = {}
  /\ UNCHANGED <<now, performed, stops, closing, cache, db, inserts, callers, lost, written>>

EndFlush ==
  /\ thread.pc \in {"flush", "last flush"}
  /\ thread.rest = {}
  /\ thread' = [thread EXCEPT !.pc = IF @ = "flush" THEN "loop" ELSE "stopped"]
  /\ UNCHANGED <<now, performed, stops, closing, storage, inserts, callers, lost, written>>

(* BatchInsertRecords: ON CONFLICT DO NOTHING.                               *)
InsertSucceeds(s) ==
  /\ inserts[s] # NoInsert /\ ~inserts[s].cancelled
  /\ LET batch == inserts[s].batch
     IN \E first \in [{r.work : r \in batch} -> batch] :
          /\ \A w \in DOMAIN first : first[w].work = w
          /\ db' = AddMissing(db, [w \in DOMAIN first |-> first[w].addedAt])
  /\ inserts' = [inserts EXCEPT ![s] = NoInsert]
  /\ written' = written \cup inserts[s].batch
  /\ UNCHANGED <<now, performed, stops, closing, cache, pending, thread, callers, lost>>

(* The error is logged, the records are gone.                                *)
InsertFails(s) ==
  /\ inserts[s] # NoInsert
  /\ DBFails \/ closing
  /\ lost' = lost \cup inserts[s].batch
  /\ inserts' = [inserts EXCEPT ![s] = NoInsert]
  /\ UNCHANGED <<now, performed, stops, closing, storage, thread, callers, written>>

(* Slip: the comparison the wrong way round.                                 *)
CleanCacheYoung ==
  /\ thread.pc = "loop"
  /\ cache' = [w \in {v \in DOMAIN cache : Expired(cache[v].addedAt)} |-> cache[w]]
  /\ thread' = [thread EXCEPT !.pc = "clean"]
  /\ UNCHANGED <<now, performed, stops, closing, pending, db, inserts, callers, lost, written>>

(* cleanup: cleanCache ...                                                   *)
CleanCache ==
  /\ thread.pc = "loop"
  /\ cache' = [w \in {v \in DOMAIN cache : ~Expired(cache[v].addedAt)} |-> cache[w]]
  /\ thread' = [thread EXCEPT !.pc = "clean"]
  /\ UNCHANGED <<now, performed, stops, closing, pending, db, inserts, callers, lost, written>>

(* ... and cleanDB, which may fail; DeleteExpired compares with <=.          *)
CleanDB(fails) ==
  /\ thread.pc = "clean"
  /\ IF closing THEN fails ELSE fails => DBFails
  /\ db' = IF fails THEN db
           ELSE [w \in {v \in DOMAIN db : now - db[v] < RETENTION} |-> db[w]]
  /\ thread' = [thread EXCEPT !.pc = "loop"]
  /\ UNCHANGED <<now, performed, stops, closing, cache, pending, inserts, callers, lost, written>>

-------------------------------------------------------------------------------
(* Stops.                                                                    *)

(* Close cancels the context of the thread and waits for it, not for the     *)
(* inserts.                                                                  *)
Close ==
  /\ ~closing /\ stops < MaxStops
  /\ closing' = TRUE
  /\ UNCHANGED <<now, performed, stops, storage, thread, inserts, callers, lost, written>>

(* The process ends, by itself or after Close, and starts again.             *)
Restart ==
  /\ stops < MaxStops
  /\ stops' = stops + 1
  /\ closing' = FALSE
  /\ lost' = lost \cup pending \cup thread.rest \cup UNION {inserts[s].batch : s \in Slots}
  /\ cache' = << >> /\ pending' = {}
  /\ thread' = [pc |-> "loop", rest |-> {}]
  /\ inserts' = [s \in Slots |-> NoInsert]
  /\ callers' = [c \in Callers |-> Idle]
  /\ UNCHANGED <<now, performed, db, written>>

-------------------------------------------------------------------------------
(* SelectByWorkIDs.  A caller holds what its last read found and, for the    *)
(* properties, what was reported and performed when it began.                  *)

(* A reported state that is not old (the database deletes it one moment      *)
(* earlier than the cache).                                                  *)
Reported(w) ==
  IF w \in DOMAIN cache THEN ~Expired(cache[w].addedAt)
  ELSE w \in DOMAIN db /\ now - db[w] < RETENTION

StateOf(w) == IF w \in DOMAIN cache THEN cache[w].state ELSE Unknown

Answer(answer, known, done) ==
  [pc |-> "done", answer |-> answer, reported |-> known, performed |-> done]

(* selectFromCache: when everything is found, it is the answer.              *)
SelectBegins(c, works) ==
  /\ callers[c].pc \in {"idle", "done"}
  /\ LET missing == works \ DOMAIN cache
         answer  == [w \in works |-> StateOf(w)]
         known   == {w \in works : Reported(w)}
     IN callers' = [callers EXCEPT ![c] =
          IF missing = {} THEN Answer(answer, known, works \cap performed)
          ELSE [pc |-> "scan", works |-> works, missing |-> missing, found |-> {},
                reported |-> known, performed |-> works \cap performed]]
  /\ UNCHANGED <<now, performed, stops, closing, storage, thread, inserts, lost, written>>

(* ScanWorkIDs reads the logs of the chain ...                               *)
ScanWorkIDs(c) ==
  /\ callers[c].pc = "scan"
  /\ callers' = [callers EXCEPT ![c].pc = "performed",
                                ![c].found = callers[c].missing \cap performed]
  /\ UNCHANGED <<now, performed, stops, closing, storage, thread, inserts, lost, written>>

(* ... for fetchPerformed, which fills the cache where it has nothing.       *)
CachePerformed(c) ==
  /\ callers[c].pc = "performed"
  /\ cache' = AddMissing(cache, [w \in callers[c].found |-> [state |-> "performed", addedAt |-> now]])
  /\ callers' = [callers EXCEPT ![c].pc = "query"]
  /\ UNCHANGED <<now, performed, stops, closing, pending, db, thread, inserts, lost, written>>

(* SelectStatesByWorkIDs reads the database ...                              *)
SelectStates(c) ==
  /\ callers[c].pc = "query"
  /\ callers' = [callers EXCEPT ![c].pc = "stored",
                                ![c].found = {[work |-> w, addedAt |-> db[w]] :
                                                w \in callers[c].missing \cap DOMAIN db}]
  /\ UNCHANGED <<now, performed, stops, closing, storage, thread, inserts, lost, written>>

(* ... for fetchFromDB.                                                      *)
CacheStored(c) ==
  /\ callers[c].pc = "stored"
  /\ LET at(w) == (CHOOSE r \in callers[c].found : r.work = w).addedAt
     IN cache' = AddMissing(cache, [w \in {r.work : r \in callers[c].found} |->
                                      [state |-> "ineligible", addedAt |-> at(w)]])
  /\ callers' = [callers EXCEPT ![c].pc = "select"]
  /\ UNCHANGED <<now, performed, stops, closing, pending, db, thread, inserts, lost, written>>

(* A failed read ends the call with an error.                                *)
SelectFails(c) ==
  /\ callers[c].pc \in {"scan", "query"}
  /\ callers' = [callers EXCEPT ![c] = Idle]
  /\ UNCHANGED <<now, performed, stops, closing, storage, thread, inserts, lost, written>>

(* The answer comes from the cache, for all the work ids.                    *)
SelectEnds(c) ==
  /\ callers[c].pc = "select"
  /\ LET me == callers[c]
     IN callers' = [callers EXCEPT ![c] =
          Answer([w \in me.works |-> StateOf(w)], me.reported, me.performed)]
  /\ UNCHANGED <<now, performed, stops, closing, storage, thread, inserts, lost, written>>

SelectStep(c) ==
  ScanWorkIDs(c) \/ CachePerformed(c) \/ SelectStates(c) \/ CacheStored(c) \/ SelectEnds(c)

ThreadStep ==
  \/ \E last \in BOOLEAN : StartFlush(last)
  \/ \E s \in Slots : StartInsert(s)
  \/ EndFlush
  \/ CleanCache
  \/ \E fails \in BOOLEAN : CleanDB(fails)

Next ==
  \/ Tick
  \/ \E w \in Works : Perform(w) \/ SetUpkeepState(w)
  \/ ThreadStep
  \/ \E s \in Slots : InsertSucceeds(s) \/ InsertFails(s)
  \/ Close
  \/ Restart
  \/ \E c \in Callers : \/ \E works \in SUBSET Works \ {{}} : SelectBegins(c, works)
                        \/ SelectStep(c) \/ SelectFails(c)

Spec == Init /\ [][Next]_vars

(* Both tickers of the thread's select fire again and again, what the thread *)
(* began goes on, and the database answers every insert.                     *)
FairSpec ==
  /\ Spec
  /\ SF_vars(StartFlush(FALSE))
  /\ WF_vars(\E s \in Slots : StartInsert(s))
  /\ WF_vars(EndFlush)
  /\ WF_vars(\E fails \in BOOLEAN : CleanDB(fails))
  /\ \A s \in Slots : WF_vars(InsertSucceeds(s) \/ InsertFails(s))

-------------------------------------------------------------------------------
(* Properties.                                                               *)

CacheOK ==
  /\ DOMAIN cache \subseteq Works
  /\ \A w \in DOMAIN cache :
       cache[w] \in [state : {"ineligible", "performed"}, addedAt : 0 .. MaxNow]
RowsOK == DOMAIN db \subseteq Works /\ \A w \in DOMAIN db : db[w] \in 0 .. MaxNow
ThreadOK ==
  /\ thread \in [pc : {"loop", "flush", "last flush", "clean", "stopped"}, rest : SUBSET Record]
  /\ thread.pc \in {"flush", "last flush"} \/ thread.rest = {}
TypeOK ==
  /\ now \in 0 .. MaxNow /\ stops \in 0 .. MaxStops
  /\ performed \subseteq Works /\ closing \in BOOLEAN
  /\ CacheOK /\ RowsOK /\ ThreadOK
  /\ pending \subseteq Record /\ lost \subseteq Record /\ written \subseteq Record
  /\ inserts \in [Slots -> [batch : SUBSET Record, cancelled : BOOLEAN]]

(* Reports come in while the thread flushes and inserts run: every           *)
(* ineligible state of the cache is in the database, on its way there, or a  *)
(* failure or a stop took it.  flush swaps pendingRecords under the lock for *)
(* that.                                                                     *)
RecordsAreTracked ==
  \A w \in DOMAIN cache :
    cache[w].state = "ineligible" =>
      [work |-> w, addedAt |-> cache[w].addedAt] \in OnTheWay \cup written \cup lost

(* A call that began when a work's state was in the cache or the database    *)
(* and not older than the retention does not answer "unknown", however the   *)
(* cleanup, the flush, reports, inserts and other calls mix with its steps.  *)
AnswersAreKnown ==
  \A c \in Callers : callers[c].pc = "done" =>
    \A w \in callers[c].reported : callers[c].answer[w] # Unknown

(* A pending record reaches the database or fails to, while the node runs.   *)
PendingIsWritten ==
  \A r \in Record : r \in pending ~> (r \in written \cup lost \/ closing)

-------------------------------------------------------------------------------
(* A statement of a comment that the code does not keep.                     *)

(* store.go on SelectByWorkIDs: "We first check the cache, and if any ids    *)
(* are missing, we fetch them from the scanner and DB".  The answer is read  *)
(* from the cache again, which may have lost what it had.                    *)
PerformedIsKnown ==
  \A c \in Callers : callers[c].pc = "done" =>
    \A w \in callers[c].performed : callers[c].answer[w] # Unknown
===============================================================================
