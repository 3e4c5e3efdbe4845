--------------------------- MODULE UpkeepStatesProofs ---------------------------
(*****************************************************************************)
(* Theorems about UpkeepStates, for any work ids, callers, slots, batch      *)
(* size, retention and number of stops.                                      *)
(*****************************************************************************)
EXTENDS UpkeepStates, TLAPS

-------------------------------------------------------------------------------
(* The inductive invariant.                                                  *)

(* A call that is neither idle nor done.                                     *)
Asking == [pc        : {"scan", "performed", "query", "stored", "select"},
           works     : SUBSET Works,
           missing   : SUBSET Works,
           found     : (SUBSET Works) \cup (SUBSET Record),
           reported  : SUBSET Works,
           performed : SUBSET Works]

(* What a call holds between its steps: after the scan work ids, after the   *)
(* query records that were inserted once.                                    *)
CallersOK ==
  /\ DOMAIN callers = Callers
  /\ \A c \in Callers : \/ callers[c] = Idle
                        \/ callers[c].pc = "done"
                        \/ callers[c] \in Asking
  /\ \A c \in Callers : /\ callers[c].pc = "performed" => callers[c].found \subseteq Works
                        /\ callers[c].pc = "stored" => callers[c].found \subseteq written

RowsAreWritten == \A w \in DOMAIN db : [work |-> w, addedAt |-> db[w]] \in written

Fresh(t) == now - t < RETENTION
InCache(w) == w \in DOMAIN cache /\ ~Expired(cache[w].addedAt)
InDB(w) == w \in DOMAIN db /\ Fresh(db[w])

(* A report on its way to the database is still in the cache, unless it was  *)
(* old when it was made.                                                     *)
ReportsAreCached == \A r \in OnTheWay : ~Expired(r.addedAt) => InCache(r.work)

(* A fresh record a call has read is still in the database; if the one it    *)
(* has read is too old and the database has a fresh one by now, the cache    *)
(* has it too.                                                               *)
FoundIsCurrent ==
  \A c \in Callers : callers[c].pc = "stored" =>
    \A r \in callers[c].found :
      /\ Fresh(r.addedAt) => r.work \in DOMAIN db /\ db[r.work] = r.addedAt
      /\ Expired(r.addedAt) /\ InDB(r.work) => InCache(r.work)

(* What was known when a call began is in the cache, or in the database and  *)
(* still to be fetched by the call.                                          *)
ToBeFetched(call, w) ==
  /\ w \notin DOMAIN cache
  /\ InDB(w)
  /\ w \in call.missing
  /\ call.pc # "select"
  /\ call.pc = "stored" => [work |-> w, addedAt |-> db[w]] \in call.found
ReportedIsFound ==
  \A c \in Callers : callers[c] \in Asking =>
    /\ callers[c].reported \subseteq callers[c].works
    /\ \A w \in callers[c].reported : InCache(w) \/ ToBeFetched(callers[c], w)

StoreInv ==
  /\ TypeOK
  /\ CallersOK
  /\ RowsAreWritten
  /\ RecordsAreTracked
  /\ ReportsAreCached
  /\ FoundIsCurrent
  /\ ReportedIsFound
  /\ AnswersAreKnown

-------------------------------------------------------------------------------
(* Operators.                                                                *)

LEMMA BoundsAreNat == RETENTION \in Nat /\ MaxNow \in Nat /\ MaxStops \in Nat
BY StoreAssumption DEF StoreAssumption

(* AddMissing keeps what the function has and takes the rest from the other. *)
LEMMA CacheGrows ==
  ASSUME NEW new, cache' = AddMissing(cache, new)
  PROVE  /\ DOMAIN cache' = DOMAIN cache \cup DOMAIN new
         /\ \A w \in DOMAIN cache : cache'[w] = cache[w]
         /\ \A w \in DOMAIN new \ DOMAIN cache : cache'[w] = new[w]
BY DEF AddMissing

(* A successful insert adds rows for the works of its batch that had none.   *)
LEMMA RowsGrow ==
  ASSUME NEW s \in Slots, InsertSucceeds(s)
  PROVE  /\ DOMAIN db \subseteq DOMAIN db'
         /\ \A w \in DOMAIN db : db'[w] = db[w]
         /\ \A w \in DOMAIN db' \ DOMAIN db :
              \E r \in inserts[s].batch : r.work = w /\ r.addedAt = db'[w]
<1>1. PICK first \in [{r.work : r \in inserts[s].batch} -> inserts[s].batch] :
        /\ \A w \in DOMAIN first : first[w].work = w
        /\ db' = AddMissing(db, [w \in DOMAIN first |-> first[w].addedAt])
  BY DEF InsertSucceeds
<1>2. \A w \in DOMAIN first : first[w] \in inserts[s].batch
  OBVIOUS
<1> QED
  BY <1>1, <1>2 DEF AddMissing

(* The places of a record on its way, now and after a step.                  *)
LEMMA OnTheWayIs ==
  /\ \A r : r \in OnTheWay <=> \/ r \in pending \/ r \in thread.rest
                              \/ \E s \in Slots : r \in inserts[s].batch
  /\ \A r : r \in OnTheWay' <=> \/ r \in pending' \/ r \in thread'.rest
                               \/ \E s \in Slots : r \in inserts'[s].batch
BY DEF OnTheWay

(* A new date is not expired.                                               *)
LEMMA NowIsNotExpired == TypeOK => ~Expired(now)
<1>1. TypeOK => now \in 0 .. MaxNow
  BY DEF TypeOK
<1>2. now \in 0 .. MaxNow => ~Expired(now)
  BY BoundsAreNat DEF Expired
<1> QED
  BY <1>1, <1>2

(* What is fresh is not expired.                                             *)
LEMMA FreshIsNotExpired ==
  ASSUME TypeOK, NEW t \in 0 .. MaxNow, Fresh(t)
  PROVE  ~Expired(t)
<1>1. now \in 0 .. MaxNow
  BY DEF TypeOK
<1> QED
  BY <1>1, BoundsAreNat DEF Expired, Fresh

-------------------------------------------------------------------------------
(* Types.                                                                    *)

LEMMA InitHasInv == Init => StoreInv
<1> SUFFICES ASSUME Init PROVE StoreInv
  OBVIOUS
<1>1. TypeOK
  <2>1. CacheOK /\ RowsOK /\ ThreadOK
    BY DEF Init, CacheOK, RowsOK, ThreadOK
  <2>2. now \in 0 .. MaxNow /\ stops \in 0 .. MaxStops
    BY BoundsAreNat DEF Init
  <2>3. inserts \in [Slots -> [batch : SUBSET Record, cancelled : BOOLEAN]]
    BY DEF Init, NoInsert
  <2> QED
    BY <2>1, <2>2, <2>3 DEF Init, TypeOK
<1>2. OnTheWay = {}
  BY DEF Init, OnTheWay, NoInsert
<1>3. CallersOK
  BY DEF Init, CallersOK, Idle
<1>4. /\ RowsAreWritten /\ RecordsAreTracked
  BY DEF Init, RowsAreWritten, RecordsAreTracked
<1>5. ReportsAreCached
  BY <1>2 DEF ReportsAreCached
<1>6. FoundIsCurrent /\ ReportedIsFound /\ AnswersAreKnown
  BY DEF Init, FoundIsCurrent, ReportedIsFound, AnswersAreKnown, Idle, Asking
<1> QED
  BY <1>1, <1>3, <1>4, <1>5, <1>6 DEF StoreInv

(* Which steps change what.                                                  *)
LEMMA ClockSteps == [Next]_vars => UNCHANGED now \/ Tick
BY DEF Next, vars, storage, Perform, SetUpkeepState, ThreadStep, StartFlush, StartInsert, EndFlush,
       CleanCache, CleanDB, InsertSucceeds, InsertFails, Close, Restart, SelectBegins, SelectStep,
       ScanWorkIDs, CachePerformed, SelectStates, CacheStored, SelectEnds, SelectFails

LEMMA CacheSteps ==
  [Next]_vars => \/ UNCHANGED cache
                 \/ \E w \in Works : SetUpkeepState(w)
                 \/ CleanCache
                 \/ Restart
                 \/ \E c \in Callers : CachePerformed(c) \/ CacheStored(c)
BY DEF Next, vars, storage, Tick, Perform, ThreadStep, StartFlush, StartInsert, EndFlush, CleanDB,
       InsertSucceeds, InsertFails, Close, SelectBegins, SelectStep, ScanWorkIDs, SelectStates,
       SelectEnds, SelectFails

LEMMA RowSteps ==
  [Next]_vars => \/ UNCHANGED db
                 \/ \E s \in Slots : InsertSucceeds(s)
                 \/ \E fails \in BOOLEAN : CleanDB(fails)
BY DEF Next, vars, storage, Tick, Perform, SetUpkeepState, ThreadStep, StartFlush, StartInsert,
       EndFlush, CleanCache, InsertFails, Close, Restart, SelectBegins, SelectStep, ScanWorkIDs,
       CachePerformed, SelectStates, CacheStored, SelectEnds, SelectFails

LEMMA FlushSteps ==
  [Next]_vars => \/ UNCHANGED <<pending, thread, inserts, lost, written>>
                 \/ \E w \in Works : SetUpkeepState(w)
                 \/ ThreadStep
                 \/ \E s \in Slots : InsertSucceeds(s) \/ InsertFails(s)
                 \/ Restart
BY DEF Next, vars, storage, Tick, Perform, Close, SelectBegins, SelectStep, ScanWorkIDs,
       CachePerformed, SelectStates, CacheStored, SelectEnds, SelectFails

LEMMA CallerSteps ==
  [Next]_vars => \/ UNCHANGED callers
                 \/ Restart
                 \/ \E c \in Callers : \/ \E works \in SUBSET Works \ {{}} : SelectBegins(c, works)
                                       \/ SelectStep(c) \/ SelectFails(c)
BY DEF Next, vars, storage, Tick, Perform, SetUpkeepState, ThreadStep, StartFlush, StartInsert,
       EndFlush, CleanCache, CleanDB, InsertSucceeds, InsertFails, Close

-------------------------------------------------------------------------------
(* Types.                                                                    *)

LEMMA ClockKept == StoreInv /\ [Next]_vars => now' \in 0 .. MaxNow
<1>1. StoreInv => now \in 0 .. MaxNow
  BY DEF StoreInv, TypeOK
<1>2. now \in 0 .. MaxNow /\ Tick => now' \in 0 .. MaxNow
  BY BoundsAreNat DEF Tick
<1> QED
  BY <1>1, <1>2, ClockSteps

CacheEntry == [state : {"ineligible", "performed"}, addedAt : 0 .. MaxNow]

(* Entries of the right type may be added.                                   *)
LEMMA GrownCacheOK ==
  ASSUME CacheOK, NEW new, cache' = AddMissing(cache, new),
         DOMAIN new \subseteq Works, \A w \in DOMAIN new : new[w] \in CacheEntry
  PROVE  CacheOK'
<1>1. /\ DOMAIN cache' = DOMAIN cache \cup DOMAIN new
      /\ \A w \in DOMAIN cache : cache'[w] = cache[w]
      /\ \A w \in DOMAIN new \ DOMAIN cache : cache'[w] = new[w]
  BY CacheGrows
<1>2. \A w \in DOMAIN cache : cache[w] \in CacheEntry
  BY DEF CacheOK, CacheEntry
<1>3. \A w \in DOMAIN cache' : cache'[w] \in CacheEntry
  BY <1>1, <1>2
<1> QED
  BY <1>1, <1>3 DEF CacheOK, CacheEntry

LEMMA CacheKept == StoreInv /\ [Next]_vars => CacheOK'
<1> SUFFICES ASSUME StoreInv, [Next]_vars PROVE CacheOK'
  OBVIOUS
<1>1. CacheOK /\ now \in 0 .. MaxNow
  BY DEF StoreInv, TypeOK
<1>2. CASE UNCHANGED cache
  BY <1>1, <1>2 DEF CacheOK
<1>3. ASSUME NEW w \in Works, SetUpkeepState(w) PROVE CacheOK'
  BY <1>1, <1>3 DEF CacheOK, SetUpkeepState
<1>4. CASE CleanCache
  BY <1>1, <1>4 DEF CacheOK, CleanCache
<1>5. CASE Restart
  BY <1>5 DEF CacheOK, Restart
<1>6. ASSUME NEW c \in Callers, CachePerformed(c) PROVE CacheOK'
  <2>1. callers[c].found \subseteq Works
    BY <1>6 DEF StoreInv, CallersOK, CachePerformed
  <2> DEFINE new == [w \in callers[c].found |-> [state |-> "performed", addedAt |-> now]]
  <2>2. cache' = AddMissing(cache, new)
    BY <1>6 DEF CachePerformed
  <2>4. DOMAIN new \subseteq Works
    BY <2>1
  <2>5. \A w \in DOMAIN new : new[w] \in CacheEntry
    BY <1>1 DEF CacheEntry
  <2> HIDE DEF new
  <2> QED
    BY <1>1, <2>2, <2>4, <2>5, GrownCacheOK
<1>7. ASSUME NEW c \in Callers, CacheStored(c) PROVE CacheOK'
  <2>1. callers[c].found \subseteq Record
    BY <1>7 DEF StoreInv, TypeOK, CallersOK, CacheStored
  <2> DEFINE at(w) == (CHOOSE r \in callers[c].found : r.work = w).addedAt
             new == [w \in {r.work : r \in callers[c].found} |->
                       [state |-> "ineligible", addedAt |-> at(w)]]
  <2>2. cache' = AddMissing(cache, new)
    BY <1>7 DEF CacheStored
  <2>4. DOMAIN new \subseteq Works
    BY <2>1 DEF Record
  <2>5. ASSUME NEW w \in DOMAIN new PROVE new[w] \in CacheEntry
    <3>1. \E r \in callers[c].found : r.work = w
      OBVIOUS
    <3>2. (CHOOSE r \in callers[c].found : r.work = w) \in callers[c].found
      BY <3>1
    <3>3. at(w) \in 0 .. MaxNow
      BY <2>1, <3>2 DEF Record
    <3> QED
      BY <3>3 DEF CacheEntry
  <2> HIDE DEF new
  <2> QED
    BY <1>1, <2>2, <2>4, <2>5, GrownCacheOK
<1> QED
  BY <1>2, <1>3, <1>4, <1>5, <1>6, <1>7, CacheSteps

(* Records keep their type on their way from the pending list to the         *)
(* database and the history.                                                 *)
Slot == [batch : SUBSET Record, cancelled : BOOLEAN]
FlushOK ==
  /\ ThreadOK
  /\ pending \subseteq Record /\ lost \subseteq Record /\ written \subseteq Record
  /\ inserts \in [Slots -> Slot]

LEMMA FlushKept == StoreInv /\ [Next]_vars => FlushOK'
<1> SUFFICES ASSUME StoreInv, [Next]_vars PROVE FlushOK'
  OBVIOUS
<1>1. FlushOK /\ CacheOK /\ now \in 0 .. MaxNow
  BY DEF StoreInv, TypeOK, FlushOK, Slot
<1>2. CASE UNCHANGED <<pending, thread, inserts, lost, written>>
  BY <1>1, <1>2 DEF FlushOK, ThreadOK
<1>3. ASSUME NEW w \in Works, SetUpkeepState(w) PROVE FlushOK'
  <2>1. PICK at \in 0 .. MaxNow : pending' = pending \cup {[work |-> w, addedAt |-> at]}
    BY <1>1, <1>3 DEF SetUpkeepState, CacheOK
  <2>2. [work |-> w, addedAt |-> at] \in Record
    BY DEF Record
  <2>3. UNCHANGED <<thread, inserts, lost, written>>
    BY <1>3 DEF SetUpkeepState
  <2> QED
    BY <1>1, <2>1, <2>2, <2>3 DEF FlushOK, ThreadOK
<1>4. ASSUME NEW last \in BOOLEAN, StartFlush(last) PROVE FlushOK'
  BY <1>1, <1>4 DEF FlushOK, ThreadOK, StartFlush
<1>5. ASSUME NEW s \in Slots, StartInsert(s) PROVE FlushOK'
  <2>1. PICK batch \in SUBSET thread.rest :
          /\ inserts' = [inserts EXCEPT ![s] = [batch |-> batch, cancelled |-> closing]]
          /\ thread' = [thread EXCEPT !.rest = @ \ batch]
    BY <1>5 DEF StartInsert
  <2>2. closing \in BOOLEAN
    BY DEF StoreInv, TypeOK
  <2>3. [batch |-> batch, cancelled |-> closing] \in Slot
    BY <1>1, <2>1, <2>2 DEF FlushOK, ThreadOK, Slot
  <2> QED
    BY <1>1, <1>5, <2>1, <2>3 DEF FlushOK, ThreadOK, StartInsert, storage
<1>6. CASE EndFlush
  BY <1>1, <1>6 DEF FlushOK, ThreadOK, EndFlush, storage
<1>7. CASE CleanCache
  BY <1>1, <1>7 DEF FlushOK, ThreadOK, CleanCache
<1>8. ASSUME NEW fails \in BOOLEAN, CleanDB(fails) PROVE FlushOK'
  <2>1. /\ thread.pc = "clean" /\ thread' = [thread EXCEPT !.pc = "loop"]
        /\ UNCHANGED <<pending, inserts, lost, written>>
    BY <1>8 DEF CleanDB
  <2> QED
    BY <1>1, <2>1 DEF FlushOK, ThreadOK
<1>9. ASSUME NEW s \in Slots, InsertSucceeds(s) \/ InsertFails(s) PROVE FlushOK'
  <2>1. NoInsert \in Slot /\ inserts[s].batch \subseteq Record
    BY <1>1 DEF NoInsert, Slot, FlushOK
  <2> QED
    BY <1>1, <1>9, <2>1 DEF FlushOK, ThreadOK, InsertSucceeds, InsertFails, storage
<1>10. CASE Restart
  <2>1. NoInsert \in Slot /\ \A s \in Slots : inserts[s].batch \subseteq Record
    BY <1>1 DEF NoInsert, Slot, FlushOK
  <2> QED
    BY <1>1, <1>10, <2>1 DEF FlushOK, ThreadOK, Restart
<1> QED
  BY <1>2, <1>3, <1>4, <1>5, <1>6, <1>7, <1>8, <1>9, <1>10, FlushSteps DEF ThreadStep

(* Rows keep their type and were written.                                    *)
LEMMA RowsKept == StoreInv /\ [Next]_vars => RowsOK' /\ RowsAreWritten'
<1> SUFFICES ASSUME StoreInv, [Next]_vars PROVE RowsOK' /\ RowsAreWritten'
  OBVIOUS
<1>1. RowsOK /\ RowsAreWritten
  BY DEF StoreInv, TypeOK
<1>2. written \subseteq written'
  BY FlushSteps DEF SetUpkeepState, ThreadStep, StartFlush, StartInsert, EndFlush, CleanCache,
                    CleanDB, InsertSucceeds, InsertFails, Restart
<1>3. CASE UNCHANGED db
  BY <1>1, <1>2, <1>3 DEF RowsOK, RowsAreWritten
<1>4. ASSUME NEW s \in Slots, InsertSucceeds(s) PROVE RowsOK' /\ RowsAreWritten'
  <2>1. inserts[s].batch \subseteq Record /\ written' = written \cup inserts[s].batch
    BY <1>4 DEF StoreInv, TypeOK, InsertSucceeds
  <2>2. \A r \in inserts[s].batch :
          /\ r.work \in Works /\ r.addedAt \in 0 .. MaxNow
          /\ r = [work |-> r.work, addedAt |-> r.addedAt]
    BY <2>1 DEF Record
  <2>3. \A w \in DOMAIN db' \ DOMAIN db :
          /\ w \in Works /\ db'[w] \in 0 .. MaxNow
          /\ [work |-> w, addedAt |-> db'[w]] \in written'
    BY <1>4, <2>1, <2>2, RowsGrow
  <2> QED
    BY <1>1, <1>2, <1>4, <2>3, RowsGrow DEF RowsOK, RowsAreWritten
<1>5. ASSUME NEW fails \in BOOLEAN, CleanDB(fails) PROVE RowsOK' /\ RowsAreWritten'
  BY <1>1, <1>2, <1>5 DEF RowsOK, RowsAreWritten, CleanDB
<1> QED
  BY <1>3, <1>4, <1>5, RowSteps

-------------------------------------------------------------------------------
(* Calls.                                                                    *)

LEMMA CallersKept == StoreInv /\ [Next]_vars => CallersOK'
<1> SUFFICES ASSUME StoreInv, [Next]_vars PROVE CallersOK'
  OBVIOUS
<1>1. CallersOK
  BY DEF StoreInv
<1>2. written \subseteq written'
  BY FlushSteps DEF SetUpkeepState, ThreadStep, StartFlush, StartInsert, EndFlush, CleanCache,
                    CleanDB, InsertSucceeds, InsertFails, Restart
<1>3. CASE UNCHANGED callers
  BY <1>1, <1>2, <1>3 DEF CallersOK
<1>4. CASE Restart
  BY <1>4 DEF CallersOK, Restart, Idle
(* One call goes on to a state of the right form, the others stay.           *)
<1>5. ASSUME NEW c \in Callers, NEW call, callers' = [callers EXCEPT ![c] = call],
             \/ call = Idle \/ call.pc = "done" \/ call \in Asking,
             call.pc = "performed" => call.found \subseteq Works,
             call.pc = "stored" => call.found \subseteq written'
      PROVE  CallersOK'
  BY <1>1, <1>2, <1>5 DEF CallersOK
<1>6. ASSUME NEW c \in Callers, NEW works \in SUBSET Works \ {{}}, SelectBegins(c, works)
      PROVE  CallersOK'
  <2> DEFINE missing == works \ DOMAIN cache
             known == {w \in works : Reported(w)}
             call == IF missing = {}
                     THEN Answer([w \in works |-> StateOf(w)], known, works \cap performed)
                     ELSE [pc |-> "scan", works |-> works, missing |-> missing, found |-> {},
                           reported |-> known, performed |-> works \cap performed]
  <2>1. callers' = [callers EXCEPT ![c] = call]
    BY <1>6 DEF SelectBegins
  <2>2. CASE missing = {}
    BY <2>1, <2>2, <1>5 DEF Answer
  <2>3. CASE missing # {}
    <3>1. call \in Asking /\ call.pc = "scan"
      BY <2>3 DEF Asking
    <3> HIDE DEF call
    <3> QED
      BY <2>1, <3>1, <1>5
  <2> QED
    BY <2>2, <2>3
<1>7. ASSUME NEW c \in Callers, ScanWorkIDs(c) PROVE CallersOK'
  <2>1. callers[c] \in Asking
    BY <1>1, <1>7 DEF CallersOK, ScanWorkIDs, Idle
  <2> DEFINE call == [callers[c] EXCEPT !.pc = "performed", !.found = callers[c].missing \cap performed]
  <2>2. callers' = [callers EXCEPT ![c] = call]
    BY <1>1, <1>7 DEF ScanWorkIDs, CallersOK
  <2>3. call \in Asking /\ call.pc = "performed" /\ call.found \subseteq Works
    BY <2>1 DEF Asking
  <2> HIDE DEF call
  <2> QED
    BY <2>2, <2>3, <1>5
<1>8. ASSUME NEW c \in Callers, SelectStates(c) PROVE CallersOK'
  <2>1. callers[c] \in Asking
    BY <1>1, <1>8 DEF CallersOK, SelectStates, Idle
  <2> DEFINE rows == {[work |-> w, addedAt |-> db[w]] : w \in callers[c].missing \cap DOMAIN db}
             call == [callers[c] EXCEPT !.pc = "stored", !.found = rows]
  <2>2. callers' = [callers EXCEPT ![c] = call]
    BY <1>1, <1>8 DEF SelectStates, CallersOK
  <2>3. rows \subseteq written /\ written \subseteq Record
    BY DEF StoreInv, TypeOK, RowsAreWritten
  <2>4. call \in Asking /\ call.pc = "stored" /\ call.found \subseteq written
    <3>1. rows \in (SUBSET Works) \cup (SUBSET Record)
      BY <2>3
    <3> HIDE DEF rows
    <3>2. call \in Asking
      BY <2>1, <3>1 DEF Asking
    <3>3. call.pc = "stored" /\ call.found = rows
      BY <2>1 DEF Asking
    <3> QED
      BY <2>3, <3>2, <3>3
  <2> HIDE DEF call
  <2> QED
    BY <2>2, <2>4, <1>2, <1>5
<1>9. ASSUME NEW c \in Callers, CachePerformed(c) \/ CacheStored(c) PROVE CallersOK'
  <2>1. callers[c] \in Asking
    BY <1>1, <1>9 DEF CallersOK, CachePerformed, CacheStored, Idle
  <2>2. PICK pc \in {"query", "select"} : callers' = [callers EXCEPT ![c].pc = pc]
    BY <1>9 DEF CachePerformed, CacheStored
  <2> DEFINE call == [callers[c] EXCEPT !.pc = pc]
  <2>3. callers' = [callers EXCEPT ![c] = call]
    BY <1>1, <2>2 DEF CallersOK
  <2>4. call \in Asking /\ call.pc \in {"query", "select"}
    BY <2>1 DEF Asking
  <2> HIDE DEF call
  <2> QED
    BY <2>3, <2>4, <1>5
<1>10. ASSUME NEW c \in Callers, SelectEnds(c) \/ SelectFails(c) PROVE CallersOK'
  <2>1. PICK call : /\ callers' = [callers EXCEPT ![c] = call]
                    /\ call = Idle \/ call.pc = "done"
    BY <1>10 DEF SelectEnds, SelectFails, Answer
  <2>2. call.pc \in {"idle", "done"}
    BY <2>1 DEF Idle
  <2> QED
    BY <2>1, <2>2, <1>5
<1> QED
  BY <1>3, <1>4, <1>6, <1>7, <1>8, <1>9, <1>10, CallerSteps DEF SelectStep

-------------------------------------------------------------------------------
(* No report disappears.                                                     *)

Past == written \cup lost

LEMMA PastGrows == [Next]_vars => Past \subseteq Past'
BY FlushSteps DEF Past, SetUpkeepState, ThreadStep, StartFlush, StartInsert, EndFlush, CleanCache,
                  CleanDB, InsertSucceeds, InsertFails, Restart

(* A record on its way stays on its way or was written or lost.              *)
LEMMA WayGoesOn ==
  ASSUME StoreInv, [Next]_vars, NEW r \in OnTheWay
  PROVE  r \in OnTheWay' \cup Past'
<1>1. ThreadOK /\ inserts \in [Slots -> Slot]
  BY DEF StoreInv, TypeOK, Slot
<1>2. r \in pending \/ r \in thread.rest \/ \E s \in Slots : r \in inserts[s].batch
  BY OnTheWayIs
<1>3. CASE UNCHANGED <<pending, thread, inserts, lost, written>>
  BY <1>2, <1>3, OnTheWayIs
<1>4. ASSUME NEW w \in Works, SetUpkeepState(w) PROVE r \in OnTheWay'
  BY <1>2, <1>4, OnTheWayIs DEF SetUpkeepState
<1>5. ASSUME NEW last \in BOOLEAN, StartFlush(last) PROVE r \in OnTheWay'
  <2>1. thread.rest = {} /\ thread'.rest = pending /\ UNCHANGED inserts
    BY <1>1, <1>5 DEF ThreadOK, StartFlush
  <2> QED
    BY <1>2, <2>1, OnTheWayIs
<1>6. ASSUME NEW s \in Slots, StartInsert(s) PROVE r \in OnTheWay'
  <2>1. PICK batch \in SUBSET thread.rest :
          /\ inserts' = [inserts EXCEPT ![s] = [batch |-> batch, cancelled |-> closing]]
          /\ thread' = [thread EXCEPT !.rest = @ \ batch]
          /\ UNCHANGED pending
    BY <1>6 DEF StartInsert, storage
  <2>2. thread'.rest = thread.rest \ batch
    BY <1>1, <2>1 DEF ThreadOK
  <2>3. /\ inserts[s].batch = {} /\ inserts'[s].batch = batch
        /\ \A v \in Slots \ {s} : inserts'[v] = inserts[v]
    <3>1. inserts[s] = NoInsert
      BY <1>6 DEF StartInsert
    <3>2. NoInsert.batch = {}
      BY DEF NoInsert
    <3> QED
      BY <1>1, <2>1, <3>1, <3>2
  <2> QED
    BY <1>2, <2>1, <2>2, <2>3, OnTheWayIs
<1>7. ASSUME EndFlush \/ CleanCache \/ \E fails \in BOOLEAN : CleanDB(fails) PROVE r \in OnTheWay'
  <2>1. thread'.rest = thread.rest
    BY <1>1, <1>7 DEF ThreadOK, EndFlush, CleanCache, CleanDB
  <2>2. UNCHANGED <<pending, inserts>>
    BY <1>7 DEF EndFlush, CleanCache, CleanDB, storage
  <2> QED
    BY <1>2, <2>1, <2>2, OnTheWayIs
<1>8. ASSUME NEW s \in Slots, InsertSucceeds(s) \/ InsertFails(s) PROVE r \in OnTheWay' \cup Past'
  <2>1. /\ UNCHANGED <<pending, thread>> /\ inserts[s].batch \subseteq Past'
        /\ \A v \in Slots \ {s} : inserts'[v] = inserts[v]
    BY <1>1, <1>8 DEF InsertSucceeds, InsertFails, storage, Past
  <2> QED
    BY <1>2, <2>1, OnTheWayIs
<1>9. CASE Restart
  BY <1>2, <1>9 DEF Restart, Past
<1> QED
  BY <1>3, <1>4, <1>5, <1>6, <1>7, <1>8, <1>9, FlushSteps DEF ThreadStep

LEMMA TrackedKept == StoreInv /\ [Next]_vars => RecordsAreTracked'
<1> SUFFICES ASSUME StoreInv, [Next]_vars,
                    NEW w \in DOMAIN cache', cache'[w].state = "ineligible"
             PROVE  [work |-> w, addedAt |-> cache'[w].addedAt] \in OnTheWay' \cup Past'
  BY DEF RecordsAreTracked, Past
<1>1. ASSUME w \in DOMAIN cache, cache'[w] = cache[w]
      PROVE  [work |-> w, addedAt |-> cache'[w].addedAt] \in OnTheWay' \cup Past'
  BY <1>1, PastGrows, WayGoesOn DEF StoreInv, RecordsAreTracked, Past
<1>2. CASE UNCHANGED cache
  BY <1>1, <1>2
<1>3. ASSUME NEW v \in Works, SetUpkeepState(v)
      PROVE  [work |-> w, addedAt |-> cache'[w].addedAt] \in OnTheWay' \cup Past'
  <2>1. CASE w = v
    BY <1>3, <2>1, OnTheWayIs DEF SetUpkeepState
  <2>2. CASE w # v
    BY <1>1, <1>3, <2>2 DEF SetUpkeepState
  <2> QED
    BY <2>1, <2>2
<1>4. CASE CleanCache \/ Restart
  BY <1>1, <1>4 DEF CleanCache, Restart
<1>5. ASSUME NEW c \in Callers, CachePerformed(c)
      PROVE  [work |-> w, addedAt |-> cache'[w].addedAt] \in OnTheWay' \cup Past'
  <2> DEFINE new == [v \in callers[c].found |-> [state |-> "performed", addedAt |-> now]]
  <2>1. cache' = AddMissing(cache, new)
    BY <1>5 DEF CachePerformed
  <2>2. \A v \in DOMAIN new : new[v].state = "performed"
    OBVIOUS
  <2> HIDE DEF new
  <2> QED
    BY <1>1, <2>1, <2>2, CacheGrows
<1>6. ASSUME NEW c \in Callers, CacheStored(c)
      PROVE  [work |-> w, addedAt |-> cache'[w].addedAt] \in OnTheWay' \cup Past'
  <2> DEFINE at(v) == (CHOOSE r \in callers[c].found : r.work = v).addedAt
             new == [v \in {r.work : r \in callers[c].found} |->
                       [state |-> "ineligible", addedAt |-> at(v)]]
  <2>1. cache' = AddMissing(cache, new)
    BY <1>6 DEF CacheStored
  <2>2. callers[c].found \subseteq written /\ written \subseteq Record
    BY <1>6 DEF StoreInv, TypeOK, CallersOK, CacheStored
  <2>3. ASSUME NEW v \in DOMAIN new PROVE [work |-> v, addedAt |-> new[v].addedAt] \in written
    <3>1. PICK r \in callers[c].found : r.work = v /\ at(v) = r.addedAt
      OBVIOUS
    <3>2. r = [work |-> v, addedAt |-> new[v].addedAt]
      BY <2>2, <3>1 DEF Record
    <3> QED
      BY <2>2, <3>2
  <2> HIDE DEF new
  <2>4. CASE w \in DOMAIN cache
    BY <1>1, <2>1, <2>4, CacheGrows
  <2>5. CASE w \in DOMAIN new \ DOMAIN cache
    <3>1. cache'[w] = new[w]
      BY <2>1, <2>5, CacheGrows
    <3> QED
      BY <2>3, <2>5, <3>1, PastGrows DEF Past
  <2> QED
    BY <2>1, <2>4, <2>5, CacheGrows
<1> QED
  BY <1>2, <1>3, <1>4, <1>5, <1>6, CacheSteps

-------------------------------------------------------------------------------
(* What is known stays known.                                                *)

(* While the node runs and the time stands, a young entry of the cache stays. *)
LEMMA InCacheKept ==
  ASSUME [Next]_vars, UNCHANGED now, ~Restart, NEW w, InCache(w)
  PROVE  InCache(w)'
<1>1. CASE UNCHANGED cache
  BY <1>1 DEF InCache, Expired
<1>2. ASSUME NEW v \in Works, SetUpkeepState(v) PROVE InCache(w)'
  <2>1. w \in DOMAIN cache' /\ cache'[w].addedAt = cache[w].addedAt
    BY <1>2 DEF SetUpkeepState, InCache
  <2> QED
    BY <2>1 DEF InCache, Expired
<1>3. CASE CleanCache
  BY <1>3 DEF CleanCache, InCache, Expired
<1>4. ASSUME NEW c \in Callers, CachePerformed(c) \/ CacheStored(c) PROVE InCache(w)'
  <2>1. PICK new : cache' = AddMissing(cache, new)
    BY <1>4 DEF CachePerformed, CacheStored
  <2>2. w \in DOMAIN cache' /\ cache'[w] = cache[w]
    BY <2>1, CacheGrows DEF InCache
  <2> QED
    BY <2>2 DEF InCache, Expired
<1> QED
  BY <1>1, <1>2, <1>3, <1>4, CacheSteps

(* Only a report puts a record on its way.                                   *)
LEMMA OnlyReportsAdd ==
  ASSUME StoreInv, [Next]_vars, NEW r \in OnTheWay', r \notin OnTheWay
  PROVE  \E w \in Works : SetUpkeepState(w)
                          /\ r = [work |-> w, addedAt |-> cache'[w].addedAt]
<1>1. ThreadOK /\ inserts \in [Slots -> Slot]
  BY DEF StoreInv, TypeOK, Slot
<1>2. r \in pending' \/ r \in thread'.rest \/ \E s \in Slots : r \in inserts'[s].batch
  BY OnTheWayIs
<1>3. CASE UNCHANGED <<pending, thread, inserts, lost, written>>
  BY <1>2, <1>3, OnTheWayIs
<1>4. ASSUME NEW w \in Works, SetUpkeepState(w)
      PROVE  r = [work |-> w, addedAt |-> cache'[w].addedAt]
  BY <1>2, <1>4, OnTheWayIs DEF SetUpkeepState
<1>5. ASSUME NEW last \in BOOLEAN, StartFlush(last) PROVE FALSE
  <2>1. thread'.rest = pending /\ pending' = {} /\ UNCHANGED inserts
    BY <1>1, <1>5 DEF ThreadOK, StartFlush
  <2> QED
    BY <1>2, <2>1, OnTheWayIs
<1>6. ASSUME NEW s \in Slots, StartInsert(s) PROVE FALSE
  <2>1. PICK batch \in SUBSET thread.rest :
          /\ inserts' = [inserts EXCEPT ![s] = [batch |-> batch, cancelled |-> closing]]
          /\ thread' = [thread EXCEPT !.rest = @ \ batch]
          /\ UNCHANGED pending
    BY <1>6 DEF StartInsert, storage
  <2>2. thread'.rest = thread.rest \ batch
    BY <1>1, <2>1 DEF ThreadOK
  <2>3. inserts'[s].batch = batch /\ \A v \in Slots \ {s} : inserts'[v] = inserts[v]
    BY <1>1, <2>1
  <2> QED
    BY <1>2, <2>1, <2>2, <2>3, OnTheWayIs
<1>7. ASSUME EndFlush \/ CleanCache \/ \E fails \in BOOLEAN : CleanDB(fails) PROVE FALSE
  <2>1. thread'.rest = thread.rest
    BY <1>1, <1>7 DEF ThreadOK, EndFlush, CleanCache, CleanDB
  <2>2. UNCHANGED <<pending, inserts>>
    BY <1>7 DEF EndFlush, CleanCache, CleanDB, storage
  <2> QED
    BY <1>2, <2>1, <2>2, OnTheWayIs
<1>8. ASSUME NEW s \in Slots, InsertSucceeds(s) \/ InsertFails(s) PROVE FALSE
  <2>1. UNCHANGED <<pending, thread>> /\ inserts' = [inserts EXCEPT ![s] = NoInsert]
    BY <1>8 DEF InsertSucceeds, InsertFails, storage
  <2>2. NoInsert.batch = {}
    BY DEF NoInsert
  <2>3. inserts'[s].batch = {} /\ \A v \in Slots \ {s} : inserts'[v] = inserts[v]
    BY <1>1, <2>1, <2>2
  <2> QED
    BY <1>2, <2>1, <2>3, OnTheWayIs
<1>9. CASE Restart
  <2>1. pending' = {} /\ thread'.rest = {} /\ \A s \in Slots : inserts'[s] = NoInsert
    BY <1>9 DEF Restart
  <2>2. NoInsert.batch = {}
    BY DEF NoInsert
  <2> QED
    BY <1>2, <2>1, <2>2
<1> QED
  BY <1>3, <1>4, <1>5, <1>6, <1>7, <1>8, <1>9, FlushSteps DEF ThreadStep

LEMMA ReportsStayCached == StoreInv /\ [Next]_vars => ReportsAreCached'
<1> SUFFICES ASSUME StoreInv, [Next]_vars, NEW r \in OnTheWay', ~Expired(r.addedAt)'
             PROVE  InCache(r.work)'
  BY DEF ReportsAreCached
<1>1. CASE r \notin OnTheWay
  <2>1. PICK w \in Works : /\ SetUpkeepState(w)
                           /\ r = [work |-> w, addedAt |-> cache'[w].addedAt]
    BY <1>1, OnlyReportsAdd
  <2>2. w \in DOMAIN cache'
    BY <2>1 DEF SetUpkeepState
  <2> QED
    BY <2>1, <2>2 DEF InCache, Expired
<1>2. CASE r \in OnTheWay
  <2>1. ~Tick
    BY <1>2 DEF Tick
  <2>2. ~Restart
    <3>1. Restart => OnTheWay' = {}
      <4>1. NoInsert.batch = {}
        BY DEF NoInsert
      <4> QED
        BY <4>1, OnTheWayIs DEF Restart
    <3> QED
      BY <3>1
  <2>3. UNCHANGED now
    BY <2>1, ClockSteps
  <2>4. InCache(r.work)
    BY <1>2, <2>3 DEF StoreInv, ReportsAreCached, Expired
  <2> QED
    BY <2>2, <2>3, <2>4, InCacheKept
<1> QED
  BY <1>1, <1>2

(* The rows of the database that are fresh stay, while the time stands.      *)
LEMMA FreshRowsStay ==
  ASSUME [Next]_vars, UNCHANGED now, NEW w, InDB(w)
  PROVE  InDB(w)' /\ db'[w] = db[w]
<1>1. CASE UNCHANGED db
  BY <1>1 DEF InDB, Fresh
<1>2. ASSUME NEW s \in Slots, InsertSucceeds(s) PROVE InDB(w)' /\ db'[w] = db[w]
  <2>1. w \in DOMAIN db' /\ db'[w] = db[w]
    BY <1>2, RowsGrow DEF InDB
  <2> QED
    BY <2>1 DEF InDB, Fresh
<1>3. ASSUME NEW fails \in BOOLEAN, CleanDB(fails) PROVE InDB(w)' /\ db'[w] = db[w]
  <2>1. w \in DOMAIN db' /\ db'[w] = db[w]
    BY <1>3 DEF CleanDB, InDB, Fresh
  <2> QED
    BY <2>1 DEF InDB, Fresh
<1> QED
  BY <1>1, <1>2, <1>3, RowSteps

(* A new row that is fresh is of a report, which is in the cache.            *)
LEMMA NewRowsAreCached ==
  ASSUME StoreInv, [Next]_vars, UNCHANGED now, ~Restart, NEW w, InDB(w)', ~InDB(w)
  PROVE  InCache(w)'
<1>1. PICK s \in Slots : InsertSucceeds(s)
  <2>1. CASE UNCHANGED db
    BY <2>1 DEF InDB, Fresh
  <2>2. ASSUME NEW fails \in BOOLEAN, CleanDB(fails) PROVE FALSE
    BY <2>2 DEF CleanDB, InDB, Fresh
  <2> QED
    BY <2>1, <2>2, RowSteps
<1>2. w \notin DOMAIN db
  BY <1>1, RowsGrow DEF InDB, Fresh
<1>3. PICK r \in inserts[s].batch : r.work = w /\ r.addedAt = db'[w]
  BY <1>1, <1>2, RowsGrow DEF InDB
<1>4. r \in Record /\ r \in OnTheWay
  BY <1>3, OnTheWayIs DEF StoreInv, TypeOK
<1>5. Fresh(r.addedAt) /\ r.addedAt \in 0 .. MaxNow
  BY <1>3, <1>4 DEF InDB, Fresh, Record
<1>6. ~Expired(r.addedAt)
  BY <1>5, FreshIsNotExpired DEF StoreInv
<1>7. InCache(w)
  BY <1>3, <1>4, <1>6 DEF StoreInv, ReportsAreCached
<1> QED
  BY <1>7, InCacheKept

-------------------------------------------------------------------------------
(* Calls.                                                                    *)

(* What a step does to one call.                                             *)
LEMMA CallSteps ==
  ASSUME StoreInv, [Next]_vars, NEW c \in Callers
  PROVE  \/ callers'[c] = callers[c]
         \/ callers'[c] = Idle
         \/ \E works \in SUBSET Works \ {{}} : SelectBegins(c, works)
         \/ SelectStep(c)
<1>1. DOMAIN callers = Callers
  BY DEF StoreInv, CallersOK
<1>2. CASE UNCHANGED callers
  BY <1>2
<1>3. CASE Restart
  BY <1>3 DEF Restart
<1>4. ASSUME NEW d \in Callers,
             \/ \E works \in SUBSET Works \ {{}} : SelectBegins(d, works)
             \/ SelectStep(d) \/ SelectFails(d),
             d # c
      PROVE  callers'[c] = callers[c]
  <2>1. \E call : callers' = [callers EXCEPT ![d] = call]
    BY <1>4 DEF SelectBegins, SelectStep, SelectFails, SelectEnds, CachePerformed, CacheStored,
                ScanWorkIDs, SelectStates
  <2> QED
    BY <1>1, <1>4, <2>1
<1>5. SelectFails(c) => callers'[c] = Idle
  BY <1>1 DEF SelectFails
<1> QED
  BY <1>2, <1>3, <1>4, <1>5, CallerSteps

(* The time stands while a call asks.                                        *)
LEMMA TimeStands ==
  ASSUME [Next]_vars, NEW c \in Callers, callers[c].pc \notin {"idle", "done"}
  PROVE  UNCHANGED now
BY ClockSteps DEF Tick

LEMMA FoundStaysCurrent == StoreInv /\ [Next]_vars => FoundIsCurrent'
<1> SUFFICES ASSUME StoreInv, [Next]_vars,
                    NEW c \in Callers, callers'[c].pc = "stored", NEW r \in callers'[c].found
             PROVE  /\ Fresh(r.addedAt)' => r.work \in DOMAIN db' /\ db'[r.work] = r.addedAt
                    /\ Expired(r.addedAt)' /\ InDB(r.work)' => InCache(r.work)'
  BY DEF FoundIsCurrent
<1>1. DOMAIN callers = Callers
  BY DEF StoreInv, CallersOK
<1>2. CASE callers'[c] = callers[c]
  <2>1. UNCHANGED now
    BY <1>2, TimeStands
  <2>2. ~Restart
    BY <1>2 DEF Restart, Idle
  <2>3. /\ Fresh(r.addedAt) => r.work \in DOMAIN db /\ db[r.work] = r.addedAt
        /\ Expired(r.addedAt) /\ InDB(r.work) => InCache(r.work)
    BY <1>2 DEF StoreInv, FoundIsCurrent
  <2>4. ASSUME Fresh(r.addedAt)' PROVE r.work \in DOMAIN db' /\ db'[r.work] = r.addedAt
    <3>1. Fresh(r.addedAt)
      BY <2>1, <2>4 DEF Fresh
    <3>2. InDB(r.work) /\ db[r.work] = r.addedAt
      BY <2>3, <3>1 DEF InDB
    <3>3. InDB(r.work)' /\ db'[r.work] = db[r.work]
      BY <2>1, <3>2, FreshRowsStay
    <3> QED
      BY <3>2, <3>3 DEF InDB
  <2>5. ASSUME Expired(r.addedAt)', InDB(r.work)' PROVE InCache(r.work)'
    <3>1. Expired(r.addedAt)
      BY <2>1, <2>5 DEF Expired
    <3>2. CASE InDB(r.work)
      BY <2>1, <2>2, <2>3, <3>1, <3>2, InCacheKept
    <3>3. CASE ~InDB(r.work)
      BY <2>1, <2>2, <2>5, <3>3, NewRowsAreCached
    <3> QED
      BY <3>2, <3>3
  <2> QED
    BY <2>4, <2>5
<1>3. CASE SelectStates(c)
  <2>1. UNCHANGED <<now, cache, db>>
    BY <1>3 DEF SelectStates, storage
  <2>2. callers'[c].found = {[work |-> w, addedAt |-> db[w]] : w \in callers[c].missing \cap DOMAIN db}
    <3>1. callers[c] \in Asking
      BY <1>3 DEF StoreInv, CallersOK, SelectStates, Idle
    <3> DEFINE rows == {[work |-> w, addedAt |-> db[w]] : w \in callers[c].missing \cap DOMAIN db}
    <3>2. callers'[c] = [callers[c] EXCEPT !.pc = "stored", !.found = rows]
      BY <1>1, <1>3 DEF SelectStates
    <3> HIDE DEF rows
    <3>3. callers'[c].found = rows
      BY <3>1, <3>2 DEF Asking
    <3> QED
      BY <3>3 DEF rows
  <2>3. r.work \in DOMAIN db /\ db[r.work] = r.addedAt
    BY <2>2
  <2>4. r.addedAt \in 0 .. MaxNow
    BY <2>3 DEF StoreInv, TypeOK, RowsOK
  <2>5. Fresh(r.addedAt) => ~Expired(r.addedAt)
    BY <2>4, FreshIsNotExpired DEF StoreInv
  <2>6. ~(Expired(r.addedAt)' /\ InDB(r.work)')
    BY <2>1, <2>3, <2>5 DEF Expired, InDB, Fresh
  <2> QED
    BY <2>1, <2>3, <2>6
<1>4. callers'[c] # Idle
  BY DEF Idle
<1>5. \A works \in SUBSET Works : ~SelectBegins(c, works)
  <2> SUFFICES ASSUME NEW works \in SUBSET Works, SelectBegins(c, works) PROVE FALSE
    OBVIOUS
  <2>1. callers'[c].pc \in {"done", "scan"}
    BY <1>1 DEF SelectBegins, Answer
  <2> QED
    BY <2>1
<1>6. ~(ScanWorkIDs(c) \/ CachePerformed(c) \/ CacheStored(c))
  <2> SUFFICES ASSUME ScanWorkIDs(c) \/ CachePerformed(c) \/ CacheStored(c) PROVE FALSE
    OBVIOUS
  <2>1. callers[c] \in Asking
    BY DEF StoreInv, CallersOK, ScanWorkIDs, CachePerformed, CacheStored, Idle
  <2>2. callers'[c].pc \in {"performed", "query", "select"}
    BY <1>1, <2>1 DEF ScanWorkIDs, CachePerformed, CacheStored, Asking
  <2> QED
    BY <2>2
<1>7. ~SelectEnds(c)
  BY <1>1 DEF SelectEnds, Answer
<1> QED
  BY <1>2, <1>3, <1>4, <1>5, <1>6, <1>7, CallSteps DEF SelectStep

-------------------------------------------------------------------------------
(* Answers.                                                                  *)

(* A fresh row that the cache misses stays as it is, or its work comes into  *)
(* the cache with a date that is not too old.                                *)
LEMMA StillKnown ==
  ASSUME StoreInv, [Next]_vars, UNCHANGED now, ~Restart,
         NEW w, w \notin DOMAIN cache, InDB(w)
  PROVE  \/ InCache(w)'
         \/ w \notin DOMAIN cache' /\ InDB(w)' /\ db'[w] = db[w]
<1>1. InDB(w)' /\ db'[w] = db[w]
  BY FreshRowsStay
<1> SUFFICES ASSUME w \in DOMAIN cache' PROVE InCache(w)'
  BY <1>1
<1>2. ~Expired(now)
  BY NowIsNotExpired DEF StoreInv
<1>3. ASSUME NEW v \in Works, SetUpkeepState(v) PROVE InCache(w)'
  <2>1. v = w /\ cache'[w].addedAt = now
    BY <1>3 DEF SetUpkeepState
  <2> QED
    BY <1>2, <2>1 DEF InCache, Expired
<1>4. ASSUME NEW c \in Callers, CachePerformed(c) PROVE InCache(w)'
  <2> DEFINE new == [v \in callers[c].found |-> [state |-> "performed", addedAt |-> now]]
  <2>1. cache' = AddMissing(cache, new)
    BY <1>4 DEF CachePerformed
  <2>2. \A v \in DOMAIN new : new[v].addedAt = now
    OBVIOUS
  <2> HIDE DEF new
  <2>3. cache'[w].addedAt = now
    BY <2>1, <2>2, CacheGrows
  <2> QED
    BY <1>2, <2>3 DEF InCache, Expired
<1>5. ASSUME NEW c \in Callers, CacheStored(c) PROVE InCache(w)'
  <2> DEFINE at(v) == (CHOOSE r \in callers[c].found : r.work = v).addedAt
             new == [v \in {r.work : r \in callers[c].found} |->
                       [state |-> "ineligible", addedAt |-> at(v)]]
  <2>1. cache' = AddMissing(cache, new)
    BY <1>5 DEF CacheStored
  <2>2. \A v \in DOMAIN new : \E r \in callers[c].found : r.work = v /\ new[v].addedAt = r.addedAt
    OBVIOUS
  <2> HIDE DEF new
  <2>3. w \in DOMAIN new /\ cache'[w] = new[w]
    BY <2>1, CacheGrows
  <2>4. PICK r \in callers[c].found : r.work = w /\ cache'[w].addedAt = r.addedAt
    BY <2>2, <2>3
  <2>5. callers[c].pc = "stored"
    BY <1>5 DEF CacheStored
  <2>6. Expired(r.addedAt) => InCache(w)
    BY <2>4, <2>5 DEF StoreInv, FoundIsCurrent
  <2>7. ~Expired(r.addedAt)
    BY <2>6 DEF InCache
  <2> QED
    BY <2>4, <2>7 DEF InCache, Expired
<1> QED
  BY <1>3, <1>4, <1>5, CacheSteps DEF CleanCache

(* A step of a call that does not end it: what it is to answer, and whether  *)
(* it has read the database.                                                 *)
LEMMA AskingGoesOn ==
  ASSUME StoreInv, NEW c \in Callers, callers[c] \in Asking,
         ScanWorkIDs(c) \/ CachePerformed(c) \/ SelectStates(c) \/ CacheStored(c)
  PROVE  /\ callers'[c].works = callers[c].works
         /\ callers'[c].missing = callers[c].missing
         /\ callers'[c].reported = callers[c].reported
         /\ callers'[c].pc \in {"performed", "query", "stored", "select"}
         /\ callers'[c].pc = "stored" <=> SelectStates(c)
         /\ callers'[c].pc = "select" <=> CacheStored(c)
<1>1. DOMAIN callers = Callers
  BY DEF StoreInv, CallersOK
<1>2. CASE ScanWorkIDs(c)
  <2>1. callers[c].pc = "scan"
    BY <1>2 DEF ScanWorkIDs
  <2>2. ~SelectStates(c) /\ ~CacheStored(c)
    BY <2>1 DEF SelectStates, CacheStored
  <2>3. callers'[c] = [callers[c] EXCEPT !.pc = "performed",
                                         !.found = callers[c].missing \cap performed]
    BY <1>1, <1>2 DEF ScanWorkIDs
  <2> QED
    BY <2>2, <2>3 DEF Asking
<1>3. CASE CachePerformed(c)
  <2>1. callers[c].pc = "performed"
    BY <1>3 DEF CachePerformed
  <2>2. ~SelectStates(c) /\ ~CacheStored(c)
    BY <2>1 DEF SelectStates, CacheStored
  <2>3. callers'[c] = [callers[c] EXCEPT !.pc = "query"]
    BY <1>1, <1>3 DEF CachePerformed
  <2> QED
    BY <2>2, <2>3 DEF Asking
<1>4. CASE SelectStates(c)
  <2> DEFINE rows == {[work |-> w, addedAt |-> db[w]] : w \in callers[c].missing \cap DOMAIN db}
  <2>1. callers[c].pc = "query"
    BY <1>4 DEF SelectStates
  <2>2. ~CacheStored(c)
    BY <2>1 DEF CacheStored
  <2>3. callers'[c] = [callers[c] EXCEPT !.pc = "stored", !.found = rows]
    BY <1>1, <1>4 DEF SelectStates
  <2> HIDE DEF rows
  <2> QED
    BY <1>4, <2>2, <2>3 DEF Asking
<1>5. CASE CacheStored(c)
  <2>1. callers[c].pc = "stored"
    BY <1>5 DEF CacheStored
  <2>2. ~SelectStates(c)
    BY <2>1 DEF SelectStates
  <2>3. callers'[c] = [callers[c] EXCEPT !.pc = "select"]
    BY <1>1, <1>5 DEF CacheStored
  <2> QED
    BY <1>5, <2>2, <2>3 DEF Asking
<1> QED
  BY <1>2, <1>3, <1>4, <1>5

LEMMA ReportedStaysFound == StoreInv /\ [Next]_vars => ReportedIsFound'
<1> SUFFICES ASSUME StoreInv, [Next]_vars, NEW c \in Callers, callers'[c] \in Asking
             PROVE  /\ callers'[c].reported \subseteq callers'[c].works
                    /\ \A w \in callers'[c].reported : InCache(w)' \/ ToBeFetched(callers[c], w)'
  BY DEF ReportedIsFound, Asking
<1>1. DOMAIN callers = Callers
  BY DEF StoreInv, CallersOK
<1>2. ~Restart
  BY DEF Restart, Idle, Asking
<1>3. CASE callers'[c] = callers[c]
  <2>1. UNCHANGED now
    BY <1>3, TimeStands DEF Asking
  <2>2. /\ callers[c].reported \subseteq callers[c].works
        /\ \A w \in callers[c].reported : InCache(w) \/ ToBeFetched(callers[c], w)
    BY <1>3 DEF StoreInv, ReportedIsFound
  <2>3. ASSUME NEW w \in callers[c].reported PROVE InCache(w)' \/ ToBeFetched(callers[c], w)'
    <3>1. CASE InCache(w)
      BY <1>2, <2>1, <3>1, InCacheKept
    <3>2. CASE ToBeFetched(callers[c], w)
      <4>1. InCache(w)' \/ (w \notin DOMAIN cache' /\ InDB(w)' /\ db'[w] = db[w])
        BY <1>2, <2>1, <3>2, StillKnown DEF ToBeFetched
      <4> QED
        BY <1>3, <3>2, <4>1 DEF ToBeFetched
    <3> QED
      BY <2>2, <3>1, <3>2
  <2> QED
    BY <1>3, <2>2, <2>3
<1>4. ASSUME NEW works \in SUBSET Works, SelectBegins(c, works)
      PROVE  /\ callers'[c].reported \subseteq callers'[c].works
             /\ \A w \in callers'[c].reported : InCache(w)' \/ ToBeFetched(callers[c], w)'
  <2> DEFINE missing == works \ DOMAIN cache
             known == {w \in works : Reported(w)}
  <2>1. UNCHANGED <<now, cache, db>>
    BY <1>4 DEF SelectBegins, storage
  <2>2. missing # {}
    <3>1. missing = {} => callers'[c].pc = "done"
      BY <1>1, <1>4 DEF SelectBegins, Answer
    <3> QED
      BY <3>1 DEF Asking
  <2>3. callers'[c] = [pc |-> "scan", works |-> works, missing |-> missing, found |-> {},
                       reported |-> known, performed |-> works \cap performed]
    BY <1>1, <1>4, <2>2 DEF SelectBegins
  <2>4. /\ callers'[c].pc = "scan" /\ callers'[c].works = works
        /\ callers'[c].missing = missing /\ callers'[c].reported = known
    BY <2>3
  <2>5. ASSUME NEW w \in known PROVE InCache(w)' \/ ToBeFetched(callers[c], w)'
    <3>1. InCache(w) \/ (w \notin DOMAIN cache /\ InDB(w))
      BY DEF Reported, InCache, InDB, Fresh
    <3>2. CASE InCache(w)
      BY <2>1, <3>2 DEF InCache, Expired
    <3>3. CASE w \notin DOMAIN cache /\ InDB(w)
      <4>1. w \notin DOMAIN cache' /\ InDB(w)' /\ w \in callers'[c].missing
        BY <2>1, <2>4, <3>3 DEF InDB, Fresh
      <4> QED
        BY <2>4, <4>1 DEF ToBeFetched
    <3> QED
      BY <3>1, <3>2, <3>3
  <2> QED
    BY <2>4, <2>5
<1>5. ASSUME ScanWorkIDs(c) \/ CachePerformed(c) \/ SelectStates(c) \/ CacheStored(c)
      PROVE  /\ callers'[c].reported \subseteq callers'[c].works
             /\ \A w \in callers'[c].reported : InCache(w)' \/ ToBeFetched(callers[c], w)'
  <2>1. callers[c].pc \in {"scan", "performed", "query", "stored"}
    BY <1>5 DEF ScanWorkIDs, CachePerformed, SelectStates, CacheStored
  <2>2. callers[c] \in Asking
    BY <2>1 DEF StoreInv, CallersOK, Idle
  <2>3. UNCHANGED now
    BY <2>1, TimeStands
  <2>4. /\ callers[c].reported \subseteq callers[c].works
        /\ \A w \in callers[c].reported : InCache(w) \/ ToBeFetched(callers[c], w)
    BY <2>2 DEF StoreInv, ReportedIsFound
  <2>5. /\ callers'[c].works = callers[c].works
        /\ callers'[c].missing = callers[c].missing
        /\ callers'[c].reported = callers[c].reported
        /\ callers'[c].pc = "stored" <=> SelectStates(c)
        /\ callers'[c].pc = "select" <=> CacheStored(c)
    BY <1>5, <2>2, AskingGoesOn
  <2>6. ASSUME NEW w \in callers[c].reported PROVE InCache(w)' \/ ToBeFetched(callers[c], w)'
    <3>1. CASE InCache(w)
      BY <1>2, <2>3, <3>1, InCacheKept
    <3>2. CASE ToBeFetched(callers[c], w)
      <4>1. InCache(w)' \/ (w \notin DOMAIN cache' /\ InDB(w)' /\ db'[w] = db[w])
        BY <1>2, <2>3, <3>2, StillKnown DEF ToBeFetched
      <4>2. CacheStored(c) => w \in DOMAIN cache'
        <5> SUFFICES ASSUME CacheStored(c) PROVE w \in DOMAIN cache'
          OBVIOUS
        <5>1. callers[c].pc = "stored"
          BY DEF CacheStored
        <5>2. [work |-> w, addedAt |-> db[w]] \in callers[c].found
          BY <3>2, <5>1 DEF ToBeFetched
        <5>3. w \in {r.work : r \in callers[c].found}
          BY <5>2
        <5> QED
          BY <5>3 DEF CacheStored, AddMissing
      <4>3. SelectStates(c) => [work |-> w, addedAt |-> db[w]] \in callers'[c].found
        <5> SUFFICES ASSUME SelectStates(c)
                     PROVE  [work |-> w, addedAt |-> db[w]] \in callers'[c].found
          OBVIOUS
        <5> DEFINE rows == {[work |-> v, addedAt |-> db[v]] :
                              v \in callers[c].missing \cap DOMAIN db}
        <5>1. callers'[c] = [callers[c] EXCEPT !.pc = "stored", !.found = rows]
          BY <1>1 DEF SelectStates
        <5>2. [work |-> w, addedAt |-> db[w]] \in rows
          BY <3>2 DEF ToBeFetched, InDB
        <5> HIDE DEF rows
        <5>3. callers'[c].found = rows
          BY <2>2, <5>1 DEF Asking
        <5> QED
          BY <5>2, <5>3
      <4> QED
        BY <2>5, <3>2, <4>1, <4>2, <4>3 DEF ToBeFetched
    <3> QED
      BY <2>4, <3>1, <3>2
  <2> QED
    BY <2>4, <2>5, <2>6
<1>6. ~SelectEnds(c)
  <2>1. SelectEnds(c) => callers'[c].pc = "done"
    BY <1>1 DEF SelectEnds, Answer
  <2> QED
    BY <2>1 DEF Asking
<1>7. callers'[c] # Idle
  BY DEF Idle, Asking
<1> QED
  BY <1>3, <1>4, <1>5, <1>6, <1>7, CallSteps DEF SelectStep

LEMMA AnswersStayKnown == StoreInv /\ [Next]_vars => AnswersAreKnown'
<1> SUFFICES ASSUME StoreInv, [Next]_vars, NEW c \in Callers, callers'[c].pc = "done",
                    NEW w \in callers'[c].reported
             PROVE  callers'[c].answer[w] # Unknown
  BY DEF AnswersAreKnown
<1>1. DOMAIN callers = Callers
  BY DEF StoreInv, CallersOK
<1>2. \A v \in DOMAIN cache : StateOf(v) # Unknown
  BY DEF StoreInv, TypeOK, CacheOK, StateOf, Unknown
<1>3. CASE callers'[c] = callers[c]
  BY <1>3 DEF StoreInv, AnswersAreKnown
<1>4. ASSUME NEW works \in SUBSET Works, SelectBegins(c, works)
      PROVE  callers'[c].answer[w] # Unknown
  <2>1. works \ DOMAIN cache = {}
    <3>1. works \ DOMAIN cache # {} => callers'[c].pc = "scan"
      BY <1>1, <1>4 DEF SelectBegins
    <3> QED
      BY <3>1
  <2>2. /\ callers'[c].answer = [v \in works |-> StateOf(v)]
        /\ callers'[c].reported = {v \in works : Reported(v)}
    BY <1>1, <1>4, <2>1 DEF SelectBegins, Answer
  <2>3. w \in works /\ callers'[c].answer[w] = StateOf(w)
    BY <2>2
  <2> QED
    BY <1>2, <2>1, <2>3
<1>5. CASE SelectEnds(c)
  <2>1. callers[c].pc = "select"
    BY <1>5 DEF SelectEnds
  <2>2. callers[c] \in Asking
    BY <2>1 DEF StoreInv, CallersOK, Idle
  <2>3. /\ callers'[c].answer = [v \in callers[c].works |-> StateOf(v)]
        /\ callers'[c].reported = callers[c].reported
    BY <1>1, <1>5 DEF SelectEnds, Answer
  <2>4. w \in callers[c].works /\ w \in DOMAIN cache
    BY <2>1, <2>2, <2>3 DEF StoreInv, ReportedIsFound, ToBeFetched, InCache
  <2>5. callers'[c].answer[w] = StateOf(w)
    BY <2>3, <2>4
  <2> QED
    BY <1>2, <2>4, <2>5
<1>6. ~(ScanWorkIDs(c) \/ CachePerformed(c) \/ SelectStates(c) \/ CacheStored(c))
  <2> SUFFICES ASSUME ScanWorkIDs(c) \/ CachePerformed(c) \/ SelectStates(c) \/ CacheStored(c)
               PROVE  FALSE
    OBVIOUS
  <2>1. callers[c].pc \in {"scan", "performed", "query", "stored"}
    BY DEF ScanWorkIDs, CachePerformed, SelectStates, CacheStored
  <2>2. callers[c] \in Asking
    BY <2>1 DEF StoreInv, CallersOK, Idle
  <2> QED
    BY <2>2, AskingGoesOn
<1>7. callers'[c] # Idle
  BY DEF Idle
<1> QED
  BY <1>3, <1>4, <1>5, <1>6, <1>7, CallSteps DEF SelectStep

-------------------------------------------------------------------------------
(* Theorems.                                                                 *)

LEMMA TypesKept == StoreInv /\ [Next]_vars => TypeOK'
<1> SUFFICES ASSUME StoreInv, [Next]_vars PROVE TypeOK'
  OBVIOUS
<1>1. stops \in 0 .. MaxStops /\ performed \subseteq Works /\ closing \in BOOLEAN
  BY DEF StoreInv, TypeOK
<1>2. UNCHANGED stops \/ Restart
  BY DEF Next, vars, storage, Tick, Perform, SetUpkeepState, ThreadStep, StartFlush, StartInsert,
         EndFlush, CleanCache, CleanDB, InsertSucceeds, InsertFails, Close, SelectBegins,
         SelectStep, ScanWorkIDs, CachePerformed, SelectStates, CacheStored, SelectEnds, SelectFails
<1>3. stops' \in 0 .. MaxStops
  BY <1>1, <1>2, BoundsAreNat DEF Restart
<1>4. UNCHANGED closing \/ closing' = TRUE \/ closing' = FALSE
  BY DEF Next, vars, storage, Tick, Perform, SetUpkeepState, ThreadStep, StartFlush, StartInsert,
         EndFlush, CleanCache, CleanDB, InsertSucceeds, InsertFails, Close, Restart, SelectBegins,
         SelectStep, ScanWorkIDs, CachePerformed, SelectStates, CacheStored, SelectEnds, SelectFails
<1>5. closing' \in BOOLEAN
  BY <1>1, <1>4
<1>6. UNCHANGED performed \/ \E w \in Works : Perform(w)
  BY DEF Next, vars, storage, Tick, SetUpkeepState, ThreadStep, StartFlush, StartInsert,
         EndFlush, CleanCache, CleanDB, InsertSucceeds, InsertFails, Close, Restart, SelectBegins,
         SelectStep, ScanWorkIDs, CachePerformed, SelectStates, CacheStored, SelectEnds, SelectFails
<1>7. performed' \subseteq Works
  BY <1>1, <1>6 DEF Perform
<1> QED
  BY <1>3, <1>5, <1>7, ClockKept, CacheKept, RowsKept, FlushKept DEF TypeOK, FlushOK, Slot

LEMMA NextKeepsInv == StoreInv /\ [Next]_vars => StoreInv'
BY TypesKept, CallersKept, RowsKept, TrackedKept, ReportsStayCached, FoundStaysCurrent,
   ReportedStaysFound, AnswersStayKnown DEF StoreInv

(* The invariant holds in every state the store can be in.                   *)
LEMMA InvHolds == Spec => []StoreInv
BY InitHasInv, NextKeepsInv, PTL DEF Spec

(* The cache, the pending list, the inserts, the thread and the rows always  *)
(* have the form the code gives them.                                        *)
THEOREM TypeCorrect == Spec => []TypeOK
<1>1. StoreInv => TypeOK
  BY DEF StoreInv
<1> QED
  BY <1>1, InvHolds, PTL

(* An ineligible state in the cache never vanishes between pendingRecords,   *)
(* the batches of a flush and the database without an error or a stop that   *)
(* took it, however many threads report while the store flushes.             *)
THEOREM RecordsAlwaysTracked == Spec => []RecordsAreTracked
<1>1. StoreInv => RecordsAreTracked
  BY DEF StoreInv
<1> QED
  BY <1>1, InvHolds, PTL

(* SelectByWorkIDs does not answer "unknown" about a work whose state the    *)
(* cache or the database had when the call began, unless that was too old,   *)
(* however many callers, reports, cleanups and restarts mix with its steps.  *)
THEOREM AnswersAlwaysKnown == Spec => []AnswersAreKnown
<1>1. StoreInv => AnswersAreKnown
  BY DEF StoreInv
<1> QED
  BY <1>1, InvHolds, PTL
===============================================================================
