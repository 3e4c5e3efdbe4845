--------------------------- MODULE LogRecovererProofs ---------------------------
(*****************************************************************************)
(* Theorems about the recoverer, for any upkeeps, logs, window and limits.   *)
(*                                                                           *)
(* Three threads and the changes of the filters meet in lastRePollBlock: a   *)
(* job writes the end of what it read to whatever filter the upkeep has by   *)
(* then.  This is right because a filter never reaches below the block of    *)
(* the upkeep's configuration, which only grows, and because of a log that   *)
(* was tracked once it holds for ever that it is tracked, has a final state  *)
(* or has left the window.                                                   *)
(*****************************************************************************)
EXTENDS LogRecoverer, FiniteSetTheorems, TLAPS

Filters == [lastRePoll : 0 .. MaxBlock, since : 0 .. MaxBlock]
Jobs == [pc : {"states", "populate", "update"}, end : Nat, logs : SUBSET Logs]

TypesFit ==
  /\ latest \in 0 .. MaxBlock /\ blocksInDay \in Days /\ oldest \in Nat
  /\ configBlock \in [Upkeeps -> 0 .. latest]
  /\ DOMAIN filters \subseteq Upkeeps /\ filters \in [DOMAIN filters -> Filters]
  /\ DOMAIN jobs \subseteq Upkeeps /\ jobs \in [DOMAIN jobs -> Jobs]
  /\ \A u \in DOMAIN jobs : jobs[u].end <= WindowEnd
  /\ known \subseteq Logs /\ pending \subseteq Logs /\ proposals \subseteq Logs
  /\ DOMAIN visited \subseteq Logs

(* What clean has read of the states and of the window remains true.         *)
CleanerFits ==
  cleaner.pc = "expire" =>
    /\ cleaner.known \subseteq known
    /\ cleaner.start \in Int /\ cleaner.start <= oldest

Tracked(l) == l \in known \cup DOMAIN visited \/ l.block < oldest

(* A log of the present configuration of u, up to the given block.           *)
Within(l, u, end) == l.upkeep = u /\ configBlock[u] <= l.block /\ l.block <= end

FiltersFit ==
  \A u \in DOMAIN filters :
    /\ filters[u].since = configBlock[u]
    /\ \A l \in Logs : Within(l, u, filters[u].lastRePoll) => Tracked(l)

(* A job has a log before it, or the log is tracked, or was before it began. *)
JobsFit ==
  \A u \in DOMAIN jobs :
    /\ \A l \in jobs[u].logs : l.upkeep = u
    /\ \A l \in Logs :
         Within(l, u, jobs[u].end)
           => Tracked(l) \/ (jobs[u].pc # "update" /\ l \in jobs[u].logs)

RecovererInv ==
  /\ TypesFit
  /\ WindowStart <= oldest
  /\ CleanerFits
  /\ FiltersFit
  /\ JobsFit

-------------------------------------------------------------------------------
(* The constants, one by one.                                                *)
LEMMA LimitsAreNumbers ==
  /\ MaxBlock \in Nat /\ LOOKBACK \in Nat /\ FINALITY \in Nat
  /\ LOGS_BUFFER \in Nat /\ LOGS_BURST \in Nat /\ LAG \in Nat /\ MAX_PENDING \in Nat
  /\ \A d \in Days : d \in Nat
<1>1. /\ {MaxBlock, LOOKBACK, FINALITY, LOGS_BUFFER, LOGS_BURST, LAG, MaxChanges} \subseteq Nat
      /\ {BATCH_SIZE, MAX_PENDING, PER_UPKEEP, MAX_PROPOSALS} \subseteq Nat \ {0}
      /\ Days \subseteq Nat
  BY RecovererAssumption
<1>2. QED
  BY <1>1

(* The blocks of logs are numbers from 1.                                    *)
LEMMA LogsInNumbers ==
  ASSUME NEW l \in Logs
  PROVE  l.upkeep \in Upkeeps /\ l.block \in Nat /\ l.block >= 1
<1>1. l \in [upkeep : Upkeeps, block : 1 .. MaxBlock, index : Nat]
  BY RecovererAssumption
<1>2. l.upkeep \in Upkeeps /\ l.block \in 1 .. MaxBlock
  BY <1>1
<1>3. QED
  BY <1>2, LimitsAreNumbers

-------------------------------------------------------------------------------
(* Largest and smallest of a few numbers.                                    *)

(* The largest of two bounds both.                                           *)
LEMMA MaxOfTwo ==
  ASSUME NEW a \in Int, NEW b \in Int
  PROVE  /\ Max({a, b}) \in {a, b} /\ Max({a, b}) \in Int
         /\ Max({a, b}) >= a /\ Max({a, b}) >= b
<1>1. \E x \in {a, b} : \A y \in {a, b} : x >= y
  OBVIOUS
<1>2. QED
  BY <1>1 DEF Max

(* The largest of three bounds all of them.                                  *)
LEMMA MaxOfThree ==
  ASSUME NEW a \in Int, NEW b \in Int, NEW c \in Int
  PROVE  /\ Max({a, b, c}) \in {a, b, c}
         /\ Max({a, b, c}) >= a
<1>1. \E x \in {a, b, c} : \A y \in {a, b, c} : x >= y
  <2>1. CASE a >= b /\ a >= c
    BY <2>1
  <2>2. CASE b >= a /\ b >= c
    BY <2>2
  <2>3. CASE c >= a /\ c >= b
    BY <2>3
  <2>4. QED
    BY <2>1, <2>2, <2>3
<1>2. QED
  BY <1>1 DEF Max

(* The smallest of two is one of them and below both.                        *)
LEMMA MinOfTwo ==
  ASSUME NEW a \in Int, NEW b \in Int
  PROVE  /\ Min({a, b}) \in {a, b}
         /\ Min({a, b}) <= a /\ Min({a, b}) <= b
<1>1. \E x \in {a, b} : \A y \in {a, b} : x =< y
  OBVIOUS
<1>2. QED
  BY <1>1 DEF Min

(* What a job reads begins where the filter ends, or above all that the      *)
(* window and the configuration still admit.                                 *)
LEMMA RangeCovers ==
  ASSUME NEW f \in Filters, NEW startBlock \in Int, NEW offset \in Nat
  PROVE  LET range == RangeOf(f, startBlock, offset)
         IN  /\ range.start \in Nat
             /\ range.end \in Nat /\ range.end <= offset
             /\ \A n \in Int : n < range.start => \/ n <= f.lastRePoll
                                                  \/ n < f.since
                                                  \/ n < startBlock
<1> DEFINE start == Max({f.lastRePoll + 1, f.since, startBlock})
           end   == IF offset - (start + LOGS_BUFFER) > LAG THEN start + LOGS_BURST
                    ELSE start + LOGS_BUFFER
<1>1. f.lastRePoll \in Nat /\ f.since \in Nat
  <2>1. MaxBlock \in Nat /\ f.lastRePoll \in 0 .. MaxBlock /\ f.since \in 0 .. MaxBlock
    BY LimitsAreNumbers DEF Filters
  <2>2. QED
    BY <2>1
<1>2. /\ start \in {f.lastRePoll + 1, f.since, startBlock}
      /\ start >= f.lastRePoll + 1
  <2>1. f.lastRePoll + 1 \in Int /\ f.since \in Int
    BY <1>1
  <2>2. QED
    BY <2>1, MaxOfThree, Zenon
<1>3. start \in Nat
  BY <1>1, <1>2
<1> HIDE DEF start
<1>4. end \in Nat
  <2>1. LOGS_BUFFER \in Nat /\ LOGS_BURST \in Nat
    BY LimitsAreNumbers
  <2>2. QED
    BY <1>3, <2>1
<1> HIDE DEF end
<1>5. RangeOf(f, startBlock, offset) = [start |-> start, end |-> Min({end, offset})]
  BY DEF RangeOf, start, end
<1>6. Min({end, offset}) \in Nat /\ Min({end, offset}) <= offset
  <2>1. end \in Int /\ offset \in Int
    BY <1>4
  <2>2. Min({end, offset}) \in {end, offset} /\ Min({end, offset}) <= offset
    BY <2>1, MinOfTwo, Zenon
  <2>3. QED
    BY <1>4, <2>2
<1>7. \A n \in Int : n < start => \/ n <= f.lastRePoll
                                  \/ n < f.since
                                  \/ n < startBlock
  BY <1>1, <1>2
<1>8. QED
  BY <1>3, <1>5, <1>6, <1>7

(* The window and the limits in numbers.                                     *)
LEMMA WindowInNumbers ==
  ASSUME TypesFit
  PROVE  /\ latest \in Nat /\ WindowEnd \in Int /\ WindowEnd <= latest
         /\ WindowStart \in Int
<1>1. /\ latest \in Nat /\ LOOKBACK \in Nat /\ FINALITY \in Nat /\ blocksInDay \in Nat
  BY LimitsAreNumbers DEF TypesFit
<1>2. WindowEnd \in Int /\ WindowEnd <= latest
  BY <1>1 DEF WindowEnd
<1>3. latest - blocksInDay \in Int
  BY <1>1
<1>4. WindowStart \in {latest - blocksInDay, WindowEnd}
  BY <1>2, <1>3, MinOfTwo, Zenon DEF WindowStart
<1>5. QED
  BY <1>1, <1>2, <1>3, <1>4

-------------------------------------------------------------------------------
(* Steps that leave filters and jobs alone.                                  *)

(* Nothing was forgotten.                                                    *)
NothingLost == \A l \in Logs : Tracked(l) => Tracked(l)'

(* With nothing lost, filters and jobs as they were still fit.               *)
LEMMA FiltersAndJobsStay ==
  ASSUME RecovererInv, UNCHANGED <<configBlock, filters, jobs>>, NothingLost
  PROVE  FiltersFit' /\ JobsFit'
<1>1. FiltersFit'
  BY DEF RecovererInv, FiltersFit, Within, NothingLost
<1>2. JobsFit'
  BY DEF RecovererInv, JobsFit, Within, NothingLost
<1>3. QED
  BY <1>1, <1>2

(* With the world as it is nothing is lost but what is not visited any more. *)
LEMMA SameWorldLosesNothing ==
  ASSUME UNCHANGED world,
         \A l \in DOMAIN visited \ DOMAIN visited' : l \in known \/ l.block < oldest
  PROVE  NothingLost
BY DEF world, NothingLost, Tracked

(* With the same blocks the window is the same.                              *)
LEMMA SameWorldSameWindow ==
  ASSUME UNCHANGED world
  PROVE  WindowStart' = WindowStart /\ WindowEnd' = WindowEnd
BY DEF world, WindowStart, WindowEnd

(* A block later, or with another estimate of the block time: the window     *)
(* moves and its highest start is noted.                                     *)
LEMMA WindowMoves ==
  ASSUME RecovererInv, latest' \in latest .. MaxBlock, blocksInDay' \in Days,
         oldest' = Max({oldest, WindowStart'}),
         UNCHANGED <<configBlock, known, filters, visited, pending, jobs, cleaner, proposals>>
  PROVE  RecovererInv'
<1>1. /\ latest \in 0 .. latest' /\ latest' \in Nat /\ LOOKBACK \in Nat /\ FINALITY \in Nat
      /\ blocksInDay' \in Nat /\ oldest \in Nat /\ latest' \in 0 .. MaxBlock
  BY LimitsAreNumbers DEF RecovererInv, TypesFit
<1>2. WindowEnd \in Int /\ WindowEnd' \in Int /\ WindowEnd <= WindowEnd'
  <2>1. /\ latest \in Int /\ latest' \in Int /\ latest <= latest'
        /\ LOOKBACK \in Int /\ FINALITY \in Int
    BY <1>1
  <2>2. ASSUME NEW a \in Int, NEW b \in Int, a <= b
        PROVE  /\ a - LOOKBACK - FINALITY \in Int /\ b - LOOKBACK - FINALITY \in Int
               /\ a - LOOKBACK - FINALITY <= b - LOOKBACK - FINALITY
    BY <2>1, <2>2
  <2>3. /\ WindowEnd = latest - LOOKBACK - FINALITY
        /\ WindowEnd' = latest' - LOOKBACK - FINALITY
    BY DEF WindowEnd
  <2>4. QED
    BY <2>1, <2>2, <2>3
<1>3. WindowStart' \in Int
  <2>1. latest' - blocksInDay' \in Int
    BY <1>1
  <2>2. Min({latest' - blocksInDay', WindowEnd'}) \in {latest' - blocksInDay', WindowEnd'}
    BY <1>2, <2>1, MinOfTwo, Zenon
  <2>3. WindowStart' = Min({latest' - blocksInDay', WindowEnd'})
    BY DEF WindowStart
  <2>4. QED
    BY <1>2, <2>1, <2>2, <2>3
<1>4. oldest' \in Nat /\ oldest' >= oldest /\ WindowStart' <= oldest'
  <2>1. oldest \in Int
    BY <1>1
  <2>2. oldest' \in Int /\ oldest' >= oldest /\ oldest' >= WindowStart'
    BY <1>3, <2>1, MaxOfTwo, Zenon
  <2>3. QED
    BY <1>1, <1>3, <2>2
<1>5. TypesFit'
  <2>1. configBlock' \in [Upkeeps -> 0 .. latest']
    BY <1>1 DEF RecovererInv, TypesFit
  <2>2. \A u \in DOMAIN jobs : jobs[u].end <= WindowEnd'
    BY <1>2 DEF RecovererInv, TypesFit, Jobs
  <2>3. QED
    BY <1>1, <1>4, <2>1, <2>2 DEF RecovererInv, TypesFit
<1>6. NothingLost
  BY <1>1, <1>4, LogsInNumbers DEF NothingLost, Tracked
<1>7. CleanerFits'
  BY <1>1, <1>4 DEF RecovererInv, CleanerFits
<1>8. QED
  BY <1>4, <1>5, <1>6, <1>7, FiltersAndJobsStay DEF RecovererInv

(* expire removes what has a final state or has left the window.             *)
LEMMA ExpireKeepsInv ==
  ASSUME RecovererInv, Expire
  PROVE  RecovererInv'
<1> DEFINE unknown == (cleaner.logs \ cleaner.known) \cap DOMAIN visited
           tooOld  == {l \in unknown : l.block < cleaner.start}
           rest    == pending \ tooOld
           again   == unknown \ tooOld
<1>1. PICK added \in SUBSET again :
        /\ pending' = rest \cup added
        /\ visited' = [l \in DOMAIN visited \ (cleaner.known \cup tooOld) |->
                         IF l \in added THEN "fresh" ELSE visited[l]]
  BY DEF Expire
<1>2. /\ cleaner.pc = "expire" /\ cleaner' = Idle
      /\ UNCHANGED <<world, filters, jobs, proposals>>
  BY DEF Expire
<1>3. DOMAIN visited' = DOMAIN visited \ (cleaner.known \cup tooOld)
  BY <1>1
<1>4. DOMAIN visited \subseteq Logs /\ pending \subseteq Logs
  BY DEF RecovererInv, TypesFit
<1>5. \A l \in DOMAIN visited \ DOMAIN visited' : l \in known \/ l.block < oldest
  <2>1. oldest \in Nat /\ cleaner.start \in Int /\ cleaner.start <= oldest
    BY <1>2 DEF RecovererInv, TypesFit, CleanerFits
  <2>2. cleaner.known \subseteq known
    BY <1>2 DEF RecovererInv, CleanerFits
  <2>3. \A l \in Logs : l.block < cleaner.start => l.block < oldest
    BY <2>1, LogsInNumbers
  <2>4. QED
    BY <1>3, <1>4, <2>2, <2>3
<1>6. pending' \subseteq Logs /\ DOMAIN visited' \subseteq Logs
  BY <1>1, <1>3, <1>4
<1>7. TypesFit'
  BY <1>2, <1>6, SameWorldSameWindow DEF RecovererInv, TypesFit, world
<1>8. FiltersFit' /\ JobsFit'
  BY <1>2, <1>5, SameWorldLosesNothing, FiltersAndJobsStay DEF world
<1>9. CleanerFits'
  BY <1>2 DEF CleanerFits, Idle
<1>10. QED
  BY <1>2, <1>7, <1>8, <1>9, SameWorldSameWindow DEF RecovererInv, world

-------------------------------------------------------------------------------
(* Steps of the filters.                                                     *)

(* A filter that comes back is read from the beginning.                      *)
LEMMA FilterChangeKeepsInv ==
  ASSUME RecovererInv, NEW u \in Upkeeps, NEW block \in configBlock[u] .. latest,
         configBlock' = [configBlock EXCEPT ![u] = block],
         AddFilter(u, block),
         UNCHANGED <<latest, blocksInDay, oldest, known, visited, pending, jobs,
                     cleaner, proposals>>
  PROVE  RecovererInv'
<1> DEFINE new == [lastRePoll |-> 0, since |-> block]
<1>1. /\ configBlock \in [Upkeeps -> 0 .. latest] /\ latest \in 0 .. MaxBlock
      /\ DOMAIN filters \subseteq Upkeeps /\ filters \in [DOMAIN filters -> Filters]
      /\ MaxBlock \in Nat
  BY LimitsAreNumbers DEF RecovererInv, TypesFit
<1>2. configBlock[u] \in Nat /\ block \in 0 .. latest /\ block \in 0 .. MaxBlock
  BY <1>1
<1>3. /\ configBlock' \in [Upkeeps -> 0 .. latest]
      /\ configBlock'[u] = block
      /\ \A v \in Upkeeps \ {u} : configBlock'[v] = configBlock[v]
  BY <1>1, <1>2
<1>4. /\ filters' = [v \in DOMAIN filters \cup {u} |-> IF v = u THEN new ELSE filters[v]]
      /\ new \in Filters
  BY <1>1, <1>2 DEF AddFilter, Filters
<1>5. /\ DOMAIN filters' = DOMAIN filters \cup {u}
      /\ filters'[u] = new
      /\ \A v \in DOMAIN filters \ {u} : filters'[v] = filters[v]
      /\ filters' \in [DOMAIN filters' -> Filters]
  <2> HIDE DEF new
  <2>1. QED
    BY <1>1, <1>4
<1>6. \A l \in Logs, v \in Upkeeps, end \in Nat : Within(l, v, end)' => Within(l, v, end)
  <2>1. \A v \in Upkeeps : /\ configBlock[v] \in Nat /\ configBlock'[v] \in Nat
                           /\ configBlock[v] <= configBlock'[v]
    BY <1>1, <1>2, <1>3
  <2>2. QED
    BY <2>1, LogsInNumbers DEF Within
<1>7. FiltersFit'
  <2>1. \A l \in Logs : Tracked(l)' = Tracked(l)
    BY DEF Tracked
  <2>2. ASSUME NEW v \in DOMAIN filters \ {u}, NEW l \in Logs,
               Within(l, v, filters[v].lastRePoll)'
        PROVE  Tracked(l)'
    <3>1. filters[v].lastRePoll \in Nat /\ v \in Upkeeps
      BY <1>1 DEF Filters
    <3>2. Within(l, v, filters[v].lastRePoll)
      <4> DEFINE end == filters[v].lastRePoll
      <4>1. filters'[v] = filters[v]
        BY <1>5
      <4>2. /\ l.upkeep = v /\ configBlock'[v] <= l.block /\ l.block <= end
        BY <2>2, <4>1 DEF Within
      <4>3. configBlock[v] <= configBlock'[v] /\ configBlock[v] \in Nat /\ configBlock'[v] \in Nat
        BY <1>1, <1>3, <3>1
      <4>4. QED
        BY <4>2, <4>3, LogsInNumbers DEF Within
    <3>3. QED
      BY <2>1, <3>2 DEF RecovererInv, FiltersFit
  <2>3. ASSUME NEW l \in Logs
        PROVE  ~Within(l, u, filters[u].lastRePoll)'
    BY <1>5, LogsInNumbers DEF Within
  <2>4. \A v \in DOMAIN filters' : filters'[v].since = configBlock'[v]
    BY <1>1, <1>3, <1>5 DEF RecovererInv, FiltersFit
  <2>5. QED
    BY <1>5, <2>2, <2>3, <2>4 DEF FiltersFit, Within
<1>8. JobsFit'
  <2>1. ASSUME NEW v \in DOMAIN jobs, NEW l \in Logs, Within(l, v, jobs[v].end)'
        PROVE  Within(l, v, jobs[v].end)
    <3>1. jobs[v].end \in Nat /\ v \in Upkeeps
      BY DEF RecovererInv, TypesFit, Jobs
    <3>2. QED
      BY <1>6, <2>1, <3>1 DEF Within
  <2>2. QED
    BY <2>1 DEF RecovererInv, JobsFit, Tracked
<1>9. TypesFit' /\ WindowStart' = WindowStart
  <2>1. WindowEnd' = WindowEnd /\ WindowStart' = WindowStart
    BY DEF WindowEnd, WindowStart
  <2>2. QED
    BY <1>1, <1>3, <1>5, <2>1 DEF RecovererInv, TypesFit
<1>10. QED
  BY <1>7, <1>8, <1>9 DEF RecovererInv, CleanerFits

(* Without its filter an upkeep has nothing to track.                        *)
LEMMA UnregisterKeepsInv ==
  ASSUME RecovererInv, NEW u, UnregisterFilter(u)
  PROVE  RecovererInv'
<1>1. /\ filters' = [v \in DOMAIN filters \ {u} |-> filters[v]]
      /\ UNCHANGED <<latest, blocksInDay, oldest, configBlock, known, visited,
                     pending, jobs, cleaner, proposals>>
  BY DEF UnregisterFilter
<1>2. /\ DOMAIN filters' = DOMAIN filters \ {u}
      /\ \A v \in DOMAIN filters' : filters'[v] = filters[v]
      /\ filters' \in [DOMAIN filters' -> Filters]
  BY <1>1 DEF RecovererInv, TypesFit
<1>3. WindowEnd' = WindowEnd /\ WindowStart' = WindowStart
  BY <1>1 DEF WindowEnd, WindowStart
<1>4. TypesFit'
  BY <1>1, <1>2, <1>3 DEF RecovererInv, TypesFit
<1>5. FiltersFit' /\ JobsFit' /\ CleanerFits'
  BY <1>1, <1>2 DEF RecovererInv, FiltersFit, JobsFit, CleanerFits, Within, Tracked
<1>6. QED
  BY <1>3, <1>4, <1>5, <1>1 DEF RecovererInv

-------------------------------------------------------------------------------
(* Steps of the jobs.                                                        *)

(* What a step of jobs leaves alone.                                         *)
LEMMA JobStepKeepsInv ==
  ASSUME RecovererInv, UNCHANGED <<world, proposals, cleaner>>,
         NothingLost, JobsFit', FiltersFit',
         pending' \subseteq Logs, DOMAIN visited' \subseteq Logs,
         DOMAIN jobs' \subseteq Upkeeps, jobs' \in [DOMAIN jobs' -> Jobs],
         \A u \in DOMAIN jobs' : jobs'[u].end <= WindowEnd,
         DOMAIN filters' \subseteq Upkeeps, filters' \in [DOMAIN filters' -> Filters]
  PROVE  RecovererInv'
<1>1. WindowEnd' = WindowEnd /\ WindowStart' = WindowStart
  BY SameWorldSameWindow DEF world
<1>2. TypesFit'
  BY <1>1 DEF RecovererInv, TypesFit, world
<1>3. CleanerFits'
  BY DEF RecovererInv, CleanerFits, world
<1>4. QED
  BY <1>1, <1>2, <1>3 DEF RecovererInv, world

(* recover: the logs below the blocks that are read are tracked, belong to   *)
(* an older configuration or have left the window.                           *)
LEMMA RecoverKeepsInv ==
  ASSUME RecovererInv, Recover
  PROVE  RecovererInv'
<1> DEFINE range(u) == RangeOf(filters[u], Max({0, WindowStart}), WindowEnd)
           job(u)   == [pc |-> "states", end |-> range(u).end,
                        logs |-> {l \in Logs : /\ l.upkeep = u
                                               /\ l.block \in range(u).start .. range(u).end}]
<1>1. PICK batch \in SUBSET Ready : jobs' = [u \in batch |-> job(u)]
  BY DEF Recover
<1>2. /\ WindowEnd >= 0 /\ UNCHANGED <<world, filters, visited, pending, cleaner, proposals>>
  BY DEF Recover
<1>3. WindowEnd \in Nat /\ WindowStart \in Int /\ WindowStart <= oldest /\ oldest \in Nat
  BY <1>2, WindowInNumbers DEF RecovererInv, TypesFit
<1>4. Max({0, WindowStart}) \in {0, WindowStart} /\ Max({0, WindowStart}) \in Int
  <2>1. 0 \in Int
    OBVIOUS
  <2>2. QED
    BY <1>3, <2>1, MaxOfTwo, Zenon
<1>5. batch \subseteq DOMAIN filters /\ DOMAIN filters \subseteq Upkeeps
  BY DEF Ready, RecovererInv, TypesFit
<1>6. ASSUME NEW u \in batch
      PROVE  /\ job(u) \in Jobs
             /\ job(u).end <= WindowEnd
             /\ \A l \in job(u).logs : l.upkeep = u
             /\ \A l \in Logs : Within(l, u, job(u).end) => Tracked(l) \/ l \in job(u).logs
  <2> DEFINE r == range(u)
  <2>1. filters[u] \in Filters
    BY <1>5 DEF RecovererInv, TypesFit
  <2>2. /\ r.start \in Nat /\ r.end \in Nat /\ r.end <= WindowEnd
        /\ \A n \in Int : n < r.start => \/ n <= filters[u].lastRePoll
                                         \/ n < filters[u].since
                                         \/ n < Max({0, WindowStart})
    BY <1>3, <1>4, <2>1, RangeCovers
  <2> HIDE DEF range
  <2>3. ASSUME NEW l \in Logs, Within(l, u, r.end), l \notin job(u).logs
        PROVE  Tracked(l)
    <3>1. l.block \in Nat /\ l.block >= 1 /\ l.upkeep = u /\ l.block <= r.end
      BY <2>3, LogsInNumbers DEF Within
    <3>2. l.block < r.start
      BY <2>2, <2>3, <3>1
    <3>3. \/ l.block <= filters[u].lastRePoll
          \/ l.block < filters[u].since
          \/ l.block < Max({0, WindowStart})
      BY <2>2, <3>1, <3>2
    <3>4. filters[u].since = configBlock[u]
      BY <1>5 DEF RecovererInv, FiltersFit
    <3>5. CASE l.block <= filters[u].lastRePoll
      BY <1>5, <2>3, <3>5 DEF RecovererInv, FiltersFit, Within
    <3>6. CASE l.block < filters[u].since
      <4>1. filters[u].since \in Nat
        BY <2>1, LimitsAreNumbers DEF Filters
      <4>2. QED
        BY <2>3, <3>1, <3>4, <3>6, <4>1 DEF Within
    <3>7. CASE l.block < Max({0, WindowStart})
      BY <1>3, <1>4, <3>1, <3>7 DEF Tracked
    <3>8. QED
      BY <3>3, <3>5, <3>6, <3>7
  <2>4. job(u) \in Jobs
    BY <2>2 DEF Jobs
  <2>5. QED
    BY <2>2, <2>3, <2>4
<1> HIDE DEF job
<1>7. /\ DOMAIN jobs' = batch /\ batch \subseteq Upkeeps
      /\ \A u \in batch : jobs'[u] = job(u)
  BY <1>1, <1>5
<1>8. /\ jobs' \in [DOMAIN jobs' -> Jobs] /\ DOMAIN jobs' \subseteq Upkeeps
      /\ \A u \in DOMAIN jobs' : jobs'[u].end <= WindowEnd
  BY <1>1, <1>6, <1>7
<1>9. \A u \in batch : job(u).pc = "states"
  BY DEF job
<1>10. JobsFit'
  BY <1>2, <1>6, <1>7, <1>9 DEF JobsFit, Within, Tracked, world
<1>11. NothingLost
  BY <1>2, SameWorldLosesNothing
<1>12. FiltersFit'
  BY <1>2 DEF RecovererInv, FiltersFit, Within, Tracked, world
<1>13. pending' \subseteq Logs /\ DOMAIN visited' \subseteq Logs
  BY <1>2 DEF RecovererInv, TypesFit
<1>14. DOMAIN filters' \subseteq Upkeeps /\ filters' \in [DOMAIN filters' -> Filters]
  BY <1>2 DEF RecovererInv, TypesFit
<1>15. QED
  BY <1>2, <1>8, <1>10, <1>11, <1>12, <1>13, <1>14, JobStepKeepsInv

(* A job that is gone has nothing to say.                                    *)
LEMMA EndedJobsFit ==
  ASSUME RecovererInv, NEW u, JobEnds(u), NothingLost, UNCHANGED <<configBlock>>
  PROVE  /\ JobsFit'
         /\ DOMAIN jobs' \subseteq Upkeeps /\ jobs' \in [DOMAIN jobs' -> Jobs]
         /\ \A v \in DOMAIN jobs' : jobs'[v].end <= WindowEnd
<1>1. /\ DOMAIN jobs' = DOMAIN jobs \ {u}
      /\ \A v \in DOMAIN jobs' : jobs'[v] = jobs[v]
      /\ jobs' = [v \in DOMAIN jobs \ {u} |-> jobs[v]]
  BY DEF JobEnds
<1>2. JobsFit'
  BY <1>1 DEF RecovererInv, JobsFit, Within, NothingLost
<1>3. QED
  BY <1>1, <1>2 DEF RecovererInv, TypesFit

(* A job that fails leaves its filter to be read again.                      *)
LEMMA RecoverFailsKeepsInv ==
  ASSUME RecovererInv, NEW u \in DOMAIN jobs, RecoverFails(u)
  PROVE  RecovererInv'
<1>1. /\ JobEnds(u) /\ UNCHANGED <<world, filters, visited, pending, cleaner, proposals>>
  BY DEF RecoverFails
<1>2. NothingLost
  BY <1>1, SameWorldLosesNothing
<1>3. FiltersFit'
  BY <1>1 DEF RecovererInv, FiltersFit, Within, Tracked, world
<1>4. QED
  BY <1>1, <1>2, <1>3, EndedJobsFit, JobStepKeepsInv DEF RecovererInv, TypesFit, world

(* A log with a final state needs no tracking.                               *)
LEMMA ReadStatesKeepsInv ==
  ASSUME RecovererInv, NEW u \in DOMAIN jobs, ReadStates(u)
  PROVE  RecovererInv'
<1>1. /\ jobs' = [jobs EXCEPT ![u].pc = "populate", ![u].logs = @ \ known]
      /\ UNCHANGED <<world, filters, visited, pending, cleaner, proposals>>
  BY DEF ReadStates
<1>2. /\ jobs \in [DOMAIN jobs -> Jobs] /\ DOMAIN jobs \subseteq Upkeeps
      /\ \A v \in DOMAIN jobs : jobs[v].end <= WindowEnd
  BY DEF RecovererInv, TypesFit
<1>3. /\ DOMAIN jobs' = DOMAIN jobs
      /\ jobs'[u].end = jobs[u].end /\ jobs'[u].pc = "populate"
      /\ jobs'[u].logs = jobs[u].logs \ known
      /\ \A v \in DOMAIN jobs \ {u} : jobs'[v] = jobs[v]
      /\ jobs' \in [DOMAIN jobs' -> Jobs]
  BY <1>1, <1>2 DEF Jobs
<1>4. JobsFit'
  <2>1. ASSUME NEW l \in Logs, Within(l, u, jobs[u].end)
        PROVE  Tracked(l) \/ l \in jobs'[u].logs
    BY <1>3, <2>1 DEF RecovererInv, JobsFit, Tracked
  <2>2. \A v \in DOMAIN jobs' : \A l \in jobs'[v].logs : l.upkeep = v
    BY <1>3 DEF RecovererInv, JobsFit
  <2>3. \A v \in DOMAIN jobs \ {u}, l \in Logs :
          Within(l, v, jobs'[v].end)
            => Tracked(l) \/ (jobs'[v].pc # "update" /\ l \in jobs'[v].logs)
    BY <1>3 DEF RecovererInv, JobsFit
  <2>4. QED
    BY <1>1, <1>3, <2>1, <2>2, <2>3 DEF JobsFit, Within, Tracked, world
<1>5. NothingLost
  BY <1>1, SameWorldLosesNothing
<1>6. FiltersFit'
  BY <1>1 DEF RecovererInv, FiltersFit, Within, Tracked, world
<1>7. \A v \in DOMAIN jobs' : jobs'[v].end <= WindowEnd
  BY <1>2, <1>3
<1>8. QED
  BY <1>1, <1>2, <1>3, <1>4, <1>5, <1>6, <1>7, JobStepKeepsInv DEF RecovererInv, TypesFit

(* A job goes on when all its new logs are visited and pending.              *)
LEMMA PopulateKeepsInv ==
  ASSUME RecovererInv, NEW u \in DOMAIN jobs, PopulatePending(u)
  PROVE  RecovererInv'
<1> DEFINE new == jobs[u].logs \ DOMAIN visited
<1>1. PICK added \in SUBSET new :
        /\ pending' = pending \cup added
        /\ visited' = [l \in DOMAIN visited \cup added |->
                         IF l \in added THEN "fresh" ELSE visited[l]]
        /\ IF added = new THEN jobs' = [jobs EXCEPT ![u].pc = "update"] ELSE JobEnds(u)
  BY DEF PopulatePending
<1>2. UNCHANGED <<world, filters, cleaner, proposals>>
  BY DEF PopulatePending
<1>3. /\ jobs \in [DOMAIN jobs -> Jobs] /\ DOMAIN jobs \subseteq Upkeeps
      /\ \A v \in DOMAIN jobs : jobs[v].end <= WindowEnd
      /\ DOMAIN visited \subseteq Logs /\ pending \subseteq Logs
  BY DEF RecovererInv, TypesFit
<1>4. DOMAIN visited' = DOMAIN visited \cup added
  BY <1>1
<1>5. jobs[u].logs \subseteq Logs
  BY <1>3 DEF Jobs
<1>6. pending' \subseteq Logs /\ DOMAIN visited' \subseteq Logs
  BY <1>1, <1>3, <1>4, <1>5
<1>7. NothingLost
  BY <1>2, <1>4, SameWorldLosesNothing
<1>8. FiltersFit'
  BY <1>2, <1>7 DEF RecovererInv, FiltersFit, Within, NothingLost, world
<1>9. /\ JobsFit'
      /\ DOMAIN jobs' \subseteq Upkeeps /\ jobs' \in [DOMAIN jobs' -> Jobs]
      /\ \A v \in DOMAIN jobs' : jobs'[v].end <= WindowEnd
  <2>1. CASE added = new
    <3>1. jobs' = [jobs EXCEPT ![u].pc = "update"]
      BY <1>1, <2>1
    <3>2. /\ DOMAIN jobs' = DOMAIN jobs
          /\ jobs'[u].end = jobs[u].end /\ jobs'[u].logs = jobs[u].logs
          /\ \A v \in DOMAIN jobs \ {u} : jobs'[v] = jobs[v]
          /\ jobs' \in [DOMAIN jobs' -> Jobs]
      BY <1>3, <3>1 DEF Jobs
    <3>3. \A l \in jobs[u].logs : Tracked(l)'
      BY <1>4, <2>1 DEF Tracked
    <3>4. \A v \in DOMAIN jobs' : \A l \in jobs'[v].logs : l.upkeep = v
      BY <3>2 DEF RecovererInv, JobsFit
    <3>5. ASSUME NEW l \in Logs, Within(l, u, jobs[u].end)
          PROVE  Tracked(l)'
      BY <1>7, <3>3, <3>5 DEF RecovererInv, JobsFit, NothingLost
    <3>6. ASSUME NEW v \in DOMAIN jobs \ {u}, NEW l \in Logs, Within(l, v, jobs[v].end)
          PROVE  Tracked(l)' \/ (jobs[v].pc # "update" /\ l \in jobs[v].logs)
      BY <1>7, <3>6 DEF RecovererInv, JobsFit, NothingLost
    <3>7. JobsFit'
      BY <1>2, <3>2, <3>4, <3>5, <3>6 DEF JobsFit, Within, world
    <3>8. QED
      BY <1>3, <3>2, <3>7
  <2>2. CASE added # new
    BY <1>1, <1>2, <1>7, <2>2, EndedJobsFit DEF world
  <2>3. QED
    BY <2>1, <2>2
<1>10. DOMAIN filters' \subseteq Upkeeps /\ filters' \in [DOMAIN filters' -> Filters]
  BY <1>2 DEF RecovererInv, TypesFit
<1>11. QED
  BY <1>2, <1>6, <1>7, <1>8, <1>9, <1>10, JobStepKeepsInv

(* The end of the job goes to the filter of the upkeep, which may be another *)
(* one by now; what it is to track is tracked all the same.                  *)
LEMMA UpdateKeepsInv ==
  ASSUME RecovererInv, NEW u \in DOMAIN jobs, UpdateLastRePoll(u)
  PROVE  RecovererInv'
<1> DEFINE end == jobs[u].end
<1>1. /\ jobs[u].pc = "update" /\ JobEnds(u)
      /\ filters' = [v \in DOMAIN filters |->
                       IF v = u THEN [filters[v] EXCEPT !.lastRePoll = end] ELSE filters[v]]
      /\ UNCHANGED <<world, visited, pending, cleaner, proposals>>
  BY DEF UpdateLastRePoll
<1>2. end \in 0 .. MaxBlock
  <2>1. end \in Nat /\ end <= WindowEnd /\ latest <= MaxBlock
    BY LimitsAreNumbers DEF RecovererInv, TypesFit, Jobs
  <2>2. QED
    BY <2>1, WindowInNumbers, LimitsAreNumbers DEF RecovererInv
<1>3. /\ filters \in [DOMAIN filters -> Filters] /\ DOMAIN filters \subseteq Upkeeps
      /\ DOMAIN visited \subseteq Logs /\ pending \subseteq Logs
  BY DEF RecovererInv, TypesFit
<1> HIDE DEF end
<1>4. /\ DOMAIN filters' = DOMAIN filters
      /\ \A v \in DOMAIN filters :
           /\ filters'[v].since = filters[v].since
           /\ filters'[v].lastRePoll = IF v = u THEN end ELSE filters[v].lastRePoll
      /\ filters' \in [DOMAIN filters' -> Filters]
  BY <1>1, <1>2, <1>3 DEF Filters
<1>5. NothingLost
  BY <1>1, SameWorldLosesNothing
<1>6. FiltersFit'
  <2>1. ASSUME NEW v \in DOMAIN filters, NEW l \in Logs, Within(l, v, filters'[v].lastRePoll)
        PROVE  Tracked(l)
    <3>1. CASE v = u
      BY <1>1, <1>4, <2>1, <3>1 DEF RecovererInv, JobsFit, end
    <3>2. CASE v # u
      BY <1>4, <2>1, <3>2 DEF RecovererInv, FiltersFit
    <3>3. QED
      BY <3>1, <3>2
  <2>2. \A v \in DOMAIN filters : filters'[v].since = configBlock[v]
    BY <1>4 DEF RecovererInv, FiltersFit
  <2>3. QED
    BY <1>1, <1>4, <1>5, <2>1, <2>2 DEF FiltersFit, Within, NothingLost, world
<1>7. QED
  BY <1>1, <1>3, <1>4, <1>5, <1>6, EndedJobsFit, JobStepKeepsInv DEF world

-------------------------------------------------------------------------------
(* All steps together.                                                       *)

(* A step of the cleanup thread that only reads.                             *)
LEMMA CleanerReadKeepsInv ==
  ASSUME RecovererInv, UNCHANGED <<world, filters, visited, pending, jobs, proposals>>,
         CleanerFits'
  PROVE  RecovererInv'
<1>1. WindowEnd' = WindowEnd /\ WindowStart' = WindowStart
  BY SameWorldSameWindow
<1>2. TypesFit'
  BY <1>1 DEF RecovererInv, TypesFit, world
<1>3. FiltersFit' /\ JobsFit'
  BY SameWorldLosesNothing, FiltersAndJobsStay DEF world
<1>4. QED
  BY <1>1, <1>2, <1>3 DEF RecovererInv, world

(* A step that changes the lists only.                                       *)
LEMMA ListStepKeepsInv ==
  ASSUME RecovererInv, UNCHANGED <<world, filters, jobs, cleaner>>,
         DOMAIN visited' = DOMAIN visited,
         pending' \subseteq Logs, proposals' \subseteq Logs
  PROVE  RecovererInv'
<1>1. WindowEnd' = WindowEnd /\ WindowStart' = WindowStart
  BY SameWorldSameWindow
<1>2. TypesFit'
  BY <1>1 DEF RecovererInv, TypesFit, world
<1>3. FiltersFit' /\ JobsFit'
  BY SameWorldLosesNothing, FiltersAndJobsStay DEF world
<1>4. QED
  BY <1>1, <1>2, <1>3 DEF RecovererInv, CleanerFits, world

(* Some node has finished a log.                                             *)
LEMMA FinaliseKeepsInv ==
  ASSUME RecovererInv, NEW l \in Logs, Finalise(l)
  PROVE  RecovererInv'
<1>1. /\ known' = known \cup {l}
      /\ UNCHANGED <<latest, blocksInDay, oldest, changes, configBlock, filters,
                     visited, pending, jobs, cleaner, proposals>>
  BY DEF Finalise
<1>2. WindowEnd' = WindowEnd /\ WindowStart' = WindowStart
  BY <1>1 DEF WindowEnd, WindowStart
<1>3. TypesFit'
  BY <1>1, <1>2 DEF RecovererInv, TypesFit
<1>4. NothingLost
  BY <1>1 DEF NothingLost, Tracked
<1>5. CleanerFits'
  BY <1>1 DEF RecovererInv, CleanerFits
<1>6. QED
  BY <1>1, <1>2, <1>3, <1>4, <1>5, FiltersAndJobsStay DEF RecovererInv

(* Every step keeps the invariant.                                           *)
LEMMA NextKeepsInv == RecovererInv /\ [Next]_vars => RecovererInv'
<1> SUFFICES ASSUME RecovererInv, [Next]_vars
             PROVE  RecovererInv'
  OBVIOUS
<1>1. /\ latest \in 0 .. MaxBlock /\ latest \in Nat /\ MaxBlock \in Nat
      /\ blocksInDay \in Days /\ pending \subseteq Logs /\ proposals \subseteq Logs
      /\ configBlock \in [Upkeeps -> 0 .. latest]
      /\ WindowStart \in Int
  BY WindowInNumbers, LimitsAreNumbers DEF RecovererInv, TypesFit
<1>2. CASE NewBlock
  <2>1. latest' \in latest .. MaxBlock /\ blocksInDay' \in Days
    BY <1>1, <1>2 DEF NewBlock
  <2>2. QED
    BY <1>2, <2>1, WindowMoves DEF NewBlock
<1>3. ASSUME NEW l \in Logs, Finalise(l)
      PROVE  RecovererInv'
  BY <1>3, FinaliseKeepsInv
<1>4. ASSUME NEW d \in Days, UpdateBlockTime(d)
      PROVE  RecovererInv'
  <2>1. latest' \in latest .. MaxBlock /\ blocksInDay' \in Days
    BY <1>1, <1>4 DEF UpdateBlockTime
  <2>2. QED
    BY <1>4, <2>1, WindowMoves DEF UpdateBlockTime
<1>5. ASSUME NEW u \in Upkeeps, Configure(u)
      PROVE  RecovererInv'
  <2>1. latest \in configBlock[u] .. latest
    BY <1>1
  <2>2. QED
    BY <1>5, <2>1, FilterChangeKeepsInv DEF Configure
<1>6. ASSUME NEW u \in Upkeeps, Unpause(u)
      PROVE  RecovererInv'
  <2>1. configBlock[u] \in configBlock[u] .. latest
    BY <1>1
  <2>2. configBlock' = [configBlock EXCEPT ![u] = configBlock[u]]
    BY <1>1, <1>6 DEF Unpause
  <2>3. QED
    BY <1>6, <2>1, <2>2, FilterChangeKeepsInv DEF Unpause
<1>7. ASSUME NEW u \in DOMAIN filters, UnregisterFilter(u)
      PROVE  RecovererInv'
  BY <1>7, UnregisterKeepsInv
<1>8. ASSUME NEW l \in DOMAIN visited, Age(l)
      PROVE  RecovererInv'
  BY <1>1, <1>8, ListStepKeepsInv DEF Age, world
<1>9. CASE Recover
  BY <1>9, RecoverKeepsInv
<1>10. ASSUME NEW u \in DOMAIN jobs, JobStep(u) \/ RecoverFails(u)
       PROVE  RecovererInv'
  BY <1>10, ReadStatesKeepsInv, PopulateKeepsInv, UpdateKeepsInv, RecoverFailsKeepsInv
     DEF JobStep
<1>11. CASE Clean
  BY <1>11, CleanerReadKeepsInv DEF Clean, CleanerFits
<1>12. CASE CleanStates
  <2>1. CleanerFits'
    BY <1>1, <1>12 DEF CleanStates, CleanerFits, RecovererInv, world
  <2>2. QED
    BY <1>12, <2>1, CleanerReadKeepsInv DEF CleanStates
<1>13. CASE CleanFails
  BY <1>13, CleanerReadKeepsInv DEF CleanFails, CleanerFits, Idle
<1>14. CASE Expire
  BY <1>14, ExpireKeepsInv
<1>15. ASSUME NEW chosen \in SUBSET pending, Propose(chosen)
       PROVE  RecovererInv'
  BY <1>1, <1>15, ListStepKeepsInv DEF Propose
<1>16. CASE UNCHANGED vars
  BY <1>1, <1>16, ListStepKeepsInv DEF vars
<1>17. QED
  BY <1>2, <1>3, <1>4, <1>5, <1>6, <1>7, <1>8, <1>9, <1>10, <1>11, <1>12, <1>13,
     <1>14, <1>15, <1>16 DEF Next

(* Nothing was read yet, and no log is in block 0.                           *)
LEMMA InitSatisfiesInv == Init => RecovererInv
<1> SUFFICES ASSUME Init
             PROVE  RecovererInv
  OBVIOUS
<1>1. /\ latest = 0 /\ blocksInDay \in Days /\ oldest = 0
      /\ filters = [u \in Upkeeps |-> [lastRePoll |-> 0, since |-> 0]]
      /\ configBlock = [u \in Upkeeps |-> 0]
      /\ known = {} /\ visited = << >> /\ pending = {} /\ jobs = << >>
      /\ cleaner = Idle /\ proposals = {}
  BY DEF Init
<1>2. 0 \in 0 .. MaxBlock /\ 0 \in 0 .. latest
  BY <1>1, LimitsAreNumbers
<1>3. [lastRePoll |-> 0, since |-> 0] \in Filters
  BY <1>2 DEF Filters
<1>4. TypesFit
  BY <1>1, <1>2, <1>3 DEF TypesFit
<1>5. WindowStart <= oldest
  <2>1. 0 - blocksInDay \in Int /\ 0 - blocksInDay <= 0 /\ latest - blocksInDay = 0 - blocksInDay
    BY <1>1, LimitsAreNumbers
  <2>2. WindowEnd \in Int
    BY <1>4, WindowInNumbers
  <2>3. Min({latest - blocksInDay, WindowEnd}) <= latest - blocksInDay
    BY <2>1, <2>2, MinOfTwo, Zenon
  <2>4. WindowStart \in Int /\ WindowStart <= latest - blocksInDay
    BY <1>4, <2>3, WindowInNumbers DEF WindowStart
  <2>5. QED
    BY <1>1, <2>1, <2>4
<1>6. FiltersFit
  BY <1>1, LogsInNumbers DEF FiltersFit, Within
<1>7. CleanerFits /\ JobsFit
  BY <1>1 DEF CleanerFits, JobsFit, Idle
<1>8. QED
  BY <1>4, <1>5, <1>6, <1>7 DEF RecovererInv

(* Filters, jobs and the cleanup agree with what is tracked in every         *)
(* reachable state.                                                          *)
THEOREM RecovererInvHolds == Spec => []RecovererInv
BY InitSatisfiesInv, NextKeepsInv, PTL DEF Spec

-------------------------------------------------------------------------------
(* The pending list.                                                         *)

Of(S, u) == {l \in S : l.upkeep = u}

(* What fits is not too much.                                                *)
LEMMA AddedLogsFit ==
  ASSUME NEW S \in SUBSET Logs, NEW T \in SUBSET Logs, NEW u,
         Cardinality(Of(T \ S, u)) <= MAX_PENDING - Cardinality(Of(S, u))
  PROVE  Cardinality(Of(S \cup T, u)) <= MAX_PENDING
<1> DEFINE A == Of(S, u)
           B == Of(T \ S, u)
<1>1. IsFiniteSet(A) /\ IsFiniteSet(B)
  <2>1. IsFiniteSet(Logs) /\ A \in SUBSET Logs /\ B \in SUBSET Logs
    BY RecovererAssumption DEF Of
  <2>2. QED
    BY <2>1, FS_Subset
<1>2. A \cap B = {} /\ Of(S \cup T, u) = A \cup B
  BY DEF Of
<1>3. Cardinality(A) \in Nat /\ Cardinality(B) \in Nat
  BY <1>1, FS_CardinalityType
<1>4. Cardinality(B) <= MAX_PENDING - Cardinality(A)
  OBVIOUS
<1>5. Of(S \cup T, u) = A \cup B
  BY <1>2
<1>6. Cardinality(A \cap B) = 0
  BY <1>2, FS_EmptySet
<1> HIDE DEF A, B
<1>7. Cardinality(A \cup B) = Cardinality(A) + Cardinality(B) - Cardinality(A \cap B)
  BY <1>1, FS_Union
<1>8. Cardinality(A \cup B) <= MAX_PENDING
  BY <1>3, <1>4, <1>6, <1>7, LimitsAreNumbers
<1>9. QED
  BY <1>5, <1>8

(* A list that only loses logs keeps its bound.                              *)
LEMMA FewerLogsFit ==
  ASSUME NEW S \in SUBSET Logs, NEW T \in SUBSET S, NEW u,
         Cardinality(Of(S, u)) <= MAX_PENDING
  PROVE  /\ Cardinality(Of(T, u)) \in Nat
         /\ Cardinality(Of(T, u)) <= Cardinality(Of(S, u))
         /\ Cardinality(Of(T, u)) <= MAX_PENDING
<1>1. /\ IsFiniteSet(Logs) /\ Of(S, u) \in SUBSET Logs /\ Of(T, u) \in SUBSET Of(S, u)
      /\ Of(T, u) \in SUBSET Logs
  BY RecovererAssumption DEF Of
<1>2. /\ IsFiniteSet(Of(S, u)) /\ IsFiniteSet(Of(T, u))
      /\ Cardinality(Of(T, u)) <= Cardinality(Of(S, u))
  BY <1>1, FS_Subset
<1>3. Cardinality(Of(T, u)) \in Nat /\ Cardinality(Of(S, u)) \in Nat
  BY <1>2, FS_CardinalityType
<1>4. QED
  BY <1>2, <1>3, LimitsAreNumbers

(* addPending by the recovery thread.                                        *)
LEMMA PopulateKeepsBound ==
  ASSUME RecovererInv, PendingBounded, NEW u \in DOMAIN jobs, PopulatePending(u)
  PROVE  PendingBounded'
<1>1. PICK added \in SUBSET (jobs[u].logs \ DOMAIN visited) :
        /\ Cardinality(added \ pending)
             = Min({Cardinality((jobs[u].logs \ DOMAIN visited) \ pending), RoomFor(u)})
        /\ pending' = pending \cup added
  BY DEF PopulatePending
<1>2. /\ pending \in SUBSET Logs /\ jobs[u].logs \subseteq Logs /\ u \in Upkeeps
      /\ added \in SUBSET Logs /\ \A l \in added : l.upkeep = u
  BY <1>1 DEF RecovererInv, TypesFit, JobsFit, Jobs
<1>3. \A v \in Upkeeps : Cardinality(Of(pending, v)) <= MAX_PENDING
  BY DEF PendingBounded, Of
<1>4. \A v \in Upkeeps : Cardinality(Of(pending, v)) \in Nat
  BY <1>2, <1>3, FewerLogsFit
<1>5. RoomFor(u) = MAX_PENDING - Cardinality(Of(pending, u)) /\ RoomFor(u) \in Int
  BY <1>2, <1>4, LimitsAreNumbers DEF RoomFor, Of
<1>6. Cardinality(added \ pending) <= RoomFor(u)
  <2> DEFINE fresh == (jobs[u].logs \ DOMAIN visited) \ pending
  <2>1. IsFiniteSet(Logs) /\ fresh \in SUBSET Logs
    BY <1>2, RecovererAssumption
  <2>2. Cardinality(fresh) \in Int
    BY <2>1, FS_Subset, FS_CardinalityType
  <2>3. Min({Cardinality(fresh), RoomFor(u)}) <= RoomFor(u)
    BY <1>5, <2>2, MinOfTwo, Zenon
  <2>4. QED
    BY <1>1, <2>3
<1>7. ASSUME NEW v \in Upkeeps
      PROVE  Cardinality(Of(pending', v)) <= MAX_PENDING
  <2>1. CASE v = u
    <3>1. Of(added \ pending, v) = added \ pending
      BY <1>2, <2>1 DEF Of
    <3>2. QED
      BY <1>1, <1>2, <1>5, <1>6, <2>1, <3>1, AddedLogsFit
  <2>2. CASE v # u
    <3>1. Of(added \ pending, v) = {}
      BY <1>2, <2>2 DEF Of
    <3>2. Cardinality(Of(added \ pending, v)) = 0
      BY <3>1, FS_EmptySet
    <3>3. Cardinality(Of(pending, v)) \in Nat /\ Cardinality(Of(pending, v)) <= MAX_PENDING
      BY <1>3, <1>4
    <3>4. Cardinality(Of(added \ pending, v)) <= MAX_PENDING - Cardinality(Of(pending, v))
      BY <3>2, <3>3, LimitsAreNumbers
    <3>5. QED
      BY <1>1, <1>2, <3>4, AddedLogsFit
  <2>3. QED
    BY <2>1, <2>2
<1>8. QED
  BY <1>7 DEF PendingBounded, Of

(* addPending by the cleanup thread, after the old logs have gone.           *)
LEMMA ExpireKeepsBound ==
  ASSUME RecovererInv, PendingBounded, Expire
  PROVE  PendingBounded'
<1> DEFINE unknown == (cleaner.logs \ cleaner.known) \cap DOMAIN visited
           tooOld  == {l \in unknown : l.block < cleaner.start}
           rest    == pending \ tooOld
           again   == unknown \ tooOld
<1>1. PICK added \in SUBSET again :
        /\ \A u \in Upkeeps :
             \E room \in RoomFor(u) .. MAX_PENDING - Cardinality(Of(rest, u)) :
               Cardinality(Of(added \ rest, u)) = Min({Cardinality(Of(again \ rest, u)), room})
        /\ pending' = rest \cup added
  <2> DEFINE Has(S, u) == {l \in S : l.upkeep = u}
             Right(added) ==
               \A u \in Upkeeps :
                 \E room \in RoomFor(u) .. MAX_PENDING - Cardinality(Has(rest, u)) :
                   /\ Cardinality(Has(added \ rest, u))
                        = Min({Cardinality(Has(again \ rest, u)), room})
                   /\ Cardinality(Has(added \ rest, u)) < room => Has(added, u) = Has(again, u)
                   /\ room = 0 => Has(added, u) = {}
  <2>1. PICK added \in SUBSET again : Right(added) /\ pending' = rest \cup added
    BY DEF Expire
  <2> HIDE DEF rest, again
  <2>2. QED
    BY <2>1 DEF Of
<1>2. rest \in SUBSET pending /\ pending \in SUBSET Logs /\ rest \in SUBSET Logs
  BY DEF RecovererInv, TypesFit
<1>3. again \in SUBSET Logs /\ added \in SUBSET Logs
  BY <1>1 DEF RecovererInv, TypesFit
<1> HIDE DEF rest, again
<1>4. ASSUME NEW u \in Upkeeps
      PROVE  Cardinality(Of(pending', u)) <= MAX_PENDING
  <2>1. Cardinality(Of(pending, u)) <= MAX_PENDING
    BY DEF PendingBounded, Of
  <2>2. Cardinality(Of(rest, u)) \in Nat /\ Cardinality(Of(pending, u)) \in Nat
    BY <1>2, <2>1, FewerLogsFit
  <2>3. PICK room \in RoomFor(u) .. MAX_PENDING - Cardinality(Of(rest, u)) :
          Cardinality(Of(added \ rest, u)) = Min({Cardinality(Of(again \ rest, u)), room})
    BY <1>1
  <2>4. RoomFor(u) \in Int
    BY <2>2, LimitsAreNumbers DEF RoomFor, Of
  <2>5. room \in Int /\ room <= MAX_PENDING - Cardinality(Of(rest, u))
    BY <2>2, <2>3, <2>4, LimitsAreNumbers
  <2>6. Cardinality(Of(again \ rest, u)) \in Int
    <3>1. IsFiniteSet(Logs) /\ Of(again \ rest, u) \in SUBSET Logs
      BY <1>3, RecovererAssumption DEF Of
    <3>2. IsFiniteSet(Of(again \ rest, u))
      BY <3>1, FS_Subset
    <3>3. Cardinality(Of(again \ rest, u)) \in Nat
      BY <3>2, FS_CardinalityType
    <3>4. QED
      BY <3>3
  <2>7. Min({Cardinality(Of(again \ rest, u)), room}) \in {Cardinality(Of(again \ rest, u)), room}
        /\ Min({Cardinality(Of(again \ rest, u)), room}) <= room
    BY <2>5, <2>6, MinOfTwo, Zenon
  <2>8. Cardinality(Of(added \ rest, u)) <= MAX_PENDING - Cardinality(Of(rest, u))
    BY <2>2, <2>3, <2>5, <2>6, <2>7, LimitsAreNumbers
  <2>9. QED
    BY <1>1, <1>2, <1>3, <2>8, AddedLogsFit
<1>5. QED
  BY <1>4 DEF PendingBounded, Of

(* Only these two add.                                                       *)
LEMMA NextKeepsBound == RecovererInv /\ PendingBounded /\ [Next]_vars => PendingBounded'
<1> SUFFICES ASSUME RecovererInv, PendingBounded, [Next]_vars
             PROVE  PendingBounded'
  OBVIOUS
<1>1. ASSUME pending' \in SUBSET pending
      PROVE  PendingBounded'
  <2>1. pending \in SUBSET Logs
    BY DEF RecovererInv, TypesFit
  <2>2. \A u \in Upkeeps : Cardinality(Of(pending, u)) <= MAX_PENDING
    BY DEF PendingBounded, Of
  <2>3. \A u \in Upkeeps : Cardinality(Of(pending', u)) <= MAX_PENDING
    BY <1>1, <2>1, <2>2, FewerLogsFit
  <2>4. QED
    BY <2>3 DEF PendingBounded, Of
<1>2. ASSUME NEW u \in DOMAIN jobs, PopulatePending(u)
      PROVE  PendingBounded'
  BY <1>2, PopulateKeepsBound
<1>3. CASE Expire
  BY <1>3, ExpireKeepsBound
<1>4. \/ pending' \in SUBSET pending
      \/ \E u \in DOMAIN jobs : PopulatePending(u)
      \/ Expire
  BY DEF Next, NewBlock, Finalise, UpdateBlockTime, Configure, Unpause, UnregisterFilter, Age,
         Recover, JobStep, ReadStates, UpdateLastRePoll, RecoverFails, Clean, CleanStates,
         CleanFails, Propose, vars
<1>5. QED
  BY <1>1, <1>2, <1>3, <1>4

-------------------------------------------------------------------------------
(* The promises of the recoverer.                                            *)

(* Positions stay below the window's end, lists hold logs of the chain.      *)
THEOREM TypeCorrect == Spec => []TypeOK
<1>1. RecovererInv => TypeOK
  <2> SUFFICES ASSUME RecovererInv
               PROVE  TypeOK
    OBVIOUS
  <2>1. \A u \in DOMAIN jobs : jobs[u].end \in 0 .. WindowEnd
    BY WindowInNumbers DEF RecovererInv, TypesFit, Jobs
  <2>2. QED
    BY <2>1 DEF RecovererInv, TypesFit, TypeOK, Filters
<1>2. QED
  BY <1>1, RecovererInvHolds, PTL

(* A log that will not be read again and has never left the window has a     *)
(* final state or is in the cache.                                           *)
THEOREM RepolledLogsAlwaysTracked == Spec => []RepolledLogsAreTracked
<1>1. RecovererInv => RepolledLogsAreTracked
  <2> SUFFICES ASSUME RecovererInv, NEW l \in Logs, Repolled(l), l.block >= oldest
               PROVE  l \in known \cup DOMAIN visited
    BY DEF RepolledLogsAreTracked
  <2>1. Tracked(l)
    BY DEF Repolled, RecovererInv, FiltersFit, Within
  <2>2. ~(l.block < oldest)
    BY LogsInNumbers DEF RecovererInv, TypesFit
  <2>3. QED
    BY <2>1, <2>2 DEF Tracked
<1>2. QED
  BY <1>1, RecovererInvHolds, PTL

(* No upkeep has more than its share of the pending list, though two threads *)
(* add to it.                                                                *)
THEOREM PendingAlwaysBounded == Spec => []PendingBounded
<1>1. Init => PendingBounded
  <2> SUFFICES ASSUME Init
               PROVE  PendingBounded
    OBVIOUS
  <2>1. \A u \in Upkeeps : {l \in pending : l.upkeep = u} = {}
    BY DEF Init
  <2>2. QED
    BY <2>1, FS_EmptySet, LimitsAreNumbers DEF PendingBounded
<1>2. QED
  BY <1>1, NextKeepsBound, RecovererInvHolds, PTL DEF Spec
================================================================================
