-------------------------- MODULE UpkeepRegistryProofs --------------------------
(*****************************************************************************)
(* The upkeeps as the automation node follows them, for every set of         *)
(* upkeeps, lookback and number of failed calls, and however many blocks.    *)
(*                                                                           *)
(* Three threads pass configs and blocks on to each other, read at different *)
(* moments and from different heads.  What survives of each is where it      *)
(* comes from: the config from an event that set one, and the block from the *)
(* same event, an earlier one, or an unpause (Traced).  Such facts stay true *)
(* when blocks are added, so it does not matter how late they are used.      *)
(*****************************************************************************)
EXTENDS UpkeepRegistry, SequenceTheorems, FiniteSetTheorems, WellFoundedInduction, TLAPS

Kinds == {"registered", "config", "paused", "unpaused"}
ConfigEvents == {"registered", "config"}

Events == [kind : Kinds, upkeep : Upkeeps]
Logs == [kind : Kinds, upkeep : Upkeeps, block : Nat]

(* An upkeep's first event is its registration, and no other one is.         *)
ChainInv ==
  /\ chain \in Seq(Events)
  /\ \A m, n \in 1 .. Latest :
       m < n /\ chain[m].upkeep = chain[n].upkeep => chain[n].kind # "registered"
  /\ \A n \in 1 .. Latest : \E m \in 1 .. n :
       chain[m].upkeep = chain[n].upkeep /\ chain[m].kind = "registered"

(* A config of upkeep u that counts from this block.                         *)
Traced(u, config, block) ==
  /\ config \in BlocksOf(ConfigEvents, u, Latest)
  /\ block \in 0 .. config \cup BlocksOf({"unpaused"}, u, Latest)

Unpaused(u, block) == block \in {0} \cup BlocksOf({"unpaused"}, u, Latest)

FilterInv ==
  /\ DOMAIN filters \subseteq Upkeeps
  /\ \A u \in DOMAIN filters : Traced(u, filters[u].config, filters[u].block)

LogInv(l) == l \in Logs /\ l.block \in 1 .. Latest /\ l \in LogsOf(l.block)

QueueInv ==
  /\ queue \in Seq(Logs)
  /\ \A i \in 1 .. Len(queue) : LogInv(queue[i]) /\ queue[i] \notin processed
  /\ \A i, j \in 1 .. Len(queue) : i # j => queue[i] # queue[j]
  /\ \A l \in processed : LogInv(l)

WorkerInv ==
  \/ worker = Idle
  \/ worker.upkeep \in Upkeeps /\
     \/ worker.pc = "unregister"
     \/ /\ worker.pc = "fetch"
        /\ worker.block \in BlocksOf({"registered", "unpaused"}, worker.upkeep, Latest)
     \/ worker.pc = "register" /\ Traced(worker.upkeep, worker.config, worker.block)

NumbersOfUpkeeps == UNION {[S -> Nat] : S \in SUBSET Upkeeps}

Registering == [pc : {"register"}, ids : SUBSET Upkeeps,
                config : NumbersOfUpkeeps, block : NumbersOfUpkeeps]

RefresherInv ==
  \/ refresher = Idle
  \/ refresher.ids \subseteq Upkeeps /\
     \/ refresher.pc \in {"reset", "inactive", "prune", "unpaused"}
     \/ /\ refresher.pc = "configs"
        /\ \A u \in refresher.ids : Unpaused(u, refresher.unpaused[u])
     \/ /\ refresher \in Registering
        /\ refresher.ids \subseteq DOMAIN refresher.config
        /\ \A u \in refresher.ids :
             IF refresher.config[u] = 0 THEN Unpaused(u, refresher.block[u])
             ELSE Traced(u, refresher.config[u], refresher.block[u])

RegistryInv ==
  /\ ChainInv
  /\ {head, final, lastPoll} \subseteq 0 .. Latest
  /\ active \subseteq Upkeeps
  /\ FilterInv /\ QueueInv /\ WorkerInv /\ RefresherInv

-------------------------------------------------------------------------------
(* The last block of an event.                                               *)

(* Numbers up to a bound have a greatest one.                                *)
LEMMA MaxIsGreatest ==
  ASSUME NEW h \in Nat, NEW S \in SUBSET (0 .. h), S # {}
  PROVE  Max(S) \in S /\ \A x \in S : x <= Max(S)
<1> DEFINE R == OpToRel(<, Nat)
           T == {h - x : x \in S}
<1>1. \A x, y \in Nat : x < y => <<x, y>> \in R
  BY DEF OpToRel
<1>2. IsWellFoundedOn(R, Nat)
  BY NatLessThanWellFounded
<1> HIDE DEF R
<1>3. PICK z \in T : \A y \in T : <<y, z>> \notin R
  <2>1. T \subseteq Nat
    OBVIOUS
  <2>2. T # {}
    <3>1. PICK x \in S : TRUE
      OBVIOUS
    <3>2. h - x \in T
      BY <3>1
    <3>3. QED
      BY <3>2
  <2> HIDE DEF T
  <2>3. QED
    BY <1>2, <2>1, <2>2, WFMin
<1>4. PICK m \in S : z = h - m
  OBVIOUS
<1>5. ASSUME NEW x \in S
      PROVE  m >= x
  <2>1. h - x \in T /\ h - x \in Nat /\ z \in Nat
    OBVIOUS
  <2>2. ~(h - x < h - m)
    BY <1>1, <1>3, <1>4, <2>1
  <2>3. QED
    BY <2>2
<1>6. Max(S) \in S /\ \A x \in S : Max(S) >= x
  BY <1>5 DEF Max
<1>7. QED
  BY <1>6

LEMMA LastOfIsLast ==
  ASSUME NEW kinds, NEW u, NEW h \in Nat
  PROVE  /\ LastOf(kinds, u, h) \in {0} \cup BlocksOf(kinds, u, h)
         /\ LastOf(kinds, u, h) \in 0 .. h
         /\ \A n \in BlocksOf(kinds, u, h) : n <= LastOf(kinds, u, h)
<1>1. {0} \cup BlocksOf(kinds, u, h) \subseteq 0 .. h
  BY DEF BlocksOf
<1>2. QED
  BY <1>1, MaxIsGreatest DEF LastOf

(* Up to a later block there are more events.                                *)
LEMMA BlocksOfGrow ==
  ASSUME NEW kinds, NEW u, NEW h \in Nat, NEW k \in Nat, h <= k
  PROVE  BlocksOf(kinds, u, h) \subseteq BlocksOf(kinds, u, k)
BY DEF BlocksOf

LEMMA ConfigAtIsConfig ==
  ASSUME RegistryInv, NEW u, NEW h \in 0 .. Latest
  PROVE  /\ ConfigAt(u, h) \in Nat
         /\ ConfigAt(u, h) # 0 => ConfigAt(u, h) \in BlocksOf(ConfigEvents, u, Latest)
<1>1. Latest \in Nat
  BY LenProperties DEF RegistryInv, ChainInv, Latest
<1>2. h \in Nat /\ h <= Latest
  BY <1>1
<1>3. ConfigAt(u, h) \in {0} \cup BlocksOf(ConfigEvents, u, h) /\ ConfigAt(u, h) \in 0 .. h
  BY <1>2, LastOfIsLast DEF ConfigAt, ConfigEvents
<1>4. QED
  BY <1>1, <1>2, <1>3, BlocksOfGrow

-------------------------------------------------------------------------------
(* What is true of the past stays true.                                      *)

LEMMA TracesLast ==
  ASSUME Latest \in Nat, Latest' \in Nat, Latest <= Latest',
         \A n \in 1 .. Latest : chain'[n] = chain[n]
  PROVE  /\ \A u, config, block : Traced(u, config, block) => Traced(u, config, block)'
         /\ \A u, block : Unpaused(u, block) => Unpaused(u, block)'
         /\ \A l : LogInv(l) => LogInv(l)'
         /\ \A kinds, u : BlocksOf(kinds, u, Latest) \subseteq BlocksOf(kinds, u, Latest)'
<1>1. ASSUME NEW kinds, NEW u
      PROVE  BlocksOf(kinds, u, Latest) \subseteq BlocksOf(kinds, u, Latest)'
  BY DEF BlocksOf
<1>2. \A u, config, block : Traced(u, config, block) => Traced(u, config, block)'
  BY <1>1 DEF Traced, ConfigEvents
<1>3. \A u, block : Unpaused(u, block) => Unpaused(u, block)'
  BY <1>1 DEF Unpaused
<1>4. ASSUME NEW l, LogInv(l)
      PROVE  LogInv(l)'
  BY <1>4 DEF LogInv, LogsOf
<1>5. QED
  BY <1>1, <1>2, <1>3, <1>4

LEMMA LogsKept ==
  ASSUME QueueInv, \A l : LogInv(l) => LogInv(l)', UNCHANGED <<queue, processed>>
  PROVE  QueueInv'
BY DEF QueueInv

LEMMA FiltersKept ==
  ASSUME FilterInv, UNCHANGED filters,
         \A u, config, block : Traced(u, config, block) => Traced(u, config, block)'
  PROVE  FilterInv'
BY DEF FilterInv

LEMMA WorkerKept ==
  ASSUME WorkerInv, UNCHANGED worker,
         \A u, config, block : Traced(u, config, block) => Traced(u, config, block)',
         \A kinds, u : BlocksOf(kinds, u, Latest) \subseteq BlocksOf(kinds, u, Latest)'
  PROVE  WorkerInv'
BY DEF WorkerInv

LEMMA RefresherKept ==
  ASSUME RefresherInv, UNCHANGED refresher,
         \A u, config, block : Traced(u, config, block) => Traced(u, config, block)',
         \A u, block : Unpaused(u, block) => Unpaused(u, block)'
  PROVE  RefresherInv'
BY DEF RefresherInv

(* A step that adds no block.                                                *)
LEMMA ChainKept ==
  ASSUME RegistryInv, UNCHANGED chain
  PROVE  /\ Latest \in Nat /\ Latest' = Latest /\ ChainInv'
         /\ \A u, config, block : Traced(u, config, block) => Traced(u, config, block)'
         /\ \A u, block : Unpaused(u, block) => Unpaused(u, block)'
         /\ \A l : LogInv(l) => LogInv(l)'
         /\ \A kinds, u : BlocksOf(kinds, u, Latest) \subseteq BlocksOf(kinds, u, Latest)'
<1>1. Latest \in Nat /\ Latest' = Latest
  BY LenProperties DEF RegistryInv, ChainInv, Latest
<1>2. ChainInv'
  BY <1>1 DEF RegistryInv, ChainInv
<1>3. QED
  BY <1>1, <1>2, TracesLast

-------------------------------------------------------------------------------
(* The contract.                                                             *)

LEMMA EventKeepsInv ==
  ASSUME RegistryInv, NEW kind \in Kinds, NEW u \in Upkeeps, Event(kind, u)
  PROVE  RegistryInv'
<1> DEFINE e == [kind |-> kind, upkeep |-> u]
           n == Latest + 1
<1>1. e \in Events /\ e.kind = kind /\ e.upkeep = u
  BY DEF Events
<1>2. chain' = Append(chain, e) /\ chain \in Seq(Events)
  BY DEF Event, RegistryInv, ChainInv
<1>3. /\ Latest \in Nat /\ Latest' = n
      /\ chain' \in Seq(Events)
      /\ \A i \in 1 .. Latest : chain'[i] = chain[i]
      /\ chain'[n] = e
  BY <1>1, <1>2, AppendProperties, LenProperties DEF Latest
<1>4. /\ \A v, config, block : Traced(v, config, block) => Traced(v, config, block)'
      /\ \A v, block : Unpaused(v, block) => Unpaused(v, block)'
      /\ \A l : LogInv(l) => LogInv(l)'
      /\ \A kinds, v : BlocksOf(kinds, v, Latest) \subseteq BlocksOf(kinds, v, Latest)'
  BY <1>3, TracesLast
<1> HIDE DEF e
<1>5. kind = "registered" => \A m \in 1 .. Latest : chain[m].upkeep # u
  <2>1. SUFFICES ASSUME kind = "registered", NEW m \in 1 .. Latest, chain[m].upkeep = u
                 PROVE  FALSE
    OBVIOUS
  <2>2. PICK i \in 1 .. m : chain[i].upkeep = u /\ chain[i].kind = "registered"
    BY <2>1 DEF RegistryInv, ChainInv
  <2>3. i \in BlocksOf({"registered", "paused", "unpaused"}, u, Latest) /\ i # 0
    BY <1>3, <2>2 DEF BlocksOf
  <2>4. LastOf({"registered", "paused", "unpaused"}, u, Latest) # 0
    BY <1>3, <2>2, <2>3, LastOfIsLast
  <2>5. StatusAt(u, Latest) = "none"
    BY <2>1 DEF Event
  <2>6. QED
    BY <2>4, <2>5 DEF StatusAt
<1>6. kind # "registered" => \E m \in 1 .. Latest : chain[m].upkeep = u
  <2>1. SUFFICES ASSUME kind # "registered"
                 PROVE  \E m \in 1 .. Latest : chain[m].upkeep = u
    OBVIOUS
  <2>2. StatusAt(u, Latest) # "none"
    BY <2>1 DEF Event, Kinds
  <2>3. LastOf({"registered", "paused", "unpaused"}, u, Latest) # 0
    BY <2>2 DEF StatusAt
  <2>4. LastOf({"registered", "paused", "unpaused"}, u, Latest)
          \in BlocksOf({"registered", "paused", "unpaused"}, u, Latest)
    BY <1>3, <2>3, LastOfIsLast
  <2>5. QED
    BY <2>4 DEF BlocksOf
<1>7. ChainInv'
  <2>1. ASSUME NEW i \in 1 .. n, NEW j \in 1 .. n, i < j, chain'[i].upkeep = chain'[j].upkeep
        PROVE  chain'[j].kind # "registered"
    <3>1. i \in 1 .. Latest
      BY <1>3, <2>1
    <3>2. CASE j = n
      BY <1>1, <1>3, <1>5, <2>1, <3>1, <3>2
    <3>3. CASE j # n
      <4>1. j \in 1 .. Latest
        BY <1>3, <3>3
      <4>2. QED
        BY <1>3, <2>1, <3>1, <4>1 DEF RegistryInv, ChainInv
    <3>4. QED
      BY <3>2, <3>3
  <2>2. ASSUME NEW j \in 1 .. n
        PROVE  \E m \in 1 .. j : chain'[m].upkeep = chain'[j].upkeep
                                 /\ chain'[m].kind = "registered"
    <3>1. ASSUME NEW k \in 1 .. Latest, k <= j, chain[k].upkeep = chain'[j].upkeep
          PROVE  \E m \in 1 .. j : chain'[m].upkeep = chain'[j].upkeep
                                   /\ chain'[m].kind = "registered"
      <4>1. PICK m \in 1 .. k : chain[m].upkeep = chain[k].upkeep /\ chain[m].kind = "registered"
        BY DEF RegistryInv, ChainInv
      <4>2. m \in 1 .. j /\ chain'[m] = chain[m]
        BY <1>3, <3>1, <4>1
      <4>3. QED
        BY <3>1, <4>1, <4>2
    <3>2. CASE j # n
      <4>1. j \in 1 .. Latest /\ chain'[j] = chain[j]
        BY <1>3, <3>2
      <4>2. QED
        BY <3>1, <4>1
    <3>3. CASE j = n /\ kind = "registered"
      BY <1>1, <1>3, <3>3
    <3>4. CASE j = n /\ kind # "registered"
      <4>1. PICK k \in 1 .. Latest : chain[k].upkeep = u
        BY <1>6, <3>4
      <4>2. k <= j /\ chain'[j].upkeep = u
        BY <1>1, <1>3, <3>4
      <4>3. QED
        BY <3>1, <4>1, <4>2
    <3>5. QED
      BY <3>2, <3>3, <3>4
  <2>3. QED
    BY <1>3, <2>1, <2>2 DEF ChainInv
<1>8. UNCHANGED <<head, final, active, filters, lastPoll, queue, processed, worker, refresher>>
  BY DEF Event
<1>9. FilterInv' /\ QueueInv' /\ WorkerInv' /\ RefresherInv'
  BY <1>4, <1>8, FiltersKept, LogsKept, WorkerKept, RefresherKept DEF RegistryInv
<1>10. {head, final, lastPoll}' \subseteq 0 .. Latest' /\ (active \subseteq Upkeeps)'
  BY <1>3, <1>8 DEF RegistryInv
<1>11. QED
  BY <1>7, <1>9, <1>10 DEF RegistryInv

LEMMA BlocksKeepInv ==
  ASSUME RegistryInv, NewHead \/ Finalise
  PROVE  RegistryInv'
<1>1. UNCHANGED <<chain, active, filters, lastPoll, queue, processed, worker, refresher>>
  BY DEF NewHead, Finalise
<1>2. Latest \in Nat /\ Latest' = Latest
  BY <1>1, ChainKept
<1>3. head' \in 0 .. Latest /\ final' \in 0 .. Latest
  BY <1>2 DEF NewHead, Finalise, RegistryInv
<1>4. ChainInv' /\ FilterInv' /\ QueueInv' /\ WorkerInv' /\ RefresherInv'
  BY <1>1, ChainKept, FiltersKept, LogsKept, WorkerKept, RefresherKept DEF RegistryInv
<1>5. QED
  BY <1>1, <1>2, <1>3, <1>4 DEF RegistryInv

-------------------------------------------------------------------------------
(* The polling thread.                                                       *)

LEMMA PolledLogsAreLogs ==
  ASSUME RegistryInv, NEW l \in PolledLogs
  PROVE  LogInv(l)
<1>1. Latest \in Nat /\ chain \in Seq(Events)
  BY LenProperties DEF RegistryInv, ChainInv, Latest
<1>2. PICK n \in 1 .. Latest : l \in LogsOf(n)
  BY DEF PolledLogs
<1>3. chain[n] \in Events
  BY <1>1, ElementOfSeq DEF Latest
<1>4. l.block = n /\ l \in Logs
  BY <1>2, <1>3 DEF LogsOf, Logs, Events, Kinds
<1>5. QED
  BY <1>2, <1>4 DEF LogInv

LEMMA PolledLogsAreFinite ==
  ASSUME RegistryInv
  PROVE  IsFiniteSet(PolledLogs)
<1> DEFINE D == Kinds \X (1 .. Latest)
           f == [x \in D |-> [kind |-> x[1], upkeep |-> chain[x[2]].upkeep, block |-> x[2]]]
           T == {f[x] : x \in D}
<1>1. Latest \in Nat
  BY LenProperties DEF RegistryInv, ChainInv, Latest
<1>2. IsFiniteSet(Kinds) /\ IsFiniteSet(1 .. Latest)
  <2>1. IsFiniteSet({"registered"})
    BY FS_Singleton
  <2>2. IsFiniteSet({"registered"} \cup {"config"})
    BY <2>1, FS_AddElement
  <2>3. IsFiniteSet({"registered"} \cup {"config"} \cup {"paused"})
    BY <2>2, FS_AddElement
  <2>4. IsFiniteSet({"registered"} \cup {"config"} \cup {"paused"} \cup {"unpaused"})
    BY <2>3, FS_AddElement
  <2>5. Kinds = {"registered"} \cup {"config"} \cup {"paused"} \cup {"unpaused"}
    BY DEF Kinds
  <2>6. IsFiniteSet(Kinds)
    BY <2>4, <2>5
  <2>7. IsFiniteSet(1 .. Latest)
    <3>1. 1 \in Int /\ Latest \in Int
      BY <1>1
    <3>2. QED
      BY <3>1, FS_Interval
  <2>8. QED
    BY <2>6, <2>7
<1>3. IsFiniteSet(D)
  BY <1>2, FS_Product
<1>4. f \in Surjection(D, T)
  BY DEF Surjection
<1>5. IsFiniteSet(T)
  <2> HIDE DEF D, f, T
  <2>1. QED
    BY <1>3, <1>4, FS_Surjection
<1>6. ASSUME NEW l \in PolledLogs
      PROVE  l \in T
  <2>1. PICK n \in 1 .. Latest : l \in LogsOf(n)
    BY DEF PolledLogs
  <2>2. PICK kind \in Kinds : l = [kind |-> kind, upkeep |-> chain[n].upkeep, block |-> n]
    <3>1. LogInv(l)
      BY PolledLogsAreLogs
    <3>2. l.kind \in Kinds
      BY <3>1 DEF LogInv, Logs
    <3>3. QED
      BY <2>1, <3>2 DEF LogsOf
  <2>3. <<kind, n>> \in D /\ f[<<kind, n>>] = l
    BY <2>2
  <2>4. QED
    BY <2>3
<1>7. QED
  <2> HIDE DEF T
  <2>1. QED
    BY <1>5, <1>6, FS_Subset

LEMMA PollKeepsInv ==
  ASSUME RegistryInv, NEW fails \in BOOLEAN, Poll(fails)
  PROVE  RegistryInv'
<1>1. UNCHANGED <<chain, head, final, active, filters, processed, worker, refresher>>
  BY DEF Poll, world
<1>2. Latest \in Nat /\ Latest' = Latest
  BY <1>1, ChainKept
<1>3. lastPoll' \in 0 .. Latest
  BY <1>2 DEF Poll
<1>4. QueueInv'
  <2>1. CASE UNCHANGED queue
    BY <1>1, <2>1, ChainKept, LogsKept DEF RegistryInv
  <2>2. ASSUME NEW new \in SetToSeqs(PolledLogs \ (processed \cup ToSet(queue))),
               queue' = queue \o new
        PROVE  QueueInv'
    <3> DEFINE S == PolledLogs \ (processed \cup ToSet(queue))
               m == Len(queue)
               k == Cardinality(S)
    <3>1. new \in [1 .. k -> S] /\ \A i, j \in 1 .. k : i # j => new[i] # new[j]
      BY <2>2 DEF SetToSeqs
    <3>2. k \in Nat
      <4>1. IsFiniteSet(S)
        BY PolledLogsAreFinite, FS_Subset
      <4>2. QED
        BY <4>1, FS_CardinalityType
    <3>3. /\ queue \in Seq(Logs) /\ m \in Nat
          /\ \A i \in 1 .. m : LogInv(queue[i]) /\ queue[i] \notin processed
          /\ \A i, j \in 1 .. m : i # j => queue[i] # queue[j]
          /\ \A l \in processed : LogInv(l)
      BY LenProperties DEF RegistryInv, QueueInv
    <3>4. \A l \in S : LogInv(l) /\ l \in Logs /\ l \notin processed
      BY PolledLogsAreLogs DEF LogInv
    <3>5. ASSUME NEW l \in S, NEW i \in 1 .. m
          PROVE  l # queue[i]
      BY <3>3 DEF ToSet
    <3> HIDE DEF S, m, k
    <3>6. new \in Seq(Logs) /\ Len(new) = k
      BY <3>1, <3>2, <3>4, LenProperties
    <3>7. /\ queue' \in Seq(Logs)
          /\ Len(queue') = m + k
          /\ \A i \in 1 .. m + k : queue'[i] = IF i <= m THEN queue[i] ELSE new[i - m]
      BY <2>2, <3>3, <3>6, ConcatProperties DEF m
    <3>8. ASSUME NEW i \in 1 .. m + k
          PROVE  /\ LogInv(queue'[i]) /\ queue'[i] \notin processed
                 /\ i <= m => queue'[i] = queue[i] /\ i \in 1 .. m
                 /\ i > m => queue'[i] = new[i - m] /\ i - m \in 1 .. k /\ new[i - m] \in S
      BY <3>1, <3>2, <3>3, <3>4, <3>7
    <3>9. ASSUME NEW i \in 1 .. m + k, NEW j \in 1 .. m + k, i # j
          PROVE  queue'[i] # queue'[j]
      <4>1. i \in Nat /\ j \in Nat
        BY <3>2, <3>3
      <4>2. CASE i <= m /\ j <= m
        BY <3>3, <3>8, <3>9, <4>2
      <4>3. CASE i <= m /\ j > m
        BY <3>5, <3>8, <4>3
      <4>4. CASE i > m /\ j <= m
        BY <3>5, <3>8, <4>4
      <4>5. CASE i > m /\ j > m
        BY <3>1, <3>3, <3>8, <3>9, <4>1, <4>5
      <4>6. QED
        BY <3>3, <4>1, <4>2, <4>3, <4>4, <4>5
    <3>10. \A l : LogInv(l) => LogInv(l)'
      BY <1>1, ChainKept
    <3>11. QED
      BY <1>1, <3>3, <3>7, <3>8, <3>9, <3>10 DEF QueueInv
  <2>3. QED
    BY <2>1, <2>2 DEF Poll
<1>5. ChainInv' /\ FilterInv' /\ WorkerInv' /\ RefresherInv'
  BY <1>1, ChainKept, FiltersKept, WorkerKept, RefresherKept DEF RegistryInv
<1>6. QED
  BY <1>1, <1>2, <1>3, <1>4, <1>5 DEF RegistryInv

-------------------------------------------------------------------------------
(* The filters.                                                              *)

LEMMA RegisteredIsTraced ==
  ASSUME FilterInv, NEW u \in Upkeeps, NEW config, NEW block, Traced(u, config, block),
         filters' = Registered(u, config, block),
         \A v, c, b : Traced(v, c, b) => Traced(v, c, b)'
  PROVE  FilterInv'
<1>1. CASE u \in DOMAIN filters /\ filters[u].block >= block
  BY <1>1, FiltersKept DEF Registered
<1>2. CASE ~(u \in DOMAIN filters /\ filters[u].block >= block)
  <2> DEFINE new == [v \in DOMAIN filters \cup {u} |->
                       IF v = u THEN [config |-> config, block |-> block] ELSE filters[v]]
  <2>1. filters' = new
    BY <1>2 DEF Registered
  <2>2. /\ DOMAIN new = DOMAIN filters \cup {u}
        /\ new[u].config = config /\ new[u].block = block
        /\ \A v \in DOMAIN filters \ {u} : new[v] = filters[v]
    OBVIOUS
  <2> HIDE DEF new
  <2>3. ASSUME NEW v \in DOMAIN new
        PROVE  Traced(v, new[v].config, new[v].block)
    BY <2>2 DEF FilterInv
  <2>4. DOMAIN new \subseteq Upkeeps
    BY <2>2 DEF FilterInv
  <2>5. QED
    BY <2>1, <2>3, <2>4 DEF FilterInv
<1>3. QED
  BY <1>1, <1>2

LEMMA UnregisteredIsTraced ==
  ASSUME FilterInv, NEW u, filters' = Unregistered(u),
         \A v, c, b : Traced(v, c, b) => Traced(v, c, b)'
  PROVE  FilterInv'
BY DEF FilterInv, Unregistered

-------------------------------------------------------------------------------
(* The processing thread.                                                    *)

(* A log in processing tells of its upkeep what the block does.              *)
LEMMA LogTells ==
  ASSUME RegistryInv, NEW l, LogInv(l)
  PROVE  /\ l.upkeep \in Upkeeps /\ l.kind \in Kinds
         /\ l.kind = "config" => Traced(l.upkeep, l.block, l.block)
         /\ l.kind \in {"registered", "unpaused"}
              => l.block \in BlocksOf({"registered", "unpaused"}, l.upkeep, Latest)
<1>1. l.upkeep \in Upkeeps /\ l.kind \in Kinds /\ l.block \in 1 .. Latest
  BY DEF LogInv, Logs
<1>2. l.upkeep = chain[l.block].upkeep
  BY DEF LogInv, LogsOf
<1>3. ASSUME l.kind = "config"
      PROVE  chain[l.block].kind \in ConfigEvents
  BY <1>3 DEF LogInv, LogsOf, ConfigEvents
<1>4. ASSUME l.kind \in {"registered", "unpaused"}
      PROVE  chain[l.block].kind = l.kind
  BY <1>4 DEF LogInv, LogsOf
<1>5. QED
  BY <1>1, <1>2, <1>3, <1>4 DEF Traced, BlocksOf

LEMMA ProcessLogKeepsInv ==
  ASSUME RegistryInv, ProcessLog
  PROVE  RegistryInv'
<1> DEFINE log == Head(queue)
<1>1. UNCHANGED <<chain, head, final, filters, lastPoll, refresher>>
  BY DEF ProcessLog, world
<1>2. /\ queue # << >> /\ queue' = Tail(queue) /\ processed' = processed \cup {log}
      /\ worker' = CASE log.kind = "paused" -> [pc |-> "unregister", upkeep |-> log.upkeep]
                     [] log.kind = "config" -> [pc |-> "register", upkeep |-> log.upkeep,
                                                config |-> log.block, block |-> log.block]
                     [] OTHER -> [pc |-> "fetch", upkeep |-> log.upkeep, block |-> log.block]
      /\ active' = CASE log.kind = "paused" -> active \ {log.upkeep}
                     [] log.kind = "config" -> active
                     [] OTHER -> active \cup {log.upkeep}
  BY DEF ProcessLog
<1>3. /\ queue \in Seq(Logs) /\ Len(queue) \in Nat \ {0}
      /\ log = queue[1]
      /\ \A i \in 1 .. Len(queue) : LogInv(queue[i]) /\ queue[i] \notin processed
      /\ \A i, j \in 1 .. Len(queue) : i # j => queue[i] # queue[j]
      /\ \A l \in processed : LogInv(l)
  BY <1>2, EmptySeq, LenProperties DEF RegistryInv, QueueInv
<1>4. /\ queue' \in Seq(Logs)
      /\ Len(queue') = Len(queue) - 1
      /\ \A i \in 1 .. Len(queue') : queue'[i] = queue[i + 1]
  BY <1>2, <1>3, HeadTailProperties
<1>5. LogInv(log)
  BY <1>3
<1> HIDE DEF log
<1>6. QueueInv'
  <2>1. ASSUME NEW i \in 1 .. Len(queue')
        PROVE  /\ i + 1 \in 1 .. Len(queue) /\ i + 1 # 1
               /\ queue'[i] = queue[i + 1] /\ LogInv(queue'[i])
               /\ queue'[i] \notin processed'
    <3>1. i + 1 \in 1 .. Len(queue) /\ i + 1 # 1 /\ 1 \in 1 .. Len(queue)
      BY <1>3, <1>4
    <3>2. queue'[i] # log
      BY <1>3, <1>4, <3>1
    <3>3. QED
      BY <1>2, <1>3, <1>4, <3>1, <3>2
  <2>2. \A i, j \in 1 .. Len(queue') : i # j => queue'[i] # queue'[j]
    BY <1>3, <2>1
  <2>3. \A l \in processed' : LogInv(l)
    BY <1>2, <1>3, <1>5
  <2>4. \A l : LogInv(l) => LogInv(l)'
    BY <1>1, ChainKept
  <2>5. QED
    BY <1>4, <2>1, <2>2, <2>3, <2>4 DEF QueueInv
<1>7. WorkerInv' /\ active' \subseteq Upkeeps
  <2>1. PICK l : l = log
    OBVIOUS
  <2>2. /\ l.upkeep \in Upkeeps /\ l.kind \in Kinds
        /\ l.kind = "config" => Traced(l.upkeep, l.block, l.block)
        /\ l.kind \in {"registered", "unpaused"}
             => l.block \in BlocksOf({"registered", "unpaused"}, l.upkeep, Latest)
    BY <1>5, <2>1, LogTells
  <2>3. /\ \A u, config, block : Traced(u, config, block) => Traced(u, config, block)'
        /\ \A kinds, u : BlocksOf(kinds, u, Latest) \subseteq BlocksOf(kinds, u, Latest)'
    BY <1>1, ChainKept
  <2>4. active \subseteq Upkeeps
    BY DEF RegistryInv
  <2>5. CASE l.kind = "paused"
    <3>1. worker' = [pc |-> "unregister", upkeep |-> l.upkeep] /\ active' = active \ {l.upkeep}
      BY <1>2, <2>1, <2>5
    <3>2. QED
      BY <2>2, <2>4, <3>1 DEF WorkerInv
  <2>6. CASE l.kind = "config"
    <3>1. /\ worker' = [pc |-> "register", upkeep |-> l.upkeep,
                         config |-> l.block, block |-> l.block]
          /\ active' = active
      BY <1>2, <2>1, <2>6
    <3>2. Traced(l.upkeep, l.block, l.block)'
      BY <2>2, <2>3, <2>6
    <3>3. QED
      BY <2>2, <2>4, <3>1, <3>2 DEF WorkerInv
  <2>7. CASE l.kind \in {"registered", "unpaused"}
    <3>1. /\ worker' = [pc |-> "fetch", upkeep |-> l.upkeep, block |-> l.block]
          /\ active' = active \cup {l.upkeep}
      BY <1>2, <2>1, <2>7
    <3>2. l.block \in BlocksOf({"registered", "unpaused"}, l.upkeep, Latest)'
      BY <2>2, <2>3, <2>7
    <3>3. QED
      BY <2>2, <2>4, <3>1, <3>2 DEF WorkerInv
  <2>8. QED
    BY <2>2, <2>5, <2>6, <2>7 DEF Kinds
<1>8. ChainInv' /\ FilterInv' /\ RefresherInv' /\ Latest' = Latest
  BY <1>1, ChainKept, FiltersKept, RefresherKept DEF RegistryInv
<1>9. QED
  BY <1>1, <1>6, <1>7, <1>8 DEF RegistryInv

LEMMA WorkerKeepsInv ==
  ASSUME RegistryInv, WorkerFetches \/ WorkerRegisters \/ WorkerUnregisters \/ WorkerFails
  PROVE  RegistryInv'
<1>1. UNCHANGED <<chain, head, final, active, lastPoll, queue, processed, refresher>>
  BY DEF WorkerFetches, WorkerRegisters, WorkerUnregisters, WorkerFails, world
<1>2. /\ ChainInv' /\ QueueInv' /\ RefresherInv' /\ Latest' = Latest
      /\ \A u, config, block : Traced(u, config, block) => Traced(u, config, block)'
  BY <1>1, ChainKept, LogsKept, RefresherKept DEF RegistryInv
<1>3. FilterInv' /\ WorkerInv'
  <2>1. CASE WorkerFetches
    <3> DEFINE u == worker.upkeep
               config == ConfigAt(u, head)
    <3>1. /\ worker.pc = "fetch" /\ UNCHANGED filters
          /\ worker' = IF config = 0 THEN Idle
                       ELSE [pc |-> "register", upkeep |-> u,
                             config |-> config, block |-> worker.block]
      BY <2>1 DEF WorkerFetches
    <3>2. u \in Upkeeps /\ worker.block \in BlocksOf({"registered", "unpaused"}, u, Latest)
      BY <3>1 DEF RegistryInv, WorkerInv, Idle
    <3>3. Latest \in Nat /\ head \in 0 .. Latest /\ ChainInv
      BY LenProperties DEF RegistryInv, ChainInv, Latest
    <3>4. ASSUME config # 0
          PROVE  Traced(u, config, worker.block)
      <4>1. config \in BlocksOf(ConfigEvents, u, Latest)
        BY <3>3, <3>4, ConfigAtIsConfig
      <4>2. CASE chain[worker.block].kind = "unpaused"
        BY <3>2, <4>1, <4>2 DEF Traced, BlocksOf
      <4>3. CASE chain[worker.block].kind = "registered"
        <5>1. /\ config \in 1 .. Latest /\ chain[config].upkeep = u
              /\ worker.block \in 1 .. Latest /\ chain[worker.block].upkeep = u
          BY <3>2, <4>1 DEF BlocksOf
        <5> HIDE DEF config, u
        <5>2. ~(config < worker.block)
          BY <3>3, <4>3, <5>1 DEF ChainInv
        <5>3. worker.block \in 0 .. config
          BY <3>3, <5>1, <5>2
        <5>4. QED
          BY <4>1, <5>3 DEF Traced
      <4>4. QED
        BY <3>2, <4>2, <4>3 DEF BlocksOf
    <3> HIDE DEF config, u
    <3>5. WorkerInv'
      <4>1. CASE config = 0
        BY <3>1, <4>1 DEF WorkerInv, Idle
      <4>2. CASE config # 0
        BY <1>2, <3>1, <3>2, <3>4, <4>2 DEF WorkerInv
      <4>3. QED
        BY <4>1, <4>2
    <3>6. QED
      BY <1>2, <3>1, <3>5, FiltersKept DEF RegistryInv
  <2>2. CASE WorkerRegisters
    <3>1. /\ worker.pc = "register" /\ worker' = Idle
          /\ filters' = Registered(worker.upkeep, worker.config, worker.block)
      BY <2>2 DEF WorkerRegisters
    <3>2. worker.upkeep \in Upkeeps /\ Traced(worker.upkeep, worker.config, worker.block)
      BY <3>1 DEF RegistryInv, WorkerInv, Idle
    <3>3. FilterInv
      BY DEF RegistryInv
    <3>4. FilterInv'
      BY <1>2, <3>1, <3>2, <3>3, RegisteredIsTraced
    <3>5. WorkerInv'
      BY <3>1 DEF WorkerInv, Idle
    <3>6. QED
      BY <3>4, <3>5
  <2>3. CASE WorkerUnregisters
    <3>1. worker' = Idle /\ filters' = Unregistered(worker.upkeep) /\ FilterInv
      BY <2>3 DEF WorkerUnregisters, RegistryInv
    <3>2. FilterInv'
      BY <1>2, <3>1, UnregisteredIsTraced
    <3>3. WorkerInv'
      BY <3>1 DEF WorkerInv, Idle
    <3>4. QED
      BY <3>2, <3>3
  <2>4. CASE WorkerFails
    <3>1. worker' = Idle /\ UNCHANGED filters /\ FilterInv
      BY <2>4 DEF WorkerFails, RegistryInv
    <3>2. FilterInv'
      BY <1>2, <3>1, FiltersKept
    <3>3. WorkerInv'
      BY <3>1 DEF WorkerInv, Idle
    <3>4. QED
      BY <3>2, <3>3
  <2>5. QED
    BY <2>1, <2>2, <2>3, <2>4
<1>4. QED
  BY <1>1, <1>2, <1>3 DEF RegistryInv

-------------------------------------------------------------------------------
(* The refreshing thread.                                                    *)

(* What a step of this thread leaves alone.                                  *)
LEMMA RefreshKeepsRest ==
  ASSUME RegistryInv, UNCHANGED <<chain, head, final, lastPoll, queue, processed, worker>>,
         active' \subseteq Upkeeps, FilterInv', RefresherInv'
  PROVE  RegistryInv'
<1>1. ChainInv' /\ QueueInv' /\ WorkerInv' /\ Latest' = Latest
  BY ChainKept, LogsKept, WorkerKept DEF RegistryInv
<1>2. QED
  BY <1>1 DEF RegistryInv

LEMMA PruningIsPast ==
  ASSUME NEW ids \in SUBSET Upkeeps, NEW gone, NEW failed,
         refresher' = Pruning(ids, gone, failed)
  PROVE  RefresherInv'
BY DEF Pruning, RefresherInv, Idle

LEMMA ReadingIdsKeepsInv ==
  ASSUME RegistryInv, ReadIds \/ ResetActive \/ FindInactive \/ ReadFails
  PROVE  RegistryInv'
<1>1. UNCHANGED <<chain, head, final, filters, lastPoll, queue, processed, worker>>
  BY DEF ReadIds, ResetActive, FindInactive, ReadFails, world
<1>2. FilterInv'
  BY <1>1, ChainKept, FiltersKept DEF RegistryInv
<1>3. refresher # Idle => refresher.ids \subseteq Upkeeps
  BY DEF RegistryInv, RefresherInv, Registering
<1>4. RefresherInv' /\ active' \subseteq Upkeeps
  <2>1. active \subseteq Upkeeps
    BY DEF RegistryInv
  <2>2. CASE ReadIds
    BY <2>1, <2>2 DEF ReadIds, ActiveAt, RefresherInv
  <2>3. CASE ResetActive
    <3>1. refresher # Idle
      BY <2>3 DEF ResetActive, Idle
    <3>2. QED
      BY <1>3, <2>3, <3>1 DEF ResetActive, RefresherInv, Idle
  <2>4. CASE FindInactive
    <3>1. refresher # Idle
      BY <2>4 DEF FindInactive, Idle
    <3>2. QED
      BY <1>3, <2>1, <2>4, <3>1, PruningIsPast DEF FindInactive
  <2>5. CASE ReadFails
    BY <2>1, <2>5 DEF ReadFails, RefresherInv
  <2>6. QED
    BY <2>2, <2>3, <2>4, <2>5
<1>5. QED
  BY <1>1, <1>2, <1>4, RefreshKeepsRest

LEMMA PruneKeepsInv ==
  ASSUME RegistryInv, NEW u \in Upkeeps, NEW fails \in BOOLEAN, Prune(u, fails)
  PROVE  RegistryInv'
<1>1. UNCHANGED <<chain, head, final, active, lastPoll, queue, processed, worker>>
  BY DEF Prune, world
<1>2. FilterInv /\ active' \subseteq Upkeeps
  BY <1>1 DEF RegistryInv
<1>3. \A v, config, block : Traced(v, config, block) => Traced(v, config, block)'
  BY <1>1, ChainKept
<1>4. FilterInv'
  <2>1. filters' = IF fails THEN filters ELSE Unregistered(u)
    BY DEF Prune
  <2>2. QED
    BY <1>2, <1>3, <2>1, FiltersKept, UnregisteredIsTraced
<1>5. refresher.ids \subseteq Upkeeps
  BY DEF Prune, RegistryInv, RefresherInv, Registering, Idle
<1>6. RefresherInv'
  BY <1>5, PruningIsPast DEF Prune
<1>7. QED
  BY <1>1, <1>2, <1>4, <1>6, RefreshKeepsRest

LEMMA ReadUnpausedKeepsInv ==
  ASSUME RegistryInv, ReadUnpaused
  PROVE  RegistryInv'
<1> DEFINE unpaused == [u \in refresher.ids |-> LastOf({"unpaused"}, u, final)]
<1>1. /\ UNCHANGED <<chain, head, final, active, filters, lastPoll, queue, processed, worker>>
      /\ refresher.pc = "unpaused"
      /\ refresher' = [pc |-> "configs", ids |-> refresher.ids, unpaused |-> unpaused]
  BY DEF ReadUnpaused, world
<1>2. refresher.ids \subseteq Upkeeps
  BY <1>1 DEF RegistryInv, RefresherInv, Registering, Idle
<1>3. FilterInv' /\ active' \subseteq Upkeeps
  BY <1>1, ChainKept, FiltersKept DEF RegistryInv
<1>4. ASSUME NEW u \in refresher.ids
      PROVE  Unpaused(u, unpaused[u])
  <2>1. Latest \in Nat /\ final \in 0 .. Latest
    BY <1>1, ChainKept DEF RegistryInv
  <2>2. final \in Nat /\ final <= Latest
    BY <2>1
  <2>3. LastOf({"unpaused"}, u, final) \in {0} \cup BlocksOf({"unpaused"}, u, Latest)
    BY <2>1, <2>2, LastOfIsLast, BlocksOfGrow
  <2>4. QED
    BY <2>3 DEF Unpaused
<1> HIDE DEF unpaused
<1>5. \A u, block : Unpaused(u, block) => Unpaused(u, block)'
  BY <1>1, ChainKept
<1>6. RefresherInv'
  <2>1. /\ refresher'.ids = refresher.ids /\ refresher'.pc = "configs"
        /\ refresher'.unpaused = unpaused
    BY <1>1
  <2>2. ASSUME NEW u \in refresher'.ids
        PROVE  Unpaused(u, refresher.unpaused[u])'
    <3>1. PICK block : block = unpaused[u]
      OBVIOUS
    <3>2. Unpaused(u, block)'
      BY <1>4, <1>5, <2>1, <3>1
    <3>3. QED
      BY <2>1, <3>1, <3>2
  <2>3. QED
    BY <1>2, <2>1, <2>2 DEF RefresherInv
<1>7. QED
  BY <1>1, <1>3, <1>6, RefreshKeepsRest

(* Of a config and an unpause the later block counts.                        *)
LEMMA LaterOfBoth ==
  ASSUME RegistryInv, NEW u, NEW config, NEW block, Unpaused(u, block),
         config \in {0} \cup BlocksOf(ConfigEvents, u, Latest)
  PROVE  /\ Max({config, block}) \in Nat /\ config \in Nat
         /\ IF config = 0 THEN Unpaused(u, Max({config, block}))
            ELSE Traced(u, config, Max({config, block}))
<1>1. Latest \in Nat
  BY LenProperties DEF RegistryInv, ChainInv, Latest
<1>2. config \in 0 .. Latest /\ block \in 0 .. Latest
  BY <1>1 DEF Unpaused, BlocksOf
<1>3. {config, block} \in SUBSET (0 .. Latest) /\ {config, block} # {}
  BY <1>2
<1>4. Max({config, block}) \in {config, block}
  BY <1>1, <1>3, MaxIsGreatest
<1>5. QED
  BY <1>2, <1>4 DEF Unpaused, Traced

LEMMA ReadConfigsKeepsInv ==
  ASSUME RegistryInv, ReadConfigs
  PROVE  RegistryInv'
<1> DEFINE ids == refresher.ids
           config == [u \in ids |-> ConfigAt(u, final)]
           block == [u \in ids |-> Max({config[u], refresher.unpaused[u]})]
<1>1. /\ UNCHANGED <<chain, head, final, active, filters, lastPoll, queue, processed, worker>>
      /\ refresher.pc = "configs"
      /\ refresher' = [pc |-> "register", ids |-> ids, config |-> config, block |-> block]
  BY DEF ReadConfigs, world
<1>2. ids \subseteq Upkeeps /\ \A u \in ids : Unpaused(u, refresher.unpaused[u])
  BY <1>1 DEF RegistryInv, RefresherInv, Registering, Idle
<1>3. FilterInv' /\ active' \subseteq Upkeeps
  BY <1>1, ChainKept, FiltersKept DEF RegistryInv
<1>4. ASSUME NEW u \in ids
      PROVE  /\ config[u] \in Nat /\ block[u] \in Nat
             /\ IF config[u] = 0 THEN Unpaused(u, block[u]) ELSE Traced(u, config[u], block[u])
  <2>1. final \in 0 .. Latest
    BY DEF RegistryInv
  <2>2. ConfigAt(u, final) \in {0} \cup BlocksOf(ConfigEvents, u, Latest)
    BY <2>1, ConfigAtIsConfig
  <2>3. config[u] = ConfigAt(u, final) /\ block[u] = Max({config[u], refresher.unpaused[u]})
    OBVIOUS
  <2> HIDE DEF config, block
  <2>4. PICK c, b : c = config[u] /\ b = refresher.unpaused[u]
    OBVIOUS
  <2>5. Unpaused(u, b) /\ c \in {0} \cup BlocksOf(ConfigEvents, u, Latest)
    BY <1>2, <2>2, <2>3, <2>4
  <2>6. /\ Max({c, b}) \in Nat /\ c \in Nat
        /\ IF c = 0 THEN Unpaused(u, Max({c, b})) ELSE Traced(u, c, Max({c, b}))
    BY <2>5, LaterOfBoth
  <2>7. block[u] = Max({c, b})
    BY <2>3, <2>4
  <2>8. QED
    BY <2>4, <2>6, <2>7
<1>5. config \in [ids -> Nat] /\ block \in [ids -> Nat]
  BY <1>4
<1>6. /\ \A u, b : Unpaused(u, b) => Unpaused(u, b)'
      /\ \A u, c, b : Traced(u, c, b) => Traced(u, c, b)'
  BY <1>1, ChainKept
<1> HIDE DEF ids, config, block
<1>7. RefresherInv'
  <2>1. /\ refresher'.ids = ids /\ refresher'.config = config /\ refresher'.block = block
        /\ ids \subseteq DOMAIN config
    BY <1>1, <1>5
  <2>2. refresher' \in Registering
    <3>1. config \in NumbersOfUpkeeps /\ block \in NumbersOfUpkeeps
      BY <1>2, <1>5 DEF NumbersOfUpkeeps
    <3>2. QED
      BY <1>1, <1>2, <3>1 DEF Registering
  <2>3. ASSUME NEW u \in refresher'.ids
        PROVE  (IF refresher.config[u] = 0 THEN Unpaused(u, refresher.block[u])
                ELSE Traced(u, refresher.config[u], refresher.block[u]))'
    <3>1. PICK c, b : c = config[u] /\ b = block[u]
      OBVIOUS
    <3>2. IF c = 0 THEN Unpaused(u, b)' ELSE Traced(u, c, b)'
      BY <1>4, <1>6, <2>1, <3>1
    <3>3. QED
      BY <2>1, <3>1, <3>2
  <2>4. QED
    BY <1>2, <2>1, <2>2, <2>3 DEF RefresherInv, Registering
<1>8. QED
  BY <1>1, <1>3, <1>7, RefreshKeepsRest

LEMMA FetchesKeepsInv ==
  ASSUME RegistryInv, NEW u \in Upkeeps, RefresherFetches(u)
  PROVE  RegistryInv'
<1>1. /\ UNCHANGED <<chain, head, final, active, filters, lastPoll, queue, processed, worker>>
      /\ refresher.pc = "register" /\ u \in refresher.ids /\ refresher.config[u] = 0
      /\ refresher' = [refresher EXCEPT !.config[u] = ConfigAt(u, head)]
  BY DEF RefresherFetches, world
<1>2. PICK r, c : r = refresher /\ c = ConfigAt(u, head)
  OBVIOUS
<1>3. /\ r \in Registering /\ r.ids \subseteq Upkeeps /\ r.ids \subseteq DOMAIN r.config
      /\ \A v \in r.ids : IF r.config[v] = 0 THEN Unpaused(v, r.block[v])
                           ELSE Traced(v, r.config[v], r.block[v])
      /\ u \in r.ids /\ r.config[u] = 0
  BY <1>1, <1>2 DEF RegistryInv, RefresherInv, Idle
<1>4. FilterInv' /\ active' \subseteq Upkeeps
  BY <1>1, ChainKept, FiltersKept DEF RegistryInv
<1>5. /\ \A v, b : Unpaused(v, b) => Unpaused(v, b)'
      /\ \A v, d, b : Traced(v, d, b) => Traced(v, d, b)'
  BY <1>1, ChainKept
<1>6. c \in Nat /\ (c # 0 => c \in BlocksOf(ConfigEvents, u, Latest))
  <2>1. head \in 0 .. Latest
    BY DEF RegistryInv
  <2>2. QED
    BY <1>2, <2>1, ConfigAtIsConfig
<1>7. r.config \in NumbersOfUpkeeps /\ r.block \in NumbersOfUpkeeps
  BY <1>3 DEF Registering
<1>8. PICK S \in SUBSET Upkeeps : r.config \in [S -> Nat]
  BY <1>7 DEF NumbersOfUpkeeps
<1> DEFINE config == [r.config EXCEPT ![u] = c]
<1>9. /\ config \in [S -> Nat] /\ config[u] = c
      /\ \A v \in S \ {u} : config[v] = r.config[v]
      /\ r.ids \subseteq S /\ DOMAIN config = S
  BY <1>3, <1>6, <1>8
<1>10. refresher' = [pc |-> "register", ids |-> r.ids, config |-> config, block |-> r.block]
  <2>1. refresher' = [r EXCEPT !.config = config]
    BY <1>1, <1>2
  <2>2. QED
    BY <1>3, <2>1 DEF Registering
<1> HIDE DEF config
<1>11. refresher' \in Registering
  BY <1>3, <1>7, <1>9, <1>10 DEF Registering, NumbersOfUpkeeps
<1>12. ASSUME NEW v \in r.ids
       PROVE  IF config[v] = 0 THEN Unpaused(v, r.block[v]) ELSE Traced(v, config[v], r.block[v])
  <2>1. CASE v # u
    BY <1>3, <1>9, <2>1
  <2>2. CASE v = u
    <3>1. Unpaused(u, r.block[u])
      BY <1>3
    <3>2. c # 0 => Traced(u, c, r.block[u])
      BY <1>6, <3>1 DEF Unpaused, Traced
    <3>3. QED
      BY <1>9, <2>2, <3>1, <3>2
  <2>3. QED
    BY <2>1, <2>2
<1>13. RefresherInv'
  <2>1. /\ refresher'.ids = r.ids /\ refresher'.config = config /\ refresher'.block = r.block
    BY <1>10
  <2>2. ASSUME NEW v \in refresher'.ids
        PROVE  (IF refresher.config[v] = 0 THEN Unpaused(v, refresher.block[v])
                ELSE Traced(v, refresher.config[v], refresher.block[v]))'
    <3>1. PICK d, b : d = config[v] /\ b = r.block[v]
      OBVIOUS
    <3>2. IF d = 0 THEN Unpaused(v, b)' ELSE Traced(v, d, b)'
      BY <1>5, <1>12, <2>1, <3>1
    <3>3. QED
      BY <2>1, <3>1, <3>2
  <2>3. QED
    BY <1>3, <1>9, <1>11, <2>1, <2>2 DEF RefresherInv
<1>14. QED
  BY <1>1, <1>4, <1>13, RefreshKeepsRest

LEMMA DoneIsPast ==
  ASSUME RefresherInv, NEW u, refresher.pc = "register", refresher' = DoneWith(u),
         \A v, b : Unpaused(v, b) => Unpaused(v, b)',
         \A v, d, b : Traced(v, d, b) => Traced(v, d, b)'
  PROVE  RefresherInv'
<1>1. CASE refresher' = Idle
  BY <1>1 DEF RefresherInv, Idle
<1>2. CASE refresher' = [refresher EXCEPT !.ids = @ \ {u}]
  <2>1. PICK r : r = refresher
    OBVIOUS
  <2>2. /\ r \in Registering /\ r.ids \subseteq Upkeeps /\ r.ids \subseteq DOMAIN r.config
        /\ \A v \in r.ids : IF r.config[v] = 0 THEN Unpaused(v, r.block[v])
                             ELSE Traced(v, r.config[v], r.block[v])
    BY <2>1 DEF RefresherInv, Idle
  <2>3. refresher' = [pc |-> "register", ids |-> r.ids \ {u},
                      config |-> r.config, block |-> r.block]
    BY <1>2, <2>1, <2>2 DEF Registering
  <2>4. /\ refresher'.ids = r.ids \ {u} /\ refresher'.config = r.config
        /\ refresher'.block = r.block /\ refresher' \in Registering
    BY <2>2, <2>3 DEF Registering
  <2>5. ASSUME NEW v \in refresher'.ids
        PROVE  (IF refresher.config[v] = 0 THEN Unpaused(v, refresher.block[v])
                ELSE Traced(v, refresher.config[v], refresher.block[v]))'
    <3>1. PICK d, b : d = r.config[v] /\ b = r.block[v]
      OBVIOUS
    <3>2. IF d = 0 THEN Unpaused(v, b)' ELSE Traced(v, d, b)'
      BY <2>2, <2>4, <3>1
    <3>3. QED
      BY <2>4, <3>1, <3>2
  <2>6. QED
    BY <2>2, <2>4, <2>5 DEF RefresherInv
<1>3. QED
  BY <1>1, <1>2 DEF DoneWith

LEMMA RegisteringKeepsInv ==
  ASSUME RegistryInv, NEW u \in Upkeeps, RefresherRegisters(u) \/ RefresherFails(u)
  PROVE  RegistryInv'
<1>1. /\ UNCHANGED <<chain, head, final, active, lastPoll, queue, processed, worker>>
      /\ refresher.pc = "register" /\ u \in refresher.ids /\ refresher' = DoneWith(u)
  BY DEF RefresherRegisters, RefresherFails, world
<1>2. /\ \A v, b : Unpaused(v, b) => Unpaused(v, b)'
      /\ \A v, d, b : Traced(v, d, b) => Traced(v, d, b)'
  BY <1>1, ChainKept
<1>3. FilterInv /\ RefresherInv /\ active' \subseteq Upkeeps
  BY <1>1 DEF RegistryInv
<1>4. RefresherInv'
  BY <1>1, <1>2, <1>3, DoneIsPast
<1>5. FilterInv'
  <2>1. CASE RefresherRegisters(u)
    <3>1. /\ refresher.config[u] # 0
          /\ filters' = Registered(u, refresher.config[u], refresher.block[u])
      BY <2>1 DEF RefresherRegisters
    <3>2. PICK c, b : c = refresher.config[u] /\ b = refresher.block[u]
      OBVIOUS
    <3>3. Traced(u, c, b)
      BY <1>1, <1>3, <3>1, <3>2 DEF RefresherInv, Idle
    <3>4. filters' = Registered(u, c, b)
      BY <3>1, <3>2
    <3>5. QED
      BY <1>2, <1>3, <3>3, <3>4, RegisteredIsTraced
  <2>2. CASE RefresherFails(u)
    <3>1. UNCHANGED filters
      BY <2>2 DEF RefresherFails
    <3>2. QED
      BY <1>2, <1>3, <3>1, FiltersKept
  <2>3. QED
    BY <2>1, <2>2
<1>6. QED
  BY <1>1, <1>3, <1>4, <1>5, RefreshKeepsRest

-------------------------------------------------------------------------------
(* The specification.                                                        *)

LEMMA InitSatisfiesInv ==
  ASSUME Init
  PROVE  RegistryInv
<1> DEFINE u == CHOOSE v \in Upkeeps : TRUE
           e == [kind |-> "registered", upkeep |-> u]
<1>1. u \in Upkeeps
  BY RegistryAssumption
<1>2. e \in Events /\ e.kind = "registered" /\ e.upkeep = u
  BY <1>1 DEF Events, Kinds
<1>3. chain = <<e>>
  BY DEF Init
<1> HIDE DEF e
<1>4. chain \in Seq(Events) /\ Latest = 1 /\ chain[1] = e
  BY <1>2, <1>3 DEF Latest
<1>5. ChainInv
  BY <1>2, <1>4 DEF ChainInv
<1>6. FilterInv
  BY DEF Init, FilterInv
<1>7. QueueInv
  <2>1. queue = << >> /\ processed = {}
    BY DEF Init
  <2>2. queue \in Seq(Logs) /\ Len(queue) = 0
    BY <2>1
  <2>3. QED
    BY <2>1, <2>2 DEF QueueInv
<1>8. WorkerInv /\ RefresherInv
  BY DEF Init, WorkerInv, RefresherInv
<1>9. QED
  BY <1>4, <1>5, <1>6, <1>7, <1>8 DEF Init, RegistryInv

LEMMA NextKeepsInv ==
  ASSUME RegistryInv, [Next]_vars
  PROVE  RegistryInv'
<1>1. CASE Next
  <2>1. ASSUME NEW kind \in {"registered", "config", "paused", "unpaused"}, NEW u \in Upkeeps,
               Event(kind, u)
        PROVE  RegistryInv'
    BY <2>1, EventKeepsInv DEF Kinds
  <2>2. CASE NewHead \/ Finalise
    BY <2>2, BlocksKeepInv
  <2>3. ASSUME NEW fails \in BOOLEAN, Poll(fails)
        PROVE  RegistryInv'
    BY <2>3, PollKeepsInv
  <2>4. CASE ProcessLog
    BY <2>4, ProcessLogKeepsInv
  <2>5. CASE WorkerFetches \/ WorkerRegisters \/ WorkerUnregisters \/ WorkerFails
    BY <2>5, WorkerKeepsInv
  <2>6. CASE ReadIds \/ ResetActive \/ FindInactive \/ ReadFails
    BY <2>6, ReadingIdsKeepsInv
  <2>7. CASE ReadUnpaused
    BY <2>7, ReadUnpausedKeepsInv
  <2>8. CASE ReadConfigs
    BY <2>8, ReadConfigsKeepsInv
  <2>9. ASSUME NEW u \in Upkeeps, Prune(u, FALSE) \/ Prune(u, TRUE)
        PROVE  RegistryInv'
    BY <2>9, PruneKeepsInv
  <2>10. ASSUME NEW u \in Upkeeps, RefresherFetches(u)
         PROVE  RegistryInv'
    BY <2>10, FetchesKeepsInv
  <2>11. ASSUME NEW u \in Upkeeps, RefresherRegisters(u) \/ RefresherFails(u)
         PROVE  RegistryInv'
    BY <2>11, RegisteringKeepsInv
  <2>12. QED
    BY <1>1, <2>1, <2>2, <2>3, <2>4, <2>5, <2>6, <2>7, <2>8, <2>9, <2>10, <2>11
    DEF Next, WorkerStep, RefresherStep
<1>2. CASE UNCHANGED vars
  <2>1. UNCHANGED <<chain, head, final, active, filters, lastPoll, queue, processed, worker,
                    refresher>>
    BY <1>2 DEF vars, world
  <2>2. FilterInv' /\ RefresherInv' /\ active' \subseteq Upkeeps
    BY <2>1, ChainKept, FiltersKept, RefresherKept DEF RegistryInv
  <2>3. QED
    BY <2>1, <2>2, RefreshKeepsRest
<1>3. QED
  BY <1>1, <1>2

(* Every config in the filters, in the hands of the thread that processes    *)
(* logs and in those of the one that refreshes was set by an event of the    *)
(* contract, and the block it counts from is the one of that event, an       *)
(* earlier one or one in which the upkeep was unpaused; a log is in the      *)
(* queue once, and not when it was processed before.                         *)
THEOREM RegistryInvHolds == Spec => []RegistryInv
<1>1. Init => RegistryInv
  BY InitSatisfiesInv
<1>2. RegistryInv /\ [Next]_vars => RegistryInv'
  BY NextKeepsInv
<1>3. QED
  BY <1>1, <1>2, PTL DEF Spec

(* The values have the types the code declares, and the poller queues no log *)
(* that waits already or was processed (registry.go, pollUpkeepStateLogs and *)
(* processUpkeepStateLog).                                                   *)
THEOREM RegistryTypes == Spec => []TypeOK
<1>1. ASSUME RegistryInv
      PROVE  TypeOK
  <2>1. {head, final, lastPoll} \subseteq 0 .. Latest /\ active \subseteq Upkeeps
    BY <1>1 DEF RegistryInv
  <2>2. Latest \in Nat
    BY <1>1, LenProperties DEF RegistryInv, ChainInv, Latest
  <2>3. DOMAIN filters \subseteq Upkeeps
    BY <1>1 DEF RegistryInv, FilterInv
  <2>4. ASSUME NEW u \in DOMAIN filters
        PROVE  filters[u].config \in 1 .. Latest /\ filters[u].block \in 0 .. Latest
    <3>1. Traced(u, filters[u].config, filters[u].block)
      BY <1>1 DEF RegistryInv, FilterInv
    <3>2. PICK c, b : c = filters[u].config /\ b = filters[u].block
      OBVIOUS
    <3>3. Traced(u, c, b)
      BY <3>1, <3>2
    <3>4. c \in 1 .. Latest /\ b \in 0 .. Latest
      BY <2>2, <3>3 DEF Traced, BlocksOf
    <3>5. QED
      BY <3>2, <3>4
  <2>5. /\ \A l \in ToSet(queue) : LogInv(l) /\ l \notin processed
        /\ \A l \in processed : LogInv(l)
    <3>1. QueueInv
      BY <1>1 DEF RegistryInv
    <3>2. DOMAIN queue = 1 .. Len(queue)
      BY <3>1, LenProperties DEF QueueInv
    <3>3. QED
      BY <3>1, <3>2 DEF QueueInv, ToSet
  <2>6. \A l \in ToSet(queue) \cup processed : l.block \in 1 .. Latest
    BY <2>5 DEF LogInv
  <2>7. ToSet(queue) \cap processed = {}
    BY <2>5
  <2>8. QED
    BY <2>1, <2>3, <2>4, <2>6, <2>7 DEF TypeOK
<1>2. QED
  BY <1>1, RegistryInvHolds, PTL

(* A filter with an outdated config counts from a block before that of the   *)
(* present one or from an unpause, so that RegisterFilter takes the present  *)
(* config whenever its log is processed or read again (registry.go and       *)
(* provider_life_cycle.go).                                                  *)
THEOREM OutdatedConfigsAreReplaceable == Spec => []StaleConfigIsReplaceable
<1>1. ASSUME RegistryInv
      PROVE  StaleConfigIsReplaceable
  <2>1. SUFFICES ASSUME NEW u \in DOMAIN filters, filters[u].config # ConfigAt(u, Latest)
                 PROVE  \/ filters[u].block < ConfigAt(u, Latest)
                        \/ filters[u].block \in BlocksOf({"unpaused"}, u, Latest)
    BY DEF StaleConfigIsReplaceable
  <2>2. PICK c, b, d : c = filters[u].config /\ b = filters[u].block /\ d = ConfigAt(u, Latest)
    OBVIOUS
  <2>3. Traced(u, c, b) /\ c # d
    BY <1>1, <2>1, <2>2 DEF RegistryInv, FilterInv
  <2>4. Latest \in Nat
    BY <1>1, LenProperties DEF RegistryInv, ChainInv, Latest
  <2>5. d \in 0 .. Latest /\ \A n \in BlocksOf(ConfigEvents, u, Latest) : n <= d
    BY <2>2, <2>4, LastOfIsLast DEF ConfigAt, ConfigEvents
  <2>6. c \in 1 .. Latest /\ c <= d
    BY <2>3, <2>5 DEF Traced, BlocksOf
  <2>7. b < d \/ b \in BlocksOf({"unpaused"}, u, Latest)
    BY <2>3, <2>5, <2>6 DEF Traced
  <2>8. QED
    BY <2>2, <2>7
<1>2. QED
  BY <1>1, RegistryInvHolds, PTL
===============================================================================
