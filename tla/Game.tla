---------------------------------- MODULE Game ----------------------------------
(*****************************************************************************)
(* The game as its rules tell it, every move in one piece: a player begins a *)
(* round, the round is decided once its time is over, and the prize is       *)
(* received at once or waits until it is collected.  Here is no vault that   *)
(* may be short, no code that runs in the middle of a payment and no call    *)
(* that fails and is undone; GlowStick adds them, and shows the same moves   *)
(* to every player without code.                                             *)
(*****************************************************************************)
EXTENDS Integers

CONSTANTS
  Players,
  Stakes,      \* what may be staked on a round
  Quotes,      \* prices a round may begin and end at
  Duration     \* of a round

VARIABLES
  player,      \* what each player has: the last round, owed and received ether
  time

Newcomer == [round |-> 0, since |-> 0, from |-> 0, stake |-> 0, up |-> FALSE,
             result |-> "none", owed |-> 0, received |-> 0]

Init == player = [p \in Players |-> Newcomer] /\ time = 0

-------------------------------------------------------------------------------
Result(q, price) ==
  CASE price = q.from         -> "draw"
    [] price > q.from /\ q.up -> "won"
    [] price < q.from /\ ~q.up -> "won"
    [] OTHER                  -> "lost"

(* The stake comes back in a draw.  Who is right gets it doubled, less a fee *)
(* of 1.5 percent of it, rounded down.                                       *)
Prize(q, price) ==
  CASE Result(q, price) = "draw" -> q.stake
    [] Result(q, price) = "won"  -> 2 * q.stake - (15 * q.stake) \div 1000
    [] Result(q, price) = "lost" -> 0

Ripe(q) == q.result = "open" /\ time >= q.since + Duration

(* q after the next round began, after its round was decided, after it was   *)
(* given what it is owed.                                                    *)
Begun(q, stake, up, price) ==
  [round |-> q.round + 1, since |-> time, from |-> price, stake |-> stake, up |-> up,
   result |-> "open", owed |-> q.owed, received |-> q.received]

Decided(q, price, sent) ==
  LET ended == [q EXCEPT !.result = Result(q, price)]
  IN  IF sent THEN [ended EXCEPT !.received = @ + Prize(q, price)]
              ELSE [ended EXCEPT !.owed = @ + Prize(q, price)]

Collected(q) ==
  LET emptied == [q EXCEPT !.owed = 0]
  IN  [emptied EXCEPT !.received = @ + q.owed]

-------------------------------------------------------------------------------
Begin(p, stake, up, price) ==
  /\ player[p].result # "open"
  /\ player' = [player EXCEPT ![p] = Begun(@, stake, up, price)]
  /\ UNCHANGED time

Decide(p, price, sent) ==
  /\ Ripe(player[p])
  /\ player' = [player EXCEPT ![p] = Decided(@, price, sent)]
  /\ UNCHANGED time

(* One price ends a round and begins the next.                               *)
DecideAndBegin(p, price, sent, stake, up) ==
  /\ Ripe(player[p])
  /\ player' = [player EXCEPT ![p] = Begun(Decided(@, price, sent), stake, up, price)]
  /\ UNCHANGED time

Collect(p) ==
  /\ player[p].owed > 0
  /\ player' = [player EXCEPT ![p] = Collected(@)]
  /\ UNCHANGED time

Wait == time' = time + 1 /\ UNCHANGED player

Move(p) ==
  \/ \E price \in Quotes, stake \in Stakes, up \in BOOLEAN :
       \/ Begin(p, stake, up, price)
       \/ \E sent \in BOOLEAN : DecideAndBegin(p, price, sent, stake, up)
  \/ \E price \in Quotes, sent \in BOOLEAN : Decide(p, price, sent)
  \/ Collect(p)

Next == Wait \/ \E p \in Players : Move(p)

Spec == Init /\ [][Next]_<<player, time>>
===============================================================================
