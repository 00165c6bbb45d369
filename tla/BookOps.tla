------------------------------- MODULE BookOps -------------------------------
(***************************************************************************)
(* The operations of the limit order book as operators from a book to a    *)
(* book, together with the mutations and executions each of them reports.  *)
(* The program has the book twice: the reference (exchange/order_book.py)  *)
(* and its port to integer ticks and lots (kernel/book/IntegerOrderBook),  *)
(* which do the same in every operation but one, UpdateAgentLevel. Prices  *)
(* and quantities of the reference are multiples of a tick and a lot too.  *)
(*                                                                         *)
(* A book keeps two structures that every operation has to update          *)
(* together: "levels", one FIFO queue of orders per price and side that    *)
(* has any, and "orders", the index from an order id to its order.         *)
(* Money and display attributes (owner, scenario lineage) are left out;    *)
(* the timestamp is kept because the book compares whole orders to decide  *)
(* whether a change is worth reporting.                                    *)
(***************************************************************************)
EXTENDS Integers, Sequences, FiniteSets, SequencesExt

CONSTANTS
    Prices,      \* prices in ticks that can hold a level
    Agents,      \* agent ids
    ClientIds,   \* order ids chosen by the submitter of an order
    PriceName(_) \* the decimal price text that is part of a level order id

VARIABLE book    \* the one that the modules which extend this one work on

(* prices are positive; the eight decimals of a formatted price tell any   *)
(* two prices of the book apart (it fails for a tick below 10 nano units)  *)
ASSUME PricesAssumption ==
    /\ Prices \subseteq Nat \ {0}
    /\ IsFiniteSet(Prices)
    /\ \A p, q \in Prices : PriceName(p) = PriceName(q) => p = q

Sides == {"buy", "sell"}
Opposite(side) == IF side = "buy" THEN "sell" ELSE "buy"

(* ids the book itself makes up: one per level, one per level and agent    *)
LevelId(side, price) == <<"l2", side, PriceName(price)>>
AgentLevelId(side, price, agent) == <<"l2", side, PriceName(price), agent>>

LevelIds == {LevelId(s, p) : s \in Sides, p \in Prices}
AgentLevelIds == {AgentLevelId(s, p, a) : s \in Sides, p \in Prices, a \in Agents}
Ids == ClientIds \cup LevelIds \cup AgentLevelIds

(* a client cannot choose the id of a level                                *)
ASSUME IdsAssumption == ClientIds \cap (LevelIds \cup AgentLevelIds) = {}

Lots == Nat \ {0}
Order == [id : Ids, agent : Agents, side : Sides, qty : Lots, price : Prices, ts : Nat]

(* f maps some of the elements of D to R, as a TreeMap does                *)
IsMap(f, D, R) == DOMAIN f \subseteq D /\ f \in [DOMAIN f -> R]

IsBook(b) ==
    /\ b = [levels |-> b.levels, orders |-> b.orders]
    /\ b.levels = [s \in Sides |-> b.levels[s]]
    /\ \A s \in Sides : IsMap(b.levels[s], Prices, Seq(Order))
    /\ IsMap(b.orders, Ids, Order)

EmptyMap == [x \in {} |-> x]
EmptyBook == [levels |-> [s \in Sides |-> EmptyMap], orders |-> EmptyMap]

-----------------------------------------------------------------------------
(* What every operation relies on and has to maintain *)

QueuedAreIndexed(b) ==
    \A s \in Sides : \A p \in DOMAIN b.levels[s] : \A i \in 1..Len(b.levels[s][p]) :
        LET o == b.levels[s][p][i]
        IN  /\ o.side = s /\ o.price = p
            /\ o.id \in DOMAIN b.orders /\ b.orders[o.id] = o
QueuedOnce(b) ==
    \A s \in Sides : \A p \in DOMAIN b.levels[s] :
        \A i, j \in 1..Len(b.levels[s][p]) :
            b.levels[s][p][i].id = b.levels[s][p][j].id => i = j
IndexedAreQueued(b) ==
    \A id \in DOMAIN b.orders :
        LET o == b.orders[id]
        IN  /\ o.id = id
            /\ o.price \in DOMAIN b.levels[o.side]
            /\ \E i \in 1..Len(b.levels[o.side][o.price]) : b.levels[o.side][o.price][i] = o
NoEmptyLevel(b) ==
    \A s \in Sides : \A p \in DOMAIN b.levels[s] : b.levels[s][p] # <<>>
(* updateLevel drops only what is on its level before it puts an order     *)
(* with the level's id into the index                                      *)
LevelOrdersAtHome(b) ==
    \A id \in DOMAIN b.orders : \A s \in Sides, p \in Prices :
        id = LevelId(s, p) => b.orders[id].side = s /\ b.orders[id].price = p

-----------------------------------------------------------------------------
(* Reading the book *)

HasLevel(b, side, price) == price \in DOMAIN b.levels[side]
QueueAt(b, side, price) == IF HasLevel(b, side, price) THEN b.levels[side][price] ELSE <<>>
Known(b, id) == id \in DOMAIN b.orders

Ahead(side, p, q) == IF side = "buy" THEN p > q ELSE p < q
IsBest(b, side, price) ==
    /\ HasLevel(b, side, price)
    /\ \A q \in DOMAIN b.levels[side] \ {price} : Ahead(side, price, q)

(* the lots at the positions <<price, index>> of one side, as a set: its   *)
(* cardinality is their total quantity                                     *)
Positions(b, side) ==
    UNION {{<<p, i>> : i \in 1..Len(b.levels[side][p])} : p \in DOMAIN b.levels[side]}
OrderAt(b, side, pos) == b.levels[side][pos[1]][pos[2]]
LotsAt(b, side, P) ==
    UNION {{<<pos, n>> : n \in 1..OrderAt(b, side, pos).qty} : pos \in P}
Quantity(b, side, P) == Cardinality(LotsAt(b, side, P))

LevelQuantity(b, side, price) ==
    Quantity(b, side, {pos \in Positions(b, side) : pos[1] = price})

-----------------------------------------------------------------------------
(* Changing one queue and the index *)

(* the map keeps no empty queue                                            *)
PutQueue(lv, price, queue) ==
    IF queue = <<>>
    THEN [p \in DOMAIN lv \ {price} |-> lv[p]]
    ELSE [p \in DOMAIN lv \cup {price} |-> IF p = price THEN queue ELSE lv[p]]

PutOrder(orders, o) == [i \in DOMAIN orders \cup {o.id} |-> IF i = o.id THEN o ELSE orders[i]]
DropOrder(orders, id) == [i \in DOMAIN orders \ {id} |-> orders[i]]

(* removeIf of an id: an id is at most once in a queue                     *)
IndexIn(queue, id) == CHOOSE i \in DOMAIN queue : queue[i].id = id
Without(queue, id) ==
    IF \E i \in DOMAIN queue : queue[i].id = id
    THEN LET k == IndexIn(queue, id)
         IN  [i \in 1..(Len(queue) - 1) |-> IF i < k THEN queue[i] ELSE queue[i + 1]]
    ELSE queue

SetQueue(b, side, price, queue, orders) ==
    [levels |-> [b.levels EXCEPT ![side] = PutQueue(b.levels[side], price, queue)],
     orders |-> orders]

(* take an order out of its queue and of the index; append one             *)
Removed(b, o) ==
    SetQueue(b, o.side, o.price, Without(b.levels[o.side][o.price], o.id), DropOrder(b.orders, o.id))
Appended(b, o) ==
    SetQueue(b, o.side, o.price, Append(QueueAt(b, o.side, o.price), o), PutOrder(b.orders, o))

-----------------------------------------------------------------------------
(* The mutations the book reports to its listener *)

AddEvent(o) == [type |-> "add", order |-> o, before |-> o, preserved |-> FALSE]
CancelEvent(o) == [type |-> "cancel", order |-> o, before |-> o, preserved |-> FALSE]
ModifyEvent(before, after, preserved) ==
    [type |-> "modify", order |-> after, before |-> before, preserved |-> preserved]
(* one fill of a resting order: "before" and "order" are the resting order *)
(* before and after it, with quantity 0 when it is used up                 *)
ExecuteEvent(before, traded) ==
    [type |-> "execute", order |-> [before EXCEPT !.qty = @ - traded],
     before |-> before, preserved |-> FALSE]

-----------------------------------------------------------------------------
(* add, cancel, modify *)

CanAdd(b, o) == ~Known(b, o.id)
AddOrder(b, o) == Appended(b, o)
AddEvents(b, o) == <<AddEvent(o)>>

CancelOrder(b, id) == IF Known(b, id) THEN Removed(b, b.orders[id]) ELSE b
CancelEvents(b, id) == IF Known(b, id) THEN <<CancelEvent(b.orders[id])>> ELSE <<>>

(* A request may change quantity and price, never the side or the agent.   *)
(* The same price keeps the place in the queue and the old timestamp; a    *)
(* new price goes to the back of its queue. Nothing is matched.            *)
CanModify(b, r) ==
    /\ Known(b, r.id)
    /\ r.side = b.orders[r.id].side
    /\ r.agent = b.orders[r.id].agent
SamePrice(b, r) == r.price = b.orders[r.id].price
Modified(b, r) == [b.orders[r.id] EXCEPT !.qty = r.qty, !.price = r.price,
                                         !.ts = IF SamePrice(b, r) THEN @ ELSE r.ts]
ModifyOrder(b, r) ==
    LET old == b.orders[r.id]
        new == Modified(b, r)
        queue == b.levels[old.side][old.price]
    IN  CASE ~CanModify(b, r) -> b
          [] CanModify(b, r) /\ SamePrice(b, r) ->
               SetQueue(b, old.side, old.price, [queue EXCEPT ![IndexIn(queue, old.id)] = new],
                        PutOrder(b.orders, new))
          [] OTHER -> Appended(Removed(b, old), new)
\* mutant: every modification is reported as losing its priority
ModifyEventsUnpreserved(b, r) ==
    IF CanModify(b, r) THEN <<ModifyEvent(b.orders[r.id], Modified(b, r), FALSE)>> ELSE <<>>
ModifyEvents(b, r) ==
    IF CanModify(b, r)
    THEN <<ModifyEvent(b.orders[r.id], Modified(b, r), SamePrice(b, r))>>
    ELSE <<>>

-----------------------------------------------------------------------------
(* match: best price first, then first in first out, while the price is    *)
(* within the limit and some of the aggressor's quantity remains. MatchLoop*)
(* models the loops themselves and is checked against these definitions.   *)

NoLimit == 0  \* a market order
\* mutant: a limit order does not trade at its own price
CrossesStrictly(side, restingPrice, limit) ==
    \/ limit = NoLimit
    \/ IF side = "buy" THEN restingPrice < limit ELSE restingPrice > limit
Crosses(side, restingPrice, limit) ==
    \/ limit = NoLimit
    \/ IF side = "buy" THEN restingPrice <= limit ELSE restingPrice >= limit

(* what the aggressor has met before it reaches a position                 *)
\* mutant: the youngest order of a level is reached first
PositionsAheadLastFirst(b, side, pos) ==
    {x \in Positions(b, side) : Ahead(side, x[1], pos[1]) \/ (x[1] = pos[1] /\ x[2] > pos[2])}
PositionsAhead(b, side, pos) ==
    {x \in Positions(b, side) : Ahead(side, x[1], pos[1]) \/ (x[1] = pos[1] /\ x[2] < pos[2])}

Traded(b, aggressor, limit, pos) ==
    LET rest  == Opposite(aggressor.side)
        ahead == Quantity(b, rest, PositionsAhead(b, rest, pos))
        qty   == OrderAt(b, rest, pos).qty
    IN  IF ~Crosses(aggressor.side, pos[1], limit) \/ ahead >= aggressor.qty THEN 0
        ELSE IF aggressor.qty - ahead < qty THEN aggressor.qty - ahead ELSE qty

UsedUp(b, aggressor, limit, pos) ==
    Traded(b, aggressor, limit, pos) = OrderAt(b, Opposite(aggressor.side), pos).qty

\* mutant: a partly filled order is put back with its old quantity
AfterFillUnchanged(b, aggressor, limit, pos) == OrderAt(b, Opposite(aggressor.side), pos)
AfterFill(b, aggressor, limit, pos) ==
    [OrderAt(b, Opposite(aggressor.side), pos) EXCEPT !.qty = @ - Traded(b, aggressor, limit, pos)]

(* the used up orders of a level are at the head of its queue              *)
QueueAfter(b, aggressor, limit, p) ==
    LET queue == b.levels[Opposite(aggressor.side)][p]
        gone  == Cardinality({i \in 1..Len(queue) : UsedUp(b, aggressor, limit, <<p, i>>)})
    IN  [i \in 1..(Len(queue) - gone) |-> AfterFill(b, aggressor, limit, <<p, i + gone>>)]

PositionOf(b, side, id) == CHOOSE pos \in Positions(b, side) : OrderAt(b, side, pos).id = id

Match(b, aggressor, limit) ==
    LET rest == Opposite(aggressor.side)
        left(id) == AfterFill(b, aggressor, limit, PositionOf(b, rest, id))
        gone == {OrderAt(b, rest, pos).id : pos \in
                    {x \in Positions(b, rest) : UsedUp(b, aggressor, limit, x)}}
        kept == {p \in DOMAIN b.levels[rest] : QueueAfter(b, aggressor, limit, p) # <<>>}
    IN  [levels |-> [b.levels EXCEPT ![rest] =
                       [p \in kept |-> QueueAfter(b, aggressor, limit, p)]],
         orders |-> [id \in DOMAIN b.orders \ gone |->
                       IF b.orders[id].side = rest THEN left(id) ELSE b.orders[id]]]

Filled(b, aggressor, limit) ==
    LET rest == Opposite(aggressor.side)
        all  == Quantity(b, rest, {pos \in Positions(b, rest) : Crosses(aggressor.side, pos[1], limit)})
    IN  IF all < aggressor.qty THEN all ELSE aggressor.qty

(* one execution per fill, in the order in which the positions are reached *)
Fills(b, aggressor, limit) ==
    {pos \in Positions(b, Opposite(aggressor.side)) : Traded(b, aggressor, limit, pos) > 0}
Reached(b, side, P, i) == CHOOSE pos \in P : Cardinality(P \cap PositionsAhead(b, side, pos)) = i - 1
MatchEvents(b, aggressor, limit) ==
    LET rest  == Opposite(aggressor.side)
        fills == Fills(b, aggressor, limit)
        fill(pos) == ExecuteEvent(OrderAt(b, rest, pos), Traded(b, aggressor, limit, pos))
    IN  [i \in 1..Cardinality(fills) |-> fill(Reached(b, rest, fills, i))]

-----------------------------------------------------------------------------
(* Level operations, used by baseline repair, agents and scenarios *)

(* removeLevel: drop a whole queue, one cancel per order                   *)
\* mutant: the orders of a removed level stay in the index
RemoveLevelKeepsIndex(b, side, price) ==
    [b EXCEPT !.levels[side] = PutQueue(@, price, <<>>)]
RemoveLevel(b, side, price) ==
    LET ids == {QueueAt(b, side, price)[i].id : i \in DOMAIN QueueAt(b, side, price)}
    IN  [levels |-> [b.levels EXCEPT ![side] = PutQueue(@, price, <<>>)],
         orders |-> [i \in DOMAIN b.orders \ ids |-> b.orders[i]]]
RemoveLevelEvents(b, side, price) ==
    [i \in DOMAIN QueueAt(b, side, price) |-> CancelEvent(QueueAt(b, side, price)[i])]

(* updateLevel: one synthetic order replaces whatever the level held       *)
LevelOrder(side, price, qty, owner) ==
    [id |-> LevelId(side, price), agent |-> owner, side |-> side, qty |-> qty,
     price |-> price, ts |-> 0]
UpdateLevel(b, side, price, qty, owner) ==
    LET o == LevelOrder(side, price, qty, owner)
        cleared == RemoveLevel(b, side, price)
    IN  IF qty <= 0 THEN cleared
        ELSE SetQueue(cleared, side, price, <<o>>, PutOrder(cleared.orders, o))
\* mutant: the other orders of a replaced level go unreported
UpdateLevelEventsSilent(b, side, price, qty, owner) ==
    IF qty <= 0 THEN RemoveLevelEvents(b, side, price)
    ELSE IF Known(b, LevelId(side, price)) THEN <<>>
    ELSE <<AddEvent(LevelOrder(side, price, qty, owner))>>
UpdateLevelEvents(b, side, price, qty, owner) ==
    LET o == LevelOrder(side, price, qty, owner)
        queue == QueueAt(b, side, price)
        others == Without(queue, o.id)
        replaced == queue[IndexIn(queue, o.id)]
    IN  IF qty <= 0 THEN RemoveLevelEvents(b, side, price)
        ELSE [i \in DOMAIN others |-> CancelEvent(others[i])] \o
             (CASE others = queue -> <<AddEvent(o)>>
                [] others # queue /\ replaced # o -> <<ModifyEvent(replaced, o, TRUE)>>
                [] OTHER -> <<>>)

(* updateAgentLevel: the order of this id, wherever it was, is taken out   *)
(* and put at the back of the level, even when it already was there; the   *)
(* report claims its priority was preserved, and is left out when the      *)
(* order is equal to the one it replaces. The port looks the order up in   *)
(* the index; the reference only looks through the level it writes to, and *)
(* an order of this id on another level stays there, out of the index.     *)
UpdateAgentLevel(b, o) ==
    IF o.qty <= 0 THEN CancelOrder(b, o.id)
    ELSE Appended(IF Known(b, o.id) THEN Removed(b, b.orders[o.id]) ELSE b, o)
UpdateAgentLevelHere(b, o) ==
    IF o.qty <= 0 THEN CancelOrder(b, o.id)
    ELSE SetQueue(b, o.side, o.price, Append(Without(QueueAt(b, o.side, o.price), o.id), o),
                  PutOrder(b.orders, o))
UpdateAgentLevelEvents(b, o) ==
    CASE o.qty <= 0 -> CancelEvents(b, o.id)
      [] o.qty > 0 /\ ~Known(b, o.id) -> <<AddEvent(o)>>
      [] o.qty > 0 /\ Known(b, o.id) /\ b.orders[o.id] # o ->
            <<ModifyEvent(b.orders[o.id], o, TRUE)>>
      [] OTHER -> <<>>

(* ensureLevelMinimum: the agent tops the level up to a minimum            *)
\* mutant: the agent's own order counts as one of the others
OthersQuantityWithOwn(b, side, price, id) == LevelQuantity(b, side, price)
OthersQuantity(b, side, price, id) ==
    Quantity(b, side, {pos \in Positions(b, side) :
                         pos[1] = price /\ OrderAt(b, side, pos).id # id})
TopUpOrder(b, side, price, minimum, agent) ==
    LET id == AgentLevelId(side, price, agent)
        others == OthersQuantity(b, side, price, id)
    IN  [id |-> id, agent |-> agent, side |-> side,
         qty |-> IF minimum > others THEN minimum - others ELSE 0, price |-> price, ts |-> 0]
EnsureLevelMinimum(b, side, price, minimum, agent) ==
    UpdateAgentLevel(b, TopUpOrder(b, side, price, minimum, agent))
EnsureLevelMinimumEvents(b, side, price, minimum, agent) ==
    UpdateAgentLevelEvents(b, TopUpOrder(b, side, price, minimum, agent))
=============================================================================
