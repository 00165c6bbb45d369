------------------------------ MODULE OrderBook ------------------------------
(***************************************************************************)
(* The order book as the kernel and the control plane drive it: orders     *)
(* submitted through the matching engine (IntegerMatchingEngine.submit)    *)
(* and level operations called on the book directly by agents, scenarios   *)
(* and baseline repair. One operation is one step: the engine belongs to   *)
(* one thread, in the service to the one that holds the service monitor.   *)
(***************************************************************************)
EXTENDS BookOps

CONSTANTS
    Quantities,  \* quantities an operation may ask for
    Stamps       \* timestamps an operation may carry

ASSUME InputsAssumption == Quantities \subseteq Lots /\ Stamps \subseteq Nat

VARIABLES
    events,  \* the events the last operation appended to the log
    outcome  \* "done", or "rejected" when it threw

vars == <<book, events, outcome>>

(* orders a client submits, and levels an agent sets                       *)
ClientOrders == [id : ClientIds, agent : Agents, side : Sides,
                 qty : Quantities, price : Prices, ts : Stamps]

TypeOK ==
    /\ IsBook(book)
    /\ outcome \in {"done", "rejected"}

Init ==
    /\ book = EmptyBook
    /\ events = <<>>
    /\ outcome = "done"

-----------------------------------------------------------------------------
(* Orders submitted through the engine *)

(* A limit order matches first; what is left rests. An id that still is in *)
(* the book makes the add throw after the executions have been recorded.   *)
SubmitLimit(o) ==
    LET matched == Match(book, o, o.price)
        fills   == MatchEvents(book, o, o.price)
        rest    == [o EXCEPT !.qty = @ - Filled(book, o, o.price)]
    IN  \/ /\ rest.qty = 0
           /\ book' = matched /\ events' = fills /\ outcome' = "done"
        \/ /\ rest.qty > 0 /\ CanAdd(matched, o)
           /\ book' = AddOrder(matched, rest)
           /\ events' = fills \o AddEvents(matched, rest)
           /\ outcome' = "done"
        \/ /\ rest.qty > 0 /\ ~CanAdd(matched, o)
           /\ book' = matched /\ events' = fills /\ outcome' = "rejected"

SubmitMarket(o) ==
    /\ book' = Match(book, o, NoLimit)
    /\ events' = MatchEvents(book, o, NoLimit)
    /\ outcome' = "done"

SubmitCancel(id) ==
    /\ book' = CancelOrder(book, id)
    /\ events' = CancelEvents(book, id)
    /\ outcome' = "done"

(* an unknown id is ignored, a change of side or agent throws              *)
SubmitModify(r) ==
    /\ book' = ModifyOrder(book, r)
    /\ events' = ModifyEvents(book, r)
    /\ outcome' = IF Known(book, r.id) /\ ~CanModify(book, r) THEN "rejected" ELSE "done"

-----------------------------------------------------------------------------
(* Level operations called on the book *)

SetLevel(side, price, qty, owner) ==
    /\ book' = UpdateLevel(book, side, price, qty, owner)
    /\ events' = UpdateLevelEvents(book, side, price, qty, owner)
    /\ outcome' = "done"

(* under an id of its own (scenarios, historical levels) or the default id *)
SetAgentLevel(o) ==
    /\ book' = UpdateAgentLevel(book, o)
    /\ events' = UpdateAgentLevelEvents(book, o)
    /\ outcome' = "done"

RaiseLevel(side, price, minimum, agent) ==
    /\ book' = EnsureLevelMinimum(book, side, price, minimum, agent)
    /\ events' = EnsureLevelMinimumEvents(book, side, price, minimum, agent)
    /\ outcome' = "done"

DropLevel(side, price) ==
    /\ book' = RemoveLevel(book, side, price)
    /\ events' = RemoveLevelEvents(book, side, price)
    /\ outcome' = "done"

-----------------------------------------------------------------------------
OrderNext ==
    \/ \E o \in ClientOrders : SubmitLimit(o) \/ SubmitMarket(o)
    \/ \E id \in DOMAIN book.orders : SubmitCancel(id)

ModifyNext == \E r \in ClientOrders : SubmitModify(r)

DefaultId(o) == [o EXCEPT !.id = AgentLevelId(o.side, o.price, o.agent)]

LevelNext ==
    \/ \E o \in ClientOrders, q \in {0} \cup Quantities :
         SetAgentLevel([o EXCEPT !.qty = q]) \/ SetAgentLevel([DefaultId(o) EXCEPT !.qty = q])
    \/ \E s \in Sides, p \in Prices, q \in {0} \cup Quantities, a \in Agents :
         SetLevel(s, p, q, a)
    \/ \E s \in Sides, p \in Prices, q \in Quantities, a \in Agents : RaiseLevel(s, p, q, a)
    \/ \E s \in Sides, p \in Prices : DropLevel(s, p)

Next == OrderNext \/ ModifyNext \/ LevelNext

Spec == Init /\ [][Next]_vars

(* a stream of limit, market and cancel orders only                        *)
OrderSpec == Init /\ [][OrderNext]_vars

-----------------------------------------------------------------------------
(* Properties *)

(* The two structures of the book agree: a queue holds exactly the orders  *)
(* the index has at its side and price, each once and in the same state,   *)
(* no level is kept empty, and an order with the id of a level rests on    *)
(* that level. Every operation has to maintain both structures; the book   *)
(* throws "order index is inconsistent" where it relies on them.           *)
IndexMatchesQueues ==
    /\ QueuedAreIndexed(book)
    /\ QueuedOnce(book)
    /\ IndexedAreQueued(book)
    /\ NoEmptyLevel(book)
    /\ LevelOrdersAtHome(book)

(* The matching of limit orders keeps the best bid below the best ask, as  *)
(* long as nothing is repriced or written to a level without matching.     *)
NotCrossed ==
    \A bid \in DOMAIN book.levels["buy"], ask \in DOMAIN book.levels["sell"] : bid < ask

(* A submitted order never crosses a book that was not crossed, whatever   *)
(* operations made that book.                                              *)
OrdersDoNotCross == [][NotCrossed /\ ~NotCrossed' => ~OrderNext]_vars

(* Best price first, then first in first out: when an order is traded,     *)
(* every order of its side that was ahead of it is gone afterwards.        *)
Executions == {i \in DOMAIN events' : events'[i].type = "execute"}
NoTradeThrough ==
    [][\A i \in Executions :
         LET hit == events'[i].before
         IN  \A id \in DOMAIN book.orders :
               LET o == book.orders[id]
                   sameQueue == book.levels[hit.side][hit.price]
               IN  /\ o.side = hit.side
                   /\ \/ Ahead(hit.side, o.price, hit.price)
                      \/ /\ o.price = hit.price
                         /\ IndexIn(sameQueue, id) < IndexIn(sameQueue, hit.id)
                   => id \notin DOMAIN book'.orders \/ book'.orders[id].side # hit.side]_vars

(* Lots are neither made nor lost by a trade: in a step that executes,     *)
(* the resting side loses exactly the executed lots, each resting order by *)
(* what its own execution event reports, the aggressor's side gains the    *)
(* order that rests and nothing else, and what was traded and what rests   *)
(* are together no more than an order asks for.                            *)
SideQuantity(b, side) == Quantity(b, side, Positions(b, side))
ExecutedLots == UNION {{<<i, n>> : n \in 1..(events'[i].before.qty - events'[i].order.qty)}
                       : i \in Executions}
TradesConserveLots ==
    [][Executions # {} =>
         LET side == events'[1].before.side
             added == {i \in DOMAIN events' : events'[i].type = "add"}
         IN  /\ SideQuantity(book', side) = SideQuantity(book, side) - Cardinality(ExecutedLots)
             /\ \A i \in Executions :
                  LET e == events'[i]
                  IN  IF e.order.qty = 0 THEN e.order.id \notin DOMAIN book'.orders \/
                                              \E j \in added : events'[j].order.id = e.order.id
                      ELSE book'.orders[e.order.id] = e.order
             /\ SideQuantity(book', Opposite(side)) =
                  SideQuantity(book, Opposite(side)) +
                  (IF added = {} THEN 0 ELSE events'[CHOOSE j \in added : TRUE].order.qty)
             /\ \A j \in added :
                  events'[j].order.qty + Cardinality(ExecutedLots) \in Quantities]_vars
=============================================================================
