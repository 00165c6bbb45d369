------------------------- MODULE OrderBookInvariants -------------------------
(***************************************************************************)
(* The inductive invariants of the book and of what runs on it, and the    *)
(* operators their proofs (OrderBookProofs) speak with. IInv is the type   *)
(* of the book together with the agreement of queues and index: no         *)
(* operation keeps either of them without relying on the other.            *)
(*                                                                         *)
(* RunInv of the runs (KernelRun) adds to a Good book that every id has    *)
(* one home, that each order rests where ladder or scenario may have put   *)
(* it, that the operations left in the tick fit the book, and how far      *)
(* scenario and ladder repair have come. Its parts are operators of what   *)
(* they are about: w is what the scenario works on (Plan), b a book, and Q *)
(* what the phase still has to do.                                         *)
(*                                                                         *)
(* LoopInv of the loops of match (MatchLoop) says what book, executions    *)
(* and remaining lots are once some of the positions have been met.        *)
(***************************************************************************)
EXTENDS OrderBook, EventFeed, KernelRun, MatchLoop

(* what every operation keeps of a book                                    *)
Good(b) ==
    /\ IsBook(b)
    /\ QueuedAreIndexed(b) /\ QueuedOnce(b) /\ IndexedAreQueued(b) /\ NoEmptyLevel(b)
    /\ LevelOrdersAtHome(b)

(* an order that may enter the book as far as level ids are concerned      *)
AtHome(o) == \A s \in Sides, p \in Prices : o.id = LevelId(s, p) => o.side = s /\ o.price = p

(* the first "gone" orders of a queue are used up, the rest is its tail     *)
IsTail(b, ag, limit, p, queue, after, gone) ==
    /\ \A i \in 1..Len(queue) : UsedUp(b, ag, limit, <<p, i>>) <=> i <= gone
    /\ after = [i \in 1..(Len(queue) - gone) |-> AfterFill(b, ag, limit, <<p, i + gone>>)]

(* the invariant of the book                                               *)
IInv ==
    /\ Good(book)
    /\ outcome \in {"done", "rejected"}

(* NotCrossed of any book                                                  *)
Uncrossed(b) == \A bid \in DOMAIN b.levels["buy"], ask \in DOMAIN b.levels["sell"] : bid < ask

(* how many of P are reached before a position                             *)
Rank(b, s, P, pos) == Cardinality(P \cap PositionsAhead(b, s, pos))

(* events that report no execution                                         *)
Quiet(es) == \A i \in DOMAIN es : es[i].type # "execute"

(* What a step that executes is: an order of a client was matched, and is  *)
(* traded away, rests, or is refused because its id is still in the book.  *)
Executed(o, limit) ==
    /\ o \in ClientOrders /\ limit \in Nat
    /\ LET matched == Match(book, o, limit)
           found == MatchEvents(book, o, limit)
           rest == [o EXCEPT !.qty = o.qty - Filled(book, o, limit)]
       IN  \/ book' = matched /\ events' = found
           \/ /\ rest.qty > 0 /\ CanAdd(matched, o) /\ limit = o.price
              /\ book' = Appended(matched, rest)
              /\ events' = found \o <<AddEvent(rest)>>

-----------------------------------------------------------------------------
(* the lots of one side by the order they belong to                        *)
IdsOf(b, s) == {id \in DOMAIN b.orders : b.orders[id].side = s}

LotsOf(b, s) == UNION {{<<id, n>> : n \in 1..b.orders[id].qty} : id \in IdsOf(b, s)}

(* the lots a list of executions reports as traded                         *)
LotsIn(es) == UNION {{<<i, n>> : n \in 1..(es[i].before.qty - es[i].order.qty)} : i \in DOMAIN es}

(* the parts of TradesConserveLots, in a step                              *)
RestingSideLoses(side) ==
    SideQuantity(book', side) = SideQuantity(book, side) - Cardinality(ExecutedLots)

EachByItsEvent(added) ==
    \A i \in Executions :
      LET e == events'[i]
      IN  IF e.order.qty = 0 THEN e.order.id \notin DOMAIN book'.orders \/
                                  \E j \in added : events'[j].order.id = e.order.id
          ELSE book'.orders[e.order.id] = e.order

OtherSideGains(side, added) ==
    SideQuantity(book', Opposite(side)) =
      SideQuantity(book, Opposite(side)) +
      (IF added = {} THEN 0 ELSE events'[CHOOSE j \in added : TRUE].order.qty)

NoMoreThanAsked(added) ==
    \A j \in added : events'[j].order.qty + Cardinality(ExecutedLots) \in Quantities

SamePlace(x, y) == x.id = y.id /\ x.side = y.side /\ x.price = y.price

(* every order of c was in b, in the same place, or is one of the new ones *)
OnlyAdds(b, c, new) ==
    \A id \in DOMAIN c.orders :
        \/ \E o \in new : o.id = id /\ c.orders[id] = o
        \/ id \in DOMAIN b.orders /\ SamePlace(c.orders[id], b.orders[id])

IdsAt(b, s, p) == {id \in DOMAIN b.orders : b.orders[id].side = s /\ b.orders[id].price = p}

LotsOfIds(b, I) == UNION {{<<id, n>> : n \in 1..b.orders[id].qty} : id \in I}

-----------------------------------------------------------------------------
Plan == [name |-> name, side |-> layerSide, wall |-> wallPrice]

Plans == [name : Scenarios, side : Sides, wall : Nat]

Span == Levels * Spacing

Near(side, p) ==
    IF side = "sell" THEN p \in (ReferencePrice + 1)..(ReferencePrice + Span)
    ELSE p \in (ReferencePrice - Span)..(ReferencePrice - 1)

(* where the orders of a scenario rest                                     *)
AbuseIds == LayerIds \cup {WallId}

AbusePlace(w, id, side, p) ==
    /\ w.wall # 0
    /\ \/ w.name = "spoofing_like_wall" /\ id = WallId /\ side = "sell" /\ p = w.wall
       \/ /\ w.name = "layering_like" /\ side = w.side
          /\ \E i \in 0..2 : id = LayerId(i) /\ p = Away(w.side, w.wall, i)

WallFits(w) ==
    w.wall # 0 =>
        \/ /\ w.name = "spoofing_like_wall" \/ (w.name = "layering_like" /\ w.side = "sell")
           /\ w.wall \in (ReferencePrice + 1)..(ReferencePrice + Span + 2)
        \/ /\ w.name = "layering_like" /\ w.side = "buy"
           /\ w.wall \in (ReferencePrice - Span - 2)..(ReferencePrice - 1)

(* Every id of an agent or a scenario has one place, and orders rest where *)
(* the ladder or the scenario has them, but for a burst that is about to   *)
(* be dropped.                                                             *)
HomeOf(w, id, side, p) ==
    /\ \A s \in Sides, x \in Prices, a \in Agents : id = AgentLevelId(s, x, a) => side = s /\ p = x
    /\ id \in AbuseIds => AbusePlace(w, id, side, p)

Allowed(w, side, p) == Near(side, p) \/ \E id \in AbuseIds : AbusePlace(w, id, side, p)

IsDrop(op, side, p) == op.kind = "drop" /\ op.side = side /\ op.price = p

DropComes(Q, side, p) == \E i \in DOMAIN Q : IsDrop(Q[i], side, p)

OrderFits(w, Q, o) ==
    /\ HomeOf(w, o.id, o.side, o.price)
    /\ \/ Allowed(w, o.side, o.price)
       \/ o.side = "sell" /\ o.price > ReferencePrice /\ DropComes(Q, o.side, o.price)

BookFits(w, Q, b) == Good(b) /\ \A id \in DOMAIN b.orders : OrderFits(w, Q, b.orders[id])

Kinds == {"quote", "market", "cancel", "set", "drop", "thin", "repair"}

RunOp == [kind : Kinds, id : Ids, agent : Agents, side : Sides, price : Int, lots : Int]

IsRepair(op, side, level) ==
    /\ op.kind = "repair" /\ op.side = side /\ op.price = Ladder(side, level)
    /\ op.lots = LadderTarget(level)

OpFits(w, op) ==
    CASE op.kind = "quote" ->
           /\ op.lots \in Lots /\ op.price \in Prices /\ op.id \in AbuseIds \cup AgentLevelIds
           /\ HomeOf(w, op.id, op.side, op.price) /\ Allowed(w, op.side, op.price)
      [] op.kind = "market" -> op.lots \in Lots
      [] op.kind = "cancel" -> TRUE
      [] op.kind = "set" ->
           op.price \in Prices /\ op.lots \in Lots /\ op.side = "sell" /\ op.price > ReferencePrice
      [] op.kind = "drop" -> op.price \in Prices
      [] op.kind = "thin" -> Allowed(w, op.side, op.price)
      [] op.kind = "repair" -> \E level \in 1..Levels : IsRepair(op, op.side, level)

PendingFits(w, Q) ==
    /\ Q \in Seq(RunOp)
    /\ \A i \in 1..Len(Q) : OpFits(w, Q[i])
    /\ \A i \in 1..Len(Q) : Q[i].kind = "set" =>
         \E j \in 1..Len(Q) : i < j /\ IsDrop(Q[j], Q[i].side, Q[i].price)

(* When the cancellation stage has been entered, every order of the        *)
(* scenario is gone or about to be cancelled.                              *)
AbuseRests(b) == AbuseIds \cap DOMAIN b.orders

CancelComes(Q, id) == \E i \in DOMAIN Q : Q[i].kind = "cancel" /\ Q[i].id = id

NoAbuseQuote(Q) == \A i \in DOMAIN Q : Q[i].kind = "quote" => Q[i].id \notin AbuseIds

StagesFit ==
    /\ "wall_placed" \notin applied => wallPrice = 0
    /\ "wall_cancelled" \in applied => tick >= 8 \/ (tick = 7 /\ phase # "agents")
    /\ phase # "scenario" \/ tick >= 7 => NoAbuseQuote(pending)
    /\ tick = 7 /\ phase = "scenario" => \A id \in AbuseRests(book) : CancelComes(pending, id)
    /\ tick >= 8 \/ (tick = 7 /\ phase \notin {"agents", "scenario"}) => AbuseRests(book) = {}

(* During the repair every level of the ladder is restored or about to be. *)
RepairComes(Q, side, level) == \E i \in DOMAIN Q : IsRepair(Q[i], side, level)

Restored(b, side, level) == LevelQuantity(b, side, Ladder(side, level)) >= LadderTarget(level)

LadderFits ==
    /\ phase = "baseline" =>
         /\ \A i \in DOMAIN pending : pending[i].kind = "repair"
         /\ \A side \in Sides, level \in 1..Levels :
              Restored(book, side, level) \/ RepairComes(pending, side, level)
    /\ phase \in {"recorded", "rejected", "finished"} =>
         /\ pending = <<>>
         /\ \A side \in Sides, level \in 1..Levels : Restored(book, side, level)

(* the invariant of a run                                                  *)
RunInv ==
    /\ name \in Scenarios /\ layerSide \in Sides /\ wallPrice \in Nat /\ tick \in Nat /\ phase \in Phases
    /\ WallFits(Plan)
    /\ PendingFits(Plan, pending)
    /\ BookFits(Plan, pending, book)
    /\ StagesFit
    /\ LadderFits

(* what op added to b to make c fits, with R left to do after it           *)
AddsFit(w, R, op, b, c) ==
    \E new : /\ OnlyAdds(b, c, new)
             /\ \A o \in new : /\ OrderFits(w, R, o)
                               /\ o.id \in AbuseIds => op.kind = "quote" /\ o.id = op.id

LadderOrders == {LadderOrder(side, i) : side \in Sides, i \in 1..Levels}

(* what agents may do                                                      *)
AgentOps(w) ==
    {op \in RunOp : /\ OpFits(w, op) /\ op.kind \in {"quote", "market"}
                    /\ op.kind = "quote" => op.id \notin AbuseIds}

(* what a scenario may do, bursts apart                                    *)
FitOps(w) == {op \in RunOp : OpFits(w, op) /\ op.kind # "set"}

(* what a scenario leaves to do, and where it puts its wall                *)
ScenarioFits ==
    /\ wallPrice' \in Nat /\ WallFits(Plan') /\ PendingFits(Plan', pending')
    /\ wallPrice' # wallPrice => wallPrice = 0 /\ StageAt(tick) = "wall_placed"
    /\ tick >= 7 => NoAbuseQuote(pending')
    /\ tick = 7 => \A id \in AbuseRests(book) : CancelComes(pending', id)

-----------------------------------------------------------------------------
(* what the recursion of Reading asks of a function that reads n events    *)
Reads(r, f, es, n) == r = [i \in 0..n |-> IF i = 0 THEN f ELSE Applied(r[i - 1], es[i])]

(* Cancelling the orders of a sequence one by one drops their ids.         *)
CancelledIndex(orders, q, n) == [id \in DOMAIN orders \ {q[k].id : k \in 1..n} |-> orders[id]]

IndexRead(f, es) == Reading(f, es)[Len(es)].orders

IsIndex(orders) == orders = [id \in DOMAIN orders |-> orders[id]]

(* The orders of a sequence are in an index, each once; and their cancels. *)
AllIndexed(orders, q) ==
    /\ IsIndex(orders) /\ q \in Seq(Order)
    /\ \A k \in 1..Len(q) : q[k].id \in DOMAIN orders /\ orders[q[k].id] = q[k]
    /\ \A k, l \in 1..Len(q) : q[k].id = q[l].id => k = l

Cancels(q) == [i \in DOMAIN q |-> CancelEvent(q[i])]

(* The index after the fills of some positions: an order that is used up   *)
(* is gone, one that is met and not used up is reduced.                    *)
GoneIds(b, ag, limit, D) ==
    {OrderAt(b, Opposite(ag.side), x).id : x \in {y \in D : UsedUp(b, ag, limit, y)}}

MetIds(b, ag, D) == {OrderAt(b, Opposite(ag.side), x).id : x \in D}

FilledIndex(b, ag, limit, D) ==
    [id \in DOMAIN b.orders \ GoneIds(b, ag, limit, D) |->
        IF id \in MetIds(b, ag, D) THEN AfterFill(b, ag, limit, PositionOf(b, Opposite(ag.side), id))
        ELSE b.orders[id]]

(* What is left of a queue after the fills of some positions, and of the   *)
(* book.                                                                   *)
UsedIndexes(b, ag, limit, D, p) ==
    {i \in 1..Len(b.levels[Opposite(ag.side)][p]) : <<p, i>> \in D /\ UsedUp(b, ag, limit, <<p, i>>)}

FilledQueue(b, ag, limit, D, p) ==
    LET queue == b.levels[Opposite(ag.side)][p]
        gone  == Cardinality(UsedIndexes(b, ag, limit, D, p))
    IN  [i \in 1..(Len(queue) - gone) |->
           IF <<p, i + gone>> \in D THEN AfterFill(b, ag, limit, <<p, i + gone>>)
           ELSE queue[i + gone]]

FilledLevels(b, ag, limit, D) ==
    [p \in {x \in DOMAIN b.levels[Opposite(ag.side)] : FilledQueue(b, ag, limit, D, x) # <<>>} |->
        FilledQueue(b, ag, limit, D, p)]

FilledBook(b, ag, limit, D) ==
    [levels |-> [b.levels EXCEPT ![Opposite(ag.side)] = FilledLevels(b, ag, limit, D)],
     orders |-> FilledIndex(b, ag, limit, D)]

(* what a queue is without its first orders, and with another at its head  *)
IsRest(rest, q, gone) == rest = [i \in 1..(Len(q) - gone) |-> q[i + gone]]

IsRestAfter(rest, head, q, gone) ==
    rest = [i \in 1..(Len(q) - gone) |-> IF i = 1 THEN head ELSE q[i + gone]]

-----------------------------------------------------------------------------
(* What is left of the aggressor once it has met some positions, what it   *)
(* has been reported to have traded, the queue of a level that is walked   *)
(* and the queues when some levels are left to walk.                       *)
LeftOver(b, ag, D) ==
    IF Quantity(b, Opposite(ag.side), D) < ag.qty THEN ag.qty - Quantity(b, Opposite(ag.side), D) ELSE 0

EventsOf(b, ag, limit, D) ==
    [i \in 1..Cardinality(D \cap Fills(b, ag, limit)) |-> MatchEvents(b, ag, limit)[i]]

GoneFrom(b, ag, limit, p) ==
    Cardinality({i \in 1..Len(b.levels[Opposite(ag.side)][p]) : UsedUp(b, ag, limit, <<p, i>>)})

KeptUpTo(b, ag, limit, p, k) ==
    [i \in 1..(k - GoneFrom(b, ag, limit, p)) |->
        AfterFill(b, ag, limit, <<p, i + GoneFrom(b, ag, limit, p)>>)]

HalfMatched(b, ag, limit, left) ==
    [p \in {q \in DOMAIN b.levels[Opposite(ag.side)] : q \in left \/ QueueAfter(b, ag, limit, q) # <<>>} |->
        IF p \in left THEN b.levels[Opposite(ag.side)][p] ELSE QueueAfter(b, ag, limit, p)]

(* The invariant of the loops: what has been met of the book the call      *)
(* began with says how far everything else is.                             *)
LevelsLeft == IF pc = "queue" THEN unlooked \cup {levelPrice} ELSE unlooked

Met == {x \in Positions(startBook, Resting) :
          \/ x[1] \notin LevelsLeft
          \/ pc = "queue" /\ x[1] = levelPrice /\ x[2] <= walked}

CallOK ==
    /\ startBook \in StartBooks /\ aggressor \in Aggressors /\ limitTicks \in Limits
    /\ pc \in {"levels", "queue", "done"}
    /\ unlooked \subseteq DOMAIN startBook.levels[Resting]

BestFirst ==
    /\ \A p \in DOMAIN startBook.levels[Resting] \ unlooked :
         Crosses(aggressor.side, p, limitTicks) /\ \A q \in unlooked : Ahead(Resting, p, q)
    /\ pc = "done" => \/ remaining = 0
                      \/ \A p \in unlooked : ~Crosses(aggressor.side, p, limitTicks)

LevelOK ==
    pc = "queue" =>
        /\ levelPrice \in DOMAIN startBook.levels[Resting] \ unlooked
        /\ walked \in 0..Len(startBook.levels[Resting][levelPrice])
        /\ \A p \in DOMAIN startBook.levels[Resting] \ LevelsLeft : Ahead(Resting, p, levelPrice)
        /\ updatedQueue = KeptUpTo(startBook, aggressor, limitTicks, levelPrice, walked)

Counted ==
    /\ remaining = LeftOver(startBook, aggressor, Met)
    /\ executions = EventsOf(startBook, aggressor, limitTicks, Met)

BookSoFar(b, ag, limit, left, D) ==
    [levels |-> [b.levels EXCEPT ![Opposite(ag.side)] = HalfMatched(b, ag, limit, left)],
     orders |-> FilledIndex(b, ag, limit, D)]

LoopInv ==
    /\ CallOK /\ BestFirst /\ LevelOK /\ Counted
    /\ book = BookSoFar(startBook, aggressor, limitTicks, LevelsLeft, Met)
=============================================================================
