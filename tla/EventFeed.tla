------------------------------ MODULE EventFeed ------------------------------
(***************************************************************************)
(* The book together with a reader of its canonical events.  The reader    *)
(* keeps a book of its own and applies every event by the published rules  *)
(* of the stream: add goes to the back of its queue, a modify that claims  *)
(* its priority was preserved stays in place, any other modify moves to    *)
(* the back of its new level, an execution reduces the resting order.      *)
(***************************************************************************)
EXTENDS OrderBook

VARIABLE feed  \* the book the reader has built from the events so far

feedVars == <<book, events, outcome, feed>>

Replaced(b, before, after) ==
    LET queue == b.levels[before.side][before.price]
    IN  SetQueue(b, before.side, before.price, [queue EXCEPT ![IndexIn(queue, before.id)] = after],
                 PutOrder(b.orders, after))

InPlace(f, e) ==
    /\ e.preserved
    /\ e.order.side = f.orders[e.order.id].side
    /\ e.order.price = f.orders[e.order.id].price

Applied(f, e) ==
    CASE e.type = "add" -> Appended(f, e.order)
      [] e.type = "cancel" -> Removed(f, f.orders[e.order.id])
      [] e.type = "modify" /\ InPlace(f, e) -> Replaced(f, f.orders[e.order.id], e.order)
      [] e.type = "modify" /\ ~InPlace(f, e) ->
            Appended(Removed(f, f.orders[e.order.id]), e.order)
      [] e.type = "execute" /\ e.order.qty = 0 -> Removed(f, f.orders[e.order.id])
      [] e.type = "execute" /\ e.order.qty > 0 -> Replaced(f, f.orders[e.order.id], e.order)

FeedInit == Init /\ feed = EmptyBook

(* the reader's book after each of some events                             *)
Reading(f, es) ==
    LET after[i \in 0..Len(es)] == IF i = 0 THEN f ELSE Applied(after[i - 1], es[i])
    IN  after
Read == feed' = Reading(feed, events')[Len(events')]

FeedNext == Next /\ Read
FeedSpec == FeedInit /\ [][FeedNext]_feedVars
ExchangeFeedSpec == FeedInit /\ [][(OrderNext \/ ModifyNext) /\ Read]_feedVars

-----------------------------------------------------------------------------
(* Whatever the operations are, and also when a command is rejected half   *)
(* way, the events are enough to know every resting order, its side, price *)
(* and remaining quantity.                                                 *)
FeedKnowsOrders == feed.orders = book.orders

(* The events of submitted orders reconstruct the book order by order:     *)
(* the reader also knows who is ahead of whom in every queue.              *)
FeedKnowsQueues == feed = book

=============================================================================
