---------------------------- MODULE MCDataIngestion ----------------------------
(* Pairs as LOBSTER records them: an exchange applies a script of operations *)
(* to a book that is open already, and every operation that is seen in the   *)
(* first two levels of a side, before it or after it, gives a message and    *)
(* a row.  Some pairs are altered afterwards.                                *)
EXTENDS DataIngestion

Order(side, price, size) == [side |-> side, price |-> price, size |-> size]
Opening == (1 :> Order("SELL", 101, 2)) @@ (2 :> Order("SELL", 103, 1)) @@ (3 :> Order("BUY", 99, 2))

-----------------------------------------------------------------------------
(* The recorder *)

Worst(side) == IF side = "SELL" THEN Dummy ELSE 0 - Dummy
Ahead(side, p, q) == IF side = "SELL" THEN p < q ELSE p > q
Prices(orders, side) == {orders[i].price : i \in {i \in DOMAIN orders : orders[i].side = side}}
SizeAtPrice(orders, side, p) ==
    FoldFunctionOnSet(+, 0, [i \in DOMAIN orders |-> orders[i].size],
                      {i \in DOMAIN orders : orders[i].side = side /\ orders[i].price = p})
Rank(orders, side, p) == Cardinality({q \in Prices(orders, side) : Ahead(side, q, p)}) + 1
LevelAt(orders, side, n) ==
    IF \E p \in Prices(orders, side) : Rank(orders, side, p) = n
    THEN LET p == CHOOSE p \in Prices(orders, side) : Rank(orders, side, p) = n
         IN  <<p, SizeAtPrice(orders, side, p)>>
    ELSE <<Worst(side), 0>>
RowOf(orders) ==
    LET level(n) == LevelAt(orders, "SELL", n) \o LevelAt(orders, "BUY", n) IN <<level(1), level(2)>>
InSight(orders, op) ==
    op.side = "none" \/ (op.price \in Prices(orders, op.side) /\ Rank(orders, op.side, op.price) <= Depth)

Applied(orders, op) ==
    CASE op.code = Codes.add -> Put(orders, op.id, Order(op.side, op.price, op.size))
      [] op.code \in Codes.reduce .. Codes.execute ->
            IF orders[op.id].size = op.size THEN Drop(orders, op.id)
            ELSE Put(orders, op.id, [orders[op.id] EXCEPT !.size = @ - op.size])
      [] OTHER -> orders

MessageOf(op, time) ==
    [time |-> time, code |-> op.code, id |-> op.id, size |-> op.size, price |-> op.price,
     direction |-> IF op.side = "BUY" THEN 1 ELSE -1]

Blank == [orders |-> Opening, messages |-> <<>>, books |-> <<>>, count |-> 0]
Observe(s, op) ==
    LET after == Applied(s.orders, op)
        seen == InSight(s.orders, op) \/ InSight(after, op)
    IN  [orders |-> after, count |-> s.count + 1,
         messages |-> IF seen THEN Append(s.messages, MessageOf(op, s.count \div 3)) ELSE s.messages,
         books |-> IF seen THEN Append(s.books, RowOf(after)) ELSE s.books]
Recording(script) ==
    LET s == FoldLeft(Observe, Blank, script) IN [messages |-> s.messages, books |-> s.books]

-----------------------------------------------------------------------------
(* Scripts and deliveries *)

Op(code, id, side, price, size) == [code |-> code, id |-> id, side |-> side, price |-> price, size |-> size]
Add(id, side, price, size) == Op(Codes.add, id, side, price, size)
Halt == Op(Codes.halt, 0, "none", 0, 0)

Scripts ==
    << \* an order is reduced, traded and deleted; an old one is emptied;
       \* a new best level pushes one out of sight, which comes back
       <<Add(11, "BUY", 100, 3), Op(2, 11, "BUY", 100, 1), Op(4, 11, "BUY", 100, 1), Op(3, 11, "BUY", 100, 1),
         Op(4, 1, "SELL", 101, 1), Add(12, "SELL", 100, 1), Add(13, "SELL", 103, 2), Op(4, 12, "SELL", 100, 1),
         Op(3, 13, "SELL", 103, 2)>>,
       \* orders behind others, hidden trades and a halt; a side that is
       \* emptied; a bid that stays at the best ask
       <<Add(11, "BUY", 99, 1), Op(5, 0, "SELL", 100, 4), Halt, Op(6, 0, "BUY", 102, 1), Op(3, 3, "BUY", 99, 2),
         Op(4, 11, "BUY", 99, 1), Add(14, "BUY", 101, 1), Op(2, 1, "SELL", 101, 1)>> >>

\* An order is reduced while it is out of sight, and deleted when it is back.
Unseen ==
    <<Add(11, "SELL", 102, 3), Add(12, "SELL", 100, 1), Op(2, 11, "SELL", 102, 1), Op(4, 12, "SELL", 100, 1),
      Op(3, 11, "SELL", 102, 2)>>

Sample == Recording(Scripts[1])
MCAltered ==
    << \* one row too many; a time that is out of order; a change out of sight
      [Sample EXCEPT !.books = Append(@, Last(@))],
      [Sample EXCEPT !.messages[2].time = 3],
      Recording(Unseen) >>
MCRecorded == [i \in DOMAIN Scripts |-> Recording(Scripts[i])]
MCWindows == {<<0, 4>>, <<1, 2>>, <<1, 5>>}
=============================================================================
