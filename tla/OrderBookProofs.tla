--------------------------- MODULE OrderBookProofs ---------------------------
(***************************************************************************)
(* What holds of the order book for every set of prices, agents, ids and   *)
(* quantities, from the invariants in OrderBookInvariants. Each operation  *)
(* of BookOps has a lemma that it keeps a book "Good"; matching needs the  *)
(* most, that the orders it uses up are a prefix of every queue. Then come *)
(* the runs (KernelRun) on such a book, a reader of its events (EventFeed) *)
(* and the loops of match (MatchLoop).                                     *)
(***************************************************************************)
EXTENDS OrderBookInvariants, FiniteSetTheorems, WellFoundedInduction, TLAPS

(* What IsBook says of one side of the book.                               *)
LEMMA BookType ==
  ASSUME NEW b, IsBook(b), NEW s \in Sides
  PROVE  /\ DOMAIN b.levels[s] \subseteq Prices
         /\ \A p \in DOMAIN b.levels[s] :
               /\ b.levels[s][p] \in Seq(Order)
               /\ Len(b.levels[s][p]) \in Nat
               /\ DOMAIN b.levels[s][p] = 1..Len(b.levels[s][p])
               /\ \A i \in 1..Len(b.levels[s][p]) : b.levels[s][p][i] \in Order
         /\ DOMAIN b.orders \subseteq Ids
         /\ \A id \in DOMAIN b.orders : b.orders[id] \in Order
BY DEF IsBook, IsMap

(* SetQueue replaces the queues of one side and the index.                 *)
LEMMA SetQueueFacts ==
  ASSUME NEW b, IsBook(b), NEW s \in Sides, NEW p, NEW q, NEW orders
  PROVE  /\ SetQueue(b, s, p, q, orders).orders = orders
         /\ SetQueue(b, s, p, q, orders).levels =
              [t \in Sides |-> IF t = s THEN PutQueue(b.levels[s], p, q) ELSE b.levels[t]]
BY DEF SetQueue, IsBook

(* SetQueue keeps the type of the book.                                    *)
LEMMA SetQueueIsBook ==
  ASSUME NEW b, IsBook(b), NEW s \in Sides, NEW p \in Prices,
         NEW q \in Seq(Order), NEW orders, IsMap(orders, Ids, Order)
  PROVE  IsBook(SetQueue(b, s, p, q, orders))
<1> DEFINE lv == PutQueue(b.levels[s], p, q)
           c == SetQueue(b, s, p, q, orders)
<1>1. IsMap(b.levels[s], Prices, Seq(Order)) BY DEF IsBook
<1>2. IsMap(lv, Prices, Seq(Order)) BY <1>1 DEF IsMap, PutQueue
<1>3. c = [levels |-> c.levels, orders |-> c.orders] BY DEF SetQueue
<1>4. c.orders = orders /\ c.levels = [t \in Sides |-> IF t = s THEN lv ELSE b.levels[t]]
  BY SetQueueFacts
<1>5. \A t \in Sides : IsMap(c.levels[t], Prices, Seq(Order))
  BY <1>2, <1>4 DEF IsBook
<1>6. c.levels = [t \in Sides |-> c.levels[t]] BY <1>4
<1> HIDE DEF c
<1>7. IsBook(c) BY <1>3, <1>4, <1>5, <1>6 DEF IsBook
<1> QED BY <1>7 DEF c

(* An order with an id that is not in use can go to the back of its queue. *)
LEMMA AppendedGood ==
  ASSUME NEW b, Good(b), NEW o \in Order, o.id \notin DOMAIN b.orders, AtHome(o)
  PROVE  Good(Appended(b, o))
<1> DEFINE s == o.side
           p == o.price
           old == QueueAt(b, s, p)
           q == Append(old, o)
           ords == PutOrder(b.orders, o)
           c == Appended(b, o)
<1>1. s \in Sides /\ p \in Prices /\ o.id \in Ids BY DEF Order
<1>2. IsBook(b) BY DEF Good
<1>3. /\ old \in Seq(Order)
      /\ (p \in DOMAIN b.levels[s] => old = b.levels[s][p])
      /\ (p \notin DOMAIN b.levels[s] => old = <<>>)
  BY <1>1, <1>2, BookType DEF QueueAt, HasLevel
<1>4. /\ q \in Seq(Order) /\ q # <<>> /\ Len(q) = Len(old) + 1 /\ Len(old) \in Nat
      /\ q[Len(q)] = o /\ \A i \in 1..Len(old) : q[i] = old[i]
  BY <1>3
<1>5. /\ DOMAIN ords = DOMAIN b.orders \cup {o.id} /\ ords[o.id] = o
      /\ \A i \in DOMAIN b.orders : ords[i] = b.orders[i]
      /\ IsMap(ords, Ids, Order)
  BY <1>1, <1>2 DEF PutOrder, IsBook, IsMap
<1>6. c = SetQueue(b, s, p, q, ords) BY DEF Appended
<1>7. IsBook(c)
  <2> HIDE DEF q, ords, c, old, s, p
  <2>1. q \in Seq(Order) BY <1>4
  <2>2. IsMap(ords, Ids, Order) BY <1>5
  <2>3. s \in Sides /\ p \in Prices BY <1>1
  <2> QED BY <1>2, <1>6, <2>1, <2>2, <2>3, SetQueueIsBook
<1> HIDE DEF q, ords, c, old, s, p
<1>14. c.orders = ords /\
       c.levels = [t \in Sides |-> IF t = s THEN PutQueue(b.levels[s], p, q) ELSE b.levels[t]]
  BY <1>1, <1>2, <1>6, SetQueueFacts
<1>15. /\ \A t \in Sides \ {s} : c.levels[t] = b.levels[t]
       /\ DOMAIN c.levels[s] = DOMAIN b.levels[s] \cup {p}
       /\ c.levels[s][p] = q
       /\ \A x \in DOMAIN b.levels[s] \ {p} : c.levels[s][x] = b.levels[s][x]
  BY <1>1, <1>4, <1>14 DEF PutQueue
<1>8. \A i \in 1..Len(old) : old[i].id \in DOMAIN b.orders
  BY <1>1, <1>3 DEF Good, QueuedAreIndexed
<1>9. QueuedAreIndexed(c)
  <2>1. \A t \in Sides : \A x \in DOMAIN c.levels[t] : (t # s \/ x # p) =>
          x \in DOMAIN b.levels[t] /\ c.levels[t][x] = b.levels[t][x]
    BY <1>7, <1>14, <1>15
  <2>2. \A i \in 1..Len(q) : /\ q[i].side = s /\ q[i].price = p
                             /\ q[i].id \in DOMAIN ords /\ ords[q[i].id] = q[i]
    <3> TAKE i \in 1..Len(q)
    <3>1. CASE i = Len(q) BY <1>4, <1>5, <3>1 DEF s, p
    <3>2. CASE i # Len(q)
      <4>1. i \in 1..Len(old) /\ q[i] = old[i] BY <1>4, <3>2
      <4>2. p \in DOMAIN b.levels[s] /\ old = b.levels[s][p] BY <1>3, <4>1
      <4> QED BY <1>1, <1>5, <4>1, <4>2 DEF Good, QueuedAreIndexed
    <3> QED BY <3>1, <3>2
  <2>3. ASSUME NEW t \in Sides, NEW x \in DOMAIN c.levels[t], NEW i \in 1..Len(c.levels[t][x])
        PROVE  LET u == c.levels[t][x][i]
               IN  u.side = t /\ u.price = x /\ u.id \in DOMAIN ords /\ ords[u.id] = u
    <3>1. CASE t = s /\ x = p BY <1>15, <2>2, <2>3, <3>1
    <3>2. CASE t # s \/ x # p
      <4>1. x \in DOMAIN b.levels[t] /\ c.levels[t][x] = b.levels[t][x] BY <2>1, <3>2
      <4> QED BY <1>5, <2>3, <4>1 DEF Good, QueuedAreIndexed
    <3> QED BY <3>1, <3>2
  <2> QED BY <1>14, <2>3 DEF QueuedAreIndexed
<1>10. QueuedOnce(c)
  <2>1. \A t \in Sides : \A x \in DOMAIN c.levels[t] : (t # s \/ x # p) =>
          x \in DOMAIN b.levels[t] /\ c.levels[t][x] = b.levels[t][x]
    BY <1>7, <1>14, <1>15
  <2>2. \A i, j \in 1..Len(q) : q[i].id = q[j].id => i = j
    <3>1. \A i, j \in 1..Len(old) : old[i].id = old[j].id => i = j
      BY <1>1, <1>3 DEF Good, QueuedOnce
    <3>2. \A i \in 1..Len(old) : old[i].id # o.id BY <1>8
    <3> QED BY <1>4, <3>1, <3>2
  <2> QED BY <1>7, <1>14, <1>15, <2>1, <2>2 DEF Good, QueuedOnce
<1>11. IndexedAreQueued(c)
  <2> SUFFICES ASSUME NEW id \in DOMAIN c.orders
               PROVE /\ c.orders[id].id = id
                     /\ c.orders[id].price \in DOMAIN c.levels[c.orders[id].side]
                     /\ \E i \in 1..Len(c.levels[c.orders[id].side][c.orders[id].price]) :
                          c.levels[c.orders[id].side][c.orders[id].price][i] = c.orders[id]
    BY DEF IndexedAreQueued
  <2>1. CASE id = o.id
    <3>1. Len(q) \in 1..Len(q) BY <1>4
    <3>2. c.orders[id] = o /\ o.side = s /\ o.price = p BY <1>5, <1>14, <2>1 DEF s, p
    <3>3. p \in DOMAIN c.levels[s] /\ c.levels[s][p] = q BY <1>15
    <3> QED BY <1>4, <2>1, <3>1, <3>2, <3>3
  <2>2. CASE id # o.id
    <3> DEFINE u == b.orders[id]
    <3>1. id \in DOMAIN b.orders /\ c.orders[id] = u BY <1>5, <1>7, <1>14, <1>15, <2>2
    <3>2. u.id = id /\ u.price \in DOMAIN b.levels[u.side] /\ u.side \in Sides
          /\ \E i \in 1..Len(b.levels[u.side][u.price]) : b.levels[u.side][u.price][i] = u
      BY <1>2, <3>1, BookType DEF Good, IndexedAreQueued, Order
    <3>3. CASE u.side = s /\ u.price = p
      <4>1. old = b.levels[s][p] BY <1>3, <3>2, <3>3
      <4>2. PICK i \in 1..Len(old) : old[i] = u BY <3>2, <3>3, <4>1
      <4>3. i \in 1..Len(q) /\ q[i] = u BY <1>4, <4>2
      <4> QED BY <1>7, <1>14, <1>15, <3>1, <3>2, <3>3, <4>3
    <3>4. CASE u.side # s \/ u.price # p
      <4>1. /\ u.price \in DOMAIN c.levels[u.side]
            /\ c.levels[u.side][u.price] = b.levels[u.side][u.price]
        BY <1>7, <1>14, <1>15, <3>2, <3>4
      <4> HIDE DEF u
      <4> QED BY <3>1, <3>2, <4>1
    <3> QED BY <3>3, <3>4
  <2> QED BY <2>1, <2>2
<1>12. NoEmptyLevel(c)
  BY <1>4, <1>15 DEF Good, NoEmptyLevel
<1>13. LevelOrdersAtHome(c)
  BY <1>5, <1>7, <1>14, <1>15 DEF Good, LevelOrdersAtHome, AtHome, s, p
<1> QED BY <1>7, <1>14, <1>15, <1>9, <1>10, <1>11, <1>12, <1>13 DEF Good, c

(* Without drops one position of a queue and keeps the order of the rest.  *)
LEMMA WithoutFacts ==
  ASSUME NEW q \in Seq(Order), NEW k \in 1..Len(q),
         \A i, j \in 1..Len(q) : q[i].id = q[j].id => i = j
  PROVE  /\ IndexIn(q, q[k].id) = k
         /\ Without(q, q[k].id) \in Seq(Order)
         /\ Len(Without(q, q[k].id)) = Len(q) - 1
         /\ \A i \in 1..(Len(q) - 1) :
              Without(q, q[k].id)[i] = IF i < k THEN q[i] ELSE q[i + 1]
<1>1. DOMAIN q = 1..Len(q) /\ Len(q) \in Nat OBVIOUS
<1>2. IndexIn(q, q[k].id) = k
  BY <1>1 DEF IndexIn
<1>3. Without(q, q[k].id) = [i \in 1..(Len(q) - 1) |-> IF i < k THEN q[i] ELSE q[i + 1]]
  BY <1>1, <1>2 DEF Without
<1>4. \A i \in 1..(Len(q) - 1) : (IF i < k THEN q[i] ELSE q[i + 1]) \in Order
  BY <1>1
<1>5. Len(q) - 1 \in Nat BY <1>1
<1> QED BY <1>2, <1>3, <1>4, <1>5

(* An order can be taken out of its queue and the index (cancel).          *)
LEMMA RemovedGood ==
  ASSUME NEW b, Good(b), NEW id \in DOMAIN b.orders
  PROVE  /\ Good(Removed(b, b.orders[id]))
         /\ Removed(b, b.orders[id]).orders = DropOrder(b.orders, id)
<1> DEFINE o == b.orders[id]
           s == o.side
           p == o.price
           old == b.levels[s][p]
           q == Without(old, id)
           ords == DropOrder(b.orders, id)
           c == Removed(b, o)
<1>1. IsBook(b) /\ o \in Order /\ o.id = id /\ id \in Ids
  BY BookType DEF Good, IndexedAreQueued, Sides
<1>2. s \in Sides /\ p \in Prices /\ p \in DOMAIN b.levels[s]
  BY <1>1 DEF Order, Good, IndexedAreQueued
<1>3. old \in Seq(Order) /\ Len(old) \in Nat BY <1>1, <1>2, BookType
<1>4. PICK k \in 1..Len(old) : old[k] = o BY <1>2 DEF Good, IndexedAreQueued
<1>5. \A i, j \in 1..Len(old) : old[i].id = old[j].id => i = j
  BY <1>2 DEF Good, QueuedOnce
<1>6. \A i \in 1..Len(old) : /\ old[i].side = s /\ old[i].price = p
                             /\ old[i].id \in DOMAIN b.orders
                             /\ b.orders[old[i].id] = old[i]
  <2>1. QueuedAreIndexed(b) BY DEF Good
  <2> HIDE DEF s, p
  <2> QED BY <1>2, <2>1 DEF QueuedAreIndexed
<1>7. c = SetQueue(b, s, p, q, ords) BY <1>1 DEF Removed
<1>8. /\ DOMAIN ords = DOMAIN b.orders \ {id} /\ \A i \in DOMAIN ords : ords[i] = b.orders[i]
      /\ IsMap(ords, Ids, Order)
  BY <1>1 DEF DropOrder, IsBook, IsMap
<1> HIDE DEF s, p, old, ords, q, c
<1>9. /\ q \in Seq(Order) /\ Len(q) = Len(old) - 1
      /\ \A i \in 1..(Len(old) - 1) : q[i] = IF i < k THEN old[i] ELSE old[i + 1]
  <2>1. old[k].id = id BY <1>1, <1>4
  <2>2. q = Without(old, old[k].id) BY <2>1 DEF q
  <2> HIDE DEF o
  <2> QED BY <2>2, <1>3, <1>5, WithoutFacts
<1>10. /\ c.orders = ords
       /\ c.levels = [t \in Sides |-> IF t = s THEN PutQueue(b.levels[s], p, q) ELSE b.levels[t]]
  BY <1>1, <1>2, <1>7, SetQueueFacts
<1>11. IsBook(c) BY <1>1, <1>2, <1>7, <1>8, <1>9, SetQueueIsBook
<1>12. /\ \A t \in Sides \ {s} : c.levels[t] = b.levels[t]
       /\ DOMAIN c.levels[s] = IF q = <<>> THEN DOMAIN b.levels[s] \ {p} ELSE DOMAIN b.levels[s]
       /\ q # <<>> => c.levels[s][p] = q
       /\ \A x \in DOMAIN b.levels[s] \ {p} : c.levels[s][x] = b.levels[s][x]
  BY <1>2, <1>10 DEF PutQueue
<1>13. \A i \in 1..Len(q) : \E j \in 1..Len(old) : j # k /\ q[i] = old[j]
  <2> TAKE i \in 1..Len(q)
  <2> DEFINE j == IF i < k THEN i ELSE i + 1
  <2>1. j \in 1..Len(old) /\ j # k BY <1>3, <1>9
  <2>2. q[i] = old[j] BY <1>3, <1>9
  <2> QED BY <2>1, <2>2
<1>14. \A j \in 1..Len(old) \ {k} : \E i \in 1..Len(q) : q[i] = old[j]
  <2> TAKE j \in 1..Len(old) \ {k}
  <2>1. CASE j < k
    <3>1. j \in 1..Len(q) /\ q[j] = old[j] BY <1>3, <1>9, <2>1
    <3> QED BY <3>1
  <2>2. CASE j > k
    <3>1. j - 1 \in 1..Len(q) /\ q[j - 1] = old[j] BY <1>3, <1>9, <2>2
    <3> QED BY <3>1
  <2> QED BY <2>1, <2>2, <1>3
<1>15. \A t \in Sides : \A x \in DOMAIN c.levels[t] : (t # s \/ x # p) =>
          x \in DOMAIN b.levels[t] /\ c.levels[t][x] = b.levels[t][x]
  BY <1>12
<1>16. p \in DOMAIN c.levels[s] => c.levels[s][p] = q
  BY <1>12
<1>17. QueuedAreIndexed(c)
  <2>1. ASSUME NEW t \in Sides, NEW x \in DOMAIN c.levels[t], t # s \/ x # p,
               NEW i \in 1..Len(c.levels[t][x])
        PROVE  LET u == c.levels[t][x][i]
               IN u.side = t /\ u.price = x /\ u.id \in DOMAIN ords /\ ords[u.id] = u
    <3> DEFINE u == c.levels[t][x][i]
    <3>1. u.side = t /\ u.price = x /\ u.id \in DOMAIN b.orders /\ b.orders[u.id] = u
      BY <1>15, <2>1 DEF Good, QueuedAreIndexed
    <3>2. u.id # id BY <2>1, <3>1 DEF s, p
    <3> QED BY <1>8, <3>1, <3>2
  <2>2. \A i \in 1..Len(q) : /\ q[i].side = s /\ q[i].price = p
                             /\ q[i].id \in DOMAIN ords /\ ords[q[i].id] = q[i]
    <3> TAKE i \in 1..Len(q)
    <3>1. PICK j \in 1..Len(old) : j # k /\ q[i] = old[j] BY <1>13
    <3>2. old[j].id # id BY <1>1, <1>4, <1>5, <3>1
    <3> QED BY <1>6, <1>8, <3>1, <3>2
  <2> QED BY <1>10, <1>16, <2>1, <2>2 DEF QueuedAreIndexed
<1>18. QueuedOnce(c)
  <2> DEFINE At(i) == IF i < k THEN i ELSE i + 1
  <2>1. \A i \in 1..Len(q) : At(i) \in 1..Len(old) /\ q[i] = old[At(i)] BY <1>3, <1>9
  <2>2. \A i, j \in 1..Len(q) : At(i) = At(j) => i = j BY <1>3, <1>9
  <2> HIDE DEF At
  <2>3. \A i, j \in 1..Len(q) : q[i].id = q[j].id => i = j BY <1>5, <2>1, <2>2
  <2> QED BY <1>15, <1>16, <2>3 DEF Good, QueuedOnce
<1>19. IndexedAreQueued(c)
  <2> SUFFICES ASSUME NEW d \in DOMAIN c.orders
               PROVE /\ c.orders[d].id = d
                     /\ c.orders[d].price \in DOMAIN c.levels[c.orders[d].side]
                     /\ \E i \in 1..Len(c.levels[c.orders[d].side][c.orders[d].price]) :
                          c.levels[c.orders[d].side][c.orders[d].price][i] = c.orders[d]
    BY DEF IndexedAreQueued
  <2> DEFINE u == b.orders[d]
  <2>1. d \in DOMAIN b.orders /\ d # id /\ c.orders[d] = u BY <1>8, <1>10
  <2>2. u.id = d /\ u.price \in DOMAIN b.levels[u.side] /\ u.side \in Sides
        /\ \E i \in 1..Len(b.levels[u.side][u.price]) : b.levels[u.side][u.price][i] = u
    BY <1>1, <2>1, BookType DEF Good, IndexedAreQueued, Order
  <2> HIDE DEF u
  <2>3. CASE u.side = s /\ u.price = p
    <3>1. PICK j \in 1..Len(old) : old[j] = u BY <2>2, <2>3 DEF old
    <3>2. j # k BY <1>1, <1>4, <2>1, <2>2, <3>1
    <3>3. PICK i \in 1..Len(q) : q[i] = u BY <1>14, <3>1, <3>2
    <3>4. q # <<>> BY <1>9, <1>3, <3>3
    <3>5. p \in DOMAIN c.levels[s] /\ c.levels[s][p] = q BY <1>2, <1>12, <3>4
    <3> QED BY <2>1, <2>2, <2>3, <3>3, <3>5
  <2>4. CASE u.side # s \/ u.price # p
    <3>1. u.price \in DOMAIN c.levels[u.side] /\ c.levels[u.side][u.price] = b.levels[u.side][u.price]
      BY <1>2, <1>12, <2>2, <2>4
    <3> QED BY <2>1, <2>2, <3>1
  <2> QED BY <2>3, <2>4
<1>20. NoEmptyLevel(c)
  BY <1>12 DEF Good, NoEmptyLevel
<1>21. LevelOrdersAtHome(c)
  BY <1>8, <1>10 DEF Good, LevelOrdersAtHome
<1>22. Good(c)
  BY <1>11, <1>17, <1>18, <1>19, <1>20, <1>21 DEF Good
<1> QED BY <1>10, <1>22 DEF c, o, ords

(* An order can be changed in its place (modify at the same price).        *)
LEMMA ReplacedGood ==
  ASSUME NEW b, Good(b), NEW id \in DOMAIN b.orders, NEW o \in Order,
         o.id = id, o.side = b.orders[id].side, o.price = b.orders[id].price
  PROVE  Good(SetQueue(b, o.side, o.price,
                       [b.levels[o.side][o.price] EXCEPT ![IndexIn(b.levels[o.side][o.price], id)] = o],
                       PutOrder(b.orders, o)))
<1> DEFINE s == o.side
           p == o.price
           old == b.levels[s][p]
           q == [old EXCEPT ![IndexIn(old, id)] = o]
           ords == PutOrder(b.orders, o)
           c == SetQueue(b, s, p, q, ords)
<1>1. IsBook(b) /\ b.orders[id].id = id /\ id \in Ids /\ s \in Sides /\ p \in Prices
      /\ p \in DOMAIN b.levels[s] /\ p \in DOMAIN b.levels[s]
  BY BookType DEF Good, IndexedAreQueued, Order
<1>2. old \in Seq(Order) /\ Len(old) \in Nat BY <1>1, BookType
<1>3. PICK k \in 1..Len(old) : old[k] = b.orders[id]
  <2>1. IndexedAreQueued(b) BY DEF Good
  <2>2. \E k \in 1..Len(b.levels[b.orders[id].side][b.orders[id].price]) :
          b.levels[b.orders[id].side][b.orders[id].price][k] = b.orders[id]
    BY <2>1 DEF IndexedAreQueued
  <2>3. old = b.levels[b.orders[id].side][b.orders[id].price] OBVIOUS
  <2> HIDE DEF old
  <2> QED BY <2>2, <2>3
<1>4. \A i, j \in 1..Len(old) : old[i].id = old[j].id => i = j
  BY <1>1 DEF Good, QueuedOnce
<1>5. \A i \in 1..Len(old) : /\ old[i].side = s /\ old[i].price = p
                             /\ old[i].id \in DOMAIN b.orders
                             /\ b.orders[old[i].id] = old[i]
  BY <1>1 DEF Good, QueuedAreIndexed
<1>6. /\ DOMAIN ords = DOMAIN b.orders /\ ords[id] = o
      /\ \A i \in DOMAIN ords \ {id} : ords[i] = b.orders[i]
      /\ IsMap(ords, Ids, Order)
  BY <1>1 DEF PutOrder, IsBook, IsMap
<1>c. c = SetQueue(b, s, p, q, ords) OBVIOUS
<1> HIDE DEF s, p, old, ords, q, c
<1>7. IndexIn(old, id) = k BY <1>1, <1>2, <1>3, <1>4, WithoutFacts
<1>8. /\ q \in Seq(Order) /\ Len(q) = Len(old) /\ q # <<>> /\ q[k] = o
      /\ \A i \in 1..Len(old) \ {k} : q[i] = old[i]
  BY <1>2, <1>3, <1>7 DEF q
<1>9. /\ c.orders = ords
      /\ c.levels = [t \in Sides |-> IF t = s THEN PutQueue(b.levels[s], p, q) ELSE b.levels[t]]
  BY <1>1, <1>c, SetQueueFacts
<1>10. IsBook(c) BY <1>1, <1>6, <1>8, <1>c, SetQueueIsBook
<1>11. /\ \A t \in Sides : DOMAIN c.levels[t] = DOMAIN b.levels[t]
       /\ c.levels[s][p] = q
       /\ \A t \in Sides : \A x \in DOMAIN b.levels[t] :
             (t # s \/ x # p) => c.levels[t][x] = b.levels[t][x]
  <2> DEFINE lv == PutQueue(b.levels[s], p, q)
  <2>1. lv = [x \in DOMAIN b.levels[s] \cup {p} |-> IF x = p THEN q ELSE b.levels[s][x]]
    BY <1>8 DEF PutQueue
  <2>2. DOMAIN lv = DOMAIN b.levels[s] /\ lv[p] = q
        /\ \A x \in DOMAIN b.levels[s] : x # p => lv[x] = b.levels[s][x]
    BY <1>1, <2>1
  <2> HIDE DEF lv
  <2>3. c.levels[s] = lv /\ \A t \in Sides : t # s => c.levels[t] = b.levels[t]
    BY <1>1, <1>9 DEF lv
  <2> QED BY <1>1, <2>2, <2>3
<1>12. QueuedAreIndexed(c)
  <2>1. ASSUME NEW t \in Sides, NEW x \in DOMAIN c.levels[t], t # s \/ x # p,
               NEW i \in 1..Len(c.levels[t][x])
        PROVE  LET u == c.levels[t][x][i]
               IN u.side = t /\ u.price = x /\ u.id \in DOMAIN ords /\ ords[u.id] = u
    <3> DEFINE u == c.levels[t][x][i]
    <3>1. u.side = t /\ u.price = x /\ u.id \in DOMAIN b.orders /\ b.orders[u.id] = u
      BY <1>11, <2>1 DEF Good, QueuedAreIndexed
    <3>2. u.id # id BY <2>1, <3>1 DEF s, p
    <3> QED BY <1>6, <3>1, <3>2
  <2>2. \A i \in 1..Len(q) : /\ q[i].side = s /\ q[i].price = p
                             /\ q[i].id \in DOMAIN ords /\ ords[q[i].id] = q[i]
    <3> TAKE i \in 1..Len(q)
    <3>1. CASE i = k BY <1>6, <1>8, <3>1 DEF s, p
    <3>2. CASE i # k
      <4>1. q[i] = old[i] /\ i \in 1..Len(old) BY <1>8, <3>2
      <4>2. old[i].id # id BY <1>1, <1>3, <1>4, <3>2, <4>1
      <4> QED BY <1>5, <1>6, <4>1, <4>2
    <3> QED BY <3>1, <3>2
  <2>3. ASSUME NEW t \in Sides, NEW x \in DOMAIN c.levels[t], NEW i \in 1..Len(c.levels[t][x]), NEW u,
               u = c.levels[t][x][i]
        PROVE  u.side = t /\ u.price = x /\ u.id \in DOMAIN c.orders /\ c.orders[u.id] = u
    <3>1. c.orders = ords BY <1>9
    <3>2. CASE t # s \/ x # p BY <2>1, <2>3, <3>1, <3>2
    <3>3. CASE t = s /\ x = p
      <4>1. c.levels[t][x] = q BY <1>11, <3>3
      <4> QED BY <2>2, <2>3, <3>1, <3>3, <4>1
    <3> QED BY <3>2, <3>3
  <2> QED BY <2>3 DEF QueuedAreIndexed
<1>13. QueuedOnce(c)
  <2>1. \A i, j \in 1..Len(q) : q[i].id = q[j].id => i = j
    <3>1. \A i \in 1..Len(q) : q[i].id = old[i].id BY <1>1, <1>3, <1>8
    <3> QED BY <1>4, <1>8, <3>1
  <2> QED BY <1>11, <2>1 DEF Good, QueuedOnce
<1>14. IndexedAreQueued(c)
  <2> SUFFICES ASSUME NEW d \in DOMAIN c.orders
               PROVE /\ c.orders[d].id = d
                     /\ c.orders[d].price \in DOMAIN c.levels[c.orders[d].side]
                     /\ \E i \in 1..Len(c.levels[c.orders[d].side][c.orders[d].price]) :
                          c.levels[c.orders[d].side][c.orders[d].price][i] = c.orders[d]
    BY DEF IndexedAreQueued
  <2>1. CASE d = id
    <3>1. c.orders[d] = o /\ o.side = s /\ o.price = p BY <1>6, <1>9, <2>1 DEF s, p
    <3> QED BY <1>1, <1>8, <1>11, <2>1, <3>1
  <2>2. CASE d # id
    <3> DEFINE u == b.orders[d]
    <3>1. d \in DOMAIN b.orders /\ c.orders[d] = u BY <1>6, <1>9, <2>2
    <3>2. u.id = d /\ u.price \in DOMAIN b.levels[u.side] /\ u.side \in Sides
          /\ \E i \in 1..Len(b.levels[u.side][u.price]) : b.levels[u.side][u.price][i] = u
      BY <1>1, <3>1, BookType DEF Good, IndexedAreQueued, Order
    <3> HIDE DEF u
    <3>3. CASE u.side = s /\ u.price = p
      <4>1. PICK j \in 1..Len(old) : old[j] = u BY <3>2, <3>3 DEF old
      <4>2. j # k BY <1>1, <1>3, <2>2, <3>2, <4>1
      <4>3. q[j] = u /\ j \in 1..Len(q) BY <1>8, <4>1, <4>2
      <4> QED BY <1>1, <1>11, <3>1, <3>2, <3>3, <4>3
    <3>4. CASE u.side # s \/ u.price # p
      <4>1. u.price \in DOMAIN c.levels[u.side] /\ c.levels[u.side][u.price] = b.levels[u.side][u.price]
        BY <1>11, <3>2, <3>4
      <4> QED BY <3>1, <3>2, <4>1
    <3> QED BY <3>3, <3>4
  <2> QED BY <2>1, <2>2
<1>15. NoEmptyLevel(c)
  BY <1>8, <1>11 DEF Good, NoEmptyLevel
<1>16. LevelOrdersAtHome(c)
  <2>1. \A d \in DOMAIN c.orders : /\ d \in DOMAIN b.orders
                                   /\ c.orders[d].side = b.orders[d].side
                                   /\ c.orders[d].price = b.orders[d].price
    BY <1>6, <1>9 DEF s, p
  <2> QED BY <2>1 DEF Good, LevelOrdersAtHome
<1>17. Good(c)
  BY <1>10, <1>12, <1>13, <1>14, <1>15, <1>16 DEF Good
<1> QED BY <1>17 DEF c, q, ords, old, s, p

(* A whole level can be dropped together with its index entries.           *)
LEMMA RemoveLevelGood ==
  ASSUME NEW b, Good(b), NEW s \in Sides, NEW p \in Prices
  PROVE  /\ Good(RemoveLevel(b, s, p))
         /\ p \notin DOMAIN RemoveLevel(b, s, p).levels[s]
         /\ DOMAIN RemoveLevel(b, s, p).orders \subseteq DOMAIN b.orders
         /\ \A id \in DOMAIN RemoveLevel(b, s, p).orders :
               /\ RemoveLevel(b, s, p).orders[id] = b.orders[id]
               /\ b.orders[id].side # s \/ b.orders[id].price # p
<1> DEFINE old == QueueAt(b, s, p)
           ids == {old[i].id : i \in DOMAIN old}
           c == RemoveLevel(b, s, p)
           ords == [i \in DOMAIN b.orders \ ids |-> b.orders[i]]
<1>1. IsBook(b) BY DEF Good
<1>2. c = [levels |-> [b.levels EXCEPT ![s] = PutQueue(b.levels[s], p, <<>>)], orders |-> ords]
  BY <1>1 DEF RemoveLevel, IsBook
<1>3. c = SetQueue(b, s, p, <<>>, ords) BY <1>2 DEF SetQueue
<1>4. IsMap(ords, Ids, Order) /\ DOMAIN ords = DOMAIN b.orders \ ids
      /\ \A i \in DOMAIN ords : ords[i] = b.orders[i]
  BY <1>1 DEF IsBook, IsMap
<1>5. \A id \in DOMAIN b.orders :
         id \in ids <=> (b.orders[id].side = s /\ b.orders[id].price = p)
  <2> TAKE id \in DOMAIN b.orders
  <2>1. ASSUME id \in ids PROVE b.orders[id].side = s /\ b.orders[id].price = p
    <3>1. PICK i \in DOMAIN old : old[i].id = id BY <2>1
    <3>2. p \in DOMAIN b.levels[s] /\ old = b.levels[s][p] BY <3>1 DEF QueueAt, HasLevel
    <3>3. i \in 1..Len(b.levels[s][p]) BY <1>1, <3>1, <3>2, BookType
    <3> QED BY <3>1, <3>2, <3>3 DEF Good, QueuedAreIndexed
  <2>2. ASSUME b.orders[id].side = s, b.orders[id].price = p PROVE id \in ids
    <3>1. p \in DOMAIN b.levels[s] /\ b.orders[id].id = id BY <2>2 DEF Good, IndexedAreQueued
    <3>2. PICK i \in 1..Len(b.levels[s][p]) : b.levels[s][p][i] = b.orders[id]
      BY <2>2 DEF Good, IndexedAreQueued
    <3>3. old = b.levels[s][p] /\ i \in DOMAIN old BY <1>1, <3>1, <3>2, BookType DEF QueueAt, HasLevel
    <3> QED BY <3>1, <3>2, <3>3
  <2> QED BY <2>1, <2>2
<1> HIDE DEF c, old, ids, ords
<1>6. /\ c.orders = ords
      /\ c.levels = [t \in Sides |-> IF t = s THEN PutQueue(b.levels[s], p, <<>>) ELSE b.levels[t]]
  BY <1>1, <1>3, SetQueueFacts
<1>7. <<>> \in Seq(Order) OBVIOUS
<1>8. IsBook(c) BY <1>1, <1>3, <1>4, <1>7, SetQueueIsBook
<1>9. /\ \A t \in Sides \ {s} : c.levels[t] = b.levels[t]
      /\ DOMAIN c.levels[s] = DOMAIN b.levels[s] \ {p}
      /\ \A x \in DOMAIN b.levels[s] \ {p} : c.levels[s][x] = b.levels[s][x]
  BY <1>6 DEF PutQueue
<1>10. \A t \in Sides : \A x \in DOMAIN c.levels[t] :
          (t # s \/ x # p) /\ x \in DOMAIN b.levels[t] /\ c.levels[t][x] = b.levels[t][x]
  BY <1>9
<1>11. QueuedAreIndexed(c)
  <2> SUFFICES ASSUME NEW t \in Sides, NEW x \in DOMAIN c.levels[t],
                      NEW i \in 1..Len(c.levels[t][x])
               PROVE  LET u == c.levels[t][x][i]
                      IN u.side = t /\ u.price = x /\ u.id \in DOMAIN ords /\ ords[u.id] = u
    BY <1>6 DEF QueuedAreIndexed
  <2> DEFINE u == c.levels[t][x][i]
  <2>1. u.side = t /\ u.price = x /\ u.id \in DOMAIN b.orders /\ b.orders[u.id] = u
    BY <1>10 DEF Good, QueuedAreIndexed
  <2>2. u.id \notin ids BY <1>5, <1>10, <2>1
  <2> QED BY <1>4, <2>1, <2>2
<1>12. QueuedOnce(c) BY <1>10 DEF Good, QueuedOnce
<1>13. IndexedAreQueued(c)
  <2> SUFFICES ASSUME NEW d \in DOMAIN c.orders
               PROVE /\ c.orders[d].id = d
                     /\ c.orders[d].price \in DOMAIN c.levels[c.orders[d].side]
                     /\ \E i \in 1..Len(c.levels[c.orders[d].side][c.orders[d].price]) :
                          c.levels[c.orders[d].side][c.orders[d].price][i] = c.orders[d]
    BY DEF IndexedAreQueued
  <2> DEFINE u == b.orders[d]
  <2>1. d \in DOMAIN b.orders /\ c.orders[d] = u /\ (u.side # s \/ u.price # p)
    BY <1>4, <1>5, <1>6
  <2>2. u.id = d /\ u.price \in DOMAIN b.levels[u.side] /\ u.side \in Sides
        /\ \E i \in 1..Len(b.levels[u.side][u.price]) : b.levels[u.side][u.price][i] = u
    BY <1>1, <2>1, BookType DEF Good, IndexedAreQueued, Order
  <2> HIDE DEF u
  <2>3. u.price \in DOMAIN c.levels[u.side] /\ c.levels[u.side][u.price] = b.levels[u.side][u.price]
    BY <1>9, <2>1, <2>2
  <2> QED BY <2>1, <2>2, <2>3
<1>14. NoEmptyLevel(c) BY <1>10 DEF Good, NoEmptyLevel
<1>15. LevelOrdersAtHome(c) BY <1>4, <1>6 DEF Good, LevelOrdersAtHome
<1>16. Good(c) BY <1>8, <1>11, <1>12, <1>13, <1>14, <1>15 DEF Good
<1> QED BY <1>4, <1>5, <1>6, <1>9, <1>16 DEF c

(* A set of natural numbers that is not empty has a least element.         *)
LEMMA LeastNatural ==
  ASSUME NEW S \in SUBSET Nat, S # {}
  PROVE  \E m \in S : \A n \in S : m <= n
<1>1. IsWellFoundedOn(OpToRel(<, Nat), Nat) BY NatLessThanWellFounded
<1>2. PICK m \in S : \A n \in S : ~(<<n, m>> \in OpToRel(<, Nat)) BY <1>1, WFMin
<1>3. \A n \in S : ~(n < m) BY <1>2 DEF OpToRel
<1> QED BY <1>3

(* An initial segment of 1..n is determined by its cardinality.            *)
LEMMA InitialSegment ==
  ASSUME NEW n \in Nat, NEW U \in SUBSET (1..n),
         \A i \in 1..n, j \in U : i < j => i \in U
  PROVE  /\ Cardinality(U) \in 0..n
         /\ U = 1..Cardinality(U)
<1> DEFINE S == {x \in Nat : x > 0 /\ x \notin U}
<1>1. n + 1 \in S OBVIOUS
<1>2. PICK m \in S : \A x \in S : m <= x BY <1>1, LeastNatural
<1>3. m \in Nat /\ m > 0 /\ m <= n + 1 BY <1>1, <1>2
<1>4. U = 1..(m - 1)
  <2>1. ASSUME NEW x \in U PROVE x \in 1..(m - 1)
    <3>1. x \in 1..n /\ x # m BY <1>2
    <3>2. ~(m < x) BY <1>2, <1>3, <3>1
    <3> QED BY <1>3, <3>1, <3>2
  <2>2. ASSUME NEW x \in 1..(m - 1) PROVE x \in U
    BY <1>2, <1>3
  <2> QED BY <2>1, <2>2
<1>5. Cardinality(1..(m - 1)) = m - 1
  <2>1. 1 \in Int /\ m - 1 \in Int /\ ~(1 > m - 1 /\ m > 1) BY <1>3
  <2>2. Cardinality(1..(m - 1)) = IF 1 > m - 1 THEN 0 ELSE (m - 1) - 1 + 1
    BY <2>1, FS_Interval
  <2> QED BY <1>3, <2>2
<1> QED BY <1>3, <1>4, <1>5

(* Quantities of positions are natural numbers and add up. *)
LEMMA PositionType ==
  ASSUME NEW b, Good(b), NEW s \in Sides, NEW pos \in Positions(b, s)
  PROVE  /\ pos = <<pos[1], pos[2]>>
         /\ pos[1] \in DOMAIN b.levels[s] /\ pos[1] \in Prices
         /\ pos[2] \in 1..Len(b.levels[s][pos[1]])
         /\ OrderAt(b, s, pos) = b.levels[s][pos[1]][pos[2]]
         /\ OrderAt(b, s, pos) \in Order
         /\ OrderAt(b, s, pos).qty \in Lots
         /\ OrderAt(b, s, pos).side = s /\ OrderAt(b, s, pos).price = pos[1]
         /\ OrderAt(b, s, pos).id \in DOMAIN b.orders
         /\ b.orders[OrderAt(b, s, pos).id] = OrderAt(b, s, pos)
<1>a. PICK p \in DOMAIN b.levels[s] : \E i \in 1..Len(b.levels[s][p]) : pos = <<p, i>>
  BY DEF Positions
<1>1. PICK i \in 1..Len(b.levels[s][p]) : pos = <<p, i>> BY <1>a
<1>2. IsBook(b) BY DEF Good
<1>3. b.levels[s][p][i] \in Order /\ p \in Prices BY <1>1, <1>2, BookType
<1>4. OrderAt(b, s, pos) = b.levels[s][p][i] BY <1>1 DEF OrderAt
<1>5. LET u == b.levels[s][p][i]
      IN u.side = s /\ u.price = p /\ u.id \in DOMAIN b.orders /\ b.orders[u.id] = u
  BY <1>1 DEF Good, QueuedAreIndexed
<1> QED BY <1>1, <1>3, <1>4, <1>5 DEF Order

(* An index of a queue is a position of its side.                          *)
LEMMA PositionOfIndex ==
  ASSUME NEW b, NEW s \in Sides, NEW p \in DOMAIN b.levels[s], NEW i \in 1..Len(b.levels[s][p])
  PROVE  <<p, i>> \in Positions(b, s)
BY DEF Positions

(* A side has finitely many positions.                                     *)
LEMMA FinitePositions ==
  ASSUME NEW b, Good(b), NEW s \in Sides
  PROVE  IsFiniteSet(Positions(b, s))
<1> DEFINE At(p) == {<<p, i>> : i \in 1..Len(b.levels[s][p])}
           D == DOMAIN b.levels[s]
<1>1. IsBook(b) /\ D \subseteq Prices /\ IsFiniteSet(Prices)
  BY PricesAssumption, BookType DEF Good
<1>2. IsFiniteSet(D) BY <1>1, FS_Subset
<1>3. IsFiniteSet({At(p) : p \in D})
  <2> DEFINE f == [p \in D |-> At(p)]
  <2>2. f \in Surjection(D, {At(p) : p \in D}) BY DEF Surjection
  <2> QED BY <1>2, <2>2, FS_Surjection
<1>4. \A x \in {At(p) : p \in D} : IsFiniteSet(x)
  <2>1. ASSUME NEW p \in D PROVE IsFiniteSet(At(p))
    <3>1. Len(b.levels[s][p]) \in Nat BY <1>1, BookType
    <3>2. IsFiniteSet(1..Len(b.levels[s][p])) BY <3>1, FS_Interval
    <3> DEFINE f == [i \in 1..Len(b.levels[s][p]) |-> <<p, i>>]
    <3>4. f \in Surjection(1..Len(b.levels[s][p]), At(p)) BY DEF Surjection
    <3> QED BY <3>2, <3>4, FS_Surjection
  <2> QED BY <2>1
<1>5. IsFiniteSet(UNION {At(p) : p \in D}) BY <1>3, <1>4, FS_UNION
<1> QED BY <1>5 DEF Positions

(* The lots of one order are a finite set.                                 *)
LEMMA LotsOfOrder ==
  ASSUME NEW x, NEW k \in Nat
  PROVE  /\ IsFiniteSet({<<x, n>> : n \in 1..k})
         /\ Cardinality({<<x, n>> : n \in 1..k}) = k
<1> DEFINE f == [n \in 1..k |-> <<x, n>>]
<1>1. IsFiniteSet(1..k) /\ Cardinality(1..k) = k BY FS_Interval
<1>2. f \in Surjection(1..k, {<<x, n>> : n \in 1..k}) BY DEF Surjection
<1>3. f \in Injection(1..k, {<<x, n>> : n \in 1..k}) BY DEF Injection, IsInjective
<1> HIDE DEF f
<1> QED BY <1>1, <1>2, <1>3, FS_Surjection

(* The quantity at some positions is a natural number.                     *)
LEMMA QuantityType ==
  ASSUME NEW b, Good(b), NEW s \in Sides, NEW P \in SUBSET Positions(b, s)
  PROVE  IsFiniteSet(LotsAt(b, s, P)) /\ Quantity(b, s, P) \in Nat
<1> DEFINE Lot(pos) == {<<pos, n>> : n \in 1..OrderAt(b, s, pos).qty}
<1>1. IsFiniteSet(P) BY FinitePositions, FS_Subset
<1>2. IsFiniteSet({Lot(pos) : pos \in P})
  <2> DEFINE f == [pos \in P |-> Lot(pos)]
  <2>1. f \in Surjection(P, {Lot(pos) : pos \in P}) BY DEF Surjection
  <2> HIDE DEF f, Lot
  <2> QED BY <1>1, <2>1, FS_Surjection
<1>3. \A x \in {Lot(pos) : pos \in P} : IsFiniteSet(x)
  <2>1. ASSUME NEW pos \in P PROVE IsFiniteSet(Lot(pos))
    <3>1. OrderAt(b, s, pos).qty \in Nat BY PositionType DEF Lots
    <3> QED BY <3>1, LotsOfOrder
  <2> QED BY <2>1
<1>4. IsFiniteSet(UNION {Lot(pos) : pos \in P}) BY <1>2, <1>3, FS_UNION
<1>5. IsFiniteSet(LotsAt(b, s, P)) BY <1>4 DEF LotsAt
<1> QED BY <1>5, FS_CardinalityType DEF Quantity

(* An order adds its quantity to what was counted without it.              *)
LEMMA QuantityAdds ==
  ASSUME NEW b, Good(b), NEW s \in Sides, NEW P \in SUBSET Positions(b, s),
         NEW pos \in Positions(b, s) \ P
  PROVE  Quantity(b, s, P \cup {pos}) = Quantity(b, s, P) + OrderAt(b, s, pos).qty
<1> DEFINE Lot == {<<pos, n>> : n \in 1..OrderAt(b, s, pos).qty}
           A == LotsAt(b, s, P)
           C == LotsAt(b, s, P \cup {pos})
           k == OrderAt(b, s, pos).qty
<1>1. k \in Nat BY PositionType DEF Lots
<1>2. IsFiniteSet(Lot) /\ Cardinality(Lot) = k BY <1>1, LotsOfOrder
<1>3. IsFiniteSet(A) /\ Cardinality(A) \in Nat BY QuantityType DEF Quantity
<1>4. A \cap Lot = {} BY DEF LotsAt
<1>5. A \cup Lot = C BY DEF LotsAt
<1> HIDE DEF Lot, A, C, k
<1>6. Cardinality(A \cup Lot) = Cardinality(A) + Cardinality(Lot) - Cardinality(A \cap Lot)
  BY <1>2, <1>3, FS_Union
<1>7. Cardinality(A \cap Lot) = 0 BY <1>4, FS_EmptySet
<1>8. Cardinality(A \cup Lot) = Cardinality(A) + k BY <1>1, <1>2, <1>3, <1>6, <1>7
<1>9. Cardinality(C) = Cardinality(A) + k BY <1>5, <1>8, Zenon
<1> QED BY <1>9 DEF Quantity, A, C, k

(* More positions have no fewer lots.                                      *)
LEMMA QuantityMonotone ==
  ASSUME NEW b, Good(b), NEW s \in Sides, NEW Q \in SUBSET Positions(b, s), NEW P \in SUBSET Q
  PROVE  Quantity(b, s, P) <= Quantity(b, s, Q)
<1>1. LotsAt(b, s, P) \subseteq LotsAt(b, s, Q) BY DEF LotsAt
<1>2. IsFiniteSet(LotsAt(b, s, Q)) BY QuantityType
<1> QED BY <1>1, <1>2, FS_Subset DEF Quantity

LEMMA QuantityGrows ==
  ASSUME NEW b, Good(b), NEW s \in Sides, NEW Q \in SUBSET Positions(b, s),
         NEW P \in SUBSET Q, NEW pos \in Q \ P
  PROVE  Quantity(b, s, P) + OrderAt(b, s, pos).qty <= Quantity(b, s, Q)
<1>1. P \in SUBSET Positions(b, s) /\ pos \in Positions(b, s) \ P OBVIOUS
<1>2. Quantity(b, s, P \cup {pos}) = Quantity(b, s, P) + OrderAt(b, s, pos).qty
  BY <1>1, QuantityAdds
<1>3. P \cup {pos} \in SUBSET Q OBVIOUS
<1>4. Quantity(b, s, P \cup {pos}) <= Quantity(b, s, Q) BY <1>3, QuantityMonotone
<1> QED BY <1>2, <1>4

(* A fill takes between nothing and all of a resting order.                *)
LEMMA TradedType ==
  ASSUME NEW b, Good(b), NEW ag, ag.side \in Sides, ag.qty \in Nat, NEW limit,
         NEW pos \in Positions(b, Opposite(ag.side))
  PROVE  Traded(b, ag, limit, pos) \in 0..OrderAt(b, Opposite(ag.side), pos).qty
<1> DEFINE s == Opposite(ag.side)
<1>1. s \in Sides BY DEF Opposite, Sides
<1>2. OrderAt(b, s, pos).qty \in Nat BY <1>1, PositionType DEF Lots
<1>3. PositionsAhead(b, s, pos) \in SUBSET Positions(b, s) BY DEF PositionsAhead
<1>4. Quantity(b, s, PositionsAhead(b, s, pos)) \in Nat BY <1>1, <1>3, QuantityType
<1> QED BY <1>2, <1>4 DEF Traded

(* An order is used up only when the orders ahead of it in its queue are.  *)
LEMMA UsedUpFromTheHead ==
  ASSUME NEW b, Good(b), NEW ag, ag.side \in Sides, ag.qty \in Nat, NEW limit,
         NEW p \in DOMAIN b.levels[Opposite(ag.side)],
         NEW i \in 1..Len(b.levels[Opposite(ag.side)][p]),
         NEW j \in 1..Len(b.levels[Opposite(ag.side)][p]), i < j,
         UsedUp(b, ag, limit, <<p, j>>)
  PROVE  UsedUp(b, ag, limit, <<p, i>>)
<1> DEFINE s == Opposite(ag.side)
           x == <<p, i>>
           y == <<p, j>>
           qx == OrderAt(b, s, x).qty
           qy == OrderAt(b, s, y).qty
           ax == Quantity(b, s, PositionsAhead(b, s, x))
           ay == Quantity(b, s, PositionsAhead(b, s, y))
<1>1. s \in Sides BY DEF Opposite, Sides
<1>2. x \in Positions(b, s) /\ y \in Positions(b, s) BY <1>1, PositionOfIndex
<1>3. qx \in Lots /\ qy \in Lots BY <1>1, <1>2, PositionType
<1>4. p \in Int /\ i \in Int /\ j \in Int
  <2>1. IsBook(b) BY DEF Good
  <2>2. p \in Prices BY <1>1, <2>1, BookType DEF s
  <2>3. p \in Int BY <2>2, PricesAssumption
  <2>4. i \in Int /\ j \in Int OBVIOUS
  <2> QED BY <2>3, <2>4
<1>5. PositionsAhead(b, s, x) \subseteq PositionsAhead(b, s, y)
  <2> SUFFICES ASSUME NEW z \in Positions(b, s),
                      Ahead(s, z[1], p) \/ (z[1] = p /\ z[2] < i)
               PROVE  Ahead(s, z[1], p) \/ (z[1] = p /\ z[2] < j)
    BY DEF PositionsAhead
  <2>1. z[2] \in Int BY <1>1, PositionType
  <2> QED BY <1>4, <2>1
<1>6. x \in PositionsAhead(b, s, y) /\ x \notin PositionsAhead(b, s, x)
  BY <1>2, <1>4 DEF PositionsAhead, Ahead
<1>7. PositionsAhead(b, s, y) \in SUBSET Positions(b, s) BY DEF PositionsAhead
<1>8. ax \in Nat /\ ay \in Nat
  <2>1. PositionsAhead(b, s, x) \in SUBSET Positions(b, s) BY DEF PositionsAhead
  <2> QED BY <1>1, <1>7, <2>1, QuantityType
<1>9. ax + qx <= ay BY <1>1, <1>5, <1>6, <1>7, QuantityGrows
<1> HIDE DEF s, x, y, qx, qy, ax, ay
<1>10. Traded(b, ag, limit, y) = qy BY DEF UsedUp, s, y, qy
<1>11. Crosses(ag.side, p, limit) /\ ay < ag.qty
  <2>1. y[1] = p BY DEF y
  <2>2. Traded(b, ag, limit, y) =
          IF ~Crosses(ag.side, y[1], limit) \/ ay >= ag.qty THEN 0
          ELSE IF ag.qty - ay < qy THEN ag.qty - ay ELSE qy
    BY DEF Traded, s, ay, qy
  <2> QED BY <1>3, <1>8, <1>10, <2>1, <2>2 DEF Lots
<1>12. Traded(b, ag, limit, x) = qx
  <2>1. x[1] = p BY DEF x
  <2>2. Traded(b, ag, limit, x) =
          IF ~Crosses(ag.side, x[1], limit) \/ ax >= ag.qty THEN 0
          ELSE IF ag.qty - ax < qx THEN ag.qty - ax ELSE qx
    BY DEF Traded, s, ax, qx
  <2> QED BY <1>3, <1>8, <1>9, <1>11, <2>1, <2>2 DEF Lots
<1> QED BY <1>12 DEF UsedUp, s, x, qx

(* What matching leaves of one queue: its tail, with smaller quantities.   *)
LEMMA QueueAfterFacts ==
  ASSUME NEW b, Good(b), NEW ag, ag.side \in Sides, ag.qty \in Nat, NEW limit,
         NEW p \in DOMAIN b.levels[Opposite(ag.side)]
  PROVE  \E gone \in 0..Len(b.levels[Opposite(ag.side)][p]) :
           IsTail(b, ag, limit, p, b.levels[Opposite(ag.side)][p], QueueAfter(b, ag, limit, p), gone)
<1> DEFINE s == Opposite(ag.side)
           queue == b.levels[s][p]
           U == {i \in 1..Len(queue) : UsedUp(b, ag, limit, <<p, i>>)}
           gone == Cardinality(U)
<1>1. s \in Sides /\ IsBook(b) BY DEF Opposite, Sides, Good
<1>2. Len(queue) \in Nat BY <1>1, BookType
<1>3. \A i \in 1..Len(queue), j \in U : i < j => i \in U BY UsedUpFromTheHead
<1>4. U \in SUBSET (1..Len(queue)) OBVIOUS
<1> HIDE DEF U
<1>5. gone \in 0..Len(queue) /\ U = 1..gone BY <1>2, <1>3, <1>4, InitialSegment
<1>6. \A i \in 1..Len(queue) : UsedUp(b, ag, limit, <<p, i>>) <=> i <= gone
  <2> TAKE i \in 1..Len(queue)
  <2>1. UsedUp(b, ag, limit, <<p, i>>) <=> i \in U BY DEF U
  <2>2. i \in 1..gone <=> i <= gone BY <1>2, <1>5
  <2> QED BY <1>5, <2>1, <2>2
<1>7. QueueAfter(b, ag, limit, p) =
        [i \in 1..(Len(queue) - gone) |-> AfterFill(b, ag, limit, <<p, i + gone>>)]
  BY DEF QueueAfter, U
<1>8. IsTail(b, ag, limit, p, queue, QueueAfter(b, ag, limit, p), gone) BY <1>6, <1>7 DEF IsTail
<1> QED BY <1>5, <1>8

(* An order that is not used up stays the same order with some quantity.   *)
LEMMA AfterFillType ==
  ASSUME NEW b, Good(b), NEW ag, ag.side \in Sides, ag.qty \in Nat, NEW limit,
         NEW pos \in Positions(b, Opposite(ag.side)), ~UsedUp(b, ag, limit, pos)
  PROVE  LET o == OrderAt(b, Opposite(ag.side), pos)
             u == AfterFill(b, ag, limit, pos)
         IN  /\ u \in Order
             /\ u.id = o.id /\ u.side = o.side /\ u.price = o.price
<1> DEFINE s == Opposite(ag.side)
           o == OrderAt(b, s, pos)
           t == Traded(b, ag, limit, pos)
<1>1. s \in Sides BY DEF Opposite, Sides
<1>2. o \in Order /\ o.qty \in Lots BY <1>1, PositionType
<1>3. t \in 0..o.qty BY TradedType
<1>4. t # o.qty BY DEF UsedUp
<1> HIDE DEF o, t
<1>5. o.qty - t \in Lots BY <1>2, <1>3, <1>4 DEF Lots
<1>6. AfterFill(b, ag, limit, pos) = [o EXCEPT !.qty = o.qty - t]
  BY DEF AfterFill, o, t
<1>7. [o EXCEPT !.qty = o.qty - t] \in Order BY <1>2, <1>5 DEF Order
<1>8. LET u == [o EXCEPT !.qty = o.qty - t]
      IN  u.id = o.id /\ u.side = o.side /\ u.price = o.price
  BY <1>2 DEF Order
<1> QED BY <1>6, <1>7, <1>8 DEF o

(* Two positions of a side that hold one id are one position.              *)
LEMMA OnePosition ==
  ASSUME NEW b, Good(b), NEW s \in Sides, NEW x \in Positions(b, s), NEW y \in Positions(b, s),
         OrderAt(b, s, x).id = OrderAt(b, s, y).id
  PROVE  x = y
<1>1. OrderAt(b, s, x) = OrderAt(b, s, y)
  <2>1. b.orders[OrderAt(b, s, x).id] = OrderAt(b, s, x) BY PositionType
  <2>2. b.orders[OrderAt(b, s, y).id] = OrderAt(b, s, y) BY PositionType
  <2> QED BY <2>1, <2>2
<1>2. x[1] = y[1]
  <2>1. OrderAt(b, s, x).price = x[1] BY PositionType
  <2>2. OrderAt(b, s, y).price = y[1] BY PositionType
  <2> QED BY <1>1, <2>1, <2>2
<1>3. x[2] = y[2]
  <2>1. /\ x[1] \in DOMAIN b.levels[s] /\ x[2] \in 1..Len(b.levels[s][x[1]])
        /\ OrderAt(b, s, x) = b.levels[s][x[1]][x[2]] BY PositionType
  <2>2. /\ y[2] \in 1..Len(b.levels[s][y[1]])
        /\ OrderAt(b, s, y) = b.levels[s][y[1]][y[2]] BY PositionType
  <2>3. QueuedOnce(b) BY DEF Good
  <2> DEFINE q == b.levels[s][x[1]]
  <2>4. \A i, j \in 1..Len(q) : q[i].id = q[j].id => i = j BY <2>1, <2>3 DEF QueuedOnce
  <2>5. x[2] \in 1..Len(q) /\ y[2] \in 1..Len(q) /\ q[x[2]] = q[y[2]] BY <1>1, <1>2, <2>1, <2>2
  <2> HIDE DEF q
  <2> QED BY <2>4, <2>5
<1>4. x = <<x[1], x[2]>> /\ y = <<y[1], y[2]>> BY PositionType
<1> QED BY <1>2, <1>3, <1>4

(* PositionOf finds the position of an id.                                 *)
LEMMA PositionOfOrder ==
  ASSUME NEW b, Good(b), NEW s \in Sides, NEW x \in Positions(b, s)
  PROVE  PositionOf(b, s, OrderAt(b, s, x).id) = x
<1> DEFINE id == OrderAt(b, s, x).id
           y == PositionOf(b, s, id)
<1>1. y \in Positions(b, s) /\ OrderAt(b, s, y).id = id BY DEF PositionOf
<1> HIDE DEF y
<1>2. y = x BY <1>1, OnePosition
<1> QED BY <1>2 DEF y

(* Every indexed order has a position on its side.                         *)
LEMMA OrderHasPosition ==
  ASSUME NEW b, Good(b), NEW id \in DOMAIN b.orders
  PROVE  \E pos \in Positions(b, b.orders[id].side) :
            /\ OrderAt(b, b.orders[id].side, pos) = b.orders[id]
            /\ b.orders[id].id = id /\ pos[1] = b.orders[id].price
            /\ b.orders[id].side \in Sides
<1> DEFINE o == b.orders[id]
<1>1. IsBook(b) /\ IndexedAreQueued(b) BY DEF Good
<1>2. PICK s \in Sides : o.side = s BY <1>1 DEF IsBook, IsMap, Order
<1>3. o.id = id /\ o.price \in DOMAIN b.levels[s] BY <1>1, <1>2 DEF IndexedAreQueued
<1>4. PICK i \in 1..Len(b.levels[s][o.price]) : b.levels[s][o.price][i] = o
  BY <1>1, <1>2 DEF IndexedAreQueued
<1>5. <<o.price, i>> \in Positions(b, s) BY <1>3, PositionOfIndex
<1>6. OrderAt(b, s, <<o.price, i>>) = o BY <1>4 DEF OrderAt
<1> QED BY <1>2, <1>3, <1>5, <1>6

(* Matching leaves a good book, and no id that was not in it before.       *)
LEMMA MatchGood ==
  ASSUME NEW b, Good(b), NEW ag, ag.side \in Sides, ag.qty \in Nat, NEW limit
  PROVE  /\ Good(Match(b, ag, limit))
         /\ DOMAIN Match(b, ag, limit).orders \subseteq DOMAIN b.orders
<1> DEFINE s == Opposite(ag.side)
           c == Match(b, ag, limit)
           Used(pos) == UsedUp(b, ag, limit, pos)
           Fill(pos) == AfterFill(b, ag, limit, pos)
           After(p) == QueueAfter(b, ag, limit, p)
           gone == {OrderAt(b, s, pos).id : pos \in {x \in Positions(b, s) : Used(x)}}
           kept == {p \in DOMAIN b.levels[s] : After(p) # <<>>}
<1>1. s \in Sides /\ IsBook(b) BY DEF Opposite, Sides, Good
<1>2. c.levels = [t \in Sides |-> IF t = s THEN [p \in kept |-> After(p)] ELSE b.levels[t]]
  BY <1>1 DEF Match, IsBook
<1>3. c.orders = [id \in DOMAIN b.orders \ gone |->
                    IF b.orders[id].side = s THEN Fill(PositionOf(b, s, id)) ELSE b.orders[id]]
  BY DEF Match
<1>4. c = [levels |-> c.levels, orders |-> c.orders] BY DEF Match
<1> HIDE DEF c
<1>5. \A pos \in Positions(b, s) : OrderAt(b, s, pos).id \in gone <=> Used(pos)
  <2> HIDE DEF Used, s
  <2> TAKE pos \in Positions(b, s)
  <2>1. ASSUME OrderAt(b, s, pos).id \in gone PROVE Used(pos)
    <3>1. PICK x \in Positions(b, s) : Used(x) /\ OrderAt(b, s, x).id = OrderAt(b, s, pos).id
      BY <2>1
    <3> QED BY <1>1, <3>1, OnePosition
  <2> QED BY <2>1
(* the orders of the resting side, position by position *)
<1>6. ASSUME NEW pos \in Positions(b, s), ~Used(pos)
      PROVE  LET o == OrderAt(b, s, pos)
             IN  /\ Fill(pos) \in Order
                 /\ Fill(pos).id = o.id /\ Fill(pos).side = s /\ Fill(pos).price = pos[1]
                 /\ o.id \in DOMAIN c.orders /\ c.orders[o.id] = Fill(pos)
  <2> DEFINE o == OrderAt(b, s, pos)
  <2>1. o.side = s /\ o.price = pos[1] /\ o.id \in DOMAIN b.orders /\ b.orders[o.id] = o
    BY <1>1, PositionType
  <2>2. Fill(pos) \in Order /\ Fill(pos).id = o.id /\ Fill(pos).side = o.side
        /\ Fill(pos).price = o.price
    BY <1>6, AfterFillType
  <2>3. o.id \notin gone BY <1>5, <1>6
  <2>4. PositionOf(b, s, o.id) = pos BY <1>1, PositionOfOrder
  <2> HIDE DEF gone, s, Fill, o
  <2>5. c.orders[o.id] = Fill(pos) /\ o.id \in DOMAIN c.orders BY <1>3, <2>1, <2>3, <2>4
  <2> QED BY <2>1, <2>2, <2>5 DEF o
<1>7. \A id \in DOMAIN b.orders : b.orders[id].side # s =>
         id \in DOMAIN c.orders /\ c.orders[id] = b.orders[id]
  <2> TAKE id \in DOMAIN b.orders
  <2> HAVE b.orders[id].side # s
  <2>1. id \notin gone
    <3> SUFFICES ASSUME NEW pos \in Positions(b, s), OrderAt(b, s, pos).id = id PROVE FALSE
      OBVIOUS
    <3> QED BY <1>1, PositionType
  <2> HIDE DEF gone
  <2> QED BY <1>3, <2>1
<1>8. ASSUME NEW p \in DOMAIN b.levels[s]
      PROVE  /\ After(p) \in Seq(Order)
             /\ \A i \in 1..Len(After(p)) : \E k \in 1..Len(b.levels[s][p]) :
                  /\ ~Used(<<p, k>>) /\ After(p)[i] = Fill(<<p, k>>)
             /\ \A i, j \in 1..Len(After(p)) : After(p)[i].id = After(p)[j].id => i = j
             /\ \A k \in 1..Len(b.levels[s][p]) : ~Used(<<p, k>>) =>
                  \E i \in 1..Len(After(p)) : After(p)[i] = Fill(<<p, k>>)
  <2> DEFINE queue == b.levels[s][p]
             At(i) == <<p, i>>
  <2>1. PICK g \in 0..Len(queue) :
             /\ \A i \in 1..Len(queue) : Used(At(i)) <=> i <= g
             /\ After(p) = [i \in 1..(Len(queue) - g) |-> Fill(At(i + g))]
    <3>1. PICK g \in 0..Len(queue) :
             IsTail(b, ag, limit, p, queue, QueueAfter(b, ag, limit, p), g)
      BY QueueAfterFacts
    <3> QED BY <3>1 DEF IsTail
  <2>2. Len(queue) \in Nat BY <1>1, BookType
  <2>3. \A i \in 1..Len(queue) : At(i) \in Positions(b, s) BY <1>1, PositionOfIndex
  <2>4. \A i \in 1..Len(queue) : ~Used(At(i)) =>
           Fill(At(i)) \in Order /\ Fill(At(i)).id = OrderAt(b, s, At(i)).id
    BY <1>6, <2>3
  <2>5. \A i, j \in 1..Len(queue) : OrderAt(b, s, At(i)).id = OrderAt(b, s, At(j)).id => i = j
    <3>1. \A i \in 1..Len(queue) : OrderAt(b, s, At(i)) = queue[i] BY DEF OrderAt
    <3>2. QueuedOnce(b) BY DEF Good
    <3> QED BY <1>1, <3>1, <3>2 DEF QueuedOnce
  <2> HIDE DEF queue, At, Used, Fill, After, s
  <2>6. \A i \in 1..(Len(queue) - g) :
           i + g \in 1..Len(queue) /\ ~Used(At(i + g)) /\ After(p)[i] = Fill(At(i + g))
    <3> TAKE i \in 1..(Len(queue) - g)
    <3>1. i + g \in 1..Len(queue) /\ ~(i + g <= g) BY <2>2
    <3> QED BY <2>1, <3>1
  <2>7. After(p) \in Seq(Order) /\ Len(After(p)) = Len(queue) - g
    <3>1. Len(queue) - g \in Nat BY <2>2
    <3>2. \A i \in 1..(Len(queue) - g) : Fill(At(i + g)) \in Order BY <2>4, <2>6
    <3> QED BY <2>1, <3>1, <3>2
  <2>8. \A i, j \in 1..Len(After(p)) : After(p)[i].id = After(p)[j].id => i = j
    <3> SUFFICES ASSUME NEW i \in 1..(Len(queue) - g), NEW j \in 1..(Len(queue) - g),
                        After(p)[i].id = After(p)[j].id
                 PROVE  i = j
      BY <2>7
    <3>1. After(p)[i].id = OrderAt(b, s, At(i + g)).id BY <2>4, <2>6
    <3>2. After(p)[j].id = OrderAt(b, s, At(j + g)).id BY <2>4, <2>6
    <3>3. i + g = j + g BY <2>5, <2>6, <3>1, <3>2
    <3> QED BY <2>2, <3>3
  <2>9. \A k \in 1..Len(queue) : ~Used(At(k)) =>
           \E i \in 1..Len(After(p)) : After(p)[i] = Fill(At(k))
    <3> TAKE k \in 1..Len(queue)
    <3> HAVE ~Used(At(k))
    <3>1. k - g \in 1..(Len(queue) - g) /\ (k - g) + g = k BY <2>1, <2>2
    <3> QED BY <2>6, <2>7, <3>1
  <2>10. \A i \in 1..Len(After(p)) : \E k \in 1..Len(queue) :
            ~Used(At(k)) /\ After(p)[i] = Fill(At(k))
    BY <2>6, <2>7
  <2> QED BY <2>7, <2>8, <2>9, <2>10 DEF queue, At
<1>9. IsBook(c)
  <2>1. IsMap(c.orders, Ids, Order)
    <3> SUFFICES ASSUME NEW id \in DOMAIN c.orders PROVE id \in Ids /\ c.orders[id] \in Order
      BY <1>3 DEF IsMap
    <3>1. id \in DOMAIN b.orders /\ id \notin gone BY <1>3
    <3>2. id \in Ids BY <1>1, <3>1, BookType
    <3>3. CASE b.orders[id].side # s
      <4>1. c.orders[id] = b.orders[id] BY <1>7, <3>1, <3>3
      <4> QED BY <1>1, <3>1, <3>2, <4>1, BookType
    <3>4. CASE b.orders[id].side = s
      <4>1. PICK pos \in Positions(b, s) : OrderAt(b, s, pos).id = id
        BY <3>1, <3>4, OrderHasPosition
      <4>2. ~Used(pos) BY <1>5, <3>1, <4>1
      <4> QED BY <1>6, <3>2, <4>1, <4>2
    <3> QED BY <3>3, <3>4
  <2>2. \A t \in Sides : IsMap(c.levels[t], Prices, Seq(Order))
    <3>1. \A t \in Sides : IsMap(b.levels[t], Prices, Seq(Order)) BY <1>1 DEF IsBook
    <3>2. \A p \in kept : p \in Prices /\ After(p) \in Seq(Order) BY <1>1, <1>8, BookType
    <3> HIDE DEF After, kept
    <3>3. IsMap([p \in kept |-> After(p)], Prices, Seq(Order)) BY <3>2 DEF IsMap
    <3> QED BY <1>2, <3>1, <3>3
  <2>3. c.levels = [t \in Sides |-> c.levels[t]] BY <1>2
  <2> QED BY <1>4, <2>1, <2>2, <2>3 DEF IsBook
<1>10. \A t \in Sides \ {s} : c.levels[t] = b.levels[t] BY <1>2
<1>11. /\ DOMAIN c.levels[s] = kept
       /\ \A p \in kept : c.levels[s][p] = After(p) /\ p \in DOMAIN b.levels[s]
  BY <1>1, <1>2
<1> HIDE DEF s, After, Used, Fill, gone
<1>12. QueuedAreIndexed(c)
  <2> SUFFICES ASSUME NEW t \in Sides, NEW p \in DOMAIN c.levels[t],
                      NEW i \in 1..Len(c.levels[t][p])
               PROVE  LET u == c.levels[t][p][i]
                      IN  /\ u.side = t /\ u.price = p
                          /\ u.id \in DOMAIN c.orders /\ c.orders[u.id] = u
    BY DEF QueuedAreIndexed
  <2>1. CASE t = s
    <3>1. PICK k \in 1..Len(b.levels[s][p]) :
             ~Used(<<p, k>>) /\ c.levels[s][p][i] = Fill(<<p, k>>)
      BY <1>8, <1>11, <2>1
    <3>2. <<p, k>> \in Positions(b, s) BY <1>1, <1>11, <2>1, PositionOfIndex
    <3>3. <<p, k>>[1] = p OBVIOUS
    <3> QED BY <1>6, <2>1, <3>1, <3>2, <3>3
  <2>2. CASE t # s
    <3> DEFINE u == b.levels[t][p][i]
    <3>1. c.levels[t][p][i] = u /\ p \in DOMAIN b.levels[t] /\ i \in 1..Len(b.levels[t][p])
      BY <1>10, <2>2
    <3>2. u.side = t /\ u.price = p /\ u.id \in DOMAIN b.orders /\ b.orders[u.id] = u
      BY <3>1 DEF Good, QueuedAreIndexed
    <3> QED BY <1>7, <2>2, <3>1, <3>2
  <2> QED BY <2>1, <2>2
<1>13. QueuedOnce(c)
  <2>1. \A p \in DOMAIN c.levels[s] : \A i, j \in 1..Len(c.levels[s][p]) :
           c.levels[s][p][i].id = c.levels[s][p][j].id => i = j
    BY <1>8, <1>11
  <2>2. \A t \in Sides \ {s} : \A p \in DOMAIN c.levels[t] :
           \A i, j \in 1..Len(c.levels[t][p]) :
              c.levels[t][p][i].id = c.levels[t][p][j].id => i = j
    BY <1>10 DEF Good, QueuedOnce
  <2> QED BY <2>1, <2>2 DEF QueuedOnce
<1>14. IndexedAreQueued(c)
  <2> SUFFICES ASSUME NEW id \in DOMAIN c.orders
               PROVE /\ c.orders[id].id = id
                     /\ c.orders[id].price \in DOMAIN c.levels[c.orders[id].side]
                     /\ \E i \in 1..Len(c.levels[c.orders[id].side][c.orders[id].price]) :
                          c.levels[c.orders[id].side][c.orders[id].price][i] = c.orders[id]
    BY DEF IndexedAreQueued
  <2>1. id \in DOMAIN b.orders /\ id \notin gone BY <1>3
  <2>2. CASE b.orders[id].side # s
    <3> DEFINE o == b.orders[id]
    <3>1. c.orders[id] = o BY <1>7, <2>1, <2>2
    <3>2. o.id = id /\ o.side \in Sides /\ o.price \in DOMAIN b.levels[o.side]
          /\ \E i \in 1..Len(b.levels[o.side][o.price]) : b.levels[o.side][o.price][i] = o
      BY <1>1, <2>1, BookType DEF Good, IndexedAreQueued, Order
    <3>3. c.levels[o.side] = b.levels[o.side] BY <1>10, <2>2, <3>2
    <3> HIDE DEF o
    <3> QED BY <3>1, <3>2, <3>3
  <2>3. CASE b.orders[id].side = s
    <3>1. PICK pos \in Positions(b, s) : OrderAt(b, s, pos).id = id
      BY <2>1, <2>3, OrderHasPosition
    <3>2. ~Used(pos) BY <1>5, <2>1, <3>1
    <3>3. Fill(pos).id = id /\ Fill(pos).side = s /\ Fill(pos).price = pos[1]
          /\ c.orders[id] = Fill(pos)
      BY <1>6, <3>1, <3>2
    <3>4. pos = <<pos[1], pos[2]>> /\ pos[1] \in DOMAIN b.levels[s]
          /\ pos[2] \in 1..Len(b.levels[s][pos[1]])
      BY <1>1, PositionType
    <3>5. PICK i \in 1..Len(After(pos[1])) : After(pos[1])[i] = Fill(pos)
      BY <1>8, <3>2, <3>4
    <3>6. pos[1] \in kept
      <4>1. After(pos[1]) # <<>> BY <3>5
      <4> QED BY <3>4, <4>1
    <3> HIDE DEF kept
    <3> QED BY <1>11, <3>3, <3>5, <3>6
  <2> QED BY <2>2, <2>3
<1>15. NoEmptyLevel(c)
  <2>1. \A p \in DOMAIN c.levels[s] : c.levels[s][p] # <<>> BY <1>11
  <2>2. \A t \in Sides \ {s} : \A p \in DOMAIN c.levels[t] : c.levels[t][p] # <<>>
    BY <1>10 DEF Good, NoEmptyLevel
  <2> QED BY <2>1, <2>2 DEF NoEmptyLevel
<1>16. LevelOrdersAtHome(c)
  <2> SUFFICES ASSUME NEW id \in DOMAIN c.orders
               PROVE  /\ id \in DOMAIN b.orders
                      /\ c.orders[id].side = b.orders[id].side
                      /\ c.orders[id].price = b.orders[id].price
    BY DEF Good, LevelOrdersAtHome
  <2>1. id \in DOMAIN b.orders /\ id \notin gone BY <1>3
  <2>2. CASE b.orders[id].side # s BY <1>7, <2>1, <2>2
  <2>3. CASE b.orders[id].side = s
    <3>1. PICK pos \in Positions(b, s) :
             OrderAt(b, s, pos).id = id /\ pos[1] = b.orders[id].price
      BY <2>1, <2>3, OrderHasPosition
    <3>2. ~Used(pos) BY <1>5, <2>1, <3>1
    <3> QED BY <1>6, <2>1, <2>3, <3>1, <3>2
  <2> QED BY <2>2, <2>3
<1>17. Good(c) BY <1>9, <1>12, <1>13, <1>14, <1>15, <1>16 DEF Good
<1>18. DOMAIN c.orders \subseteq DOMAIN b.orders BY <1>3
<1> QED BY <1>17, <1>18 DEF c

(* An order is filled by between nothing and all of its quantity.          *)
LEMMA FilledType ==
  ASSUME NEW b, Good(b), NEW ag, ag.side \in Sides, ag.qty \in Nat, NEW limit
  PROVE  Filled(b, ag, limit) \in 0..ag.qty
<1> DEFINE s == Opposite(ag.side)
           P == {pos \in Positions(b, s) : Crosses(ag.side, pos[1], limit)}
<1>1. s \in Sides BY DEF Opposite, Sides
<1>2. P \in SUBSET Positions(b, s) OBVIOUS
<1> HIDE DEF P
<1>3. Quantity(b, s, P) \in Nat BY <1>1, <1>2, QuantityType
<1> QED BY <1>3 DEF Filled, P

-----------------------------------------------------------------------------
(* Every operation keeps a book good *)

(* A client's id is not the id of a level.                                 *)
LEMMA ClientOrderAtHome ==
  ASSUME NEW o, o.id \in ClientIds
  PROVE  AtHome(o)
BY IdsAssumption DEF AtHome, LevelIds

(* An agent's level id is not the id of a level: it has one part more.     *)
LEMMA AgentLevelOrderAtHome ==
  ASSUME NEW o, NEW s \in Sides, NEW p \in Prices, NEW a \in Agents,
         o.id = AgentLevelId(s, p, a)
  PROVE  AtHome(o) /\ o.id \in Ids
<1>1. o.id \in Ids BY DEF Ids, AgentLevelIds
<1>2. \A t \in Sides, x \in Prices : o.id # LevelId(t, x)
  <2> TAKE t \in Sides, x \in Prices
  <2>1. Len(AgentLevelId(s, p, a)) = 4 BY DEF AgentLevelId
  <2>2. Len(LevelId(t, x)) = 3 BY DEF LevelId
  <2> QED BY <2>1, <2>2
<1> QED BY <1>1, <1>2 DEF AtHome

(* A level order is an order, and at home on its level.                    *)
LEMMA LevelOrderType ==
  ASSUME NEW s \in Sides, NEW p \in Prices, NEW q \in Lots, NEW a \in Agents
  PROVE  /\ LevelOrder(s, p, q, a) \in Order
         /\ AtHome(LevelOrder(s, p, q, a))
<1>1. LevelId(s, p) \in Ids BY DEF Ids, LevelIds
<1>2. LevelOrder(s, p, q, a) \in Order BY <1>1 DEF LevelOrder, Order
<1>3. ASSUME NEW t \in Sides, NEW x \in Prices, LevelId(s, p) = LevelId(t, x)
      PROVE  s = t /\ p = x
  <2>1. s = t /\ PriceName(p) = PriceName(x) BY <1>3 DEF LevelId
  <2> QED BY <2>1, PricesAssumption
<1>4. AtHome(LevelOrder(s, p, q, a)) BY <1>3 DEF AtHome, LevelOrder
<1> QED BY <1>2, <1>4

(* cancel keeps a book good.                                               *)
LEMMA CancelGood ==
  ASSUME NEW b, Good(b), NEW id
  PROVE  Good(CancelOrder(b, id))
BY RemovedGood DEF CancelOrder, Known

(* modify keeps a book good: in place, or removed and appended.            *)
LEMMA ModifyGood ==
  ASSUME NEW b, Good(b), NEW r, r.id \in ClientIds, r.qty \in Lots, r.price \in Prices, r.ts \in Nat
  PROVE  Good(ModifyOrder(b, r))
<1> DEFINE old == b.orders[r.id]
           new == Modified(b, r)
<1>1. CASE ~CanModify(b, r) BY <1>1 DEF ModifyOrder
<1>2. CASE CanModify(b, r)
  <2>1. r.id \in DOMAIN b.orders /\ old \in Order /\ old.id = r.id
    <3>1. r.id \in DOMAIN b.orders BY <1>2 DEF CanModify, Known
    <3>2. old.id = r.id BY <3>1 DEF Good, IndexedAreQueued
    <3>3. old \in Order BY <3>1 DEF Good, IsBook, IsMap
    <3> QED BY <3>1, <3>2, <3>3
  <2>2. new \in Order /\ new.id = r.id /\ new.side = old.side /\ new.price = r.price
    BY <2>1 DEF Modified, Order
  <2>3. CASE SamePrice(b, r)
    <3> DEFINE queue == b.levels[old.side][old.price]
    <3>1. new.price = old.price BY <2>2, <2>3 DEF SamePrice
    <3>2. ModifyOrder(b, r) =
            SetQueue(b, old.side, old.price, [queue EXCEPT ![IndexIn(queue, old.id)] = new],
                     PutOrder(b.orders, new))
      BY <1>2, <2>3 DEF ModifyOrder
    <3> HIDE DEF new
    <3>3. Good(SetQueue(b, new.side, new.price,
                 [b.levels[new.side][new.price] EXCEPT
                    ![IndexIn(b.levels[new.side][new.price], r.id)] = new],
                 PutOrder(b.orders, new)))
      BY <2>1, <2>2, <3>1, ReplacedGood
    <3> QED BY <2>1, <2>2, <3>1, <3>2, <3>3
  <2>4. CASE ~SamePrice(b, r)
    <3> DEFINE c == Removed(b, old)
    <3>1. ModifyOrder(b, r) = Appended(c, new) BY <1>2, <2>4 DEF ModifyOrder
    <3>2. Good(c) /\ c.orders = DropOrder(b.orders, r.id) BY <2>1, RemovedGood
    <3>3. new.id \notin DOMAIN c.orders BY <2>2, <3>2 DEF DropOrder
    <3>4. AtHome(new) BY <2>2, ClientOrderAtHome
    <3> HIDE DEF c, new
    <3> QED BY <2>2, <3>1, <3>2, <3>3, <3>4, AppendedGood
  <2> QED BY <2>3, <2>4
<1> QED BY <1>1, <1>2

(* updateLevel keeps a book good: the level id is free once the level is dropped. *)
LEMMA UpdateLevelGood ==
  ASSUME NEW b, Good(b), NEW s \in Sides, NEW p \in Prices, NEW q \in Nat, NEW a \in Agents
  PROVE  Good(UpdateLevel(b, s, p, q, a))
<1> DEFINE o == LevelOrder(s, p, q, a)
           c == RemoveLevel(b, s, p)
<1>1. Good(c) BY RemoveLevelGood
<1>2. CASE q = 0 BY <1>1, <1>2 DEF UpdateLevel
<1>3. CASE q # 0
  <2>1. q \in Lots BY <1>3 DEF Lots
  <2>2. o \in Order /\ AtHome(o) BY <2>1, LevelOrderType
  <2>3. o.id = LevelId(s, p) /\ o.side = s /\ o.price = p BY DEF LevelOrder
  <2>4. o.id \notin DOMAIN c.orders
    <3> SUFFICES ASSUME o.id \in DOMAIN c.orders PROVE FALSE OBVIOUS
    <3>1. c.orders[o.id].side = s /\ c.orders[o.id].price = p
      BY <1>1, <2>3 DEF Good, LevelOrdersAtHome
    <3>2. c.orders[o.id] = b.orders[o.id] /\ (b.orders[o.id].side # s \/ b.orders[o.id].price # p)
      BY RemoveLevelGood
    <3> QED BY <3>1, <3>2
  <2>5. QueueAt(c, s, p) = <<>> BY RemoveLevelGood DEF QueueAt, HasLevel
  <2> HIDE DEF c, o
  <2>6. Append(QueueAt(c, s, p), o) = <<o>> BY <2>5
  <2>7. Appended(c, o) = SetQueue(c, s, p, <<o>>, PutOrder(c.orders, o))
    BY <2>3, <2>6 DEF Appended
  <2>8. Good(Appended(c, o)) BY <1>1, <2>2, <2>4, AppendedGood
  <2> QED BY <1>3, <2>7, <2>8 DEF UpdateLevel, c, o
<1> QED BY <1>2, <1>3

(* updateAgentLevel keeps a book good.                                     *)
LEMMA UpdateAgentLevelGood ==
  ASSUME NEW b, Good(b), NEW o, o.qty \in Nat, o.qty # 0 => o \in Order, AtHome(o)
  PROVE  Good(UpdateAgentLevel(b, o))
<1>1. CASE o.qty = 0 BY <1>1, CancelGood DEF UpdateAgentLevel
<1>2. CASE o.qty # 0
  <2> DEFINE c == IF Known(b, o.id) THEN Removed(b, b.orders[o.id]) ELSE b
  <2>1. Good(c) /\ o.id \notin DOMAIN c.orders
    <3>1. CASE Known(b, o.id)
      <4>1. c = Removed(b, b.orders[o.id]) /\ o.id \in DOMAIN b.orders BY <3>1 DEF Known
      <4>2. Good(Removed(b, b.orders[o.id])) BY <4>1, RemovedGood
      <4>3. Removed(b, b.orders[o.id]).orders = DropOrder(b.orders, o.id) BY <4>1, RemovedGood
      <4> HIDE DEF c
      <4> QED BY <4>1, <4>2, <4>3 DEF DropOrder
    <3>2. CASE ~Known(b, o.id) BY <3>2 DEF Known
    <3> QED BY <3>1, <3>2
  <2>2. UpdateAgentLevel(b, o) = Appended(c, o) BY <1>2 DEF UpdateAgentLevel
  <2> HIDE DEF c
  <2> QED BY <1>2, <2>1, <2>2, AppendedGood
<1> QED BY <1>1, <1>2

(* ensureLevelMinimum keeps a book good.                                   *)
LEMMA EnsureLevelMinimumGood ==
  ASSUME NEW b, Good(b), NEW s \in Sides, NEW p \in Prices, NEW m \in Nat, NEW a \in Agents
  PROVE  Good(EnsureLevelMinimum(b, s, p, m, a))
<1> DEFINE o == TopUpOrder(b, s, p, m, a)
           id == AgentLevelId(s, p, a)
           P == {pos \in Positions(b, s) : pos[1] = p /\ OrderAt(b, s, pos).id # id}
<1>1. P \in SUBSET Positions(b, s) OBVIOUS
<1>2. OthersQuantity(b, s, p, id) \in Nat
  <2> HIDE DEF P
  <2>1. Quantity(b, s, P) \in Nat BY <1>1, QuantityType
  <2> QED BY <2>1 DEF OthersQuantity, P
<1>3. o.id = id BY DEF TopUpOrder
<1>4. o.qty \in Nat BY <1>2 DEF TopUpOrder
<1>5. AtHome(o) /\ o.id \in Ids BY <1>3, AgentLevelOrderAtHome
<1>6. o.qty # 0 => o \in Order BY <1>3, <1>4, <1>5 DEF TopUpOrder, Order, Lots
<1> HIDE DEF o
<1>7. Good(UpdateAgentLevel(b, o)) BY <1>4, <1>5, <1>6, UpdateAgentLevelGood
<1> QED BY <1>7 DEF EnsureLevelMinimum, o

-----------------------------------------------------------------------------
(* The inductive invariant *)

(* The empty book is good.                                                 *)
LEMMA InitGood == Init => IInv
<1> SUFFICES ASSUME Init PROVE IInv OBVIOUS
<1>1. book.levels = [s \in Sides |-> EmptyMap] /\ book.orders = EmptyMap
      /\ book = [levels |-> book.levels, orders |-> book.orders]
  BY DEF Init, EmptyBook
<1>2. DOMAIN EmptyMap = {} /\ EmptyMap \in [DOMAIN EmptyMap -> Seq(Order)]
      /\ EmptyMap \in [DOMAIN EmptyMap -> Order]
  BY DEF EmptyMap
<1>3. IsBook(book) BY <1>1, <1>2 DEF IsBook, IsMap
<1>4. Good(book)
  BY <1>1, <1>2, <1>3 DEF Good, QueuedAreIndexed, QueuedOnce, IndexedAreQueued, NoEmptyLevel,
                          LevelOrdersAtHome
<1> QED BY <1>4 DEF IInv, Init

(* A submitted limit order keeps a book good when it rests.                *)
LEMMA LimitGood ==
  ASSUME Good(book), NEW o \in ClientOrders, SubmitLimit(o)
  PROVE  Good(book')
<1> DEFINE matched == Match(book, o, o.price)
           f == Filled(book, o, o.price)
           rest == [o EXCEPT !.qty = o.qty - f]
<1>1. o.side \in Sides /\ o.qty \in Lots /\ o.qty \in Nat /\ o.id \in ClientIds
  BY InputsAssumption DEF ClientOrders, Lots
<1>2. Good(matched) BY <1>1, MatchGood
<1>3. f \in 0..o.qty BY <1>1, FilledType
<1> HIDE DEF matched, f
<1>4. \/ book' = matched
      \/ o.qty - f > 0 /\ CanAdd(matched, o) /\ book' = AddOrder(matched, rest)
  <2>1. rest.qty = o.qty - f BY DEF ClientOrders
  <2> QED BY <2>1 DEF SubmitLimit, matched, f
<1>5. ASSUME o.qty - f > 0, CanAdd(matched, o) PROVE Good(Appended(matched, rest))
  <2>1. rest.id = o.id BY DEF ClientOrders
  <2>2. o.qty - f \in Lots BY <1>1, <1>3, <1>5 DEF Lots
  <2>3. rest \in Order BY <2>2, InputsAssumption DEF ClientOrders, Order, Ids
  <2>4. AtHome(rest) BY <1>1, <2>1, ClientOrderAtHome
  <2>5. rest.id \notin DOMAIN matched.orders BY <1>5, <2>1 DEF CanAdd, Known
  <2> HIDE DEF rest
  <2> QED BY <1>2, <2>3, <2>4, <2>5, AppendedGood
<1> QED BY <1>2, <1>4, <1>5 DEF AddOrder

(* An agent sets a level under an id of its own or the default id.         *)
LEMMA AgentLevelGood ==
  ASSUME Good(book), NEW o \in ClientOrders, NEW q \in {0} \cup Quantities
  PROVE  /\ Good(UpdateAgentLevel(book, [o EXCEPT !.qty = q]))
         /\ Good(UpdateAgentLevel(book, [DefaultId(o) EXCEPT !.qty = q]))
<1>1. q \in Nat /\ (q # 0 => q \in Lots) BY InputsAssumption DEF Lots
<1>2. Good(UpdateAgentLevel(book, [o EXCEPT !.qty = q]))
  <2> DEFINE u == [o EXCEPT !.qty = q]
  <2>1. u.qty = q /\ u.id \in ClientIds BY DEF ClientOrders
  <2>2. q # 0 => u \in Order BY <1>1, InputsAssumption DEF ClientOrders, Order, Ids
  <2>3. AtHome(u) BY <2>1, ClientOrderAtHome
  <2> HIDE DEF u
  <2>4. Good(UpdateAgentLevel(book, u)) BY <1>1, <2>1, <2>2, <2>3, UpdateAgentLevelGood
  <2> QED BY <2>4 DEF u
<1>3. Good(UpdateAgentLevel(book, [DefaultId(o) EXCEPT !.qty = q]))
  <2> DEFINE u == [DefaultId(o) EXCEPT !.qty = q]
  <2>1. /\ u.qty = q /\ u.id = AgentLevelId(o.side, o.price, o.agent)
        /\ o.side \in Sides /\ o.price \in Prices /\ o.agent \in Agents
    BY DEF ClientOrders, DefaultId
  <2>2. AtHome(u) /\ u.id \in Ids BY <2>1, AgentLevelOrderAtHome
  <2>3. q # 0 => u \in Order
    BY <1>1, <2>1, <2>2, InputsAssumption DEF ClientOrders, Order, DefaultId
  <2> HIDE DEF u
  <2>4. Good(UpdateAgentLevel(book, u)) BY <1>1, <2>1, <2>2, <2>3, UpdateAgentLevelGood
  <2> QED BY <2>4 DEF u
<1> QED BY <1>2, <1>3

(* The induction step, one case per action.                                *)
LEMMA NextGood == IInv /\ [Next]_vars => IInv'
<1> SUFFICES ASSUME IInv, [Next]_vars PROVE IInv' OBVIOUS
<1>1. Good(book) BY DEF IInv
<1>2. Quantities \subseteq Lots /\ Stamps \subseteq Nat BY InputsAssumption
<1>3. ASSUME NEW o \in ClientOrders, SubmitLimit(o) PROVE IInv'
  <2>1. Good(book') BY <1>1, <1>3, LimitGood
  <2>2. outcome' \in {"done", "rejected"} BY <1>3 DEF SubmitLimit
  <2> QED BY <2>1, <2>2 DEF IInv
<1>4. ASSUME NEW o \in ClientOrders, SubmitMarket(o) PROVE IInv'
  <2>1. o.side \in Sides /\ o.qty \in Nat BY <1>2 DEF ClientOrders, Lots
  <2>2. Good(Match(book, o, NoLimit)) BY <1>1, <2>1, MatchGood
  <2> QED BY <1>4, <2>2 DEF SubmitMarket, IInv
<1>5. ASSUME NEW id, SubmitCancel(id) PROVE IInv'
  BY <1>1, <1>5, CancelGood DEF SubmitCancel, IInv
<1>6. ASSUME NEW r \in ClientOrders, SubmitModify(r) PROVE IInv'
  <2>1. r.id \in ClientIds /\ r.qty \in Lots /\ r.price \in Prices /\ r.ts \in Nat
    BY <1>2 DEF ClientOrders
  <2>2. Good(ModifyOrder(book, r)) BY <1>1, <2>1, ModifyGood
  <2> QED BY <1>6, <2>2 DEF SubmitModify, IInv
<1>7. ASSUME NEW o \in ClientOrders, NEW q \in {0} \cup Quantities,
             SetAgentLevel([o EXCEPT !.qty = q]) \/ SetAgentLevel([DefaultId(o) EXCEPT !.qty = q])
      PROVE  IInv'
  BY <1>1, <1>7, AgentLevelGood DEF SetAgentLevel, IInv
<1>8. ASSUME NEW s \in Sides, NEW p \in Prices, NEW q \in {0} \cup Quantities, NEW a \in Agents,
             SetLevel(s, p, q, a)
      PROVE  IInv'
  <2>1. q \in Nat BY <1>2 DEF Lots
  <2>2. Good(UpdateLevel(book, s, p, q, a)) BY <1>1, <2>1, UpdateLevelGood
  <2> QED BY <1>8, <2>2 DEF SetLevel, IInv
<1>9. ASSUME NEW s \in Sides, NEW p \in Prices, NEW q \in Quantities, NEW a \in Agents,
             RaiseLevel(s, p, q, a)
      PROVE  IInv'
  <2>1. q \in Nat BY <1>2 DEF Lots
  <2>2. Good(EnsureLevelMinimum(book, s, p, q, a)) BY <1>1, <2>1, EnsureLevelMinimumGood
  <2> QED BY <1>9, <2>2 DEF RaiseLevel, IInv
<1>10. ASSUME NEW s \in Sides, NEW p \in Prices, DropLevel(s, p) PROVE IInv'
  BY <1>1, <1>10, RemoveLevelGood DEF DropLevel, IInv
<1>11. CASE UNCHANGED vars BY <1>11 DEF IInv, vars
<1>12. CASE OrderNext BY <1>3, <1>4, <1>5, <1>12 DEF OrderNext
<1>13. CASE ModifyNext BY <1>6, <1>13 DEF ModifyNext
<1>14. CASE LevelNext BY <1>7, <1>8, <1>9, <1>10, <1>14 DEF LevelNext
<1> QED BY <1>11, <1>12, <1>13, <1>14 DEF Next

(* The inductive invariant holds in every reachable state.                 *)
LEMMA GoodAlways == Spec => []IInv
<1>1. Init => IInv BY InitGood
<1>2. IInv /\ [Next]_vars => IInv' BY NextGood
<1> QED BY <1>1, <1>2, PTL DEF Spec

(* The book is well typed in every reachable state: no operation leaves an *)
(* order of quantity zero, an order on the wrong map or an unknown id.     *)
THEOREM TypeCorrect == Spec => []TypeOK
<1>1. IInv => TypeOK BY DEF IInv, Good, TypeOK
<1> QED BY <1>1, GoodAlways, PTL

(* After every operation the queues and the index hold the same orders,    *)
(* each once, and no level is empty: "order index is inconsistent" is      *)
(* never thrown.                                                           *)
THEOREM IndexCorrect == Spec => []IndexMatchesQueues
<1>1. IInv => IndexMatchesQueues BY DEF IInv, Good, IndexMatchesQueues
<1> QED BY <1>1, GoodAlways, PTL

-----------------------------------------------------------------------------
(* Limit, market and cancel orders never leave a crossed book *)

(* There are two sides.                                                    *)
LEMMA SidesFacts ==
  /\ "buy" \in Sides /\ "sell" \in Sides
  /\ \A s \in Sides : Opposite(s) \in Sides /\ Opposite(s) # s /\ Opposite(Opposite(s)) = s
  /\ \A s \in Sides : s = "buy" \/ s = "sell"
BY DEF Sides, Opposite

(* A book stays uncrossed when no side gains a price.                      *)
LEMMA FewerLevels ==
  ASSUME NEW b, NEW c, Uncrossed(b),
         \A s \in Sides : DOMAIN c.levels[s] \subseteq DOMAIN b.levels[s]
  PROVE  Uncrossed(c)
BY SidesFacts DEF Uncrossed

(* Matching adds no price to either side.                                  *)
LEMMA MatchLevels ==
  ASSUME NEW b, Good(b), NEW ag, ag.side \in Sides, NEW limit
  PROVE  /\ Match(b, ag, limit).levels[ag.side] = b.levels[ag.side]
         /\ DOMAIN Match(b, ag, limit).levels[Opposite(ag.side)] =
              {p \in DOMAIN b.levels[Opposite(ag.side)] : QueueAfter(b, ag, limit, p) # <<>>}
<1>1. IsBook(b) BY DEF Good
<1> DEFINE s == Opposite(ag.side)
           kept == {p \in DOMAIN b.levels[s] : QueueAfter(b, ag, limit, p) # <<>>}
<1>2. Match(b, ag, limit).levels =
        [b.levels EXCEPT ![s] = [p \in kept |-> QueueAfter(b, ag, limit, p)]]
  BY DEF Match
<1>3. s \in Sides /\ s # ag.side BY SidesFacts
<1> HIDE DEF kept, s
<1>4. b.levels = [t \in Sides |-> b.levels[t]] BY <1>1 DEF IsBook
<1>5. Match(b, ag, limit).levels[ag.side] = b.levels[ag.side] BY <1>2, <1>3, <1>4
<1>6. Match(b, ag, limit).levels[s] = [p \in kept |-> QueueAfter(b, ag, limit, p)]
  BY <1>2, <1>3, <1>4
<1> QED BY <1>5, <1>6 DEF s, kept

(* When something of an order is left, it has used up all that it crosses. *)
LEMMA CrossedAreUsedUp ==
  ASSUME NEW b, Good(b), NEW ag, ag.side \in Sides, ag.qty \in Nat, NEW limit \in Nat,
         Filled(b, ag, limit) < ag.qty,
         NEW pos \in Positions(b, Opposite(ag.side)), Crosses(ag.side, pos[1], limit)
  PROVE  UsedUp(b, ag, limit, pos)
<1> DEFINE s == Opposite(ag.side)
           C == {x \in Positions(b, s) : Crosses(ag.side, x[1], limit)}
           P == PositionsAhead(b, s, pos)
           k == OrderAt(b, s, pos).qty
           a == Quantity(b, s, P)
           all == Quantity(b, s, C)
<1>1. s \in Sides BY SidesFacts
<1>2. C \in SUBSET Positions(b, s) /\ pos \in C OBVIOUS
<1>3. P \in SUBSET C
  <2> SUFFICES ASSUME NEW x \in Positions(b, s),
                      Ahead(s, x[1], pos[1]) \/ (x[1] = pos[1] /\ x[2] < pos[2])
               PROVE  Crosses(ag.side, x[1], limit)
    BY DEF PositionsAhead
  <2>1. x[1] \in Prices /\ pos[1] \in Prices BY <1>1, PositionType
  <2>2. x[1] \in Nat /\ pos[1] \in Nat BY <2>1, PricesAssumption
  <2>3. ag.side = "buy" \/ ag.side = "sell" BY SidesFacts
  <2> QED BY <2>2, <2>3 DEF Ahead, Crosses, Opposite
<1>4. pos \notin P
  <2>1. pos[1] \in Prices /\ pos[2] \in 1..Len(b.levels[s][pos[1]]) BY <1>1, PositionType
  <2>2. pos[1] \in Nat BY <2>1, PricesAssumption
  <2>3. pos[2] \in Int BY <2>1
  <2> QED BY <2>2, <2>3 DEF PositionsAhead, Ahead
<1>5. k \in Lots BY <1>1, PositionType
<1> HIDE DEF C, P, k
<1>6. a + k <= all BY <1>1, <1>2, <1>3, <1>4, QuantityGrows DEF k
<1>7. a \in Nat /\ all \in Nat BY <1>1, <1>2, <1>3, QuantityType
<1> HIDE DEF a, all, s
<1>8. all < ag.qty
  <2>1. Filled(b, ag, limit) = IF all < ag.qty THEN all ELSE ag.qty
    BY DEF Filled, all, C, s
  <2> QED BY <1>7, <2>1
<1>9. Traded(b, ag, limit, pos) =
        IF ~Crosses(ag.side, pos[1], limit) \/ a >= ag.qty THEN 0
        ELSE IF ag.qty - a < k THEN ag.qty - a ELSE k
  BY DEF Traded, a, P, k, s
<1>10. Traded(b, ag, limit, pos) = k BY <1>5, <1>6, <1>7, <1>8, <1>9 DEF Lots
<1> QED BY <1>10 DEF UsedUp, k, s

(* When something of a limit order is left, no opposite price is within its limit. *)
LEMMA NothingLeftToCross ==
  ASSUME NEW b, Good(b), NEW ag, ag.side \in Sides, ag.qty \in Nat, NEW limit \in Nat,
         Filled(b, ag, limit) < ag.qty,
         NEW p \in DOMAIN Match(b, ag, limit).levels[Opposite(ag.side)]
  PROVE  ~Crosses(ag.side, p, limit)
<1> DEFINE s == Opposite(ag.side)
           queue == b.levels[s][p]
           after == QueueAfter(b, ag, limit, p)
<1>1. s \in Sides /\ IsBook(b) BY SidesFacts DEF Good
<1>2. p \in DOMAIN b.levels[s] /\ after # <<>>
  <2>1. DOMAIN Match(b, ag, limit).levels[s] =
          {x \in DOMAIN b.levels[s] : QueueAfter(b, ag, limit, x) # <<>>}
    BY MatchLevels
  <2> QED BY <2>1
<1>3. Len(queue) \in Nat BY <1>1, <1>2, BookType
<1>4. SUFFICES ASSUME Crosses(ag.side, p, limit) PROVE FALSE OBVIOUS
<1>5. \A i \in 1..Len(queue) : UsedUp(b, ag, limit, <<p, i>>)
  <2> TAKE i \in 1..Len(queue)
  <2>1. <<p, i>> \in Positions(b, s) BY <1>1, <1>2, PositionOfIndex
  <2>2. <<p, i>>[1] = p OBVIOUS
  <2> QED BY <1>4, <2>1, <2>2, CrossedAreUsedUp
<1>6. PICK gone \in 0..Len(queue) :
         /\ \A i \in 1..Len(queue) : UsedUp(b, ag, limit, <<p, i>>) <=> i <= gone
         /\ after = [i \in 1..(Len(queue) - gone) |-> AfterFill(b, ag, limit, <<p, i + gone>>)]
  <2>1. p \in DOMAIN b.levels[Opposite(ag.side)] BY <1>2
  <2>2. PICK gone \in 0..Len(queue) : IsTail(b, ag, limit, p, queue, after, gone)
    BY <2>1, QueueAfterFacts
  <2> QED BY <2>2 DEF IsTail
<1> HIDE DEF after, queue
<1>7. \A i \in 1..Len(queue) : i <= gone BY <1>5, <1>6
<1>8. gone \in 0..Len(queue) BY <1>6
<1>9. gone = Len(queue)
  <2>1. CASE Len(queue) = 0 BY <1>3, <2>1
  <2>2. CASE Len(queue) # 0
    <3>1. Len(queue) \in 1..Len(queue) BY <1>3, <2>2
    <3> QED BY <1>3, <1>7, <1>8, <3>1
  <2> QED BY <2>1, <2>2
<1>10. after = <<>>
  <2>1. 1..(Len(queue) - gone) = {} BY <1>3, <1>9
  <2>2. DOMAIN after = 1..(Len(queue) - gone) BY <1>6
  <2>3. after = [i \in {} |-> AfterFill(b, ag, limit, <<p, i + gone>>)] BY <1>6, <2>1
  <2> QED BY <2>3
<1> QED BY <1>2, <1>10

(* Appending adds at most the price of the order, on its side.             *)
LEMMA AppendedLevels ==
  ASSUME NEW b, IsBook(b), NEW o, o.side \in Sides
  PROVE  /\ DOMAIN Appended(b, o).levels[o.side] = DOMAIN b.levels[o.side] \cup {o.price}
         /\ \A t \in Sides \ {o.side} : Appended(b, o).levels[t] = b.levels[t]
<1> DEFINE q == Append(QueueAt(b, o.side, o.price), o)
<1>1. q # <<>> BY DEF QueueAt
<1> HIDE DEF q
<1>2. DOMAIN PutQueue(b.levels[o.side], o.price, q) = DOMAIN b.levels[o.side] \cup {o.price}
  BY <1>1 DEF PutQueue
<1>3. Appended(b, o).levels =
        [t \in Sides |-> IF t = o.side THEN PutQueue(b.levels[o.side], o.price, q) ELSE b.levels[t]]
  BY SetQueueFacts DEF Appended, q
<1> QED BY <1>2, <1>3

(* Removing adds no price.                                                 *)
LEMMA RemovedLevels ==
  ASSUME NEW b, Good(b), NEW id \in DOMAIN b.orders, NEW t \in Sides
  PROVE  DOMAIN Removed(b, b.orders[id]).levels[t] \subseteq DOMAIN b.levels[t]
<1> DEFINE o == b.orders[id]
           q == Without(b.levels[o.side][o.price], o.id)
           lv == PutQueue(b.levels[o.side], o.price, q)
<1>1. o \in Order /\ o.price \in DOMAIN b.levels[o.side] /\ IsBook(b)
  BY DEF Good, IsBook, IsMap, IndexedAreQueued
<1>2. o.side \in Sides BY <1>1 DEF Order
<1> HIDE DEF o, q
<1>3. DOMAIN lv \subseteq DOMAIN b.levels[o.side] BY <1>1 DEF PutQueue
<1> HIDE DEF lv
<1>4. Removed(b, o).levels = [u \in Sides |-> IF u = o.side THEN lv ELSE b.levels[u]]
  BY <1>1, <1>2, SetQueueFacts DEF Removed, lv, q
<1>5. DOMAIN Removed(b, o).levels[t] \subseteq DOMAIN b.levels[t] BY <1>3, <1>4
<1> QED BY <1>5 DEF o

(* cancel keeps a book uncrossed.                                          *)
LEMMA CancelUncrossed ==
  ASSUME NEW b, Good(b), Uncrossed(b), NEW id
  PROVE  Uncrossed(CancelOrder(b, id))
<1>1. CASE Known(b, id)
  <2>1. id \in DOMAIN b.orders BY <1>1 DEF Known
  <2>2. \A t \in Sides : DOMAIN Removed(b, b.orders[id]).levels[t] \subseteq DOMAIN b.levels[t]
    BY <2>1, RemovedLevels
  <2>3. Uncrossed(Removed(b, b.orders[id])) BY <2>2, FewerLevels
  <2> QED BY <1>1, <2>3 DEF CancelOrder
<1>2. CASE ~Known(b, id) BY <1>2 DEF CancelOrder
<1> QED BY <1>1, <1>2

(* Matching keeps a book uncrossed.                                        *)
LEMMA MatchUncrossed ==
  ASSUME NEW b, Good(b), Uncrossed(b), NEW ag, ag.side \in Sides, NEW limit
  PROVE  Uncrossed(Match(b, ag, limit))
<1>1. \A t \in Sides : DOMAIN Match(b, ag, limit).levels[t] \subseteq DOMAIN b.levels[t]
  <2> TAKE t \in Sides
  <2>1. CASE t = ag.side BY <2>1, MatchLevels
  <2>2. CASE t = Opposite(ag.side)
    <3>1. DOMAIN Match(b, ag, limit).levels[t] =
            {p \in DOMAIN b.levels[t] : QueueAfter(b, ag, limit, p) # <<>>}
      BY <2>2, MatchLevels
    <3> QED BY <3>1
  <2> QED BY <2>1, <2>2 DEF Opposite, Sides
<1> QED BY <1>1, FewerLevels

(* What rests of a limit order does not cross.                             *)
LEMMA RestUncrossed ==
  ASSUME NEW b, Good(b), Uncrossed(b), NEW o, o.side \in Sides, o.price \in Prices,
         \A p \in DOMAIN b.levels[Opposite(o.side)] : ~Crosses(o.side, p, o.price)
  PROVE  Uncrossed(Appended(b, o))
<1> DEFINE c == Appended(b, o)
<1>1. IsBook(b) BY DEF Good
<1>2. DOMAIN c.levels[o.side] = DOMAIN b.levels[o.side] \cup {o.price} BY <1>1, AppendedLevels
<1>3. c.levels[Opposite(o.side)] = b.levels[Opposite(o.side)] BY <1>1, AppendedLevels, SidesFacts
<1>4. /\ \A p \in DOMAIN b.levels["buy"] : p \in Nat
      /\ \A p \in DOMAIN b.levels["sell"] : p \in Nat
  <2>1. DOMAIN b.levels["buy"] \subseteq Prices BY <1>1, BookType, SidesFacts
  <2>3. DOMAIN b.levels["sell"] \subseteq Prices BY <1>1, BookType, SidesFacts
  <2> QED BY <2>1, <2>3, PricesAssumption
<1>5. o.price \in Nat /\ o.price # 0 BY PricesAssumption
<1> HIDE DEF c
<1>6. ASSUME o.side = "buy" PROVE Uncrossed(c)
  <2>1. Opposite(o.side) = "sell" BY <1>6 DEF Opposite
  <2>2. \A p \in DOMAIN b.levels["sell"] : ~Crosses("buy", p, o.price) BY <1>6, <2>1
  <2>3. \A p \in DOMAIN b.levels["sell"] : ~(p <= o.price)
    BY <2>2, <1>6, <2>1 DEF Crosses
  <2>4. DOMAIN c.levels["buy"] = DOMAIN b.levels["buy"] \cup {o.price} BY <1>2, <1>6
  <2>5. DOMAIN c.levels["sell"] = DOMAIN b.levels["sell"] BY <1>3, <2>1
  <2>6. \A p \in DOMAIN b.levels["sell"] : o.price < p BY <1>4, <1>5, <2>3
  <2> QED BY <2>4, <2>5, <2>6 DEF Uncrossed
<1>7. ASSUME o.side = "sell" PROVE Uncrossed(c)
  <2>1. Opposite(o.side) = "buy" BY <1>7 DEF Opposite
  <2>2. \A p \in DOMAIN b.levels["buy"] : ~Crosses("sell", p, o.price) BY <1>7, <2>1
  <2>3. \A p \in DOMAIN b.levels["buy"] : ~(p >= o.price)
    BY <2>2, <1>7, <2>1 DEF Crosses
  <2>4. DOMAIN c.levels["sell"] = DOMAIN b.levels["sell"] \cup {o.price} BY <1>2, <1>7
  <2>5. DOMAIN c.levels["buy"] = DOMAIN b.levels["buy"] BY <1>3, <2>1
  <2>6. \A p \in DOMAIN b.levels["buy"] : p < o.price BY <1>4, <1>5, <2>3
  <2> QED BY <2>4, <2>5, <2>6 DEF Uncrossed
<1>8. Uncrossed(c) BY <1>6, <1>7, SidesFacts
<1> QED BY <1>8 DEF c

(* A submitted limit order keeps a book uncrossed.                         *)
LEMMA LimitUncrossed ==
  ASSUME Good(book), Uncrossed(book), NEW o \in ClientOrders, SubmitLimit(o)
  PROVE  Uncrossed(book')
<1> DEFINE matched == Match(book, o, o.price)
           f == Filled(book, o, o.price)
           rest == [o EXCEPT !.qty = o.qty - f]
<1>1. o.side \in Sides /\ o.qty \in Nat /\ o.price \in Prices /\ o.price \in Nat
  BY InputsAssumption, PricesAssumption DEF ClientOrders, Lots
<1>2. Good(matched) /\ Uncrossed(matched) BY <1>1, MatchGood, MatchUncrossed
<1>3. f \in 0..o.qty BY <1>1, FilledType
<1>4. rest.qty = o.qty - f /\ rest.side = o.side /\ rest.price = o.price BY DEF ClientOrders
<1>5. ASSUME o.qty - f > 0 PROVE Uncrossed(Appended(matched, rest))
  <2>1. f < o.qty BY <1>1, <1>3, <1>5
  <2>2. \A p \in DOMAIN matched.levels[Opposite(o.side)] : ~Crosses(o.side, p, o.price)
    BY <1>1, <2>1, NothingLeftToCross
  <2> HIDE DEF matched, rest
  <2> QED BY <1>1, <1>2, <1>4, <2>2, RestUncrossed
<1> HIDE DEF matched, f
<1>6. \/ book' = matched
      \/ o.qty - f > 0 /\ book' = Appended(matched, rest)
  BY <1>4 DEF SubmitLimit, AddOrder, matched, f
<1> QED BY <1>2, <1>5, <1>6

(* Each submitted order, matched and rested, keeps a book uncrossed.       *)
LEMMA OrderStepUncrossed ==
  ASSUME Good(book), Uncrossed(book), OrderNext
  PROVE  Uncrossed(book')
<1>1. ASSUME NEW o \in ClientOrders, SubmitLimit(o) PROVE Uncrossed(book')
  BY <1>1, LimitUncrossed
<1>2. ASSUME NEW o \in ClientOrders, SubmitMarket(o) PROVE Uncrossed(book')
  <2>1. o.side \in Sides BY DEF ClientOrders
  <2> QED BY <1>2, <2>1, MatchUncrossed DEF SubmitMarket
<1>3. ASSUME NEW id, SubmitCancel(id) PROVE Uncrossed(book')
  BY <1>3, CancelUncrossed DEF SubmitCancel
<1> QED BY <1>1, <1>2, <1>3 DEF OrderNext

(* Whatever operations made a book, a submitted order does not cross it:   *)
(* only modify and the level operations, which do not match, can.          *)
THEOREM OrdersNeverCross == Spec => OrdersDoNotCross
<1>1. Init => IInv BY InitGood
<1>2. IInv /\ [Next]_vars => IInv' BY NextGood
<1>3. IInv => (NotCrossed /\ ~NotCrossed' => ~OrderNext)
  <2> SUFFICES ASSUME IInv, NotCrossed, OrderNext PROVE NotCrossed' OBVIOUS
  <2>1. Good(book) BY DEF IInv
  <2>2. Uncrossed(book) BY DEF Uncrossed, NotCrossed
  <2>3. Uncrossed(book') BY <2>1, <2>2, OrderStepUncrossed
  <2> QED BY <2>3 DEF Uncrossed, NotCrossed
<1> QED BY <1>1, <1>2, <1>3, PTL DEF Spec, OrdersDoNotCross

(* A stream of limit, market and cancel orders never leaves a bid at or    *)
(* above an ask; modify and the level operations, which do not match, are  *)
(* not part of such a stream.                                              *)
THEOREM NeverCrossed == OrderSpec => []NotCrossed
<1> DEFINE I == IInv /\ Uncrossed(book)
<1>1. Init => I
  <2>1. Init => Uncrossed(book) BY SidesFacts DEF Init, EmptyBook, EmptyMap, Uncrossed
  <2> QED BY <2>1, InitGood
<1>2. I /\ [OrderNext]_vars => I'
  <2> SUFFICES ASSUME I, [OrderNext]_vars PROVE I' OBVIOUS
  <2>1. IInv' BY NextGood DEF Next
  <2>2. Good(book) BY DEF IInv
  <2>3. ASSUME OrderNext PROVE Uncrossed(book') BY <2>2, <2>3, OrderStepUncrossed
  <2>4. ASSUME UNCHANGED vars PROVE Uncrossed(book') BY <2>4 DEF vars
  <2>5. Uncrossed(book') BY <2>3, <2>4
  <2> QED BY <2>1, <2>5 DEF Uncrossed
<1>3. I => NotCrossed BY DEF Uncrossed, NotCrossed
<1> QED BY <1>1, <1>2, <1>3, PTL DEF OrderSpec

-----------------------------------------------------------------------------
(* Fills are reported in the order in which the positions are reached *)

(* Positions of one side are reached one after the other.                  *)
LEMMA AheadIsAnOrder ==
  ASSUME NEW b, Good(b), NEW s \in Sides, NEW x \in Positions(b, s), NEW y \in Positions(b, s)
  PROVE  /\ PositionsAhead(b, s, x) \in SUBSET Positions(b, s)
         /\ x \notin PositionsAhead(b, s, x)
         /\ x # y => x \in PositionsAhead(b, s, y) \/ y \in PositionsAhead(b, s, x)
         /\ x \in PositionsAhead(b, s, y) => PositionsAhead(b, s, x) \subseteq PositionsAhead(b, s, y)
<1>1. \A z \in Positions(b, s) : z = <<z[1], z[2]>> /\ z[1] \in Int /\ z[2] \in Int
  <2> TAKE z \in Positions(b, s)
  <2>1. z = <<z[1], z[2]>> /\ z[1] \in Prices /\ z[2] \in 1..Len(b.levels[s][z[1]])
    BY PositionType
  <2>2. z[1] \in Int BY <2>1, PricesAssumption
  <2> QED BY <2>1, <2>2
<1>2. x[1] \in Int /\ x[2] \in Int /\ y[1] \in Int /\ y[2] \in Int
      /\ (x[1] = y[1] /\ x[2] = y[2] => x = y)
  BY <1>1
<1>3. \A z \in Positions(b, s) : \A w \in Positions(b, s) :
         z \in PositionsAhead(b, s, w) <=> Ahead(s, z[1], w[1]) \/ (z[1] = w[1] /\ z[2] < w[2])
  BY DEF PositionsAhead
<1>4. PositionsAhead(b, s, x) \in SUBSET Positions(b, s) BY DEF PositionsAhead
<1>5. x \notin PositionsAhead(b, s, x) BY <1>2, <1>3 DEF Ahead
<1>6. x # y => x \in PositionsAhead(b, s, y) \/ y \in PositionsAhead(b, s, x)
  BY <1>2, <1>3 DEF Ahead
<1>7. ASSUME x \in PositionsAhead(b, s, y), NEW z \in PositionsAhead(b, s, x)
      PROVE  z \in PositionsAhead(b, s, y)
  <2>1. z \in Positions(b, s) /\ z[1] \in Int /\ z[2] \in Int BY <1>1, <1>4
  <2> QED BY <1>2, <1>3, <1>7, <2>1 DEF Ahead
<1> QED BY <1>4, <1>5, <1>6, <1>7

(* Each position of P has a rank of its own.                               *)
LEMMA RanksDiffer ==
  ASSUME NEW b, Good(b), NEW s \in Sides, NEW P \in SUBSET Positions(b, s)
  PROVE  /\ IsFiniteSet(P) /\ Cardinality(P) \in Nat
         /\ \A x \in P : Rank(b, s, P, x) \in 0 .. (Cardinality(P) - 1)
         /\ \A x, y \in P : Rank(b, s, P, x) = Rank(b, s, P, y) => x = y
<1> DEFINE A(x) == P \cap PositionsAhead(b, s, x)
<1>1. IsFiniteSet(P) /\ Cardinality(P) \in Nat BY FinitePositions, FS_Subset, FS_CardinalityType
<1>2. ASSUME NEW x \in P
      PROVE  /\ A(x) \in SUBSET (P \ {x}) /\ IsFiniteSet(A(x)) /\ Cardinality(A(x)) \in Nat
             /\ Cardinality(A(x)) < Cardinality(P)
  <2>1. A(x) \in SUBSET P /\ x \notin A(x) BY AheadIsAnOrder
  <2> HIDE DEF A
  <2>2. IsFiniteSet(A(x)) /\ Cardinality(A(x)) \in Nat BY <1>1, <2>1, FS_Subset, FS_CardinalityType
  <2>3. Cardinality(A(x)) <= Cardinality(P) /\ (Cardinality(P) = Cardinality(A(x)) => P = A(x))
    BY <1>1, <2>1, FS_Subset
  <2>4. Cardinality(A(x)) # Cardinality(P) BY <2>1, <2>3
  <2> QED BY <1>1, <2>1, <2>2, <2>3, <2>4
<1>3. ASSUME NEW x \in P, NEW y \in P, x \in PositionsAhead(b, s, y)
      PROVE  Cardinality(A(x)) < Cardinality(A(y))
  <2>1. A(x) \in SUBSET A(y) /\ x \in A(y) /\ x \notin A(x) BY <1>3, AheadIsAnOrder
  <2>2. IsFiniteSet(A(y)) /\ Cardinality(A(y)) \in Nat /\ Cardinality(A(x)) \in Nat BY <1>2
  <2> HIDE DEF A
  <2>3. Cardinality(A(x)) <= Cardinality(A(y)) /\ (Cardinality(A(y)) = Cardinality(A(x)) => A(y) = A(x))
    BY <2>1, <2>2, FS_Subset
  <2> QED BY <2>1, <2>2, <2>3
<1>4. ASSUME NEW x \in P, NEW y \in P, Cardinality(A(x)) = Cardinality(A(y)) PROVE x = y
  <2>1. x # y => x \in PositionsAhead(b, s, y) \/ y \in PositionsAhead(b, s, x) BY AheadIsAnOrder
  <2>2. Cardinality(A(x)) \in Nat /\ Cardinality(A(y)) \in Nat BY <1>2
  <2>3. x \notin PositionsAhead(b, s, y)
    <3> SUFFICES ASSUME x \in PositionsAhead(b, s, y) PROVE FALSE OBVIOUS
    <3>1. Cardinality(A(x)) < Cardinality(A(y)) BY <1>3
    <3> QED BY <1>4, <2>2, <3>1
  <2>4. y \notin PositionsAhead(b, s, x)
    <3> SUFFICES ASSUME y \in PositionsAhead(b, s, x) PROVE FALSE OBVIOUS
    <3>1. Cardinality(A(y)) < Cardinality(A(x)) BY <1>3
    <3> QED BY <1>4, <2>2, <3>1
  <2> QED BY <2>1, <2>3, <2>4
<1> HIDE DEF A
<1>5. \A x \in P : Cardinality(A(x)) \in 0 .. (Cardinality(P) - 1) BY <1>1, <1>2
<1>6. \A x, y \in P : Cardinality(A(x)) = Cardinality(A(y)) => x = y BY <1>4
<1> QED BY <1>1, <1>5, <1>6 DEF Rank, A

(* Reached enumerates P, each position once.                               *)
LEMMA ReachedFacts ==
  ASSUME NEW b, Good(b), NEW s \in Sides, NEW P \in SUBSET Positions(b, s)
  PROVE  /\ \A i \in 1..Cardinality(P) :
               Reached(b, s, P, i) \in P /\ Rank(b, s, P, Reached(b, s, P, i)) = i - 1
         /\ \A i, j \in 1..Cardinality(P) : Reached(b, s, P, i) = Reached(b, s, P, j) => i = j
         /\ \A x \in P : \E i \in 1..Cardinality(P) : Reached(b, s, P, i) = x
<1> DEFINE n == Cardinality(P)
           T == 0 .. (n - 1)
           f == [x \in P |-> Rank(b, s, P, x)]
<1>1. IsFiniteSet(P) /\ n \in Nat BY RanksDiffer
<1>2. \A x \in P : Rank(b, s, P, x) \in T BY RanksDiffer
<1>3. \A x, y \in P : Rank(b, s, P, x) = Rank(b, s, P, y) => x = y BY RanksDiffer
<1>4. f \in Injection(P, T) BY <1>2, <1>3 DEF Injection, IsInjective
<1>5. IsFiniteSet(T) /\ Cardinality(T) = n
  <2>1. 0 \in Int /\ n - 1 \in Int BY <1>1
  <2>2. Cardinality(T) = IF 0 > n - 1 THEN 0 ELSE (n - 1) - 0 + 1 BY <2>1, FS_Interval
  <2> QED BY <1>1, <2>1, <2>2, FS_Interval
<1>6. f \in Surjection(P, T)
  <2> HIDE DEF f, T
  <2> QED BY <1>4, <1>5, FS_Injection
<1>7. \A k \in T : \E x \in P : Rank(b, s, P, x) = k BY <1>6 DEF Surjection
<1> HIDE DEF n
<1>8. ASSUME NEW i \in 1..n
      PROVE  Reached(b, s, P, i) \in P /\ Rank(b, s, P, Reached(b, s, P, i)) = i - 1
  <2>1. i - 1 \in T BY <1>1
  <2>2. \E x \in P : Rank(b, s, P, x) = i - 1 BY <1>7, <2>1
  <2> QED BY <2>2 DEF Reached, Rank
<1>9. ASSUME NEW i \in 1..n, NEW j \in 1..n, Reached(b, s, P, i) = Reached(b, s, P, j) PROVE i = j
  <2>1. Rank(b, s, P, Reached(b, s, P, i)) = i - 1 BY <1>8
  <2>2. Rank(b, s, P, Reached(b, s, P, j)) = j - 1 BY <1>8
  <2> QED BY <1>1, <1>9, <2>1, <2>2
<1>10. ASSUME NEW x \in P PROVE \E i \in 1..n : Reached(b, s, P, i) = x
  <2>1. Rank(b, s, P, x) \in T BY <1>2
  <2>2. PICK i \in 1..n : i - 1 = Rank(b, s, P, x)
    <3>1. Rank(b, s, P, x) + 1 \in 1..n /\ (Rank(b, s, P, x) + 1) - 1 = Rank(b, s, P, x) BY <1>1, <2>1
    <3> QED BY <3>1
  <2>3. Reached(b, s, P, i) \in P /\ Rank(b, s, P, Reached(b, s, P, i)) = i - 1 BY <1>8
  <2> QED BY <1>3, <2>2, <2>3
<1>11. \A i \in 1..n : Reached(b, s, P, i) \in P /\ Rank(b, s, P, Reached(b, s, P, i)) = i - 1 BY <1>8
<1>12. \A i, j \in 1..n : Reached(b, s, P, i) = Reached(b, s, P, j) => i = j BY <1>9
<1>13. \A x \in P : \E i \in 1..n : Reached(b, s, P, i) = x BY <1>10
<1> QED BY <1>11, <1>12, <1>13 DEF n

(* A position is reached only when all that is ahead of it is used up.     *)
LEMMA AheadIsUsedUp ==
  ASSUME NEW b, Good(b), NEW ag, ag.side \in Sides, ag.qty \in Nat, NEW limit \in Nat,
         NEW y \in Positions(b, Opposite(ag.side)), Traded(b, ag, limit, y) > 0,
         NEW x \in PositionsAhead(b, Opposite(ag.side), y)
  PROVE  UsedUp(b, ag, limit, x)
<1> DEFINE s == Opposite(ag.side)
           qx == OrderAt(b, s, x).qty
           qy == OrderAt(b, s, y).qty
           ax == Quantity(b, s, PositionsAhead(b, s, x))
           ay == Quantity(b, s, PositionsAhead(b, s, y))
<1>1. s \in Sides BY SidesFacts
<1>2. x \in Positions(b, s) /\ y \in Positions(b, s) BY DEF PositionsAhead
<1>3. qx \in Lots /\ qy \in Lots BY <1>1, <1>2, PositionType
<1>4. /\ PositionsAhead(b, s, x) \in SUBSET Positions(b, s)
      /\ PositionsAhead(b, s, y) \in SUBSET Positions(b, s)
      /\ x \notin PositionsAhead(b, s, x)
      /\ PositionsAhead(b, s, x) \subseteq PositionsAhead(b, s, y)
  BY <1>1, <1>2, AheadIsAnOrder
<1>5. ax \in Nat /\ ay \in Nat BY <1>1, <1>4, QuantityType
<1>6. ax + qx <= ay
  <2>1. PositionsAhead(b, s, x) \in SUBSET PositionsAhead(b, s, y)
        /\ x \in PositionsAhead(b, s, y) \ PositionsAhead(b, s, x)
    BY <1>4
  <2> QED BY <1>1, <1>4, <2>1, QuantityGrows
<1>7. x[1] \in Nat /\ y[1] \in Nat
  <2>1. x[1] \in Prices /\ y[1] \in Prices BY <1>1, <1>2, PositionType
  <2> QED BY <2>1, PricesAssumption
<1>8. Ahead(s, x[1], y[1]) \/ x[1] = y[1] BY DEF PositionsAhead
<1>9. Crosses(ag.side, y[1], limit) => Crosses(ag.side, x[1], limit)
  <2>1. ag.side = "buy" \/ ag.side = "sell" BY SidesFacts
  <2> QED BY <1>7, <1>8, <2>1 DEF Ahead, Crosses, Opposite
<1> HIDE DEF s, qx, qy, ax, ay
<1>10. Crosses(ag.side, y[1], limit) /\ ay < ag.qty
  <2>1. Traded(b, ag, limit, y) =
          IF ~Crosses(ag.side, y[1], limit) \/ ay >= ag.qty THEN 0
          ELSE IF ag.qty - ay < qy THEN ag.qty - ay ELSE qy
    BY DEF Traded, s, ay, qy
  <2> QED BY <1>5, <2>1
<1>11. Traded(b, ag, limit, x) = qx
  <2>1. Traded(b, ag, limit, x) =
          IF ~Crosses(ag.side, x[1], limit) \/ ax >= ag.qty THEN 0
          ELSE IF ag.qty - ax < qx THEN ag.qty - ax ELSE qx
    BY DEF Traded, s, ax, qx
  <2> QED BY <1>3, <1>5, <1>6, <1>9, <1>10, <2>1 DEF Lots
<1> QED BY <1>11 DEF UsedUp, s, qx

(* What an order uses up leaves the index.                                 *)
LEMMA UsedUpLeaves ==
  ASSUME NEW b, NEW ag, NEW limit, NEW x \in Positions(b, Opposite(ag.side)), UsedUp(b, ag, limit, x)
  PROVE  OrderAt(b, Opposite(ag.side), x).id \notin DOMAIN Match(b, ag, limit).orders
BY DEF Match

(* The i-th execution is of the i-th position reached.                     *)
LEMMA MatchEventsFacts ==
  ASSUME NEW b, Good(b), NEW ag, ag.side \in Sides, ag.qty \in Nat, NEW limit
  PROVE  LET rest == Opposite(ag.side)
             fills == Fills(b, ag, limit)
             found == MatchEvents(b, ag, limit)
         IN  /\ fills \in SUBSET Positions(b, rest)
             /\ IsFiniteSet(fills) /\ Cardinality(fills) \in Nat
             /\ DOMAIN found = 1..Cardinality(fills) /\ Len(found) = Cardinality(fills)
             /\ \E S : found \in Seq(S)
             /\ \A i \in DOMAIN found :
                  LET pos == Reached(b, rest, fills, i)
                  IN  /\ pos \in fills /\ Traded(b, ag, limit, pos) > 0
                      /\ found[i] = ExecuteEvent(OrderAt(b, rest, pos), Traded(b, ag, limit, pos))
<1> DEFINE rest == Opposite(ag.side)
           fills == Fills(b, ag, limit)
           found == MatchEvents(b, ag, limit)
           Event(i) == ExecuteEvent(OrderAt(b, rest, Reached(b, rest, fills, i)),
                                    Traded(b, ag, limit, Reached(b, rest, fills, i)))
<1>1. rest \in Sides BY SidesFacts
<1>2. fills \in SUBSET Positions(b, rest) /\ \A pos \in fills : Traded(b, ag, limit, pos) > 0 BY DEF Fills
<1>3. found = [i \in 1..Cardinality(fills) |-> Event(i)] BY DEF MatchEvents
<1> HIDE DEF rest, fills, found
<1>4. IsFiniteSet(fills) /\ Cardinality(fills) \in Nat BY <1>1, <1>2, RanksDiffer
<1>5. \A i \in 1..Cardinality(fills) : Reached(b, rest, fills, i) \in fills BY <1>1, <1>2, ReachedFacts
<1> HIDE DEF Event
<1>6. DOMAIN found = 1..Cardinality(fills) /\ Len(found) = Cardinality(fills)
      /\ \A i \in 1..Cardinality(fills) : found[i] = Event(i)
  BY <1>3, <1>4
<1>7. \E S : found \in Seq(S)
  <2> DEFINE S == {found[i] : i \in DOMAIN found}
  <2>1. \A i \in 1..Cardinality(fills) : Event(i) \in S BY <1>6
  <2> HIDE DEF S
  <2>2. found \in Seq(S) BY <1>3, <1>4, <2>1
  <2> QED BY <2>2
<1> QED BY <1>2, <1>4, <1>5, <1>6, <1>7 DEF Event, rest, fills, found

(* The orders ahead of an execution leave the index.                       *)
LEMMA MatchTradesInOrder ==
  ASSUME NEW b, Good(b), NEW ag, ag.side \in Sides, ag.qty \in Nat, NEW limit \in Nat,
         NEW i \in DOMAIN MatchEvents(b, ag, limit), NEW id \in DOMAIN b.orders
  PROVE  LET hit == MatchEvents(b, ag, limit)[i].before
             o == b.orders[id]
             queue == b.levels[hit.side][hit.price]
         IN  /\ hit.side = Opposite(ag.side)
             /\ /\ o.side = hit.side
                /\ \/ Ahead(hit.side, o.price, hit.price)
                   \/ o.price = hit.price /\ IndexIn(queue, id) < IndexIn(queue, hit.id)
                => id \notin DOMAIN Match(b, ag, limit).orders
<1> DEFINE s == Opposite(ag.side)
           y == Reached(b, s, Fills(b, ag, limit), i)
           hit == OrderAt(b, s, y)
           o == b.orders[id]
           queue == b.levels[s][hit.price]
<1>1. s \in Sides BY SidesFacts
<1>2. /\ y \in Positions(b, s) /\ Traded(b, ag, limit, y) > 0
      /\ MatchEvents(b, ag, limit)[i].before = hit
  <2>1. /\ y \in Fills(b, ag, limit) /\ Traded(b, ag, limit, y) > 0
        /\ Fills(b, ag, limit) \in SUBSET Positions(b, s)
        /\ MatchEvents(b, ag, limit)[i] = ExecuteEvent(hit, Traded(b, ag, limit, y))
    BY MatchEventsFacts
  <2>2. ExecuteEvent(hit, Traded(b, ag, limit, y)).before = hit BY DEF ExecuteEvent
  <2> QED BY <2>1, <2>2
<1> HIDE DEF y
<1>3. /\ hit.side = s /\ hit.price = y[1] /\ y = <<y[1], y[2]>>
      /\ y[1] \in DOMAIN b.levels[s] /\ y[2] \in 1..Len(b.levels[s][y[1]])
      /\ hit = b.levels[s][y[1]][y[2]]
  BY <1>1, <1>2, PositionType
<1>4. ASSUME o.side = s, Ahead(s, o.price, hit.price) \/ (o.price = hit.price /\ IndexIn(queue, id) < IndexIn(queue, hit.id))
      PROVE  id \notin DOMAIN Match(b, ag, limit).orders
  <2>1. PICK x \in Positions(b, s) : OrderAt(b, s, x) = o /\ o.id = id /\ x[1] = o.price
    BY <1>4, OrderHasPosition
  <2>2. /\ x[1] \in DOMAIN b.levels[s] /\ x[2] \in 1..Len(b.levels[s][x[1]])
        /\ OrderAt(b, s, x) = b.levels[s][x[1]][x[2]]
    BY <1>1, PositionType
  <2>3. o.price = hit.price => IndexIn(queue, id) = x[2] /\ IndexIn(queue, hit.id) = y[2]
    <3> SUFFICES ASSUME o.price = hit.price
                 PROVE  IndexIn(queue, id) = x[2] /\ IndexIn(queue, hit.id) = y[2]
      OBVIOUS
    <3>1. queue = b.levels[s][x[1]] /\ x[1] = y[1] BY <1>3, <2>1
    <3>2. IsBook(b) BY DEF Good
    <3>3. queue \in Seq(Order) BY <1>1, <2>2, <3>1, <3>2, BookType
    <3>4. \A k, l \in 1..Len(queue) : queue[k].id = queue[l].id => k = l
      BY <1>1, <2>2, <3>1 DEF Good, QueuedOnce
    <3>5. x[2] \in 1..Len(queue) /\ y[2] \in 1..Len(queue) /\ queue[x[2]].id = id /\ queue[y[2]].id = hit.id
      BY <1>3, <2>1, <2>2, <3>1
    <3> HIDE DEF queue, hit, o
    <3>6. IndexIn(queue, queue[x[2]].id) = x[2] BY <3>3, <3>4, <3>5, WithoutFacts
    <3>7. IndexIn(queue, queue[y[2]].id) = y[2] BY <3>3, <3>4, <3>5, WithoutFacts
    <3> QED BY <3>5, <3>6, <3>7
  <2>4. x \in PositionsAhead(b, s, y) BY <1>3, <1>4, <2>1, <2>3 DEF PositionsAhead
  <2>5. UsedUp(b, ag, limit, x) BY <1>2, <2>4, AheadIsUsedUp
  <2>6. OrderAt(b, s, x).id \notin DOMAIN Match(b, ag, limit).orders BY <2>5, UsedUpLeaves
  <2> QED BY <2>1, <2>6
<1> QED BY <1>2, <1>3, <1>4

(* Appending puts the order into the index.                                *)
LEMMA AppendedOrders ==
  ASSUME NEW b, IsBook(b), NEW o, o.side \in Sides
  PROVE  Appended(b, o).orders = PutOrder(b.orders, o)
BY DEF Appended, SetQueue

(* Only matching reports executions: not cancel,                           *)
LEMMA CancelQuiet ==
  ASSUME NEW b, NEW id
  PROVE  Quiet(CancelEvents(b, id))
BY DEF Quiet, CancelEvents, CancelEvent

(* modify                                                                  *)
LEMMA ModifyQuiet ==
  ASSUME NEW b, NEW r
  PROVE  Quiet(ModifyEvents(b, r))
BY DEF Quiet, ModifyEvents, ModifyEvent

(* removeLevel                                                             *)
LEMMA RemoveLevelQuiet ==
  ASSUME NEW b, NEW s, NEW p
  PROVE  Quiet(RemoveLevelEvents(b, s, p))
BY DEF Quiet, RemoveLevelEvents, CancelEvent

(* updateAgentLevel, ensureLevelMinimum                                    *)
LEMMA UpdateAgentLevelQuiet ==
  ASSUME NEW b, NEW o
  PROVE  Quiet(UpdateAgentLevelEvents(b, o))
<1> DEFINE cancels == CancelEvents(b, o.id)
           added == <<AddEvent(o)>>
           changed == <<ModifyEvent(b.orders[o.id], o, TRUE)>>
<1>1. Quiet(<<>>) /\ Quiet(added) /\ Quiet(changed) BY DEF Quiet, AddEvent, ModifyEvent
<1>2. Quiet(cancels) BY CancelQuiet
<1> HIDE DEF cancels, added, changed
<1>3. UpdateAgentLevelEvents(b, o) =
        CASE o.qty <= 0 -> cancels
          [] o.qty > 0 /\ ~Known(b, o.id) -> added
          [] o.qty > 0 /\ Known(b, o.id) /\ b.orders[o.id] # o -> changed
          [] OTHER -> <<>>
  BY DEF UpdateAgentLevelEvents, cancels, added, changed
<1>4. UpdateAgentLevelEvents(b, o) \in {cancels, added, changed, <<>>} BY <1>3
<1> QED BY <1>1, <1>2, <1>4

(* updateLevel                                                             *)
LEMMA UpdateLevelQuiet ==
  ASSUME NEW b, Good(b), NEW s \in Sides, NEW p \in Prices, NEW q, NEW a
  PROVE  Quiet(UpdateLevelEvents(b, s, p, q, a))
<1> DEFINE o == LevelOrder(s, p, q, a)
           queue == QueueAt(b, s, p)
           others == Without(queue, o.id)
           replaced == queue[IndexIn(queue, o.id)]
           cancels == [i \in DOMAIN others |-> CancelEvent(others[i])]
<1>1. CASE q <= 0 BY <1>1, RemoveLevelQuiet DEF UpdateLevelEvents
<1>2. CASE ~(q <= 0)
  <2>1. PICK last \in {<<>>, <<AddEvent(o)>>, <<ModifyEvent(replaced, o, TRUE)>>} :
           UpdateLevelEvents(b, s, p, q, a) = cancels \o last
    BY <1>2 DEF UpdateLevelEvents
  <2>2. queue \in Seq(Order) /\ \A i, j \in 1..Len(queue) : queue[i].id = queue[j].id => i = j
    <3>1. IsBook(b) BY DEF Good
    <3>2. CASE HasLevel(b, s, p)
      <4>1. p \in DOMAIN b.levels[s] /\ queue = b.levels[s][p] BY <3>2 DEF HasLevel, QueueAt
      <4> HIDE DEF queue
      <4> QED BY <3>1, <4>1, BookType DEF Good, QueuedOnce
    <3>3. CASE ~HasLevel(b, s, p) BY <3>3 DEF QueueAt
    <3> QED BY <3>2, <3>3
  <2> HIDE DEF queue, o
  <2>3. \E n \in Nat : DOMAIN others = 1..n
    <3>1. CASE \E k \in DOMAIN queue : queue[k].id = o.id
      <4>1. PICK k \in DOMAIN queue : queue[k].id = o.id BY <3>1
      <4>2. k \in 1..Len(queue) /\ Len(queue) - 1 \in Nat BY <2>2, <4>1
      <4>3. Without(queue, queue[k].id) \in Seq(Order) BY <2>2, <4>2, WithoutFacts
      <4>4. DOMAIN Without(queue, queue[k].id) = 1..Len(Without(queue, queue[k].id))
            /\ Len(Without(queue, queue[k].id)) \in Nat
        BY <4>3
      <4> QED BY <4>1, <4>4
    <3>2. CASE ~\E k \in DOMAIN queue : queue[k].id = o.id
      <4>1. others = queue BY <3>2 DEF Without
      <4> HIDE DEF others
      <4> QED BY <2>2, <4>1
    <3> QED BY <3>1, <3>2
  <2>4. PICK n \in Nat : DOMAIN others = 1..n BY <2>3
  <2> HIDE DEF others, replaced
  <2>5. cancels = [i \in 1..n |-> CancelEvent(others[i])] BY <2>4
  <2>6. cancels \in Seq({CancelEvent(others[i]) : i \in 1..n}) /\ Len(cancels) = n
    <3> DEFINE S == {CancelEvent(others[i]) : i \in 1..n}
    <3>1. \A i \in 1..n : CancelEvent(others[i]) \in S OBVIOUS
    <3> HIDE DEF S, cancels
    <3>2. cancels \in Seq(S) /\ Len(cancels) = n BY <2>4, <2>5, <3>1
    <3> QED BY <3>2 DEF S
  <2>7. \A i \in 1..n : cancels[i].type = "cancel" BY <2>5 DEF CancelEvent
  <2> HIDE DEF cancels
  <2>8. \A i \in 1..Len(last) : last[i].type # "execute" BY <2>1 DEF AddEvent, ModifyEvent
  <2>9. Len(last) \in Nat /\ \E S : last \in Seq(S)
    <3>1. PICK x, y : last \in {<<>>, <<x>>, <<y>>} BY <2>1
    <3>2. CASE last = <<>> BY <3>2
    <3>3. CASE last = <<x>>
      <4>1. <<x>> \in Seq({x}) /\ Len(<<x>>) = 1 OBVIOUS
      <4> QED BY <3>3, <4>1
    <3>4. CASE last = <<y>>
      <4>1. <<y>> \in Seq({y}) /\ Len(<<y>>) = 1 OBVIOUS
      <4> QED BY <3>4, <4>1
    <3> QED BY <3>1, <3>2, <3>3, <3>4
  <2>10. /\ DOMAIN (cancels \o last) = 1..(n + Len(last))
         /\ \A i \in 1..(n + Len(last)) :
              (cancels \o last)[i] = IF i <= n THEN cancels[i] ELSE last[i - n]
    BY <2>6, <2>9
  <2>11. ASSUME NEW i \in 1..(n + Len(last)) PROVE (cancels \o last)[i].type # "execute"
    <3>1. CASE i <= n
      <4>1. i \in 1..n /\ (cancels \o last)[i] = cancels[i] BY <2>10, <3>1
      <4> QED BY <2>7, <4>1
    <3>2. CASE ~(i <= n)
      <4>1. i - n \in 1..Len(last) /\ (cancels \o last)[i] = last[i - n] BY <2>4, <2>9, <2>10, <3>2
      <4> QED BY <2>8, <4>1
    <3> QED BY <3>1, <3>2
  <2> QED BY <2>1, <2>10, <2>11 DEF Quiet
<1> QED BY <1>1, <1>2

(* A step that reports an execution matches an order of a client.          *)
LEMMA ExecutingSteps ==
  ASSUME Good(book), Next
  PROVE  Quiet(events') \/ \E o \in ClientOrders, limit \in Nat : Executed(o, limit)
<1>1. ASSUME NEW o \in ClientOrders, SubmitLimit(o) PROVE o.price \in Nat /\ Executed(o, o.price)
  <2>1. o.price \in Nat BY PricesAssumption DEF ClientOrders
  <2>2. [o EXCEPT !.qty = @ - Filled(book, o, o.price)] = [o EXCEPT !.qty = o.qty - Filled(book, o, o.price)]
    OBVIOUS
  <2> QED BY <1>1, <2>1, <2>2 DEF SubmitLimit, Executed, AddOrder, AddEvents
<1>2. ASSUME NEW o \in ClientOrders, SubmitMarket(o) PROVE NoLimit \in Nat /\ Executed(o, NoLimit)
  BY <1>2 DEF SubmitMarket, Executed, NoLimit
<1>3. ASSUME NEW id, SubmitCancel(id) PROVE Quiet(events') BY <1>3, CancelQuiet DEF SubmitCancel
<1>4. ASSUME NEW r, SubmitModify(r) PROVE Quiet(events') BY <1>4, ModifyQuiet DEF SubmitModify
<1>5. ASSUME NEW o, SetAgentLevel(o) PROVE Quiet(events') BY <1>5, UpdateAgentLevelQuiet DEF SetAgentLevel
<1>6. ASSUME NEW s \in Sides, NEW p \in Prices, NEW q, NEW a, SetLevel(s, p, q, a) PROVE Quiet(events')
  BY <1>6, UpdateLevelQuiet DEF SetLevel
<1>7. ASSUME NEW s, NEW p, NEW q, NEW a, RaiseLevel(s, p, q, a) PROVE Quiet(events')
  BY <1>7, UpdateAgentLevelQuiet DEF RaiseLevel, EnsureLevelMinimumEvents
<1>8. ASSUME NEW s, NEW p, DropLevel(s, p) PROVE Quiet(events') BY <1>8, RemoveLevelQuiet DEF DropLevel
<1>9. CASE OrderNext BY <1>1, <1>2, <1>3, <1>9 DEF OrderNext
<1>10. CASE ModifyNext BY <1>4, <1>10 DEF ModifyNext
<1>11. CASE LevelNext BY <1>5, <1>6, <1>7, <1>8, <1>11 DEF LevelNext
<1> QED BY <1>9, <1>10, <1>11 DEF Next

(* Where the executions of such a step are among its events.               *)
LEMMA ExecutedEvents ==
  ASSUME Good(book), NEW o, NEW limit, Executed(o, limit)
  PROVE  LET found == MatchEvents(book, o, limit)
         IN  /\ o.side \in Sides /\ o.qty \in Nat /\ limit \in Nat
             /\ Executions = DOMAIN found
             /\ DOMAIN found = 1..Len(found) /\ Len(found) \in Nat
             /\ \A i \in DOMAIN found : events'[i] = found[i]
<1> DEFINE found == MatchEvents(book, o, limit)
           rest == [o EXCEPT !.qty = o.qty - Filled(book, o, limit)]
           n == Cardinality(Fills(book, o, limit))
<1>1. o.side \in Sides /\ o.qty \in Nat /\ limit \in Nat
  BY InputsAssumption DEF Executed, ClientOrders, Lots
<1>2. n \in Nat /\ DOMAIN found = 1..n /\ Len(found) = n /\ \E S : found \in Seq(S)
  BY <1>1, MatchEventsFacts
<1>3. \A i \in DOMAIN found : found[i].type = "execute"
  <2> TAKE i \in DOMAIN found
  <2> DEFINE pos == Reached(book, Opposite(o.side), Fills(book, o, limit), i)
             before == OrderAt(book, Opposite(o.side), pos)
             traded == Traded(book, o, limit, pos)
  <2>1. found[i] = ExecuteEvent(before, traded) BY <1>1, MatchEventsFacts
  <2>2. ExecuteEvent(before, traded).type = "execute" BY DEF ExecuteEvent
  <2> QED BY <2>1, <2>2
<1> HIDE DEF found, rest, n
<1>4. CASE events' = found BY <1>1, <1>2, <1>3, <1>4 DEF Executions, found
<1>5. CASE events' = found \o <<AddEvent(rest)>>
  <2>1. /\ DOMAIN events' = 1..(n + 1)
        /\ \A i \in 1..n : events'[i] = found[i]
        /\ events'[n + 1] = AddEvent(rest)
    BY <1>2, <1>5
  <2>2. events'[n + 1].type # "execute" BY <2>1 DEF AddEvent
  <2>3. ASSUME NEW i \in 1..(n + 1), events'[i].type = "execute" PROVE i \in 1..n BY <1>2, <2>2, <2>3
  <2>4. \A i \in 1..n : i \in 1..(n + 1) BY <1>2
  <2>5. Executions = 1..n BY <1>2, <1>3, <2>1, <2>3, <2>4 DEF Executions
  <2> QED BY <1>1, <1>2, <2>1, <2>5 DEF found
<1> QED BY <1>4, <1>5 DEF Executed, found, rest

(* An order is traded only when every order ahead of it, at a better price *)
(* or earlier in its queue, is traded away in the same step.               *)
THEOREM TradesInOrder == Spec => NoTradeThrough
<1> DEFINE InOrder(i) ==
             LET hit == events'[i].before
             IN  \A id \in DOMAIN book.orders :
                   LET o == book.orders[id]
                       sameQueue == book.levels[hit.side][hit.price]
                   IN  /\ o.side = hit.side
                       /\ \/ Ahead(hit.side, o.price, hit.price)
                          \/ /\ o.price = hit.price
                             /\ IndexIn(sameQueue, id) < IndexIn(sameQueue, hit.id)
                       => id \notin DOMAIN book'.orders \/ book'.orders[id].side # hit.side
<1>1. IInv /\ [Next]_vars => [\A i \in Executions : InOrder(i)]_vars
  <2> SUFFICES ASSUME IInv, Next, NEW i \in Executions PROVE InOrder(i) OBVIOUS
  <2>1. Good(book) BY DEF IInv
  <2>2. ~Quiet(events') BY DEF Quiet, Executions
  <2>3. PICK o \in ClientOrders, limit \in Nat : Executed(o, limit) BY <2>1, <2>2, ExecutingSteps
  <2> DEFINE matched == Match(book, o, limit)
             rest == [o EXCEPT !.qty = o.qty - Filled(book, o, limit)]
             hit == events'[i].before
  <2>4. /\ o.side \in Sides /\ o.qty \in Nat /\ i \in DOMAIN MatchEvents(book, o, limit)
        /\ events'[i] = MatchEvents(book, o, limit)[i]
    BY <2>1, <2>3, ExecutedEvents
  <2>5. \/ book' = matched
        \/ book' = Appended(matched, rest)
    BY <2>3 DEF Executed
  <2>6. ASSUME NEW id \in DOMAIN book.orders,
               book.orders[id].side = hit.side,
               \/ Ahead(hit.side, book.orders[id].price, hit.price)
               \/ /\ book.orders[id].price = hit.price
                  /\ IndexIn(book.levels[hit.side][hit.price], id) < IndexIn(book.levels[hit.side][hit.price], hit.id)
        PROVE  id \notin DOMAIN book'.orders \/ book'.orders[id].side # hit.side
    <3>1. hit.side = Opposite(o.side) /\ id \notin DOMAIN matched.orders
      <4> DEFINE e == MatchEvents(book, o, limit)[i]
      <4>1. LET first == e.before
                queue == book.levels[first.side][first.price]
            IN  /\ first.side = Opposite(o.side)
                /\ /\ book.orders[id].side = first.side
                   /\ \/ Ahead(first.side, book.orders[id].price, first.price)
                      \/ /\ book.orders[id].price = first.price
                         /\ IndexIn(queue, id) < IndexIn(queue, first.id)
                   => id \notin DOMAIN matched.orders
        BY <2>1, <2>3, <2>4, MatchTradesInOrder
      <4>2. hit = e.before BY <2>4
      <4> HIDE DEF e, hit, matched
      <4> QED BY <2>6, <4>1, <4>2
    <3>2. CASE book' = matched BY <3>1, <3>2
    <3>3. CASE book' = Appended(matched, rest)
      <4>1. rest.side = o.side BY <2>3 DEF ClientOrders
      <4>2. IsBook(matched) BY <2>1, <2>4, MatchGood DEF Good
      <4> HIDE DEF matched, rest
      <4>3. book'.orders = PutOrder(matched.orders, rest)
        <5>1. rest.side \in Sides BY <2>4, <4>1
        <5>2. Appended(matched, rest).orders = PutOrder(matched.orders, rest) BY <4>2, <5>1, AppendedOrders
        <5> QED BY <3>3, <5>2
      <4>4. ASSUME id \in DOMAIN book'.orders PROVE book'.orders[id] = rest
        BY <3>1, <4>3, <4>4 DEF PutOrder
      <4> QED BY <2>4, <3>1, <4>1, <4>4, SidesFacts
    <3> QED BY <2>5, <3>2, <3>3
  <2> QED BY <2>6
<1> QED BY <1>1, GoodAlways, PTL DEF Spec, NoTradeThrough

-----------------------------------------------------------------------------
(* A trade neither makes nor loses lots *)

(* Both structures of the book hold the same quantity.                     *)
LEMMA QuantityById ==
  ASSUME NEW b, Good(b), NEW s \in Sides
  PROVE  /\ IsFiniteSet(LotsOf(b, s))
         /\ SideQuantity(b, s) \in Nat
         /\ Cardinality(LotsOf(b, s)) = SideQuantity(b, s)
<1> DEFINE P == Positions(b, s)
           L == LotsAt(b, s, P)
           M == LotsOf(b, s)
           f == [l \in L |-> <<OrderAt(b, s, l[1]).id, l[2]>>]
<1>1. IsFiniteSet(L) /\ Cardinality(L) \in Nat BY QuantityType DEF Quantity
<1>2. \A l : l \in L <=> \E pos \in P : \E n \in 1..OrderAt(b, s, pos).qty : l = <<pos, n>>
  BY DEF LotsAt
<1>3. \A m : m \in M <=> \E id \in IdsOf(b, s) : \E n \in 1..b.orders[id].qty : m = <<id, n>>
  BY DEF LotsOf
<1>4. \A pos \in P : OrderAt(b, s, pos).id \in IdsOf(b, s) /\ b.orders[OrderAt(b, s, pos).id] = OrderAt(b, s, pos)
  BY PositionType DEF IdsOf
<1>5. \A id \in IdsOf(b, s) : \E pos \in P : OrderAt(b, s, pos) = b.orders[id] /\ OrderAt(b, s, pos).id = id
  BY OrderHasPosition DEF IdsOf
<1>6. \A x, y \in P : OrderAt(b, s, x).id = OrderAt(b, s, y).id => x = y BY OnePosition
<1> HIDE DEF P, L, M
<1>7. ASSUME NEW l \in L PROVE f[l] \in M
  <2>1. PICK pos \in P : \E n \in 1..OrderAt(b, s, pos).qty : l = <<pos, n>> BY <1>2
  <2>2. PICK n \in 1..OrderAt(b, s, pos).qty : l = <<pos, n>> BY <2>1
  <2>3. f[l] = <<OrderAt(b, s, pos).id, n>> BY <2>2
  <2> QED BY <1>3, <1>4, <2>2, <2>3
<1>8. ASSUME NEW l \in L, NEW k \in L, f[l] = f[k] PROVE l = k
  <2>1. PICK x \in P : \E i : l = <<x, i>> BY <1>2
  <2>2. PICK y \in P : \E j : k = <<y, j>> BY <1>2
  <2>4. PICK i : l = <<x, i>> BY <2>1
  <2>5. PICK j : k = <<y, j>> BY <2>2
  <2>3. f[l] = <<OrderAt(b, s, x).id, i>> /\ f[k] = <<OrderAt(b, s, y).id, j>> BY <2>4, <2>5
  <2> HIDE DEF f
  <2> QED BY <1>6, <1>8, <2>1, <2>2, <2>3, <2>4, <2>5
<1>9. ASSUME NEW m \in M PROVE \E l \in L : f[l] = m
  <2>1. PICK id \in IdsOf(b, s) : \E n \in 1..b.orders[id].qty : m = <<id, n>> BY <1>3
  <2>2. PICK n \in 1..b.orders[id].qty : m = <<id, n>> BY <2>1
  <2>3. PICK pos \in P : OrderAt(b, s, pos) = b.orders[id] /\ OrderAt(b, s, pos).id = id BY <1>5
  <2>4. <<pos, n>> \in L BY <1>2, <2>2, <2>3
  <2>5. f[<<pos, n>>] = <<id, n>> BY <2>3, <2>4
  <2> QED BY <2>2, <2>4, <2>5
<1>10. f \in Surjection(L, M) BY <1>7, <1>9 DEF Surjection
<1>11. f \in Injection(L, M) BY <1>7, <1>8 DEF Injection, IsInjective
<1> HIDE DEF f
<1>12. IsFiniteSet(M) /\ Cardinality(M) = Cardinality(L) BY <1>1, <1>10, <1>11, FS_Surjection
<1> QED BY <1>1, <1>12 DEF SideQuantity, Quantity, L, M, P

(* What matching leaves of each order.                                     *)
LEMMA MatchOrders ==
  ASSUME NEW b, Good(b), NEW ag, ag.side \in Sides, ag.qty \in Nat, NEW limit
  PROVE  LET s == Opposite(ag.side)
             c == Match(b, ag, limit)
         IN  /\ DOMAIN c.orders \subseteq DOMAIN b.orders
             /\ \A pos \in Positions(b, s) :
                  LET o == OrderAt(b, s, pos)
                      left == o.qty - Traded(b, ag, limit, pos)
                  IN  /\ o.id \in DOMAIN c.orders <=> left > 0
                      /\ left > 0 => c.orders[o.id] = [o EXCEPT !.qty = left]
             /\ \A id \in DOMAIN b.orders : b.orders[id].side # s =>
                  id \in DOMAIN c.orders /\ c.orders[id] = b.orders[id]
<1> DEFINE s == Opposite(ag.side)
           c == Match(b, ag, limit)
           Used(pos) == UsedUp(b, ag, limit, pos)
           Fill(pos) == AfterFill(b, ag, limit, pos)
           gone == {OrderAt(b, s, pos).id : pos \in {x \in Positions(b, s) : Used(x)}}
<1>1. s \in Sides BY SidesFacts
<1>2. c.orders = [id \in DOMAIN b.orders \ gone |->
                    IF b.orders[id].side = s THEN Fill(PositionOf(b, s, id)) ELSE b.orders[id]]
  BY DEF Match
<1> HIDE DEF c
<1>3. \A pos \in Positions(b, s) : OrderAt(b, s, pos).id \in gone <=> Used(pos)
  <2> HIDE DEF Used, s
  <2> TAKE pos \in Positions(b, s)
  <2>1. ASSUME OrderAt(b, s, pos).id \in gone PROVE Used(pos)
    <3>1. PICK x \in Positions(b, s) : Used(x) /\ OrderAt(b, s, x).id = OrderAt(b, s, pos).id
      BY <2>1
    <3> QED BY <1>1, <3>1, OnePosition
  <2> QED BY <2>1
<1>4. \A id \in DOMAIN b.orders : b.orders[id].side # s => id \notin gone
  <2> TAKE id \in DOMAIN b.orders
  <2> HAVE b.orders[id].side # s
  <2> SUFFICES ASSUME NEW pos \in Positions(b, s), OrderAt(b, s, pos).id = id PROVE FALSE
    OBVIOUS
  <2> QED BY <1>1, PositionType
<1>5. ASSUME NEW pos \in Positions(b, s)
      PROVE  LET o == OrderAt(b, s, pos)
                 left == o.qty - Traded(b, ag, limit, pos)
             IN  /\ o.id \in DOMAIN c.orders <=> left > 0
                 /\ left > 0 => c.orders[o.id] = [o EXCEPT !.qty = left]
  <2> DEFINE o == OrderAt(b, s, pos)
             t == Traded(b, ag, limit, pos)
  <2>1. o.side = s /\ o.id \in DOMAIN b.orders /\ b.orders[o.id] = o /\ o.qty \in Lots
    BY <1>1, PositionType
  <2>2. t \in 0..o.qty BY TradedType
  <2>3. Used(pos) <=> t = o.qty BY DEF UsedUp
  <2>4. Fill(pos) = [o EXCEPT !.qty = o.qty - t] BY DEF AfterFill
  <2>5. PositionOf(b, s, o.id) = pos BY <1>1, PositionOfOrder
  <2>6. o.id \in gone <=> Used(pos) BY <1>3
  <2> HIDE DEF gone, Used, Fill, s, o, t
  <2>7. o.qty - t > 0 <=> ~Used(pos) BY <2>1, <2>2, <2>3 DEF Lots
  <2>8. o.id \in DOMAIN c.orders <=> ~Used(pos) BY <1>2, <2>1, <2>6
  <2>9. ~Used(pos) => c.orders[o.id] = Fill(pos) BY <1>2, <2>1, <2>5, <2>6
  <2>10. o.id \in DOMAIN c.orders <=> o.qty - t > 0 BY <2>7, <2>8
  <2>11. o.qty - t > 0 => c.orders[o.id] = [o EXCEPT !.qty = o.qty - t] BY <2>4, <2>7, <2>9
  <2> QED BY <2>10, <2>11 DEF o, t
<1> HIDE DEF gone, s
<1>6. DOMAIN c.orders \subseteq DOMAIN b.orders BY <1>2
<1>7. \A id \in DOMAIN b.orders : b.orders[id].side # s =>
         id \in DOMAIN c.orders /\ c.orders[id] = b.orders[id]
  BY <1>2, <1>4
<1> QED BY <1>5, <1>6, <1>7 DEF s, c

(* Matching leaves the aggressor's side alone and takes lots of the other. *)
LEMMA MatchLots ==
  ASSUME NEW b, Good(b), NEW ag, ag.side \in Sides, ag.qty \in Nat, NEW limit
  PROVE  LET s == Opposite(ag.side)
             c == Match(b, ag, limit)
         IN  /\ LotsOf(c, ag.side) = LotsOf(b, ag.side)
             /\ LotsOf(c, s) \subseteq LotsOf(b, s)
             /\ \A pos \in Positions(b, s) : \A m \in 1..OrderAt(b, s, pos).qty :
                  <<OrderAt(b, s, pos).id, m>> \in LotsOf(c, s)
                    <=> m <= OrderAt(b, s, pos).qty - Traded(b, ag, limit, pos)
<1> DEFINE s == Opposite(ag.side)
           c == Match(b, ag, limit)
           Id(pos) == OrderAt(b, s, pos).id
           Qty(pos) == OrderAt(b, s, pos).qty
           Left(pos) == Qty(pos) - Traded(b, ag, limit, pos)
<1>1. s \in Sides /\ s # ag.side BY SidesFacts
<1>2. DOMAIN c.orders \subseteq DOMAIN b.orders
      /\ \A id \in DOMAIN b.orders : b.orders[id].side # s =>
            id \in DOMAIN c.orders /\ c.orders[id] = b.orders[id]
  BY MatchOrders
<1>3. ASSUME NEW pos \in Positions(b, s)
      PROVE  /\ Id(pos) \in DOMAIN b.orders /\ b.orders[Id(pos)].side = s /\ b.orders[Id(pos)].qty = Qty(pos)
             /\ Qty(pos) \in Nat /\ Left(pos) \in 0..Qty(pos)
             /\ Id(pos) \in DOMAIN c.orders <=> Left(pos) > 0
             /\ Left(pos) > 0 => c.orders[Id(pos)].side = s /\ c.orders[Id(pos)].qty = Left(pos)
  <2> DEFINE o == OrderAt(b, s, pos)
  <2>1. o \in Order /\ o.side = s /\ o.id \in DOMAIN b.orders /\ b.orders[o.id] = o /\ o.qty \in Lots
    BY <1>1, PositionType
  <2>2. Traded(b, ag, limit, pos) \in 0..o.qty BY TradedType
  <2>3. Left(pos) \in 0..o.qty /\ o.qty \in Nat BY <2>1, <2>2 DEF Lots
  <2>4. o.id \in DOMAIN c.orders <=> Left(pos) > 0 BY MatchOrders
  <2>5. Left(pos) > 0 => c.orders[o.id] = [o EXCEPT !.qty = Left(pos)] BY MatchOrders
  <2> HIDE DEF o, s, c, Left
  <2>6. [o EXCEPT !.qty = Left(pos)].side = s /\ [o EXCEPT !.qty = Left(pos)].qty = Left(pos)
    BY <2>1 DEF Order
  <2>7. Left(pos) > 0 => c.orders[o.id].side = s /\ c.orders[o.id].qty = Left(pos) BY <2>5, <2>6
  <2> QED BY <2>1, <2>3, <2>4, <2>7 DEF o
<1>4. \A id \in IdsOf(b, s) : \E pos \in Positions(b, s) : Id(pos) = id
  <2> TAKE id \in IdsOf(b, s)
  <2>1. id \in DOMAIN b.orders /\ b.orders[id].side = s BY DEF IdsOf
  <2> QED BY <2>1, OrderHasPosition
<1> HIDE DEF s, c, Id, Qty, Left
<1>5. IdsOf(c, ag.side) = IdsOf(b, ag.side) /\ \A id \in IdsOf(b, ag.side) : c.orders[id] = b.orders[id]
  <2>1. \A id \in IdsOf(b, ag.side) : id \in IdsOf(c, ag.side) /\ c.orders[id] = b.orders[id]
    BY <1>1, <1>2 DEF IdsOf
  <2>2. ASSUME NEW id \in IdsOf(c, ag.side) PROVE id \in IdsOf(b, ag.side)
    <3>1. id \in DOMAIN c.orders /\ id \in DOMAIN b.orders /\ c.orders[id].side = ag.side BY <1>2 DEF IdsOf
    <3>2. b.orders[id].side # s
      <4> SUFFICES ASSUME b.orders[id].side = s PROVE FALSE OBVIOUS
      <4>1. PICK pos \in Positions(b, s) : Id(pos) = id BY <1>4, <3>1 DEF IdsOf
      <4> QED BY <1>1, <1>3, <3>1, <4>1
    <3> QED BY <1>2, <3>1, <3>2 DEF IdsOf
  <2> QED BY <2>1, <2>2
<1>6. LotsOf(c, ag.side) = LotsOf(b, ag.side) BY <1>5 DEF LotsOf
<1>7. ASSUME NEW l \in LotsOf(c, s)
      PROVE  \E pos \in Positions(b, s) : \E n \in 1..Left(pos) : l = <<Id(pos), n>>
  <2>1. PICK id \in IdsOf(c, s) : \E n \in 1..c.orders[id].qty : l = <<id, n>> BY DEF LotsOf
  <2>2. id \in DOMAIN b.orders /\ id \in DOMAIN c.orders /\ c.orders[id].side = s BY <1>2 DEF IdsOf
  <2>3. b.orders[id].side = s BY <1>2, <2>2
  <2>4. PICK pos \in Positions(b, s) : Id(pos) = id BY <1>4, <2>2, <2>3 DEF IdsOf
  <2>5. c.orders[id].qty = Left(pos) BY <1>3, <2>2, <2>4
  <2> QED BY <2>1, <2>4, <2>5
<1>8. ASSUME NEW pos \in Positions(b, s), NEW n \in 1..Left(pos)
      PROVE  <<Id(pos), n>> \in LotsOf(c, s) /\ <<Id(pos), n>> \in LotsOf(b, s)
  <2>1. Left(pos) \in 0..Qty(pos) /\ Qty(pos) \in Nat BY <1>3
  <2>2. Left(pos) > 0 /\ n \in 1..Qty(pos) BY <2>1
  <2>3. Id(pos) \in IdsOf(c, s) /\ c.orders[Id(pos)].qty = Left(pos) BY <1>3, <2>2 DEF IdsOf
  <2>4. Id(pos) \in IdsOf(b, s) /\ b.orders[Id(pos)].qty = Qty(pos) BY <1>3 DEF IdsOf
  <2>5. <<Id(pos), n>> \in LotsOf(c, s) BY <2>3 DEF LotsOf
  <2>6. <<Id(pos), n>> \in LotsOf(b, s) BY <2>2, <2>4 DEF LotsOf
  <2> QED BY <2>5, <2>6
<1>9. LotsOf(c, s) \subseteq LotsOf(b, s) BY <1>7, <1>8
<1>10. ASSUME NEW pos \in Positions(b, s), NEW m \in 1..Qty(pos)
       PROVE  <<Id(pos), m>> \in LotsOf(c, s) <=> m <= Left(pos)
  <2>1. Left(pos) \in 0..Qty(pos) /\ Qty(pos) \in Nat BY <1>3
  <2>2. ASSUME <<Id(pos), m>> \in LotsOf(c, s) PROVE m <= Left(pos)
    <3>1. PICK x \in Positions(b, s) : \E n \in 1..Left(x) : <<Id(pos), m>> = <<Id(x), n>> BY <1>7, <2>2
    <3>2. Id(x) = Id(pos) /\ m \in 1..Left(x) BY <3>1
    <3>3. x = pos BY <1>1, <3>2, OnePosition DEF Id
    <3> QED BY <2>1, <3>2, <3>3
  <2>3. ASSUME m <= Left(pos) PROVE <<Id(pos), m>> \in LotsOf(c, s)
    <3>1. m \in 1..Left(pos) BY <2>1, <2>3
    <3> QED BY <1>8, <3>1
  <2> QED BY <2>2, <2>3
<1> QED BY <1>6, <1>9, <1>10 DEF s, c, Id, Qty, Left

(* An execution reports what it trades and what it leaves.                 *)
LEMMA ExecutionFacts ==
  ASSUME NEW b, Good(b), NEW ag, ag.side \in Sides, ag.qty \in Nat, NEW limit,
         NEW i \in DOMAIN MatchEvents(b, ag, limit)
  PROVE  LET s == Opposite(ag.side)
             pos == Reached(b, s, Fills(b, ag, limit), i)
             o == OrderAt(b, s, pos)
             t == Traded(b, ag, limit, pos)
             e == MatchEvents(b, ag, limit)[i]
         IN  /\ pos \in Positions(b, s) /\ o \in Order /\ o.side = s
             /\ o.qty \in Nat /\ t \in 1..o.qty
             /\ e.before = o
             /\ e.order.id = o.id /\ e.order.qty = o.qty - t
             /\ e.before.qty - e.order.qty = t
<1> DEFINE s == Opposite(ag.side)
           pos == Reached(b, s, Fills(b, ag, limit), i)
           o == OrderAt(b, s, pos)
           t == Traded(b, ag, limit, pos)
           e == MatchEvents(b, ag, limit)[i]
<1>1. s \in Sides BY SidesFacts
<1>2. pos \in Fills(b, ag, limit) /\ Fills(b, ag, limit) \in SUBSET Positions(b, s) /\ t > 0
      /\ e = ExecuteEvent(o, t)
  BY MatchEventsFacts
<1> HIDE DEF pos, e
<1>3. o \in Order /\ o.side = s /\ o.qty \in Lots BY <1>1, <1>2, PositionType
<1>4. t \in 0..o.qty BY <1>2, TradedType
<1> HIDE DEF o, t
<1>5. e.before = o /\ e.order = [o EXCEPT !.qty = o.qty - t] BY <1>2 DEF ExecuteEvent
<1>6. e.order.id = o.id /\ e.order.qty = o.qty - t BY <1>3, <1>5 DEF Order
<1>7. o.qty \in Nat /\ t \in 1..o.qty /\ o.qty - (o.qty - t) = t BY <1>2, <1>3, <1>4 DEF Lots
<1> QED BY <1>2, <1>3, <1>5, <1>6, <1>7 DEF pos, o, t, e, s

(* The executions reach every position that is filled, each once.          *)
LEMMA EachMetOnce ==
  ASSUME NEW b, Good(b), NEW ag, ag.side \in Sides, ag.qty \in Nat, NEW limit
  PROVE  LET At(i) == Reached(b, Opposite(ag.side), Fills(b, ag, limit), i)
             D == DOMAIN MatchEvents(b, ag, limit)
         IN  /\ \A i, j \in D : At(i) = At(j) => i = j
             /\ \A pos \in Fills(b, ag, limit) : \E i \in D : At(i) = pos
<1> DEFINE s == Opposite(ag.side)
           F == Fills(b, ag, limit)
           D == DOMAIN MatchEvents(b, ag, limit)
<1>1. s \in Sides /\ F \in SUBSET Positions(b, s) /\ D = 1..Cardinality(F)
  BY SidesFacts, MatchEventsFacts
<1> HIDE DEF s, F, D
<1>2. \A i, j \in 1..Cardinality(F) : Reached(b, s, F, i) = Reached(b, s, F, j) => i = j
  BY <1>1, ReachedFacts
<1>3. \A pos \in F : \E i \in 1..Cardinality(F) : Reached(b, s, F, i) = pos
  BY <1>1, ReachedFacts
<1> QED BY <1>1, <1>2, <1>3 DEF s, F, D

(* What the executions report is what leaves the resting side.             *)
LEMMA ExecutedLotsLeave ==
  ASSUME NEW b, Good(b), NEW ag, ag.side \in Sides, ag.qty \in Nat, NEW limit
  PROVE  LET s == Opposite(ag.side)
             E == LotsIn(MatchEvents(b, ag, limit))
         IN  /\ IsFiniteSet(E) /\ Cardinality(E) \in Nat
             /\ SideQuantity(Match(b, ag, limit), s) = SideQuantity(b, s) - Cardinality(E)
<1> DEFINE s == Opposite(ag.side)
           c == Match(b, ag, limit)
           found == MatchEvents(b, ag, limit)
           At(i) == Reached(b, s, Fills(b, ag, limit), i)
           Id(pos) == OrderAt(b, s, pos).id
           Qty(pos) == OrderAt(b, s, pos).qty
           T(pos) == Traded(b, ag, limit, pos)
           E == LotsIn(found)
           D == LotsOf(b, s) \ LotsOf(c, s)
           h == [l \in E |-> <<Id(At(l[1])), Qty(At(l[1])) - T(At(l[1])) + l[2]>>]
<1>1. s \in Sides /\ Good(c) BY SidesFacts, MatchGood
<1>2. LotsOf(c, s) \subseteq LotsOf(b, s)
      /\ \A pos \in Positions(b, s) : \A m \in 1..Qty(pos) :
            <<Id(pos), m>> \in LotsOf(c, s) <=> m <= Qty(pos) - T(pos)
  BY MatchLots
<1>3. \A i \in DOMAIN found : At(i) \in Positions(b, s) /\ Qty(At(i)) \in Nat /\ T(At(i)) \in 1..Qty(At(i))
                              /\ found[i].before.qty - found[i].order.qty = T(At(i))
  BY ExecutionFacts
<1>4. DOMAIN found = 1..Cardinality(Fills(b, ag, limit)) /\ Fills(b, ag, limit) \in SUBSET Positions(b, s)
  BY MatchEventsFacts
<1>5. /\ \A i, j \in DOMAIN found : At(i) = At(j) => i = j
      /\ \A pos \in Fills(b, ag, limit) : \E i \in DOMAIN found : At(i) = pos
  BY <1>1, EachMetOnce
<1>6. \A pos \in Positions(b, s) : T(pos) \in 0..Qty(pos) /\ Qty(pos) \in Nat
                                   /\ Id(pos) \in IdsOf(b, s) /\ b.orders[Id(pos)].qty = Qty(pos)
  <2> TAKE pos \in Positions(b, s)
  <2>1. T(pos) \in 0..Qty(pos) BY TradedType
  <2>2. Qty(pos) \in Nat /\ Id(pos) \in IdsOf(b, s) /\ b.orders[Id(pos)].qty = Qty(pos)
    BY <1>1, PositionType DEF IdsOf, Lots
  <2> QED BY <2>1, <2>2
<1>7. \A pos \in Positions(b, s) : T(pos) > 0 => pos \in Fills(b, ag, limit) BY DEF Fills
<1>8. \A x, y \in Positions(b, s) : Id(x) = Id(y) => x = y BY <1>1, OnePosition
<1>9. \A id \in IdsOf(b, s) : \E pos \in Positions(b, s) : Id(pos) = id
  BY OrderHasPosition DEF IdsOf
<1>10. \A l : l \in E <=> \E i \in DOMAIN found : \E n \in 1..(found[i].before.qty - found[i].order.qty) : l = <<i, n>>
  BY DEF LotsIn
<1>11. \A m : m \in LotsOf(b, s) <=> \E id \in IdsOf(b, s) : \E n \in 1..b.orders[id].qty : m = <<id, n>>
  BY DEF LotsOf
<1> HIDE DEF s, c, found, At, Id, Qty, T, E
<1>12. ASSUME NEW l \in E
       PROVE  \E i \in DOMAIN found : \E n \in 1..T(At(i)) :
                 l = <<i, n>> /\ h[l] = <<Id(At(i)), Qty(At(i)) - T(At(i)) + n>>
  <2>1. PICK i \in DOMAIN found : \E n \in 1..(found[i].before.qty - found[i].order.qty) : l = <<i, n>> BY <1>10
  <2>2. PICK n \in 1..T(At(i)) : l = <<i, n>> BY <1>3, <2>1
  <2>3. h[l] = <<Id(At(i)), Qty(At(i)) - T(At(i)) + n>> BY <2>2
  <2> QED BY <2>2, <2>3
<1>13. ASSUME NEW l \in E PROVE h[l] \in D
  <2>1. PICK i \in DOMAIN found : \E n \in 1..T(At(i)) :
           l = <<i, n>> /\ h[l] = <<Id(At(i)), Qty(At(i)) - T(At(i)) + n>> BY <1>12
  <2>2. PICK n \in 1..T(At(i)) : h[l] = <<Id(At(i)), Qty(At(i)) - T(At(i)) + n>> BY <2>1
  <2> DEFINE pos == At(i)
             m == Qty(pos) - T(pos) + n
  <2>3. pos \in Positions(b, s) /\ T(pos) \in 1..Qty(pos) /\ Qty(pos) \in Nat BY <1>3
  <2>4. m \in 1..Qty(pos) /\ ~(m <= Qty(pos) - T(pos)) BY <2>3
  <2> HIDE DEF pos, m
  <2>5. <<Id(pos), m>> \in LotsOf(b, s) BY <1>6, <1>11, <2>3, <2>4
  <2>6. <<Id(pos), m>> \notin LotsOf(c, s) BY <1>2, <2>3, <2>4
  <2> QED BY <2>2, <2>5, <2>6 DEF pos, m
<1>14. ASSUME NEW l \in E, NEW k \in E, h[l] = h[k] PROVE l = k
  <2>1. PICK i \in DOMAIN found : \E n \in 1..T(At(i)) :
           l = <<i, n>> /\ h[l] = <<Id(At(i)), Qty(At(i)) - T(At(i)) + n>> BY <1>12
  <2>2. PICK n \in 1..T(At(i)) : l = <<i, n>> /\ h[l] = <<Id(At(i)), Qty(At(i)) - T(At(i)) + n>> BY <2>1
  <2>3. PICK j \in DOMAIN found : \E n2 \in 1..T(At(j)) :
           k = <<j, n2>> /\ h[k] = <<Id(At(j)), Qty(At(j)) - T(At(j)) + n2>> BY <1>12
  <2>4. PICK n2 \in 1..T(At(j)) : k = <<j, n2>> /\ h[k] = <<Id(At(j)), Qty(At(j)) - T(At(j)) + n2>> BY <2>3
  <2> HIDE DEF h
  <2>5. Id(At(i)) = Id(At(j)) /\ Qty(At(i)) - T(At(i)) + n = Qty(At(j)) - T(At(j)) + n2 BY <1>14, <2>2, <2>4
  <2>6. i = j BY <1>3, <1>5, <1>8, <2>5
  <2>7. T(At(i)) \in 1..Qty(At(i)) /\ Qty(At(i)) \in Nat BY <1>3
  <2>8. n = n2 BY <2>5, <2>6, <2>7
  <2> QED BY <2>2, <2>4, <2>6, <2>8
<1>15. ASSUME NEW x \in D PROVE \E l \in E : h[l] = x
  <2>1. PICK id \in IdsOf(b, s) : \E m \in 1..b.orders[id].qty : x = <<id, m>> BY <1>11
  <2>2. PICK m \in 1..b.orders[id].qty : x = <<id, m>> BY <2>1
  <2>3. PICK pos \in Positions(b, s) : Id(pos) = id BY <1>9
  <2>4. m \in 1..Qty(pos) /\ T(pos) \in 0..Qty(pos) /\ Qty(pos) \in Nat BY <1>6, <2>2, <2>3
  <2>5. ~(m <= Qty(pos) - T(pos)) BY <1>2, <2>2, <2>3, <2>4
  <2>6. T(pos) > 0 BY <2>4, <2>5
  <2>7. PICK i \in DOMAIN found : At(i) = pos BY <1>5, <1>7, <2>6
  <2> DEFINE n == m - (Qty(pos) - T(pos))
  <2>8. n \in 1..T(pos) /\ Qty(pos) - T(pos) + n = m BY <2>4, <2>5
  <2> HIDE DEF n
  <2>9. <<i, n>> \in E BY <1>3, <1>10, <2>7, <2>8
  <2>10. h[<<i, n>>] = <<Id(pos), Qty(pos) - T(pos) + n>> BY <2>7, <2>9
  <2> QED BY <2>2, <2>3, <2>8, <2>9, <2>10
<1>16. h \in Injection(E, D) BY <1>13, <1>14 DEF Injection, IsInjective
<1>17. h \in Surjection(E, D) BY <1>13, <1>15 DEF Surjection
<1> HIDE DEF h
<1>18. IsFiniteSet(LotsOf(b, s)) /\ Cardinality(LotsOf(b, s)) = SideQuantity(b, s) /\ SideQuantity(b, s) \in Nat
  BY <1>1, QuantityById
<1>19. IsFiniteSet(LotsOf(c, s)) /\ Cardinality(LotsOf(c, s)) = SideQuantity(c, s) /\ SideQuantity(c, s) \in Nat
  BY <1>1, QuantityById
<1>20. IsFiniteSet(D) /\ Cardinality(D) = SideQuantity(b, s) - SideQuantity(c, s)
  <2>1. LotsOf(b, s) \cap LotsOf(c, s) = LotsOf(c, s) BY <1>2
  <2>2. IsFiniteSet(D) /\ Cardinality(D) = Cardinality(LotsOf(b, s)) - Cardinality(LotsOf(b, s) \cap LotsOf(c, s))
    BY <1>18, FS_Difference
  <2> QED BY <1>18, <1>19, <2>1, <2>2
<1>21. IsFiniteSet(E) BY <1>16, <1>20, FS_Injection
<1>22. Cardinality(E) = Cardinality(D) BY <1>16, <1>17, <1>20, FS_Injection
<1>23. Cardinality(E) \in Nat BY <1>21, FS_CardinalityType
<1>24. SideQuantity(c, s) = SideQuantity(b, s) - Cardinality(E) BY <1>18, <1>19, <1>20, <1>22
<1> QED BY <1>21, <1>23, <1>24 DEF s, c, E, found

(* When something of an order is left, its executions are what it is       *)
(* filled by.                                                              *)
LEMMA ExecutedIsFilled ==
  ASSUME NEW b, Good(b), NEW ag, ag.side \in Sides, ag.qty \in Nat, NEW limit \in Nat,
         Filled(b, ag, limit) < ag.qty
  PROVE  Cardinality(LotsIn(MatchEvents(b, ag, limit))) = Filled(b, ag, limit)
<1> DEFINE s == Opposite(ag.side)
           C == {pos \in Positions(b, s) : Crosses(ag.side, pos[1], limit)}
           found == MatchEvents(b, ag, limit)
           At(i) == Reached(b, s, Fills(b, ag, limit), i)
           E == LotsIn(found)
           L == LotsAt(b, s, C)
           h == [l \in E |-> <<At(l[1]), l[2]>>]
<1>1. s \in Sides BY SidesFacts
<1>2. C \in SUBSET Positions(b, s) OBVIOUS
<1>3. \A i \in DOMAIN found :
         /\ At(i) \in Positions(b, s)
         /\ found[i].before.qty - found[i].order.qty = Traded(b, ag, limit, At(i))
         /\ Traded(b, ag, limit, At(i)) > 0
  <2> TAKE i \in DOMAIN found
  <2>1. At(i) \in Positions(b, s) /\ found[i].before.qty - found[i].order.qty = Traded(b, ag, limit, At(i))
        /\ Traded(b, ag, limit, At(i)) \in 1..OrderAt(b, s, At(i)).qty
    BY ExecutionFacts
  <2> QED BY <2>1
<1>4. DOMAIN found = 1..Cardinality(Fills(b, ag, limit)) /\ Fills(b, ag, limit) \in SUBSET Positions(b, s)
  BY MatchEventsFacts
<1>5. /\ \A i, j \in DOMAIN found : At(i) = At(j) => i = j
      /\ \A pos \in Fills(b, ag, limit) : \E i \in DOMAIN found : At(i) = pos
  BY <1>1, EachMetOnce
<1>6. ASSUME NEW pos \in Positions(b, s)
      PROVE  /\ Traded(b, ag, limit, pos) > 0 => pos \in C
             /\ pos \in C => /\ Traded(b, ag, limit, pos) = OrderAt(b, s, pos).qty
                             /\ pos \in Fills(b, ag, limit)
  <2>1. OrderAt(b, s, pos).qty \in Nat /\ OrderAt(b, s, pos).qty > 0 BY <1>1, PositionType DEF Lots
  <2>2. pos \notin C => Traded(b, ag, limit, pos) = 0 BY DEF Traded
  <2>3. pos \in C => Traded(b, ag, limit, pos) = OrderAt(b, s, pos).qty
    BY CrossedAreUsedUp DEF UsedUp
  <2>4. pos \in C => pos \in Fills(b, ag, limit) BY <2>1, <2>3 DEF Fills
  <2> QED BY <2>2, <2>3, <2>4
<1>7. \A l : l \in E <=> \E i \in DOMAIN found : \E n \in 1..(found[i].before.qty - found[i].order.qty) : l = <<i, n>>
  BY DEF LotsIn
<1>8. \A m : m \in L <=> \E pos \in C : \E n \in 1..OrderAt(b, s, pos).qty : m = <<pos, n>>
  BY DEF LotsAt
<1>9. IsFiniteSet(L) /\ Cardinality(L) = Quantity(b, s, C) /\ Quantity(b, s, C) \in Nat
  BY <1>1, <1>2, QuantityType DEF Quantity
<1>10. Filled(b, ag, limit) = IF Quantity(b, s, C) < ag.qty THEN Quantity(b, s, C) ELSE ag.qty BY DEF Filled
<1> HIDE DEF s, C, found, At, E, L
<1>11. ASSUME NEW l \in E
       PROVE  \E i \in DOMAIN found : \E n \in 1..OrderAt(b, s, At(i)).qty :
                 At(i) \in C /\ l = <<i, n>> /\ h[l] = <<At(i), n>>
  <2>1. PICK i \in DOMAIN found : \E n \in 1..(found[i].before.qty - found[i].order.qty) : l = <<i, n>> BY <1>7
  <2>2. PICK n \in 1..Traded(b, ag, limit, At(i)) : l = <<i, n>> BY <1>3, <2>1
  <2>3. At(i) \in C /\ Traded(b, ag, limit, At(i)) = OrderAt(b, s, At(i)).qty BY <1>3, <1>6
  <2>4. h[l] = <<At(i), n>> BY <2>2
  <2> QED BY <2>2, <2>3, <2>4
<1>12. ASSUME NEW l \in E PROVE h[l] \in L BY <1>8, <1>11
<1>13. ASSUME NEW l \in E, NEW k \in E, h[l] = h[k] PROVE l = k
  <2>1. PICK i \in DOMAIN found : \E n : l = <<i, n>> /\ h[l] = <<At(i), n>> BY <1>11
  <2>2. PICK j \in DOMAIN found : \E m : k = <<j, m>> /\ h[k] = <<At(j), m>> BY <1>11
  <2>3. PICK n : l = <<i, n>> /\ h[l] = <<At(i), n>> BY <2>1
  <2>4. PICK m : k = <<j, m>> /\ h[k] = <<At(j), m>> BY <2>2
  <2> HIDE DEF h
  <2> QED BY <1>5, <1>13, <2>3, <2>4
<1>14. ASSUME NEW m \in L PROVE \E l \in E : h[l] = m
  <2>1. PICK pos \in C : \E n \in 1..OrderAt(b, s, pos).qty : m = <<pos, n>> BY <1>8
  <2>2. PICK n \in 1..OrderAt(b, s, pos).qty : m = <<pos, n>> BY <2>1
  <2>3. pos \in Positions(b, s) BY <1>2
  <2>4. Traded(b, ag, limit, pos) = OrderAt(b, s, pos).qty /\ pos \in Fills(b, ag, limit) BY <1>6, <2>3
  <2>5. PICK i \in DOMAIN found : At(i) = pos BY <1>5, <2>4
  <2>6. <<i, n>> \in E BY <1>3, <1>7, <2>2, <2>4, <2>5
  <2>7. h[<<i, n>>] = <<pos, n>> BY <2>5, <2>6
  <2> QED BY <2>2, <2>6, <2>7
<1>15. h \in Injection(E, L) BY <1>12, <1>13 DEF Injection, IsInjective
<1>16. h \in Surjection(E, L) BY <1>12, <1>14 DEF Surjection
<1> HIDE DEF h
<1>17. Cardinality(E) = Cardinality(L) BY <1>9, <1>15, <1>16, FS_Injection
<1>18. Filled(b, ag, limit) = Quantity(b, s, C) BY <1>9, <1>10
<1> QED BY <1>9, <1>17, <1>18 DEF E, found

(* An execution's event tells what is left of the resting order.           *)
LEMMA ExecutionLeaves ==
  ASSUME NEW b, Good(b), NEW ag, ag.side \in Sides, ag.qty \in Nat, NEW limit,
         NEW i \in DOMAIN MatchEvents(b, ag, limit)
  PROVE  LET e == MatchEvents(b, ag, limit)[i]
             c == Match(b, ag, limit)
         IN  IF e.order.qty = 0 THEN e.order.id \notin DOMAIN c.orders
             ELSE e.order.id \in DOMAIN c.orders /\ c.orders[e.order.id] = e.order
<1> DEFINE s == Opposite(ag.side)
           pos == Reached(b, s, Fills(b, ag, limit), i)
           o == OrderAt(b, s, pos)
           t == Traded(b, ag, limit, pos)
           e == MatchEvents(b, ag, limit)[i]
           c == Match(b, ag, limit)
<1>1. pos \in Positions(b, s) /\ o.qty \in Nat /\ t \in 1..o.qty /\ e.order.id = o.id /\ e.order.qty = o.qty - t
  BY ExecutionFacts
<1>2. e.order = [o EXCEPT !.qty = o.qty - t]
  <2>1. e = ExecuteEvent(o, t) BY MatchEventsFacts
  <2> HIDE DEF e, o, t
  <2> QED BY <2>1 DEF ExecuteEvent
<1>3. /\ o.id \in DOMAIN c.orders <=> o.qty - t > 0
      /\ o.qty - t > 0 => c.orders[o.id] = [o EXCEPT !.qty = o.qty - t]
  <2>1. pos \in Positions(b, Opposite(ag.side)) BY <1>1
  <2> HIDE DEF pos
  <2> QED BY <2>1, MatchOrders
<1> HIDE DEF pos, o, t, e, c
<1>4. e.order.qty = 0 => e.order.id \notin DOMAIN c.orders BY <1>1, <1>3
<1>5. e.order.qty # 0 => e.order.id \in DOMAIN c.orders /\ c.orders[e.order.id] = e.order BY <1>1, <1>2, <1>3
<1> QED BY <1>4, <1>5 DEF e, c

(* Adding an order adds its lots to its side and nothing to the other.     *)
LEMMA AppendedLots ==
  ASSUME NEW b, Good(b), NEW o, o.side \in Sides, o.qty \in Nat, o.id \notin DOMAIN b.orders,
         Good(Appended(b, o))
  PROVE  /\ SideQuantity(Appended(b, o), o.side) = SideQuantity(b, o.side) + o.qty
         /\ SideQuantity(Appended(b, o), Opposite(o.side)) = SideQuantity(b, Opposite(o.side))
<1> DEFINE c == Appended(b, o)
           s == o.side
           New == {<<o.id, n>> : n \in 1..o.qty}
<1>1. IsBook(b) BY DEF Good
<1>2. Good(c) OBVIOUS
<1>3. c.orders = PutOrder(b.orders, o) BY <1>1, AppendedOrders
<1>4. Opposite(s) \in Sides /\ Opposite(s) # s BY SidesFacts
<1> HIDE DEF c
<1>5. DOMAIN c.orders = DOMAIN b.orders \cup {o.id} /\ c.orders[o.id] = o
      /\ \A id \in DOMAIN b.orders : c.orders[id] = b.orders[id]
  BY <1>3 DEF PutOrder
<1>6. IdsOf(c, s) = IdsOf(b, s) \cup {o.id} /\ \A id \in IdsOf(b, s) : c.orders[id] = b.orders[id]
  BY <1>5 DEF IdsOf
<1>7. IdsOf(c, Opposite(s)) = IdsOf(b, Opposite(s))
      /\ \A id \in IdsOf(b, Opposite(s)) : c.orders[id] = b.orders[id]
  BY <1>4, <1>5 DEF IdsOf
<1>8. LotsOf(c, Opposite(s)) = LotsOf(b, Opposite(s)) BY <1>7 DEF LotsOf
<1>9. LotsOf(c, s) = LotsOf(b, s) \cup New BY <1>5, <1>6 DEF LotsOf
<1>10. LotsOf(b, s) \cap New = {}
  <2> SUFFICES ASSUME NEW l \in LotsOf(b, s), l \in New PROVE FALSE OBVIOUS
  <2>1. PICK id \in IdsOf(b, s) : \E n \in 1..b.orders[id].qty : l = <<id, n>> BY DEF LotsOf
  <2>2. PICK n : l = <<id, n>> BY <2>1
  <2>3. id = o.id BY <2>2
  <2> QED BY <2>3 DEF IdsOf
<1>11. IsFiniteSet(New) /\ Cardinality(New) = o.qty BY LotsOfOrder
<1> HIDE DEF New
<1>12. /\ IsFiniteSet(LotsOf(b, s)) /\ Cardinality(LotsOf(b, s)) = SideQuantity(b, s)
       /\ SideQuantity(b, s) \in Nat
       /\ Cardinality(LotsOf(c, s)) = SideQuantity(c, s)
       /\ Cardinality(LotsOf(b, Opposite(s))) = SideQuantity(b, Opposite(s))
       /\ Cardinality(LotsOf(c, Opposite(s))) = SideQuantity(c, Opposite(s))
  BY <1>2, <1>4, QuantityById
<1>13. Cardinality(LotsOf(b, s) \cup New) = Cardinality(LotsOf(b, s)) + Cardinality(New) - Cardinality(LotsOf(b, s) \cap New)
  BY <1>11, <1>12, FS_Union
<1>14. Cardinality(LotsOf(b, s) \cap New) = 0 BY <1>10, FS_EmptySet
<1>15. SideQuantity(c, s) = SideQuantity(b, s) + o.qty BY <1>9, <1>11, <1>12, <1>13, <1>14
<1>16. SideQuantity(c, Opposite(s)) = SideQuantity(b, Opposite(s)) BY <1>8, <1>12
<1> QED BY <1>15, <1>16 DEF c

(* Matching takes the executed lots off the resting side and leaves the    *)
(* aggressor's side as it was.                                             *)
LEMMA MatchConserves ==
  ASSUME NEW b, Good(b), NEW ag, ag.side \in Sides, ag.qty \in Nat, NEW limit
  PROVE  LET c == Match(b, ag, limit)
             n == Cardinality(LotsIn(MatchEvents(b, ag, limit)))
         IN  /\ SideQuantity(c, ag.side) = SideQuantity(b, ag.side)
             /\ SideQuantity(c, Opposite(ag.side)) = SideQuantity(b, Opposite(ag.side)) - n
             /\ n \in Nat
             /\ SideQuantity(b, ag.side) \in Nat
<1> DEFINE c == Match(b, ag, limit)
<1>1. Good(c) BY MatchGood
<1>2. LotsOf(c, ag.side) = LotsOf(b, ag.side) BY MatchLots
<1> HIDE DEF c
<1>3. Cardinality(LotsOf(c, ag.side)) = SideQuantity(c, ag.side) BY <1>1, QuantityById
<1>4. Cardinality(LotsOf(b, ag.side)) = SideQuantity(b, ag.side) /\ SideQuantity(b, ag.side) \in Nat BY QuantityById
<1> QED BY <1>2, <1>3, <1>4, ExecutedLotsLeave DEF c

(* The lots of the step are those of the executions of the match.          *)
LEMMA ExecutedLotsOfMatch ==
  ASSUME Good(book), NEW o, NEW limit, Executed(o, limit)
  PROVE  ExecutedLots = LotsIn(MatchEvents(book, o, limit))
<1> DEFINE found == MatchEvents(book, o, limit)
<1>1. Executions = DOMAIN found /\ \A i \in DOMAIN found : events'[i] = found[i] BY ExecutedEvents
<1> HIDE DEF found
<1>2. \A i \in Executions : {<<i, n>> : n \in 1..(events'[i].before.qty - events'[i].order.qty)}
                             = {<<i, n>> : n \in 1..(found[i].before.qty - found[i].order.qty)}
  BY <1>1
<1>3. ExecutedLots = UNION {{<<i, n>> : n \in 1..(found[i].before.qty - found[i].order.qty)} : i \in DOMAIN found}
  BY <1>1, <1>2 DEF ExecutedLots
<1> QED BY <1>3 DEF LotsIn, found

(* A match that leaves nothing to rest conserves lots.                     *)
LEMMA MatchedConserves ==
  ASSUME Good(book), NEW o, NEW limit, Executed(o, limit),
         book' = Match(book, o, limit), events' = MatchEvents(book, o, limit)
  PROVE  /\ RestingSideLoses(Opposite(o.side))
         /\ {i \in DOMAIN events' : events'[i].type = "add"} = {}
         /\ EachByItsEvent({}) /\ OtherSideGains(Opposite(o.side), {}) /\ NoMoreThanAsked({})
<1> DEFINE found == MatchEvents(book, o, limit)
           matched == Match(book, o, limit)
<1>1. o.side \in Sides /\ o.qty \in Nat /\ Executions = DOMAIN found BY ExecutedEvents
<1>2. ExecutedLots = LotsIn(found) BY ExecutedLotsOfMatch
<1>3. /\ SideQuantity(matched, o.side) = SideQuantity(book, o.side)
      /\ SideQuantity(matched, Opposite(o.side)) = SideQuantity(book, Opposite(o.side)) - Cardinality(LotsIn(found))
      /\ SideQuantity(book, o.side) \in Nat
  BY <1>1, MatchConserves
<1>4. ASSUME NEW i \in DOMAIN found
      PROVE  IF found[i].order.qty = 0 THEN found[i].order.id \notin DOMAIN matched.orders
             ELSE found[i].order.id \in DOMAIN matched.orders /\ matched.orders[found[i].order.id] = found[i].order
  BY <1>1, ExecutionLeaves, SMTT(40)
<1>5. Opposite(Opposite(o.side)) = o.side BY <1>1, SidesFacts
<1> HIDE DEF found, matched
<1>6. book' = matched /\ events' = found BY DEF found, matched
<1>7. RestingSideLoses(Opposite(o.side)) BY <1>2, <1>3, <1>6 DEF RestingSideLoses
<1>8. {i \in DOMAIN events' : events'[i].type = "add"} = {} BY <1>1, <1>6 DEF Executions
<1>9. EachByItsEvent({}) BY <1>1, <1>4, <1>6 DEF EachByItsEvent
<1>10. OtherSideGains(Opposite(o.side), {})
  <2>1. SideQuantity(book', o.side) = SideQuantity(book, o.side) + 0 BY <1>3, <1>6
  <2> QED BY <1>5, <2>1 DEF OtherSideGains
<1> QED BY <1>7, <1>8, <1>9, <1>10 DEF NoMoreThanAsked

(* A match whose rest is added conserves lots: the two add up to what the  *)
(* order asked for.                                                        *)
LEMMA RestedConserves ==
  ASSUME Good(book), Good(book'), NEW o, NEW limit, Executed(o, limit),
         NEW rest, rest = [o EXCEPT !.qty = o.qty - Filled(book, o, limit)],
         rest.qty > 0, CanAdd(Match(book, o, limit), o),
         book' = Appended(Match(book, o, limit), rest),
         events' = MatchEvents(book, o, limit) \o <<AddEvent(rest)>>
  PROVE  LET added == {i \in DOMAIN events' : events'[i].type = "add"}
         IN  /\ RestingSideLoses(Opposite(o.side))
             /\ EachByItsEvent(added) /\ OtherSideGains(Opposite(o.side), added) /\ NoMoreThanAsked(added)
<1> DEFINE found == MatchEvents(book, o, limit)
           matched == Match(book, o, limit)
           f == Filled(book, o, limit)
           n == Cardinality(LotsIn(found))
           last == Len(found) + 1
           added == {i \in DOMAIN events' : events'[i].type = "add"}
<1>1. o.side \in Sides /\ o.qty \in Nat /\ limit \in Nat /\ Executions = DOMAIN found
      /\ DOMAIN found = 1..Len(found) /\ Len(found) \in Nat
      /\ \A i \in DOMAIN found : events'[i] = found[i]
  BY ExecutedEvents
<1>2. ExecutedLots = LotsIn(found) BY ExecutedLotsOfMatch
<1>3. /\ SideQuantity(matched, o.side) = SideQuantity(book, o.side)
      /\ SideQuantity(matched, Opposite(o.side)) = SideQuantity(book, Opposite(o.side)) - n
      /\ SideQuantity(book, o.side) \in Nat
  BY <1>1, MatchConserves
<1>4. ASSUME NEW i \in DOMAIN found
      PROVE  IF found[i].order.qty = 0 THEN found[i].order.id \notin DOMAIN matched.orders
             ELSE found[i].order.id \in DOMAIN matched.orders /\ matched.orders[found[i].order.id] = found[i].order
  BY <1>1, ExecutionLeaves, SMTT(40)
<1>5. Opposite(Opposite(o.side)) = o.side BY <1>1, SidesFacts
<1>6. f \in 0..o.qty BY <1>1, FilledType
<1>7. o \in ClientOrders BY DEF Executed
<1>8. rest.id = o.id /\ rest.side = o.side /\ rest.qty = o.qty - f /\ o.qty \in Quantities BY <1>7 DEF ClientOrders
<1>9. n = f
  <2>1. f < o.qty BY <1>1, <1>6, <1>8
  <2> QED BY <1>1, <2>1, ExecutedIsFilled
<1>10. Good(matched) BY <1>1, MatchGood
<1>11. rest.id \notin DOMAIN matched.orders BY <1>8 DEF CanAdd, Known
<1>12. \E S : found \in Seq(S) BY <1>1, MatchEventsFacts
<1> HIDE DEF found, matched, f, n
<1>13. book' = Appended(matched, rest) /\ events' = found \o <<AddEvent(rest)>> BY DEF matched, found
<1>14. /\ SideQuantity(book', o.side) = SideQuantity(matched, o.side) + rest.qty
       /\ SideQuantity(book', Opposite(o.side)) = SideQuantity(matched, Opposite(o.side))
  <2>1. rest.qty \in Nat /\ rest.side \in Sides BY <1>1, <1>6, <1>8
  <2>2. Good(Appended(matched, rest)) BY <1>13
  <2> QED BY <1>8, <1>10, <1>11, <1>13, <2>1, <2>2, AppendedLots
<1>15. events'[last] = AddEvent(rest) /\ last \in DOMAIN events' /\ DOMAIN events' = 1..last
  BY <1>1, <1>12, <1>13
<1>16. events'[last].type = "add" /\ events'[last].order = rest
  <2>1. AddEvent(rest).type = "add" /\ AddEvent(rest).order = rest BY DEF AddEvent
  <2> HIDE DEF last
  <2> QED BY <1>15, <2>1
<1>17. added = {last}
  <2>1. ASSUME NEW i \in DOMAIN events', i # last PROVE events'[i].type # "add"
    <3>1. i \in DOMAIN found BY <1>1, <1>15, <2>1
    <3> QED BY <1>1, <3>1 DEF Executions
  <2> QED BY <1>15, <1>16, <2>1
<1> HIDE DEF last, added
<1>18. RestingSideLoses(Opposite(o.side)) BY <1>2, <1>3, <1>14 DEF RestingSideLoses, n
<1>19. EachByItsEvent(added)
  <2>1. book'.orders = PutOrder(matched.orders, rest)
    <3>1. IsBook(matched) /\ rest.side \in Sides BY <1>1, <1>8, <1>10 DEF Good
    <3>2. Appended(matched, rest).orders = PutOrder(matched.orders, rest) BY <3>1, AppendedOrders
    <3> QED BY <1>13, <3>2
  <2>2. DOMAIN book'.orders = DOMAIN matched.orders \cup {rest.id}
        /\ \A id \in DOMAIN matched.orders : id # rest.id => book'.orders[id] = matched.orders[id]
    BY <2>1 DEF PutOrder
  <2> SUFFICES ASSUME NEW i \in Executions
               PROVE  LET e == events'[i]
                      IN  IF e.order.qty = 0 THEN e.order.id \notin DOMAIN book'.orders \/
                                                  \E j \in added : events'[j].order.id = e.order.id
                          ELSE book'.orders[e.order.id] = e.order
    BY DEF EachByItsEvent
  <2> DEFINE e == found[i]
  <2>3. events'[i] = e /\ i \in DOMAIN found BY <1>1
  <2>4. IF e.order.qty = 0 THEN e.order.id \notin DOMAIN matched.orders
        ELSE e.order.id \in DOMAIN matched.orders /\ matched.orders[e.order.id] = e.order
    BY <1>4, <2>3
  <2> HIDE DEF e
  <2>5. e.order.qty = 0 => e.order.id \notin DOMAIN book'.orders \/ \E j \in added : events'[j].order.id = e.order.id
    BY <1>16, <1>17, <2>2, <2>4
  <2>6. e.order.qty # 0 => book'.orders[e.order.id] = e.order BY <1>11, <2>2, <2>4
  <2> QED BY <2>3, <2>5, <2>6
<1>20. OtherSideGains(Opposite(o.side), added)
  <2>1. added # {} /\ (CHOOSE j \in added : TRUE) = last BY <1>17
  <2>2. SideQuantity(book', o.side) = SideQuantity(book, o.side) + rest.qty BY <1>3, <1>14
  <2> QED BY <1>5, <1>16, <2>1, <2>2 DEF OtherSideGains
<1>21. NoMoreThanAsked(added)
  <2>1. rest.qty + n = o.qty BY <1>1, <1>6, <1>8, <1>9
  <2>2. Cardinality(ExecutedLots) = n BY <1>2 DEF n
  <2> QED BY <1>8, <1>16, <1>17, <2>1, <2>2 DEF NoMoreThanAsked
<1> QED BY <1>18, <1>19, <1>20, <1>21 DEF added

(* Lots are neither made nor lost by a trade, and each resting order loses *)
(* what its own execution reports.                                         *)
THEOREM LotsAreConserved == Spec => TradesConserveLots
<1> DEFINE Added == {i \in DOMAIN events' : events'[i].type = "add"}
           Side == events'[1].before.side
           Conserved == Executions # {} =>
                          RestingSideLoses(Side) /\ EachByItsEvent(Added) /\ OtherSideGains(Side, Added)
                          /\ NoMoreThanAsked(Added)
<1>1. IInv /\ IInv' /\ [Next]_vars => [Conserved]_vars
  <2> SUFFICES ASSUME IInv, IInv', Next, Executions # {} PROVE Conserved OBVIOUS
  <2>1. Good(book) /\ Good(book') BY DEF IInv
  <2>2. ~Quiet(events') BY DEF Quiet, Executions
  <2>3. PICK o \in ClientOrders, limit \in Nat : Executed(o, limit) BY <2>1, <2>2, ExecutingSteps
  <2> DEFINE found == MatchEvents(book, o, limit)
  <2>4. o.side \in Sides /\ o.qty \in Nat /\ Executions = DOMAIN found /\ DOMAIN found = 1..Len(found)
        /\ Len(found) \in Nat /\ \A i \in DOMAIN found : events'[i] = found[i]
    BY <2>1, <2>3, ExecutedEvents
  <2>5. Side = Opposite(o.side)
    <3>1. 1 \in DOMAIN found BY <2>4
    <3>2. events'[1] = found[1] BY <2>4, <3>1
    <3>3. found[1].before.side = Opposite(o.side)
      BY <2>1, <2>4, <3>1, ExecutionFacts
    <3> QED BY <3>2, <3>3
  <2> DEFINE rest == [o EXCEPT !.qty = o.qty - Filled(book, o, limit)]
             matched == Match(book, o, limit)
  <2>6. CASE book' = matched /\ events' = found
    <3>1. /\ RestingSideLoses(Opposite(o.side)) /\ Added = {}
          /\ EachByItsEvent({}) /\ OtherSideGains(Opposite(o.side), {}) /\ NoMoreThanAsked({})
      BY <2>1, <2>3, <2>6, MatchedConserves
    <3> QED BY <2>5, <3>1
  <2>7. CASE rest.qty > 0 /\ CanAdd(matched, o) /\ book' = Appended(matched, rest)
             /\ events' = found \o <<AddEvent(rest)>>
    <3>1. PICK r : r = rest OBVIOUS
    <3>2. r.qty > 0 /\ CanAdd(matched, o) /\ book' = Appended(matched, r) /\ events' = found \o <<AddEvent(r)>>
      BY <2>7, <3>1
    <3>3. /\ RestingSideLoses(Opposite(o.side))
          /\ EachByItsEvent(Added) /\ OtherSideGains(Opposite(o.side), Added) /\ NoMoreThanAsked(Added)
      BY <2>1, <2>3, <3>1, <3>2, RestedConserves
    <3> QED BY <2>5, <3>3
  <2> QED BY <2>3, <2>6, <2>7 DEF Executed
<1>2. [Conserved]_vars <=>
      [Executions # {} =>
         LET side == events'[1].before.side
             added == {i \in DOMAIN events' : events'[i].type = "add"}
         IN  /\ SideQuantity(book', side) = SideQuantity(book, side) - Cardinality(ExecutedLots)
             /\ \A i \in Executions :
                  LET e == events'[i]
                  IN  IF e.order.qty = 0 THEN e.order.id \notin DOMAIN book'.orders \/
                                              \E j \in added : events'[j].order.id = e.order.id
                      ELSE book'.orders[e.order.id] = e.order
             /\ SideQuantity(book', Opposite(side)) =
                  SideQuantity(book, Opposite(side)) +
                  (IF added = {} THEN 0 ELSE events'[CHOOSE j \in added : TRUE].order.qty)
             /\ \A j \in added :
                  events'[j].order.qty + Cardinality(ExecutedLots) \in Quantities]_vars
  BY DEF RestingSideLoses, EachByItsEvent, OtherSideGains, NoMoreThanAsked
<1> QED BY <1>1, <1>2, GoodAlways, PTL DEF Spec, TradesConserveLots

-----------------------------------------------------------------------------
(* The operations by what they do to the index                             *)

(* The levels of a good book are the places of its indexed orders.         *)
LEMMA LevelsFromIndex ==
  ASSUME NEW b, Good(b), NEW s \in Sides
  PROVE  /\ \A p \in DOMAIN b.levels[s] : \E id \in DOMAIN b.orders :
              b.orders[id].side = s /\ b.orders[id].price = p
         /\ \A id \in DOMAIN b.orders : b.orders[id].side = s => b.orders[id].price \in DOMAIN b.levels[s]
<1>1. ASSUME NEW p \in DOMAIN b.levels[s]
      PROVE  \E id \in DOMAIN b.orders : b.orders[id].side = s /\ b.orders[id].price = p
  <2>1. b.levels[s][p] # <<>> BY DEF Good, NoEmptyLevel
  <2>2. b.levels[s][p] \in Seq(Order) BY BookType DEF Good
  <2>3. 1 \in 1..Len(b.levels[s][p]) BY <2>1, <2>2
  <2> QED BY <2>3 DEF Good, QueuedAreIndexed
<1>2. \A id \in DOMAIN b.orders : b.orders[id].side = s => b.orders[id].price \in DOMAIN b.levels[s]
  BY DEF Good, IndexedAreQueued
<1> QED BY <1>1, <1>2

(* The orders of a good book are orders, under their ids.                  *)
LEMMA IndexType ==
  ASSUME NEW b, Good(b), NEW id \in DOMAIN b.orders
  PROVE  /\ b.orders[id] \in Order /\ b.orders[id].id = id /\ id \in Ids
         /\ b.orders[id].side \in Sides /\ b.orders[id].price \in Prices
<1>1. b.orders[id] \in Order /\ id \in Ids BY BookType, SidesFacts DEF Good
<1>2. b.orders[id].id = id BY DEF Good, IndexedAreQueued
<1> QED BY <1>1, <1>2 DEF Order

(* cancel takes one id out of the index and leaves the others alone.       *)
LEMMA CancelIndex ==
  ASSUME NEW b, Good(b), NEW id
  PROVE  /\ DOMAIN CancelOrder(b, id).orders = DOMAIN b.orders \ {id}
         /\ \A k \in DOMAIN b.orders \ {id} : CancelOrder(b, id).orders[k] = b.orders[k]
<1>1. CASE Known(b, id)
  <2>1. id \in DOMAIN b.orders BY <1>1 DEF Known
  <2>2. Removed(b, b.orders[id]).orders = DropOrder(b.orders, id) BY <2>1, RemovedGood
  <2>3. CancelOrder(b, id).orders = DropOrder(b.orders, id) BY <1>1, <2>2 DEF CancelOrder
  <2> QED BY <2>3 DEF DropOrder
<1>2. CASE ~Known(b, id)
  <2>1. id \notin DOMAIN b.orders BY <1>2 DEF Known
  <2>2. CancelOrder(b, id) = b BY <1>2 DEF CancelOrder
  <2> QED BY <2>1, <2>2
<1> QED BY <1>1, <1>2

(* A cancellation adds no order.                                           *)
LEMMA CancelAdds ==
  ASSUME NEW b, Good(b), NEW id
  PROVE  OnlyAdds(b, CancelOrder(b, id), {})
BY CancelIndex DEF OnlyAdds, SamePlace

(* updateAgentLevel puts one order into the index under its id.            *)
LEMMA UpdateAgentLevelIndex ==
  ASSUME NEW b, Good(b), NEW o \in Order
  PROVE  /\ DOMAIN UpdateAgentLevel(b, o).orders = DOMAIN b.orders \cup {o.id}
         /\ UpdateAgentLevel(b, o).orders[o.id] = o
         /\ \A k \in DOMAIN b.orders \ {o.id} : UpdateAgentLevel(b, o).orders[k] = b.orders[k]
<1> DEFINE c == IF Known(b, o.id) THEN Removed(b, b.orders[o.id]) ELSE b
<1>1. o.qty \in Lots /\ o.side \in Sides BY DEF Order
<1>2. ~(o.qty <= 0) BY <1>1 DEF Lots
<1>3. UpdateAgentLevel(b, o) = Appended(c, o) BY <1>2 DEF UpdateAgentLevel
<1>4. /\ IsBook(c) /\ DOMAIN c.orders = DOMAIN b.orders \ {o.id}
      /\ \A k \in DOMAIN b.orders \ {o.id} : c.orders[k] = b.orders[k]
  <2>1. CASE Known(b, o.id)
    <3>1. o.id \in DOMAIN b.orders BY <2>1 DEF Known
    <3>2. /\ Good(Removed(b, b.orders[o.id]))
          /\ Removed(b, b.orders[o.id]).orders = DropOrder(b.orders, o.id)
      BY <3>1, RemovedGood
    <3>3. c = Removed(b, b.orders[o.id]) BY <2>1
    <3> HIDE DEF c
    <3> QED BY <3>2, <3>3 DEF DropOrder, Good
  <2>2. CASE ~Known(b, o.id)
    <3>1. c = b /\ o.id \notin DOMAIN b.orders BY <2>2 DEF Known
    <3> HIDE DEF c
    <3> QED BY <3>1 DEF Good
  <2> QED BY <2>1, <2>2
<1> HIDE DEF c
<1>5. Appended(c, o).orders = PutOrder(c.orders, o) BY <1>1, <1>4, AppendedOrders
<1> QED BY <1>3, <1>4, <1>5 DEF PutOrder

(* An update of a named order adds that order and no other.                *)
LEMMA UpdateAgentLevelAdds ==
  ASSUME NEW b, Good(b), NEW o \in Order
  PROVE  OnlyAdds(b, UpdateAgentLevel(b, o), {o})
BY UpdateAgentLevelIndex DEF OnlyAdds, SamePlace

(* match changes nothing of the orders it leaves but their quantities.     *)
LEMMA MatchAdds ==
  ASSUME NEW b, Good(b), NEW ag, ag.side \in Sides, ag.qty \in Nat, NEW limit
  PROVE  OnlyAdds(b, Match(b, ag, limit), {})
<1> DEFINE s == Opposite(ag.side)
           c == Match(b, ag, limit)
<1>1. DOMAIN c.orders \subseteq DOMAIN b.orders BY MatchGood
<1>2. ASSUME NEW id \in DOMAIN c.orders PROVE SamePlace(c.orders[id], b.orders[id])
  <2>1. CASE b.orders[id].side = s
    <3>1. id \in DOMAIN b.orders BY <1>1, <1>2
    <3>2. PICK pos \in Positions(b, s) : OrderAt(b, s, pos) = b.orders[id] /\ b.orders[id].id = id
      BY <2>1, <3>1, OrderHasPosition
    <3>3. c.orders[id] = [b.orders[id] EXCEPT !.qty = b.orders[id].qty - Traded(b, ag, limit, pos)]
      BY <1>2, <3>2, MatchOrders
    <3>4. b.orders[id] \in Order BY <3>1, IndexType
    <3> HIDE DEF c
    <3> QED BY <3>3, <3>4 DEF SamePlace, Order
  <2>2. CASE b.orders[id].side # s
    <3>1. c.orders[id] = b.orders[id] BY <1>1, <1>2, <2>2, MatchOrders
    <3> QED BY <3>1 DEF SamePlace
  <2> QED BY <2>1, <2>2
<1> QED BY <1>1, <1>2 DEF OnlyAdds

(* Removing a level adds no order.                                         *)
LEMMA RemoveLevelAdds ==
  ASSUME NEW b, Good(b), NEW s \in Sides, NEW p \in Prices
  PROVE  OnlyAdds(b, RemoveLevel(b, s, p), {})
BY RemoveLevelGood DEF OnlyAdds, SamePlace

(* updateLevel only adds the order of the level.                           *)
LEMMA UpdateLevelAdds ==
  ASSUME NEW b, Good(b), NEW s \in Sides, NEW p \in Prices, NEW q \in Nat, NEW a \in Agents
  PROVE  OnlyAdds(b, UpdateLevel(b, s, p, q, a), {LevelOrder(s, p, q, a)})
<1> DEFINE o == LevelOrder(s, p, q, a)
           c == RemoveLevel(b, s, p)
<1>1. OnlyAdds(b, c, {}) /\ Good(c) BY RemoveLevelAdds, RemoveLevelGood
<1>2. CASE q = 0
  <2>1. UpdateLevel(b, s, p, q, a) = c BY <1>2 DEF UpdateLevel
  <2> HIDE DEF c
  <2> QED BY <1>1, <2>1 DEF OnlyAdds
<1>3. CASE q # 0
  <2> DEFINE d == UpdateLevel(b, s, p, q, a)
  <2>1. d = SetQueue(c, s, p, <<o>>, PutOrder(c.orders, o)) BY <1>3 DEF UpdateLevel
  <2>2. d.orders = PutOrder(c.orders, o) BY <2>1 DEF SetQueue
  <2> HIDE DEF c, o, d
  <2>3. DOMAIN d.orders = DOMAIN c.orders \cup {o.id} /\ d.orders[o.id] = o
        /\ \A k \in DOMAIN c.orders \ {o.id} : d.orders[k] = c.orders[k]
    BY <2>2 DEF PutOrder
  <2>4. OnlyAdds(b, d, {o}) BY <1>1, <2>3 DEF OnlyAdds
  <2> QED BY <2>4 DEF d, o
<1> QED BY <1>2, <1>3

(* The order by which an agent tops a level up: of no quantity, or an order. *)
LEMMA TopUpType ==
  ASSUME NEW b, Good(b), NEW s \in Sides, NEW p \in Prices, NEW m \in Nat, NEW a \in Agents
  PROVE  LET o == TopUpOrder(b, s, p, m, a)
             others == OthersQuantity(b, s, p, AgentLevelId(s, p, a))
         IN  /\ o.id = AgentLevelId(s, p, a) /\ o.side = s /\ o.price = p /\ others \in Nat
             /\ o.qty = IF m > others THEN m - others ELSE 0
             /\ o.qty \in Nat /\ (o.qty # 0 => o \in Order)
<1> DEFINE o == TopUpOrder(b, s, p, m, a)
           id == AgentLevelId(s, p, a)
           P == {pos \in Positions(b, s) : pos[1] = p /\ OrderAt(b, s, pos).id # id}
<1>1. P \in SUBSET Positions(b, s) OBVIOUS
<1>2. OthersQuantity(b, s, p, id) \in Nat
  <2> HIDE DEF P
  <2>1. Quantity(b, s, P) \in Nat BY <1>1, QuantityType
  <2> QED BY <2>1 DEF OthersQuantity, P
<1>3. o.id = id /\ o.side = s /\ o.price = p BY DEF TopUpOrder
<1>4. o.qty \in Nat BY <1>2 DEF TopUpOrder
<1>5. o.id \in Ids BY <1>3, AgentLevelOrderAtHome
<1>6. o.qty # 0 => o \in Order BY <1>3, <1>4, <1>5 DEF TopUpOrder, Order, Lots
<1>7. o.qty = IF m > OthersQuantity(b, s, p, id) THEN m - OthersQuantity(b, s, p, id) ELSE 0
  BY DEF TopUpOrder
<1> HIDE DEF o
<1> QED BY <1>2, <1>3, <1>4, <1>6, <1>7 DEF o

(* A top-up adds at most the order of its level.                           *)
LEMMA TopUpAdds ==
  ASSUME NEW b, Good(b), NEW s \in Sides, NEW p \in Prices, NEW m \in Nat, NEW a \in Agents
  PROVE  OnlyAdds(b, EnsureLevelMinimum(b, s, p, m, a), {TopUpOrder(b, s, p, m, a)})
<1>1. PICK o : o = TopUpOrder(b, s, p, m, a) OBVIOUS
<1>2. o.qty \in Nat /\ (o.qty # 0 => o \in Order) BY <1>1, TopUpType
<1>3. EnsureLevelMinimum(b, s, p, m, a) = UpdateAgentLevel(b, o) BY <1>1 DEF EnsureLevelMinimum
<1>4. CASE o.qty = 0
  <2>1. UpdateAgentLevel(b, o) = CancelOrder(b, o.id) BY <1>4 DEF UpdateAgentLevel
  <2>2. OnlyAdds(b, CancelOrder(b, o.id), {}) BY CancelAdds
  <2>3. OnlyAdds(b, CancelOrder(b, o.id), {o}) BY <2>2 DEF OnlyAdds
  <2> QED BY <1>1, <1>3, <2>1, <2>3
<1>5. CASE o.qty # 0
  <2>1. OnlyAdds(b, UpdateAgentLevel(b, o), {o}) BY <1>2, <1>5, UpdateAgentLevelAdds
  <2> QED BY <1>1, <1>3, <2>1
<1> QED BY <1>4, <1>5

(* A queue that is written twice holds what was written last.              *)
LEMMA PutQueueTwice ==
  ASSUME NEW lv, NEW p, NEW q, NEW r, r # <<>>
  PROVE  PutQueue(PutQueue(lv, p, q), p, r) = PutQueue(lv, p, r)
<1>1. DOMAIN PutQueue(lv, p, q) \cup {p} = DOMAIN lv \cup {p}
      /\ \A x \in DOMAIN lv \ {p} : PutQueue(lv, p, q)[x] = lv[x]
  BY DEF PutQueue
<1> QED BY <1>1 DEF PutQueue

(* While the order an agent's level replaces rests on that level, the      *)
(* reference, which looks only there, and the port do the same.            *)
LEMMA SamePlaceUpdate ==
  ASSUME NEW b, Good(b), NEW o \in Order,
         o.id \in DOMAIN b.orders => SamePlace(b.orders[o.id], o)
  PROVE  UpdateAgentLevelHere(b, o) = UpdateAgentLevel(b, o)
<1> DEFINE s == o.side
           p == o.price
           old == QueueAt(b, s, p)
           q == Without(old, o.id)
           r == Append(q, o)
<1>1. ~(o.qty <= 0) /\ s \in Sides /\ p \in Prices BY DEF Order, Lots
<1>2. IsBook(b) /\ b = [levels |-> b.levels, orders |-> b.orders] /\ b.levels = [t \in Sides |-> b.levels[t]]
  BY DEF Good, IsBook
<1>3. UpdateAgentLevelHere(b, o) = SetQueue(b, s, p, r, PutOrder(b.orders, o))
  BY <1>1 DEF UpdateAgentLevelHere
<1>4. old \in Seq(Order)
  <2>1. CASE p \in DOMAIN b.levels[s] BY <1>1, <1>2, <2>1, BookType DEF QueueAt, HasLevel
  <2>2. CASE p \notin DOMAIN b.levels[s]
    <3>1. old = <<>> BY <2>2 DEF QueueAt, HasLevel
    <3> QED BY <3>1
  <2> QED BY <2>1, <2>2
<1>5. CASE ~Known(b, o.id)
  <2>1. o.id \notin DOMAIN b.orders BY <1>5 DEF Known
  <2>2. ASSUME NEW i \in DOMAIN old, old[i].id = o.id PROVE FALSE
    <3>1. p \in DOMAIN b.levels[s] /\ old = b.levels[s][p] /\ i \in 1..Len(b.levels[s][p])
      BY <1>4, <2>2 DEF QueueAt, HasLevel
    <3>2. b.levels[s][p][i].id \in DOMAIN b.orders
      BY <1>1, <3>1 DEF Good, QueuedAreIndexed
    <3> QED BY <2>1, <2>2, <3>1, <3>2
  <2>3. q = old BY <2>2 DEF Without
  <2>4. UpdateAgentLevel(b, o) = Appended(b, o) BY <1>1, <1>5 DEF UpdateAgentLevel
  <2>5. Appended(b, o) = SetQueue(b, s, p, Append(old, o), PutOrder(b.orders, o)) BY DEF Appended
  <2> QED BY <1>3, <2>3, <2>4, <2>5
<1>6. CASE Known(b, o.id)
  <2> DEFINE x == b.orders[o.id]
             c == Removed(b, x)
  <2>1. o.id \in DOMAIN b.orders /\ x.id = o.id /\ x.side = s /\ x.price = p
    BY <1>6 DEF Known, SamePlace
  <2>2. p \in DOMAIN b.levels[s] BY <2>1, <1>1, LevelsFromIndex
  <2>3. old = b.levels[s][p] BY <2>2 DEF QueueAt, HasLevel
  <2>4. c = SetQueue(b, s, p, q, DropOrder(b.orders, o.id)) BY <2>1, <2>3 DEF Removed
  <2>5. UpdateAgentLevel(b, o) = Appended(c, o) BY <1>1, <1>6 DEF UpdateAgentLevel
  <2> HIDE DEF s, p, old, q, c, x
  <2>6. /\ c.orders = DropOrder(b.orders, o.id)
        /\ c.levels = [t \in Sides |-> IF t = s THEN PutQueue(b.levels[s], p, q) ELSE b.levels[t]]
    BY <1>1, <1>2, <2>4, SetQueueFacts
  <2>7. QueueAt(c, s, p) = q
    <3>1. c.levels[s] = PutQueue(b.levels[s], p, q) BY <1>1, <2>6
    <3> QED BY <3>1 DEF QueueAt, HasLevel, PutQueue
  <2>8. Appended(c, o) = SetQueue(c, s, p, r, PutOrder(c.orders, o)) BY <2>7 DEF Appended, s, p
  <2>9. PutOrder(c.orders, o) = PutOrder(b.orders, o) BY <2>1, <2>6 DEF PutOrder, DropOrder
  <2>10. r # <<>>
    <3>1. q \in Seq(Order)
      <4>1. PICK k \in 1..Len(old) : old[k] = x
        BY <1>1, <2>1, <2>3 DEF Good, IndexedAreQueued, x
      <4>2. \A i, j \in 1..Len(old) : old[i].id = old[j].id => i = j
        BY <1>1, <2>2, <2>3 DEF Good, QueuedOnce
      <4>3. old[k].id = o.id BY <2>1, <4>1
      <4>4. Without(old, old[k].id) \in Seq(Order) BY <1>4, <4>2, WithoutFacts
      <4> QED BY <4>3, <4>4 DEF q
    <3> QED BY <3>1
  <2> HIDE DEF r
  <2>11. [c.levels EXCEPT ![s] = PutQueue(c.levels[s], p, r)] = [b.levels EXCEPT ![s] = PutQueue(b.levels[s], p, r)]
    <3>1. PutQueue(PutQueue(b.levels[s], p, q), p, r) = PutQueue(b.levels[s], p, r)
      BY <2>10, PutQueueTwice
    <3>2. PutQueue(c.levels[s], p, r) = PutQueue(b.levels[s], p, r) BY <1>1, <2>6, <3>1
    <3> QED BY <1>1, <1>2, <2>6, <3>2
  <2> QED BY <1>3, <2>5, <2>8, <2>9, <2>11 DEF SetQueue
<1> QED BY <1>5, <1>6

-----------------------------------------------------------------------------
(* The quantity of a level by the ids of its orders                        *)

(* The lots at some positions are those of the orders there.               *)
LEMMA QuantityOfIds ==
  ASSUME NEW b, Good(b), NEW s \in Sides, NEW P \in SUBSET Positions(b, s),
         NEW I \in SUBSET DOMAIN b.orders, I = {OrderAt(b, s, pos).id : pos \in P}
  PROVE  /\ IsFiniteSet(LotsOfIds(b, I)) /\ Cardinality(LotsOfIds(b, I)) \in Nat
         /\ Cardinality(LotsOfIds(b, I)) = Quantity(b, s, P)
<1> DEFINE L == LotsAt(b, s, P)
           M == LotsOfIds(b, I)
           f == [l \in L |-> <<OrderAt(b, s, l[1]).id, l[2]>>]
<1>1. IsFiniteSet(L) /\ Cardinality(L) \in Nat BY QuantityType DEF Quantity
<1>2. \A l : l \in L <=> \E pos \in P : \E n \in 1..OrderAt(b, s, pos).qty : l = <<pos, n>>
  BY DEF LotsAt
<1>3. \A m : m \in M <=> \E id \in I : \E n \in 1..b.orders[id].qty : m = <<id, n>>
  BY DEF LotsOfIds
<1>4. \A pos \in P : OrderAt(b, s, pos).id \in I /\ b.orders[OrderAt(b, s, pos).id] = OrderAt(b, s, pos)
  BY PositionType
<1>5. \A id \in I : \E pos \in P : OrderAt(b, s, pos) = b.orders[id] /\ OrderAt(b, s, pos).id = id
  BY PositionType
<1>6. \A x, y \in P : OrderAt(b, s, x).id = OrderAt(b, s, y).id => x = y BY OnePosition
<1> HIDE DEF L, M
<1>7. ASSUME NEW l \in L PROVE f[l] \in M
  <2>1. PICK pos \in P : \E n \in 1..OrderAt(b, s, pos).qty : l = <<pos, n>> BY <1>2
  <2>2. PICK n \in 1..OrderAt(b, s, pos).qty : l = <<pos, n>> BY <2>1
  <2>3. f[l] = <<OrderAt(b, s, pos).id, n>> BY <2>2
  <2> QED BY <1>3, <1>4, <2>2, <2>3
<1>8. ASSUME NEW l \in L, NEW k \in L, f[l] = f[k] PROVE l = k
  <2>1. PICK x \in P : \E i : l = <<x, i>> BY <1>2
  <2>2. PICK y \in P : \E j : k = <<y, j>> BY <1>2
  <2>4. PICK i : l = <<x, i>> BY <2>1
  <2>5. PICK j : k = <<y, j>> BY <2>2
  <2>3. f[l] = <<OrderAt(b, s, x).id, i>> /\ f[k] = <<OrderAt(b, s, y).id, j>> BY <2>4, <2>5
  <2> HIDE DEF f
  <2> QED BY <1>6, <1>8, <2>1, <2>2, <2>3, <2>4, <2>5
<1>9. ASSUME NEW m \in M PROVE \E l \in L : f[l] = m
  <2>1. PICK id \in I : \E n \in 1..b.orders[id].qty : m = <<id, n>> BY <1>3
  <2>2. PICK n \in 1..b.orders[id].qty : m = <<id, n>> BY <2>1
  <2>3. PICK pos \in P : OrderAt(b, s, pos) = b.orders[id] /\ OrderAt(b, s, pos).id = id BY <1>5
  <2>4. <<pos, n>> \in L BY <1>2, <2>2, <2>3
  <2>5. f[<<pos, n>>] = <<id, n>> BY <2>3, <2>4
  <2> QED BY <2>2, <2>4, <2>5
<1>10. f \in Surjection(L, M) BY <1>7, <1>9 DEF Surjection
<1>11. f \in Injection(L, M) BY <1>7, <1>8 DEF Injection, IsInjective
<1> HIDE DEF f
<1>12. IsFiniteSet(M) /\ Cardinality(M) = Cardinality(L) BY <1>1, <1>10, <1>11, FS_Surjection
<1> QED BY <1>1, <1>12 DEF Quantity, L, M

(* The quantity of a level, and of a level without one order, counts the   *)
(* lots of the ids that rest there.                                        *)
LEMMA LevelQuantityOfIds ==
  ASSUME NEW b, Good(b), NEW s \in Sides, NEW p
  PROVE  /\ IsFiniteSet(LotsOfIds(b, IdsAt(b, s, p))) /\ LevelQuantity(b, s, p) \in Nat
         /\ LevelQuantity(b, s, p) = Cardinality(LotsOfIds(b, IdsAt(b, s, p)))
         /\ \A id : /\ IsFiniteSet(LotsOfIds(b, IdsAt(b, s, p) \ {id}))
                    /\ OthersQuantity(b, s, p, id) = Cardinality(LotsOfIds(b, IdsAt(b, s, p) \ {id}))
<1>1. \A pos \in Positions(b, s) : /\ OrderAt(b, s, pos).side = s /\ OrderAt(b, s, pos).price = pos[1]
                                   /\ OrderAt(b, s, pos).id \in DOMAIN b.orders
                                   /\ b.orders[OrderAt(b, s, pos).id] = OrderAt(b, s, pos)
  BY PositionType
<1>2. \A id \in IdsAt(b, s, p) : \E pos \in Positions(b, s) :
        OrderAt(b, s, pos) = b.orders[id] /\ OrderAt(b, s, pos).id = id /\ pos[1] = p
  BY OrderHasPosition DEF IdsAt
<1>3. PICK P : P = {pos \in Positions(b, s) : pos[1] = p} OBVIOUS
<1>4. IdsAt(b, s, p) = {OrderAt(b, s, pos).id : pos \in P} /\ IdsAt(b, s, p) \subseteq DOMAIN b.orders
      /\ P \in SUBSET Positions(b, s)
  <2>1. \A id \in IdsAt(b, s, p) : id \in {OrderAt(b, s, pos).id : pos \in P} BY <1>2, <1>3
  <2>2. \A pos \in P : OrderAt(b, s, pos).id \in IdsAt(b, s, p) BY <1>1, <1>3 DEF IdsAt
  <2>3. IdsAt(b, s, p) \subseteq DOMAIN b.orders BY DEF IdsAt
  <2> QED BY <2>1, <2>2, <2>3, <1>3
<1>5. LevelQuantity(b, s, p) = Quantity(b, s, P) BY <1>3 DEF LevelQuantity
<1>6. PICK I \in SUBSET DOMAIN b.orders : I = IdsAt(b, s, p) BY <1>4
<1>7. /\ IsFiniteSet(LotsOfIds(b, I)) /\ Cardinality(LotsOfIds(b, I)) \in Nat
      /\ Cardinality(LotsOfIds(b, I)) = Quantity(b, s, P)
  BY <1>4, <1>6, QuantityOfIds
<1>8. ASSUME NEW id
      PROVE  /\ IsFiniteSet(LotsOfIds(b, IdsAt(b, s, p) \ {id}))
             /\ OthersQuantity(b, s, p, id) = Cardinality(LotsOfIds(b, IdsAt(b, s, p) \ {id}))
  <2>1. PICK Q : Q = {pos \in Positions(b, s) : pos[1] = p /\ OrderAt(b, s, pos).id # id} OBVIOUS
  <2>2. PICK J : J = IdsAt(b, s, p) \ {id} OBVIOUS
  <2>3. J = {OrderAt(b, s, pos).id : pos \in Q} /\ J \in SUBSET DOMAIN b.orders
        /\ Q \in SUBSET Positions(b, s)
    <3>1. \A k \in J : k \in {OrderAt(b, s, pos).id : pos \in Q} BY <1>2, <2>1, <2>2
    <3>2. \A pos \in Q : OrderAt(b, s, pos).id \in J BY <1>1, <2>1, <2>2 DEF IdsAt
    <3>3. J \in SUBSET DOMAIN b.orders BY <2>2 DEF IdsAt
    <3> QED BY <3>1, <3>2, <3>3, <2>1
  <2>4. /\ IsFiniteSet(LotsOfIds(b, J)) /\ Cardinality(LotsOfIds(b, J)) = Quantity(b, s, Q)
    BY <2>3, QuantityOfIds
  <2>5. OthersQuantity(b, s, p, id) = Quantity(b, s, Q) BY <2>1 DEF OthersQuantity
  <2> QED BY <2>2, <2>4, <2>5
<1> QED BY <1>5, <1>6, <1>7, <1>8

(* ensureLevelMinimum leaves its level with at least the minimum, and      *)
(* every other level with what it had, the agent's order being at home.    *)
LEMMA MinimumEnsured ==
  ASSUME NEW b, Good(b), NEW s \in Sides, NEW p \in Prices, NEW m \in Nat, NEW a \in Agents,
         NEW id, id = AgentLevelId(s, p, a),
         id \in DOMAIN b.orders => b.orders[id].side = s /\ b.orders[id].price = p
  PROVE  /\ LevelQuantity(EnsureLevelMinimum(b, s, p, m, a), s, p) >= m
         /\ \A t \in Sides, x \in Prices : t # s \/ x # p =>
              LevelQuantity(EnsureLevelMinimum(b, s, p, m, a), t, x) = LevelQuantity(b, t, x)
<1>1. PICK o : o = TopUpOrder(b, s, p, m, a) OBVIOUS
<1>2. PICK others : others = OthersQuantity(b, s, p, id) OBVIOUS
<1>3. /\ o.id = id /\ o.side = s /\ o.price = p /\ others \in Nat
      /\ o.qty = (IF m > others THEN m - others ELSE 0)
      /\ o.qty \in Nat /\ (o.qty # 0 => o \in Order)
  BY <1>1, <1>2, TopUpType
<1>4. PICK c : c = EnsureLevelMinimum(b, s, p, m, a) OBVIOUS
<1>5. c = UpdateAgentLevel(b, o) /\ Good(c) BY <1>1, <1>4, EnsureLevelMinimumGood DEF EnsureLevelMinimum
<1>6. PICK rest : rest = IdsAt(b, s, p) \ {id} OBVIOUS
<1>7. /\ IsFiniteSet(LotsOfIds(b, rest)) /\ Cardinality(LotsOfIds(b, rest)) = others
  BY <1>2, <1>6, LevelQuantityOfIds
<1>8. /\ \A k \in DOMAIN b.orders \ {id} : k \in DOMAIN c.orders /\ c.orders[k] = b.orders[k]
      /\ o.qty = 0 => DOMAIN c.orders = DOMAIN b.orders \ {id}
      /\ o.qty # 0 => DOMAIN c.orders = DOMAIN b.orders \cup {id} /\ c.orders[id] = o
  <2>1. CASE o.qty = 0
    <3>1. c = CancelOrder(b, id) BY <1>3, <1>5, <2>1 DEF UpdateAgentLevel
    <3> QED BY <2>1, <3>1, CancelIndex
  <2>2. CASE o.qty # 0 BY <2>2, <1>3, <1>5, UpdateAgentLevelIndex
  <2> QED BY <2>1, <2>2
<1>9. LotsOfIds(c, rest) = LotsOfIds(b, rest)
  <2>1. \A k \in rest : c.orders[k] = b.orders[k] BY <1>6, <1>8 DEF IdsAt
  <2> QED BY <2>1 DEF LotsOfIds
<1>10. LevelQuantity(c, s, p) >= m
  <2>1. /\ IsFiniteSet(LotsOfIds(c, IdsAt(c, s, p)))
        /\ LevelQuantity(c, s, p) = Cardinality(LotsOfIds(c, IdsAt(c, s, p)))
    BY <1>5, LevelQuantityOfIds
  <2>2. CASE o.qty = 0
    <3>1. IdsAt(c, s, p) = rest BY <1>6, <1>8, <2>2 DEF IdsAt
    <3> QED BY <1>3, <1>7, <1>9, <2>1, <2>2, <3>1
  <2>3. CASE o.qty # 0
    <3>1. IdsAt(c, s, p) = rest \cup {id} /\ id \notin rest /\ c.orders[id].qty = o.qty
      BY <1>3, <1>6, <1>8, <2>3 DEF IdsAt
    <3>2. PICK own : own = {<<id, n>> : n \in 1..o.qty} OBVIOUS
    <3>3. IsFiniteSet(own) /\ Cardinality(own) = o.qty
      <4>1. PICK k \in Nat : k = o.qty BY <1>3
      <4>3. PICK x : x = id OBVIOUS
      <4>2. /\ IsFiniteSet({<<x, n>> : n \in 1..k})
            /\ Cardinality({<<x, n>> : n \in 1..k}) = k
        BY LotsOfOrder
      <4> QED BY <3>2, <4>1, <4>2, <4>3
    <3>4. LotsOfIds(c, IdsAt(c, s, p)) = LotsOfIds(b, rest) \cup own
      <4>1. LotsOfIds(c, rest \cup {id}) = LotsOfIds(c, rest) \cup {<<id, n>> : n \in 1..c.orders[id].qty}
        BY DEF LotsOfIds
      <4> QED BY <4>1, <3>1, <3>2, <1>9
    <3>5. LotsOfIds(b, rest) \cap own = {} BY <3>1, <3>2 DEF LotsOfIds
    <3>6. Cardinality(LotsOfIds(b, rest) \cup own) = others + o.qty
      <4>1. PICK U : U = LotsOfIds(b, rest) OBVIOUS
      <4>2. /\ Cardinality(U \cup own) = Cardinality(U) + Cardinality(own) - Cardinality(U \cap own)
        BY <1>7, <3>3, <4>1, FS_Union
      <4>3. Cardinality(U \cap own) = 0 BY <3>5, <4>1, FS_EmptySet
      <4> QED BY <4>1, <4>2, <4>3, <1>7, <1>3, <3>3
    <3> QED BY <1>3, <2>1, <2>3, <3>4, <3>6
  <2> QED BY <2>2, <2>3
<1>11. ASSUME NEW t \in Sides, NEW x \in Prices, t # s \/ x # p
       PROVE  LevelQuantity(c, t, x) = LevelQuantity(b, t, x)
  <2>1. IdsAt(c, t, x) = IdsAt(b, t, x) /\ \A k \in IdsAt(b, t, x) : c.orders[k] = b.orders[k]
    BY <1>3, <1>8, <1>11 DEF IdsAt
  <2>2. LotsOfIds(c, IdsAt(c, t, x)) = LotsOfIds(b, IdsAt(b, t, x)) BY <2>1 DEF LotsOfIds
  <2>3. /\ LevelQuantity(c, t, x) = Cardinality(LotsOfIds(c, IdsAt(c, t, x)))
        /\ LevelQuantity(b, t, x) = Cardinality(LotsOfIds(b, IdsAt(b, t, x)))
    BY <1>5, LevelQuantityOfIds
  <2> QED BY <2>2, <2>3
<1> QED BY <1>4, <1>10, <1>11

-----------------------------------------------------------------------------
(* Places *)

(* The levels of the ladder are within its span and apart from each other. *)
LEMMA LadderPlaces ==
  ASSUME NEW side \in Sides, NEW i \in 1..Levels
  PROVE  /\ Span \in Nat /\ Ladder(side, i) \in Int /\ Near(side, Ladder(side, i))
         /\ Ladder(side, i) \in Prices /\ LadderTarget(i) \in Lots
         /\ \A j \in 1..Levels : Ladder(side, i) = Ladder(side, j) => i = j
<1>1. Levels \in Nat /\ Spacing \in Nat /\ Spacing >= 1 /\ ReferencePrice \in Nat
  BY LadderAssumption, ReachAssumption
<1>2. BaseLots \in Nat /\ BaseLots >= 1 /\ UnitLots \in Nat BY LadderAssumption DEF Lots
<1>3. i \in Nat /\ i >= 1 /\ i <= Levels BY <1>1
<1>4. i * Spacing \in Nat /\ i * Spacing >= 1 BY <1>1, <1>3
<1>5. Span \in Nat /\ i * Spacing <= Span
  <2>1. (Levels - i) * Spacing \in Nat BY <1>1, <1>3
  <2>2. Levels * Spacing = (Levels - i) * Spacing + i * Spacing BY <1>1, <1>3
  <2>3. Levels * Spacing \in Nat BY <1>1
  <2> QED BY <2>1, <2>2, <2>3, <1>4 DEF Span
<1>6. ASSUME NEW j \in 1..Levels, i * Spacing = j * Spacing PROVE i = j
  <2>1. j \in Nat BY <1>1
  <2>2. (i - j) * Spacing = 0 BY <1>1, <1>3, <1>6, <2>1
  <2> QED BY <1>1, <1>3, <2>1, <2>2
<1>7. (i - 1) * UnitLots \in Nat BY <1>2, <1>3
<1>8. LadderTarget(i) \in Lots BY <1>2, <1>7 DEF LadderTarget, Lots
<1>9. Ladder(side, i) = IF side = "buy" THEN ReferencePrice - i * Spacing ELSE ReferencePrice + i * Spacing
  BY DEF Ladder, Away
<1>10. PICK d : d = i * Spacing OBVIOUS
<1>11. Near(side, Ladder(side, i)) /\ Ladder(side, i) \in Int
  BY <1>1, <1>4, <1>5, <1>9, <1>10, SidesFacts DEF Near
<1>12. Ladder(side, i) \in Prices
  <2>1. Ladder(side, i) \in (ReferencePrice - Span - 4)..(ReferencePrice + Span + 7)
    BY <1>1, <1>4, <1>5, <1>9, <1>10
  <2> QED BY <2>1, ReachAssumption DEF Span
<1>13. ASSUME NEW j \in 1..Levels, Ladder(side, i) = Ladder(side, j) PROVE i = j
  <2>1. j * Spacing \in Int BY <1>1
  <2>2. PICK e : e = j * Spacing OBVIOUS
  <2>3. Ladder(side, j) = IF side = "buy" THEN ReferencePrice - e ELSE ReferencePrice + e
    BY <2>2 DEF Ladder, Away
  <2>4. d = e BY <1>1, <1>4, <1>9, <1>10, <1>13, <2>1, <2>2, <2>3
  <2> QED BY <1>6, <1>10, <2>2, <2>4
<1> QED BY <1>5, <1>8, <1>11, <1>12, <1>13

(* The ids of the wall and of the layers are different from each other,    *)
(* and none of them is made up by the book.                                *)
LEMMA AbuseIdsFacts ==
  /\ \A i, j \in 0..2 : LayerId(i) = LayerId(j) => i = j
  /\ \A i \in 0..2 : LayerId(i) # WallId
  /\ AbuseIds \cap (LevelIds \cup AgentLevelIds) = {}
  /\ AbuseIds \subseteq ClientIds /\ AbuseIds \subseteq Ids
  /\ MarketId \in Ids
<1>1. \A i, j \in 0..2 : LayerId(i) = LayerId(j) => i = j BY DEF LayerId
<1>2. \A i \in 0..2 : LayerId(i) # WallId
  <2>1. Len(WallId) = 1 BY DEF WallId
  <2>2. \A i \in 0..2 : Len(LayerId(i)) = 2 BY DEF LayerId
  <2> QED BY <2>1, <2>2
<1>3. AbuseIds \subseteq ClientIds /\ MarketId \in ClientIds BY ParticipantsAssumption DEF AbuseIds
<1> QED BY <1>1, <1>2, <1>3, IdsAssumption DEF Ids

(* An order of a place the run allows is within the prices of the book and *)
(* on its side of the reference price.                                     *)
LEMMA AllowedPlaces ==
  ASSUME NEW w \in Plans, WallFits(w), NEW side \in Sides, NEW p, Allowed(w, side, p)
  PROVE  /\ p \in Prices
         /\ side = "buy" => p < ReferencePrice
         /\ side = "sell" => p > ReferencePrice
<1>1. ReferencePrice \in Nat /\ Span \in Nat
  BY LadderAssumption, ReachAssumption DEF Span
<1>2. (ReferencePrice - Span - 4)..(ReferencePrice + Span + 7) \subseteq Prices
  BY ReachAssumption DEF Span
<1>3. w.wall \in Nat /\ w.side \in Sides BY DEF Plans
<1>4. CASE Near(side, p) BY <1>1, <1>2, <1>4, SidesFacts DEF Near
<1>5. CASE ~Near(side, p)
  <2>1. PICK id \in AbuseIds : AbusePlace(w, id, side, p) BY <1>5 DEF Allowed
  <2>2. w.wall # 0 BY <2>1 DEF AbusePlace
  <2>3. CASE w.name = "spoofing_like_wall"
    <3>1. side = "sell" /\ p = w.wall BY <2>1, <2>3 DEF AbusePlace
    <3>2. w.wall \in (ReferencePrice + 1)..(ReferencePrice + Span + 2)
      BY <2>2, <2>3 DEF WallFits
    <3> QED BY <1>1, <1>2, <3>1, <3>2
  <2>4. CASE w.name # "spoofing_like_wall"
    <3>1. w.name = "layering_like" /\ side = w.side BY <2>1, <2>4 DEF AbusePlace
    <3>2. PICK i \in 0..2 : p = Away(side, w.wall, i) BY <2>1, <2>4 DEF AbusePlace
    <3>3. CASE side = "sell"
      <4>1. w.wall \in (ReferencePrice + 1)..(ReferencePrice + Span + 2)
        BY <2>2, <3>1, <3>3 DEF WallFits
      <4>2. p = w.wall + i BY <3>2, <3>3 DEF Away
      <4> QED BY <1>1, <1>2, <4>1, <4>2, <3>3
    <3>4. CASE side = "buy"
      <4>1. w.wall \in (ReferencePrice - Span - 2)..(ReferencePrice - 1)
        BY <2>2, <3>1, <3>4 DEF WallFits
      <4>2. p = w.wall - i BY <3>2, <3>4 DEF Away
      <4> QED BY <1>1, <1>2, <4>1, <4>2, <3>4
    <3> QED BY <3>3, <3>4, SidesFacts
  <2> QED BY <2>3, <2>4
<1> QED BY <1>4, <1>5

(* An agent's id for a level is at home there; a level's id has no home.   *)
LEMMA Homes ==
  ASSUME NEW w, NEW s \in Sides, NEW p \in Prices
  PROVE  /\ \A a \in Agents : HomeOf(w, AgentLevelId(s, p, a), s, p) /\ AgentLevelId(s, p, a) \in AgentLevelIds
         /\ \A t, x : HomeOf(w, LevelId(s, p), t, x)
<1>1. ASSUME NEW a \in Agents PROVE HomeOf(w, AgentLevelId(s, p, a), s, p)
  <2>1. AgentLevelId(s, p, a) \in AgentLevelIds BY DEF AgentLevelIds
  <2>2. ASSUME NEW t \in Sides, NEW x \in Prices, NEW d \in Agents, AgentLevelId(s, p, a) = AgentLevelId(t, x, d)
        PROVE  s = t /\ p = x
    <3>1. s = t /\ PriceName(p) = PriceName(x) BY <2>2 DEF AgentLevelId
    <3> QED BY <3>1, PricesAssumption
  <2> QED BY <2>1, <2>2, AbuseIdsFacts DEF HomeOf
<1>2. \A t \in Sides, x \in Prices, a \in Agents : LevelId(s, p) # AgentLevelId(t, x, a)
  <2>1. Len(LevelId(s, p)) = 3 BY DEF LevelId
  <2>2. \A t \in Sides, x \in Prices, a \in Agents : Len(AgentLevelId(t, x, a)) = 4 BY DEF AgentLevelId
  <2> QED BY <2>1, <2>2
<1>3. LevelId(s, p) \notin AbuseIds BY AbuseIdsFacts DEF LevelIds
<1>4. \A a \in Agents : AgentLevelId(s, p, a) \in AgentLevelIds BY DEF AgentLevelIds
<1> QED BY <1>1, <1>2, <1>3, <1>4 DEF HomeOf

(* An id of an agent or of a scenario has one home.                        *)
LEMMA OneHome ==
  ASSUME NEW w, NEW id \in AbuseIds \cup AgentLevelIds, NEW s, NEW p, NEW t, NEW x,
         HomeOf(w, id, s, p), HomeOf(w, id, t, x)
  PROVE  s = t /\ p = x
<1>1. CASE id \in AgentLevelIds
  <2>1. PICK s1 \in Sides, p1 \in Prices, a1 \in Agents : id = AgentLevelId(s1, p1, a1)
    BY <1>1 DEF AgentLevelIds
  <2> QED BY <2>1 DEF HomeOf
<1>2. CASE id \in AbuseIds
  <2>1. AbusePlace(w, id, s, p) /\ AbusePlace(w, id, t, x) BY <1>2 DEF HomeOf
  <2>2. CASE w.name = "spoofing_like_wall" BY <2>1, <2>2 DEF AbusePlace
  <2>3. CASE w.name # "spoofing_like_wall"
    <3>1. PICK i \in 0..2 : id = LayerId(i) /\ p = Away(w.side, w.wall, i) BY <2>1, <2>3 DEF AbusePlace
    <3>2. PICK j \in 0..2 : id = LayerId(j) /\ x = Away(w.side, w.wall, j) BY <2>1, <2>3 DEF AbusePlace
    <3>3. i = j BY <3>1, <3>2, AbuseIdsFacts
    <3> QED BY <2>1, <2>3, <3>1, <3>2, <3>3 DEF AbusePlace
  <2> QED BY <2>2, <2>3
<1> QED BY <1>1, <1>2

-----------------------------------------------------------------------------
(* What one operation of a phase does                                      *)

(* A quote of an agent or a scenario replaces the order of its id where it *)
(* rests: the reference and the port agree.                                *)
LEMMA QuotePerformed ==
  ASSUME NEW w \in Plans, WallFits(w), NEW Q, NEW b, BookFits(w, Q, b), tick \in Nat,
         NEW op \in RunOp, op.kind = "quote", OpFits(w, op)
  PROVE  /\ OrderOf(op) \in Order /\ AtHome(OrderOf(op))
         /\ UpdateAgentLevelHere(b, OrderOf(op)) = UpdateAgentLevel(b, OrderOf(op))
         /\ Good(UpdateAgentLevel(b, OrderOf(op)))
<1>1. PICK o : o = OrderOf(op) OBVIOUS
<1>2. /\ op.lots \in Lots /\ op.price \in Prices /\ op.id \in AbuseIds \cup AgentLevelIds
      /\ HomeOf(w, op.id, op.side, op.price)
  BY DEF OpFits
<1>3. /\ o.id = op.id /\ o.side = op.side /\ o.price = op.price /\ o.qty = op.lots
      /\ o \in Order
  BY <1>1, <1>2 DEF OrderOf, Order, RunOp
<1>4. AtHome(o)
  <2>1. CASE op.id \in AbuseIds BY <2>1, <1>3, AbuseIdsFacts, ClientOrderAtHome
  <2>2. CASE op.id \in AgentLevelIds
    <3>1. PICK s \in Sides, p \in Prices, a \in Agents : o.id = AgentLevelId(s, p, a)
      BY <1>3, <2>2 DEF AgentLevelIds
    <3> QED BY <3>1, AgentLevelOrderAtHome
  <2> QED BY <1>2, <2>1, <2>2
<1>5. ASSUME o.id \in DOMAIN b.orders PROVE SamePlace(b.orders[o.id], o)
  <2>1. b.orders[o.id].id = o.id BY <1>5, IndexType DEF BookFits
  <2>2. HomeOf(w, o.id, b.orders[o.id].side, b.orders[o.id].price)
    BY <1>5, <2>1 DEF BookFits, OrderFits
  <2>3. HomeOf(w, o.id, o.side, o.price) BY <1>2, <1>3
  <2>4. b.orders[o.id].side = o.side /\ b.orders[o.id].price = o.price
    BY <1>2, <1>3, <2>2, <2>3, OneHome
  <2> QED BY <2>1, <2>4 DEF SamePlace
<1>6. Good(b) BY DEF BookFits
<1>7. UpdateAgentLevelHere(b, o) = UpdateAgentLevel(b, o) BY <1>3, <1>5, <1>6, SamePlaceUpdate
<1>8. o.qty \in Nat BY <1>2, <1>3 DEF Lots
<1>9. Good(UpdateAgentLevel(b, o)) BY <1>3, <1>4, <1>6, <1>8, UpdateAgentLevelGood
<1> QED BY <1>1, <1>3, <1>4, <1>7, <1>9

(* What thinning leaves of a level is a quantity.                          *)
LEMMA ThinQuantityType ==
  ASSUME NEW n \in Nat
  PROVE  ThinQuantity(n) \in Nat
<1>1. ThinFloor \in Nat BY LadderAssumption DEF Lots
<1>2. (n * 35) \div 100 \in Int OBVIOUS
<1>3. PICK down \in Int : down = (n * 35) \div 100 BY <1>2
<1>4. \E target \in {down, down + 1} : ThinQuantity(n) = IF target > ThinFloor THEN target ELSE ThinFloor
  BY <1>3 DEF ThinQuantity
<1> QED BY <1>1, <1>3, <1>4

(* The orders one operation adds fit, whatever is left to do after it.     *)
LEMMA PerformedAdds ==
  ASSUME NEW w \in Plans, NEW Q, NEW b, NEW op \in RunOp, NEW R,
         WallFits(w), BookFits(w, Q, b), tick \in Nat, OpFits(w, op),
         op.kind = "set" => DropComes(R, op.side, op.price)
  PROVE  Good(Performed(b, op)) /\ AddsFit(w, R, op, b, Performed(b, op))
<1>1. Good(b) BY DEF BookFits
<1>2. op.agent \in Agents /\ op.side \in Sides /\ op.kind \in Kinds BY DEF RunOp
<1>3. PICK c : c = Performed(b, op) OBVIOUS
<1> SUFFICES /\ Good(c)
             /\ \E new : /\ OnlyAdds(b, c, new)
                         /\ \A o \in new : /\ OrderFits(w, R, o)
                                           /\ o.id \in AbuseIds => op.kind = "quote" /\ o.id = op.id
  BY <1>3 DEF AddsFit
<1>4. CASE op.kind = "quote"
  <2>1. PICK o : o = OrderOf(op) OBVIOUS
  <2>2. c = UpdateAgentLevelHere(b, o) BY <1>3, <1>4, <2>1 DEF Performed
  <2>3. o \in Order /\ UpdateAgentLevelHere(b, o) = UpdateAgentLevel(b, o) /\ Good(UpdateAgentLevel(b, o))
    BY <1>4, <2>1, QuotePerformed
  <2>4. OnlyAdds(b, c, {o}) BY <1>1, <2>2, <2>3, UpdateAgentLevelAdds
  <2>5. o.id = op.id /\ o.side = op.side /\ o.price = op.price BY <2>1 DEF OrderOf
  <2>6. HomeOf(w, op.id, op.side, op.price) /\ Allowed(w, op.side, op.price) BY <1>4 DEF OpFits
  <2>7. OrderFits(w, R, o) BY <2>5, <2>6 DEF OrderFits
  <2> QED BY <1>4, <2>2, <2>3, <2>4, <2>5, <2>7
<1>5. CASE op.kind = "market"
  <2>1. PICK o : o = OrderOf(op) OBVIOUS
  <2>2. c = Match(b, o, NoLimit) BY <1>3, <1>5, <2>1 DEF Performed
  <2>3. op.lots \in Lots BY <1>5 DEF OpFits
  <2>4. o.side \in Sides /\ o.qty \in Nat BY <1>2, <2>1, <2>3 DEF OrderOf, Lots
  <2>5. Good(c) /\ OnlyAdds(b, c, {}) BY <1>1, <2>2, <2>4, MatchGood, MatchAdds
  <2> QED BY <2>5
<1>6. CASE op.kind = "cancel"
  <2>1. c = CancelOrder(b, op.id) BY <1>3, <1>6 DEF Performed
  <2>2. Good(c) /\ OnlyAdds(b, c, {}) BY <1>1, <2>1, CancelGood, CancelAdds
  <2> QED BY <2>2
<1>7. CASE op.kind = "set"
  <2>1. c = UpdateLevel(b, op.side, op.price, op.lots, op.agent) BY <1>3, <1>7 DEF Performed
  <2>2. op.price \in Prices /\ op.lots \in Nat /\ op.side = "sell" /\ op.price > ReferencePrice
    BY <1>7 DEF OpFits, Lots
  <2>3. PICK o : o = LevelOrder(op.side, op.price, op.lots, op.agent) OBVIOUS
  <2>4. Good(c) BY <1>1, <1>2, <2>1, <2>2, UpdateLevelGood
  <2>5. OnlyAdds(b, c, {o}) BY <1>1, <1>2, <2>1, <2>2, <2>3, UpdateLevelAdds
  <2>6. o.id = LevelId(op.side, op.price) /\ o.side = op.side /\ o.price = op.price
    BY <2>3 DEF LevelOrder
  <2>7. HomeOf(w, o.id, o.side, o.price) BY <1>2, <2>2, <2>6, Homes
  <2>8. OrderFits(w, R, o) BY <1>7, <2>2, <2>6, <2>7 DEF OrderFits
  <2>9. o.id \notin AbuseIds BY <1>2, <2>2, <2>6, AbuseIdsFacts DEF LevelIds
  <2> QED BY <2>4, <2>5, <2>8, <2>9
<1>8. CASE op.kind = "drop"
  <2>1. c = RemoveLevel(b, op.side, op.price) BY <1>3, <1>8 DEF Performed
  <2>2. op.price \in Prices BY <1>8 DEF OpFits
  <2>3. Good(c) /\ OnlyAdds(b, c, {}) BY <1>1, <1>2, <2>1, <2>2, RemoveLevelGood, RemoveLevelAdds
  <2> QED BY <2>3
<1>9. CASE op.kind = "thin"
  <2>1. PICK q : q = ThinQuantity(LevelQuantity(b, op.side, op.price)) OBVIOUS
  <2>2. c = UpdateLevel(b, op.side, op.price, q, op.agent) BY <1>3, <1>9, <2>1 DEF Performed
  <2>3. Allowed(w, op.side, op.price) BY <1>9 DEF OpFits
  <2>4. op.price \in Prices BY <1>2, <2>3, AllowedPlaces
  <2>5. q \in Nat BY <1>1, <1>2, <2>1, LevelQuantityOfIds, ThinQuantityType
  <2>6. PICK o : o = LevelOrder(op.side, op.price, q, op.agent) OBVIOUS
  <2>7. Good(c) BY <1>1, <1>2, <2>2, <2>4, <2>5, UpdateLevelGood
  <2>8. OnlyAdds(b, c, {o}) BY <1>1, <1>2, <2>2, <2>4, <2>5, <2>6, UpdateLevelAdds
  <2>9. o.id = LevelId(op.side, op.price) /\ o.side = op.side /\ o.price = op.price
    BY <2>6 DEF LevelOrder
  <2>10. HomeOf(w, o.id, o.side, o.price) BY <1>2, <2>4, <2>9, Homes
  <2>11. OrderFits(w, R, o) BY <2>3, <2>9, <2>10 DEF OrderFits
  <2>12. o.id \notin AbuseIds BY <1>2, <2>4, <2>9, AbuseIdsFacts DEF LevelIds
  <2> QED BY <2>7, <2>8, <2>11, <2>12
<1>10. CASE op.kind = "repair"
  <2>1. c = EnsureLevelMinimum(b, op.side, op.price, op.lots, op.agent) BY <1>3, <1>10 DEF Performed
  <2>2. PICK level \in 1..Levels : IsRepair(op, op.side, level) BY <1>10 DEF OpFits
  <2>3. /\ op.price = Ladder(op.side, level) /\ op.lots = LadderTarget(level)
    BY <2>2 DEF IsRepair
  <2>4. op.price \in Prices /\ op.lots \in Nat /\ Near(op.side, op.price)
    BY <1>2, <2>3, LadderPlaces DEF Lots
  <2>5. PICK o : o = TopUpOrder(b, op.side, op.price, op.lots, op.agent) OBVIOUS
  <2>6. Good(c) BY <1>1, <1>2, <2>1, <2>4, EnsureLevelMinimumGood
  <2>7. OnlyAdds(b, c, {o}) BY <1>1, <1>2, <2>1, <2>4, <2>5, TopUpAdds
  <2>8. o.id = AgentLevelId(op.side, op.price, op.agent) /\ o.side = op.side /\ o.price = op.price
    BY <1>1, <1>2, <2>4, <2>5, TopUpType
  <2>9. HomeOf(w, o.id, o.side, o.price) /\ o.id \in AgentLevelIds BY <1>2, <2>4, <2>8, Homes
  <2>10. OrderFits(w, R, o) BY <2>4, <2>8, <2>9 DEF OrderFits, Allowed
  <2>11. o.id \notin AbuseIds BY <2>9, AbuseIdsFacts
  <2> QED BY <2>6, <2>7, <2>10, <2>11
<1> QED BY <1>2, <1>4, <1>5, <1>6, <1>7, <1>8, <1>9, <1>10 DEF Kinds

(* A non-empty sequence without its first entry.                           *)
LEMMA TailFacts ==
  ASSUME NEW S, NEW Q \in Seq(S), Q # <<>>
  PROVE  /\ Tail(Q) \in Seq(S) /\ Head(Q) = Q[1] /\ Head(Q) \in S
         /\ Len(Q) \in Nat /\ Len(Q) >= 1 /\ Len(Tail(Q)) = Len(Q) - 1
         /\ DOMAIN Q = 1..Len(Q) /\ DOMAIN Tail(Q) = 1..(Len(Q) - 1)
         /\ \A i \in 1..(Len(Q) - 1) : Tail(Q)[i] = Q[i + 1]
  OBVIOUS

(* What still fits when the head of what is to be done has been done.      *)
LEMMA PerformedFits ==
  ASSUME NEW w \in Plans, WallFits(w), NEW Q, PendingFits(w, Q), Q # <<>>,
         NEW b, BookFits(w, Q, b), tick \in Nat
  PROVE  /\ PendingFits(w, Tail(Q)) /\ BookFits(w, Tail(Q), Performed(b, Head(Q)))
         /\ \A id \in AbuseRests(Performed(b, Head(Q))) :
              id \in AbuseRests(b) \/ (Head(Q).kind = "quote" /\ Head(Q).id = id)
         /\ Head(Q).kind = "cancel" => Head(Q).id \notin DOMAIN Performed(b, Head(Q)).orders
<1>1. PICK R : R = Tail(Q) OBVIOUS
<1>2. PICK op : op = Head(Q) OBVIOUS
<1>3. Q \in Seq(RunOp) BY DEF PendingFits
<1>4. /\ R \in Seq(RunOp) /\ op = Q[1] /\ op \in RunOp
      /\ Len(Q) \in Nat /\ Len(Q) >= 1 /\ Len(R) = Len(Q) - 1
      /\ DOMAIN Q = 1..Len(Q) /\ DOMAIN R = 1..(Len(Q) - 1)
      /\ \A i \in 1..(Len(Q) - 1) : R[i] = Q[i + 1]
  BY <1>1, <1>2, <1>3, TailFacts
<1>5. /\ \A i \in 1..Len(Q) : OpFits(w, Q[i])
      /\ \A i \in 1..Len(Q) : Q[i].kind = "set" =>
           \E j \in 1..Len(Q) : i < j /\ IsDrop(Q[j], Q[i].side, Q[i].price)
  BY DEF PendingFits
<1>6. PendingFits(w, R)
  <2>1. \A i \in 1..Len(R) : OpFits(w, R[i])
    <3> TAKE i \in 1..Len(R)
    <3>1. R[i] = Q[i + 1] /\ i + 1 \in 1..Len(Q) BY <1>4
    <3> QED BY <3>1, <1>5
  <2>2. ASSUME NEW i \in 1..Len(R), R[i].kind = "set"
        PROVE  \E j \in 1..Len(R) : i < j /\ IsDrop(R[j], R[i].side, R[i].price)
    <3>1. R[i] = Q[i + 1] /\ i + 1 \in 1..Len(Q) BY <1>4
    <3>2. PICK j \in 1..Len(Q) : i + 1 < j /\ IsDrop(Q[j], Q[i + 1].side, Q[i + 1].price)
      BY <1>5, <2>2, <3>1
    <3>3. j - 1 \in 1..Len(R) /\ i < j - 1 /\ R[j - 1] = Q[j] BY <1>4, <3>2
    <3> QED BY <3>1, <3>2, <3>3
  <2> QED BY <1>4, <2>1, <2>2 DEF PendingFits
<1>7. OpFits(w, op) BY <1>4, <1>5
<1>8. ASSUME op.kind = "set" PROVE DropComes(R, op.side, op.price)
  <2>1. PICK j \in 1..Len(Q) : 1 < j /\ IsDrop(Q[j], op.side, op.price) BY <1>4, <1>5, <1>8
  <2>2. j - 1 \in DOMAIN R /\ R[j - 1] = Q[j] BY <1>4, <2>1
  <2> QED BY <2>1, <2>2 DEF DropComes
<1>9. PICK c : c = Performed(b, op) OBVIOUS
<1>10. Good(c) /\ AddsFit(w, R, op, b, c)
  <2>1. Good(Performed(b, op)) /\ AddsFit(w, R, op, b, Performed(b, op))
    BY <1>4, <1>7, <1>8, PerformedAdds
  <2> QED BY <1>9, <2>1
<1>11. PICK new : /\ OnlyAdds(b, c, new)
                  /\ \A o \in new : /\ OrderFits(w, R, o)
                                    /\ o.id \in AbuseIds => op.kind = "quote" /\ o.id = op.id
  BY <1>10 DEF AddsFit
<1>12. Good(b) /\ \A id \in DOMAIN b.orders : OrderFits(w, Q, b.orders[id]) BY DEF BookFits
<1>13. ASSUME NEW id \in DOMAIN c.orders PROVE OrderFits(w, R, c.orders[id])
  <2>1. CASE \E o \in new : o.id = id /\ c.orders[id] = o BY <2>1, <1>11
  <2>2. CASE ~\E o \in new : o.id = id /\ c.orders[id] = o
    <3>1. PICK x : x = b.orders[id] OBVIOUS
    <3>2. PICK y : y = c.orders[id] OBVIOUS
    <3>3. id \in DOMAIN b.orders /\ SamePlace(y, x) BY <1>11, <1>13, <2>2, <3>1, <3>2 DEF OnlyAdds
    <3>4. OrderFits(w, Q, x) BY <1>12, <3>1, <3>3
    <3>5. CASE Allowed(w, x.side, x.price) BY <3>2, <3>3, <3>4, <3>5 DEF OrderFits, SamePlace
    <3>6. CASE ~Allowed(w, x.side, x.price)
      <4>1. x.side = "sell" /\ x.price > ReferencePrice /\ DropComes(Q, x.side, x.price)
        BY <3>4, <3>6 DEF OrderFits
      <4>2. PICK i \in 1..Len(Q) : IsDrop(Q[i], x.side, x.price) BY <1>4, <4>1 DEF DropComes
      <4>3. CASE i = 1
        <5>1. op.kind = "drop" /\ op.side = x.side /\ op.price = x.price BY <1>4, <4>2, <4>3 DEF IsDrop
        <5>2. op.side \in Sides /\ op.price \in Prices BY <1>4, <1>7, <5>1 DEF RunOp, OpFits
        <5>3. c = RemoveLevel(b, op.side, op.price) BY <1>9, <5>1 DEF Performed
        <5>4. b.orders[id].side # op.side \/ b.orders[id].price # op.price
          BY <1>12, <1>13, <5>2, <5>3, RemoveLevelGood
        <5> QED BY <3>1, <5>1, <5>4
      <4>4. CASE i # 1
        <5>1. i - 1 \in DOMAIN R /\ R[i - 1] = Q[i] BY <1>4, <4>4
        <5>2. DropComes(R, x.side, x.price) BY <4>2, <5>1 DEF DropComes
        <5> QED BY <3>2, <3>3, <3>4, <4>1, <5>2 DEF OrderFits, SamePlace
      <4> QED BY <4>3, <4>4
    <3> QED BY <3>5, <3>6
  <2> QED BY <2>1, <2>2
<1>14. BookFits(w, R, c) BY <1>10, <1>13 DEF BookFits
<1>15. ASSUME NEW id \in AbuseRests(c), ~(op.kind = "quote" /\ op.id = id) PROVE id \in AbuseRests(b)
  BY <1>11, <1>15 DEF AbuseRests, OnlyAdds
<1>16. ASSUME op.kind = "cancel" PROVE op.id \notin DOMAIN c.orders
  <2>1. c = CancelOrder(b, op.id) BY <1>9, <1>16 DEF Performed
  <2> QED BY <1>12, <2>1, CancelIndex
<1> QED BY <1>1, <1>2, <1>6, <1>9, <1>14, <1>15, <1>16

(* A step of the repair restores its level and leaves the others alone.    *)
LEMMA PerformedRestores ==
  ASSUME NEW w \in Plans, WallFits(w), NEW Q, NEW b, BookFits(w, Q, b),
         NEW op \in RunOp, NEW level \in 1..Levels, IsRepair(op, op.side, level)
  PROVE  /\ Restored(Performed(b, op), op.side, level)
         /\ \A s \in Sides, l \in 1..Levels : Restored(b, s, l) => Restored(Performed(b, op), s, l)
<1>1. op.side \in Sides /\ op.agent \in Agents BY DEF RunOp
<1>2. PICK s : s = op.side OBVIOUS
<1>3. PICK p : p = op.price OBVIOUS
<1>4. PICK m : m = op.lots OBVIOUS
<1>5. PICK a : a = op.agent OBVIOUS
<1>6. PICK c : c = Performed(b, op) OBVIOUS
<1>7. s \in Sides /\ a \in Agents /\ p = Ladder(s, level) /\ m = LadderTarget(level)
  BY <1>1, <1>2, <1>3, <1>4, <1>5 DEF IsRepair
<1>8. p \in Prices /\ m \in Nat BY <1>7, LadderPlaces DEF Lots
<1>9. c = EnsureLevelMinimum(b, s, p, m, a)
  BY <1>2, <1>3, <1>4, <1>5, <1>6 DEF IsRepair, Performed
<1>10. PICK id : id = AgentLevelId(s, p, a) OBVIOUS
<1>11. ASSUME id \in DOMAIN b.orders PROVE b.orders[id].side = s /\ b.orders[id].price = p
  <2>1. b.orders[id].id = id /\ HomeOf(w, b.orders[id].id, b.orders[id].side, b.orders[id].price)
    BY <1>11, IndexType DEF BookFits, OrderFits
  <2> QED BY <1>7, <1>8, <1>10, <2>1 DEF HomeOf
<1>12. /\ LevelQuantity(c, s, p) >= m
       /\ \A t \in Sides, x \in Prices : t # s \/ x # p => LevelQuantity(c, t, x) = LevelQuantity(b, t, x)
  BY <1>7, <1>8, <1>9, <1>10, <1>11, MinimumEnsured DEF BookFits
<1>13. Restored(c, s, level) BY <1>7, <1>12 DEF Restored
<1>14. ASSUME NEW t \in Sides, NEW l \in 1..Levels, Restored(b, t, l) PROVE Restored(c, t, l)
  <2>1. PICK x \in Prices : x = Ladder(t, l) BY LadderPlaces
  <2>2. CASE t = s /\ x = p
    <3>1. l = level BY <1>7, <2>1, <2>2, LadderPlaces
    <3> QED BY <1>13, <2>2, <3>1
  <2>3. CASE t # s \/ x # p
    <3>1. LevelQuantity(c, t, x) = LevelQuantity(b, t, x) BY <1>12, <2>3
    <3> QED BY <1>14, <2>1, <3>1 DEF Restored
  <2> QED BY <2>2, <2>3
<1> QED BY <1>2, <1>6, <1>13, <1>14

-----------------------------------------------------------------------------
(* The invariant at the start                                              *)

(* The orders of the initial ladder: one per level.                        *)
LEMMA LadderOrdersFacts ==
  /\ \A side \in Sides, i \in 1..Levels :
        LET o == LadderOrder(side, i)
        IN  /\ o \in Order /\ o.id = LevelId(side, Ladder(side, i))
            /\ o.side = side /\ o.price = Ladder(side, i) /\ o.qty = LadderTarget(i)
  /\ \A o \in LadderOrders : o \in Order /\ o.id = LevelId(o.side, o.price) /\ Near(o.side, o.price)
  /\ \A o, x \in LadderOrders : o.side = x.side /\ o.price = x.price => o = x
  /\ \A o, x \in LadderOrders : o.id = x.id => o = x
<1>1. ASSUME NEW side \in Sides, NEW i \in 1..Levels
      PROVE  LET o == LadderOrder(side, i)
             IN  /\ o \in Order /\ o.id = LevelId(side, Ladder(side, i))
                 /\ o.side = side /\ o.price = Ladder(side, i) /\ o.qty = LadderTarget(i)
  <2>1. "normal" \in Agents BY ParticipantsAssumption
  <2>2. PICK p \in Prices : p = Ladder(side, i) BY LadderPlaces
  <2>3. PICK q \in Lots : q = LadderTarget(i) BY LadderPlaces
  <2>4. PICK o : o = LevelOrder(side, p, q, "normal") OBVIOUS
  <2>5. o \in Order BY <2>1, <2>4, LevelOrderType
  <2>6. /\ o.id = LevelId(side, p) /\ o.side = side /\ o.price = p /\ o.qty = q
    BY <2>4 DEF LevelOrder
  <2>7. LadderOrder(side, i) = o BY <2>2, <2>3, <2>4 DEF LadderOrder
  <2> QED BY <2>2, <2>3, <2>5, <2>6, <2>7
<1>2. \A o \in LadderOrders : \E side \in Sides : \E i \in 1..Levels : o = LadderOrder(side, i)
  BY DEF LadderOrders
<1>3. ASSUME NEW o \in LadderOrders
      PROVE  o \in Order /\ o.id = LevelId(o.side, o.price) /\ Near(o.side, o.price)
  <2>1. PICK side \in Sides : \E i \in 1..Levels : o = LadderOrder(side, i) BY <1>2
  <2>2. PICK i \in 1..Levels : o = LadderOrder(side, i) BY <2>1
  <2>3. Near(side, Ladder(side, i)) BY LadderPlaces
  <2> QED BY <1>1, <2>2, <2>3
<1>4. ASSUME NEW o \in LadderOrders, NEW x \in LadderOrders, o.side = x.side, o.price = x.price
      PROVE  o = x
  <2>1. PICK s \in Sides : \E i \in 1..Levels : o = LadderOrder(s, i) BY <1>2
  <2>2. PICK i \in 1..Levels : o = LadderOrder(s, i) BY <2>1
  <2>3. PICK t \in Sides : \E j \in 1..Levels : x = LadderOrder(t, j) BY <1>2
  <2>4. PICK j \in 1..Levels : x = LadderOrder(t, j) BY <2>3
  <2>5. s = t /\ Ladder(s, i) = Ladder(t, j) BY <1>1, <1>4, <2>2, <2>4
  <2>6. i = j BY <2>5, LadderPlaces
  <2> QED BY <2>2, <2>4, <2>5, <2>6
<1>5. ASSUME NEW o \in LadderOrders, NEW x \in LadderOrders, o.id = x.id PROVE o = x
  <2>1. LevelId(o.side, o.price) = LevelId(x.side, x.price) BY <1>3, <1>5
  <2>2. o.side = x.side /\ PriceName(o.price) = PriceName(x.price) BY <2>1 DEF LevelId
  <2>3. o.price \in Prices /\ x.price \in Prices BY <1>3 DEF Order
  <2>4. o.price = x.price BY <2>2, <2>3, PricesAssumption
  <2> QED BY <1>4, <2>2, <2>4
<1> QED BY <1>1, <1>3, <1>4, <1>5

(* book.initialize leaves a good book with the whole ladder.               *)
LEMMA InitialBookFacts ==
  /\ Good(InitialBook)
  /\ \A id \in DOMAIN InitialBook.orders : InitialBook.orders[id] \in LadderOrders
  /\ \A side \in Sides, i \in 1..Levels : Restored(InitialBook, side, i)
<1>1. PICK b : b = InitialBook OBVIOUS
<1>2. PICK at : at = [side \in Sides |-> {Ladder(side, i) : i \in 1..Levels}] OBVIOUS
<1>3. /\ b = [levels |-> b.levels, orders |-> b.orders]
      /\ b.levels = [side \in Sides |-> [p \in at[side] |->
                       <<CHOOSE o \in LadderOrders : o.side = side /\ o.price = p>>]]
      /\ b.orders = [id \in {o.id : o \in LadderOrders} |-> CHOOSE o \in LadderOrders : o.id = id]
  BY <1>1, <1>2 DEF InitialBook, LadderOrders
<1>4. ASSUME NEW side \in Sides, NEW p \in at[side]
      PROVE  \E o \in LadderOrders : /\ o.side = side /\ o.price = p
                                     /\ b.levels[side][p] = <<o>>
  <2>1. PICK i \in 1..Levels : p = Ladder(side, i) BY <1>2
  <2>2. LadderOrder(side, i) \in LadderOrders BY DEF LadderOrders
  <2>3. LadderOrder(side, i).side = side /\ LadderOrder(side, i).price = p BY <2>1, LadderOrdersFacts
  <2>4. PICK o \in LadderOrders : o.side = side /\ o.price = p BY <2>2, <2>3
  <2>5. PICK z : z = (CHOOSE o1 \in LadderOrders : o1.side = side /\ o1.price = p) OBVIOUS
  <2>6. z \in LadderOrders /\ z.side = side /\ z.price = p BY <2>4, <2>5
  <2>7. b.levels[side][p] = <<z>> BY <1>3, <2>5
  <2> QED BY <2>6, <2>7
<1>5. /\ DOMAIN b.orders = {o.id : o \in LadderOrders}
      /\ \A o \in LadderOrders : b.orders[o.id] = o
  <2>1. DOMAIN b.orders = {o.id : o \in LadderOrders} BY <1>3
  <2>2. ASSUME NEW o \in LadderOrders PROVE b.orders[o.id] = o
    <3>1. PICK z : z = (CHOOSE x \in LadderOrders : x.id = o.id) OBVIOUS
    <3>2. z \in LadderOrders /\ z.id = o.id BY <3>1
    <3>3. b.orders[o.id] = z BY <1>3, <3>1
    <3> QED BY <3>2, <3>3, LadderOrdersFacts
  <2> QED BY <2>1, <2>2
<1>6. \A o \in LadderOrders : o \in Order /\ o.id = LevelId(o.side, o.price)
  BY LadderOrdersFacts
<1>7. \A o \in LadderOrders : o.side \in Sides /\ o.price \in at[o.side]
  <2> TAKE o \in LadderOrders
  <2>1. PICK side \in Sides : \E i \in 1..Levels : o = LadderOrder(side, i) BY DEF LadderOrders
  <2>2. PICK i \in 1..Levels : o = LadderOrder(side, i) BY <2>1
  <2>3. o.side = side /\ o.price = Ladder(side, i) BY <2>2, LadderOrdersFacts
  <2> QED BY <1>2, <2>3
<1>8. \A side \in Sides : DOMAIN b.levels[side] = at[side] /\ at[side] \subseteq Prices
  <2> TAKE side \in Sides
  <2>1. DOMAIN b.levels[side] = at[side] BY <1>3
  <2>2. at[side] \subseteq Prices BY <1>2, LadderPlaces
  <2> QED BY <2>1, <2>2
<1>9. \A id \in DOMAIN b.orders : b.orders[id] \in LadderOrders /\ b.orders[id].id = id BY <1>5
<1>10. IsBook(b)
  <2>1. \A side \in Sides : IsMap(b.levels[side], Prices, Seq(Order))
    <3> TAKE side \in Sides
    <3>1. ASSUME NEW p \in at[side] PROVE b.levels[side][p] \in Seq(Order)
      <4>1. PICK o \in LadderOrders : b.levels[side][p] = <<o>> BY <1>4
      <4>2. o \in Order BY <1>6
      <4> QED BY <4>1, <4>2
    <3>2. b.levels[side] = [p \in at[side] |-> b.levels[side][p]] BY <1>3
    <3> QED BY <1>8, <3>1, <3>2 DEF IsMap
  <2>2. IsMap(b.orders, Ids, Order)
    <3>1. b.orders = [id \in DOMAIN b.orders |-> b.orders[id]] BY <1>3
    <3>2. \A id \in DOMAIN b.orders : b.orders[id] \in Order /\ id \in Ids BY <1>6, <1>9 DEF Order
    <3> QED BY <3>1, <3>2 DEF IsMap
  <2>3. b.levels = [side \in Sides |-> b.levels[side]] BY <1>3
  <2> QED BY <1>3, <2>1, <2>2, <2>3 DEF IsBook
<1>11. QueuedAreIndexed(b) /\ QueuedOnce(b) /\ NoEmptyLevel(b)
  <2>1. ASSUME NEW s \in Sides, NEW p \in DOMAIN b.levels[s]
        PROVE  /\ b.levels[s][p] # <<>>
               /\ \A i \in 1..Len(b.levels[s][p]) :
                    LET o == b.levels[s][p][i]
                    IN  /\ i = 1 /\ o.side = s /\ o.price = p
                        /\ o.id \in DOMAIN b.orders /\ b.orders[o.id] = o
    <3>1. PICK o \in LadderOrders : o.side = s /\ o.price = p /\ b.levels[s][p] = <<o>>
      BY <1>4, <1>8
    <3>2. o.id \in DOMAIN b.orders /\ b.orders[o.id] = o BY <1>5
    <3> QED BY <3>1, <3>2
  <2> QED BY <2>1 DEF QueuedAreIndexed, QueuedOnce, NoEmptyLevel
<1>12. IndexedAreQueued(b)
  <2>1. ASSUME NEW id \in DOMAIN b.orders, NEW o, o = b.orders[id]
        PROVE  /\ o.id = id /\ o.price \in DOMAIN b.levels[o.side]
               /\ \E i \in 1..Len(b.levels[o.side][o.price]) : b.levels[o.side][o.price][i] = o
    <3>1. o \in LadderOrders /\ o.id = id BY <1>9, <2>1
    <3>2. o.side \in Sides /\ o.price \in at[o.side] BY <1>7, <3>1
    <3>3. PICK x \in LadderOrders : x.side = o.side /\ x.price = o.price
                                    /\ b.levels[o.side][o.price] = <<x>>
      BY <1>4, <3>2
    <3>4. x = o BY <3>1, <3>3, LadderOrdersFacts
    <3>5. Len(b.levels[o.side][o.price]) = 1 /\ b.levels[o.side][o.price][1] = o BY <3>3, <3>4
    <3> QED BY <1>8, <3>1, <3>2, <3>5
  <2> QED BY <2>1 DEF IndexedAreQueued
<1>13. LevelOrdersAtHome(b)
  <2>1. ASSUME NEW id \in DOMAIN b.orders, NEW s \in Sides, NEW p \in Prices, id = LevelId(s, p)
        PROVE  b.orders[id].side = s /\ b.orders[id].price = p
    <3>1. PICK o : o = b.orders[id] OBVIOUS
    <3>2. o \in LadderOrders /\ o.id = id BY <1>9, <3>1
    <3>3. LevelId(o.side, o.price) = LevelId(s, p) /\ o.price \in Prices
      BY <1>6, <2>1, <3>2 DEF Order
    <3>4. o.side = s /\ PriceName(o.price) = PriceName(p) BY <3>3 DEF LevelId
    <3> QED BY <3>1, <3>3, <3>4, PricesAssumption
  <2> QED BY <2>1 DEF LevelOrdersAtHome
<1>14. Good(b) BY <1>10, <1>11, <1>12, <1>13 DEF Good
<1>15. ASSUME NEW side \in Sides, NEW i \in 1..Levels PROVE Restored(b, side, i)
  <2>1. PICK o : o = LadderOrder(side, i) OBVIOUS
  <2>2. /\ o \in LadderOrders /\ o.side = side /\ o.price = Ladder(side, i) /\ o.qty = LadderTarget(i)
    BY <2>1, LadderOrdersFacts DEF LadderOrders
  <2>3. PICK p : p = Ladder(side, i) OBVIOUS
  <2>4. IdsAt(b, side, p) = {o.id}
    <3>1. o.id \in IdsAt(b, side, p) BY <1>5, <2>2, <2>3 DEF IdsAt
    <3>2. ASSUME NEW id \in IdsAt(b, side, p) PROVE id = o.id
      <4>1. PICK x : x = b.orders[id] OBVIOUS
      <4>2. x \in LadderOrders /\ x.id = id /\ x.side = side /\ x.price = p
        BY <1>9, <4>1 DEF IdsAt
      <4>3. x = o BY <2>2, <2>3, <4>2, LadderOrdersFacts
      <4> QED BY <4>2, <4>3
    <3> QED BY <3>1, <3>2
  <2>5. b.orders[o.id] = o BY <1>5, <2>2
  <2>6. PICK q \in Nat : q = o.qty BY <2>2, LadderPlaces DEF Lots
  <2>7. PICK id : id = o.id OBVIOUS
  <2>8. LotsOfIds(b, {id}) = {<<id, n>> : n \in 1..q} BY <2>5, <2>6, <2>7 DEF LotsOfIds
  <2>9. Cardinality({<<id, n>> : n \in 1..q}) = q BY LotsOfOrder
  <2>10. LevelQuantity(b, side, p) = Cardinality(LotsOfIds(b, {id}))
    BY <1>14, <2>4, <2>7, LevelQuantityOfIds
  <2>11. LevelQuantity(b, side, p) = LadderTarget(i) BY <2>2, <2>6, <2>8, <2>9, <2>10
  <2>12. LadderTarget(i) \in Nat BY LadderPlaces DEF Lots
  <2> QED BY <2>3, <2>11, <2>12 DEF Restored
<1> QED BY <1>1, <1>9, <1>14, <1>15

(* The invariant holds of a run that starts on the ladder.                 *)
LEMMA RunInvInit == RunInit => RunInv
<1> SUFFICES ASSUME RunInit PROVE RunInv OBVIOUS
<1>1. /\ name \in Scenarios /\ layerSide \in Sides /\ wallPrice \in Nat /\ tick \in Nat /\ phase \in Phases
      /\ wallPrice = 0 /\ tick = 0 /\ phase = "recorded" /\ pending = <<>> /\ applied = {}
      /\ book = InitialBook
  BY SidesFacts DEF RunInit, Phases
<1>2. WallFits(Plan) BY <1>1 DEF WallFits, Plan
<1>3. PendingFits(Plan, pending)
  <2>1. pending \in Seq(RunOp) /\ Len(pending) = 0 BY <1>1
  <2> QED BY <2>1 DEF PendingFits
<1>4. BookFits(Plan, pending, book)
  <2>1. ASSUME NEW o \in LadderOrders PROVE OrderFits(Plan, pending, o)
    <3>1. o \in Order /\ o.id = LevelId(o.side, o.price) /\ Near(o.side, o.price)
      BY LadderOrdersFacts
    <3>2. o.side \in Sides /\ o.price \in Prices BY <3>1 DEF Order
    <3>3. HomeOf(Plan, o.id, o.side, o.price) BY <3>1, <3>2, Homes
    <3> QED BY <3>1, <3>3 DEF OrderFits, Allowed
  <2> QED BY <1>1, <2>1, InitialBookFacts DEF BookFits
<1>5. StagesFit BY <1>1 DEF StagesFit, NoAbuseQuote
<1>6. LadderFits BY <1>1, InitialBookFacts DEF LadderFits
<1> QED BY <1>1, <1>2, <1>3, <1>4, <1>5, <1>6 DEF RunInv

-----------------------------------------------------------------------------
(* The steps of a tick                                                     *)

(* With nothing to be dropped, the levels of the book are where the run    *)
(* allows them; the best prices, and the first of them, are such levels.   *)
LEMMA LevelsAllowed ==
  ASSUME NEW w, NEW b, BookFits(w, <<>>, b), NEW side \in Sides, NEW p \in DOMAIN b.levels[side]
  PROVE  Allowed(w, side, p)
<1>1. Good(b) BY DEF BookFits
<1>2. PICK id \in DOMAIN b.orders : b.orders[id].side = side /\ b.orders[id].price = p
  BY <1>1, LevelsFromIndex
<1>3. OrderFits(w, <<>>, b.orders[id]) BY DEF BookFits
<1>4. ~DropComes(<<>>, side, p) BY DEF DropComes
<1> QED BY <1>2, <1>3, <1>4 DEF OrderFits

(* A best price is the price of a level.                                   *)
LEMMA BestIsALevel ==
  ASSUME NEW side \in Sides, BestPrices(book, side) # {}
  PROVE  Best(side) \in DOMAIN book.levels[side]
BY DEF Best, BestPrices

(* The top prices of a side are prices of its levels.                      *)
LEMMA TopAreLevels ==
  ASSUME Good(book), NEW side \in Sides, NEW depth \in Nat
  PROVE  Top(side, depth) \in Seq(DOMAIN book.levels[side])
<1> DEFINE H == Heads(side)
           D == DOMAIN book.levels[side]
<1>1. ASSUME NEW p \in D PROVE <<p, 1>> \in Positions(book, side)
  <2>1. book.levels[side][p] # <<>> BY DEF Good, NoEmptyLevel
  <2>2. book.levels[side][p] \in Seq(Order) BY BookType DEF Good
  <2>3. 1 \in 1..Len(book.levels[side][p]) BY <2>1, <2>2
  <2> QED BY <2>3, PositionOfIndex
<1>2. H \in SUBSET Positions(book, side) BY <1>1 DEF Heads
<1>3. \A x \in H : x[1] \in D BY DEF Heads
<1>4. PICK n : n = Cardinality(H) OBVIOUS
<1> HIDE DEF H, D
<1>5. n \in Nat BY <1>2, <1>4, RanksDiffer
<1>6. \A i \in 1..n : Reached(book, side, H, i) \in H BY <1>2, <1>4, ReachedFacts
<1>7. PICK k \in Nat : k <= n /\ k = (IF n < depth THEN n ELSE depth) BY <1>5
<1>8. Top(side, depth) = [i \in 1..k |-> Reached(book, side, H, i)[1]] BY <1>4, <1>7 DEF Top, H
<1>9. \A i \in 1..k : Reached(book, side, H, i)[1] \in D BY <1>3, <1>5, <1>6, <1>7
<1>10. Top(side, depth) \in Seq(D) BY <1>8, <1>9
<1> QED BY <1>10 DEF D

(* A quote where the scenario lets its side stand is one an agent may      *)
(* give.                                                                   *)
LEMMA QuoteIsAgentOp ==
  ASSUME NEW w \in Plans, NEW agent \in Agents, NEW side \in Sides, NEW p, NEW lots \in Lots,
         WallFits(w), Allowed(w, side, p)
  PROVE  Quote(agent, side, p, lots) \in AgentOps(w)
<1>1. p \in Prices /\ p \in Int
  <2>1. p \in Prices BY AllowedPlaces
  <2> QED BY <2>1, PricesAssumption
<1>2. PICK id : id = AgentLevelId(side, p, agent) OBVIOUS
<1>3. id \in AgentLevelIds /\ HomeOf(w, id, side, p) BY <1>1, <1>2, Homes
<1>4. id \in Ids /\ id \notin AbuseIds BY <1>3, AbuseIdsFacts DEF Ids
<1>5. PICK n : n = IF lots < MaxAgentQuoteLots THEN lots ELSE MaxAgentQuoteLots OBVIOUS
<1>6. n \in Lots /\ n \in Int BY <1>5, LadderAssumption DEF Lots
<1>7. PICK op : op = Quote(agent, side, p, lots) OBVIOUS
<1>8. op = [kind |-> "quote", id |-> id, agent |-> agent, side |-> side, price |-> p, lots |-> n]
  BY <1>2, <1>5, <1>7 DEF Quote, Op
<1>9. op \in RunOp BY <1>1, <1>4, <1>6, <1>8 DEF RunOp, Kinds
<1>10. OpFits(w, op) BY <1>1, <1>3, <1>6, <1>8 DEF OpFits
<1> QED BY <1>4, <1>7, <1>8, <1>9, <1>10 DEF AgentOps

(* A market order is one an agent may give.                                *)
LEMMA MarketIsAgentOp ==
  ASSUME NEW w, NEW agent \in Agents, NEW side \in Sides, NEW lots \in Lots
  PROVE  Market(agent, side, lots) \in AgentOps(w)
<1>1. PICK op : op = Market(agent, side, lots) OBVIOUS
<1>2. op = [kind |-> "market", id |-> MarketId, agent |-> agent, side |-> side,
            price |-> ReferencePrice, lots |-> lots]
  BY <1>1 DEF Market, Op
<1>3. MarketId \in Ids /\ ReferencePrice \in Int /\ lots \in Int
  BY AbuseIdsFacts, ReachAssumption DEF Lots
<1>4. op \in RunOp BY <1>2, <1>3 DEF RunOp, Kinds
<1>5. OpFits(w, op) BY <1>2 DEF OpFits
<1> QED BY <1>1, <1>2, <1>4, <1>5 DEF AgentOps

(* A noise trader quotes at a best price, where its side may stand.        *)
LEMMA NoiseFits ==
  ASSUME NEW w \in Plans, NEW agent \in Agents, NEW offset \in Nat, NEW cadence \in Nat \ {0},
         NEW t \in Nat, NEW lots \in Lots,
         WallFits(w), BookFits(w, <<>>, book)
  PROVE  NoiseIntents(agent, offset, cadence, t, lots) \in Seq(AgentOps(w))
<1>1. PICK side \in Sides : side = IF (t + offset) % 2 = 1 THEN "buy" ELSE "sell" BY SidesFacts
<1>2. PICK prices : prices = Top(side, 12) OBVIOUS
<1>3. prices \in Seq(DOMAIN book.levels[side]) BY <1>2, TopAreLevels DEF BookFits
<1>4. PICK index \in Nat : index = (t + offset + 2) % 5
  <2>1. (t + offset + 2) % 5 \in Nat OBVIOUS
  <2> QED BY <2>1
<1>5. PICK p : p = IF index < Len(prices) THEN prices[index + 1] ELSE prices[Len(prices)] OBVIOUS
<1>6. NoiseIntents(agent, offset, cadence, t, lots) =
        IF prices = <<>> \/ (t + offset) % cadence # 0 THEN <<>> ELSE <<Quote(agent, side, p, lots)>>
  BY <1>1, <1>2, <1>4, <1>5 DEF NoiseIntents
<1>7. CASE prices = <<>>
  <2>1. NoiseIntents(agent, offset, cadence, t, lots) = <<>> BY <1>6, <1>7
  <2> QED BY <2>1
<1>8. CASE prices # <<>>
  <2>1. p \in DOMAIN book.levels[side] BY <1>3, <1>4, <1>5, <1>8
  <2>2. Allowed(w, side, p) BY <2>1, LevelsAllowed
  <2>3. Quote(agent, side, p, lots) \in AgentOps(w) BY <2>2, QuoteIsAgentOp
  <2>4. PICK q \in AgentOps(w) : q = Quote(agent, side, p, lots) BY <2>3
  <2>5. <<q>> \in Seq(AgentOps(w)) /\ <<>> \in Seq(AgentOps(w)) OBVIOUS
  <2> QED BY <1>6, <2>4, <2>5
<1> QED BY <1>7, <1>8

(* A market maker quotes at the best prices, where both sides may stand.   *)
LEMMA MakerFits ==
  ASSUME NEW w \in Plans, NEW lots \in Lots, WallFits(w), BookFits(w, <<>>, book)
  PROVE  MakerIntents(lots) \in Seq(AgentOps(w))
<1>1. "MM_01" \in Agents BY ParticipantsAssumption
<1>2. CASE BestPrices(book, "buy") = {} \/ BestPrices(book, "sell") = {}
  <2>1. MakerIntents(lots) = <<>> BY <1>2 DEF MakerIntents
  <2> QED BY <2>1
<1>3. CASE ~(BestPrices(book, "buy") = {} \/ BestPrices(book, "sell") = {})
  <2>1. \A side \in Sides : Allowed(w, side, Best(side))
    BY <1>3, SidesFacts, BestIsALevel, LevelsAllowed
  <2>2. PICK x \in AgentOps(w) : x = Quote("MM_01", "buy", Best("buy"), lots)
    BY <1>1, <2>1, SidesFacts, QuoteIsAgentOp
  <2>3. PICK y \in AgentOps(w) : y = Quote("MM_01", "sell", Best("sell"), lots)
    BY <1>1, <2>1, SidesFacts, QuoteIsAgentOp
  <2>4. MakerIntents(lots) = <<x, y>> BY <1>3, <2>2, <2>3 DEF MakerIntents
  <2> QED BY <2>4
<1> QED BY <1>2, <1>3

(* Takers and other runners give operations an agent may give.             *)
LEMMA TakersFit ==
  ASSUME NEW w, NEW t \in Nat, NEW lots \in Lots
  PROVE  /\ TakerIntents(t, lots) \in Seq(AgentOps(w))
         /\ \A others \in OtherIntents(lots) : others \in Seq(AgentOps(w))
<1>1. "TAKER_01" \in Agents /\ "TAKER_008" \in Agents BY ParticipantsAssumption
<1>2. TakerIntents(t, lots) \in Seq(AgentOps(w))
  <2>1. PICK side \in Sides : side = IF (t \div 4) % 2 = 1 THEN "buy" ELSE "sell" BY SidesFacts
  <2>2. PICK x \in AgentOps(w) : x = Market("TAKER_01", side, lots) BY <1>1, MarketIsAgentOp
  <2>3. TakerIntents(t, lots) = IF t % 4 # 0 THEN <<>> ELSE <<x>> BY <2>1, <2>2 DEF TakerIntents
  <2>4. <<x>> \in Seq(AgentOps(w)) /\ <<>> \in Seq(AgentOps(w)) OBVIOUS
  <2> QED BY <2>3, <2>4
<1>3. ASSUME NEW others \in OtherIntents(lots) PROVE others \in Seq(AgentOps(w))
  <2>1. CASE others = <<>> BY <2>1
  <2>2. CASE others # <<>>
    <3>1. PICK side \in Sides : others = <<Market("TAKER_008", side, lots)>> BY <2>2 DEF OtherIntents
    <3>2. PICK x \in AgentOps(w) : x = Market("TAKER_008", side, lots) BY <1>1, MarketIsAgentOp
    <3> QED BY <3>1, <3>2
  <2> QED BY <2>1, <2>2
<1> QED BY <1>2, <1>3

(* A book that fits with nothing left to do fits with anything left to do. *)
LEMMA MoreToDrop ==
  ASSUME NEW w, NEW Q, NEW b, BookFits(w, <<>>, b)
  PROVE  BookFits(w, Q, b)
<1>1. \A side, p : ~DropComes(<<>>, side, p) BY DEF DropComes
<1> QED BY <1>1 DEF BookFits, OrderFits

(* The configuration of a run is a plan.                                   *)
LEMMA PlanType ==
  ASSUME name \in Scenarios, layerSide \in Sides, wallPrice \in Nat
  PROVE  /\ Plan \in Plans
         /\ Plan.name = name /\ Plan.side = layerSide /\ Plan.wall = wallPrice
BY DEF Plan, Plans

(* Agents decide.                                                          *)
LEMMA DecideKeeps ==
  ASSUME RunInv, Decide
  PROVE  RunInv'
<1>1. /\ name \in Scenarios /\ layerSide \in Sides /\ wallPrice \in Nat /\ tick \in Nat
      /\ WallFits(Plan) /\ BookFits(Plan, pending, book) /\ StagesFit /\ LadderFits
  BY DEF RunInv
<1>2. /\ phase = "recorded" /\ tick' = tick + 1 /\ phase' = "agents"
      /\ UNCHANGED <<name, layerSide, applied, wallPrice, book>>
  BY DEF Decide, config, scenario
<1>3. Plan \in Plans /\ Plan' = Plan BY <1>1, <1>2, PlanType DEF Plan
<1>4. pending = <<>> BY <1>1, <1>2 DEF LadderFits
<1>5. BookFits(Plan, <<>>, book) BY <1>1, <1>4
<1>6. pending' \in Seq(AgentOps(Plan))
  <2>1. PICK quote \in QuoteLots, taken \in TakerLots : \E others \in OtherIntents(taken) :
          pending' = MakerIntents(quote) \o NoiseIntents("NOISE_01", 0, 1, tick + 1, quote)
                     \o TakerIntents(tick + 1, taken) \o others
                     \o NoiseIntents("NOISE_004", 4, 6, tick + 1, quote)
    BY DEF Decide
  <2>2. PICK others \in OtherIntents(taken) :
          pending' = MakerIntents(quote) \o NoiseIntents("NOISE_01", 0, 1, tick + 1, quote)
                     \o TakerIntents(tick + 1, taken) \o others
                     \o NoiseIntents("NOISE_004", 4, 6, tick + 1, quote)
    BY <2>1
  <2>3. quote \in Lots /\ taken \in Lots BY LadderAssumption
  <2>4. "NOISE_01" \in Agents /\ "NOISE_004" \in Agents /\ tick + 1 \in Nat
    BY <1>1, ParticipantsAssumption
  <2>5. PICK w \in Plans : w = Plan BY <1>3
  <2>6. WallFits(w) /\ BookFits(w, <<>>, book) BY <1>1, <1>5, <2>5
  <2>7. MakerIntents(quote) \in Seq(AgentOps(w)) BY <2>3, <2>6, MakerFits
  <2>8. NoiseIntents("NOISE_01", 0, 1, tick + 1, quote) \in Seq(AgentOps(w)) BY <2>3, <2>4, <2>6, NoiseFits
  <2>9. NoiseIntents("NOISE_004", 4, 6, tick + 1, quote) \in Seq(AgentOps(w)) BY <2>3, <2>4, <2>6, NoiseFits
  <2>10. TakerIntents(tick + 1, taken) \in Seq(AgentOps(w)) /\ others \in Seq(AgentOps(w))
    BY <2>3, <2>4, TakersFit
  <2>11. pending' \in Seq(AgentOps(w)) BY <2>2, <2>7, <2>8, <2>9, <2>10
  <2> QED BY <2>5, <2>11
<1>7. PICK Q \in Seq(AgentOps(Plan)) : Q = pending' BY <1>6
<1>8. /\ Len(Q) \in Nat /\ DOMAIN Q = 1..Len(Q)
      /\ \A i \in 1..Len(Q) : Q[i] \in AgentOps(Plan)
  OBVIOUS
<1>9. PendingFits(Plan, Q)
  <2>1. Q \in Seq(RunOp) BY DEF AgentOps
  <2> QED BY <2>1, <1>8 DEF PendingFits, AgentOps
<1>10. BookFits(Plan, Q, book) BY <1>5, MoreToDrop
<1>11. StagesFit'
  <2>1. NoAbuseQuote(Q) BY <1>8 DEF NoAbuseQuote, AgentOps
  <2>2. /\ "wall_placed" \notin applied => wallPrice = 0
        /\ "wall_cancelled" \in applied => tick >= 7
        /\ tick >= 7 => AbuseRests(book) = {}
    BY <1>1, <1>2 DEF StagesFit
  <2> QED BY <1>1, <1>2, <1>7, <2>1, <2>2 DEF StagesFit
<1>12. LadderFits' BY <1>2 DEF LadderFits
<1> QED BY <1>1, <1>2, <1>3, <1>7, <1>9, <1>10, <1>11, <1>12 DEF RunInv, Phases

(* One operation of a phase is done.                                       *)
LEMMA ApplyKeeps ==
  ASSUME RunInv, Apply
  PROVE  RunInv'
<1>1. /\ name \in Scenarios /\ layerSide \in Sides /\ wallPrice \in Nat /\ tick \in Nat /\ phase \in Phases
      /\ WallFits(Plan) /\ PendingFits(Plan, pending) /\ BookFits(Plan, pending, book)
      /\ StagesFit /\ LadderFits
  BY DEF RunInv
<1>2. /\ pending # <<>> /\ book' = Performed(book, Head(pending)) /\ pending' = Tail(pending)
      /\ UNCHANGED <<name, layerSide, tick, phase, applied, wallPrice>>
  BY DEF Apply, config, scenario
<1>3. Plan \in Plans /\ Plan' = Plan BY <1>1, <1>2, PlanType DEF Plan
<1>4. PICK w \in Plans : w = Plan BY <1>3
<1>5. PICK Q : Q = pending OBVIOUS
<1>6. PICK b : b = book OBVIOUS
<1>7. WallFits(w) /\ PendingFits(w, Q) /\ Q # <<>> /\ BookFits(w, Q, b)
  BY <1>1, <1>2, <1>4, <1>5, <1>6
<1>8. PICK c : c = book' OBVIOUS
<1>9. PICK R : R = pending' OBVIOUS
<1>10. c = Performed(b, Head(Q)) /\ R = Tail(Q) BY <1>2, <1>5, <1>6, <1>8, <1>9
<1>11. /\ PendingFits(w, R) /\ BookFits(w, R, c)
       /\ \A id \in AbuseRests(c) : id \in AbuseRests(b) \/ (Head(Q).kind = "quote" /\ Head(Q).id = id)
       /\ Head(Q).kind = "cancel" => Head(Q).id \notin DOMAIN c.orders
  BY <1>1, <1>7, <1>10, PerformedFits
<1>12. /\ Head(Q) = Q[1] /\ Head(Q) \in RunOp /\ Len(Q) \in Nat /\ Len(Q) >= 1
       /\ DOMAIN Q = 1..Len(Q) /\ DOMAIN R = 1..(Len(Q) - 1)
       /\ \A i \in 1..(Len(Q) - 1) : R[i] = Q[i + 1]
  BY <1>7, <1>10, TailFacts DEF PendingFits
<1>13. StagesFit'
  <2>1. NoAbuseQuote(Q) => NoAbuseQuote(R) /\ AbuseRests(c) \subseteq AbuseRests(b)
    <3> SUFFICES ASSUME NoAbuseQuote(Q) PROVE NoAbuseQuote(R) /\ AbuseRests(c) \subseteq AbuseRests(b)
      OBVIOUS
    <3>1. NoAbuseQuote(R)
      <4>1. \A i \in DOMAIN R : R[i] = Q[i + 1] /\ i + 1 \in DOMAIN Q BY <1>12
      <4> QED BY <4>1 DEF NoAbuseQuote
    <3>2. Head(Q).kind = "quote" => Head(Q).id \notin AbuseIds BY <1>12 DEF NoAbuseQuote
    <3>3. AbuseRests(c) \subseteq AbuseIds BY DEF AbuseRests
    <3> QED BY <1>11, <3>1, <3>2, <3>3
  <2>2. phase # "scenario" \/ tick >= 7 => NoAbuseQuote(Q) BY <1>1, <1>5 DEF StagesFit
  <2>3. ASSUME tick = 7, phase = "scenario", NEW id \in AbuseRests(c) PROVE CancelComes(R, id)
    <3>1. id \in AbuseRests(b) BY <1>1, <2>1, <2>2, <2>3
    <3>2. CancelComes(Q, id) BY <1>1, <1>5, <1>6, <2>3, <3>1 DEF StagesFit
    <3>3. PICK i \in 1..Len(Q) : Q[i].kind = "cancel" /\ Q[i].id = id BY <1>12, <3>2 DEF CancelComes
    <3>4. i # 1
      <4>1. id \in DOMAIN c.orders BY <2>3 DEF AbuseRests
      <4> QED BY <1>11, <1>12, <3>3, <4>1
    <3>5. i - 1 \in DOMAIN R /\ R[i - 1] = Q[i] BY <1>12, <3>4
    <3> QED BY <3>3, <3>5 DEF CancelComes
  <2>4. tick >= 8 \/ (tick = 7 /\ phase \notin {"agents", "scenario"}) => AbuseRests(c) = {}
    <3>1. tick >= 8 \/ (tick = 7 /\ phase \notin {"agents", "scenario"}) => AbuseRests(b) = {} /\ tick >= 7
      BY <1>1, <1>6 DEF StagesFit
    <3> QED BY <2>1, <2>2, <3>1
  <2>5. /\ "wall_placed" \notin applied => wallPrice = 0
        /\ "wall_cancelled" \in applied => tick >= 8 \/ (tick = 7 /\ phase # "agents")
    BY <1>1 DEF StagesFit
  <2> QED BY <1>2, <1>8, <1>9, <2>1, <2>2, <2>3, <2>4, <2>5 DEF StagesFit
<1>14. LadderFits'
  <2>1. phase \notin {"recorded", "rejected", "finished"} BY <1>1, <1>2 DEF LadderFits
  <2>2. ASSUME phase = "baseline"
        PROVE  /\ \A i \in DOMAIN R : R[i].kind = "repair"
               /\ \A side \in Sides, level \in 1..Levels : Restored(c, side, level) \/ RepairComes(R, side, level)
    <3>1. /\ \A i \in DOMAIN Q : Q[i].kind = "repair"
          /\ \A side \in Sides, level \in 1..Levels : Restored(b, side, level) \/ RepairComes(Q, side, level)
      BY <1>1, <1>5, <1>6, <2>2 DEF LadderFits
    <3>2. \A i \in DOMAIN R : R[i] = Q[i + 1] /\ i + 1 \in DOMAIN Q BY <1>12
    <3>3. PICK op \in RunOp : op = Head(Q) BY <1>12
    <3>4. op.kind = "repair" BY <1>12, <3>1, <3>3
    <3>5. OpFits(w, op) BY <1>7, <1>12, <3>3 DEF PendingFits
    <3>6. PICK level \in 1..Levels : IsRepair(op, op.side, level) BY <3>4, <3>5 DEF OpFits
    <3>7. /\ Restored(c, op.side, level)
          /\ \A s \in Sides, l \in 1..Levels : Restored(b, s, l) => Restored(c, s, l)
      BY <1>7, <1>10, <3>3, <3>6, PerformedRestores
    <3>8. ASSUME NEW s \in Sides, NEW l \in 1..Levels, ~Restored(c, s, l) PROVE RepairComes(R, s, l)
      <4>1. RepairComes(Q, s, l) BY <3>1, <3>7, <3>8
      <4>2. PICK i \in 1..Len(Q) : IsRepair(Q[i], s, l) BY <1>12, <4>1 DEF RepairComes
      <4>3. i # 1
        <5> SUFFICES ASSUME i = 1 PROVE FALSE OBVIOUS
        <5>1. op.side = s /\ op.price = Ladder(s, l) BY <1>12, <3>3, <4>2 DEF IsRepair
        <5>2. op.price = Ladder(s, level) BY <3>6, <5>1 DEF IsRepair
        <5>3. l = level BY <5>1, <5>2, LadderPlaces
        <5> QED BY <3>7, <3>8, <5>1, <5>3
      <4>4. i - 1 \in DOMAIN R /\ R[i - 1] = Q[i] BY <1>12, <4>3
      <4> QED BY <4>2, <4>4 DEF RepairComes
    <3> QED BY <3>1, <3>2, <3>8
  <2> QED BY <1>2, <1>8, <1>9, <2>1, <2>2 DEF LadderFits
<1> QED BY <1>1, <1>2, <1>3, <1>4, <1>8, <1>9, <1>11, <1>13, <1>14 DEF RunInv

-----------------------------------------------------------------------------
(* The scenario advances                                                   *)

LEMMA StagesByTick ==
  ASSUME tick \in Nat
  PROVE  /\ StageAt(tick) = "wall_placed" => tick \in 2..3
         /\ StageAt(tick) = "pressure" => tick \in 4..6
         /\ StageAt(tick) = "wall_cancelled" <=> tick = 7
         /\ StageAt(tick) \in {"confirmed", "done"} <=> tick >= 8
BY DEF StageAt

(* Operations that each fit make a fitting rest of a tick.                 *)
LEMMA FitOpsFit ==
  ASSUME NEW w, NEW Q \in Seq(FitOps(w))
  PROVE  PendingFits(w, Q)
<1>1. Q \in Seq(RunOp) BY DEF FitOps
<1>2. \A i \in 1..Len(Q) : Q[i] \in FitOps(w) OBVIOUS
<1> QED BY <1>1, <1>2 DEF PendingFits, FitOps

(* An abuse order at its place fits.                                       *)
LEMMA AbuseLevelFits ==
  ASSUME NEW w \in Plans, NEW id \in AbuseIds, NEW side \in Sides, NEW p, NEW lots \in Lots,
         WallFits(w), AbusePlace(w, id, side, p)
  PROVE  AbuseLevel(id, side, p, lots) \in FitOps(w)
<1>1. Allowed(w, side, p) BY DEF Allowed
<1>2. p \in Prices BY <1>1, AllowedPlaces
<1>3. p \in Int BY <1>2, PricesAssumption
<1>4. HomeOf(w, id, side, p)
  <2>1. \A s \in Sides, x \in Prices, a \in Agents : AgentLevelId(s, x, a) \in AgentLevelIds
    BY DEF AgentLevelIds
  <2>2. id \notin AgentLevelIds BY AbuseIdsFacts
  <2> QED BY <2>1, <2>2 DEF HomeOf
<1>5. PICK op : op = AbuseLevel(id, side, p, lots) OBVIOUS
<1>6. op = [kind |-> "quote", id |-> id, agent |-> "ABUSER", side |-> side, price |-> p, lots |-> lots]
  BY <1>5 DEF AbuseLevel, Op
<1>7. "ABUSER" \in Agents /\ id \in Ids /\ lots \in Int BY ParticipantsAssumption, AbuseIdsFacts DEF Lots
<1>8. op \in RunOp BY <1>3, <1>6, <1>7 DEF RunOp, Kinds
<1>9. OpFits(w, op) BY <1>1, <1>2, <1>4, <1>6 DEF OpFits
<1> QED BY <1>5, <1>6, <1>8, <1>9 DEF FitOps

(* The cancellation of an abuse order fits.                                *)
LEMMA CancelFits ==
  ASSUME NEW w, NEW id \in AbuseIds
  PROVE  Cancel(id) \in FitOps(w) /\ Cancel(id).kind = "cancel" /\ Cancel(id).id = id
<1>1. PICK op : op = Cancel(id) OBVIOUS
<1>2. op = [kind |-> "cancel", id |-> id, agent |-> "ABUSER", side |-> "sell", price |-> 0, lots |-> 0]
  BY <1>1 DEF Cancel, Op
<1>3. "ABUSER" \in Agents /\ id \in Ids BY ParticipantsAssumption, AbuseIdsFacts
<1>4. op \in RunOp BY <1>2, <1>3, SidesFacts DEF RunOp, Kinds
<1>5. OpFits(w, op) BY <1>2 DEF OpFits
<1> QED BY <1>1, <1>2, <1>4, <1>5 DEF FitOps

(* Thinning or dropping a level where its side may stand fits.             *)
LEMMA OnLevelFits ==
  ASSUME NEW w \in Plans, NEW side \in Sides, NEW p, NEW owner \in Agents,
         WallFits(w), Allowed(w, side, p)
  PROVE  /\ OnLevel("thin", side, p, 0, owner) \in FitOps(w)
         /\ OnLevel("drop", side, p, 0, owner) \in FitOps(w)
<1>1. p \in Prices BY AllowedPlaces
<1>2. p \in Int BY <1>1, PricesAssumption
<1>3. MarketId \in Ids BY AbuseIdsFacts
<1>4. PICK x : x = OnLevel("thin", side, p, 0, owner) OBVIOUS
<1>5. x = [kind |-> "thin", id |-> MarketId, agent |-> owner, side |-> side, price |-> p, lots |-> 0]
  BY <1>4 DEF OnLevel, Op
<1>6. x \in RunOp /\ OpFits(w, x) BY <1>2, <1>3, <1>5 DEF RunOp, Kinds, OpFits
<1>7. PICK y : y = OnLevel("drop", side, p, 0, owner) OBVIOUS
<1>8. y = [kind |-> "drop", id |-> MarketId, agent |-> owner, side |-> side, price |-> p, lots |-> 0]
  BY <1>7 DEF OnLevel, Op
<1>9. y \in RunOp /\ OpFits(w, y) BY <1>1, <1>2, <1>3, <1>8 DEF RunOp, Kinds, OpFits
<1> QED BY <1>4, <1>5, <1>6, <1>7, <1>8, <1>9 DEF FitOps

(* Orders of a scenario rest only where it has placed them.                *)
LEMMA AbuseOfPlan ==
  ASSUME NEW w, NEW Q, NEW b, BookFits(w, Q, b), NEW id \in AbuseRests(b)
  PROVE  /\ w.wall # 0
         /\ \/ w.name = "spoofing_like_wall" /\ id = WallId
            \/ w.name = "layering_like" /\ \E i \in 0..2 : id = LayerId(i)
<1>1. id \in AbuseIds /\ id \in DOMAIN b.orders BY DEF AbuseRests
<1>2. b.orders[id].id = id /\ HomeOf(w, b.orders[id].id, b.orders[id].side, b.orders[id].price)
  BY <1>1, IndexType DEF BookFits, OrderFits
<1> QED BY <1>1, <1>2 DEF HomeOf, AbusePlace

(* Before a wall is placed, and in scenarios without one, the levels of    *)
(* the book are within the span of the ladder.                             *)
LEMMA BestIsNear ==
  ASSUME NEW w, w.wall = 0, BookFits(w, <<>>, book), NEW side \in Sides, BestPrices(book, side) # {}
  PROVE  Near(side, Best(side))
<1>1. Allowed(w, side, Best(side)) BY BestIsALevel, LevelsAllowed
<1> QED BY <1>1 DEF Allowed, AbusePlace

(* The prices a run may reach are prices of the book.                      *)
LEMMA ReachType ==
  /\ ReferencePrice \in Nat /\ Span \in Nat /\ ReferencePrice - Span - 4 >= 1
  /\ (ReferencePrice - Span - 4)..(ReferencePrice + Span + 7) \subseteq Prices
<1>1. ReferencePrice \in Nat /\ Span \in Nat BY LadderAssumption, ReachAssumption DEF Span
<1>2. (ReferencePrice - Span - 4)..(ReferencePrice + Span + 7) \subseteq Prices
  BY ReachAssumption DEF Span
<1>3. ReferencePrice - Span - 4 \in Prices BY <1>1, <1>2
<1>4. ReferencePrice - Span - 4 \in Nat \ {0} BY <1>3, PricesAssumption
<1> QED BY <1>1, <1>2, <1>4

(* What the spoofing scenario does in a tick fits.                         *)
LEMMA SpoofingFits ==
  ASSUME RunInv, phase = "agents", pending = <<>>, UNCHANGED config, Spoofing
  PROVE  ScenarioFits
<1>1. /\ name \in Scenarios /\ layerSide \in Sides /\ wallPrice \in Nat /\ tick \in Nat
      /\ WallFits(Plan) /\ BookFits(Plan, <<>>, book) /\ StagesFit
      /\ name' = name /\ layerSide' = layerSide /\ name = "spoofing_like_wall"
  BY DEF RunInv, config, Spoofing
<1>2. /\ Plan \in Plans /\ Plan.name = name /\ Plan.side = layerSide /\ Plan.wall = wallPrice
  BY <1>1, PlanType
<1>3. PICK place \in BOOLEAN : place <=> Entering("wall_placed") /\ BestPrices(book, "sell") # {}
  OBVIOUS
<1>4. PICK price : price = Best("sell") + 2 OBVIOUS
<1>5. /\ wallPrice' = IF place THEN price ELSE wallPrice
      /\ pending' = CASE place -> <<AbuseLevel(WallId, "sell", price, WallLots)>>
                      [] Entering("pressure") /\ wallPrice # 0 ->
                           <<AbuseLevel(WallId, "sell", wallPrice, WallLots + 1)>>
                      [] Entering("wall_cancelled") -> <<Cancel(WallId)>>
                      [] OTHER -> <<>>
  BY <1>3, <1>4 DEF Spoofing
<1>6. WallId \in AbuseIds /\ WallLots \in Lots /\ WallLots + 1 \in Lots
  BY LadderAssumption DEF AbuseIds, Lots
<1>7. PICK v : v = Plan' OBVIOUS
<1>8. v = [name |-> name, side |-> layerSide, wall |-> wallPrice'] BY <1>1, <1>7 DEF Plan
<1>9. CASE place
  <2>1. Entering("wall_placed") /\ BestPrices(book, "sell") # {} BY <1>3, <1>9
  <2>2. wallPrice = 0 /\ StageAt(tick) = "wall_placed" BY <1>1, <2>1 DEF Entering, StagesFit
  <2>3. Near("sell", Best("sell")) BY <1>1, <1>2, <2>1, <2>2, SidesFacts, BestIsNear
  <2>4. price \in (ReferencePrice + 1)..(ReferencePrice + Span + 2) BY <1>4, <2>3, ReachType DEF Near
  <2>5. price \in Nat /\ price # 0 BY <2>4, ReachType
  <2>6. wallPrice' = price /\ pending' = <<AbuseLevel(WallId, "sell", price, WallLots)>>
    <3>1. ~Entering("pressure") /\ ~Entering("wall_cancelled") BY <2>2 DEF Entering
    <3> QED BY <1>5, <1>9, <3>1
  <2>7. v \in Plans BY <1>1, <1>8, <2>5, <2>6 DEF Plans
  <2>8. WallFits(v) BY <1>1, <1>8, <2>4, <2>6 DEF WallFits
  <2>9. AbusePlace(v, WallId, "sell", price) BY <1>1, <1>8, <2>5, <2>6 DEF AbusePlace
  <2>10. PICK x \in FitOps(v) : x = AbuseLevel(WallId, "sell", price, WallLots)
    BY <1>6, <2>7, <2>8, <2>9, SidesFacts, AbuseLevelFits
  <2>11. <<x>> \in Seq(FitOps(v)) OBVIOUS
  <2>12. PendingFits(v, pending') BY <2>6, <2>10, <2>11, FitOpsFit
  <2>13. tick \in 2..3 BY <1>1, <2>2, StagesByTick
  <2> QED BY <1>1, <1>7, <2>2, <2>5, <2>6, <2>8, <2>12, <2>13 DEF ScenarioFits
<1>10. CASE ~place
  <2>1. wallPrice' = wallPrice BY <1>5, <1>10
  <2>2. v = Plan BY <1>8, <2>1 DEF Plan
  <2>3. WallFits(v) /\ v \in Plans BY <1>1, <1>2, <2>2
  <2>4. CASE Entering("pressure") /\ wallPrice # 0
    <3>1. StageAt(tick) = "pressure" BY <2>4 DEF Entering
    <3>2. tick \in 4..6 BY <1>1, <3>1, StagesByTick
    <3>3. pending' = <<AbuseLevel(WallId, "sell", wallPrice, WallLots + 1)>>
      BY <1>5, <1>10, <2>4, <3>1 DEF Entering
    <3>4. AbusePlace(v, WallId, "sell", wallPrice) BY <1>1, <1>2, <2>2, <2>4 DEF AbusePlace
    <3>5. PICK x \in FitOps(v) : x = AbuseLevel(WallId, "sell", wallPrice, WallLots + 1)
      BY <1>6, <2>3, <3>4, SidesFacts, AbuseLevelFits
    <3>6. <<x>> \in Seq(FitOps(v)) OBVIOUS
    <3>7. PendingFits(v, pending') BY <3>3, <3>5, <3>6, FitOpsFit
    <3> QED BY <1>1, <1>7, <2>1, <2>3, <3>2, <3>7 DEF ScenarioFits
  <2>5. CASE Entering("wall_cancelled")
    <3>1. StageAt(tick) = "wall_cancelled" BY <2>5 DEF Entering
    <3>2. tick = 7 BY <1>1, <3>1, StagesByTick
    <3>3. ~Entering("pressure") BY <3>1 DEF Entering
    <3>4. pending' = <<Cancel(WallId)>> BY <1>5, <1>10, <2>5, <3>3
    <3>5. PICK x \in FitOps(v) : x = Cancel(WallId) /\ x.kind = "cancel" /\ x.id = WallId
      BY <1>6, CancelFits
    <3>6. <<x>> \in Seq(FitOps(v)) OBVIOUS
    <3>7. PendingFits(v, pending') BY <3>4, <3>5, <3>6, FitOpsFit
    <3>8. pending' = <<x>> BY <3>4, <3>5
    <3>9. NoAbuseQuote(pending') BY <3>5, <3>8 DEF NoAbuseQuote
    <3>10. CancelComes(pending', WallId) BY <3>5, <3>8 DEF CancelComes
    <3>11. \A id \in AbuseRests(book) : id = WallId BY <1>1, <1>2, AbuseOfPlan
    <3> QED BY <1>1, <1>7, <2>1, <2>3, <3>7, <3>9, <3>10, <3>11 DEF ScenarioFits
  <2>6. CASE ~(Entering("pressure") /\ wallPrice # 0) /\ ~Entering("wall_cancelled")
    <3>1. pending' = <<>> BY <1>5, <1>10, <2>6
    <3>2. <<>> \in Seq(FitOps(v)) OBVIOUS
    <3>3. PendingFits(v, pending') BY <3>1, <3>2, FitOpsFit
    <3>4. tick # 7
      <4> SUFFICES ASSUME tick = 7 PROVE FALSE OBVIOUS
      <4>1. StageAt(tick) = "wall_cancelled" BY <1>1, StagesByTick
      <4>2. "wall_cancelled" \in applied BY <2>6, <4>1 DEF Entering
      <4> QED BY <1>1, <4>2 DEF StagesFit
    <3>5. NoAbuseQuote(pending') BY <3>1 DEF NoAbuseQuote
    <3> QED BY <1>1, <1>7, <2>1, <2>3, <3>3, <3>4, <3>5 DEF ScenarioFits
  <2> QED BY <2>4, <2>5, <2>6
<1> QED BY <1>3, <1>9, <1>10

(* The three layers of a scenario, and their cancellations.                *)
LEMMA LayersFit ==
  ASSUME NEW w \in Plans, NEW lots \in Lots, NEW first,
         WallFits(w), w.name = "layering_like", w.wall # 0, w.side = layerSide, first = w.wall
  PROVE  Layers(first, lots) \in Seq(FitOps(w))
<1>1. layerSide \in Sides BY DEF Plans
<1>2. ASSUME NEW i \in 1..3
      PROVE  AbuseLevel(LayerId(i - 1), layerSide, Away(layerSide, first, i - 1), lots) \in FitOps(w)
  <2>1. PICK id : id = LayerId(i - 1) OBVIOUS
  <2>2. PICK p : p = Away(layerSide, first, i - 1) OBVIOUS
  <2>3. i - 1 \in 0..2 OBVIOUS
  <2>4. id \in AbuseIds BY <2>1, <2>3 DEF AbuseIds, LayerIds
  <2>5. AbusePlace(w, id, layerSide, p) BY <2>1, <2>2, <2>3 DEF AbusePlace
  <2>6. AbuseLevel(id, layerSide, p, lots) \in FitOps(w) BY <1>1, <2>4, <2>5, AbuseLevelFits
  <2> QED BY <2>1, <2>2, <2>6
<1> QED BY <1>2 DEF Layers

(* The cancellations of the three layers fit and cover every layer.        *)
LEMMA LayerCancelsFit ==
  ASSUME NEW w
  PROVE  LET Q == [i \in 1..3 |-> Cancel(LayerId(i - 1))]
         IN  /\ Q \in Seq(FitOps(w)) /\ NoAbuseQuote(Q)
             /\ \A i \in 0..2 : CancelComes(Q, LayerId(i))
<1>1. PICK Q : Q = [i \in 1..3 |-> Cancel(LayerId(i - 1))] OBVIOUS
<1>2. \A i \in 1..3 : Q[i] \in FitOps(w) /\ Q[i].kind = "cancel" /\ Q[i].id = LayerId(i - 1)
  <2> TAKE i \in 1..3
  <2>1. i - 1 \in 0..2 OBVIOUS
  <2>2. PICK id \in AbuseIds : id = LayerId(i - 1) BY <2>1 DEF AbuseIds, LayerIds
  <2>3. Cancel(id) \in FitOps(w) /\ Cancel(id).kind = "cancel" /\ Cancel(id).id = id BY CancelFits
  <2> QED BY <1>1, <2>2, <2>3
<1>3. DOMAIN Q = 1..3 /\ Q \in Seq(FitOps(w)) BY <1>1, <1>2
<1>4. NoAbuseQuote(Q) BY <1>2, <1>3 DEF NoAbuseQuote
<1>5. \A i \in 0..2 : CancelComes(Q, LayerId(i))
  <2> TAKE i \in 0..2
  <2>1. i + 1 \in 1..3 /\ (i + 1) - 1 = i OBVIOUS
  <2>2. Q[i + 1].kind = "cancel" /\ Q[i + 1].id = LayerId(i) BY <1>2, <2>1
  <2> QED BY <1>3, <2>1, <2>2 DEF CancelComes
<1> QED BY <1>1, <1>3, <1>4, <1>5

(* What the layering scenario does in a tick fits.                         *)
LEMMA LayeringFits ==
  ASSUME RunInv, phase = "agents", pending = <<>>, UNCHANGED config, Layering
  PROVE  ScenarioFits
<1>1. /\ name \in Scenarios /\ layerSide \in Sides /\ wallPrice \in Nat /\ tick \in Nat
      /\ WallFits(Plan) /\ BookFits(Plan, <<>>, book) /\ StagesFit
      /\ name' = name /\ layerSide' = layerSide /\ name = "layering_like"
  BY DEF RunInv, config, Layering
<1>2. /\ Plan \in Plans /\ Plan.name = name /\ Plan.side = layerSide /\ Plan.wall = wallPrice
  BY <1>1, PlanType
<1>3. PICK place \in BOOLEAN : place <=> Entering("wall_placed") /\ BestPrices(book, layerSide) # {}
  OBVIOUS
<1>4. PICK first : first = Away(layerSide, Best(layerSide), 2) OBVIOUS
<1>5. /\ wallPrice' = IF place THEN first ELSE wallPrice
      /\ pending' = CASE place -> Layers(first, LayerLots)
                      [] Entering("pressure") /\ wallPrice # 0 -> Layers(wallPrice, LayerLots + 1)
                      [] Entering("wall_cancelled") -> [i \in 1..3 |-> Cancel(LayerId(i - 1))]
                      [] OTHER -> <<>>
  BY <1>3, <1>4 DEF Layering
<1>6. LayerLots \in Lots /\ LayerLots + 1 \in Lots BY LadderAssumption DEF Lots
<1>7. PICK v : v = Plan' OBVIOUS
<1>8. v = [name |-> name, side |-> layerSide, wall |-> wallPrice'] BY <1>1, <1>7 DEF Plan
<1>9. CASE place
  <2>1. Entering("wall_placed") /\ BestPrices(book, layerSide) # {} BY <1>3, <1>9
  <2>2. wallPrice = 0 /\ StageAt(tick) = "wall_placed" BY <1>1, <2>1 DEF Entering, StagesFit
  <2>3. Near(layerSide, Best(layerSide)) BY <1>1, <1>2, <2>1, <2>2, BestIsNear
  <2>4. /\ layerSide = "sell" => first \in (ReferencePrice + 1)..(ReferencePrice + Span + 2)
        /\ layerSide = "buy" => first \in (ReferencePrice - Span - 2)..(ReferencePrice - 1)
    BY <1>4, <2>3, ReachType DEF Near, Away
  <2>5. first \in Nat /\ first # 0 BY <1>1, <2>4, ReachType, SidesFacts
  <2>6. wallPrice' = first /\ pending' = Layers(first, LayerLots)
    <3>1. ~Entering("pressure") /\ ~Entering("wall_cancelled") BY <2>2 DEF Entering
    <3> QED BY <1>5, <1>9, <3>1
  <2>7. v \in Plans BY <1>1, <1>8, <2>5, <2>6 DEF Plans
  <2>8. WallFits(v)
    <3>1. layerSide = "sell" \/ layerSide = "buy" BY <1>1, SidesFacts
    <3> QED BY <1>1, <1>8, <2>4, <2>6, <3>1 DEF WallFits
  <2>9. Layers(first, LayerLots) \in Seq(FitOps(v))
    BY <1>1, <1>6, <1>8, <2>5, <2>6, <2>7, <2>8, LayersFit
  <2>10. PendingFits(v, pending') BY <2>6, <2>9, FitOpsFit
  <2>11. tick \in 2..3 BY <1>1, <2>2, StagesByTick
  <2> QED BY <1>1, <1>7, <2>2, <2>5, <2>6, <2>8, <2>10, <2>11 DEF ScenarioFits
<1>10. CASE ~place
  <2>1. wallPrice' = wallPrice BY <1>5, <1>10
  <2>2. v = Plan BY <1>8, <2>1 DEF Plan
  <2>3. WallFits(v) /\ v \in Plans BY <1>1, <1>2, <2>2
  <2>4. CASE Entering("pressure") /\ wallPrice # 0
    <3>1. StageAt(tick) = "pressure" BY <2>4 DEF Entering
    <3>2. tick \in 4..6 BY <1>1, <3>1, StagesByTick
    <3>3. pending' = Layers(wallPrice, LayerLots + 1)
      BY <1>5, <1>10, <2>4, <3>1 DEF Entering
    <3>4. Layers(wallPrice, LayerLots + 1) \in Seq(FitOps(v))
      BY <1>1, <1>2, <1>6, <2>2, <2>3, <2>4, LayersFit
    <3>5. PendingFits(v, pending') BY <3>3, <3>4, FitOpsFit
    <3> QED BY <1>1, <1>7, <2>1, <2>3, <3>2, <3>5 DEF ScenarioFits
  <2>5. CASE Entering("wall_cancelled")
    <3>1. StageAt(tick) = "wall_cancelled" BY <2>5 DEF Entering
    <3>2. tick = 7 BY <1>1, <3>1, StagesByTick
    <3>3. ~Entering("pressure") BY <3>1 DEF Entering
    <3>4. PICK Q : Q = [i \in 1..3 |-> Cancel(LayerId(i - 1))] OBVIOUS
    <3>5. pending' = Q BY <1>5, <1>10, <2>5, <3>3, <3>4
    <3>6. Q \in Seq(FitOps(v)) /\ NoAbuseQuote(Q) /\ \A i \in 0..2 : CancelComes(Q, LayerId(i))
      BY <3>4, LayerCancelsFit
    <3>7. PendingFits(v, Q) BY <3>6, FitOpsFit
    <3>8. \A id \in AbuseRests(book) : \E i \in 0..2 : id = LayerId(i) BY <1>1, <1>2, AbuseOfPlan
    <3> QED BY <1>1, <1>7, <2>1, <2>3, <3>5, <3>6, <3>7, <3>8 DEF ScenarioFits
  <2>6. CASE ~(Entering("pressure") /\ wallPrice # 0) /\ ~Entering("wall_cancelled")
    <3>1. pending' = <<>> BY <1>5, <1>10, <2>6
    <3>2. <<>> \in Seq(FitOps(v)) OBVIOUS
    <3>3. PendingFits(v, pending') BY <3>1, <3>2, FitOpsFit
    <3>4. tick # 7
      <4> SUFFICES ASSUME tick = 7 PROVE FALSE OBVIOUS
      <4>1. StageAt(tick) = "wall_cancelled" BY <1>1, StagesByTick
      <4>2. "wall_cancelled" \in applied BY <2>6, <4>1 DEF Entering
      <4> QED BY <1>1, <4>2 DEF StagesFit
    <3>5. NoAbuseQuote(pending') BY <3>1 DEF NoAbuseQuote
    <3> QED BY <1>1, <1>7, <2>1, <2>3, <3>3, <3>4, <3>5 DEF ScenarioFits
  <2> QED BY <2>4, <2>5, <2>6
<1> QED BY <1>3, <1>9, <1>10

(* In the other scenarios no wall is ever placed.                          *)
LEMMA WithoutWall ==
  ASSUME RunInv, pending = <<>>, UNCHANGED config, UNCHANGED wallPrice,
         name \notin {"spoofing_like_wall", "layering_like"},
         PendingFits(Plan, pending'), NoAbuseQuote(pending')
  PROVE  ScenarioFits
<1>1. /\ name \in Scenarios /\ layerSide \in Sides /\ wallPrice \in Nat
      /\ WallFits(Plan) /\ BookFits(Plan, <<>>, book)
      /\ name' = name /\ layerSide' = layerSide /\ wallPrice' = wallPrice
  BY DEF RunInv, config
<1>2. Plan' = Plan BY <1>1 DEF Plan
<1>3. Plan.name = name BY DEF Plan
<1>4. AbuseRests(book) = {} BY <1>1, <1>3, AbuseOfPlan
<1> QED BY <1>1, <1>2, <1>4 DEF ScenarioFits

(* A run without a scenario does nothing of its own, which fits.           *)
LEMMA NormalMarketFits ==
  ASSUME RunInv, pending = <<>>, UNCHANGED config, NormalMarket
  PROVE  ScenarioFits
<1>1. pending' = <<>> /\ UNCHANGED wallPrice /\ name = "none" BY DEF NormalMarket
<1>2. <<>> \in Seq(FitOps(Plan)) OBVIOUS
<1>3. PendingFits(Plan, pending') BY <1>1, <1>2, FitOpsFit
<1>4. NoAbuseQuote(pending') BY <1>1 DEF NoAbuseQuote
<1> QED BY <1>1, <1>3, <1>4, WithoutWall

(* What the evaporation scenario does in a tick fits.                      *)
LEMMA EvaporationFits ==
  ASSUME RunInv, pending = <<>>, UNCHANGED config, LiquidityEvaporation
  PROVE  ScenarioFits
<1>1. /\ name \in Scenarios /\ layerSide \in Sides /\ wallPrice \in Nat /\ tick \in Nat
      /\ WallFits(Plan) /\ BookFits(Plan, <<>>, book) /\ Good(book)
      /\ wallPrice' = wallPrice /\ name = "liquidity_evaporation"
  BY DEF RunInv, LiquidityEvaporation, BookFits
<1>2. PICK w \in Plans : w = Plan BY <1>1, PlanType
<1>3. WallFits(w) /\ BookFits(w, <<>>, book) BY <1>1, <1>2
<1>4. PICK O : O = {op \in FitOps(w) : op.kind \in {"thin", "drop"}} OBVIOUS
<1>5. "normal" \in Agents BY ParticipantsAssumption
<1>6. ASSUME NEW side \in Sides, NEW p \in DOMAIN book.levels[side]
      PROVE  OnLevel("thin", side, p, 0, "normal") \in O /\ OnLevel("drop", side, p, 0, "normal") \in O
  <2>1. Allowed(w, side, p) BY <1>3, LevelsAllowed
  <2>2. /\ OnLevel("thin", side, p, 0, "normal") \in FitOps(w)
        /\ OnLevel("drop", side, p, 0, "normal") \in FitOps(w)
    BY <1>3, <1>5, <2>1, OnLevelFits
  <2>3. OnLevel("thin", side, p, 0, "normal").kind = "thin" /\ OnLevel("drop", side, p, 0, "normal").kind = "drop"
    BY DEF OnLevel, Op
  <2> QED BY <1>4, <2>2, <2>3
<1>7. ThinTop \in Seq(O)
  <2>1. ASSUME NEW side \in Sides
        PROVE  [i \in DOMAIN Top(side, 3) |-> OnLevel("thin", side, Top(side, 3)[i], 0, "normal")] \in Seq(O)
    <3>1. PICK top : top = Top(side, 3) OBVIOUS
    <3>2. top \in Seq(DOMAIN book.levels[side]) BY <1>1, <3>1, TopAreLevels
    <3>3. \A i \in DOMAIN top : OnLevel("thin", side, top[i], 0, "normal") \in O
      <4>1. \A i \in DOMAIN top : top[i] \in DOMAIN book.levels[side] BY <3>2
      <4> QED BY <4>1, <1>6
    <3>4. PICK n \in Nat : DOMAIN top = 1..n BY <3>2
    <3>5. [i \in 1..n |-> OnLevel("thin", side, top[i], 0, "normal")] \in Seq(O) BY <3>3, <3>4
    <3> QED BY <3>1, <3>4, <3>5
  <2>2. PICK x \in Seq(O) : x = [i \in DOMAIN Top("buy", 3) |-> OnLevel("thin", "buy", Top("buy", 3)[i], 0, "normal")]
    BY <2>1, SidesFacts
  <2>3. PICK y \in Seq(O) : y = [i \in DOMAIN Top("sell", 3) |-> OnLevel("thin", "sell", Top("sell", 3)[i], 0, "normal")]
    BY <2>1, SidesFacts
  <2>4. ThinTop = x \o y BY <2>2, <2>3 DEF ThinTop
  <2> QED BY <2>4
<1>8. \A side \in Sides : DropBest(side) \in Seq(O)
  <2> TAKE side \in Sides
  <2>1. CASE BestPrices(book, side) = {}
    <3>1. DropBest(side) = <<>> BY <2>1 DEF DropBest
    <3> QED BY <3>1
  <2>2. CASE BestPrices(book, side) # {}
    <3>1. PICK x \in O : x = OnLevel("drop", side, Best(side), 0, "normal") BY <2>2, <1>6, BestIsALevel
    <3>2. DropBest(side) = <<x>> BY <2>2, <3>1 DEF DropBest
    <3> QED BY <3>2
  <2> QED BY <2>1, <2>2
<1>9. PICK Q : Q = pending' OBVIOUS
<1>10. Q \in Seq(O)
  <2>1. PICK t \in Seq(O) : t = ThinTop BY <1>7
  <2>2. PICK x \in Seq(O) : x = DropBest("buy") BY <1>8, SidesFacts
  <2>3. PICK y \in Seq(O) : y = DropBest("sell") BY <1>8, SidesFacts
  <2>4. Q \in {t \o t, t, x \o y, <<>>} BY <1>9, <2>1, <2>2, <2>3 DEF LiquidityEvaporation
  <2>5. t \o t \in Seq(O) /\ x \o y \in Seq(O) /\ <<>> \in Seq(O) OBVIOUS
  <2> QED BY <2>4, <2>5
<1>11. Q \in Seq(FitOps(w)) BY <1>4, <1>10
<1>12. NoAbuseQuote(Q)
  <2>1. \A i \in DOMAIN Q : Q[i] \in O BY <1>10
  <2> QED BY <1>4, <2>1 DEF NoAbuseQuote
<1>13. PendingFits(w, Q) BY <1>11, FitOpsFit
<1> QED BY <1>1, <1>2, <1>9, <1>12, <1>13, WithoutWall

(* A burst: every level that is set is dropped by the next operation.      *)
LEMMA StuffingFits ==
  ASSUME RunInv, pending = <<>>, UNCHANGED config, QuoteStuffing
  PROVE  ScenarioFits
<1>1. /\ name \in Scenarios /\ layerSide \in Sides /\ wallPrice \in Nat /\ tick \in Nat
      /\ WallFits(Plan) /\ BookFits(Plan, <<>>, book)
      /\ wallPrice' = wallPrice /\ name = "quote_stuffing"
  BY DEF RunInv, QuoteStuffing
<1>2. Plan.wall = 0 BY <1>1, PlanType DEF WallFits
<1>3. PICK Q : Q = pending' OBVIOUS
<1>4. PICK best : best = Best("sell") OBVIOUS
<1>5. CASE StageAt(tick) = "pressure" /\ BestPrices(book, "sell") # {}
  <2>1. Near("sell", best) BY <1>1, <1>2, <1>4, <1>5, SidesFacts, BestIsNear
  <2>2. best \in (ReferencePrice + 1)..(ReferencePrice + Span) BY <2>1 DEF Near
  <2>3. Q = [i \in 1..6 |-> OnLevel(IF i % 2 = 1 THEN "set" ELSE "drop", "sell",
                                    best + 5 + (i - 1) \div 2, 1, "abuser")]
    BY <1>3, <1>4, <1>5 DEF QuoteStuffing
  <2>4. ASSUME NEW i \in 1..6
        PROVE  /\ Q[i] \in RunOp /\ OpFits(Plan, Q[i]) /\ Q[i].side = "sell" /\ Q[i].kind # "quote"
               /\ Q[i].kind = (IF i % 2 = 1 THEN "set" ELSE "drop")
               /\ Q[i].price = best + 5 + (i - 1) \div 2
    <3>1. PICK p : p = best + 5 + (i - 1) \div 2 OBVIOUS
    <3>2. p \in (best + 5)..(best + 7) BY <2>2, <3>1, ReachType
    <3>3. p \in (ReferencePrice - Span - 4)..(ReferencePrice + Span + 7) /\ p \in Int /\ p > ReferencePrice
      BY <2>2, <3>2, ReachType
    <3>4. p \in Prices BY <3>3, ReachType
    <3>5. PICK kind \in {"set", "drop"} : kind = IF i % 2 = 1 THEN "set" ELSE "drop" OBVIOUS
    <3>6. PICK op : op = Q[i] OBVIOUS
    <3>7. op = [kind |-> kind, id |-> MarketId, agent |-> "abuser", side |-> "sell",
                price |-> p, lots |-> 1]
      BY <2>3, <3>1, <3>5, <3>6 DEF OnLevel, Op
    <3>8. "abuser" \in Agents /\ MarketId \in Ids /\ 1 \in Lots
      BY ParticipantsAssumption, AbuseIdsFacts DEF Lots
    <3>9. op \in RunOp BY <3>3, <3>5, <3>7, <3>8, SidesFacts DEF RunOp, Kinds
    <3>10. OpFits(Plan, op) BY <3>3, <3>4, <3>5, <3>7, <3>8 DEF OpFits
    <3> QED BY <3>1, <3>5, <3>6, <3>7, <3>9, <3>10
  <2>5. DOMAIN Q = 1..6 /\ Len(Q) = 6 /\ Q \in Seq(RunOp) BY <2>3, <2>4
  <2>6. ASSUME NEW i \in 1..6, Q[i].kind = "set"
        PROVE  \E j \in 1..6 : i < j /\ IsDrop(Q[j], Q[i].side, Q[i].price)
    <3>1. i % 2 = 1 BY <2>4, <2>6
    <3>2. i \in {1, 3, 5} BY <3>1
    <3>3. i + 1 \in 1..6 /\ (i + 1) % 2 # 1 /\ ((i + 1) - 1) \div 2 = (i - 1) \div 2 BY <3>2
    <3>4. /\ Q[i + 1].kind = "drop" /\ Q[i + 1].side = "sell"
          /\ Q[i + 1].price = best + 5 + ((i + 1) - 1) \div 2
      BY <2>4, <3>3
    <3>5. Q[i].side = "sell" /\ Q[i].price = best + 5 + (i - 1) \div 2 BY <2>4
    <3>6. IsDrop(Q[i + 1], Q[i].side, Q[i].price) BY <3>3, <3>4, <3>5 DEF IsDrop
    <3> QED BY <3>3, <3>6
  <2>7. PendingFits(Plan, Q) BY <2>4, <2>5, <2>6 DEF PendingFits
  <2>8. NoAbuseQuote(Q) BY <2>4, <2>5 DEF NoAbuseQuote
  <2> QED BY <1>1, <1>3, <2>7, <2>8, WithoutWall
<1>6. CASE ~(StageAt(tick) = "pressure" /\ BestPrices(book, "sell") # {})
  <2>1. Q = <<>> BY <1>3, <1>6 DEF QuoteStuffing
  <2>2. <<>> \in Seq(FitOps(Plan)) OBVIOUS
  <2>3. PendingFits(Plan, Q) BY <2>1, <2>2, FitOpsFit
  <2>4. NoAbuseQuote(Q) BY <2>1 DEF NoAbuseQuote
  <2> QED BY <1>1, <1>3, <2>3, <2>4, WithoutWall
<1> QED BY <1>5, <1>6

(* The orders that rest fit the scenario as it goes on: where its wall is  *)
(* new, none of its orders rested.                                         *)
LEMMA FitsWithWall ==
  ASSUME NEW w, NEW v, NEW Q, NEW b, BookFits(w, <<>>, b), v = w \/ w.wall = 0
  PROVE  BookFits(v, Q, b)
<1>1. CASE v = w BY <1>1, MoreToDrop
<1>2. CASE w.wall = 0
  <2>1. \A side, p : ~DropComes(<<>>, side, p) BY DEF DropComes
  <2>2. \A id, side, p : ~AbusePlace(w, id, side, p) BY <1>2 DEF AbusePlace
  <2>3. \A o : OrderFits(w, <<>>, o) => OrderFits(v, Q, o)
    BY <2>1, <2>2 DEF OrderFits, HomeOf, Allowed
  <2> QED BY <2>3 DEF BookFits
<1> QED BY <1>1, <1>2

(* The advance of the scenario keeps the invariant, whichever scenario     *)
(* runs.                                                                   *)
LEMMA AdvanceKeeps ==
  ASSUME RunInv, AdvanceScenario
  PROVE  RunInv'
<1>1. /\ name \in Scenarios /\ layerSide \in Sides /\ wallPrice \in Nat /\ tick \in Nat
      /\ WallFits(Plan) /\ BookFits(Plan, pending, book) /\ StagesFit /\ LadderFits
  BY DEF RunInv
<1>2. /\ phase = "agents" /\ pending = <<>> /\ phase' = "scenario"
      /\ applied' = applied \cup {StageAt(tick)} /\ UNCHANGED config
      /\ UNCHANGED <<name, layerSide, tick, book>>
      /\ NormalMarket \/ Spoofing \/ Layering \/ QuoteStuffing \/ LiquidityEvaporation
  BY DEF AdvanceScenario, config
<1>3. ScenarioFits
  BY <1>2, NormalMarketFits, SpoofingFits, LayeringFits, StuffingFits, EvaporationFits
<1>4. /\ wallPrice' \in Nat /\ WallFits(Plan') /\ PendingFits(Plan', pending')
      /\ wallPrice' # wallPrice => wallPrice = 0 /\ StageAt(tick) = "wall_placed"
      /\ tick >= 7 => NoAbuseQuote(pending')
      /\ tick = 7 => \A id \in AbuseRests(book) : CancelComes(pending', id)
  BY <1>3 DEF ScenarioFits
<1>5. BookFits(Plan', pending', book)
  <2>1. BookFits(Plan, <<>>, book) BY <1>1, <1>2
  <2>2. Plan.wall = wallPrice BY DEF Plan
  <2>3. CASE wallPrice' = wallPrice
    <3>1. Plan' = Plan BY <1>2, <2>3 DEF Plan
    <3> QED BY <2>1, <3>1, FitsWithWall
  <2>4. CASE wallPrice' # wallPrice
    <3>1. Plan.wall = 0 BY <1>4, <2>2, <2>4
    <3>2. PICK v : v = Plan' OBVIOUS
    <3>3. PICK Q : Q = pending' OBVIOUS
    <3>4. BookFits(v, Q, book) BY <2>1, <3>1, FitsWithWall
    <3> QED BY <3>2, <3>3, <3>4
  <2> QED BY <2>3, <2>4
<1>6. StagesFit'
  <2>1. "wall_placed" \notin applied' => wallPrice' = 0 BY <1>1, <1>2, <1>4 DEF StagesFit
  <2>2. "wall_cancelled" \in applied' => tick >= 7
    <3>1. "wall_cancelled" \in applied => tick >= 8 BY <1>1, <1>2 DEF StagesFit
    <3>2. StageAt(tick) = "wall_cancelled" => tick = 7 BY <1>1, StagesByTick
    <3> QED BY <1>1, <1>2, <3>1, <3>2
  <2>3. tick >= 8 => AbuseRests(book) = {} BY <1>1 DEF StagesFit
  <2> QED BY <1>1, <1>2, <1>4, <2>1, <2>2, <2>3 DEF StagesFit
<1>7. LadderFits' BY <1>2 DEF LadderFits
<1> QED BY <1>1, <1>2, <1>4, <1>5, <1>6, <1>7 DEF RunInv, Phases

(* The repair of the ladder is planned: every level once.                  *)
LEMMA MaintainKeeps ==
  ASSUME RunInv, MaintainBaseline
  PROVE  RunInv'
<1>1. /\ name \in Scenarios /\ layerSide \in Sides /\ wallPrice \in Nat /\ tick \in Nat
      /\ WallFits(Plan) /\ BookFits(Plan, pending, book) /\ StagesFit /\ LadderFits
  BY DEF RunInv
<1>2. /\ phase = "scenario" /\ pending = <<>> /\ phase' = "baseline"
      /\ UNCHANGED <<name, layerSide, tick, book, applied, wallPrice>>
  BY DEF MaintainBaseline, config, scenario
<1>3. Plan' = Plan BY <1>2 DEF Plan
<1>4. PICK Q : Q = pending' OBVIOUS
<1>5. Levels \in Nat BY LadderAssumption
<1>6. Q = [i \in 1..(2 * Levels) |->
             LET side == IF i % 2 = 1 THEN "buy" ELSE "sell"
                 level == (i + 1) \div 2
             IN  OnLevel("repair", side, Ladder(side, level), LadderTarget(level), "BASELINE_MM")]
  BY <1>4 DEF MaintainBaseline
<1>7. ASSUME NEW i \in 1..(2 * Levels), NEW side \in Sides, NEW level \in 1..Levels,
             side = (IF i % 2 = 1 THEN "buy" ELSE "sell"), level = (i + 1) \div 2
      PROVE  Q[i] \in FitOps(Plan) /\ IsRepair(Q[i], side, level)
  <2>1. PICK op : op = Q[i] OBVIOUS
  <2>2. op = [kind |-> "repair", id |-> MarketId, agent |-> "BASELINE_MM", side |-> side,
              price |-> Ladder(side, level), lots |-> LadderTarget(level)]
    BY <1>6, <1>7, <2>1 DEF OnLevel, Op
  <2>3. /\ "BASELINE_MM" \in Agents /\ MarketId \in Ids /\ Ladder(side, level) \in Int
        /\ LadderTarget(level) \in Int
    BY ParticipantsAssumption, AbuseIdsFacts, LadderPlaces DEF Lots
  <2>4. op \in RunOp BY <2>2, <2>3 DEF RunOp, Kinds
  <2>5. IsRepair(op, side, level) BY <2>2 DEF IsRepair
  <2>6. OpFits(Plan, op) BY <2>2, <2>5 DEF OpFits
  <2> QED BY <2>1, <2>2, <2>4, <2>5, <2>6 DEF FitOps
<1>8. ASSUME NEW i \in 1..(2 * Levels) PROVE Q[i] \in FitOps(Plan) /\ Q[i].kind = "repair"
  <2>1. (i + 1) \div 2 \in 1..Levels BY <1>5
  <2>2. PICK level \in 1..Levels : level = (i + 1) \div 2 BY <2>1
  <2>3. PICK side \in Sides : side = IF i % 2 = 1 THEN "buy" ELSE "sell" BY SidesFacts
  <2> QED BY <1>7, <2>2, <2>3 DEF IsRepair
<1>9. Q \in Seq(FitOps(Plan)) /\ DOMAIN Q = 1..(2 * Levels)
  <2>1. DOMAIN Q = 1..(2 * Levels) BY <1>6
  <2>2. Q = [i \in 1..(2 * Levels) |-> Q[i]] BY <1>6
  <2>3. 2 * Levels \in Nat BY <1>5
  <2> QED BY <1>8, <2>1, <2>2, <2>3
<1>10. PendingFits(Plan, Q) BY <1>9, FitOpsFit
<1>11. ASSUME NEW side \in Sides, NEW level \in 1..Levels PROVE RepairComes(Q, side, level)
  <2>1. CASE side = "buy"
    <3>1. 2 * level - 1 \in 1..(2 * Levels) /\ (2 * level - 1) % 2 = 1 /\ ((2 * level - 1) + 1) \div 2 = level
      BY <1>5
    <3>2. IsRepair(Q[2 * level - 1], side, level) BY <1>7, <2>1, <3>1
    <3> QED BY <1>9, <3>1, <3>2 DEF RepairComes
  <2>2. CASE side = "sell"
    <3>1. 2 * level \in 1..(2 * Levels) /\ (2 * level) % 2 # 1 /\ ((2 * level) + 1) \div 2 = level
      BY <1>5
    <3>2. IsRepair(Q[2 * level], side, level) BY <1>7, <2>2, <3>1
    <3> QED BY <1>9, <3>1, <3>2 DEF RepairComes
  <2> QED BY <2>1, <2>2, SidesFacts
<1>12. BookFits(Plan, Q, book) BY <1>1, <1>2, MoreToDrop
<1>13. StagesFit'
  <2>1. NoAbuseQuote(Q) BY <1>8, <1>9 DEF NoAbuseQuote
  <2>2. ASSUME tick = 7 PROVE AbuseRests(book) = {}
    <3>1. \A id \in AbuseRests(book) : CancelComes(pending, id) BY <1>1, <1>2, <2>2 DEF StagesFit
    <3>2. \A id : ~CancelComes(<<>>, id) BY DEF CancelComes
    <3> QED BY <1>2, <3>1, <3>2
  <2>3. /\ "wall_placed" \notin applied => wallPrice = 0
        /\ "wall_cancelled" \in applied => tick >= 7
        /\ tick >= 8 => AbuseRests(book) = {}
    BY <1>1 DEF StagesFit
  <2> QED BY <1>1, <1>2, <1>4, <2>1, <2>2, <2>3 DEF StagesFit
<1>14. LadderFits' BY <1>2, <1>4, <1>8, <1>9, <1>11 DEF LadderFits
<1> QED BY <1>1, <1>2, <1>3, <1>4, <1>10, <1>12, <1>13, <1>14 DEF RunInv, Phases

(* A snapshot is recorded, or the run is over: the book is left alone.     *)
LEMMA RecordKeeps ==
  ASSUME RunInv, RecordSnapshot \/ Finish
  PROVE  RunInv'
<1>1. /\ name \in Scenarios /\ layerSide \in Sides /\ wallPrice \in Nat /\ tick \in Nat
      /\ WallFits(Plan) /\ PendingFits(Plan, pending) /\ BookFits(Plan, pending, book)
      /\ StagesFit /\ LadderFits
  BY DEF RunInv
<1>2. /\ UNCHANGED <<name, layerSide, tick, book, pending, applied, wallPrice>>
      /\ phase \in {"baseline", "recorded"} /\ phase' \in {"recorded", "rejected", "finished"}
      /\ phase = "baseline" => pending = <<>>
  BY DEF RecordSnapshot, Finish, config, scenario
<1>3. Plan' = Plan BY <1>2 DEF Plan
<1>4. StagesFit' BY <1>1, <1>2 DEF StagesFit
<1>5. LadderFits'
  <2>1. \A side, level : ~RepairComes(<<>>, side, level) BY DEF RepairComes
  <2>2. pending = <<>> /\ \A side \in Sides, level \in 1..Levels : Restored(book, side, level)
    BY <1>1, <1>2, <2>1 DEF LadderFits
  <2> QED BY <1>2, <2>2 DEF LadderFits
<1> QED BY <1>1, <1>2, <1>3, <1>4, <1>5 DEF RunInv, Phases

(* Every step of a run keeps the invariant.                                *)
LEMMA RunInvNext == RunInv /\ [RunNext]_runVars => RunInv'
<1> SUFFICES ASSUME RunInv, [RunNext]_runVars PROVE RunInv' OBVIOUS
<1>1. CASE UNCHANGED runVars
  <2>1. UNCHANGED <<name, layerSide, tick, phase, book, pending, applied, wallPrice>>
    BY <1>1 DEF runVars
  <2>2. Plan' = Plan BY <2>1 DEF Plan
  <2>3. StagesFit' BY <2>1 DEF RunInv, StagesFit
  <2>4. LadderFits' BY <2>1 DEF RunInv, LadderFits
  <2> QED BY <2>1, <2>2, <2>3, <2>4 DEF RunInv
<1>2. CASE Apply BY <1>2, ApplyKeeps
<1>3. CASE Decide BY <1>3, DecideKeeps
<1>4. CASE AdvanceScenario BY <1>4, AdvanceKeeps
<1>5. CASE MaintainBaseline BY <1>5, MaintainKeeps
<1>6. CASE RecordSnapshot \/ Finish BY <1>6, RecordKeeps
<1> QED BY <1>1, <1>2, <1>3, <1>4, <1>5, <1>6 DEF RunNext

(* The invariant holds in every state of every run.                        *)
LEMMA RunInvAlways == RunSpec => []RunInv
<1>1. RunInit => RunInv BY RunInvInit
<1>2. RunInv /\ [RunNext]_runVars => RunInv' BY RunInvNext
<1> QED BY <1>1, <1>2, PTL DEF RunSpec

-----------------------------------------------------------------------------
(* The theorems about runs                                                 *)

(* In a run of the kernel the reference price separates bids from asks in  *)
(* every state of every tick, although intents are stale when they are     *)
(* applied and levels are written without matching.                        *)
THEOREM ReferencePriceSeparates == RunSpec => []ReferenceSeparates
<1>1. ASSUME RunInv PROVE ReferenceSeparates
  <2>1. PICK w \in Plans : w = Plan BY <1>1, PlanType DEF RunInv
  <2>2. WallFits(w) /\ BookFits(w, pending, book) BY <1>1, <2>1 DEF RunInv
  <2>3. ASSUME NEW side \in Sides, NEW p \in DOMAIN book.levels[side]
        PROVE  /\ side = "buy" => p < ReferencePrice
               /\ side = "sell" => p > ReferencePrice
    <3>1. Good(book) BY <2>2 DEF BookFits
    <3>2. PICK id \in DOMAIN book.orders : book.orders[id].side = side /\ book.orders[id].price = p
      BY <3>1, LevelsFromIndex
    <3>3. PICK o : o = book.orders[id] OBVIOUS
    <3>4. OrderFits(w, pending, o) /\ o.side = side /\ o.price = p BY <2>2, <3>2, <3>3 DEF BookFits
    <3>5. CASE Allowed(w, side, p) BY <2>2, <3>5, AllowedPlaces
    <3>6. CASE ~Allowed(w, side, p) BY <3>4, <3>6 DEF OrderFits
    <3> QED BY <3>5, <3>6
  <2> QED BY <2>3, SidesFacts DEF ReferenceSeparates
<1> QED BY <1>1, RunInvAlways, PTL

(* Whatever a tick consumed or removed, it leaves every level of the       *)
(* baseline ladder with at least its quantity.                             *)
THEOREM TicksRestoreLadder == RunSpec => []LadderRestored
<1>1. ASSUME RunInv PROVE LadderRestored
  <2>1. LadderFits BY <1>1 DEF RunInv
  <2> QED BY <2>1 DEF LadderFits, LadderRestored, Restored
<1> QED BY <1>1, RunInvAlways, PTL

(* After the cancellation stage no order of a wall or a layer rests.       *)
THEOREM AbuseIsRemoved == RunSpec => []NoAbuseLeftBehind
<1>1. ASSUME RunInv PROVE NoAbuseLeftBehind
  <2>1. tick \in Nat /\ StagesFit BY <1>1 DEF RunInv
  <2>2. ASSUME \/ StageAt(tick) \in {"confirmed", "done"}
               \/ StageAt(tick) = "wall_cancelled" /\ phase \notin {"agents", "scenario"}
        PROVE  DOMAIN book.orders \cap (LayerIds \cup {WallId}) = {}
    <3>1. tick >= 8 \/ (tick = 7 /\ phase \notin {"agents", "scenario"}) BY <2>1, <2>2, StagesByTick
    <3>2. AbuseRests(book) = {} BY <2>1, <3>1 DEF StagesFit
    <3> QED BY <3>2 DEF AbuseRests, AbuseIds
  <2> QED BY <2>2 DEF NoAbuseLeftBehind
<1> QED BY <1>1, RunInvAlways, PTL

(* An id is only ever given with one side and one price: the reference,    *)
(* which looks for an order on the level it writes to, and the port, which *)
(* looks in the index, do the same to the book.                            *)
THEOREM ReferenceDoesAsPort == RunSpec => []NoForgottenOrder
<1>1. ASSUME RunInv PROVE NoForgottenOrder
  <2>1. PICK w \in Plans : w = Plan BY <1>1, PlanType DEF RunInv
  <2>2. WallFits(w) /\ BookFits(w, pending, book) /\ PendingFits(w, pending) /\ tick \in Nat
    BY <1>1, <2>1 DEF RunInv
  <2>3. QueuedAreIndexed(book) BY <2>2 DEF BookFits, Good
  <2>4. ASSUME NEW i \in DOMAIN pending, pending[i].kind = "quote"
        PROVE  UpdateAgentLevelHere(book, OrderOf(pending[i])) = UpdateAgentLevel(book, OrderOf(pending[i]))
    <3>1. pending \in Seq(RunOp) BY <2>2 DEF PendingFits
    <3>2. i \in 1..Len(pending) BY <3>1
    <3>3. PICK op \in RunOp : op = pending[i] BY <3>1, <3>2
    <3>4. OpFits(w, op) /\ op.kind = "quote" BY <2>2, <2>4, <3>2, <3>3 DEF PendingFits
    <3>5. UpdateAgentLevelHere(book, OrderOf(op)) = UpdateAgentLevel(book, OrderOf(op))
      BY <2>2, <3>4, QuotePerformed
    <3> QED BY <3>3, <3>5
  <2> QED BY <2>3, <2>4 DEF NoForgottenOrder
<1> QED BY <1>1, RunInvAlways, PTL

-----------------------------------------------------------------------------
(* What a reader of the events knows *)

(* A set of numbers that has 0, and with n the next, has all up to N.      *)
LEMMA CountUp ==
  ASSUME NEW N \in Nat, NEW S, 0 \in S, \A n \in 0..(N - 1) : n \in S => n + 1 \in S
  PROVE  \A n \in 0..N : n \in S
<1> DEFINE without == {n \in 0..N : n \notin S}
<1>1. SUFFICES ASSUME without # {} PROVE FALSE OBVIOUS
<1>2. without \in SUBSET Nat OBVIOUS
<1> HIDE DEF without
<1>3. PICK m \in without : \A n \in without : m <= n BY <1>1, <1>2, LeastNatural
<1>4. m \in 0..N /\ m \notin S BY DEF without
<1>5. m - 1 \in 0..(N - 1) BY <1>4
<1>6. m - 1 \in S
  <2> SUFFICES ASSUME m - 1 \notin S PROVE FALSE OBVIOUS
  <2>1. m - 1 \in without BY <1>5 DEF without
  <2>2. m <= m - 1 BY <1>3, <2>1
  <2> QED BY <1>4, <2>2
<1>7. (m - 1) + 1 \in S BY <1>5, <1>6
<1> QED BY <1>4, <1>7

(* The function exists, so it is what its equation says.                   *)
LEMMA ReadingFacts ==
  ASSUME NEW f, NEW es, Len(es) \in Nat
  PROVE  /\ Reading(f, es)[0] = f
         /\ \A i \in 1..Len(es) : Reading(f, es)[i] = Applied(Reading(f, es)[i - 1], es[i])
<1> DEFINE N == Len(es)
           can == {n \in 0..N : \E r : Reads(r, f, es, n)}
<1>1. 0 \in can
  <2>1. PICK r : r = [i \in 0..0 |-> f] OBVIOUS
  <2>2. Reads(r, f, es, 0) BY <2>1 DEF Reads
  <2> QED BY <2>2
<1>2. ASSUME NEW n \in 0..(N - 1), n \in can PROVE n + 1 \in can
  <2>1. PICK r : Reads(r, f, es, n) BY <1>2
  <2>2. \A i \in 0..n : r[i] = IF i = 0 THEN f ELSE Applied(r[i - 1], es[i]) BY <2>1 DEF Reads
  <2>3. PICK next : next = Applied(r[n], es[n + 1]) OBVIOUS
  <2>4. PICK g : g = [i \in 0..(n + 1) |-> IF i = n + 1 THEN next ELSE r[i]] OBVIOUS
  <2>5. ASSUME NEW i \in 0..(n + 1) PROVE g[i] = IF i = 0 THEN f ELSE Applied(g[i - 1], es[i])
    <3>1. CASE i = n + 1
      <4>1. g[i] = next /\ g[i - 1] = r[n] /\ i # 0 BY <2>4, <3>1
      <4> QED BY <2>3, <3>1, <4>1
    <3>2. CASE i \in 1..n
      <4>1. g[i] = r[i] /\ g[i - 1] = r[i - 1] BY <2>4, <3>2
      <4> QED BY <2>2, <3>2, <4>1
    <3>3. CASE i = 0
      <4>1. g[i] = r[0] BY <2>4, <3>3
      <4> QED BY <2>2, <3>3, <4>1
    <3> QED BY <3>1, <3>2, <3>3
  <2>6. g = [i \in 0..(n + 1) |-> g[i]] BY <2>4
  <2>7. Reads(g, f, es, n + 1) BY <2>5, <2>6 DEF Reads
  <2> QED BY <2>7
<1> HIDE DEF can
<1>3. N \in can
  <2>1. \A n \in 0..N : n \in can BY <1>1, <1>2, CountUp
  <2> QED BY <2>1
<1>4. \E r : Reads(r, f, es, N) BY <1>3 DEF can
<1>5. Reads(Reading(f, es), f, es, N) BY <1>4 DEF Reading, Reads
<1>6. PICK r : r = Reading(f, es) OBVIOUS
<1>7. r = [i \in 0..N |-> IF i = 0 THEN f ELSE Applied(r[i - 1], es[i])] BY <1>5, <1>6 DEF Reads
<1> QED BY <1>6, <1>7

(* When each event takes one book of a series to the next, reading them    *)
(* leaves the last.                                                        *)
LEMMA ReadBooks ==
  ASSUME NEW f, NEW es, Len(es) \in Nat, NEW B, B[0] = f,
         \A i \in 1..Len(es) : Applied(B[i - 1], es[i]) = B[i]
  PROVE  Reading(f, es)[Len(es)] = B[Len(es)]
<1> DEFINE same == {n \in 0..Len(es) : Reading(f, es)[n] = B[n]}
<1>1. PICK r : r = Reading(f, es) OBVIOUS
<1>2. r[0] = f /\ \A i \in 1..Len(es) : r[i] = Applied(r[i - 1], es[i]) BY <1>1, ReadingFacts
<1>3. 0 \in same BY <1>1, <1>2
<1>4. ASSUME NEW n \in 0..(Len(es) - 1), n \in same PROVE n + 1 \in same
  <2>1. r[n] = B[n] BY <1>1, <1>4
  <2>2. n + 1 \in 1..Len(es) /\ (n + 1) - 1 = n OBVIOUS
  <2>3. r[n + 1] = Applied(r[n], es[n + 1]) /\ Applied(B[n], es[n + 1]) = B[n + 1] BY <1>2, <2>2
  <2> QED BY <1>1, <2>1, <2>2, <2>3
<1> HIDE DEF same
<1>5. \A n \in 0..Len(es) : n \in same BY <1>3, <1>4, CountUp
<1> QED BY <1>5 DEF same

(* The same for the index alone: what an event does to the index does not  *)
(* depend on the queues.                                                   *)
LEMMA ReadIndex ==
  ASSUME NEW f, NEW es, Len(es) \in Nat, NEW I, I[0] = f.orders,
         \A i \in 1..Len(es) : \A g : g.orders = I[i - 1] => Applied(g, es[i]).orders = I[i]
  PROVE  Reading(f, es)[Len(es)].orders = I[Len(es)]
<1> DEFINE same == {n \in 0..Len(es) : Reading(f, es)[n].orders = I[n]}
<1>1. PICK r : r = Reading(f, es) OBVIOUS
<1>2. r[0] = f /\ \A i \in 1..Len(es) : r[i] = Applied(r[i - 1], es[i]) BY <1>1, ReadingFacts
<1>3. 0 \in same BY <1>1, <1>2
<1>4. ASSUME NEW n \in 0..(Len(es) - 1), n \in same PROVE n + 1 \in same
  <2>1. r[n].orders = I[n] BY <1>1, <1>4
  <2>2. n + 1 \in 1..Len(es) /\ (n + 1) - 1 = n OBVIOUS
  <2>3. r[n + 1] = Applied(r[n], es[n + 1]) BY <1>2, <2>2
  <2>4. Applied(r[n], es[n + 1]).orders = I[n + 1] BY <2>1, <2>2
  <2> QED BY <1>1, <2>2, <2>3, <2>4
<1> HIDE DEF same
<1>5. \A n \in 0..Len(es) : n \in same BY <1>3, <1>4, CountUp
<1> QED BY <1>5 DEF same

-----------------------------------------------------------------------------
(* What each kind of event does to the reader's index *)

(* An order that is added is put into the index.                           *)
LEMMA AddApplied ==
  ASSUME NEW g, NEW o
  PROVE  Applied(g, AddEvent(o)) = Appended(g, o) /\ Appended(g, o).orders = PutOrder(g.orders, o)
<1>1. PICK e : e = AddEvent(o) OBVIOUS
<1>2. e.type = "add" /\ e.order = o BY <1>1 DEF AddEvent
<1>3. Applied(g, e) = Appended(g, o) BY <1>2 DEF Applied
<1>4. Appended(g, o).orders = PutOrder(g.orders, o) BY DEF Appended, SetQueue
<1> QED BY <1>1, <1>3, <1>4

(* A cancelled order is dropped from it.                                   *)
LEMMA CancelApplied ==
  ASSUME NEW g, NEW o, g.orders[o.id].id = o.id
  PROVE  /\ Applied(g, CancelEvent(o)) = Removed(g, g.orders[o.id])
         /\ Removed(g, g.orders[o.id]).orders = DropOrder(g.orders, o.id)
<1>1. PICK e : e = CancelEvent(o) OBVIOUS
<1>2. e.type = "cancel" /\ e.order = o BY <1>1 DEF CancelEvent
<1>3. Applied(g, e) = Removed(g, g.orders[o.id]) BY <1>2 DEF Applied
<1>4. Removed(g, g.orders[o.id]).orders = DropOrder(g.orders, o.id) BY DEF Removed, SetQueue
<1> QED BY <1>1, <1>3, <1>4

(* A modified order takes the place of the one with its id.                *)
LEMMA ModifyApplied ==
  ASSUME NEW g, NEW o, NEW before, NEW preserved, o.id \in DOMAIN g.orders, g.orders[o.id].id = o.id
  PROVE  Applied(g, ModifyEvent(before, o, preserved)).orders = PutOrder(g.orders, o)
<1>1. PICK e : e = ModifyEvent(before, o, preserved) OBVIOUS
<1>2. e.type = "modify" /\ e.order = o BY <1>1 DEF ModifyEvent
<1>3. CASE InPlace(g, e)
  <2>1. Applied(g, e) = Replaced(g, g.orders[o.id], o) BY <1>2, <1>3 DEF Applied
  <2>2. Replaced(g, g.orders[o.id], o).orders = PutOrder(g.orders, o) BY DEF Replaced, SetQueue
  <2> QED BY <1>1, <2>1, <2>2
<1>4. CASE ~InPlace(g, e)
  <2>1. PICK c : c = Removed(g, g.orders[o.id]) OBVIOUS
  <2>2. Applied(g, e) = Appended(c, o) BY <1>2, <1>4, <2>1 DEF Applied
  <2>3. c.orders = DropOrder(g.orders, o.id) BY <2>1 DEF Removed, SetQueue
  <2>4. Appended(c, o).orders = PutOrder(c.orders, o) BY DEF Appended, SetQueue
  <2>5. PutOrder(DropOrder(g.orders, o.id), o) = PutOrder(g.orders, o) BY DEF PutOrder, DropOrder
  <2> QED BY <1>1, <2>2, <2>3, <2>4, <2>5
<1> QED BY <1>3, <1>4

(* An order that was traded is reduced, or dropped when nothing is left.   *)
LEMMA ExecuteApplied ==
  ASSUME NEW g, NEW o \in Order, NEW traded \in 0..o.qty, g.orders[o.id].id = o.id
  PROVE  LET e == ExecuteEvent(o, traded)
             left == [o EXCEPT !.qty = o.qty - traded]
         IN  /\ traded = o.qty => /\ Applied(g, e) = Removed(g, g.orders[o.id])
                                  /\ Applied(g, e).orders = DropOrder(g.orders, o.id)
             /\ traded # o.qty => /\ Applied(g, e) = Replaced(g, g.orders[o.id], left)
                                  /\ Applied(g, e).orders = PutOrder(g.orders, left)
<1>1. PICK e : e = ExecuteEvent(o, traded) OBVIOUS
<1>2. PICK left : left = [o EXCEPT !.qty = o.qty - traded] OBVIOUS
<1>3. e.type = "execute" /\ e.order = left BY <1>1, <1>2 DEF ExecuteEvent
<1>4. o.qty \in Nat /\ left.qty = o.qty - traded /\ left.id = o.id BY <1>2 DEF Order, Lots
<1>5. CASE traded = o.qty
  <2>1. left.qty = 0 BY <1>4, <1>5
  <2>2. Applied(g, e) = Removed(g, g.orders[o.id]) BY <1>3, <1>4, <2>1 DEF Applied
  <2>3. Removed(g, g.orders[o.id]).orders = DropOrder(g.orders, o.id) BY DEF Removed, SetQueue
  <2> QED BY <1>1, <1>5, <2>2, <2>3
<1>6. CASE traded # o.qty
  <2>1. left.qty > 0 BY <1>4, <1>6
  <2>2. Applied(g, e) = Replaced(g, g.orders[o.id], left) BY <1>3, <1>4, <2>1 DEF Applied
  <2>3. Replaced(g, g.orders[o.id], left).orders = PutOrder(g.orders, left) BY DEF Replaced, SetQueue
  <2> QED BY <1>1, <1>2, <1>6, <2>2, <2>3
<1> QED BY <1>5, <1>6

LEMMA CancelsApplied ==
  ASSUME NEW orders, NEW q \in Seq(Order), NEW i \in 1..Len(q), NEW g,
         \A k \in 1..Len(q) : q[k].id \in DOMAIN orders /\ orders[q[k].id].id = q[k].id,
         \A k, l \in 1..Len(q) : q[k].id = q[l].id => k = l,
         g.orders = CancelledIndex(orders, q, i - 1)
  PROVE  Applied(g, CancelEvent(q[i])).orders = CancelledIndex(orders, q, i)
<1>1. PICK o : o = q[i] OBVIOUS
<1>2. PICK before : before = {q[k].id : k \in 1..(i - 1)} OBVIOUS
<1>3. PICK upto : upto = {q[k].id : k \in 1..i} OBVIOUS
<1>4. o.id \notin before
  <2> SUFFICES ASSUME NEW k \in 1..(i - 1), q[k].id = o.id PROVE FALSE BY <1>2
  <2>1. k \in 1..Len(q) /\ k # i OBVIOUS
  <2> QED BY <1>1, <2>1
<1>5. upto = before \cup {o.id}
  <2>1. \A k \in 1..i : k = i \/ k \in 1..(i - 1) OBVIOUS
  <2>2. \A k \in 1..(i - 1) : k \in 1..i OBVIOUS
  <2>3. i \in 1..i OBVIOUS
  <2> QED BY <1>1, <1>2, <1>3, <2>1, <2>2, <2>3
<1>6. g.orders = [id \in DOMAIN orders \ before |-> orders[id]] BY <1>2 DEF CancelledIndex
<1>7. o.id \in DOMAIN orders /\ orders[o.id].id = o.id BY <1>1
<1>8. g.orders[o.id].id = o.id BY <1>4, <1>6, <1>7
<1>9. Applied(g, CancelEvent(o)).orders = DropOrder(g.orders, o.id) BY <1>8, CancelApplied
<1>10. DropOrder(g.orders, o.id) = [id \in DOMAIN orders \ upto |-> orders[id]]
  <2>1. DOMAIN g.orders \ {o.id} = DOMAIN orders \ upto BY <1>5, <1>6
  <2>2. \A id \in DOMAIN orders \ upto : g.orders[id] = orders[id] BY <1>5, <1>6
  <2> QED BY <2>1, <2>2 DEF DropOrder
<1> QED BY <1>1, <1>3, <1>9, <1>10 DEF CancelledIndex

-----------------------------------------------------------------------------
(* What the reader's index is after the events of an operation *)

(* No event, one event, and one event more.                                *)
LEMMA ReadNone ==
  ASSUME NEW f
  PROVE  Reading(f, <<>>)[Len(<<>>)] = f
<1>1. Len(<<>>) = 0 OBVIOUS
<1> QED BY <1>1, ReadingFacts

LEMMA ReadMore ==
  ASSUME NEW f, NEW S, NEW es \in Seq(S), NEW e \in S
  PROVE  Reading(f, es \o <<e>>)[Len(es \o <<e>>)] = Applied(Reading(f, es)[Len(es)], e)
<1>1. PICK r : r = Reading(f, es) OBVIOUS
<1>2. PICK n \in Nat : n = Len(es) OBVIOUS
<1>3. r[0] = f /\ \A i \in 1..n : r[i] = Applied(r[i - 1], es[i]) BY <1>1, <1>2, ReadingFacts
<1>4. PICK last : last = Applied(r[n], e) OBVIOUS
<1>5. PICK all : all = es \o <<e>> OBVIOUS
<1>6. Len(all) = n + 1 /\ all[n + 1] = e /\ \A i \in 1..n : all[i] = es[i] BY <1>2, <1>5
<1>7. PICK B : B = [i \in 0..(n + 1) |-> IF i = n + 1 THEN last ELSE r[i]] OBVIOUS
<1>8. B[0] = f /\ B[n + 1] = last BY <1>3, <1>7
<1>9. ASSUME NEW i \in 1..Len(all) PROVE Applied(B[i - 1], all[i]) = B[i]
  <2>1. CASE i = n + 1
    <3>1. B[i - 1] = r[n] /\ B[i] = last BY <1>7, <2>1
    <3> QED BY <1>4, <1>6, <2>1, <3>1
  <2>2. CASE i \in 1..n
    <3>1. B[i - 1] = r[i - 1] /\ B[i] = r[i] /\ all[i] = es[i] BY <1>6, <1>7, <2>2
    <3> QED BY <1>3, <2>2, <3>1
  <2> QED BY <1>6, <2>1, <2>2
<1>11. Len(all) \in Nat /\ B[0] = f BY <1>6, <1>8
<1>10. Reading(f, all)[Len(all)] = B[Len(all)] BY <1>9, <1>11, ReadBooks
<1> QED BY <1>1, <1>2, <1>4, <1>5, <1>6, <1>8, <1>10

LEMMA ReadOne ==
  ASSUME NEW f, NEW e
  PROVE  Reading(f, <<e>>)[Len(<<e>>)] = Applied(f, e)
<1>1. PICK es : es = <<e>> OBVIOUS
<1>2. Len(es) = 1 /\ es[1] = e BY <1>1
<1>3. PICK r : r = Reading(f, es) OBVIOUS
<1>4. r[0] = f /\ \A i \in 1..1 : r[i] = Applied(r[i - 1], es[i]) BY <1>2, <1>3, ReadingFacts
<1>5. r[1] = Applied(r[1 - 1], es[1]) BY <1>4
<1>6. r[1] = Applied(f, e) BY <1>2, <1>4, <1>5
<1> QED BY <1>1, <1>2, <1>3, <1>6

(* The cancels of a sequence of orders drop their ids.                     *)
LEMMA ReadCancels ==
  ASSUME NEW orders, NEW q \in Seq(Order), NEW f, NEW es, IsIndex(orders),
         \A k \in 1..Len(q) : q[k].id \in DOMAIN orders /\ orders[q[k].id].id = q[k].id,
         \A k, l \in 1..Len(q) : q[k].id = q[l].id => k = l,
         f.orders = orders, Len(es) = Len(q), \A i \in 1..Len(q) : es[i] = CancelEvent(q[i])
  PROVE  IndexRead(f, es) = CancelledIndex(orders, q, Len(q))
<1>1. PICK n : n = Len(q) OBVIOUS
<1>2. n \in Nat /\ Len(es) = n BY <1>1
<1>3. PICK I : I = [i \in 0..n |-> CancelledIndex(orders, q, i)] OBVIOUS
<1>4. I[0] = f.orders
  <2>1. I[0] = CancelledIndex(orders, q, 0) BY <1>2, <1>3
  <2>2. {q[k].id : k \in 1..0} = {} OBVIOUS
  <2>3. CancelledIndex(orders, q, 0) = [id \in DOMAIN orders |-> orders[id]]
    BY <2>2 DEF CancelledIndex
  <2> QED BY <2>1, <2>3 DEF IsIndex
<1>5. ASSUME NEW i \in 1..n, NEW g, g.orders = I[i - 1] PROVE Applied(g, es[i]).orders = I[i]
  <2>1. i - 1 \in 0..n /\ i \in 0..n BY <1>2
  <2>2. I[i - 1] = CancelledIndex(orders, q, i - 1) /\ I[i] = CancelledIndex(orders, q, i)
    BY <1>3, <2>1
  <2>3. g.orders = CancelledIndex(orders, q, i - 1) BY <1>5, <2>2
  <2>6. Applied(g, CancelEvent(q[i])).orders = CancelledIndex(orders, q, i)
    BY <1>1, <2>3, CancelsApplied
  <2>7. es[i] = CancelEvent(q[i]) BY <1>1
  <2> QED BY <2>2, <2>6, <2>7
<1>6. \A i \in 1..Len(es) : \A g : g.orders = I[i - 1] => Applied(g, es[i]).orders = I[i]
  BY <1>2, <1>5
<1>7. Reading(f, es)[Len(es)].orders = I[Len(es)] BY <1>2, <1>4, <1>6, ReadIndex
<1>8. I[n] = CancelledIndex(orders, q, n) BY <1>2, <1>3
<1> QED BY <1>1, <1>2, <1>7, <1>8 DEF IndexRead

(* The cancels of a queue are a sequence of events.                        *)
LEMMA CancelsOf ==
  ASSUME NEW q \in Seq(Order), NEW es, es = [i \in DOMAIN q |-> CancelEvent(q[i])], NEW e
  PROVE  /\ Len(es) = Len(q) /\ \A i \in 1..Len(q) : es[i] = CancelEvent(q[i])
         /\ \E S : es \in Seq(S) /\ e \in S
<1>1. PICK n : n = Len(q) OBVIOUS
<1>2. n \in Nat /\ es = [i \in 1..n |-> CancelEvent(q[i])] BY <1>1
<1>3. Len(es) = n /\ \A i \in 1..n : es[i] = CancelEvent(q[i]) BY <1>2
<1> DEFINE S == {CancelEvent(q[i]) : i \in 1..n} \cup {e}
<1>4. e \in S /\ \A i \in 1..n : CancelEvent(q[i]) \in S OBVIOUS
<1> HIDE DEF S
<1>5. es \in Seq(S) BY <1>2, <1>4
<1> QED BY <1>1, <1>3, <1>4, <1>5

(* A cancel: the reader drops the order, or there is nothing to read.      *)
LEMMA CancelKnown ==
  ASSUME NEW b, Good(b), NEW f, f.orders = b.orders, NEW id
  PROVE  IndexRead(f, CancelEvents(b, id)) = CancelOrder(b, id).orders
<1>1. CASE Known(b, id)
  <2>1. PICK o : o = b.orders[id] OBVIOUS
  <2>2. id \in DOMAIN b.orders /\ o.id = id BY <1>1, <2>1, IndexType DEF Known
  <2>3. CancelEvents(b, id) = <<CancelEvent(o)>> BY <1>1, <2>1 DEF CancelEvents
  <2>4. f.orders[o.id].id = o.id BY <2>1, <2>2
  <2>5. Applied(f, CancelEvent(o)).orders = DropOrder(f.orders, o.id) BY <2>4, CancelApplied
  <2>6. IndexRead(f, <<CancelEvent(o)>>) = DropOrder(f.orders, id)
    BY <2>2, <2>5, ReadOne DEF IndexRead
  <2>7. CancelOrder(b, id).orders = DropOrder(b.orders, id)
    <3>1. Removed(b, b.orders[id]).orders = DropOrder(b.orders, id) BY <2>2, RemovedGood
    <3> QED BY <1>1, <3>1 DEF CancelOrder
  <2> QED BY <2>3, <2>6, <2>7
<1>2. CASE ~Known(b, id)
  <2>1. CancelEvents(b, id) = <<>> /\ CancelOrder(b, id) = b BY <1>2 DEF CancelEvents, CancelOrder
  <2> QED BY <2>1, ReadNone DEF IndexRead
<1> QED BY <1>1, <1>2

(* A modification keeps the id: the reader puts the order in place of it.  *)
LEMMA ModifyKnown ==
  ASSUME NEW b, Good(b), NEW f, f.orders = b.orders, NEW r
  PROVE  IndexRead(f, ModifyEvents(b, r)) = ModifyOrder(b, r).orders
<1>1. CASE CanModify(b, r)
  <2>1. PICK old : old = b.orders[r.id] OBVIOUS
  <2>2. PICK new : new = Modified(b, r) OBVIOUS
  <2>3. PICK e : e = ModifyEvent(old, new, SamePrice(b, r)) OBVIOUS
  <2>4. r.id \in DOMAIN b.orders /\ old.id = r.id /\ old \in Order
    BY <1>1, <2>1, IndexType DEF CanModify, Known
  <2>5. new.id = r.id
    <3>1. PICK ts : new = [old EXCEPT !.qty = r.qty, !.price = r.price, !.ts = ts]
      BY <2>1, <2>2 DEF Modified
    <3> QED BY <2>4, <3>1 DEF Order
  <2>6. ModifyEvents(b, r) = <<e>> BY <1>1, <2>1, <2>2, <2>3 DEF ModifyEvents
  <2>7. Applied(f, e).orders = PutOrder(f.orders, new)
    <3>1. new.id \in DOMAIN f.orders /\ f.orders[new.id].id = new.id BY <2>1, <2>4, <2>5
    <3> QED BY <2>3, <3>1, ModifyApplied
  <2>8. ModifyOrder(b, r).orders = PutOrder(b.orders, new)
    <3>1. CASE SamePrice(b, r)
      <4>1. \E q : ModifyOrder(b, r) = SetQueue(b, old.side, old.price, q, PutOrder(b.orders, new))
        BY <1>1, <2>1, <2>2, <3>1 DEF ModifyOrder
      <4> QED BY <4>1 DEF SetQueue
    <3>2. CASE ~SamePrice(b, r)
      <4>1. PICK c : c = Removed(b, old) OBVIOUS
      <4>2. ModifyOrder(b, r) = Appended(c, new) BY <1>1, <2>1, <2>2, <3>2, <4>1 DEF ModifyOrder
      <4>3. c.orders = DropOrder(b.orders, r.id) BY <2>1, <2>4, <4>1, RemovedGood
      <4>4. Appended(c, new).orders = PutOrder(c.orders, new) BY DEF Appended, SetQueue
      <4>5. PutOrder(DropOrder(b.orders, r.id), new) = PutOrder(b.orders, new)
        BY <2>5 DEF PutOrder, DropOrder
      <4> QED BY <4>2, <4>3, <4>4, <4>5
    <3> QED BY <3>1, <3>2
  <2> QED BY <2>6, <2>7, <2>8, ReadOne DEF IndexRead
<1>2. CASE ~CanModify(b, r)
  <2>1. ModifyEvents(b, r) = <<>> /\ ModifyOrder(b, r) = b BY <1>2 DEF ModifyEvents, ModifyOrder
  <2> QED BY <2>1, ReadNone DEF IndexRead
<1> QED BY <1>1, <1>2

(* A level of a good book, as a queue of orders that are in the index.     *)
LEMMA QueueIsIndexed ==
  ASSUME NEW b, Good(b), NEW s \in Sides, NEW p
  PROVE  LET q == QueueAt(b, s, p)
         IN  /\ q \in Seq(Order) /\ DOMAIN q = 1..Len(q) /\ Len(q) \in Nat
             /\ \A k \in 1..Len(q) : q[k].id \in DOMAIN b.orders /\ b.orders[q[k].id] = q[k]
             /\ \A k, l \in 1..Len(q) : q[k].id = q[l].id => k = l
             /\ IsIndex(b.orders)
<1>1. PICK q : q = QueueAt(b, s, p) OBVIOUS
<1>2. IsBook(b) BY DEF Good
<1>3. IsIndex(b.orders) BY <1>2 DEF IsBook, IsMap, IsIndex
<1>4. CASE HasLevel(b, s, p)
  <2>1. p \in DOMAIN b.levels[s] /\ q = b.levels[s][p] BY <1>1, <1>4 DEF QueueAt, HasLevel
  <2>2. q \in Seq(Order) /\ DOMAIN q = 1..Len(q) /\ Len(q) \in Nat BY <1>2, <2>1, BookType
  <2>3. \A k \in 1..Len(q) : q[k].id \in DOMAIN b.orders /\ b.orders[q[k].id] = q[k]
    BY <2>1 DEF Good, QueuedAreIndexed
  <2>4. \A k, l \in 1..Len(q) : q[k].id = q[l].id => k = l BY <2>1 DEF Good, QueuedOnce
  <2> QED BY <1>1, <1>3, <2>2, <2>3, <2>4
<1>5. CASE ~HasLevel(b, s, p)
  <2>1. q = <<>> BY <1>1, <1>5 DEF QueueAt
  <2> QED BY <1>1, <1>3, <2>1
<1> QED BY <1>4, <1>5

(* Reading the cancels of indexed orders.                                  *)
LEMMA CancelledQueue ==
  ASSUME NEW orders, NEW q, NEW f, AllIndexed(orders, q), f.orders = orders
  PROVE  IndexRead(f, Cancels(q)) = CancelledIndex(orders, q, Len(q))
<1>1. PICK es : es = [i \in DOMAIN q |-> CancelEvent(q[i])] OBVIOUS
<1>2. q \in Seq(Order) /\ IsIndex(orders) BY DEF AllIndexed
<1>3. Len(es) = Len(q) /\ \A i \in 1..Len(q) : es[i] = CancelEvent(q[i])
  BY <1>1, <1>2, CancelsOf
<1>4. /\ \A k \in 1..Len(q) : q[k].id \in DOMAIN orders /\ orders[q[k].id].id = q[k].id
      /\ \A k, l \in 1..Len(q) : q[k].id = q[l].id => k = l
  BY DEF AllIndexed
<1>5. es = Cancels(q) BY <1>1 DEF Cancels
<1> HIDE <1>1
<1>6. IndexRead(f, es) = CancelledIndex(orders, q, Len(q)) BY <1>2, <1>3, <1>4, ReadCancels
<1> QED BY <1>5, <1>6

(* removeLevel reports each order of the level.                            *)
LEMMA RemoveLevelKnown ==
  ASSUME NEW b, Good(b), NEW f, f.orders = b.orders, NEW s \in Sides, NEW p
  PROVE  /\ IndexRead(f, RemoveLevelEvents(b, s, p)) = RemoveLevel(b, s, p).orders
         /\ RemoveLevel(b, s, p).orders = CancelledIndex(b.orders, QueueAt(b, s, p), Len(QueueAt(b, s, p)))
<1>1. PICK q : q = QueueAt(b, s, p) OBVIOUS
<1>2. /\ q \in Seq(Order) /\ DOMAIN q = 1..Len(q)
      /\ \A k \in 1..Len(q) : q[k].id \in DOMAIN b.orders /\ b.orders[q[k].id] = q[k]
      /\ \A k, l \in 1..Len(q) : q[k].id = q[l].id => k = l
      /\ IsIndex(b.orders)
  BY <1>1, QueueIsIndexed
<1>3. PICK es : es = RemoveLevelEvents(b, s, p) OBVIOUS
<1>4. es = Cancels(q) BY <1>1, <1>3 DEF RemoveLevelEvents, Cancels
<1>5. AllIndexed(b.orders, q) BY <1>2 DEF AllIndexed
<1>6. IndexRead(f, es) = CancelledIndex(b.orders, q, Len(q)) BY <1>4, <1>5, CancelledQueue
<1>7. RemoveLevel(b, s, p).orders = CancelledIndex(b.orders, q, Len(q))
  <2>1. PICK ids : ids = {q[i].id : i \in DOMAIN q} OBVIOUS
  <2>2. ids = {q[i].id : i \in 1..Len(q)} BY <1>2, <2>1
  <2>3. RemoveLevel(b, s, p).orders = [i \in DOMAIN b.orders \ ids |-> b.orders[i]]
    BY <1>1, <2>1 DEF RemoveLevel
  <2> QED BY <2>2, <2>3 DEF CancelledIndex
<1> QED BY <1>1, <1>3, <1>6, <1>7

(* updateAgentLevel: its report may claim a place in the queue that is not *)
(* so, or be left out when the order is the same; the index is right.      *)
LEMMA UpdateAgentLevelKnown ==
  ASSUME NEW b, Good(b), NEW f, f.orders = b.orders, NEW o, o.qty \in Nat
  PROVE  IndexRead(f, UpdateAgentLevelEvents(b, o)) = UpdateAgentLevel(b, o).orders
<1>1. CASE o.qty = 0
  <2>1. UpdateAgentLevelEvents(b, o) = CancelEvents(b, o.id) BY <1>1 DEF UpdateAgentLevelEvents
  <2>2. UpdateAgentLevel(b, o) = CancelOrder(b, o.id) BY <1>1 DEF UpdateAgentLevel
  <2> QED BY <2>1, <2>2, CancelKnown
<1>2. CASE o.qty # 0 /\ ~Known(b, o.id)
  <2>1. UpdateAgentLevelEvents(b, o) = <<AddEvent(o)>>
    BY <1>2 DEF UpdateAgentLevelEvents
  <2>2. UpdateAgentLevel(b, o) = Appended(b, o) BY <1>2 DEF UpdateAgentLevel
  <2>3. Appended(b, o).orders = PutOrder(b.orders, o) BY AddApplied
  <2>4. Applied(f, AddEvent(o)).orders = PutOrder(f.orders, o) BY AddApplied
  <2> QED BY <2>1, <2>2, <2>3, <2>4, ReadOne DEF IndexRead
<1>3. CASE o.qty # 0 /\ Known(b, o.id)
  <2>1. o.id \in DOMAIN b.orders BY <1>3 DEF Known
  <2>2. PICK c : c = Removed(b, b.orders[o.id]) OBVIOUS
  <2>3. UpdateAgentLevel(b, o) = Appended(c, o) BY <1>3, <2>2 DEF UpdateAgentLevel
  <2>4. c.orders = DropOrder(b.orders, o.id) BY <2>1, <2>2, RemovedGood
  <2>5. Appended(c, o).orders = PutOrder(c.orders, o) BY AddApplied
  <2>6. PutOrder(DropOrder(b.orders, o.id), o) = PutOrder(b.orders, o) BY DEF PutOrder, DropOrder
  <2>7. UpdateAgentLevel(b, o).orders = PutOrder(b.orders, o) BY <2>3, <2>4, <2>5, <2>6
  <2>8. CASE b.orders[o.id] # o
    <3>1. PICK before : before = b.orders[o.id] OBVIOUS
    <3>0. o.qty > 0 /\ ~(o.qty <= 0) BY <1>3
    <3>2. UpdateAgentLevelEvents(b, o) = <<ModifyEvent(before, o, TRUE)>>
      BY <1>3, <2>8, <3>0, <3>1 DEF UpdateAgentLevelEvents
    <3>3. o.id \in DOMAIN f.orders /\ f.orders[o.id].id = o.id BY <2>1, IndexType
    <3>4. Applied(f, ModifyEvent(before, o, TRUE)).orders = PutOrder(f.orders, o)
      BY <3>3, ModifyApplied
    <3> QED BY <2>7, <3>2, <3>4, ReadOne DEF IndexRead
  <2>9. CASE b.orders[o.id] = o
    <3>1. UpdateAgentLevelEvents(b, o) = <<>> BY <1>3, <2>9 DEF UpdateAgentLevelEvents
    <3>2. IsIndex(b.orders) BY DEF Good, IsBook, IsMap, IsIndex
    <3>3. PutOrder(b.orders, o) = b.orders
      <4>1. DOMAIN b.orders \cup {o.id} = DOMAIN b.orders BY <2>1
      <4>2. PutOrder(b.orders, o) = [i \in DOMAIN b.orders |-> b.orders[i]]
        BY <2>9, <4>1 DEF PutOrder
      <4> QED BY <3>2, <4>2 DEF IsIndex
    <3> QED BY <2>7, <3>1, <3>3, ReadNone DEF IndexRead
  <2> QED BY <2>8, <2>9
<1> QED BY <1>1, <1>2, <1>3

(* ensureLevelMinimum is an updateAgentLevel.                              *)
LEMMA EnsureLevelMinimumKnown ==
  ASSUME NEW b, Good(b), NEW f, f.orders = b.orders,
         NEW s \in Sides, NEW p \in Prices, NEW n \in Nat, NEW a \in Agents
  PROVE  IndexRead(f, EnsureLevelMinimumEvents(b, s, p, n, a)) = EnsureLevelMinimum(b, s, p, n, a).orders
<1>1. PICK o : o = TopUpOrder(b, s, p, n, a) OBVIOUS
<1>2. o.qty \in Nat BY <1>1, TopUpType
<1>3. IndexRead(f, UpdateAgentLevelEvents(b, o)) = UpdateAgentLevel(b, o).orders
  BY <1>2, UpdateAgentLevelKnown
<1> QED BY <1>1, <1>3 DEF EnsureLevelMinimum, EnsureLevelMinimumEvents

(* updateLevel, onto a level that has no order of its own: cancels, then   *)
(* an add. Onto one that has: cancels of the others, and a modify unless   *)
(* the order is the same.                                                  *)
LEMMA UpdateLevelKnown ==
  ASSUME NEW b, Good(b), NEW f, f.orders = b.orders,
         NEW s \in Sides, NEW p \in Prices, NEW n \in Nat, NEW a
  PROVE  IndexRead(f, UpdateLevelEvents(b, s, p, n, a)) = UpdateLevel(b, s, p, n, a).orders
<1>1. CASE n = 0
  <2>1. UpdateLevelEvents(b, s, p, n, a) = RemoveLevelEvents(b, s, p) BY <1>1 DEF UpdateLevelEvents
  <2>2. UpdateLevel(b, s, p, n, a) = RemoveLevel(b, s, p) BY <1>1 DEF UpdateLevel
  <2> QED BY <2>1, <2>2, RemoveLevelKnown
<1>2. CASE n # 0
  <2>1. PICK o : o = LevelOrder(s, p, n, a) OBVIOUS
  <2>2. PICK q : q = QueueAt(b, s, p) OBVIOUS
  <2>3. /\ q \in Seq(Order) /\ DOMAIN q = 1..Len(q) /\ Len(q) \in Nat /\ IsIndex(b.orders)
        /\ \A k \in 1..Len(q) : q[k].id \in DOMAIN b.orders /\ b.orders[q[k].id] = q[k]
        /\ \A k, l \in 1..Len(q) : q[k].id = q[l].id => k = l
    BY <2>2, QueueIsIndexed
  <2>4. PICK index : index = CancelledIndex(b.orders, q, Len(q)) OBVIOUS
  <2>5. UpdateLevel(b, s, p, n, a).orders = PutOrder(index, o)
    <3>1. PICK c : c = RemoveLevel(b, s, p) OBVIOUS
    <3>2. UpdateLevel(b, s, p, n, a) = SetQueue(c, s, p, <<o>>, PutOrder(c.orders, o))
      BY <1>2, <2>1, <3>1 DEF UpdateLevel
    <3>3. c.orders = index BY <2>2, <2>4, <3>1, RemoveLevelKnown
    <3> QED BY <3>2, <3>3 DEF SetQueue
  <2>6. PICK others : others = Without(q, o.id) OBVIOUS
  <2>7. PICK es : es = [i \in DOMAIN others |-> CancelEvent(others[i])] OBVIOUS
  <2>8. PICK own : own = q[IndexIn(q, o.id)] OBVIOUS
  <2>9. UpdateLevelEvents(b, s, p, n, a) =
          es \o (CASE others = q -> <<AddEvent(o)>>
                   [] others # q /\ own # o -> <<ModifyEvent(own, o, TRUE)>>
                   [] OTHER -> <<>>)
    BY <1>2, <2>1, <2>2, <2>6, <2>7, <2>8 DEF UpdateLevelEvents
  <2>10. CASE \A k \in 1..Len(q) : q[k].id # o.id
    <3>1. others = q BY <2>3, <2>6, <2>10 DEF Without
    <3>2. UpdateLevelEvents(b, s, p, n, a) = es \o <<AddEvent(o)>> BY <2>9, <3>1
    <3>3. es = [i \in DOMAIN q |-> CancelEvent(q[i])] BY <2>7, <3>1
    <3>4. IndexRead(f, es) = index
      <4>1. es = Cancels(q) /\ AllIndexed(b.orders, q) BY <2>3, <3>3 DEF Cancels, AllIndexed
      <4>2. IndexRead(f, es) = CancelledIndex(b.orders, q, Len(q)) BY <4>1, CancelledQueue
      <4> QED BY <2>4, <4>2
    <3>5. PICK e : e = AddEvent(o) OBVIOUS
    <3>6. PICK g : g = Reading(f, es)[Len(es)] OBVIOUS
    <3>7. Reading(f, es \o <<e>>)[Len(es \o <<e>>)] = Applied(g, e)
      <4>1. PICK S : es \in Seq(S) /\ e \in S BY <2>3, <3>3, CancelsOf
      <4> QED BY <3>6, <4>1, ReadMore
    <3>8. Applied(g, e).orders = PutOrder(index, o)
      BY <3>4, <3>5, <3>6, AddApplied DEF IndexRead
    <3> QED BY <2>5, <3>2, <3>5, <3>7, <3>8 DEF IndexRead
  <2>11. CASE \E k \in 1..Len(q) : q[k].id = o.id
    <3>1. PICK k \in 1..Len(q) : q[k].id = o.id BY <2>11
    <3>2. /\ IndexIn(q, q[k].id) = k
          /\ Without(q, q[k].id) \in Seq(Order)
          /\ Len(Without(q, q[k].id)) = Len(q) - 1
          /\ \A i \in 1..(Len(q) - 1) : Without(q, q[k].id)[i] = IF i < k THEN q[i] ELSE q[i + 1]
      BY <2>3, WithoutFacts
    <3>3. /\ own = q[k] /\ others \in Seq(Order) /\ Len(others) = Len(q) - 1
          /\ \A i \in 1..(Len(q) - 1) : others[i] = IF i < k THEN q[i] ELSE q[i + 1]
      BY <2>6, <2>8, <3>1, <3>2
    <3>4. others # q BY <2>3, <3>3
    <3>5. /\ \A i \in 1..Len(others) : /\ others[i].id \in DOMAIN b.orders
                                       /\ b.orders[others[i].id] = others[i]
          /\ \A i, j \in 1..Len(others) : others[i].id = others[j].id => i = j
          /\ \A i \in 1..Len(others) : others[i].id # o.id
      <4>1. ASSUME NEW i \in 1..Len(others)
            PROVE  \E m \in 1..Len(q) : m # k /\ others[i] = q[m] /\ m = IF i < k THEN i ELSE i + 1
        <5>1. CASE i < k
          <6>1. i \in 1..Len(q) /\ i # k /\ others[i] = q[i] BY <2>3, <3>3, <4>1, <5>1
          <6> QED BY <5>1, <6>1
        <5>2. CASE ~(i < k)
          <6>1. i + 1 \in 1..Len(q) /\ i + 1 # k /\ others[i] = q[i + 1] BY <2>3, <3>3, <4>1, <5>2
          <6> QED BY <5>2, <6>1
        <5> QED BY <5>1, <5>2
      <4>2. \A i \in 1..Len(others) : /\ others[i].id \in DOMAIN b.orders
                                      /\ b.orders[others[i].id] = others[i]
        BY <2>3, <4>1
      <4>3. ASSUME NEW i \in 1..Len(others), NEW j \in 1..Len(others), others[i].id = others[j].id
            PROVE  i = j
        <5>1. PICK m \in 1..Len(q) : others[i] = q[m] /\ m = IF i < k THEN i ELSE i + 1 BY <4>1
        <5>2. PICK l \in 1..Len(q) : others[j] = q[l] /\ l = IF j < k THEN j ELSE j + 1 BY <4>1
        <5>3. m = l BY <2>3, <4>3, <5>1, <5>2
        <5> QED BY <3>1, <5>1, <5>2, <5>3
      <4>4. \A i \in 1..Len(others) : others[i].id # o.id BY <2>3, <3>1, <4>1
      <4> QED BY <4>2, <4>3, <4>4
    <3>6. PICK rest : rest = CancelledIndex(b.orders, others, Len(others)) OBVIOUS
    <3>7. IndexRead(f, es) = rest
      <4>1. es = Cancels(others) BY <2>7 DEF Cancels
      <4>2. AllIndexed(b.orders, others) BY <2>3, <3>3, <3>5 DEF AllIndexed
      <4>3. IndexRead(f, es) = CancelledIndex(b.orders, others, Len(others))
        BY <4>1, <4>2, CancelledQueue
      <4> QED BY <3>6, <4>3
    <3>8. PICK gone : gone = {others[i].id : i \in 1..Len(others)} OBVIOUS
    <3>9. o.id \notin gone BY <3>5, <3>8
    <3>10. {q[i].id : i \in 1..Len(q)} = gone \cup {o.id}
      <4>1. ASSUME NEW m \in 1..Len(q), m # k PROVE q[m].id \in gone
        <5>1. CASE m < k
          <6>1. m \in 1..Len(others) /\ others[m] = q[m] BY <2>3, <3>3, <4>1, <5>1
          <6> QED BY <3>8, <6>1
        <5>2. CASE m > k
          <6>1. m - 1 \in 1..Len(others) /\ others[m - 1] = q[m] BY <2>3, <3>3, <4>1, <5>2
          <6> QED BY <3>8, <6>1
        <5> QED BY <4>1, <5>1, <5>2
      <4>2. ASSUME NEW i \in 1..Len(others) PROVE \E m \in 1..Len(q) : others[i].id = q[m].id
        <5>1. others[i] = IF i < k THEN q[i] ELSE q[i + 1] BY <3>3, <4>2
        <5>2. CASE i < k
          <6>1. i \in 1..Len(q) BY <2>3, <3>3, <4>2
          <6> QED BY <5>1, <5>2, <6>1
        <5>3. CASE ~(i < k)
          <6>1. i + 1 \in 1..Len(q) BY <2>3, <3>3, <4>2
          <6> QED BY <5>1, <5>3, <6>1
        <5> QED BY <5>2, <5>3
      <4>3. PICK ids : ids = {q[i].id : i \in 1..Len(q)} OBVIOUS
      <4>4. ids \subseteq gone \cup {o.id}
        <5>1. ASSUME NEW id \in ids PROVE id \in gone \cup {o.id}
          <6>1. PICK m \in 1..Len(q) : id = q[m].id BY <4>3
          <6> QED BY <3>1, <4>1, <6>1
        <5> QED BY <5>1
      <4>5. gone \subseteq ids
        <5>1. ASSUME NEW id \in gone PROVE id \in ids
          <6>1. PICK i \in 1..Len(others) : id = others[i].id BY <3>8
          <6>2. PICK m \in 1..Len(q) : others[i].id = q[m].id BY <4>2
          <6> QED BY <4>3, <6>1, <6>2
        <5> QED BY <5>1
      <4>6. o.id \in ids BY <3>1, <4>3
      <4> QED BY <4>3, <4>4, <4>5, <4>6
    <3>11. rest = [id \in DOMAIN b.orders \ gone |-> b.orders[id]] BY <3>6, <3>8 DEF CancelledIndex
    <3>12. index = [id \in DOMAIN b.orders \ (gone \cup {o.id}) |-> b.orders[id]]
      BY <2>4, <3>10 DEF CancelledIndex
    <3>13. o.id \in DOMAIN b.orders /\ b.orders[o.id] = own BY <2>3, <3>1, <3>3
    <3>14. o.id \in DOMAIN rest /\ rest[o.id] = own BY <3>9, <3>11, <3>13
    <3>15. PutOrder(rest, o) = PutOrder(index, o)
      <4>1. DOMAIN rest \cup {o.id} = DOMAIN index \cup {o.id} BY <3>11, <3>12
      <4>2. \A id \in DOMAIN rest \cup {o.id} : id # o.id => rest[id] = index[id] BY <3>11, <3>12
      <4> QED BY <4>1, <4>2 DEF PutOrder
    <3>16. CASE own # o
      <4>1. PICK e : e = ModifyEvent(own, o, TRUE) OBVIOUS
      <4>2. UpdateLevelEvents(b, s, p, n, a) = es \o <<e>> BY <2>9, <3>4, <3>16, <4>1
      <4>3. PICK g : g = Reading(f, es)[Len(es)] OBVIOUS
      <4>4. Reading(f, es \o <<e>>)[Len(es \o <<e>>)] = Applied(g, e)
        <5>1. PICK S : es \in Seq(S) /\ e \in S BY <2>7, <3>3, CancelsOf
        <5> QED BY <4>3, <5>1, ReadMore
      <4>5. g.orders = rest BY <3>7, <4>3 DEF IndexRead
      <4>6. o.id \in DOMAIN g.orders /\ g.orders[o.id].id = o.id BY <3>1, <3>3, <3>14, <4>5
      <4>7. Applied(g, e).orders = PutOrder(rest, o) BY <4>1, <4>5, <4>6, ModifyApplied
      <4> QED BY <2>5, <3>15, <4>2, <4>4, <4>7 DEF IndexRead
    <3>17. CASE own = o
      <4>1. UpdateLevelEvents(b, s, p, n, a) = es \o <<>> BY <2>9, <3>4, <3>17
      <4>2. es \o <<>> = es
        <5>1. PICK S : es \in Seq(S) BY <2>7, <3>3, CancelsOf
        <5> QED BY <5>1
      <4>3. PutOrder(rest, o) = rest
        <5>1. DOMAIN rest \cup {o.id} = DOMAIN rest BY <3>14
        <5>2. \A id \in DOMAIN rest : (IF id = o.id THEN o ELSE rest[id]) = b.orders[id]
          BY <3>11, <3>14, <3>17
        <5>3. PutOrder(rest, o) = [id \in DOMAIN rest |-> b.orders[id]] BY <5>1, <5>2 DEF PutOrder
        <5> QED BY <3>11, <5>3
      <4> QED BY <2>5, <3>7, <3>15, <4>1, <4>2, <4>3
    <3> QED BY <3>16, <3>17
  <2> QED BY <2>10, <2>11
<1> QED BY <1>1, <1>2

(* The index after one fill more.                                          *)
LEMMA FilledNext ==
  ASSUME NEW b, Good(b), NEW ag, ag.side \in Sides, NEW limit,
         NEW D \in SUBSET Positions(b, Opposite(ag.side)),
         NEW x \in Positions(b, Opposite(ag.side)), x \notin D
  PROVE  LET o == OrderAt(b, Opposite(ag.side), x)
             orders == FilledIndex(b, ag, limit, D)
             next == FilledIndex(b, ag, limit, D \cup {x})
         IN  /\ o.id \in DOMAIN orders /\ orders[o.id] = o
             /\ UsedUp(b, ag, limit, x) => next = DropOrder(orders, o.id)
             /\ ~UsedUp(b, ag, limit, x) => next = PutOrder(orders, AfterFill(b, ag, limit, x))
<1>1. PICK s \in Sides : s = Opposite(ag.side) BY SidesFacts
<1>2. PICK o : o = OrderAt(b, s, x) OBVIOUS
<1>3. PICK left : left = AfterFill(b, ag, limit, x) OBVIOUS
<1>4. o \in Order /\ o.id \in DOMAIN b.orders /\ b.orders[o.id] = o BY <1>1, <1>2, PositionType
<1>5. PositionOf(b, s, o.id) = x BY <1>1, <1>2, PositionOfOrder
<1>6. PICK gone : gone = GoneIds(b, ag, limit, D) OBVIOUS
<1>7. PICK met : met = MetIds(b, ag, D) OBVIOUS
<1>8. o.id \notin met
  <2> SUFFICES ASSUME NEW y \in D, OrderAt(b, s, y).id = o.id PROVE FALSE
    BY <1>1, <1>7 DEF MetIds
  <2>1. y \in Positions(b, s) BY <1>1
  <2>2. x = y BY <1>1, <1>2, <2>1, OnePosition
  <2> QED BY <2>2
<1>9. o.id \notin gone BY <1>1, <1>6, <1>7, <1>8 DEF GoneIds, MetIds
<1>10. PICK orders : orders = FilledIndex(b, ag, limit, D) OBVIOUS
<1>11. /\ DOMAIN orders = DOMAIN b.orders \ gone
       /\ \A id \in DOMAIN b.orders \ gone :
             orders[id] = IF id \in met THEN AfterFill(b, ag, limit, PositionOf(b, s, id))
                          ELSE b.orders[id]
  BY <1>1, <1>6, <1>7, <1>10 DEF FilledIndex
<1>12. o.id \in DOMAIN orders /\ orders[o.id] = o BY <1>4, <1>8, <1>9, <1>11
<1>13. PICK all : all = D \cup {x} OBVIOUS
<1>14. MetIds(b, ag, all) = met \cup {o.id} BY <1>1, <1>2, <1>7, <1>13 DEF MetIds
<1>15. PICK next : next = FilledIndex(b, ag, limit, all) OBVIOUS
<1>16. ASSUME UsedUp(b, ag, limit, x) PROVE next = DropOrder(orders, o.id)
  <2>1. GoneIds(b, ag, limit, all) = gone \cup {o.id}
    BY <1>1, <1>2, <1>6, <1>13, <1>16 DEF GoneIds
  <2>2. next = [id \in DOMAIN b.orders \ (gone \cup {o.id}) |->
                  IF id \in met \cup {o.id} THEN AfterFill(b, ag, limit, PositionOf(b, s, id))
                  ELSE b.orders[id]]
    BY <1>1, <1>14, <1>15, <2>1 DEF FilledIndex
  <2>3. DOMAIN orders \ {o.id} = DOMAIN b.orders \ (gone \cup {o.id}) BY <1>11
  <2>4. \A id \in DOMAIN orders \ {o.id} : orders[id] =
           IF id \in met \cup {o.id} THEN AfterFill(b, ag, limit, PositionOf(b, s, id))
           ELSE b.orders[id]
    BY <1>11
  <2> QED BY <2>2, <2>3, <2>4 DEF DropOrder
<1>17. ASSUME ~UsedUp(b, ag, limit, x) PROVE next = PutOrder(orders, left)
  <2>1. GoneIds(b, ag, limit, all) = gone
    BY <1>1, <1>2, <1>6, <1>13, <1>17 DEF GoneIds
  <2>2. next = [id \in DOMAIN b.orders \ gone |->
                  IF id \in met \cup {o.id} THEN AfterFill(b, ag, limit, PositionOf(b, s, id))
                  ELSE b.orders[id]]
    BY <1>1, <1>14, <1>15, <2>1 DEF FilledIndex
  <2>3. left.id = o.id BY <1>1, <1>2, <1>3, <1>4 DEF AfterFill, Order
  <2>4. DOMAIN orders \cup {left.id} = DOMAIN b.orders \ gone BY <1>11, <1>12, <2>3
  <2>5. \A id \in DOMAIN b.orders \ gone : (IF id = left.id THEN left ELSE orders[id]) =
           IF id \in met \cup {o.id} THEN AfterFill(b, ag, limit, PositionOf(b, s, id))
           ELSE b.orders[id]
    BY <1>3, <1>5, <1>11, <2>3
  <2> QED BY <2>2, <2>4, <2>5 DEF PutOrder
<1> QED BY <1>1, <1>2, <1>3, <1>10, <1>12, <1>13, <1>15, <1>16, <1>17

(* Reading one fill more.                                                  *)
LEMMA FillApplied ==
  ASSUME NEW b, Good(b), NEW ag, ag.side \in Sides, ag.qty \in Nat, NEW limit,
         NEW D \in SUBSET Positions(b, Opposite(ag.side)),
         NEW x \in Positions(b, Opposite(ag.side)), x \notin D,
         NEW g, g.orders = FilledIndex(b, ag, limit, D)
  PROVE  Applied(g, ExecuteEvent(OrderAt(b, Opposite(ag.side), x), Traded(b, ag, limit, x))).orders
           = FilledIndex(b, ag, limit, D \cup {x})
<1>1. PICK s \in Sides : s = Opposite(ag.side) BY SidesFacts
<1>2. PICK o \in Order : o = OrderAt(b, s, x) BY <1>1, PositionType
<1>3. PICK t : t = Traded(b, ag, limit, x) OBVIOUS
<1>4. t \in 0..o.qty BY <1>1, <1>2, <1>3, TradedType
<1>5. PICK left : left = [o EXCEPT !.qty = o.qty - t] OBVIOUS
<1>6. PICK next : next = FilledIndex(b, ag, limit, D \cup {x}) OBVIOUS
<1>7. AfterFill(b, ag, limit, x) = left BY <1>1, <1>2, <1>3, <1>5 DEF AfterFill
<1>8. UsedUp(b, ag, limit, x) <=> t = o.qty BY <1>1, <1>2, <1>3 DEF UsedUp
<1>9. /\ g.orders[o.id] = o
      /\ t = o.qty => next = DropOrder(g.orders, o.id)
      /\ t # o.qty => next = PutOrder(g.orders, left)
  BY <1>1, <1>2, <1>6, <1>7, <1>8, FilledNext
<1>10. PICK e : e = ExecuteEvent(o, t) OBVIOUS
<1>11. /\ t = o.qty => Applied(g, e).orders = DropOrder(g.orders, o.id)
       /\ t # o.qty => Applied(g, e).orders = PutOrder(g.orders, left)
  <2>1. g.orders[o.id].id = o.id BY <1>9
  <2> QED BY <1>4, <1>5, <1>10, <2>1, ExecuteApplied
<1>12. Applied(g, e).orders = next BY <1>9, <1>11
<1> QED BY <1>1, <1>2, <1>3, <1>6, <1>10, <1>12

(* All the fills together are the match, and so is what includes them.     *)
LEMMA FilledIsMatched ==
  ASSUME NEW b, Good(b), NEW ag, ag.side \in Sides, ag.qty \in Nat, NEW limit,
         NEW D \in SUBSET Positions(b, Opposite(ag.side)), Fills(b, ag, limit) \subseteq D
  PROVE  FilledIndex(b, ag, limit, D) = Match(b, ag, limit).orders
<1>1. PICK s \in Sides : s = Opposite(ag.side) BY SidesFacts
<1>3. /\ \A x \in Positions(b, s) : Traded(b, ag, limit, x) > 0 => x \in D
      /\ \A x \in D : x \in Positions(b, s)
  BY <1>1 DEF Fills
<1>4. PICK gone : gone = {OrderAt(b, s, x).id : x \in {y \in Positions(b, s) : UsedUp(b, ag, limit, y)}}
  OBVIOUS
<1>5. GoneIds(b, ag, limit, D) = gone
  <2>1. ASSUME NEW y \in Positions(b, s), UsedUp(b, ag, limit, y) PROVE y \in D
    <3>1. Traded(b, ag, limit, y) = OrderAt(b, s, y).qty BY <1>1, <2>1 DEF UsedUp
    <3>2. OrderAt(b, s, y).qty \in Lots BY PositionType
    <3> QED BY <1>3, <3>1, <3>2 DEF Lots
  <2>2. {y \in D : UsedUp(b, ag, limit, y)} = {y \in Positions(b, s) : UsedUp(b, ag, limit, y)}
    BY <1>3, <2>1
  <2> QED BY <1>1, <1>4, <2>2 DEF GoneIds
<1>6. PICK met : met = MetIds(b, ag, D) OBVIOUS
<1>7. ASSUME NEW id \in DOMAIN b.orders
      PROVE  (IF id \in met THEN AfterFill(b, ag, limit, PositionOf(b, s, id)) ELSE b.orders[id])
               = IF b.orders[id].side = s THEN AfterFill(b, ag, limit, PositionOf(b, s, id)) ELSE b.orders[id]
  <2>1. CASE id \in met
    <3>1. PICK x \in D : OrderAt(b, s, x).id = id BY <1>1, <1>6, <2>1 DEF MetIds
    <3>2. x \in Positions(b, s) BY <1>3, <3>1
    <3>3. b.orders[id].side = s BY <3>1, <3>2, PositionType
    <3> QED BY <2>1, <3>3
  <2>2. CASE id \notin met /\ b.orders[id].side = s
    <3>1. PICK x \in Positions(b, s) : OrderAt(b, s, x) = b.orders[id] /\ b.orders[id].id = id
      BY <2>2, OrderHasPosition
    <3>2. x \notin D BY <1>1, <1>6, <2>2, <3>1 DEF MetIds
    <3>3. PICK o \in Order : o = b.orders[id] BY <3>1, PositionType
    <3>4. PICK t : t = Traded(b, ag, limit, x) OBVIOUS
    <3>5. t \in 0..o.qty /\ o.qty \in Nat
      <4>1. t \in 0..o.qty BY <1>1, <3>1, <3>3, <3>4, TradedType
      <4> QED BY <3>3, <4>1 DEF Order, Lots
    <3>6. t = 0 BY <1>3, <3>2, <3>4, <3>5
    <3>7. PositionOf(b, s, id) = x BY <3>1, PositionOfOrder
    <3>8. AfterFill(b, ag, limit, x) = [o EXCEPT !.qty = o.qty - t]
      BY <1>1, <3>1, <3>3, <3>4 DEF AfterFill
    <3>9. o.qty - t = o.qty BY <3>5, <3>6
    <3>10. [o EXCEPT !.qty = o.qty] = o BY <3>3 DEF Order
    <3> QED BY <2>2, <3>3, <3>7, <3>8, <3>9, <3>10
  <2>3. CASE id \notin met /\ b.orders[id].side # s BY <2>3
  <2> QED BY <2>1, <2>2, <2>3
<1>8. FilledIndex(b, ag, limit, D) =
        [id \in DOMAIN b.orders \ gone |->
           IF id \in met THEN AfterFill(b, ag, limit, PositionOf(b, s, id)) ELSE b.orders[id]]
  BY <1>1, <1>5, <1>6 DEF FilledIndex
<1>9. Match(b, ag, limit).orders =
        [id \in DOMAIN b.orders \ gone |->
           IF b.orders[id].side = s THEN AfterFill(b, ag, limit, PositionOf(b, s, id)) ELSE b.orders[id]]
  BY <1>1, <1>4 DEF Match
<1>10. FilledIndex(b, ag, limit, D) = Match(b, ag, limit).orders BY <1>7, <1>8, <1>9
<1> QED BY <1>10

(* The executions of a match, read one after the other.                    *)
LEMMA MatchKnown ==
  ASSUME NEW b, Good(b), NEW f, f.orders = b.orders,
         NEW ag, ag.side \in Sides, ag.qty \in Nat, NEW limit
  PROVE  IndexRead(f, MatchEvents(b, ag, limit)) = Match(b, ag, limit).orders
<1>1. PICK s \in Sides : s = Opposite(ag.side) BY SidesFacts
<1>2. PICK es : es = MatchEvents(b, ag, limit) OBVIOUS
<1>3. PICK P : P = Fills(b, ag, limit) OBVIOUS
<1>4. PICK n : n = Cardinality(P) OBVIOUS
<1>5. /\ P \in SUBSET Positions(b, s) /\ n \in Nat /\ Len(es) = n /\ DOMAIN es = 1..n
      /\ \A i \in 1..n : es[i] = ExecuteEvent(OrderAt(b, s, Reached(b, s, P, i)),
                                              Traded(b, ag, limit, Reached(b, s, P, i)))
  BY <1>1, <1>2, <1>3, <1>4, MatchEventsFacts
<1>6. PICK at : at = [i \in 1..n |-> Reached(b, s, P, i)] OBVIOUS
<1>7. /\ \A i \in 1..n : at[i] \in P
      /\ \A i, j \in 1..n : at[i] = at[j] => i = j
      /\ \A x \in P : \E i \in 1..n : at[i] = x
  <2>1. /\ \A i \in 1..n : Reached(b, s, P, i) \in P
        /\ \A i, j \in 1..n : Reached(b, s, P, i) = Reached(b, s, P, j) => i = j
        /\ \A x \in P : \E i \in 1..n : Reached(b, s, P, i) = x
    BY <1>4, <1>5, ReachedFacts
  <2> QED BY <1>6, <2>1
<1>8. \A i \in 1..n : es[i] = ExecuteEvent(OrderAt(b, s, at[i]), Traded(b, ag, limit, at[i]))
  BY <1>5, <1>6
<1>9. PICK I : I = [i \in 0..n |-> FilledIndex(b, ag, limit, {at[k] : k \in 1..i})] OBVIOUS
<1>10. I[0] = f.orders
  <2>1. {at[k] : k \in 1..0} = {} OBVIOUS
  <2>2. I[0] = FilledIndex(b, ag, limit, {}) BY <1>5, <1>9, <2>1
  <2>3. GoneIds(b, ag, limit, {}) = {} /\ MetIds(b, ag, {}) = {} BY DEF GoneIds, MetIds
  <2>4. FilledIndex(b, ag, limit, {}) = [id \in DOMAIN b.orders |-> b.orders[id]]
    BY <2>3 DEF FilledIndex
  <2>5. IsIndex(b.orders) BY DEF Good, IsBook, IsMap, IsIndex
  <2> QED BY <2>2, <2>4, <2>5 DEF IsIndex
<1>11. ASSUME NEW i \in 1..n, NEW g, g.orders = I[i - 1] PROVE Applied(g, es[i]).orders = I[i]
  <2>1. PICK D : D = {at[k] : k \in 1..(i - 1)} OBVIOUS
  <2>2. PICK x : x = at[i] OBVIOUS
  <2>3. D \in SUBSET Positions(b, s) /\ x \in Positions(b, s) BY <1>5, <1>7, <2>1, <2>2
  <2>4. x \notin D
    <3> SUFFICES ASSUME NEW k \in 1..(i - 1), at[k] = at[i] PROVE FALSE BY <2>1, <2>2
    <3>1. k \in 1..n /\ k # i BY <1>5
    <3> QED BY <1>7, <3>1
  <2>5. {at[k] : k \in 1..i} = D \cup {x}
    <3>1. \A k \in 1..i : k = i \/ k \in 1..(i - 1) OBVIOUS
    <3>2. \A k \in 1..(i - 1) : k \in 1..i OBVIOUS
    <3>3. i \in 1..i OBVIOUS
    <3> QED BY <2>1, <2>2, <3>1, <3>2, <3>3
  <2>6. i - 1 \in 0..n /\ i \in 0..n BY <1>5
  <2>7. I[i - 1] = FilledIndex(b, ag, limit, D) /\ I[i] = FilledIndex(b, ag, limit, D \cup {x})
    BY <1>9, <2>1, <2>5, <2>6
  <2>8. g.orders = FilledIndex(b, ag, limit, D) BY <1>11, <2>7
  <2>9. Applied(g, ExecuteEvent(OrderAt(b, s, x), Traded(b, ag, limit, x))).orders
          = FilledIndex(b, ag, limit, D \cup {x})
    BY <1>1, <2>3, <2>4, <2>8, FillApplied
  <2>10. es[i] = ExecuteEvent(OrderAt(b, s, x), Traded(b, ag, limit, x)) BY <1>8, <2>2
  <2> QED BY <2>7, <2>9, <2>10
<1>12. Reading(f, es)[Len(es)].orders = I[Len(es)] BY <1>5, <1>10, <1>11, ReadIndex
<1>13. I[n] = Match(b, ag, limit).orders
  <2>1. {at[k] : k \in 1..n} = P BY <1>7
  <2>2. I[n] = FilledIndex(b, ag, limit, {at[k] : k \in 1..n})
    <3>1. n \in 0..n BY <1>5
    <3> QED BY <1>9, <3>1
  <2>3. I[n] = FilledIndex(b, ag, limit, P) BY <2>1, <2>2, Zenon
  <2> QED BY <1>1, <1>3, <1>5, <2>3, FilledIsMatched
<1> QED BY <1>2, <1>5, <1>12, <1>13 DEF IndexRead

(* A submitted limit order: its fills, and an add when something rests.    *)
LEMMA LimitKnown ==
  ASSUME Good(book), NEW f, f.orders = book.orders, NEW o \in ClientOrders, SubmitLimit(o)
  PROVE  IndexRead(f, events') = book'.orders
<1>1. o.side \in Sides /\ o.qty \in Nat BY InputsAssumption DEF ClientOrders, Lots
<1>2. PICK limit : limit = o.price OBVIOUS
<1>3. PICK matched : matched = Match(book, o, limit) OBVIOUS
<1>4. PICK fills : fills = MatchEvents(book, o, limit) OBVIOUS
<1>5. PICK rest : rest = [o EXCEPT !.qty = o.qty - Filled(book, o, limit)] OBVIOUS
<1>6. IndexRead(f, fills) = matched.orders BY <1>1, <1>3, <1>4, MatchKnown
<1>7. \/ book' = matched /\ events' = fills
      \/ book' = Appended(matched, rest) /\ events' = fills \o <<AddEvent(rest)>>
  BY <1>2, <1>3, <1>4, <1>5 DEF SubmitLimit, AddOrder, AddEvents
<1>8. PICK e : e = AddEvent(rest) OBVIOUS
<1>9. IndexRead(f, fills \o <<e>>) = Appended(matched, rest).orders
  <2>1. PICK S : fills \in Seq(S) BY <1>1, <1>4, MatchEventsFacts
  <2>2. fills \in Seq(S \cup {e}) /\ e \in S \cup {e} BY <2>1
  <2>3. PICK T : T = S \cup {e} OBVIOUS
  <2>4. fills \in Seq(T) /\ e \in T BY <2>2, <2>3
  <2>5. PICK g : g = Reading(f, fills)[Len(fills)] OBVIOUS
  <2>6. Reading(f, fills \o <<e>>)[Len(fills \o <<e>>)] = Applied(g, e) BY <2>4, <2>5, ReadMore
  <2>7. g.orders = matched.orders BY <1>6, <2>5 DEF IndexRead
  <2>8. Applied(g, e).orders = PutOrder(g.orders, rest) BY <1>8, AddApplied
  <2>9. Appended(matched, rest).orders = PutOrder(matched.orders, rest) BY AddApplied
  <2> QED BY <2>6, <2>7, <2>8, <2>9 DEF IndexRead
<1> QED BY <1>6, <1>7, <1>8, <1>9

(* No operation leaves the reader with another index than the book's.      *)
LEMMA EventsKnown ==
  ASSUME Good(book), NEW f, f.orders = book.orders, Next
  PROVE  IndexRead(f, events') = book'.orders
<1>1. Quantities \subseteq Lots /\ Stamps \subseteq Nat BY InputsAssumption
<1>2. ASSUME NEW o \in ClientOrders, SubmitMarket(o) PROVE IndexRead(f, events') = book'.orders
  <2>1. o.side \in Sides /\ o.qty \in Nat BY <1>1 DEF ClientOrders, Lots
  <2>2. IndexRead(f, MatchEvents(book, o, NoLimit)) = Match(book, o, NoLimit).orders
    BY <2>1, MatchKnown
  <2> QED BY <1>2, <2>2 DEF SubmitMarket
<1>3. ASSUME NEW id, SubmitCancel(id) PROVE IndexRead(f, events') = book'.orders
  BY <1>3, CancelKnown DEF SubmitCancel
<1>4. ASSUME NEW r \in ClientOrders, SubmitModify(r) PROVE IndexRead(f, events') = book'.orders
  BY <1>4, ModifyKnown DEF SubmitModify
<1>5. ASSUME NEW u, u.qty \in Nat, SetAgentLevel(u) PROVE IndexRead(f, events') = book'.orders
  BY <1>5, UpdateAgentLevelKnown DEF SetAgentLevel
<1>6. ASSUME NEW o \in ClientOrders, NEW q \in {0} \cup Quantities,
             SetAgentLevel([o EXCEPT !.qty = q]) \/ SetAgentLevel([DefaultId(o) EXCEPT !.qty = q])
      PROVE  IndexRead(f, events') = book'.orders
  <2>1. q \in Nat BY <1>1 DEF Lots
  <2>2. PICK u : u = [o EXCEPT !.qty = q] OBVIOUS
  <2>3. PICK v : v = [DefaultId(o) EXCEPT !.qty = q] OBVIOUS
  <2>4. u.qty \in Nat /\ v.qty \in Nat BY <2>1, <2>2, <2>3 DEF ClientOrders, DefaultId
  <2>5. SetAgentLevel(u) \/ SetAgentLevel(v) BY <1>6, <2>2, <2>3
  <2> QED BY <1>5, <2>4, <2>5
<1>7. ASSUME NEW s \in Sides, NEW p \in Prices, NEW q \in {0} \cup Quantities, NEW a \in Agents,
             SetLevel(s, p, q, a)
      PROVE  IndexRead(f, events') = book'.orders
  <2>1. q \in Nat BY <1>1 DEF Lots
  <2> QED BY <1>7, <2>1, UpdateLevelKnown DEF SetLevel
<1>8. ASSUME NEW s \in Sides, NEW p \in Prices, NEW q \in Quantities, NEW a \in Agents,
             RaiseLevel(s, p, q, a)
      PROVE  IndexRead(f, events') = book'.orders
  <2>1. q \in Nat BY <1>1 DEF Lots
  <2> QED BY <1>8, <2>1, EnsureLevelMinimumKnown DEF RaiseLevel
<1>9. ASSUME NEW s \in Sides, NEW p \in Prices, DropLevel(s, p)
      PROVE  IndexRead(f, events') = book'.orders
  BY <1>9, RemoveLevelKnown DEF DropLevel
<1>10. CASE OrderNext BY <1>2, <1>3, <1>10, LimitKnown DEF OrderNext
<1>11. CASE ModifyNext BY <1>4, <1>11 DEF ModifyNext
<1>12. CASE LevelNext BY <1>6, <1>7, <1>8, <1>9, <1>12 DEF LevelNext
<1> QED BY <1>10, <1>11, <1>12 DEF Next

(* Whatever the operations are, and also when a command is rejected half   *)
(* way, a reader that applies the events knows every resting order with    *)
(* its side, price and remaining quantity.                                 *)
THEOREM EventsTellOrders == FeedSpec => []FeedKnowsOrders
<1> DEFINE Inv == IInv /\ FeedKnowsOrders
<1>1. FeedInit => Inv BY InitGood DEF FeedInit, Init, FeedKnowsOrders
<1>2. Inv /\ [FeedNext]_feedVars => Inv'
  <2> SUFFICES ASSUME Inv, [FeedNext]_feedVars PROVE Inv' OBVIOUS
  <2>1. CASE FeedNext
    <3>1. Next /\ feed' = Reading(feed, events')[Len(events')] BY <2>1 DEF FeedNext, Read
    <3>2. IInv' BY <3>1, NextGood
    <3>3. Good(book) /\ feed.orders = book.orders BY DEF IInv, FeedKnowsOrders
    <3>4. IndexRead(feed, events') = book'.orders BY <3>1, <3>3, EventsKnown
    <3>5. FeedKnowsOrders' BY <3>1, <3>4 DEF FeedKnowsOrders, IndexRead
    <3> QED BY <3>2, <3>5
  <2>2. CASE UNCHANGED feedVars BY <2>2 DEF feedVars, IInv, FeedKnowsOrders
  <2> QED BY <2>1, <2>2
<1>3. Inv => FeedKnowsOrders OBVIOUS
<1> QED BY <1>1, <1>2, <1>3, PTL DEF FeedSpec

-----------------------------------------------------------------------------
(* Where the orders are in the reader's queues *)

(* An order that is not traded stays as it is.                             *)
LEMMA UntradedStays ==
  ASSUME NEW b, Good(b), NEW ag, ag.side \in Sides, ag.qty \in Nat, NEW limit,
         NEW x \in Positions(b, Opposite(ag.side)), ~(Traded(b, ag, limit, x) > 0)
  PROVE  /\ AfterFill(b, ag, limit, x) = OrderAt(b, Opposite(ag.side), x)
         /\ ~UsedUp(b, ag, limit, x)
<1>1. PICK s \in Sides : s = Opposite(ag.side) BY SidesFacts
<1>2. PICK o \in Order : o = OrderAt(b, s, x) BY <1>1, PositionType
<1>3. PICK t : t = Traded(b, ag, limit, x) OBVIOUS
<1>4. o.qty \in Nat /\ o.qty > 0 BY <1>2 DEF Order, Lots
<1>5. t \in 0..o.qty BY <1>1, <1>2, <1>3, TradedType
<1>6. t = 0 BY <1>3, <1>4, <1>5
<1>7. o.qty - t = o.qty BY <1>4, <1>6
<1>8. [o EXCEPT !.qty = o.qty] = o BY <1>2 DEF Order
<1>9. AfterFill(b, ag, limit, x) = [o EXCEPT !.qty = o.qty - t] BY <1>1, <1>2, <1>3 DEF AfterFill
<1>10. UsedUp(b, ag, limit, x) <=> t = o.qty BY <1>1, <1>2, <1>3 DEF UsedUp
<1> QED BY <1>1, <1>2, <1>4, <1>6, <1>7, <1>8, <1>9, <1>10

(* Before the first fill it is the book, after the last the matched book.  *)
LEMMA NothingFilled ==
  ASSUME NEW b, Good(b), NEW ag, ag.side \in Sides, NEW limit
  PROVE  FilledBook(b, ag, limit, {}) = b
<1>1. PICK s \in Sides : s = Opposite(ag.side) BY SidesFacts
<1>2. IsBook(b) BY DEF Good
<1>3. PICK lv : lv = b.levels[s] OBVIOUS
<1>4. ASSUME NEW p \in DOMAIN lv PROVE FilledQueue(b, ag, limit, {}, p) = lv[p] /\ lv[p] # <<>>
  <2>1. PICK queue \in Seq(Order) : queue = lv[p] BY <1>2, <1>3, <1>4, BookType
  <2>2. UsedIndexes(b, ag, limit, {}, p) = {} BY DEF UsedIndexes
  <2>3. Cardinality({}) = 0 BY FS_EmptySet
  <2>4. FilledQueue(b, ag, limit, {}, p) = [i \in 1..(Len(queue) - 0) |-> queue[i + 0]]
    BY <1>1, <1>3, <2>1, <2>2, <2>3 DEF FilledQueue
  <2>5. [i \in 1..(Len(queue) - 0) |-> queue[i + 0]] = queue BY <2>1
  <2>6. lv[p] # <<>> BY <1>3 DEF Good, NoEmptyLevel
  <2> QED BY <2>1, <2>4, <2>5, <2>6
<1>5. lv = [p \in DOMAIN lv |-> lv[p]] BY <1>2, <1>3 DEF IsBook, IsMap
<1>6. FilledLevels(b, ag, limit, {}) = lv
  <2>1. PICK kept : kept = {x \in DOMAIN lv : FilledQueue(b, ag, limit, {}, x) # <<>>} OBVIOUS
  <2>2. kept = DOMAIN lv BY <1>4, <2>1
  <2>3. FilledLevels(b, ag, limit, {}) = [p \in kept |-> FilledQueue(b, ag, limit, {}, p)]
    BY <1>1, <1>3, <2>1 DEF FilledLevels
  <2>4. FilledLevels(b, ag, limit, {}) = [p \in DOMAIN lv |-> lv[p]] BY <1>4, <2>2, <2>3
  <2> QED BY <1>5, <2>4
<1>7. [b.levels EXCEPT ![s] = lv] = b.levels BY <1>2, <1>3 DEF IsBook
<1>8. FilledIndex(b, ag, limit, {}) = b.orders
  <2>1. GoneIds(b, ag, limit, {}) = {} /\ MetIds(b, ag, {}) = {} BY DEF GoneIds, MetIds
  <2>2. FilledIndex(b, ag, limit, {}) = [id \in DOMAIN b.orders |-> b.orders[id]]
    BY <2>1 DEF FilledIndex
  <2>3. IsIndex(b.orders) BY <1>2 DEF IsBook, IsMap, IsIndex
  <2> QED BY <2>2, <2>3 DEF IsIndex
<1>9. FilledBook(b, ag, limit, {}) = [levels |-> b.levels, orders |-> b.orders]
  BY <1>1, <1>6, <1>7, <1>8 DEF FilledBook
<1>10. b = [levels |-> b.levels, orders |-> b.orders] BY <1>2 DEF IsBook
<1> QED BY <1>9, <1>10

LEMMA AllFilled ==
  ASSUME NEW b, Good(b), NEW ag, ag.side \in Sides, ag.qty \in Nat, NEW limit
  PROVE  FilledBook(b, ag, limit, Fills(b, ag, limit)) = Match(b, ag, limit)
<1>1. PICK s \in Sides : s = Opposite(ag.side) BY SidesFacts
<1>2. IsBook(b) BY DEF Good
<1>3. PICK D : D = Fills(b, ag, limit) OBVIOUS
<1>4. PICK lv : lv = b.levels[s] OBVIOUS
<1>5. ASSUME NEW p \in DOMAIN lv PROVE FilledQueue(b, ag, limit, D, p) = QueueAfter(b, ag, limit, p)
  <2>1. PICK queue \in Seq(Order) : queue = lv[p] BY <1>2, <1>4, <1>5, BookType
  <2>2. \A i \in 1..Len(queue) : <<p, i>> \in Positions(b, s) /\ OrderAt(b, s, <<p, i>>) = queue[i]
    BY <1>4, <2>1, PositionOfIndex DEF OrderAt
  <2>3. \A x \in Positions(b, s) : x \in D <=> Traded(b, ag, limit, x) > 0 BY <1>1, <1>3 DEF Fills
  <2>4. ASSUME NEW x \in Positions(b, s), x \notin D
        PROVE  AfterFill(b, ag, limit, x) = OrderAt(b, s, x) /\ ~UsedUp(b, ag, limit, x)
    <3>1. ~(Traded(b, ag, limit, x) > 0) BY <2>3, <2>4
    <3> QED BY <1>1, <3>1, UntradedStays
  <2>5. PICK used : used = {i \in 1..Len(queue) : UsedUp(b, ag, limit, <<p, i>>)} OBVIOUS
  <2>6. UsedIndexes(b, ag, limit, D, p) = used
    <3>1. \A i \in 1..Len(queue) : <<p, i>> \in D /\ UsedUp(b, ag, limit, <<p, i>>)
                                      <=> UsedUp(b, ag, limit, <<p, i>>)
      BY <2>2, <2>4
    <3> QED BY <1>1, <1>4, <2>1, <2>5, <3>1 DEF UsedIndexes
  <2>7. PICK gone : gone = Cardinality(used) OBVIOUS
  <2>8. gone \in Nat
    <3>1. used \in SUBSET (1..Len(queue)) /\ Len(queue) \in Nat BY <2>5
    <3>2. IsFiniteSet(1..Len(queue)) BY <3>1, FS_Interval
    <3> QED BY <2>7, <3>1, <3>2, FS_Subset, FS_CardinalityType
  <2>9. ASSUME NEW i \in 1..(Len(queue) - gone)
        PROVE  (IF <<p, i + gone>> \in D THEN AfterFill(b, ag, limit, <<p, i + gone>>) ELSE queue[i + gone])
                 = AfterFill(b, ag, limit, <<p, i + gone>>)
    <3>1. PICK k \in 1..Len(queue) : k = i + gone BY <2>8
    <3>2. <<p, k>> \notin D => AfterFill(b, ag, limit, <<p, k>>) = queue[k] BY <2>2, <2>4
    <3> QED BY <3>1, <3>2
  <2>10. FilledQueue(b, ag, limit, D, p) =
           [i \in 1..(Len(queue) - gone) |->
              IF <<p, i + gone>> \in D THEN AfterFill(b, ag, limit, <<p, i + gone>>)
              ELSE queue[i + gone]]
    BY <1>1, <1>4, <2>1, <2>6, <2>7 DEF FilledQueue
  <2>11. QueueAfter(b, ag, limit, p) =
           [i \in 1..(Len(queue) - gone) |-> AfterFill(b, ag, limit, <<p, i + gone>>)]
    BY <1>1, <1>4, <2>1, <2>5, <2>7 DEF QueueAfter
  <2> QED BY <2>9, <2>10, <2>11
<1>6. PICK kept : kept = {p \in DOMAIN lv : QueueAfter(b, ag, limit, p) # <<>>} OBVIOUS
<1>7. FilledLevels(b, ag, limit, D) = [p \in kept |-> QueueAfter(b, ag, limit, p)]
  <2>1. {x \in DOMAIN lv : FilledQueue(b, ag, limit, D, x) # <<>>} = kept BY <1>5, <1>6
  <2>2. FilledLevels(b, ag, limit, D) = [p \in kept |-> FilledQueue(b, ag, limit, D, p)]
    BY <1>1, <1>4, <2>1 DEF FilledLevels
  <2>3. \A p \in kept : FilledQueue(b, ag, limit, D, p) = QueueAfter(b, ag, limit, p) BY <1>5, <1>6
  <2> QED BY <2>2, <2>3
<1>8. PICK matched : matched = Match(b, ag, limit) OBVIOUS
<1>9. /\ matched = [levels |-> matched.levels, orders |-> matched.orders]
      /\ matched.levels = [b.levels EXCEPT ![s] = [p \in kept |-> QueueAfter(b, ag, limit, p)]]
  BY <1>1, <1>4, <1>6, <1>8 DEF Match
<1>10. FilledIndex(b, ag, limit, D) = matched.orders
  <2>1. D \in SUBSET Positions(b, Opposite(ag.side)) BY <1>3 DEF Fills
  <2> QED BY <1>3, <1>8, <2>1, FilledIsMatched
<1>11. FilledBook(b, ag, limit, D) = matched BY <1>1, <1>7, <1>9, <1>10 DEF FilledBook
<1> QED BY <1>3, <1>8, <1>11

(* The queue of the position that is reached next: what is before it is    *)
(* gone, it is at the head. After its fill it is gone too, or reduced.     *)
LEMMA QueueOfNext ==
  ASSUME NEW b, Good(b), NEW ag, ag.side \in Sides, ag.qty \in Nat, NEW limit,
         NEW x \in Positions(b, Opposite(ag.side)), NEW D, NEW q, NEW all,
         D = PositionsAhead(b, Opposite(ag.side), x), \A y \in D : UsedUp(b, ag, limit, y),
         all = D \cup {x}, q = b.levels[Opposite(ag.side)][x[1]]
  PROVE  /\ x[2] \in 1..Len(q) /\ q \in Seq(Order) /\ Len(q) \in Nat
         /\ IsRest(FilledQueue(b, ag, limit, D, x[1]), q, x[2] - 1)
         /\ UsedUp(b, ag, limit, x) => IsRest(FilledQueue(b, ag, limit, all, x[1]), q, x[2])
         /\ ~UsedUp(b, ag, limit, x) =>
              IsRestAfter(FilledQueue(b, ag, limit, all, x[1]), AfterFill(b, ag, limit, x), q, x[2] - 1)
<1>1. PICK s \in Sides : s = Opposite(ag.side) BY SidesFacts
<1>2. IsBook(b) BY DEF Good
<1>3. PICK p : p = x[1] OBVIOUS
<1>4. PICK k : k = x[2] OBVIOUS
<1>5. x = <<p, k>> /\ p \in DOMAIN b.levels[s] /\ p \in Prices /\ k \in 1..Len(b.levels[s][p])
  BY <1>1, <1>3, <1>4, PositionType
<1>6. q = b.levels[s][p] /\ q \in Seq(Order) /\ Len(q) \in Nat /\ k \in 1..Len(q)
  BY <1>1, <1>2, <1>3, <1>5, BookType
<1>7. p \in Nat BY <1>5, PricesAssumption
<1>8. \A i \in 1..Len(q) : <<p, i>> \in D <=> i < k
  <2> TAKE i \in 1..Len(q)
  <2>1. <<p, i>> \in Positions(b, s) BY <1>5, <1>6, PositionOfIndex
  <2>2. <<p, i>>[1] = p /\ <<p, i>>[2] = i OBVIOUS
  <2>3. <<p, i>> \in D <=> Ahead(s, p, p) \/ i < k
    BY <1>1, <1>3, <1>4, <2>1, <2>2 DEF PositionsAhead
  <2>4. ~Ahead(s, p, p) BY <1>7 DEF Ahead
  <2> QED BY <2>3, <2>4
<1>9. \A i \in 1..Len(q) : <<p, i>> \in all <=> i <= k
  <2> TAKE i \in 1..Len(q)
  <2>1. <<p, i>> = x <=> i = k BY <1>5
  <2>2. i <= k <=> i < k \/ i = k BY <1>6
  <2> QED BY <1>8, <2>1, <2>2
<1>10. \A i \in 1..Len(q) : i < k => UsedUp(b, ag, limit, <<p, i>>) BY <1>8
<1>11. k - 1 \in Nat /\ k \in Nat BY <1>6
<1>12. \A n \in Nat : Cardinality(1..n) = n BY FS_Interval
<1>13. FilledQueue(b, ag, limit, D, p) = [i \in 1..(Len(q) - (k - 1)) |-> q[i + (k - 1)]]
  <2>1. UsedIndexes(b, ag, limit, D, p) = 1..(k - 1)
    <3>1. \A i \in 1..Len(q) : <<p, i>> \in D /\ UsedUp(b, ag, limit, <<p, i>>) <=> i < k
      BY <1>8, <1>10
    <3>2. UsedIndexes(b, ag, limit, D, p) = {i \in 1..Len(q) : i < k}
      BY <1>1, <1>6, <3>1 DEF UsedIndexes
    <3>3. {i \in 1..Len(q) : i < k} = 1..(k - 1) BY <1>6
    <3> QED BY <3>2, <3>3
  <2>2. PICK gone : gone = k - 1 OBVIOUS
  <2>3. gone \in Nat /\ Cardinality(UsedIndexes(b, ag, limit, D, p)) = gone
    BY <1>11, <1>12, <2>1, <2>2
  <2>4. FilledQueue(b, ag, limit, D, p) =
          [i \in 1..(Len(q) - gone) |->
             IF <<p, i + gone>> \in D THEN AfterFill(b, ag, limit, <<p, i + gone>>) ELSE q[i + gone]]
    BY <1>1, <1>6, <2>3 DEF FilledQueue
  <2>5. \A i \in 1..(Len(q) - gone) : <<p, i + gone>> \notin D
    <3> TAKE i \in 1..(Len(q) - gone)
    <3>1. i + gone \in 1..Len(q) /\ ~(i + gone < k) BY <1>6, <2>2, <2>3
    <3> QED BY <1>8, <3>1
  <2>6. FilledQueue(b, ag, limit, D, p) = [i \in 1..(Len(q) - gone) |-> q[i + gone]]
    BY <2>4, <2>5
  <2> QED BY <2>2, <2>6
<1>14. ASSUME UsedUp(b, ag, limit, x)
       PROVE  FilledQueue(b, ag, limit, all, p) = [i \in 1..(Len(q) - k) |-> q[i + k]]
  <2>1. UsedIndexes(b, ag, limit, all, p) = 1..k
    <3>1. \A i \in 1..Len(q) : <<p, i>> \in all /\ UsedUp(b, ag, limit, <<p, i>>) <=> i <= k
      <4> TAKE i \in 1..Len(q)
      <4>1. i <= k <=> i < k \/ i = k BY <1>6
      <4>2. i = k => UsedUp(b, ag, limit, <<p, i>>) BY <1>5, <1>14
      <4> QED BY <1>9, <1>10, <4>1, <4>2
    <3>2. UsedIndexes(b, ag, limit, all, p) = {i \in 1..Len(q) : i <= k}
      BY <1>1, <1>6, <3>1 DEF UsedIndexes
    <3>3. {i \in 1..Len(q) : i <= k} = 1..k BY <1>6
    <3> QED BY <3>2, <3>3
  <2>2. Cardinality(UsedIndexes(b, ag, limit, all, p)) = k BY <1>11, <1>12, <2>1
  <2>3. FilledQueue(b, ag, limit, all, p) =
          [i \in 1..(Len(q) - k) |->
             IF <<p, i + k>> \in all THEN AfterFill(b, ag, limit, <<p, i + k>>) ELSE q[i + k]]
    BY <1>1, <1>6, <2>2 DEF FilledQueue
  <2>4. \A i \in 1..(Len(q) - k) : <<p, i + k>> \notin all
    <3> TAKE i \in 1..(Len(q) - k)
    <3>1. i + k \in 1..Len(q) /\ ~(i + k <= k) BY <1>6
    <3> QED BY <1>9, <3>1
  <2> QED BY <2>3, <2>4
<1>15. ASSUME ~UsedUp(b, ag, limit, x)
       PROVE  FilledQueue(b, ag, limit, all, p) =
                [i \in 1..(Len(q) - (k - 1)) |->
                   IF i = 1 THEN AfterFill(b, ag, limit, x) ELSE q[i + (k - 1)]]
  <2>1. UsedIndexes(b, ag, limit, all, p) = 1..(k - 1)
    <3>1. \A i \in 1..Len(q) : <<p, i>> \in all /\ UsedUp(b, ag, limit, <<p, i>>) <=> i < k
      <4> TAKE i \in 1..Len(q)
      <4>1. i <= k <=> i < k \/ i = k BY <1>6
      <4>2. i < k => i # k BY <1>6
      <4>3. i = k => ~UsedUp(b, ag, limit, <<p, i>>) BY <1>5, <1>15
      <4> QED BY <1>9, <1>10, <4>1, <4>2, <4>3
    <3>2. UsedIndexes(b, ag, limit, all, p) = {i \in 1..Len(q) : i < k}
      BY <1>1, <1>6, <3>1 DEF UsedIndexes
    <3>3. {i \in 1..Len(q) : i < k} = 1..(k - 1) BY <1>6
    <3> QED BY <3>2, <3>3
  <2>2. PICK gone : gone = k - 1 OBVIOUS
  <2>3. gone \in Nat /\ Cardinality(UsedIndexes(b, ag, limit, all, p)) = gone
    BY <1>11, <1>12, <2>1, <2>2
  <2>4. FilledQueue(b, ag, limit, all, p) =
          [i \in 1..(Len(q) - gone) |->
             IF <<p, i + gone>> \in all THEN AfterFill(b, ag, limit, <<p, i + gone>>) ELSE q[i + gone]]
    BY <1>1, <1>6, <2>3 DEF FilledQueue
  <2>5. ASSUME NEW i \in 1..(Len(q) - gone)
        PROVE  (IF <<p, i + gone>> \in all THEN AfterFill(b, ag, limit, <<p, i + gone>>) ELSE q[i + gone])
                 = IF i = 1 THEN AfterFill(b, ag, limit, x) ELSE q[i + gone]
    <3>1. PICK j \in 1..Len(q) : j = i + gone BY <1>6, <2>2, <2>3
    <3>2. CASE i = 1
      <4>1. j = k BY <1>6, <2>2, <3>1, <3>2
      <4>2. <<p, j>> \in all BY <1>6, <1>9, <4>1
      <4> QED BY <1>5, <3>1, <3>2, <4>1, <4>2
    <3>3. CASE i # 1
      <4>1. ~(j <= k) BY <1>6, <2>2, <3>1, <3>3
      <4>2. <<p, j>> \notin all BY <1>9, <4>1
      <4> QED BY <3>1, <3>3, <4>2
    <3> QED BY <3>2, <3>3
  <2>6. FilledQueue(b, ag, limit, all, p) =
          [i \in 1..(Len(q) - gone) |-> IF i = 1 THEN AfterFill(b, ag, limit, x) ELSE q[i + gone]]
    <3> DEFINE Now(i) == IF <<p, i + gone>> \in all THEN AfterFill(b, ag, limit, <<p, i + gone>>)
                         ELSE q[i + gone]
               Then(i) == IF i = 1 THEN AfterFill(b, ag, limit, x) ELSE q[i + gone]
    <3>1. FilledQueue(b, ag, limit, all, p) = [i \in 1..(Len(q) - gone) |-> Now(i)] BY <2>4
    <3>2. \A i \in 1..(Len(q) - gone) : Now(i) = Then(i) BY <2>5
    <3> HIDE DEF Now, Then
    <3>3. FilledQueue(b, ag, limit, all, p) = [i \in 1..(Len(q) - gone) |-> Then(i)] BY <3>1, <3>2
    <3> QED BY <3>3 DEF Then
  <2> QED BY <2>2, <2>6
<1> QED BY <1>3, <1>4, <1>6, <1>13, <1>14, <1>15 DEF IsRest, IsRestAfter

(* The other queues stay as they are.                                      *)
LEMMA QueuesOfOthers ==
  ASSUME NEW b, NEW ag, NEW limit, NEW x, NEW D, NEW p, p # x[1]
  PROVE  FilledQueue(b, ag, limit, D \cup {x}, p) = FilledQueue(b, ag, limit, D, p)
<1>1. PICK all : all = D \cup {x} OBVIOUS
<1>2. \A i : <<p, i>> \in all <=> <<p, i>> \in D
  <2> TAKE i
  <2>1. <<p, i>>[1] = p OBVIOUS
  <2>2. <<p, i>> # x BY <2>1
  <2> QED BY <1>1, <2>2
<1>3. UsedIndexes(b, ag, limit, all, p) = UsedIndexes(b, ag, limit, D, p) BY <1>2 DEF UsedIndexes
<1>4. FilledQueue(b, ag, limit, all, p) = FilledQueue(b, ag, limit, D, p) BY <1>2, <1>3 DEF FilledQueue
<1> QED BY <1>1, <1>4

(* Putting the changed queue among the others.                             *)
LEMMA PutFilled ==
  ASSUME NEW b, NEW ag, NEW limit, NEW x, NEW D, x[1] \in DOMAIN b.levels[Opposite(ag.side)]
  PROVE  PutQueue(FilledLevels(b, ag, limit, D), x[1], FilledQueue(b, ag, limit, D \cup {x}, x[1]))
           = FilledLevels(b, ag, limit, D \cup {x})
<1>1. PICK all : all = D \cup {x} OBVIOUS
<1>2. PICK p : p = x[1] OBVIOUS
<1>3. PICK dom : dom = DOMAIN b.levels[Opposite(ag.side)] OBVIOUS
<1>4. PICK old : old = [r \in dom |-> FilledQueue(b, ag, limit, D, r)] OBVIOUS
<1>5. PICK new : new = [r \in dom |-> FilledQueue(b, ag, limit, all, r)] OBVIOUS
<1>6. \A r \in dom : r # p => new[r] = old[r] BY <1>1, <1>2, <1>4, <1>5, QueuesOfOthers
<1>7. PICK lv : lv = [r \in {z \in dom : old[z] # <<>>} |-> old[r]] OBVIOUS
<1>8. FilledLevels(b, ag, limit, D) = lv
  <2>1. {z \in dom : FilledQueue(b, ag, limit, D, z) # <<>>} = {z \in dom : old[z] # <<>>} BY <1>4
  <2> QED BY <1>3, <1>4, <1>7, <2>1 DEF FilledLevels
<1>9. FilledLevels(b, ag, limit, all) = [r \in {z \in dom : new[z] # <<>>} |-> new[r]]
  <2>1. {z \in dom : FilledQueue(b, ag, limit, all, z) # <<>>} = {z \in dom : new[z] # <<>>} BY <1>5
  <2> QED BY <1>3, <1>5, <2>1 DEF FilledLevels
<1>10. p \in dom /\ FilledQueue(b, ag, limit, all, p) = new[p] BY <1>2, <1>3, <1>5
<1>11. PutQueue(lv, p, new[p]) = [r \in {z \in dom : new[z] # <<>>} |-> new[r]]
  <2>1. CASE new[p] = <<>>
    <3>1. DOMAIN lv \ {p} = {z \in dom : new[z] # <<>>} BY <1>6, <1>7, <2>1
    <3>2. \A r \in DOMAIN lv \ {p} : lv[r] = new[r] BY <1>6, <1>7
    <3>3. PutQueue(lv, p, new[p]) = [r \in DOMAIN lv \ {p} |-> lv[r]] BY <2>1 DEF PutQueue
    <3> QED BY <3>1, <3>2, <3>3
  <2>2. CASE new[p] # <<>>
    <3>1. DOMAIN lv \cup {p} = {z \in dom : new[z] # <<>>} BY <1>6, <1>7, <1>10, <2>2
    <3>2. \A r \in DOMAIN lv \cup {p} : (IF r = p THEN new[p] ELSE lv[r]) = new[r] BY <1>6, <1>7
    <3>3. PutQueue(lv, p, new[p]) = [r \in DOMAIN lv \cup {p} |-> IF r = p THEN new[p] ELSE lv[r]]
      BY <2>2 DEF PutQueue
    <3> QED BY <3>1, <3>2, <3>3
  <2> QED BY <2>1, <2>2
<1> QED BY <1>1, <1>2, <1>8, <1>9, <1>10, <1>11

(* An order that is not met yet is in the index as it was.                 *)
LEMMA UnmetStays ==
  ASSUME NEW b, Good(b), NEW ag, ag.side \in Sides, NEW limit,
         NEW D \in SUBSET Positions(b, Opposite(ag.side)),
         NEW x \in Positions(b, Opposite(ag.side)), x \notin D
  PROVE  FilledIndex(b, ag, limit, D)[OrderAt(b, Opposite(ag.side), x).id]
           = OrderAt(b, Opposite(ag.side), x)
<1>1. PICK s \in Sides : s = Opposite(ag.side) BY SidesFacts
<1>2. PICK o : o = OrderAt(b, s, x) OBVIOUS
<1>3. o.id \in DOMAIN b.orders /\ b.orders[o.id] = o BY <1>1, <1>2, PositionType
<1>4. o.id \notin MetIds(b, ag, D)
  <2> SUFFICES ASSUME NEW y \in D, OrderAt(b, s, y).id = o.id PROVE FALSE
    BY <1>1 DEF MetIds
  <2>1. y \in Positions(b, s) BY <1>1
  <2>2. x = y BY <1>1, <1>2, <2>1, OnePosition
  <2> QED BY <2>2
<1>5. o.id \notin GoneIds(b, ag, limit, D) BY <1>4 DEF GoneIds, MetIds
<1>6. FilledIndex(b, ag, limit, D)[o.id] = o BY <1>3, <1>4, <1>5 DEF FilledIndex
<1> QED BY <1>1, <1>2, <1>6

(* Reading the fill of the next position: it is at the head of its queue.  *)
LEMMA FillRead ==
  ASSUME NEW b, Good(b), NEW ag, ag.side \in Sides, ag.qty \in Nat, NEW limit,
         NEW x \in Positions(b, Opposite(ag.side)), NEW D,
         D = PositionsAhead(b, Opposite(ag.side), x), \A y \in D : UsedUp(b, ag, limit, y)
  PROVE  Applied(FilledBook(b, ag, limit, D),
                 ExecuteEvent(OrderAt(b, Opposite(ag.side), x), Traded(b, ag, limit, x)))
           = FilledBook(b, ag, limit, D \cup {x})
<1>1. PICK s \in Sides : s = Opposite(ag.side) BY SidesFacts
<1>2. PICK o \in Order : o = OrderAt(b, s, x) BY <1>1, PositionType
<1>3. PICK t : t = Traded(b, ag, limit, x) OBVIOUS
<1>4. t \in 0..o.qty BY <1>1, <1>2, <1>3, TradedType
<1>5. PICK p : p = x[1] OBVIOUS
<1>6. PICK k : k = x[2] OBVIOUS
<1>7. PICK q : q = b.levels[s][p] OBVIOUS
<1>8. o.side = s /\ o.price = p /\ p \in DOMAIN b.levels[s] /\ o = q[k]
  BY <1>1, <1>2, <1>5, <1>6, <1>7, PositionType
<1>9. PICK all : all = D \cup {x} OBVIOUS
<1>10. PICK cur : cur = FilledQueue(b, ag, limit, D, p) OBVIOUS
<1>11. PICK new : new = FilledQueue(b, ag, limit, all, p) OBVIOUS
<1>12. PICK left : left = [o EXCEPT !.qty = o.qty - t] OBVIOUS
<1>13. AfterFill(b, ag, limit, x) = left BY <1>1, <1>2, <1>3, <1>12 DEF AfterFill
<1>14. UsedUp(b, ag, limit, x) <=> t = o.qty BY <1>1, <1>2, <1>3 DEF UsedUp
<1>15. /\ k \in 1..Len(q) /\ q \in Seq(Order) /\ Len(q) \in Nat
       /\ cur = [i \in 1..(Len(q) - (k - 1)) |-> q[i + (k - 1)]]
       /\ t = o.qty => new = [i \in 1..(Len(q) - k) |-> q[i + k]]
       /\ t # o.qty => new = [i \in 1..(Len(q) - (k - 1)) |-> IF i = 1 THEN left ELSE q[i + (k - 1)]]
  <2>1. q = b.levels[Opposite(ag.side)][x[1]] BY <1>1, <1>5, <1>7
  <2>2. /\ x[2] \in 1..Len(q) /\ q \in Seq(Order) /\ Len(q) \in Nat
        /\ IsRest(FilledQueue(b, ag, limit, D, x[1]), q, x[2] - 1)
        /\ UsedUp(b, ag, limit, x) => IsRest(FilledQueue(b, ag, limit, all, x[1]), q, x[2])
        /\ ~UsedUp(b, ag, limit, x) =>
             IsRestAfter(FilledQueue(b, ag, limit, all, x[1]), AfterFill(b, ag, limit, x), q, x[2] - 1)
    BY <1>9, <2>1, QueueOfNext
  <2> QED BY <1>5, <1>6, <1>10, <1>11, <1>13, <1>14, <2>2 DEF IsRest, IsRestAfter
<1>16. PICK m : m = Len(q) - (k - 1) OBVIOUS
<1>17. m \in Nat /\ m >= 1 /\ m - 1 = Len(q) - k BY <1>15, <1>16
<1>18. cur \in Seq(Order) /\ Len(cur) = m /\ cur[1] = o
       /\ \A i \in 1..m : i + (k - 1) \in 1..Len(q) /\ cur[i] = q[i + (k - 1)]
  <2>1. cur = [i \in 1..m |-> q[i + (k - 1)]] BY <1>15, <1>16
  <2>2. \A i \in 1..m : i + (k - 1) \in 1..Len(q) BY <1>15, <1>16, <1>17
  <2>3. \A i \in 1..m : q[i + (k - 1)] \in Order BY <1>15, <2>2
  <2>4. cur \in Seq(Order) /\ Len(cur) = m BY <1>17, <2>1, <2>3
  <2>5. 1 \in 1..m /\ 1 + (k - 1) = k BY <1>15, <1>17
  <2>6. cur[1] = o BY <1>8, <2>1, <2>5
  <2> QED BY <2>1, <2>2, <2>4, <2>6
<1>19. \A i, j \in 1..Len(cur) : cur[i].id = cur[j].id => i = j
  <2>1. \A i, j \in 1..Len(q) : q[i].id = q[j].id => i = j
    BY <1>7, <1>8 DEF Good, QueuedOnce
  <2>2. ASSUME NEW i \in 1..m, NEW j \in 1..m, cur[i].id = cur[j].id PROVE i = j
    <3>1. i + (k - 1) = j + (k - 1) BY <1>18, <2>1, <2>2
    <3> QED BY <1>15, <3>1
  <2> QED BY <1>18, <2>2
<1>20. /\ IndexIn(cur, o.id) = 1
       /\ Without(cur, o.id) \in Seq(Order) /\ Len(Without(cur, o.id)) = m - 1
       /\ \A i \in 1..(m - 1) : Without(cur, o.id)[i] = cur[i + 1]
  <2>1. 1 \in 1..Len(cur) BY <1>17, <1>18
  <2>2. /\ IndexIn(cur, cur[1].id) = 1
        /\ Without(cur, cur[1].id) \in Seq(Order)
        /\ Len(Without(cur, cur[1].id)) = Len(cur) - 1
        /\ \A i \in 1..(Len(cur) - 1) :
              Without(cur, cur[1].id)[i] = IF i < 1 THEN cur[i] ELSE cur[i + 1]
    BY <1>18, <1>19, <2>1, WithoutFacts
  <2> QED BY <1>17, <1>18, <2>2
<1>21. t = o.qty => Without(cur, o.id) = new
  <2> SUFFICES ASSUME t = o.qty PROVE Without(cur, o.id) = new OBVIOUS
  <2>1. new = [i \in 1..(m - 1) |-> q[i + k]] BY <1>15, <1>17
  <2>2. PICK w \in Seq(Order) : w = Without(cur, o.id) BY <1>20
  <2>3. w = [i \in 1..(m - 1) |-> w[i]] BY <1>20, <2>2
  <2>4. \A i \in 1..(m - 1) : w[i] = q[i + k]
    <3> TAKE i \in 1..(m - 1)
    <3>1. w[i] = cur[i + 1] BY <1>20, <2>2
    <3>2. i + 1 \in 1..m /\ (i + 1) + (k - 1) = i + k BY <1>15, <1>17
    <3> QED BY <1>18, <3>1, <3>2
  <2> QED BY <2>1, <2>2, <2>3, <2>4
<1>22. t # o.qty => [cur EXCEPT ![1] = left] = new
  <2> SUFFICES ASSUME t # o.qty PROVE [cur EXCEPT ![1] = left] = new OBVIOUS
  <2>1. new = [i \in 1..m |-> IF i = 1 THEN left ELSE q[i + (k - 1)]] BY <1>15, <1>16
  <2>2. cur = [i \in 1..m |-> q[i + (k - 1)]] BY <1>15, <1>16
  <2> QED BY <1>17, <2>1, <2>2
<1>23. PICK g : g = FilledBook(b, ag, limit, D) OBVIOUS
<1>24. PICK lv : lv = FilledLevels(b, ag, limit, D) OBVIOUS
<1>25. b.levels = [r \in Sides |-> b.levels[r]] BY DEF Good, IsBook
<1>26. g.levels = [b.levels EXCEPT ![s] = lv] /\ g.orders = FilledIndex(b, ag, limit, D)
  BY <1>1, <1>23, <1>24 DEF FilledBook
<1>27. g.levels[s] = lv BY <1>25, <1>26
<1>28. lv[p] = cur
  <2>1. cur # <<>> BY <1>17, <1>18
  <2>2. p \in {z \in DOMAIN b.levels[s] : FilledQueue(b, ag, limit, D, z) # <<>>}
    BY <1>8, <1>10, <2>1
  <2> QED BY <1>1, <1>10, <1>24, <2>2 DEF FilledLevels
<1>29. g.orders[o.id] = o
  <2>1. D \in SUBSET Positions(b, s) /\ x \notin D BY <1>1, AheadIsAnOrder
  <2> QED BY <1>1, <1>2, <1>26, <2>1, UnmetStays
<1>30. PICK e : e = ExecuteEvent(o, t) OBVIOUS
<1>31. \E orders : Applied(g, e) = SetQueue(g, s, p, new, orders)
  <2>0. g.orders[o.id].id = o.id BY <1>29
  <2>1. /\ t = o.qty => Applied(g, ExecuteEvent(o, t)) = Removed(g, g.orders[o.id])
        /\ t # o.qty => Applied(g, ExecuteEvent(o, t)) =
                          Replaced(g, g.orders[o.id], [o EXCEPT !.qty = o.qty - t])
    BY <1>4, <2>0, ExecuteApplied
  <2>2. CASE t = o.qty
    <3>1. Applied(g, e) = Removed(g, o) BY <1>29, <1>30, <2>1, <2>2
    <3>2. Removed(g, o) = SetQueue(g, s, p, Without(cur, o.id), DropOrder(g.orders, o.id))
      BY <1>8, <1>27, <1>28 DEF Removed
    <3> QED BY <1>21, <2>2, <3>1, <3>2
  <2>3. CASE t # o.qty
    <3>1. Applied(g, e) = Replaced(g, o, left) BY <1>12, <1>29, <1>30, <2>1, <2>3
    <3>2. Replaced(g, o, left) =
            SetQueue(g, s, p, [cur EXCEPT ![IndexIn(cur, o.id)] = left], PutOrder(g.orders, left))
      BY <1>8, <1>27, <1>28 DEF Replaced
    <3> QED BY <1>20, <1>22, <2>3, <3>1, <3>2
  <2> QED BY <2>2, <2>3
<1>32. PICK orders : Applied(g, e) = SetQueue(g, s, p, new, orders) BY <1>31
<1>33. orders = FilledIndex(b, ag, limit, all)
  <2>1. Applied(g, e).orders = orders BY <1>32 DEF SetQueue
  <2>2. D \in SUBSET Positions(b, s) /\ x \notin D BY <1>1, AheadIsAnOrder
  <2>3. Applied(g, e).orders = FilledIndex(b, ag, limit, all)
    BY <1>1, <1>2, <1>3, <1>9, <1>26, <1>30, <2>2, FillApplied
  <2> QED BY <2>1, <2>3
<1>34. PutQueue(lv, p, new) = FilledLevels(b, ag, limit, all)
  BY <1>1, <1>5, <1>8, <1>9, <1>11, <1>24, PutFilled
<1>35. SetQueue(g, s, p, new, orders)
         = [levels |-> [b.levels EXCEPT ![s] = FilledLevels(b, ag, limit, all)], orders |-> orders]
  <2>1. PICK after : after = FilledLevels(b, ag, limit, all) OBVIOUS
  <2>2. SetQueue(g, s, p, new, orders) = [levels |-> [g.levels EXCEPT ![s] = after], orders |-> orders]
    BY <1>27, <1>34, <2>1 DEF SetQueue
  <2>3. [g.levels EXCEPT ![s] = after] = [b.levels EXCEPT ![s] = after] BY <1>25, <1>26
  <2> QED BY <2>1, <2>2, <2>3
<1>36. FilledBook(b, ag, limit, all)
         = [levels |-> [b.levels EXCEPT ![s] = FilledLevels(b, ag, limit, all)],
            orders |-> FilledIndex(b, ag, limit, all)]
  BY <1>1 DEF FilledBook
<1> QED BY <1>1, <1>2, <1>3, <1>9, <1>23, <1>30, <1>32, <1>33, <1>35, <1>36

(* What is reached before a position that is traded is what is ahead of it.*)
LEMMA ReachedBefore ==
  ASSUME NEW b, Good(b), NEW ag, ag.side \in Sides, ag.qty \in Nat, NEW limit \in Nat,
         NEW P, P = Fills(b, ag, limit), NEW i \in 1..Cardinality(P)
  PROVE  LET s == Opposite(ag.side)
             x == Reached(b, s, P, i)
         IN  /\ {Reached(b, s, P, k) : k \in 1..(i - 1)} = PositionsAhead(b, s, x)
             /\ x \in Positions(b, s)
             /\ \A y \in PositionsAhead(b, s, x) : UsedUp(b, ag, limit, y)
<1>1. PICK s \in Sides : s = Opposite(ag.side) BY SidesFacts
<1>2. PICK n : n = Cardinality(P) OBVIOUS
<1>3. PICK x : x = Reached(b, s, P, i) OBVIOUS
<1>4. P \in SUBSET Positions(b, s) /\ (\A z \in Positions(b, s) : z \in P <=> Traded(b, ag, limit, z) > 0)
  BY <1>1 DEF Fills
<1>5. IsFiniteSet(P) /\ n \in Nat BY <1>2, <1>4, RanksDiffer
<1>6. /\ \A k \in 1..n : Reached(b, s, P, k) \in P /\ Rank(b, s, P, Reached(b, s, P, k)) = k - 1
      /\ \A z \in P : \E k \in 1..n : Reached(b, s, P, k) = z
  BY <1>2, <1>4, ReachedFacts
<1>7. x \in P /\ x \in Positions(b, s) /\ Traded(b, ag, limit, x) > 0
      /\ Rank(b, s, P, x) = i - 1
  BY <1>2, <1>3, <1>4, <1>6
<1>8. ASSUME NEW y \in PositionsAhead(b, s, x) PROVE UsedUp(b, ag, limit, y) /\ y \in P
  <2>1. UsedUp(b, ag, limit, y) BY <1>1, <1>7, <1>8, AheadIsUsedUp
  <2>2. y \in Positions(b, s) BY <1>7, <1>8, AheadIsAnOrder
  <2>3. Traded(b, ag, limit, y) = OrderAt(b, s, y).qty BY <1>1, <2>1 DEF UsedUp
  <2>4. OrderAt(b, s, y).qty \in Lots BY <2>2, PositionType
  <2>5. Traded(b, ag, limit, y) > 0 BY <2>3, <2>4 DEF Lots
  <2> QED BY <1>4, <2>1, <2>2, <2>5
<1>9. ASSUME NEW y \in P, NEW z \in P, y \in PositionsAhead(b, s, z)
      PROVE  Rank(b, s, P, y) <= Rank(b, s, P, z)
  <2>1. y \in Positions(b, s) /\ z \in Positions(b, s) BY <1>4
  <2>2. PositionsAhead(b, s, y) \subseteq PositionsAhead(b, s, z) BY <1>9, <2>1, AheadIsAnOrder
  <2>3. PICK A : A = P \cap PositionsAhead(b, s, y) OBVIOUS
  <2>4. PICK C : C = P \cap PositionsAhead(b, s, z) OBVIOUS
  <2>5. A \in SUBSET C /\ C \in SUBSET P BY <2>2, <2>3, <2>4
  <2>6. IsFiniteSet(C) BY <1>5, <2>5, FS_Subset
  <2>7. Cardinality(A) <= Cardinality(C) BY <2>5, <2>6, FS_Subset
  <2> QED BY <2>3, <2>4, <2>7 DEF Rank
<1>10. ASSUME NEW k \in 1..(i - 1) PROVE Reached(b, s, P, k) \in PositionsAhead(b, s, x)
  <2>1. PICK y : y = Reached(b, s, P, k) OBVIOUS
  <2>2. k \in 1..n /\ i \in 1..n BY <1>2, <1>5
  <2>3. y \in P /\ Rank(b, s, P, y) = k - 1 BY <1>6, <2>1, <2>2
  <2>4. y # x BY <1>7, <2>2, <2>3
  <2>5. x \notin PositionsAhead(b, s, y)
    <3> SUFFICES ASSUME x \in PositionsAhead(b, s, y) PROVE FALSE OBVIOUS
    <3>1. Rank(b, s, P, x) <= Rank(b, s, P, y) BY <1>7, <1>9, <2>3
    <3> QED BY <1>5, <1>7, <2>2, <2>3, <3>1
  <2>6. y \in Positions(b, s) BY <1>4, <2>3
  <2> QED BY <1>7, <2>1, <2>4, <2>5, <2>6, AheadIsAnOrder
<1>11. ASSUME NEW y \in PositionsAhead(b, s, x)
       PROVE  \E k \in 1..(i - 1) : Reached(b, s, P, k) = y
  <2>1. y \in P BY <1>8
  <2>2. PICK k \in 1..n : Reached(b, s, P, k) = y BY <1>6, <2>1
  <2>3. Rank(b, s, P, y) = k - 1 BY <1>6, <2>2
  <2>4. Rank(b, s, P, y) <= Rank(b, s, P, x) BY <1>7, <1>9, <2>1
  <2>5. k # i
    <3> SUFFICES ASSUME k = i PROVE FALSE OBVIOUS
    <3>1. y = x BY <1>3, <2>2
    <3>2. x \notin PositionsAhead(b, s, x) BY <1>7, AheadIsAnOrder
    <3> QED BY <3>1, <3>2
  <2>6. i \in 1..n BY <1>2
  <2>7. k \in 1..(i - 1) BY <1>5, <1>7, <2>3, <2>4, <2>5, <2>6
  <2> QED BY <2>2, <2>7
<1>12. {Reached(b, s, P, k) : k \in 1..(i - 1)} = PositionsAhead(b, s, x) BY <1>10, <1>11
<1>13. \A y \in PositionsAhead(b, s, x) : UsedUp(b, ag, limit, y) BY <1>8
<1> QED BY <1>1, <1>3, <1>7, <1>12, <1>13

(* The executions of a match, read one after the other, rebuild the book.  *)
LEMMA MatchRead ==
  ASSUME NEW b, Good(b), NEW ag, ag.side \in Sides, ag.qty \in Nat, NEW limit \in Nat
  PROVE  LET es == MatchEvents(b, ag, limit) IN Reading(b, es)[Len(es)] = Match(b, ag, limit)
<1>1. PICK s \in Sides : s = Opposite(ag.side) BY SidesFacts
<1>2. PICK es : es = MatchEvents(b, ag, limit) OBVIOUS
<1>3. PICK P : P = Fills(b, ag, limit) OBVIOUS
<1>4. PICK n : n = Cardinality(P) OBVIOUS
<1>5. /\ P \in SUBSET Positions(b, s) /\ n \in Nat /\ Len(es) = n
      /\ \A i \in 1..n : es[i] = ExecuteEvent(OrderAt(b, s, Reached(b, s, P, i)),
                                              Traded(b, ag, limit, Reached(b, s, P, i)))
  BY <1>1, <1>2, <1>3, <1>4, MatchEventsFacts
<1>6. PICK met : met = [i \in 0..n |-> {Reached(b, s, P, k) : k \in 1..i}] OBVIOUS
<1>7. PICK B : B = [i \in 0..n |-> FilledBook(b, ag, limit, met[i])] OBVIOUS
<1>8. B[0] = b
  <2>1. {Reached(b, s, P, k) : k \in 1..0} = {} OBVIOUS
  <2>2. 0 \in 0..n BY <1>5
  <2>3. met[0] = {Reached(b, s, P, k) : k \in 1..0} BY <1>6, <2>2
  <2>4. B[0] = FilledBook(b, ag, limit, met[0]) BY <1>7, <2>2
  <2>5. PICK none : none = {} OBVIOUS
  <2>6. met[0] = none BY <2>1, <2>3, <2>5
  <2>7. FilledBook(b, ag, limit, none) = b BY <2>5, NothingFilled
  <2> QED BY <2>4, <2>6, <2>7
<1>9. ASSUME NEW i \in 1..n PROVE Applied(B[i - 1], es[i]) = B[i]
  <2>1. PICK x : x = Reached(b, s, P, i) OBVIOUS
  <2>2. PICK D : D = met[i - 1] OBVIOUS
  <2>3. i - 1 \in 0..n /\ i \in 0..n BY <1>5
  <2>4. D = {Reached(b, s, P, k) : k \in 1..(i - 1)} BY <1>6, <2>2, <2>3
  <2>5. /\ D = PositionsAhead(b, s, x) /\ x \in Positions(b, s)
        /\ \A y \in D : UsedUp(b, ag, limit, y)
    <3>1. i \in 1..Cardinality(P) BY <1>4
    <3>2. /\ {Reached(b, Opposite(ag.side), P, k) : k \in 1..(i - 1)}
               = PositionsAhead(b, Opposite(ag.side), Reached(b, Opposite(ag.side), P, i))
          /\ Reached(b, Opposite(ag.side), P, i) \in Positions(b, Opposite(ag.side))
          /\ \A y \in PositionsAhead(b, Opposite(ag.side), Reached(b, Opposite(ag.side), P, i)) :
                UsedUp(b, ag, limit, y)
      BY <1>3, <3>1, ReachedBefore
    <3> QED BY <1>1, <2>1, <2>4, <3>2
  <2>6. met[i] = D \cup {x}
    <3>1. met[i] = {Reached(b, s, P, k) : k \in 1..i} BY <1>6, <2>3
    <3>2. \A k \in 1..i : k = i \/ k \in 1..(i - 1) OBVIOUS
    <3>3. \A k \in 1..(i - 1) : k \in 1..i OBVIOUS
    <3>4. i \in 1..i OBVIOUS
    <3> QED BY <2>1, <2>4, <3>1, <3>2, <3>3, <3>4
  <2>7. B[i - 1] = FilledBook(b, ag, limit, D) /\ B[i] = FilledBook(b, ag, limit, D \cup {x})
    BY <1>7, <2>2, <2>3, <2>6
  <2>8. Applied(FilledBook(b, ag, limit, D), ExecuteEvent(OrderAt(b, s, x), Traded(b, ag, limit, x)))
          = FilledBook(b, ag, limit, D \cup {x})
    BY <1>1, <2>5, FillRead
  <2>9. es[i] = ExecuteEvent(OrderAt(b, s, x), Traded(b, ag, limit, x)) BY <1>5, <2>1
  <2> QED BY <2>7, <2>8, <2>9
<1>10. Reading(b, es)[Len(es)] = B[Len(es)] BY <1>5, <1>8, <1>9, ReadBooks
<1>11. B[n] = Match(b, ag, limit)
  <2>1. /\ \A k \in 1..n : Reached(b, s, P, k) \in P
        /\ \A z \in P : \E k \in 1..n : Reached(b, s, P, k) = z
    BY <1>4, <1>5, ReachedFacts
  <2>2. met[n] = P
    <3>1. met[n] = {Reached(b, s, P, k) : k \in 1..n} BY <1>5, <1>6
    <3> QED BY <2>1, <3>1
  <2>3. B[n] = FilledBook(b, ag, limit, P) BY <1>5, <1>7, <2>2
  <2> QED BY <1>3, <2>3, AllFilled
<1> QED BY <1>2, <1>5, <1>10, <1>11

(* So does the report of a cancel or a modification.                       *)
LEMMA CancelRead ==
  ASSUME NEW b, Good(b), NEW id
  PROVE  LET es == CancelEvents(b, id) IN Reading(b, es)[Len(es)] = CancelOrder(b, id)
<1>1. CASE Known(b, id)
  <2>1. PICK o : o = b.orders[id] OBVIOUS
  <2>2. id \in DOMAIN b.orders /\ o.id = id BY <1>1, <2>1, IndexType DEF Known
  <2>3. CancelEvents(b, id) = <<CancelEvent(o)>> BY <1>1, <2>1 DEF CancelEvents
  <2>4. b.orders[o.id].id = o.id BY <2>1, <2>2
  <2>5. Applied(b, CancelEvent(o)) = Removed(b, b.orders[o.id]) BY <2>4, CancelApplied
  <2>6. CancelOrder(b, id) = Removed(b, b.orders[id]) BY <1>1 DEF CancelOrder
  <2> QED BY <2>2, <2>3, <2>5, <2>6, ReadOne
<1>2. CASE ~Known(b, id)
  <2>1. CancelEvents(b, id) = <<>> /\ CancelOrder(b, id) = b BY <1>2 DEF CancelEvents, CancelOrder
  <2> QED BY <2>1, ReadNone
<1> QED BY <1>1, <1>2

LEMMA ModifyRead ==
  ASSUME NEW b, Good(b), NEW r
  PROVE  LET es == ModifyEvents(b, r) IN Reading(b, es)[Len(es)] = ModifyOrder(b, r)
<1>1. CASE CanModify(b, r)
  <2>1. PICK old : old = b.orders[r.id] OBVIOUS
  <2>2. PICK new : new = Modified(b, r) OBVIOUS
  <2>3. r.id \in DOMAIN b.orders /\ old.id = r.id /\ old \in Order
    BY <1>1, <2>1, IndexType DEF CanModify, Known
  <2>4. new.id = r.id /\ new.side = old.side /\ new.price = r.price
    <3>1. PICK ts : new = [old EXCEPT !.qty = r.qty, !.price = r.price, !.ts = ts]
      BY <2>1, <2>2 DEF Modified
    <3> QED BY <2>3, <3>1 DEF Order
  <2>5. CASE SamePrice(b, r)
    <3>1. PICK e : e = ModifyEvent(old, new, TRUE) OBVIOUS
    <3>2. ModifyEvents(b, r) = <<e>> BY <1>1, <2>1, <2>2, <2>5, <3>1 DEF ModifyEvents
    <3>3. e.type = "modify" /\ e.order = new /\ e.preserved BY <3>1 DEF ModifyEvent
    <3>4. InPlace(b, e) BY <2>1, <2>4, <2>5, <3>3 DEF InPlace, SamePrice
    <3>5. Applied(b, e) = Replaced(b, old, new) BY <2>1, <2>4, <3>3, <3>4 DEF Applied
    <3>6. PICK queue : queue = b.levels[old.side][old.price] OBVIOUS
    <3>7. ModifyOrder(b, r) =
            SetQueue(b, old.side, old.price, [queue EXCEPT ![IndexIn(queue, old.id)] = new],
                     PutOrder(b.orders, new))
      BY <1>1, <2>1, <2>2, <2>5, <3>6 DEF ModifyOrder
    <3>8. Replaced(b, old, new) = ModifyOrder(b, r) BY <3>6, <3>7 DEF Replaced
    <3> QED BY <3>2, <3>5, <3>8, ReadOne
  <2>6. CASE ~SamePrice(b, r)
    <3>1. PICK e : e = ModifyEvent(old, new, SamePrice(b, r)) OBVIOUS
    <3>2. ModifyEvents(b, r) = <<e>> BY <1>1, <2>1, <2>2, <3>1 DEF ModifyEvents
    <3>3. e.type = "modify" /\ e.order = new /\ ~e.preserved BY <2>6, <3>1 DEF ModifyEvent
    <3>4. ~InPlace(b, e) BY <3>3 DEF InPlace
    <3>5. Applied(b, e) = Appended(Removed(b, old), new) BY <2>1, <2>4, <3>3, <3>4 DEF Applied
    <3>6. ModifyOrder(b, r) = Appended(Removed(b, old), new)
      BY <1>1, <2>1, <2>2, <2>6 DEF ModifyOrder
    <3> QED BY <3>2, <3>5, <3>6, ReadOne
  <2> QED BY <2>5, <2>6
<1>2. CASE ~CanModify(b, r)
  <2>1. ModifyEvents(b, r) = <<>> /\ ModifyOrder(b, r) = b BY <1>2 DEF ModifyEvents, ModifyOrder
  <2> QED BY <2>1, ReadNone
<1> QED BY <1>1, <1>2

(* A submitted limit order: its fills, and an add when something rests.    *)
LEMMA LimitRead ==
  ASSUME Good(book), NEW o \in ClientOrders, SubmitLimit(o)
  PROVE  Reading(book, events')[Len(events')] = book'
<1>1. o.side \in Sides /\ o.qty \in Nat /\ o.price \in Nat
  BY InputsAssumption, PricesAssumption DEF ClientOrders, Lots
<1>2. PICK limit \in Nat : limit = o.price BY <1>1
<1>3. PICK matched : matched = Match(book, o, limit) OBVIOUS
<1>4. PICK fills : fills = MatchEvents(book, o, limit) OBVIOUS
<1>5. PICK rest : rest = [o EXCEPT !.qty = o.qty - Filled(book, o, limit)] OBVIOUS
<1>6. Reading(book, fills)[Len(fills)] = matched BY <1>1, <1>3, <1>4, MatchRead
<1>7. \/ book' = matched /\ events' = fills
      \/ book' = Appended(matched, rest) /\ events' = fills \o <<AddEvent(rest)>>
  BY <1>2, <1>3, <1>4, <1>5 DEF SubmitLimit, AddOrder, AddEvents
<1>8. PICK e : e = AddEvent(rest) OBVIOUS
<1>9. Reading(book, fills \o <<e>>)[Len(fills \o <<e>>)] = Appended(matched, rest)
  <2>1. PICK S : fills \in Seq(S) BY <1>1, <1>4, MatchEventsFacts
  <2>2. fills \in Seq(S \cup {e}) /\ e \in S \cup {e} BY <2>1
  <2>3. PICK T : T = S \cup {e} OBVIOUS
  <2>4. fills \in Seq(T) /\ e \in T BY <2>2, <2>3
  <2>5. Reading(book, fills \o <<e>>)[Len(fills \o <<e>>)] = Applied(matched, e)
    BY <1>6, <2>4, ReadMore
  <2>6. Applied(matched, e) = Appended(matched, rest) BY <1>8, AddApplied
  <2> QED BY <2>5, <2>6
<1> QED BY <1>6, <1>7, <1>8, <1>9

(* The events of submitted orders reconstruct the book order by order: a   *)
(* reader also knows who is ahead of whom in every queue.                  *)
THEOREM EventsTellQueues == ExchangeFeedSpec => []FeedKnowsQueues
<1> DEFINE Inv == IInv /\ FeedKnowsQueues
           ExchangeNext == (OrderNext \/ ModifyNext) /\ Read
<1>1. FeedInit => Inv BY InitGood DEF FeedInit, Init, FeedKnowsQueues
<1>2. Inv /\ [ExchangeNext]_feedVars => Inv'
  <2> SUFFICES ASSUME Inv, [ExchangeNext]_feedVars PROVE Inv' OBVIOUS
  <2>1. CASE ExchangeNext
    <3>1. Good(book) /\ feed = book BY DEF IInv, FeedKnowsQueues
    <3>2. feed' = Reading(book, events')[Len(events')] BY <2>1, <3>1 DEF Read
    <3>3. IInv' BY <2>1, NextGood DEF Next
    <3>4. ASSUME NEW o \in ClientOrders, SubmitLimit(o) PROVE feed' = book'
      BY <3>1, <3>2, <3>4, LimitRead
    <3>5. ASSUME NEW o \in ClientOrders, SubmitMarket(o) PROVE feed' = book'
      <4>1. o.side \in Sides /\ o.qty \in Nat BY InputsAssumption DEF ClientOrders, Lots
      <4>2. PICK limit \in Nat : limit = NoLimit BY DEF NoLimit
      <4>3. PICK es : es = MatchEvents(book, o, limit) OBVIOUS
      <4>4. Reading(book, es)[Len(es)] = Match(book, o, limit) BY <3>1, <4>1, <4>3, MatchRead
      <4>5. events' = es /\ book' = Match(book, o, limit) BY <3>5, <4>2, <4>3 DEF SubmitMarket
      <4> QED BY <3>2, <4>4, <4>5
    <3>6. ASSUME NEW id, SubmitCancel(id) PROVE feed' = book'
      BY <3>1, <3>2, <3>6, CancelRead DEF SubmitCancel
    <3>7. ASSUME NEW r \in ClientOrders, SubmitModify(r) PROVE feed' = book'
      BY <3>1, <3>2, <3>7, ModifyRead DEF SubmitModify
    <3>8. FeedKnowsQueues'
      BY <2>1, <3>4, <3>5, <3>6, <3>7 DEF OrderNext, ModifyNext, FeedKnowsQueues
    <3> QED BY <3>3, <3>8
  <2>2. CASE UNCHANGED feedVars BY <2>2 DEF feedVars, IInv, FeedKnowsQueues
  <2> QED BY <2>1, <2>2
<1>3. Inv => FeedKnowsQueues OBVIOUS
<1> QED BY <1>1, <1>2, <1>3, PTL DEF ExchangeFeedSpec

-----------------------------------------------------------------------------
(* The loops of matching *)

(* The order that is met next trades what is left, or all it has.          *)
LEMMA NextRemains ==
  ASSUME NEW b, Good(b), NEW ag, ag.side \in Sides, ag.qty \in Nat, NEW limit,
         NEW x \in Positions(b, Opposite(ag.side)), NEW D, D = PositionsAhead(b, Opposite(ag.side), x),
         Crosses(ag.side, x[1], limit)
  PROVE  LET qty == OrderAt(b, Opposite(ag.side), x).qty
             left == LeftOver(b, ag, D)
         IN  /\ left \in Nat /\ qty \in Lots
             /\ Traded(b, ag, limit, x) = IF left < qty THEN left ELSE qty
             /\ LeftOver(b, ag, D \cup {x}) = left - Traded(b, ag, limit, x)
<1>1. PICK s \in Sides : s = Opposite(ag.side) BY SidesFacts
<1>2. PICK qty : qty = OrderAt(b, s, x).qty OBVIOUS
<1>3. qty \in Nat /\ qty > 0 /\ qty \in Lots
  <2>1. qty \in Lots BY <1>1, <1>2, PositionType
  <2> QED BY <2>1 DEF Lots
<1>4. D \in SUBSET Positions(b, s) /\ x \in Positions(b, s) \ D BY <1>1, AheadIsAnOrder
<1>5. PICK before \in Nat : before = Quantity(b, s, D) BY <1>4, QuantityType
<1>6. PICK all : all = D \cup {x} OBVIOUS
<1>7. Quantity(b, s, all) = before + qty BY <1>2, <1>4, <1>5, <1>6, QuantityAdds
<1>8. PICK t : t = Traded(b, ag, limit, x) OBVIOUS
<1>9. t = IF before >= ag.qty THEN 0 ELSE IF ag.qty - before < qty THEN ag.qty - before ELSE qty
  BY <1>1, <1>2, <1>5, <1>8 DEF Traded
<1>10. PICK left : left = LeftOver(b, ag, D) OBVIOUS
<1>11. left = IF before < ag.qty THEN ag.qty - before ELSE 0 BY <1>1, <1>5, <1>10 DEF LeftOver
<1>12. LeftOver(b, ag, all) = IF before + qty < ag.qty THEN ag.qty - (before + qty) ELSE 0
  BY <1>1, <1>7 DEF LeftOver
<1>13. left \in Nat BY <1>5, <1>11
<1>14. t = IF left < qty THEN left ELSE qty BY <1>3, <1>5, <1>9, <1>11
<1>15. LeftOver(b, ag, all) = left - t BY <1>3, <1>5, <1>9, <1>11, <1>12
<1> QED BY <1>1, <1>2, <1>3, <1>6, <1>8, <1>10, <1>13, <1>14, <1>15

(* One element more of a sequence.                                         *)
LEMMA PrefixGrows ==
  ASSUME NEW n \in Nat, NEW F
  PROVE  [i \in 1..(n + 1) |-> F[i]] = Append([i \in 1..n |-> F[i]], F[n + 1])
<1>1. PICK S : S = {F[i] : i \in 1..(n + 1)} OBVIOUS
<1>2. \A i \in 1..(n + 1) : F[i] \in S BY <1>1
<1>3. PICK r : r = [i \in 1..n |-> F[i]] OBVIOUS
<1>4. r \in Seq(S) /\ Len(r) = n /\ \A i \in 1..n : r[i] = F[i] BY <1>2, <1>3
<1>5. PICK e \in S : e = F[n + 1] BY <1>2
<1>6. PICK a : a = Append(r, e) OBVIOUS
<1>7. a \in Seq(S) /\ Len(a) = n + 1 /\ a[n + 1] = e /\ \A i \in 1..n : a[i] = r[i] BY <1>4, <1>6
<1>8. a = [i \in 1..(n + 1) |-> a[i]] BY <1>7
<1>9. \A i \in 1..(n + 1) : a[i] = F[i] BY <1>4, <1>5, <1>7
<1>10. a = [i \in 1..(n + 1) |-> F[i]] BY <1>8, <1>9
<1> QED BY <1>3, <1>5, <1>6, <1>10

(* When it trades it is the next of the executions.                        *)
LEMMA NextEvent ==
  ASSUME NEW b, Good(b), NEW ag, ag.side \in Sides, ag.qty \in Nat, NEW limit,
         NEW x \in Positions(b, Opposite(ag.side)), NEW D, D = PositionsAhead(b, Opposite(ag.side), x)
  PROVE  /\ Traded(b, ag, limit, x) > 0 =>
              EventsOf(b, ag, limit, D \cup {x}) =
                Append(EventsOf(b, ag, limit, D),
                       ExecuteEvent(OrderAt(b, Opposite(ag.side), x), Traded(b, ag, limit, x)))
         /\ ~(Traded(b, ag, limit, x) > 0) => EventsOf(b, ag, limit, D \cup {x}) = EventsOf(b, ag, limit, D)
<1>1. PICK s \in Sides : s = Opposite(ag.side) BY SidesFacts
<1>2. PICK P : P = Fills(b, ag, limit) OBVIOUS
<1>3. PICK es : es = MatchEvents(b, ag, limit) OBVIOUS
<1>4. P \in SUBSET Positions(b, s) /\ (x \in P <=> Traded(b, ag, limit, x) > 0) BY <1>1, <1>2 DEF Fills
<1>5. x \notin D /\ D = PositionsAhead(b, s, x) BY <1>1, AheadIsAnOrder
<1>6. IsFiniteSet(P) /\ Cardinality(P) \in Nat BY <1>4, RanksDiffer
<1>7. PICK done : done = D \cap P OBVIOUS
<1>8. IsFiniteSet(done) /\ Cardinality(done) \in Nat BY <1>6, <1>7, FS_Subset, FS_CardinalityType
<1>9. PICK n \in Nat : n = Cardinality(done) BY <1>8
<1>10. EventsOf(b, ag, limit, D) = [i \in 1..n |-> es[i]] BY <1>2, <1>3, <1>7, <1>9 DEF EventsOf
<1>11. PICK all : all = D \cup {x} OBVIOUS
<1>12. EventsOf(b, ag, limit, all) = [i \in 1..Cardinality(all \cap P) |-> es[i]]
  BY <1>2, <1>3 DEF EventsOf
<1>13. ASSUME x \in P
       PROVE  EventsOf(b, ag, limit, all) =
                Append(EventsOf(b, ag, limit, D), ExecuteEvent(OrderAt(b, s, x), Traded(b, ag, limit, x)))
  <2>1. all \cap P = done \cup {x} /\ x \notin done /\ done \cup {x} \subseteq P
    BY <1>5, <1>7, <1>11, <1>13
  <2>2. Cardinality(done \cup {x}) = n + 1 BY <1>8, <1>9, <2>1, FS_AddElement
  <2>3. n + 1 <= Cardinality(P)
    <3>1. Cardinality(done \cup {x}) <= Cardinality(P) BY <1>6, <2>1, FS_Subset
    <3> QED BY <2>2, <3>1
  <2>4. n + 1 \in 1..Cardinality(P) BY <1>6, <2>3
  <2>5. PICK y : y = Reached(b, s, P, n + 1) OBVIOUS
  <2>6. y \in P /\ Rank(b, s, P, y) = n
    <3>1. Reached(b, s, P, n + 1) \in P /\ Rank(b, s, P, Reached(b, s, P, n + 1)) = (n + 1) - 1
      BY <1>4, <2>4, ReachedFacts
    <3> QED BY <2>5, <3>1
  <2>7. Rank(b, s, P, x) = n
    <3>1. P \cap PositionsAhead(b, s, x) = done BY <1>5, <1>7
    <3> QED BY <1>9, <3>1 DEF Rank
  <2>8. y = x
    <3>1. \A u, v \in P : Rank(b, s, P, u) = Rank(b, s, P, v) => u = v BY <1>4, RanksDiffer
    <3> QED BY <1>13, <2>6, <2>7, <3>1
  <2>9. es[n + 1] = ExecuteEvent(OrderAt(b, s, x), Traded(b, ag, limit, x))
    <3>1. /\ DOMAIN es = 1..Cardinality(P)
          /\ \A i \in DOMAIN es : es[i] = ExecuteEvent(OrderAt(b, s, Reached(b, s, P, i)),
                                                       Traded(b, ag, limit, Reached(b, s, P, i)))
      BY <1>1, <1>2, <1>3, MatchEventsFacts
    <3> QED BY <2>4, <2>5, <2>8, <3>1
  <2>10. [i \in 1..(n + 1) |-> es[i]] = Append([i \in 1..n |-> es[i]], es[n + 1]) BY PrefixGrows
  <2>11. Cardinality(all \cap P) = n + 1 BY <2>1, <2>2
  <2> QED BY <1>10, <1>12, <2>9, <2>10, <2>11
<1>14. ASSUME x \notin P PROVE EventsOf(b, ag, limit, all) = EventsOf(b, ag, limit, D)
  <2>1. all \cap P = done BY <1>7, <1>11, <1>14
  <2> QED BY <1>9, <1>10, <1>12, <2>1
<1> QED BY <1>1, <1>4, <1>11, <1>13, <1>14

(* It stays in the queue when something of it is left.                     *)
LEMMA KeptNext ==
  ASSUME NEW b, Good(b), NEW ag, ag.side \in Sides, ag.qty \in Nat, NEW limit,
         NEW p \in DOMAIN b.levels[Opposite(ag.side)],
         NEW k \in 0..(Len(b.levels[Opposite(ag.side)][p]) - 1)
  PROVE  LET kept == KeptUpTo(b, ag, limit, p, k)
             next == KeptUpTo(b, ag, limit, p, k + 1)
             x == <<p, k + 1>>
         IN  /\ UsedUp(b, ag, limit, x) => next = kept
             /\ ~UsedUp(b, ag, limit, x) => next = Append(kept, AfterFill(b, ag, limit, x))
<1>1. PICK s \in Sides : s = Opposite(ag.side) BY SidesFacts
<1>2. PICK len \in Nat : len = Len(b.levels[s][p])
  <2>1. IsBook(b) BY DEF Good
  <2> QED BY <1>1, <2>1, BookType
<1>3. PICK used : used = {i \in 1..len : UsedUp(b, ag, limit, <<p, i>>)} OBVIOUS
<1>4. used \in SUBSET (1..len) /\ \A i \in 1..len, j \in used : i < j => i \in used
  BY <1>1, <1>2, <1>3, UsedUpFromTheHead
<1>5. PICK gone : gone = Cardinality(used) OBVIOUS
<1>6. gone \in 0..len /\ used = 1..gone BY <1>4, <1>5, InitialSegment
<1>7. gone = GoneFrom(b, ag, limit, p) BY <1>1, <1>2, <1>3, <1>5 DEF GoneFrom
<1>8. k \in Nat /\ k + 1 \in 1..len BY <1>1, <1>2
<1>9. UsedUp(b, ag, limit, <<p, k + 1>>) <=> k + 1 <= gone
  <2>1. UsedUp(b, ag, limit, <<p, k + 1>>) <=> k + 1 \in used BY <1>3, <1>8
  <2>2. k + 1 \in 1..gone <=> k + 1 <= gone BY <1>6, <1>8
  <2> QED BY <1>6, <2>1, <2>2
<1>10. PICK F : F = [i \in 1..((k - gone) + 1) |-> AfterFill(b, ag, limit, <<p, i + gone>>)] OBVIOUS
<1>11. KeptUpTo(b, ag, limit, p, k) = [i \in 1..(k - gone) |-> F[i]]
  <2>1. KeptUpTo(b, ag, limit, p, k) = [i \in 1..(k - gone) |-> AfterFill(b, ag, limit, <<p, i + gone>>)]
    BY <1>7 DEF KeptUpTo
  <2>2. \A i \in 1..(k - gone) : i \in 1..((k - gone) + 1) BY <1>6, <1>8
  <2>3. \A i \in 1..(k - gone) : F[i] = AfterFill(b, ag, limit, <<p, i + gone>>) BY <1>10, <2>2
  <2> QED BY <2>1, <2>3
<1>12. KeptUpTo(b, ag, limit, p, k + 1) = [i \in 1..((k - gone) + 1) |-> F[i]]
  <2>1. KeptUpTo(b, ag, limit, p, k + 1)
          = [i \in 1..((k + 1) - gone) |-> AfterFill(b, ag, limit, <<p, i + gone>>)]
    BY <1>7 DEF KeptUpTo
  <2>2. (k + 1) - gone = (k - gone) + 1 BY <1>6, <1>8
  <2>3. \A i \in 1..((k - gone) + 1) : F[i] = AfterFill(b, ag, limit, <<p, i + gone>>) BY <1>10
  <2> QED BY <2>1, <2>2, <2>3
<1>13. CASE k + 1 <= gone
  <2>1. 1..(k - gone) = {} /\ 1..((k - gone) + 1) = {} BY <1>6, <1>8, <1>13
  <2>2. KeptUpTo(b, ag, limit, p, k) = [i \in {} |-> F[i]] BY <1>11, <2>1
  <2>3. KeptUpTo(b, ag, limit, p, k + 1) = [i \in {} |-> F[i]] BY <1>12, <2>1
  <2> QED BY <1>9, <1>13, <2>2, <2>3
<1>14. CASE ~(k + 1 <= gone)
  <2>1. PICK n \in Nat : n = k - gone BY <1>6, <1>8, <1>14
  <2>2. [i \in 1..(n + 1) |-> F[i]] = Append([i \in 1..n |-> F[i]], F[n + 1]) BY PrefixGrows
  <2>3. F[n + 1] = AfterFill(b, ag, limit, <<p, k + 1>>)
    <3>1. n + 1 \in 1..((k - gone) + 1) /\ (n + 1) + gone = k + 1 BY <1>6, <1>8, <2>1
    <3> QED BY <1>10, <3>1
  <2> QED BY <1>9, <1>11, <1>12, <1>14, <2>1, <2>2, <2>3
<1> QED BY <1>13, <1>14

(* Leaving a level replaces its queue by what is kept of it.               *)
LEMMA HalfMatchedNext ==
  ASSUME NEW b, NEW ag, NEW limit, NEW p \in DOMAIN b.levels[Opposite(ag.side)], NEW left, p \notin left
  PROVE  PutQueue(HalfMatched(b, ag, limit, left \cup {p}), p, QueueAfter(b, ag, limit, p))
           = HalfMatched(b, ag, limit, left)
<1>1. PICK lv : lv = b.levels[Opposite(ag.side)] OBVIOUS
<1>2. PICK H : H = HalfMatched(b, ag, limit, left \cup {p}) OBVIOUS
<1>3. PICK queue : queue = QueueAfter(b, ag, limit, p) OBVIOUS
<1>4. PICK kept : kept = {q \in DOMAIN lv : q \in left \/ QueueAfter(b, ag, limit, q) # <<>>} OBVIOUS
<1>5. /\ DOMAIN H = {q \in DOMAIN lv : q \in left \cup {p} \/ QueueAfter(b, ag, limit, q) # <<>>}
      /\ \A q \in DOMAIN H : H[q] = IF q \in left \cup {p} THEN lv[q] ELSE QueueAfter(b, ag, limit, q)
  BY <1>1, <1>2 DEF HalfMatched
<1>6. HalfMatched(b, ag, limit, left) = [q \in kept |-> IF q \in left THEN lv[q] ELSE QueueAfter(b, ag, limit, q)]
  BY <1>1, <1>4 DEF HalfMatched
<1>7. p \in DOMAIN lv BY <1>1
<1>8. CASE queue = <<>>
  <2>1. kept = DOMAIN H \ {p} BY <1>3, <1>4, <1>5, <1>8
  <2>2. PutQueue(H, p, queue) = [q \in kept |-> H[q]] BY <1>8, <2>1 DEF PutQueue
  <2>3. \A q \in kept : H[q] = IF q \in left THEN lv[q] ELSE QueueAfter(b, ag, limit, q)
    BY <1>5, <2>1
  <2> QED BY <1>2, <1>3, <1>6, <2>2, <2>3
<1>9. CASE queue # <<>>
  <2>1. kept = DOMAIN H \cup {p} BY <1>3, <1>4, <1>5, <1>7, <1>9
  <2>2. PutQueue(H, p, queue) = [q \in kept |-> IF q = p THEN queue ELSE H[q]] BY <1>9, <2>1 DEF PutQueue
  <2>3. \A q \in kept : (IF q = p THEN queue ELSE H[q])
                          = IF q \in left THEN lv[q] ELSE QueueAfter(b, ag, limit, q)
    BY <1>3, <1>5, <2>1
  <2> QED BY <1>2, <1>3, <1>6, <2>2, <2>3
<1> QED BY <1>8, <1>9

(* While all levels are left the queues are those of the book.             *)
LEMMA HalfMatchedStart ==
  ASSUME NEW b, Good(b), NEW ag, ag.side \in Sides, NEW limit
  PROVE  LET lv == b.levels[Opposite(ag.side)]
         IN  [b.levels EXCEPT ![Opposite(ag.side)] = HalfMatched(b, ag, limit, DOMAIN lv)] = b.levels
<1>1. PICK s \in Sides : s = Opposite(ag.side) BY SidesFacts
<1>2. PICK lv : lv = b.levels[s] OBVIOUS
<1>3. IsBook(b) BY DEF Good
<1>4. lv = [p \in DOMAIN lv |-> lv[p]] BY <1>2, <1>3 DEF IsBook, IsMap
<1>5. HalfMatched(b, ag, limit, DOMAIN lv) = [p \in DOMAIN lv |-> lv[p]]
  <2>1. PICK kept : kept = {q \in DOMAIN lv : q \in DOMAIN lv \/ QueueAfter(b, ag, limit, q) # <<>>} OBVIOUS
  <2>2. kept = DOMAIN lv BY <2>1
  <2>3. HalfMatched(b, ag, limit, DOMAIN lv)
          = [p \in kept |-> IF p \in DOMAIN lv THEN lv[p] ELSE QueueAfter(b, ag, limit, p)]
    BY <1>1, <1>2, <2>1 DEF HalfMatched
  <2> QED BY <2>2, <2>3
<1>6. HalfMatched(b, ag, limit, DOMAIN lv) = lv BY <1>4, <1>5
<1>7. [b.levels EXCEPT ![s] = lv] = b.levels BY <1>2, <1>3 DEF IsBook
<1> QED BY <1>1, <1>2, <1>6, <1>7

(* When nothing trades in the levels left they are those of the match.     *)
LEMMA HalfMatchedEnd ==
  ASSUME NEW b, Good(b), NEW ag, ag.side \in Sides, ag.qty \in Nat, NEW limit,
         NEW left, \A x \in Fills(b, ag, limit) : x[1] \notin left
  PROVE  [b.levels EXCEPT ![Opposite(ag.side)] = HalfMatched(b, ag, limit, left)]
           = Match(b, ag, limit).levels
<1>1. PICK s \in Sides : s = Opposite(ag.side) BY SidesFacts
<1>2. PICK lv : lv = b.levels[s] OBVIOUS
<1>3. IsBook(b) BY DEF Good
<1>4. ASSUME NEW p \in DOMAIN lv, p \in left
      PROVE  QueueAfter(b, ag, limit, p) = lv[p] /\ lv[p] # <<>>
  <2>1. PICK queue \in Seq(Order) : queue = lv[p] BY <1>2, <1>3, <1>4, BookType
  <2>2. ASSUME NEW i \in 1..Len(queue)
        PROVE  AfterFill(b, ag, limit, <<p, i>>) = queue[i] /\ ~UsedUp(b, ag, limit, <<p, i>>)
    <3>1. PICK x : x = <<p, i>> OBVIOUS
    <3>2. x \in Positions(b, s) /\ OrderAt(b, s, x) = queue[i] /\ x[1] = p
      BY <1>2, <2>1, <3>1, PositionOfIndex DEF OrderAt
    <3>3. x \notin Fills(b, ag, limit) BY <1>4, <3>2
    <3>4. ~(Traded(b, ag, limit, x) > 0) BY <1>1, <3>2, <3>3 DEF Fills
    <3> QED BY <1>1, <3>1, <3>2, <3>4, UntradedStays
  <2>3. {i \in 1..Len(queue) : UsedUp(b, ag, limit, <<p, i>>)} = {} BY <2>2
  <2>4. Cardinality({}) = 0 BY FS_EmptySet
  <2>5. QueueAfter(b, ag, limit, p) = [i \in 1..(Len(queue) - 0) |-> AfterFill(b, ag, limit, <<p, i + 0>>)]
    BY <1>1, <1>2, <2>1, <2>3, <2>4 DEF QueueAfter
  <2>6. \A i \in 1..(Len(queue) - 0) : AfterFill(b, ag, limit, <<p, i + 0>>) = queue[i] BY <2>2
  <2>7. QueueAfter(b, ag, limit, p) = [i \in 1..Len(queue) |-> queue[i]] BY <2>5, <2>6
  <2>8. lv[p] # <<>> BY <1>2 DEF Good, NoEmptyLevel
  <2> QED BY <2>1, <2>7, <2>8
<1>5. PICK kept : kept = {p \in DOMAIN lv : QueueAfter(b, ag, limit, p) # <<>>} OBVIOUS
<1>6. HalfMatched(b, ag, limit, left) = [p \in kept |-> QueueAfter(b, ag, limit, p)]
  <2>1. {q \in DOMAIN lv : q \in left \/ QueueAfter(b, ag, limit, q) # <<>>} = kept BY <1>4, <1>5
  <2>2. HalfMatched(b, ag, limit, left)
          = [p \in kept |-> IF p \in left THEN lv[p] ELSE QueueAfter(b, ag, limit, p)]
    BY <1>1, <1>2, <2>1 DEF HalfMatched
  <2>3. \A p \in kept : (IF p \in left THEN lv[p] ELSE QueueAfter(b, ag, limit, p)) = QueueAfter(b, ag, limit, p)
    BY <1>4, <1>5
  <2> QED BY <2>2, <2>3
<1>7. Match(b, ag, limit).levels = [b.levels EXCEPT ![s] = [p \in kept |-> QueueAfter(b, ag, limit, p)]]
  BY <1>1, <1>2, <1>5 DEF Match
<1> QED BY <1>1, <1>6, <1>7

(* When the loops stop, all that trades has been met, and no more is       *)
(* taken of the aggressor than it is filled.                               *)
LEMMA AllMet ==
  ASSUME NEW b, Good(b), NEW ag, ag.side \in Sides, ag.qty \in Nat, NEW limit, NEW left, NEW D,
         D = {x \in Positions(b, Opposite(ag.side)) : x[1] \notin left},
         \A p \in DOMAIN b.levels[Opposite(ag.side)] \ left :
            Crosses(ag.side, p, limit) /\ \A q \in left : Ahead(Opposite(ag.side), p, q),
         LeftOver(b, ag, D) = 0 \/ \A p \in left : ~Crosses(ag.side, p, limit)
  PROVE  /\ Fills(b, ag, limit) \subseteq D
         /\ ag.qty - LeftOver(b, ag, D) = Filled(b, ag, limit)
<1>1. PICK s \in Sides : s = Opposite(ag.side) BY SidesFacts
<1>2. D \in SUBSET Positions(b, s) BY <1>1
<1>3. PICK met \in Nat : met = Quantity(b, s, D) BY <1>2, QuantityType
<1>4. LeftOver(b, ag, D) = IF met < ag.qty THEN ag.qty - met ELSE 0 BY <1>1, <1>3 DEF LeftOver
<1>5. \A x \in Positions(b, s) : x[1] \in DOMAIN b.levels[s] BY PositionType
<1>6. ASSUME NEW x \in Positions(b, s), Traded(b, ag, limit, x) > 0, x \notin D PROVE FALSE
  <2>1. x[1] \in left BY <1>1, <1>6
  <2>2. D \subseteq PositionsAhead(b, s, x)
    <3>1. \A y \in D : y \in Positions(b, s) /\ Ahead(s, y[1], x[1]) BY <1>1, <1>2, <1>5, <2>1
    <3> QED BY <3>1 DEF PositionsAhead
  <2>3. PositionsAhead(b, s, x) \in SUBSET Positions(b, s) BY AheadIsAnOrder
  <2>4. PICK ahead \in Nat : ahead = Quantity(b, s, PositionsAhead(b, s, x)) BY <2>3, QuantityType
  <2>5. met <= ahead BY <1>3, <2>2, <2>3, <2>4, QuantityMonotone
  <2>6. Crosses(ag.side, x[1], limit) /\ ~(ahead >= ag.qty)
    BY <1>1, <1>6, <2>4 DEF Traded
  <2>7. LeftOver(b, ag, D) # 0 BY <1>3, <1>4, <2>5, <2>6
  <2> QED BY <2>1, <2>6, <2>7
<1>7. Fills(b, ag, limit) \subseteq D BY <1>1, <1>6 DEF Fills
<1>8. PICK P : P = {x \in Positions(b, s) : Crosses(ag.side, x[1], limit)} OBVIOUS
<1>9. PICK all \in Nat : all = Quantity(b, s, P) BY <1>8, QuantityType
<1>10. Filled(b, ag, limit) = IF all < ag.qty THEN all ELSE ag.qty BY <1>1, <1>8, <1>9 DEF Filled
<1>11. D \in SUBSET P BY <1>1, <1>5, <1>8
<1>12. met <= all BY <1>3, <1>8, <1>9, <1>11, QuantityMonotone
<1>13. CASE met < ag.qty
  <2>1. \A p \in left : ~Crosses(ag.side, p, limit) BY <1>3, <1>4, <1>13
  <2>2. P = D BY <1>1, <1>8, <1>11, <2>1
  <2> QED BY <1>3, <1>4, <1>7, <1>9, <1>10, <1>13, <2>2
<1>14. CASE ~(met < ag.qty) BY <1>3, <1>4, <1>7, <1>9, <1>10, <1>12, <1>14
<1> QED BY <1>13, <1>14

(* The book a call begins with is good, its order is an order.             *)
LEMMA CallFacts ==
  ASSUME startBook \in StartBooks, aggressor \in Aggressors, limitTicks \in Limits
  PROVE  /\ Good(startBook) /\ IsBook(startBook)
         /\ aggressor.side \in Sides /\ aggressor.qty \in Nat /\ aggressor.qty # 0
         /\ Resting = Opposite(aggressor.side) /\ Resting \in Sides
         /\ limitTicks \in Nat
<1>1. Good(startBook) BY StartAssumption DEF Good
<1>2. aggressor \in Order /\ limitTicks \in Nat BY CallAssumption
<1>3. aggressor.side \in Sides /\ aggressor.qty \in Nat /\ aggressor.qty # 0 BY <1>2 DEF Order, Lots
<1> QED BY <1>1, <1>2, <1>3, SidesFacts DEF Good, Resting

LEMMA LoopInvInit == LoopInit => LoopInv
<1> SUFFICES ASSUME LoopInit PROVE LoopInv OBVIOUS
<1>1. /\ Good(startBook) /\ IsBook(startBook) /\ aggressor.side \in Sides
      /\ aggressor.qty \in Nat /\ aggressor.qty # 0
      /\ Resting = Opposite(aggressor.side) /\ Resting \in Sides
  BY CallFacts DEF LoopInit
<1>2. PICK lv : lv = startBook.levels[Resting] OBVIOUS
<1>3. pc = "levels" /\ unlooked = DOMAIN lv /\ LevelsLeft = DOMAIN lv
  BY <1>2 DEF LoopInit, LevelsLeft
<1>4. Met = {}
  <2>1. \A x \in Positions(startBook, Resting) : x[1] \in DOMAIN lv BY <1>1, <1>2, PositionType
  <2> QED BY <1>3, <2>1 DEF Met
<1>5. CallOK /\ BestFirst /\ LevelOK BY <1>2, <1>3 DEF LoopInit, CallOK, BestFirst, LevelOK
<1>6. Counted
  <2>1. Cardinality({}) = 0 BY FS_EmptySet
  <2>2. LotsAt(startBook, Opposite(aggressor.side), {}) = {} BY DEF LotsAt
  <2>3. Quantity(startBook, Opposite(aggressor.side), {}) = 0 BY <2>1, <2>2 DEF Quantity
  <2>4. LeftOver(startBook, aggressor, {}) = aggressor.qty BY <1>1, <2>3 DEF LeftOver
  <2>5. PICK es : es = MatchEvents(startBook, aggressor, limitTicks) OBVIOUS
  <2>6. {} \cap Fills(startBook, aggressor, limitTicks) = {} OBVIOUS
  <2>7. EventsOf(startBook, aggressor, limitTicks, {}) = [i \in 1..0 |-> es[i]]
    BY <2>1, <2>5, <2>6 DEF EventsOf
  <2>8. [i \in 1..0 |-> es[i]] = <<>> OBVIOUS
  <2> QED BY <1>4, <2>4, <2>7, <2>8 DEF LoopInit, Counted
<1>7. book = BookSoFar(startBook, aggressor, limitTicks, LevelsLeft, Met)
  <2>1. PICK none : none = {} OBVIOUS
  <2>2. FilledBook(startBook, aggressor, limitTicks, none) = startBook BY <1>1, <2>1, NothingFilled
  <2>3. startBook.orders = FilledIndex(startBook, aggressor, limitTicks, none) BY <2>2 DEF FilledBook
  <2>4. [startBook.levels EXCEPT ![Opposite(aggressor.side)] =
           HalfMatched(startBook, aggressor, limitTicks, DOMAIN startBook.levels[Opposite(aggressor.side)])]
          = startBook.levels
    BY <1>1, HalfMatchedStart
  <2>5. LevelsLeft = DOMAIN startBook.levels[Opposite(aggressor.side)] /\ Met = none
    BY <1>1, <1>2, <1>3, <1>4, <2>1
  <2>6. startBook = [levels |-> startBook.levels, orders |-> startBook.orders] BY <1>1 DEF IsBook
  <2>7. book = startBook BY DEF LoopInit
  <2> QED BY <2>3, <2>4, <2>5, <2>6, <2>7 DEF BookSoFar
<1> QED BY <1>5, <1>6, <1>7 DEF LoopInv

(* The queue that is walked is still that of the book the call began with. *)
LEMMA WalkedLevel ==
  ASSUME LoopInv, pc = "queue"
  PROVE  LevelQueue = startBook.levels[Resting][levelPrice]
<1>1. /\ IsBook(startBook) /\ Resting \in Sides /\ Resting = Opposite(aggressor.side)
  BY CallFacts DEF LoopInv, CallOK
<1>2. PICK H : H = HalfMatched(startBook, aggressor, limitTicks, LevelsLeft) OBVIOUS
<1>3. book.levels = [startBook.levels EXCEPT ![Resting] = H] BY <1>1, <1>2 DEF LoopInv, BookSoFar
<1>4. book.levels[Resting] = H BY <1>1, <1>3 DEF IsBook
<1>5. levelPrice \in LevelsLeft /\ levelPrice \in DOMAIN startBook.levels[Resting]
  BY DEF LoopInv, LevelOK, LevelsLeft
<1>6. H[levelPrice] = startBook.levels[Resting][levelPrice] BY <1>1, <1>2, <1>5 DEF HalfMatched
<1> QED BY <1>4, <1>6 DEF LevelQueue

(* What has been met is what is ahead of the next order of that queue.     *)
LEMMA NextMet ==
  ASSUME LoopInv, pc = "queue", walked < Len(LevelQueue)
  PROVE  LET x == <<levelPrice, walked + 1>>
         IN  /\ walked \in 0..(Len(startBook.levels[Resting][levelPrice]) - 1)
             /\ x \in Positions(startBook, Resting)
             /\ OrderAt(startBook, Resting, x) = LevelQueue[walked + 1]
             /\ Met = PositionsAhead(startBook, Resting, x)
             /\ Crosses(aggressor.side, x[1], limitTicks)
<1>1. Good(startBook) /\ IsBook(startBook) /\ Resting \in Sides BY CallFacts DEF LoopInv, CallOK
<1>2. PICK queue : queue = startBook.levels[Resting][levelPrice] OBVIOUS
<1>3. LevelQueue = queue BY <1>2, WalkedLevel
<1>4. /\ levelPrice \in DOMAIN startBook.levels[Resting] \ unlooked
      /\ walked \in 0..Len(queue)
      /\ \A p \in DOMAIN startBook.levels[Resting] \ LevelsLeft : Ahead(Resting, p, levelPrice)
  BY <1>2 DEF LoopInv, LevelOK
<1>5. Len(queue) \in Nat BY <1>1, <1>2, <1>4, BookType
<1>6. walked \in 0..(Len(queue) - 1) /\ walked + 1 \in 1..Len(queue) BY <1>3, <1>4, <1>5
<1>7. PICK x : x = <<levelPrice, walked + 1>> OBVIOUS
<1>8. x \in Positions(startBook, Resting) /\ OrderAt(startBook, Resting, x) = queue[walked + 1]
  BY <1>1, <1>2, <1>4, <1>6, <1>7, PositionOfIndex DEF OrderAt
<1>9. ASSUME NEW y \in Positions(startBook, Resting)
      PROVE  y \in Met <=> Ahead(Resting, y[1], x[1]) \/ (y[1] = x[1] /\ y[2] < x[2])
  <2>1. y[1] \in DOMAIN startBook.levels[Resting] /\ y[1] \in Nat /\ y[2] \in Nat /\ levelPrice \in Nat
    <3>1. y[1] \in DOMAIN startBook.levels[Resting] /\ y[1] \in Prices
          /\ y[2] \in 1..Len(startBook.levels[Resting][y[1]])
      BY <1>1, PositionType
    <3>2. levelPrice \in Prices BY <1>1, <1>4, BookType
    <3>3. y[2] \in Nat BY <3>1
    <3>4. Prices \subseteq Nat BY PricesAssumption
    <3> QED BY <3>1, <3>2, <3>3, <3>4
  <2>2. y[1] \in unlooked => Ahead(Resting, levelPrice, y[1])
    BY <1>4 DEF LoopInv, BestFirst
  <2>3. LevelsLeft = unlooked \cup {levelPrice} BY DEF LevelsLeft
  <2>4. y \in Met <=> y[1] \notin LevelsLeft \/ (y[1] = levelPrice /\ y[2] <= walked) BY DEF Met
  <2>5. y[2] <= walked <=> y[2] < walked + 1 BY <1>6, <2>1
  <2>6. y[1] \notin LevelsLeft <=> Ahead(Resting, y[1], levelPrice)
    <3>1. y[1] \notin LevelsLeft => Ahead(Resting, y[1], levelPrice) BY <1>4, <2>1
    <3>2. y[1] \in LevelsLeft => ~Ahead(Resting, y[1], levelPrice) BY <2>1, <2>2, <2>3 DEF Ahead
    <3> QED BY <3>1, <3>2
  <2>7. x[1] = levelPrice /\ x[2] = walked + 1 BY <1>7
  <2> QED BY <2>4, <2>5, <2>6, <2>7
<1>10. Met = PositionsAhead(startBook, Resting, x)
  <2>1. Met \in SUBSET Positions(startBook, Resting) BY DEF Met
  <2> QED BY <1>9, <2>1 DEF PositionsAhead
<1>11. Crosses(aggressor.side, x[1], limitTicks)
  <2>1. x[1] = levelPrice BY <1>7
  <2> QED BY <1>4, <2>1 DEF LoopInv, BestFirst
<1> QED BY <1>2, <1>3, <1>6, <1>7, <1>8, <1>10, <1>11

(* One order further in the queue.                                         *)
LEMMA OneFurther ==
  ASSUME LoopInv, pc = "queue", walked < Len(LevelQueue),
         pc' = pc, UNCHANGED <<call, unlooked, levelPrice>>, walked' = walked + 1
  PROVE  /\ CallOK' /\ BestFirst' /\ LevelsLeft' = LevelsLeft
         /\ Met' = Met \cup {<<levelPrice, walked + 1>>}
         /\ updatedQueue' = KeptUpTo(startBook, aggressor, limitTicks, levelPrice, walked + 1) => LevelOK'
<1>1. /\ startBook' = startBook /\ aggressor' = aggressor /\ limitTicks' = limitTicks
      /\ unlooked' = unlooked /\ levelPrice' = levelPrice /\ pc' = "queue"
  BY DEF call
<1>2. Resting' = Resting BY <1>1 DEF Resting
<1>3. LevelsLeft' = LevelsLeft BY <1>1 DEF LevelsLeft
<1>4. CallOK' BY <1>1, <1>2 DEF LoopInv, CallOK
<1>5. BestFirst'
  <2>1. \A p \in DOMAIN startBook.levels[Resting] \ unlooked :
           Crosses(aggressor.side, p, limitTicks) /\ \A q \in unlooked : Ahead(Resting, p, q)
    BY DEF LoopInv, BestFirst
  <2>2. pc' # "done" BY <1>1
  <2> QED BY <1>1, <1>2, <2>1, <2>2 DEF BestFirst
<1>6. Good(startBook) /\ Resting \in Sides BY CallFacts DEF LoopInv, CallOK
<1>7. PICK x : x = <<levelPrice, walked + 1>> OBVIOUS
<1>8. /\ walked \in 0..(Len(startBook.levels[Resting][levelPrice]) - 1)
      /\ x \in Positions(startBook, Resting)
  BY <1>7, NextMet
<1>9. levelPrice \in DOMAIN startBook.levels[Resting] \ unlooked
  BY DEF LoopInv, LevelOK
<1>10. Met' = Met \cup {x}
  <2>1. ASSUME NEW y \in Positions(startBook, Resting)
        PROVE  (y[1] = levelPrice /\ y[2] <= walked + 1) <=> (y[1] = levelPrice /\ y[2] <= walked) \/ y = x
    <3>1. y = <<y[1], y[2]>> /\ y[2] \in 1..Len(startBook.levels[Resting][y[1]]) BY <1>6, PositionType
    <3>2. y[2] \in Nat BY <3>1
    <3>3. y = x <=> y[1] = levelPrice /\ y[2] = walked + 1 BY <1>7, <3>1
    <3> QED BY <1>8, <3>2, <3>3
  <2>2. Met' = {y \in Positions(startBook, Resting) :
                  y[1] \notin LevelsLeft \/ (y[1] = levelPrice /\ y[2] <= walked + 1)}
    BY <1>1, <1>2, <1>3 DEF Met
  <2>3. Met = {y \in Positions(startBook, Resting) :
                 y[1] \notin LevelsLeft \/ (y[1] = levelPrice /\ y[2] <= walked)}
    BY DEF Met
  <2> QED BY <1>8, <2>1, <2>2, <2>3
<1>11. updatedQueue' = KeptUpTo(startBook, aggressor, limitTicks, levelPrice, walked + 1) => LevelOK'
  <2>1. Len(startBook.levels[Resting][levelPrice]) \in Nat
    <3>1. IsBook(startBook) BY <1>6 DEF Good
    <3> QED BY <1>6, <1>9, <3>1, BookType
  <2>2. walked + 1 \in 0..Len(startBook.levels[Resting][levelPrice]) BY <1>8, <2>1
  <2>3. \A p \in DOMAIN startBook.levels[Resting] \ LevelsLeft : Ahead(Resting, p, levelPrice)
    BY DEF LoopInv, LevelOK
  <2> QED BY <1>1, <1>2, <1>3, <1>9, <2>2, <2>3 DEF LevelOK
<1> QED BY <1>3, <1>4, <1>5, <1>7, <1>10, <1>11

LEMMA GoneFromType ==
  ASSUME NEW b, Good(b), NEW ag, ag.side \in Sides, NEW limit,
         NEW p \in DOMAIN b.levels[Opposite(ag.side)]
  PROVE  GoneFrom(b, ag, limit, p) \in Nat
<1>1. PICK s \in Sides : s = Opposite(ag.side) BY SidesFacts
<1>2. IsBook(b) BY DEF Good
<1>3. PICK len \in Nat : len = Len(b.levels[s][p]) BY <1>1, <1>2, BookType
<1>4. PICK used : used = {i \in 1..len : UsedUp(b, ag, limit, <<p, i>>)} OBVIOUS
<1>5. IsFiniteSet(1..len) /\ used \subseteq 1..len BY <1>4, FS_Interval
<1>6. Cardinality(used) \in Nat BY <1>5, FS_Subset, FS_CardinalityType
<1> QED BY <1>1, <1>3, <1>4, <1>6 DEF GoneFrom

(* A level is entered: nothing has been met of it.                         *)
LEMMA EnterKeeps == LoopInv /\ EnterLevel => LoopInv'
<1> SUFFICES ASSUME LoopInv, EnterLevel PROVE LoopInv' OBVIOUS
<1>1. PICK p \in unlooked :
         /\ NextPrice(p) /\ Crosses(aggressor.side, p, limitTicks)
         /\ levelPrice' = p /\ unlooked' = unlooked \ {p}
  BY DEF EnterLevel
<1>2. /\ startBook' = startBook /\ aggressor' = aggressor /\ limitTicks' = limitTicks
      /\ pc = "levels" /\ pc' = "queue" /\ walked' = 0 /\ updatedQueue' = <<>>
      /\ book' = book /\ remaining' = remaining /\ executions' = executions
  BY DEF EnterLevel, call
<1>3. Resting' = Resting BY <1>2 DEF Resting
<1>4. Good(startBook) /\ IsBook(startBook) /\ aggressor.side \in Sides
      /\ Resting \in Sides /\ Resting = Opposite(aggressor.side)
  BY CallFacts DEF LoopInv, CallOK
<1>5. LevelsLeft = unlooked /\ LevelsLeft' = unlooked BY <1>1, <1>2 DEF LevelsLeft
<1>6. Met' = Met
  <2>1. Met' = {y \in Positions(startBook, Resting) : y[1] \notin unlooked \/ (y[1] = p /\ y[2] <= 0)}
    BY <1>1, <1>2, <1>3, <1>5 DEF Met
  <2>2. Met = {y \in Positions(startBook, Resting) : y[1] \notin unlooked} BY <1>2, <1>5 DEF Met
  <2>3. ASSUME NEW y \in Positions(startBook, Resting) PROVE ~(y[2] <= 0)
    <3>1. y[2] \in 1..Len(startBook.levels[Resting][y[1]]) BY <1>4, PositionType
    <3> QED BY <3>1
  <2> QED BY <2>1, <2>2, <2>3
<1>7. unlooked \subseteq DOMAIN startBook.levels[Resting] BY DEF LoopInv, CallOK
<1>8. CallOK' BY <1>1, <1>2, <1>3, <1>7 DEF LoopInv, CallOK
<1>9. \A q \in DOMAIN startBook.levels[Resting] \ unlooked :
         Crosses(aggressor.side, q, limitTicks) /\ \A r \in unlooked : Ahead(Resting, q, r)
  BY DEF LoopInv, BestFirst
<1>10. BestFirst'
  <2>1. \A q \in DOMAIN startBook.levels[Resting] \ (unlooked \ {p}) :
           Crosses(aggressor.side, q, limitTicks) /\ \A r \in unlooked \ {p} : Ahead(Resting, q, r)
    BY <1>1, <1>9 DEF NextPrice
  <2>2. pc' # "done" BY <1>2
  <2> QED BY <1>1, <1>2, <1>3, <2>1, <2>2 DEF BestFirst
<1>11. LevelOK'
  <2>1. KeptUpTo(startBook, aggressor, limitTicks, p, 0) = <<>>
    <3>1. PICK gone \in Nat : gone = GoneFrom(startBook, aggressor, limitTicks, p)
      BY <1>1, <1>4, <1>7, GoneFromType
    <3>2. 1..(0 - gone) = {} OBVIOUS
    <3>3. KeptUpTo(startBook, aggressor, limitTicks, p, 0)
            = [i \in {} |-> AfterFill(startBook, aggressor, limitTicks, <<p, i + gone>>)]
      BY <3>1, <3>2 DEF KeptUpTo
    <3> QED BY <3>3
  <2>2. 0 \in 0..Len(startBook.levels[Resting][p])
    <3>1. Len(startBook.levels[Resting][p]) \in Nat BY <1>1, <1>4, <1>7, BookType
    <3> QED BY <3>1
  <2>3. p \in DOMAIN startBook.levels[Resting] \ (unlooked \ {p}) BY <1>1, <1>7
  <2>4. \A q \in DOMAIN startBook.levels[Resting] \ unlooked : Ahead(Resting, q, p) BY <1>1, <1>9
  <2> QED BY <1>1, <1>2, <1>3, <1>5, <2>1, <2>2, <2>3, <2>4 DEF LevelOK
<1>12. Counted' BY <1>2, <1>6 DEF LoopInv, Counted
<1>13. book' = BookSoFar(startBook', aggressor', limitTicks', LevelsLeft', Met')
  BY <1>2, <1>5, <1>6 DEF LoopInv
<1> QED BY <1>8, <1>10, <1>11, <1>12, <1>13 DEF LoopInv

(* The loop over the prices ends: no price that is left crosses, or        *)
(* nothing of the aggressor is left.                                       *)
LEMMA StopKeeps == LoopInv /\ Stop => LoopInv'
<1> SUFFICES ASSUME LoopInv, Stop PROVE LoopInv' OBVIOUS
<1>1. /\ startBook' = startBook /\ aggressor' = aggressor /\ limitTicks' = limitTicks
      /\ pc = "levels" /\ pc' = "done" /\ unlooked' = unlooked
      /\ book' = book /\ remaining' = remaining /\ executions' = executions
  BY DEF Stop, call
<1>2. Resting' = Resting BY <1>1 DEF Resting
<1>3. IsBook(startBook) /\ aggressor.side \in Sides /\ limitTicks \in Nat
      /\ Resting \in Sides /\ Resting = Opposite(aggressor.side)
  BY CallFacts DEF LoopInv, CallOK
<1>4. LevelsLeft = unlooked /\ LevelsLeft' = unlooked BY <1>1 DEF LevelsLeft
<1>5. Met' = Met BY <1>1, <1>2, <1>4 DEF Met
<1>6. CallOK' BY <1>1, <1>2 DEF LoopInv, CallOK
<1>7. remaining = 0 \/ \A q \in unlooked : ~Crosses(aggressor.side, q, limitTicks)
  <2>1. CASE unlooked = {} BY <2>1
  <2>2. ASSUME NEW p \in unlooked, NextPrice(p), ~Crosses(aggressor.side, p, limitTicks),
               NEW q \in unlooked
        PROVE  ~Crosses(aggressor.side, q, limitTicks)
    <3>1. p \in Nat /\ q \in Nat
      <4>1. p \in Prices /\ q \in Prices BY <1>3, BookType DEF LoopInv, CallOK
      <4> QED BY <4>1, PricesAssumption
    <3>2. p = q \/ Ahead(Resting, p, q) BY <2>2 DEF NextPrice
    <3>3. aggressor.side = "buy" \/ aggressor.side = "sell" BY <1>3, SidesFacts
    <3> QED BY <1>3, <2>2, <3>1, <3>2, <3>3 DEF Ahead, Crosses, Opposite
  <2>3. CASE \E p \in unlooked : NextPrice(p) /\ ~Crosses(aggressor.side, p, limitTicks)
    BY <2>2, <2>3
  <2> QED BY <2>1, <2>3 DEF Stop
<1>8. BestFirst' BY <1>1, <1>2, <1>7 DEF LoopInv, BestFirst
<1>9. LevelOK' BY <1>1 DEF LevelOK
<1>10. Counted' BY <1>1, <1>5 DEF LoopInv, Counted
<1>11. book' = BookSoFar(startBook', aggressor', limitTicks', LevelsLeft', Met')
  BY <1>1, <1>4, <1>5 DEF LoopInv
<1> QED BY <1>6, <1>8, <1>9, <1>10, <1>11 DEF LoopInv

(* An order behind the last fill stays as it is.                           *)
LEMMA KeepKeeps == LoopInv /\ KeepOrder => LoopInv'
<1> SUFFICES ASSUME LoopInv, KeepOrder PROVE LoopInv' OBVIOUS
<1>1. /\ pc = "queue" /\ walked < Len(LevelQueue) /\ remaining = 0
      /\ pc' = pc /\ UNCHANGED <<call, unlooked, levelPrice>> /\ walked' = walked + 1
      /\ updatedQueue' = Append(updatedQueue, LevelQueue[walked + 1])
      /\ book' = book /\ remaining' = remaining /\ executions' = executions
  BY DEF KeepOrder
<1>2. startBook' = startBook /\ aggressor' = aggressor /\ limitTicks' = limitTicks BY <1>1 DEF call
<1>3. PICK x : x = <<levelPrice, walked + 1>> OBVIOUS
<1>4. /\ CallOK' /\ BestFirst' /\ LevelsLeft' = LevelsLeft /\ Met' = Met \cup {x}
      /\ updatedQueue' = KeptUpTo(startBook, aggressor, limitTicks, levelPrice, walked + 1) => LevelOK'
  BY <1>1, <1>3, OneFurther
<1>5. PICK b : b = startBook OBVIOUS
<1>6. PICK ag : ag = aggressor OBVIOUS
<1>7. PICK limit : limit = limitTicks OBVIOUS
<1>8. Good(b) /\ ag.side \in Sides /\ ag.qty \in Nat /\ Resting = Opposite(ag.side)
  BY <1>5, <1>6, CallFacts DEF LoopInv, CallOK
<1>9. PICK D : D = Met OBVIOUS
<1>10. /\ walked \in 0..(Len(b.levels[Opposite(ag.side)][levelPrice]) - 1)
       /\ x \in Positions(b, Opposite(ag.side)) /\ D = PositionsAhead(b, Opposite(ag.side), x)
       /\ OrderAt(b, Opposite(ag.side), x) = LevelQueue[walked + 1]
       /\ Crosses(ag.side, x[1], limit)
  BY <1>1, <1>3, <1>5, <1>6, <1>7, <1>8, <1>9, NextMet
<1>11. PICK o : o = OrderAt(b, Opposite(ag.side), x) OBVIOUS
<1>12. remaining = LeftOver(b, ag, D) /\ executions = EventsOf(b, ag, limit, D)
  BY <1>5, <1>6, <1>7, <1>9 DEF LoopInv, Counted
<1>13. Traded(b, ag, limit, x) = 0 /\ LeftOver(b, ag, D \cup {x}) = 0
  <2>1. x \in Positions(b, Opposite(ag.side)) /\ D = PositionsAhead(b, Opposite(ag.side), x) BY <1>10
  <2>2. Crosses(ag.side, x[1], limit) BY <1>10
  <2>3. LET qty == OrderAt(b, Opposite(ag.side), x).qty
            left == LeftOver(b, ag, D)
        IN  /\ left \in Nat /\ qty \in Lots
            /\ Traded(b, ag, limit, x) = IF left < qty THEN left ELSE qty
            /\ LeftOver(b, ag, D \cup {x}) = left - Traded(b, ag, limit, x)
    BY <1>8, <2>1, <2>2, NextRemains
  <2>4. LeftOver(b, ag, D) = 0 BY <1>1, <1>12
  <2> QED BY <2>3, <2>4 DEF Lots
<1>14. ~(Traded(b, ag, limit, x) > 0) BY <1>13
<1>15. EventsOf(b, ag, limit, D \cup {x}) = EventsOf(b, ag, limit, D) BY <1>8, <1>10, <1>14, NextEvent
<1>16. AfterFill(b, ag, limit, x) = o /\ ~UsedUp(b, ag, limit, x)
  BY <1>8, <1>10, <1>11, <1>14, UntradedStays
<1>17. FilledIndex(b, ag, limit, D \cup {x}) = FilledIndex(b, ag, limit, D)
  <2>1. PICK orders : orders = FilledIndex(b, ag, limit, D) OBVIOUS
  <2>2. D \in SUBSET Positions(b, Opposite(ag.side)) /\ x \notin D
    BY <1>8, <1>10, SidesFacts, AheadIsAnOrder
  <2>3. /\ o.id \in DOMAIN orders /\ orders[o.id] = o
        /\ FilledIndex(b, ag, limit, D \cup {x}) = PutOrder(orders, o)
    <3>1. x \in Positions(b, Opposite(ag.side)) BY <1>10
    <3>2. LET u == OrderAt(b, Opposite(ag.side), x)
              now == FilledIndex(b, ag, limit, D)
              next == FilledIndex(b, ag, limit, D \cup {x})
          IN  /\ u.id \in DOMAIN now /\ now[u.id] = u
              /\ ~UsedUp(b, ag, limit, x) => next = PutOrder(now, AfterFill(b, ag, limit, x))
      BY <1>8, <2>2, <3>1, FilledNext
    <3> QED BY <1>11, <1>16, <2>1, <3>2
  <2>4. orders = [i \in DOMAIN orders |-> orders[i]] BY <2>1 DEF FilledIndex
  <2>5. DOMAIN orders \cup {o.id} = DOMAIN orders BY <2>3
  <2>6. PutOrder(orders, o) = [i \in DOMAIN orders |-> IF i = o.id THEN o ELSE orders[i]]
    BY <2>5 DEF PutOrder
  <2>7. PutOrder(orders, o) = orders BY <2>3, <2>4, <2>6
  <2> QED BY <2>1, <2>3, <2>7
<1>18. LevelOK'
  <2>1. updatedQueue = KeptUpTo(b, ag, limit, levelPrice, walked) /\ levelPrice \in DOMAIN b.levels[Opposite(ag.side)]
    BY <1>1, <1>5, <1>6, <1>7, <1>8 DEF LoopInv, LevelOK
  <2>2. KeptUpTo(b, ag, limit, levelPrice, walked + 1)
          = Append(KeptUpTo(b, ag, limit, levelPrice, walked), AfterFill(b, ag, limit, x))
    BY <1>3, <1>8, <1>10, <1>16, <2>1, KeptNext
  <2>3. updatedQueue' = KeptUpTo(b, ag, limit, levelPrice, walked + 1)
    BY <1>1, <1>10, <1>11, <1>16, <2>1, <2>2
  <2> QED BY <1>4, <1>5, <1>6, <1>7, <2>3
<1>19. Counted' BY <1>1, <1>2, <1>4, <1>5, <1>6, <1>7, <1>9, <1>12, <1>13, <1>15 DEF Counted
<1>20. book' = BookSoFar(startBook', aggressor', limitTicks', LevelsLeft', Met')
  <2>1. book = BookSoFar(b, ag, limit, LevelsLeft, D) BY <1>5, <1>6, <1>7, <1>9 DEF LoopInv
  <2>2. BookSoFar(b, ag, limit, LevelsLeft, D \cup {x}) = BookSoFar(b, ag, limit, LevelsLeft, D)
    BY <1>17 DEF BookSoFar
  <2> QED BY <1>1, <1>2, <1>4, <1>5, <1>6, <1>7, <1>9, <2>1, <2>2
<1> QED BY <1>4, <1>18, <1>19, <1>20 DEF LoopInv

(* An order is filled, in part or until nothing of it is left.             *)
LEMMA FillKeeps == LoopInv /\ FillOrder => LoopInv'
<1> SUFFICES ASSUME LoopInv, FillOrder PROVE LoopInv' OBVIOUS
<1>1. PICK o : o = LevelQueue[walked + 1] OBVIOUS
<1>2. PICK traded : traded = IF remaining < o.qty THEN remaining ELSE o.qty OBVIOUS
<1>3. PICK left : left = [o EXCEPT !.qty = o.qty - traded] OBVIOUS
<1>4. /\ pc = "queue" /\ walked < Len(LevelQueue) /\ remaining # 0
      /\ pc' = pc /\ UNCHANGED <<call, unlooked, levelPrice>> /\ walked' = walked + 1
      /\ remaining' = remaining - traded
      /\ executions' = Append(executions, ExecuteEvent(o, traded))
      /\ \/ /\ left.qty = 0 /\ updatedQueue' = updatedQueue
            /\ book' = [book EXCEPT !.orders = DropOrder(book.orders, o.id)]
         \/ /\ left.qty # 0 /\ updatedQueue' = Append(updatedQueue, left)
            /\ book' = [book EXCEPT !.orders = PutOrder(book.orders, left)]
  BY <1>1, <1>2, <1>3 DEF FillOrder
<1>5. startBook' = startBook /\ aggressor' = aggressor /\ limitTicks' = limitTicks BY <1>4 DEF call
<1>6. PICK x : x = <<levelPrice, walked + 1>> OBVIOUS
<1>7. /\ CallOK' /\ BestFirst' /\ LevelsLeft' = LevelsLeft /\ Met' = Met \cup {x}
      /\ updatedQueue' = KeptUpTo(startBook, aggressor, limitTicks, levelPrice, walked + 1) => LevelOK'
  BY <1>4, <1>6, OneFurther
<1>8. PICK b : b = startBook OBVIOUS
<1>9. PICK ag : ag = aggressor OBVIOUS
<1>10. PICK limit : limit = limitTicks OBVIOUS
<1>11. Good(b) /\ ag.side \in Sides /\ ag.qty \in Nat /\ Resting = Opposite(ag.side)
  BY <1>8, <1>9, CallFacts DEF LoopInv, CallOK
<1>12. PICK D : D = Met OBVIOUS
<1>13. /\ walked \in 0..(Len(b.levels[Opposite(ag.side)][levelPrice]) - 1)
       /\ x \in Positions(b, Opposite(ag.side)) /\ D = PositionsAhead(b, Opposite(ag.side), x)
       /\ OrderAt(b, Opposite(ag.side), x) = o
       /\ Crosses(ag.side, x[1], limit)
  BY <1>1, <1>4, <1>6, <1>8, <1>9, <1>10, <1>11, <1>12, NextMet
<1>14. x \in Positions(b, Opposite(ag.side)) /\ D = PositionsAhead(b, Opposite(ag.side), x) BY <1>13
<1>15. remaining = LeftOver(b, ag, D) /\ executions = EventsOf(b, ag, limit, D)
  BY <1>8, <1>9, <1>10, <1>12 DEF LoopInv, Counted
<1>16. o \in Order
  <2>1. OrderAt(b, Opposite(ag.side), x) \in Order BY <1>11, <1>14, SidesFacts, PositionType
  <2> QED BY <1>13, <2>1
<1>17. o.qty \in Nat /\ o.qty > 0 BY <1>16 DEF Order, Lots
<1>18. /\ remaining \in Nat
       /\ Traded(b, ag, limit, x) = traded
       /\ LeftOver(b, ag, D \cup {x}) = remaining - traded
  <2>1. Crosses(ag.side, x[1], limit) BY <1>13
  <2>2. LET qty == OrderAt(b, Opposite(ag.side), x).qty
            rest == LeftOver(b, ag, D)
        IN  /\ rest \in Nat /\ qty \in Lots
            /\ Traded(b, ag, limit, x) = IF rest < qty THEN rest ELSE qty
            /\ LeftOver(b, ag, D \cup {x}) = rest - Traded(b, ag, limit, x)
    BY <1>11, <1>14, <2>1, NextRemains
  <2> QED BY <1>2, <1>13, <1>15, <2>2
<1>19. traded > 0 /\ traded \in 0..o.qty BY <1>2, <1>4, <1>17, <1>18
<1>20. EventsOf(b, ag, limit, D \cup {x}) = Append(EventsOf(b, ag, limit, D), ExecuteEvent(o, traded))
  <2>1. Traded(b, ag, limit, x) > 0 BY <1>18, <1>19
  <2>2. EventsOf(b, ag, limit, D \cup {x}) =
          Append(EventsOf(b, ag, limit, D),
                 ExecuteEvent(OrderAt(b, Opposite(ag.side), x), Traded(b, ag, limit, x)))
    BY <1>11, <1>14, <2>1, NextEvent
  <2> QED BY <1>13, <1>18, <2>2
<1>21. AfterFill(b, ag, limit, x) = left /\ left.qty = o.qty - traded /\ left.id = o.id
  <2>1. AfterFill(b, ag, limit, x) = left BY <1>3, <1>13, <1>18 DEF AfterFill
  <2> QED BY <1>3, <1>16, <2>1 DEF Order
<1>22. UsedUp(b, ag, limit, x) <=> left.qty = 0
  <2>1. UsedUp(b, ag, limit, x) <=> traded = o.qty BY <1>13, <1>18 DEF UsedUp
  <2> QED BY <1>17, <1>19, <1>21, <2>1
<1>23. PICK orders : orders = FilledIndex(b, ag, limit, D) OBVIOUS
<1>24. PICK next : next = FilledIndex(b, ag, limit, D \cup {x}) OBVIOUS
<1>25. /\ left.qty = 0 => next = DropOrder(orders, o.id)
       /\ left.qty # 0 => next = PutOrder(orders, left)
  <2>1. D \in SUBSET Positions(b, Opposite(ag.side)) /\ x \notin D
    BY <1>11, <1>14, SidesFacts, AheadIsAnOrder
  <2>2. x \in Positions(b, Opposite(ag.side)) BY <1>14
  <2>3. LET u == OrderAt(b, Opposite(ag.side), x)
            now == FilledIndex(b, ag, limit, D)
            then == FilledIndex(b, ag, limit, D \cup {x})
        IN  /\ UsedUp(b, ag, limit, x) => then = DropOrder(now, u.id)
            /\ ~UsedUp(b, ag, limit, x) => then = PutOrder(now, AfterFill(b, ag, limit, x))
    BY <1>11, <2>1, <2>2, FilledNext
  <2> QED BY <1>13, <1>21, <1>22, <1>23, <1>24, <2>3
<1>26. LevelOK'
  <2>1. /\ updatedQueue = KeptUpTo(b, ag, limit, levelPrice, walked)
        /\ levelPrice \in DOMAIN b.levels[Opposite(ag.side)]
    BY <1>4, <1>8, <1>9, <1>10, <1>11 DEF LoopInv, LevelOK
  <2>2. walked \in 0..(Len(b.levels[Opposite(ag.side)][levelPrice]) - 1) BY <1>13
  <2>3. LET kept == KeptUpTo(b, ag, limit, levelPrice, walked)
            then == KeptUpTo(b, ag, limit, levelPrice, walked + 1)
            y == <<levelPrice, walked + 1>>
        IN  /\ UsedUp(b, ag, limit, y) => then = kept
            /\ ~UsedUp(b, ag, limit, y) => then = Append(kept, AfterFill(b, ag, limit, y))
    BY <1>11, <2>1, <2>2, KeptNext
  <2>4. updatedQueue' = KeptUpTo(b, ag, limit, levelPrice, walked + 1)
    BY <1>4, <1>6, <1>21, <1>22, <2>1, <2>3
  <2> QED BY <1>7, <1>8, <1>9, <1>10, <2>4
<1>27. Counted'
  BY <1>4, <1>5, <1>7, <1>8, <1>9, <1>10, <1>12, <1>15, <1>18, <1>20 DEF Counted
<1>28. book' = BookSoFar(startBook', aggressor', limitTicks', LevelsLeft', Met')
  <2>1. PICK levels : levels = [b.levels EXCEPT ![Opposite(ag.side)] = HalfMatched(b, ag, limit, LevelsLeft)]
    OBVIOUS
  <2>2. book = [levels |-> levels, orders |-> orders]
    BY <1>8, <1>9, <1>10, <1>12, <1>23, <2>1 DEF LoopInv, BookSoFar
  <2>3. book' = [levels |-> levels, orders |-> next] BY <1>4, <1>25, <2>2
  <2>4. BookSoFar(b, ag, limit, LevelsLeft, D \cup {x}) = [levels |-> levels, orders |-> next]
    BY <1>24, <2>1 DEF BookSoFar
  <2> QED BY <1>5, <1>7, <1>8, <1>9, <1>10, <1>12, <2>3, <2>4
<1> QED BY <1>7, <1>26, <1>27, <1>28 DEF LoopInv

(* A level is left: its queue is replaced.                                 *)
LEMMA LeaveKeeps == LoopInv /\ LeaveLevel => LoopInv'
<1> SUFFICES ASSUME LoopInv, LeaveLevel PROVE LoopInv' OBVIOUS
<1>1. /\ pc = "queue" /\ walked = Len(LevelQueue) /\ pc' = "levels"
      /\ book' = SetQueue(book, Resting, levelPrice, updatedQueue, book.orders)
      /\ startBook' = startBook /\ aggressor' = aggressor /\ limitTicks' = limitTicks
      /\ unlooked' = unlooked /\ remaining' = remaining /\ executions' = executions
  BY DEF LeaveLevel, call
<1>2. Resting' = Resting BY <1>1 DEF Resting
<1>3. PICK b : b = startBook OBVIOUS
<1>4. PICK ag : ag = aggressor OBVIOUS
<1>5. PICK limit : limit = limitTicks OBVIOUS
<1>6. PICK p : p = levelPrice OBVIOUS
<1>7. Good(b) /\ IsBook(b) /\ Resting \in Sides /\ Resting = Opposite(ag.side)
  BY <1>3, <1>4, CallFacts DEF LoopInv, CallOK
<1>8. PICK queue : queue = b.levels[Resting][p] OBVIOUS
<1>9. /\ p \in DOMAIN b.levels[Resting] /\ p \notin unlooked
      /\ updatedQueue = KeptUpTo(b, ag, limit, p, walked)
  BY <1>1, <1>3, <1>4, <1>5, <1>6 DEF LoopInv, LevelOK
<1>10. walked = Len(queue) BY <1>1, <1>3, <1>6, <1>8, WalkedLevel
<1>11. updatedQueue = QueueAfter(b, ag, limit, p)
  BY <1>7, <1>8, <1>9, <1>10 DEF KeptUpTo, GoneFrom, QueueAfter
<1>12. LevelsLeft = unlooked \cup {p} /\ LevelsLeft' = unlooked BY <1>1, <1>6 DEF LevelsLeft
<1>13. Met' = Met
  <2>1. Met' = {y \in Positions(b, Resting) : y[1] \notin unlooked}
    BY <1>1, <1>2, <1>3, <1>12 DEF Met
  <2>2. Met = {y \in Positions(b, Resting) :
                 y[1] \notin unlooked \cup {p} \/ (y[1] = p /\ y[2] <= Len(queue))}
    BY <1>1, <1>3, <1>6, <1>10, <1>12 DEF Met
  <2>3. ASSUME NEW y \in Positions(b, Resting), y[1] = p PROVE y[2] <= Len(queue)
    <3>1. y[2] \in 1..Len(b.levels[Resting][y[1]]) BY <1>7, PositionType
    <3>2. Len(queue) \in Nat BY <1>7, <1>8, <1>9, BookType
    <3> QED BY <1>8, <2>3, <3>1, <3>2
  <2> QED BY <1>9, <2>1, <2>2, <2>3
<1>14. CallOK' BY <1>1, <1>2 DEF LoopInv, CallOK
<1>15. BestFirst' BY <1>1, <1>2 DEF LoopInv, BestFirst
<1>16. LevelOK' BY <1>1 DEF LevelOK
<1>17. Counted' BY <1>1, <1>13 DEF LoopInv, Counted
<1>18. book' = BookSoFar(startBook', aggressor', limitTicks', LevelsLeft', Met')
  <2>1. PICK H : H = HalfMatched(b, ag, limit, unlooked \cup {p}) OBVIOUS
  <2>2. PICK orders : orders = FilledIndex(b, ag, limit, Met) OBVIOUS
  <2>3. book.levels = [b.levels EXCEPT ![Resting] = H] /\ book.orders = orders
    BY <1>3, <1>4, <1>5, <1>7, <1>12, <2>1, <2>2 DEF LoopInv, BookSoFar
  <2>4. book.levels[Resting] = H BY <1>7, <2>3 DEF IsBook
  <2>5. PutQueue(H, p, updatedQueue) = HalfMatched(b, ag, limit, unlooked)
    BY <1>7, <1>9, <1>11, <2>1, HalfMatchedNext
  <2>6. PICK G : G = HalfMatched(b, ag, limit, unlooked) OBVIOUS
  <2>7. book' = [levels |-> [book.levels EXCEPT ![Resting] = G], orders |-> orders]
    BY <1>1, <1>6, <2>3, <2>4, <2>5, <2>6 DEF SetQueue
  <2>8. [book.levels EXCEPT ![Resting] = G] = [b.levels EXCEPT ![Resting] = G]
    BY <2>3
  <2>9. BookSoFar(b, ag, limit, unlooked, Met) = [levels |-> [b.levels EXCEPT ![Resting] = G], orders |-> orders]
    BY <1>7, <2>2, <2>6 DEF BookSoFar
  <2> QED BY <1>1, <1>3, <1>4, <1>5, <1>12, <1>13, <2>7, <2>8, <2>9
<1> QED BY <1>14, <1>15, <1>16, <1>17, <1>18 DEF LoopInv

LEMMA LoopInvNext == LoopInv /\ [LoopNext]_loopVars => LoopInv'
<1> SUFFICES ASSUME LoopInv, [LoopNext]_loopVars PROVE LoopInv' OBVIOUS
<1>1. CASE EnterLevel BY <1>1, EnterKeeps
<1>2. CASE Stop BY <1>2, StopKeeps
<1>3. CASE KeepOrder BY <1>3, KeepKeeps
<1>4. CASE FillOrder BY <1>4, FillKeeps
<1>5. CASE LeaveLevel BY <1>5, LeaveKeeps
<1>6. CASE UNCHANGED loopVars
  <2>1. /\ pc' = pc /\ book' = book /\ startBook' = startBook /\ aggressor' = aggressor
        /\ limitTicks' = limitTicks /\ unlooked' = unlooked /\ levelPrice' = levelPrice
        /\ walked' = walked /\ updatedQueue' = updatedQueue /\ remaining' = remaining
        /\ executions' = executions
    BY <1>6 DEF loopVars
  <2>2. Resting' = Resting /\ LevelsLeft' = LevelsLeft BY <2>1 DEF Resting, LevelsLeft
  <2>3. Met' = Met BY <2>1, <2>2 DEF Met
  <2>4. CallOK' /\ BestFirst' BY <2>1, <2>2 DEF LoopInv, CallOK, BestFirst
  <2>5. LevelOK' BY <2>1, <2>2 DEF LoopInv, LevelOK
  <2>6. Counted' BY <2>1, <2>3 DEF LoopInv, Counted
  <2> QED BY <2>1, <2>2, <2>3, <2>4, <2>5, <2>6 DEF LoopInv
<1> QED BY <1>1, <1>2, <1>3, <1>4, <1>5, <1>6 DEF LoopNext

(* LoopsComputeMatch: the two nested loops of match, which update index    *)
(* and queues at different moments and count down what is left of the      *)
(* aggressor, end with the book, the executions and the filled lots that   *)
(* Match, MatchEvents and Filled define, from every book the operations    *)
(* can leave and for every order and limit.                                *)
THEOREM MatchIsComputed == LoopSpec => []LoopsComputeMatch
<1>1. LoopInv => LoopsComputeMatch
  <2> SUFFICES ASSUME LoopInv, pc = "done"
               PROVE  /\ book = Match(startBook, aggressor, limitTicks)
                      /\ executions = MatchEvents(startBook, aggressor, limitTicks)
                      /\ aggressor.qty - remaining = Filled(startBook, aggressor, limitTicks)
    BY DEF LoopsComputeMatch
  <2>1. PICK b : b = startBook OBVIOUS
  <2>2. PICK ag : ag = aggressor OBVIOUS
  <2>3. PICK limit : limit = limitTicks OBVIOUS
  <2>4. PICK D : D = Met OBVIOUS
  <2>5. PICK s : s = Opposite(ag.side) OBVIOUS
  <2>6. Good(b) /\ ag.side \in Sides /\ ag.qty \in Nat /\ Resting = s
    BY <2>1, <2>2, <2>5, CallFacts DEF LoopInv, CallOK
  <2>7. LevelsLeft = unlooked BY DEF LevelsLeft
  <2>8. D = {x \in Positions(b, s) : x[1] \notin unlooked} BY <2>1, <2>4, <2>6, <2>7 DEF Met
  <2>9. remaining = LeftOver(b, ag, D) /\ executions = EventsOf(b, ag, limit, D)
    BY <2>1, <2>2, <2>3, <2>4 DEF LoopInv, Counted
  <2>10. /\ \A p \in DOMAIN b.levels[s] \ unlooked :
              Crosses(ag.side, p, limit) /\ \A q \in unlooked : Ahead(s, p, q)
         /\ LeftOver(b, ag, D) = 0 \/ \A p \in unlooked : ~Crosses(ag.side, p, limit)
    BY <2>1, <2>2, <2>3, <2>6, <2>9 DEF LoopInv, BestFirst
  <2>11. /\ Fills(b, ag, limit) \subseteq D
         /\ ag.qty - LeftOver(b, ag, D) = Filled(b, ag, limit)
    BY <2>5, <2>6, <2>8, <2>10, AllMet
  <2>12. FilledIndex(b, ag, limit, D) = Match(b, ag, limit).orders
    <3>1. D \in SUBSET Positions(b, Opposite(ag.side)) BY <2>5, <2>8
    <3> QED BY <2>6, <2>11, <3>1, FilledIsMatched
  <2>13. [b.levels EXCEPT ![Opposite(ag.side)] = HalfMatched(b, ag, limit, unlooked)] = Match(b, ag, limit).levels
    <3>1. \A x \in Fills(b, ag, limit) : x[1] \notin unlooked BY <2>8, <2>11
    <3> QED BY <2>6, <3>1, HalfMatchedEnd
  <2>14. book = Match(b, ag, limit)
    <3>1. PICK c : c = Match(b, ag, limit) OBVIOUS
    <3>2. c = [levels |-> c.levels, orders |-> c.orders] BY <3>1 DEF Match
    <3>3. book = BookSoFar(b, ag, limit, unlooked, D) BY <2>1, <2>2, <2>3, <2>4, <2>7 DEF LoopInv
    <3> QED BY <2>12, <2>13, <3>1, <3>2, <3>3 DEF BookSoFar
  <2>15. executions = MatchEvents(b, ag, limit)
    <3>1. PICK es : es = MatchEvents(b, ag, limit) OBVIOUS
    <3>2. PICK n : n = Cardinality(Fills(b, ag, limit)) OBVIOUS
    <3>3. D \cap Fills(b, ag, limit) = Fills(b, ag, limit) BY <2>11
    <3>4. executions = [i \in 1..n |-> es[i]] BY <2>9, <3>1, <3>2, <3>3 DEF EventsOf
    <3>5. es = [i \in 1..n |-> es[i]] BY <3>1, <3>2 DEF MatchEvents
    <3> QED BY <3>1, <3>4, <3>5
  <2> QED BY <2>1, <2>2, <2>3, <2>9, <2>11, <2>14, <2>15
<1>2. LoopSpec => []LoopInv BY LoopInvInit, LoopInvNext, PTL DEF LoopSpec
<1> QED BY <1>1, <1>2, PTL
=============================================================================
