----------------------------- MODULE MCMatchLoop -----------------------------
(* Every book with up to MaxQueue orders at each price of the two sides,   *)
(* their quantities from Sizes; crossed books are among them, because a    *)
(* modification or a level operation can leave one.                        *)
EXTENDS MatchLoop

CONSTANTS MaxQueue, Sizes, a1, a2

MCPriceName(p) == p

MCPrices == 1..2
MCClientIds == Sides \X MCPrices \X (1..MaxQueue) \cup {<<"new">>}

BookOf(sizes) ==
    LET order(s, p, i) == [id |-> <<s, p, i>>, agent |-> a1, side |-> s,
                           qty |-> sizes[s][p][i], price |-> p, ts |-> 0]
        all == UNION {UNION {{order(s, p, i) : i \in DOMAIN sizes[s][p]} : p \in MCPrices} : s \in Sides}
    IN  [levels |-> [s \in Sides |->
                       [p \in {x \in MCPrices : sizes[s][x] # <<>>} |->
                          [i \in DOMAIN sizes[s][p] |-> order(s, p, i)]]],
         orders |-> [id \in {o.id : o \in all} |-> CHOOSE o \in all : o.id = id]]

(* one side of any shape, at most one order on the other, which no loop    *)
(* walks                                                                   *)
MCStartBooks ==
    UNION {{BookOf([t \in Sides |-> IF t = s THEN f ELSE [p \in MCPrices |-> IF p = 2 THEN g ELSE <<>>]])
              : f \in [MCPrices -> BoundedSeq(Sizes, MaxQueue)], g \in BoundedSeq({1}, 1)}
           : s \in Sides}

MCAggressors == [id : {<<"new">>}, agent : {a2}, side : Sides, qty : 1..5, price : {1}, ts : {0}]
=============================================================================
