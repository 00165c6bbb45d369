----------------------------- MODULE MCEventFeed -----------------------------
(* Bounded instances of EventFeed. *)
EXTENDS EventFeed, TLC

CONSTANTS MaxOrders, o1, o2, o3, a1, a2

MCPriceName(p) == p

BookBound == Cardinality(DOMAIN book.orders) <= MaxOrders

Symmetry == Permutations({o1, o2, o3})
=============================================================================
