\* every operation of the book, and a reader of its events: one agent, two
\* prices, explicit and level ids
SPECIFICATION FeedSpec
CONSTANTS
    o1 = o1  o2 = o2  o3 = o3
    a1 = a1  a2 = a2
    Prices = {1, 2}
    Agents = {a1}
    ClientIds = {o1}
    PriceName <- MCPriceName
    Quantities = {1, 2}
    Stamps = {0}
    MaxOrders = 3
INVARIANTS IndexMatchesQueues FeedKnowsOrders
PROPERTIES TradesConserveLots
CONSTRAINT BookBound
