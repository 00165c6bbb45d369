\* submitted orders: three ids on two prices, two timestamps, and a reader of
\* their events; at most three orders rest
SPECIFICATION ExchangeFeedSpec
CONSTANTS
    o1 = o1  o2 = o2  o3 = o3
    a1 = a1  a2 = a2
    Prices = {1, 2}
    Agents = {a1}
    ClientIds = {o1, o2, o3}
    PriceName <- MCPriceName
    Quantities = {1, 2}
    Stamps = {0, 1}
    MaxOrders = 3
INVARIANT FeedKnowsQueues
PROPERTIES OrdersDoNotCross NoTradeThrough
CONSTRAINT BookBound
SYMMETRY Symmetry
