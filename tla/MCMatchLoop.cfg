\* match called on every small book
SPECIFICATION LoopSpec
CONSTANTS
    a1 = a1  a2 = a2
    Prices <- MCPrices
    Agents = {a1, a2}
    ClientIds <- MCClientIds
    PriceName <- MCPriceName
    MaxQueue = 2
    Sizes = {1, 2}
    StartBooks <- MCStartBooks
    Aggressors <- MCAggressors
    Limits = {0, 1, 2}
INVARIANT LoopsComputeMatch
CHECK_DEADLOCK FALSE
