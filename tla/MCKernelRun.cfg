\* every scenario, from the initial ladder to the end of the run
SPECIFICATION RunSpec
CONSTANTS
    Prices <- MCPrices
    Agents <- MCAgents
    ClientIds <- MCClientIds
    PriceName <- MCPriceName
    ReferencePrice = 8
    Levels = 2
    Spacing = 1
    BaseLots = 1
    UnitLots = 1
    MaxTicks = 10
    MaxAgentQuoteLots = 1
    QuoteLots = {2}
    TakerLots = {3, 7}
    WallLots = 2
    LayerLots = 1
    ThinFloor = 1
INVARIANTS ReferenceSeparates LadderRestored NoAbuseLeftBehind NoForgottenOrder
CHECK_DEADLOCK FALSE
