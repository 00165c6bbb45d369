----------------------------- MODULE MCKernelRun -----------------------------
(* A ladder of one or two levels around price 8; the lowest layer of a     *)
(* layering attack is then at 2, the highest quote of a burst at 17.       *)
EXTENDS KernelRun

MCPriceName(p) == p
MCPrices == 1..17
MCAgents == {"MM_01", "NOISE_01", "NOISE_004", "TAKER_01", "TAKER_008", "ABUSER", "BASELINE_MM", "normal", "abuser"}
MCClientIds == LayerIds \cup {WallId, MarketId}
=============================================================================
