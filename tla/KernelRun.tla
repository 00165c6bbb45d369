------------------------------ MODULE KernelRun ------------------------------
(***************************************************************************)
(* A deterministic simulation run, by the reference (SimulationEngine.step *)
(* called in a loop, as the batch jobs do) or by the kernel that was       *)
(* ported from it (JavaSimulationKernel.run): every tick all agents decide *)
(* from one snapshot of the book, their intents are applied one after the  *)
(* other, the abuse scenario advances, the baseline ladder is repaired,    *)
(* and a snapshot is recorded. The first agents are modelled with their    *)
(* schedules, and one numbered taker that stands for all, at any tick.     *)
(* Quantities are small numbers of lots, prices are ticks around the       *)
(* reference price. The book is the one of the reference.                  *)
(***************************************************************************)
EXTENDS BookOps

CONSTANTS
    ReferencePrice, Levels, Spacing,  \* the baseline ladder
    BaseLots, UnitLots,               \* its quantities: base, and per level
    MaxTicks,
    MaxAgentQuoteLots,                \* cap of an agent's quote
    QuoteLots,                        \* quantities the agents quote
    TakerLots,                        \* quantities of their market orders
    WallLots, LayerLots,              \* quantities of the scenarios
    ThinFloor                         \* lots below which thinning does not go

ASSUME LadderAssumption ==
    /\ Levels \in Nat \ {0} /\ Spacing \in Nat \ {0}
    /\ BaseLots \in Lots /\ UnitLots \in Lots /\ MaxTicks \in Lots
    /\ MaxAgentQuoteLots \in Lots /\ ThinFloor \in Lots
    /\ QuoteLots \subseteq Lots /\ TakerLots \subseteq Lots
    /\ WallLots \in Lots /\ LayerLots \in Lots

(* the prices a run can write to: layers go four units below the ladder,   *)
(* a burst of quotes seven above it                                        *)
ASSUME ReachAssumption ==
    /\ ReferencePrice \in Nat
    /\ (ReferencePrice - Levels * Spacing - 4)..(ReferencePrice + Levels * Spacing + 7) \subseteq Prices

VARIABLES
    name,        \* scenario name, "none" for a normal market
    layerSide,   \* the side a layering scenario works on, from the seed
    tick, phase, \* the tick, and the phase of it that is under way
    pending,     \* what the phase still has to do to the book, in order
    applied,     \* stages of the scenario that were entered
    wallPrice    \* of the wall or the first layer, 0 when it was not placed

runVars == <<name, layerSide, tick, phase, book, pending, applied, wallPrice>>
config == <<name, layerSide>>
scenario == <<applied, wallPrice>>

Scenarios == {"none", "spoofing_like_wall", "layering_like", "quote_stuffing", "liquidity_evaporation"}
Phases == {"agents", "scenario", "baseline", "recorded", "finished", "rejected"}
Stages == {"armed", "wall_placed", "pressure", "wall_cancelled", "confirmed", "done"}

WallId == <<"wall">>
LayerId(i) == <<"layer", i>>
LayerIds == {LayerId(i) : i \in 0..2}
MarketId == <<"market">>

ASSUME ParticipantsAssumption ==
    /\ {"MM_01", "NOISE_01", "NOISE_004", "TAKER_01", "TAKER_008",
        "ABUSER", "BASELINE_MM", "normal", "abuser"} \subseteq Agents
    /\ LayerIds \cup {WallId, MarketId} \subseteq ClientIds

-----------------------------------------------------------------------------
(* What the phases read *)

BestPrices(b, side) == {p \in DOMAIN b.levels[side] : IsBest(b, side, p)}
Best(side) == CHOOSE p \in BestPrices(book, side) : TRUE
(* the best prices in the order in which an aggressor would reach them     *)
Heads(side) == {<<p, 1>> : p \in DOMAIN book.levels[side]}
Top(side, depth) ==
    LET all == Cardinality(Heads(side))
    IN  [i \in 1..(IF all < depth THEN all ELSE depth) |-> Reached(book, side, Heads(side), i)[1]]
Away(side, price, distance) == IF side = "buy" THEN price - distance ELSE price + distance

Ladder(side, i) == Away(side, ReferencePrice, i * Spacing)
LadderTarget(i) == BaseLots + (i - 1) * UnitLots

(* thinTop: 35 percent of the quantity, rounded half to even, not below    *)
(* the floor                                                               *)
ThinQuantity(lots) ==
    LET hundredths == lots * 35
        down == hundredths \div 100
        target == IF hundredths % 100 > 50 \/ (hundredths % 100 = 50 /\ down % 2 = 1)
                  THEN down + 1 ELSE down
    IN  IF target > ThinFloor THEN target ELSE ThinFloor

-----------------------------------------------------------------------------
(* One thing a phase does to the book *)

Op(kind, id, agent, side, price, lots) ==
    [kind |-> kind, id |-> id, agent |-> agent, side |-> side, price |-> price, lots |-> lots]
OrderOf(op) == [id |-> op.id, agent |-> op.agent, side |-> op.side, qty |-> op.lots,
                price |-> op.price, ts |-> tick]

Quote(agent, side, price, lots) ==
    Op("quote", AgentLevelId(side, price, agent), agent, side, price,
       IF lots < MaxAgentQuoteLots THEN lots ELSE MaxAgentQuoteLots)
Market(agent, side, lots) == Op("market", MarketId, agent, side, ReferencePrice, lots)
AbuseLevel(id, side, price, lots) == Op("quote", id, "ABUSER", side, price, lots)
Cancel(id) == Op("cancel", id, "ABUSER", "sell", 0, 0)
OnLevel(kind, side, price, lots, owner) == Op(kind, MarketId, owner, side, price, lots)

Performed(b, op) ==
    CASE op.kind = "quote" -> UpdateAgentLevelHere(b, OrderOf(op))
      [] op.kind = "market" -> Match(b, OrderOf(op), NoLimit)
      [] op.kind = "cancel" -> CancelOrder(b, op.id)
      [] op.kind = "set" -> UpdateLevel(b, op.side, op.price, op.lots, op.agent)
      [] op.kind = "drop" -> RemoveLevel(b, op.side, op.price)
      [] op.kind = "thin" ->
           UpdateLevel(b, op.side, op.price, ThinQuantity(LevelQuantity(b, op.side, op.price)), op.agent)
      [] op.kind = "repair" -> EnsureLevelMinimum(b, op.side, op.price, op.lots, op.agent)

Apply ==
    /\ pending # <<>>
    /\ book' = Performed(book, Head(pending))
    /\ pending' = Tail(pending)
    /\ UNCHANGED <<config, tick, phase, scenario>>

-----------------------------------------------------------------------------
(* Agents. All of them read the book as it was before any of them acted.   *)

MakerIntents(lots) ==
    IF BestPrices(book, "buy") = {} \/ BestPrices(book, "sell") = {} THEN <<>>
    ELSE <<Quote("MM_01", "buy", Best("buy"), lots), Quote("MM_01", "sell", Best("sell"), lots)>>

\* mutant: a noise trader quotes at the prices of the other side
NoiseIntentsWrongSide(agent, offset, cadence, t, lots) ==
    LET side == IF (t + offset) % 2 = 1 THEN "buy" ELSE "sell"
        prices == Top(Opposite(side), 12)
    IN  IF prices = <<>> \/ (t + offset) % cadence # 0 THEN <<>>
        ELSE <<Quote(agent, side, prices[1], lots)>>
(* on the bid side in odd ticks, one level deeper every time               *)
NoiseIntents(agent, offset, cadence, t, lots) ==
    LET side == IF (t + offset) % 2 = 1 THEN "buy" ELSE "sell"
        prices == Top(side, 12)
        index == (t + offset + 2) % 5
    IN  IF prices = <<>> \/ (t + offset) % cadence # 0 THEN <<>>
        ELSE <<Quote(agent, side,
                     IF index < Len(prices) THEN prices[index + 1] ELSE prices[Len(prices)], lots)>>

TakerIntents(t, lots) ==
    IF t % 4 # 0 THEN <<>>
    ELSE <<Market("TAKER_01", IF (t \div 4) % 2 = 1 THEN "buy" ELSE "sell", lots)>>

(* the takers among the numbered agents act on schedules of their own      *)
OtherIntents(lots) == {<<>>} \cup {<<Market("TAKER_008", side, lots)>> : side \in Sides}

Decide ==
    /\ phase = "recorded" /\ tick < MaxTicks
    /\ tick' = tick + 1
    /\ \E quote \in QuoteLots, taken \in TakerLots : \E others \in OtherIntents(taken) :
         pending' = MakerIntents(quote) \o NoiseIntents("NOISE_01", 0, 1, tick + 1, quote)
                    \o TakerIntents(tick + 1, taken) \o others
                    \o NoiseIntents("NOISE_004", 4, 6, tick + 1, quote)
    /\ phase' = "agents"
    /\ UNCHANGED <<config, book, scenario>>

-----------------------------------------------------------------------------
(* Scenario programs. A stage is entered in the first tick that has it;    *)
(* what a stage finds missing then is not made up for later.               *)

\* mutant: the pressure stage lasts over the tick of the cancellation
StageAtLate(t) ==
    LET elapsed == t - 1
    IN  CASE elapsed < 1 -> "armed"
          [] elapsed \in 1..2 -> "wall_placed"
          [] elapsed \in 3..6 -> "pressure"
          [] elapsed \in 7..8 -> "confirmed"
          [] OTHER -> "done"
StageAt(t) ==
    LET elapsed == t - 1
    IN  CASE elapsed < 1 -> "armed"
          [] elapsed \in 1..2 -> "wall_placed"
          [] elapsed \in 3..5 -> "pressure"
          [] elapsed = 6 -> "wall_cancelled"
          [] elapsed \in 7..8 -> "confirmed"
          [] OTHER -> "done"
Entering(stage) == StageAt(tick) = stage /\ stage \notin applied

NormalMarket == name = "none" /\ pending' = <<>> /\ UNCHANGED wallPrice

(* a wall two units away from the best ask                                 *)
\* mutant: the replenished wall follows the best ask
SpoofingFollows ==
    /\ name = "spoofing_like_wall"
    /\ LET place == (Entering("wall_placed") \/ Entering("pressure")) /\ BestPrices(book, "sell") # {}
           price == Best("sell") + 2
       IN  /\ wallPrice' = IF place THEN price ELSE wallPrice
           /\ pending' =
                CASE place -> <<AbuseLevel(WallId, "sell", price, WallLots)>>
                  [] Entering("wall_cancelled") -> <<Cancel(WallId)>>
                  [] OTHER -> <<>>
Spoofing ==
    /\ name = "spoofing_like_wall"
    /\ LET place == Entering("wall_placed") /\ BestPrices(book, "sell") # {}
           price == Best("sell") + 2
       IN  /\ wallPrice' = IF place THEN price ELSE wallPrice
           /\ pending' =
                CASE place -> <<AbuseLevel(WallId, "sell", price, WallLots)>>
                  [] Entering("pressure") /\ wallPrice # 0 ->
                       <<AbuseLevel(WallId, "sell", wallPrice, WallLots + 1)>>
                  [] Entering("wall_cancelled") -> <<Cancel(WallId)>>
                  [] OTHER -> <<>>

Layers(first, lots) ==
    [i \in 1..3 |-> AbuseLevel(LayerId(i - 1), layerSide, Away(layerSide, first, i - 1), lots)]
Layering ==
    /\ name = "layering_like"
    /\ LET place == Entering("wall_placed") /\ BestPrices(book, layerSide) # {}
           first == Away(layerSide, Best(layerSide), 2)
       IN  /\ wallPrice' = IF place THEN first ELSE wallPrice
           /\ pending' =
                CASE place -> Layers(first, LayerLots)
                  [] Entering("pressure") /\ wallPrice # 0 -> Layers(wallPrice, LayerLots + 1)
                  [] Entering("wall_cancelled") -> [i \in 1..3 |-> Cancel(LayerId(i - 1))]
                  [] OTHER -> <<>>

(* a burst of levels that are placed and removed at once, in every tick of *)
(* the pressure stage; what the levels held before is gone as well         *)
QuoteStuffing ==
    /\ name = "quote_stuffing"
    /\ pending' = IF StageAt(tick) = "pressure" /\ BestPrices(book, "sell") # {}
                  THEN [i \in 1..6 |->
                          OnLevel(IF i % 2 = 1 THEN "set" ELSE "drop", "sell",
                                  Best("sell") + 5 + (i - 1) \div 2, 1, "abuser")]
                  ELSE <<>>
    /\ UNCHANGED wallPrice

(* the pressure stage thins the top three levels of each side in every     *)
(* tick, on entry twice; then the best level of each side is removed       *)
ThinTop ==
    LET thin(side) == [i \in DOMAIN Top(side, 3) |-> OnLevel("thin", side, Top(side, 3)[i], 0, "normal")]
    IN  thin("buy") \o thin("sell")
DropBest(side) ==
    IF BestPrices(book, side) = {} THEN <<>> ELSE <<OnLevel("drop", side, Best(side), 0, "normal")>>
LiquidityEvaporation ==
    /\ name = "liquidity_evaporation"
    /\ pending' = CASE Entering("pressure") -> ThinTop \o ThinTop
                    [] StageAt(tick) = "pressure" /\ ~Entering("pressure") -> ThinTop
                    [] Entering("wall_cancelled") -> DropBest("buy") \o DropBest("sell")
                    [] OTHER -> <<>>
    /\ UNCHANGED wallPrice

AdvanceScenario ==
    /\ phase = "agents" /\ pending = <<>>
    /\ phase' = "scenario"
    /\ applied' = applied \cup {StageAt(tick)}
    /\ NormalMarket \/ Spoofing \/ Layering \/ QuoteStuffing \/ LiquidityEvaporation
    /\ UNCHANGED <<config, tick, book>>

-----------------------------------------------------------------------------
(* Baseline repair, snapshot, and the end of a tick *)

MaintainBaseline ==
    /\ phase = "scenario" /\ pending = <<>>
    /\ pending' = [i \in 1..(2 * Levels) |->
                     LET side == IF i % 2 = 1 THEN "buy" ELSE "sell"
                         level == (i + 1) \div 2
                     IN  OnLevel("repair", side, Ladder(side, level), LadderTarget(level), "BASELINE_MM")]
    /\ phase' = "baseline"
    /\ UNCHANGED <<config, tick, book, scenario>>

(* the snapshot is recorded; the kernel rejects a run that has more events *)
(* than it may, at this point only                                         *)
RecordSnapshot ==
    /\ phase = "baseline" /\ pending = <<>>
    /\ phase' \in {"recorded", "rejected"}
    /\ UNCHANGED <<config, tick, book, pending, scenario>>

Finish ==
    /\ phase = "recorded" /\ tick = MaxTicks
    /\ phase' = "finished"
    /\ UNCHANGED <<config, tick, book, pending, scenario>>

-----------------------------------------------------------------------------
(* the ladder as book.initialize leaves it                                 *)
LadderOrder(side, i) == LevelOrder(side, Ladder(side, i), LadderTarget(i), "normal")
InitialBook ==
    LET all == {LadderOrder(side, i) : side \in Sides, i \in 1..Levels}
    IN  [levels |-> [side \in Sides |->
                       [p \in {Ladder(side, i) : i \in 1..Levels} |->
                          <<CHOOSE o \in all : o.side = side /\ o.price = p>>]],
         orders |-> [id \in {o.id : o \in all} |-> CHOOSE o \in all : o.id = id]]

RunInit ==
    /\ name \in Scenarios
    /\ layerSide \in IF name = "layering_like" THEN Sides ELSE {"sell"}
    /\ tick = 0 /\ phase = "recorded"
    /\ book = InitialBook
    /\ pending = <<>>
    /\ applied = {} /\ wallPrice = 0

RunNext == Apply \/ Decide \/ AdvanceScenario \/ MaintainBaseline \/ RecordSnapshot \/ Finish

(* the run is one loop of one thread                                       *)
RunSpec == RunInit /\ [][RunNext]_runVars

-----------------------------------------------------------------------------
(* Properties *)

(* Intents are decided from a snapshot that is stale when they are applied,*)
(* levels are written without matching, and scenarios price from what is   *)
(* the best ask at their moment: nevertheless the reference price always   *)
(* separates bids from asks, so no phase sees a crossed book.              *)
ReferenceSeparates ==
    /\ \A p \in DOMAIN book.levels["buy"] : p < ReferencePrice
    /\ \A p \in DOMAIN book.levels["sell"] : p > ReferencePrice

(* The exchange liquidity invariant: whatever market orders and scenarios  *)
(* consumed or removed within the tick, the book a completed tick leaves   *)
(* has every level of the ladder with at least its quantity on both sides. *)
LadderRestored ==
    phase \in {"recorded", "rejected", "finished"} =>
        \A side \in Sides, i \in 1..Levels :
            LevelQuantity(book, side, Ladder(side, i)) >= LadderTarget(i)

(* Once the cancellation stage has passed, no order of the wall or of the  *)
(* layers rests, whatever was traded, replenished or skipped before, and   *)
(* none ever comes back.                                                   *)
NoAbuseLeftBehind ==
    \/ StageAt(tick) \in {"confirmed", "done"}
    \/ StageAt(tick) = "wall_cancelled" /\ phase \notin {"agents", "scenario"}
    =>
        DOMAIN book.orders \cap (LayerIds \cup {WallId}) = {}

(* An order id is only ever given with one side and one price, so that the *)
(* reference, which looks for the order it replaces on the level it writes *)
(* to, never leaves one behind that the index has forgotten, and does what *)
(* the port does, which looks it up in the index.                          *)
NoForgottenOrder ==
    /\ QueuedAreIndexed(book)
    /\ \A i \in DOMAIN pending : pending[i].kind = "quote" =>
         UpdateAgentLevelHere(book, OrderOf(pending[i])) = UpdateAgentLevel(book, OrderOf(pending[i]))

=============================================================================
