---------------------------- MODULE PairStrategy ----------------------------
(***************************************************************************)
(* The decision of the future-spot strategy on one market of a pair: its    *)
(* pricing (PairPricer), the signal (StopLossAwareSignalEngine), the risk   *)
(* check (RiskManager) and the profit of an exit.  Prices are whole ticks   *)
(* of some money unit; rates, averages and percentages are exact fractions. *)
(***************************************************************************)
EXTENDS Fractions, FiniteSetsExt

CONSTANTS
    Pair,           \* PairConfig: a record of the fields used below
    BoardLot,       \* STOCK_BOARD_LOT_SHARES
    CostRate,       \* EFFECTIVE_TICK_COST_RATE, a fraction
    TickChange,     \* STOCK_FUTURE_TICK_CHANGE_DATE: [day, dayLength], in the quotes' time
    Unset           \* None, of an optional field

HasPosition(position) == position.quantity # 0

Flat == [quantity |-> 0, direction |-> "HOLD", basis |-> Unset, spot |-> Unset,
         future |-> Unset, stockUnits |-> 0, futureUnits |-> 0, entered |-> Unset]

\* the quotes' sides, and what the pair costs on them
Buys(signal, direction, leg) ==
    LET long == IF signal = "EXIT" THEN direction = "SHORT" ELSE signal = "LONG"
    IN  (leg = "stock") <=> long
SidePrice(buy, quote) == IF buy THEN quote.ask ELSE quote.bid

Pct(future, spot) ==
    Frac(future * Pair.futureShares - spot * Pair.spotShares, spot * Pair.spotShares)
LongPct(m) == Pct(m.future.bid, m.spot.ask)
ShortPct(m) == Pct(m.future.ask, m.spot.bid)

(* Tick sizes by price, in hundredths of the money unit, where the pair has  *)
(* none configured; a future's change with the trade date of its quote.     *)
TwStockTickSize(price) ==
    LET bands == {<<0, 1>>, <<1000, 5>>, <<5000, 10>>, <<10000, 50>>, <<50000, 100>>, <<100000, 500>>}
    IN  (CHOOSE x \in bands : x[1] <= price /\ \A y \in bands : y[1] <= price => y[1] <= x[1])[2]
TwStockFutureTickSize(price, t) ==
    IF t \div TickChange.dayLength >= TickChange.day /\ price \in 50000 .. 249999 THEN 100
    ELSE TwStockTickSize(price)
PairLegTickSize(leg, price, t) ==
    LET configured == IF leg = "stock" THEN Pair.spotTick ELSE Pair.futureTick
    IN  IF configured # 0 THEN configured
        ELSE IF leg = "stock" THEN TwStockTickSize(price) ELSE TwStockFutureTickSize(price, t)

Ticks(x, spot, future, m) ==
    Frac(x.n, x.d * (PairLegTickSize("stock", spot, m.spot.t) + PairLegTickSize("future", future, m.future.t)))
LongTicks(m) ==
    Ticks(Minus(Whole(m.future.bid - m.spot.ask), Scaled(CostRate, m.spot.ask)), m.spot.ask, m.future.bid, m)
ShortTicks(m) ==
    Ticks(Minus(Whole(m.spot.bid - m.future.ask), Scaled(CostRate, m.spot.bid)), m.spot.bid, m.future.ask, m)
LongExitTicks(m) == Ticks(Whole(m.future.ask - m.spot.bid), m.spot.bid, m.future.ask, m)
ShortExitTicks(m) == Ticks(Whole(m.spot.ask - m.future.bid), m.spot.ask, m.future.bid, m)

(* The basis an entry in a direction is made at.                            *)
EntryBasis(direction, m) == IF direction = "LONG" THEN LongPct(m) ELSE Neg(ShortPct(m))

MayEnter(direction, m) ==
    /\ direction = "SHORT" => Pair.allowShort
    /\ AtLeast(EntryBasis(direction, m), Pair.entryThreshold)
    /\ Above(IF direction = "LONG" THEN LongTicks(m) ELSE ShortTicks(m), Pair.minTicks)

ExitTicksTriggered(ticks) ==
    IF Pair.exitRule = "gte" THEN AtLeast(ticks, Pair.exitTicks) ELSE AtLeast(Pair.exitTicks, ticks)
ShouldExit(position, m) ==
    IF position.direction = "LONG"
    THEN ExitTicksTriggered(LongExitTicks(m)) \/ AtLeast(Pair.exitThreshold, ShortPct(m))
    ELSE ExitTicksTriggered(ShortExitTicks(m)) \/ AtLeast(LongPct(m), Neg(Pair.exitThreshold))

(* What the open pairs would lose or gain of their entry basis.             *)
HitStopLoss(position, m) ==
    /\ position.basis # Unset
    /\ AtLeast(Pair.stopLoss,
               IF position.direction = "LONG" THEN Minus(position.basis, ShortPct(m))
                                              ELSE Plus(position.basis, LongPct(m)))

Evaluate(position, m) ==
    IF HasPosition(position)
    THEN IF HitStopLoss(position, m) \/ ShouldExit(position, m) THEN "EXIT"
         ELSE IF MayEnter(position.direction, m) THEN position.direction ELSE "HOLD"
    ELSE IF MayEnter("LONG", m) THEN "LONG" ELSE IF MayEnter("SHORT", m) THEN "SHORT" ELSE "HOLD"

(* How many of the open pairs the top of both books can take.               *)
ExitMultiplier(position, m) ==
    LET selling == position.direction = "LONG"
        stock == (IF selling THEN m.spot.bidSize ELSE m.spot.askSize) * BoardLot
        future == IF selling THEN m.future.askSize ELSE m.future.bidSize
    IN  IF ~HasPosition(position) THEN 0
        ELSE Max({0, Min({position.quantity, stock \div Pair.spotQty, future \div Pair.futureQty})})

SpotPnl(position, price, pairs) ==
    LET gain == Scaled(Minus(Whole(price), position.spot), Pair.spotQty * pairs)
    IN  IF position.direction = "LONG" THEN gain ELSE Neg(gain)
FuturePnl(position, price, pairs) ==
    LET gain == Scaled(Minus(Whole(price), position.future), Pair.futureMultiplier * Pair.futureQty * pairs)
    IN  IF position.direction = "LONG" THEN Neg(gain) ELSE gain
GrossPnl(position, spot, future, pairs) ==
    Plus(SpotPnl(position, spot, pairs), FuturePnl(position, future, pairs))
(* Commission on both stock trades of the round trip, tax on the sale.      *)
StockCost(position, spot, pairs) ==
    LET sold == IF position.direction = "LONG" THEN Whole(spot) ELSE position.spot
        fee == Scaled(Plus(position.spot, Whole(spot)), Pair.feeRate.n * Pair.spotQty * pairs)
        tax == Scaled(sold, Pair.taxRate.n * Pair.spotQty * pairs)
    IN  Plus(Frac(fee.n, fee.d * Pair.feeRate.d), Frac(tax.n, tax.d * Pair.taxRate.d))
RealizedPnl(position, m, pairs) ==
    LET spot == SidePrice(Buys("EXIT", position.direction, "stock"), m.spot)
        future == SidePrice(Buys("EXIT", position.direction, "future"), m.future)
    IN  Minus(GrossPnl(position, spot, future, pairs), StockCost(position, spot, pairs))

(* A first leg that had to be undone.                                       *)
FlattenGross(leg, buy, entry, exit) ==
    (IF buy THEN exit - entry ELSE entry - exit)
        * IF leg = "stock" THEN Pair.spotQty ELSE Pair.futureMultiplier * Pair.futureQty
FlattenCost(leg, buy, entry, exit) ==
    IF leg = "future" THEN Zero
    ELSE LET sold == IF buy THEN exit ELSE entry
         IN  Plus(Frac((entry + exit) * Pair.spotQty * Pair.feeRate.n, Pair.feeRate.d),
                  Frac(sold * Pair.spotQty * Pair.taxRate.n, Pair.taxRate.d))

BookTakes(signal, direction, leg, quote) ==
    IF Buys(signal, direction, leg)
    THEN quote.askSize >= IF leg = "stock" THEN Pair.stockMinAsk ELSE Pair.futureMinAsk
    ELSE quote.bidSize >= IF leg = "stock" THEN Pair.stockMinBid ELSE Pair.futureMinBid

(* RiskManager.check, as the strategy adapter calls it: without the limits   *)
(* over all pairs.  now is the event time of the market.                    *)
Allowed(signal, position, m, now) ==
    /\ ~m.spot.trial
    /\ IF signal = "EXIT"
       THEN LET pairs == ExitMultiplier(position, m)
            IN  /\ HasPosition(position) /\ pairs > 0
                /\ \/ Pair.minExitPnl = Unset
                   \/ position.spot # Unset /\ Above(RealizedPnl(position, m, pairs), Pair.minExitPnl)
       ELSE /\ position.stockUnits # 0 \/ position.futureUnits # 0 => HasPosition(position)
            /\ \/ Pair.entryInterval = 0 \/ position.entered = Unset
               \/ now - position.entered >= Pair.entryInterval
            /\ position.quantity < Pair.maxPairs
            /\ signal = "SHORT" => Pair.allowShort
            /\ \A leg \in {"stock", "future"} :
                   BookTakes(signal, "HOLD", leg, IF leg = "stock" THEN m.spot ELSE m.future)

=============================================================================
