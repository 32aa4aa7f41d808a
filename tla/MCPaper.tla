------------------------------- MODULE MCPaper -------------------------------
(* A day of three stock and three future rows, for TLC.                      *)
EXTENDS PaperReplay, StepReplay

MCPair ==
    [spotShares |-> 2, futureShares |-> 2, spotQty |-> 2, futureQty |-> 1,
     futureMultiplier |-> 2, spotTick |-> 1, futureTick |-> 1,
     entryThreshold |-> Frac(1, 10), exitThreshold |-> Zero, stopLoss |-> Frac(-1, 2),
     exitTicks |-> Zero, exitRule |-> "lte", minTicks |-> Zero, allowShort |-> TRUE,
     minExitPnl |-> Unset, entryInterval |-> 1, maxPairs |-> 2,
     feeRate |-> Frac(1, 1000), taxRate |-> Frac(3, 1000),
     stockMinBid |-> 2, stockMinAsk |-> 2, futureMinBid |-> 1, futureMinAsk |-> 1,
     secondOffset |-> 1, secondThreshold |-> Unset, cooldown |-> 2]
MCCost == Frac(4, 1000)

Quote(bid, ask, size, trial) ==
    [bid |-> bid, ask |-> ask, bidSize |-> size, askSize |-> size, trial |-> trial]
Cheap == Quote(9, 10, 4, FALSE)
Dear == Quote(12, 13, 2, FALSE)
Wide == Quote(8, 10, 4, FALSE)
Blocked == Quote(0, 10, 4, TRUE)
High == Quote(12, 13, 2, FALSE)
Low == Quote(9, 10, 1, FALSE)

At(times, kinds) == [k \in DOMAIN times |-> [t |-> times[k]] @@ kinds[k]]
MCTables ==
    {[stock |-> At(<<0, 2, 6>>, s), future |-> At(<<0, 3, 5>>, f)] :
        s \in {Cheap, Dear} \X {Wide, Dear, Blocked} \X {Cheap, Dear, Blocked}, f \in [1 .. 3 -> {High, Low}]}
MCLatencies == {[send |-> 0, report |-> 0], [send |-> 1, report |-> 1]}
MCTickChange == [day |-> 2, dayLength |-> 3]

(* The recorded day as a replay of steps 1 to 6.                            *)
MCMarket(spot, future, s) ==
    IF NoQuote \in {spot, future} THEN NoMarket
    ELSE [spot |-> [spot EXCEPT !.t = s], future |-> [future EXCEPT !.t = s]]
MCReplay == [s \in 1 .. 6 |-> MCMarket(QuoteAt("stock", s), QuoteAt("future", s), s)]
MCRuns == [interval : {0, 2}, maxSteps : {NoLimit, 3}, maxTrades : {NoLimit, 1}, fills : BOOLEAN]
MCPrices == UNION {{x - 1, x, x + 1} : x \in {1000, 5000, 10000, 50000, 100000, 250000}}

ReplaysAgree(markets) ==
    \A run \in MCRuns : Run("numba", markets, run, Flat) = Run("python", markets, run, Flat)

Flags(m, signal) == signal \in {"LONG", "SHORT"} /\ \A leg \in Legs : BookTakes(signal, "HOLD", leg, LegQuote(m, leg))

(* What is decided does not depend on which code decides it.  On every       *)
(* market a session evaluates, with every position it gets to, the compiled  *)
(* kernel signals what the strategy signals, and a recorded market row is    *)
(* marked as an entry exactly when a strategy without a position would       *)
(* enter and the books could take it; both know the same tick sizes; and a   *)
(* fixed-step replay through the kernel, which sees a market only when one   *)
(* wakes it, leaves the positions and rows of the loop that looks at every   *)
(* step, the row of the last market included, wherever it is cut off.        *)
DecisionPathsAgree ==
    /\ driver = "evaluate" /\ MarketReady(active.quotes) =>
          LET m == [spot |-> active.quotes["stock"], future |-> active.quotes["future"]]
          IN  /\ KernelSignal(position, m) = CodeOf(Evaluate(position, m))
              /\ EntrySignal(m) = IF Flags(m, Evaluate(Flat, m)) THEN Evaluate(Flat, m) ELSE "HOLD"
    /\ fed = -1 /\ stop = FALSE /\ latency.send = 0 =>
          /\ \A price \in MCPrices, t \in 0 .. 9 :
                /\ TwStockTickSizeNumba(price) = TwStockTickSize(price)
                /\ TwStockFutureTickSizeNumba(price, t) = TwStockFutureTickSize(price, t)
          /\ ReplaysAgree(MCReplay @@ <<>>)
=============================================================================
