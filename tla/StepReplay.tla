----------------------------- MODULE StepReplay -----------------------------
(***************************************************************************)
(* The fixed-step replay of a pair (future_spot/arbitrage/hbt_backtest.py), *)
(* written twice: a Python loop that prices and decides at every step, and  *)
(* a loop around a compiled scan (hbt_numba.py) that skips the steps with   *)
(* nothing to do, with pricing, tick sizes and signal of its own.  Also     *)
(* written a second time: the entry signal of a recorded market row         *)
(* (full_market_runner.py).                                                *)
(*                                                                         *)
(* A replay is a sequence of markets, one a step; NoMarket where a book is  *)
(* not two-sided.  What an order does to the position is an argument.       *)
(***************************************************************************)
EXTENDS PairStrategy, Sequences
LOCAL INSTANCE SequencesExt

NoMarket == [t |-> -1]
NoLimit == -1

Hold == 0
Long == 1
Short == 2
Exit == 3
CodeOf(signal) == CASE signal = "HOLD" -> Hold [] signal = "LONG" -> Long
                    [] signal = "SHORT" -> Short [] signal = "EXIT" -> Exit

-----------------------------------------------------------------------------
(* The compiled kernel *)

TwStockTickSizeNumba(price) ==
    IF price < 1000 THEN 1 ELSE IF price < 5000 THEN 5 ELSE IF price < 10000 THEN 10
    ELSE IF price < 50000 THEN 50 ELSE IF price < 100000 THEN 100 ELSE 500

FutureTickByPriceOnly(price, t) ==        \* mutant: the schedule never changes
    IF price < 100000 THEN TwStockTickSizeNumba(price) ELSE 500

TwStockFutureTickSizeNumba(price, t) ==
    LET new == t >= TickChange.day * TickChange.dayLength
    IN  IF price < 50000 THEN TwStockTickSizeNumba(price)
        ELSE IF price < IF new THEN 250000 ELSE 100000 THEN 100 ELSE 500

(* The seven pricing values, without the mid basis no signal looks at.       *)
PricingValuesFromBbo(m, t) ==
    LET spotTick(price) == IF Pair.spotTick > 0 THEN Pair.spotTick ELSE TwStockTickSizeNumba(price)
        futureTick(price) == IF Pair.futureTick > 0 THEN Pair.futureTick ELSE TwStockFutureTickSizeNumba(price, t)
        longTick == spotTick(m.spot.ask) + futureTick(m.future.bid)
        shortTick == spotTick(m.spot.bid) + futureTick(m.future.ask)
        per(n, cost, tick) == Frac(n * CostRate.d - cost * CostRate.n, CostRate.d * tick)
        buy == m.spot.ask * Pair.spotShares
        sell == m.spot.bid * Pair.spotShares
    IN  [longPct |-> Frac(m.future.bid * Pair.futureShares - buy, buy),
         shortPct |-> Frac(m.future.ask * Pair.futureShares - sell, sell),
         longTicks |-> per(m.future.bid - m.spot.ask, m.spot.ask, longTick),
         shortTicks |-> per(m.spot.bid - m.future.ask, m.spot.bid, shortTick),
         longExit |-> Frac(m.future.ask - m.spot.bid, shortTick),
         shortExit |-> Frac(m.spot.ask - m.future.bid, longTick)]

(* code: the direction of the position; basis: Unset for nan.               *)
SignalFromPricingValues(v, quantity, code, basis) ==
    LET long == AtLeast(v.longPct, Pair.entryThreshold) /\ Above(v.longTicks, Pair.minTicks)
        short == /\ Pair.allowShort /\ AtLeast(Neg(Pair.entryThreshold), v.shortPct)
                 /\ Above(v.shortTicks, Pair.minTicks)
        exits(ticks) == IF Pair.exitRule = "gte" THEN AtLeast(ticks, Pair.exitTicks) ELSE AtLeast(Pair.exitTicks, ticks)
        stopped(pnl) == AtLeast(Pair.stopLoss, pnl)
        longDone == \/ basis # Unset /\ stopped(Minus(basis, v.shortPct))
                    \/ exits(v.longExit) \/ AtLeast(Pair.exitThreshold, v.shortPct)
        shortDone == \/ basis # Unset /\ stopped(Plus(basis, v.longPct))
                     \/ exits(v.shortExit) \/ AtLeast(v.longPct, Neg(Pair.exitThreshold))
    IN  IF quantity = 0 THEN IF long THEN Long ELSE IF short THEN Short ELSE Hold
        ELSE CASE code = Long -> IF longDone THEN Exit ELSE IF long THEN Long ELSE Hold
               [] code = Short -> IF shortDone THEN Exit ELSE IF short THEN Short ELSE Hold
               [] OTHER -> Hold

KernelSignal(position, m) ==
    SignalFromPricingValues(PricingValuesFromBbo(m, m.future.t), position.quantity,
                            CodeOf(position.direction), position.basis)

(* From the step after start: the first step with a signal or a row to      *)
(* record, or how the scan ended, with the last market it saw.  codes: the   *)
(* signals of the steps.                                                    *)
Scan(markets, codes, start, stop, reason, interval) ==
    LET seen == {s \in start + 1 .. stop : markets[s] # NoMarket}
        woken == {s \in seen : codes[s] # Hold \/ (interval > 0 /\ s % interval = 0)}
        result(s, r, m) == [reason |-> r, step |-> s, market |-> m]
    IN  IF woken # {} THEN result(Min(woken), "WOKEN", markets[Min(woken)])
        ELSE result(stop, reason, IF seen = {} THEN NoMarket ELSE markets[Max(seen)])

ScanUntilWakeup(markets, start, remaining, interval, position) ==
    Scan(markets,
         [s \in DOMAIN markets |-> IF markets[s] = NoMarket THEN Hold ELSE KernelSignal(position, markets[s])],
         start,
         IF remaining = NoLimit THEN Len(markets) ELSE Min({Len(markets), start + remaining}),
         IF remaining # NoLimit /\ start + remaining <= Len(markets) THEN "MAX_STEPS" ELSE "END_OF_DATA",
         interval)

-----------------------------------------------------------------------------
(* The two loops.  run: [interval, maxSteps, maxTrades, fills]; a loop's     *)
(* state is the position, the audit and market rows, the last market seen,   *)
(* and whether the data has ended.  An order fills whole, or not at all.     *)
Start(position) ==
    [position |-> position, rows |-> <<>>, markets |-> <<>>, last |-> NoMarket, step |-> 0, over |-> FALSE]

Enough(run, state) ==
    \/ run.maxSteps # NoLimit /\ state.step >= run.maxSteps
    \/ run.maxTrades # NoLimit /\ Len(state.rows) >= run.maxTrades

MarketRow(state, m, signal) ==
    [step |-> state.step, market |-> m, signal |-> signal, held |-> state.position.quantity]
RecordMarketRow(run, state, m, signal) ==
    IF (run.interval > 0 /\ state.step % run.interval = 0) \/ signal # "HOLD"
    THEN [state EXCEPT !.last = m, !.markets = Append(@, MarketRow(state, m, signal))]
    ELSE [state EXCEPT !.last = m]

Filled(position, signal, m) ==
    IF signal = "EXIT" THEN Flat
    ELSE [position EXCEPT !.quantity = @ + 1, !.direction = signal, !.basis = EntryBasis(signal, m),
                          !.stockUnits = @ + 1, !.futureUnits = @ + 1, !.entered = m.future.t]

Executed(run, state, m, signal, allowed) ==
    [state EXCEPT !.rows = Append(@, [step |-> state.step, signal |-> signal,
                                      status |-> IF allowed THEN "EXECUTED" ELSE "SKIPPED"]),
                  !.position = IF allowed /\ run.fills THEN Filled(@, signal, m) ELSE @]

(* Market row, and the execution of the signal, at the state's step.        *)
Act(run, state, m, signal) ==
    IF signal = "HOLD" THEN RecordMarketRow(run, state, m, signal)
    ELSE Executed(run, RecordMarketRow(run, state, m, signal), m, signal,
                  Allowed(signal, state.position, m, m.future.t))
Decide(run, state, m) == Act(run, state, m, Evaluate(state.position, m))

RecordFinalMarket(state) ==
    IF state.last = NoMarket \/ (state.markets # <<>> /\ Last(state.markets).step = state.step) THEN state
    ELSE [state EXCEPT !.markets = Append(@, MarketRow(state, state.last, "HOLD"))]

PythonStep(markets, run, state) ==
    IF state.step = Len(markets) THEN [state EXCEPT !.over = TRUE]
    ELSE IF markets[state.step + 1] = NoMarket THEN [state EXCEPT !.step = @ + 1]
    ELSE Decide(run, [state EXCEPT !.step = @ + 1], markets[state.step + 1])

(* _market_from_numba_snapshot: a scan that saw no market gives none.        *)
LastSeen(state, scan) == IF scan.market = NoMarket THEN state.last ELSE scan.market

AfterScan(run, state, scan) ==
    IF scan.reason = "WOKEN" THEN Decide(run, [state EXCEPT !.step = scan.step], scan.market)
    ELSE [state EXCEPT !.step = scan.step, !.over = TRUE, !.last = LastSeen(state, scan)]
NumbaStep(markets, run, state) ==
    AfterScan(run, state,
        ScanUntilWakeup(markets, state.step, IF run.maxSteps = NoLimit THEN NoLimit ELSE run.maxSteps - state.step,
                        run.interval, state.position))

(* run: the loop of the engine; both move on by a step at least, or end.     *)
Continue(engine, markets, run, state) ==
    IF state.over \/ Enough(run, state) THEN state
    ELSE IF engine = "python" THEN PythonStep(markets, run, state) ELSE NumbaStep(markets, run, state)
Run(engine, markets, run, position) ==
    LET after[n \in 0 .. Len(markets) + 1] ==
            IF n = 0 THEN Start(position) ELSE Continue(engine, markets, run, after[n - 1])
    IN  RecordFinalMarket([after[Len(markets) + 1] EXCEPT !.over = FALSE])

-----------------------------------------------------------------------------
(* attach_entry_signals, entry_signal: of a row whose signal was not kept.   *)
EntrySignal(m) ==
    LET v == PricingValuesFromBbo(m, m.future.t)
    IN  IF /\ AtLeast(v.longPct, Pair.entryThreshold) /\ Above(v.longTicks, Pair.minTicks)
           /\ m.spot.askSize >= Pair.stockMinAsk /\ m.future.bidSize >= Pair.futureMinBid
        THEN "LONG"
        ELSE IF /\ Pair.allowShort
                /\ AtLeast(Neg(Pair.entryThreshold), v.shortPct) /\ Above(v.shortTicks, Pair.minTicks)
                /\ m.spot.bidSize >= Pair.stockMinBid /\ m.future.askSize >= Pair.futureMinAsk
        THEN "SHORT" ELSE "HOLD"
=============================================================================
