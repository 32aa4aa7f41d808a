----------------------------- MODULE PaperReplay -----------------------------
(***************************************************************************)
(* Paper trading on recorded quotes.  A feed thread plays two tables of     *)
(* quotes, one of the stock and one of the future, in time order and queues *)
(* one update, with a snapshot of all quotes, per price change; the driver  *)
(* takes the updates off, decides on the snapshot and executes on paper.    *)
(* A pair order takes time: its legs are priced with the quotes in force    *)
(* one, two or three latencies after the quote that triggered it.           *)
(*                                                                         *)
(* One pair; a quote is [t, bid, ask, bidSize, askSize, trial], t in steps  *)
(* of the latencies' unit.                                                  *)
(***************************************************************************)
EXTENDS PairStrategy, Sequences, SequencesExt

CONSTANTS
    Tables,         \* pairs [stock, future] of recorded tables, in time order
    Opens, Closes,  \* session_start_time and session_end_time
    FilterTrial,    \* historical.stock.filter_trial_status
    Latencies,      \* [send, report]: send_order_latency_ms, match_order_report_latency_ms
    MaxAge,         \* max_quote_age_sec, or Unset
    ProfitCheck     \* second_leg_profit_check

Legs == {"stock", "future"}
Quotes == [t : Nat, bid : Int, ask : Int, bidSize : Int, askSize : Int, trial : BOOLEAN]
InTimeOrder(rows) == \A i, j \in DOMAIN rows : i <= j => rows[i].t <= rows[j].t

\* the order _load_events sorts the rows into
ASSUME TablesAssumption ==
    \A tables \in Tables : \A leg \in Legs : tables[leg] \in Seq(Quotes) /\ InTimeOrder(tables[leg])
ASSUME LatenciesAssumption == Latencies \subseteq [send : Nat, report : Nat]
ASSUME SessionAssumption == Opens \in Nat /\ Closes \in Nat
ASSUME MaxAgeAssumption == MaxAge = Unset \/ MaxAge \in Int

Other(leg) == IF leg = "stock" THEN "future" ELSE "stock"
NoQuote == [t |-> -1]

VARIABLES
    latency,        \* the latencies of this replay, one of Latencies
    events,         \* the rows that are replayed, per leg (_events, _quote_timelines)
    fed,            \* stamps up to this one are published
    putting,        \* updates the feed has made and not yet queued
    quotes,         \* _stock_quotes and _future_quotes
    queue,          \* _quote_updates
    finished,       \* _finished
    stop,           \* stop_event
    driver,         \* where the driver is in its loop
    active,         \* the update being evaluated, with its snapshot
    position, trades,
    cooldown,       \* _paper_latency_cooldown_until
    evaluated       \* history: the updates taken off the queue

feedVars == <<fed, putting, quotes, finished>>
bookVars == <<position, trades, cooldown>>
vars == <<latency, events, feedVars, queue, stop, driver, active, bookVars, evaluated>>

Send == latency.send
Report == latency.report

-----------------------------------------------------------------------------
(* Loading: rows outside the session and unpriced ones are left out, but    *)
(* trial rows of the stock stay, to block trading while they last.          *)
Kept(leg, row) ==
    /\ row.t \in Opens .. Closes
    /\ (row.bid > 0 /\ row.ask > 0) \/ (leg = "stock" /\ row.trial)
KeptRows(leg, rows) ==
    LET kept[n \in 0 .. Len(rows)] ==
            IF n = 0 THEN <<>>
            ELSE IF Kept(leg, rows[n]) THEN Append(kept[n - 1], rows[n]) ELSE kept[n - 1]
    IN  kept[Len(rows)]
Loaded(tables) == [leg \in Legs |-> KeptRows(leg, tables[leg])]

Trial(leg, quote) == leg = "stock" /\ FilterTrial /\ quote.trial

QuoteAtTrial(leg, t) ==
    LET i == Cardinality({k \in DOMAIN events[leg] : events[leg][k].t <= t})
    IN  IF i = 0 THEN NoQuote ELSE events[leg][i]

(* The quote of a leg at a time, by bisection of its timeline.              *)
QuoteAt(leg, t) ==
    LET i == Cardinality({k \in DOMAIN events[leg] : events[leg][k].t <= t})
    IN  IF i = 0 THEN NoQuote
        ELSE LET q == events[leg][i]
             IN  IF Trial(leg, q) \/ q.bid <= 0 \/ q.ask <= 0 THEN NoQuote ELSE q

\* what the trigger's raw row tells about a leg, an offset after the trigger
LatencyQuote(leg, signalled, offset) == QuoteAt(leg, signalled + offset)

FreshAt(quote, t) ==
    /\ quote # NoQuote
    /\ MaxAge = Unset \/ t - quote.t \in 0 .. MaxAge

-----------------------------------------------------------------------------
(* The feed: all rows of one stamp are placed, then each leg whose prices   *)
(* changed gives one update; the updates are queued after the lock.         *)
Stamps == UNION {{events[leg][k].t : k \in DOMAIN events[leg]} : leg \in Legs}
Ahead == {t \in Stamps : t > fed}

Changed(leg, old, new) ==
    \/ old = NoQuote
    \/ <<old.bid, old.ask>> # <<new.bid, new.ask>>
    \/ leg = "stock" /\ old.trial # new.trial

UpdateTimestampGroup ==
    /\ ~finished /\ ~stop /\ putting = <<>> /\ Ahead # {}
    /\ LET t == Min(Ahead)
           rows(leg) == {k \in DOMAIN events[leg] : events[leg][k].t = t}
           placed == [leg \in Legs |-> IF rows(leg) = {} THEN quotes[leg] ELSE events[leg][Max(rows(leg))]]
           updates(leg) == IF rows(leg) # {} /\ Changed(leg, quotes[leg], placed[leg])
                           THEN <<[source |-> leg, quotes |-> placed]>> ELSE <<>>
       IN  /\ fed' = t
           /\ quotes' = placed
           /\ putting' = updates("stock") \o updates("future")
    /\ UNCHANGED <<latency, events, finished, queue, stop, driver, active, bookVars, evaluated>>

PutUpdate ==
    /\ putting # <<>>
    /\ queue' = Append(queue, Head(putting))
    /\ putting' = Tail(putting)
    /\ UNCHANGED <<latency, events, fed, quotes, finished, stop, driver, active, bookVars, evaluated>>

FeedEndsBeforePut ==
    /\ ~finished
    /\ stop \/ Ahead = {}
    /\ finished' = TRUE
    /\ UNCHANGED <<latency, events, fed, putting, quotes, queue, stop, driver, active, bookVars, evaluated>>

FeedEnds ==
    /\ ~finished /\ putting = <<>>
    /\ stop \/ Ahead = {}
    /\ finished' = TRUE
    /\ UNCHANGED <<latency, events, fed, putting, quotes, queue, stop, driver, active, bookVars, evaluated>>

-----------------------------------------------------------------------------
(* Paper execution.  The leg that triggered goes first, at the price it      *)
(* shows; the outcome is one of "skip", "fill" and "flatten".               *)
LegQuote(m, leg) == IF leg = "stock" THEN m.spot ELSE m.future
EventTime(m, first) == LegQuote(m, first).t
WithLegs(first, q1, q2) == [spot |-> IF first = "stock" THEN q1 ELSE q2,
                            future |-> IF first = "stock" THEN q2 ELSE q1]

Fillable(signal, direction, leg, limit, quote) ==
    /\ BookTakes(signal, direction, leg, quote)
    /\ IF Buys(signal, direction, leg) THEN quote.ask <= limit ELSE quote.bid >= limit

SecondLimit(signal, direction, leg, m) ==
    LET buy == Buys(signal, direction, leg)
        base == SidePrice(buy, LegQuote(m, leg))
        tick == PairLegTickSize(leg, base, LegQuote(m, leg).t)
        offset == tick * Pair.secondOffset
    IN  IF offset = 0 THEN base ELSE IF buy THEN base + offset ELSE Max({base - offset, tick})

SecondLegProfitOk(signal, m) ==
    AtLeast(EntryBasis(signal, m),
            IF Pair.secondThreshold = Unset THEN Pair.entryThreshold ELSE Pair.secondThreshold)

Skip == [outcome |-> "skip"]

(* The first leg cannot be undone but at a price of its own: it is sold, or  *)
(* bought back, at a later quote, and without one the loss stays unknown.    *)
Flatten(signal, first, quote, signalled, offset, reason) ==
    LET buy == Buys(signal, position.direction, first)
        t == signalled + offset
        found == LatencyQuote(first, signalled, offset)
        out == IF FreshAt(found, t) THEN found ELSE NoQuote
        entry == SidePrice(buy, quote)
        exit == SidePrice(~buy, out)
    IN  [outcome |-> "flatten", reason |-> reason, at |-> t, entry |-> quote, exit |-> out,
         gross |-> IF out = NoQuote THEN Unset ELSE FlattenGross(first, buy, entry, exit),
         cost |-> IF out = NoQuote THEN Unset ELSE FlattenCost(first, buy, entry, exit)]

FirstLegMissed(signal, first, m, q1) ==
    LET signalled == EventTime(m, first)
        direction == position.direction
    IN  \/ signalled < cooldown
        \/ ~FreshAt(q1, signalled + Send)
        \/ ~Fillable(signal, direction, first,
                     SidePrice(Buys(signal, direction, first), LegQuote(m, first)), q1)

(* The second leg is sent when the first one's fill is reported.             *)
SecondLeg(signal, first, signalled, q1, seen) ==
    LET second == Other(first)
        sent == 2 * Send + Report
        late == sent + Report + Send
        q2 == LatencyQuote(second, signalled, sent)
        limit == SecondLimit(signal, position.direction, second, seen)
    IN  IF ProfitCheck /\ signal # "EXIT" /\ ~SecondLegProfitOk(signal, seen)
        THEN Flatten(signal, first, q1, signalled, sent, "SECOND_LEG_PROFIT_CHECK_FAILED")
        ELSE IF ~FreshAt(q2, signalled + sent)
        THEN Flatten(signal, first, q1, signalled, late, "SECOND_LEG_QUOTE")
        ELSE IF ~Fillable(signal, position.direction, second, limit, q2)
        THEN Flatten(signal, first, q1, signalled, late, "SECOND_LEG_NOT_FILLABLE")
        ELSE [outcome |-> "fill", market |-> WithLegs(first, q1, q2)]

PaperMarketAfterLatency(signal, first, m) ==
    LET signalled == EventTime(m, first)
        q1 == LatencyQuote(first, signalled, Send)
        decided == Send + Report
        decision == [leg \in Legs |-> LatencyQuote(leg, signalled, decided)]
    IN  IF Send = 0 /\ Report = 0 THEN [outcome |-> "fill", market |-> m]
        ELSE IF FirstLegMissed(signal, first, m, q1) THEN Skip
        ELSE IF \E leg \in Legs : ~FreshAt(decision[leg], signalled + decided)
        THEN Flatten(signal, first, q1, signalled, decided + Send, "MISSING_DECISION_QUOTE")
        ELSE SecondLeg(signal, first, signalled, q1, WithLegs(first, q1, decision[Other(first)]))

TradeReason(signal, m) ==
    IF signal # "EXIT" THEN "ENTRY"
    ELSE IF HitStopLoss(position, m) THEN "STOP_LOSS" ELSE "EXIT_THRESHOLD"

BuildTradeRecord(signal, first, m, signalled) ==
    LET direction == position.direction
        price(leg) == SidePrice(Buys(signal, direction, leg), LegQuote(m, leg))
        pairs == IF signal = "EXIT" THEN ExitMultiplier(position, m) ELSE 1
    IN  [kind |-> "pair", signal |-> signal, pairs |-> pairs, trigger |-> first, market |-> m,
         signalled |-> signalled,
         buysStock |-> Buys(signal, direction, "stock"),
         spot |-> price("stock"), future |-> price("future"),
         reason |-> TradeReason(signal, m),
         gross |-> IF signal = "EXIT" THEN GrossPnl(position, price("stock"), price("future"), pairs)
                                      ELSE Unset,
         cost |-> IF signal = "EXIT" THEN StockCost(position, price("stock"), pairs) ELSE Unset]

WeightedAverage(old, weight, new) ==
    IF old = Unset \/ weight = 0 THEN new
    ELSE LET sum == Plus(Scaled(old, weight), new) IN Frac(sum.n, sum.d * (weight + 1))

AfterExitOfAll(m) == [Flat EXCEPT !.entered = position.entered]

AfterExit(m) ==
    LET pairs == ExitMultiplier(position, m)
        toward(units) == IF position.direction = "LONG" THEN Max({units - pairs, 0})
                                                        ELSE Min({units + pairs, 0})
        left == [position EXCEPT !.stockUnits = toward(@), !.futureUnits = toward(@),
                                 !.quantity = Max({@ - pairs, 0})]
    IN  IF pairs = 0 THEN position
        ELSE IF left.quantity = 0 \/ left.stockUnits = 0 \/ left.futureUnits = 0
             THEN [Flat EXCEPT !.entered = position.entered]
             ELSE left
AfterEntry(signal, m, now) ==
    LET n == position.quantity
        unit == IF signal = "LONG" THEN 1 ELSE -1
        price(leg) == Whole(SidePrice(Buys(signal, "HOLD", leg), LegQuote(m, leg)))
    IN  [quantity |-> n + 1, direction |-> signal,
         basis |-> WeightedAverage(position.basis, n, EntryBasis(signal, m)),
         spot |-> WeightedAverage(position.spot, n, price("stock")),
         future |-> WeightedAverage(position.future, n, price("future")),
         stockUnits |-> position.stockUnits + unit, futureUnits |-> position.futureUnits + unit,
         entered |-> now]

(* ExecutionEngine.execute in PAPER mode.                                   *)
Execute(signal, first, m) ==
    LET done == PaperMarketAfterLatency(signal, first, m)
    IN  CASE done.outcome = "skip" -> UNCHANGED bookVars
          [] done.outcome = "flatten" ->
               /\ trades' = Append(trades, [kind |-> "flatten", trigger |-> first, result |-> done,
                                            signalled |-> EventTime(m, first)])
               /\ cooldown' = IF Pair.cooldown = 0 THEN cooldown
                              ELSE Max({cooldown, done.at + Pair.cooldown})
               /\ UNCHANGED position
          [] done.outcome = "fill" ->
               /\ trades' = Append(trades,
                      BuildTradeRecord(signal, first, done.market, EventTime(m, first)))
               /\ position' = IF signal = "EXIT" THEN AfterExit(done.market)
                              ELSE AfterEntry(signal, done.market, EventTime(done.market, first))
               /\ UNCHANGED cooldown

-----------------------------------------------------------------------------
(* The driver: it stops when is_finished says so, and otherwise waits for    *)
(* an update and evaluates the pair on its snapshot.                        *)
IsFinished ==
    /\ driver = "look"
    /\ driver' = IF finished THEN "flagged" ELSE "get"
    /\ UNCHANGED <<latency, events, feedVars, queue, stop, active, bookVars, evaluated>>
IsFinishedQueue ==
    /\ driver = "flagged"
    /\ driver' = IF queue = <<>> THEN "done" ELSE "get"
    /\ UNCHANGED <<latency, events, feedVars, queue, stop, active, bookVars, evaluated>>

WaitForUpdate ==
    /\ driver = "get" /\ queue # <<>>
    /\ active' = Head(queue) /\ queue' = Tail(queue)
    /\ evaluated' = Append(evaluated, active')
    /\ driver' = "evaluate"
    /\ UNCHANGED <<latency, events, feedVars, stop, bookVars>>
WaitTimesOut ==
    /\ driver = "get" /\ queue = <<>>
    /\ driver' = "look"
    /\ UNCHANGED <<latency, events, feedVars, queue, stop, active, bookVars, evaluated>>

(* get_pair_market refuses a market with a leg missing, or a trial stock.    *)
MarketReady(m) == \A leg \in Legs : m[leg] # NoQuote /\ ~Trial(leg, m[leg])

EvaluatePair ==
    /\ driver = "evaluate"
    /\ LET first == active.source
           m == [spot |-> active.quotes["stock"], future |-> active.quotes["future"]]
           signal == Evaluate(position, m)
       IN  IF MarketReady(active.quotes) /\ signal # "HOLD"
              /\ Allowed(signal, position, m, EventTime(m, first))
           THEN Execute(signal, first, m)
           ELSE UNCHANGED bookVars
    /\ driver' = "look"
    /\ UNCHANGED <<latency, events, feedVars, queue, stop, active, evaluated>>

Close ==
    /\ ~stop /\ driver # "done"
    /\ stop' = TRUE
    /\ UNCHANGED <<latency, events, feedVars, queue, driver, active, bookVars, evaluated>>

-----------------------------------------------------------------------------
Init ==
    /\ latency \in Latencies
    /\ \E tables \in Tables : events = Loaded(tables)
    /\ \E leg \in Legs : events[leg] # <<>>
    /\ fed = -1 /\ putting = <<>> /\ quotes = [leg \in Legs |-> NoQuote]
    /\ queue = <<>> /\ finished = FALSE /\ stop = FALSE
    /\ driver = "look" /\ active = NoQuote
    /\ position = Flat /\ trades = <<>> /\ cooldown = 0
    /\ evaluated = <<>>

Feed == UpdateTimestampGroup \/ PutUpdate \/ FeedEnds
Driver == IsFinished \/ IsFinishedQueue \/ WaitForUpdate \/ WaitTimesOut \/ EvaluatePair
Next == Feed \/ Driver \/ Close

Spec == Init /\ [][Next]_vars

-----------------------------------------------------------------------------
(* The row of a leg in force at a time, read off the table itself.           *)
InForce(leg, t) ==
    LET upTo == {k \in DOMAIN events[leg] : events[leg][k].t <= t}
    IN  IF upTo = {} THEN NoQuote ELSE events[leg][Max(upTo)]

(* The price changes of the recorded day: at each instant, the legs whose    *)
(* prices, or whose trial flag, differ from the instant before.             *)
ChangesAt(t) ==
    LET now == [leg \in Legs |-> InForce(leg, t)]
        differ(leg) == /\ now[leg] # InForce(leg, t - 1)
                       /\ Changed(leg, InForce(leg, t - 1), now[leg])
        one(leg) == IF differ(leg) THEN <<[source |-> leg, quotes |-> now]>> ELSE <<>>
    IN  one("stock") \o one("future")
ChangesBefore(n) ==
    LET upTo[k \in 0 .. n] == IF k = 0 THEN <<>> ELSE upTo[k - 1] \o ChangesAt(k - 1)
    IN  upTo[n]
Changes == ChangesBefore(Closes + 1)

(* The driver evaluates every price change of the day, each once, in time    *)
(* order and on the quotes of its own time, however far the feed thread has  *)
(* run ahead; it stops before the last one only if it is stopped            *)
(* (providers.py: the snapshots of _update_timestamp_group, is_finished).    *)
EveryChangeIsEvaluated ==
    /\ IsPrefix(evaluated, Changes)
    /\ driver = "done" /\ ~stop => evaluated = Changes

(* A pair is filled, and a first leg flattened, at prices that were in force *)
(* at the very time each order reaches the market, never at a price of a     *)
(* trial match nor at one that is too old (strategy.py                       *)
(* _paper_market_after_latency, providers.py _quote_from_timelines_at).      *)
Real(leg, quote, t) ==
    /\ quote = InForce(leg, t)
    /\ ~Trial(leg, quote)
    /\ MaxAge # Unset /\ Send + Report > 0 => t - quote.t <= MaxAge
FillsAreInForce ==
    \A i \in DOMAIN trades :
        LET trade == trades[i]
            first == trade.trigger
            sent == trade.signalled + Send
        IN  IF trade.kind = "pair"
            THEN /\ Real(first, LegQuote(trade.market, first), sent)
                 /\ Real(Other(first), LegQuote(trade.market, Other(first)), sent + Report + Send)
            ELSE /\ Real(first, trade.result.entry, sent)
                 /\ trade.result.exit # NoQuote => Real(first, trade.result.exit, trade.result.at)

(* The money the pair trades moved is the profit they report and what the    *)
(* open pairs stand in the books for: an average entry price that drifted,   *)
(* or a closed quantity other than the recorded one, breaks the sum          *)
(* (strategy.py _build_trade_record against _update_paper_position).         *)
Moved(trade) ==
    LET stock == trade.spot * Pair.spotQty * trade.pairs
        future == trade.future * Pair.futureMultiplier * Pair.futureQty * trade.pairs
    IN  IF trade.buysStock THEN future - stock ELSE stock - future
Sum(of(_)) ==
    FoldLeft(LAMBDA sum, trade : IF trade.kind = "pair" THEN Plus(sum, of(trade)) ELSE sum,
             Zero, trades)
OpenCost ==
    IF ~HasPosition(position) THEN Zero
    ELSE LET stock == Scaled(position.spot, Pair.spotQty * position.stockUnits)
             future == Scaled(position.future, Pair.futureMultiplier * Pair.futureQty * position.futureUnits)
         IN  Minus(future, stock)
CashIsAccounted ==
    Sum(LAMBDA trade : Whole(Moved(trade)))
        = Plus(Sum(LAMBDA trade : IF trade.gross = Unset THEN Zero ELSE trade.gross), OpenCost)
=============================================================================
