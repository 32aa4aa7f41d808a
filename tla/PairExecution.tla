---------------------------- MODULE PairExecution ----------------------------
(***************************************************************************)
(* One pair replayed by HbtPairBacktester on the slim engine, event by      *)
(* event (future_spot/arbitrage/hbt_backtest.py): each local feed row may    *)
(* give a signal, and a signal sends the first leg, waits, checks again,     *)
(* sends the second leg, and flattens the first one when that fails.         *)
(* Every call of the engine is one step.                                     *)
(*                                                                         *)
(* The engine is taken by its contract (SlimEngine models it): an order     *)
(* reaches the exchange after the entry latency of its leg, is executed     *)
(* whole or not at all there, and is answered after the response latency;   *)
(* a wait ends with the answer or at its deadline; an elapse is refused     *)
(* when its target lies beyond all that is left of the data and the         *)
(* answers.  Prices are abstracted: an order fills or not, the profit       *)
(* check holds or not.                                                      *)
(***************************************************************************)
EXTENDS ExecutionReport, Sums

CONSTANTS
    Configs,        \* set of HbtPairBacktestConfig, as records (see MCPair)
    Sides, MaxPairs, Interval, MaxSteps, Times    \* as in PairSession

Legs == {"stock", "future"}

\* Latencies and stamps are those the engine accepts; the interval is parsed
\* as not negative, and the feed's timeout and poll step are clamped.
ASSUME ConfigsAssumption ==
    /\ Sides \subseteq {"LONG", "SHORT"} /\ Times \subseteq Nat
    /\ MaxSteps \in Int /\ MaxPairs \in Int /\ Interval \in Nat
    /\ \A c \in Configs :
         /\ c.first \in Legs /\ c.rows \in [Legs -> SUBSET Nat]
         /\ c.enter \in [Legs -> Nat] /\ c.respond \in [Legs -> Nat]
         /\ {c.timeout, c.delay, c.maxTrades} \subseteq Int /\ {c.feedTimeout, c.poll} \subseteq Nat
         /\ c.check \in BOOLEAN /\ c.flatten \in BOOLEAN

Other(leg) == IF leg = "stock" THEN "future" ELSE "stock"

VARIABLES
    config,     \* the pair's configuration, which never changes
    clock,      \* engine: current_timestamp
    rows,       \* engine: times of the local rows of each leg still to come
    late,       \* engine: times of answers still to come
    step,       \* _coordinated_step
    pc,         \* where the session is
    event,      \* _coordinated_pending, kept until its pair order is over
    trade,      \* locals of _execute_signal
    position,   \* PairPosition
    net,        \* what the exchange executed of each leg, in units of the pair
    log,        \* rows of the execution table
    filled      \* what the last resolve returned

engine == <<clock, rows, late>>
vars == <<config, clock, rows, late, step, pc, event, trade, position, net, log, filled>>

(* Units of a leg that the fill columns of one row, or of the whole table,  *)
(* show executed; and those of the rows that opened or closed no pair.      *)
Units(f, l) == IF f.leg = l /\ f.filled THEN f.sign ELSE 0
Executed(fills, l) == SumTo([k \in DOMAIN fills |-> Units(fills[k], l)], Len(fills))
Audited(table, l) == SumTo([i \in DOMAIN table |-> Executed(table[i].fills, l)], Len(table))
Unhedged(r) == IF r.status = "FILLED" THEN 0 ELSE Executed(r.fills, "stock") + Executed(r.fills, "future")
Naked(table) == SumTo([i \in DOMAIN table |-> Unhedged(table[i])], Len(table))

abs == [phase |-> IF pc \in {"over", "failed"} THEN pc ELSE "open",
        steps |-> step,
        busy |-> IF event.signal # "NONE" THEN event.ts ELSE clock,
        event |-> event,
        pairs |-> position.direction * position.quantity,
        naked |-> Naked(log),
        entered |-> position.entered,
        filled |-> filled]
Session == INSTANCE PairSession WITH session <- abs

NoTrade == [status |-> "NONE"]
NoFill == [leg |-> "none", sign |-> 0, filled |-> FALSE]

Init ==
    /\ config \in Configs
    /\ clock = 0 /\ rows = config.rows /\ late = {}
    /\ step = 0 /\ pc = "advance" /\ event = Session!NoEvent /\ trade = NoTrade
    /\ position = [direction |-> 0, quantity |-> 0, units |-> [l \in Legs |-> 0], entered |-> Session!Never]
    /\ net = [l \in Legs |-> 0]
    /\ log = <<>> /\ filled = FALSE

-----------------------------------------------------------------------------
(* Calls of the engine. *)

Later(times, t) == {x \in times : x > t}
GoesTo(t) ==
    /\ clock' = t
    /\ rows' = [l \in Legs |-> Later(rows[l], t)]

CanElapse(d) == \E t \in rows["stock"] \cup rows["future"] \cup late : clock + d <= t
Elapse(d) == GoesTo(clock + d) /\ late' = Later(late, clock + d)

(* Submit an order and wait for its answer.  What the exchange has decided  *)
(* is seen even when the answer is still on its way at the deadline; an     *)
(* order that has not reached the exchange by then raises.                  *)
Reaches(leg) == config.enter[leg] <= config.timeout
Order(leg, sign, fill) ==
    LET back == clock + config.enter[leg] + config.respond[leg]
        until == Min({back, clock + config.timeout})
    IN  /\ Reaches(leg)
        /\ GoesTo(until)
        /\ late' = Later(late \cup {back}, until)
        /\ net' = IF fill THEN [net EXCEPT ![leg] = @ + sign] ELSE net
Fill(leg, sign, fill) == [leg |-> leg, sign |-> sign, filled |-> fill]

Raise(leg) ==
    /\ ~Reaches(leg)
    /\ pc' = "failed"
    /\ clock' = clock /\ UNCHANGED <<rows, late, event, trade, position, net, log, filled>>

-----------------------------------------------------------------------------
(* advance_coordinated_event_session: one local row, one decision.          *)

Seen(l) == rows'[l] # config.rows[l]

Advance ==
    /\ pc = "advance"
    /\ IF step >= MaxSteps \/ Len(log) >= config.maxTrades \/ \A l \in Legs : rows[l] = {}
       THEN pc' = "over" /\ UNCHANGED <<engine, step, event>>
       ELSE \E l \in Legs :
            LET t == Min(rows["stock"] \cup rows["future"]) IN
            /\ t \in rows[l]
            /\ clock' = t /\ rows' = [rows EXCEPT ![l] = @ \ {t}] /\ late' = Later(late, t)
            /\ \E g \in Session!Signals(position.direction), ok \in BOOLEAN :
                 /\ g # "HOLD" => \A k \in Legs : Seen(k)
                 /\ ok => Session!MayGo(g, position.quantity, position.entered, t)
                 /\ event' = [ts |-> t, signal |-> g, go |-> ok]
            /\ step' = step + 1 /\ pc' = "resolve"
    /\ UNCHANGED <<config, trade, position, net, log, filled>>

(* The row appended to the table now.                                       *)
Row(status, fills) ==
    [signal |-> event.signal, status |-> status, at |-> event.ts, done |-> clock', fills |-> fills]

EndsOnlyReported(status, fills) ==         \* mutant: no row when the data ends
    /\ log' = IF status = "SECOND_LEG_DELAY_END_OF_DATA" THEN log
              ELSE Append(log, Row(status, fills))
    /\ filled' = (status = "FILLED" /\ event.signal # "EXIT")
    /\ event' = Session!NoEvent /\ trade' = NoTrade /\ pc' = "advance"

EndsAnyFill(status, fills) ==              \* mutant: an exit is returned as an entry
    /\ log' = Append(log, Row(status, fills))
    /\ filled' = (status = "FILLED")
    /\ event' = Session!NoEvent /\ trade' = NoTrade /\ pc' = "advance"

(* The pair order of the event ends with this row.                          *)
Ends(status, fills) ==
    /\ log' = Append(log, Row(status, fills))
    /\ filled' = (status = "FILLED" /\ event.signal # "EXIT")
    /\ event' = Session!NoEvent /\ trade' = NoTrade /\ pc' = "advance"

(* resolve_coordinated_event_session *)
Resolve(blocked) ==
    /\ pc = "resolve"
    /\ UNCHANGED <<config, engine, step, position, net>>
    /\ IF event.signal = "HOLD"
       THEN /\ event' = Session!NoEvent /\ pc' = "advance" /\ filled' = FALSE
            /\ UNCHANGED <<trade, log>>
       ELSE IF ~event.go \/ blocked THEN Ends("RISK_SKIP", <<>>)
       ELSE /\ pc' = "first"
            /\ trade' = [status |-> "SENT", sign |-> Session!Sign(event.signal, position.direction)]
            /\ UNCHANGED <<event, log, filled>>

-----------------------------------------------------------------------------
(* _execute_signal *)

FirstLeg ==
    /\ pc = "first"
    /\ \/ \E fill \in BOOLEAN :
            LET f == Fill(config.first, trade.sign, fill) IN
            /\ Order(config.first, trade.sign, fill)
            /\ IF fill
               THEN /\ pc' = "delay" /\ trade' = [status |-> "SENT", sign |-> trade.sign, first |-> f]
                    /\ UNCHANGED <<event, log, filled>>
               ELSE Ends("FIRST_LEG_UNFILLED", <<f>>)
       \/ Raise(config.first)
    /\ UNCHANGED <<config, step, position>>

Delay ==
    /\ pc = "delay"
    /\ IF config.delay > 0 /\ ~CanElapse(config.delay)
       THEN UNCHANGED engine /\ Ends("SECOND_LEG_DELAY_END_OF_DATA", <<trade.first>>)
       ELSE /\ IF config.delay > 0 THEN Elapse(config.delay) ELSE UNCHANGED engine
            /\ pc' = "wait"
            /\ trade' = [status |-> "SENT", sign |-> trade.sign, first |-> trade.first,
                         before |-> rows', deadline |-> clock' + config.feedTimeout]
            /\ UNCHANGED <<event, log, filled>>
    /\ UNCHANGED <<config, step, position, net>>

(* _wait_post_first_feed, one round of its loop. *)
Refreshed(l) == rows[l] # trade.before[l]
FeedReady ==
    CASE config.mode = "none" -> TRUE
      [] config.mode = "any" -> \E l \in Legs : Refreshed(l)
      [] config.mode = "both" -> \A l \in Legs : Refreshed(l)
      [] OTHER -> Refreshed(config.mode)

Flattens(status, fills) ==
    /\ pc' = "flatten"
    /\ trade' = [status |-> status, sign |-> trade.sign, fills |-> fills]

Wait ==
    LET d == Min({config.poll, trade.deadline - clock}) IN
    /\ pc = "wait"
    /\ \/ FeedReady /\ pc' = "check" /\ UNCHANGED <<engine, trade>>
       \/ ~FeedReady /\ d > 0 /\ CanElapse(d) /\ Elapse(d) /\ UNCHANGED <<pc, trade>>
       \/ /\ ~FeedReady /\ (d <= 0 \/ ~CanElapse(d))
          /\ Flattens("POST_FIRST_FEED_TIMEOUT", <<trade.first, NoFill>>) /\ UNCHANGED engine
    /\ UNCHANGED <<config, step, event, position, net, log, filled>>

(* The flatten of a failed check is recorded in the second leg's columns,   *)
(* and its row has none in those of the flatten.                            *)
ProfitCheck ==
    /\ pc = "check"
    /\ \/ pc' = "second" /\ UNCHANGED trade
       \/ config.check /\ Flattens("SECOND_LEG_PROFIT_CHECK_FAILED", <<trade.first>>)
    /\ UNCHANGED <<config, engine, step, event, position, net, log, filled>>

(* _update_position, _reduce_position_after_exit *)
TowardZero(n) == n - Session!Sgn(n)
Opened(p, sign) ==
    [direction |-> sign, quantity |-> p.quantity + 1,
     units |-> [l \in Legs |-> p.units[l] + sign], entered |-> event.ts]
ClosedAtOnce(p) ==                         \* mutant: an exit closes the whole position
    [p EXCEPT !.direction = 0, !.quantity = 0, !.units = [l \in Legs |-> 0]]

Closed(p) ==
    LET q == Max({p.quantity - 1, 0}) IN
    [direction |-> IF q = 0 THEN 0 ELSE p.direction, quantity |-> q,
     units |-> [l \in Legs |-> IF q = 0 THEN 0 ELSE TowardZero(p.units[l])], entered |-> p.entered]

SecondLeg ==
    LET leg == Other(config.first) IN
    /\ pc = "second"
    /\ \/ \E fill \in BOOLEAN :
            LET fills == <<trade.first, Fill(leg, trade.sign, fill)>> IN
            /\ Order(leg, trade.sign, fill)
            /\ IF fill
               THEN /\ Ends("FILLED", fills)
                    /\ position' = IF event.signal = "EXIT" THEN Closed(position) ELSE Opened(position, trade.sign)
               ELSE Flattens("SECOND_LEG_UNFILLED", fills) /\ UNCHANGED <<event, position, log, filled>>
       \/ Raise(leg)
    /\ UNCHANGED <<config, step>>

(* _flatten_first_leg, and the row that records it behind the fills so far. *)
FlattenFirstLeg ==
    /\ pc = "flatten"
    /\ \/ /\ ~config.flatten
          /\ UNCHANGED <<engine, net>> /\ Ends(trade.status, Append(trade.fills, NoFill))
       \/ /\ config.flatten
          /\ \E fill \in BOOLEAN :
               /\ Order(config.first, -trade.sign, fill)
               /\ Ends(trade.status, Append(trade.fills, Fill(config.first, -trade.sign, fill)))
       \/ config.flatten /\ Raise(config.first)
    /\ UNCHANGED <<config, step, position>>

-----------------------------------------------------------------------------
Done == pc \in {"over", "failed"} /\ UNCHANGED vars

Next ==
    \/ Advance
    \/ \E blocked \in BOOLEAN : Resolve(blocked)
    \/ FirstLeg \/ Delay \/ Wait \/ ProfitCheck \/ SecondLeg \/ FlattenFirstLeg
    \/ Done

Spec == Init /\ [][Next]_vars

-----------------------------------------------------------------------------
(* Properties *)

(* Between pair orders, the fill columns of the execution table add up to   *)
(* what the exchange executed of each leg: no order, retried, timed out or  *)
(* flattened, is executed without a row that says so.                       *)
AuditAddsUp ==
    pc \in {"advance", "resolve", "over"} =>
        \A l \in Legs : net[l] = Audited(log, l)

(* The position is hedged whatever happened on the way: both legs hold the  *)
(* quantity in its direction, and what the exchange executed beyond it is   *)
(* the first legs the table shows filled and not undone.                    *)
PositionIsHedged ==
    /\ \A l \in Legs : position.units[l] = position.direction * position.quantity
    /\ pc \in {"advance", "resolve", "over"} =>
         \A l \in Legs : net[l] = position.units[l] + (IF l = config.first THEN Naked(log) ELSE 0)

(* The reports tell what the table tells, and the table what the exchange   *)
(* did: the executed units beyond the position are those of the listed      *)
(* failures whose first leg no other column of the row takes back, and of   *)
(* the pair orders the end of the data interrupted, which no failure table  *)
(* lists; the flattens the report counts are the failures taken back, but   *)
(* for those of the profit check, whose flatten stands in the second leg's  *)
(* columns; the summary, which names its statuses on its own, counts the    *)
(* same failures as every table of the report; each failure lies within the *)
(* rows shown around it, although the position there is the first row of    *)
(* its time; and the filled entries less the filled exits of the entry/exit *)
(* table are the open pairs.                                                *)
Undone(r) == \E k \in {2, 3} : Filled(r, k) /\ r.fills[k].leg = r.fills[1].leg
Exposure(r) == IF Filled(r, 1) /\ ~Undone(r) THEN r.fills[1].sign ELSE 0
Exposed(rs) == SumTo([i \in DOMAIN rs |-> Exposure(rs[i])], Len(rs))
Interrupted(table) == InTime(table, WithStatus(table, {"SECOND_LEG_DELAY_END_OF_DATA"}))
PairRows(table, status) == IF status \in DOMAIN ByPair(table) THEN ByPair(table)[status].rows ELSE 0
Completed(table, type) ==
    {i \in DOMAIN EntryExit(table) : EntryExit(table)[i] = [type |-> type, status |-> "FILLED"]}

FailuresAreReported ==
    LET failed == FailedTrades(log)
        sorted == InTime(log, DOMAIN log)
        windows == TradeWindows(log, 1)
    IN  pc \in {"advance", "resolve", "over"} =>
        /\ net[config.first] - position.units[config.first] = Exposed(failed) + Exposed(Interrupted(log))
        /\ Summary(log).failures = Len(failed) /\ ByDate(log).failures = ByDate(log).rows
        /\ Overview(log).flattened =
              Cardinality({n \in DOMAIN failed :
                  Undone(failed[n]) /\ failed[n].status # "SECOND_LEG_PROFIT_CHECK_FAILED"})
        /\ Overview(log).rows =
              PairRows(log, "SECOND_LEG_UNFILLED") + PairRows(log, "SECOND_LEG_PROFIT_CHECK_FAILED")
              + PairRows(log, "POST_FIRST_FEED_TIMEOUT")
        /\ \A n \in DOMAIN windows : \E i \in windows[n].from .. windows[n].to : sorted[i] = failed[n]
        /\ Cardinality(Completed(log, "entry_execution")) - Cardinality(Completed(log, "exit_execution"))
              = position.quantity

(* The session keeps the promises of PairSession: one event at a time, each *)
(* decided no earlier than the end of the last pair order, and every pair   *)
(* order, with its orders, waits and failures, is one step of that module.  *)
ImplementsSession == Session!Spec

=============================================================================
