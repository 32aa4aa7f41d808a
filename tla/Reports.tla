-------------------------------- MODULE Reports --------------------------------
(***************************************************************************)
(* The cash and return reports of the completed pair orders                 *)
(* (full_market_runner.py, build_cash_roi_outputs), the filtered report      *)
(* over several intervals of dates (backtest_report.py, result_replot.py),   *)
(* and the tables read from the saved files in chunks (report_tables.py).    *)
(* A run is a date and a key; amounts are in units of 1/Scale; prices of the *)
(* n-th order of a run differ from those of its other orders.                *)
(***************************************************************************)
EXTENDS Portfolio, FiniteSetsExt, SequencesExt

CONSTANTS
    Quote,          \* key -> [spot, future, shares, multiplier, mark, gain]
    FlattenGain,    \* run -> what its failed pair orders, whose first leg was flattened, realized
    FeeRate, TaxRate,           \* of a stock trade, in 1/Scale
    Intervals,      \* sequence of [from, to, excluded]
    SampleRows      \* rows of the latency sample

RunOf(f) == <<f.date, f.key>>

(* Places of the orders of a run, and of those with a signal.               *)
OrdersOf(fs, r) == {i \in DOMAIN fs : RunOf(fs[i]) = r}
Signalled(fs, r, signal) == {i \in OrdersOf(fs, r) : fs[i].signal = signal}

Total(fs, places, Amount(_)) == MapThenSumSet(LAMBDA i : Amount(fs[i]), places)

(* The table itself, worked out once.                                       *)
Table(f) == f @@ <<>>

(* Sums of the named columns over rows S of a table.                        *)
Summed(table, S, columns) ==
    Table([column \in columns |-> MapThenSumSet(LAMBDA r : table[r][column], S)])

-----------------------------------------------------------------------------
(* Cash tied up, open lots and returns, by run.  An entry short the spot    *)
(* ties up nothing; exits count for a run only when it has an entry.        *)

StockNotional(f) == (Quote[f.key].spot + f.nth) * Quote[f.key].shares
FuturePrice(f) == Quote[f.key].future + f.nth
CashOut(f) == StockNotional(f) * (Scale + FeeRate)
CashIn(f) == StockNotional(f) * (Scale - FeeRate - TaxRate)
Realized(f) == (Quote[f.key].gain - f.nth) * Scale

OpenPairs(fs, r) == Cardinality(Signalled(fs, r, "LONG")) - Cardinality(Signalled(fs, r, "EXIT"))

StuckCashByPair(fs) ==
    [r \in {RunOf(fs[i]) : i \in {j \in DOMAIN fs : fs[j].signal = "LONG"}} |->
        LET entries == Signalled(fs, r, "LONG")
            exits == Signalled(fs, r, "EXIT")
        IN  [entries |-> Cardinality(entries), exits |-> Cardinality(exits),
             open |-> OpenPairs(fs, r),
             out |-> Total(fs, entries, CashOut),
             stuck |-> Total(fs, entries, CashOut) - Total(fs, exits, CashIn)]]

OpenLotsNewest(fs, r) ==                   \* mutant: an exit closes the newest lot
    LET f[n \in 0..Len(fs)] ==
            IF n = 0 THEN <<>>
            ELSE IF n \in Signalled(fs, r, "LONG") THEN Append(f[n - 1], n)
            ELSE IF n \in Signalled(fs, r, "EXIT") /\ f[n - 1] # <<>> THEN Front(f[n - 1])
            ELSE f[n - 1]
    IN  f[Len(fs)]

(* open_entry_lots: places of entries of the run itself, first in first out. *)
OpenEntryLots(fs, r) ==
    LET f[n \in 0..Len(fs)] ==
            IF n = 0 THEN <<>>
            ELSE IF n \in Signalled(fs, r, "LONG") THEN Append(f[n - 1], n)
            ELSE IF n \in Signalled(fs, r, "EXIT") /\ f[n - 1] # <<>> THEN Tail(f[n - 1])
            ELSE f[n - 1]
    IN  f[Len(fs)]

(* What an open lot earns if both legs converge at the last spot bid.       *)
LockedPnl(f) ==
    LET q == Quote[f.key]
        exit == q.mark * q.shares
    IN  (FuturePrice(f) * q.multiplier - StockNotional(f) + q.mark * (q.shares - q.multiplier)) * Scale
          - StockNotional(f) * FeeRate - exit * (FeeRate + TaxRate)

ExitGain(fs, r) == Total(fs, Signalled(fs, r, "EXIT"), Realized)

Returns(stuck, realized, locked) ==
    stuck @@ [realized |-> realized, locked |-> locked, total |-> realized + locked]
RoiByPair(fs) ==
    LET stuck == StuckCashByPair(fs) IN
    [r \in DOMAIN stuck |-> Returns(stuck[r], ExitGain(fs, r),
                                    Total(fs, ToSet(OpenEntryLots(fs, r)), LockedPnl))]

RoiColumns == {"entries", "exits", "open", "out", "stuck", "realized", "locked", "total"}

(* daily_roi_including_open joined with daily_stuck_cash: dates with an     *)
(* entry.                                                                   *)
DailyRoi(pairs) ==
    [d \in {r[1] : r \in DOMAIN pairs} |-> Summed(pairs, {r \in DOMAIN pairs : r[1] = d}, RoiColumns)]

(* The realized amount of a run's summary row is over all the rows of its   *)
(* execution table: the exits and the failed pair orders that were flattened. *)
RowsGain(fs, r) == ExitGain(fs, r) + FlattenGain[r]

(* The summary table: one row of each run that ended.                       *)
SummaryTable(fs, days) ==
    [r \in UNION {{<<days[i].date, k>> : k \in days[i].ran} : i \in DOMAIN days} |->
        [realized |-> RowsGain(fs, r), filled |-> Cardinality(OrdersOf(fs, r))]]

-----------------------------------------------------------------------------
(* The report over intervals. *)

Covers(interval, d) == interval.from <= d /\ d <= interval.to

(* _scope_frame; intervals that share a row are refused.                    *)
Scoped(dates) ==
    {d \in dates : \E i \in DOMAIN Intervals : Covers(Intervals[i], d) /\ d \notin Intervals[i].excluded}
IntervalDates(dates, i) == {d \in Scoped(dates) : Covers(Intervals[i], d)}

DatesOf(table) == {r[1] : r \in DOMAIN table}
DailyPerformance(summary, dates) ==
    [d \in dates |-> Summed(summary, {r \in DOMAIN summary : r[1] = d}, {"realized", "filled"})]

NoRoi == [column \in RoiColumns |-> 0]

DailyReportOfReturns(summary, roi) ==      \* mutant: dates without an entry are dropped
    [d \in Scoped(DatesOf(summary)) \cap DOMAIN roi |->
        [traded |-> DailyPerformance(summary, {d})[d].realized] @@ roi[d]]

(* _build_daily_performance: a date of the summary without returns has none. *)
DailyReport(summary, roi) ==
    [d \in Scoped(DatesOf(summary)) |->
        [traded |-> DailyPerformance(summary, {d})[d].realized]
            @@ IF d \in DOMAIN roi THEN roi[d] ELSE NoRoi]

MonthlyReport(summary, roi) ==
    [i \in DOMAIN Intervals |->
        LET observed == IntervalDates(DatesOf(summary), i)
            active == IntervalDates(DOMAIN roi, i)
        IN  [observed |-> Cardinality(observed), active |-> Cardinality(active),
             traded |-> MapThenSumSet(LAMBDA d : DailyPerformance(summary, observed)[d].realized, observed),
             winning |-> Cardinality({d \in active : roi[d].total > 0})]
                @@ Summed(roi, active, RoiColumns)]

SymbolReport(pairs) ==
    LET kept == {r \in DOMAIN pairs : r[1] \in Scoped(DatesOf(pairs))} IN
    [k \in {r[2] : r \in kept} |-> Summed(pairs, {r \in kept : r[2] = k}, RoiColumns)]

ExcludedDates(summary) ==
    [e \in UNION {{<<i, d>> : d \in Intervals[i].excluded} : i \in DOMAIN Intervals} |->
        [found |-> e[2] \in DatesOf(summary), removed |-> DailyPerformance(summary, {e[2]})[e[2]].realized]]

(* Running sums of the daily totals, in order of dates.                     *)
Cumulative(daily) ==
    LET f[n \in 0..Cardinality(DOMAIN daily)] ==
        MapThenSumSet(LAMBDA d : daily[d].total, {d \in DOMAIN daily : Cardinality({e \in DOMAIN daily : e <= d}) <= n})
    IN  f

DeepestFall(sums) ==
    IF DOMAIN sums = {0} THEN 0
    ELSE Min({sums[n] - Max({sums[m] : m \in 0..n}) : n \in DOMAIN sums \ {0}})

Headline(roi, daily, excluded) ==
    [drawdown |-> DeepestFall(Table(Cumulative(daily))),
     traded |-> MapThenSumSet(LAMBDA d : daily[d].traded, DOMAIN daily),
     removed |-> MapThenSumSet(LAMBDA e : excluded[e].removed, DOMAIN excluded)]
        @@ Summed(roi, Scoped(DOMAIN roi), RoiColumns)

(* build_backtest_report, without the capital tables of CapitalReplay and    *)
(* the coverage of the configurations; checks are its validation checks.     *)
Checks(monthly, headline, excluded, days) ==
    [monthly |-> Summed(monthly, DOMAIN monthly, {"total"}).total = headline.total,
     excluded |-> \A e \in DOMAIN excluded : excluded[e].found,
     expiry |-> \A i \in DOMAIN days : days[i].date \in Scoped({days[i].date}) => days[i].lost = {}]

ReportOf(tables, headline, days) ==
    tables @@ [headline |-> headline, checks |-> Checks(tables.monthly, headline, tables.excluded, days)]

ReportTables(pairs, roi, summary) ==
    [pairs |-> pairs, roi |-> roi, summary |-> summary,
     daily |-> Table(DailyReport(summary, roi)), monthly |-> Table(MonthlyReport(summary, roi)),
     excluded |-> Table(ExcludedDates(summary)), symbols |-> Table(SymbolReport(pairs))]

PairReport(pairs, summary, days) ==
    LET HeadedReport(tables) == ReportOf(tables, Headline(tables.roi, tables.daily, tables.excluded), days)
    IN  HeadedReport(ReportTables(pairs, Table(DailyRoi(pairs)), summary))

Report(fs, days) == PairReport(Table(RoiByPair(fs)), Table(SummaryTable(fs, days)), days)

-----------------------------------------------------------------------------
(* Tables read in chunks of n rows; a row is [run, at, value, failed].      *)

Chunks(rs, n) ==
    [i \in 1..((Len(rs) + n - 1) \div n) |-> SubSeq(rs, (i - 1) * n + 1, Min({i * n, Len(rs)}))]

(* The last row of each run by time, the last in the file of equal times.   *)
LatestOf(rs) ==
    [run \in {rs[i].run : i \in DOMAIN rs} |->
        LET own == SelectSeq(rs, LAMBDA r : r.run = run)
            last == Max({own[i].at : i \in DOMAIN own})
        IN  Last(SelectSeq(own, LAMBDA r : r.at = last))]

LatestRowsOfChunk(previous, chunk) ==      \* mutant: runs without a row in the chunk are lost
    LatestOf(chunk)

LatestRows(previous, chunk) ==
    LET newer == LatestOf(chunk) IN
    [run \in DOMAIN previous \cup DOMAIN newer |->
        IF run \notin DOMAIN newer \/ (run \in DOMAIN previous /\ previous[run].at > newer[run].at)
        THEN previous[run] ELSE newer[run]]

StreamedMarks(rs, n) == FoldLeft(LatestRows, <<>>, Chunks(rs, n))

(* Every row of the runs that have a failed one, found in a second pass.    *)
StreamedTrades(rs, n) ==
    LET runs == UNION {{c[i].run : i \in {j \in DOMAIN c : c[j].failed}} : c \in {Chunks(rs, n)[m] : m \in DOMAIN Chunks(rs, n)}}
    IN  FlattenSeq([i \in DOMAIN Chunks(rs, n) |-> SelectSeq(Chunks(rs, n)[i], LAMBDA r : r.run \in runs)])

(* Means of the values present, and how many rows there are, by run.        *)
Group(rs, run) == SelectSeq(rs, LAMBDA r : r.run = run)
Present(rs) == SelectSeq(rs, LAMBDA r : r.value # None)
GroupRow(rows, sum, count) == [rows |-> rows, mean |-> IF count = 0 THEN None ELSE <<sum, count>>]
LatencyTables(rs) ==
    [run \in {rs[i].run : i \in DOMAIN rs} |->
        LET values == Present(Group(rs, run))
        IN  GroupRow(Len(Group(rs, run)), SumOf(values, "value"), Len(values))]

(* A sum over no value is missing, and missing sums add nothing.            *)
Partial(chunk, run) ==
    LET values == Present(Group(chunk, run))
    IN  [rows |-> Len(Group(chunk, run)), count |-> Len(values),
         sum |-> IF values = <<>> THEN None ELSE SumOf(values, "value")]
StreamedLatency(rs, n) ==
    [run \in {rs[i].run : i \in DOMAIN rs} |->
        LET parts == [i \in DOMAIN Chunks(rs, n) |-> Partial(Chunks(rs, n)[i], run)]
        IN  GroupRow(SumOf(parts, "rows"),
                     SumOf(SelectSeq(parts, LAMBDA x : x.sum # None), "sum"), SumOf(parts, "count"))]

(* The first rows of one run.                                               *)
Head80(s, n) == SubSeq(s, 1, Min({n, Len(s)}))
StreamedSample(rs, run, n) ==
    FoldLeft(LAMBDA sample, chunk : sample \o Head80(Group(chunk, run), SampleRows - Len(sample)), <<>>, Chunks(rs, n))

(* build_report_tables: what the reports are made of, from the files or     *)
(* from the frames; the selected pair is the first run.                     *)
ReportInputs(rs, lowMemory, n) ==
    IF lowMemory
    THEN [marks |-> StreamedMarks(rs, n), latency |-> StreamedLatency(rs, n), sample |-> StreamedSample(rs, 1, n)]
    ELSE [marks |-> LatestOf(rs), latency |-> LatencyTables(rs), sample |-> Head80(Group(rs, 1), SampleRows)]

-----------------------------------------------------------------------------
(* Properties *)

Long(p) == IF p.side = "LONG" THEN p.qty ELSE 0

(* The lots the report shows as open against the position really held: a    *)
(* run that starts flat leaves open exactly its newest entries, as many as  *)
(* it holds, and, as long as it was never short, as many as its entries     *)
(* exceed its exits; one that starts from a carried position never shows    *)
(* more than it holds, since its exits may have closed carried lots; and    *)
(* over all runs of a pair the report never shows less than is still held.  *)
Newest(lots, entries) ==
    /\ \A i, j \in DOMAIN lots : i < j => lots[i] < lots[j]
    /\ \A i \in DOMAIN lots : {e \in entries : e >= lots[i]} \subseteq {lots[j] : j \in DOMAIN lots}

RunLots(i, k) == OpenEntryLots(fills, <<closing[i].date, k>>)
RunOrders(i, k, signal) == Signalled(fills, <<closing[i].date, k>>, signal)

OpenLotsBracketHeld ==
    \A i \in DOMAIN closing, k \in Keys :
        LET c == closing[i]
            lots == RunLots(i, k)
        IN  /\ k \in c.ran => Len(lots) <= Long(c.ended[k])
            /\ k \in c.ran /\ c.began[k] = Flat =>
                 /\ Len(lots) = Long(c.ended[k]) /\ Newest(lots, RunOrders(i, k, "LONG"))
                 /\ RunOrders(i, k, "SHORT") = {} => OpenPairs(fills, <<c.date, k>>) = Len(lots)
            /\ Long(c.held[k]) <= SumTo([j \in 1..i |-> Len(RunLots(j, k))], i)

(* The totals of the report agree however they are added up - by date, by   *)
(* interval, by symbol and in the headline - over the same included dates;  *)
(* what is removed and what is kept is all there was in the intervals; the   *)
(* realized total of the summaries is that of the returns, with the exits of *)
(* runs without an entry and the flattened failed pair orders of all runs,   *)
(* and nothing else; and the drawdown is the deepest fall between any two   *)
(* dates.                                                                   *)
AllAddUp(report, columns) ==
    \A column \in columns, table \in {report.daily, report.monthly, report.symbols} :
        report.headline[column] = Summed(table, DOMAIN table, {column})[column]

Drawdown(sums) ==
    Min({sums[p[2]] - sums[p[1]] : p \in {q \in (DOMAIN sums) \X (DOMAIN sums \ {0}) : q[1] <= q[2]}})

Reconciles(report, headline, summary) ==
    LET kept == {r \in DOMAIN summary : r[1] \in Scoped(DatesOf(summary))} IN
    /\ report.checks.monthly
    /\ AllAddUp(report, {"total", "realized", "open"})
    /\ headline.traded = headline.realized
          + MapThenSumSet(LAMBDA r : ExitGain(fills, r), kept \ DOMAIN report.pairs)
          + MapThenSumSet(LAMBDA r : FlattenGain[r], kept)
    /\ headline.traded = Summed(report.monthly, DOMAIN report.monthly, {"traded"}).traded
    /\ headline.traded + headline.removed =
          MapThenSumSet(LAMBDA r : summary[r].realized,
                        {r \in DOMAIN summary : \E i \in DOMAIN Intervals : Covers(Intervals[i], r[1])})
    /\ DOMAIN report.daily # {} => headline.drawdown = Drawdown(Cumulative(report.daily))

TotalsReconcile ==
    LET ReportReconciles(report) == Reconciles(report, report.headline, report.summary)
    IN  ReportReconciles(Report(fills, closing))

(* Read in chunks of any size, a file gives the tables of the whole file:   *)
(* the marks, the rows of failing runs, the means over the values present   *)
(* and the sample, for every file of up to three rows in order of run and   *)
(* time.                                                                    *)
FileRows == [run : {1, 2}, at : {1, 2}, value : {None, 1, 4}, failed : BOOLEAN]
FileInOrder(rs) ==
    \A i \in 1..(Len(rs) - 1) : rs[i].run < rs[i + 1].run \/ (rs[i].run = rs[i + 1].run /\ rs[i].at <= rs[i + 1].at)

StreamedTablesAreWhole ==
    day = 0 =>
        \A rs \in {s \in SeqOf(FileRows, 3) : FileInOrder(s)}, n \in 1..3 :
            /\ ReportInputs(rs, TRUE, n) = ReportInputs(rs, FALSE, n)
            /\ \A run \in {rs[i].run : i \in {j \in DOMAIN rs : rs[j].failed}} :
                  Group(StreamedTrades(rs, n), run) = Group(rs, run)
=============================================================================
