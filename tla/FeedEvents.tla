----------------------------- MODULE FeedEvents -----------------------------
(***************************************************************************)
(* One symbol's raw market-data rows and what the repository makes of      *)
(* them: the feed events of the converter (columnar and row by row), the   *)
(* compact table of the cache with its ordering facts, and the events the  *)
(* adapter rebuilds from that table.                                       *)
(*                                                                         *)
(* A raw row has its two stamps, the levels of both sides (a price of 0 is *)
(* an unpriced level, a quantity may be missing), the last price, the      *)
(* running volume and the trial-match flag; its place in "rows" is its     *)
(* source sequence.  Prices are ticks.  Everything is a function of the    *)
(* rows, and the only step is that the source holds one row more.          *)
(***************************************************************************)
EXTENDS Integers, Sequences, SequencesExt, FiniteSets, FiniteSetsExt

CONSTANTS
    Quotes,        \* what a row may show: [bids, asks, last, trial]
    Stamps,        \* exchange stamps
    Latencies,     \* local stamp minus exchange stamp, possibly negative
    Traded,        \* what a row may add to the running volume
    Levels,        \* selected depth levels
    PriceOnlyQty,  \* stands for a missing quantity; 0 when not configured
    BaseLatency,
    MaxRows        \* bound on the rows of the source

Missing == -1      \* a null quantity, a quote or a price that is not there

ASSUME FeedAssumption ==
    /\ Levels \in 1..5 /\ MaxRows \in Nat
    /\ PriceOnlyQty \in Nat /\ BaseLatency \in Nat
    /\ Stamps \subseteq Nat /\ Latencies \subseteq Int /\ Traded \subseteq Nat

VARIABLE rows

Places(seq) == [i \in DOMAIN seq |-> i]

Sorted(seq, key(_)) ==         \* places of seq; equal keys keep their order
    SortSeq(Places(seq), LAMBDA a, b : key(a) < key(b) \/ (key(a) = key(b) /\ a < b))

-----------------------------------------------------------------------------
(* Normalisation of one side: the valid levels, one per price, best first. *)

Size(level) == IF level.qty = Missing THEN PriceOnlyQty ELSE level.qty

Valid(level) == level.px > 0 /\ Size(level) > 0

Aggregated(side, bid) ==
    LET valid == SelectSeq(side, Valid)
        QtyAt(px) == FoldLeft(LAMBDA sum, level :
                         IF level.px = px THEN sum + Size(level) ELSE sum, 0, valid)
        order == SetToSortSeq({valid[i].px : i \in DOMAIN valid},
                              LAMBDA a, b : IF bid THEN a > b ELSE a < b)
    IN  [i \in DOMAIN order |-> [px |-> order[i], qty |-> QtyAt(order[i])]]

TopOf(depth) == IF Len(depth) > Levels THEN SubSeq(depth, 1, Levels) ELSE depth

\* of raw levels, or of aggregated ones
BestOf(depth) == IF depth = <<>> THEN Missing ELSE depth[1].px

-----------------------------------------------------------------------------
(* The events of one row, given what the rows before it left behind.       *)

Event(row, kind, side, level) ==
    [kind |-> kind, side |-> side, px |-> level.px, qty |-> level.qty,
     exch |-> row.exch, loc |-> row.loc]

\* mutant of ClearFrom: the clear starts at the best price
ClearFromBest(depth) == depth[1].px

ClearFrom(depth) == depth[Len(depth)].px

SideEvents(row, side, depth) ==
    IF depth = <<>> THEN <<>>
    ELSE <<Event(row, "clear", side, [px |-> ClearFrom(depth), qty |-> 0])>>
         \o [i \in DOMAIN depth |-> Event(row, "snapshot", side, depth[i])]

\* a trial-match row locks both sides on one price
Markers(row, prev) ==
    SelectSeq(<<BestOf(row.asks), BestOf(row.bids), row.last, prev.ask, prev.bid>>,
              LAMBDA px : px > 0)

TrialEvents(row, prev) ==
    LET markers == Markers(row, prev)
        lock == <<[px |-> markers[1], qty |-> 1]>>
    IN  IF markers = <<>> THEN <<>>
        ELSE SideEvents(row, "buy", lock) \o SideEvents(row, "sell", lock)

TradeSide(px, prev) ==
    IF prev.ask # Missing /\ px >= prev.ask THEN "buy"
    ELSE IF prev.bid # Missing /\ px <= prev.bid THEN "sell"
    ELSE IF prev.last # Missing /\ px < prev.last THEN "sell" ELSE "buy"

TradeEvents(row, prev) ==
    IF prev.seen /\ row.volume > prev.volume /\ row.last > 0
    THEN <<Event(row, "trade", TradeSide(row.last, prev),
                  [px |-> row.last, qty |-> row.volume - prev.volume])>>
    ELSE <<>>

Nothing == [seen |-> FALSE, volume |-> 0, bid |-> Missing, ask |-> Missing,
            last |-> Missing, events |-> <<>>]

AfterTrial(prev, row) ==
    [prev EXCEPT !.seen = TRUE, !.volume = row.volume,
                 !.events = @ \o TrialEvents(row, prev)]

AfterTradable(prev, row, bids, asks, bid, ask) ==
    [seen |-> TRUE, volume |-> row.volume, bid |-> bid, ask |-> ask, last |-> row.last,
     events |-> prev.events \o TradeEvents(row, prev)
                \o SideEvents(row, "buy", bids) \o SideEvents(row, "sell", asks)]

\* columnar: all levels of the row it is given are aggregated before the best
\* are selected, and the previous quote is the best valid one
ColumnarStep(prev, row) ==
    LET bids == Aggregated(row.bids, TRUE)
        asks == Aggregated(row.asks, FALSE)
    IN  IF row.trial THEN AfterTrial(prev, row)
        ELSE AfterTradable(prev, row, TopOf(bids), TopOf(asks), BestOf(bids), BestOf(asks))

\* row by row: the first raw levels are taken, then aggregated, and the
\* previous quote is the raw first level
LegacyStep(prev, row) ==
    IF row.trial THEN AfterTrial(prev, row)
    ELSE AfterTradable(prev, row, Aggregated(TopOf(row.bids), TRUE),
                       Aggregated(TopOf(row.asks), FALSE),
                       BestOf(row.bids), BestOf(row.asks))

ColumnarEvents(frame) == FoldLeft(ColumnarStep, Nothing, frame).events
LegacyEvents(frame) == FoldLeft(LegacyStep, Nothing, frame).events

-----------------------------------------------------------------------------
(* Clock correction and the order of each clock.                           *)

Corrected(events) ==
    LET lowest == Min({events[i].loc - events[i].exch : i \in DOMAIN events})
    IN  IF events = <<>> \/ lowest >= 0 THEN events
        ELSE [i \in DOMAIN events |-> [events[i] EXCEPT !.loc = @ - lowest + BaseLatency]]

InOrder(stamps) == \A i \in 2..Len(stamps) : stamps[i - 1] <= stamps[i]

ExchStamps(events) == [i \in DOMAIN events |-> events[i].exch]
LocalStamps(events) == [i \in DOMAIN events |-> events[i].loc]

ExchangeGoes(a, b) == a.exch <= b.exch

Flagged(event, clocks) == [event |-> event, clocks |-> clocks]

RECURSIVE Merged(_, _)
Merged(exch, loc) ==
    IF exch # <<>> /\ loc # <<>> /\ Head(exch) = Head(loc)
    THEN <<Flagged(Head(exch), {"exch", "local"})>> \o Merged(Tail(exch), Tail(loc))
    ELSE IF exch # <<>> /\ (loc = <<>> \/ ExchangeGoes(Head(exch), Head(loc)))
    THEN <<Flagged(Head(exch), {"exch"})>> \o Merged(Tail(exch), loc)
    ELSE IF loc # <<>> THEN <<Flagged(Head(loc), {"local"})>> \o Merged(exch, Tail(loc))
    ELSE <<>>

\* mutant of BothInOrder: only the exchange's order is looked at
ExchangeInOrder(events) == InOrder(ExchStamps(events))

BothInOrder(events) == InOrder(ExchStamps(events)) /\ InOrder(LocalStamps(events))

EventOrder(events) ==
    LET By(stamps) == LET order == Sorted(events, LAMBDA i : stamps[i])
                      IN  [n \in DOMAIN order |-> events[order[n]]]
    IN  IF BothInOrder(events)
        THEN [i \in DOMAIN events |-> Flagged(events[i], {"exch", "local"})]
        ELSE Merged(By(ExchStamps(events)), By(LocalStamps(events)))

-----------------------------------------------------------------------------
(* The converter, the compact table and the adapter.                       *)

\* the collected frame is sorted by exchange stamp, local stamp, sequence
FrameOrder(table) ==
    SortSeq(Places(table), LAMBDA i, j :
        \/ table[i].exch < table[j].exch
        \/ table[i].exch = table[j].exch /\ table[i].loc < table[j].loc
        \/ table[i].exch = table[j].exch /\ table[i].loc = table[j].loc /\ i < j)

\* only the columns of the first Levels levels are collected
Selected(row) == [row EXCEPT !.bids = TopOf(@), !.asks = TopOf(@)]

Frame(table) == LET order == FrameOrder(table)
                IN  [n \in DOMAIN order |-> Selected(table[order[n]])]

Direct == Corrected(ColumnarEvents(Frame(rows)))

\* a CSV is converted row by row as it stands, in no order of its own
LegacyDirect == Corrected(LegacyEvents(rows))

\* one compact row per raw row, in source order, with local_ts_raw; all levels
\* of the source are read
CompactRow(row) ==
    [row EXCEPT !.bids = TopOf(Aggregated(@, TRUE)), !.asks = TopOf(Aggregated(@, FALSE))]

Compact == [i \in DOMAIN rows |-> CompactRow(rows[i])]

\* mutant of AdapterOrder: rows of one exchange stamp stay in source order
AdapterOrderBySource(table) == Sorted(table, LAMBDA i : table[i].exch)

\* order of the table on the adapter's side: lexsort by exchange, local, sequence
AdapterOrder(table) == FrameOrder(table)

Rebuilt == LET order == AdapterOrder(Compact)
           IN  Corrected(ColumnarEvents([n \in DOMAIN order |-> Compact[order[n]]]))

\* what consolidation writes beside the table
Adjustment(table) ==
    LET lowest == Min({table[i].loc - table[i].exch : i \in DOMAIN table})
    IN  IF table = <<>> \/ lowest >= 0 THEN 0 ELSE BaseLatency - lowest

CompactOrder(table, stamp(_)) == Sorted(table, LAMBDA i : stamp(table[i]))

CompactLocalOrder(table) == CompactOrder(table, LAMBDA row : row.loc + Adjustment(table))
CompactExchangeOrder(table) == CompactOrder(table, LAMBDA row : row.exch)

-----------------------------------------------------------------------------
Init == rows = <<>>

AppendRow ==
    /\ Len(rows) < MaxRows
    /\ \E quote \in Quotes, exch \in Stamps, latency \in Latencies, traded \in Traded :
           LET volume == IF rows = <<>> THEN traded ELSE Last(rows).volume + traded
           IN  rows' = Append(rows,
                   [bids |-> quote.bids, asks |-> quote.asks, last |-> quote.last,
                    trial |-> quote.trial, exch |-> exch, loc |-> exch + latency,
                    volume |-> volume])

Next == AppendRow

Spec == Init /\ [][Next]_rows

-----------------------------------------------------------------------------
(* Properties.                                                             *)

Clocks == {"exch", "local"}

Stamp(event, clock) == IF clock = "exch" THEN event.exch ELSE event.loc

SeenBy(feed, clock) ==
    LET seen == SelectSeq(feed, LAMBDA flagged : clock \in flagged.clocks)
    IN  [i \in DOMAIN seen |-> seen[i].event]

(***************************************************************************)
(* Whatever order the source delivers its rows in and however negative its *)
(* latencies are, the merged feed shows each clock every converted event   *)
(* exactly once, in the order of that clock's stamps and, at one stamp, in *)
(* the order of conversion; no event is seen locally before the exchange   *)
(* has it, in stamp or in position.                                        *)
(***************************************************************************)
EachClockSeesItsOwnOrder ==
    LET direct == Direct
        feed   == EventOrder(direct)
        InClockOrder(seen, clock) ==
            /\ Len(seen) = Len(direct)
            /\ \A i \in 2..Len(seen) : Stamp(seen[i - 1], clock) <= Stamp(seen[i], clock)
            /\ \A t \in {Stamp(event, clock) : event \in ToSet(direct)} :
                  LET At(event) == Stamp(event, clock) = t
                  IN  SelectSeq(seen, At) = SelectSeq(direct, At)
    IN  /\ \A clock \in Clocks : InClockOrder(SeenBy(feed, clock), clock)
        /\ \A n \in DOMAIN feed :
              /\ feed[n].event.loc >= feed[n].event.exch
              /\ feed[n].clocks = {"local"} =>
                    \E m \in 1..(n - 1) : feed[m] = Flagged(feed[n].event, {"exch"})

\* a replayed book (ReplayState.apply): price -> quantity per side
Played(book, event) ==
    LET Behind(px) == IF event.side = "buy" THEN px < event.px ELSE px > event.px
        side == book[event.side]
        Set(px) == IF px = event.px THEN event.qty ELSE side[px]
    IN  CASE event.kind = "clear" ->
                [book EXCEPT ![event.side] =
                     [px \in {p \in DOMAIN side : Behind(p)} |-> side[px]]]
          [] event.kind = "snapshot" ->
                [book EXCEPT ![event.side] = [px \in DOMAIN side \cup {event.px} |-> Set(px)]]
          [] OTHER -> book

BookOf(events) == FoldLeft(Played, [buy |-> <<>>, sell |-> <<>>], events)

BestLevels(book, side, n) ==
    LET order == SetToSortSeq(DOMAIN book[side],
                     LAMBDA a, b : IF side = "buy" THEN a > b ELSE a < b)
    IN  [i \in 1..n |-> [px |-> order[i], qty |-> book[side][order[i]]]]

(***************************************************************************)
(* On either clock, the feed played up to a stamp shows, as the best       *)
(* levels of a side, the levels of the last row of that clock that quoted  *)
(* the side, or both sides locked on one price when that row was a         *)
(* trial-match row: nothing better from an earlier row survives.           *)
(***************************************************************************)
BookIsTheLatestRow ==
    LET frame  == Frame(rows)
        raw    == ColumnarEvents(frame)
        direct == Corrected(raw)
        feed   == EventOrder(direct)
        Quoted(row, side) ==
            TopOf(Aggregated(IF side = "buy" THEN row.bids ELSE row.asks, side = "buy"))
        At(row, clock) == IF clock = "exch" THEN row.exch
                          ELSE row.loc + direct[1].loc - raw[1].loc
        Speaks(row, side) == IF row.trial THEN Markers(row, Nothing) # <<>>
                              ELSE Quoted(row, side) # <<>>
        Shows(book, row, side) ==
            IF row.trial
            THEN BestLevels(book, "buy", 1)[1].px = BestLevels(book, "sell", 1)[1].px
            ELSE BestLevels(book, side, Len(Quoted(row, side))) = Quoted(row, side)
        ShownAt(t, clock, events) ==
            LET book == BookOf(SelectSeq(events, LAMBDA event : Stamp(event, clock) <= t))
            IN  \A side \in {"buy", "sell"}, n \in DOMAIN frame :
                   ( /\ At(frame[n], clock) = t /\ Speaks(frame[n], side)
                     /\ \A m \in (n + 1)..Len(frame) : At(frame[m], clock) = t =>
                           ~ frame[m].trial /\ ~ Speaks(frame[m], side)
                           /\ (frame[n].trial => \A s \in {"buy", "sell"} :
                                  ~ Speaks(frame[m], s)) )
                   => Shows(book, frame[n], side)
    IN  direct # <<>> =>
          \A clock \in Clocks : \A t \in {At(frame[n], clock) : n \in DOMAIN frame} :
              ShownAt(t, clock, SeenBy(feed, clock))

(***************************************************************************)
(* The same rows give the same feed on every path, as far as the paths     *)
(* read the same things of them.  The feed rebuilt from the compact table   *)
(* is the converter's own when the first raw level of each trial-match row  *)
(* is its best valid one, and the first Levels raw levels of each other row *)
(* hold its best ones, though the table has seen every level and the        *)
(* converter those alone; the row-by-row converter, which reads the file as *)
(* it stands, agrees when the file is in the collected frame's order and    *)
(* the first of the selected levels is the best one; the compact table      *)
(* shifts its local stamps as the converter does when every row gives it an *)
(* event; and it reads its rows in the converter's order on either clock    *)
(* when rows that share one stamp come in the order of the other.           *)
(***************************************************************************)
FirstIsBest(row) ==
    /\ BestOf(row.bids) = BestOf(Aggregated(row.bids, TRUE))
    /\ BestOf(row.asks) = BestOf(Aggregated(row.asks, FALSE))

BestAreSelected(row) ==
    /\ TopOf(Aggregated(row.bids, TRUE)) = Aggregated(TopOf(row.bids), TRUE)
    /\ TopOf(Aggregated(row.asks, FALSE)) = Aggregated(TopOf(row.asks), FALSE)

Speaks(row) == ColumnarStep(Nothing, Selected(row)).events # <<>>

TiesInOrder ==
    \A i, j \in DOMAIN rows : i < j =>
        /\ rows[i].exch = rows[j].exch => rows[i].loc <= rows[j].loc
        /\ rows[i].loc = rows[j].loc => rows[i].exch <= rows[j].exch

PathsAgree ==
    LET frame == FrameOrder(rows)
        byLocal == SortSeq(Places(frame), LAMBDA i, j :
            \/ rows[frame[i]].loc < rows[frame[j]].loc
            \/ rows[frame[i]].loc = rows[frame[j]].loc /\ i < j)
    IN  /\ (\A i \in DOMAIN rows : IF rows[i].trial THEN FirstIsBest(rows[i]) ELSE BestAreSelected(rows[i]))
              => Rebuilt = Direct
        /\ (frame = Places(rows) /\ \A i \in DOMAIN rows : rows[i].trial \/ FirstIsBest(Selected(rows[i])))
              => LegacyDirect = Direct
        /\ rows # <<>> /\ (\A i \in DOMAIN rows : Speaks(rows[i])) =>
              Adjustment(Compact) = Direct[1].loc - ColumnarEvents(Frame(rows))[1].loc
        /\ TiesInOrder => /\ CompactExchangeOrder(Compact) = frame
                          /\ CompactLocalOrder(Compact) =
                                 [n \in DOMAIN byLocal |-> frame[byLocal[n]]]

=============================================================================
