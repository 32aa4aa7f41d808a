----------------------------- MODULE DepthState -----------------------------
(***************************************************************************)
(* The price ladder of one side of the native replay engine's market state *)
(* (hftbacktest_slim/native/src/book.rs).  A ladder is fed one snapshot     *)
(* row at a time; it keeps the levels it was told about and a cached best   *)
(* tick per side.  The operators below are the methods of DepthState, one   *)
(* operator per method, as functions from ladder to ladder.                 *)
(*                                                                         *)
(* Prices are integers in units of 1/TickSize of a tick, so that rounding   *)
(* a price to a tick is not the identity.  Price 0 stands for every price   *)
(* price_tick refuses: absent (NaN), infinite, zero or negative.  A level   *)
(* of quantity 0 stands for a tick that is not a key of the HashMap.        *)
(***************************************************************************)
EXTENDS Integers, FiniteSetsExt

CONSTANTS
    MaxTick,    \* the highest tick a row's price can round to (model bound)
    TickSize    \* price units per tick

ASSUME MaxTickAssumption == MaxTick \in Nat
ASSUME TickSizeAssumption == TickSize \in Nat \ {0}

NoTick == -1    \* Option::None for a best tick or for a ladder's far end
Ticks  == 0 .. MaxTick

\* A ladder: the two maps tick -> quantity, the cached best ticks and the
\* far ends that bound every search for the next level.
Ladders == [ bids    : [Ticks -> Nat], asks    : [Ticks -> Nat],
             bestBid : Ticks \cup {NoTick}, bestAsk : Ticks \cup {NoTick},
             lowBid  : Ticks \cup {NoTick}, highAsk : Ticks \cup {NoTick} ]

NoLevels == [t \in Ticks |-> 0]

\* DepthState::default, and what clear_all leaves behind.
EmptyLadder == [ bids |-> NoLevels, asks |-> NoLevels,
                 bestBid |-> NoTick, bestAsk |-> NoTick,
                 lowBid  |-> NoTick, highAsk |-> NoTick ]

\* Mutated form: only the bid side is emptied.
ClearAllBids(d) == [d EXCEPT !.bids = NoLevels, !.bestBid = NoTick, !.lowBid = NoTick]

ClearAll(d) == EmptyLadder

-----------------------------------------------------------------------------
\* Searches for the next level.

Highest(S) == IF S = {} THEN NoTick ELSE Max(S)
Lowest(S)  == IF S = {} THEN NoTick ELSE Min(S)

\* The best bid strictly below `start`, never below the recorded low.
DepthBelow(d, start) ==
    Highest({ t \in Ticks : /\ d.lowBid # NoTick
                            /\ d.lowBid <= t /\ t < start
                            /\ d.bids[t] > 0 })

DepthAbove(d, start) ==
    Lowest({ t \in Ticks : /\ d.highAsk # NoTick
                           /\ start < t /\ t <= d.highAsk
                           /\ d.asks[t] > 0 })

-----------------------------------------------------------------------------
\* A snapshot's best price replaces everything at or inside it.

WithBestBid(d, best) ==
    [d EXCEPT !.bestBid = best, !.lowBid = IF best = NoTick THEN NoTick ELSE @]

WithBestAsk(d, best) ==
    [d EXCEPT !.bestAsk = best, !.highAsk = IF best = NoTick THEN NoTick ELSE @]

\* Mutated form: the levels are dropped but the best is not looked for again.
ClearAskKeepsBest(d, tick) ==
    [d EXCEPT !.asks = [t \in Ticks |-> IF d.bestAsk # NoTick /\ d.bestAsk <= t /\ t <= tick
                                        THEN 0 ELSE d.asks[t]]]

\* Drops the levels from the new tick up to the old best.  The search for the
\* next best starts one tick further out than the levels that were dropped.
ClearBid(d, tick) ==
    LET swept == [d EXCEPT !.bids =
                    [t \in Ticks |-> IF d.bestBid # NoTick /\ tick <= t /\ t <= d.bestBid
                                     THEN 0 ELSE d.bids[t]]]
    IN  WithBestBid(swept, DepthBelow(swept, tick - 1))

ClearAsk(d, tick) ==
    LET swept == [d EXCEPT !.asks =
                    [t \in Ticks |-> IF d.bestAsk # NoTick /\ d.bestAsk <= t /\ t <= tick
                                     THEN 0 ELSE d.asks[t]]]
    IN  WithBestAsk(swept, DepthAbove(swept, tick + 1))

-----------------------------------------------------------------------------
\* One level.  A quantity of zero removes it; a better price than the best
\* becomes the best and pushes the opposite best out of its way.

RemoveBid(d, tick) ==
    LET gone == [d EXCEPT !.bids[tick] = 0]
    IN  IF d.bestBid = tick THEN WithBestBid(gone, DepthBelow(gone, tick)) ELSE gone

RemoveAsk(d, tick) ==
    LET gone == [d EXCEPT !.asks[tick] = 0]
    IN  IF d.bestAsk = tick THEN WithBestAsk(gone, DepthAbove(gone, tick)) ELSE gone

PlaceBid(d, tick, qty) ==
    LET better  == d.bestBid = NoTick \/ tick > d.bestBid
        crosses == better /\ d.bestAsk # NoTick /\ tick >= d.bestAsk
    IN  [d EXCEPT !.bids[tick] = qty,
                  !.bestBid = IF better THEN tick ELSE @,
                  !.bestAsk = IF crosses THEN DepthAbove(d, tick) ELSE @,
                  !.lowBid  = IF @ = NoTick \/ tick < @ THEN tick ELSE @]

\* Mutated form: an ask on the very tick of the best bid is not a crossing.
PlaceAskMayLock(d, tick, qty) ==
    LET better  == d.bestAsk = NoTick \/ tick < d.bestAsk
        crosses == better /\ d.bestBid # NoTick /\ d.bestBid > tick
    IN  [d EXCEPT !.asks[tick] = qty,
                  !.bestAsk = IF better THEN tick ELSE @,
                  !.bestBid = IF crosses THEN DepthBelow(d, tick) ELSE @,
                  !.highAsk = IF @ = NoTick \/ tick > @ THEN tick ELSE @]

PlaceAsk(d, tick, qty) ==
    LET better  == d.bestAsk = NoTick \/ tick < d.bestAsk
        crosses == better /\ d.bestBid # NoTick /\ d.bestBid >= tick
    IN  [d EXCEPT !.asks[tick] = qty,
                  !.bestAsk = IF better THEN tick ELSE @,
                  !.bestBid = IF crosses THEN DepthBelow(d, tick) ELSE @,
                  !.highAsk = IF @ = NoTick \/ tick > @ THEN tick ELSE @]

UpdateBid(d, tick, qty) == IF qty > 0 THEN PlaceBid(d, tick, qty) ELSE RemoveBid(d, tick)
UpdateAsk(d, tick, qty) == IF qty > 0 THEN PlaceAsk(d, tick, qty) ELSE RemoveAsk(d, tick)

-----------------------------------------------------------------------------
\* One snapshot row.

\* (price / tick_size).round(), half away from zero.
PriceTick(price) == (2 * price + TickSize) \div (2 * TickSize)

QuoteBid(d, row) ==
    IF row.bid = 0 THEN d
    ELSE UpdateBid(ClearBid(d, PriceTick(row.bid)), PriceTick(row.bid), row.bidQty)

QuoteAsk(d, row) ==
    IF row.ask = 0 THEN d
    ELSE UpdateAsk(ClearAsk(d, PriceTick(row.ask)), PriceTick(row.ask), row.askQty)

\* The bid side first, then the ask side; a non-tradable row empties both.
ApplyRow(d, row) ==
    IF ~row.tradable THEN ClearAll(d) ELSE QuoteAsk(QuoteBid(d, row), row)

\* The BboView computed at the end of apply_row: the prices are the rounded
\* ticks, NoTick stands for NaN, and the view is valid when both sides stand.
View(d) == [ bid    |-> d.bestBid,
             ask    |-> d.bestAsk,
             bidQty |-> IF d.bestBid = NoTick THEN 0 ELSE d.bids[d.bestBid],
             askQty |-> IF d.bestAsk = NoTick THEN 0 ELSE d.asks[d.bestAsk],
             valid  |-> d.bestBid # NoTick /\ d.bestAsk # NoTick ]
=============================================================================
