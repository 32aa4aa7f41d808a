------------------------------ MODULE SlimBook ------------------------------
(***************************************************************************)
(* One ladder of the native engine as a state machine: any snapshot row may *)
(* arrive next, and each is applied whole (DepthState::apply_row, the only  *)
(* entry point of book.rs).  The engine keeps four such ladders, a local    *)
(* and an exchange one per asset, and orders are matched against the view   *)
(* the exchange ladder shows.                                               *)
(***************************************************************************)
EXTENDS DepthState

CONSTANT BookRows    \* the snapshot rows that may arrive

RowType == [ bid : Nat, ask : Nat, bidQty : Nat, askQty : Nat, tradable : BOOLEAN ]

\* What the compact-partition validation lets through: a side is quoted with a
\* positive price and a positive quantity, or not at all.
ASSUME RowsAssumption ==
    /\ BookRows \subseteq RowType
    /\ \A r \in BookRows :
          /\ PriceTick(r.bid) \in Ticks /\ PriceTick(r.ask) \in Ticks
          /\ r.bid # 0 <=> r.bidQty > 0
          /\ r.ask # 0 <=> r.askQty > 0

VARIABLES
    depth,    \* the ladder
    row,      \* the last row applied (history: the properties speak of it)
    quoted    \* the sides quoted since the last non-tradable row (history)

bookVars == <<depth, row, quoted>>

NoRow == [ bid |-> 0, ask |-> 0, bidQty |-> 0, askQty |-> 0, tradable |-> FALSE ]

BookInit ==
    /\ depth = EmptyLadder
    /\ row = NoRow
    /\ quoted = {}

SidesOf(r) == { s \in {"bid", "ask"} : r[s] # 0 }

Apply(r) ==
    /\ depth' = ApplyRow(depth, r)
    /\ row' = r
    /\ quoted' = IF r.tradable THEN quoted \cup SidesOf(r) ELSE {}

BookNext == \E r \in BookRows : Apply(r)

BookSpec == BookInit /\ [][BookNext]_bookVars

-----------------------------------------------------------------------------
BookTypeOK ==
    /\ depth \in Ladders
    /\ row \in BookRows \cup {NoRow}
    /\ quoted \in SUBSET {"bid", "ask"}

\* A book the matcher accepts as valid is never locked or crossed, whatever
\* locked, crossed or one-sided rows came before: an order that crossed both
\* sides of one view could buy and sell through the same quote.
NeverCrossed == View(depth).valid => depth.bestBid < depth.bestAsk

\* The cached best tick of a side names a level that is really in that side's
\* map, inside its recorded far end: a best without a level would be shown
\* with quantity zero and still be matched.
BestIsLive ==
    /\ depth.bestBid # NoTick =>
          depth.bids[depth.bestBid] > 0 /\ depth.lowBid # NoTick /\ depth.lowBid <= depth.bestBid
    /\ depth.bestAsk # NoTick =>
          depth.asks[depth.bestAsk] > 0 /\ depth.highAsk # NoTick /\ depth.bestAsk <= depth.highAsk

\* A tradable row that quotes both sides on distinct ticks the right way round
\* is exactly what the view shows next, whatever stale or hidden levels the
\* ladder still holds from earlier locked, crossed or one-sided rows.
ProperRow(r) ==
    /\ r.tradable /\ r.bid # 0 /\ r.ask # 0
    /\ PriceTick(r.bid) < PriceTick(r.ask)

ViewShowsProperRow ==
    ProperRow(row) => View(depth) = [ bid    |-> PriceTick(row.bid), bidQty |-> row.bidQty,
                                      ask    |-> PriceTick(row.ask), askQty |-> row.askQty,
                                      valid  |-> TRUE ]

\* After a non-tradable row matching stays disabled until tradable rows have
\* quoted both sides again: no quote from before the halt comes back.
HaltHoldsUntilRequoted == View(depth).valid => quoted = {"bid", "ask"}

\* A row that says nothing about a side never makes that side's quote better:
\* it stands, or the opposite side's new price pushes it away.
SilentSideNeverImproves ==
    [][ /\ row'.tradable /\ row'.ask = 0 /\ depth'.bestAsk # NoTick =>
              depth.bestAsk # NoTick /\ depth.bestAsk <= depth'.bestAsk
        /\ row'.tradable /\ row'.bid = 0 /\ depth'.bestBid # NoTick =>
              depth.bestBid # NoTick /\ depth'.bestBid <= depth.bestBid ]_bookVars
=============================================================================
