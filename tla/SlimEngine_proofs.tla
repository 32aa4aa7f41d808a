--------------------------- MODULE SlimEngine_proofs ---------------------------
(***************************************************************************)
(* The price ladder and the engine.  First the functions of DepthState, for *)
(* every number of ticks and tick size, and the ladder machine, for every   *)
(* set of rows that the compact-partition validation lets through.  Then    *)
(* the engine's clock and schedule, the life of an order (one event in      *)
(* flight per open order, exact latencies, final decisions, truthful waits) *)
(* and what it is matched against, for all rows and latencies, any number   *)
(* of orders, both orderings of equal timestamps and every mix of calls;    *)
(* then that a decision is the one a replay of its due rows makes, and that *)
(* the engine implements OrderTimeline.                                     *)
(***************************************************************************)
EXTENDS SlimEngineTimeline, SlimBook, Sums_proofs, FiniteSetTheorems

LEMMA MinOfNaturals ==
    ASSUME NEW S, S \subseteq Nat, S # {}
    PROVE  Min(S) \in S /\ \A y \in S : Min(S) <= y
<1>1. \E x \in S : \A y \in S : x <= y
    BY LeastNatural
<1> QED  BY <1>1 DEF Min

\* The mirror image of a set of ticks turns its greatest into its least.
LEMMA MaxOfTicks ==
    ASSUME NEW S, S \subseteq Ticks, S # {}
    PROVE  Max(S) \in S /\ \A y \in S : y <= Max(S)
<1> DEFINE T == { MaxTick - x : x \in S }
<1>0. \A x \in S : x \in Nat /\ MaxTick - x \in Nat
    BY MaxTickAssumption DEF Ticks
<1>1. T \subseteq Nat /\ T # {}
    BY <1>0
<1>2. PICK m \in T : \A n \in T : m <= n
    <2> HIDE DEF T
    <2> QED  BY <1>1, LeastNatural
<1>3. PICK x \in S : m = MaxTick - x
    OBVIOUS
<1>4. \A y \in S : x >= y
    BY <1>0, <1>2, <1>3, MaxTickAssumption
<1>5. Max(S) \in S /\ \A y \in S : Max(S) >= y
    BY <1>4 DEF Max
<1> QED  BY <1>0, <1>5

-----------------------------------------------------------------------------
\* Searches return nothing or a member, and the best member there is.

LEMMA HighestIsBest ==
    ASSUME NEW S, S \subseteq Ticks
    PROVE  /\ Highest(S) = NoTick => S = {}
           /\ Highest(S) # NoTick => Highest(S) \in S
           /\ \A t \in S : t <= Highest(S)
<1>1. CASE S = {}
    BY <1>1 DEF Highest
<1>2. CASE S # {}
    <2>1. Highest(S) \in S /\ \A t \in S : t <= Highest(S)
        BY <1>2, MaxOfTicks DEF Highest
    <2>2. NoTick \notin S
        BY DEF Ticks, NoTick
    <2> QED  BY <2>1, <2>2
<1> QED  BY <1>1, <1>2

LEMMA LowestIsBest ==
    ASSUME NEW S, S \subseteq Ticks
    PROVE  /\ Lowest(S) = NoTick => S = {}
           /\ Lowest(S) # NoTick => Lowest(S) \in S
           /\ Lowest(S) # NoTick => \A t \in S : Lowest(S) <= t
<1>1. CASE S = {}
    BY <1>1 DEF Lowest
<1>2. CASE S # {}
    <2>1. S \subseteq Nat /\ NoTick \notin S
        BY MaxTickAssumption DEF Ticks, NoTick
    <2>2. Lowest(S) \in S /\ \A t \in S : Lowest(S) <= t
        BY <1>2, <2>1, MinOfNaturals DEF Lowest
    <2> QED  BY <2>1, <2>2
<1> QED  BY <1>1, <1>2

\* What the search below a tick finds is a live bid below it, inside the
\* recorded low; likewise above a tick.
LEMMA DepthBelowFinds ==
    ASSUME NEW d, NEW start \in Int
    PROVE  \/ DepthBelow(d, start) = NoTick
           \/ /\ DepthBelow(d, start) \in Ticks
              /\ DepthBelow(d, start) < start
              /\ d.bids[DepthBelow(d, start)] > 0
              /\ d.lowBid # NoTick /\ d.lowBid <= DepthBelow(d, start)
<1> DEFINE S == { t \in Ticks : /\ d.lowBid # NoTick
                               /\ d.lowBid <= t /\ t < start
                               /\ d.bids[t] > 0 }
<1>1. Highest(S) # NoTick => Highest(S) \in S
    <2> HIDE DEF S
    <2>1. S \subseteq Ticks
        BY DEF S
    <2> QED  BY <2>1, HighestIsBest
<1> QED  BY <1>1 DEF DepthBelow

LEMMA DepthAboveFinds ==
    ASSUME NEW d, NEW start \in Int
    PROVE  \/ DepthAbove(d, start) = NoTick
           \/ /\ DepthAbove(d, start) \in Ticks
              /\ start < DepthAbove(d, start)
              /\ d.asks[DepthAbove(d, start)] > 0
              /\ d.highAsk # NoTick /\ DepthAbove(d, start) <= d.highAsk
<1> DEFINE S == { t \in Ticks : /\ d.highAsk # NoTick
                               /\ start < t /\ t <= d.highAsk
                               /\ d.asks[t] > 0 }
<1>1. Lowest(S) # NoTick => Lowest(S) \in S
    <2> HIDE DEF S
    <2>1. S \subseteq Ticks
        BY DEF S
    <2> QED  BY <2>1, LowestIsBest
<1> QED  BY <1>1 DEF DepthAbove

-----------------------------------------------------------------------------
\* The methods of DepthState, one lemma per method: the ladder stays a ladder,
\* and what the method does to the best ticks and to the other side.

LEMMA ClearBidFacts ==
    ASSUME NEW d \in Ladders, NEW tick \in Ticks
    PROVE  /\ ClearBid(d, tick) \in Ladders
           /\ ClearBid(d, tick).bestBid < tick
           /\ \A t \in Ticks : ClearBid(d, tick).bids[t] \in {0, d.bids[t]}
           /\ ClearBid(d, tick).asks = d.asks
           /\ ClearBid(d, tick).bestAsk = d.bestAsk
           /\ ClearBid(d, tick).highAsk = d.highAsk
<1> DEFINE swept == [d EXCEPT !.bids =
                        [t \in Ticks |-> IF d.bestBid # NoTick /\ tick <= t /\ t <= d.bestBid
                                         THEN 0 ELSE d.bids[t]]]
           best == DepthBelow(swept, tick - 1)
<1>1. swept \in Ladders /\ \A t \in Ticks : swept.bids[t] \in {0, d.bids[t]}
    BY DEF Ladders
<1>2. best = NoTick \/ (best \in Ticks /\ best < tick - 1)
    <2> HIDE DEF swept
    <2>1. tick - 1 \in Int
        BY MaxTickAssumption DEF Ticks
    <2> QED  BY <2>1, DepthBelowFinds
<1>3. ClearBid(d, tick) = WithBestBid(swept, best)
    BY DEF ClearBid
<1>4. best < tick
    <2> HIDE DEF best
    <2> QED  BY <1>2, MaxTickAssumption DEF Ticks, NoTick
<1> HIDE DEF best
<1>5. /\ swept.asks = d.asks /\ swept.bestAsk = d.bestAsk /\ swept.highAsk = d.highAsk
    BY DEF Ladders
<1> HIDE DEF swept
<1> QED  BY <1>1, <1>2, <1>3, <1>4, <1>5 DEF WithBestBid, Ladders

LEMMA ClearAskFacts ==
    ASSUME NEW d \in Ladders, NEW tick \in Ticks
    PROVE  /\ ClearAsk(d, tick) \in Ladders
           /\ ClearAsk(d, tick).bestAsk = NoTick \/ tick < ClearAsk(d, tick).bestAsk
           /\ \A t \in Ticks : ClearAsk(d, tick).asks[t] \in {0, d.asks[t]}
           /\ ClearAsk(d, tick).bids = d.bids
           /\ ClearAsk(d, tick).bestBid = d.bestBid
           /\ ClearAsk(d, tick).lowBid = d.lowBid
<1> DEFINE swept == [d EXCEPT !.asks =
                        [t \in Ticks |-> IF d.bestAsk # NoTick /\ d.bestAsk <= t /\ t <= tick
                                         THEN 0 ELSE d.asks[t]]]
           best == DepthAbove(swept, tick + 1)
<1>1. swept \in Ladders /\ \A t \in Ticks : swept.asks[t] \in {0, d.asks[t]}
    BY DEF Ladders
<1>2. best = NoTick \/ (best \in Ticks /\ tick + 1 < best)
    <2> HIDE DEF swept
    <2>1. tick + 1 \in Int
        BY MaxTickAssumption DEF Ticks
    <2> QED  BY <2>1, DepthAboveFinds
<1>3. ClearAsk(d, tick) = WithBestAsk(swept, best)
    BY DEF ClearAsk
<1>4. best = NoTick \/ tick < best
    <2> HIDE DEF best
    <2> QED  BY <1>2, MaxTickAssumption DEF Ticks, NoTick
<1> HIDE DEF best
<1>5. /\ swept.bids = d.bids /\ swept.bestBid = d.bestBid /\ swept.lowBid = d.lowBid
    BY DEF Ladders
<1> HIDE DEF swept
<1> QED  BY <1>1, <1>2, <1>3, <1>4, <1>5 DEF WithBestAsk, Ladders

LEMMA RemoveBidType ==
    ASSUME NEW d \in Ladders, NEW tick \in Ticks
    PROVE  RemoveBid(d, tick) \in Ladders
<1> DEFINE gone == [d EXCEPT !.bids[tick] = 0]
<1>1. gone \in Ladders
    BY DEF Ladders
<1>2. DepthBelow(gone, tick) \in Ticks \cup {NoTick}
    <2> HIDE DEF gone
    <2>1. tick \in Int
        BY MaxTickAssumption DEF Ticks
    <2> QED  BY <2>1, DepthBelowFinds
<1>3. RemoveBid(d, tick) \in {gone, WithBestBid(gone, DepthBelow(gone, tick))}
    BY DEF RemoveBid
<1> HIDE DEF gone
<1> QED  BY <1>1, <1>2, <1>3 DEF WithBestBid, Ladders

LEMMA RemoveAskType ==
    ASSUME NEW d \in Ladders, NEW tick \in Ticks
    PROVE  RemoveAsk(d, tick) \in Ladders
<1> DEFINE gone == [d EXCEPT !.asks[tick] = 0]
<1>1. gone \in Ladders
    BY DEF Ladders
<1>2. DepthAbove(gone, tick) \in Ticks \cup {NoTick}
    <2> HIDE DEF gone
    <2>1. tick \in Int
        BY MaxTickAssumption DEF Ticks
    <2> QED  BY <2>1, DepthAboveFinds
<1>3. RemoveAsk(d, tick) \in {gone, WithBestAsk(gone, DepthAbove(gone, tick))}
    BY DEF RemoveAsk
<1> HIDE DEF gone
<1> QED  BY <1>1, <1>2, <1>3 DEF WithBestAsk, Ladders

LEMMA PlaceBidType ==
    ASSUME NEW d \in Ladders, NEW tick \in Ticks, NEW qty \in Nat
    PROVE  PlaceBid(d, tick, qty) \in Ladders
<1>1. DepthAbove(d, tick) \in Ticks \cup {NoTick}
    <2>1. tick \in Int
        BY MaxTickAssumption DEF Ticks
    <2> QED  BY <2>1, DepthAboveFinds
<1> QED  BY <1>1 DEF PlaceBid, Ladders

LEMMA PlaceAskType ==
    ASSUME NEW d \in Ladders, NEW tick \in Ticks, NEW qty \in Nat
    PROVE  PlaceAsk(d, tick, qty) \in Ladders
<1>1. DepthBelow(d, tick) \in Ticks \cup {NoTick}
    <2>1. tick \in Int
        BY MaxTickAssumption DEF Ticks
    <2> QED  BY <2>1, DepthBelowFinds
<1> QED  BY <1>1 DEF PlaceAsk, Ladders

LEMMA EmptyLadderType == EmptyLadder \in Ladders
BY DEF EmptyLadder, NoLevels, Ladders

\* A row whose prices round to ticks of the ladder leaves a ladder.
LEMMA ApplyRowType ==
    ASSUME NEW d \in Ladders, NEW r,
           PriceTick(r.bid) \in Ticks, PriceTick(r.ask) \in Ticks,
           r.bidQty \in Nat, r.askQty \in Nat
    PROVE  ApplyRow(d, r) \in Ladders
<1>1. QuoteBid(d, r) \in Ladders
    BY ClearBidFacts, PlaceBidType, RemoveBidType DEF QuoteBid, UpdateBid
<1>2. QuoteAsk(QuoteBid(d, r), r) \in Ladders
    BY <1>1, ClearAskFacts, PlaceAskType, RemoveAskType DEF QuoteAsk, UpdateAsk
<1> QED  BY <1>2, EmptyLadderType DEF ApplyRow, ClearAll

-----------------------------------------------------------------------------

\* What RowsAssumption says of one row.
LEMMA RowFacts ==
    ASSUME NEW r \in BookRows
    PROVE  /\ PriceTick(r.bid) \in Ticks /\ PriceTick(r.ask) \in Ticks
           /\ r.bidQty \in Nat /\ r.askQty \in Nat
           /\ r.bid # 0 => r.bidQty > 0
           /\ r.ask # 0 => r.askQty > 0
BY RowsAssumption DEF RowType

-----------------------------------------------------------------------------
\* The ladder machine is well typed.

THEOREM BookTypeCorrect == BookSpec => []BookTypeOK
<1>1. BookInit => BookTypeOK
    BY EmptyLadderType DEF BookInit, BookTypeOK
<1>2. BookTypeOK /\ [BookNext]_bookVars => BookTypeOK'
    <2> SUFFICES ASSUME BookTypeOK, [BookNext]_bookVars PROVE BookTypeOK'
        OBVIOUS
    <2>1. CASE UNCHANGED bookVars
        BY <2>1 DEF bookVars, BookTypeOK
    <2>2. ASSUME NEW r \in BookRows, Apply(r) PROVE BookTypeOK'
        <3>1. depth' \in Ladders
            BY <2>2, RowFacts, ApplyRowType DEF Apply, BookTypeOK
        <3>2. quoted' \in SUBSET {"bid", "ask"}
            BY <2>2 DEF Apply, BookTypeOK, SidesOf
        <3> QED  BY <2>2, <3>1, <3>2 DEF Apply, BookTypeOK
    <2> QED  BY <2>1, <2>2 DEF BookNext
<1> QED  BY <1>1, <1>2, PTL DEF BookSpec

-----------------------------------------------------------------------------
\* The parts the invariants are made of, as predicates of a ladder.

BidLive(d) == d.bestBid # NoTick =>
    d.bids[d.bestBid] > 0 /\ d.lowBid # NoTick /\ d.lowBid <= d.bestBid
AskLive(d) == d.bestAsk # NoTick =>
    d.asks[d.bestAsk] > 0 /\ d.highAsk # NoTick /\ d.bestAsk <= d.highAsk
Uncrossed(d) == d.bestBid # NoTick /\ d.bestAsk # NoTick => d.bestBid < d.bestAsk
NoBids(d) == d.bestBid = NoTick /\ \A t \in Ticks : d.bids[t] = 0
NoAsks(d) == d.bestAsk = NoTick /\ \A t \in Ticks : d.asks[t] = 0

LEMMA ClearBidLive ==
    ASSUME NEW d \in Ladders, NEW tick \in Ticks
    PROVE  BidLive(ClearBid(d, tick))
<1> DEFINE swept == [d EXCEPT !.bids =
                        [t \in Ticks |-> IF d.bestBid # NoTick /\ tick <= t /\ t <= d.bestBid
                                         THEN 0 ELSE d.bids[t]]]
           best == DepthBelow(swept, tick - 1)
<1>1. swept \in Ladders
    BY DEF Ladders
<1>2. \/ best = NoTick
      \/ best \in Ticks /\ swept.bids[best] > 0 /\ swept.lowBid # NoTick /\ swept.lowBid <= best
    <2> HIDE DEF swept
    <2>1. tick - 1 \in Int
        BY MaxTickAssumption DEF Ticks
    <2> QED  BY <2>1, DepthBelowFinds
<1>3. ClearBid(d, tick) = WithBestBid(swept, best)
    BY DEF ClearBid
<1> HIDE DEF swept, best
<1> QED  BY <1>1, <1>2, <1>3 DEF WithBestBid, Ladders, BidLive

LEMMA ClearAskLive ==
    ASSUME NEW d \in Ladders, NEW tick \in Ticks
    PROVE  AskLive(ClearAsk(d, tick))
<1> DEFINE swept == [d EXCEPT !.asks =
                        [t \in Ticks |-> IF d.bestAsk # NoTick /\ d.bestAsk <= t /\ t <= tick
                                         THEN 0 ELSE d.asks[t]]]
           best == DepthAbove(swept, tick + 1)
<1>1. swept \in Ladders
    BY DEF Ladders
<1>2. \/ best = NoTick
      \/ best \in Ticks /\ swept.asks[best] > 0 /\ swept.highAsk # NoTick /\ best <= swept.highAsk
    <2> HIDE DEF swept
    <2>1. tick + 1 \in Int
        BY MaxTickAssumption DEF Ticks
    <2> QED  BY <2>1, DepthAboveFinds
<1>3. ClearAsk(d, tick) = WithBestAsk(swept, best)
    BY DEF ClearAsk
<1> HIDE DEF swept, best
<1> QED  BY <1>1, <1>2, <1>3 DEF WithBestAsk, Ladders, AskLive

-----------------------------------------------------------------------------
\* What quoting one side does.  The quoted tick becomes the best of its side;
\* the other side keeps its levels, and its best either stands or moves away
\* from the quote.

LEMMA QuoteBidFacts ==
    ASSUME NEW d \in Ladders, NEW r,
           PriceTick(r.bid) \in Ticks, r.bidQty \in Nat, r.bidQty > 0, r.bid # 0
    PROVE  LET q == QuoteBid(d, r) IN
           /\ q \in Ladders
           /\ q.bestBid = PriceTick(r.bid)
           /\ q.bids[q.bestBid] = r.bidQty
           /\ BidLive(q)
           /\ q.asks = d.asks /\ q.highAsk = d.highAsk
           /\ \/ q.bestAsk = d.bestAsk
              \/ d.bestAsk # NoTick /\ d.bestAsk <= q.bestBid /\ q.bestAsk = NoTick
              \/ /\ d.bestAsk # NoTick /\ d.bestAsk <= q.bestBid
                 /\ q.bestBid < q.bestAsk /\ q.asks[q.bestAsk] > 0 /\ q.bestAsk \in Ticks
                 /\ q.highAsk # NoTick /\ q.bestAsk <= q.highAsk
           /\ Uncrossed(q)
<1> DEFINE tick == PriceTick(r.bid)
           c == ClearBid(d, tick)
           q == PlaceBid(c, tick, r.bidQty)
           above == DepthAbove(c, tick)
<1>1. /\ c \in Ladders /\ c.bestBid < tick
      /\ c.asks = d.asks /\ c.bestAsk = d.bestAsk /\ c.highAsk = d.highAsk
    BY ClearBidFacts
<1>2. BidLive(c)
    BY ClearBidLive
<1>3. \/ above = NoTick
      \/ /\ above \in Ticks /\ tick < above /\ c.asks[above] > 0
         /\ c.highAsk # NoTick /\ above <= c.highAsk
    <2> HIDE DEF c, tick
    <2>1. tick \in Int
        BY MaxTickAssumption DEF Ticks, tick
    <2> QED  BY <2>1, DepthAboveFinds
<1>4. QuoteBid(d, r) = q
    BY DEF QuoteBid, UpdateBid
<1>5. tick \in Ticks
    OBVIOUS
<1> HIDE DEF c, tick, above
<1>6. /\ q \in Ladders
      /\ q.bestBid = tick /\ q.bids[tick] = r.bidQty
      /\ q.lowBid # NoTick /\ q.lowBid <= tick
      /\ q.asks = c.asks /\ q.highAsk = c.highAsk
      /\ \/ q.bestAsk = c.bestAsk /\ (c.bestAsk = NoTick \/ tick < c.bestAsk)
         \/ c.bestAsk # NoTick /\ c.bestAsk <= tick /\ q.bestAsk = above
    <2>1. q \in Ladders
        BY <1>1, <1>5, PlaceBidType
    <2>2. q.bestBid = tick /\ q.bids[tick] = r.bidQty /\ q.asks = c.asks /\ q.highAsk = c.highAsk
        BY <1>1, <1>5 DEF PlaceBid, Ladders
    <2>3. q.lowBid # NoTick /\ q.lowBid <= tick
        BY <1>1, <1>5, MaxTickAssumption DEF PlaceBid, Ladders, Ticks, NoTick
    <2>4. \/ q.bestAsk = c.bestAsk /\ (c.bestAsk = NoTick \/ tick < c.bestAsk)
          \/ c.bestAsk # NoTick /\ c.bestAsk <= tick /\ q.bestAsk = above
        BY <1>1, <1>5, MaxTickAssumption DEF PlaceBid, Ladders, Ticks, NoTick, above
    <2> QED  BY <2>1, <2>2, <2>3, <2>4
<1>7. q.bestBid = PriceTick(r.bid)
    BY <1>6 DEF tick
<1> HIDE DEF q
<1>8. BidLive(q)
    BY <1>6 DEF BidLive
<1>9. \/ q.bestAsk = d.bestAsk
      \/ d.bestAsk # NoTick /\ d.bestAsk <= q.bestBid /\ q.bestAsk = NoTick
      \/ /\ d.bestAsk # NoTick /\ d.bestAsk <= q.bestBid
         /\ q.bestBid < q.bestAsk /\ q.asks[q.bestAsk] > 0 /\ q.bestAsk \in Ticks
         /\ q.highAsk # NoTick /\ q.bestAsk <= q.highAsk
    BY <1>1, <1>3, <1>6
<1>10. Uncrossed(q)
    BY <1>3, <1>6 DEF Uncrossed
<1> QED  BY <1>1, <1>4, <1>6, <1>7, <1>8, <1>9, <1>10

LEMMA QuoteAskFacts ==
    ASSUME NEW d \in Ladders, NEW r,
           PriceTick(r.ask) \in Ticks, r.askQty \in Nat, r.askQty > 0, r.ask # 0
    PROVE  LET q == QuoteAsk(d, r) IN
           /\ q \in Ladders
           /\ q.bestAsk = PriceTick(r.ask)
           /\ q.asks[q.bestAsk] = r.askQty
           /\ AskLive(q)
           /\ q.bids = d.bids /\ q.lowBid = d.lowBid
           /\ \/ q.bestBid = d.bestBid
              \/ d.bestBid # NoTick /\ q.bestAsk <= d.bestBid /\ q.bestBid = NoTick
              \/ /\ d.bestBid # NoTick /\ q.bestAsk <= d.bestBid
                 /\ q.bestBid < q.bestAsk /\ q.bids[q.bestBid] > 0 /\ q.bestBid \in Ticks
                 /\ q.lowBid # NoTick /\ q.lowBid <= q.bestBid
           /\ Uncrossed(q)
<1> DEFINE tick == PriceTick(r.ask)
           c == ClearAsk(d, tick)
           q == PlaceAsk(c, tick, r.askQty)
           below == DepthBelow(c, tick)
<1>1. /\ c \in Ladders /\ (c.bestAsk = NoTick \/ tick < c.bestAsk)
      /\ c.bids = d.bids /\ c.bestBid = d.bestBid /\ c.lowBid = d.lowBid
    BY ClearAskFacts
<1>2. AskLive(c)
    BY ClearAskLive
<1>3. \/ below = NoTick
      \/ /\ below \in Ticks /\ below < tick /\ c.bids[below] > 0
         /\ c.lowBid # NoTick /\ c.lowBid <= below
    <2> HIDE DEF c, tick
    <2>1. tick \in Int
        BY MaxTickAssumption DEF Ticks, tick
    <2> QED  BY <2>1, DepthBelowFinds
<1>4. QuoteAsk(d, r) = q
    BY DEF QuoteAsk, UpdateAsk
<1>5. tick \in Ticks
    OBVIOUS
<1> HIDE DEF c, tick, below
<1>6. /\ q \in Ladders
      /\ q.bestAsk = tick /\ q.asks[tick] = r.askQty
      /\ q.highAsk # NoTick /\ tick <= q.highAsk
      /\ q.bids = c.bids /\ q.lowBid = c.lowBid
      /\ \/ q.bestBid = c.bestBid /\ (c.bestBid = NoTick \/ c.bestBid < tick)
         \/ c.bestBid # NoTick /\ tick <= c.bestBid /\ q.bestBid = below
    <2>1. q \in Ladders
        BY <1>1, <1>5, PlaceAskType
    <2>2. q.bestAsk = tick /\ q.asks[tick] = r.askQty /\ q.bids = c.bids /\ q.lowBid = c.lowBid
        BY <1>1, <1>5 DEF PlaceAsk, Ladders
    <2>3. q.highAsk # NoTick /\ tick <= q.highAsk
        BY <1>1, <1>5, MaxTickAssumption DEF PlaceAsk, Ladders, Ticks, NoTick
    <2>4. \/ q.bestBid = c.bestBid /\ (c.bestBid = NoTick \/ c.bestBid < tick)
          \/ c.bestBid # NoTick /\ tick <= c.bestBid /\ q.bestBid = below
        BY <1>1, <1>5, MaxTickAssumption DEF PlaceAsk, Ladders, Ticks, NoTick, below
    <2> QED  BY <2>1, <2>2, <2>3, <2>4
<1>7. q.bestAsk = PriceTick(r.ask)
    BY <1>6 DEF tick
<1> HIDE DEF q
<1>8. AskLive(q)
    BY <1>6 DEF AskLive
<1>9. \/ q.bestBid = d.bestBid
      \/ d.bestBid # NoTick /\ q.bestAsk <= d.bestBid /\ q.bestBid = NoTick
      \/ /\ d.bestBid # NoTick /\ q.bestAsk <= d.bestBid
         /\ q.bestBid < q.bestAsk /\ q.bids[q.bestBid] > 0 /\ q.bestBid \in Ticks
         /\ q.lowBid # NoTick /\ q.lowBid <= q.bestBid
    BY <1>1, <1>3, <1>6
<1>10. Uncrossed(q)
    BY <1>3, <1>6 DEF Uncrossed
<1> QED  BY <1>1, <1>4, <1>6, <1>7, <1>8, <1>9, <1>10

-----------------------------------------------------------------------------
\* The ladder invariant.  Neither "a valid book is not crossed" nor "a best is
\* live" is kept by a step on its own: a quote may push the other side's best
\* onto a hidden level, so both have to be known, and a side that was never
\* quoted since the last halt has to be known empty of hidden levels.

BookInv ==
    /\ BookTypeOK
    /\ BidLive(depth) /\ AskLive(depth) /\ Uncrossed(depth)
    /\ "bid" \notin quoted => NoBids(depth)
    /\ "ask" \notin quoted => NoAsks(depth)
    /\ ViewShowsProperRow

LEMMA BookInvInit == BookInit => BookInv
<1> SUFFICES ASSUME BookInit PROVE BookInv
    OBVIOUS
<1>1. BookTypeOK
    BY EmptyLadderType DEF BookInit, BookTypeOK
<1>2. BidLive(depth) /\ AskLive(depth) /\ Uncrossed(depth) /\ NoBids(depth) /\ NoAsks(depth)
    BY DEF BookInit, EmptyLadder, NoLevels, BidLive, AskLive, Uncrossed, NoBids, NoAsks
<1>3. ViewShowsProperRow
    BY DEF BookInit, NoRow, ProperRow, ViewShowsProperRow
<1> QED  BY <1>1, <1>2, <1>3 DEF BookInv

\* A quoted bid keeps the ask side's share of the invariant, and conversely.
LEMMA QuoteBidKeepsAsk ==
    ASSUME NEW d \in Ladders, AskLive(d), NEW r,
           PriceTick(r.bid) \in Ticks, r.bidQty \in Nat, r.bidQty > 0, r.bid # 0
    PROVE  AskLive(QuoteBid(d, r)) /\ (NoAsks(d) => NoAsks(QuoteBid(d, r)))
BY QuoteBidFacts DEF AskLive, NoAsks

LEMMA QuoteAskKeepsBid ==
    ASSUME NEW d \in Ladders, BidLive(d), NEW r,
           PriceTick(r.ask) \in Ticks, r.askQty \in Nat, r.askQty > 0, r.ask # 0
    PROVE  BidLive(QuoteAsk(d, r)) /\ (NoBids(d) => NoBids(QuoteAsk(d, r)))
BY QuoteAskFacts DEF BidLive, NoBids

LEMMA BookInvStep == BookInv /\ [BookNext]_bookVars => BookInv'
<1> SUFFICES ASSUME BookInv, [BookNext]_bookVars PROVE BookInv'
    OBVIOUS
<1>1. CASE UNCHANGED bookVars
    BY <1>1 DEF bookVars, BookInv, BookTypeOK, ViewShowsProperRow
<1>2. ASSUME NEW r \in BookRows, Apply(r), ~r.tradable PROVE BookInv'
    <2>1. depth' = EmptyLadder /\ row' = r /\ quoted' = {}
        BY <1>2 DEF Apply, ApplyRow, ClearAll
    <2>2. BookTypeOK'
        BY <2>1, EmptyLadderType DEF BookTypeOK
    <2>3. /\ BidLive(depth') /\ AskLive(depth') /\ Uncrossed(depth')
          /\ NoBids(depth') /\ NoAsks(depth')
        BY <2>1 DEF EmptyLadder, NoLevels, BidLive, AskLive, Uncrossed, NoBids, NoAsks
    <2>4. ViewShowsProperRow'
        BY <1>2, <2>1 DEF ProperRow, ViewShowsProperRow
    <2> QED  BY <2>2, <2>3, <2>4 DEF BookInv
<1>3. ASSUME NEW r \in BookRows, Apply(r), r.tradable PROVE BookInv'
    <2> DEFINE b == QuoteBid(depth, r)
               a == QuoteAsk(b, r)
    <2>1. /\ depth' = a /\ row' = r /\ quoted' = quoted \cup SidesOf(r)
          /\ PriceTick(r.bid) \in Ticks /\ PriceTick(r.ask) \in Ticks
          /\ r.bidQty \in Nat /\ r.askQty \in Nat
          /\ r.bid # 0 => r.bidQty > 0
          /\ r.ask # 0 => r.askQty > 0
        BY <1>3, RowFacts DEF Apply, ApplyRow
    <2>2. /\ depth \in Ladders /\ BidLive(depth) /\ AskLive(depth) /\ Uncrossed(depth)
          /\ "bid" \notin quoted => NoBids(depth)
          /\ "ask" \notin quoted => NoAsks(depth)
        BY DEF BookInv, BookTypeOK
    <2>3. /\ b \in Ladders /\ BidLive(b) /\ AskLive(b) /\ Uncrossed(b)
          /\ r.bid = 0 /\ NoBids(depth) => NoBids(b)
          /\ NoAsks(depth) => NoAsks(b)
          /\ r.bid # 0 => b.bestBid = PriceTick(r.bid) /\ b.bids[b.bestBid] = r.bidQty
        <3>1. CASE r.bid = 0
            BY <2>2, <3>1 DEF QuoteBid
        <3>2. CASE r.bid # 0
            BY <2>1, <2>2, <3>2, QuoteBidFacts, QuoteBidKeepsAsk
        <3> QED  BY <3>1, <3>2
    <2>4. /\ a \in Ladders /\ BidLive(a) /\ AskLive(a) /\ Uncrossed(a)
          /\ NoBids(b) => NoBids(a)
          /\ r.ask = 0 /\ NoAsks(b) => NoAsks(a)
        <3> HIDE DEF b
        <3>1. CASE r.ask = 0
            BY <2>3, <3>1 DEF QuoteAsk
        <3>2. CASE r.ask # 0
            BY <2>1, <2>3, <3>2, QuoteAskFacts, QuoteAskKeepsBid
        <3> QED  BY <3>1, <3>2
    <2>5. ASSUME ProperRow(r)
          PROVE  /\ a.bestBid = PriceTick(r.bid) /\ a.bids[a.bestBid] = r.bidQty
                 /\ a.bestAsk = PriceTick(r.ask) /\ a.asks[a.bestAsk] = r.askQty
        <3>1. r.bid # 0 /\ r.ask # 0 /\ PriceTick(r.bid) < PriceTick(r.ask)
            BY <2>5 DEF ProperRow
        <3> HIDE DEF b
        <3>2. /\ a.bestAsk = PriceTick(r.ask) /\ a.asks[a.bestAsk] = r.askQty
              /\ a.bids = b.bids
              /\ a.bestBid = b.bestBid \/ a.bestAsk <= b.bestBid
            BY <2>1, <2>3, <3>1, QuoteAskFacts
        <3>3. a.bestBid = b.bestBid
            BY <2>1, <2>3, <3>1, <3>2, MaxTickAssumption DEF Ticks
        <3> QED  BY <2>3, <3>1, <3>2, <3>3
    <2> HIDE DEF a, b
    <2>6. BookTypeOK'
        BY <2>1, <2>4 DEF BookTypeOK, SidesOf, BookInv
    <2>7. BidLive(depth') /\ AskLive(depth') /\ Uncrossed(depth')
        BY <2>1, <2>4
    <2>8. /\ "bid" \notin quoted' => NoBids(depth')
          /\ "ask" \notin quoted' => NoAsks(depth')
        <3>1. "bid" \notin quoted' => "bid" \notin quoted /\ r.bid = 0
            BY <2>1 DEF SidesOf
        <3>2. "ask" \notin quoted' => "ask" \notin quoted /\ r.ask = 0
            BY <2>1 DEF SidesOf
        <3> QED  BY <2>1, <2>2, <2>3, <2>4, <3>1, <3>2
    <2>9. ViewShowsProperRow'
        <3> SUFFICES ASSUME ProperRow(r)
                     PROVE  View(a) = [ bid |-> PriceTick(r.bid), bidQty |-> r.bidQty,
                                        ask |-> PriceTick(r.ask), askQty |-> r.askQty,
                                        valid |-> TRUE ]
            BY <2>1 DEF ViewShowsProperRow
        <3>1. PriceTick(r.bid) # NoTick /\ PriceTick(r.ask) # NoTick
            BY <2>1, MaxTickAssumption DEF Ticks, NoTick
        <3> QED  BY <2>5, <3>1 DEF View
    <2> QED  BY <2>6, <2>7, <2>8, <2>9 DEF BookInv
<1> QED  BY <1>1, <1>2, <1>3 DEF BookNext

-----------------------------------------------------------------------------
\* A valid book is never locked or crossed, and its bests are live levels.

THEOREM BookIsSound == BookSpec => [](NeverCrossed /\ BestIsLive)
<1>1. BookInv => NeverCrossed /\ BestIsLive
    BY DEF BookInv, NeverCrossed, BestIsLive, View, BidLive, AskLive, Uncrossed
<1> QED  BY <1>1, BookInvInit, BookInvStep, PTL DEF BookSpec

\* A row that quotes both sides properly is shown exactly, whatever levels the
\* rows before it left in the ladder.
THEOREM ViewIsFaithful == BookSpec => []ViewShowsProperRow
<1>1. BookInv => ViewShowsProperRow
    BY DEF BookInv
<1> QED  BY <1>1, BookInvInit, BookInvStep, PTL DEF BookSpec

\* After a halt the book stays invalid until both sides are quoted again.
THEOREM HaltIsHeld == BookSpec => []HaltHoldsUntilRequoted
<1>1. BookInv => HaltHoldsUntilRequoted
    <2>1. BookInv /\ View(depth).valid => "bid" \in quoted /\ "ask" \in quoted
        BY DEF BookInv, View, NoBids, NoAsks
    <2> QED  BY <2>1 DEF BookInv, BookTypeOK, HaltHoldsUntilRequoted
<1> QED  BY <1>1, BookInvInit, BookInvStep, PTL DEF BookSpec

\* A side a tradable row is silent about never improves.
THEOREM SilentSideHolds == BookSpec => SilentSideNeverImproves
<1> DEFINE Silent ==
        /\ row'.tradable /\ row'.ask = 0 /\ depth'.bestAsk # NoTick =>
              depth.bestAsk # NoTick /\ depth.bestAsk <= depth'.bestAsk
        /\ row'.tradable /\ row'.bid = 0 /\ depth'.bestBid # NoTick =>
              depth.bestBid # NoTick /\ depth'.bestBid <= depth.bestBid
<1>1. ASSUME BookTypeOK, BookNext PROVE Silent
    <2>1. PICK r \in BookRows : Apply(r)
        BY <1>1 DEF BookNext
    <2>2. depth \in Ladders /\ row' = r /\ depth' = ApplyRow(depth, r)
        BY <1>1, <2>1 DEF Apply, BookTypeOK
    <2>3. ASSUME r.tradable, r.ask = 0, depth'.bestAsk # NoTick
          PROVE  depth.bestAsk # NoTick /\ depth.bestAsk <= depth'.bestAsk
        <3>1. depth' = QuoteBid(depth, r)
            BY <2>2, <2>3 DEF ApplyRow, QuoteAsk
        <3>2. CASE r.bid = 0
            BY <2>2, <2>3, <3>1, <3>2, MaxTickAssumption DEF QuoteBid, Ladders, Ticks, NoTick
        <3>3. CASE r.bid # 0
            <4>1. /\ depth' \in Ladders
                  /\ \/ depth'.bestAsk = depth.bestAsk
                     \/ /\ depth.bestAsk # NoTick /\ depth.bestAsk <= depth'.bestBid
                        /\ depth'.bestBid < depth'.bestAsk
                BY <2>2, <2>3, <3>1, <3>3, RowFacts, QuoteBidFacts
            <4>2. depth.bestAsk \in Int /\ depth'.bestAsk \in Int /\ depth'.bestBid \in Int
                BY <2>2, <4>1, MaxTickAssumption DEF Ladders, Ticks, NoTick
            <4>3. CASE depth'.bestAsk = depth.bestAsk
                BY <2>3, <4>2, <4>3
            <4>4. CASE depth'.bestAsk # depth.bestAsk
                BY <4>1, <4>2, <4>4
            <4> QED  BY <4>3, <4>4
        <3> QED  BY <3>2, <3>3
    <2>4. ASSUME r.tradable, r.bid = 0, depth'.bestBid # NoTick
          PROVE  depth.bestBid # NoTick /\ depth'.bestBid <= depth.bestBid
        <3>1. depth' = QuoteAsk(depth, r)
            BY <2>2, <2>4 DEF ApplyRow, QuoteBid
        <3>2. CASE r.ask = 0
            BY <2>2, <2>4, <3>1, <3>2, MaxTickAssumption DEF QuoteAsk, Ladders, Ticks, NoTick
        <3>3. CASE r.ask # 0
            <4>1. /\ depth' \in Ladders
                  /\ \/ depth'.bestBid = depth.bestBid
                     \/ /\ depth.bestBid # NoTick /\ depth'.bestAsk <= depth.bestBid
                        /\ depth'.bestBid < depth'.bestAsk
                BY <2>2, <2>4, <3>1, <3>3, RowFacts, QuoteAskFacts
            <4>2. depth.bestBid \in Int /\ depth'.bestBid \in Int /\ depth'.bestAsk \in Int
                BY <2>2, <4>1, MaxTickAssumption DEF Ladders, Ticks, NoTick
            <4>3. CASE depth'.bestBid = depth.bestBid
                BY <2>4, <4>2, <4>3
            <4>4. CASE depth'.bestBid # depth.bestBid
                BY <4>1, <4>2, <4>4
            <4> QED  BY <4>3, <4>4
        <3> QED  BY <3>2, <3>3
    <2> QED  BY <2>2, <2>3, <2>4
<1>2. BookTypeOK /\ [BookNext]_bookVars => [Silent]_bookVars
    BY <1>1
<1> QED  BY <1>2, BookTypeCorrect, PTL DEF BookSpec, SilentSideNeverImproves

-----------------------------------------------------------------------------
(* The engine.                                                             *)

\* What an engine is opened with never changes, and what is in flight belongs
\* to an order.
SetupOK == setup \in Scenarios
PendingKnown == \A e \in pending : <<e.asset, e.id>> \in Orders

TypeInv == SetupOK /\ TypeOK /\ PendingKnown

LEMMA SatFacts ==
    ASSUME NEW t \in Nat
    PROVE  Sat(t) \in 0 .. MaxTs /\ \A u \in 0 .. MaxTs : u <= t => u <= Sat(t)
BY MaxTsAssumption DEF Sat

\* ScenariosAssumption, for one row of the open engine.
LEMMA SetupFacts ==
    ASSUME SetupOK, NEW a \in Assets
    PROVE  /\ setup[a].entry \in Nat /\ setup[a].response \in Nat
           /\ Rows(a) \subseteq Nat
           /\ \A s \in Rows(a) :
                /\ Row(a, s).exch \in 0 .. MaxTs /\ LocalTs(a, s) \in 0 .. MaxTs
                /\ PriceTick(Row(a, s).bid) \in Ticks /\ PriceTick(Row(a, s).ask) \in Ticks
                /\ Row(a, s).bidQty \in Nat /\ Row(a, s).askQty \in Nat
<1>1. /\ setup[a].entry \in Nat /\ setup[a].response \in Nat
      /\ Rows(a) \subseteq Nat
    BY ScenariosAssumption DEF SetupOK, Rows
<1>2. ASSUME NEW s \in Rows(a)
      PROVE  /\ Row(a, s).exch \in 0 .. MaxTs
             /\ PriceTick(Row(a, s).bid) \in Ticks /\ PriceTick(Row(a, s).ask) \in Ticks
             /\ Row(a, s).bidQty \in Nat /\ Row(a, s).askQty \in Nat
    <2>1. /\ Row(a, s) \in EngineRow /\ Row(a, s).exch <= MaxTs
          /\ PriceTick(Row(a, s).bid) \in Ticks /\ PriceTick(Row(a, s).ask) \in Ticks
        BY ScenariosAssumption DEF SetupOK, Rows, Row
    <2> QED  BY <2>1, MaxTsAssumption DEF EngineRow
<1>3. ASSUME NEW s \in Rows(a) PROVE LocalTs(a, s) \in 0 .. MaxTs
    <2>1. /\ Row(a, s) \in EngineRow /\ FeedTs(setup[a], s) >= 0
          /\ setup[a].adjustment \in Int /\ setup[a].offset \in Int
        BY ScenariosAssumption DEF SetupOK, Rows, Row
    <2>2. Sat(Row(a, s).local + setup[a].adjustment) + setup[a].offset \in Int
        BY <2>1, MaxTsAssumption DEF EngineRow, Sat
    <2>3. LocalTs(a, s) \in Int /\ LocalTs(a, s) <= MaxTs
        BY <2>2, MaxTsAssumption DEF LocalTs, FeedTs, Sat, Row
    <2> QED  BY <2>1, <2>3, MaxTsAssumption DEF LocalTs
<1> QED  BY <1>1, <1>2, <1>3

-----------------------------------------------------------------------------
\* What is on the schedule.

LEMMA EventCases ==
    ASSUME NEW e \in Events
    PROVE  \/ e \in pending
           \/ \E a \in Assets : \E s \in localTodo[a] :
                    e = Event("local", LocalTs(a, s), a, s, s, NoId)
           \/ \E a \in Assets : \E s \in exchTodo[a] :
                    e = Event("exch", Row(a, s).exch, a, s, s, NoId)
BY DEF Events, LocalEvents, ExchEvents

LEMMA EventFacts ==
    ASSUME TypeInv, NEW e \in Events
    PROVE  /\ e.ts \in 0 .. MaxTs /\ e.asset \in Assets /\ e.seq \in Nat /\ e.tie \in Nat
           /\ e.kind \in {"local", "exch", "request", "response"}
           /\ e.kind = "local" => e.seq \in localTodo[e.asset] /\ e.seq \in Rows(e.asset)
                                  /\ e.ts = LocalTs(e.asset, e.seq)
           /\ e.kind = "exch"  => e.seq \in exchTodo[e.asset] /\ e.seq \in Rows(e.asset)
                                  /\ e.ts = Row(e.asset, e.seq).exch
           /\ e.kind \in {"request", "response"} =>
                    e \in pending /\ <<e.asset, e.id>> \in Orders /\ e.id \in Nat
<1>1. CASE e \in pending
    BY <1>1 DEF TypeInv, TypeOK, PendingType, PendingKnown
<1>2. ASSUME NEW a \in Assets, NEW s \in localTodo[a],
             e = Event("local", LocalTs(a, s), a, s, s, NoId)
      PROVE  /\ e.ts \in 0 .. MaxTs /\ e.asset = a /\ e.seq = s /\ e.tie = s /\ e.kind = "local"
             /\ s \in Nat /\ s \in Rows(a) /\ e.ts = LocalTs(a, s)
    BY <1>2, SetupFacts DEF TypeInv, TypeOK, Event
<1>3. ASSUME NEW a \in Assets, NEW s \in exchTodo[a],
             e = Event("exch", Row(a, s).exch, a, s, s, NoId)
      PROVE  /\ e.ts \in 0 .. MaxTs /\ e.asset = a /\ e.seq = s /\ e.tie = s /\ e.kind = "exch"
             /\ s \in Nat /\ s \in Rows(a) /\ e.ts = Row(a, s).exch
    BY <1>3, SetupFacts DEF TypeInv, TypeOK, Event
<1> QED  BY <1>1, <1>2, <1>3, EventCases

LEMMA EventTime ==
    ASSUME TypeInv, NEW e \in Events
    PROVE  e.ts \in Int
<1>1. e.ts \in 0 .. MaxTs
    BY EventFacts
<1> QED  BY <1>1, MaxTsAssumption

\* The event taken next is not later than any other.
LEMMA NextIsEarliest ==
    ASSUME TypeInv, NEW e \in NextEvents
    PROVE  e \in Events /\ \A f \in Events : e.ts <= f.ts
<1>1. e \in Events /\ \A f \in Events : ~KeyLess(Key(f), Key(e))
    BY DEF NextEvents
<1>2. ASSUME NEW f \in Events, f.ts < e.ts PROVE FALSE
    <2>1. Key(f)[1] < Key(e)[1] /\ \A h \in 1 .. (1 - 1) : Key(f)[h] = Key(e)[h]
        BY <1>2 DEF Key
    <2> QED  BY <1>1, <2>1 DEF KeyLess
<1>3. \A f \in Events : f.ts \in Int
    BY EventTime
<1> QED  BY <1>1, <1>2, <1>3

-----------------------------------------------------------------------------
\* Types.

LEMMA TypeInit == Init => TypeInv
<1> SUFFICES ASSUME Init PROVE TypeInv
    OBVIOUS
<1>1. SetupOK
    BY DEF Init, SetupOK
<1>2. now \in 0 .. MaxTs
    <2>1. Timestamps(setup) \subseteq 0 .. MaxTs
        BY <1>1, SetupFacts DEF Timestamps, Rows, Row, LocalTs
    <2>2. CASE Timestamps(setup) = {}
        BY <2>2, MaxTsAssumption DEF Init
    <2>3. CASE Timestamps(setup) # {}
        <3>1. Timestamps(setup) \subseteq Nat
            BY <2>1, MaxTsAssumption
        <3>2. Min(Timestamps(setup)) \in Timestamps(setup)
            BY <2>3, <3>1, MinOfNaturals
        <3> QED  BY <2>1, <2>3, <3>2 DEF Init
    <2> QED  BY <2>2, <2>3
<1>3. localTodo \in [Assets -> SUBSET Nat] /\ exchTodo \in [Assets -> SUBSET Nat]
    BY <1>1, SetupFacts DEF Init
<1>4. \A a \in Assets : localTodo[a] \subseteq Rows(a) /\ exchTodo[a] \subseteq Rows(a)
    BY DEF Init
<1>5. orders \in [Orders -> OrderType] /\ trail \in [Orders -> TrailType]
    BY MaxTsAssumption DEF Init, Unsent, OrderType, Statuses, Sides, NoTrail, TrailType
<1>6. call \in CallType
    BY MaxTsAssumption DEF Init, NoCall, CallType
<1> QED  BY <1>1, <1>2, <1>3, <1>4, <1>5, <1>6, EmptyLadderType
         DEF Init, TypeInv, TypeOK, PendingKnown

\* An order's asset and identifier.
LEMMA OrderFacts ==
    ASSUME NEW o \in Orders
    PROVE  o[1] \in Assets /\ o[2] \in Nat /\ <<o[1], o[2]>> = o
BY OrdersAssumption

LEMMA SubmitTypes ==
    ASSUME TypeInv, NEW o \in Orders, NEW side \in Sides, NEW price \in Limits,
           Submit(o, side, price)
    PROVE  TypeInv'
<1>1. o[1] \in Assets /\ o[2] \in Nat /\ <<o[1], o[2]>> = o
    BY OrderFacts
<1> DEFINE e == Event("request", Sat(now + setup[o[1]].entry), o[1], localSeq[o[1]], serial + 1, o[2])
<1>2. e \in PendingType
    <2>1. Sat(now + setup[o[1]].entry) \in 0 .. MaxTs
        <3>1. now + setup[o[1]].entry \in Nat
            BY <1>1, SetupFacts, MaxTsAssumption DEF TypeInv, TypeOK
        <3> QED  BY <3>1, SatFacts
    <2> QED  BY <1>1, <2>1 DEF Event, PendingType, TypeInv, TypeOK
<1>3. pending' \in SUBSET PendingType /\ PendingKnown'
    BY <1>1, <1>2 DEF Submit, Fresh, Entry, EntryRequest, TypeInv, TypeOK, PendingKnown, Event
<1>4. orders' \in [Orders -> OrderType]
    <2>1. price \in Nat /\ now \in 0 .. MaxTs /\ 0 \in 0 .. MaxTs
        BY LimitsAssumption, MaxTsAssumption DEF TypeInv, TypeOK
    <2>2. Sent(side, price) \in OrderType
        BY <2>1 DEF Sent, OrderType, Statuses
    <2> QED  BY <2>2 DEF Submit, Fresh, Entry, EntryRequest, TypeInv, TypeOK
<1>5. trail' \in [Orders -> TrailType]
    BY <1>1, SetupFacts DEF Submit, Fresh, Entry, EntryRequest, TypeInv, TypeOK, TrailType
<1>6. call' \in CallType /\ rc' \in {-2, 0, 1}
    BY MaxTsAssumption DEF Submit, Fresh, Entry, EntryRequest, Return, NoCall, CallType
<1>7. UNCHANGED <<setup, now, localTodo, exchTodo, localDepth, exchDepth,
                  feedLatency, orderLatency, localSeq>> /\ serial' = serial + 1
    BY DEF Submit, Fresh, Entry, EntryRequest, feedVars, exchVars
<1> QED  BY <1>3, <1>4, <1>5, <1>6, <1>7 DEF TypeInv, TypeOK, SetupOK, Rows

\* Calls that only open, refuse or answer: nothing but the call changes.
LEMMA CallTypes ==
    ASSUME TypeInv,
           \/ \E o \in Orders : SubmitDuplicate(o)
           \/ \E d \in Durations : Elapse(d)
           \/ \E o \in Orders, d \in Durations : Wait(o, d)
           \/ NextFeed
    PROVE  TypeInv'
<1>1. UNCHANGED <<setup, now, localTodo, exchTodo, localDepth, exchDepth, feedLatency,
                  orderLatency, localSeq, orders, pending, serial, trail>>
    BY DEF SubmitDuplicate, Elapse, Wait, NextFeed, feedVars, exchVars, orderVars
<1>2. \A d \in Durations : Sat(now + d) \in 0 .. MaxTs
    <2>1. ASSUME NEW d \in Durations PROVE now + d \in Nat
        BY DurationsAssumption, MaxTsAssumption DEF TypeInv, TypeOK
    <2> QED  BY <2>1, SatFacts
<1>3. 0 \in 0 .. MaxTs
    BY MaxTsAssumption
<1>4. NoCall \in CallType
    BY <1>3 DEF NoCall, CallType
<1>5. call' \in CallType /\ rc' \in {-2, 0, 1}
    <2>0. call \in CallType /\ rc \in {-2, 0, 1}
        BY DEF TypeInv, TypeOK
    <2>1. CASE \E o \in Orders : SubmitDuplicate(o)
        BY <2>1, <1>4 DEF SubmitDuplicate, Return
    <2>2. ASSUME NEW d \in Durations, Elapse(d) PROVE call' \in CallType /\ rc' \in {-2, 0, 1}
        BY <2>0, <2>2, <1>2, <1>4 DEF Elapse, Return, Call, CallType, NoCall
    <2>3. ASSUME NEW o \in Orders, NEW d \in Durations, Wait(o, d)
          PROVE call' \in CallType /\ rc' \in {-2, 0, 1}
        BY <2>0, <2>3, <1>2, <1>4 DEF Wait, Return, Call, CallType
    <2>4. CASE NextFeed
        BY <2>0, <2>4, <1>3, <1>4 DEF NextFeed, Return, Call, CallType, NoCall
    <2> QED  BY <2>1, <2>2, <2>3, <2>4
<1> QED  BY <1>1, <1>5 DEF TypeInv, TypeOK, SetupOK, Rows, PendingKnown

LEMMA LocalDataTypes ==
    ASSUME TypeInv, NEW e \in Events, LocalData(e)
    PROVE  TypeInv'
<1>1. /\ e.asset \in Assets /\ e.seq \in Nat /\ e.seq \in Rows(e.asset)
      /\ e.ts \in 0 .. MaxTs
    BY EventFacts DEF LocalData, Advance
<1>2. localDepth' \in [Assets -> Ladders]
    <2>1. ApplyRow(localDepth[e.asset], Row(e.asset, e.seq)) \in Ladders
        BY <1>1, SetupFacts, ApplyRowType DEF TypeInv, TypeOK
    <2> QED  BY <1>1, <2>1 DEF LocalData, Advance, TypeInv, TypeOK
<1>3. feedLatency' \in [Assets -> {NoSample} \cup (Nat \X Nat)]
    <2>1. Row(e.asset, e.seq).exch \in Nat /\ e.ts \in Nat
        BY <1>1, SetupFacts, MaxTsAssumption DEF TypeInv
    <2> QED  BY <1>1, <2>1 DEF LocalData, Advance, TypeInv, TypeOK
<1>4. call' \in CallType /\ rc' \in {-2, 0, 1}
    BY MaxTsAssumption DEF LocalData, Advance, Return, NoCall, CallType, TypeInv, TypeOK
<1>5. /\ localTodo' \in [Assets -> SUBSET Nat] /\ \A a \in Assets : localTodo'[a] \subseteq localTodo[a]
      /\ localSeq' \in [Assets -> Nat] /\ now' \in 0 .. MaxTs
    BY <1>1 DEF LocalData, Advance, TypeInv, TypeOK
<1>6. UNCHANGED <<setup, exchTodo, exchDepth, orderLatency, orders, pending, serial, trail>>
    BY DEF LocalData, Advance, exchVars, orderVars
<1> QED  BY <1>2, <1>3, <1>4, <1>5, <1>6 DEF TypeInv, TypeOK, SetupOK, Rows, PendingKnown

LEMMA ExchDataTypes ==
    ASSUME TypeInv, NEW e \in Events, ExchData(e)
    PROVE  TypeInv'
<1>1. /\ e.asset \in Assets /\ e.seq \in Rows(e.asset) /\ e.ts \in 0 .. MaxTs
    BY EventFacts DEF ExchData, Advance
<1>2. exchDepth' \in [Assets -> Ladders]
    <2>1. ApplyRow(exchDepth[e.asset], Row(e.asset, e.seq)) \in Ladders
        BY <1>1, SetupFacts, ApplyRowType DEF TypeInv, TypeOK
    <2> QED  BY <1>1, <2>1 DEF ExchData, Advance, TypeInv, TypeOK
<1>3. /\ exchTodo' \in [Assets -> SUBSET Nat] /\ \A a \in Assets : exchTodo'[a] \subseteq exchTodo[a]
      /\ now' \in 0 .. MaxTs
    BY <1>1 DEF ExchData, Advance, TypeInv, TypeOK
<1>4. UNCHANGED <<setup, localTodo, localDepth, feedLatency, localSeq, orderLatency,
                  orders, pending, serial, trail, call, rc>>
    BY DEF ExchData, Advance, feedVars, orderVars
<1> QED  BY <1>2, <1>3, <1>4 DEF TypeInv, TypeOK, SetupOK, Rows, PendingKnown

\* The matcher answers a decision whose price is that of a real quote.
LEMMA DecisionType ==
    ASSUME NEW d \in Ladders, NEW side, NEW price
    PROVE  LET m == MatchImmediate(side, price, View(d))
           IN  m.status \in {"FILLED", "EXPIRED"} /\ m.exec \in Nat
<1> DEFINE v == View(d)
<1>1. v.valid => v.bid \in Nat /\ v.ask \in Nat
    <2>1. d.bestBid \in Ticks \cup {NoTick} /\ d.bestAsk \in Ticks \cup {NoTick}
        BY DEF Ladders
    <2>2. /\ v.bid = d.bestBid /\ v.ask = d.bestAsk
          /\ v.valid => d.bestBid # NoTick /\ d.bestAsk # NoTick
        BY DEF View
    <2> QED  BY <2>1, <2>2, MaxTickAssumption DEF Ticks
<1> HIDE DEF v
<1>2. Crosses(side, price, v) => Crossing(side, v) \in Nat
    <2>1. CASE v.valid
        <3>1. TickSize * v.bid \in Int /\ TickSize * v.ask \in Int
            BY <1>1, <2>1, TickSizeAssumption
        <3>2. Crossing(side, v) \in Int
            BY <3>1 DEF Crossing
        <3> QED  BY <3>2 DEF Crosses
    <2> QED  BY <2>1 DEF Crosses
<1>3. LET m == MatchImmediate(side, price, v)
      IN  m.status \in {"FILLED", "EXPIRED"} /\ m.exec \in Nat
    BY <1>2 DEF MatchImmediate
<1> QED  BY <1>3 DEF v

LEMMA RequestTypes ==
    ASSUME TypeInv, NEW e \in Events, Request(e)
    PROVE  TypeInv'
<1> DEFINE o == <<e.asset, e.id>>
           m == MatchImmediate(orders[o].side, orders[o].price, View(exchDepth[e.asset]))
           answer == Event("response", Sat(e.ts + setup[e.asset].response), e.asset,
                           e.seq, serial + 1, e.id)
<1>1. /\ e.ts \in 0 .. MaxTs /\ e.asset \in Assets /\ e.seq \in Nat /\ e.id \in Nat
      /\ e \in pending /\ o \in Orders
    BY EventFacts DEF Request, Forward, Reply, ExchBook
<1>2. m.status \in {"FILLED", "EXPIRED"} /\ m.exec \in Nat
    BY <1>1, DecisionType DEF TypeInv, TypeOK
<1>3. answer \in PendingType
    <2>1. Sat(e.ts + setup[e.asset].response) \in 0 .. MaxTs
        <3>1. e.ts + setup[e.asset].response \in Nat
            BY <1>1, SetupFacts, MaxTsAssumption DEF TypeInv
        <3> QED  BY <3>1, SatFacts
    <2> QED  BY <1>1, <2>1 DEF Event, PendingType, TypeInv, TypeOK
<1>4. /\ now' = e.ts /\ serial' = serial + 1
      /\ orders' = [orders EXCEPT ![o].exch = e.ts, ![o].status = m.status, ![o].exec = m.exec]
      /\ pending' = (pending \ {e}) \cup {answer}
      /\ trail' = [trail EXCEPT ![o].met = Rows(e.asset) \ exchTodo[e.asset]]
      /\ UNCHANGED <<setup, localTodo, exchTodo, localDepth, exchDepth, feedLatency,
                     orderLatency, localSeq, call, rc>>
    BY DEF Request, Forward, Reply, ExchBook, feedVars, exchVars
<1>5. answer.asset = e.asset /\ answer.id = e.id
    BY DEF Event
<1>6. pending' \in SUBSET PendingType /\ PendingKnown'
    <2> HIDE DEF m, answer
    <2> QED  BY <1>1, <1>3, <1>4, <1>5 DEF TypeInv, TypeOK, PendingKnown
<1> HIDE DEF m, answer, o
<1>7. orders' \in [Orders -> OrderType]
    <2>1. orders[o] \in OrderType /\ orders \in [Orders -> OrderType]
        BY <1>1 DEF TypeInv, TypeOK
    <2>2. orders' = [orders EXCEPT ![o] = [orders[o] EXCEPT !.exch = e.ts, !.status = m.status,
                                                            !.exec = m.exec]]
        BY <1>1, <1>4, <2>1
    <2>3. [orders[o] EXCEPT !.exch = e.ts, !.status = m.status, !.exec = m.exec] \in OrderType
        BY <1>1, <1>2, <2>1 DEF OrderType, Statuses
    <2> QED  BY <2>1, <2>2, <2>3
<1>8. trail' \in [Orders -> TrailType]
    <2>1. Rows(e.asset) \ exchTodo[e.asset] \in SUBSET Nat
        BY <1>1, SetupFacts DEF TypeInv
    <2>2. trail[o] \in TrailType /\ trail \in [Orders -> TrailType]
        BY <1>1 DEF TypeInv, TypeOK
    <2> QED  BY <1>1, <1>4, <2>1, <2>2 DEF TrailType
<1> QED  BY <1>1, <1>4, <1>6, <1>7, <1>8 DEF TypeInv, TypeOK, SetupOK, Rows

LEMMA ResponseTypes ==
    ASSUME TypeInv, NEW e \in Events, Response(e)
    PROVE  TypeInv'
<1> DEFINE o == <<e.asset, e.id>>
<1>1. e.ts \in 0 .. MaxTs /\ e.asset \in Assets /\ o \in Orders
    BY EventFacts DEF Response, Forward, Finish
<1>2. /\ now' = e.ts /\ pending' = pending \ {e}
      /\ orders' = [orders EXCEPT ![o].resp = e.ts, ![o].visible = TRUE]
      /\ orderLatency' = [orderLatency EXCEPT ![e.asset] =
                                <<orders[o].req, orders[o].exch, e.ts>>]
      /\ UNCHANGED <<setup, localTodo, exchTodo, localDepth, exchDepth, feedLatency,
                     localSeq, serial, trail>>
    BY DEF Response, Forward, Finish, feedVars, exchVars
<1>3. orders' \in [Orders -> OrderType]
    BY <1>1, <1>2 DEF TypeInv, TypeOK, OrderType
<1>4. orderLatency' \in [Assets -> {NoSample} \cup (Nat \X Nat \X Nat)]
    <2>1. orders[o].req \in Nat /\ orders[o].exch \in Nat /\ e.ts \in Nat
        BY <1>1, MaxTsAssumption DEF TypeInv, TypeOK, OrderType
    <2> HIDE DEF o
    <2> QED  BY <1>2, <2>1 DEF TypeInv, TypeOK
<1>5. call' \in CallType /\ rc' \in {-2, 0, 1}
    <2>1. NoCall \in CallType /\ Call("drain", e.ts, o) \in CallType
        BY <1>1, MaxTsAssumption DEF NoCall, Call, CallType
    <2> QED  BY <2>1 DEF Response, Forward, Finish, Return, TypeInv, TypeOK
<1>6. pending' \in SUBSET PendingType /\ PendingKnown'
    BY <1>2 DEF TypeInv, TypeOK, PendingKnown
<1> HIDE DEF o
<1> QED  BY <1>1, <1>2, <1>3, <1>4, <1>5, <1>6 DEF TypeInv, TypeOK, SetupOK, Rows

LEMMA ReachTargetTypes ==
    ASSUME TypeInv, ReachTarget
    PROVE  TypeInv'
<1>1. now' \in 0 .. MaxTs
    BY DEF ReachTarget, Due, TypeInv, TypeOK, CallType
<1>2. call' \in CallType /\ rc' \in {-2, 0, 1}
    BY MaxTsAssumption DEF ReachTarget, Due, Return, NoCall, CallType
<1>3. UNCHANGED <<setup, localTodo, exchTodo, localDepth, exchDepth, feedLatency,
                  orderLatency, localSeq, orders, pending, serial, trail>>
    BY DEF ReachTarget, Due, feedVars, exchVars, orderVars
<1> QED  BY <1>1, <1>2, <1>3 DEF TypeInv, TypeOK, SetupOK, Rows, PendingKnown

\* The kinds of step there are, with the event a step takes known to be the
\* earliest.
LEMMA StepCases ==
    ASSUME TypeInv, [Next]_vars
    PROVE  \/ \E o \in Orders, side \in Sides, price \in Limits : Submit(o, side, price)
           \/ \/ \E o \in Orders : SubmitDuplicate(o)
              \/ \E d \in Durations : Elapse(d)
              \/ \E o \in Orders, d \in Durations : Wait(o, d)
              \/ NextFeed
           \/ \E e \in Events : /\ \A f \in Events : e.ts <= f.ts
                                /\ LocalData(e) \/ ExchData(e) \/ Request(e) \/ Response(e)
           \/ ReachTarget
           \/ UNCHANGED vars
BY NextIsEarliest DEF Next, Strategy, Step

LEMMA TypeStep == TypeInv /\ [Next]_vars => TypeInv'
<1> SUFFICES ASSUME TypeInv, [Next]_vars PROVE TypeInv'
    OBVIOUS
<1>1. CASE UNCHANGED vars
    BY <1>1 DEF vars, feedVars, exchVars, orderVars, TypeInv, TypeOK, SetupOK, Rows, PendingKnown
<1> QED  BY <1>1, StepCases, SubmitTypes, CallTypes, LocalDataTypes, ExchDataTypes,
            RequestTypes, ResponseTypes, ReachTargetTypes

\* The engine's state is well typed: in particular the clock and every time it
\* reports stay in range, and no ladder leaves its ticks.
THEOREM TypeCorrect == Spec => []TypeOK
<1>1. TypeInv => TypeOK
    BY DEF TypeInv
<1> QED  BY <1>1, TypeInit, TypeStep, PTL DEF Spec

-----------------------------------------------------------------------------
\* The clock and the schedule.  An event taken is the earliest, so the clock
\* overtakes nothing by taking it; but a call ends by moving the clock to its
\* target, and for that to be safe the target must not lie behind the clock.

TargetAhead == Bounded => now <= call.target

ScheduleInv == TypeInv /\ NothingOverdue /\ TargetAhead

LEMMA ScheduleInit == Init => ScheduleInv
<1> SUFFICES ASSUME Init PROVE ScheduleInv
    OBVIOUS
<1>1. TypeInv
    BY TypeInit
<1>2. TargetAhead
    BY DEF Init, NoCall, Bounded, TargetAhead
<1>3. ASSUME NEW e \in Events PROVE now <= e.ts
    <2>1. e.ts \in Timestamps(setup)
        <3>1. pending = {} /\ \A a \in Assets : localTodo[a] = Rows(a) /\ exchTodo[a] = Rows(a)
            BY DEF Init
        <3>2. ASSUME NEW a \in Assets, NEW s \in Rows(a)
              PROVE  LocalTs(a, s) \in Timestamps(setup) /\ Row(a, s).exch \in Timestamps(setup)
            BY DEF Timestamps, Rows, Row, LocalTs
        <3> QED  BY <3>1, <3>2, EventCases DEF Event
    <2>2. Timestamps(setup) \subseteq Nat
        <3>1. \A a \in Assets : \A s \in Rows(a) :
                Row(a, s).exch \in 0 .. MaxTs /\ LocalTs(a, s) \in 0 .. MaxTs
            BY <1>1, SetupFacts DEF TypeInv
        <3>2. Timestamps(setup) \subseteq 0 .. MaxTs
            BY <3>1 DEF Timestamps, Rows, Row, LocalTs
        <3> QED  BY <3>2, MaxTsAssumption
    <2> QED  BY <2>1, <2>2, MinOfNaturals DEF Init
<1> QED  BY <1>1, <1>2, <1>3 DEF ScheduleInv, NothingOverdue

\* A schedule that holds the old events and at most one more, not before the
\* clock, is overdue in nothing.
LEMMA NothingNewOverdue ==
    ASSUME NothingOverdue, now' = now,
           \A f \in Events' : f \in Events \/ now <= f.ts
    PROVE  NothingOverdue'
BY DEF NothingOverdue

LEMMA TakenNothingOverdue ==
    ASSUME NEW e \in Events, \A f \in Events : e.ts <= f.ts, now' = e.ts,
           \A f \in Events' : f \in Events \/ e.ts <= f.ts
    PROVE  NothingOverdue'
BY DEF NothingOverdue

\* How each action changes the schedule.
LEMMA SubmitSchedule ==
    ASSUME TypeInv, NEW o \in Orders, NEW side \in Sides, NEW price \in Limits,
           Submit(o, side, price)
    PROVE  \A f \in Events' : f \in Events \/ now <= f.ts
<1>1. o[1] \in Assets /\ now \in 0 .. MaxTs /\ setup[o[1]].entry \in Nat
    BY OrderFacts, SetupFacts DEF TypeInv, TypeOK
<1>2. now <= Sat(now + setup[o[1]].entry)
    BY <1>1, SatFacts, MaxTsAssumption
<1>3. \A f \in pending' : f \in pending \/ f.ts = Sat(now + setup[o[1]].entry)
    BY DEF Submit, Fresh, Entry, EntryRequest, Event
<1>4. LocalEvents' = LocalEvents /\ ExchEvents' = ExchEvents
    BY DEF Submit, Fresh, Entry, EntryRequest, feedVars, exchVars, LocalEvents, ExchEvents, LocalTs, Row
<1> QED  BY <1>2, <1>3, <1>4 DEF Events

LEMMA LocalDataSchedule ==
    ASSUME TypeInv, NEW e \in Events, LocalData(e)
    PROVE  Events' \subseteq Events
<1>1. e.asset \in Assets
    BY EventFacts
<1>2. \A a \in Assets : localTodo'[a] \subseteq localTodo[a]
    BY <1>1 DEF LocalData, Advance, TypeInv, TypeOK
<1>3. setup' = setup /\ exchTodo' = exchTodo /\ pending' = pending
    BY DEF LocalData, Advance, exchVars, orderVars
<1>4. LocalEvents' \subseteq LocalEvents
    BY <1>2, <1>3 DEF LocalEvents, LocalTs
<1>5. ExchEvents' = ExchEvents
    BY <1>3 DEF ExchEvents, Row
<1> QED  BY <1>3, <1>4, <1>5 DEF Events

LEMMA ExchDataSchedule ==
    ASSUME TypeInv, NEW e \in Events, ExchData(e)
    PROVE  Events' \subseteq Events
<1>1. e.asset \in Assets
    BY EventFacts
<1>2. \A a \in Assets : exchTodo'[a] \subseteq exchTodo[a]
    BY <1>1 DEF ExchData, Advance, TypeInv, TypeOK
<1>3. setup' = setup /\ localTodo' = localTodo /\ pending' = pending
    BY DEF ExchData, Advance, feedVars, orderVars
<1>4. ExchEvents' \subseteq ExchEvents
    BY <1>2, <1>3 DEF ExchEvents, Row
<1>5. LocalEvents' = LocalEvents
    BY <1>3 DEF LocalEvents, LocalTs
<1> QED  BY <1>3, <1>4, <1>5 DEF Events

LEMMA RequestSchedule ==
    ASSUME TypeInv, NEW e \in Events, Request(e)
    PROVE  \A f \in Events' : f \in Events \/ e.ts <= f.ts
<1>1. e.asset \in Assets /\ e.ts \in 0 .. MaxTs /\ setup[e.asset].response \in Nat
    BY EventFacts, SetupFacts DEF TypeInv
<1>2. e.ts <= Sat(e.ts + setup[e.asset].response)
    BY <1>1, SatFacts, MaxTsAssumption
<1>3. \A f \in pending' : f \in pending \/ f.ts = Sat(e.ts + setup[e.asset].response)
    BY DEF Request, Forward, Reply, ExchBook, Event
<1>4. LocalEvents' = LocalEvents /\ ExchEvents' = ExchEvents
    BY DEF Request, Forward, Reply, ExchBook, feedVars, exchVars, LocalEvents, ExchEvents, LocalTs, Row
<1> QED  BY <1>2, <1>3, <1>4 DEF Events

LEMMA ResponseSchedule ==
    ASSUME NEW e \in Events, Response(e)
    PROVE  Events' \subseteq Events
BY DEF Response, Forward, Finish, feedVars, exchVars, Events, LocalEvents, ExchEvents, LocalTs, Row

\* Steps that take nothing from the schedule and add nothing.
LEMMA SameSchedule ==
    ASSUME UNCHANGED <<setup, localTodo, exchTodo, pending>>
    PROVE  Events' = Events
BY DEF Events, LocalEvents, ExchEvents, LocalTs, Row

\* The target a call is opened with is not behind the clock.
LEMMA OpenTargetAhead ==
    ASSUME TypeInv, NEW d \in Durations
    PROVE  now <= Sat(now + d)
<1>1. now \in 0 .. MaxTs /\ d \in Nat /\ now + d \in Nat
    BY DurationsAssumption, MaxTsAssumption DEF TypeInv, TypeOK
<1> QED  BY <1>1, SatFacts, MaxTsAssumption

LEMMA ScheduleStep == ScheduleInv /\ [Next]_vars => ScheduleInv'
<1> SUFFICES ASSUME ScheduleInv, [Next]_vars PROVE NothingOverdue' /\ TargetAhead'
    BY TypeStep DEF ScheduleInv
<1>0. TypeInv /\ NothingOverdue /\ TargetAhead
    BY DEF ScheduleInv
<1>1. ASSUME NEW o \in Orders, NEW side \in Sides, NEW price \in Limits, Submit(o, side, price)
      PROVE  NothingOverdue' /\ TargetAhead'
    <2>1. now' = now /\ call'.op = "idle"
        BY <1>1 DEF Submit, Fresh, Entry, EntryRequest, Return, NoCall
    <2> QED  BY <1>0, <1>1, <2>1, SubmitSchedule, NothingNewOverdue DEF TargetAhead, Bounded
<1>2. ASSUME \/ \E o \in Orders : SubmitDuplicate(o)
             \/ \E d \in Durations : Elapse(d)
             \/ \E o \in Orders, d \in Durations : Wait(o, d)
             \/ NextFeed
      PROVE  NothingOverdue' /\ TargetAhead'
    <2>1. UNCHANGED <<setup, now, localTodo, exchTodo, pending>>
        BY <1>2 DEF SubmitDuplicate, Elapse, Wait, NextFeed, feedVars, exchVars, orderVars
    <2>2. NothingOverdue'
        BY <1>0, <2>1, SameSchedule DEF NothingOverdue
    <2>3. TargetAhead'
        <3>1. CASE \E o \in Orders : SubmitDuplicate(o)
            BY <3>1 DEF SubmitDuplicate, Return, NoCall, TargetAhead, Bounded
        <3>2. ASSUME NEW d \in Durations, Elapse(d) PROVE TargetAhead'
            BY <1>0, <2>1, <3>2, OpenTargetAhead
               DEF Elapse, Return, NoCall, Call, Idle, TargetAhead, Bounded
        <3>3. ASSUME NEW o \in Orders, NEW d \in Durations, Wait(o, d) PROVE TargetAhead'
            BY <1>0, <2>1, <3>3, OpenTargetAhead
               DEF Wait, Return, NoCall, Call, Idle, TargetAhead, Bounded
        <3>4. CASE NextFeed
            BY <3>4 DEF NextFeed, Return, NoCall, Call, TargetAhead, Bounded
        <3> QED  BY <1>2, <3>1, <3>2, <3>3, <3>4
    <2> QED  BY <2>2, <2>3
<1>3. ASSUME NEW e \in Events, \A f \in Events : e.ts <= f.ts, LocalData(e)
      PROVE  NothingOverdue' /\ TargetAhead'
    <2>1. now' = e.ts /\ NothingOverdue'
        BY <1>0, <1>3, LocalDataSchedule, TakenNothingOverdue DEF LocalData, Advance
    <2>2. TargetAhead'
        BY <1>3, <2>1 DEF LocalData, Advance, Taken, Due, Return, NoCall, TargetAhead, Bounded
    <2> QED  BY <2>1, <2>2
<1>4. ASSUME NEW e \in Events, \A f \in Events : e.ts <= f.ts, ExchData(e)
      PROVE  NothingOverdue' /\ TargetAhead'
    <2>1. now' = e.ts /\ NothingOverdue'
        BY <1>0, <1>4, ExchDataSchedule, TakenNothingOverdue DEF ExchData, Advance
    <2>2. TargetAhead'
        BY <1>4, <2>1 DEF ExchData, Advance, Taken, Due, TargetAhead, Bounded
    <2> QED  BY <2>1, <2>2
<1>5. ASSUME NEW e \in Events, \A f \in Events : e.ts <= f.ts, Request(e)
      PROVE  NothingOverdue' /\ TargetAhead'
    <2>1. now' = e.ts /\ NothingOverdue'
        BY <1>0, <1>5, RequestSchedule, TakenNothingOverdue DEF Request, Forward, Reply, ExchBook
    <2>2. TargetAhead'
        BY <1>5, <2>1 DEF Request, Forward, Reply, ExchBook, Taken, Due, TargetAhead, Bounded
    <2> QED  BY <2>1, <2>2
<1>6. ASSUME NEW e \in Events, \A f \in Events : e.ts <= f.ts, Response(e)
      PROVE  NothingOverdue' /\ TargetAhead'
    <2>1. now' = e.ts /\ NothingOverdue'
        BY <1>6, ResponseSchedule, TakenNothingOverdue DEF Response, Forward, Finish
    <2>2. e.ts \in Int
        BY <1>0, EventTime
    <2>3. TargetAhead'
        BY <1>6, <2>1, <2>2 DEF Response, Forward, Finish, Taken, Due, Return, NoCall, Call, TargetAhead, Bounded
    <2> QED  BY <2>1, <2>3
<1>7. CASE ReachTarget
    <2>1. Events' = Events
        BY <1>7, SameSchedule DEF ReachTarget, Due, feedVars, exchVars, orderVars
    <2>2. call.target \in Int /\ \A e \in Events : e.ts \in Int /\ call.target < e.ts
        <3>1. call.target \in Int
            BY <1>0, MaxTsAssumption DEF TypeInv, TypeOK, CallType
        <3>2. \A e \in Events : e.ts \in Int /\ ~(e.ts <= call.target)
            BY <1>0, <1>7, EventTime DEF ReachTarget, Due
        <3> QED  BY <3>1, <3>2
    <2>3. NothingOverdue'
        BY <1>7, <2>1, <2>2 DEF ReachTarget, Due, NothingOverdue
    <2>4. TargetAhead'
        BY <1>7 DEF ReachTarget, Due, Return, NoCall, TargetAhead, Bounded
    <2> QED  BY <2>3, <2>4
<1>8. CASE UNCHANGED vars
    <2>1. Events' = Events
        BY <1>8, SameSchedule DEF vars, feedVars, exchVars, orderVars
    <2> QED  BY <1>0, <1>8, <2>1 DEF vars, NothingOverdue, TargetAhead, Bounded
<1> QED  BY <1>0, <1>1, <1>2, <1>3, <1>4, <1>5, <1>6, <1>7, <1>8, StepCases

\* No event is ever applied late.
THEOREM NothingIsOverdue == Spec => []NothingOverdue
<1>1. ScheduleInv => NothingOverdue
    BY DEF ScheduleInv
<1> QED  BY <1>1, ScheduleInit, ScheduleStep, PTL DEF Spec

\* No step moves the clock back.
LEMMA ClockForward ==
    ASSUME ScheduleInv, [Next]_vars
    PROVE  now <= now'
<1>0. TypeInv /\ NothingOverdue /\ TargetAhead /\ now \in Int
    BY MaxTsAssumption DEF ScheduleInv, TypeInv, TypeOK
<1>1. ASSUME NEW e \in Events, LocalData(e) \/ ExchData(e) \/ Request(e) \/ Response(e)
      PROVE  now <= now'
    BY <1>0, <1>1 DEF NothingOverdue, LocalData, ExchData, Request, Response
<1>2. CASE ReachTarget
    BY <1>0, <1>2 DEF ReachTarget, Due, TargetAhead
<1>3. ASSUME UNCHANGED now PROVE now <= now'
    BY <1>0, <1>3
<1>4. ASSUME \/ \E o \in Orders, side \in Sides, price \in Limits : Submit(o, side, price)
             \/ \E o \in Orders : SubmitDuplicate(o)
             \/ \E d \in Durations : Elapse(d)
             \/ \E o \in Orders, d \in Durations : Wait(o, d)
             \/ NextFeed
             \/ UNCHANGED vars
      PROVE  UNCHANGED now
    BY <1>4 DEF Submit, Fresh, Entry, EntryRequest, SubmitDuplicate, Elapse, Wait, NextFeed, vars
<1> QED  BY <1>0, <1>1, <1>2, <1>3, <1>4, StepCases

\* The clock only moves forward.
THEOREM ClockIsMonotone == Spec => ClockNeverGoesBack
<1>1. ScheduleInv /\ [Next]_vars => [now <= now']_vars
    BY ClockForward
<1> QED  BY <1>1, ScheduleInit, ScheduleStep, PTL DEF Spec, ClockNeverGoesBack

-----------------------------------------------------------------------------
(* The life of an order. *)

\* An identifier not used yet carries nothing.
UnsentBlank == \A o \in Orders : orders[o].status = "none" => ~orders[o].visible

OrderInv == TypeInv /\ UnsentBlank /\ OneEventPerOpenOrder /\ LatenciesExact

LEMMA OrderInit == Init => OrderInv
<1> SUFFICES ASSUME Init PROVE OrderInv
    OBVIOUS
<1>1. \A o \in Orders : orders[o].status = "none" /\ ~orders[o].visible
    BY DEF Init, Unsent
<1>2. UnsentBlank
    BY <1>1 DEF UnsentBlank
<1>3. OneEventPerOpenOrder
    BY <1>1 DEF Init, InFlight, InStage, OneEventPerOpenOrder
<1>4. LatenciesExact
    BY <1>1 DEF Init, Decided, SampleExact, LatenciesExact
<1> QED  BY TypeInit, <1>2, <1>3, <1>4 DEF OrderInv

-----------------------------------------------------------------------------
\* Steps that touch neither the orders nor what is in flight.

LEMMA SameOrders ==
    ASSUME OrderInv, TypeInv', UNCHANGED <<setup, orders, orderLatency, pending>>
    PROVE  OrderInv'
<1>1. \A o \in Orders : InFlight(o)' = InFlight(o)
    BY DEF InFlight
<1>2. OneEventPerOpenOrder'
    BY <1>1 DEF OrderInv, OneEventPerOpenOrder, InStage, Arrival, Decided
<1>3. LatenciesExact'
    BY DEF OrderInv, LatenciesExact, SampleExact, Arrival, Decided
<1>4. UnsentBlank'
    BY DEF OrderInv, UnsentBlank
<1> QED  BY <1>2, <1>3, <1>4 DEF OrderInv

\* An order a step leaves alone keeps its stage.
LEMMA StageKept ==
    ASSUME NEW o \in Orders, InStage(o), setup' = setup,
           orders'[o] = orders[o], InFlight(o)' = InFlight(o)
    PROVE  InStage(o)'
<1>1. \A e : InFlight(o) = {e} => e \in pending'
    BY DEF InFlight
<1> QED  BY <1>1 DEF InStage, Arrival, Decided

\* An asset's latency sample stays exact while it and every visible order stand.
LEMMA SampleKept ==
    ASSUME NEW a \in Assets, SampleExact(a), orderLatency'[a] = orderLatency[a],
           \A o \in Orders : orders[o].visible => orders'[o] = orders[o]
    PROVE  SampleExact(a)'
BY DEF SampleExact

LEMMA LatencyKept ==
    ASSUME NEW o \in Orders, LatenciesExact, setup' = setup, orders'[o] = orders[o]
    PROVE  /\ Decided(o)' => orders'[o].exch = Arrival(o)'
           /\ orders'[o].visible => orders'[o].resp = Sat(orders'[o].exch + setup'[o[1]].response)
BY DEF LatenciesExact, Decided, Arrival

\* An event of another order does not matter to this one.
LEMMA OtherOrders ==
    ASSUME NEW o \in Orders, NEW e, <<e.asset, e.id>> = o, NEW p \in Orders, p # o
    PROVE  /\ pending' = pending \cup {e} => InFlight(p)' = InFlight(p)
           /\ pending' = pending \ {e} => InFlight(p)' = InFlight(p)
           /\ \A f : <<f.asset, f.id>> = o /\ pending' = (pending \ {f}) \cup {e}
                        => InFlight(p)' = InFlight(p)
BY DEF InFlight

-----------------------------------------------------------------------------
\* What an order in flight is, read off its event.

LEMMA RequestStage ==
    ASSUME OrderInv, NEW e \in Events, e.kind = "request"
    PROVE  LET o == <<e.asset, e.id>> IN
           /\ o \in Orders /\ e \in pending
           /\ orders[o].status = "NEW" /\ ~orders[o].visible
           /\ InFlight(o) = {e} /\ e.ts = Arrival(o)
<1> DEFINE o == <<e.asset, e.id>>
<1>1. o \in Orders /\ e \in pending
    BY EventFacts DEF OrderInv
<1>2. e \in InFlight(o)
    BY <1>1 DEF InFlight
<1>3. InStage(o)
    BY <1>1 DEF OrderInv, OneEventPerOpenOrder
<1> HIDE DEF o
<1>4. /\ orders[o].status = "NEW" /\ ~orders[o].visible
      /\ InFlight(o) = {e} /\ e.ts = Arrival(o)
    BY <1>2, <1>3 DEF InStage
<1> QED  BY <1>1, <1>4 DEF o

LEMMA ResponseStage ==
    ASSUME OrderInv, NEW e \in Events, e.kind = "response"
    PROVE  LET o == <<e.asset, e.id>> IN
           /\ o \in Orders /\ e \in pending
           /\ Decided(o) /\ ~orders[o].visible
           /\ InFlight(o) = {e} /\ e.ts = Sat(orders[o].exch + setup[o[1]].response)
<1> DEFINE o == <<e.asset, e.id>>
<1>1. o \in Orders /\ e \in pending
    BY EventFacts DEF OrderInv
<1>2. e \in InFlight(o)
    BY <1>1 DEF InFlight
<1>3. InStage(o)
    BY <1>1 DEF OrderInv, OneEventPerOpenOrder
<1> HIDE DEF o
<1>4. /\ Decided(o) /\ ~orders[o].visible
      /\ InFlight(o) = {e} /\ e.ts = Sat(orders[o].exch + setup[o[1]].response)
    BY <1>2, <1>3 DEF InStage
<1> QED  BY <1>1, <1>4 DEF o

-----------------------------------------------------------------------------
\* The three steps that move an order on.

LEMMA SubmitOrders ==
    ASSUME OrderInv, NEW o \in Orders, NEW side \in Sides, NEW price \in Limits,
           Submit(o, side, price)
    PROVE  OrderInv'
<1> DEFINE e == Event("request", Sat(now + setup[o[1]].entry), o[1], localSeq[o[1]],
                      serial + 1, o[2])
<1>1. TypeInv'
    BY SubmitTypes DEF OrderInv
<1>2. /\ setup' = setup /\ orderLatency' = orderLatency
      /\ orders' = [orders EXCEPT ![o] = Sent(side, price)]
      /\ pending' = pending \cup {e}
      /\ orders[o].status = "none"
    BY DEF Submit, Fresh, Entry, EntryRequest
<1>3. /\ e.kind = "request" /\ e.ts = Sat(now + setup[o[1]].entry) /\ <<e.asset, e.id>> = o
    BY OrderFacts DEF Event
<1> HIDE DEF e
<1>4. orders'[o] = Sent(side, price) /\ \A p \in Orders : p # o => orders'[p] = orders[p]
    BY <1>2 DEF OrderInv, TypeInv, TypeOK
<1>5. InFlight(o) = {} /\ ~orders[o].visible
    BY <1>2 DEF OrderInv, OneEventPerOpenOrder, InStage, Decided, UnsentBlank
<1>6. InStage(o)'
    <2>1. InFlight(o)' = {e}
        BY <1>2, <1>3, <1>5 DEF InFlight
    <2>2. /\ orders'[o].status = "NEW" /\ ~orders'[o].visible /\ orders'[o].req = now
        BY <1>4 DEF Sent
    <2>3. e.ts = Arrival(o)'
        BY <1>2, <1>3, <2>2 DEF Arrival
    <2> QED  BY <1>2, <1>3, <2>1, <2>2, <2>3 DEF InStage
<1>7. ASSUME NEW p \in Orders, p # o PROVE InStage(p)'
    <2>1. InFlight(p)' = InFlight(p)
        BY <1>2, <1>3, <1>7, OtherOrders
    <2> QED  BY <1>2, <1>4, <1>7, <2>1, StageKept DEF OrderInv, OneEventPerOpenOrder
<1>8. LatenciesExact'
    <2>1. ASSUME NEW a \in Assets PROVE SampleExact(a)'
        BY <1>2, <1>4, <1>5, SampleKept DEF OrderInv, LatenciesExact
    <2>2. ASSUME NEW p \in Orders
          PROVE  /\ Decided(p)' => orders'[p].exch = Arrival(p)'
                 /\ orders'[p].visible =>
                        orders'[p].resp = Sat(orders'[p].exch + setup'[p[1]].response)
        <3>1. CASE p = o
            BY <1>4, <3>1 DEF Sent, Decided
        <3>2. CASE p # o
            BY <1>2, <1>4, <3>2, LatencyKept DEF OrderInv
        <3> QED  BY <3>1, <3>2
    <2> QED  BY <2>1, <2>2 DEF LatenciesExact
<1>9. UnsentBlank'
    BY <1>4 DEF OrderInv, UnsentBlank, Sent
<1> QED  BY <1>1, <1>6, <1>7, <1>8, <1>9 DEF OrderInv, OneEventPerOpenOrder

LEMMA RequestOrders ==
    ASSUME OrderInv, NEW e \in Events, Request(e)
    PROVE  OrderInv'
<1> DEFINE o == <<e.asset, e.id>>
           m == MatchImmediate(orders[o].side, orders[o].price, View(exchDepth[e.asset]))
           answer == Event("response", Sat(e.ts + setup[e.asset].response), e.asset,
                           e.seq, serial + 1, e.id)
<1>1. TypeInv'
    BY RequestTypes DEF OrderInv
<1>2. /\ o \in Orders /\ e \in pending
      /\ orders[o].status = "NEW" /\ ~orders[o].visible
      /\ InFlight(o) = {e} /\ e.ts = Arrival(o)
    BY RequestStage DEF Request, Forward, Reply, ExchBook
<1>3. /\ setup' = setup /\ orderLatency' = orderLatency
      /\ orders' = [orders EXCEPT ![o].exch = e.ts, ![o].status = m.status, ![o].exec = m.exec]
      /\ pending' = (pending \ {e}) \cup {answer}
    BY DEF Request, Forward, Reply, ExchBook
<1>4. /\ answer.kind = "response" /\ answer.ts = Sat(e.ts + setup[o[1]].response)
      /\ <<answer.asset, answer.id>> = o /\ <<e.asset, e.id>> = o
    BY DEF Event
<1>5. m.status \in {"FILLED", "EXPIRED"}
    <2>1. exchDepth[e.asset] \in Ladders
        BY EventFacts DEF OrderInv, TypeInv, TypeOK
    <2> QED  BY <2>1, DecisionType
<1> HIDE DEF answer, m, o
<1>6. /\ orders'[o].status = m.status /\ orders'[o].exch = e.ts
      /\ orders'[o].req = orders[o].req /\ orders'[o].visible = orders[o].visible
      /\ \A p \in Orders : p # o => orders'[p] = orders[p]
    BY <1>2, <1>3 DEF OrderInv, TypeInv, TypeOK, OrderType
<1>7. InStage(o)'
    <2>1. InFlight(o)' = {answer}
        BY <1>2, <1>3, <1>4 DEF InFlight
    <2>2. Decided(o)' /\ ~orders'[o].visible
        BY <1>2, <1>5, <1>6 DEF Decided
    <2>3. answer.ts = Sat(orders'[o].exch + setup'[o[1]].response) /\ answer \in pending'
        BY <1>3, <1>4, <1>6
    <2> QED  BY <1>4, <2>1, <2>2, <2>3 DEF InStage
<1>8. ASSUME NEW p \in Orders, p # o PROVE InStage(p)'
    <2>1. InFlight(p)' = InFlight(p)
        BY <1>2, <1>3, <1>4, <1>8, OtherOrders
    <2> QED  BY <1>3, <1>6, <1>8, <2>1, StageKept DEF OrderInv, OneEventPerOpenOrder
<1>9. LatenciesExact'
    <2>1. ASSUME NEW a \in Assets PROVE SampleExact(a)'
        BY <1>2, <1>3, <1>6, SampleKept DEF OrderInv, LatenciesExact
    <2>2. ASSUME NEW p \in Orders
          PROVE  /\ Decided(p)' => orders'[p].exch = Arrival(p)'
                 /\ orders'[p].visible =>
                        orders'[p].resp = Sat(orders'[p].exch + setup'[p[1]].response)
        <3>1. CASE p = o
            BY <1>2, <1>3, <1>6, <3>1 DEF Arrival
        <3>2. CASE p # o
            BY <1>3, <1>6, <3>2, LatencyKept DEF OrderInv
        <3> QED  BY <3>1, <3>2
    <2> QED  BY <2>1, <2>2 DEF LatenciesExact
<1>10. UnsentBlank'
    BY <1>5, <1>6 DEF OrderInv, UnsentBlank
<1> QED  BY <1>1, <1>7, <1>8, <1>9, <1>10 DEF OrderInv, OneEventPerOpenOrder

LEMMA ResponseOrders ==
    ASSUME OrderInv, NEW e \in Events, Response(e)
    PROVE  OrderInv'
<1> DEFINE o == <<e.asset, e.id>>
<1>1. TypeInv'
    BY ResponseTypes DEF OrderInv
<1>2. /\ o \in Orders /\ e \in pending /\ o[1] = e.asset
      /\ Decided(o) /\ ~orders[o].visible
      /\ InFlight(o) = {e} /\ e.ts = Sat(orders[o].exch + setup[o[1]].response)
    BY ResponseStage DEF Response, Forward, Finish
<1>3. /\ setup' = setup /\ pending' = pending \ {e}
      /\ orders' = [orders EXCEPT ![o].resp = e.ts, ![o].visible = TRUE]
      /\ orderLatency' = [orderLatency EXCEPT ![e.asset] =
                                <<orders[o].req, orders[o].exch, e.ts>>]
      /\ <<e.asset, e.id>> = o
    BY DEF Response, Forward, Finish
<1>4. e.asset \in Assets
    BY EventFacts DEF OrderInv
<1> HIDE DEF o
<1>5. /\ orders'[o].status = orders[o].status /\ orders'[o].exch = orders[o].exch
      /\ orders'[o].req = orders[o].req /\ orders'[o].resp = e.ts /\ orders'[o].visible
      /\ \A p \in Orders : p # o => orders'[p] = orders[p]
    BY <1>2, <1>3 DEF OrderInv, TypeInv, TypeOK, OrderType
<1>6. InStage(o)'
    <2>1. InFlight(o)' = {}
        BY <1>2, <1>3 DEF InFlight
    <2> QED  BY <1>2, <1>5, <2>1 DEF InStage, Decided
<1>7. ASSUME NEW p \in Orders, p # o PROVE InStage(p)'
    <2>1. InFlight(p)' = InFlight(p)
        BY <1>2, <1>3, <1>7, OtherOrders
    <2> QED  BY <1>3, <1>5, <1>7, <2>1, StageKept DEF OrderInv, OneEventPerOpenOrder
<1>8. LatenciesExact'
    <2>1. ASSUME NEW a \in Assets PROVE SampleExact(a)'
        <3>1. CASE a = e.asset
            <4>1. orderLatency'[a] = <<orders'[o].req, orders'[o].exch, orders'[o].resp>>
                BY <1>3, <1>4, <1>5, <3>1 DEF OrderInv, TypeInv, TypeOK
            <4> QED  BY <1>2, <1>5, <3>1, <4>1 DEF SampleExact
        <3>2. CASE a # e.asset
            <4>1. orderLatency'[a] = orderLatency[a]
                BY <1>3, <3>2 DEF OrderInv, TypeInv, TypeOK
            <4> QED  BY <1>2, <1>5, <4>1, SampleKept DEF OrderInv, LatenciesExact
        <3> QED  BY <3>1, <3>2
    <2>2. ASSUME NEW p \in Orders
          PROVE  /\ Decided(p)' => orders'[p].exch = Arrival(p)'
                 /\ orders'[p].visible =>
                        orders'[p].resp = Sat(orders'[p].exch + setup'[p[1]].response)
        <3>1. CASE p = o
            <4>1. orders[o].exch = Arrival(o)
                BY <1>2 DEF OrderInv, LatenciesExact
            <4> QED  BY <1>2, <1>3, <1>5, <3>1, <4>1 DEF Arrival
        <3>2. CASE p # o
            BY <1>3, <1>5, <3>2, LatencyKept DEF OrderInv
        <3> QED  BY <3>1, <3>2
    <2> QED  BY <2>1, <2>2 DEF LatenciesExact
<1>9. UnsentBlank'
    BY <1>2, <1>5 DEF OrderInv, UnsentBlank, Decided
<1> QED  BY <1>1, <1>6, <1>7, <1>8, <1>9 DEF OrderInv, OneEventPerOpenOrder

LEMMA OrderStep == OrderInv /\ [Next]_vars => OrderInv'
<1> SUFFICES ASSUME OrderInv, [Next]_vars PROVE OrderInv'
    OBVIOUS
<1>0. TypeInv /\ TypeInv'
    BY TypeStep DEF OrderInv
<1>1. ASSUME \/ \/ \E o \in Orders : SubmitDuplicate(o)
                \/ \E d \in Durations : Elapse(d)
                \/ \E o \in Orders, d \in Durations : Wait(o, d)
                \/ NextFeed
             \/ \E e \in Events : LocalData(e) \/ ExchData(e)
             \/ ReachTarget
             \/ UNCHANGED vars
      PROVE  OrderInv'
    <2>1. UNCHANGED <<setup, orders, orderLatency, pending>>
        BY <1>1 DEF SubmitDuplicate, Elapse, Wait, NextFeed, LocalData, ExchData, ReachTarget,
                    vars, orderVars
    <2> QED  BY <1>0, <2>1, SameOrders
<1> QED  BY <1>0, <1>1, StepCases, SubmitOrders, RequestOrders, ResponseOrders

\* No request is matched twice and no response is lost or delivered twice.
THEOREM OneEventEach == Spec => []OneEventPerOpenOrder
<1>1. OrderInv => OneEventPerOpenOrder
    BY DEF OrderInv
<1> QED  BY <1>1, OrderInit, OrderStep, PTL DEF Spec

\* Reported times are the configured latencies, to the nanosecond.
THEOREM LatenciesAreExact == Spec => []LatenciesExact
<1>1. OrderInv => LatenciesExact
    BY DEF OrderInv
<1> QED  BY <1>1, OrderInit, OrderStep, PTL DEF Spec

-----------------------------------------------------------------------------
\* Decisions are final.

THEOREM DecisionsAreFinal == Spec => DecisionIsFinal
<1> DEFINE Kept(o) ==
        /\ Decided(o) => /\ orders'[o].status = orders[o].status
                         /\ orders'[o].exec = orders[o].exec
                         /\ orders'[o].exch = orders[o].exch
        /\ orders[o].visible => orders'[o] = orders[o]
<1>1. ASSUME OrderInv, [Next]_vars, NEW o \in Orders PROVE Kept(o)
    <2>0. orders \in [Orders -> OrderType]
        BY <1>1 DEF OrderInv, TypeInv, TypeOK
    <2>1. ASSUME NEW p \in Orders, NEW side \in Sides, NEW price \in Limits,
                 Submit(p, side, price)
          PROVE  Kept(o)
        <3>1. orders[p].status = "none" /\ ~orders[p].visible
            BY <1>1, <2>1 DEF Submit, Fresh, Entry, EntryRequest, OrderInv, UnsentBlank
        <3>2. o # p => orders'[o] = orders[o]
            BY <2>0, <2>1 DEF Submit, Fresh, Entry, EntryRequest
        <3> QED  BY <3>1, <3>2 DEF Decided
    <2>2. ASSUME NEW e \in Events, Request(e) PROVE Kept(o)
        <3>1. orders[<<e.asset, e.id>>].status = "NEW" /\ ~orders[<<e.asset, e.id>>].visible
            BY <1>1, <2>2, RequestStage DEF Request, Forward, Reply, ExchBook
        <3>2. o # <<e.asset, e.id>> => orders'[o] = orders[o]
            BY <2>0, <2>2 DEF Request, Forward, Reply, ExchBook
        <3> QED  BY <3>1, <3>2 DEF Decided
    <2>3. ASSUME NEW e \in Events, Response(e) PROVE Kept(o)
        <3>1. ~orders[<<e.asset, e.id>>].visible
            BY <1>1, <2>3, ResponseStage DEF Response, Forward, Finish
        <3>2. o # <<e.asset, e.id>> => orders'[o] = orders[o]
            BY <2>0, <2>3 DEF Response, Forward, Finish
        <3>3. /\ orders'[o].status = orders[o].status /\ orders'[o].exec = orders[o].exec
              /\ orders'[o].exch = orders[o].exch
            <4> DEFINE q == <<e.asset, e.id>>
            <4>1. orders' = [orders EXCEPT ![q].resp = e.ts, ![q].visible = TRUE]
                BY <2>3 DEF Response, Forward, Finish
            <4> HIDE DEF q
            <4> QED  BY <2>0, <4>1 DEF OrderType
        <3> QED  BY <3>1, <3>2, <3>3
    <2>4. ASSUME \/ \/ \E p \in Orders : SubmitDuplicate(p)
                    \/ \E d \in Durations : Elapse(d)
                    \/ \E p \in Orders, d \in Durations : Wait(p, d)
                    \/ NextFeed
                 \/ \E e \in Events : LocalData(e) \/ ExchData(e)
                 \/ ReachTarget
                 \/ UNCHANGED vars
          PROVE  Kept(o)
        BY <2>4 DEF SubmitDuplicate, Elapse, Wait, NextFeed, LocalData, ExchData, ReachTarget,
                    vars, orderVars
    <2> HIDE DEF Kept
    <2> QED  BY <1>1, <2>1, <2>2, <2>3, <2>4, StepCases DEF OrderInv
<1>2. OrderInv /\ [Next]_vars => [\A o \in Orders : Kept(o)]_vars
    BY <1>1
<1> QED  BY <1>2, OrderInit, OrderStep, PTL DEF Spec, DecisionIsFinal

-----------------------------------------------------------------------------
\* Waits.  While a wait is open its order has not been answered; once it drains
\* its order has been, and the target is the very time of the answer.

CallInv ==
    /\ call.op \in {"wait", "drain"} => call.order \in Orders
    /\ call.op = "wait" => ~orders[call.order].visible
    /\ call.op = "drain" => orders[call.order].visible /\ call.target = AnswerDue(call.order)

LEMMA CallInit == Init => CallInv
BY DEF Init, NoCall, CallInv

\* When an answer is taken it is taken at the time it was due.
LEMMA AnsweredWhenDue ==
    ASSUME OrderInv, NEW e \in Events, Response(e)
    PROVE  e.ts = AnswerDue(<<e.asset, e.id>>)
<1> DEFINE o == <<e.asset, e.id>>
<1>1. o \in Orders /\ Decided(o) /\ e.ts = Sat(orders[o].exch + setup[o[1]].response)
    BY ResponseStage DEF Response, Forward, Finish
<1>2. orders[o].exch = Arrival(o)
    BY <1>1 DEF OrderInv, LatenciesExact
<1> QED  BY <1>1, <1>2 DEF AnswerDue

LEMMA CallStep == OrderInv /\ CallInv /\ [Next]_vars => CallInv'
<1> SUFFICES ASSUME OrderInv, CallInv, [Next]_vars PROVE CallInv'
    OBVIOUS
<1>0. TypeInv /\ orders \in [Orders -> OrderType]
    BY DEF OrderInv, TypeInv, TypeOK
<1>1. ASSUME NEW p \in Orders, NEW side \in Sides, NEW price \in Limits,
             Submit(p, side, price)
      PROVE  CallInv'
    BY <1>1 DEF Submit, Fresh, Entry, EntryRequest, Return, NoCall, CallInv
<1>2. ASSUME \/ \E o \in Orders : SubmitDuplicate(o)
             \/ \E d \in Durations : Elapse(d)
             \/ \E o \in Orders, d \in Durations : Wait(o, d)
             \/ NextFeed
      PROVE  CallInv'
    <2>1. CASE \E o \in Orders : SubmitDuplicate(o)
        BY <2>1 DEF SubmitDuplicate, Return, NoCall, CallInv
    <2>2. CASE \E d \in Durations : Elapse(d)
        BY <2>2 DEF Elapse, Idle, Return, NoCall, Call, CallInv
    <2>3. ASSUME NEW o \in Orders, NEW d \in Durations, Wait(o, d) PROVE CallInv'
        BY <2>3 DEF Wait, orderVars, Idle, Return, NoCall, Call, CallInv
    <2>4. CASE NextFeed
        BY <2>4 DEF NextFeed, Return, NoCall, Call, CallInv
    <2> QED  BY <1>2, <2>1, <2>2, <2>3, <2>4
<1>3. ASSUME NEW e \in Events, LocalData(e) PROVE CallInv'
    <2>1. UNCHANGED <<setup, orders>> /\ (call' = call \/ call'.op = "idle")
        BY <1>3 DEF LocalData, Advance, orderVars, Return, NoCall
    <2> QED  BY <2>1 DEF CallInv, AnswerDue, Arrival
<1>4. ASSUME NEW e \in Events, ExchData(e) PROVE CallInv'
    BY <1>4 DEF ExchData, Advance, orderVars, CallInv, AnswerDue, Arrival
<1>5. ASSUME NEW e \in Events, Request(e) PROVE CallInv'
    <2> DEFINE q == <<e.asset, e.id>>
               m == MatchImmediate(orders[q].side, orders[q].price, View(exchDepth[e.asset]))
    <2>1. /\ call' = call /\ setup' = setup
          /\ orders' = [orders EXCEPT ![q].exch = e.ts, ![q].status = m.status, ![q].exec = m.exec]
        BY <1>5 DEF Request, Forward, Reply, ExchBook
    <2> HIDE DEF q, m
    <2>2. \A o \in Orders : orders'[o].visible = orders[o].visible /\ orders'[o].req = orders[o].req
        BY <1>0, <2>1 DEF OrderType
    <2> QED  BY <2>1, <2>2 DEF CallInv, AnswerDue, Arrival
<1>6. ASSUME NEW e \in Events, Response(e) PROVE CallInv'
    <2> DEFINE q == <<e.asset, e.id>>
    <2>1. /\ setup' = setup
          /\ orders' = [orders EXCEPT ![q].resp = e.ts, ![q].visible = TRUE]
          /\ IF call.op = "wait" /\ call.order = q
             THEN call' = Call("drain", e.ts, q) \/ call' = NoCall
             ELSE call' = call
        BY <1>6 DEF Response, Forward, Finish, Return
    <2>2. q \in Orders /\ e.ts = AnswerDue(q)
        BY <1>6, ResponseStage, AnsweredWhenDue DEF Response, Forward, Finish
    <2> HIDE DEF q
    <2>3. /\ \A o \in Orders : orders'[o].req = orders[o].req
          /\ \A o \in Orders : o # q => orders'[o] = orders[o]
          /\ orders'[q].visible
        BY <1>0, <2>1, <2>2 DEF OrderType
    <2>4. \A o \in Orders : AnswerDue(o)' = AnswerDue(o)
        BY <2>1, <2>3 DEF AnswerDue, Arrival
    <2>5. CASE call.op = "wait" /\ call.order = q
        <3>1. \/ call'.op = "drain" /\ call'.target = e.ts /\ call'.order = q
              \/ call'.op = "idle"
            BY <2>1, <2>5 DEF Call, NoCall
        <3>2. call'.order = q => call'.order \in Orders /\ orders'[call'.order].visible
            BY <2>2, <2>3
        <3>3. call'.order = q => AnswerDue(call.order)' = e.ts
            BY <2>1, <2>2, <2>3 DEF AnswerDue, Arrival
        <3> QED  BY <3>1, <3>2, <3>3 DEF CallInv
    <2>6. CASE ~(call.op = "wait" /\ call.order = q)
        BY <2>1, <2>3, <2>4, <2>6 DEF CallInv
    <2> QED  BY <2>5, <2>6
<1>7. CASE ReachTarget
    BY <1>7 DEF ReachTarget, Due, Return, NoCall, CallInv
<1>8. CASE UNCHANGED vars
    BY <1>8 DEF vars, orderVars, CallInv, AnswerDue, Arrival
<1> QED  BY <1>0, <1>1, <1>2, <1>3, <1>4, <1>5, <1>6, <1>7, <1>8, StepCases

\* A wait tells the truth about its order, to the nanosecond.
THEOREM WaitsTellTheTruth == Spec => WaitTellsTheTruth
<1> DEFINE Honest ==
        Returns /\ call.op \in {"wait", "drain"} =>
            /\ rc' = 0 => orders'[call.order].visible /\ now' = AnswerDue(call.order)
            /\ rc' = 1 => /\ now' = call.target
                          /\ orders[call.order].status # "none" =>
                                call.target < AnswerDue(call.order)
<1>1. ASSUME OrderInv, CallInv, [Next]_vars, Returns, call.op \in {"wait", "drain"}
      PROVE  Honest
    <2>0. TypeInv /\ orders \in [Orders -> OrderType] /\ call.order \in Orders
        BY <1>1 DEF OrderInv, TypeInv, TypeOK, CallInv
    <2>1. ASSUME NEW e \in Events, Response(e) PROVE Honest
        <3> DEFINE q == <<e.asset, e.id>>
        <3>1. call.order = q /\ rc' = 0 /\ now' = e.ts
            BY <1>1, <2>1 DEF Response, Forward, Finish, Returns, Return, Call
        <3>2. orders' = [orders EXCEPT ![q].resp = e.ts, ![q].visible = TRUE]
            BY <2>1 DEF Response, Forward, Finish
        <3>3. q \in Orders /\ e.ts = AnswerDue(q)
            BY <1>1, <2>1, ResponseStage, AnsweredWhenDue DEF Response, Forward, Finish
        <3> HIDE DEF q
        <3>4. orders'[q].visible
            BY <2>0, <3>2, <3>3 DEF OrderType
        <3> QED  BY <3>1, <3>3, <3>4
    <2>2. CASE ReachTarget
        <3>1. now' = call.target /\ rc' = (IF call.op = "wait" THEN 1 ELSE 0) /\ orders' = orders
            BY <2>2 DEF ReachTarget, Due, Return, orderVars
        <3>2. CASE call.op = "drain"
            BY <1>1, <3>1, <3>2 DEF CallInv
        <3>3. CASE call.op = "wait"
            <4> DEFINE o == call.order
            <4> SUFFICES ASSUME orders[o].status # "none" PROVE call.target < AnswerDue(o)
                BY <3>1, <3>3
            <4>1. InStage(o) /\ ~orders[o].visible
                BY <1>1, <2>0, <3>3 DEF OrderInv, OneEventPerOpenOrder, CallInv
            <4>2. \A e \in pending : e.ts \in Int /\ call.target < e.ts
                <5>1. \A e \in pending : ~(e.ts <= call.target)
                    BY <2>2 DEF ReachTarget, Due, Events
                <5>2. \A e \in pending : e.ts \in Int
                    BY <2>0, EventTime DEF Events
                <5>3. call.target \in Int
                    BY <2>0, MaxTsAssumption DEF TypeInv, TypeOK, CallType
                <5> QED  BY <5>1, <5>2, <5>3
            <4>3. CASE Decided(o)
                <5>1. orders[o].exch = Arrival(o)
                    BY <1>1, <2>0, <4>3 DEF OrderInv, LatenciesExact
                <5>2. \E e \in pending : e.ts = AnswerDue(o)
                    BY <4>1, <4>3, <5>1 DEF InStage, Decided, AnswerDue
                <5> QED  BY <4>2, <5>2
            <4>4. CASE orders[o].status = "NEW"
                <5>1. \E e \in pending : e.ts = Arrival(o)
                    BY <4>1, <4>4 DEF InStage, Decided
                <5>2. Arrival(o) \in 0 .. MaxTs /\ setup[o[1]].response \in Nat
                    <6>1. o[1] \in Assets /\ setup[o[1]].entry \in Nat /\ setup[o[1]].response \in Nat
                        BY <2>0, OrderFacts, SetupFacts DEF TypeInv
                    <6>2. orders[o].req + setup[o[1]].entry \in Nat
                        BY <2>0, <6>1, MaxTsAssumption DEF OrderType
                    <6> QED  BY <6>1, <6>2, SatFacts DEF Arrival
                <5>3. Arrival(o) <= AnswerDue(o) /\ AnswerDue(o) \in Int
                    <6>1. Arrival(o) + setup[o[1]].response \in Nat
                        BY <5>2, MaxTsAssumption
                    <6>2. Arrival(o) <= Arrival(o) + setup[o[1]].response
                        BY <5>2, MaxTsAssumption
                    <6>3. AnswerDue(o) \in 0 .. MaxTs /\ Arrival(o) <= AnswerDue(o)
                        BY <5>2, <6>1, <6>2, SatFacts DEF AnswerDue
                    <6> QED  BY <6>3, MaxTsAssumption
                <5>4. call.target \in Int /\ Arrival(o) \in Int
                    BY <2>0, <5>2, MaxTsAssumption DEF TypeInv, TypeOK, CallType
                <5> QED  BY <4>2, <5>1, <5>3, <5>4
            <4>5. orders[o].status \in Statuses
                BY <2>0 DEF OrderType
            <4> QED  BY <4>3, <4>4, <4>5 DEF Decided, Statuses
        <3> QED  BY <1>1, <3>2, <3>3
    <2>3. ASSUME NEW e \in Events, LocalData(e) PROVE FALSE
        BY <1>1, <2>3 DEF LocalData, Advance, Returns, Return
    <2>4. ASSUME NEW e \in Events, ExchData(e) \/ Request(e) PROVE FALSE
        BY <1>1, <2>4 DEF ExchData, Advance, Request, Returns
    <2>5. ASSUME \/ \E o \in Orders, side \in Sides, price \in Limits : Submit(o, side, price)
                 \/ \E o \in Orders : SubmitDuplicate(o)
                 \/ \E d \in Durations : Elapse(d)
                 \/ \E o \in Orders, d \in Durations : Wait(o, d)
                 \/ NextFeed
          PROVE FALSE
        BY <1>1, <2>5 DEF Submit, Fresh, Entry, EntryRequest, SubmitDuplicate, Elapse, Wait, NextFeed, Idle, Returns
    <2>6. CASE UNCHANGED vars
        BY <1>1, <2>6 DEF vars, Returns
    <2> HIDE DEF Honest
    <2> QED  BY <1>1, <2>0, <2>1, <2>2, <2>3, <2>4, <2>5, <2>6, StepCases
<1>2. OrderInv /\ CallInv /\ [Next]_vars => [Honest]_vars
    BY <1>1
<1> QED  BY <1>2, OrderInit, OrderStep, CallInit, CallStep, PTL DEF Spec, WaitTellsTheTruth

-----------------------------------------------------------------------------
\* Matching.  The rows applied to the exchange ladder of an asset are all due
\* to each request still on its way to it: in hbt mode because none is stamped
\* ahead of the clock, in sequence mode because a row that came before the
\* request was taken from the schedule before it, by the very words of the key.

Applied(a) == Rows(a) \ exchTodo[a]

\* RowsDue, for an arrival at ts.
DueAt(o, ts) ==
    { s \in Rows(o[1]) :
        \/ Row(o[1], s).exch < ts
        \/ (Row(o[1], s).exch = ts /\ (Mode = "hbt" \/ s <= trail[o].anchor))
        \/ (Mode = "sequence" /\ s \in trail[o].ahead) }

AppliedInPast == \A a \in Assets : \A s \in Applied(a) : Row(a, s).exch <= now

Anchored(e, o) ==
    /\ e.seq = trail[o].anchor
    /\ trail[o].ahead \subseteq Applied(e.asset)
    /\ Applied(e.asset) \subseteq DueAt(o, e.ts)

OnItsWay == \A e \in pending : e.kind = "request" => Anchored(e, <<e.asset, e.id>>)

ArrivalInv == AppliedInPast /\ OnItsWay /\ MatchedOnArrivalBook

LEMMA ArrivalInit == Init => ArrivalInv
<1> SUFFICES ASSUME Init PROVE ArrivalInv
    OBVIOUS
<1>1. \A a \in Assets : Applied(a) = {}
    BY DEF Init, Applied
<1>2. \A o \in Orders : orders[o].status = "none"
    BY DEF Init, Unsent
<1> QED  BY <1>1, <1>2 DEF Init, ArrivalInv, AppliedInPast, OnItsWay, MatchedOnArrivalBook, Decided

\* A row not applied when a request is taken is stamped after it or, on the
\* same timestamp, follows the row the request is anchored at.
LEMMA RowsLeftFollow ==
    ASSUME TypeInv, NEW e \in NextEvents, e.kind = "request", NEW s \in exchTodo[e.asset]
    PROVE  /\ e.ts <= Row(e.asset, s).exch
           /\ Row(e.asset, s).exch = e.ts => Mode = "sequence" /\ e.seq < s
<1> DEFINE f == Event("exch", Row(e.asset, s).exch, e.asset, s, s, NoId)
<1>1. e \in Events /\ e.asset \in Assets /\ e.seq \in Nat
    BY NextIsEarliest, EventFacts
<1>2. f \in Events /\ s \in Nat
    <2>1. s \in Nat
        BY <1>1 DEF TypeInv, TypeOK
    <2>2. f \in ExchEvents
        BY <1>1 DEF ExchEvents
    <2> QED  BY <2>1, <2>2 DEF Events
<1>3. f.ts = Row(e.asset, s).exch /\ f.asset = e.asset /\ f.seq = s /\ f.kind = "exch"
    BY DEF Event
<1> HIDE DEF f
<1>4. e.ts <= f.ts
    BY <1>2, NextIsEarliest
<1>5. ASSUME f.ts = e.ts PROVE Mode = "sequence" /\ e.seq < s
    <2>1. ~KeyLess(Key(f), Key(e))
        BY <1>2 DEF NextEvents
    <2>2. /\ Key(f)[1] = Key(e)[1] /\ Key(f)[2] = Key(e)[2]
          /\ Key(f)[3] = (IF Mode = "sequence" THEN s ELSE 0)
          /\ Key(e)[3] = (IF Mode = "sequence" THEN e.seq ELSE 0)
          /\ Key(f)[4] < Key(e)[4]
        BY <1>3, <1>5, ModeAssumption DEF Key, Priority
    <2>3. ASSUME Key(f)[3] = Key(e)[3] PROVE FALSE
        <3>1. \A h \in 1 .. (4 - 1) : Key(f)[h] = Key(e)[h]
            BY <2>2, <2>3
        <3> QED  BY <2>1, <2>2, <3>1, 4 \in 1 .. 5 DEF KeyLess
    <2>4. ASSUME Key(f)[3] < Key(e)[3] PROVE FALSE
        <3>1. \A h \in 1 .. (3 - 1) : Key(f)[h] = Key(e)[h]
            BY <2>2
        <3> QED  BY <2>1, <2>4, <3>1, 3 \in 1 .. 5 DEF KeyLess
    <2> QED  BY <1>1, <1>2, <2>2, <2>3, <2>4
<1> QED  BY <1>3, <1>4, <1>5

\* A row taken is not stamped after a request on its way and, on the same
\* timestamp in sequence mode, does not follow the row it is anchored at.
LEMMA RequestsLeftFollow ==
    ASSUME TypeInv, NEW f \in NextEvents, f.kind = "exch",
           NEW e \in pending, e.kind = "request", e.asset = f.asset
    PROVE  /\ f.ts <= e.ts
           /\ f.ts = e.ts => Mode = "hbt" \/ f.seq <= e.seq
<1>1. f \in Events /\ e \in Events /\ f.ts <= e.ts
    BY NextIsEarliest DEF Events
<1>2. f.seq \in Nat /\ e.seq \in Nat
    BY <1>1, EventFacts
<1>3. ASSUME f.ts = e.ts, Mode = "sequence", e.seq < f.seq PROVE FALSE
    <2>1. ~KeyLess(Key(e), Key(f))
        BY <1>1 DEF NextEvents
    <2>2. /\ Key(e)[1] = Key(f)[1] /\ Key(e)[2] = Key(f)[2] /\ Key(e)[3] < Key(f)[3]
        BY <1>3 DEF Key
    <2>3. \A h \in 1 .. (3 - 1) : Key(e)[h] = Key(f)[h]
        BY <2>2
    <2> QED  BY <2>1, <2>2, <2>3, 3 \in 1 .. 5 DEF KeyLess
<1> QED  BY <1>1, <1>2, <1>3, ModeAssumption

LEMMA AppliedFacts ==
    ASSUME TypeInv, NEW a \in Assets, NEW s \in Rows(a)
    PROVE  Row(a, s).exch \in Int /\ s \in Int /\ now \in Int
<1>1. Row(a, s).exch \in 0 .. MaxTs /\ s \in Nat
    BY SetupFacts DEF TypeInv
<1> QED  BY <1>1, MaxTsAssumption DEF TypeInv, TypeOK

\* Steps that apply no row to the exchange and send or match no order.
LEMMA ArrivalKept ==
    ASSUME TypeInv, TypeInv', ArrivalInv, now <= now', UNCHANGED <<setup, exchTodo, trail>>,
           \A e \in pending' : e.kind = "request" => e \in pending,
           \A o \in Orders : Decided(o)' => Decided(o) /\ orders'[o].exch = orders[o].exch
    PROVE  ArrivalInv'
<1>1. now \in Int /\ now' \in Int
    BY MaxTsAssumption DEF TypeInv, TypeOK
<1>2. AppliedInPast'
    BY <1>1, AppliedFacts DEF ArrivalInv, AppliedInPast, Applied, Rows, Row
<1>3. OnItsWay'
    BY DEF ArrivalInv, OnItsWay, Anchored, Applied, DueAt, Rows, Row
<1>4. MatchedOnArrivalBook'
    BY DEF ArrivalInv, MatchedOnArrivalBook, RowsDue, Rows, Row
<1> QED  BY <1>2, <1>3, <1>4 DEF ArrivalInv

\* A row applied is due to every request still on its way.
LEMMA ExchArrival ==
    ASSUME TypeInv, ArrivalInv, NothingOverdue, NEW e \in NextEvents, ExchData(e)
    PROVE  ArrivalInv'
<1>1. /\ e \in Events /\ e.kind = "exch" /\ e.asset \in Assets /\ e.seq \in Rows(e.asset)
      /\ e.ts = Row(e.asset, e.seq).exch /\ now <= e.ts
    BY NextIsEarliest, EventFacts DEF ExchData, NothingOverdue
<1>2. /\ now' = e.ts /\ UNCHANGED <<setup, trail, orders, pending>>
      /\ exchTodo' = [exchTodo EXCEPT ![e.asset] = @ \ {e.seq}]
    BY DEF ExchData, Advance, orderVars
<1>3. \A a \in Assets : \A s \in Applied(a)' :
            \/ s \in Applied(a)
            \/ a = e.asset /\ s = e.seq
    BY <1>2 DEF Applied, Rows, TypeInv, TypeOK
<1>4. \A a \in Assets : Applied(a) \subseteq Applied(a)'
    BY <1>2 DEF Applied, Rows, TypeInv, TypeOK
<1>5. AppliedInPast'
    <2> SUFFICES ASSUME NEW a \in Assets, NEW s \in Applied(a)'
                 PROVE  Row(a, s).exch <= e.ts
        BY <1>2 DEF AppliedInPast, Row
    <2>1. CASE s \in Applied(a)
        <3>1. Row(a, s).exch <= now
            BY <2>1 DEF ArrivalInv, AppliedInPast
        <3>2. Row(a, s).exch \in Int /\ now \in Int
            BY <2>1, AppliedFacts DEF Applied
        <3>3. e.ts \in Int
            BY <1>1, EventTime
        <3> QED  BY <1>1, <3>1, <3>2, <3>3
    <2>2. CASE a = e.asset /\ s = e.seq
        <3>1. e.ts \in Int
            BY <1>1, EventTime
        <3> QED  BY <1>1, <2>2, <3>1
    <2> QED  BY <1>3, <2>1, <2>2
<1>6. OnItsWay'
    <2> SUFFICES ASSUME NEW r \in pending, r.kind = "request"
                 PROVE  Anchored(r, <<r.asset, r.id>>)'
        BY <1>2 DEF OnItsWay
    <2> DEFINE o == <<r.asset, r.id>>
    <2>1. r.asset \in Assets /\ o[1] = r.asset
        BY EventFacts DEF Events
    <2>2. Anchored(r, o)
        BY DEF ArrivalInv, OnItsWay
    <2> HIDE DEF o
    <2>3. DueAt(o, r.ts)' = DueAt(o, r.ts)
        BY <1>2 DEF DueAt, Rows, Row
    <2>4. ASSUME NEW s \in Applied(r.asset)' PROVE s \in DueAt(o, r.ts)
        <3>1. CASE s \in Applied(r.asset)
            BY <2>2, <3>1 DEF Anchored
        <3>2. CASE r.asset = e.asset /\ s = e.seq
            <4>1. /\ e.ts <= r.ts
                  /\ e.ts = r.ts => Mode = "hbt" \/ e.seq <= r.seq
                BY <1>1, <3>2, RequestsLeftFollow
            <4>2. e.ts \in Int /\ r.ts \in Int
                BY <1>1, EventTime DEF Events
            <4>3. r.seq = trail[o].anchor
                BY <2>2 DEF Anchored
            <4> QED  BY <1>1, <2>1, <3>2, <4>1, <4>2, <4>3 DEF DueAt
        <3> QED  BY <1>3, <2>1, <3>1, <3>2
    <2>5. r.seq = trail[o].anchor /\ trail[o].ahead \subseteq Applied(r.asset)
        BY <2>2 DEF Anchored
    <2>6. trail[o].ahead \subseteq Applied(r.asset)'
        BY <1>4, <2>1, <2>5
    <2>7. Applied(r.asset)' \subseteq DueAt(o, r.ts)'
        BY <2>3, <2>4
    <2>8. Anchored(r, o)'
        BY <1>2, <2>5, <2>6, <2>7 DEF Anchored
    <2> QED  BY <2>8 DEF o
<1>7. MatchedOnArrivalBook'
    BY <1>2 DEF ArrivalInv, MatchedOnArrivalBook, RowsDue, Decided, Rows, Row
<1> QED  BY <1>5, <1>6, <1>7 DEF ArrivalInv

\* An order sent is due every row applied before it was.
LEMMA SubmitArrival ==
    ASSUME OrderInv, ArrivalInv, NEW o \in Orders, NEW side \in Sides, NEW price \in Limits,
           Submit(o, side, price)
    PROVE  ArrivalInv'
<1>e. PICK e : e = Event("request", Sat(now + setup[o[1]].entry), o[1], localSeq[o[1]],
                         serial + 1, o[2])
    OBVIOUS
<1>0. TypeInv /\ o[1] \in Assets /\ <<o[1], o[2]>> = o
    BY OrderFacts DEF OrderInv
<1>1. /\ UNCHANGED <<setup, now, exchTodo>> /\ orders[o].status = "none"
      /\ orders' = [orders EXCEPT ![o] = Sent(side, price)]
      /\ pending' = pending \cup {e}
      /\ trail' = [trail EXCEPT ![o] = [ ahead |-> Rows(o[1]) \ exchTodo[o[1]],
                                         anchor |-> localSeq[o[1]], met |-> {} ]]
    BY <1>e DEF Submit, Fresh, Entry, EntryRequest, exchVars
<1>2. /\ e.asset = o[1] /\ e.seq = localSeq[o[1]] /\ <<e.asset, e.id>> = o
      /\ e.ts = Sat(now + setup[o[1]].entry)
    BY <1>0, <1>e DEF Event
<1>3. now <= e.ts /\ e.ts \in Int
    <2>1. now \in 0 .. MaxTs /\ setup[o[1]].entry \in Nat
        BY <1>0, SetupFacts DEF TypeInv, TypeOK
    <2>2. now + setup[o[1]].entry \in Nat /\ now <= now + setup[o[1]].entry
        BY <2>1, MaxTsAssumption
    <2>3. Sat(now + setup[o[1]].entry) \in 0 .. MaxTs /\ now <= Sat(now + setup[o[1]].entry)
        BY <2>1, <2>2, SatFacts
    <2> QED  BY <1>2, <2>3, MaxTsAssumption
<1>4. /\ trail'[o].ahead = Applied(o[1]) /\ trail'[o].anchor = localSeq[o[1]]
      /\ orders'[o].status = "NEW"
      /\ \A p \in Orders : p # o => trail'[p] = trail[p] /\ orders'[p] = orders[p]
    BY <1>0, <1>1 DEF TypeInv, TypeOK, Applied, Sent
<1>5. AppliedInPast'
    BY <1>1 DEF ArrivalInv, AppliedInPast, Applied, Rows, Row
<1>6. Anchored(e, o)'
    <2>1. ASSUME NEW s \in Applied(o[1]) PROVE s \in DueAt(o, e.ts)'
        <3>1. s \in Rows(o[1]) /\ Row(o[1], s).exch <= now
            BY <1>0, <2>1 DEF ArrivalInv, AppliedInPast, Applied
        <3>2. Row(o[1], s).exch \in Int /\ now \in Int
            BY <1>0, <3>1, AppliedFacts
        <3>3. Row(o[1], s).exch < e.ts \/ Row(o[1], s).exch = e.ts
            BY <1>3, <3>1, <3>2
        <3>4. s \in trail'[o].ahead
            BY <1>4, <2>1
        <3>5. Rows(o[1])' = Rows(o[1]) /\ Row(o[1], s)' = Row(o[1], s)
            BY <1>1 DEF Rows, Row
        <3> QED  BY <3>1, <3>3, <3>4, <3>5, ModeAssumption DEF DueAt
    <2>2. Applied(o[1])' = Applied(o[1])
        BY <1>1 DEF Applied, Rows
    <2> QED  BY <1>2, <1>4, <2>1, <2>2 DEF Anchored
<1>7. ASSUME NEW r \in pending, r.kind = "request" PROVE Anchored(r, <<r.asset, r.id>>)'
    <2> DEFINE p == <<r.asset, r.id>>
    <2>1. p \in Orders /\ Anchored(r, p)
        BY <1>0, <1>7, EventFacts DEF Events, ArrivalInv, OnItsWay
    <2>2. p # o
        <3>1. InFlight(o) = {}
            BY <1>1 DEF OrderInv, OneEventPerOpenOrder, InStage, Decided
        <3> QED  BY <3>1 DEF InFlight
    <2> HIDE DEF p
    <2>3. trail'[p] = trail[p]
        BY <1>4, <2>1, <2>2
    <2>4. Anchored(r, p)'
        BY <1>1, <2>1, <2>3 DEF Anchored, Applied, DueAt, Rows, Row
    <2> QED  BY <2>4 DEF p
<1>8. OnItsWay'
    BY <1>1, <1>2, <1>6, <1>7 DEF OnItsWay
<1>9. MatchedOnArrivalBook'
    <2> SUFFICES ASSUME NEW p \in Orders, Decided(p)' PROVE trail'[p].met = RowsDue(p)'
        BY DEF MatchedOnArrivalBook
    <2>1. p # o
        BY <1>4 DEF Decided
    <2> QED  BY <1>1, <1>4, <2>1 DEF ArrivalInv, MatchedOnArrivalBook, RowsDue, Decided, Rows, Row
<1> QED  BY <1>5, <1>8, <1>9 DEF ArrivalInv

\* The rows applied when a request is taken are those due to it.
LEMMA AppliedIsDue ==
    ASSUME TypeInv, ArrivalInv, NEW e \in NextEvents, e.kind = "request"
    PROVE  Applied(e.asset) = DueAt(<<e.asset, e.id>>, e.ts)
<1>1. e \in Events /\ e \in pending /\ e.asset \in Assets /\ e.seq \in Nat /\ e.ts \in Int
    BY NextIsEarliest, EventFacts, EventTime
<1>2. PICK o : o = <<e.asset, e.id>>
    OBVIOUS
<1>3. Anchored(e, o) /\ o[1] = e.asset
    BY <1>1, <1>2 DEF ArrivalInv, OnItsWay
<1>4. ASSUME NEW s \in DueAt(o, e.ts) PROVE s \in Applied(e.asset)
    <2> SUFFICES ASSUME s \notin Applied(e.asset) PROVE FALSE
        OBVIOUS
    <2>1. s \in Rows(e.asset) /\ s \in exchTodo[e.asset]
        BY <1>3, <1>4 DEF DueAt, Applied
    <2>2. Row(e.asset, s).exch \in Int /\ s \in Int
        BY <1>1, <2>1, AppliedFacts
    <2>3. /\ e.ts <= Row(e.asset, s).exch
          /\ Row(e.asset, s).exch = e.ts => Mode = "sequence" /\ e.seq < s
        BY <2>1, RowsLeftFollow
    <2>4. s \notin trail[o].ahead
        BY <1>3 DEF Anchored
    <2>5. Row(e.asset, s).exch = e.ts /\ (Mode = "hbt" \/ s <= e.seq)
        BY <1>1, <1>3, <2>2, <2>3, <2>4, <1>4 DEF DueAt, Anchored
    <2> QED  BY <1>1, <2>2, <2>3, <2>5
<1> QED  BY <1>2, <1>3, <1>4 DEF Anchored

LEMMA RequestArrival ==
    ASSUME OrderInv, ArrivalInv, NothingOverdue, NEW e \in NextEvents, Request(e)
    PROVE  ArrivalInv'
<1>0. TypeInv /\ e \in Events /\ e.kind = "request" /\ e.asset \in Assets
    BY NextIsEarliest, EventFacts DEF OrderInv, Request
<1>e. PICK o : o = <<e.asset, e.id>>
    OBVIOUS
<1>1. o \in Orders /\ o[1] = e.asset
    BY <1>0, <1>e, EventFacts
<1>2. PICK m, answer :
        /\ now' = e.ts /\ UNCHANGED <<setup, exchTodo>>
        /\ orders' = [orders EXCEPT ![o].exch = e.ts, ![o].status = m.status, ![o].exec = m.exec]
        /\ pending' = (pending \ {e}) \cup {answer} /\ answer.kind = "response"
        /\ trail' = [trail EXCEPT ![o].met = Rows(e.asset) \ exchTodo[e.asset]]
    <2> DEFINE decision == MatchImmediate(orders[o].side, orders[o].price, View(exchDepth[e.asset]))
               reply == Event("response", Sat(e.ts + setup[e.asset].response), e.asset,
                              e.seq, serial + 1, e.id)
    <2>1. reply.kind = "response"
        BY DEF Event
    <2>2. /\ now' = e.ts /\ UNCHANGED <<setup, exchTodo>>
          /\ orders' = [orders EXCEPT ![o].exch = e.ts, ![o].status = decision.status,
                                      ![o].exec = decision.exec]
          /\ pending' = (pending \ {e}) \cup {reply}
          /\ trail' = [trail EXCEPT ![o].met = Rows(e.asset) \ exchTodo[e.asset]]
        BY <1>e DEF Request, Forward, Reply, ExchBook, exchVars
    <2> HIDE DEF decision, reply
    <2> QED  BY <2>1, <2>2
<1>3. /\ orders'[o].exch = e.ts
      /\ \A p \in Orders : p # o => orders'[p] = orders[p] /\ trail'[p] = trail[p]
      /\ trail'[o].met = Applied(e.asset)
      /\ trail'[o].anchor = trail[o].anchor /\ trail'[o].ahead = trail[o].ahead
    BY <1>0, <1>1, <1>2 DEF TypeInv, TypeOK, OrderType, TrailType, Applied
<1>4. AppliedInPast'
    <2>1. now \in Int /\ e.ts \in Int /\ now <= e.ts
        BY <1>0, EventTime, MaxTsAssumption DEF NothingOverdue, TypeInv, TypeOK
    <2>2. ASSUME NEW a \in Assets, NEW s \in Applied(a) PROVE Row(a, s).exch <= e.ts
        <3>1. Row(a, s).exch <= now /\ Row(a, s).exch \in Int
            BY <1>0, AppliedFacts DEF ArrivalInv, AppliedInPast, Applied
        <3> QED  BY <2>1, <3>1
    <2> QED  BY <1>2, <2>2 DEF AppliedInPast, Applied, Rows, Row
<1>5. \A p \in Orders : trail'[p].anchor = trail[p].anchor /\ trail'[p].ahead = trail[p].ahead
    BY <1>3
<1>6. OnItsWay'
    <2> SUFFICES ASSUME NEW r \in pending, r.kind = "request"
                 PROVE  Anchored(r, <<r.asset, r.id>>)'
        BY <1>2 DEF OnItsWay
    <2>1. PICK p : p = <<r.asset, r.id>>
        OBVIOUS
    <2>2. p \in Orders /\ Anchored(r, p)
        BY <1>0, <2>1, EventFacts DEF Events, ArrivalInv, OnItsWay
    <2>3. Anchored(r, p)'
        BY <1>2, <1>5, <2>2 DEF Anchored, Applied, DueAt, Rows, Row
    <2> QED  BY <2>1, <2>3
<1>7. MatchedOnArrivalBook'
    <2> SUFFICES ASSUME NEW p \in Orders, Decided(p)' PROVE trail'[p].met = RowsDue(p)'
        BY DEF MatchedOnArrivalBook
    <2>1. CASE p = o
        <3>1. RowsDue(o)' = DueAt(o, e.ts)
            BY <1>2, <1>3 DEF RowsDue, DueAt, Rows, Row
        <3>2. Applied(e.asset) = DueAt(o, e.ts)
            BY <1>0, <1>e, AppliedIsDue
        <3> QED  BY <1>3, <2>1, <3>1, <3>2
    <2>2. CASE p # o
        <3>1. orders'[p] = orders[p] /\ trail'[p] = trail[p] /\ Decided(p)
            BY <1>3, <2>2 DEF Decided
        <3> QED  BY <1>2, <3>1 DEF ArrivalInv, MatchedOnArrivalBook, RowsDue, Rows, Row
    <2> QED  BY <2>1, <2>2
<1> QED  BY <1>4, <1>6, <1>7 DEF ArrivalInv

LEMMA ArrivalStep == OrderInv /\ ScheduleInv /\ ArrivalInv /\ [Next]_vars => ArrivalInv'
<1> SUFFICES ASSUME OrderInv, ScheduleInv, ArrivalInv, [Next]_vars PROVE ArrivalInv'
    OBVIOUS
<1>0. TypeInv /\ TypeInv' /\ NothingOverdue /\ now <= now' /\ orders \in [Orders -> OrderType]
    BY TypeStep, ClockForward DEF ScheduleInv, TypeInv, TypeOK
<1>1. ASSUME \/ \E o \in Orders : SubmitDuplicate(o)
             \/ \E d \in Durations : Elapse(d)
             \/ \E o \in Orders, d \in Durations : Wait(o, d)
             \/ NextFeed
             \/ \E e \in NextEvents : LocalData(e)
             \/ ReachTarget
             \/ UNCHANGED vars
      PROVE  ArrivalInv'
    <2>1. UNCHANGED <<setup, exchTodo, trail, orders, pending>>
        BY <1>1 DEF SubmitDuplicate, Elapse, Wait, NextFeed, LocalData, ReachTarget,
                    vars, orderVars, exchVars
    <2> QED  BY <1>0, <2>1, ArrivalKept DEF Decided
<1>2. ASSUME NEW e \in NextEvents, Response(e) PROVE ArrivalInv'
    <2>1. PICK q : q = <<e.asset, e.id>>
        OBVIOUS
    <2>2. /\ UNCHANGED <<setup, exchTodo, trail>> /\ pending' = pending \ {e}
          /\ orders' = [orders EXCEPT ![q].resp = e.ts, ![q].visible = TRUE]
        BY <1>2, <2>1 DEF Response, Forward, Finish, exchVars
    <2>3. \A o \in Orders : /\ orders'[o].status = orders[o].status
                            /\ orders'[o].exch = orders[o].exch
        BY <1>0, <2>2 DEF OrderType
    <2> QED  BY <1>0, <2>2, <2>3, ArrivalKept DEF Decided
<1>3. ASSUME NEW e \in NextEvents, ExchData(e) PROVE ArrivalInv'
    BY <1>0, <1>3, ExchArrival
<1>4. ASSUME NEW e \in NextEvents, Request(e) PROVE ArrivalInv'
    BY <1>0, <1>4, RequestArrival
<1>5. ASSUME NEW o \in Orders, NEW side \in Sides, NEW price \in Limits, Submit(o, side, price)
      PROVE  ArrivalInv'
    BY <1>5, SubmitArrival
<1> QED  BY <1>1, <1>2, <1>3, <1>4, <1>5 DEF Next, Strategy, Step

\* An order meets exactly the exchange rows due by its arrival, in either mode.
THEOREM MatchIsOnArrival == Spec => []MatchedOnArrivalBook
<1>1. ArrivalInv => MatchedOnArrivalBook
    BY DEF ArrivalInv
<1> QED  BY <1>1, OrderInit, OrderStep, ScheduleInit, ScheduleStep, ArrivalInit, ArrivalStep, PTL DEF Spec

-----------------------------------------------------------------------------
\* Replay.  The exchange ladder is at all times what its rows, played in
\* exchange order, make of an empty one: the row taken next comes after every
\* row applied, by the words of the key once more, in either mode.

\* The ladders that rows make one after the other, as Play defines them.
Plays(s, f, n) == s = [k \in 0 .. n |-> IF k = 0 THEN EmptyLadder ELSE ApplyRow(s[k - 1], f[k])]

LEMMA PlaysAgree ==
    ASSUME NEW n \in Nat, NEW m \in Nat, NEW f, NEW g, NEW s, NEW t, n <= m,
           \A k \in 1 .. n : f[k] = g[k], Plays(s, f, n), Plays(t, g, m)
    PROVE  \A k \in 0 .. n : s[k] = t[k]
<1> DEFINE S == {k \in Nat : k <= n => s[k] = t[k]}
<1>1. 0 \in S
    BY DEF Plays
<1>2. \A k \in Nat : k \in S => k + 1 \in S
    <2> SUFFICES ASSUME NEW k \in Nat, k \in S, k + 1 <= n PROVE s[k + 1] = t[k + 1]
        OBVIOUS
    <2>1. k + 1 \in 0 .. n /\ k + 1 \in 0 .. m /\ k + 1 # 0 /\ (k + 1) - 1 = k /\ k + 1 \in 1 .. n /\ k <= n
        OBVIOUS
    <2>2. s[k + 1] = ApplyRow(s[k], f[k + 1])
        BY <2>1 DEF Plays
    <2>3. t[k + 1] = ApplyRow(t[k], g[k + 1])
        BY <2>1 DEF Plays
    <2>4. s[k] = t[k] /\ f[k + 1] = g[k + 1]
        BY <2>1
    <2> QED  BY <2>2, <2>3, <2>4
<1>3. Nat \subseteq S
    <2> HIDE DEF S
    <2> QED  BY <1>1, <1>2, Induction
<1> QED  BY <1>3

LEMMA PlayExists ==
    ASSUME NEW f, NEW n \in Nat
    PROVE  \E s : Plays(s, f, n)
<1> DEFINE S == {m \in Nat : \E s : Plays(s, f, m)}
<1>1. 0 \in S
    <2>1. Plays([k \in 0 .. 0 |-> EmptyLadder], f, 0)
        BY DEF Plays
    <2> QED  BY <2>1
<1>2. \A m \in Nat : m \in S => m + 1 \in S
    <2> SUFFICES ASSUME NEW m \in Nat, NEW s, Plays(s, f, m) PROVE \E t : Plays(t, f, m + 1)
        OBVIOUS
    <2> DEFINE t == [k \in 0 .. (m + 1) |-> IF k = m + 1 THEN ApplyRow(s[m], f[m + 1]) ELSE s[k]]
    <2>1. \A k \in 0 .. (m + 1) : t[k] = IF k = 0 THEN EmptyLadder ELSE ApplyRow(t[k - 1], f[k])
        <3> SUFFICES ASSUME NEW k \in 0 .. (m + 1)
                     PROVE  t[k] = IF k = 0 THEN EmptyLadder ELSE ApplyRow(t[k - 1], f[k])
            OBVIOUS
        <3>1. CASE k = m + 1
            <4>1. k # 0 /\ k - 1 = m /\ m \in 0 .. (m + 1) /\ m # m + 1
                BY <3>1
            <4> QED  BY <3>1, <4>1
        <3>2. CASE k # m + 1 /\ k # 0
            <4>1. k \in 0 .. m /\ k - 1 \in 0 .. (m + 1) /\ k - 1 # m + 1
                BY <3>2
            <4>2. s[k] = ApplyRow(s[k - 1], f[k])
                BY <3>2, <4>1 DEF Plays
            <4> QED  BY <3>2, <4>1, <4>2
        <3>3. CASE k = 0
            <4>1. s[0] = EmptyLadder /\ 0 # m + 1 /\ 0 \in 0 .. (m + 1)
                BY DEF Plays
            <4> QED  BY <3>3, <4>1
        <3> QED  BY <3>1, <3>2, <3>3
    <2>2. Plays(t, f, m + 1)
        BY <2>1, Zenon DEF Plays
    <2> QED  BY <2>2
<1>3. Nat \subseteq S
    <2> HIDE DEF S
    <2> QED  BY <1>1, <1>2, Induction
<1> QED  BY <1>3

LEMMA PlayIsPlayed ==
    ASSUME NEW f, NEW n \in Nat
    PROVE  \E s : Plays(s, f, n) /\ Play(f, n) = s[n]
<1> DEFINE s == CHOOSE s : s = [k \in 0 .. n |-> IF k = 0 THEN EmptyLadder ELSE ApplyRow(s[k - 1], f[k])]
<1>1. Plays(s, f, n)
    BY PlayExists, Zenon DEF Plays
<1>2. Play(f, n) = s[n]
    BY Zenon DEF Play
<1> QED  BY <1>1, <1>2, Zenon

LEMMA PlayNothing ==
    ASSUME NEW f
    PROVE  Play(f, 0) = EmptyLadder
<1>1. PICK s : Plays(s, f, 0) /\ Play(f, 0) = s[0]
    BY PlayIsPlayed
<1> QED  BY <1>1 DEF Plays

\* One more row is applied to what the rows before it made.
LEMMA PlayOneMore ==
    ASSUME NEW n \in Nat, NEW f, NEW g, \A k \in 1 .. n : g[k] = f[k]
    PROVE  Play(g, n + 1) = ApplyRow(Play(f, n), g[n + 1])
<1>1. PICK s : Plays(s, f, n) /\ Play(f, n) = s[n]
    BY PlayIsPlayed
<1>2. PICK t : Plays(t, g, n + 1) /\ Play(g, n + 1) = t[n + 1]
    BY PlayIsPlayed
<1>3. s[n] = t[n]
    BY <1>1, <1>2, PlaysAgree
<1>4. n + 1 \in 0 .. (n + 1) /\ n + 1 # 0 /\ (n + 1) - 1 = n
    OBVIOUS
<1>5. t[n + 1] = ApplyRow(t[n], g[n + 1])
    BY <1>2, <1>4 DEF Plays
<1> QED  BY <1>1, <1>2, <1>3, <1>5

\* A row that comes after all of S is played after all of S.
LEMMA ReplayOneMore ==
    ASSUME NEW a, NEW S, IsFiniteSet(S), NEW r, r \notin S, ~RowBefore(a, r, r),
           \A s \in S : RowBefore(a, s, r) /\ ~RowBefore(a, r, s) /\ ~RowBefore(a, s, s)
    PROVE  Replayed(a, S \cup {r}) = ApplyRow(Replayed(a, S), Row(a, r))
<1> DEFINE T == S \cup {r}
           n == Cardinality(S)
           Before(U, x) == { s \in U : RowBefore(a, s, x) }
<1>1. IsFiniteSet(T) /\ n \in Nat /\ Cardinality(T) = n + 1
    BY FS_AddElement, FS_CardinalityType
<1>2. Before(T, r) = S
    OBVIOUS
<1>3. ASSUME NEW x \in S
      PROVE  Before(T, x) = Before(S, x) /\ Cardinality(Before(T, x)) \in Nat
             /\ Cardinality(Before(T, x)) < n
    <2>1. Before(T, x) = Before(S, x)
        OBVIOUS
    <2>2. Before(S, x) \in SUBSET S /\ x \notin Before(S, x)
        OBVIOUS
    <2> HIDE DEF Before, T, n
    <2>3. /\ IsFiniteSet(Before(S, x)) /\ Cardinality(Before(S, x)) <= Cardinality(S)
          /\ Cardinality(S) = Cardinality(Before(S, x)) => S = Before(S, x)
        BY <2>2, FS_Subset
    <2>4. Cardinality(Before(S, x)) \in Nat
        BY <2>3, FS_CardinalityType
    <2>5. Cardinality(S) # Cardinality(Before(S, x))
        BY <2>2, <2>3
    <2>6. Cardinality(Before(S, x)) < Cardinality(S)
        BY <1>1, <2>3, <2>4, <2>5 DEF n
    <2> QED  BY <2>1, <2>4, <2>6 DEF n
<1>4. \A k : Standing(a, S, k) = { x \in S : Cardinality(Before(S, x)) = k - 1 }
    BY DEF Standing
<1>5. \A k : Standing(a, T, k) = { x \in T : Cardinality(Before(T, x)) = k - 1 }
    BY DEF Standing
<1> HIDE DEF Before
<1>6. ASSUME NEW k \in 1 .. n PROVE Standing(a, T, k) = Standing(a, S, k)
    <2>1. Cardinality(Before(T, r)) # k - 1
        BY <1>1, <1>2, <1>6
    <2>2. ASSUME NEW x \in S PROVE Cardinality(Before(T, x)) = Cardinality(Before(S, x))
        BY <1>3
    <2> QED  BY <1>4, <1>5, <2>1, <2>2
<1>7. Standing(a, T, n + 1) = {r}
    <2>1. Cardinality(Before(T, r)) = (n + 1) - 1
        BY <1>1, <1>2
    <2>2. ASSUME NEW x \in S PROVE Cardinality(Before(T, x)) # (n + 1) - 1
        BY <1>1, <1>3
    <2>3. Standing(a, T, n + 1) = { x \in T : Cardinality(Before(T, x)) = (n + 1) - 1 }
        BY <1>5
    <2>4. r \in T /\ \A x \in T : x = r \/ x \in S
        OBVIOUS
    <2> HIDE DEF T, n
    <2> QED  BY <2>1, <2>2, <2>3, <2>4
<1>8. \A k \in 1 .. n : InOrder(a, T)[k] = InOrder(a, S)[k]
    <2> SUFFICES ASSUME NEW k \in 1 .. n PROVE InOrder(a, T)[k] = InOrder(a, S)[k]
        OBVIOUS
    <2>1. k \in 1 .. Cardinality(T) /\ k \in 1 .. Cardinality(S)
        BY <1>1
    <2>2. InOrder(a, S)[k] = Row(a, CHOOSE x \in Standing(a, S, k) : TRUE)
        BY <2>1 DEF InOrder
    <2>3. InOrder(a, T)[k] = Row(a, CHOOSE x \in Standing(a, T, k) : TRUE)
        BY <2>1 DEF InOrder
    <2>4. Standing(a, T, k) = Standing(a, S, k)
        BY <1>6
    <2> QED  BY <2>2, <2>3, <2>4
<1>9. InOrder(a, T)[n + 1] = Row(a, r)
    <2>1. n + 1 \in 1 .. Cardinality(T)
        BY <1>1
    <2>2. InOrder(a, T)[n + 1] = Row(a, CHOOSE x \in Standing(a, T, n + 1) : TRUE)
        BY <2>1 DEF InOrder
    <2>3. (CHOOSE x \in {r} : TRUE) = r
        OBVIOUS
    <2> QED  BY <1>7, <2>2, <2>3
<1>10. Play(InOrder(a, T), n + 1) = ApplyRow(Play(InOrder(a, S), n), InOrder(a, T)[n + 1])
    <2> HIDE DEF T, n
    <2> QED  BY <1>1, <1>8, PlayOneMore
<1> QED  BY <1>1, <1>9, <1>10 DEF Replayed

InOrderSoFar == \A a \in Assets : \A r \in Applied(a) : \A s \in exchTodo[a] : RowBefore(a, r, s)

LadderIsReplay == \A a \in Assets : IsFiniteSet(Applied(a)) /\ exchDepth[a] = Replayed(a, Applied(a))

\* The decision an order got is the one its rows make when replayed.
DecidedByReplay(o) ==
    [ status |-> orders[o].status, exec |-> orders[o].exec ] =
        MatchImmediate(orders[o].side, orders[o].price, View(Replayed(o[1], trail[o].met)))

MatchedByReplay == \A o \in Orders : Decided(o) => DecidedByReplay(o)

ReplayInv == InOrderSoFar /\ LadderIsReplay /\ MatchedByReplay

LEMMA ReplayInit == Init => ReplayInv
<1> SUFFICES ASSUME Init PROVE ReplayInv
    OBVIOUS
<1>1. \A a \in Assets : Applied(a) = {} /\ exchDepth[a] = EmptyLadder
    BY DEF Init, Applied
<1>2. \A o \in Orders : ~Decided(o)
    BY DEF Init, Unsent, Decided
<1>3. IsFiniteSet({}) /\ \A a : Replayed(a, {}) = EmptyLadder
    <2>1. IsFiniteSet({}) /\ Cardinality({}) = 0
        BY FS_EmptySet
    <2> QED  BY <2>1, PlayNothing DEF Replayed
<1> QED  BY <1>1, <1>2, <1>3 DEF ReplayInv, InOrderSoFar, LadderIsReplay, MatchedByReplay

\* What rows make depends on nothing a step changes.
LEMMA ReplayKept ==
    ASSUME setup' = setup
    PROVE  \A a, S : Replayed(a, S)' = Replayed(a, S)
BY DEF Replayed, InOrder, Standing, RowBefore, Row

LEMMA RowOrder ==
    ASSUME TypeInv, NEW a \in Assets, NEW r \in Rows(a), NEW s \in Rows(a)
    PROVE  /\ ~RowBefore(a, r, r)
           /\ RowBefore(a, r, s) => ~RowBefore(a, s, r)
<1>1. Row(a, r).exch \in Int /\ r \in Int /\ Row(a, s).exch \in Int /\ s \in Int
    BY AppliedFacts
<1> QED  BY <1>1 DEF RowBefore

\* The row taken comes before every other row left of its asset.
LEMMA RowTakenIsFirst ==
    ASSUME TypeInv, NEW e \in NextEvents, e.kind = "exch",
           NEW s \in exchTodo[e.asset], s # e.seq
    PROVE  RowBefore(e.asset, e.seq, s)
<1> DEFINE f == Event("exch", Row(e.asset, s).exch, e.asset, s, s, NoId)
<1>1. /\ e \in Events /\ e.asset \in Assets /\ e.seq \in Nat /\ e.seq \in Rows(e.asset)
      /\ e.ts = Row(e.asset, e.seq).exch /\ e.ts \in Int
    BY NextIsEarliest, EventFacts, EventTime
<1>2. e.tie = e.seq
    BY <1>1, EventCases DEF Event, TypeInv, TypeOK, PendingType
<1>3. f \in Events /\ s \in Nat
    <2>1. s \in Nat
        BY <1>1 DEF TypeInv, TypeOK
    <2>2. f \in ExchEvents
        BY <1>1 DEF ExchEvents
    <2> QED  BY <2>1, <2>2 DEF Events
<1>4. f.ts = Row(e.asset, s).exch /\ f.asset = e.asset /\ f.seq = s /\ f.kind = "exch" /\ f.tie = s
    BY DEF Event
<1> HIDE DEF f
<1>5. e.ts <= f.ts /\ f.ts \in Int
    BY <1>3, NextIsEarliest, EventTime
<1>6. ASSUME f.ts = e.ts, s < e.seq PROVE FALSE
    <2>1. ~KeyLess(Key(f), Key(e))
        BY <1>3 DEF NextEvents
    <2>2. /\ Key(f)[1] = Key(e)[1] /\ Key(f)[2] = Key(e)[2] /\ Key(f)[4] = Key(e)[4]
          /\ Key(f)[3] = (IF Mode = "sequence" THEN s ELSE 0)
          /\ Key(e)[3] = (IF Mode = "sequence" THEN e.seq ELSE 0)
          /\ Key(f)[5] < Key(e)[5]
        BY <1>2, <1>4, <1>6 DEF Key
    <2>3. CASE Mode = "sequence"
        <3>1. Key(f)[3] < Key(e)[3] /\ \A h \in 1 .. (3 - 1) : Key(f)[h] = Key(e)[h]
            BY <1>6, <2>2, <2>3
        <3> QED  BY <2>1, <3>1, 3 \in 1 .. 5 DEF KeyLess
    <2>4. CASE Mode # "sequence"
        <3>1. \A h \in 1 .. (5 - 1) : Key(f)[h] = Key(e)[h]
            BY <2>2, <2>4
        <3> QED  BY <2>1, <2>2, <3>1, 5 \in 1 .. 5 DEF KeyLess
    <2> QED  BY <2>3, <2>4
<1>7. e.ts < f.ts \/ (e.ts = f.ts /\ e.seq < s)
    BY <1>1, <1>3, <1>5, <1>6
<1> QED  BY <1>1, <1>4, <1>7 DEF RowBefore

\* A row applied is played last.
LEMMA ExchReplay ==
    ASSUME TypeInv, ReplayInv, NEW e \in NextEvents, ExchData(e)
    PROVE  ReplayInv'
<1>1. /\ e.kind = "exch" /\ e.asset \in Assets
      /\ e.seq \in Rows(e.asset) /\ e.seq \in exchTodo[e.asset]
    BY NextIsEarliest, EventFacts DEF ExchData
<1>2. /\ UNCHANGED <<setup, trail, orders>>
      /\ exchTodo' = [exchTodo EXCEPT ![e.asset] = @ \ {e.seq}]
      /\ exchDepth' = [exchDepth EXCEPT ![e.asset] = ApplyRow(@, Row(e.asset, e.seq))]
    BY DEF ExchData, Advance, orderVars
<1>3. /\ exchTodo'[e.asset] = exchTodo[e.asset] \ {e.seq}
      /\ exchDepth'[e.asset] = ApplyRow(exchDepth[e.asset], Row(e.asset, e.seq))
      /\ \A a \in Assets : a # e.asset => exchTodo'[a] = exchTodo[a] /\ exchDepth'[a] = exchDepth[a]
    BY <1>1, <1>2 DEF TypeInv, TypeOK
<1>4. /\ Applied(e.asset)' = Applied(e.asset) \cup {e.seq}
      /\ \A a \in Assets : a # e.asset => Applied(a)' = Applied(a)
    BY <1>1, <1>2, <1>3 DEF Applied, Rows
<1>5. \A a, r, s : RowBefore(a, r, s)' = RowBefore(a, r, s)
    BY <1>2 DEF RowBefore, Row
<1>6. InOrderSoFar'
    <2> SUFFICES ASSUME NEW a \in Assets, NEW r \in Applied(a)', NEW s \in exchTodo'[a]
                 PROVE  RowBefore(a, r, s)
        BY <1>5 DEF InOrderSoFar
    <2>1. CASE r \in Applied(a)
        <3>1. s \in exchTodo[a]
            BY <1>3
        <3> QED  BY <2>1, <3>1 DEF ReplayInv, InOrderSoFar
    <2>2. CASE r \notin Applied(a)
        <3>1. a = e.asset /\ r = e.seq
            BY <1>4, <2>2
        <3>2. s \in exchTodo[e.asset] /\ s # e.seq
            BY <1>3, <3>1
        <3> QED  BY <1>1, <3>1, <3>2, RowTakenIsFirst
    <2> QED  BY <2>1, <2>2
<1>7. LadderIsReplay'
    <2> SUFFICES ASSUME NEW a \in Assets
                 PROVE  IsFiniteSet(Applied(a)') /\ exchDepth'[a] = Replayed(a, Applied(a)')
        BY <1>2, ReplayKept DEF LadderIsReplay
    <2>1. IsFiniteSet(Applied(a)) /\ exchDepth[a] = Replayed(a, Applied(a))
        BY DEF ReplayInv, LadderIsReplay
    <2>2. CASE a = e.asset
        <3>1. IsFiniteSet(Applied(a) \cup {e.seq})
            BY <2>1, FS_AddElement
        <3>2. e.seq \notin Applied(a)
            BY <1>1, <2>2 DEF Applied
        <3>3. ~RowBefore(a, e.seq, e.seq)
            BY <1>1, <2>2, RowOrder
        <3>4. \A s \in Applied(a) :
                    RowBefore(a, s, e.seq) /\ ~RowBefore(a, e.seq, s) /\ ~RowBefore(a, s, s)
            <4> SUFFICES ASSUME NEW s \in Applied(a)
                         PROVE  RowBefore(a, s, e.seq) /\ ~RowBefore(a, e.seq, s) /\ ~RowBefore(a, s, s)
                OBVIOUS
            <4>1. RowBefore(a, s, e.seq) /\ s \in Rows(a)
                BY <1>1, <2>2 DEF ReplayInv, InOrderSoFar, Applied
            <4> QED  BY <1>1, <2>2, <4>1, RowOrder
        <3>5. Replayed(a, Applied(a) \cup {e.seq}) = ApplyRow(Replayed(a, Applied(a)), Row(a, e.seq))
            BY <2>1, <3>2, <3>3, <3>4, ReplayOneMore
        <3> QED  BY <1>3, <1>4, <2>1, <2>2, <3>1, <3>5
    <2>3. CASE a # e.asset
        BY <1>3, <1>4, <2>1, <2>3
    <2> QED  BY <2>2, <2>3
<1>8. MatchedByReplay'
    BY <1>2, ReplayKept DEF ReplayInv, MatchedByReplay, DecidedByReplay, Decided
<1> QED  BY <1>6, <1>7, <1>8 DEF ReplayInv

LEMMA DecisionKept ==
    ASSUME setup' = setup, NEW o \in Orders, trail'[o].met = trail[o].met,
           orders'[o].status = orders[o].status, orders'[o].exec = orders[o].exec,
           orders'[o].side = orders[o].side, orders'[o].price = orders[o].price
    PROVE  (Decided(o)' => Decided(o)) /\ (DecidedByReplay(o) => DecidedByReplay(o)')
<1>1. Replayed(o[1], trail[o].met)' = Replayed(o[1], trail[o].met)
    BY ReplayKept
<1> QED  BY <1>1 DEF DecidedByReplay, Decided

\* Steps that apply no row to the exchange: the orders they do not decide keep
\* what they were decided on.
LEMMA ReplaySame ==
    ASSUME ReplayInv, UNCHANGED <<setup, exchTodo, exchDepth>>,
           \A o \in Orders : Decided(o)' =>
                DecidedByReplay(o)' \/ (Decided(o) /\ (DecidedByReplay(o) => DecidedByReplay(o)'))
    PROVE  ReplayInv'
<1>1. \A a : Applied(a)' = Applied(a)
    BY DEF Applied, Rows
<1>2. InOrderSoFar'
    BY <1>1 DEF ReplayInv, InOrderSoFar, RowBefore, Row
<1>3. LadderIsReplay'
    BY <1>1, ReplayKept DEF ReplayInv, LadderIsReplay
<1>4. MatchedByReplay'
    BY DEF ReplayInv, MatchedByReplay
<1> QED  BY <1>2, <1>3, <1>4 DEF ReplayInv

\* An order matched is matched against the replay of the rows applied.
LEMMA RequestReplay ==
    ASSUME TypeInv, ReplayInv, NEW e \in NextEvents, Request(e)
    PROVE  ReplayInv'
<1>e. PICK o : o = <<e.asset, e.id>>
    OBVIOUS
<1>1. o \in Orders /\ o[1] = e.asset /\ e.asset \in Assets
    BY <1>e, NextIsEarliest, EventFacts DEF Request
<1>m. PICK m : m = MatchImmediate(orders[o].side, orders[o].price, View(exchDepth[e.asset]))
    OBVIOUS
<1>2. /\ UNCHANGED <<setup, exchTodo, exchDepth>>
      /\ orders' = [orders EXCEPT ![o].exch = e.ts, ![o].status = m.status, ![o].exec = m.exec]
      /\ trail' = [trail EXCEPT ![o].met = Rows(e.asset) \ exchTodo[e.asset]]
    BY <1>e, <1>m DEF Request, ExchBook, exchVars
<1>3. /\ orders'[o].status = m.status /\ orders'[o].exec = m.exec
      /\ orders'[o].side = orders[o].side /\ orders'[o].price = orders[o].price
      /\ trail'[o].met = Applied(e.asset)
      /\ \A p \in Orders : p # o => orders'[p] = orders[p] /\ trail'[p] = trail[p]
    BY <1>1, <1>2 DEF TypeInv, TypeOK, OrderType, TrailType, Applied
<1>4. m = [ status |-> m.status, exec |-> m.exec ]
    BY <1>m DEF MatchImmediate
<1>5. exchDepth[e.asset] = Replayed(o[1], Applied(e.asset))
    BY <1>1 DEF ReplayInv, LadderIsReplay
<1>6. DecidedByReplay(o)'
    BY <1>m, <1>2, <1>3, <1>4, <1>5, ReplayKept DEF DecidedByReplay
<1>7. ASSUME NEW p \in Orders, p # o
      PROVE  (Decided(p)' => Decided(p)) /\ (DecidedByReplay(p) => DecidedByReplay(p)')
    BY <1>2, <1>3, <1>7, DecisionKept
<1> QED  BY <1>2, <1>6, <1>7, ReplaySame

LEMMA ReplayStep == TypeInv /\ ReplayInv /\ [Next]_vars => ReplayInv'
<1> SUFFICES ASSUME TypeInv, ReplayInv, [Next]_vars PROVE ReplayInv'
    OBVIOUS
<1>0. orders \in [Orders -> OrderType] /\ trail \in [Orders -> TrailType]
    BY DEF TypeInv, TypeOK
<1>1. ASSUME \/ \E o \in Orders : SubmitDuplicate(o)
             \/ \E d \in Durations : Elapse(d)
             \/ \E o \in Orders, d \in Durations : Wait(o, d)
             \/ NextFeed
             \/ \E e \in NextEvents : LocalData(e)
             \/ ReachTarget
             \/ UNCHANGED vars
      PROVE  ReplayInv'
    <2>1. UNCHANGED <<setup, exchTodo, exchDepth, trail, orders>>
        BY <1>1 DEF SubmitDuplicate, Elapse, Wait, NextFeed, LocalData, ReachTarget,
                    vars, orderVars, exchVars
    <2>2. \A o \in Orders : (Decided(o)' => Decided(o)) /\ (DecidedByReplay(o) => DecidedByReplay(o)')
        BY <2>1, DecisionKept
    <2> QED  BY <2>1, <2>2, ReplaySame
<1>2. ASSUME NEW e \in NextEvents, Response(e) PROVE ReplayInv'
    <2>1. PICK q : q = <<e.asset, e.id>>
        OBVIOUS
    <2>2. /\ UNCHANGED <<setup, exchTodo, exchDepth, trail>>
          /\ orders' = [orders EXCEPT ![q].resp = e.ts, ![q].visible = TRUE]
        BY <1>2, <2>1 DEF Response, exchVars
    <2>3. \A o \in Orders : /\ orders'[o].status = orders[o].status /\ orders'[o].exec = orders[o].exec
                            /\ orders'[o].side = orders[o].side /\ orders'[o].price = orders[o].price
        BY <1>0, <2>2 DEF OrderType
    <2>4. \A o \in Orders : (Decided(o)' => Decided(o)) /\ (DecidedByReplay(o) => DecidedByReplay(o)')
        BY <2>2, <2>3, DecisionKept
    <2> QED  BY <2>2, <2>4, ReplaySame
<1>3. ASSUME NEW e \in NextEvents, ExchData(e) PROVE ReplayInv'
    BY <1>3, ExchReplay
<1>4. ASSUME NEW e \in NextEvents, Request(e) PROVE ReplayInv'
    BY <1>4, RequestReplay
<1>5. ASSUME NEW o \in Orders, NEW side \in Sides, NEW price \in Limits, Submit(o, side, price)
      PROVE  ReplayInv'
    <2>1. /\ UNCHANGED <<setup, exchTodo, exchDepth>>
          /\ orders' = [orders EXCEPT ![o] = Sent(side, price)]
          /\ \A p \in Orders : p # o => trail'[p] = trail[p]
        BY <1>0, <1>5 DEF Submit, exchVars
    <2>2. ~Decided(o)'
        BY <1>0, <2>1 DEF Sent, Decided
    <2>3. \A p \in Orders : p # o => orders'[p] = orders[p]
        BY <1>0, <2>1
    <2>4. ASSUME NEW p \in Orders, p # o
          PROVE  (Decided(p)' => Decided(p)) /\ (DecidedByReplay(p) => DecidedByReplay(p)')
        BY <2>1, <2>3, <2>4, DecisionKept
    <2> QED  BY <2>1, <2>2, <2>4, ReplaySame
<1> QED  BY <1>1, <1>2, <1>3, <1>4, <1>5 DEF Next, Strategy, Step

\* A decision is the one a replay from scratch of the rows due at the order's
\* arrival makes: it depends neither on how the strategy advanced the clock, nor
\* on the other asset, nor on how events of one timestamp were interleaved.
THEOREM DecisionIsReplay == Spec => []DecisionMatchesReplay
<1>1. MatchedOnArrivalBook /\ ReplayInv => DecisionMatchesReplay
    BY DEF MatchedOnArrivalBook, ReplayInv, MatchedByReplay, DecidedByReplay,
           DecisionMatchesReplay, Rebuilt
<1>2. OrderInv => TypeInv
    BY DEF OrderInv
<1> QED  BY <1>1, <1>2, MatchIsOnArrival, OrderInit, OrderStep, ReplayInit, ReplayStep, PTL DEF Spec

-----------------------------------------------------------------------------
(* The refinement: every step of the engine is a step of the timeline.      *)

\* An order that is owed a step has, on the schedule, an event at the instant
\* it is due.
LEMMA OwedIsScheduled ==
    ASSUME OrderInv, NEW o \in Orders, PhaseOf(o) \in {"sent", "decided"}
    PROVE  \E e \in Events : e.ts = DueOf(o)
<1>1. InStage(o) /\ orders[o].status \in Statuses
    BY DEF OrderInv, OneEventPerOpenOrder, TypeInv, TypeOK, OrderType
<1>2. CASE orders[o].status = "NEW"
    <2>1. \E e \in pending : e.ts = Arrival(o)
        BY <1>1, <1>2 DEF InStage, Decided
    <2> QED  BY <1>2, <2>1 DEF DueOf, Events
<1>3. CASE Decided(o)
    <2>1. ~orders[o].visible
        BY <1>3 DEF PhaseOf, Decided
    <2>2. \E e \in pending : e.ts = Sat(orders[o].exch + setup[o[1]].response)
        BY <1>1, <1>3, <2>1 DEF InStage, Decided
    <2> QED  BY <1>3, <2>2 DEF DueOf, Events, Decided
<1>4. orders[o].status # "none"
    BY DEF PhaseOf
<1> QED  BY <1>1, <1>2, <1>3, <1>4 DEF Statuses, Decided

\* The clock may be moved to any instant no event precedes.
LEMMA EarliestIsReachable ==
    ASSUME OrderInv, NEW t, now <= t, \A e \in Events : t <= e.ts
    PROVE  Timeline!Reachable(t)
<1>1. \A o \in Orders : PhaseOf(o) \in {"sent", "decided"} => t <= DueOf(o)
    BY OwedIsScheduled
<1> QED  BY <1>1 DEF Timeline!Reachable, Timeline!Owed

\* Steps that leave the orders alone pass time, or nothing at all.
LEMMA PassStep ==
    ASSUME UNCHANGED <<setup, orders>>, Timeline!Reachable(now')
    PROVE  Timeline!Pass
<1>1. \A o \in Orders : PhaseOf(o)' = PhaseOf(o) /\ DueOf(o)' = DueOf(o) /\ Decided(o)' = Decided(o)
    BY DEF PhaseOf, DueOf, Decided, Arrival
<1> QED  BY <1>1 DEF Timeline!Pass

LEMMA StillStep ==
    ASSUME UNCHANGED <<setup, orders, now>>
    PROVE  UNCHANGED Timeline!timeline
<1>1. \A o \in Orders : PhaseOf(o)' = PhaseOf(o) /\ DueOf(o)' = DueOf(o) /\ Decided(o)' = Decided(o)
    BY DEF PhaseOf, DueOf, Decided, Arrival
<1> QED  BY <1>1 DEF Timeline!timeline

\* An order's place on the timeline depends on its own record only.
LEMMA PlaceKept ==
    ASSUME setup' = setup, NEW o \in Orders, orders'[o] = orders[o]
    PROVE  PhaseOf(o)' = PhaseOf(o) /\ DueOf(o)' = DueOf(o) /\ Decided(o)' = Decided(o)
BY DEF PhaseOf, DueOf, Decided, Arrival

-----------------------------------------------------------------------------
\* The three steps that move an order on, one for one.

LEMMA SubmitSends ==
    ASSUME OrderInv, NEW o \in Orders, NEW side \in Sides, NEW price \in Limits,
           Submit(o, side, price)
    PROVE  Timeline!Send(o)
<1>1. /\ setup' = setup /\ now' = now /\ orders[o].status = "none"
      /\ orders' = [orders EXCEPT ![o] = Sent(side, price)]
    BY DEF Submit, Fresh
<1>2. orders'[o] = Sent(side, price) /\ \A p \in Orders : p # o => orders'[p] = orders[p]
    BY <1>1 DEF OrderInv, TypeInv, TypeOK
<1>3. /\ PhaseOf(o) = "unsent" /\ PhaseOf(o)' = "sent"
      /\ DueOf(o)' = Sat(now + setup[o[1]].entry)
      /\ ~Decided(o) /\ ~Decided(o)'
    BY <1>1, <1>2 DEF PhaseOf, DueOf, Decided, Arrival, Sent
<1>4. \A p \in Orders : p # o =>
        PhaseOf(p)' = PhaseOf(p) /\ DueOf(p)' = DueOf(p) /\ Decided(p)' = Decided(p)
    BY <1>1, <1>2, PlaceKept
<1>5. [p \in Orders |-> PhaseOf(p)]' = [[p \in Orders |-> PhaseOf(p)] EXCEPT ![o] = "sent"]
    BY <1>3, <1>4
<1>6. [p \in Orders |-> DueOf(p)]' =
        [[p \in Orders |-> DueOf(p)] EXCEPT ![o] = Sat(now + setup[o[1]].entry)]
    BY <1>3, <1>4
<1>7. [p \in Orders |-> IF Decided(p) THEN orders[p].status ELSE "none"]' =
        [p \in Orders |-> IF Decided(p) THEN orders[p].status ELSE "none"]
    BY <1>2, <1>3, <1>4
<1>8. Timeline!Capped(now + setup[o[1]].entry) = Sat(now + setup[o[1]].entry)
    BY DEF Timeline!Capped, Sat
<1> QED  BY <1>1, <1>3, <1>5, <1>6, <1>7, <1>8 DEF Timeline!Send

LEMMA RequestDecides ==
    ASSUME OrderInv, NEW e \in Events, Request(e), Timeline!Reachable(e.ts)
    PROVE  Timeline!Decide(<<e.asset, e.id>>)
<1> DEFINE o == <<e.asset, e.id>>
           m == MatchImmediate(orders[o].side, orders[o].price, ExchBook(e.asset))
<1>1. /\ o \in Orders /\ orders[o].status = "NEW" /\ ~orders[o].visible /\ e.ts = Arrival(o)
    BY RequestStage DEF Request
<1>2. /\ setup' = setup /\ now' = e.ts
      /\ orders' = [orders EXCEPT ![o].exch = e.ts, ![o].status = m.status, ![o].exec = m.exec]
    BY DEF Request
<1>3. m.status \in {"FILLED", "EXPIRED"}
    <2>1. exchDepth[e.asset] \in Ladders
        BY EventFacts DEF OrderInv, TypeInv, TypeOK
    <2> QED  BY <2>1, DecisionType DEF ExchBook
<1> HIDE DEF m, o
<1>4. /\ orders'[o].status = m.status /\ orders'[o].exch = e.ts /\ orders'[o].visible = orders[o].visible
      /\ \A p \in Orders : p # o => orders'[p] = orders[p]
    BY <1>1, <1>2 DEF OrderInv, TypeInv, TypeOK, OrderType
<1>5. /\ PhaseOf(o) = "sent" /\ PhaseOf(o)' = "decided"
      /\ DueOf(o) = e.ts /\ DueOf(o)' = Sat(e.ts + setup[o[1]].response)
      /\ Decided(o)'
    BY <1>1, <1>2, <1>3, <1>4 DEF PhaseOf, DueOf, Decided, Arrival
<1>6. \A p \in Orders : p # o =>
        PhaseOf(p)' = PhaseOf(p) /\ DueOf(p)' = DueOf(p) /\ Decided(p)' = Decided(p)
    BY <1>2, <1>4, PlaceKept
<1>7. [p \in Orders |-> PhaseOf(p)]' = [[p \in Orders |-> PhaseOf(p)] EXCEPT ![o] = "decided"]
    BY <1>5, <1>6
<1>8. [p \in Orders |-> DueOf(p)]' =
        [[p \in Orders |-> DueOf(p)] EXCEPT ![o] = Sat(e.ts + setup[o[1]].response)]
    BY <1>5, <1>6
<1>9. [p \in Orders |-> IF Decided(p) THEN orders[p].status ELSE "none"]' =
        [[p \in Orders |-> IF Decided(p) THEN orders[p].status ELSE "none"] EXCEPT ![o] = m.status]
    BY <1>4, <1>5, <1>6
<1>10. Timeline!Capped(e.ts + setup[o[1]].response) = Sat(e.ts + setup[o[1]].response)
    BY DEF Timeline!Capped, Sat
<1>11. [ p \in Orders |-> [ entry |-> setup[p[1]].entry, response |-> setup[p[1]].response ]]' =
       [ p \in Orders |-> [ entry |-> setup[p[1]].entry, response |-> setup[p[1]].response ]]
    BY <1>2
<1>12. Timeline!Decide(o)
    BY <1>1, <1>2, <1>3, <1>5, <1>7, <1>8, <1>9, <1>10, <1>11 DEF Timeline!Decide
<1> QED  BY <1>12 DEF o

LEMMA ResponseAnswers ==
    ASSUME OrderInv, NEW e \in Events, Response(e), Timeline!Reachable(e.ts)
    PROVE  Timeline!Answer(<<e.asset, e.id>>)
<1> DEFINE o == <<e.asset, e.id>>
<1>1. /\ o \in Orders /\ Decided(o) /\ ~orders[o].visible
      /\ e.ts = Sat(orders[o].exch + setup[o[1]].response)
    BY ResponseStage DEF Response
<1>2. /\ setup' = setup /\ now' = e.ts
      /\ orders' = [orders EXCEPT ![o].resp = e.ts, ![o].visible = TRUE]
    BY DEF Response
<1> HIDE DEF o
<1>3. /\ orders'[o].status = orders[o].status /\ orders'[o].exch = orders[o].exch
      /\ orders'[o].visible
      /\ \A p \in Orders : p # o => orders'[p] = orders[p]
    BY <1>1, <1>2 DEF OrderInv, TypeInv, TypeOK, OrderType
<1>4. /\ PhaseOf(o) = "decided" /\ PhaseOf(o)' = "answered"
      /\ DueOf(o) = e.ts /\ DueOf(o)' = e.ts /\ Decided(o)'
    BY <1>1, <1>2, <1>3 DEF PhaseOf, DueOf, Decided
<1>5. \A p \in Orders : p # o =>
        PhaseOf(p)' = PhaseOf(p) /\ DueOf(p)' = DueOf(p) /\ Decided(p)' = Decided(p)
    BY <1>2, <1>3, PlaceKept
<1>6. [p \in Orders |-> PhaseOf(p)]' = [[p \in Orders |-> PhaseOf(p)] EXCEPT ![o] = "answered"]
    BY <1>4, <1>5
<1>7. [p \in Orders |-> DueOf(p)]' = [p \in Orders |-> DueOf(p)]
    BY <1>4, <1>5
<1>8. [p \in Orders |-> IF Decided(p) THEN orders[p].status ELSE "none"]' =
        [p \in Orders |-> IF Decided(p) THEN orders[p].status ELSE "none"]
    BY <1>1, <1>3, <1>4, <1>5
<1>9. [ p \in Orders |-> [ entry |-> setup[p[1]].entry, response |-> setup[p[1]].response ]]' =
      [ p \in Orders |-> [ entry |-> setup[p[1]].entry, response |-> setup[p[1]].response ]]
    BY <1>2
<1>10. Timeline!Answer(o)
    BY <1>1, <1>2, <1>4, <1>6, <1>7, <1>8, <1>9 DEF Timeline!Answer
<1> QED  BY <1>10 DEF o

-----------------------------------------------------------------------------
LEMMA TimelineInit == Init => Timeline!Init
<1> SUFFICES ASSUME Init PROVE Timeline!Init
    OBVIOUS
<1>1. TypeInv /\ \A o \in Orders : orders[o] = Unsent
    BY TypeInit DEF Init
<1>2. now \in 0 .. MaxTs
    BY <1>1 DEF TypeInv, TypeOK
<1>3. \A o \in Orders : setup[o[1]].entry \in Nat /\ setup[o[1]].response \in Nat
    BY <1>1, OrderFacts, SetupFacts DEF TypeInv
<1>4. \A o \in Orders : PhaseOf(o) = "unsent" /\ DueOf(o) = 0 /\ ~Decided(o)
    BY <1>1 DEF Unsent, PhaseOf, DueOf, Decided
<1> QED  BY <1>2, <1>3, <1>4 DEF Timeline!Init

LEMMA TimelineStep ==
    OrderInv /\ ScheduleInv /\ [Next]_vars => [Timeline!Next]_(Timeline!timeline)
<1> SUFFICES ASSUME OrderInv, ScheduleInv, [Next]_vars
             PROVE  Timeline!Next \/ UNCHANGED Timeline!timeline
    OBVIOUS
<1>0. TypeInv /\ NothingOverdue /\ TargetAhead
    BY DEF ScheduleInv
<1>1. ASSUME NEW o \in Orders, NEW side \in Sides, NEW price \in Limits, Submit(o, side, price)
      PROVE  Timeline!Next
    BY <1>1, SubmitSends DEF Timeline!Next
<1>2. ASSUME \/ \/ \E o \in Orders : SubmitDuplicate(o)
                \/ \E d \in Durations : Elapse(d)
                \/ \E o \in Orders, d \in Durations : Wait(o, d)
                \/ NextFeed
             \/ UNCHANGED vars
      PROVE  UNCHANGED Timeline!timeline
    <2>1. UNCHANGED <<setup, orders, now>>
        BY <1>2 DEF SubmitDuplicate, Elapse, Wait, NextFeed, vars, orderVars
    <2> QED  BY <2>1, StillStep
<1>3. ASSUME NEW e \in Events, \A f \in Events : e.ts <= f.ts,
             LocalData(e) \/ ExchData(e) \/ Request(e) \/ Response(e)
      PROVE  Timeline!Next
    <2>1. Timeline!Reachable(e.ts)
        BY <1>0, <1>3, EarliestIsReachable DEF NothingOverdue
    <2>2. CASE LocalData(e)
        BY <2>1, <2>2, PassStep DEF LocalData, orderVars, Timeline!Next
    <2>3. CASE ExchData(e)
        BY <2>1, <2>3, PassStep DEF ExchData, orderVars, Timeline!Next
    <2>4. CASE Request(e)
        BY <2>1, <2>4, RequestDecides, RequestStage DEF Request, Timeline!Next
    <2>5. CASE Response(e)
        BY <2>1, <2>5, ResponseAnswers, ResponseStage DEF Response, Timeline!Next
    <2> QED  BY <1>3, <2>2, <2>3, <2>4, <2>5
<1>4. CASE ReachTarget
    <2>1. /\ now' = call.target /\ now <= call.target /\ UNCHANGED <<setup, orders>>
          /\ \A e \in Events : ~(e.ts <= call.target)
        BY <1>0, <1>4 DEF ReachTarget, Due, orderVars, TargetAhead
    <2>2. call.target \in Int
        BY <1>0, MaxTsAssumption DEF TypeInv, TypeOK, CallType
    <2>3. \A e \in Events : call.target <= e.ts
        BY <1>0, <2>1, <2>2, EventTime
    <2>4. Timeline!Reachable(call.target)
        BY <2>1, <2>3, EarliestIsReachable
    <2> QED  BY <2>1, <2>4, PassStep DEF Timeline!Next
<1> QED  BY <1>0, <1>1, <1>2, <1>3, <1>4, StepCases

\* The engine implements the timeline: an order is decided and answered at the
\* instants its submission fixed, and the clock passes neither.
THEOREM EngineImplementsTimeline == Spec => ImplementsTimeline
<1> QED  BY TimelineInit, TimelineStep, OrderInit, OrderStep, ScheduleInit, ScheduleStep, PTL
         DEF Spec, ImplementsTimeline, Timeline!Spec
=============================================================================
