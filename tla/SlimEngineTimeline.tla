-------------------------- MODULE SlimEngineTimeline --------------------------
(***************************************************************************)
(* The engine implements OrderTimeline: what the strategy can tell of time  *)
(* and of its orders through any mix of calls is what the timeline allows.  *)
(* The module also states what a match is worth: replaying from scratch the *)
(* rows an order has to meet decides it the same way.                       *)
(***************************************************************************)
EXTENDS SlimEngine, FiniteSets

PhaseOf(o) ==
    IF orders[o].status = "none" THEN "unsent"
    ELSE IF orders[o].status = "NEW" THEN "sent"
    ELSE IF orders[o].visible THEN "answered" ELSE "decided"

DueOf(o) ==
    IF orders[o].status = "none" THEN 0
    ELSE IF orders[o].status = "NEW" THEN Arrival(o)
    ELSE Sat(orders[o].exch + setup[o[1]].response)

Timeline == INSTANCE OrderTimeline WITH
    clock   <- now,
    latency <- [o \in Orders |-> [ entry |-> setup[o[1]].entry, response |-> setup[o[1]].response ]],
    phase   <- [o \in Orders |-> PhaseOf(o)],
    due     <- [o \in Orders |-> DueOf(o)],
    verdict <- [o \in Orders |-> IF Decided(o) THEN orders[o].status ELSE "none"]

\* Every behaviour of the engine is one the timeline allows: no order is ever
\* decided or answered off its instant, or skipped by a clock that moved on.
ImplementsTimeline == Timeline!Spec

\* The exchange ladder an order has to meet, rebuilt from its rows alone in
\* exchange order.
RowBefore(a, r, s) ==
    Row(a, r).exch < Row(a, s).exch \/ (Row(a, r).exch = Row(a, s).exch /\ r < s)

\* Those of S that k - 1 others of S come before, and the k-th row of S.
Standing(a, S, k) == { r \in S : Cardinality({ s \in S : RowBefore(a, s, r) }) = k - 1 }

InOrder(a, S) == [ k \in 1 .. Cardinality(S) |-> Row(a, CHOOSE r \in Standing(a, S, k) : TRUE) ]

\* The ladder after the first n of some rows.
Play(rows, n) ==
    LET ladder[k \in 0 .. n] == IF k = 0 THEN EmptyLadder ELSE ApplyRow(ladder[k - 1], rows[k])
    IN  ladder[n]

Replayed(a, S) == Play(InOrder(a, S), Cardinality(S))

Rebuilt(o) == Replayed(o[1], RowsDue(o))

\* A decision depends on nothing but the rows due at the order's arrival: not
\* on how the strategy advanced the clock, on the other asset, or on the order
\* in which events of one timestamp were interleaved.
DecisionMatchesReplay ==
    \A o \in Orders : Decided(o) =>
        [ status |-> orders[o].status, exec |-> orders[o].exec ] =
            MatchImmediate(orders[o].side, orders[o].price, View(Rebuilt(o)))
=============================================================================
