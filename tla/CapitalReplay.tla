---------------------------- MODULE CapitalReplay ----------------------------
(***************************************************************************)
(* The replay of completed pair orders under one shared capital limit       *)
(* (future_spot/arbitrage/capital.py), as functions of the saved fills.     *)
(* Amounts of money are integers, in units of 1/Scale.                      *)
(***************************************************************************)
EXTENDS Integers, Sequences, FiniteSets

CONSTANTS
    Keys, None,             \* pairs are numbered, in the order of their run keys
    Excluded,               \* set of <<date, key>>
    TotalCapital, SpotRate, FutureRate, Scale, Leverage,
    Notional                \* key -> [spot, future, fee] of one pair order

(* CapitalAllocationConfig.                                                 *)
EffectiveSpot == IF Leverage THEN SpotRate ELSE Scale
EffectiveFuture == IF Leverage THEN FutureRate ELSE Scale
Within(used, rate) ==
    used * (EffectiveSpot + EffectiveFuture) <= TotalCapital * Scale * rate

(* _entry_lot: what one accepted entry ties up.                             *)
Lot(k) == [spot |-> Notional[k].spot * EffectiveSpot + Notional[k].fee * Scale,
           future |-> Notional[k].future * EffectiveFuture]

-----------------------------------------------------------------------------
(* The order of the replay: trade date, completion time with missing times  *)
(* last, run key; otherwise the order in the file.                          *)

Earlier(x, y) == x # y /\ (y = None \/ (x # None /\ x < y))

Precedes(fills, i, j) ==
    LET f == fills[i]  g == fills[j] IN
    \/ f.date < g.date
    \/ f.date = g.date /\ Earlier(f.at, g.at)
    \/ f.date = g.date /\ f.at = g.at /\ (f.key < g.key \/ (f.key = g.key /\ i < j))

-----------------------------------------------------------------------------
(* The state of the replay: lots held by pair, first in first out, and the  *)
(* capital they use.                                                        *)

Empty == [lots |-> [k \in Keys |-> <<>>], spot |-> 0, future |-> 0, peak |-> 0,
          accepted |-> 0, rejected |-> 0, exits |-> 0, unmatched |-> 0, discarded |-> 0]

AtLeastZero(n) == IF n < 0 THEN 0 ELSE n
Peaked(b) == [b EXCEPT !.peak = IF b.spot + b.future > @ THEN b.spot + b.future ELSE @]

PopSpotOnly(b, k) ==                       \* mutant: the futures margin stays in use
    [b EXCEPT !.lots[k] = Tail(@), !.spot = AtLeastZero(@ - Head(b.lots[k]).spot)]

Pop(b, k) ==
    [b EXCEPT !.lots[k] = Tail(@),
              !.spot = AtLeastZero(@ - Head(b.lots[k]).spot),
              !.future = AtLeastZero(@ - Head(b.lots[k]).future)]

Enter(b, k) ==
    LET spot == b.spot + Lot(k).spot
        future == b.future + Lot(k).future
    IN  IF Within(spot, EffectiveSpot) /\ Within(future, EffectiveFuture)
              /\ spot + future <= TotalCapital * Scale
        THEN [b EXCEPT !.lots[k] = Append(@, Lot(k)), !.spot = spot, !.future = future,
                       !.accepted = @ + 1]
        ELSE [b EXCEPT !.rejected = @ + 1]

Exit(b, k) ==
    IF b.lots[k] = <<>> THEN [b EXCEPT !.unmatched = @ + 1]
    ELSE [Pop(b, k) EXCEPT !.exits = @ + 1]

(* One row; an entry that is short the spot is no candidate and is ignored. *)
Row(b, f) ==
    Peaked(CASE f.signal = "LONG" -> Enter(b, f.key)
             [] f.signal = "EXIT" -> Exit(b, f.key)
             [] OTHER -> b)

(* The rows of todo, in the order of the replay.                            *)
Foremost(fills, todo) == CHOOSE x \in todo : \A y \in todo \ {x} : Precedes(fills, x, y)

Rows(b, fills, todo) ==
    LET f[n \in 0..Cardinality(todo)] ==
            IF n = 0 THEN [book |-> b, todo |-> todo]
            ELSE LET s == f[n - 1]
                     i == Foremost(fills, s.todo)
                 IN  [book |-> Row(s.book, fills[i]), todo |-> s.todo \ {i}]
    IN  f[Cardinality(todo)].book

(* Lots of an excluded run are given up, those of one key and of all in gone. *)
GiveUp(b, k) ==
    LET f[n \in 0..Len(b.lots[k])] ==
            IF n = 0 THEN b ELSE [Pop(f[n - 1], k) EXCEPT !.discarded = @ + 1]
    IN  f[Len(b.lots[k])]

Discard(b, gone) ==
    LET f[k \in 0..Cardinality(Keys)] ==
            IF k = 0 THEN b ELSE IF k \in gone THEN GiveUp(f[k - 1], k) ELSE f[k - 1]
    IN  f[Cardinality(Keys)]

(* carried is CapitalAllocationConfig.carry_positions.                      *)
Opening(b, carried) ==
    IF carried
    THEN [Empty EXCEPT !.lots = b.lots, !.spot = b.spot, !.future = b.future, !.peak = b.spot + b.future]
    ELSE Empty

Day(b, fills, d, carried) ==
    Rows(Discard(Opening(b, carried), {k \in Keys : <<d, k>> \in Excluded}), fills,
         {i \in 1..Len(fills) : fills[i].date = d})

(* Dates with a fill, and dates of exclusions among them.                   *)
Traded(fills) == {fills[i].date : i \in 1..Len(fills)}

ReplayDates(fills) ==
    Traded(fills) \cup
    {d \in {e[1] : e \in Excluded} : \E x, y \in Traded(fills) : x <= d /\ d <= y}

(* build_capital_constraint_outputs: one row per date, in order.            *)
FirstOf(dates) == CHOOSE d \in dates : \A e \in dates : d <= e
NextRow(rows, fills, d, carried) ==
    LET before == IF rows = <<>> THEN Empty ELSE rows[Len(rows)].book
    IN  [date |-> d, book |-> Day(before, fills, d, carried)]

Replay(fills, carried) ==
    LET dates == ReplayDates(fills)
        f[n \in 0..Cardinality(dates)] ==
            IF n = 0 THEN [rows |-> <<>>, left |-> dates]
            ELSE LET s == f[n - 1]
                     d == FirstOf(s.left)
                 IN  [rows |-> Append(s.rows, NextRow(s.rows, fills, d, carried)), left |-> s.left \ {d}]
    IN  f[Cardinality(dates)].rows
=============================================================================
