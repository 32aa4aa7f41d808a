---------------------------- MODULE PositionCarry ----------------------------
(***************************************************************************)
(* Positions carried from one trade date to the next by the multi-day       *)
(* backtest (future_spot/arbitrage/position_carry.py, and the workflow of   *)
(* full_market_runner.py run_backtests_with_position_carry).                *)
(*                                                                         *)
(* One step is one trade date: the day's universe is joined by the pairs    *)
(* held overnight, the excluded runs are dropped, every run ends with a     *)
(* result row or fails, and the snapshots of the next date are made.        *)
(* A run is represented by the pairs of orders it filled.                   *)
(***************************************************************************)
EXTENDS Integers, Sequences, FiniteSets

CONSTANTS
    Keys,           \* pairs of a spot and a futures symbol
    Delivery,       \* key -> month its futures contract is delivered in
    Calendar,       \* trading days; a day is a number, a month MonthDays of them
    TradeDates,     \* days the run covers, in order
    MonthDays, Wednesday,       \* the third Wednesday is this day of a month
    Excluded,       \* set of <<date, key>>: excluded run keys
    Outcomes,       \* completed pair orders a run may fill, as sequences
    MaxPairs,       \* limit of the strategy on open pairs
    None

Days == 0..(120 * MonthDays * 2)

(* What a run starts and ends with, and what is kept of it overnight.       *)
OpenPositions == [qty : Int, side : {"HOLD", "LONG", "SHORT"}]
Snapshots == [qty : Int, side : {"HOLD", "LONG", "SHORT"}, from : Days]

ASSUME CarryAssumption ==
    /\ Delivery \in [Keys -> Nat] /\ Calendar \subseteq Days
    /\ MonthDays \in Nat \ {0} /\ Wednesday \in 0..(MonthDays - 1)
    /\ TradeDates \in Seq(Calendar)
    /\ \A i, j \in 1..Len(TradeDates) : i < j => TradeDates[i] < TradeDates[j]
    /\ Outcomes \subseteq Seq({"LONG", "SHORT", "EXIT"})
    /\ None \notin OpenPositions /\ None \notin Snapshots /\ None \notin Outcomes

VARIABLES
    day,        \* dates done
    carry,      \* snapshots: key -> position and the date it is from, or None
    records,    \* the runs of the last date: key -> initial position, or None
    status,     \* position_carry_status of the last date, by key
    done,       \* what each run of the last date filled; None: it failed
    account     \* history: what the last result row of each key left open

carryVars == <<day, carry, records, status, done, account>>

Flat == [qty |-> 0, side |-> "HOLD"]

CarryInit ==
    /\ day = 0 /\ done = [k \in Keys |-> None]
    /\ carry = [k \in Keys |-> None] /\ account = [k \in Keys |-> None]
    /\ records = [k \in Keys |-> None] /\ status = [k \in Keys |-> "none"]

-----------------------------------------------------------------------------
(* The final trade date of a contract, from the month letter and the one    *)
(* digit of the year in its name.                                           *)

Month(d) == d \div MonthDays
Year(d) == Month(d) \div 12
Letter(k) == Delivery[k] % 12
Digit(k) == (Delivery[k] \div 12) % 10
Distance(m, n) == IF m < n THEN n - m ELSE m - n

DecodedInDecade(k, d) ==                   \* mutant: the decade of the trade date
    ((Year(d) \div 10) * 10 + Digit(k)) * 12 + Letter(k)

Decoded(k, d) ==
    LET candidates == {12 * y + Letter(k) :
                         y \in {z \in (Year(d) - 1)..(Year(d) + 10) : z % 10 = Digit(k)}}
    IN  CHOOSE m \in candidates : \A n \in candidates :
            \/ Distance(m, Month(d)) < Distance(n, Month(d))
            \/ Distance(m, Month(d)) = Distance(n, Month(d)) /\ m <= n

ExpiryDate(k, d) ==
    LET nominal == Decoded(k, d) * MonthDays + Wednesday
        available == {c \in Calendar : Month(c) = Decoded(k, d) /\ c <= nominal}
    IN  IF available = {} THEN nominal
        ELSE CHOOSE c \in available : \A e \in available : e <= c

-----------------------------------------------------------------------------
(* One trade date. *)

(* The position a run ends with: entries add to it, exits reduce it.        *)
AfterOne(p, signal) ==
    IF signal # "EXIT" THEN [qty |-> p.qty + 1, side |-> signal]
    ELSE IF p.qty = 1 THEN Flat ELSE [p EXCEPT !.qty = @ - 1]

After(p, s) ==
    LET f[i \in 0..Len(s)] == IF i = 0 THEN p ELSE AfterOne(f[i - 1], s[i])
    IN  f[Len(s)]

(* What the strategy lets a run with this initial position fill.            *)
CanFill(p, s) ==
    \A i \in 1..Len(s) :
        LET q == After(p, SubSeq(s, 1, i - 1)) IN
        IF s[i] = "EXIT" THEN q.qty > 0 ELSE q.side \in {"HOLD", s[i]} /\ q.qty < MaxPairs

Held(snapshot) == IF snapshot = None THEN Flat ELSE [qty |-> snapshot.qty, side |-> snapshot.side]

(* augment_records_with_position_carry, then filter_excluded_run_records.   *)
Augmented(universe, d) ==
    [k \in Keys |-> IF <<d, k>> \notin Excluded /\ (k \in universe \/ carry[k] # None)
                    THEN Held(carry[k]) ELSE None]

(* snapshot_from_summary_row; a run that failed has no row.                 *)
SnapshotOnlyOfRow(k, row, d) ==            \* mutant: no row, no position
    IF row[k] = None \/ row[k].qty = 0 THEN None
    ELSE [qty |-> row[k].qty, side |-> row[k].side, from |-> d]

Snapshot(k, row, d) ==
    IF row[k] = None THEN carry[k]
    ELSE IF row[k].qty = 0 THEN None
    ELSE [qty |-> row[k].qty, side |-> row[k].side, from |-> d]

Expired(k, row, d) == Snapshot(k, row, d) # None /\ d >= ExpiryDate(k, d)

Status(k, rec, row, d) ==
    IF rec[k] = None THEN "none"
    ELSE IF Expired(k, row, d) THEN "expiry_position_remaining"
    ELSE IF row[k] = None THEN IF carry[k] # None THEN "carried_without_result" ELSE "no_result"
    ELSE IF Snapshot(k, row, d) = None THEN "closed" ELSE "carried_forward"

(* advance_position_carry.                                                  *)
Advance(rec, row, d) ==
    /\ carry' = [k \in Keys |-> IF rec[k] # None /\ ~Expired(k, row, d)
                                THEN Snapshot(k, row, d) ELSE None]
    /\ status' = [k \in Keys |-> Status(k, rec, row, d)]

Outcome(rec, k) ==
    IF rec[k] = None THEN {None}
    ELSE {None} \cup {s \in Outcomes : CanFill(rec[k], s)}

RunDate(universe) ==
    LET d == TradeDates[day + 1]
        rec == Augmented(universe, d)
        row == [k \in Keys |-> IF done'[k] = None THEN None ELSE After(rec[k], done'[k])]
    IN  /\ done' \in {f \in [Keys -> Outcomes \cup {None}] : \A k \in Keys : f[k] \in Outcome(rec, k)}
        /\ records' = rec
        /\ Advance(rec, row, d)
        /\ account' = [k \in Keys |->
              IF <<d, k>> \in Excluded \/ status'[k] = "expiry_position_remaining" THEN None
              ELSE IF row[k] = None THEN account[k]
              ELSE IF row[k].qty = 0 THEN None ELSE row[k]]
        /\ day' = day + 1

CarryNext == day < Len(TradeDates) /\ \E universe \in SUBSET Keys : RunDate(universe)

CarrySpec == CarryInit /\ [][CarryNext]_carryVars

-----------------------------------------------------------------------------
(* Properties *)

Today == TradeDates[day]

(* A pair left open by its last result row is restored, with that very      *)
(* quantity and direction, in every date's runs until it is closed, removed *)
(* by an exclusion or reported at its expiry - selected that day or not,    *)
(* and whatever number of runs in between failed; a pair that is flat       *)
(* starts flat.                                                             *)
HeldUntilClosed ==
    [][\A k \in Keys : <<TradeDates[day + 1], k>> \notin Excluded =>
        /\ account[k] # None => records'[k] = account[k]
        /\ account[k] = None => records'[k] \in {None, Flat}]_carryVars

(* No position outlives the contract, and none is given up earlier: it is   *)
(* reported as remaining at expiry exactly on the first date of the run     *)
(* after which the contract cannot trade again in its delivery month, in    *)
(* whatever decade the one digit of the year is read.                       *)
CanTradeAfter(k, d) ==
    \E c \in Calendar : c > d /\ c <= Delivery[k] * MonthDays + Wednesday

ExpiryIsReported ==
    day > 0 => \A k \in Keys :
        /\ carry[k] # None => CanTradeAfter(k, Today)
        /\ status[k] = "expiry_position_remaining" => ~CanTradeAfter(k, Today)
=============================================================================
