------------------------------ MODULE Portfolio ------------------------------
(***************************************************************************)
(* Carried positions and the replay of their fills under a capital limit:   *)
(* what the strategy holds at the end of each date against what the replay  *)
(* says is open then.                                                       *)
(***************************************************************************)
EXTENDS PositionCarry, Sums

CONSTANTS TotalCapital, SpotRate, FutureRate, Scale, Leverage, Notional

INSTANCE CapitalReplay

(* Pairs are numbered in the order of their run keys; capital, rates and    *)
(* amounts as CapitalAllocationConfig and the fills have them.              *)
ASSUME CapitalAssumption ==
    /\ Cardinality(Keys) \in Nat /\ Keys = 1..Cardinality(Keys)
    /\ IsFiniteSet(Excluded) /\ Excluded \subseteq Days \X Keys
    /\ TotalCapital \in Nat /\ SpotRate \in Nat /\ FutureRate \in Nat /\ Scale \in Nat
    /\ Leverage \in BOOLEAN
    /\ Notional \in [Keys -> [spot : Nat, future : Nat, fee : Nat]]

VARIABLES
    fills,      \* completed pair orders of all dates, in the order saved
    closing     \* history: what each date ran and left open, by key

pvars == <<carryVars, fills, closing>>

(* The completed orders of a run, at the times they completed; the time of  *)
(* one may be missing.                                                      *)
Trades(k, ran, start, d) ==
    [i \in 1..Len(ran) |-> [date |-> d, at |-> IF start = None THEN None ELSE start + i,
                            key |-> k, signal |-> ran[i], nth |-> i]]

AllTrades(ran, start, d) ==
    LET f[k \in 0..Cardinality(Keys)] ==
            IF k = 0 THEN <<>>
            ELSE f[k - 1] \o (IF ran[k] = None THEN <<>> ELSE Trades(k, ran[k], start[k], d))
    IN  f[Cardinality(Keys)]

PInit == CarryInit /\ fills = <<>> /\ closing = <<>>

PNext ==
    /\ CarryNext
    /\ \E start \in [Keys -> {None, 0}] :
          fills' = fills \o AllTrades(done', start, TradeDates[day + 1])
    /\ closing' = Append(closing,
          [date |-> TradeDates[day + 1],
           began |-> [k \in Keys |-> IF done'[k] = None THEN Flat ELSE records'[k]],
           ended |-> [k \in Keys |-> IF done'[k] = None THEN Flat ELSE After(records'[k], done'[k])],
           held |-> [k \in Keys |-> Held(account'[k])],
           ran |-> {k \in Keys : done'[k] # None},
           lost |-> {k \in Keys : status'[k] = "expiry_position_remaining"}])

PSpec == PInit /\ [][PNext]_pvars

-----------------------------------------------------------------------------
(* Properties *)

SumOf(s, field) == SumTo([i \in 1..Len(s) |-> s[i][field]], Len(s))
OpenIn(book, field) == SumTo([k \in Keys |-> SumOf(book.lots[k], field)], Cardinality(Keys))

(* In every row of the replay, after whatever entries, rejected entries,    *)
(* exits, discards and changes of date came before: the capital in use is   *)
(* that of the open lots, and no limit - of a leg or of both - was ever     *)
(* exceeded; with lots carried over dates and with dates on their own.      *)
CapitalAccounts ==
    \A carried \in BOOLEAN :
        LET rows == Replay(fills, carried) IN
        \A i \in 1..Len(rows) :
            LET book == rows[i].book IN
            /\ book.spot = OpenIn(book, "spot") /\ book.future = OpenIn(book, "future")
            /\ book.spot + book.future <= book.peak /\ book.peak <= TotalCapital * Scale
            /\ Within(book.spot, EffectiveSpot) /\ Within(book.future, EffectiveFuture)

=============================================================================
