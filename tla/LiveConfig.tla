----------------------------- MODULE LiveConfig -----------------------------
(***************************************************************************)
(* The configuration a live day starts from                                *)
(* (future_spot/scripts/build_arbitrage_config_from_date.py): which         *)
(* contracts are traded, which position each pair starts with, taken from   *)
(* the rows of the broker's account, and the check the router makes of it   *)
(* against that account before it trades (FubonMarketDataProvider           *)
(* .verify_startup_positions in arbitrage/providers.py).                    *)
(*                                                                         *)
(* Files and the broker's SDK are external: their rows are arguments.  A    *)
(* contract is [prefix, month, digit], the letter and the digit its name    *)
(* ends in.  A stock's symbol is its four digits, read as a number, which    *)
(* orders them as the strings are ordered.  The price of a row is a whole    *)
(* number; Zero stands for None.                                            *)
(***************************************************************************)
EXTENDS Integers, Sequences, FiniteSets, Fractions
LOCAL INSTANCE SequencesExt
LOCAL INSTANCE FiniteSetsExt

Unknown == 99       \* a month letter, or a year digit, that is not one
NoSymbol == 0
NoConfig == <<>>    \* the script stops and writes no configuration

-----------------------------------------------------------------------------
(* Contracts and targets *)

(* The first year the contract can still be delivered in.                   *)
ContractYear(c, trade) ==
    LET open == {y \in (trade.year - 1)..(trade.year + 10) :
                    /\ y % 10 = c.digit
                    /\ y > trade.year \/ (y = trade.year /\ c.month >= trade.month)}
    IN  IF open = {} THEN trade.year + 100 ELSE Min(open)

ContractMonthSortKey(c, trade) ==
    IF Unknown \in {c.month, c.digit} THEN <<c.digit, c.month>>
    ELSE <<ContractYear(c, trade), c.month>>

Earlier(k, l) == k[1] < l[1] \/ (k[1] = l[1] /\ k[2] < l[2])

(* Of each underlying's contracts the one first delivered.                  *)
FilterFrontMonthTargets(targets, trade) ==
    {t \in targets : \A u \in targets :
        u.contract.prefix = t.contract.prefix =>
            ~Earlier(ContractMonthSortKey(u.contract, trade), ContractMonthSortKey(t.contract, trade))}

(* The volume of a session: the largest running total of its valid trades;  *)
(* a contract without one has no row.                                       *)
BuildFutureOhlcv(ticks) ==
    LET trades == {t \in ticks : t.match /\ t.volume > 0 /\ t.price > 0 /\ t.inSession}
    IN  {[contract |-> c, volume |-> Max({t.total : t \in {u \in trades : u.contract = c}})] :
            c \in {t.contract : t \in trades}}

(* Funds, whose symbols start with a zero, and two stocks are never traded. *)
MayBeTarget(symbol) == symbol \in 1001..9999 \ {2303, 2330}

(* info: underlying and unit of a prefix; daily: rows [symbol, volume,      *)
(* daytrade] of both markets.  A contract without either falls out.         *)
BuildTargets(ohlcv, info, daily, limits) ==
    {[contract |-> r.contract, spot |-> info[r.contract.prefix].spot] :
        r \in {x \in ohlcv :
            /\ x.volume > limits.future
            /\ x.contract.prefix \in DOMAIN info
            /\ info[x.contract.prefix].unit = limits.unit
            /\ MayBeTarget(info[x.contract.prefix].spot)
            /\ \E s \in daily : /\ s.symbol = info[x.contract.prefix].spot
                                /\ s.volume > limits.stock /\ s.daytrade}}

NoPosition == [quantity |-> 0, spotPrice |-> Zero, futurePrice |-> Zero, basis |-> Zero]

(* One pair for each contract, each a copy of the defaults d.  Defaults     *)
(* read off a first pair bring that pair's position with them.  No pair is  *)
(* an error.                                                                *)
BuildPairs(targets, d) ==
    IF targets = {} THEN NoConfig ELSE
    [c \in {t.contract : t \in targets} |->
        [spot |-> (CHOOSE t \in targets : t.contract = c).spot, position |-> d.position]]

-----------------------------------------------------------------------------
(* The account *)

WeightedCost(old, oldQty, new, newQty) ==
    IF new = Zero \/ newQty <= 0 THEN old
    ELSE IF old = Zero \/ oldQty <= 0 THEN new
    ELSE Frac(old.n * oldQty * new.d + new.n * newQty * old.d, old.d * new.d * (oldQty + newQty))

AddPosition(held, row) ==
    [qty |-> held.qty + row.qty, cost |-> WeightedCost(held.cost, held.qty, Whole(row.price), row.qty)]

Held(rows) == FoldLeft(AddPosition, [qty |-> 0, cost |-> Zero], rows)

LoadStockInventory(rows, symbol) ==
    Held(SelectSeq(rows, LAMBDA r : r.symbol = symbol /\ r.side \in {"none", "buy"} /\ r.qty > 0))

LoadFutureLots(rows, contract, side) ==
    Held(SelectSeq(rows, LAMBDA r : r.symbol = contract /\ r.side = side))

-----------------------------------------------------------------------------
(* Positions from the account *)

Basis(spot, future) ==
    IF Zero \in {spot, future} THEN Zero
    ELSE Frac((future.n * spot.d - spot.n * future.d) * spot.d, future.d * spot.d * spot.n)

(* The underlying of a held contract: its pair's, or its prefix's;          *)
(* NoSymbol when neither is known.                                          *)
SpotOf(c, pairs, info) ==
    IF c \in DOMAIN pairs THEN pairs[c].spot
    ELSE IF c.prefix \in DOMAIN info THEN info[c.prefix].spot ELSE NoSymbol

(* The script reads the account by the same rules, in code of its own.      *)
ScriptShares(account, symbol) == LoadStockInventory(account.stock, symbol)
ScriptLots(account, contract) == LoadFutureLots(account.future, contract, "sell")

BuildInitialPositionsFromLive(pairs, d, info, account) ==
    LET sold == {r.symbol : r \in {x \in ToSet(account.future) : x.side = "sell"}}
        lots(c) == ScriptLots(account, c)
        stock(c) == ScriptShares(account, SpotOf(c, pairs, info))
        quantity(c) == Min({stock(c).qty \div d.spotQty, lots(c).qty \div d.futureQty})
    IN  [c \in {s \in sold : lots(s).qty > 0 /\ SpotOf(s, pairs, info) # NoSymbol /\ quantity(s) > 0} |->
            [spot |-> SpotOf(c, pairs, info),
             position |-> [quantity |-> quantity(c), spotPrice |-> stock(c).cost, futurePrice |-> lots(c).cost,
                           basis |-> Basis(stock(c).cost, lots(c).cost)]]]

OverTargetsOnly(pairs, live) ==           \* mutant: held contracts that are no targets are left out
    [c \in DOMAIN pairs |-> IF c \in DOMAIN live THEN live[c] ELSE pairs[c]]

(* apply_live_initial_positions: a contract held but not a target is added. *)
ApplyLiveInitialPositions(pairs, live) ==
    [c \in DOMAIN pairs \cup DOMAIN live |-> IF c \in DOMAIN live THEN live[c] ELSE pairs[c]]

(* The configuration of a date; today's has the account's positions.  When   *)
(* no contract passes the filters there is none, whatever is held.          *)
BuildArbitrageConfig(targets, trade, d, info, account, today) ==
    LET chosen == IF d.frontMonthOnly THEN FilterFrontMonthTargets(targets, trade) ELSE targets
        pairs == BuildPairs(chosen, d)
    IN  IF targets = {} \/ pairs = NoConfig THEN NoConfig
        ELSE IF today
        THEN ApplyLiveInitialPositions(pairs, BuildInitialPositionsFromLive(pairs, d, info, account))
        ELSE pairs

-----------------------------------------------------------------------------
(* Startup *)

(* parse_initial_position_config, build_initial_position: without pairs     *)
(* there is no position, whatever else is given.                            *)
LoadedPosition(position) ==
    IF position.quantity = 0 THEN NoPosition
    ELSE IF position.basis # Zero THEN position
    ELSE [position EXCEPT !.basis = Basis(position.spotPrice, position.futurePrice)]

(* _apply_startup_position_costs: what the configuration leaves open is     *)
(* taken from the account.                                                  *)
WithStartupCosts(position, stock, lots) ==
    IF position.quantity = 0 THEN position
    ELSE LET s == IF position.spotPrice = Zero THEN stock.cost ELSE position.spotPrice
             f == IF position.futurePrice = Zero THEN lots.cost ELSE position.futurePrice
         IN  [position EXCEPT !.spotPrice = s, !.futurePrice = f,
                              !.basis = IF @ = Zero THEN Basis(s, f) ELSE @]

Total(f) == MapThenSumSet(LAMBDA x : f[x], DOMAIN f)

(* verify_startup_positions: every configured symbol's long shares, every   *)
(* configured contract's short lots.                                        *)
Verified(pairs, d, account) ==
    /\ \A s \in {pairs[c].spot : c \in DOMAIN pairs} :
          LoadStockInventory(account.stock, s).qty
              = d.spotQty * Total([c \in {x \in DOMAIN pairs : pairs[x].spot = s} |-> pairs[c].position.quantity])
    /\ \A c \in DOMAIN pairs :
          LoadFutureLots(account.future, c, "sell").qty = d.futureQty * pairs[c].position.quantity

(* What the router starts with: ok, and the position of every pair.         *)
Startup(config, d, account) ==
    LET pairs == [c \in DOMAIN config |-> [config[c] EXCEPT !.position = LoadedPosition(@)]]
    IN  [ok |-> Verified(pairs, d, account),
         position |-> [c \in DOMAIN pairs |->
             WithStartupCosts(pairs[c].position, LoadStockInventory(account.stock, pairs[c].spot),
                              LoadFutureLots(account.future, c, "sell"))]]
=============================================================================
