------------------------------- MODULE MCLive -------------------------------
(***************************************************************************)
(* The instance of the live order router TLC checks; its constants are     *)
(* given in MCLive.cfg.  The safety properties speak of pair orders that    *)
(* were started clean (LivePairOrders!clean).  The configuration of a       *)
(* later start is built from the account as each state leaves it.           *)
(***************************************************************************)
EXTENDS LivePairOrders, LiveConfig, TLC

MCTrade == [year |-> 2029, month |-> 12]
MCSpot == [CA |-> 2317, CB |-> 2454, CC |-> 2330, CD |-> 50]
MCInfo == [p \in DOMAIN MCSpot |-> [spot |-> MCSpot[p], unit |-> 2000]]
MCHeld == [prefix |-> "CA", month |-> 12, digit |-> 9]
MCOther == [prefix |-> "CA", month |-> 1, digit |-> 0]
MCNext == [prefix |-> "CB", month |-> 1, digit |-> 0]
MCBarred == {[prefix |-> p, month |-> 12, digit |-> 9] : p \in {"CC", "CD"}}
MCDefaults == [spotQty |-> Lot, futureQty |-> Lot, position |-> NoPosition, frontMonthOnly |-> FALSE]
MCLimits == [future |-> 100, stock |-> 1000, unit |-> 2000]
MCDaily == {[symbol |-> MCSpot[p], volume |-> 2000, daytrade |-> TRUE] : p \in DOMAIN MCSpot}

(* The targets when just the contracts of S had volume the day before; those *)
(* of the stocks that are never traded had it too.                          *)
MCTargets(S) ==
    LET tick(c, total) == [contract |-> c, match |-> TRUE, volume |-> 1, price |-> 10, total |-> total, inSession |-> TRUE]
        others == {MCHeld, MCOther, MCNext} \ S
    IN  BuildTargets(BuildFutureOhlcv({tick(c, 150) : c \in S \cup MCBarred} \cup {tick(c, 100) : c \in others}),
                     MCInfo, MCDaily, MCLimits)

(* The rows in which an account may show n of a symbol; fewer than none     *)
(* are held on the other side.                                              *)
MCRows(symbol, side, other, n) ==
    LET row(s, q, price) == [symbol |-> symbol, side |-> s, qty |-> q, price |-> price]
    IN  IF n = 0 THEN {<<>>}
        ELSE IF n < 0 THEN {<<row(other, -n, 10)>>}
        ELSE {<<row(side, n, 10)>>} \cup
             IF n = 1 THEN {} ELSE {<<row(side, 1, 0), row(side, n - 1, 20)>>, <<row(side, 1, 20), row(side, n - 1, 11)>>}
MCShown(rows) == Total([i \in DOMAIN rows |-> rows[i].qty])

(* The accounts that show u shares and lots sold.                           *)
MCAccounts(u) ==
    [stock : MCRows(MCSpot["CA"], "buy", "sell", u["stock"]), future : MCRows(MCHeld, "sell", "buy", u["future"])]

(* Two contracts of one stock, and one of another, in any mixture.          *)
MCMixtures ==
    {[stock |-> s \o t, future |-> f \o g \o h] :
        s \in {<<>>, <<[symbol |-> MCSpot["CA"], side |-> "buy", qty |-> 2, price |-> 10]>>,
               <<[symbol |-> MCSpot["CA"], side |-> "sell", qty |-> 2, price |-> 10], [symbol |-> MCSpot["CA"], side |-> "none", qty |-> 4, price |-> 12]>>},
        t \in {<<>>, <<[symbol |-> MCSpot["CB"], side |-> "buy", qty |-> 2, price |-> 5]>>},
        f \in {<<>>, <<[symbol |-> MCHeld, side |-> "sell", qty |-> 2, price |-> 11]>>},
        g \in {<<>>, <<[symbol |-> MCOther, side |-> "sell", qty |-> 2, price |-> 12]>>,
               <<[symbol |-> MCOther, side |-> "buy", qty |-> 2, price |-> 12]>>},
        h \in {<<>>, <<[symbol |-> MCNext, side |-> "sell", qty |-> 2, price |-> 6]>>}}

(* Shares of stock s, and lots sold against it. *)
Shares(a, s) == LoadStockInventory(a.stock, s).qty
Sold(a, c) == LoadFutureLots(a.future, c, "sell").qty
SoldAgainst(a, s, cs) == Total([c \in {x \in cs : MCInfo[x.prefix].spot = s} |-> Sold(a, c)])

(* Without targets there is no configuration to start from.                 *)
StartsWhenHedged(a, targeted) ==
    LET config == BuildArbitrageConfig(MCTargets(targeted), MCTrade, MCDefaults, MCInfo, a, TRUE)
        start == Startup(config, MCDefaults, a)
        all == {MCHeld, MCOther, MCNext}
        hedged(s, cs) == Shares(a, s) = SoldAgainst(a, s, cs) /\ Shares(a, s) % Lot = 0
    IN  IF targeted = {} THEN config = NoConfig
        ELSE /\ targeted \subseteq DOMAIN config
             /\ DOMAIN config \subseteq targeted \cup {c \in all : Sold(a, c) > 0}
             /\ (\A s \in {MCSpot["CA"], MCSpot["CB"]} : hedged(s, all)) => start.ok
             /\ start.ok =>
                   /\ \A c \in DOMAIN config : /\ hedged(config[c].spot, DOMAIN config)
                                               /\ start.position[c].quantity * Lot = Sold(a, c)
                   /\ \A c \in all \ DOMAIN config : Shares(a, MCInfo[c.prefix].spot) < Lot \/ Sold(a, c) < Lot

BasisOfAverages(a) ==
    LET start == Startup(BuildArbitrageConfig(MCTargets({MCNext}), MCTrade, MCDefaults, MCInfo, a, TRUE), MCDefaults, a)
        paid(rows) == Total([i \in DOMAIN rows |-> rows[i].qty * rows[i].price])
        priced(rows) == \A i \in DOMAIN rows : rows[i].price > 0
    IN  (priced(a.stock) /\ priced(a.future) /\ MCHeld \in DOMAIN start.position) =>
            start.position[MCHeld].basis
                = Frac(paid(a.future) * MCShown(a.stock) - paid(a.stock) * MCShown(a.future),
                       paid(a.stock) * MCShown(a.future))

(* Positions a start goes well from, tabulated (f @@ <<>> is f evaluated).  *)
MCStarts ==
    [u \in [Legs -> -6..6] |-> \A a \in MCAccounts(u) :
        StartsWhenHedged(a, {MCNext}) /\ StartsWhenHedged(a, {MCHeld}) /\ BasisOfAverages(a)] @@ <<>>

(* The contract kept of an underlying is the one whose delivery month is    *)
(* really the nearest, on any date, also across the end of a year and of a  *)
(* decade, though a name has one digit of the year.                         *)
MCMonthsAhead == {0, 1, 6, 11, 12, 13, 60, 108, 119}
MCContract(trade, k) ==
    LET n == trade.year * 12 + trade.month - 1 + k
    IN  [prefix |-> "CA", month |-> (n % 12) + 1, digit |-> (n \div 12) % 10]
FrontMonthIsNearest ==
    \A year \in 2028..2031, month \in {1, 6, 12}, S \in SUBSET MCMonthsAhead :
        S # {} =>
            LET trade == [year |-> year, month |-> month]
                target(k) == [contract |-> MCContract(trade, k), spot |-> MCSpot["CA"]]
            IN  FilterFrontMonthTargets({target(k) : k \in S}, trade)
                    = {target(CHOOSE k \in S : \A l \in S : k <= l)}

(* Started again on a configuration built from its account, the router      *)
(* refuses to trade a targeted contract whose legs are not the same whole   *)
(* number of pairs, and otherwise goes on with exactly the pairs held, a    *)
(* target or not, and with the basis of their average prices; at whatever   *)
(* moment of a pair order the account was left.  (Shares or lots on the      *)
(* other side, oversold by a late flatten order, are not looked at.)  The    *)
(* contracts it takes for targets are the nearest ones, and those it must   *)
(* never trade are no pairs of it.  On a day on which no contract passes    *)
(* the filters no configuration is built, even when pairs are held: there   *)
(* is no start at all.                                                      *)
FreshConfigStarts ==
    /\ units \in DOMAIN MCStarts /\ MCStarts[units]
    /\ started = 0 => /\ FrontMonthIsNearest
                      /\ \A a \in MCMixtures, S \in SUBSET {MCHeld, MCOther, MCNext} : StartsWhenHedged(a, S)

=============================================================================
