------------------------ MODULE PairExecution_proofs ------------------------
(***************************************************************************)
(* Proofs about the execution of one pair, for every configuration, any     *)
(* number of events and any data.                                           *)
(*                                                                         *)
(* The exchange's count, the table's sums and the position never meet in    *)
(* one place of the code.  The invariant ties them at every call of the     *)
(* engine: the exchange executed what the table shows, and during a pair     *)
(* order its first leg too (Booked); the table shows the position and the   *)
(* first legs left (Covered); both legs of the position hold its quantity   *)
(* in its direction (Hedged).  Each row is added to the sums by RowIsAdded, *)
(* whatever became of the order.  From there the audit and the hedge follow *)
(* between pair orders, and so does the refinement: while a pair order is   *)
(* on its way the session shows its event (Unseen), and where it ends the   *)
(* change of the table's sums and of the position is one of the three that  *)
(* PairSession allows (SessionEnds).                                        *)
(*                                                                         *)
(* The reports need more of the table (ReportInv): what a status tells of   *)
(* the first leg (Told), that rows end in time and no three at one time     *)
(* (FewAtATime), since each time is left to the rows of either leg and the  *)
(* event under way (Slack), and that filled rows count the open pairs.      *)
(***************************************************************************)
EXTENDS PairExecution, Sums_proofs, FiniteSetTheorems
\* Types.

Fills == [leg : Legs \cup {"none"}, sign : {-1, 0, 1}, filled : BOOLEAN]
Signals == {"NONE", "HOLD", "LONG", "SHORT", "EXIT"}
Statuses == {"RISK_SKIP", "FIRST_LEG_UNFILLED", "SECOND_LEG_DELAY_END_OF_DATA", "FILLED"} \cup FailureStatuses
Rows == [signal : Signals, status : Statuses, at : Nat, done : Nat, fills : Seq(Fills)]
Events == [ts : Nat \cup {Session!Never}, signal : Signals, go : BOOLEAN]
Positions ==
    [direction : {-1, 0, 1}, quantity : Nat, units : [Legs -> Int], entered : Nat \cup {Session!Never}]
Sent == [status : {"SENT"}, sign : {-1, 1}]
Hedging == [status : {"SENT"}, sign : {-1, 1}, first : Fills]
Waiting == [status : {"SENT"}, sign : {-1, 1}, first : Fills, before : [Legs -> SUBSET Nat], deadline : Int]
Flattening == [status : FailureStatuses, sign : {-1, 1}, fills : Seq(Fills)]

Idle == {"advance", "resolve", "over"}
TradeAt(at) ==
    CASE at \in Idle -> {NoTrade}
      [] at = "first" -> Sent
      [] at = "delay" -> Hedging
      [] at \in {"wait", "check", "second"} -> Waiting
      [] at = "flatten" -> Flattening
      [] at = "failed" -> Sent \cup Waiting \cup Flattening
Places == Idle \cup {"first", "delay", "wait", "check", "second", "flatten", "failed"}

TypeOK ==
    /\ config \in Configs
    /\ clock \in Nat /\ rows \in [Legs -> SUBSET Nat] /\ late \in SUBSET Nat
    /\ step \in Nat /\ pc \in Places
    /\ event \in Events /\ trade \in TradeAt(pc)
    /\ position \in Positions /\ net \in [Legs -> Int]
    /\ log \in Seq(Rows) /\ filled \in BOOLEAN

LEMMA ConfigFacts ==
    ASSUME NEW c \in Configs
    PROVE  /\ c.first \in Legs /\ c.rows \in [Legs -> SUBSET Nat]
           /\ c.enter \in [Legs -> Nat] /\ c.respond \in [Legs -> Nat]
           /\ c.timeout \in Int /\ c.delay \in Int /\ c.maxTrades \in Int
           /\ c.feedTimeout \in Nat /\ c.poll \in Nat
           /\ c.check \in BOOLEAN /\ c.flatten \in BOOLEAN
BY ConfigsAssumption

LEMMA LeastOfTwo ==
    ASSUME NEW a \in Int, NEW b \in Int
    PROVE  Min({a, b}) \in {a, b} /\ Min({a, b}) <= a /\ Min({a, b}) <= b
<1>1. \E x \in {a, b} : \A y \in {a, b} : x <= y
    OBVIOUS
<1>2. Min({a, b}) \in {a, b} /\ \A y \in {a, b} : Min({a, b}) <= y
    BY <1>1, Zenon DEF Min
<1> QED  BY <1>2

LEMMA GreatestOfTwo ==
    ASSUME NEW a \in Int, NEW b \in Int
    PROVE  Max({a, b}) \in {a, b} /\ Max({a, b}) >= a /\ Max({a, b}) >= b
<1>1. \E x \in {a, b} : \A y \in {a, b} : x >= y
    OBVIOUS
<1>2. Max({a, b}) \in {a, b} /\ \A y \in {a, b} : Max({a, b}) >= y
    BY <1>1, Zenon DEF Max
<1> QED  BY <1>2

LEMMA LeastRow ==
    ASSUME NEW S, S \subseteq Nat, S # {}
    PROVE  Min(S) \in S /\ \A y \in S : Min(S) <= y
<1>1. \E x \in S : \A y \in S : x <= y
    BY LeastNatural
<1> QED  BY <1>1, Zenon DEF Min

-----------------------------------------------------------------------------
\* The engine's clock never goes back, and what is still to come is not before
\* it.

Ahead == \A l \in Legs : \A t \in rows[l] : clock <= t

EngineOK == clock \in Nat /\ rows \in [Legs -> SUBSET Nat] /\ late \in SUBSET Nat /\ Ahead

LEMMA EngineGoes ==
    ASSUME NEW t \in Nat, EngineOK, clock <= t, GoesTo(t), late' \in SUBSET Nat
    PROVE  EngineOK' /\ clock <= clock'
<1>1. clock' = t /\ rows' = [l \in Legs |-> Later(rows[l], t)]
    BY DEF GoesTo
<1>2. \A l \in Legs : rows'[l] = {x \in rows[l] : x > t} /\ rows[l] \subseteq Nat
    BY <1>1 DEF Later, EngineOK
<1>3. rows' \in [Legs -> SUBSET Nat]
    BY <1>1, <1>2 DEF Later
<1>4. Ahead'
    BY <1>1, <1>2 DEF Ahead
<1> QED  BY <1>1, <1>3, <1>4 DEF EngineOK

LEMMA EngineElapses ==
    ASSUME NEW d \in Nat, EngineOK, Elapse(d)
    PROVE  EngineOK' /\ clock <= clock'
<1>1. late' \in SUBSET Nat
    BY DEF Elapse, Later, EngineOK
<1>2. clock + d \in Nat /\ clock <= clock + d /\ GoesTo(clock + d)
    BY DEF Elapse, EngineOK
<1> QED  BY <1>1, <1>2, EngineGoes

LEMMA EngineStays ==
    ASSUME EngineOK, UNCHANGED engine
    PROVE  EngineOK' /\ clock <= clock'
BY DEF EngineOK, Ahead, engine

LEMMA EngineOrders ==
    ASSUME EngineOK, config \in Configs, NEW leg \in Legs, NEW sign, NEW fill, Order(leg, sign, fill)
    PROVE  EngineOK' /\ clock <= clock'
<1> DEFINE back == clock + config.enter[leg] + config.respond[leg]
           until == Min({back, clock + config.timeout})
<1>1. config.enter[leg] \in Nat /\ config.respond[leg] \in Nat /\ config.timeout \in Int /\ clock \in Nat
    BY ConfigFacts DEF EngineOK
<1>2. config.enter[leg] <= config.timeout
    BY DEF Order, Reaches
<1>3. back \in Nat /\ clock <= back /\ clock + config.timeout \in Int /\ clock <= clock + config.timeout
    BY <1>1, <1>2
<1>4. until \in {back, clock + config.timeout}
    <2>1. \A a, b \in Int : Min({a, b}) \in {a, b}
        BY LeastOfTwo
    <2>2. back \in Int
        BY <1>3
    <2> HIDE DEF back
    <2> QED  BY <1>3, <2>1, <2>2
<1>5. until \in Nat /\ clock <= until
    BY <1>1, <1>3, <1>4
<1>6. GoesTo(until) /\ late' = Later(late \cup {back}, until)
    BY DEF Order, GoesTo, Later
<1>7. late' \in SUBSET Nat
    BY <1>3, <1>6 DEF Later, EngineOK
<1> QED  BY <1>5, <1>6, <1>7, EngineGoes

LEMMA EngineAdvances ==
    ASSUME EngineOK, NEW l \in Legs, NEW t, t = Min(rows["stock"] \cup rows["future"]), t \in rows[l],
           clock' = t, rows' = [rows EXCEPT ![l] = @ \ {t}], late' = Later(late, t)
    PROVE  EngineOK' /\ clock <= clock'
<1>1. t \in Nat /\ clock <= t
    BY DEF EngineOK, Ahead
<1>2. rows["stock"] \subseteq Nat /\ rows["future"] \subseteq Nat /\ t \in rows["stock"] \cup rows["future"]
    BY DEF EngineOK, Legs
<1>3. \A y \in rows["stock"] \cup rows["future"] : t <= y
    BY <1>2, LeastRow
<1>4. \A k \in Legs : rows'[k] \subseteq rows[k]
    BY DEF EngineOK
<1>5. rows' \in [Legs -> SUBSET Nat]
    BY DEF EngineOK
<1>6. Ahead'
    BY <1>3, <1>4 DEF Ahead, Legs
<1> QED  BY <1>1, <1>5, <1>6 DEF EngineOK, Later

-----------------------------------------------------------------------------
\* The inductive invariant.

Trading == {"first", "delay", "wait", "check", "second", "flatten"}
HasFirst == {"delay", "wait", "check", "second", "flatten"}

\* Both legs hold the quantity in its direction.
Hedged ==
    /\ position.quantity = 0 <=> position.direction = 0
    /\ \A l \in Legs : position.units[l] = position.direction * position.quantity

\* The event being decided, or traded.
Decided ==
    /\ pc \in {"advance", "over"} => event = Session!NoEvent
    /\ pc = "resolve" =>
         /\ event.ts = clock /\ event.signal \in Session!Signals(position.direction)
         /\ event.go => event.signal # "HOLD"
    /\ pc \in Trading =>
         /\ event.go /\ event.ts \in Nat /\ event.ts <= clock
         /\ event.signal \in Session!Signals(position.direction) \ {"HOLD"}
         /\ trade.sign = Session!Sign(event.signal, position.direction)

\* The columns of a failed pair order before its flatten: the first leg's fill
\* f, and the second leg, not filled, which a failed profit check does not have.
BeforeFlatten(status, f) ==
    IF status = "SECOND_LEG_PROFIT_CHECK_FAILED" THEN {<<f>>}
    ELSE {<<f, g>> : g \in {h \in Fills : ~h.filled}}

\* Past the first leg, the first leg is filled and the second one is not.
FirstFilled ==
    /\ pc \in {"delay", "wait", "check", "second"} => trade.first = Fill(config.first, trade.sign, TRUE)
    /\ pc = "flatten" => trade.fills \in BeforeFlatten(trade.status, Fill(config.first, trade.sign, TRUE))

\* What the exchange executed is in the table, or is the open first leg.
Booked ==
    pc # "failed" => \A l \in Legs : net[l] = Audited(log, l) + (IF pc \in HasFirst /\ l = config.first THEN trade.sign ELSE 0)

\* What the table shows executed is the position and the first legs left.
Covered ==
    \A l \in Legs : Audited(log, l) = position.units[l] + (IF l = config.first THEN Naked(log) ELSE 0)

Inv == TypeOK /\ Ahead /\ Hedged /\ Decided /\ FirstFilled /\ Booked /\ Covered

-----------------------------------------------------------------------------
\* What a row adds to the sums.

LEMMA ExecutedIsInt ==
    ASSUME NEW fills \in Seq(Fills), NEW l
    PROVE  Executed(fills, l) \in Int
<1> DEFINE f == [k \in DOMAIN fills |-> Units(fills[k], l)]
<1>1. Len(fills) \in Nat /\ DOMAIN fills = 1..Len(fills)
    OBVIOUS
<1>2. \A k \in 1..Len(fills) : f[k] \in Int
    <2> SUFFICES ASSUME NEW k \in 1..Len(fills) PROVE f[k] \in Int
        OBVIOUS
    <2>1. fills[k] \in Fills
        OBVIOUS
    <2>2. fills[k].sign \in Int
        BY <2>1 DEF Fills
    <2>3. Units(fills[k], l) \in Int
        BY <2>2 DEF Units
    <2> QED  BY <1>1, <2>3
<1> HIDE DEF f
<1>3. SumTo(f, Len(fills)) \in Int
    BY <1>1, <1>2, SumIsInt
<1> QED  BY <1>3 DEF Executed, f

LEMMA ExecutedNothing ==
    ASSUME NEW l
    PROVE  Executed(<<>>, l) = 0
<1>1. Len(<<>>) = 0
    OBVIOUS
<1> QED  BY <1>1, SumNothing DEF Executed

LEMMA ExecutedOneMore ==
    ASSUME NEW fills \in Seq(Fills), NEW f \in Fills, NEW l
    PROVE  Executed(Append(fills, f), l) = Executed(fills, l) + Units(f, l)
<1> DEFINE n == Len(fills)
           more == Append(fills, f)
           old == [k \in DOMAIN fills |-> Units(fills[k], l)]
           new == [k \in DOMAIN more |-> Units(more[k], l)]
<1>1. /\ n \in Nat /\ Len(more) = n + 1 /\ n + 1 \in DOMAIN more
      /\ DOMAIN more = 1..(n + 1) /\ DOMAIN fills = 1..n
    OBVIOUS
<1>2. more[n + 1] = f /\ \A k \in 1..n : more[k] = fills[k]
    OBVIOUS
<1>3. new[n + 1] = Units(f, l)
    BY <1>1, <1>2, Zenon DEF new
<1>4. \A k \in 1..n : new[k] = old[k]
    <2> SUFFICES ASSUME NEW k \in 1..n PROVE new[k] = old[k]
        OBVIOUS
    <2>1. k \in DOMAIN more /\ k \in DOMAIN fills
        BY <1>1
    <2> QED  BY <1>2, <2>1, Zenon DEF new, old
<1> HIDE DEF new, old
<1>5. SumTo(new, n + 1) = SumTo(new, n) + new[n + 1]
    BY <1>1, SumOneMore
<1>6. SumTo(new, n) = SumTo(old, n)
    BY <1>1, <1>4, SumsEqual
<1>7. Executed(more, l) = SumTo(new, n + 1) /\ Executed(fills, l) = SumTo(old, n)
    BY <1>1, Zenon DEF Executed, new, old
<1> QED  BY <1>3, <1>5, <1>6, <1>7

LEMMA ExecutedOne ==
    ASSUME NEW f \in Fills, NEW l
    PROVE  Executed(<<f>>, l) = Units(f, l)
<1>1. <<f>> = Append(<<>>, f) /\ <<>> \in Seq(Fills)
    OBVIOUS
<1>2. Executed(<<f>>, l) = 0 + Units(f, l)
    BY <1>1, ExecutedNothing, ExecutedOneMore
<1>3. Units(f, l) \in Int
    BY DEF Units, Fills
<1> QED  BY <1>2, <1>3

LEMMA ExecutedTwo ==
    ASSUME NEW f \in Fills, NEW g \in Fills, NEW l
    PROVE  Executed(<<f, g>>, l) = Units(f, l) + Units(g, l)
<1>1. <<f, g>> = Append(<<f>>, g) /\ <<f>> \in Seq(Fills)
    OBVIOUS
<1> QED  BY <1>1, ExecutedOne, ExecutedOneMore

LEMMA Appended ==
    ASSUME NEW f \in Fills, NEW g \in Fills, NEW h \in Fills
    PROVE  Append(<<f>>, h) = <<f, h>> /\ Append(<<f, g>>, h) = <<f, g, h>>
<1>1. <<f, h>> = Append(<<f>>, h) /\ <<f>> \in Seq(Fills)
    OBVIOUS
<1>2. <<f, g, h>> = Append(<<f, g>>, h) /\ <<f, g>> \in Seq(Fills)
    OBVIOUS
<1> QED  BY <1>1, <1>2

LEMMA BeforeFlattenFacts ==
    ASSUME NEW status, NEW f \in Fills, NEW fills \in BeforeFlatten(status, f)
    PROVE  /\ fills \in Seq(Fills)
           /\ \A l : Executed(fills, l) = Units(f, l)
<1>1. CASE fills = <<f>>
    BY <1>1, ExecutedOne
<1>2. ASSUME NEW g \in Fills, ~g.filled, fills = <<f, g>>
      PROVE  /\ fills \in Seq(Fills)
             /\ \A l : Executed(fills, l) = Units(f, l)
    <2>1. \A l : Executed(fills, l) = Units(f, l) + Units(g, l)
        BY <1>2, ExecutedTwo
    <2>2. \A l : Units(f, l) \in Int /\ Units(g, l) = 0
        BY <1>2 DEF Units, Fills
    <2> QED  BY <1>2, <2>1, <2>2
<1>3. fills = <<f>> \/ \E g \in Fills : ~g.filled /\ fills = <<f, g>>
    BY DEF BeforeFlatten
<1> QED  BY <1>1, <1>2, <1>3

LEMMA AuditGrows ==
    ASSUME NEW table \in Seq(Rows), NEW r \in Rows, NEW l
    PROVE  Audited(Append(table, r), l) = Audited(table, l) + Executed(r.fills, l)
<1> DEFINE n == Len(table)
           more == Append(table, r)
           old == [k \in DOMAIN table |-> Executed(table[k].fills, l)]
           new == [k \in DOMAIN more |-> Executed(more[k].fills, l)]
<1>1. /\ n \in Nat /\ Len(more) = n + 1 /\ n + 1 \in DOMAIN more
      /\ DOMAIN more = 1..(n + 1) /\ DOMAIN table = 1..n
    OBVIOUS
<1>2. more[n + 1] = r /\ \A k \in 1..n : more[k] = table[k]
    OBVIOUS
<1>3. new[n + 1] = Executed(r.fills, l)
    BY <1>1, <1>2, Zenon DEF new
<1>4. \A k \in 1..n : new[k] = old[k]
    <2> SUFFICES ASSUME NEW k \in 1..n PROVE new[k] = old[k]
        OBVIOUS
    <2>1. k \in DOMAIN more /\ k \in DOMAIN table
        BY <1>1
    <2> QED  BY <1>2, <2>1, Zenon DEF new, old
<1> HIDE DEF new, old
<1>5. SumTo(new, n + 1) = SumTo(new, n) + new[n + 1]
    BY <1>1, SumOneMore
<1>6. SumTo(new, n) = SumTo(old, n)
    BY <1>1, <1>4, SumsEqual
<1>7. Audited(more, l) = SumTo(new, n + 1) /\ Audited(table, l) = SumTo(old, n)
    BY <1>1, Zenon DEF Audited, new, old
<1> QED  BY <1>3, <1>5, <1>6, <1>7

LEMMA NakedGrows ==
    ASSUME NEW table \in Seq(Rows), NEW r \in Rows
    PROVE  Naked(Append(table, r)) = Naked(table) + Unhedged(r)
<1> DEFINE n == Len(table)
           more == Append(table, r)
           old == [k \in DOMAIN table |-> Unhedged(table[k])]
           new == [k \in DOMAIN more |-> Unhedged(more[k])]
<1>1. /\ n \in Nat /\ Len(more) = n + 1 /\ n + 1 \in DOMAIN more
      /\ DOMAIN more = 1..(n + 1) /\ DOMAIN table = 1..n
    OBVIOUS
<1>2. more[n + 1] = r /\ \A k \in 1..n : more[k] = table[k]
    OBVIOUS
<1>3. new[n + 1] = Unhedged(r)
    BY <1>1, <1>2, Zenon DEF new
<1>4. \A k \in 1..n : new[k] = old[k]
    <2> SUFFICES ASSUME NEW k \in 1..n PROVE new[k] = old[k]
        OBVIOUS
    <2>1. k \in DOMAIN more /\ k \in DOMAIN table
        BY <1>1
    <2> QED  BY <1>2, <2>1, Zenon DEF new, old
<1> HIDE DEF new, old
<1>5. SumTo(new, n + 1) = SumTo(new, n) + new[n + 1]
    BY <1>1, SumOneMore
<1>6. SumTo(new, n) = SumTo(old, n)
    BY <1>1, <1>4, SumsEqual
<1>7. Naked(more) = SumTo(new, n + 1) /\ Naked(table) = SumTo(old, n)
    BY <1>1, Zenon DEF Naked, new, old
<1> QED  BY <1>3, <1>5, <1>6, <1>7

LEMMA AuditIsInt ==
    ASSUME NEW table \in Seq(Rows), NEW l
    PROVE  Audited(table, l) \in Int /\ Naked(table) \in Int
<1> DEFINE n == Len(table)
           a == [k \in DOMAIN table |-> Executed(table[k].fills, l)]
           b == [k \in DOMAIN table |-> Unhedged(table[k])]
<1>1. n \in Nat /\ DOMAIN table = 1..n
    OBVIOUS
<1>2. \A k \in 1..n : a[k] \in Int /\ b[k] \in Int
    <2> SUFFICES ASSUME NEW k \in 1..n PROVE a[k] \in Int /\ b[k] \in Int
        OBVIOUS
    <2>1. table[k] \in Rows
        OBVIOUS
    <2>2. table[k].fills \in Seq(Fills)
        BY <2>1 DEF Rows
    <2>3. Executed(table[k].fills, l) \in Int /\ Executed(table[k].fills, "stock") \in Int
          /\ Executed(table[k].fills, "future") \in Int
        BY <2>2, ExecutedIsInt
    <2>4. Unhedged(table[k]) \in Int
        BY <2>3 DEF Unhedged
    <2> QED  BY <1>1, <2>3, <2>4
<1> HIDE DEF a, b
<1>3. SumTo(a, n) \in Int /\ SumTo(b, n) \in Int
    BY <1>1, <1>2, SumIsInt
<1> QED  BY <1>3 DEF Audited, Naked, a, b

-----------------------------------------------------------------------------
\* How an event ends.

LEMMA SignalFacts ==
    ASSUME NEW d \in {-1, 0, 1}, NEW g \in Session!Signals(d), g # "HOLD"
    PROVE  /\ Session!Sign(g, d) \in {-1, 1} /\ g \in {"LONG", "SHORT", "EXIT"}
           /\ g = "EXIT" => d # 0 /\ Session!Sign(g, d) = -d
           /\ g # "EXIT" => g \in Sides /\ d \in {0, Session!Sign(g, d)}
BY ConfigsAssumption DEF Session!Signals, Session!Sign

LEMMA TradeFacts ==
    /\ TradeAt("advance") = {NoTrade} /\ TradeAt("resolve") = {NoTrade} /\ TradeAt("over") = {NoTrade}
    /\ TradeAt("first") = Sent /\ TradeAt("delay") = Hedging
    /\ TradeAt("wait") = Waiting /\ TradeAt("check") = Waiting /\ TradeAt("second") = Waiting
    /\ TradeAt("flatten") = Flattening /\ TradeAt("failed") = Sent \cup Waiting \cup Flattening
BY DEF TradeAt, Idle

\* The row that ends an event, and what it adds to the sums.
LEMMA RowIsAdded ==
    ASSUME TypeOK, clock' \in Nat, event.ts \in Nat, NEW status \in Statuses, NEW fills \in Seq(Fills),
           Ends(status, fills)
    PROVE  /\ log' \in Seq(Rows) /\ filled' \in BOOLEAN /\ event' = Session!NoEvent
           /\ trade' = NoTrade /\ pc' = "advance"
           /\ \A l \in Legs : Audited(log', l) = Audited(log, l) + Executed(fills, l)
           /\ Naked(log') = Naked(log) + (IF status = "FILLED" THEN 0
                                          ELSE Executed(fills, "stock") + Executed(fills, "future"))
<1> DEFINE r == Row(status, fills)
<1>1. r \in Rows
    <2>1. event \in Events
        BY DEF TypeOK
    <2>2. event.signal \in Signals
        BY <2>1 DEF Events
    <2>3. r = [signal |-> event.signal, status |-> status, at |-> event.ts, done |-> clock', fills |-> fills]
        BY DEF Row
    <2> HIDE DEF r
    <2> QED  BY <2>2, <2>3 DEF Rows
<1>2. r.status = status /\ r.fills = fills
    BY DEF Row
<1>3. log' = Append(log, r) /\ log \in Seq(Rows)
    BY DEF Ends, TypeOK
<1>4. /\ filled' \in BOOLEAN /\ event' = Session!NoEvent
      /\ trade' = NoTrade /\ pc' = "advance"
    BY DEF Ends
<1> HIDE DEF r
<1>5. PICK x \in Rows : x = r
    BY <1>1
<1>6. PICK table \in Seq(Rows) : table = log
    BY <1>3
<1>7. Append(table, x) \in Seq(Rows)
    OBVIOUS
<1>8. \A l \in Legs : Audited(Append(table, x), l) = Audited(table, l) + Executed(x.fills, l)
    BY AuditGrows
<1>9. Naked(Append(table, x)) = Naked(table) + Unhedged(x)
    BY NakedGrows
<1>10. Unhedged(x) = IF status = "FILLED" THEN 0 ELSE Executed(fills, "stock") + Executed(fills, "future")
    BY <1>2, <1>5 DEF Unhedged
<1>11. log' = Append(table, x) /\ x.fills = fills
    BY <1>2, <1>3, <1>5, <1>6
<1> QED  BY <1>4, <1>6, <1>7, <1>8, <1>9, <1>10, <1>11, Zenon

\* An event that opens or closes no pair leaves k units of the first leg.
LEMMA EndKeeps ==
    ASSUME Inv, EngineOK', config' = config, step' = step, position' = position, net' \in [Legs -> Int],
           event.ts \in Nat, NEW status \in Statuses \ {"FILLED"}, NEW fills \in Seq(Fills), NEW k \in Int,
           Ends(status, fills),
           \A l \in Legs : /\ Executed(fills, l) = IF l = config.first THEN k ELSE 0
                           /\ net'[l] = Audited(log, l) + (IF l = config.first THEN k ELSE 0)
    PROVE  Inv'
<1>1. TypeOK /\ Hedged /\ Covered /\ clock' \in Nat
    BY DEF Inv, EngineOK
<1>2. /\ log' \in Seq(Rows) /\ filled' \in BOOLEAN /\ event' = Session!NoEvent
      /\ trade' = NoTrade /\ pc' = "advance"
      /\ \A l \in Legs : Audited(log', l) = Audited(log, l) + Executed(fills, l)
      /\ Naked(log') = Naked(log) + (Executed(fills, "stock") + Executed(fills, "future"))
    <2>1. status # "FILLED"
        OBVIOUS
    <2> QED  BY <1>1, <2>1, RowIsAdded
<1>3. config.first \in Legs /\ Legs = {"stock", "future"}
    BY <1>1, ConfigFacts DEF TypeOK, Legs
<1>4. TypeOK'
    <2>1. event' \in Events
        BY <1>2 DEF Session!NoEvent, Session!Never, Events, Signals
    <2>2. trade' \in TradeAt(pc')
        BY <1>2, TradeFacts
    <2> QED  BY <1>1, <1>2, <2>1, <2>2 DEF TypeOK, EngineOK, Places, Idle
<1>5. Ahead'
    BY DEF EngineOK
<1>6. Hedged'
    BY <1>1 DEF Hedged
<1>7. Decided' /\ FirstFilled'
    BY <1>2 DEF Decided, FirstFilled, Trading
<1>8. \A l \in Legs : Audited(log, l) \in Int /\ Naked(log) \in Int /\ position.units[l] \in Int
    BY <1>1, AuditIsInt DEF TypeOK, Positions
<1>9. Booked'
    BY <1>2, <1>8 DEF Booked, HasFirst
<1>10. Executed(fills, "stock") + Executed(fills, "future") = k
    BY <1>3
<1>11. Covered'
    <2> SUFFICES ASSUME NEW l \in Legs
                 PROVE  Audited(log', l) = position.units[l] + (IF l = config.first THEN Naked(log') ELSE 0)
        BY DEF Covered
    <2>1. Audited(log, l) = position.units[l] + (IF l = config.first THEN Naked(log) ELSE 0)
        BY <1>1 DEF Covered
    <2>2. Audited(log', l) = Audited(log, l) + (IF l = config.first THEN k ELSE 0)
        BY <1>2
    <2>3. Naked(log') = Naked(log) + k
        BY <1>2, <1>10
    <2> QED  BY <1>8, <2>1, <2>2, <2>3
<1> QED  BY <1>4, <1>5, <1>6, <1>7, <1>9, <1>11 DEF Inv

\* Steps within an event that add no row and move no position.
LEMMA StepKeeps ==
    ASSUME Inv, EngineOK', config' = config, step' \in Nat, position' = position, log' = log, filled' \in BOOLEAN,
           net' \in [Legs -> Int], pc' \in Places, event' \in Events, trade' \in TradeAt(pc'),
           Decided', FirstFilled', Booked'
    PROVE  Inv'
<1>1. TypeOK'
    BY DEF Inv, TypeOK, EngineOK
<1> QED  BY <1>1 DEF Inv, EngineOK, Hedged, Covered

-----------------------------------------------------------------------------
\* The invariant holds from one call of the engine to the next.

LEMMA InvInit == Init => Inv
<1> SUFFICES ASSUME Init PROVE Inv
    OBVIOUS
<1>1. config \in Configs /\ config.rows \in [Legs -> SUBSET Nat]
    BY ConfigFacts DEF Init
<1>2. /\ clock = 0 /\ rows = config.rows /\ late = {} /\ step = 0 /\ pc = "advance"
      /\ event = Session!NoEvent /\ trade = NoTrade /\ filled = FALSE
      /\ net = [l \in Legs |-> 0] /\ log = <<>>
      /\ position = [direction |-> 0, quantity |-> 0, units |-> [l \in Legs |-> 0], entered |-> Session!Never]
    BY DEF Init
<1>3. TypeOK
    <2>1. trade \in TradeAt(pc)
        BY <1>2, TradeFacts
    <2>2. event \in Events /\ position \in Positions
        BY <1>2 DEF Events, Signals, Positions, Session!NoEvent, Session!Never
    <2>3. clock \in Nat /\ rows \in [Legs -> SUBSET Nat] /\ late \in SUBSET Nat /\ step \in Nat
        BY <1>1, <1>2
    <2>4. net \in [Legs -> Int] /\ log \in Seq(Rows)
        BY <1>2
    <2>6. filled \in BOOLEAN
        BY <1>2, Zenon
    <2>5. pc \in Places /\ config \in Configs
        BY <1>1, <1>2 DEF Places, Idle
    <2> QED  BY <2>1, <2>2, <2>3, <2>4, <2>5, <2>6 DEF TypeOK
<1>4. Ahead
    BY <1>1, <1>2 DEF Ahead
<1>5. Hedged
    BY <1>2 DEF Hedged
<1>6. Decided /\ FirstFilled
    BY <1>2 DEF Decided, FirstFilled, Trading
<1>7. \A l \in Legs : Audited(log, l) = 0 /\ Naked(log) = 0
    <2>1. Len(log) = 0
        BY <1>2
    <2> QED  BY <2>1, SumNothing DEF Audited, Naked
<1>8. Booked /\ Covered
    BY <1>2, <1>7 DEF Booked, Covered, HasFirst
<1> QED  BY <1>3, <1>4, <1>5, <1>6, <1>8 DEF Inv

LEMMA InvAdvance == Inv /\ Advance => Inv'
<1> SUFFICES ASSUME Inv, Advance PROVE Inv'
    OBVIOUS
<1>1. TypeOK /\ EngineOK /\ Booked
    BY DEF Inv, TypeOK, EngineOK
<1>2. /\ config' = config /\ trade' = trade /\ position' = position /\ net' = net /\ log' = log
      /\ filled' = filled /\ pc = "advance" /\ trade = NoTrade
    BY <1>1, TradeFacts DEF Advance, TypeOK
<1>3. CASE pc' = "over" /\ UNCHANGED <<engine, step, event>>
    <2>1. EngineOK'
        BY <1>1, <1>3, EngineStays
    <2>2. Decided' /\ FirstFilled'
        BY <1>2, <1>3 DEF Inv, Decided, FirstFilled, Trading
    <2>3. Booked'
        BY <1>1, <1>2, <1>3 DEF Booked, HasFirst
    <2>4. trade' \in TradeAt(pc') /\ pc' \in Places /\ step' \in Nat /\ event' \in Events
        BY <1>1, <1>2, <1>3, TradeFacts DEF TypeOK, Places, Idle
    <2> QED  BY <1>1, <1>2, <2>1, <2>2, <2>3, <2>4, StepKeeps DEF TypeOK
<1>4. CASE pc' # "over" \/ ~UNCHANGED <<engine, step, event>>
    <2>1. PICK l \in Legs, t \in Nat :
            /\ t \in rows[l] /\ t = Min(rows["stock"] \cup rows["future"])
            /\ clock' = t /\ rows' = [rows EXCEPT ![l] = @ \ {t}] /\ late' = Later(late, t)
            /\ \E g \in Session!Signals(position.direction), ok \in BOOLEAN :
                 /\ ok => Session!MayGo(g, position.quantity, position.entered, t)
                 /\ event' = [ts |-> t, signal |-> g, go |-> ok]
            /\ step' = step + 1 /\ pc' = "resolve"
        BY <1>1, <1>4 DEF Advance, TypeOK
    <2>2. EngineOK'
        BY <1>1, <2>1, EngineAdvances
    <2>3. PICK g \in Session!Signals(position.direction), ok \in BOOLEAN :
            /\ ok => Session!MayGo(g, position.quantity, position.entered, t)
            /\ event' = [ts |-> t, signal |-> g, go |-> ok]
        BY <2>1
    <2>4. g \in {"HOLD", "LONG", "SHORT", "EXIT"} /\ (ok => g # "HOLD")
        BY <2>3, ConfigsAssumption DEF Session!Signals, Session!MayGo
    <2>6. event' \in Events
        BY <2>3, <2>4 DEF Events, Signals
    <2>7. Decided' /\ FirstFilled'
        BY <1>2, <2>1, <2>3, <2>4 DEF Decided, FirstFilled, Trading
    <2>8. Booked'
        BY <1>1, <1>2, <2>1 DEF Booked, HasFirst
    <2>9. trade' \in TradeAt(pc') /\ pc' \in Places /\ step' \in Nat
        BY <1>1, <1>2, <2>1, TradeFacts DEF TypeOK, Places, Idle
    <2> QED  BY <1>1, <1>2, <2>2, <2>6, <2>7, <2>8, <2>9, StepKeeps DEF TypeOK
<1> QED  BY <1>3, <1>4

LEMMA InvResolve ==
    ASSUME Inv, NEW blocked \in BOOLEAN, Resolve(blocked)
    PROVE  Inv'
<1>1. TypeOK /\ EngineOK /\ Booked /\ Decided
    BY DEF Inv, TypeOK, EngineOK
<1>2. /\ config' = config /\ UNCHANGED engine /\ step' = step /\ position' = position /\ net' = net
      /\ pc = "resolve" /\ trade = NoTrade
    BY <1>1, TradeFacts DEF Resolve, TypeOK
<1>3. EngineOK'
    BY <1>1, <1>2, EngineStays
<1>4. event.ts = clock /\ event.signal \in Session!Signals(position.direction) /\ event.ts \in Nat
    BY <1>1, <1>2 DEF Decided, TypeOK
<1>5. \A l \in Legs : net[l] = Audited(log, l) + 0
    BY <1>1, <1>2 DEF Booked, HasFirst
<1>6. CASE event.signal = "HOLD"
    <2>1. event' = Session!NoEvent /\ pc' = "advance" /\ filled' = FALSE /\ UNCHANGED <<trade, log>>
        BY <1>6 DEF Resolve
    <2>2. Decided' /\ FirstFilled'
        BY <2>1 DEF Decided, FirstFilled, Trading
    <2>3. Booked'
        BY <1>2, <1>5, <2>1 DEF Booked, HasFirst
    <2>4. trade' \in TradeAt(pc') /\ pc' \in Places /\ event' \in Events
        BY <1>2, <2>1, TradeFacts DEF Places, Idle, Events, Signals, Session!NoEvent, Session!Never
    <2> QED  BY <1>1, <1>2, <1>3, <2>1, <2>2, <2>3, <2>4, StepKeeps DEF TypeOK
<1>7. CASE event.signal # "HOLD" /\ (~event.go \/ blocked)
    <2>1. Ends("RISK_SKIP", <<>>)
        BY <1>7 DEF Resolve
    <2>2. \A l \in Legs : Executed(<<>>, l) = 0
        BY ExecutedNothing
    <2>3. "RISK_SKIP" \in Statuses \ {"FILLED"} /\ <<>> \in Seq(Fills) /\ 0 \in Int
        BY DEF Statuses
    <2>5. net' \in [Legs -> Int]
        BY <1>1, <1>2 DEF TypeOK
    <2>4. \A l \in Legs : /\ Executed(<<>>, l) = IF l = config.first THEN 0 ELSE 0
                          /\ net'[l] = Audited(log, l) + (IF l = config.first THEN 0 ELSE 0)
        BY <1>2, <1>5, <2>2
    <2> QED  BY <1>2, <1>3, <1>4, <2>1, <2>3, <2>4, <2>5, EndKeeps
<1>8. CASE event.signal # "HOLD" /\ event.go /\ ~blocked
    <2>1. /\ pc' = "first" /\ UNCHANGED <<event, log, filled>>
          /\ trade' = [status |-> "SENT", sign |-> Session!Sign(event.signal, position.direction)]
        BY <1>8 DEF Resolve
    <2>2. Session!Sign(event.signal, position.direction) \in {-1, 1}
        BY <1>1, <1>4, <1>8, SignalFacts DEF TypeOK, Positions
    <2>3. trade' \in TradeAt(pc') /\ pc' \in Places /\ event' \in Events
        BY <1>1, <2>1, <2>2, TradeFacts DEF Places, Idle, TypeOK, Sent
    <2>4. clock' = clock
        BY <1>2 DEF engine
    <2>5. Decided' /\ FirstFilled'
        BY <1>1, <1>2, <1>4, <1>8, <2>1, <2>4 DEF Decided, FirstFilled, Trading, TypeOK
    <2>6. Booked'
        BY <1>2, <1>5, <2>1 DEF Booked, HasFirst
    <2> QED  BY <1>1, <1>2, <1>3, <2>1, <2>3, <2>5, <2>6, StepKeeps DEF TypeOK
<1> QED  BY <1>6, <1>7, <1>8

\* A leg's units, and what an order does to the net executed.
LEMMA FillFacts ==
    ASSUME NEW leg \in Legs, NEW sign \in {-1, 1}, NEW fill \in BOOLEAN
    PROVE  /\ Fill(leg, sign, fill) \in Fills /\ NoFill \in Fills
           /\ \A l \in Legs : /\ Units(Fill(leg, sign, fill), l) = IF l = leg /\ fill THEN sign ELSE 0
                              /\ Units(NoFill, l) = 0
BY DEF Fill, NoFill, Fills, Units, Legs

LEMMA UnfilledUnits ==
    ASSUME NEW f, f.filled = FALSE, NEW l
    PROVE  Units(f, l) = 0
BY DEF Units

LEMMA OrderFacts ==
    ASSUME NEW leg \in Legs, NEW sign \in {-1, 1}, NEW fill \in BOOLEAN, Order(leg, sign, fill),
           net \in [Legs -> Int]
    PROVE  /\ net' \in [Legs -> Int]
           /\ \A l \in Legs : net'[l] = net[l] + (IF l = leg /\ fill THEN sign ELSE 0)
<1>1. net' = IF fill THEN [net EXCEPT ![leg] = @ + sign] ELSE net
    BY Zenon DEF Order
<1> QED  BY <1>1

LEMMA TradingFacts ==
    ASSUME Inv, pc \in Trading
    PROVE  /\ TypeOK /\ EngineOK /\ config \in Configs /\ config.first \in Legs
           /\ event.go /\ event.ts \in Nat /\ event.ts <= clock /\ event \in Events
           /\ trade.sign \in {-1, 1} /\ net \in [Legs -> Int]
           /\ event.signal \in Session!Signals(position.direction) \ {"HOLD"}
           /\ trade.sign = Session!Sign(event.signal, position.direction)
<1>1. TypeOK /\ EngineOK /\ Decided
    BY DEF Inv, TypeOK, EngineOK
<1>2. /\ event.go /\ event.ts \in Nat /\ event.ts <= clock
      /\ event.signal \in Session!Signals(position.direction) \ {"HOLD"}
      /\ trade.sign = Session!Sign(event.signal, position.direction)
    BY <1>1 DEF Decided
<1>3. position.direction \in {-1, 0, 1}
    BY <1>1 DEF TypeOK, Positions
<1>4. trade.sign \in {-1, 1}
    BY <1>2, <1>3, SignalFacts
<1> QED  BY <1>1, <1>2, <1>4, ConfigFacts DEF TypeOK

\* An exception on the way leaves the session failed.
LEMMA RaiseKeeps ==
    ASSUME Inv, pc \in {"first", "second", "flatten"}, NEW leg, Raise(leg), config' = config, step' = step
    PROVE  Inv'
<1>1. TypeOK /\ EngineOK /\ pc \in Trading
    BY DEF Inv, TypeOK, EngineOK, Trading
<1>2. /\ pc' = "failed" /\ clock' = clock
      /\ UNCHANGED <<rows, late, event, trade, position, net, log, filled>>
    BY DEF Raise
<1>3. EngineOK'
    BY <1>1, <1>2 DEF EngineOK, Ahead
<1>4. Decided' /\ FirstFilled' /\ Booked'
    BY <1>2 DEF Decided, FirstFilled, Booked, Trading
<1>5. trade' \in TradeAt(pc')
    BY <1>1, <1>2, TradeFacts DEF TypeOK
<1>6. pc' \in Places
    BY <1>2 DEF Places
<1> QED  BY <1>1, <1>2, <1>3, <1>4, <1>5, <1>6, StepKeeps DEF TypeOK

LEMMA InvFirstLeg == Inv /\ FirstLeg => Inv'
<1> SUFFICES ASSUME Inv, FirstLeg PROVE Inv'
    OBVIOUS
<1>1. pc = "first" /\ config' = config /\ step' = step /\ position' = position
    BY DEF FirstLeg
<1>2. /\ TypeOK /\ EngineOK /\ config \in Configs /\ config.first \in Legs
      /\ event.go /\ event.ts \in Nat /\ event.ts <= clock /\ event \in Events
      /\ trade.sign \in {-1, 1} /\ net \in [Legs -> Int]
      /\ event.signal \in Session!Signals(position.direction) \ {"HOLD"}
      /\ trade.sign = Session!Sign(event.signal, position.direction)
    BY <1>1, TradingFacts DEF Trading
<1> PICK first \in Legs : first = config.first
    BY <1>2
<1> PICK sign \in {-1, 1} : sign = trade.sign
    BY <1>2
<1>3. \A l \in Legs : net[l] = Audited(log, l) + 0 /\ Audited(log, l) \in Int
    BY <1>1, <1>2, AuditIsInt DEF Inv, Booked, HasFirst, TypeOK
<1>4. ASSUME NEW fill \in BOOLEAN, Order(first, sign, fill), fill, pc' = "delay",
             trade' = [status |-> "SENT", sign |-> sign, first |-> Fill(first, sign, fill)],
             UNCHANGED <<event, log, filled>>
      PROVE  Inv'
    <2>1. EngineOK' /\ clock <= clock'
        BY <1>2, <1>4, EngineOrders, Zenon
    <2>2. net' \in [Legs -> Int] /\ \A l \in Legs : net'[l] = net[l] + (IF l = first /\ fill THEN sign ELSE 0)
        <3>1. net \in [Legs -> Int]
            BY <1>2
        <3>2. Order(first, sign, fill)
            BY <1>4
        <3> QED  BY <3>1, <3>2, OrderFacts
    <2>3. Fill(first, sign, fill) \in Fills
        BY <1>2, FillFacts
    <2>4. trade' \in TradeAt(pc')
        BY <1>2, <1>4, <2>3, TradeFacts DEF Hedging
    <2>5. Decided'
        BY <1>1, <1>2, <1>4, <2>1 DEF Decided, Trading, EngineOK
    <2>6. FirstFilled'
        BY <1>1, <1>4 DEF FirstFilled
    <2>7. Booked'
        BY <1>1, <1>3, <1>4, <2>2 DEF Booked, HasFirst
    <2>8. pc' \in Places
        BY <1>4 DEF Places
    <2> QED  BY <1>1, <1>2, <1>4, <2>1, <2>2, <2>4, <2>5, <2>6, <2>7, <2>8, StepKeeps DEF TypeOK
<1>5. ASSUME NEW fill \in BOOLEAN, Order(first, sign, fill), ~fill,
             Ends("FIRST_LEG_UNFILLED", <<Fill(first, sign, fill)>>)
      PROVE  Inv'
    <2>1. EngineOK' /\ clock <= clock'
        BY <1>2, <1>5, EngineOrders, Zenon
    <2>2. net' \in [Legs -> Int] /\ \A l \in Legs : net'[l] = net[l] + (IF l = first /\ fill THEN sign ELSE 0)
        <3>1. net \in [Legs -> Int]
            BY <1>2
        <3>2. Order(first, sign, fill)
            BY <1>5
        <3> QED  BY <3>1, <3>2, OrderFacts
    <2>3. PICK f \in Fills : f = Fill(first, sign, fill) /\ \A l \in Legs : Units(f, l) = 0
        BY <1>2, <1>5, FillFacts
    <2>4. \A l \in Legs : Executed(<<f>>, l) = 0
        BY <2>3, ExecutedOne
    <2>5. "FIRST_LEG_UNFILLED" \in Statuses \ {"FILLED"} /\ <<f>> \in Seq(Fills) /\ 0 \in Int
        BY DEF Statuses
    <2>6. \A l \in Legs : /\ Executed(<<f>>, l) = IF l = config.first THEN 0 ELSE 0
                          /\ net'[l] = Audited(log, l) + (IF l = config.first THEN 0 ELSE 0)
        BY <1>3, <1>5, <2>2, <2>4
    <2>7. Ends("FIRST_LEG_UNFILLED", <<f>>)
        BY <1>5, <2>3
    <2> QED  BY <1>1, <1>2, <2>1, <2>2, <2>5, <2>6, <2>7, EndKeeps
<1>6. CASE Raise(first)
    BY <1>1, <1>6, RaiseKeeps
<1>7. \/ Raise(first)
      \/ \E fill \in BOOLEAN :
            /\ Order(first, sign, fill)
            /\ \/ /\ fill /\ pc' = "delay" /\ UNCHANGED <<event, log, filled>>
                  /\ trade' = [status |-> "SENT", sign |-> sign, first |-> Fill(first, sign, fill)]
               \/ ~fill /\ Ends("FIRST_LEG_UNFILLED", <<Fill(first, sign, fill)>>)
    BY Zenon DEF FirstLeg
<1> QED  BY <1>4, <1>5, <1>6, <1>7

\* From the first fill to the last row, the sum of the fill columns so far.
LEMMA FilledFacts ==
    ASSUME Inv, pc \in HasFirst, NEW first, first = config.first, NEW sign, sign = trade.sign
    PROVE  /\ \A l \in Legs : Audited(log, l) \in Int /\ net[l] = Audited(log, l) + (IF l = first THEN sign ELSE 0)
           /\ Fill(first, sign, TRUE) \in Fills
           /\ \A l \in Legs : Units(Fill(first, sign, TRUE), l) = IF l = first THEN sign ELSE 0
<1>1. pc \in Trading /\ pc # "failed"
    BY DEF Trading, HasFirst
<1>2. TypeOK /\ Booked /\ first \in Legs /\ sign \in {-1, 1} /\ log \in Seq(Rows)
    BY <1>1, TradingFacts DEF Inv, TypeOK
<1>3. \A l \in Legs : Audited(log, l) \in Int
    BY <1>2, AuditIsInt
<1>4. \A l \in Legs : net[l] = Audited(log, l) + (IF l = first THEN sign ELSE 0)
    BY <1>1, <1>2 DEF Booked
<1>5. \A l \in Legs : Units(Fill(first, sign, TRUE), l) = IF l = first THEN sign ELSE 0
    BY <1>2, FillFacts
<1>6. Fill(first, sign, TRUE) \in Fills
    BY <1>2, FillFacts
<1> QED  BY <1>3, <1>4, <1>5, <1>6

\* A step that waits, checks or turns to the flatten order.
LEMMA WaitKeeps ==
    ASSUME Inv, pc \in HasFirst, EngineOK', clock <= clock', config' = config, step' = step,
           UNCHANGED <<event, position, log, filled>>,
           pc' \in HasFirst, trade' \in TradeAt(pc'), trade'.sign = trade.sign, FirstFilled',
           net' \in [Legs -> Int], \A l \in Legs : net'[l] = net[l]
    PROVE  Inv'
<1>1. pc \in Trading /\ pc' \in Trading /\ pc' \in Places /\ pc # "failed"
    BY DEF Trading, HasFirst, Places
<1>2. TypeOK /\ event.ts \in Nat /\ event.ts <= clock /\ clock \in Nat /\ clock' \in Nat
    BY <1>1, TradingFacts DEF EngineOK
<1>3. Decided'
    <2>1. event.ts <= clock'
        BY <1>2
    <2> QED  BY <1>1, <2>1 DEF Inv, Decided, Trading
<1>4. Booked'
    <2>1. \A l \in Legs : net[l] = Audited(log, l) + (IF l = config.first THEN trade.sign ELSE 0)
        BY <1>1 DEF Inv, Booked
    <2> QED  BY <2>1 DEF Booked
<1>5. step' \in Nat /\ filled' \in BOOLEAN /\ event' \in Events
    BY <1>2 DEF TypeOK
<1> QED  BY <1>1, <1>3, <1>4, <1>5, StepKeeps

LEMMA FlattensFacts ==
    ASSUME NEW status \in FailureStatuses, NEW f \in Fills, NEW fills \in BeforeFlatten(status, f),
           trade.sign \in {-1, 1}, Flattens(status, fills), config' = config,
           f = Fill(config.first, trade.sign, TRUE)
    PROVE  /\ pc' = "flatten" /\ trade' \in TradeAt(pc') /\ trade'.sign = trade.sign /\ FirstFilled'
<1>1. pc' = "flatten" /\ trade' = [status |-> status, sign |-> trade.sign, fills |-> fills]
    BY DEF Flattens
<1>2. trade' \in Flattening
    BY <1>1, BeforeFlattenFacts DEF Flattening
<1>3. trade'.sign = trade.sign /\ trade'.fills = fills /\ trade'.status = status
    BY <1>1
<1>4. FirstFilled'
    BY <1>1, <1>3 DEF FirstFilled
<1> QED  BY <1>1, <1>2, <1>3, <1>4, TradeFacts

LEMMA InvDelay == Inv /\ Delay => Inv'
<1> SUFFICES ASSUME Inv, Delay PROVE Inv'
    OBVIOUS
<1>1. /\ pc = "delay" /\ config' = config /\ step' = step /\ position' = position /\ net' = net
      /\ pc \in HasFirst /\ pc \in Trading
    BY DEF Delay, HasFirst, Trading
<1>2. /\ TypeOK /\ EngineOK /\ config \in Configs /\ config.first \in Legs
      /\ event.ts \in Nat /\ trade.sign \in {-1, 1} /\ net \in [Legs -> Int]
    BY <1>1, TradingFacts
<1> PICK first \in Legs : first = config.first
    BY <1>2
<1> PICK sign \in {-1, 1} : sign = trade.sign
    BY <1>2
<1>3. trade \in Hedging /\ trade.first = Fill(first, sign, TRUE)
    BY <1>1, <1>2, TradeFacts DEF Inv, FirstFilled, TypeOK
<1>f. PICK f \in Fills :
         /\ f = trade.first /\ f = Fill(first, sign, TRUE)
         /\ \A l \in Legs : Units(f, l) = IF l = first THEN sign ELSE 0
    <2>1. /\ Fill(first, sign, TRUE) \in Fills
          /\ \A l \in Legs : Units(Fill(first, sign, TRUE), l) = IF l = first THEN sign ELSE 0
        <3>1. pc \in HasFirst /\ first = config.first /\ sign = trade.sign
            BY <1>1
        <3> QED  BY <3>1, FilledFacts
    <2>2. trade.first = Fill(first, sign, TRUE)
        BY <1>3
    <2> QED  BY <2>1, <2>2, Zenon
<1>4. \A l \in Legs : Audited(log, l) \in Int /\ net[l] = Audited(log, l) + (IF l = first THEN sign ELSE 0)
    <2>1. pc \in HasFirst /\ first = config.first /\ sign = trade.sign
        BY <1>1
    <2> QED  BY <2>1, FilledFacts
<1>5. ASSUME UNCHANGED engine, Ends("SECOND_LEG_DELAY_END_OF_DATA", <<f>>)
      PROVE  Inv'
    <2>1. EngineOK'
        BY <1>2, <1>5, EngineStays
    <2>2. "SECOND_LEG_DELAY_END_OF_DATA" \in Statuses \ {"FILLED"} /\ <<f>> \in Seq(Fills) /\ sign \in Int
        BY DEF Statuses
    <2>3. \A l \in Legs : Executed(<<f>>, l) = Units(f, l)
        BY ExecutedOne
    <2>4. \A l \in Legs : /\ Executed(<<f>>, l) = IF l = config.first THEN sign ELSE 0
                          /\ net'[l] = Audited(log, l) + (IF l = config.first THEN sign ELSE 0)
        <3>2. \A l \in Legs : Executed(<<f>>, l) = IF l = first THEN sign ELSE 0
            BY <1>f, <2>3
        <3>3. \A l \in Legs : net'[l] = Audited(log, l) + (IF l = first THEN sign ELSE 0)
            BY <1>1, <1>4, Zenon
        <3> QED  BY <3>2, <3>3, Zenon
    <2> QED  BY <1>1, <1>2, <1>5, <2>1, <2>2, <2>4, EndKeeps
<1>6. ASSUME \/ config.delay > 0 /\ Elapse(config.delay)
             \/ UNCHANGED engine,
             pc' = "wait", UNCHANGED <<event, log, filled>>,
             trade' = [status |-> "SENT", sign |-> sign, first |-> f,
                       before |-> rows', deadline |-> clock' + config.feedTimeout]
      PROVE  Inv'
    <2>1. EngineOK' /\ clock <= clock'
        <3>1. CASE config.delay > 0 /\ Elapse(config.delay)
            <4>1. config.delay \in Nat
                BY <1>2, <3>1, ConfigFacts
            <4> QED  BY <1>2, <3>1, <4>1, EngineElapses
        <3>2. CASE UNCHANGED engine
            BY <1>2, <3>2, EngineStays
        <3> QED  BY <1>6, <3>1, <3>2
    <2>2. clock' + config.feedTimeout \in Int
        BY <1>2, <2>1, ConfigFacts DEF EngineOK
    <2>3. trade' \in Waiting /\ trade'.sign = sign /\ trade'.first = f
        BY <1>6, <2>1, <2>2 DEF Waiting, EngineOK
    <2>4. trade' \in TradeAt(pc') /\ pc' \in HasFirst
        BY <1>6, <2>3, TradeFacts DEF HasFirst
    <2>5. FirstFilled'
        BY <1>1, <1>6, <1>f, <2>3 DEF FirstFilled
    <2> QED  BY <1>1, <1>2, <1>6, <2>1, <2>3, <2>4, <2>5, WaitKeeps
<1>7. \/ UNCHANGED engine /\ Ends("SECOND_LEG_DELAY_END_OF_DATA", <<f>>)
      \/ /\ \/ config.delay > 0 /\ Elapse(config.delay)
            \/ UNCHANGED engine
         /\ pc' = "wait" /\ UNCHANGED <<event, log, filled>>
         /\ trade' = [status |-> "SENT", sign |-> sign, first |-> f,
                      before |-> rows', deadline |-> clock' + config.feedTimeout]
    BY <1>f, Zenon DEF Delay
<1> QED  BY <1>5, <1>6, <1>7

LEMMA InvWait == Inv /\ Wait => Inv'
<1> SUFFICES ASSUME Inv, Wait PROVE Inv'
    OBVIOUS
<1>1. /\ pc = "wait" /\ config' = config /\ step' = step /\ net' = net
      /\ UNCHANGED <<event, position, log, filled>> /\ pc \in HasFirst /\ pc \in Trading
    BY DEF Wait, HasFirst, Trading
<1>2. /\ TypeOK /\ EngineOK /\ config \in Configs /\ config.first \in Legs
      /\ trade.sign \in {-1, 1} /\ net \in [Legs -> Int]
    BY <1>1, TradingFacts
<1>3. trade \in Waiting /\ trade.first = Fill(config.first, trade.sign, TRUE)
    BY <1>1, <1>2, TradeFacts DEF Inv, FirstFilled, TypeOK
<1>4. trade.first \in Fills /\ NoFill \in Fills /\ ~NoFill.filled
    BY <1>3 DEF Waiting, NoFill, Fills
<1> DEFINE d == Min({config.poll, trade.deadline - clock})
<1>5. CASE FeedReady /\ pc' = "check" /\ UNCHANGED <<engine, trade>>
    <2>1. EngineOK' /\ clock <= clock'
        BY <1>2, <1>5, EngineStays
    <2>2. pc' \in HasFirst /\ trade' \in TradeAt(pc') /\ trade'.sign = trade.sign
        BY <1>3, <1>5, TradeFacts DEF HasFirst
    <2>3. FirstFilled'
        BY <1>1, <1>3, <1>5 DEF FirstFilled
    <2> QED  BY <1>1, <1>2, <2>1, <2>2, <2>3, WaitKeeps
<1>6. CASE d > 0 /\ Elapse(d) /\ UNCHANGED <<pc, trade>>
    <2>1. d \in Nat
        <3>1. config.poll \in Int /\ trade.deadline - clock \in Int
            BY <1>2, <1>3, ConfigFacts DEF EngineOK, Waiting
        <3>2. \A a, b \in Int : Min({a, b}) \in {a, b}
            BY LeastOfTwo
        <3>3. d \in Int
            BY <3>1, <3>2
        <3> HIDE DEF d
        <3> QED  BY <1>6, <3>3
    <2> HIDE DEF d
    <2>2. EngineOK' /\ clock <= clock'
        BY <1>2, <1>6, <2>1, EngineElapses
    <2>3. pc' \in HasFirst /\ trade' \in TradeAt(pc') /\ trade'.sign = trade.sign
        BY <1>1, <1>3, <1>6, TradeFacts DEF HasFirst
    <2>4. FirstFilled'
        BY <1>1, <1>3, <1>6 DEF FirstFilled
    <2> QED  BY <1>1, <1>2, <2>2, <2>3, <2>4, WaitKeeps
<1>7. CASE Flattens("POST_FIRST_FEED_TIMEOUT", <<trade.first, NoFill>>) /\ UNCHANGED engine
    <2>1. EngineOK' /\ clock <= clock'
        BY <1>2, <1>7, EngineStays
    <2>2. PICK f \in Fills, g \in Fills : f = trade.first /\ g = NoFill
        BY <1>4
    <2>3. pc' = "flatten" /\ trade' \in TradeAt(pc') /\ trade'.sign = trade.sign /\ FirstFilled'
        <3>1. "POST_FIRST_FEED_TIMEOUT" \in FailureStatuses
            BY DEF FailureStatuses
        <3>2. Flattens("POST_FIRST_FEED_TIMEOUT", <<f, g>>) /\ f = Fill(config.first, trade.sign, TRUE)
            BY <1>3, <1>7, <2>2
        <3>3. <<f, g>> \in BeforeFlatten("POST_FIRST_FEED_TIMEOUT", f)
            BY <1>4, <2>2 DEF BeforeFlatten
        <3> QED  BY <1>1, <1>2, <3>1, <3>2, <3>3, FlattensFacts
    <2>4. pc' \in HasFirst
        BY <2>3 DEF HasFirst
    <2> QED  BY <1>1, <1>2, <2>1, <2>3, <2>4, WaitKeeps
<1> QED  BY <1>5, <1>6, <1>7, Zenon DEF Wait

LEMMA InvProfitCheck == Inv /\ ProfitCheck => Inv'
<1> SUFFICES ASSUME Inv, ProfitCheck PROVE Inv'
    OBVIOUS
<1>1. /\ pc = "check" /\ config' = config /\ step' = step /\ net' = net /\ UNCHANGED engine
      /\ UNCHANGED <<event, position, log, filled>> /\ pc \in HasFirst /\ pc \in Trading
    BY DEF ProfitCheck, HasFirst, Trading
<1>2. /\ TypeOK /\ EngineOK /\ config \in Configs /\ config.first \in Legs
      /\ trade.sign \in {-1, 1} /\ net \in [Legs -> Int]
    BY <1>1, TradingFacts
<1>3. trade \in Waiting /\ trade.first = Fill(config.first, trade.sign, TRUE)
    BY <1>1, <1>2, TradeFacts DEF Inv, FirstFilled, TypeOK
<1>4. trade.first \in Fills
    BY <1>3 DEF Waiting
<1>5. EngineOK' /\ clock <= clock'
    BY <1>1, <1>2, EngineStays
<1>6. CASE pc' = "second" /\ UNCHANGED trade
    <2>1. pc' \in HasFirst /\ trade' \in TradeAt(pc') /\ trade'.sign = trade.sign
        BY <1>3, <1>6, TradeFacts DEF HasFirst
    <2>2. FirstFilled'
        BY <1>1, <1>3, <1>6 DEF FirstFilled
    <2> QED  BY <1>1, <1>2, <1>5, <2>1, <2>2, WaitKeeps
<1>7. CASE Flattens("SECOND_LEG_PROFIT_CHECK_FAILED", <<trade.first>>)
    <2>1. PICK f \in Fills : f = trade.first
        BY <1>4
    <2>2. pc' = "flatten" /\ trade' \in TradeAt(pc') /\ trade'.sign = trade.sign /\ FirstFilled'
        <3>1. "SECOND_LEG_PROFIT_CHECK_FAILED" \in FailureStatuses
            BY DEF FailureStatuses
        <3>2. Flattens("SECOND_LEG_PROFIT_CHECK_FAILED", <<f>>) /\ f = Fill(config.first, trade.sign, TRUE)
            BY <1>3, <1>7, <2>1
        <3>3. <<f>> \in BeforeFlatten("SECOND_LEG_PROFIT_CHECK_FAILED", f)
            BY DEF BeforeFlatten
        <3> QED  BY <1>1, <1>2, <3>1, <3>2, <3>3, FlattensFacts
    <2>3. pc' \in HasFirst
        BY <2>2 DEF HasFirst
    <2> QED  BY <1>1, <1>2, <1>5, <2>2, <2>3, WaitKeeps
<1> QED  BY <1>6, <1>7 DEF ProfitCheck

\* A pair opened or closed moves both legs by its sign and leaves them hedged.
LEMMA OpenedFacts ==
    ASSUME NEW p, NEW sign \in {-1, 1}, event.ts \in Nat, p.quantity \in Nat, p.direction \in {0, sign},
           p.quantity = 0 <=> p.direction = 0, p.units \in [Legs -> Int],
           \A l \in Legs : p.units[l] = p.direction * p.quantity
    PROVE  /\ Opened(p, sign) \in Positions
           /\ Opened(p, sign).quantity = 0 <=> Opened(p, sign).direction = 0
           /\ \A l \in Legs : /\ Opened(p, sign).units[l] = Opened(p, sign).direction * Opened(p, sign).quantity
                              /\ Opened(p, sign).units[l] = p.units[l] + sign
<1> DEFINE o == Opened(p, sign)
<1>1. /\ o = [direction |-> sign, quantity |-> p.quantity + 1,
              units |-> [l \in Legs |-> p.units[l] + sign], entered |-> event.ts]
    BY DEF Opened
<1> HIDE DEF o
<1>2. o.direction = sign /\ o.quantity = p.quantity + 1 /\ \A l \in Legs : o.units[l] = p.units[l] + sign
    BY <1>1
<1>3. o \in Positions
    BY <1>1 DEF Positions
<1>4. \A l \in Legs : p.units[l] = sign * p.quantity
    BY SMTT(30)
<1>5. \A l \in Legs : o.units[l] = o.direction * o.quantity
    <2>1. sign * (p.quantity + 1) = sign * p.quantity + sign
        <3>1. CASE sign = 1
            BY <3>1
        <3>2. CASE sign = -1
            BY <3>2
        <3> QED  BY <3>1, <3>2
    <2> QED  BY <1>2, <1>4, <2>1
<1>6. o.quantity # 0 /\ o.direction # 0
    BY <1>2
<1> QED  BY <1>2, <1>3, <1>5, <1>6 DEF o

LEMMA ClosedFacts ==
    ASSUME NEW p \in Positions, p.direction # 0, p.quantity = 0 <=> p.direction = 0,
           \A l \in Legs : p.units[l] = p.direction * p.quantity
    PROVE  /\ Closed(p) \in Positions
           /\ Closed(p).quantity = 0 <=> Closed(p).direction = 0
           /\ \A l \in Legs : /\ Closed(p).units[l] = Closed(p).direction * Closed(p).quantity
                              /\ Closed(p).units[l] = p.units[l] - p.direction
<1> DEFINE c == Closed(p)
           q == Max({p.quantity - 1, 0})
<1>1. p.direction \in {-1, 1} /\ p.quantity \in Nat /\ p.quantity > 0 /\ p.units \in [Legs -> Int]
      /\ p.entered \in Nat \cup {Session!Never}
    BY DEF Positions
<1>2. q = p.quantity - 1
    <2>1. p.quantity - 1 \in Int /\ 0 \in Int /\ p.quantity - 1 >= 0
        BY <1>1
    <2>2. \A a, b \in Int : Max({a, b}) \in {a, b} /\ Max({a, b}) >= a /\ Max({a, b}) >= b
        BY GreatestOfTwo
    <2>3. q \in {p.quantity - 1, 0} /\ q >= p.quantity - 1
        BY <2>1, <2>2
    <2> HIDE DEF q
    <2> QED  BY <2>1, <2>3
<1>3. c = [direction |-> IF q = 0 THEN 0 ELSE p.direction, quantity |-> q,
           units |-> [l \in Legs |-> IF q = 0 THEN 0 ELSE TowardZero(p.units[l])], entered |-> p.entered]
    BY DEF Closed
<1> HIDE DEF c, q
<1>4. \A l \in Legs : p.units[l] \in Int /\ (q = 0 => p.units[l] = p.direction)
                      /\ TowardZero(p.units[l]) = p.units[l] - p.direction
    <2> SUFFICES ASSUME NEW l \in Legs
                 PROVE  p.units[l] \in Int /\ (q = 0 => p.units[l] = p.direction)
                        /\ TowardZero(p.units[l]) = p.units[l] - p.direction
        OBVIOUS
    <2>1. CASE p.direction = 1
        <3>1. p.units[l] = p.quantity
            BY <1>1, <2>1
        <3> QED  BY <1>1, <1>2, <2>1, <3>1 DEF TowardZero, Session!Sgn
    <2>2. CASE p.direction = -1
        <3>1. p.units[l] = -p.quantity
            BY <1>1, <2>2
        <3> QED  BY <1>1, <1>2, <2>2, <3>1 DEF TowardZero, Session!Sgn
    <2> QED  BY <1>1, <2>1, <2>2
<1>5. \A l \in Legs : c.units[l] = p.units[l] - p.direction
    BY <1>1, <1>3, <1>4
<1>6. c \in Positions
    <2>1. q \in Nat
        BY <1>1, <1>2
    <2>2. [l \in Legs |-> IF q = 0 THEN 0 ELSE TowardZero(p.units[l])] \in [Legs -> Int]
        BY <1>1, <1>4
    <2> QED  BY <1>1, <1>3, <2>1, <2>2 DEF Positions
<1>7. c.quantity = q /\ c.direction = (IF q = 0 THEN 0 ELSE p.direction)
    BY <1>3
<1>8. \A l \in Legs : c.units[l] = c.direction * c.quantity
    <2> SUFFICES ASSUME NEW l \in Legs PROVE c.units[l] = c.direction * c.quantity
        OBVIOUS
    <2>3. p.units[l] = p.direction * p.quantity /\ p.units[l] \in Int /\ q \in Nat
        BY <1>1, <1>2, <1>4
    <2>0. CASE q = 0
        BY <1>1, <1>4, <1>5, <1>7, <2>0
    <2>1. CASE q # 0 /\ p.direction = 1
        BY <1>1, <1>2, <1>5, <1>7, <2>1, <2>3
    <2>2. CASE q # 0 /\ p.direction = -1
        BY <1>1, <1>2, <1>5, <1>7, <2>2, <2>3
    <2> QED  BY <1>1, <2>0, <2>1, <2>2
<1> QED  BY <1>1, <1>5, <1>6, <1>7, <1>8 DEF c

LEMMA InvSecondLeg == Inv /\ SecondLeg => Inv'
<1> SUFFICES ASSUME Inv, SecondLeg PROVE Inv'
    OBVIOUS
<1>1. pc = "second" /\ config' = config /\ step' = step /\ pc \in HasFirst /\ pc \in Trading
    BY DEF SecondLeg, HasFirst, Trading
<1>2. /\ TypeOK /\ EngineOK /\ config \in Configs /\ config.first \in Legs
      /\ event.ts \in Nat /\ event \in Events /\ trade.sign \in {-1, 1} /\ net \in [Legs -> Int]
      /\ event.signal \in Session!Signals(position.direction) \ {"HOLD"}
      /\ trade.sign = Session!Sign(event.signal, position.direction)
    BY <1>1, TradingFacts
<1> PICK first \in Legs : first = config.first
    BY <1>2
<1> PICK sign \in {-1, 1} : sign = trade.sign
    BY <1>2
<1> PICK leg \in Legs : leg = Other(first)
    BY DEF Other, Legs
<1>3. trade \in Waiting /\ trade.first = Fill(first, sign, TRUE)
    BY <1>1, <1>2, TradeFacts DEF Inv, FirstFilled, TypeOK
<1>f. PICK f \in Fills :
         /\ f = trade.first /\ f = Fill(first, sign, TRUE)
         /\ \A l \in Legs : Units(f, l) = IF l = first THEN sign ELSE 0
    <2>1. /\ Fill(first, sign, TRUE) \in Fills
          /\ \A l \in Legs : Units(Fill(first, sign, TRUE), l) = IF l = first THEN sign ELSE 0
        <3>1. pc \in HasFirst /\ first = config.first /\ sign = trade.sign
            BY <1>1
        <3> QED  BY <3>1, FilledFacts
    <2>2. trade.first = Fill(first, sign, TRUE)
        BY <1>3
    <2> QED  BY <2>1, <2>2, Zenon
<1>4. \A l \in Legs : Audited(log, l) \in Int /\ net[l] = Audited(log, l) + (IF l = first THEN sign ELSE 0)
    <2>1. pc \in HasFirst /\ first = config.first /\ sign = trade.sign
        BY <1>1
    <2> QED  BY <2>1, FilledFacts
<1>5. leg # first /\ \A l \in Legs : l = first \/ l = leg
    BY DEF Other, Legs
<1>6. ASSUME NEW fill \in BOOLEAN, Order(leg, sign, fill)
      PROVE  /\ EngineOK' /\ clock <= clock' /\ net' \in [Legs -> Int]
             /\ \A l \in Legs : net'[l] = net[l] + (IF l = leg /\ fill THEN sign ELSE 0)
             /\ Fill(leg, sign, fill) \in Fills
             /\ \A l \in Legs : Units(Fill(leg, sign, fill), l) = IF l = leg /\ fill THEN sign ELSE 0
    <2>1. EngineOK' /\ clock <= clock'
        BY <1>2, <1>6, EngineOrders, Zenon
    <2>2. net' \in [Legs -> Int] /\ \A l \in Legs : net'[l] = net[l] + (IF l = leg /\ fill THEN sign ELSE 0)
        <3>1. net \in [Legs -> Int]
            BY <1>2
        <3>2. Order(leg, sign, fill)
            BY <1>6
        <3> QED  BY <3>1, <3>2, OrderFacts
    <2> QED  BY <2>1, <2>2, FillFacts
<1>7. ASSUME NEW fill \in BOOLEAN, Order(leg, sign, fill), ~fill,
             Flattens("SECOND_LEG_UNFILLED", <<f, Fill(leg, sign, fill)>>), UNCHANGED <<event, position, log, filled>>
      PROVE  Inv'
    <2>1. PICK g \in Fills : g = Fill(leg, sign, fill)
        BY <1>6, <1>7
    <2>2. /\ EngineOK' /\ clock <= clock' /\ net' \in [Legs -> Int]
          /\ \A l \in Legs : net'[l] = net[l] + (IF l = leg /\ fill THEN sign ELSE 0)
        BY <1>6, <1>7
    <2>3. \A l \in Legs : net'[l] = net[l]
        BY <1>2, <1>7, <2>2
    <2>4. pc' = "flatten" /\ trade' \in TradeAt(pc') /\ trade'.sign = trade.sign /\ FirstFilled'
        <3>1. "SECOND_LEG_UNFILLED" \in FailureStatuses
            BY DEF FailureStatuses
        <3>2. ~g.filled
            BY <1>7, <2>1 DEF Fill
        <3>3. Flattens("SECOND_LEG_UNFILLED", <<f, g>>) /\ f = Fill(config.first, trade.sign, TRUE)
            BY <1>7, <1>f, <2>1
        <3>4. <<f, g>> \in BeforeFlatten("SECOND_LEG_UNFILLED", f)
            BY <3>2 DEF BeforeFlatten
        <3> QED  BY <1>1, <1>2, <3>1, <3>3, <3>4, FlattensFacts
    <2>5. pc' \in HasFirst
        BY <2>4 DEF HasFirst
    <2> QED  BY <1>1, <1>2, <1>7, <2>2, <2>3, <2>4, <2>5, WaitKeeps
<1>8. ASSUME Raise(leg)
      PROVE  Inv'
    BY <1>1, <1>8, RaiseKeeps
<1>9. ASSUME NEW fill \in BOOLEAN, Order(leg, sign, fill), fill,
             Ends("FILLED", <<f, Fill(leg, sign, fill)>>),
             position' = IF event.signal = "EXIT" THEN Closed(position) ELSE Opened(position, sign)
      PROVE  Inv'
    <2>1. PICK g \in Fills : g = Fill(leg, sign, fill)
        BY <1>6, <1>9
    <2>2. /\ EngineOK' /\ clock <= clock' /\ net' \in [Legs -> Int]
          /\ \A l \in Legs : net'[l] = net[l] + (IF l = leg /\ fill THEN sign ELSE 0)
          /\ \A l \in Legs : Units(g, l) = IF l = leg /\ fill THEN sign ELSE 0
        BY <1>6, <1>9, <2>1
    <2>3. \A l \in Legs : Executed(<<f, g>>, l) = sign
        <3>1. \A l \in Legs : Executed(<<f, g>>, l) = Units(f, l) + Units(g, l)
            BY ExecutedTwo
        <3>2. \A l \in Legs : Units(g, l) = IF l = leg THEN sign ELSE 0
            BY <1>9, <2>2
        <3>3. \A l \in Legs : Units(f, l) = IF l = first THEN sign ELSE 0
            BY <1>f
        <3>4. \A l \in Legs : Units(f, l) + Units(g, l) = sign
            BY <1>5, <3>2, <3>3
        <3> QED  BY <3>1, <3>4
    <2>13. "FILLED" \in Statuses /\ <<f, g>> \in Seq(Fills) /\ clock' \in Nat
        BY <2>2 DEF Statuses, EngineOK
    <2>4. Ends("FILLED", <<f, g>>)
        BY <1>9, <2>1, Zenon
    <2>5. /\ log' \in Seq(Rows) /\ filled' \in BOOLEAN /\ event' = Session!NoEvent
          /\ trade' = NoTrade /\ pc' = "advance"
          /\ \A l \in Legs : Audited(log', l) = Audited(log, l) + Executed(<<f, g>>, l)
          /\ Naked(log') = Naked(log) + 0
        BY <1>2, <2>4, <2>13, RowIsAdded
    <2>6. /\ position.direction \in {-1, 0, 1} /\ position.quantity \in Nat /\ position.units \in [Legs -> Int]
          /\ position.entered \in Nat \cup {Session!Never}
          /\ (position.quantity = 0 <=> position.direction = 0)
          /\ \A l \in Legs : position.units[l] = position.direction * position.quantity
        BY <1>2 DEF TypeOK, Positions, Inv, Hedged
    <2>14. /\ event.signal = "EXIT" => position.direction # 0 /\ sign = -position.direction
           /\ event.signal # "EXIT" => position.direction \in {0, sign}
        <3>1. PICK d \in {-1, 0, 1}, s \in Signals :
                s \in Session!Signals(d) /\ d = position.direction /\ s = event.signal /\ s # "HOLD" /\ sign = Session!Sign(s, d)
            BY <1>2, <2>6 DEF Events
        <3> QED  BY <3>1, SignalFacts
    <2>7. /\ position' \in Positions /\ Hedged'
          /\ \A l \in Legs : position'.units[l] = position.units[l] + sign
        <3>1. CASE event.signal = "EXIT"
            <4>1. position' = Closed(position) /\ position.direction # 0 /\ sign = -position.direction
                BY <1>9, <2>14, <3>1
            <4>2. /\ Closed(position) \in Positions
                  /\ Closed(position).quantity = 0 <=> Closed(position).direction = 0
                  /\ \A l \in Legs :
                       /\ Closed(position).units[l] = Closed(position).direction * Closed(position).quantity
                       /\ Closed(position).units[l] = position.units[l] - position.direction
                BY <1>2, <2>6, <4>1, ClosedFacts DEF TypeOK
            <4>3. \A l \in Legs : position.units[l] - position.direction = position.units[l] + sign
                BY <2>6, <4>1
            <4> QED  BY <4>1, <4>2, <4>3, Zenon DEF Hedged
        <3>2. CASE event.signal # "EXIT"
            <4>1. position' = Opened(position, sign) /\ position.direction \in {0, sign}
                BY <1>9, <2>14, <3>2
            <4>2. /\ Opened(position, sign) \in Positions
                  /\ Opened(position, sign).quantity = 0 <=> Opened(position, sign).direction = 0
                  /\ \A l \in Legs :
                       /\ Opened(position, sign).units[l]
                            = Opened(position, sign).direction * Opened(position, sign).quantity
                       /\ Opened(position, sign).units[l] = position.units[l] + sign
                BY <1>2, <2>6, <4>1, OpenedFacts
            <4> QED  BY <4>1, <4>2, Zenon DEF Hedged
        <3> QED  BY <3>1, <3>2
    <2>8. TypeOK'
        <3>1. event' \in Events /\ trade' \in TradeAt(pc') /\ pc' \in Places
            BY <2>5, TradeFacts DEF Session!NoEvent, Session!Never, Events, Signals, Places, Idle
        <3> QED  BY <1>1, <1>2, <2>2, <2>5, <2>7, <3>1 DEF TypeOK, EngineOK
    <2>9. Decided' /\ FirstFilled'
        BY <2>5 DEF Decided, FirstFilled, Trading
    <2>10. \A l \in Legs : Audited(log', l) = Audited(log, l) + sign
        BY <2>3, <2>5
    <2>11. Booked'
        <3>1. \A l \in Legs : net'[l] = net[l] + (IF l = leg THEN sign ELSE 0)
            BY <1>9, <2>2
        <3>2. \A l \in Legs : net[l] + (IF l = leg THEN sign ELSE 0) = Audited(log, l) + sign
            BY <1>4, <1>5
        <3>3. \A l \in Legs : Audited(log, l) + sign + 0 = Audited(log, l) + sign
            BY <1>4
        <3> QED  BY <2>5, <2>10, <3>1, <3>2, <3>3 DEF Booked, HasFirst
    <2>12. Covered'
        <3>1. \A l \in Legs : Audited(log, l) = position.units[l] + (IF l = first THEN Naked(log) ELSE 0)
            BY DEF Inv, Covered
        <3>2. Naked(log) \in Int /\ Naked(log') = Naked(log)
            BY <1>2, <2>5, AuditIsInt DEF TypeOK
        <3>3. \A l \in Legs : Audited(log', l) = position'.units[l] + (IF l = first THEN Naked(log') ELSE 0)
            BY <2>6, <2>7, <2>10, <3>1, <3>2
        <3> QED  BY <1>1, <3>3 DEF Covered
    <2> QED  BY <2>2, <2>7, <2>8, <2>9, <2>11, <2>12 DEF Inv, EngineOK
<1>10. \/ Raise(leg)
       \/ \E fill \in BOOLEAN :
            /\ Order(leg, sign, fill)
            /\ \/ /\ ~fill /\ Flattens("SECOND_LEG_UNFILLED", <<f, Fill(leg, sign, fill)>>)
                  /\ UNCHANGED <<event, position, log, filled>>
               \/ /\ fill /\ Ends("FILLED", <<f, Fill(leg, sign, fill)>>)
                  /\ position' = IF event.signal = "EXIT" THEN Closed(position) ELSE Opened(position, sign)
    BY <1>f, Zenon DEF SecondLeg
<1> QED  BY <1>7, <1>8, <1>9, <1>10

LEMMA InvFlattenFirstLeg == Inv /\ FlattenFirstLeg => Inv'
<1> SUFFICES ASSUME Inv, FlattenFirstLeg PROVE Inv'
    OBVIOUS
<1>1. /\ pc = "flatten" /\ config' = config /\ step' = step /\ position' = position
      /\ pc \in HasFirst /\ pc \in Trading
    BY DEF FlattenFirstLeg, HasFirst, Trading
<1>2. /\ TypeOK /\ EngineOK /\ config \in Configs /\ config.first \in Legs
      /\ event.ts \in Nat /\ trade.sign \in {-1, 1} /\ net \in [Legs -> Int]
    BY <1>1, TradingFacts
<1> PICK first \in Legs : first = config.first
    BY <1>2
<1> PICK sign \in {-1, 1} : sign = trade.sign
    BY <1>2
<1>3. trade \in Flattening /\ trade.fills \in BeforeFlatten(trade.status, Fill(first, sign, TRUE))
    BY <1>1, <1>2, TradeFacts DEF Inv, FirstFilled, TypeOK
<1>f. PICK fills \in Seq(Fills) :
         fills = trade.fills /\ \A l \in Legs : Executed(fills, l) = IF l = first THEN sign ELSE 0
    <2>1. /\ Fill(first, sign, TRUE) \in Fills
          /\ \A l \in Legs : Units(Fill(first, sign, TRUE), l) = IF l = first THEN sign ELSE 0
        <3>1. pc \in HasFirst /\ first = config.first /\ sign = trade.sign
            BY <1>1
        <3> QED  BY <3>1, FilledFacts
    <2>2. PICK f \in Fills : f = Fill(first, sign, TRUE)
        BY <2>1
    <2>3. trade.fills \in BeforeFlatten(trade.status, f)
        BY <1>3, <2>2
    <2>4. trade.fills \in Seq(Fills) /\ \A l : Executed(trade.fills, l) = Units(f, l)
        BY <2>3, BeforeFlattenFacts
    <2>5. \A l \in Legs : Executed(trade.fills, l) = IF l = first THEN sign ELSE 0
        BY <2>1, <2>2, <2>4
    <2> QED  BY <2>4, <2>5
<1>4. \A l \in Legs : Audited(log, l) \in Int /\ net[l] = Audited(log, l) + (IF l = first THEN sign ELSE 0)
    <2>1. pc \in HasFirst /\ first = config.first /\ sign = trade.sign
        BY <1>1
    <2> QED  BY <2>1, FilledFacts
<1>s. PICK status \in FailureStatuses : status = trade.status
    BY <1>3 DEF Flattening
<1>8. ASSUME NEW h \in Fills, NEW k \in {0, -sign}, EngineOK', net' \in [Legs -> Int],
             Ends(status, Append(fills, h)),
             \A l \in Legs : Units(h, l) = IF l = first THEN k ELSE 0,
             \A l \in Legs : net'[l] = net[l] + (IF l = first THEN k ELSE 0)
      PROVE  Inv'
    <2>0. k \in Int /\ sign + k \in Int
        OBVIOUS
    <2>1. Append(fills, h) \in Seq(Fills)
        OBVIOUS
    <2>3. status \in Statuses \ {"FILLED"}
        BY DEF Statuses, FailureStatuses
    <2>4. \A l \in Legs : Executed(Append(fills, h), l) = Executed(fills, l) + Units(h, l)
        BY ExecutedOneMore
    <2>5. \A l \in Legs : Executed(Append(fills, h), l) = IF l = first THEN sign + k ELSE 0
        BY <1>f, <1>8, <2>0, <2>4
    <2>6. \A l \in Legs : net'[l] = Audited(log, l) + (IF l = first THEN sign + k ELSE 0)
        BY <1>4, <1>8
    <2>7. \A l \in Legs : /\ Executed(Append(fills, h), l) = IF l = config.first THEN sign + k ELSE 0
                          /\ net'[l] = Audited(log, l) + (IF l = config.first THEN sign + k ELSE 0)
        BY <2>5, <2>6, Zenon
    <2> QED  BY <1>1, <1>2, <1>8, <2>0, <2>1, <2>3, <2>7, EndKeeps
<1>9. ASSUME UNCHANGED <<engine, net>>, Ends(status, Append(fills, NoFill))
      PROVE  Inv'
    <2>1. EngineOK'
        BY <1>2, <1>9, EngineStays
    <2>2. PICK h \in Fills : h = NoFill /\ \A l \in Legs : Units(h, l) = 0
        BY FillFacts
    <2>3. Ends(status, Append(fills, h))
        BY <1>9, <2>2
    <2>4. net' \in [Legs -> Int] /\ \A l \in Legs : net'[l] = net[l] + (IF l = first THEN 0 ELSE 0)
        BY <1>2, <1>9
    <2>5. \A l \in Legs : Units(h, l) = IF l = first THEN 0 ELSE 0
        BY <2>2
    <2> QED  BY <1>8, <2>1, <2>3, <2>4, <2>5
<1>10. ASSUME NEW fill \in BOOLEAN, Order(first, -sign, fill),
              Ends(status, Append(fills, Fill(first, -sign, fill)))
       PROVE  Inv'
    <2>1. PICK back \in {-1, 1} : back = -sign
        OBVIOUS
    <2>2. Order(first, back, fill) /\ Ends(status, Append(fills, Fill(first, back, fill)))
        BY <1>10, <2>1
    <2>3. EngineOK'
        BY <1>2, <2>2, EngineOrders, Zenon
    <2>4. net' \in [Legs -> Int] /\ \A l \in Legs : net'[l] = net[l] + (IF l = first /\ fill THEN back ELSE 0)
        <3>1. net \in [Legs -> Int]
            BY <1>2
        <3>2. Order(first, back, fill)
            BY <2>2
        <3> QED  BY <3>1, <3>2, OrderFacts
    <2>5. PICK h \in Fills : /\ h = Fill(first, back, fill)
                             /\ \A l \in Legs : Units(h, l) = IF l = first /\ fill THEN back ELSE 0
        BY FillFacts
    <2>6. PICK k \in {0, -sign} : k = IF fill THEN back ELSE 0
        BY <2>1
    <2>7. \A l \in Legs : /\ Units(h, l) = IF l = first THEN k ELSE 0
                          /\ net'[l] = net[l] + (IF l = first THEN k ELSE 0)
        BY <2>4, <2>5, <2>6
    <2>8. Ends(status, Append(fills, h))
        BY <2>2, <2>5
    <2> QED  BY <1>8, <2>3, <2>4, <2>7, <2>8
<1>11. ASSUME Raise(first)
       PROVE  Inv'
    BY <1>1, <1>11, RaiseKeeps
<1>12. \/ Raise(first)
       \/ UNCHANGED <<engine, net>> /\ Ends(status, Append(fills, NoFill))
       \/ \E fill \in BOOLEAN : /\ Order(first, -sign, fill)
                                /\ Ends(status, Append(fills, Fill(first, -sign, fill)))
    BY <1>f, <1>s, Zenon DEF FlattenFirstLeg
<1> QED  BY <1>9, <1>10, <1>11, <1>12

LEMMA InvStep == Inv /\ [Next]_vars => Inv'
<1> SUFFICES ASSUME Inv, [Next]_vars PROVE Inv'
    OBVIOUS
<1>1. CASE Advance
    BY <1>1, InvAdvance
<1>2. ASSUME NEW blocked \in BOOLEAN, Resolve(blocked) PROVE Inv'
    BY <1>2, InvResolve
<1>3. CASE FirstLeg
    BY <1>3, InvFirstLeg
<1>4. CASE Delay
    BY <1>4, InvDelay
<1>5. CASE Wait
    BY <1>5, InvWait
<1>6. CASE ProfitCheck
    BY <1>6, InvProfitCheck
<1>7. CASE SecondLeg
    BY <1>7, InvSecondLeg
<1>8. CASE FlattenFirstLeg
    BY <1>8, InvFlattenFirstLeg
<1>9. CASE UNCHANGED vars
    BY <1>9 DEF vars, Inv, TypeOK, Ahead, Hedged, Decided, FirstFilled, Booked, Covered
<1> QED  BY <1>1, <1>2, <1>3, <1>4, <1>5, <1>6, <1>7, <1>8, <1>9 DEF Next, Done

LEMMA AlwaysInv == Spec => []Inv
<1> QED  BY InvInit, InvStep, PTL DEF Spec

-----------------------------------------------------------------------------
\* Configuration, engine, event, trade, position and table keep their types
\* (_execute_signal and its callees).
THEOREM TypeCorrect == Spec => []TypeOK
<1>1. Inv => TypeOK
    BY DEF Inv
<1> QED  BY <1>1, AlwaysInv, PTL

\* Between pair orders the fill columns of the execution table add up to what
\* the exchange executed of each leg (_append_execution_row).
THEOREM AuditIsComplete == Spec => []AuditAddsUp
<1>1. Inv => AuditAddsUp
    <2> SUFFICES ASSUME Inv, pc \in {"advance", "resolve", "over"}, NEW l \in Legs
                 PROVE  net[l] = Audited(log, l)
        BY DEF AuditAddsUp
    <2>1. pc # "failed" /\ pc \notin HasFirst
        BY DEF HasFirst
    <2>2. net[l] = Audited(log, l) + 0
        BY <2>1 DEF Inv, Booked
    <2>3. Audited(log, l) \in Int
        BY AuditIsInt DEF Inv, TypeOK
    <2> QED  BY <2>2, <2>3
<1> QED  BY <1>1, AlwaysInv, PTL

\* Whatever became of its pair orders, the position of a session is hedged, and
\* what was executed beyond it is the first legs that the table shows filled
\* and not undone (_update_position, _reduce_position_after_exit,
\* _flatten_first_leg).
THEOREM HedgeIsKept == Spec => []PositionIsHedged
<1>1. Inv => PositionIsHedged
    <2> SUFFICES ASSUME Inv PROVE PositionIsHedged
        OBVIOUS
    <2>1. \A l \in Legs : position.units[l] = position.direction * position.quantity
        BY DEF Inv, Hedged
    <2>2. ASSUME pc \in {"advance", "resolve", "over"}, NEW l \in Legs
          PROVE  net[l] = position.units[l] + (IF l = config.first THEN Naked(log) ELSE 0)
        <3>1. pc # "failed" /\ pc \notin HasFirst
            BY <2>2 DEF HasFirst
        <3>2. net[l] = Audited(log, l) + 0
            BY <3>1 DEF Inv, Booked
        <3>3. Audited(log, l) \in Int
            BY AuditIsInt DEF Inv, TypeOK
        <3>4. Audited(log, l) = position.units[l] + (IF l = config.first THEN Naked(log) ELSE 0)
            BY DEF Inv, Covered
        <3> QED  BY <3>2, <3>3, <3>4
    <2> QED  BY <2>1, <2>2 DEF PositionIsHedged
<1> QED  BY <1>1, AlwaysInv, PTL

-----------------------------------------------------------------------------
\* Refinement: every step of the execution is a step of the session, or none.

\* The session a state shows, field by field.
Shown(phase, steps, busy, e, pairs, naked, entered, fill) ==
    [phase |-> phase, steps |-> steps, busy |-> busy, event |-> e,
     pairs |-> pairs, naked |-> naked, entered |-> entered, filled |-> fill]
PhaseAt(at) == IF at \in {"over", "failed"} THEN at ELSE "open"
Pairs == position.direction * position.quantity

LEMMA AbsFacts ==
    ASSUME Inv
    PROVE  /\ abs = Shown(PhaseAt(pc), step, IF event.signal # "NONE" THEN event.ts ELSE clock, event,
                          Pairs, Naked(log), position.entered, filled)
           /\ Session!Sgn(Pairs) = position.direction
           /\ Pairs * Session!Sgn(Pairs) = position.quantity
           /\ Pairs \in Int /\ Naked(log) \in Int /\ step \in Nat /\ clock \in Nat
           /\ \A l \in Legs : position.units[l] = Pairs
<1>1. abs = Shown(PhaseAt(pc), step, IF event.signal # "NONE" THEN event.ts ELSE clock, event,
                  Pairs, Naked(log), position.entered, filled)
    BY DEF abs, Shown, PhaseAt, Pairs
<1>2. /\ position.direction \in {-1, 0, 1} /\ position.quantity \in Nat
      /\ position.quantity = 0 <=> position.direction = 0
    BY DEF Inv, TypeOK, Positions, Hedged
<1>3. PICK d \in {-1, 0, 1}, q \in Nat : d = position.direction /\ q = position.quantity
    BY <1>2
<1>4. Session!Sgn(d * q) = d /\ (d * q) * Session!Sgn(d * q) = q /\ d * q \in Int
    <2>1. CASE d = 0
        BY <1>2, <1>3, <2>1 DEF Session!Sgn
    <2>2. CASE d = 1
        <3>1. d * q = q /\ q > 0
            BY <1>2, <1>3, <2>2
        <3> QED  BY <2>2, <3>1 DEF Session!Sgn
    <2>3. CASE d = -1
        <3>1. d * q = -q /\ q > 0
            BY <1>2, <1>3, <2>3
        <3> QED  BY <2>3, <3>1 DEF Session!Sgn
    <2> QED  BY <2>1, <2>2, <2>3
<1>5. Naked(log) \in Int /\ step \in Nat /\ clock \in Nat
    BY AuditIsInt DEF Inv, TypeOK
<1>6. Pairs = d * q
    BY <1>3 DEF Pairs
<1>7. \A l \in Legs : position.units[l] = Pairs
    BY DEF Inv, Hedged, Pairs
<1> QED  BY <1>1, <1>3, <1>4, <1>5, <1>6, <1>7, Zenon

\* What a pair order leaves of its first leg is what the exchange shows.
LEMMA NakedMoves ==
    ASSUME Inv, Inv', pc # "failed", pc' = "advance", config' = config, NEW l \in Legs, l = config.first
    PROVE  Naked(log') - Naked(log) =
              net'[l] - net[l] + (IF pc \in HasFirst THEN trade.sign ELSE 0)
              - (position'.units[l] - position.units[l])
<1>1. /\ net[l] = Audited(log, l) + (IF pc \in HasFirst THEN trade.sign ELSE 0)
      /\ Audited(log, l) = position.units[l] + Naked(log)
    BY DEF Inv, Booked, Covered
<1>2. /\ net'[l] = Audited(log', l) + 0
      /\ Audited(log', l) = position'.units[l] + Naked(log')
    BY DEF Inv, Booked, Covered, HasFirst
<1>3. /\ Audited(log, l) \in Int /\ Naked(log) \in Int /\ position.units[l] \in Int
    BY AuditIsInt DEF Inv, TypeOK, Positions
<1>4. /\ Audited(log', l) \in Int /\ Naked(log') \in Int /\ position'.units[l] \in Int
    <2>1. log' \in Seq(Rows) /\ position' \in Positions
        BY DEF Inv, TypeOK
    <2>2. PICK table \in Seq(Rows) : table = log'
        BY <2>1
    <2>3. Audited(table, l) \in Int /\ Naked(table) \in Int
        BY AuditIsInt
    <2>4. position'.units[l] \in Int
        BY <2>1 DEF Positions
    <2> QED  BY <2>2, <2>3, <2>4, Zenon
<1>5. pc \in HasFirst => trade.sign \in Int
    <2>1. pc \in HasFirst => pc \in Trading
        BY DEF HasFirst, Trading
    <2> QED  BY <2>1, TradingFacts
<1> QED  BY <1>1, <1>2, <1>3, <1>4, <1>5

\* While a pair order is on its way, the session shows its event.
LEMMA Unseen ==
    ASSUME Inv, Inv', pc \in Trading \cup {"resolve"}, pc' \in Trading,
           UNCHANGED <<step, event, position, log, filled>>
    PROVE  abs' = abs
<1>1. event.signal # "NONE"
    BY ConfigsAssumption DEF Inv, Decided, Trading, Session!Signals
<1>2. PhaseAt(pc) = "open" /\ PhaseAt(pc') = "open"
    BY DEF PhaseAt, Trading
<1>3. event' = event /\ step' = step /\ position' = position /\ log' = log /\ filled' = filled
    OBVIOUS
<1> QED  BY <1>1, <1>2, <1>3, Zenon DEF abs, PhaseAt

LEMMA SessionRaises ==
    ASSUME Inv, pc \in Trading, NEW leg, Raise(leg), step' = step
    PROVE  Session!Next
<1>1. event.signal # "NONE" /\ event.go
    BY ConfigsAssumption DEF Inv, Decided, Trading, Session!Signals
<1>2. PhaseAt(pc) = "open" /\ pc' = "failed" /\ PhaseAt("failed") = "failed"
    BY DEF PhaseAt, Trading, Raise
<1>3. UNCHANGED <<event, position, log, filled, clock>>
    BY DEF Raise
<1>4. abs = Shown("open", step, event.ts, event, Pairs, Naked(log), position.entered, filled)
    BY <1>1, <1>2 DEF abs, Shown, PhaseAt, Pairs
<1>5. abs' = Shown("failed", step, event.ts, event, Pairs, Naked(log), position.entered, filled)
    BY <1>1, <1>2, <1>3 DEF abs, Shown, PhaseAt, Pairs
<1>6. abs' = [abs EXCEPT !.phase = "failed"] /\ abs.phase = "open" /\ abs.event = event
    BY <1>4, <1>5 DEF Shown
<1>7. abs.event # Session!NoEvent /\ abs.event.go
    BY <1>1, <1>6 DEF Session!NoEvent
<1> QED  BY <1>6, <1>7 DEF Session!Next, Session!Resolve

\* What each step of the session leaves of the session shown.
NotFilled == FALSE

LEMMA DroppedShows ==
    ASSUME NEW p, NEW st, NEW b, NEW e, NEW n, NEW k, NEW en, NEW f,
           NEW s, s = Shown(p, st, b, e, n, k, en, f)
    PROVE  Session!Dropped(s) = Shown(p, st, b, Session!NoEvent, n, k, en, NotFilled)
<1>1. PICK none, no : none = Session!NoEvent /\ no = NotFilled
    OBVIOUS
<1>2. [s EXCEPT !.event = none] = Shown(p, st, b, none, n, k, en, f)
    BY DEF Shown
<1>3. PICK s1 : s1 = [s EXCEPT !.event = none]
    OBVIOUS
<1>4. s1 = Shown(p, st, b, none, n, k, en, f)
    BY <1>2, <1>3, Zenon
<1>5. [s1 EXCEPT !.filled = no] = Shown(p, st, b, none, n, k, en, no)
    BY <1>4 DEF Shown
<1>6. PICK s2 : s2 = [s1 EXCEPT !.filled = no]
    OBVIOUS
<1>7. s2 = Shown(p, st, b, none, n, k, en, no)
    BY <1>5, <1>6, Zenon
<1>8. [[s EXCEPT !.event = none] EXCEPT !.filled = no]
          = Shown(p, st, b, none, n, k, en, no)
    BY <1>3, <1>6, <1>7, Zenon
<1> QED  BY <1>1, <1>8, Zenon DEF Session!Dropped, NotFilled

LEMMA HandedShows ==
    ASSUME NEW p, NEW st, NEW b, NEW e, NEW n, NEW k, NEW en, NEW f, NEW x,
           NEW s, s = Shown(p, st, b, e, n, k, en, f)
    PROVE  Session!Handed(s, x) = Shown(p, st + 1, x.ts, x, n, k, en, f)
<1>1. s.steps = st
    BY DEF Shown
<1>2. [s EXCEPT !.steps = st + 1] = Shown(p, st + 1, b, e, n, k, en, f)
    BY DEF Shown
<1>3. PICK s1 : s1 = [s EXCEPT !.steps = st + 1]
    OBVIOUS
<1>4. s1 = Shown(p, st + 1, b, e, n, k, en, f)
    BY <1>2, <1>3, Zenon
<1>5. [s1 EXCEPT !.event = x] = Shown(p, st + 1, b, x, n, k, en, f)
    BY <1>4 DEF Shown
<1>6. PICK s2 : s2 = [s1 EXCEPT !.event = x]
    OBVIOUS
<1>7. s2 = Shown(p, st + 1, b, x, n, k, en, f)
    BY <1>5, <1>6, Zenon
<1>8. [s2 EXCEPT !.busy = x.ts] = Shown(p, st + 1, x.ts, x, n, k, en, f)
    BY <1>7 DEF Shown
<1>9. PICK s3 : s3 = [s2 EXCEPT !.busy = x.ts]
    OBVIOUS
<1>10. s3 = Shown(p, st + 1, x.ts, x, n, k, en, f)
    BY <1>8, <1>9, Zenon
<1>11. [[[s EXCEPT !.steps = st + 1] EXCEPT !.event = x] EXCEPT !.busy = x.ts]
          = Shown(p, st + 1, x.ts, x, n, k, en, f)
    BY <1>3, <1>6, <1>9, <1>10, Zenon
<1> QED  BY <1>1, <1>11 DEF Session!Handed

LEMMA UndoneShows ==
    ASSUME NEW p, NEW st, NEW b, NEW e, NEW n, NEW k, NEW en, NEW f, NEW t,
           NEW s, s = Shown(p, st, b, e, n, k, en, f)
    PROVE  Session!Undone(s, t) = Shown(p, st, t, Session!NoEvent, n, k, en, NotFilled)
<1>1. PICK none, no : none = Session!NoEvent /\ no = NotFilled
    OBVIOUS
<1>2. PICK o : o = Session!Dropped(s)
    OBVIOUS
<1>3. o = Shown(p, st, b, none, n, k, en, no)
    <2>1. Session!Dropped(s) = Shown(p, st, b, Session!NoEvent, n, k, en, NotFilled)
        BY DroppedShows
    <2> QED  BY <1>1, <1>2, <2>1, Zenon
<1>4. [o EXCEPT !.busy = t] = Shown(p, st, t, none, n, k, en, no)
    BY <1>3 DEF Shown
<1> QED  BY <1>1, <1>2, <1>4, Zenon DEF Session!Undone

LEMMA LeftNakedShows ==
    ASSUME NEW p, NEW st, NEW b, NEW e, NEW n, NEW k, NEW en, NEW f, NEW t, NEW d,
           NEW s, s = Shown(p, st, b, e, n, k, en, f)
    PROVE  Session!LeftNaked(s, t, d) = Shown(p, st, t, Session!NoEvent, n, k + d, en, NotFilled)
<1>1. PICK none, no : none = Session!NoEvent /\ no = NotFilled
    OBVIOUS
<1>2. PICK o : o = Session!Dropped(s)
    OBVIOUS
<1>3. o = Shown(p, st, b, none, n, k, en, no)
    <2>1. Session!Dropped(s) = Shown(p, st, b, Session!NoEvent, n, k, en, NotFilled)
        BY DroppedShows
    <2> QED  BY <1>1, <1>2, <2>1, Zenon
<1>4. o.naked = k
    BY <1>3 DEF Shown
<1>5. [o EXCEPT !.busy = t] = Shown(p, st, t, none, n, k, en, no)
    BY <1>3 DEF Shown
<1>6. PICK s1 : s1 = [o EXCEPT !.busy = t]
    OBVIOUS
<1>7. s1 = Shown(p, st, t, none, n, k, en, no)
    BY <1>5, <1>6, Zenon
<1>8. [s1 EXCEPT !.naked = k + d] = Shown(p, st, t, none, n, k + d, en, no)
    BY <1>7 DEF Shown
<1>9. PICK s2 : s2 = [s1 EXCEPT !.naked = k + d]
    OBVIOUS
<1>10. s2 = Shown(p, st, t, none, n, k + d, en, no)
    BY <1>8, <1>9, Zenon
<1>11. [[o EXCEPT !.busy = t] EXCEPT !.naked = k + d]
          = Shown(p, st, t, none, n, k + d, en, no)
    BY <1>6, <1>9, <1>10, Zenon
<1>12. [o EXCEPT !.busy = t].naked = k
    BY <1>4
<1> QED  BY <1>1, <1>2, <1>11, <1>12, Zenon DEF Session!LeftNaked

LEMMA TradedShows ==
    ASSUME NEW p, NEW st, NEW b, NEW e, NEW n, NEW k, NEW en, NEW f, NEW t, NEW d, NEW entry \in BOOLEAN,
           NEW s, s = Shown(p, st, b, e, n, k, en, f)
    PROVE  Session!Traded(s, t, d, entry) = Shown(p, st, t, Session!NoEvent, n + d, k, IF entry THEN e.ts ELSE en, entry)
<1>1. PICK none, no : none = Session!NoEvent /\ no = NotFilled
    OBVIOUS
<1>2. PICK o : o = Session!Dropped(s)
    OBVIOUS
<1>3. o = Shown(p, st, b, none, n, k, en, no)
    <2>1. Session!Dropped(s) = Shown(p, st, b, Session!NoEvent, n, k, en, NotFilled)
        BY DroppedShows
    <2> QED  BY <1>1, <1>2, <2>1, Zenon
<1>4. o.pairs = n /\ o.entered = en /\ s.event = e
    BY <1>3 DEF Shown
<1>5. [o EXCEPT !.busy = t] = Shown(p, st, t, none, n, k, en, no)
    BY <1>3 DEF Shown
<1>6. PICK s1 : s1 = [o EXCEPT !.busy = t]
    OBVIOUS
<1>7. s1 = Shown(p, st, t, none, n, k, en, no)
    BY <1>5, <1>6, Zenon
<1>8. [s1 EXCEPT !.pairs = n + d] = Shown(p, st, t, none, n + d, k, en, no)
    BY <1>7 DEF Shown
<1>9. PICK s2 : s2 = [s1 EXCEPT !.pairs = n + d]
    OBVIOUS
<1>10. s2 = Shown(p, st, t, none, n + d, k, en, no)
    BY <1>8, <1>9, Zenon
<1>11. [s2 EXCEPT !.filled = entry] = Shown(p, st, t, none, n + d, k, en, entry)
    BY <1>10 DEF Shown
<1>12. PICK s3 : s3 = [s2 EXCEPT !.filled = entry]
    OBVIOUS
<1>13. s3 = Shown(p, st, t, none, n + d, k, en, entry)
    BY <1>11, <1>12, Zenon
<1>14. [s3 EXCEPT !.entered = IF entry THEN e.ts ELSE en] = Shown(p, st, t, none, n + d, k, IF entry THEN e.ts ELSE en, entry)
    BY <1>13 DEF Shown
<1>15. PICK s4 : s4 = [s3 EXCEPT !.entered = IF entry THEN e.ts ELSE en]
    OBVIOUS
<1>16. s4 = Shown(p, st, t, none, n + d, k, IF entry THEN e.ts ELSE en, entry)
    BY <1>14, <1>15, Zenon
<1>17. [[[[o EXCEPT !.busy = t] EXCEPT !.pairs = n + d] EXCEPT !.filled = entry] EXCEPT !.entered = IF entry THEN e.ts ELSE en]
          = Shown(p, st, t, none, n + d, k, IF entry THEN e.ts ELSE en, entry)
    BY <1>6, <1>9, <1>12, <1>15, <1>16, Zenon
<1> QED  BY <1>1, <1>2, <1>4, <1>17, Zenon DEF Session!Traded

LEMMA AbsNext ==
    abs' = Shown(PhaseAt(pc'), step', IF event'.signal # "NONE" THEN event'.ts ELSE clock', event',
                 Pairs', Naked(log'), position'.entered, filled')
BY DEF abs, Shown, PhaseAt, Pairs

LEMMA SessionAdvances ==
    ASSUME Times = Nat, Inv, Inv', Advance
    PROVE  Session!Next
<1>1. /\ pc = "advance" /\ event = Session!NoEvent /\ EngineOK
      /\ UNCHANGED <<config, trade, position, net, log, filled>>
    BY DEF Inv, Decided, Advance, EngineOK, TypeOK
<1>2. event.signal = "NONE" /\ PhaseAt("advance") = "open" /\ PhaseAt("over") = "over" /\ PhaseAt("resolve") = "open"
    BY <1>1 DEF Session!NoEvent, PhaseAt
<1>3. abs = Shown("open", step, clock, event, Pairs, Naked(log), position.entered, filled)
    BY <1>1, <1>2, AbsFacts
<1>4. /\ Session!Sgn(Pairs) = position.direction /\ Pairs * Session!Sgn(Pairs) = position.quantity
      /\ clock \in Nat
    BY AbsFacts
<1>5. /\ abs.phase = "open" /\ abs.event = Session!NoEvent /\ abs.steps = step /\ abs.busy = clock
      /\ abs.pairs = Pairs /\ abs.entered = position.entered
    BY <1>1, <1>3 DEF Shown
<1>6. CASE pc' = "over" /\ UNCHANGED <<engine, step, event>>
    <2>1. abs' = Shown("over", step, clock, event, Pairs, Naked(log), position.entered, filled)
        BY <1>1, <1>2, <1>6 DEF abs, Shown, PhaseAt, Pairs, engine
    <2>2. abs' = Session!Over(abs)
        BY <1>3, <2>1 DEF Shown, Session!Over
    <2>3. abs' \in Session!Advanced(abs)
        BY <2>2 DEF Session!Advanced
    <2> QED  BY <1>5, <2>3 DEF Session!Next, Session!Advance
<1>7. CASE ~(pc' = "over" /\ UNCHANGED <<engine, step, event>>)
    <2>1. PICK l \in Legs, t \in Nat, g \in Signals, ok \in BOOLEAN :
            /\ t \in rows[l] /\ t = Min(rows["stock"] \cup rows["future"])
            /\ clock' = t /\ rows' = [rows EXCEPT ![l] = @ \ {t}] /\ late' = Later(late, t)
            /\ g \in Session!Signals(position.direction)
            /\ ok => Session!MayGo(g, position.quantity, position.entered, t)
            /\ event' = [ts |-> t, signal |-> g, go |-> ok]
            /\ step' = step + 1 /\ pc' = "resolve" /\ ~(step >= MaxSteps)
        <3>1. \E l \in Legs : LET t == Min(rows["stock"] \cup rows["future"]) IN
                /\ t \in rows[l]
                /\ clock' = t /\ rows' = [rows EXCEPT ![l] = @ \ {t}] /\ late' = Later(late, t)
                /\ \E g \in Session!Signals(position.direction), ok \in BOOLEAN :
                     /\ ok => Session!MayGo(g, position.quantity, position.entered, t)
                     /\ event' = [ts |-> t, signal |-> g, go |-> ok]
                /\ step' = step + 1 /\ pc' = "resolve" /\ ~(step >= MaxSteps)
            BY <1>7 DEF Advance
        <3>2. \A l \in Legs : rows[l] \subseteq Nat
            BY <1>1 DEF EngineOK
        <3>3. Session!Signals(position.direction) \subseteq Signals
            BY ConfigsAssumption DEF Session!Signals, Signals
        <3> QED  BY <3>1, <3>2, <3>3
    <2>2. clock <= t
        BY <1>1, <2>1, EngineAdvances
    <2>3. g # "NONE"
        BY <2>1, ConfigsAssumption DEF Session!Signals
    <2>4. PICK e \in [ts : Session!From(clock), signal : Session!Signals(position.direction), go : BOOLEAN] :
            e = event' /\ e.ts = t /\ e.signal = g /\ e.go = ok
        <3>1. t \in Session!From(clock)
            BY <2>2 DEF Session!From
        <3>2. PICK e \in [ts : Session!From(clock), signal : Session!Signals(position.direction), go : BOOLEAN] :
                e = [ts |-> t, signal |-> g, go |-> ok]
            BY <2>1, <3>1
        <3> QED  BY <2>1, <3>2
    <2>5. abs' = Shown("open", step + 1, t, e, Pairs, Naked(log), position.entered, filled)
        <3>1. event' = e /\ event'.signal # "NONE" /\ event'.ts = t
            BY <2>3, <2>4
        <3>2. step' = step + 1 /\ PhaseAt(pc') = "open"
            BY <1>2, <2>1
        <3> QED  BY <1>1, <3>1, <3>2 DEF abs, Shown, PhaseAt, Pairs
    <2>6. abs' = Session!Handed(abs, e)
        <3>1. Session!Handed(abs, e) = Shown("open", step + 1, e.ts, e, Pairs, Naked(log), position.entered, filled)
            BY <1>3, HandedShows
        <3> QED  BY <2>4, <2>5, <3>1, Zenon
    <2>7. e.go => Session!MayGo(e.signal, abs.pairs * Session!Sgn(abs.pairs), abs.entered, e.ts)
        BY <1>4, <1>5, <2>1, <2>4, Zenon
    <2>8. e \in {x \in [ts : Session!From(abs.busy), signal : Session!Signals(Session!Sgn(abs.pairs)), go : BOOLEAN] :
                   x.go => Session!MayGo(x.signal, abs.pairs * Session!Sgn(abs.pairs), abs.entered, x.ts)}
        BY <1>4, <1>5, <2>4, <2>7, Zenon
    <2>9. ~(abs.steps >= MaxSteps)
        BY <1>5, <2>1
    <2>10. abs' \in Session!Advanced(abs)
        BY <2>6, <2>8, <2>9, Zenon DEF Session!Advanced
    <2> QED  BY <1>5, <2>10 DEF Session!Next, Session!Advance
<1> QED  BY <1>6, <1>7

\* An event that is not traded: held, refused by the risk check, or blocked.
LEMMA SessionSkips ==
    ASSUME Inv, Inv', NEW blocked \in BOOLEAN, Resolve(blocked), ~(event.signal # "HOLD" /\ event.go /\ ~blocked)
    PROVE  Session!Next
<1>1. /\ pc = "resolve" /\ event.ts = clock /\ event.signal \in Session!Signals(position.direction)
      /\ event.go => event.signal # "HOLD"
      /\ UNCHANGED <<config, engine, step, position, net>>
    BY DEF Inv, Decided, Resolve
<1>2. event.signal # "NONE" /\ PhaseAt("advance") = "open" /\ PhaseAt("resolve") = "open" /\ ~(event.go /\ ~blocked)
    BY <1>1, ConfigsAssumption DEF Session!Signals, PhaseAt
<1>3. abs = Shown("open", step, clock, event, Pairs, Naked(log), position.entered, filled)
    BY <1>1, <1>2, AbsFacts
<1>4. event' = Session!NoEvent /\ pc' = "advance" /\ filled' = FALSE
    <2>1. CASE event.signal = "HOLD"
        BY <2>1 DEF Resolve
    <2>2. CASE event.signal # "HOLD"
        <3>1. Ends("RISK_SKIP", <<>>)
            BY <1>2, <2>2 DEF Resolve
        <3> QED  BY <3>1 DEF Ends
    <2> QED  BY <2>1, <2>2
<1>5. Naked(log') = Naked(log)
    <2>1. CASE event.signal = "HOLD"
        BY <2>1 DEF Resolve
    <2>2. CASE event.signal # "HOLD"
        <3>1. Ends("RISK_SKIP", <<>>)
            BY <1>2, <2>2 DEF Resolve
        <3>2. TypeOK /\ clock' \in Nat /\ event.ts \in Nat
            BY <1>1 DEF Inv, TypeOK
        <3>3. "RISK_SKIP" \in Statuses /\ "RISK_SKIP" # "FILLED" /\ <<>> \in Seq(Fills)
            BY DEF Statuses
        <3>4. Naked(log') = Naked(log) + (Executed(<<>>, "stock") + Executed(<<>>, "future"))
            BY <3>1, <3>2, <3>3, RowIsAdded
        <3>5. Executed(<<>>, "stock") = 0 /\ Executed(<<>>, "future") = 0 /\ Naked(log) \in Int
            BY ExecutedNothing, AbsFacts
        <3> QED  BY <3>4, <3>5
    <2> QED  BY <2>1, <2>2
<1>6. abs' = Shown("open", step, clock, Session!NoEvent, Pairs, Naked(log), position.entered, NotFilled)
    <2>1. event'.signal = "NONE"
        BY <1>4 DEF Session!NoEvent
    <2>2. PhaseAt(pc') = "open" /\ step' = step /\ clock' = clock /\ Pairs' = Pairs
        BY <1>1, <1>2, <1>4 DEF Pairs, engine
    <2>3. position'.entered = position.entered /\ filled' = NotFilled
        BY <1>1, <1>4 DEF NotFilled
    <2> QED  BY <1>4, <1>5, <2>1, <2>2, <2>3, AbsNext, Zenon
<1>7. abs' = Session!Dropped(abs) /\ abs.event = event /\ abs.phase = "open"
    <2>1. Session!Dropped(abs)
            = Shown("open", step, clock, Session!NoEvent, Pairs, Naked(log), position.entered, NotFilled)
        BY <1>3, DroppedShows
    <2>2. abs.event = event /\ abs.phase = "open"
        BY <1>3 DEF Shown
    <2> QED  BY <1>6, <2>1, <2>2, Zenon
<1>8. abs' \in Session!Resolved(abs, blocked)
    <2>1. ~abs.event.go \/ blocked
        BY <1>2, <1>7
    <2> QED  BY <1>7, <2>1, Zenon DEF Session!Resolved
<1>9. abs.event # Session!NoEvent
    BY <1>2, <1>7 DEF Session!NoEvent
<1> QED  BY <1>7, <1>8, <1>9 DEF Session!Next, Session!Resolve

\* A pair order that ends: nothing, the first leg left, or the pair.
LEMMA SessionEnds ==
    ASSUME Times = Nat, Inv, Inv', pc \in Trading, pc' = "advance", event' = Session!NoEvent, step' = step,
           clock' \in Nat, clock <= clock',
           \/ /\ filled' = FALSE /\ position' = position
              /\ Naked(log') \in {Naked(log), Naked(log) + trade.sign}
           \/ /\ filled' = (event.signal # "EXIT") /\ Naked(log') = Naked(log) /\ Pairs' = Pairs + trade.sign
              /\ position'.entered = IF event.signal # "EXIT" THEN event.ts ELSE position.entered
    PROVE  Session!Next
<1>1. /\ event.go /\ event.ts \in Nat /\ event.ts <= clock /\ trade.sign \in {-1, 1}
      /\ event.signal \in Session!Signals(position.direction) \ {"HOLD"}
      /\ trade.sign = Session!Sign(event.signal, position.direction)
    BY TradingFacts
<1>2. /\ event.signal # "NONE" /\ PhaseAt(pc) = "open" /\ PhaseAt("advance") = "open"
      /\ event.signal # "EXIT" <=> event.signal \in Sides
    BY <1>1, ConfigsAssumption DEF Session!Signals, PhaseAt, Trading
<1>3. abs = Shown("open", step, event.ts, event, Pairs, Naked(log), position.entered, filled)
    BY <1>2, AbsFacts
<1>4. Session!Sgn(Pairs) = position.direction /\ Pairs \in Int /\ Naked(log) \in Int
    BY AbsFacts
<1>5. PICK t \in Session!From(event.ts) : t = clock'
    <2>1. event.ts <= clock' /\ clock' \in Times
        BY <1>1 DEF Inv, TypeOK
    <2> QED  BY <2>1 DEF Session!From
<1>6. /\ abs.phase = "open" /\ abs.event = event /\ abs.event.go /\ abs.event.ts = event.ts
      /\ Session!Sgn(abs.pairs) = position.direction /\ abs.event # Session!NoEvent
    BY <1>1, <1>2, <1>3, <1>4 DEF Shown, Session!NoEvent
<1> DEFINE d == Session!Sign(abs.event.signal, Session!Sgn(abs.pairs))
           entry == abs.event.signal \in Sides
<1>7. d = trade.sign /\ (entry <=> event.signal # "EXIT")
    BY <1>1, <1>2, <1>6, Zenon
<1>9. abs' = Shown("open", step, t, Session!NoEvent, Pairs', Naked(log'), position'.entered, filled')
    <2>1. event'.signal = "NONE"
        BY DEF Session!NoEvent
    <2>2. PhaseAt(pc') = "open" /\ step' = step /\ clock' = t /\ event' = Session!NoEvent
        BY <1>2, <1>5
    <2> QED  BY <2>1, <2>2, AbsNext, Zenon
<1>10. abs' \in {Session!Undone(abs, t), Session!LeftNaked(abs, t, d), Session!Traded(abs, t, d, entry)}
    <2> HIDE DEF d, entry
    <2>1. CASE filled' = FALSE /\ position' = position /\ Naked(log') = Naked(log)
        <3>1. abs' = Shown("open", step, t, Session!NoEvent, Pairs, Naked(log), position.entered, NotFilled)
            BY <1>9, <2>1, Zenon DEF Pairs, NotFilled
        <3>2. Session!Undone(abs, t)
                = Shown("open", step, t, Session!NoEvent, Pairs, Naked(log), position.entered, NotFilled)
            BY <1>3, UndoneShows
        <3> QED  BY <3>1, <3>2, Zenon
    <2>2. CASE filled' = FALSE /\ position' = position /\ Naked(log') = Naked(log) + trade.sign
        <3>1. abs' = Shown("open", step, t, Session!NoEvent, Pairs, Naked(log) + d, position.entered, NotFilled)
            BY <1>7, <1>9, <2>2, Zenon DEF Pairs, NotFilled
        <3>2. Session!LeftNaked(abs, t, d)
                = Shown("open", step, t, Session!NoEvent, Pairs, Naked(log) + d, position.entered, NotFilled)
            BY <1>3, LeftNakedShows
        <3> QED  BY <3>1, <3>2, Zenon
    <2>3. CASE /\ filled' = (event.signal # "EXIT") /\ Naked(log') = Naked(log) /\ Pairs' = Pairs + trade.sign
               /\ position'.entered = IF event.signal # "EXIT" THEN event.ts ELSE position.entered
        <3>1. PICK own \in BOOLEAN : own = entry
            <4>1. entry \in BOOLEAN
                BY DEF entry
            <4> QED  BY <4>1, Zenon
        <3>2. filled' = own /\ position'.entered = IF own THEN event.ts ELSE position.entered
            BY <1>7, <2>3, <3>1
        <3>3. abs' = Shown("open", step, t, Session!NoEvent, Pairs + d, Naked(log),
                           IF own THEN event.ts ELSE position.entered, own)
            BY <1>7, <1>9, <2>3, <3>2, Zenon
        <3>4. Session!Traded(abs, t, d, own)
                = Shown("open", step, t, Session!NoEvent, Pairs + d, Naked(log),
                        IF own THEN event.ts ELSE position.entered, own)
            BY <1>3, TradedShows
        <3> QED  BY <3>1, <3>3, <3>4, Zenon
    <2> QED  BY <2>1, <2>2, <2>3
<1>11. abs' \in Session!Resolved(abs, FALSE)
    <2>1. ~(~abs.event.go \/ FALSE) /\ t \in Session!From(abs.event.ts)
        BY <1>6
    <2> HIDE DEF d, entry
    <2>2. abs' \in UNION {{Session!Undone(abs, x), Session!LeftNaked(abs, x, d), Session!Traded(abs, x, d, entry)}
                          : x \in Session!From(abs.event.ts)}
        BY <1>10, <2>1
    <2> USE DEF d, entry
    <2> QED  BY <2>1, <2>2, Zenon DEF Session!Resolved
<1> QED  BY <1>6, <1>11 DEF Session!Next, Session!Resolve

\* What the next state shows.
LEMMA ShownUnits ==
    ASSUME Inv'
    PROVE  Pairs' \in Int /\ \A l \in Legs : position'.units[l] = Pairs'
<1>1. position' \in Positions /\ \A l \in Legs : position'.units[l] = Pairs'
    BY DEF Inv, TypeOK, Hedged, Pairs
<1>2. "stock" \in Legs /\ \A l \in Legs : position'.units[l] \in Int
    BY <1>1 DEF Positions, Legs
<1> QED  BY <1>1, <1>2

LEMMA NakedIsInt ==
    ASSUME Inv'
    PROVE  Naked(log') \in Int
<1>1. log' \in Seq(Rows)
    BY DEF Inv, TypeOK
<1>2. \A table \in Seq(Rows) : Naked(table) \in Int
    BY AuditIsInt
<1> QED  BY <1>1, <1>2

\* An event without a pair: the first leg is undone, or left.
LEMMA SessionLeaves ==
    ASSUME Times = Nat, Inv, Inv', pc \in Trading, config' = config, step' = step, position' = position,
           clock <= clock', NEW status \in Statuses \ {"FILLED"}, NEW fills, Ends(status, fills),
           NEW left \in {0, trade.sign},
           net'[config.first] = net[config.first] + left - (IF pc \in HasFirst THEN trade.sign ELSE 0)
    PROVE  Session!Next
<1>1. pc # "failed" /\ pc' = "advance" /\ event' = Session!NoEvent /\ filled' = FALSE /\ clock' \in Nat
    <2>1. status # "FILLED"
        OBVIOUS
    <2>2. pc # "failed" /\ clock' \in Nat
        BY DEF Trading, Inv, TypeOK
    <2>3. pc' = "advance" /\ event' = Session!NoEvent
        BY DEF Ends
    <2>4. filled' = FALSE
        BY <2>1 DEF Ends
    <2> QED  BY <2>2, <2>3, <2>4
<1>2. PICK first \in Legs : first = config.first
    BY TradingFacts
<1>3. Naked(log') - Naked(log) =
         net'[first] - net[first] + (IF pc \in HasFirst THEN trade.sign ELSE 0)
         - (position'.units[first] - position.units[first])
    BY <1>1, <1>2, NakedMoves
<1>4. Naked(log) \in Int /\ Naked(log') \in Int
    BY AbsFacts, NakedIsInt
<1>5. /\ trade.sign \in Int /\ net[first] \in Int /\ net'[first] \in Int /\ position.units[first] \in Int
      /\ left \in Int /\ position'.units[first] = position.units[first]
    <2>1. trade.sign \in {-1, 1}
        BY TradingFacts
    <2>2. net \in [Legs -> Int] /\ net' \in [Legs -> Int] /\ position \in Positions
        BY DEF Inv, TypeOK
    <2> QED  BY <2>1, <2>2 DEF Positions
<1>6. Naked(log') = Naked(log) + left
    <2>1. PICK a, b \in Int : a = net[first] /\ b = net'[first]
        BY <1>5
    <2>2. b = a + left - (IF pc \in HasFirst THEN trade.sign ELSE 0)
        BY <1>2, <2>1
    <2>3. Naked(log') - Naked(log) = b - a + (IF pc \in HasFirst THEN trade.sign ELSE 0) - 0
        BY <1>3, <1>5, <2>1
    <2> QED  BY <1>4, <1>5, <2>2, <2>3
<1>7. Naked(log') \in {Naked(log), Naked(log) + trade.sign}
    BY <1>4, <1>6
<1> QED  BY <1>1, <1>7, SessionEnds

LEMMA StepFirstLeg ==
    ASSUME Times = Nat, Inv, Inv', FirstLeg
    PROVE  Session!Next \/ abs' = abs
<1>1. pc = "first" /\ config' = config /\ step' = step /\ position' = position /\ pc \in Trading /\ pc \notin HasFirst
    BY DEF FirstLeg, Trading, HasFirst
<1>2. EngineOK /\ config \in Configs /\ config.first \in Legs /\ trade.sign \in {-1, 1} /\ net \in [Legs -> Int]
    BY <1>1, TradingFacts
<1> PICK first \in Legs : first = config.first
    BY <1>2
<1> PICK sign \in {-1, 1} : sign = trade.sign
    BY <1>2
<1>3. ASSUME pc' = "delay", UNCHANGED <<event, log, filled>>
      PROVE  abs' = abs
    <2>1. pc' \in Trading
        BY <1>3 DEF Trading
    <2> QED  BY <1>1, <1>3, <2>1, Unseen
<1>4. ASSUME NEW fill \in BOOLEAN, Order(first, sign, fill), ~fill,
             Ends("FIRST_LEG_UNFILLED", <<Fill(first, sign, fill)>>)
      PROVE  Session!Next
    <2>1. clock <= clock'
        BY <1>2, <1>4, EngineOrders, Zenon
    <2>2. net'[first] = net[first] /\ net[first] \in Int
        <3>1. Order(first, sign, fill)
            BY <1>4
        <3>2. \A l \in Legs : net'[l] = net[l] + (IF l = first /\ fill THEN sign ELSE 0)
            BY <1>2, <3>1, OrderFacts
        <3> QED  BY <1>2, <1>4, <3>2
    <2>3. "FIRST_LEG_UNFILLED" \in Statuses \ {"FILLED"} /\ 0 \in {0, trade.sign}
        BY DEF Statuses
    <2>4. net'[config.first] = net[config.first] + 0 - (IF pc \in HasFirst THEN trade.sign ELSE 0)
        BY <1>1, <2>2
    <2>5. PICK fills : Ends("FIRST_LEG_UNFILLED", fills)
        BY <1>4
    <2> QED  BY <1>1, <2>1, <2>3, <2>4, <2>5, SessionLeaves
<1>5. ASSUME Raise(first)
      PROVE  Session!Next
    BY <1>1, <1>5, SessionRaises
<1>6. \/ Raise(first)
      \/ \E fill \in BOOLEAN :
            /\ Order(first, sign, fill)
            /\ \/ pc' = "delay" /\ UNCHANGED <<event, log, filled>>
               \/ ~fill /\ Ends("FIRST_LEG_UNFILLED", <<Fill(first, sign, fill)>>)
    BY Zenon DEF FirstLeg
<1> QED  BY <1>3, <1>4, <1>5, <1>6

LEMMA StepDelay ==
    ASSUME Times = Nat, Inv, Inv', Delay
    PROVE  Session!Next \/ abs' = abs
<1>1. /\ pc = "delay" /\ config' = config /\ step' = step /\ position' = position /\ net' = net
      /\ pc \in HasFirst /\ pc \in Trading
    BY DEF Delay, HasFirst, Trading
<1>2. EngineOK /\ config.first \in Legs /\ trade.sign \in {-1, 1} /\ net \in [Legs -> Int]
    BY <1>1, TradingFacts
<1>3. ASSUME pc' = "wait", UNCHANGED <<event, log, filled>>
      PROVE  abs' = abs
    <2>1. pc' \in Trading
        BY <1>3 DEF Trading
    <2> QED  BY <1>1, <1>3, <2>1, Unseen
<1>4. ASSUME UNCHANGED engine, Ends("SECOND_LEG_DELAY_END_OF_DATA", <<trade.first>>)
      PROVE  Session!Next
    <2>1. clock <= clock'
        BY <1>2, <1>4, EngineStays
    <2>2. PICK left \in {0, trade.sign} : left = trade.sign
        OBVIOUS
    <2>3. "SECOND_LEG_DELAY_END_OF_DATA" \in Statuses \ {"FILLED"}
        BY DEF Statuses
    <2>4. net'[config.first] = net[config.first] + left - (IF pc \in HasFirst THEN trade.sign ELSE 0)
        BY <1>1, <1>2, <2>2
    <2>5. PICK fills : Ends("SECOND_LEG_DELAY_END_OF_DATA", fills)
        BY <1>4
    <2> QED  BY <1>1, <2>1, <2>3, <2>4, <2>5, SessionLeaves
<1>5. \/ UNCHANGED engine /\ Ends("SECOND_LEG_DELAY_END_OF_DATA", <<trade.first>>)
      \/ pc' = "wait" /\ UNCHANGED <<event, log, filled>>
    BY Zenon DEF Delay
<1> QED  BY <1>3, <1>4, <1>5

LEMMA StepWait ==
    ASSUME Inv, Inv', Wait \/ ProfitCheck
    PROVE  abs' = abs
<1>1. pc \in Trading /\ pc' \in Trading /\ UNCHANGED <<step, event, position, log, filled>>
    BY DEF Wait, ProfitCheck, Flattens, Trading
<1> QED  BY <1>1, Unseen

LEMMA StepFlattenFirstLeg ==
    ASSUME Times = Nat, Inv, Inv', FlattenFirstLeg
    PROVE  Session!Next
<1>1. /\ pc = "flatten" /\ config' = config /\ step' = step /\ position' = position
      /\ pc \in HasFirst /\ pc \in Trading
    BY DEF FlattenFirstLeg, HasFirst, Trading
<1>2. EngineOK /\ config \in Configs /\ config.first \in Legs /\ trade.sign \in {-1, 1} /\ net \in [Legs -> Int]
    BY <1>1, TradingFacts
<1> PICK first \in Legs : first = config.first
    BY <1>2
<1> PICK sign \in {-1, 1} : sign = trade.sign
    BY <1>2
<1> PICK back \in {-1, 1} : back = -sign
    OBVIOUS
<1>3. PICK status \in Statuses \ {"FILLED"} : status = trade.status
    <2>1. trade \in Flattening
        BY <1>1, TradeFacts DEF Inv, TypeOK
    <2> QED  BY <2>1 DEF Flattening, Statuses, FailureStatuses
<1>4. ASSUME NEW left \in {0, trade.sign}, clock <= clock', NEW fills, Ends(status, fills),
             net'[first] = net[first] + left - sign
      PROVE  Session!Next
    <2>1. net'[config.first] = net[config.first] + left - (IF pc \in HasFirst THEN trade.sign ELSE 0)
        BY <1>1, <1>4
    <2> QED  BY <1>1, <1>4, <2>1, SessionLeaves
<1>5. ASSUME UNCHANGED <<engine, net>>, NEW fills, Ends(status, fills)
      PROVE  Session!Next
    <2>1. clock <= clock'
        BY <1>2, <1>5, EngineStays
    <2>2. PICK left \in {0, trade.sign} : left = sign
        OBVIOUS
    <2>3. net'[first] = net[first] + left - sign
        BY <1>2, <1>5, <2>2
    <2> QED  BY <1>4, <1>5, <2>1, <2>3
<1>6. ASSUME NEW fill \in BOOLEAN, Order(first, back, fill), NEW fills, Ends(status, fills)
      PROVE  Session!Next
    <2>1. clock <= clock'
        BY <1>2, <1>6, EngineOrders, Zenon
    <2>2. PICK left \in {0, trade.sign} : left = IF fill THEN 0 ELSE sign
        OBVIOUS
    <2>3. net'[first] = net[first] + (IF fill THEN back ELSE 0) /\ net[first] \in Int
        <3>1. Order(first, back, fill)
            BY <1>6
        <3>2. \A l \in Legs : net'[l] = net[l] + (IF l = first /\ fill THEN back ELSE 0)
            BY <1>2, <3>1, OrderFacts
        <3> QED  BY <1>2, <3>2
    <2>4. net'[first] = net[first] + left - sign
        BY <2>2, <2>3
    <2> QED  BY <1>4, <1>6, <2>1, <2>4
<1>7. ASSUME Raise(first)
      PROVE  Session!Next
    BY <1>1, <1>7, SessionRaises
<1>8. \/ Raise(first)
      \/ \E fills : UNCHANGED <<engine, net>> /\ Ends(status, fills)
      \/ \E fill \in BOOLEAN : \E fills : Order(first, back, fill) /\ Ends(status, fills)
    <2>1. \/ Raise(first)
          \/ UNCHANGED <<engine, net>> /\ Ends(status, Append(trade.fills, NoFill))
          \/ \E fill \in BOOLEAN : /\ Order(first, -sign, fill)
                                   /\ Ends(status, Append(trade.fills, Fill(first, -sign, fill)))
        BY <1>3, Zenon DEF FlattenFirstLeg
    <2> QED  BY <2>1, Zenon
<1> QED  BY <1>5, <1>6, <1>7, <1>8

LEMMA StepSecondLeg ==
    ASSUME Times = Nat, Inv, Inv', SecondLeg
    PROVE  Session!Next \/ abs' = abs
<1>1. pc = "second" /\ config' = config /\ step' = step /\ pc \in HasFirst /\ pc \in Trading /\ pc # "failed"
    BY DEF SecondLeg, HasFirst, Trading
<1>2. EngineOK /\ config \in Configs /\ config.first \in Legs /\ trade.sign \in {-1, 1} /\ net \in [Legs -> Int]
    BY <1>1, TradingFacts
<1> PICK first \in Legs : first = config.first
    BY <1>2
<1> PICK sign \in {-1, 1} : sign = trade.sign
    BY <1>2
<1> PICK leg \in Legs : leg = Other(first) /\ leg # first
    BY DEF Other, Legs
<1>3. ASSUME pc' = "flatten", UNCHANGED <<event, position, log, filled>>
      PROVE  abs' = abs
    <2>1. pc' \in Trading
        BY <1>3 DEF Trading
    <2> QED  BY <1>1, <1>3, <2>1, Unseen
<1>4. ASSUME NEW fill \in BOOLEAN, Order(leg, sign, fill), fill, NEW fills, Ends("FILLED", fills),
             position' = IF event.signal = "EXIT" THEN Closed(position) ELSE Opened(position, sign)
      PROVE  Session!Next
    <2>1. clock <= clock' /\ clock' \in Nat
        <3>1. clock <= clock'
            BY <1>2, <1>4, EngineOrders, Zenon
        <3> QED  BY <3>1 DEF Inv, TypeOK
    <2>2. pc' = "advance" /\ event' = Session!NoEvent /\ filled' = (event.signal # "EXIT")
        <3>1. Ends("FILLED", fills)
            BY <1>4
        <3> QED  BY <3>1 DEF Ends
    <2>3. net'[leg] = net[leg] + sign /\ net'[first] = net[first] /\ net[leg] \in Int /\ net[first] \in Int
        <3>1. Order(leg, sign, fill)
            BY <1>4
        <3>2. \A l \in Legs : net'[l] = net[l] + (IF l = leg /\ fill THEN sign ELSE 0)
            BY <1>2, <3>1, OrderFacts
        <3> QED  BY <1>2, <1>4, <3>2
    <2>4. /\ net[leg] = Audited(log, leg) + 0 /\ Audited(log, leg) = position.units[leg] + 0
          /\ net'[leg] = Audited(log', leg) + 0 /\ Audited(log', leg) = position'.units[leg] + 0
        BY <1>1, <2>2 DEF Inv, Booked, Covered, HasFirst
    <2>5. /\ Pairs \in Int /\ Naked(log) \in Int /\ \A l \in Legs : position.units[l] = Pairs
        BY AbsFacts
    <2>6. /\ Pairs' \in Int /\ \A l \in Legs : position'.units[l] = Pairs'
        BY ShownUnits
    <2>7. Pairs' = Pairs + sign
        BY <2>3, <2>4, <2>5, <2>6
    <2>8. Naked(log') = Naked(log)
        <3>1. Naked(log') - Naked(log) =
                 net'[first] - net[first] + (IF pc \in HasFirst THEN trade.sign ELSE 0)
                 - (position'.units[first] - position.units[first])
            BY <1>1, <2>2, NakedMoves
        <3>2. Naked(log') \in Int
            BY NakedIsInt
        <3>3. Naked(log') - Naked(log) = 0 + sign - (Pairs' - Pairs)
            BY <1>1, <2>3, <2>5, <2>6, <3>1
        <3>4. 0 + sign - (Pairs' - Pairs) = 0 /\ Naked(log) \in Int
            BY <2>5, <2>6, <2>7
        <3>5. Naked(log') - Naked(log) = 0
            BY <3>3, <3>4, Zenon
        <3> QED  BY <3>2, <3>4, <3>5
    <2>9. position'.entered = IF event.signal # "EXIT" THEN event.ts ELSE position.entered
        BY <1>4 DEF Closed, Opened
    <2> QED  BY <1>1, <2>1, <2>2, <2>7, <2>8, <2>9, SessionEnds
<1>5. ASSUME Raise(leg)
      PROVE  Session!Next
    BY <1>1, <1>5, SessionRaises
<1>6. \/ Raise(leg)
      \/ \E fill \in BOOLEAN :
            /\ Order(leg, sign, fill)
            /\ \/ pc' = "flatten" /\ UNCHANGED <<event, position, log, filled>>
               \/ /\ fill /\ Ends("FILLED", <<trade.first, Fill(leg, sign, fill)>>)
                  /\ position' = IF event.signal = "EXIT" THEN Closed(position) ELSE Opened(position, sign)
    BY Zenon DEF SecondLeg, Flattens
<1> QED  BY <1>3, <1>4, <1>5, <1>6

LEMMA StepResolve ==
    ASSUME Inv, Inv', NEW blocked \in BOOLEAN, Resolve(blocked)
    PROVE  Session!Next \/ abs' = abs
<1>1. CASE event.signal # "HOLD" /\ event.go /\ ~blocked
    <2>1. pc = "resolve" /\ pc' = "first" /\ UNCHANGED <<step, event, position, log, filled>>
        BY <1>1 DEF Resolve
    <2>2. pc' \in Trading
        BY <2>1 DEF Trading
    <2> QED  BY <2>1, <2>2, Unseen
<1>2. CASE ~(event.signal # "HOLD" /\ event.go /\ ~blocked)
    BY <1>2, SessionSkips
<1> QED  BY <1>1, <1>2

\* Seen from outside, a pair's session hands out its events one at a time and
\* makes of every pair order, with its orders, waits and failures, a single
\* step (advance_ and resolve_coordinated_event_session).
THEOREM SessionIsImplemented == ASSUME Times = Nat PROVE Spec => ImplementsSession
<1>1. Init => Session!Init
    <2> SUFFICES ASSUME Init PROVE abs = Session!Fresh
        BY DEF Session!Init
    <2>1. /\ clock = 0 /\ step = 0 /\ pc = "advance" /\ event = Session!NoEvent /\ log = <<>> /\ filled = FALSE
          /\ position.direction = 0 /\ position.quantity = 0 /\ position.entered = Session!Never
        BY DEF Init
    <2>2. Naked(log) = 0
        <3>1. Len(<<>>) = 0
            OBVIOUS
        <3> QED  BY <2>1, <3>1, SumNothing DEF Naked
    <2>3. event.signal = "NONE" /\ position.direction * position.quantity = 0
        BY <2>1 DEF Session!NoEvent
    <2> QED  BY <2>1, <2>2, <2>3 DEF abs, Session!Fresh
<1>2. ASSUME Inv, Inv', [Next]_vars PROVE [Session!Next]_abs
    <2>1. CASE Advance
        BY <1>2, <2>1, SessionAdvances
    <2>2. ASSUME NEW blocked \in BOOLEAN, Resolve(blocked) PROVE Session!Next \/ abs' = abs
        BY <1>2, <2>2, StepResolve
    <2>3. CASE FirstLeg
        BY <1>2, <2>3, StepFirstLeg
    <2>4. CASE Delay
        BY <1>2, <2>4, StepDelay
    <2>5. CASE Wait \/ ProfitCheck
        BY <1>2, <2>5, StepWait
    <2>6. CASE SecondLeg
        BY <1>2, <2>6, StepSecondLeg
    <2>7. CASE FlattenFirstLeg
        BY <1>2, <2>7, StepFlattenFirstLeg
    <2>8. CASE UNCHANGED vars
        BY <2>8 DEF vars, abs
    <2> QED  BY <1>2, <2>1, <2>2, <2>3, <2>4, <2>5, <2>6, <2>7, <2>8 DEF Next, Done
<1> QED  BY <1>1, <1>2, AlwaysInv, PTL DEF Spec, ImplementsSession, Session!Spec

-----------------------------------------------------------------------------
\* Places in the order of their times.

\* p goes through the places, each once.
Visits(p, k, places) ==
    /\ p \in [1..k -> places] /\ {p[i] : i \in 1..k} = places
    /\ \A i, j \in 1..k : i < j => p[i] # p[j]

LEMMA PlacesAreFinite ==
    ASSUME NEW n \in Nat, NEW P, P \subseteq 1..n
    PROVE  IsFiniteSet(P) /\ Cardinality(P) \in Nat
<1>1. IsFiniteSet(1..n)
    BY FS_Interval
<1>2. IsFiniteSet(P)
    BY <1>1, FS_Subset
<1> QED  BY <1>2, FS_CardinalityType

\* Some enumeration of a set of places is increasing.
Increasing(p, k, places) ==
    /\ p \in [1..k -> places] /\ {p[i] : i \in 1..k} = places
    /\ \A i, j \in 1..k : i < j => p[i] < p[j]

LEMMA IncreasingExists ==
    ASSUME NEW n \in Nat
    PROVE  \A P \in SUBSET (1..n) : \E p : Increasing(p, Cardinality(P), P)
<1> DEFINE S == {m \in Nat : \A P \in SUBSET (1..m) : \E p : Increasing(p, Cardinality(P), P)}
<1>1. 0 \in S
    <2> SUFFICES ASSUME NEW P \in SUBSET (1..0) PROVE \E p : Increasing(p, Cardinality(P), P)
        OBVIOUS
    <2>3. P = {}
        OBVIOUS
    <2>1. P = {} /\ Cardinality(P) = 0
        BY <2>3, FS_EmptySet, Zenon
    <2>2. Increasing([i \in 1..0 |-> 0], 0, {})
        BY DEF Increasing
    <2> QED  BY <2>1, <2>2
<1>2. \A m \in Nat : m \in S => m + 1 \in S
    <2> SUFFICES ASSUME NEW m \in Nat, m \in S, NEW P \in SUBSET (1..(m + 1))
                 PROVE  \E p : Increasing(p, Cardinality(P), P)
        OBVIOUS
    <2>1. CASE m + 1 \notin P
        <3>1. P \in SUBSET (1..m)
            BY <2>1
        <3> QED  BY <3>1
    <2>2. CASE m + 1 \in P
        <3>0. P \ {m + 1} \in SUBSET (1..m)
            OBVIOUS
        <3>1. PICK Q \in SUBSET (1..m) : Q = P \ {m + 1}
            BY <3>0
        <3>2. PICK k \in Nat : k = Cardinality(Q)
            BY PlacesAreFinite
        <3>3. IsFiniteSet(Q) /\ m + 1 \notin Q /\ Q \cup {m + 1} = P
            BY <2>2, <3>1, PlacesAreFinite
        <3>4. Cardinality(P) = k + 1
            <4>1. Cardinality(Q \cup {m + 1}) = Cardinality(Q) + 1
                BY <3>3, FS_AddElement
            <4> QED  BY <3>2, <3>3, <4>1
        <3>5. PICK q : Increasing(q, k, Q)
            BY <3>2
        <3> DEFINE p == [i \in 1..(k + 1) |-> IF i = k + 1 THEN m + 1 ELSE q[i]]
        <3>6. /\ q \in [1..k -> Q] /\ {q[i] : i \in 1..k} = Q
              /\ \A i, j \in 1..k : i < j => q[i] < q[j]
            BY <3>5 DEF Increasing
        <3>7. p \in [1..(k + 1) -> P]
            BY <3>3, <3>6
        <3>8. {p[i] : i \in 1..(k + 1)} = P
            <4>1. ASSUME NEW x \in P PROVE \E i \in 1..(k + 1) : p[i] = x
                <5>1. CASE x = m + 1
                    <6>1. k + 1 \in 1..(k + 1) /\ p[k + 1] = m + 1
                        OBVIOUS
                    <6> QED  BY <5>1, <6>1
                <5>2. CASE x \in Q
                    <6>1. PICK i \in 1..k : q[i] = x
                        BY <3>6, <5>2
                    <6>2. i \in 1..(k + 1) /\ p[i] = q[i]
                        OBVIOUS
                    <6> QED  BY <6>1, <6>2
                <5> QED  BY <3>3, <5>1, <5>2
            <4> QED  BY <3>7, <4>1
        <3>9. ASSUME NEW i \in 1..(k + 1), NEW j \in 1..(k + 1), i < j PROVE p[i] < p[j]
            <4>0. i \in 1..k /\ i # k + 1
                BY <3>9
            <4>1. i \in 1..k /\ p[i] = q[i] /\ q[i] \in 1..m
                BY <3>1, <3>6, <4>0
            <4>2. CASE j = k + 1
                BY <4>1, <4>2
            <4>3. CASE j # k + 1
                <5>1. j \in 1..k /\ p[j] = q[j]
                    BY <4>3
                <5> QED  BY <3>6, <3>9, <4>1, <5>1
            <4> QED  BY <4>2, <4>3
        <3> HIDE DEF p
        <3>10. Increasing(p, k + 1, P)
            BY <3>7, <3>8, <3>9 DEF Increasing
        <3> QED  BY <3>4, <3>10
    <2> QED  BY <2>1, <2>2
<1>3. Nat \subseteq S
    <2> HIDE DEF S
    <2> QED  BY <1>1, <1>2, Induction
<1> QED  BY <1>3

TimesGo(table) == \A i, j \in DOMAIN table : i < j => table[i].done <= table[j].done

LEMMA ArrangementIs ==
    ASSUME NEW table, NEW n \in Nat, DOMAIN table = 1..n, \A i \in 1..n : table[i].done \in Nat,
           TimesGo(table), NEW P, P \subseteq DOMAIN table, NEW p, p = Arrangement(table, P)
    PROVE  /\ Cardinality(P) \in Nat /\ IsFiniteSet(P)
           /\ Visits(p, Cardinality(P), P)
           /\ \A i, j \in 1..Cardinality(P) : i < j => table[p[i]].done <= table[p[j]].done
<1>1. PICK k \in Nat : k = Cardinality(P) /\ IsFiniteSet(P)
    BY PlacesAreFinite
<1>2. PICK q : Increasing(q, k, P)
    BY <1>1, IncreasingExists
<1>3. q \in [1..k -> P] /\ Arranges(q, table, P)
    <2>1. /\ q \in [1..k -> P] /\ {q[i] : i \in 1..k} = P /\ DOMAIN q = 1..k
          /\ \A i, j \in 1..k : i < j => q[i] < q[j]
        BY <1>2 DEF Increasing
    <2>2. ASSUME NEW i \in 1..k, NEW j \in 1..k, i < j
          PROVE  q[i] # q[j] /\ table[q[i]].done <= table[q[j]].done
        <3>1. q[i] \in 1..n /\ q[j] \in 1..n /\ q[i] < q[j]
            BY <2>1, <2>2
        <3> QED  BY <3>1 DEF TimesGo
    <2> QED  BY <2>1, <2>2 DEF Arranges
<1>4. p \in [1..k -> P] /\ Arranges(p, table, P)
    <2>1. \E x \in [1..k -> P] : Arranges(x, table, P)
        BY <1>3
    <2>2. p = CHOOSE x \in [1..k -> P] : Arranges(x, table, P)
        BY <1>1, Zenon DEF Arrangement
    <2> QED  BY <2>1, <2>2, Zenon
<1>5. DOMAIN p = 1..k
    BY <1>4
<1> QED  BY <1>1, <1>4, <1>5 DEF Arranges, Visits

\* What is added up along the places is added up of the whole table.
AlongPlaces(a, f, p, k) == \A i \in 1..k : a[i] = f[p[i]]
AtPlaces(c, f, places, n) == \A j \in 1..n : f[j] \in Int /\ c[j] = IF j \in places THEN f[j] ELSE 0

LEMMA SumVisited ==
    ASSUME NEW n \in Nat, NEW f, NEW k \in Nat, NEW P, P \subseteq 1..n, NEW p, Visits(p, k, P),
           NEW a, AlongPlaces(a, f, p, k), NEW c, AtPlaces(c, f, P, n)
    PROVE  SumTo(a, k) = SumTo(c, n)
<1>0. \A j \in 1..n : f[j] \in Int
    BY DEF AtPlaces
<1> DEFINE Along(q, m) == [i \in 1..m |-> f[q[i]]]
           In(Q) == [j \in 1..n |-> IF j \in Q THEN f[j] ELSE 0]
           S == {m \in Nat : \A Q \in SUBSET (1..n) : \A q : Visits(q, m, Q) => SumTo(Along(q, m), m) = SumTo(In(Q), n)}
<1>1. 0 \in S
    <2> SUFFICES ASSUME NEW Q \in SUBSET (1..n), NEW q, Visits(q, 0, Q)
                 PROVE  SumTo(Along(q, 0), 0) = SumTo(In(Q), n)
        BY Zenon
    <2>3. 1..0 = {} /\ {q[i] : i \in 1..0} = Q
        BY DEF Visits
    <2>1. Q = {}
        BY <2>3
    <2>2. \A j \in 1..n : In(Q)[j] = 0
        BY <2>1
    <2> HIDE DEF Along, In
    <2> QED  BY <2>2, SumOfZeros, SumNothing
<1>2. \A m \in Nat : m \in S => m + 1 \in S
    <2> HIDE DEF Along, In
    <2> SUFFICES ASSUME NEW m \in Nat, m \in S, NEW Q \in SUBSET (1..n), NEW q, Visits(q, m + 1, Q)
                 PROVE  SumTo(Along(q, m + 1), m + 1) = SumTo(In(Q), n)
        OBVIOUS
    <2> USE DEF Along, In
    <2>1. /\ q \in [1..(m + 1) -> Q] /\ {q[i] : i \in 1..(m + 1)} = Q
          /\ \A i, j \in 1..(m + 1) : i < j => q[i] # q[j]
        BY DEF Visits
    <2>0. m + 1 \in 1..(m + 1)
        OBVIOUS
    <2>2. PICK x \in 1..n : x = q[m + 1] /\ x \in Q
        <3>1. q[m + 1] \in Q /\ Q \subseteq 1..n
            BY <2>0, <2>1
        <3> QED  BY <3>1
    <2> DEFINE r == [i \in 1..m |-> q[i]]
               R == Q \ {x}
    <2>3. Visits(r, m, R)
        <3>1. ASSUME NEW i \in 1..m PROVE r[i] \in R
            <4>1. i \in 1..(m + 1) /\ m + 1 \in 1..(m + 1) /\ i < m + 1 /\ r[i] = q[i]
                OBVIOUS
            <4> QED  BY <2>1, <2>2, <4>1
        <3>2. ASSUME NEW y \in R PROVE \E i \in 1..m : r[i] = y
            <4>1. PICK i \in 1..(m + 1) : q[i] = y
                BY <2>1
            <4>2. i # m + 1
                BY <2>2, <4>1
            <4>3. i \in 1..m
                BY <4>2
            <4> QED  BY <4>1, <4>3
        <3>3. \A i, j \in 1..m : i < j => r[i] # r[j]
            BY <2>1
        <3>4. r \in [1..m -> R]
            BY <3>1
        <3> HIDE DEF r, R
        <3>5. {r[i] : i \in 1..m} = R
            BY <3>2, <3>4
        <3> QED  BY <3>3, <3>4, <3>5 DEF Visits
    <2>4. SumTo(Along(r, m), m) = SumTo(In(R), n)
        <3>1. R \in SUBSET (1..n)
            OBVIOUS
        <3> HIDE DEF Along, In, r, R
        <3> QED  BY <2>3, <3>1
    <2>5. \A i \in 1..m : Along(q, m + 1)[i] = Along(r, m)[i]
        OBVIOUS
    <2>6. Along(q, m + 1)[m + 1] = f[x]
        BY <2>2
    <2>7. In(R)[x] = 0 /\ In(Q)[x] = f[x] /\ f[x] \in Int
        BY <1>0, <2>2
    <2>8. \A j \in 1..n : In(R)[j] \in Int /\ In(Q)[j] \in Int
        BY <1>0
    <2>9. \A j \in 1..n : j # x => In(Q)[j] = In(R)[j]
        OBVIOUS
    <2> HIDE DEF Along, In, r, R
    <2>10. SumTo(In(Q), n) = SumTo(In(R), n) - In(R)[x] + In(Q)[x]
        BY <2>8, <2>9, SumMoves
    <2>11. SumTo(In(R), n) \in Int
        BY <2>8, SumIsInt
    <2>12. SumTo(Along(q, m + 1), m + 1) = SumTo(Along(q, m + 1), m) + Along(q, m + 1)[m + 1]
        BY SumOneMore
    <2>13. SumTo(Along(q, m + 1), m) = SumTo(Along(r, m), m)
        BY <2>5, SumsEqual
    <2> QED  BY <2>4, <2>6, <2>7, <2>10, <2>11, <2>12, <2>13
<1>3. Nat \subseteq S
    <2> HIDE DEF S
    <2> QED  BY <1>1, <1>2, Induction
<1>4. SumTo(Along(p, k), k) = SumTo(In(P), n)
    BY <1>3
<1>5. (\A i \in 1..k : Along(p, k)[i] = a[i]) /\ \A j \in 1..n : In(P)[j] = c[j]
    BY DEF AlongPlaces, AtPlaces
<1> HIDE DEF Along, In
<1>6. SumTo(Along(p, k), k) = SumTo(a, k) /\ SumTo(In(P), n) = SumTo(c, n)
    BY <1>5, SumsEqual
<1> QED  BY <1>4, <1>6

\* As many places are visited of a part of them as it has.
LEMMA CountVisited ==
    ASSUME NEW P, IsFiniteSet(P), NEW k \in Nat, NEW p, Visits(p, k, P), NEW T, T \subseteq P
    PROVE  Cardinality({i \in 1..k : p[i] \in T}) = Cardinality(T)
<1> DEFINE D == {i \in 1..k : p[i] \in T}
           b == [i \in D |-> p[i]]
<1>1. /\ p \in [1..k -> P] /\ {p[i] : i \in 1..k} = P
      /\ \A i, j \in 1..k : i < j => p[i] # p[j]
    BY DEF Visits
<1>2. b \in [D -> T] /\ \A y \in T : \E i \in D : b[i] = y
    BY <1>1
<1>3. \A i, j \in D : b[i] = b[j] => i = j
    <2> SUFFICES ASSUME NEW i \in D, NEW j \in D, b[i] = b[j], i # j PROVE FALSE
        OBVIOUS
    <2>1. i \in 1..k /\ j \in 1..k /\ p[i] = p[j] /\ (i < j \/ j < i)
        OBVIOUS
    <2> QED  BY <1>1, <2>1
<1>4. IsFiniteSet(D)
    BY PlacesAreFinite
<1> HIDE DEF D, b
<1>5. b \in Bijection(D, T)
    BY <1>2, <1>3 DEF Bijection, Injection, Surjection, IsInjective
<1>6. ExistsBijection(D, T)
    BY <1>5 DEF ExistsBijection
<1> QED  BY <1>4, <1>6, FS_Bijection DEF D

-----------------------------------------------------------------------------
\* What a row tells of the first leg it may have left.

Left == FailureStatuses \cup {"SECOND_LEG_DELAY_END_OF_DATA"}
Told(r) ==
    /\ Unhedged(r) = IF r.status \in Left THEN Exposure(r) ELSE 0
    /\ Filled(r, 3) <=> Undone(r) /\ r.status \in FailureStatuses \ {"SECOND_LEG_PROFIT_CHECK_FAILED"}

LEMMA SkipIsTold ==
    ASSUME NEW r, r.status = "RISK_SKIP", r.fills = <<>>
    PROVE  Told(r)
<1>1. Executed(r.fills, "stock") = 0 /\ Executed(r.fills, "future") = 0
    BY ExecutedNothing
<1>2. Unhedged(r) = 0
    BY <1>1 DEF Unhedged
<1>3. r.status \notin Left /\ ~Filled(r, 3)
    BY DEF Left, FailureStatuses, Filled
<1> QED  BY <1>2, <1>3 DEF Told, Left

LEMMA OneLegIsTold ==
    ASSUME NEW f \in Fills, NEW r, r.fills = <<f>>,
           \/ r.status = "FIRST_LEG_UNFILLED" /\ ~f.filled
           \/ r.status = "SECOND_LEG_DELAY_END_OF_DATA" /\ f.filled /\ f.leg \in Legs
    PROVE  Told(r)
<1>1. Executed(r.fills, "stock") = Units(f, "stock") /\ Executed(r.fills, "future") = Units(f, "future")
    BY ExecutedOne
<1>2. f.sign \in Int /\ f.filled \in BOOLEAN
    BY DEF Fills
<1>3. Len(r.fills) = 1 /\ r.fills[1] = f
    OBVIOUS
<1>4. ~Filled(r, 3) /\ (Filled(r, 1) <=> f.filled)
    BY <1>3 DEF Filled
<1>5. CASE r.status = "FIRST_LEG_UNFILLED" /\ ~f.filled
    <2>1. Unhedged(r) = 0
        BY <1>1, <1>5 DEF Unhedged, Units
    <2>2. r.status \notin Left
        BY <1>5 DEF Left, FailureStatuses
    <2> QED  BY <1>4, <2>1, <2>2 DEF Told, Left
<1>6. CASE r.status = "SECOND_LEG_DELAY_END_OF_DATA" /\ f.filled /\ f.leg \in Legs
    <2>1. Unhedged(r) = f.sign
        BY <1>1, <1>2, <1>6 DEF Unhedged, Units, Legs
    <2>2. Exposure(r) = f.sign /\ r.status \in Left /\ ~Undone(r)
        BY <1>3, <1>4, <1>6 DEF Left, Exposure, Undone, Filled
    <2> QED  BY <1>4, <2>1, <2>2 DEF Told, Left
<1> QED  BY <1>5, <1>6

LEMMA PairIsTold ==
    ASSUME NEW f \in Fills, NEW g \in Fills, NEW r, r.fills = <<f, g>>, r.status = "FILLED"
    PROVE  Told(r)
<1>1. Unhedged(r) = 0
    BY DEF Unhedged
<1>2. r.status \notin Left
    BY DEF Left, FailureStatuses
<1>3. Len(r.fills) = 2
    OBVIOUS
<1>4. ~Filled(r, 3)
    BY <1>3 DEF Filled
<1> QED  BY <1>1, <1>2, <1>4 DEF Told, Left

LEMMA FailureIsTold ==
    ASSUME NEW f \in Fills, NEW h \in Fills, NEW r, NEW fills \in BeforeFlatten(r.status, f),
           r.fills = Append(fills, h), r.status \in FailureStatuses, f.filled, f.leg \in Legs,
           h.filled => h.leg = f.leg /\ h.sign = -f.sign
    PROVE  Told(r)
<1>1. /\ Executed(r.fills, "stock") = Units(f, "stock") + Units(h, "stock")
      /\ Executed(r.fills, "future") = Units(f, "future") + Units(h, "future")
    BY BeforeFlattenFacts, ExecutedOneMore
<1>2. f.sign \in Int /\ h.sign \in Int /\ h.filled \in BOOLEAN
    BY DEF Fills
<1>3. /\ Filled(r, 1) /\ r.fills[1] = f /\ (Undone(r) <=> h.filled)
      /\ Filled(r, 3) <=> h.filled /\ r.status # "SECOND_LEG_PROFIT_CHECK_FAILED"
    <2>1. CASE r.status = "SECOND_LEG_PROFIT_CHECK_FAILED"
        <3>1. fills = <<f>> /\ r.fills = <<f, h>>
            <4>1. fills = <<f>>
                BY <2>1 DEF BeforeFlatten
            <4>2. Append(<<f>>, h) = <<f, h>>
                BY Appended
            <4> QED  BY <4>1, <4>2
        <3>2. Len(r.fills) = 2 /\ r.fills[1] = f /\ r.fills[2] = h
            BY <3>1
        <3> QED  BY <2>1, <3>2 DEF Filled, Undone
    <2>2. CASE r.status # "SECOND_LEG_PROFIT_CHECK_FAILED"
        <3>1. PICK g \in Fills : ~g.filled /\ r.fills = <<f, g, h>>
            <4>1. PICK g \in Fills : ~g.filled /\ fills = <<f, g>>
                BY <2>2 DEF BeforeFlatten
            <4>2. Append(<<f, g>>, h) = <<f, g, h>>
                BY Appended
            <4> QED  BY <4>1, <4>2
        <3>2. Len(r.fills) = 3 /\ r.fills[1] = f /\ r.fills[2] = g /\ r.fills[3] = h
            BY <3>1
        <3> QED  BY <2>2, <3>1, <3>2 DEF Filled, Undone
    <2> QED  BY <2>1, <2>2
<1>4. r.status # "FILLED" /\ r.status \in Left
    BY DEF FailureStatuses, Left
<1>5. Units(f, "stock") + Units(f, "future") = f.sign
    BY <1>2 DEF Units, Legs
<1>6. Units(h, "stock") + Units(h, "future") = IF h.filled THEN -f.sign ELSE 0
    BY <1>2 DEF Units, Legs
<1>7. \A l \in Legs : Units(f, l) \in Int /\ Units(h, l) \in Int
    BY <1>2 DEF Units
<1>8. Unhedged(r) = IF h.filled THEN 0 ELSE f.sign
    <2>1. Unhedged(r) = Executed(r.fills, "stock") + Executed(r.fills, "future")
        BY <1>4 DEF Unhedged
    <2> QED  BY <1>1, <1>2, <1>5, <1>6, <1>7, <2>1 DEF Legs
<1>9. Exposure(r) = IF h.filled THEN 0 ELSE f.sign
    BY <1>3 DEF Exposure
<1> QED  BY <1>3, <1>4, <1>8, <1>9 DEF Told

-----------------------------------------------------------------------------
\* The table in time.

\* Of three rows, two have ended at different times.
FewAtATime(table) ==
    \A i, j, k \in DOMAIN table : i < j /\ j < k => table[i].done < table[k].done

\* What may still end at this time: the rows of either leg, and the event being
\* decided or traded.
Due(l) == IF clock \in rows[l] THEN 1 ELSE 0
Open == IF pc \in Trading \cup {"resolve"} THEN 1 ELSE 0
DueNow == Due("stock") + Due("future") + Open

Slack ==
    /\ DueNow <= 2
    /\ \A i \in DOMAIN log : log[i].done = clock => DueNow <= 1
    /\ \A i, j \in DOMAIN log : i < j /\ log[i].done = clock /\ log[j].done = clock => DueNow = 0

Past == \A i \in DOMAIN log : log[i].done <= clock

\* The filled entries less the filled exits are the open pairs.
Counted ==
    Cardinality(Completed(log, "entry_execution")) - Cardinality(Completed(log, "exit_execution"))
        = position.quantity

ReportInv ==
    /\ \A i \in DOMAIN log : Told(log[i])
    /\ Past /\ TimesGo(log) /\ FewAtATime(log) /\ Slack /\ Counted

\* The engine stays, or passes what lies up to a later time.
Moves == \/ clock' = clock /\ rows' = rows
         \/ \E t \in Nat : clock <= t /\ GoesTo(t)

LEMMA MovesFacts ==
    ASSUME EngineOK, Moves
    PROVE  /\ clock \in Nat /\ clock' \in Nat /\ clock <= clock'
           /\ \A l \in Legs : /\ Due(l) \in {0, 1} /\ Due(l)' \in {0, 1} /\ Due(l)' <= Due(l)
                              /\ clock # clock' => Due(l)' = 0
<1>1. clock \in Nat
    BY DEF EngineOK
<1>2. CASE clock' = clock /\ rows' = rows
    BY <1>1, <1>2 DEF Due
<1>3. ASSUME NEW t \in Nat, clock <= t, GoesTo(t)
      PROVE  clock' \in Nat /\ clock <= clock' /\ \A l \in Legs : Due(l)' = 0
    <2>1. clock' = t /\ rows' = [l \in Legs |-> Later(rows[l], t)]
        BY <1>3 DEF GoesTo
    <2>2. \A l \in Legs : t \notin rows'[l]
        BY <2>1 DEF Later
    <2> QED  BY <1>3, <2>1, <2>2 DEF Due
<1>4. \A l \in Legs : Due(l) \in {0, 1}
    BY DEF Due
<1> QED  BY <1>1, <1>2, <1>3, <1>4 DEF Moves

LEMMA DueFacts ==
    ASSUME EngineOK, Moves
    PROVE  /\ Due("stock") + Due("future") \in Nat /\ Due("stock")' + Due("future")' \in Nat
           /\ Due("stock")' + Due("future")' <= Due("stock") + Due("future")
           /\ clock # clock' => Due("stock")' + Due("future")' = 0
BY MovesFacts DEF Legs

\* A step that ends no event.
LEMMA ReportStays ==
    ASSUME Inv, ReportInv, Moves, log' = log, position'.quantity = position.quantity,
           pc' \in Trading \cup {"resolve"} => pc \in Trading \cup {"resolve"}
    PROVE  ReportInv'
<1>1. EngineOK /\ log \in Seq(Rows)
    BY DEF Inv, TypeOK, EngineOK
<1>2. \A i \in DOMAIN log : log[i].done \in Nat /\ log[i].done <= clock
    <2>1. \A i \in DOMAIN log : log[i] \in Rows
        BY <1>1
    <2> QED  BY <2>1 DEF Rows, ReportInv, Past
<1>3. clock \in Nat /\ clock' \in Nat /\ clock <= clock'
    BY <1>1, MovesFacts
<1>4. PICK d, e \in Nat : /\ d = Due("stock") + Due("future") /\ e = Due("stock")' + Due("future")'
                          /\ e <= d /\ (clock # clock' => e = 0)
    BY <1>1, DueFacts
<1>5. PICK o, q \in {0, 1} : o = Open /\ q = Open' /\ q <= o
    BY DEF Open
<1>6. DueNow = d + o /\ DueNow' = e + q
    BY <1>4, <1>5 DEF DueNow
<1>7. Slack'
    <2>1. CASE clock' = clock
        <3>1. DueNow' <= DueNow /\ DueNow' \in Nat /\ DueNow \in Nat
            BY <1>4, <1>5, <1>6
        <3> QED  BY <2>1, <3>1 DEF ReportInv, Slack
    <2>2. CASE clock' # clock
        <3>1. DueNow' <= 2
            BY <1>4, <1>5, <1>6, <2>2
        <3>2. \A i \in DOMAIN log' : log'[i].done # clock'
            BY <1>2, <1>3, <2>2
        <3> QED  BY <3>1, <3>2 DEF Slack
    <2> QED  BY <2>1, <2>2
<1>8. Past'
    BY <1>2, <1>3 DEF Past
<1>9. Counted'
    BY DEF ReportInv, Counted
<1>10. (\A i \in DOMAIN log' : Told(log'[i])) /\ TimesGo(log') /\ FewAtATime(log')
    BY DEF ReportInv
<1> QED  BY <1>7, <1>8, <1>9, <1>10 DEF ReportInv

\* The counts of completed pairs, one row further.
LEMMA CompletedGrows ==
    ASSUME NEW table \in Seq(Rows), NEW r \in Rows, NEW type
    PROVE  LET grown == IF r.status = "FILLED" /\ RowType(r) = type THEN 1 ELSE 0
           IN  /\ Cardinality(Completed(table, type)) \in Nat
               /\ Cardinality(Completed(Append(table, r), type)) = Cardinality(Completed(table, type)) + grown
<1> DEFINE n == Len(table)
           C == {i \in 1..n : RowType(table[i]) = type /\ table[i].status = "FILLED"}
           D == {i \in 1..(n + 1) : RowType(Append(table, r)[i]) = type /\ Append(table, r)[i].status = "FILLED"}
<1>1. \A t : t \in Seq(Rows) =>
        Completed(t, type) = {i \in 1..Len(t) : RowType(t[i]) = type /\ t[i].status = "FILLED"}
    <2> SUFFICES ASSUME NEW t \in Seq(Rows)
                 PROVE  Completed(t, type) = {i \in 1..Len(t) : RowType(t[i]) = type /\ t[i].status = "FILLED"}
        OBVIOUS
    <2>1. DOMAIN t = 1..Len(t) /\ DOMAIN EntryExit(t) = 1..Len(t)
        BY DEF EntryExit
    <2>2. \A i \in 1..Len(t) : EntryExit(t)[i] = [type |-> RowType(t[i]), status |-> t[i].status]
        BY <2>1 DEF EntryExit
    <2>3. \A a, b : [type |-> a, status |-> b] = [type |-> type, status |-> "FILLED"] <=> a = type /\ b = "FILLED"
        OBVIOUS
    <2>4. \A i \in 1..Len(t) : EntryExit(t)[i] = [type |-> type, status |-> "FILLED"]
                               <=> RowType(t[i]) = type /\ t[i].status = "FILLED"
        BY <2>2, <2>3, Zenon
    <2>5. Completed(t, type) = {i \in 1..Len(t) : EntryExit(t)[i] = [type |-> type, status |-> "FILLED"]}
        BY <2>1, Zenon DEF Completed
    <2> QED  BY <2>4, <2>5
<1>2. n \in Nat /\ Append(table, r) \in Seq(Rows) /\ Len(Append(table, r)) = n + 1
      /\ Append(table, r)[n + 1] = r /\ \A i \in 1..n : Append(table, r)[i] = table[i]
    OBVIOUS
<1>3. Completed(table, type) = C /\ Completed(Append(table, r), type) = D
    BY <1>1, <1>2
<1>4. IsFiniteSet(C) /\ Cardinality(C) \in Nat /\ n + 1 \notin C
    BY <1>2, PlacesAreFinite
<1>5. D = IF r.status = "FILLED" /\ RowType(r) = type THEN C \cup {n + 1} ELSE C
    <2>1. \A i \in 1..(n + 1) : i \in 1..n \/ i = n + 1
        BY <1>2
    <2>2. \A i \in 1..n : i \in D <=> i \in C
        BY <1>2
    <2>3. n + 1 \in D <=> r.status = "FILLED" /\ RowType(r) = type
        BY <1>2
    <2>4. D \subseteq 1..(n + 1) /\ C \subseteq 1..n /\ n + 1 \notin 1..n
        BY <1>2
    <2> HIDE DEF C, D
    <2>5. CASE r.status = "FILLED" /\ RowType(r) = type
        BY <2>1, <2>2, <2>3, <2>4, <2>5
    <2>6. CASE ~(r.status = "FILLED" /\ RowType(r) = type)
        <3>1. \A i : i \in D <=> i \in C
            BY <2>1, <2>2, <2>3, <2>4, <2>6
        <3> QED  BY <2>6, <3>1
    <2> QED  BY <2>5, <2>6
<1> HIDE DEF C, D
<1>6. Cardinality(C \cup {n + 1}) = Cardinality(C) + 1
    BY <1>4, FS_AddElement
<1> QED  BY <1>3, <1>4, <1>5, <1>6

Gain(status) == IF status = "FILLED" THEN IF event.signal = "EXIT" THEN -1 ELSE 1 ELSE 0

\* A step that ends the event with a row.
LEMMA ReportGrows ==
    ASSUME Inv, ReportInv, Moves, pc \in Trading \cup {"resolve"}, event.ts \in Nat,
           NEW status \in Statuses, NEW fills \in Seq(Fills), Ends(status, fills),
           \A r \in Rows : r.status = status /\ r.fills = fills => Told(r),
           position'.quantity = position.quantity + Gain(status)
    PROVE  ReportInv'
<1>1. EngineOK /\ log \in Seq(Rows) /\ event \in Events
    BY DEF Inv, TypeOK, EngineOK
<1>2. clock \in Nat /\ clock' \in Nat /\ clock <= clock'
    BY <1>1, MovesFacts
<1>3. PICK r \in Rows : /\ log' = Append(log, r) /\ r.status = status /\ r.fills = fills
                        /\ r.done = clock' /\ r.signal = event.signal
    <2>1. /\ Row(status, fills).status = status /\ Row(status, fills).fills = fills
          /\ Row(status, fills).done = clock' /\ Row(status, fills).signal = event.signal
        BY DEF Row
    <2>2. Row(status, fills) \in Rows
        <3>1. event.signal \in Signals
            BY <1>1 DEF Events
        <3> QED  BY <1>2, <3>1 DEF Row, Rows
    <2>3. log' = Append(log, Row(status, fills))
        BY DEF Ends
    <2> QED  BY <2>1, <2>2, <2>3
<1>4. PICK n \in Nat : n = Len(log)
    BY <1>1
<1>5. /\ DOMAIN log = 1..n /\ DOMAIN log' = 1..(n + 1)
      /\ log'[n + 1] = r /\ \A i \in 1..n : log'[i] = log[i]
    BY <1>1, <1>3, <1>4
<1>6. \A i \in 1..n : log[i].done \in Nat /\ log[i].done <= clock
    <2>1. \A i \in 1..n : log[i] \in Rows
        BY <1>1, <1>5
    <2> QED  BY <1>5, <2>1 DEF Rows, ReportInv, Past
<1>7. PICK d, e \in Nat : /\ d = Due("stock") + Due("future") /\ e = Due("stock")' + Due("future")'
                          /\ e <= d /\ (clock # clock' => e = 0)
    BY <1>1, DueFacts
<1>8. Open = 1 /\ Open' = 0
    BY DEF Open, Ends, Trading
<1>9. DueNow = d + 1 /\ DueNow' = e
    BY <1>7, <1>8 DEF DueNow
<1>10. d + 1 <= 2 /\ (\A i \in 1..n : log[i].done = clock => d + 1 <= 1)
       /\ \A i, j \in 1..n : i < j /\ log[i].done = clock /\ log[j].done = clock => d + 1 = 0
    BY <1>5, <1>9 DEF ReportInv, Slack
<1>11. \A i \in 1..(n + 1) : i \in 1..n \/ i = n + 1
    BY <1>4
<1>12. Slack'
    <2>1. e <= 2 /\ \A i \in 1..(n + 1) : log'[i].done = clock' => e <= 1
        BY <1>2, <1>7, <1>10
    <2>2. ASSUME NEW i \in 1..(n + 1), NEW j \in 1..(n + 1), i < j, log'[i].done = clock', log'[j].done = clock'
          PROVE  e = 0
        <3>1. i \in 1..n /\ log'[i] = log[i]
            BY <1>5, <2>2
        <3>2. log[i].done = clock' /\ log[i].done <= clock
            BY <1>6, <2>2, <3>1
        <3>3. clock' = clock
            BY <1>2, <3>2
        <3> QED  BY <1>7, <1>10, <3>1, <3>2, <3>3
    <2> QED  BY <1>5, <1>9, <2>1, <2>2 DEF Slack
<1>13. Past' /\ TimesGo(log')
    <2>1. \A i \in 1..(n + 1) : log'[i].done \in Nat /\ log'[i].done <= clock'
        BY <1>2, <1>3, <1>5, <1>6, <1>11
    <2>2. ASSUME NEW i \in 1..(n + 1), NEW j \in 1..(n + 1), i < j
          PROVE  log'[i].done <= log'[j].done
        <3>1. CASE j = n + 1
            BY <1>3, <1>5, <2>1, <3>1
        <3>2. CASE j # n + 1
            <4>1. i \in 1..n /\ j \in 1..n
                BY <2>2, <3>2
            <4> QED  BY <1>5, <2>2, <4>1 DEF ReportInv, TimesGo
        <3> QED  BY <3>1, <3>2
    <2> QED  BY <1>5, <2>1, <2>2 DEF Past, TimesGo
<1>14. FewAtATime(log')
    <2> SUFFICES ASSUME NEW i \in 1..(n + 1), NEW j \in 1..(n + 1), NEW k \in 1..(n + 1), i < j, j < k
                 PROVE  log'[i].done < log'[k].done
        BY <1>5 DEF FewAtATime
    <2>1. i \in 1..n /\ j \in 1..n /\ log'[i] = log[i] /\ log'[j] = log[j]
        BY <1>5
    <2>2. CASE k = n + 1
        <3>1. log'[k].done = clock' /\ log[i].done <= log[j].done /\ log[j].done <= clock
              /\ log[i].done \in Nat /\ log[j].done \in Nat
            BY <1>3, <1>5, <1>6, <2>1, <2>2 DEF ReportInv, TimesGo
        <3>2. ~(log[i].done = clock /\ log[j].done = clock)
            BY <1>10, <2>1
        <3> QED  BY <1>2, <2>1, <3>1, <3>2
    <2>3. CASE k # n + 1
        <3>1. k \in 1..n
            BY <2>3
        <3> QED  BY <1>5, <2>1, <3>1 DEF ReportInv, FewAtATime
    <2> QED  BY <2>2, <2>3
<1>15. \A i \in DOMAIN log' : Told(log'[i])
    <2>1. Told(r)
        BY <1>3
    <2>2. \A i \in 1..n : Told(log[i])
        BY <1>5 DEF ReportInv
    <2>3. ASSUME NEW i \in 1..(n + 1) PROVE Told(log'[i])
        <3>1. CASE i = n + 1
            BY <1>5, <2>1, <3>1
        <3>2. CASE i \in 1..n
            <4>1. log'[i] = log[i] /\ Told(log[i])
                BY <1>5, <2>2, <3>2
            <4> QED  BY <4>1
        <3> QED  BY <1>11, <3>1, <3>2
    <2> QED  BY <1>5, <2>3
<1>16. Counted'
    <2>1. PICK a, b \in Nat : /\ a = Cardinality(Completed(log, "entry_execution"))
                              /\ b = Cardinality(Completed(log, "exit_execution"))
        BY <1>1, <1>3, CompletedGrows
    <2>2. Cardinality(Completed(log', "entry_execution"))
             = a + (IF r.status = "FILLED" /\ RowType(r) = "entry_execution" THEN 1 ELSE 0)
        BY <1>1, <1>3, <2>1, CompletedGrows
    <2>3. Cardinality(Completed(log', "exit_execution"))
             = b + (IF r.status = "FILLED" /\ RowType(r) = "exit_execution" THEN 1 ELSE 0)
        BY <1>1, <1>3, <2>1, CompletedGrows
    <2>4. a - b = position.quantity
        BY <2>1 DEF ReportInv, Counted
    <2>5. (IF r.status = "FILLED" /\ RowType(r) = "entry_execution" THEN 1 ELSE 0)
          - (IF r.status = "FILLED" /\ RowType(r) = "exit_execution" THEN 1 ELSE 0) = Gain(status)
        BY <1>3 DEF RowType, Gain
    <2>6. PICK x, y \in {0, 1} :
            /\ x = (IF r.status = "FILLED" /\ RowType(r) = "entry_execution" THEN 1 ELSE 0)
            /\ y = (IF r.status = "FILLED" /\ RowType(r) = "exit_execution" THEN 1 ELSE 0)
        OBVIOUS
    <2>7. (a + x) - (b + y) = position.quantity + Gain(status)
        BY <2>4, <2>5, <2>6
    <2> QED  BY <2>2, <2>3, <2>6, <2>7 DEF Counted
<1> QED  BY <1>12, <1>13, <1>14, <1>15, <1>16 DEF ReportInv

LEMMA ReportInit == Init => ReportInv
<1> SUFFICES ASSUME Init PROVE ReportInv
    OBVIOUS
<1>1. log = <<>> /\ DOMAIN log = {} /\ pc = "advance" /\ position.quantity = 0
    BY DEF Init
<1>2. Past /\ TimesGo(log) /\ FewAtATime(log) /\ \A i \in DOMAIN log : Told(log[i])
    BY <1>1 DEF Past, TimesGo, FewAtATime
<1>3. Slack
    <2>1. Due("stock") \in {0, 1} /\ Due("future") \in {0, 1} /\ Open = 0
        BY <1>1 DEF Due, Open, Trading
    <2>2. DueNow <= 2
        BY <2>1 DEF DueNow
    <2> QED  BY <1>1, <2>2 DEF Slack
<1>4. \A type : Completed(log, type) = {}
    BY <1>1 DEF Completed, EntryExit
<1>5. Counted
    <2>1. Completed(log, "entry_execution") = {} /\ Completed(log, "exit_execution") = {} /\ Cardinality({}) = 0
        BY <1>4, FS_EmptySet, Zenon
    <2>2. Cardinality(Completed(log, "entry_execution")) = 0 /\ Cardinality(Completed(log, "exit_execution")) = 0
        BY <2>1, Zenon
    <2> QED  BY <1>1, <2>2 DEF Counted
<1> QED  BY <1>2, <1>3, <1>5 DEF ReportInv

LEMMA ReportAdvance == Inv /\ ReportInv /\ Advance => ReportInv'
<1> SUFFICES ASSUME Inv, ReportInv, Advance PROVE ReportInv'
    OBVIOUS
<1>1. EngineOK /\ log \in Seq(Rows) /\ log' = log /\ position' = position /\ pc = "advance"
    BY DEF Inv, TypeOK, EngineOK, Advance
<1>2. CASE pc' = "over" /\ UNCHANGED <<engine, step, event>>
    <2>1. Moves
        BY <1>2 DEF Moves, engine
    <2>2. pc' \notin Trading \cup {"resolve"}
        BY <1>2 DEF Trading
    <2> QED  BY <1>1, <2>1, <2>2, ReportStays
<1>3. CASE pc' # "over" \/ ~UNCHANGED <<engine, step, event>>
    <2>1. PICK l \in Legs, t \in Nat :
            /\ t \in rows[l] /\ t = Min(rows["stock"] \cup rows["future"])
            /\ clock' = t /\ rows' = [rows EXCEPT ![l] = @ \ {t}] /\ late' = Later(late, t) /\ pc' = "resolve"
        BY <1>1, <1>3 DEF Advance, EngineOK
    <2>2. EngineOK' /\ clock <= clock'
        BY <1>1, <2>1, EngineAdvances
    <2>3. PICK k \in Legs : k # l /\ \A x \in Legs : x = l \/ x = k
        BY DEF Legs
    <2>4. rows' \in [Legs -> SUBSET Nat] /\ clock' \notin rows'[l] /\ rows'[k] = rows[k]
        BY <1>1, <2>1, <2>3 DEF EngineOK
    <2>5. Due(l)' = 0 /\ Due(k)' \in {0, 1} /\ Due(l) \in {0, 1} /\ Due(k) \in {0, 1}
        BY <2>4 DEF Due
    <2>6. clock' = clock => Due(l) = 1 /\ Due(k)' = Due(k)
        BY <2>1, <2>4 DEF Due
    <2>7. Open = 0 /\ Open' = 1
        BY <1>1, <2>1 DEF Open, Trading
    <2>8. DueNow = Due(l) + Due(k) + 0 /\ DueNow' = Due(l)' + Due(k)' + 1
        <3>1. (l = "stock" /\ k = "future") \/ (l = "future" /\ k = "stock")
            BY <2>3 DEF Legs
        <3> QED  BY <2>5, <2>7, <3>1 DEF DueNow
    <2>9. DueNow' <= 2 /\ (clock' = clock => DueNow' = DueNow)
        BY <2>5, <2>6, <2>8
    <2>10. \A i \in DOMAIN log : log[i].done \in Nat /\ log[i].done <= clock
        <3>1. \A i \in DOMAIN log : log[i] \in Rows
            BY <1>1
        <3> QED  BY <3>1 DEF Rows, ReportInv, Past
    <2>11. clock \in Nat /\ clock' \in Nat
        BY <1>1, <2>2 DEF EngineOK
    <2>12. Slack'
        <3>1. CASE clock' = clock
            BY <1>1, <2>9, <3>1 DEF ReportInv, Slack
        <3>2. CASE clock' # clock
            <4>1. \A i \in DOMAIN log' : log'[i].done # clock'
                BY <1>1, <2>2, <2>10, <2>11, <3>2
            <4> QED  BY <2>9, <4>1 DEF Slack
        <3> QED  BY <3>1, <3>2
    <2>13. Past'
        BY <1>1, <2>2, <2>10, <2>11 DEF Past
    <2>14. Counted' /\ (\A i \in DOMAIN log' : Told(log'[i])) /\ TimesGo(log') /\ FewAtATime(log')
        BY <1>1 DEF ReportInv, Counted
    <2> QED  BY <2>12, <2>13, <2>14 DEF ReportInv
<1> QED  BY <1>2, <1>3

LEMMA OrderMoves ==
    ASSUME EngineOK, config \in Configs, NEW leg \in Legs, NEW sign, NEW fill, Order(leg, sign, fill)
    PROVE  Moves
<1>1. PICK t : GoesTo(t)
    BY DEF Order
<1>2. EngineOK' /\ clock <= clock'
    BY EngineOrders
<1>3. t = clock'
    BY <1>1 DEF GoesTo
<1>4. t \in Nat /\ clock <= t
    BY <1>2, <1>3 DEF EngineOK
<1> QED  BY <1>1, <1>4 DEF Moves

LEMMA ElapseMoves ==
    ASSUME EngineOK, NEW d \in Nat, Elapse(d)
    PROVE  Moves
<1>1. clock + d \in Nat /\ clock <= clock + d /\ GoesTo(clock + d)
    BY DEF Elapse, EngineOK
<1> QED  BY <1>1 DEF Moves

\* An event that completes no pair.
LEMMA ReportEnds ==
    ASSUME Inv, ReportInv, Moves, pc \in Trading \cup {"resolve"}, event.ts \in Nat, position' = position,
           NEW status \in Statuses \ {"FILLED"}, NEW fills \in Seq(Fills), Ends(status, fills),
           \A r \in Rows : r.status = status /\ r.fills = fills => Told(r)
    PROVE  ReportInv'
<1>1. Gain(status) = 0 /\ position.quantity \in Nat
    BY DEF Gain, Inv, TypeOK, Positions
<1>2. position'.quantity = position.quantity + Gain(status)
    BY <1>1
<1> QED  BY <1>2, ReportGrows

LEMMA ReportResolve ==
    ASSUME Inv, ReportInv, NEW blocked \in BOOLEAN, Resolve(blocked)
    PROVE  ReportInv'
<1>1. Moves /\ position' = position /\ pc = "resolve" /\ event.ts \in Nat
    <2>1. pc = "resolve" /\ UNCHANGED engine /\ position' = position
        BY DEF Resolve
    <2> QED  BY <2>1 DEF Moves, engine, Inv, TypeOK, Decided
<1>2. CASE event.signal = "HOLD" \/ (event.signal # "HOLD" /\ event.go /\ ~blocked)
    <2>1. log' = log
        BY <1>2 DEF Resolve
    <2> QED  BY <1>1, <2>1, ReportStays
<1>3. CASE event.signal # "HOLD" /\ (~event.go \/ blocked)
    <2>1. Ends("RISK_SKIP", <<>>) /\ "RISK_SKIP" \in Statuses \ {"FILLED"} /\ <<>> \in Seq(Fills)
        BY <1>3 DEF Resolve, Statuses
    <2> QED  BY <1>1, <2>1, SkipIsTold, ReportEnds
<1> QED  BY <1>2, <1>3

LEMMA ReportRaises ==
    ASSUME Inv, ReportInv, NEW leg, Raise(leg)
    PROVE  ReportInv'
<1>1. pc' = "failed" /\ clock' = clock /\ rows' = rows /\ position' = position /\ log' = log
    BY DEF Raise
<1>2. Moves /\ pc' \notin Trading \cup {"resolve"}
    BY <1>1 DEF Moves, Trading
<1> QED  BY <1>1, <1>2, ReportStays

LEMMA ReportFirstLeg == Inv /\ ReportInv /\ FirstLeg => ReportInv'
<1> SUFFICES ASSUME Inv, ReportInv, FirstLeg PROVE ReportInv'
    OBVIOUS
<1>1. pc = "first" /\ pc \in Trading /\ position' = position
    BY DEF FirstLeg, Trading
<1>2. EngineOK /\ config \in Configs /\ config.first \in Legs /\ event.ts \in Nat /\ trade.sign \in {-1, 1}
    BY <1>1, TradingFacts
<1> PICK first \in Legs : first = config.first
    BY <1>2
<1> PICK sign \in {-1, 1} : sign = trade.sign
    BY <1>2
<1>3. ASSUME NEW fill \in BOOLEAN, Order(first, sign, fill), log' = log
      PROVE  ReportInv'
    <2>1. Moves
        BY <1>2, <1>3, OrderMoves, Zenon
    <2> QED  BY <1>1, <1>3, <2>1, ReportStays
<1>4. ASSUME NEW fill \in BOOLEAN, Order(first, sign, fill), ~fill,
             Ends("FIRST_LEG_UNFILLED", <<Fill(first, sign, fill)>>)
      PROVE  ReportInv'
    <2>1. Moves
        BY <1>2, <1>4, OrderMoves, Zenon
    <2>2. PICK f \in Fills : f = Fill(first, sign, fill)
        BY FillFacts
    <2>3. ~f.filled
        BY <1>4, <2>2 DEF Fill
    <2>4. \A r \in Rows : r.status = "FIRST_LEG_UNFILLED" /\ r.fills = <<f>> => Told(r)
        BY <2>3, OneLegIsTold
    <2>5. "FIRST_LEG_UNFILLED" \in Statuses \ {"FILLED"} /\ <<f>> \in Seq(Fills)
        BY DEF Statuses
    <2>6. Ends("FIRST_LEG_UNFILLED", <<f>>)
        BY <1>4, <2>2
    <2> QED  BY <1>1, <1>2, <2>1, <2>4, <2>5, <2>6, ReportEnds
<1>5. ASSUME Raise(first) PROVE ReportInv'
    BY <1>5, ReportRaises
<1>6. \/ Raise(first)
      \/ \E fill \in BOOLEAN :
            /\ Order(first, sign, fill)
            /\ log' = log \/ (~fill /\ Ends("FIRST_LEG_UNFILLED", <<Fill(first, sign, fill)>>))
    <2>1. \/ Raise(first)
          \/ \E fill \in BOOLEAN :
                /\ Order(first, sign, fill)
                /\ IF fill THEN UNCHANGED <<event, log, filled>>
                   ELSE Ends("FIRST_LEG_UNFILLED", <<Fill(first, sign, fill)>>)
        BY Zenon DEF FirstLeg
    <2>2. UNCHANGED <<event, log, filled>> => log' = log
        OBVIOUS
    <2> QED  BY <2>1, <2>2, Zenon
<1> QED  BY <1>3, <1>4, <1>5, <1>6

\* Past the first leg, its fill.
LEMMA FirstIsFilled ==
    ASSUME Inv, pc \in HasFirst
    PROVE  \E f \in Fills : /\ f = Fill(config.first, trade.sign, TRUE)
                            /\ f.filled /\ f.leg \in Legs /\ f.leg = config.first /\ f.sign = trade.sign
<1>1. pc \in Trading
    BY DEF Trading, HasFirst
<1>2. config.first \in Legs /\ trade.sign \in {-1, 1}
    BY <1>1, TradingFacts
<1>3. Fill(config.first, trade.sign, TRUE) \in Fills
    BY <1>2, FillFacts
<1> QED  BY <1>2, <1>3 DEF Fill

LEMMA ReportDelay == Inv /\ ReportInv /\ Delay => ReportInv'
<1> SUFFICES ASSUME Inv, ReportInv, Delay PROVE ReportInv'
    OBVIOUS
<1>1. pc = "delay" /\ pc \in HasFirst /\ pc \in Trading /\ position' = position
    BY DEF Delay, HasFirst, Trading
<1>2. TypeOK /\ EngineOK /\ config \in Configs /\ config.first \in Legs /\ event.ts \in Nat
    BY <1>1, TradingFacts
<1>3. PICK f \in Fills : f = trade.first /\ f.filled /\ f.leg \in Legs
    <2>1. trade.first = Fill(config.first, trade.sign, TRUE)
        BY <1>1 DEF Inv, FirstFilled
    <2> QED  BY <1>1, <2>1, FirstIsFilled
<1>4. ASSUME UNCHANGED engine, Ends("SECOND_LEG_DELAY_END_OF_DATA", <<f>>)
      PROVE  ReportInv'
    <2>1. Moves
        BY <1>4 DEF Moves, engine
    <2>2. "SECOND_LEG_DELAY_END_OF_DATA" \in Statuses \ {"FILLED"} /\ <<f>> \in Seq(Fills)
        BY DEF Statuses
    <2>3. \A r \in Rows : r.status = "SECOND_LEG_DELAY_END_OF_DATA" /\ r.fills = <<f>> => Told(r)
        BY <1>3, OneLegIsTold
    <2> QED  BY <1>1, <1>2, <1>4, <2>1, <2>2, <2>3, ReportEnds
<1>5. ASSUME (config.delay > 0 /\ Elapse(config.delay)) \/ UNCHANGED engine, log' = log
      PROVE  ReportInv'
    <2>1. Moves
        <3>1. CASE config.delay > 0 /\ Elapse(config.delay)
            <4>1. config.delay \in Nat
                BY <1>2, <3>1, ConfigFacts
            <4> QED  BY <1>2, <3>1, <4>1, ElapseMoves
        <3>2. CASE UNCHANGED engine
            BY <3>2 DEF Moves, engine
        <3> QED  BY <1>5, <3>1, <3>2
    <2> QED  BY <1>1, <1>5, <2>1, ReportStays
<1>6. \/ UNCHANGED engine /\ Ends("SECOND_LEG_DELAY_END_OF_DATA", <<f>>)
      \/ ((config.delay > 0 /\ Elapse(config.delay)) \/ UNCHANGED engine) /\ log' = log
    <2>1. \/ UNCHANGED engine /\ Ends("SECOND_LEG_DELAY_END_OF_DATA", <<f>>)
          \/ /\ (config.delay > 0 /\ Elapse(config.delay)) \/ UNCHANGED engine
             /\ UNCHANGED <<event, log, filled>>
        BY <1>3, Zenon DEF Delay
    <2> QED  BY <2>1
<1> QED  BY <1>4, <1>5, <1>6

LEMMA ReportWait == Inv /\ ReportInv /\ (Wait \/ ProfitCheck) => ReportInv'
<1> SUFFICES ASSUME Inv, ReportInv, Wait \/ ProfitCheck PROVE ReportInv'
    OBVIOUS
<1>1. pc \in Trading /\ position' = position /\ log' = log
    BY DEF Wait, ProfitCheck, Trading
<1>2. EngineOK /\ config \in Configs
    BY <1>1, TradingFacts
<1>3. Moves
    <2>1. CASE UNCHANGED engine
        BY <2>1 DEF Moves, engine
    <2>2. ASSUME NEW d, d = Min({config.poll, trade.deadline - clock}), d > 0, Elapse(d), Wait
          PROVE  Moves
        <3>1. pc = "wait"
            BY <2>2 DEF Wait
        <3>2. trade \in Waiting
            BY <3>1, TradeFacts DEF Inv, TypeOK
        <3>3. config.poll \in Int /\ trade.deadline - clock \in Int
            BY <1>2, <3>2, ConfigFacts DEF Waiting, EngineOK
        <3>4. d \in {config.poll, trade.deadline - clock}
            <4>1. \A a, b \in Int : Min({a, b}) \in {a, b}
                BY LeastOfTwo
            <4> QED  BY <2>2, <3>3, <4>1
        <3>5. d \in Nat
            BY <2>2, <3>3, <3>4
        <3> QED  BY <1>2, <2>2, <3>5, ElapseMoves
    <2>3. \/ UNCHANGED engine
          \/ \E d : d = Min({config.poll, trade.deadline - clock}) /\ d > 0 /\ Elapse(d) /\ Wait
        BY Zenon DEF Wait, ProfitCheck
    <2> QED  BY <2>1, <2>2, <2>3
<1> QED  BY <1>1, <1>3, ReportStays

LEMMA ReportSecondLeg == Inv /\ ReportInv /\ SecondLeg => ReportInv'
<1> SUFFICES ASSUME Inv, ReportInv, SecondLeg PROVE ReportInv'
    OBVIOUS
<1>1. pc = "second" /\ pc \in HasFirst /\ pc \in Trading
    BY DEF SecondLeg, HasFirst, Trading
<1>2. /\ TypeOK /\ EngineOK /\ config \in Configs /\ config.first \in Legs
      /\ event.ts \in Nat /\ event \in Events /\ trade.sign \in {-1, 1}
      /\ event.signal \in Session!Signals(position.direction) \ {"HOLD"}
      /\ trade.sign = Session!Sign(event.signal, position.direction)
    BY <1>1, TradingFacts
<1> PICK leg \in Legs : leg = Other(config.first)
    BY DEF Other, Legs
<1> PICK sign \in {-1, 1} : sign = trade.sign
    BY <1>2
<1>3. PICK f \in Fills : f = trade.first
    <2>1. trade.first = Fill(config.first, trade.sign, TRUE)
        BY <1>1 DEF Inv, FirstFilled
    <2> QED  BY <1>1, <2>1, FirstIsFilled
<1>4. ASSUME NEW fill \in BOOLEAN, Order(leg, sign, fill), position' = position, log' = log
      PROVE  ReportInv'
    <2>1. Moves
        BY <1>2, <1>4, OrderMoves, Zenon
    <2> QED  BY <1>1, <1>4, <2>1, ReportStays
<1>5. ASSUME NEW fill \in BOOLEAN, Order(leg, sign, fill), Ends("FILLED", <<f, Fill(leg, sign, fill)>>),
             position' = IF event.signal = "EXIT" THEN Closed(position) ELSE Opened(position, sign)
      PROVE  ReportInv'
    <2>1. Moves
        BY <1>2, <1>5, OrderMoves, Zenon
    <2>2. PICK g \in Fills : g = Fill(leg, sign, fill)
        BY FillFacts
    <2>3. \A r \in Rows : r.status = "FILLED" /\ r.fills = <<f, g>> => Told(r)
        BY PairIsTold
    <2>4. "FILLED" \in Statuses /\ <<f, g>> \in Seq(Fills)
        BY DEF Statuses
    <2>5. Ends("FILLED", <<f, g>>)
        BY <1>5, <2>2, Zenon
    <2>6. position'.quantity = position.quantity + Gain("FILLED")
        <3>1. /\ position.direction \in {-1, 0, 1} /\ position.quantity \in Nat
              /\ (position.quantity = 0 <=> position.direction = 0)
            BY <1>2 DEF TypeOK, Positions, Inv, Hedged
        <3>2. event.signal = "EXIT" => position.direction # 0
            <4>1. PICK d \in {-1, 0, 1}, s \in Signals :
                    s \in Session!Signals(d) /\ d = position.direction /\ s = event.signal /\ s # "HOLD"
                BY <1>2, <3>1 DEF Events
            <4> QED  BY <4>1, SignalFacts
        <3>3. CASE event.signal = "EXIT"
            <4>1. position.quantity >= 1 /\ position' = Closed(position)
                BY <1>5, <3>1, <3>2, <3>3
            <4>2. Closed(position).quantity = Max({position.quantity - 1, 0})
                BY DEF Closed
            <4>3. \A a, b \in Int : Max({a, b}) \in {a, b} /\ Max({a, b}) >= a /\ Max({a, b}) >= b
                BY GreatestOfTwo
            <4>4. PICK q \in Int : q = position.quantity - 1 /\ q >= 0
                BY <3>1, <4>1
            <4>5. Max({q, 0}) = q
                <5>1. q \in Int /\ 0 \in Int
                    OBVIOUS
                <5>2. PICK m : m = Max({q, 0})
                    OBVIOUS
                <5>3. m \in {q, 0} /\ m >= q
                    BY <4>3, <5>1, <5>2, Zenon
                <5>4. m = q
                    BY <4>4, <5>3
                <5> QED  BY <5>2, <5>4
            <4>6. position'.quantity = position.quantity - 1
                BY <4>1, <4>2, <4>4, <4>5
            <4> QED  BY <3>1, <3>3, <4>6 DEF Gain
        <3>4. CASE event.signal # "EXIT"
            <4>1. position' = Opened(position, sign)
                BY <1>5, <3>4
            <4> QED  BY <3>4, <4>1 DEF Opened, Gain
        <3> QED  BY <3>3, <3>4
    <2> QED  BY <1>1, <1>2, <2>1, <2>3, <2>4, <2>5, <2>6, ReportGrows
<1>6. ASSUME Raise(leg) PROVE ReportInv'
    BY <1>6, ReportRaises
<1>7. \/ Raise(leg)
      \/ \E fill \in BOOLEAN :
            /\ Order(leg, sign, fill)
            /\ \/ position' = position /\ log' = log
               \/ /\ Ends("FILLED", <<f, Fill(leg, sign, fill)>>)
                  /\ position' = IF event.signal = "EXIT" THEN Closed(position) ELSE Opened(position, sign)
    <2>1. \/ Raise(leg)
          \/ \E fill \in BOOLEAN :
                /\ Order(leg, sign, fill)
                /\ \/ UNCHANGED <<event, position, log, filled>>
                   \/ /\ Ends("FILLED", <<f, Fill(leg, sign, fill)>>)
                      /\ position' = IF event.signal = "EXIT" THEN Closed(position) ELSE Opened(position, sign)
        BY <1>3, Zenon DEF SecondLeg
    <2>2. UNCHANGED <<event, position, log, filled>> => position' = position /\ log' = log
        OBVIOUS
    <2> QED  BY <2>1, <2>2, Zenon
<1> QED  BY <1>4, <1>5, <1>6, <1>7

LEMMA ReportFlattens == Inv /\ ReportInv /\ FlattenFirstLeg => ReportInv'
<1> SUFFICES ASSUME Inv, ReportInv, FlattenFirstLeg PROVE ReportInv'
    OBVIOUS
<1>1. pc = "flatten" /\ pc \in HasFirst /\ pc \in Trading /\ position' = position
    BY DEF FlattenFirstLeg, HasFirst, Trading
<1>2. TypeOK /\ EngineOK /\ config \in Configs /\ config.first \in Legs /\ event.ts \in Nat /\ trade.sign \in {-1, 1}
    BY <1>1, TradingFacts
<1> PICK first \in Legs : first = config.first
    BY <1>2
<1> PICK sign \in {-1, 1} : sign = trade.sign
    BY <1>2
<1> PICK back \in {-1, 1} : back = -sign
    OBVIOUS
<1>3. PICK f \in Fills :
          /\ f.filled /\ f.leg \in Legs /\ f.leg = first /\ f.sign = sign
          /\ trade.fills \in BeforeFlatten(trade.status, f)
    <2>1. trade.fills \in BeforeFlatten(trade.status, Fill(first, sign, TRUE))
        BY <1>1 DEF Inv, FirstFilled
    <2>2. PICK c \in Fills : /\ c = Fill(first, sign, TRUE)
                             /\ c.filled /\ c.leg \in Legs /\ c.leg = first /\ c.sign = sign
        BY <1>1, FirstIsFilled
    <2> QED  BY <2>1, <2>2
<1>4. PICK status \in FailureStatuses : status = trade.status
    <2>1. trade \in Flattening
        BY <1>1, <1>2, TradeFacts DEF TypeOK
    <2> QED  BY <2>1 DEF Flattening
<1>f. PICK fills \in Seq(Fills) : fills = trade.fills /\ fills \in BeforeFlatten(status, f)
    BY <1>3, <1>4, BeforeFlattenFacts
<1>5. ASSUME Moves, NEW h \in Fills, Ends(status, Append(fills, h)),
             h.filled => h.leg = first /\ h.sign = -sign
      PROVE  ReportInv'
    <2>1. Append(fills, h) \in Seq(Fills)
        OBVIOUS
    <2>3. \A r \in Rows : r.status = status /\ r.fills = Append(fills, h) => Told(r)
        BY <1>3, <1>5, <1>f, FailureIsTold
    <2>4. status \in Statuses \ {"FILLED"}
        BY DEF Statuses, FailureStatuses
    <2> QED  BY <1>1, <1>2, <1>5, <2>1, <2>3, <2>4, ReportEnds
<1>6. ASSUME UNCHANGED <<engine, net>>, Ends(status, Append(fills, NoFill))
      PROVE  ReportInv'
    <2>1. Moves
        BY <1>6 DEF Moves, engine
    <2>2. PICK h \in Fills : h = NoFill
        BY DEF NoFill, Fills
    <2>3. ~h.filled /\ Ends(status, Append(fills, h))
        BY <1>6, <2>2 DEF NoFill
    <2> QED  BY <1>5, <2>1, <2>3
<1>7. ASSUME NEW fill \in BOOLEAN, Order(first, back, fill), Ends(status, Append(fills, Fill(first, back, fill)))
      PROVE  ReportInv'
    <2>1. Moves
        BY <1>2, <1>7, OrderMoves, Zenon
    <2>2. PICK h \in Fills : h = Fill(first, back, fill)
        BY FillFacts
    <2>3. h.leg = first /\ h.sign = -sign /\ Ends(status, Append(fills, h))
        BY <1>7, <2>2 DEF Fill
    <2> QED  BY <1>5, <2>1, <2>3
<1>8. ASSUME Raise(first) PROVE ReportInv'
    BY <1>8, ReportRaises
<1>9. \/ Raise(first)
      \/ UNCHANGED <<engine, net>> /\ Ends(status, Append(fills, NoFill))
      \/ \E fill \in BOOLEAN : /\ Order(first, back, fill)
                               /\ Ends(status, Append(fills, Fill(first, back, fill)))
    <2>1. \/ Raise(first)
          \/ UNCHANGED <<engine, net>> /\ Ends(status, Append(trade.fills, NoFill))
          \/ \E fill \in BOOLEAN : /\ Order(first, -sign, fill)
                                   /\ Ends(status, Append(trade.fills, Fill(first, -sign, fill)))
        BY <1>4, Zenon DEF FlattenFirstLeg
    <2>2. trade.fills = fills /\ back = -sign
        BY <1>f
    <2> QED  BY <2>1, <2>2, Zenon
<1> QED  BY <1>6, <1>7, <1>8, <1>9

LEMMA ReportStep == Inv /\ ReportInv /\ [Next]_vars => ReportInv'
<1> SUFFICES ASSUME Inv, ReportInv, [Next]_vars PROVE ReportInv'
    OBVIOUS
<1>1. CASE Advance
    BY <1>1, ReportAdvance
<1>2. ASSUME NEW blocked \in BOOLEAN, Resolve(blocked) PROVE ReportInv'
    BY <1>2, ReportResolve
<1>3. CASE FirstLeg
    BY <1>3, ReportFirstLeg
<1>4. CASE Delay
    BY <1>4, ReportDelay
<1>5. CASE Wait \/ ProfitCheck
    BY <1>5, ReportWait
<1>6. CASE SecondLeg
    BY <1>6, ReportSecondLeg
<1>7. CASE FlattenFirstLeg
    BY <1>7, ReportFlattens
<1>8. CASE UNCHANGED vars
    <2>1. Moves /\ log' = log /\ position' = position /\ pc' = pc
        BY <1>8 DEF Moves, vars
    <2> QED  BY <2>1, ReportStays
<1> QED  BY <1>1, <1>2, <1>3, <1>4, <1>5, <1>6, <1>7, <1>8 DEF Next, Done

-----------------------------------------------------------------------------
\* From the table to its reports.

\* s has the rows of the table at these places, in time, p[i] being the place
\* of the i-th.
SortedRows(s, p, k, table, P) ==
    /\ k = Cardinality(P) /\ k \in Nat /\ IsFiniteSet(P) /\ Visits(p, k, P)
    /\ \A i, j \in 1..k : i < j => table[p[i]].done <= table[p[j]].done
    /\ s \in Seq(Rows) /\ Len(s) = k /\ DOMAIN s = 1..k
    /\ \A i \in 1..k : p[i] \in P /\ s[i] = table[p[i]]

LEMMA InTimeIs ==
    ASSUME NEW table \in Seq(Rows), TimesGo(table), NEW P, P \subseteq DOMAIN table
    PROVE  \E p : SortedRows(InTime(table, P), p, Cardinality(P), table, P)
<1>1. PICK n \in Nat : n = Len(table) /\ DOMAIN table = 1..n
    OBVIOUS
<1>2. \A i \in 1..n : table[i] \in Rows
    BY <1>1
<1>3. \A i \in 1..n : table[i].done \in Nat
    BY <1>2 DEF Rows
<1>4. PICK p : p = Arrangement(table, P)
    OBVIOUS
<1>5. /\ Cardinality(P) \in Nat /\ IsFiniteSet(P) /\ Visits(p, Cardinality(P), P)
      /\ \A i, j \in 1..Cardinality(P) : i < j => table[p[i]].done <= table[p[j]].done
    BY <1>1, <1>3, <1>4, ArrangementIs
<1>6. PICK k \in Nat : k = Cardinality(P)
    BY <1>5
<1>7. PICK s : s = InTime(table, P)
    OBVIOUS
<1>8. s = [i \in 1..k |-> table[p[i]]]
    BY <1>4, <1>6, <1>7, Zenon DEF InTime
<1>9. \A i \in 1..k : p[i] \in P /\ p[i] \in 1..n
    BY <1>1, <1>5, <1>6 DEF Visits
<1>10. s \in [1..k -> Rows]
    BY <1>2, <1>8, <1>9
<1>11. s \in Seq(Rows) /\ Len(s) = k /\ DOMAIN s = 1..k
    BY <1>10
<1>12. \A i \in 1..k : p[i] \in P /\ s[i] = table[p[i]]
    BY <1>8, <1>9
<1>13. SortedRows(s, p, k, table, P)
    BY <1>5, <1>6, <1>11, <1>12, Zenon DEF SortedRows
<1> QED  BY <1>6, <1>7, <1>13, Zenon

LEMMA ExposureIsInt ==
    ASSUME NEW r \in Rows
    PROVE  Exposure(r) \in Int
<1>1. r.fills \in Seq(Fills)
    BY DEF Rows
<1>2. CASE Filled(r, 1)
    <2>1. 1 \in DOMAIN r.fills
        BY <1>1, <1>2 DEF Filled
    <2>2. r.fills[1] \in Fills
        BY <1>1, <2>1
    <2>3. r.fills[1].sign \in Int
        BY <2>2 DEF Fills
    <2> QED  BY <2>3 DEF Exposure
<1>3. CASE ~Filled(r, 1)
    BY <1>3 DEF Exposure
<1> QED  BY <1>2, <1>3

\* What rows in time show exposed is what the table shows at their places.
LEMMA ExposedAtPlaces ==
    ASSUME NEW table \in Seq(Rows), TimesGo(table), NEW P, P \subseteq DOMAIN table
    PROVE  Exposed(InTime(table, P))
              = SumTo([j \in 1..Len(table) |-> IF j \in P THEN Exposure(table[j]) ELSE 0], Len(table))
<1>1. PICK n \in Nat : n = Len(table) /\ DOMAIN table = 1..n
    OBVIOUS
<1>2. PICK s : s = InTime(table, P)
    OBVIOUS
<1>3. \E k \in Nat : \E p : SortedRows(s, p, k, table, P)
    <2>1. PICK p : SortedRows(s, p, Cardinality(P), table, P)
        BY <1>2, InTimeIs
    <2>2. Cardinality(P) \in Nat
        BY <2>1 DEF SortedRows
    <2> QED  BY <2>1, <2>2, Zenon
<1> PICK k \in Nat : \E p : SortedRows(s, p, k, table, P)
    BY <1>3
<1> PICK p : SortedRows(s, p, k, table, P)
    OBVIOUS
<1> DEFINE f == [j \in 1..n |-> Exposure(table[j])]
           a == [i \in 1..k |-> f[p[i]]]
           b == [i \in DOMAIN s |-> Exposure(s[i])]
           c == [j \in 1..n |-> IF j \in P THEN f[j] ELSE 0]
           e == [j \in 1..n |-> IF j \in P THEN Exposure(table[j]) ELSE 0]
<1>4. /\ Visits(p, k, P) /\ Len(s) = k /\ DOMAIN s = 1..k
      /\ \A i \in 1..k : p[i] \in P /\ s[i] = table[p[i]]
    BY DEF SortedRows
<1>5. \A j \in 1..n : f[j] \in Int
    BY <1>1, ExposureIsInt
<1>6. SumTo(a, k) = SumTo(c, n)
    <2>1. P \subseteq 1..n
        BY <1>1
    <2>2. AlongPlaces(a, f, p, k)
        BY DEF AlongPlaces
    <2>3. AtPlaces(c, f, P, n)
        BY <1>5 DEF AtPlaces
    <2> HIDE DEF f, a, c
    <2> QED  BY <1>4, <2>1, <2>2, <2>3, SumVisited
<1>7. \A i \in 1..k : a[i] = b[i]
    BY <1>1, <1>4
<1>8. \A j \in 1..n : c[j] = e[j]
    OBVIOUS
<1>9. Exposed(s) = SumTo(b, k)
    BY <1>4, Zenon DEF Exposed
<1> HIDE DEF a, b, c, e, f
<1>10. SumTo(a, k) = SumTo(b, k) /\ SumTo(c, n) = SumTo(e, n)
    BY <1>7, <1>8, SumsEqual
<1>11. Exposed(s) = SumTo(e, n)
    BY <1>6, <1>9, <1>10
<1> QED  BY <1>1, <1>2, <1>11, Zenon DEF e

LEMMA SumOfBoth ==
    ASSUME NEW n \in Nat, NEW f, NEW g, NEW h,
           \A j \in 1..n : f[j] \in Int /\ g[j] \in Int /\ h[j] = f[j] + g[j]
    PROVE  SumTo(h, n) = SumTo(f, n) + SumTo(g, n)
<1> DEFINE S == {m \in Nat : m <= n => /\ SumTo(f, m) \in Int /\ SumTo(g, m) \in Int
                                       /\ SumTo(h, m) = SumTo(f, m) + SumTo(g, m)}
<1>1. 0 \in S
    BY SumNothing
<1>2. \A m \in Nat : m \in S => m + 1 \in S
    <2> SUFFICES ASSUME NEW m \in Nat, m \in S, m + 1 <= n
                 PROVE  /\ SumTo(f, m + 1) \in Int /\ SumTo(g, m + 1) \in Int
                        /\ SumTo(h, m + 1) = SumTo(f, m + 1) + SumTo(g, m + 1)
        OBVIOUS
    <2>1. m + 1 \in 1..n
        OBVIOUS
    <2>2. f[m + 1] \in Int /\ g[m + 1] \in Int /\ h[m + 1] = f[m + 1] + g[m + 1]
        BY <2>1
    <2>3. SumTo(f, m) \in Int /\ SumTo(g, m) \in Int /\ SumTo(h, m) = SumTo(f, m) + SumTo(g, m)
        OBVIOUS
    <2> QED  BY <2>2, <2>3, SumOneMore
<1>3. Nat \subseteq S
    <2> HIDE DEF S
    <2> QED  BY <1>1, <1>2, Induction
<1> QED  BY <1>3

\* The first legs left are those of the failures not flattened and of the pair
\* orders the data interrupted.
LEMMA NakedIsExposed ==
    ASSUME NEW table \in Seq(Rows), TimesGo(table), \A i \in DOMAIN table : Told(table[i])
    PROVE  Naked(table) = Exposed(FailedTrades(table)) + Exposed(Interrupted(table))
<1>1. PICK n \in Nat : n = Len(table) /\ DOMAIN table = 1..n
    OBVIOUS
<1> DEFINE P == WithStatus(table, FailureStatuses)
           Q == WithStatus(table, {"SECOND_LEG_DELAY_END_OF_DATA"})
           f == [j \in 1..n |-> IF j \in P THEN Exposure(table[j]) ELSE 0]
           g == [j \in 1..n |-> IF j \in Q THEN Exposure(table[j]) ELSE 0]
           h == [j \in DOMAIN table |-> Unhedged(table[j])]
<1>2. P \subseteq DOMAIN table /\ Q \subseteq DOMAIN table
    BY DEF WithStatus
<1>3. Exposed(FailedTrades(table)) = SumTo(f, n) /\ Exposed(Interrupted(table)) = SumTo(g, n)
    <2>1. Exposed(InTime(table, P)) = SumTo(f, n)
        BY <1>1, <1>2, ExposedAtPlaces
    <2>2. Exposed(InTime(table, Q)) = SumTo(g, n)
        BY <1>1, <1>2, ExposedAtPlaces
    <2> QED  BY <2>1, <2>2, Zenon DEF FailedTrades, Interrupted
<1>4. ASSUME NEW j \in 1..n PROVE f[j] \in Int /\ g[j] \in Int /\ h[j] = f[j] + g[j]
    <2>1. Exposure(table[j]) \in Int
        BY <1>1, ExposureIsInt
    <2>2. Unhedged(table[j]) = IF table[j].status \in Left THEN Exposure(table[j]) ELSE 0
        BY <1>1 DEF Told
    <2>3. /\ j \in P <=> table[j].status \in FailureStatuses
          /\ j \in Q <=> table[j].status = "SECOND_LEG_DELAY_END_OF_DATA"
        BY <1>1 DEF WithStatus
    <2>4. ~(j \in P /\ j \in Q) /\ (table[j].status \in Left <=> j \in P \/ j \in Q)
        BY <2>3 DEF Left, FailureStatuses
    <2>5. /\ h[j] = Unhedged(table[j])
          /\ f[j] = (IF j \in P THEN Exposure(table[j]) ELSE 0)
          /\ g[j] = (IF j \in Q THEN Exposure(table[j]) ELSE 0)
        BY <1>1, Zenon
    <2> HIDE DEF P, Q, f, g, h
    <2> QED  BY <2>1, <2>2, <2>4, <2>5
<1>5. Naked(table) = SumTo(h, n)
    BY <1>1, Zenon DEF Naked
<1> HIDE DEF P, Q, f, g, h
<1>6. SumTo(h, n) = SumTo(f, n) + SumTo(g, n)
    BY <1>4, SumOfBoth
<1> QED  BY <1>3, <1>5, <1>6

-----------------------------------------------------------------------------
\* The reports count the same rows.

\* What the reports need of a table.
Reportable(table) ==
    /\ table \in Seq(Rows) /\ TimesGo(table) /\ FewAtATime(table)
    /\ \A i \in DOMAIN table : Told(table[i])

LEMMA FailedTradesAre ==
    ASSUME NEW table, Reportable(table)
    PROVE  LET P == WithStatus(table, FailureStatuses)
           IN  /\ P \subseteq DOMAIN table
               /\ \E p : SortedRows(FailedTrades(table), p, Cardinality(P), table, P)
<1> DEFINE P == WithStatus(table, FailureStatuses)
<1>1. P \subseteq DOMAIN table
    BY DEF WithStatus
<1>2. \E p : SortedRows(InTime(table, P), p, Cardinality(P), table, P)
    BY <1>1, InTimeIs DEF Reportable
<1> QED  BY <1>1, <1>2, Zenon DEF FailedTrades

LEMMA FailureCounts ==
    ASSUME NEW table, Reportable(table)
    PROVE  /\ Summary(table).failures = Len(FailedTrades(table))
           /\ ByDate(table).failures = ByDate(table).rows
           /\ Overview(table).flattened =
                 Cardinality({n \in DOMAIN FailedTrades(table) :
                     /\ Undone(FailedTrades(table)[n])
                     /\ FailedTrades(table)[n].status # "SECOND_LEG_PROFIT_CHECK_FAILED"})
<1> DEFINE P == WithStatus(table, FailureStatuses)
           T == Flattened(table)
<1>1. PICK failed : failed = FailedTrades(table)
    OBVIOUS
<1>2. PICK p : SortedRows(failed, p, Cardinality(P), table, P)
    BY <1>1, FailedTradesAre
<1>3. PICK k \in Nat : k = Cardinality(P)
    BY <1>2 DEF SortedRows
<1>4. /\ IsFiniteSet(P) /\ Visits(p, k, P) /\ Len(failed) = k /\ DOMAIN failed = 1..k
      /\ \A i \in 1..k : p[i] \in P /\ failed[i] = table[p[i]]
    BY <1>2, <1>3 DEF SortedRows
<1>5. T \subseteq P
    BY DEF Reportable, Told, Flattened, WithStatus
<1>6. Cardinality(T) \in Nat
    BY <1>4, <1>5, FS_Subset, FS_CardinalityType
<1> DEFINE Back == {n \in DOMAIN failed :
                     Undone(failed[n]) /\ failed[n].status # "SECOND_LEG_PROFIT_CHECK_FAILED"}
<1>7. Cardinality(Back) = Cardinality(T)
    <2>1. \A i \in 1..k : p[i] \in T <=>
              Undone(failed[i]) /\ failed[i].status # "SECOND_LEG_PROFIT_CHECK_FAILED"
        BY <1>4 DEF Flattened, WithStatus, Reportable, Told
    <2>2. Back = {i \in 1..k : p[i] \in T}
        BY <1>4, <2>1
    <2> HIDE DEF T, P, Back
    <2> QED  BY <1>4, <1>5, <2>2, CountVisited
<1>8. Summary(table).failures = k /\ Summary(table).flattened = Cardinality(T)
    BY <1>3 DEF Summary, SummaryFailures, FailureStatuses
<1>9. k = 0 => Cardinality(T) = 0
    <2>1. k = 0 => P = {}
        BY <1>3, <1>4, FS_EmptySet
    <2>2. k = 0 => T = {}
        BY <1>5, <2>1
    <2> QED  BY <2>2, FS_EmptySet
<1>10. FailedPairs(table) = IF k > 0 THEN 1 ELSE 0
    BY <1>8 DEF FailedPairs
<1>11. /\ ByDate(table).failures = FailedPairs(table) * k /\ ByDate(table).rows = k
       /\ Overview(table).flattened = FailedPairs(table) * Cardinality(T)
    BY <1>1, <1>4, <1>8 DEF ByDate, Overview
<1>12. FailedPairs(table) * k = k
    <2>1. CASE k = 0
        BY <1>10, <2>1
    <2>2. CASE k > 0
        BY <1>10, <2>2
    <2> QED  BY <2>1, <2>2
<1>13. FailedPairs(table) * Cardinality(T) = Cardinality(T)
    <2> HIDE DEF T
    <2>1. CASE k = 0
        BY <1>9, <1>10, <2>1
    <2>2. CASE k > 0
        BY <1>6, <1>10, <2>2
    <2> QED  BY <2>1, <2>2
<1> QED  BY <1>1, <1>4, <1>7, <1>8, <1>11, <1>12, <1>13

LEMMA PairRowsAre ==
    ASSUME NEW table, NEW status
    PROVE  PairRows(table, status) = Cardinality(WithStatus(FailedTrades(table), {status}))
<1>1. PICK failed : failed = FailedTrades(table)
    OBVIOUS
<1> DEFINE D == {failed[i].status : i \in DOMAIN failed}
<1>2. /\ DOMAIN ByStatus(table) = D
      /\ \A x \in D : ByStatus(table)[x] = Cardinality(WithStatus(failed, {x}))
    BY <1>1 DEF ByStatus
<1>3. /\ DOMAIN ByPair(table) = D
      /\ \A x \in D : ByPair(table)[x].rows = ByStatus(table)[x]
    BY <1>2 DEF ByPair
<1>4. CASE status \in D
    BY <1>1, <1>2, <1>3, <1>4 DEF PairRows
<1>5. CASE status \notin D
    <2>1. WithStatus(failed, {status}) = {}
        BY <1>5 DEF WithStatus
    <2>2. Cardinality(WithStatus(failed, {status})) = 0
        BY <2>1, FS_EmptySet
    <2> QED  BY <1>1, <1>3, <1>5, <2>2 DEF PairRows
<1> QED  BY <1>4, <1>5

LEMMA DisjointCounts ==
    ASSUME NEW k \in Nat, NEW A, NEW B, NEW C, A \cup B \cup C = 1..k,
           A \cap B = {}, A \cap C = {}, B \cap C = {}
    PROVE  k = Cardinality(A) + Cardinality(B) + Cardinality(C)
<1>1. A \subseteq 1..k /\ B \subseteq 1..k /\ C \subseteq 1..k
    OBVIOUS
<1>2. /\ IsFiniteSet(A) /\ IsFiniteSet(B) /\ IsFiniteSet(C)
      /\ Cardinality(A) \in Nat /\ Cardinality(B) \in Nat /\ Cardinality(C) \in Nat
    BY <1>1, PlacesAreFinite
<1>3. Cardinality({}) = 0
    BY FS_EmptySet
<1>4. PICK U : U = A \cup B
    OBVIOUS
<1>5. IsFiniteSet(U) /\ Cardinality(U) = Cardinality(A) + Cardinality(B)
    BY <1>2, <1>3, <1>4, FS_Union
<1>6. U \cap C = {} /\ U \cup C = 1..k
    BY <1>4
<1>7. Cardinality(U \cup C) = Cardinality(U) + Cardinality(C) - Cardinality(U \cap C)
    BY <1>2, <1>5, FS_Union
<1>8. Cardinality(1..k) = k
    BY FS_Interval
<1>9. Cardinality(1..k) = Cardinality(U) + Cardinality(C) - Cardinality({})
    BY <1>6, <1>7, Zenon
<1> QED  BY <1>2, <1>3, <1>5, <1>8, <1>9

LEMMA FailureStatusCounts ==
    ASSUME NEW table, Reportable(table)
    PROVE  Overview(table).rows =
              PairRows(table, "SECOND_LEG_UNFILLED") + PairRows(table, "SECOND_LEG_PROFIT_CHECK_FAILED")
              + PairRows(table, "POST_FIRST_FEED_TIMEOUT")
<1> DEFINE P == WithStatus(table, FailureStatuses)
<1>1. PICK failed : failed = FailedTrades(table)
    OBVIOUS
<1>2. PICK p : SortedRows(failed, p, Cardinality(P), table, P)
    BY <1>1, FailedTradesAre
<1>3. PICK k \in Nat : k = Cardinality(P)
    BY <1>2 DEF SortedRows
<1>4. /\ Len(failed) = k /\ DOMAIN failed = 1..k
      /\ \A i \in 1..k : p[i] \in P /\ failed[i] = table[p[i]]
    BY <1>2, <1>3 DEF SortedRows
<1>5. \A i \in 1..k : failed[i].status \in FailureStatuses
    BY <1>4 DEF WithStatus
<1> DEFINE A == WithStatus(failed, {"SECOND_LEG_UNFILLED"})
           B == WithStatus(failed, {"SECOND_LEG_PROFIT_CHECK_FAILED"})
           C == WithStatus(failed, {"POST_FIRST_FEED_TIMEOUT"})
<1>6. A \cup B \cup C = 1..k /\ A \cap B = {} /\ A \cap C = {} /\ B \cap C = {}
    BY <1>4, <1>5 DEF WithStatus, FailureStatuses
<1>7. k = Cardinality(A) + Cardinality(B) + Cardinality(C)
    <2> HIDE DEF A, B, C
    <2> QED  BY <1>6, DisjointCounts
<1>8. /\ PairRows(table, "SECOND_LEG_UNFILLED") = Cardinality(A)
      /\ PairRows(table, "SECOND_LEG_PROFIT_CHECK_FAILED") = Cardinality(B)
      /\ PairRows(table, "POST_FIRST_FEED_TIMEOUT") = Cardinality(C)
    BY <1>1, PairRowsAre, Zenon
<1>9. Overview(table).rows = k
    BY <1>1, <1>4 DEF Overview
<1> QED  BY <1>7, <1>8, <1>9, Zenon

-----------------------------------------------------------------------------
\* A failure is in the rows around the first row of its time.

LEMMA NeverThree ==
    ASSUME NEW table \in Seq(Rows), FewAtATime(table),
           NEW a \in DOMAIN table, NEW b \in DOMAIN table, NEW c \in DOMAIN table,
           a # b, a # c, b # c, table[a].done = table[b].done, table[b].done = table[c].done
    PROVE  FALSE
<1>1. a \in Nat /\ b \in Nat /\ c \in Nat
    OBVIOUS
<1>2. table[a] \in Rows /\ table[b] \in Rows /\ table[c] \in Rows
    OBVIOUS
<1>3. table[a].done \in Nat /\ table[b].done \in Nat /\ table[c].done \in Nat
    BY <1>2 DEF Rows
<1>4. PICK d \in Nat : d = table[a].done /\ d = table[b].done /\ d = table[c].done
    BY <1>3
<1>5. \A i, j, k \in {a, b, c} : ~(i < j /\ j < k)
    BY <1>4 DEF FewAtATime
<1> QED  BY <1>1, <1>5

LEMMA MatchingFacts ==
    ASSUME NEW s, NEW m \in Nat, DOMAIN s = 1..m, NEW r, NEW i \in 1..m, s[i].done = r.done
    PROVE  /\ MatchingPosition(s, r) \in 1..m /\ MatchingPosition(s, r) <= i
           /\ s[MatchingPosition(s, r)].done = r.done
<1> DEFINE M == {j \in 1..m : s[j].done = r.done}
<1>1. M \subseteq Nat /\ M # {}
    OBVIOUS
<1>2. PICK x \in M : \A y \in M : x <= y
    <2> HIDE DEF M
    <2> QED  BY <1>1, LeastNatural
<1> DEFINE First(y) == s[y].done = r.done /\ \A j \in DOMAIN s : s[j].done = r.done => y <= j
<1>3. x \in DOMAIN s /\ First(x)
    BY <1>2
<1>4. MatchingPosition(s, r) = CHOOSE y \in DOMAIN s : First(y)
    BY Zenon DEF MatchingPosition
<1>5. MatchingPosition(s, r) \in DOMAIN s /\ First(MatchingPosition(s, r))
    <2> HIDE DEF First
    <2> QED  BY <1>3, <1>4, Zenon
<1> QED  BY <1>5

LEMMA FailureIsShown ==
    ASSUME NEW table, Reportable(table)
    PROVE  \A n \in DOMAIN TradeWindows(table, 1) :
              \E i \in TradeWindows(table, 1)[n].from .. TradeWindows(table, 1)[n].to :
                 InTime(table, DOMAIN table)[i] = FailedTrades(table)[n]
<1> DEFINE P == WithStatus(table, FailureStatuses)
<1>1. PICK failed, sorted, W : /\ failed = FailedTrades(table) /\ sorted = InTime(table, DOMAIN table)
                               /\ W = TradeWindows(table, 1)
    OBVIOUS
<1>2. /\ DOMAIN W = DOMAIN failed
      /\ \A n \in DOMAIN failed :
            W[n] = [from |-> Max({1, MatchingPosition(sorted, failed[n]) - 1}),
                    to |-> Min({Len(sorted), MatchingPosition(sorted, failed[n]) + 1})]
    BY <1>1 DEF TradeWindows
<1>3. PICK q : SortedRows(failed, q, Cardinality(P), table, P)
    BY <1>1, FailedTradesAre
<1>4. PICK p : SortedRows(sorted, p, Cardinality(DOMAIN table), table, DOMAIN table)
    BY <1>1, InTimeIs DEF Reportable
<1>5. PICK k \in Nat, m \in Nat : k = Cardinality(P) /\ m = Cardinality(DOMAIN table)
    BY <1>3, <1>4 DEF SortedRows
<1>6. /\ DOMAIN failed = 1..k /\ \A n \in 1..k : q[n] \in DOMAIN table /\ failed[n] = table[q[n]]
    BY <1>3, <1>5 DEF SortedRows, WithStatus
<1>7. /\ Len(sorted) = m /\ DOMAIN sorted = 1..m /\ \A i \in 1..m : p[i] \in DOMAIN table /\ sorted[i] = table[p[i]]
      /\ {p[i] : i \in 1..m} = DOMAIN table /\ \A i, j \in 1..m : i < j => p[i] # p[j]
      /\ \A i, j \in 1..m : i < j => table[p[i]].done <= table[p[j]].done
    BY <1>4, <1>5 DEF SortedRows, Visits
<1>8. table \in Seq(Rows) /\ FewAtATime(table) /\ \A i \in DOMAIN table : table[i].done \in Nat
    <2>1. table \in Seq(Rows) /\ FewAtATime(table)
        BY DEF Reportable
    <2>2. \A i \in DOMAIN table : table[i] \in Rows
        BY <2>1
    <2> QED  BY <2>1, <2>2 DEF Rows
<1>9. ASSUME NEW n \in DOMAIN W PROVE \E i \in W[n].from .. W[n].to : sorted[i] = failed[n]
    <2>1. n \in 1..k /\ q[n] \in DOMAIN table /\ failed[n] = table[q[n]]
        BY <1>2, <1>6
    <2>2. PICK i \in 1..m : p[i] = q[n]
        BY <1>7, <2>1
    <2>3. sorted[i] = failed[n]
        BY <1>7, <2>1, <2>2
    <2>4. PICK x : x = MatchingPosition(sorted, failed[n])
        OBVIOUS
    <2>5. x \in 1..m /\ x <= i /\ sorted[x].done = failed[n].done
        <3>1. DOMAIN sorted = 1..m /\ sorted[i].done = failed[n].done
            BY <1>7, <2>3
        <3> QED  BY <2>4, <3>1, MatchingFacts
    <2>6. i <= x + 1
        <3> SUFFICES ASSUME x + 1 < i PROVE FALSE
            BY <2>5
        <3>1. x + 1 \in 1..m /\ x < x + 1 /\ x < i
            BY <2>5
        <3>2. p[x] # p[x + 1] /\ p[x] # p[i] /\ p[x + 1] # p[i]
            BY <1>7, <2>5, <3>1
        <3>3. PICK a \in DOMAIN table, b \in DOMAIN table, c \in DOMAIN table :
                 a = p[x] /\ b = p[x + 1] /\ c = p[i]
            BY <1>7, <2>5, <3>1
        <3>4. table[a].done <= table[b].done /\ table[b].done <= table[c].done
            BY <1>7, <2>5, <3>1, <3>3
        <3>5. table[a].done = table[c].done
            BY <1>7, <2>3, <2>5, <3>3
        <3>6. table[a].done = table[b].done /\ table[b].done = table[c].done
            BY <1>8, <3>3, <3>4, <3>5
        <3> QED  BY <1>8, <3>2, <3>3, <3>6, NeverThree
    <2>7. W[n] = [from |-> Max({1, x - 1}), to |-> Min({m, x + 1})]
        BY <1>2, <1>7, <2>4, Zenon
    <2>8. W[n].from = Max({1, x - 1}) /\ W[n].to = Min({m, x + 1})
        BY <2>7
    <2>9. PICK y \in Int, z \in Int : y = x - 1 /\ z = x + 1
        BY <2>5
    <2>10. W[n].from = Max({1, y}) /\ W[n].to = Min({m, z})
        BY <2>8, <2>9, Zenon
    <2>11. Max({1, y}) \in {1, y} /\ Min({m, z}) \in {m, z}
        BY 1 \in Int, m \in Int, GreatestOfTwo, LeastOfTwo, Zenon
    <2>12. W[n].from \in {1, y} /\ W[n].to \in {m, z}
        BY <2>10, <2>11, Zenon
    <2>13. i \in W[n].from .. W[n].to
        BY <2>5, <2>6, <2>9, <2>12
    <2> QED  BY <2>3, <2>13
<1> QED  BY <1>1, <1>9, Zenon

-----------------------------------------------------------------------------
LEMMA ReportsHold == Inv /\ ReportInv => FailuresAreReported
<1> SUFFICES ASSUME Inv, ReportInv PROVE FailuresAreReported
    OBVIOUS
<1>1. Reportable(log)
    BY DEF Inv, TypeOK, ReportInv, Reportable
<1>2. ASSUME pc \in {"advance", "resolve", "over"}
      PROVE  net[config.first] - position.units[config.first]
                = Exposed(FailedTrades(log)) + Exposed(Interrupted(log))
    <2>1. pc # "failed" /\ pc \notin HasFirst
        BY <1>2 DEF HasFirst
    <2>2. config.first \in Legs /\ log \in Seq(Rows) /\ position.units \in [Legs -> Int]
        BY ConfigFacts DEF Inv, TypeOK, Positions
    <2>3. net[config.first] = Audited(log, config.first) + 0
        BY <2>1, <2>2 DEF Inv, Booked
    <2>4. Audited(log, config.first) \in Int /\ Naked(log) \in Int /\ position.units[config.first] \in Int
        BY <2>2, AuditIsInt
    <2>5. Audited(log, config.first) = position.units[config.first] + Naked(log)
        BY <2>2 DEF Inv, Covered
    <2>6. Naked(log) = Exposed(FailedTrades(log)) + Exposed(Interrupted(log))
        BY <1>1, NakedIsExposed DEF Reportable
    <2>7. net[config.first] - position.units[config.first] = Naked(log)
        BY <2>3, <2>4, <2>5
    <2> QED  BY <2>6, <2>7, Zenon
<1>3. /\ Summary(log).failures = Len(FailedTrades(log)) /\ ByDate(log).failures = ByDate(log).rows
      /\ Overview(log).flattened =
            Cardinality({n \in DOMAIN FailedTrades(log) :
                /\ Undone(FailedTrades(log)[n])
                /\ FailedTrades(log)[n].status # "SECOND_LEG_PROFIT_CHECK_FAILED"})
    BY <1>1, FailureCounts
<1>4. Overview(log).rows =
          PairRows(log, "SECOND_LEG_UNFILLED") + PairRows(log, "SECOND_LEG_PROFIT_CHECK_FAILED")
          + PairRows(log, "POST_FIRST_FEED_TIMEOUT")
    BY <1>1, FailureStatusCounts
<1>5. \A n \in DOMAIN TradeWindows(log, 1) :
         \E i \in TradeWindows(log, 1)[n].from .. TradeWindows(log, 1)[n].to :
            InTime(log, DOMAIN log)[i] = FailedTrades(log)[n]
    BY <1>1, FailureIsShown, Zenon
<1>6. Cardinality(Completed(log, "entry_execution")) - Cardinality(Completed(log, "exit_execution"))
          = position.quantity
    BY DEF ReportInv, Counted
<1> QED  BY <1>2, <1>3, <1>4, <1>5, <1>6, Zenon DEF FailuresAreReported

\* Between pair orders, the first legs the exchange holds beyond the position
\* are those of the failures listed by full_market_runner.py that no column of
\* their row takes back, and of the pair orders the data interrupted; the
\* flattens it counts are the failures taken back, but for those of the profit
\* check, whose flatten stands in the second leg's columns; the summary row, the
\* failure tables and the windows of one session agree; and filled entries less
\* filled exits are the open pairs.
THEOREM ReportsTellFailures == Spec => []FailuresAreReported
<1>1. Init => ReportInv
    BY ReportInit
<1>2. Inv /\ Inv' /\ ReportInv /\ [Next]_vars => ReportInv'
    BY ReportStep
<1>3. Inv /\ ReportInv => FailuresAreReported
    BY ReportsHold
<1> QED  BY <1>1, <1>2, <1>3, AlwaysInv, PTL DEF Spec
=============================================================================
