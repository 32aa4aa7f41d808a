-------------------------- MODULE PaperReplay_proofs --------------------------
(***************************************************************************)
(* Proofs about paper trading on recorded quotes, for all tables, latencies  *)
(* and configurations of a pair.                                            *)
(*                                                                         *)
(* A fill looks quotes up in the recorded timelines, by bisection, and      *)
(* without latency it takes them from the snapshot of its update.  Both are *)
(* the rows in force: the timelines are in time order (RowsOK), and a       *)
(* snapshot shows the books as they were at the stamp of the quote that     *)
(* triggered it (Snapshots), through the feed thread's hands, the queue and *)
(* the driver's, however far the feed has run ahead by then.                *)
(***************************************************************************)
EXTENDS PaperReplay, Sums_proofs, FiniteSetTheorems, SequenceTheorems

\* The greatest position of a set is found.
LEMMA MaxIs ==
    ASSUME NEW S, S \subseteq Int, NEW m \in S, \A y \in S : y <= m
    PROVE  Max(S) = m
<1>1. \A y \in S : m \in Int /\ y \in Int /\ m >= y
    OBVIOUS
<1>2. Max(S) \in S /\ \A y \in S : Max(S) >= y
    BY <1>1, Zenon DEF Max
<1>3. Max(S) \in Int /\ m \in Int /\ Max(S) >= m /\ Max(S) <= m
    BY <1>2
<1> QED  BY <1>3

LEMMA MaxOfPositions ==
    ASSUME NEW n \in Nat, NEW S, S \subseteq 1 .. n, S # {}
    PROVE  Max(S) \in S /\ \A y \in S : y <= Max(S)
<1> DEFINE T == {n - x : x \in S}
<1>0. \A x \in S : x \in Int /\ x <= n /\ n - x \in Nat
    OBVIOUS
<1>1. T \subseteq Nat /\ T # {}
    BY <1>0
<1>2. PICK m \in T : \A y \in T : m <= y
    <2> HIDE DEF T
    <2> QED  BY <1>1, LeastNatural
<1>3. PICK x \in S : m = n - x
    OBVIOUS
<1>4. \A y \in S : y <= x
    <2> TAKE y \in S
    <2>1. m <= n - y
        BY <1>2
    <2> QED  BY <1>0, <1>3, <2>1
<1>5. Max(S) = x
    BY <1>0, <1>4, MaxIs
<1> QED  BY <1>4, <1>5

-----------------------------------------------------------------------------
(* Loading: the rows kept are quotes, in time order.                        *)

\* The filter of KeptRows, as a function of how many rows it has looked at.
Keeps(kept, leg, rows) ==
    kept = [n \in 0 .. Len(rows) |->
               IF n = 0 THEN <<>>
               ELSE IF Kept(leg, rows[n]) THEN Append(kept[n - 1], rows[n]) ELSE kept[n - 1]]

LEMMA KeptExists ==
    ASSUME NEW leg, NEW rows, Len(rows) \in Nat
    PROVE  \E kept : Keeps(kept, leg, rows)
<1> DEFINE N == Len(rows)
           More(x, n) == IF Kept(leg, rows[n]) THEN Append(x, rows[n]) ELSE x
           Up(k, m) == k = [n \in 0 .. m |-> IF n = 0 THEN <<>> ELSE More(k[n - 1], n)]
           T == {m \in Nat : \E k : Up(k, m)}
<1> HIDE DEF More
<1>1. 0 \in T
    <2>1. Up([n \in 0 .. 0 |-> <<>>], 0)
        OBVIOUS
    <2> QED  BY <2>1
<1>2. \A m \in Nat : m \in T => m + 1 \in T
    <2> HIDE DEF Up
    <2> SUFFICES ASSUME NEW m \in Nat, NEW d, Up(d, m) PROVE \E e : Up(e, m + 1)
        OBVIOUS
    <2> USE DEF Up
    <2> DEFINE e == [n \in 0 .. (m + 1) |-> IF n = m + 1 THEN More(d[m], m + 1) ELSE d[n]]
    <2>1. \A n \in 0 .. (m + 1) : e[n] = IF n = 0 THEN <<>> ELSE More(e[n - 1], n)
        <3> SUFFICES ASSUME NEW n \in 0 .. (m + 1) PROVE e[n] = IF n = 0 THEN <<>> ELSE More(e[n - 1], n)
            OBVIOUS
        <3>1. CASE n = m + 1
            <4>1. n # 0 /\ n - 1 = m /\ m \in 0 .. (m + 1) /\ m # m + 1
                BY <3>1
            <4> QED  BY <3>1, <4>1
        <3>2. CASE n # m + 1 /\ n # 0
            <4>1. n \in 0 .. m /\ n - 1 \in 0 .. (m + 1) /\ n - 1 # m + 1
                BY <3>2
            <4>2. d[n] = More(d[n - 1], n)
                BY <3>2, <4>1
            <4> QED  BY <3>2, <4>1, <4>2
        <3>3. CASE n = 0
            <4>1. d[0] = <<>> /\ 0 # m + 1 /\ 0 \in 0 .. (m + 1)
                OBVIOUS
            <4> QED  BY <3>3, <4>1
        <3> QED  BY <3>1, <3>2, <3>3
    <2>2. Up(e, m + 1)
        BY <2>1, Zenon
    <2> QED  BY <2>2
<1>3. Nat \subseteq T
    <2> HIDE DEF T
    <2> QED  BY <1>1, <1>2, Induction
<1> HIDE DEF N
<1>4. PICK kept : Up(kept, N)
    BY <1>3 DEF N
<1>5. Keeps(kept, leg, rows)
    BY <1>4 DEF Keeps, N, More
<1> QED  BY <1>5

LEMMA KeptIsKept ==
    ASSUME NEW leg, NEW rows, Len(rows) \in Nat
    PROVE  \E kept : Keeps(kept, leg, rows) /\ KeptRows(leg, rows) = kept[Len(rows)]
<1> DEFINE kept == CHOOSE kept : kept =
                       [n \in 0 .. Len(rows) |->
                           IF n = 0 THEN <<>>
                           ELSE IF Kept(leg, rows[n]) THEN Append(kept[n - 1], rows[n]) ELSE kept[n - 1]]
<1>0. \E k : Keeps(k, leg, rows)
    BY KeptExists
<1>1. Keeps(kept, leg, rows)
    BY <1>0, Zenon DEF Keeps
<1>2. KeptRows(leg, rows) = kept[Len(rows)]
    BY Zenon DEF KeptRows
<1> QED  BY <1>1, <1>2, Zenon

\* What is kept of the first n rows.
KeepingOK(s, n, leg, rows) ==
    /\ s \in Seq(Quotes)
    /\ InTimeOrder(s)
    /\ \A i \in DOMAIN s : \E j \in 1 .. n : s[i] = rows[j]
    /\ \A i \in DOMAIN s : Kept(leg, s[i])

LEMMA KeepingStep ==
    ASSUME NEW leg, NEW rows \in Seq(Quotes), InTimeOrder(rows), NEW n \in Nat, n + 1 <= Len(rows),
           NEW s, KeepingOK(s, n, leg, rows)
    PROVE  /\ KeepingOK(s, n + 1, leg, rows)
           /\ Kept(leg, rows[n + 1]) => KeepingOK(Append(s, rows[n + 1]), n + 1, leg, rows)
<1> DEFINE e == Append(s, rows[n + 1])
<1>1. n + 1 \in DOMAIN rows /\ 1 .. n \subseteq DOMAIN rows /\ rows[n + 1] \in Quotes
    OBVIOUS
<1>2. /\ s \in Seq(Quotes) /\ InTimeOrder(s) /\ \A i \in DOMAIN s : \E j \in 1 .. n : s[i] = rows[j]
      /\ \A i \in DOMAIN s : Kept(leg, s[i])
    BY DEF KeepingOK
<1>3. KeepingOK(s, n + 1, leg, rows)
    <2>1. 1 .. n \subseteq 1 .. (n + 1)
        OBVIOUS
    <2> QED  BY <1>2, <2>1 DEF KeepingOK
<1>4. /\ e \in Seq(Quotes) /\ DOMAIN e = 1 .. (Len(s) + 1) /\ Len(s) \in Nat /\ DOMAIN s = 1 .. Len(s)
      /\ e[Len(s) + 1] = rows[n + 1] /\ \A i \in 1 .. Len(s) : e[i] = s[i]
    BY <1>1, <1>2
<1>5. \A i \in 1 .. Len(s) : s[i].t <= rows[n + 1].t
    <2> TAKE i \in 1 .. Len(s)
    <2>1. PICK j \in 1 .. n : s[i] = rows[j]
        BY <1>2, <1>4
    <2>2. j \in DOMAIN rows /\ j <= n + 1
        BY <1>1
    <2> QED  BY <1>1, <2>1, <2>2 DEF InTimeOrder
<1> HIDE DEF e
<1>6. InTimeOrder(e)
    <2> SUFFICES ASSUME NEW i \in DOMAIN e, NEW j \in DOMAIN e, i <= j PROVE e[i].t <= e[j].t
        BY DEF InTimeOrder
    <2>1. CASE j = Len(s) + 1 /\ i = Len(s) + 1
        BY <1>1, <1>4, <2>1 DEF Quotes
    <2>2. CASE j = Len(s) + 1 /\ i # Len(s) + 1
        <3>1. i \in 1 .. Len(s)
            BY <1>4, <2>2
        <3> QED  BY <1>4, <1>5, <2>2, <3>1
    <2>3. CASE j # Len(s) + 1
        <3>1. i \in 1 .. Len(s) /\ j \in 1 .. Len(s)
            BY <1>4, <2>3
        <3> QED  BY <1>2, <1>4, <3>1 DEF InTimeOrder
    <2> QED  BY <2>1, <2>2, <2>3
<1>7. \A i \in DOMAIN e : \E j \in 1 .. (n + 1) : e[i] = rows[j]
    <2> TAKE i \in DOMAIN e
    <2>1. CASE i = Len(s) + 1
        BY <1>4, <2>1
    <2>2. CASE i # Len(s) + 1
        <3>1. i \in 1 .. Len(s)
            BY <1>4, <2>2
        <3>2. PICK j \in 1 .. n : s[i] = rows[j]
            BY <1>2, <1>4, <3>1
        <3> QED  BY <1>4, <3>1, <3>2
    <2> QED  BY <2>1, <2>2
<1>8. ASSUME Kept(leg, rows[n + 1]) PROVE KeepingOK(e, n + 1, leg, rows)
    <2>1. \A i \in DOMAIN e : Kept(leg, e[i])
        <3> TAKE i \in DOMAIN e
        <3>1. CASE i = Len(s) + 1
            BY <1>4, <1>8, <3>1
        <3>2. CASE i # Len(s) + 1
            <4>1. i \in 1 .. Len(s)
                BY <1>4, <3>2
            <4> QED  BY <1>2, <1>4, <4>1
        <3> QED  BY <3>1, <3>2
    <2> QED  BY <1>4, <1>6, <1>7, <2>1 DEF KeepingOK
<1> QED  BY <1>3, <1>8 DEF e

LEMMA KeptRowsFacts ==
    ASSUME NEW leg, NEW rows \in Seq(Quotes), InTimeOrder(rows)
    PROVE  /\ KeptRows(leg, rows) \in Seq(Quotes) /\ InTimeOrder(KeptRows(leg, rows))
           /\ \A i \in DOMAIN KeptRows(leg, rows) : Kept(leg, KeptRows(leg, rows)[i])
<1> DEFINE c == Len(rows)
<1>1. c \in Nat
    OBVIOUS
<1>2. PICK kept : Keeps(kept, leg, rows) /\ KeptRows(leg, rows) = kept[c]
    BY <1>1, KeptIsKept
<1>3. /\ kept[0] = <<>>
      /\ \A n \in 1 .. c : kept[n] = IF Kept(leg, rows[n]) THEN Append(kept[n - 1], rows[n]) ELSE kept[n - 1]
    <2>1. 0 \in 0 .. c /\ 1 .. c \subseteq 0 .. c /\ \A n \in 1 .. c : n # 0
        BY <1>1
    <2> QED  BY <1>1, <1>2, <2>1 DEF Keeps
<1> HIDE DEF c
<1> DEFINE T == {n \in Nat : n <= c => KeepingOK(kept[n], n, leg, rows)}
<1>4. 0 \in T
    <2>1. KeepingOK(<<>>, 0, leg, rows)
        BY DEF KeepingOK, InTimeOrder
    <2> QED  BY <1>3, <2>1
<1>5. \A n \in Nat : n \in T => n + 1 \in T
    <2> SUFFICES ASSUME NEW n \in Nat, n \in T, n + 1 <= c PROVE KeepingOK(kept[n + 1], n + 1, leg, rows)
        OBVIOUS
    <2>1. n + 1 \in 1 .. c /\ (n + 1) - 1 = n /\ KeepingOK(kept[n], n, leg, rows)
        BY <1>1
    <2>2. kept[n + 1] = IF Kept(leg, rows[n + 1]) THEN Append(kept[n], rows[n + 1]) ELSE kept[n]
        BY <1>3, <2>1
    <2>3. /\ KeepingOK(kept[n], n + 1, leg, rows)
          /\ Kept(leg, rows[n + 1]) => KeepingOK(Append(kept[n], rows[n + 1]), n + 1, leg, rows)
        BY <2>1, KeepingStep DEF c
    <2> QED  BY <2>2, <2>3
<1>6. Nat \subseteq T
    <2> HIDE DEF T
    <2> QED  BY <1>4, <1>5, Induction
<1>7. KeepingOK(kept[c], c, leg, rows)
    BY <1>1, <1>6
<1> QED  BY <1>2, <1>7 DEF KeepingOK

-----------------------------------------------------------------------------
(* The row in force, by its table and by bisection.                         *)

RowsOK ==
    \A leg \in Legs :
        /\ events[leg] \in Seq(Quotes) /\ InTimeOrder(events[leg])
        /\ \A k \in DOMAIN events[leg] : events[leg][k].t <= Closes

UpTo(leg, t) == {k \in DOMAIN events[leg] : events[leg][k].t <= t}

LEMMA RowFacts ==
    ASSUME RowsOK, NEW leg \in Legs
    PROVE  /\ Len(events[leg]) \in Nat /\ DOMAIN events[leg] = 1 .. Len(events[leg])
           /\ \A k \in DOMAIN events[leg] :
                k \in Int /\ events[leg][k] \in Quotes /\ events[leg][k].t \in Nat
           /\ \A k \in DOMAIN events[leg] : events[leg][k].t <= Closes
           /\ \A i, j \in DOMAIN events[leg] : i <= j => events[leg][i].t <= events[leg][j].t
<1>1. events[leg] \in Seq(Quotes) /\ InTimeOrder(events[leg])
    BY DEF RowsOK
<1>2. \A k \in DOMAIN events[leg] : events[leg][k] \in Quotes
    BY <1>1
<1>3. \A q \in Quotes : q.t \in Nat
    BY DEF Quotes
<1>4. Len(events[leg]) \in Nat /\ DOMAIN events[leg] = 1 .. Len(events[leg])
    BY <1>1
<1>5. \A k \in DOMAIN events[leg] : k \in Int
    BY <1>4
<1>6. \A i, j \in DOMAIN events[leg] : i <= j => events[leg][i].t <= events[leg][j].t
    BY <1>1 DEF InTimeOrder
<1>7. \A k \in DOMAIN events[leg] : events[leg][k].t <= Closes
    BY DEF RowsOK
<1> QED  BY <1>2, <1>3, <1>4, <1>5, <1>6, <1>7

\* The rows up to a time are the first ones, and the last of them is in force.
LEMMA UpToFacts ==
    ASSUME RowsOK, NEW leg \in Legs, NEW t \in Int, UpTo(leg, t) # {}
    PROVE  \E m \in DOMAIN events[leg] :
              /\ UpTo(leg, t) = 1 .. m
              /\ Cardinality(UpTo(leg, t)) = m
              /\ InForce(leg, t) = events[leg][m]
<1> DEFINE n == Len(events[leg])
           S == UpTo(leg, t)
           m == Max(S)
<1>1. n \in Nat /\ DOMAIN events[leg] = 1 .. n /\ S \subseteq 1 .. n
    BY RowFacts DEF UpTo
<1>2. m \in S /\ \A y \in S : y <= m
    <2> HIDE DEF n, S
    <2> QED  BY <1>1, MaxOfPositions DEF S
<1>3. InForce(leg, t) = events[leg][m]
    BY DEF InForce, UpTo
<1> HIDE DEF m
<1>4. S = 1 .. m
    <2>1. ASSUME NEW k \in 1 .. m PROVE k \in S
        <3>1. k \in 1 .. n /\ k <= m /\ m \in 1 .. n /\ m \in DOMAIN events[leg] /\ k \in DOMAIN events[leg]
            BY <1>1, <1>2
        <3>2. events[leg][k].t <= events[leg][m].t /\ events[leg][m].t <= t
            BY <1>2, <3>1, RowFacts DEF UpTo
        <3>3. events[leg][k].t \in Nat /\ events[leg][m].t \in Nat
            BY <3>1, RowFacts
        <3> QED  BY <3>1, <3>2, <3>3 DEF UpTo
    <2>2. ASSUME NEW k \in S PROVE k \in 1 .. m
        <3>1. k \in 1 .. n /\ k <= m /\ m \in 1 .. n
            BY <1>1, <1>2
        <3> QED  BY <3>1
    <2> QED  BY <2>1, <2>2
<1>5. m \in Nat /\ m \in DOMAIN events[leg]
    BY <1>1, <1>2
<1>6. Cardinality(S) = m
    <2>1. Cardinality(1 .. m) = m
        BY <1>5, FS_Interval
    <2> QED  BY <1>4, <2>1, Zenon
<1> QED  BY <1>3, <1>4, <1>5, <1>6

LEMMA InForceIsQuote ==
    ASSUME RowsOK, NEW leg \in Legs, NEW t \in Int
    PROVE  InForce(leg, t) \in Quotes \cup {NoQuote}
<1>1. CASE UpTo(leg, t) = {}
    BY <1>1 DEF InForce, UpTo
<1>2. CASE UpTo(leg, t) # {}
    BY <1>2, UpToFacts, RowFacts
<1> QED  BY <1>1, <1>2

\* What the bisection finds is in force and not of a trial match.
LEMMA BisectionFinds ==
    ASSUME RowsOK, NEW leg \in Legs, NEW t \in Int, QuoteAt(leg, t) # NoQuote
    PROVE  QuoteAt(leg, t) = InForce(leg, t) /\ ~Trial(leg, QuoteAt(leg, t))
<1> DEFINE i == Cardinality(UpTo(leg, t))
           q == events[leg][i]
<1>1. QuoteAt(leg, t) = IF i = 0 THEN NoQuote
                        ELSE IF Trial(leg, q) \/ q.bid <= 0 \/ q.ask <= 0 THEN NoQuote ELSE q
    BY Zenon DEF QuoteAt, UpTo
<1> HIDE DEF i
<1>2. i # 0 /\ QuoteAt(leg, t) = q /\ ~Trial(leg, q)
    BY <1>1
<1>3. UpTo(leg, t) # {}
    BY <1>2, FS_EmptySet DEF i
<1>4. InForce(leg, t) = q
    BY <1>3, UpToFacts DEF i
<1> QED  BY <1>2, <1>4

LEMMA FreshIsReal ==
    ASSUME RowsOK, NEW leg \in Legs, NEW t \in Int, FreshAt(QuoteAt(leg, t), t)
    PROVE  Real(leg, QuoteAt(leg, t), t)
<1> DEFINE q == QuoteAt(leg, t)
<1>1. q # NoQuote /\ (MaxAge = Unset \/ t - q.t \in 0 .. MaxAge)
    BY DEF FreshAt
<1>2. q = InForce(leg, t) /\ ~Trial(leg, q)
    BY <1>1, BisectionFinds
<1> HIDE DEF q
<1>3. MaxAge # Unset => t - q.t <= MaxAge
    BY <1>1, MaxAgeAssumption
<1>4. Real(leg, q, t)
    BY <1>2, <1>3 DEF Real
<1> QED  BY <1>4 DEF q

-----------------------------------------------------------------------------
(* Execution: the quotes a pair order is filled at, or undone at.           *)

LatencyOK == Send \in Nat /\ Report \in Nat

\* A snapshot shows the books at the stamp of the quote that triggered it.
Shows(m, first) == \A leg \in Legs : LegQuote(m, leg) = InForce(leg, EventTime(m, first))

FilledAt(first, m, signalled) ==
    /\ Real(first, LegQuote(m, first), signalled + Send)
    /\ Real(Other(first), LegQuote(m, Other(first)), signalled + Send + Report + Send)
FlattenedAt(first, done, signalled) ==
    /\ Real(first, done.entry, signalled + Send)
    /\ done.exit # NoQuote => Real(first, done.exit, done.at)

LEMMA LegFacts ==
    ASSUME NEW first \in Legs
    PROVE  /\ Other(first) \in Legs
           /\ \A q1, q2 : /\ LegQuote(WithLegs(first, q1, q2), first) = q1
                          /\ LegQuote(WithLegs(first, q1, q2), Other(first)) = q2
BY DEF Legs, Other, LegQuote, WithLegs

LEMMA FlattenFacts ==
    ASSUME RowsOK, NEW first \in Legs, NEW signalled \in Int, NEW offset \in Int,
           NEW signal, NEW quote, NEW reason, Real(first, quote, signalled + Send)
    PROVE  LET done == Flatten(signal, first, quote, signalled, offset, reason)
           IN  done.outcome = "flatten" /\ FlattenedAt(first, done, signalled)
<1> DEFINE done == Flatten(signal, first, quote, signalled, offset, reason)
           t == signalled + offset
           found == QuoteAt(first, t)
           out == IF FreshAt(found, t) THEN found ELSE NoQuote
<1>1. /\ done.outcome = "flatten" /\ done.at = t /\ done.entry = quote /\ done.exit = out
    BY DEF Flatten, LatencyQuote
<1>2. t \in Int
    OBVIOUS
<1>3. out # NoQuote => FreshAt(found, t) /\ out = found
    OBVIOUS
<1> HIDE DEF done, t, found, out
<1>4. out # NoQuote => Real(first, out, t)
    BY <1>2, <1>3, FreshIsReal DEF found
<1>5. done.outcome = "flatten" /\ FlattenedAt(first, done, signalled)
    BY <1>1, <1>4 DEF FlattenedAt
<1> QED  BY <1>5 DEF done

\* What becomes of a pair order: nothing, a pair or an undone first leg, each
\* at quotes in force when its orders reach the market.
OutcomeOK(first, done, signalled) ==
    \/ done.outcome = "skip"
    \/ done.outcome = "fill" /\ FilledAt(first, done.market, signalled)
    \/ done.outcome = "flatten" /\ FlattenedAt(first, done, signalled)

LEMMA SecondLegFacts ==
    ASSUME RowsOK, LatencyOK, NEW first \in Legs, NEW signalled \in Int,
           NEW signal, NEW q1, NEW seen, Real(first, q1, signalled + Send)
    PROVE  OutcomeOK(first, SecondLeg(signal, first, signalled, q1, seen), signalled)
<1> DEFINE done == SecondLeg(signal, first, signalled, q1, seen)
           second == Other(first)
           sent == 2 * Send + Report
           late == sent + Report + Send
           q2 == QuoteAt(second, signalled + sent)
           flat(offset, reason) == Flatten(signal, first, q1, signalled, offset, reason)
           filled == [outcome |-> "fill", market |-> WithLegs(first, q1, q2)]
<1>1. \/ \E reason : done = flat(sent, reason)
      \/ \E reason : done = flat(late, reason)
      \/ FreshAt(q2, signalled + sent) /\ done = filled
    BY Zenon DEF SecondLeg, LatencyQuote
<1>2. sent \in Int /\ late \in Int /\ signalled + sent = signalled + Send + Report + Send
    BY DEF LatencyOK
<1>3. \A reason : OutcomeOK(first, flat(sent, reason), signalled) /\ OutcomeOK(first, flat(late, reason), signalled)
    <2> HIDE DEF sent, late
    <2> TAKE reason
    <2>1. flat(sent, reason).outcome = "flatten" /\ FlattenedAt(first, flat(sent, reason), signalled)
        BY <1>2, FlattenFacts
    <2>2. flat(late, reason).outcome = "flatten" /\ FlattenedAt(first, flat(late, reason), signalled)
        BY <1>2, FlattenFacts
    <2> HIDE DEF flat
    <2> QED  BY <2>1, <2>2 DEF OutcomeOK
<1>4. ASSUME FreshAt(q2, signalled + sent) PROVE OutcomeOK(first, filled, signalled)
    <2>1. second \in Legs /\ signalled + sent \in Int
        BY <1>2, LegFacts
    <2>2. Real(second, q2, signalled + sent)
        <3> HIDE DEF second, sent
        <3> QED  BY <1>4, <2>1, FreshIsReal
    <2>3. LegQuote(filled.market, first) = q1 /\ LegQuote(filled.market, second) = q2
        <3> HIDE DEF q2
        <3> QED  BY LegFacts
    <2>4. FilledAt(first, filled.market, signalled)
        <3> HIDE DEF filled, q2
        <3> QED  BY <1>2, <2>2, <2>3 DEF FilledAt
    <2>5. filled.outcome = "fill"
        OBVIOUS
    <2> HIDE DEF filled
    <2> QED  BY <2>4, <2>5 DEF OutcomeOK
<1> HIDE DEF done, filled, flat, sent, late
<1>5. OutcomeOK(first, done, signalled)
    BY <1>1, <1>3, <1>4
<1> QED  BY <1>5 DEF done

LEMMA PaperMarketFacts ==
    ASSUME RowsOK, LatencyOK, NEW first \in Legs, NEW signal, NEW m, EventTime(m, first) \in Int,
           Shows(m, first), \A leg \in Legs : ~Trial(leg, LegQuote(m, leg))
    PROVE  OutcomeOK(first, PaperMarketAfterLatency(signal, first, m), EventTime(m, first))
<1> DEFINE done == PaperMarketAfterLatency(signal, first, m)
           signalled == EventTime(m, first)
           q1 == QuoteAt(first, signalled + Send)
           decided == Send + Report
           decision == [leg \in Legs |-> QuoteAt(leg, signalled + decided)]
           missing == Flatten(signal, first, q1, signalled, decided + Send, "MISSING_DECISION_QUOTE")
           second == SecondLeg(signal, first, signalled, q1, WithLegs(first, q1, decision[Other(first)]))
<1>1. \/ Send = 0 /\ Report = 0 /\ done = [outcome |-> "fill", market |-> m]
      \/ done = Skip
      \/ /\ ~FirstLegMissed(signal, first, m, q1)
         /\ done \in {missing, second}
    BY Zenon DEF PaperMarketAfterLatency, LatencyQuote
<1>2. signalled \in Int /\ signalled + Send \in Int /\ decided + Send \in Int
    BY DEF LatencyOK
<1>3. ASSUME Send = 0, Report = 0, done = [outcome |-> "fill", market |-> m]
      PROVE  OutcomeOK(first, done, signalled)
    <2>1. done.outcome = "fill" /\ done.market = m
        BY <1>3
    <2>2. Other(first) \in Legs
        BY LegFacts
    <2>3. signalled + Send = signalled /\ signalled + Send + Report + Send = signalled
        BY <1>2, <1>3
    <2>4. \A leg \in Legs : Real(leg, LegQuote(m, leg), signalled)
        <3>1. ~(Send + Report > 0)
            BY <1>3
        <3> QED  BY <3>1 DEF Real, Shows
    <2> HIDE DEF done, signalled
    <2>5. FilledAt(first, m, signalled)
        BY <2>2, <2>3, <2>4 DEF FilledAt
    <2> QED  BY <2>1, <2>5 DEF OutcomeOK
<1>4. ASSUME done = Skip PROVE OutcomeOK(first, done, signalled)
    BY <1>4 DEF OutcomeOK, Skip
<1>5. ASSUME ~FirstLegMissed(signal, first, m, q1), done \in {missing, second}
      PROVE  OutcomeOK(first, done, signalled)
    <2>1. FreshAt(q1, signalled + Send)
        BY <1>5, Zenon DEF FirstLegMissed
    <2>2. Real(first, q1, signalled + Send)
        <3> HIDE DEF signalled
        <3> QED  BY <1>2, <2>1, FreshIsReal
    <2> HIDE DEF q1, signalled, decided, decision, done
    <2>3. OutcomeOK(first, missing, signalled)
        <3>1. missing.outcome = "flatten" /\ FlattenedAt(first, missing, signalled)
            BY <1>2, <2>2, FlattenFacts
        <3> HIDE DEF missing
        <3> QED  BY <3>1 DEF OutcomeOK
    <2>4. OutcomeOK(first, second, signalled)
        BY <1>2, <2>2, SecondLegFacts
    <2> QED  BY <1>5, <2>3, <2>4
<1> HIDE DEF done, signalled, q1, missing, second
<1>6. OutcomeOK(first, done, signalled)
    BY <1>1, <1>3, <1>4, <1>5
<1> QED  BY <1>6 DEF done, signalled

-----------------------------------------------------------------------------
(* The invariant.                                                           *)

Placed == quotes = [leg \in Legs |-> InForce(leg, fed)]
Snapshots ==
    {u \in [source : Legs, quotes : [Legs -> Quotes \cup {NoQuote}]] :
        \A leg \in Legs : u.quotes[leg] = InForce(leg, u.quotes[u.source].t)}
UpdatesOK ==
    /\ putting \in Seq(Snapshots) /\ queue \in Seq(Snapshots)
    /\ driver = "evaluate" => active \in Snapshots

\* One trade of FillsAreInForce.
TradeOK(trade) ==
    LET first == trade.trigger
        sent == trade.signalled + Send
    IN  IF trade.kind = "pair"
        THEN /\ Real(first, LegQuote(trade.market, first), sent)
             /\ Real(Other(first), LegQuote(trade.market, Other(first)), sent + Report + Send)
        ELSE /\ Real(first, trade.result.entry, sent)
             /\ trade.result.exit # NoQuote => Real(first, trade.result.exit, trade.result.at)
TradesOK == trades \in Seq(Range(trades)) /\ FillsAreInForce

FillsInv == RowsOK /\ LatencyOK /\ fed \in Int /\ Placed /\ UpdatesOK /\ TradesOK

LEMMA TradeByTrade == FillsAreInForce <=> \A i \in DOMAIN trades : TradeOK(trades[i])
BY Zenon DEF FillsAreInForce, TradeOK

\* What does not change keeps its meaning.
LEMMA SameDay ==
    ASSUME UNCHANGED <<latency, events>>
    PROVE  /\ RowsOK' = RowsOK /\ LatencyOK' = LatencyOK /\ Snapshots' = Snapshots
           /\ \A leg, t : InForce(leg, t)' = InForce(leg, t)
           /\ \A trade : TradeOK(trade)' = TradeOK(trade)
BY DEF RowsOK, LatencyOK, Snapshots, InForce, TradeOK, Real, Send, Report

LEMMA SameTrades ==
    ASSUME TradesOK, UNCHANGED <<latency, events, trades>>
    PROVE  TradesOK'
<1>1. \A i \in DOMAIN trades : TradeOK(trades[i])
    BY TradeByTrade DEF TradesOK
<1>2. (\A i \in DOMAIN trades : TradeOK(trades[i]))'
    BY <1>1, SameDay
<1>3. FillsAreInForce'
    BY <1>2, TradeByTrade, PTL
<1>4. (trades \in Seq(Range(trades)))'
    BY DEF TradesOK, Range
<1> QED  BY <1>3, <1>4 DEF TradesOK

LEMMA OneMoreTrade ==
    ASSUME TradesOK, UNCHANGED <<latency, events>>, NEW trade, trades' = Append(trades, trade), TradeOK(trade)
    PROVE  TradesOK'
<1> DEFINE n == Len(trades)
<1>1. /\ n \in Nat /\ DOMAIN trades = 1 .. n /\ DOMAIN trades' = 1 .. (n + 1)
      /\ trades'[n + 1] = trade /\ \A i \in 1 .. n : trades'[i] = trades[i]
    BY DEF TradesOK
<1>2. \A i \in 1 .. n : TradeOK(trades[i])
    BY <1>1, TradeByTrade DEF TradesOK
<1> HIDE DEF n
<1>3. \A i \in 1 .. (n + 1) : TradeOK(trades'[i])
    <2> TAKE i \in 1 .. (n + 1)
    <2>1. CASE i = n + 1
        BY <1>1, <2>1
    <2>2. CASE i # n + 1
        <3>1. i \in 1 .. n
            BY <1>1, <2>2
        <3> QED  BY <1>1, <1>2, <3>1
    <2> QED  BY <2>1, <2>2
<1>4. (\A i \in DOMAIN trades : TradeOK(trades[i]))'
    BY <1>1, <1>3, SameDay
<1>5. FillsAreInForce'
    BY <1>4, TradeByTrade, PTL
<1>6. (trades \in Seq(Range(trades)))'
    <2>1. trades' \in Seq(Range(trades) \cup {trade})
        BY DEF TradesOK
    <2> QED  BY <2>1, SeqOfRange
<1> QED  BY <1>5, <1>6 DEF TradesOK

-----------------------------------------------------------------------------
(* One lemma per action that moves an update or a trade.                    *)

LEMMA InvInit == ASSUME Init PROVE FillsInv
<1>1. RowsOK
    <2>1. PICK tables \in Tables : events = Loaded(tables)
        BY DEF Init
    <2>2. ASSUME NEW leg \in Legs
          PROVE  /\ events[leg] \in Seq(Quotes) /\ InTimeOrder(events[leg])
                 /\ \A k \in DOMAIN events[leg] : events[leg][k].t <= Closes
        <3>1. events[leg] = KeptRows(leg, tables[leg])
            BY <2>1 DEF Loaded
        <3>2. tables[leg] \in Seq(Quotes) /\ InTimeOrder(tables[leg])
            BY TablesAssumption
        <3>3. /\ events[leg] \in Seq(Quotes) /\ InTimeOrder(events[leg])
              /\ \A k \in DOMAIN events[leg] : Kept(leg, events[leg][k])
            BY <3>1, <3>2, KeptRowsFacts
        <3>4. ASSUME NEW k \in DOMAIN events[leg] PROVE events[leg][k].t <= Closes
            <4>1. events[leg][k].t \in Opens .. Closes
                BY <3>3 DEF Kept
            <4> QED  BY <4>1, SessionAssumption
        <3> QED  BY <3>3, <3>4
    <2> QED  BY <2>2 DEF RowsOK
<1>2. LatencyOK
    BY LatenciesAssumption DEF Init, LatencyOK, Send, Report
<1>3. fed \in Int /\ Placed
    <2>1. ASSUME NEW leg \in Legs PROVE InForce(leg, -1) = NoQuote
        <3>1. \A k \in DOMAIN events[leg] : ~(events[leg][k].t <= -1)
            BY <1>1, RowFacts
        <3> QED  BY <3>1 DEF InForce
    <2> QED  BY <2>1 DEF Init, Placed
<1>4. UpdatesOK
    BY DEF Init, UpdatesOK
<1>5. TradesOK
    <2>1. trades = <<>>
        BY DEF Init
    <2>2. trades \in Seq(Range(trades)) /\ DOMAIN trades = {}
        BY <2>1
    <2> QED  BY <2>2, TradeByTrade DEF TradesOK
<1> QED  BY <1>1, <1>2, <1>3, <1>4, <1>5 DEF FillsInv

\* The rows of the least stamp ahead are in force at that stamp.
LEMMA NextInForce ==
    ASSUME RowsOK, fed \in Int, NEW T \in Ahead, \A t \in Ahead : T <= t, NEW leg \in Legs
    PROVE  LET rows == {k \in DOMAIN events[leg] : events[leg][k].t = T}
           IN  /\ rows = {} => InForce(leg, T) = InForce(leg, fed)
               /\ rows # {} => InForce(leg, T) = events[leg][Max(rows)] /\ events[leg][Max(rows)].t = T
<1> DEFINE n == Len(events[leg])
           rows == {k \in DOMAIN events[leg] : events[leg][k].t = T}
           m == Max(rows)
<1>1. /\ n \in Nat /\ DOMAIN events[leg] = 1 .. n
      /\ \A k \in DOMAIN events[leg] : k \in Int /\ events[leg][k].t \in Nat
      /\ \A i, j \in DOMAIN events[leg] : i <= j => events[leg][i].t <= events[leg][j].t
    BY RowFacts
<1>2. T \in Int /\ T > fed
    <2>1. PICK l \in Legs : \E k \in DOMAIN events[l] : T = events[l][k].t
        BY DEF Ahead, Stamps
    <2> QED  BY <2>1, RowFacts DEF Ahead
<1>3. \A k \in DOMAIN events[leg] : events[leg][k].t > fed => T <= events[leg][k].t
    BY DEF Ahead, Stamps
<1>4. ASSUME rows = {} PROVE UpTo(leg, T) = UpTo(leg, fed)
    <2>1. ASSUME NEW k \in DOMAIN events[leg] PROVE events[leg][k].t <= T <=> events[leg][k].t <= fed
        <3>1. events[leg][k].t # T /\ events[leg][k].t \in Nat
            BY <1>1, <1>4
        <3> QED  BY <1>2, <1>3, <3>1
    <2> QED  BY <2>1 DEF UpTo
<1>5. ASSUME rows # {} PROVE InForce(leg, T) = events[leg][m] /\ events[leg][m].t = T
    <2>1. m \in rows /\ \A y \in rows : y <= m
        <3>1. rows \subseteq 1 .. n
            BY <1>1
        <3> HIDE DEF rows, n
        <3> QED  BY <1>1, <1>5, <3>1, MaxOfPositions
    <2> HIDE DEF m
    <2>2. m \in DOMAIN events[leg] /\ events[leg][m].t = T
        BY <2>1
    <2>3. m \in UpTo(leg, T) /\ UpTo(leg, T) \subseteq Int
        BY <1>1, <1>2, <2>2 DEF UpTo
    <2>4. ASSUME NEW k \in UpTo(leg, T) PROVE k <= m
        <3> SUFFICES ASSUME ~(k <= m) PROVE FALSE
            OBVIOUS
        <3>1. k \in DOMAIN events[leg] /\ events[leg][k].t <= T /\ k \in Int /\ m \in Int
            BY <1>1, <2>2 DEF UpTo
        <3>2. m <= k /\ events[leg][k].t \in Nat
            BY <1>1, <3>1
        <3>3. events[leg][k].t = T
            BY <1>1, <1>2, <2>2, <3>1, <3>2
        <3> QED  BY <2>1, <3>1, <3>3
    <2>5. Max(UpTo(leg, T)) = m
        <3> HIDE DEF rows
        <3> QED  BY <2>3, <2>4, MaxIs
    <2>6. InForce(leg, T) = events[leg][Max(UpTo(leg, T))]
        BY <2>3 DEF InForce, UpTo
    <2> QED  BY <2>2, <2>5, <2>6
<1>6. rows = {} => InForce(leg, T) = InForce(leg, fed)
    BY <1>4, Zenon DEF InForce, UpTo
<1> QED  BY <1>5, <1>6

LEMMA FeedStep ==
    ASSUME FillsInv, UpdateTimestampGroup
    PROVE  FillsInv'
<1> DEFINE T == Min(Ahead)
           rows(leg) == {k \in DOMAIN events[leg] : events[leg][k].t = T}
           placed == [leg \in Legs |-> IF rows(leg) = {} THEN quotes[leg] ELSE events[leg][Max(rows(leg))]]
           updates(leg) == IF rows(leg) # {} /\ Changed(leg, quotes[leg], placed[leg])
                           THEN <<[source |-> leg, quotes |-> placed]>> ELSE <<>>
<1>1. /\ RowsOK /\ LatencyOK /\ fed \in Int /\ Placed /\ UpdatesOK /\ TradesOK
      /\ quotes = [leg \in Legs |-> InForce(leg, fed)]
    BY DEF FillsInv, Placed
<1>2. /\ UNCHANGED <<latency, events, queue, driver, active, trades>>
      /\ fed' = T /\ quotes' = placed /\ putting' = updates("stock") \o updates("future")
      /\ Ahead # {}
    BY Zenon DEF UpdateTimestampGroup, bookVars
<1>3. Ahead \subseteq Nat
    <2>1. ASSUME NEW t \in Ahead PROVE t \in Nat
        <3>1. PICK l \in Legs : \E k \in DOMAIN events[l] : t = events[l][k].t
            BY DEF Ahead, Stamps
        <3> QED  BY <1>1, <3>1, RowFacts
    <2> QED  BY <2>1
<1>4. T \in Ahead /\ \A t \in Ahead : T <= t
    <2>1. \E x \in Ahead : \A y \in Ahead : x <= y
        BY <1>2, <1>3, LeastNatural
    <2> QED  BY <2>1 DEF Min
<1> HIDE DEF T
<1>5. T \in Int
    BY <1>3, <1>4
<1>6. \A leg \in Legs : /\ rows(leg) = {} => InForce(leg, T) = InForce(leg, fed)
                        /\ rows(leg) # {} => InForce(leg, T) = events[leg][Max(rows(leg))]
                                             /\ events[leg][Max(rows(leg))].t = T
    BY <1>1, <1>4, NextInForce
<1> HIDE DEF rows
<1>7. placed = [leg \in Legs |-> InForce(leg, T)]
    BY <1>1, <1>6
<1>8. \A leg \in Legs : rows(leg) # {} => placed[leg].t = T
    BY <1>6
<1>9. placed \in [Legs -> Quotes \cup {NoQuote}]
    BY <1>1, <1>5, <1>7, InForceIsQuote
<1> HIDE DEF placed
<1>10. \A leg \in Legs : updates(leg) \in Seq(Snapshots)
    <2> TAKE leg \in Legs
    <2> DEFINE u == [source |-> leg, quotes |-> placed]
    <2>1. CASE rows(leg) # {}
        <3>1. u \in [source : Legs, quotes : [Legs -> Quotes \cup {NoQuote}]]
            BY <1>9
        <3>2. u.quotes[u.source].t = T /\ \A l \in Legs : u.quotes[l] = InForce(l, T)
            BY <1>7, <1>8, <2>1
        <3>3. u \in Snapshots
            BY <3>1, <3>2 DEF Snapshots
        <3> HIDE DEF u
        <3>4. <<u>> \in Seq(Snapshots) /\ <<>> \in Seq(Snapshots)
            BY <3>3
        <3>5. updates(leg) \in {<<u>>, <<>>}
            BY DEF u
        <3> QED  BY <3>4, <3>5
    <2>2. CASE rows(leg) = {}
        BY <2>2
    <2> QED  BY <2>1, <2>2
<1> HIDE DEF updates
<1>11. putting' \in Seq(Snapshots)
    BY <1>2, <1>10 DEF Legs
<1>12. Placed' /\ fed' \in Int
    <2>1. \A leg \in Legs : InForce(leg, fed)' = InForce(leg, T)
        BY <1>2 DEF InForce
    <2> QED  BY <1>2, <1>5, <1>7, <2>1 DEF Placed
<1>13. RowsOK' /\ LatencyOK'
    BY <1>1, <1>2, SameDay
<1>14. UpdatesOK'
    BY <1>1, <1>2, <1>11, SameDay DEF UpdatesOK
<1>15. TradesOK'
    BY <1>1, <1>2, SameTrades
<1> QED  BY <1>12, <1>13, <1>14, <1>15 DEF FillsInv

LEMMA PutStep ==
    ASSUME FillsInv, PutUpdate
    PROVE  FillsInv'
<1>1. RowsOK /\ LatencyOK /\ fed \in Int /\ Placed /\ UpdatesOK /\ TradesOK
    BY DEF FillsInv
<1>2. /\ UNCHANGED <<latency, events, fed, quotes, driver, active, trades>>
      /\ putting # <<>> /\ queue' = Append(queue, Head(putting)) /\ putting' = Tail(putting)
    BY DEF PutUpdate, bookVars
<1>3. putting' \in Seq(Snapshots) /\ queue' \in Seq(Snapshots)
    BY <1>1, <1>2 DEF UpdatesOK
<1>4. RowsOK' /\ LatencyOK' /\ Placed' /\ fed' \in Int
    BY <1>1, <1>2, SameDay DEF Placed, InForce
<1>5. UpdatesOK'
    BY <1>1, <1>2, <1>3, SameDay DEF UpdatesOK
<1>6. TradesOK'
    BY <1>1, <1>2, SameTrades
<1> QED  BY <1>4, <1>5, <1>6 DEF FillsInv

LEMMA WaitStep ==
    ASSUME FillsInv, WaitForUpdate
    PROVE  FillsInv'
<1>1. RowsOK /\ LatencyOK /\ fed \in Int /\ Placed /\ UpdatesOK /\ TradesOK
    BY DEF FillsInv
<1>2. /\ UNCHANGED <<latency, events, fed, putting, quotes, trades>>
      /\ queue # <<>> /\ active' = Head(queue) /\ queue' = Tail(queue)
    BY DEF WaitForUpdate, feedVars, bookVars
<1>3. active' \in Snapshots /\ queue' \in Seq(Snapshots)
    BY <1>1, <1>2 DEF UpdatesOK
<1>4. RowsOK' /\ LatencyOK' /\ Placed' /\ fed' \in Int
    BY <1>1, <1>2, SameDay DEF Placed, InForce
<1>5. UpdatesOK'
    BY <1>1, <1>2, <1>3, SameDay DEF UpdatesOK
<1>6. TradesOK'
    BY <1>1, <1>2, SameTrades
<1> QED  BY <1>4, <1>5, <1>6 DEF FillsInv

\* The pair is evaluated on the snapshot, and what is recorded of a fill is
\* what the execution found.
LEMMA EvaluateStep ==
    ASSUME FillsInv, EvaluatePair
    PROVE  FillsInv'
<1> DEFINE first == active.source
           m == [spot |-> active.quotes["stock"], future |-> active.quotes["future"]]
           signal == Evaluate(position, m)
           done == PaperMarketAfterLatency(signal, first, m)
           signalled == EventTime(m, first)
           pair == BuildTradeRecord(signal, first, done.market, signalled)
           undone == [kind |-> "flatten", trigger |-> first, result |-> done, signalled |-> signalled]
<1>1. RowsOK /\ LatencyOK /\ fed \in Int /\ Placed /\ UpdatesOK /\ TradesOK
    BY DEF FillsInv
<1>2. /\ UNCHANGED <<latency, events, fed, putting, quotes, queue, active>>
      /\ driver = "evaluate" /\ driver' = "look"
    BY DEF EvaluatePair, feedVars
<1>3. RowsOK' /\ LatencyOK' /\ Placed' /\ fed' \in Int /\ UpdatesOK'
    <2>1. RowsOK' /\ LatencyOK' /\ Placed' /\ fed' \in Int
        BY <1>1, <1>2, SameDay DEF Placed, InForce
    <2>2. UpdatesOK'
        BY <1>1, <1>2, SameDay DEF UpdatesOK
    <2> QED  BY <2>1, <2>2
<1>4. CASE trades' = trades
    BY <1>1, <1>2, <1>3, <1>4, SameTrades DEF FillsInv
<1>5. CASE trades' # trades
    <2>1. MarketReady(active.quotes) /\ Execute(signal, first, m)
        BY <1>5 DEF EvaluatePair, bookVars
    <2>2. active \in Snapshots /\ first \in Legs
        BY <1>1, <1>2 DEF UpdatesOK, Snapshots
    <2>3. \A leg \in Legs : LegQuote(m, leg) = active.quotes[leg]
        BY DEF Legs, LegQuote
    <2>4. /\ \A leg \in Legs : LegQuote(m, leg) \in Quotes
          /\ \A leg \in Legs : LegQuote(m, leg) = InForce(leg, active.quotes[first].t)
          /\ \A leg \in Legs : ~Trial(leg, LegQuote(m, leg))
        BY <2>1, <2>2, <2>3 DEF Snapshots, MarketReady
    <2> HIDE DEF m, first, signal
    <2>5. signalled = active.quotes[first].t /\ signalled \in Int
        BY <2>2, <2>3, <2>4 DEF EventTime, Quotes
    <2>6. Shows(m, first)
        BY <2>4, <2>5 DEF Shows
    <2>7. OutcomeOK(first, done, signalled)
        BY <1>1, <2>2, <2>4, <2>5, <2>6, PaperMarketFacts
    <2>8. \/ done.outcome = "flatten" /\ trades' = Append(trades, undone)
          \/ done.outcome = "fill" /\ trades' = Append(trades, pair)
        <3> HIDE DEF pair, undone
        <3>1. CASE done.outcome = "skip"
            BY <1>5, <2>1, <3>1 DEF Execute, bookVars
        <3>2. CASE done.outcome = "flatten"
            BY <2>1, <3>2 DEF Execute, undone
        <3>3. CASE done.outcome = "fill"
            BY <2>1, <3>3 DEF Execute, pair
        <3> QED  BY <2>7, <3>1, <3>2, <3>3 DEF OutcomeOK
    <2>9. ASSUME done.outcome = "fill" PROVE TradeOK(pair)
        <3>1. FilledAt(first, done.market, signalled)
            BY <2>7, <2>9 DEF OutcomeOK
        <3>2. pair.kind = "pair" /\ pair.trigger = first /\ pair.market = done.market /\ pair.signalled = signalled
            <4> HIDE DEF done, signalled
            <4> QED  BY DEF BuildTradeRecord
        <3> HIDE DEF pair, done, signalled
        <3> QED  BY <3>1, <3>2 DEF TradeOK, FilledAt
    <2>10. ASSUME done.outcome = "flatten" PROVE TradeOK(undone)
        <3>1. FlattenedAt(first, done, signalled)
            BY <2>7, <2>10 DEF OutcomeOK
        <3>2. undone.kind # "pair" /\ undone.trigger = first /\ undone.result = done /\ undone.signalled = signalled
            OBVIOUS
        <3> HIDE DEF undone, done, signalled
        <3> QED  BY <3>1, <3>2 DEF TradeOK, FlattenedAt
    <2> HIDE DEF pair, undone, done
    <2>11. TradesOK'
        BY <1>1, <1>2, <2>8, <2>9, <2>10, OneMoreTrade
    <2> QED  BY <1>3, <2>11 DEF FillsInv
<1> QED  BY <1>4, <1>5

\* The other steps move neither updates nor trades.
LEMMA OtherSteps ==
    ASSUME FillsInv,
           \/ FeedEnds \/ IsFinished \/ IsFinishedQueue \/ WaitTimesOut \/ Close
           \/ UNCHANGED vars
    PROVE  FillsInv'
<1>1. RowsOK /\ LatencyOK /\ fed \in Int /\ Placed /\ UpdatesOK /\ TradesOK
    BY DEF FillsInv
<1>2. /\ UNCHANGED <<latency, events, fed, putting, quotes, queue, active, trades>>
      /\ driver' = "evaluate" => driver = "evaluate"
    BY DEF FeedEnds, IsFinished, IsFinishedQueue, WaitTimesOut, Close, vars, feedVars, bookVars
<1>3. RowsOK' /\ LatencyOK' /\ Placed' /\ fed' \in Int
    BY <1>1, <1>2, SameDay DEF Placed, InForce
<1>4. UpdatesOK'
    BY <1>1, <1>2, SameDay DEF UpdatesOK
<1>5. TradesOK'
    BY <1>1, <1>2, SameTrades
<1> QED  BY <1>3, <1>4, <1>5 DEF FillsInv

LEMMA FillsInvHolds == Spec => []FillsInv
<1>1. Init => FillsInv
    BY InvInit
<1>2. FillsInv /\ [Next]_vars => FillsInv'
    <2> SUFFICES ASSUME FillsInv, [Next]_vars PROVE FillsInv'
        OBVIOUS
    <2>1. CASE UpdateTimestampGroup
        BY <2>1, FeedStep
    <2>2. CASE PutUpdate
        BY <2>2, PutStep
    <2>3. CASE WaitForUpdate
        BY <2>3, WaitStep
    <2>4. CASE EvaluatePair
        BY <2>4, EvaluateStep
    <2>5. CASE \/ FeedEnds \/ IsFinished \/ IsFinishedQueue \/ WaitTimesOut \/ Close
               \/ UNCHANGED vars
        BY <2>5, OtherSteps
    <2> QED  BY <2>1, <2>2, <2>3, <2>4, <2>5 DEF Next, Feed, Driver
<1> QED  BY <1>1, <1>2, PTL DEF Spec

\* Whatever the tables and the latencies, and however the two threads
\* interleave, a pair is filled, and a first leg undone, at prices in force at
\* the time the order reaches the market, none of a trial match, none too old.
THEOREM FillsAreAtMarket == Spec => []FillsAreInForce
<1>1. FillsInv => FillsAreInForce
    BY DEF FillsInv, TradesOK
<1> QED  BY <1>1, FillsInvHolds, PTL

-----------------------------------------------------------------------------
(* The changes of the day, one instant after the other.                     *)

Updates == [source : Legs, quotes : [Legs -> Quotes \cup {NoQuote}]]

\* The function of ChangesBefore.
Gathers(c, n) == c = [k \in 0 .. n |-> IF k = 0 THEN <<>> ELSE c[k - 1] \o ChangesAt(k - 1)]

LEMMA ChangesExist ==
    ASSUME NEW n \in Nat
    PROVE  \E c : Gathers(c, n)
<1> DEFINE T == {m \in Nat : \E c : Gathers(c, m)}
<1>1. 0 \in T
    <2>1. Gathers([k \in 0 .. 0 |-> <<>>], 0)
        BY DEF Gathers
    <2> QED  BY <2>1
<1>2. \A m \in Nat : m \in T => m + 1 \in T
    <2> SUFFICES ASSUME NEW m \in Nat, NEW d, Gathers(d, m) PROVE \E e : Gathers(e, m + 1)
        OBVIOUS
    <2> DEFINE e == [k \in 0 .. (m + 1) |-> IF k = m + 1 THEN d[m] \o ChangesAt(m) ELSE d[k]]
    <2>1. \A k \in 0 .. (m + 1) : e[k] = IF k = 0 THEN <<>> ELSE e[k - 1] \o ChangesAt(k - 1)
        <3> SUFFICES ASSUME NEW k \in 0 .. (m + 1)
                     PROVE  e[k] = IF k = 0 THEN <<>> ELSE e[k - 1] \o ChangesAt(k - 1)
            OBVIOUS
        <3>1. CASE k = m + 1
            <4>1. k # 0 /\ k - 1 = m /\ m \in 0 .. (m + 1) /\ m # m + 1
                BY <3>1
            <4> QED  BY <3>1, <4>1
        <3>2. CASE k # m + 1 /\ k # 0
            <4>1. k \in 0 .. m /\ k - 1 \in 0 .. (m + 1) /\ k - 1 # m + 1
                BY <3>2
            <4>2. d[k] = d[k - 1] \o ChangesAt(k - 1)
                BY <3>2, <4>1 DEF Gathers
            <4> QED  BY <3>2, <4>1, <4>2
        <3>3. CASE k = 0
            <4>1. d[0] = <<>> /\ 0 # m + 1 /\ 0 \in 0 .. (m + 1)
                BY DEF Gathers
            <4> QED  BY <3>3, <4>1
        <3> QED  BY <3>1, <3>2, <3>3
    <2>2. Gathers(e, m + 1)
        BY <2>1, Zenon DEF Gathers
    <2> QED  BY <2>2
<1>3. Nat \subseteq T
    <2> HIDE DEF T
    <2> QED  BY <1>1, <1>2, Induction
<1> QED  BY <1>3

LEMMA ChangesAreAdded ==
    ASSUME NEW n \in Nat
    PROVE  \E c : Gathers(c, n) /\ ChangesBefore(n) = c[n]
<1> DEFINE c == CHOOSE c : c = [k \in 0 .. n |-> IF k = 0 THEN <<>> ELSE c[k - 1] \o ChangesAt(k - 1)]
<1>1. Gathers(c, n)
    BY ChangesExist, Zenon DEF Gathers
<1>2. ChangesBefore(n) = c[n]
    BY Zenon DEF ChangesBefore
<1> QED  BY <1>1, <1>2, Zenon

LEMMA ChangesAgree ==
    ASSUME NEW n \in Nat, NEW m \in Nat, n <= m, NEW c, NEW d, Gathers(c, n), Gathers(d, m)
    PROVE  \A k \in 0 .. n : c[k] = d[k]
<1> DEFINE T == {k \in Nat : k <= n => c[k] = d[k]}
<1>1. 0 \in T
    BY DEF Gathers
<1>2. \A k \in Nat : k \in T => k + 1 \in T
    <2> SUFFICES ASSUME NEW k \in Nat, k \in T, k + 1 <= n PROVE c[k + 1] = d[k + 1]
        OBVIOUS
    <2>1. k + 1 \in 0 .. n /\ k + 1 \in 0 .. m /\ k + 1 # 0 /\ (k + 1) - 1 = k /\ k <= n
        OBVIOUS
    <2>2. c[k + 1] = c[k] \o ChangesAt(k)
        BY <2>1 DEF Gathers
    <2>3. d[k + 1] = d[k] \o ChangesAt(k)
        BY <2>1 DEF Gathers
    <2> QED  BY <2>1, <2>2, <2>3
<1>3. Nat \subseteq T
    <2> HIDE DEF T
    <2> QED  BY <1>1, <1>2, Induction
<1> QED  BY <1>3

LEMMA ChangesStep ==
    /\ ChangesBefore(0) = <<>>
    /\ \A n \in Nat : ChangesBefore(n + 1) = ChangesBefore(n) \o ChangesAt(n)
<1>1. ChangesBefore(0) = <<>>
    <2>1. PICK c : Gathers(c, 0) /\ ChangesBefore(0) = c[0]
        BY ChangesAreAdded
    <2> QED  BY <2>1 DEF Gathers
<1>2. ASSUME NEW n \in Nat PROVE ChangesBefore(n + 1) = ChangesBefore(n) \o ChangesAt(n)
    <2>1. PICK c : Gathers(c, n) /\ ChangesBefore(n) = c[n]
        BY ChangesAreAdded
    <2>2. PICK d : Gathers(d, n + 1) /\ ChangesBefore(n + 1) = d[n + 1]
        BY ChangesAreAdded
    <2>3. c[n] = d[n]
        BY <2>1, <2>2, ChangesAgree
    <2>4. n + 1 \in 0 .. (n + 1) /\ n + 1 # 0 /\ (n + 1) - 1 = n
        OBVIOUS
    <2>5. d[n + 1] = d[n] \o ChangesAt(n)
        BY <2>2, <2>4 DEF Gathers
    <2> QED  BY <2>1, <2>2, <2>3, <2>5
<1> QED  BY <1>1, <1>2

LEMMA SameChanges ==
    ASSUME UNCHANGED <<latency, events>>
    PROVE  \A n \in Nat : ChangesBefore(n)' = ChangesBefore(n)
<1>1. \A t : ChangesAt(t)' = ChangesAt(t)
    <2>1. \A leg, t : InForce(leg, t)' = InForce(leg, t)
        BY SameDay
    <2> QED  BY <2>1 DEF ChangesAt
<1>2. /\ ChangesBefore(0)' = <<>>
      /\ \A n \in Nat : ChangesBefore(n + 1)' = ChangesBefore(n)' \o ChangesAt(n)'
    <2>1. (/\ ChangesBefore(0) = <<>>
           /\ \A n \in Nat : ChangesBefore(n + 1) = ChangesBefore(n) \o ChangesAt(n))'
        BY ChangesStep, PTL
    <2> QED  BY <2>1
<1> DEFINE T == {n \in Nat : ChangesBefore(n)' = ChangesBefore(n)}
<1>3. 0 \in T
    BY <1>2, ChangesStep
<1>4. \A n \in Nat : n \in T => n + 1 \in T
    <2> SUFFICES ASSUME NEW n \in Nat, n \in T PROVE ChangesBefore(n + 1)' = ChangesBefore(n + 1)
        OBVIOUS
    <2>1. ChangesBefore(n + 1)' = ChangesBefore(n)' \o ChangesAt(n)'
        BY <1>2
    <2>2. ChangesBefore(n + 1) = ChangesBefore(n) \o ChangesAt(n)
        BY ChangesStep
    <2>3. ChangesBefore(n)' = ChangesBefore(n) /\ ChangesAt(n)' = ChangesAt(n)
        BY <1>1
    <2> QED  BY <2>1, <2>2, <2>3
<1>5. Nat \subseteq T
    <2> HIDE DEF T
    <2> QED  BY <1>3, <1>4, Induction
<1> QED  BY <1>5

LEMMA ChangesAtAreUpdates ==
    ASSUME RowsOK, NEW t \in Nat
    PROVE  ChangesAt(t) \in Seq(Updates)
<1> DEFINE now == [leg \in Legs |-> InForce(leg, t)]
           u(leg) == [source |-> leg, quotes |-> now]
<1>1. now \in [Legs -> Quotes \cup {NoQuote}]
    BY InForceIsQuote
<1> HIDE DEF now
<1>2. u("stock") \in Updates /\ u("future") \in Updates
    BY <1>1 DEF Updates, Legs
<1>3. \E x \in {<<>>, <<u("stock")>>}, y \in {<<>>, <<u("future")>>} : ChangesAt(t) = x \o y
    BY Zenon DEF ChangesAt, now
<1> HIDE DEF u
<1>4. {<<>>, <<u("stock")>>} \subseteq Seq(Updates) /\ {<<>>, <<u("future")>>} \subseteq Seq(Updates)
    BY <1>2
<1> QED  BY <1>3, <1>4, ConcatProperties

LEMMA ChangesAreUpdates ==
    ASSUME RowsOK
    PROVE  \A n \in Nat : ChangesBefore(n) \in Seq(Updates)
<1> DEFINE T == {n \in Nat : ChangesBefore(n) \in Seq(Updates)}
<1>1. 0 \in T
    <2>1. ChangesBefore(0) = <<>> /\ <<>> \in Seq(Updates)
        BY ChangesStep, EmptySeq
    <2> QED  BY <2>1
<1>2. \A n \in Nat : n \in T => n + 1 \in T
    <2> SUFFICES ASSUME NEW n \in Nat, n \in T PROVE ChangesBefore(n + 1) \in Seq(Updates)
        OBVIOUS
    <2>1. ChangesBefore(n + 1) = ChangesBefore(n) \o ChangesAt(n)
        BY ChangesStep
    <2>2. ChangesAt(n) \in Seq(Updates) /\ ChangesBefore(n) \in Seq(Updates)
        BY ChangesAtAreUpdates
    <2> QED  BY <2>1, <2>2, ConcatProperties
<1>3. Nat \subseteq T
    <2> HIDE DEF T
    <2> QED  BY <1>1, <1>2, Induction
<1> QED  BY <1>3

\* Between two stamps nothing changes.
LEMMA NothingBetween ==
    ASSUME RowsOK, NEW n \in Nat, n \notin Stamps
    PROVE  ChangesAt(n) = <<>>
<1>1. ASSUME NEW leg \in Legs PROVE InForce(leg, n) = InForce(leg, n - 1)
    <2>1. ASSUME NEW k \in DOMAIN events[leg] PROVE events[leg][k].t <= n <=> events[leg][k].t <= n - 1
        <3>1. events[leg][k].t \in Nat /\ events[leg][k].t # n
            BY RowFacts DEF Stamps
        <3> QED  BY <3>1
    <2>2. UpTo(leg, n) = UpTo(leg, n - 1)
        BY <2>1 DEF UpTo
    <2> QED  BY <2>2, Zenon DEF InForce, UpTo
<1>2. "stock" \in Legs /\ "future" \in Legs
    BY DEF Legs
<1> DEFINE now == [leg \in Legs |-> InForce(leg, n)]
<1>3. now["stock"] = InForce("stock", n - 1) /\ now["future"] = InForce("future", n - 1)
    BY <1>1, <1>2
<1>4. ChangesAt(n) = <<>> \o <<>>
    BY <1>3 DEF ChangesAt
<1> QED  BY <1>4

LEMMA NothingUntil ==
    ASSUME RowsOK, NEW n \in Nat, NEW m \in Nat, n <= m, \A t \in Stamps : t < n \/ m <= t
    PROVE  ChangesBefore(m) = ChangesBefore(n)
<1> DEFINE T == {k \in Nat : n + k <= m => ChangesBefore(n + k) = ChangesBefore(n)}
<1>1. 0 \in T
    OBVIOUS
<1>2. \A k \in Nat : k \in T => k + 1 \in T
    <2> SUFFICES ASSUME NEW k \in Nat, k \in T, n + (k + 1) <= m
                 PROVE  ChangesBefore(n + (k + 1)) = ChangesBefore(n)
        OBVIOUS
    <2>1. n + k \in Nat /\ ~(n + k < n) /\ ~(m <= n + k) /\ n + (k + 1) = (n + k) + 1 /\ n + k <= m
        OBVIOUS
    <2>2. ChangesBefore((n + k) + 1) = ChangesBefore(n + k) \o ChangesAt(n + k)
        BY <2>1, ChangesStep
    <2>3. ChangesAt(n + k) = <<>>
        BY <2>1, NothingBetween
    <2>4. ChangesBefore(n + k) = ChangesBefore(n)
        BY <2>1
    <2>5. ChangesBefore(n) \in Seq(Updates)
        BY ChangesAreUpdates
    <2>6. ChangesBefore(n) \o <<>> = ChangesBefore(n)
        BY <2>5, ConcatEmptySeq
    <2> QED  BY <2>1, <2>2, <2>3, <2>4, <2>6
<1>3. Nat \subseteq T
    <2> HIDE DEF T
    <2> QED  BY <1>1, <1>2, Induction
<1>4. m - n \in Nat /\ n + (m - n) = m
    OBVIOUS
<1> QED  BY <1>3, <1>4

LEMMA ChangesGrow ==
    ASSUME RowsOK, NEW n \in Nat, NEW m \in Nat, n <= m
    PROVE  \E z \in Seq(Updates) : ChangesBefore(m) = ChangesBefore(n) \o z
<1> DEFINE T == {k \in Nat : \E z \in Seq(Updates) : ChangesBefore(n + k) = ChangesBefore(n) \o z}
<1>0. ChangesBefore(n) \in Seq(Updates)
    BY ChangesAreUpdates
<1>1. 0 \in T
    <2>1. <<>> \in Seq(Updates) /\ n + 0 = n /\ ChangesBefore(n) = ChangesBefore(n) \o <<>>
        BY <1>0, ConcatEmptySeq
    <2> QED  BY <2>1
<1>2. \A k \in Nat : k \in T => k + 1 \in T
    <2> SUFFICES ASSUME NEW k \in Nat, k \in T PROVE k + 1 \in T
        OBVIOUS
    <2>0. PICK z \in Seq(Updates) : ChangesBefore(n + k) = ChangesBefore(n) \o z
        BY Zenon
    <2>1. n + k \in Nat /\ n + (k + 1) = (n + k) + 1
        OBVIOUS
    <2>2. ChangesBefore((n + k) + 1) = ChangesBefore(n + k) \o ChangesAt(n + k)
        BY <2>1, ChangesStep
    <2>3. ChangesAt(n + k) \in Seq(Updates)
        BY <2>1, ChangesAtAreUpdates
    <2>4. (ChangesBefore(n) \o z) \o ChangesAt(n + k) = ChangesBefore(n) \o (z \o ChangesAt(n + k))
        <3> DEFINE a == ChangesBefore(n)
                   c == ChangesAt(n + k)
        <3>1. a \in Seq(Updates) /\ z \in Seq(Updates) /\ c \in Seq(Updates)
            BY <1>0, <2>0, <2>3
        <3> HIDE DEF a, c, T
        <3>2. (a \o z) \o c = a \o (z \o c)
            BY <3>1, ConcatAssociative
        <3> QED  BY <3>2 DEF a, c
    <2>5. z \o ChangesAt(n + k) \in Seq(Updates)
        BY <2>0, <2>3, ConcatProperties
    <2>6. ChangesBefore(n + (k + 1)) = ChangesBefore(n) \o (z \o ChangesAt(n + k)) /\ k + 1 \in Nat
        <3> HIDE DEF T
        <3>1. ChangesBefore(n + (k + 1)) = ChangesBefore((n + k) + 1)
            BY <2>1
        <3>2. ChangesBefore((n + k) + 1) = (ChangesBefore(n) \o z) \o ChangesAt(n + k)
            BY <2>0, <2>2
        <3>3. ChangesBefore(n + (k + 1)) = ChangesBefore(n) \o (z \o ChangesAt(n + k))
            BY <2>4, <3>1, <3>2, Zenon
        <3> QED  BY <3>3
    <2> QED  BY <2>5, <2>6, Zenon
<1>3. Nat \subseteq T
    <2> HIDE DEF T
    <2> QED  BY <1>1, <1>2, Induction
<1>4. m - n \in Nat /\ n + (m - n) = m
    OBVIOUS
<1> QED  BY <1>3, <1>4

\* What the feed makes at a stamp is what changes there.
LEMMA FeedMakesChanges ==
    ASSUME FillsInv, UpdateTimestampGroup
    PROVE  /\ putting = <<>> /\ fed' \in Ahead /\ \A t \in Ahead : fed' <= t
           /\ fed' \in 0 .. Closes
           /\ \A t \in Stamps : t > fed => fed' <= t
           /\ putting' = ChangesAt(fed')
<1> DEFINE T == Min(Ahead)
           rows(leg) == {k \in DOMAIN events[leg] : events[leg][k].t = T}
           placed == [leg \in Legs |-> IF rows(leg) = {} THEN quotes[leg] ELSE events[leg][Max(rows(leg))]]
           updates(leg) == IF rows(leg) # {} /\ Changed(leg, quotes[leg], placed[leg])
                           THEN <<[source |-> leg, quotes |-> placed]>> ELSE <<>>
           now == [leg \in Legs |-> InForce(leg, T)]
           differ(leg) == /\ now[leg] # InForce(leg, T - 1)
                          /\ Changed(leg, InForce(leg, T - 1), now[leg])
           one(leg) == IF differ(leg) THEN <<[source |-> leg, quotes |-> now]>> ELSE <<>>
<1>1. RowsOK /\ fed \in Int /\ quotes = [leg \in Legs |-> InForce(leg, fed)]
    BY DEF FillsInv, Placed
<1>2. fed' = T /\ putting' = updates("stock") \o updates("future") /\ putting = <<>> /\ Ahead # {}
    BY Zenon DEF UpdateTimestampGroup
<1>3. \A t \in Stamps : t \in 0 .. Closes
    <2> SUFFICES ASSUME NEW l \in Legs, NEW k \in DOMAIN events[l] PROVE events[l][k].t \in 0 .. Closes
        BY DEF Stamps
    <2> QED  BY <1>1, RowFacts, SessionAssumption
<1>4. T \in Ahead /\ \A t \in Ahead : T <= t
    <2>1. Ahead \subseteq Nat
        BY <1>3 DEF Ahead
    <2>2. \E x \in Ahead : \A y \in Ahead : x <= y
        BY <1>2, <2>1, LeastNatural
    <2> QED  BY <2>2 DEF Min
<1>5. ChangesAt(T) = one("stock") \o one("future")
    BY Zenon DEF ChangesAt
<1> HIDE DEF T
<1>6. T \in Stamps /\ T > fed /\ T \in 0 .. Closes /\ \A t \in Stamps : t > fed => T <= t
    BY <1>3, <1>4 DEF Ahead
<1>7. \A leg \in Legs : /\ rows(leg) = {} => InForce(leg, T) = InForce(leg, fed)
                        /\ rows(leg) # {} => InForce(leg, T) = events[leg][Max(rows(leg))]
                                             /\ events[leg][Max(rows(leg))].t = T
    BY <1>1, <1>4, NextInForce
<1>8. \A leg \in Legs : InForce(leg, T - 1) = quotes[leg]
    <2> TAKE leg \in Legs
    <2>1. ASSUME NEW k \in DOMAIN events[leg] PROVE events[leg][k].t <= T - 1 <=> events[leg][k].t <= fed
        <3>1. events[leg][k].t \in Nat /\ events[leg][k].t \in Stamps
            BY <1>1, RowFacts DEF Stamps
        <3> QED  BY <1>1, <1>6, <3>1
    <2>2. UpTo(leg, T - 1) = UpTo(leg, fed)
        BY <2>1 DEF UpTo
    <2> QED  BY <1>1, <2>2, Zenon DEF InForce, UpTo
<1> HIDE DEF rows
<1>9. placed = now
    BY <1>1, <1>7
<1>10. \A leg \in Legs : differ(leg) <=> rows(leg) # {} /\ Changed(leg, quotes[leg], placed[leg])
    <2> TAKE leg \in Legs
    <2>1. CASE rows(leg) = {}
        BY <1>1, <1>7, <1>8, <2>1
    <2>2. CASE rows(leg) # {}
        <3>1. now[leg].t = T /\ now[leg] # NoQuote
            BY <1>6, <1>7, <2>2 DEF NoQuote
        <3>2. Changed(leg, quotes[leg], now[leg]) => quotes[leg] # now[leg]
            <4> HIDE DEF now
            <4> QED  BY <3>1 DEF Changed
        <3> QED  BY <1>8, <1>9, <2>2, <3>2
    <2> QED  BY <2>1, <2>2
<1> HIDE DEF differ, now, placed
<1>11. \A leg \in Legs : updates(leg) = one(leg)
    BY <1>9, <1>10
<1>12. "stock" \in Legs /\ "future" \in Legs
    BY DEF Legs
<1>13. putting' = ChangesAt(T)
    <2> HIDE DEF updates, one
    <2> QED  BY <1>2, <1>5, <1>11, <1>12
<1> QED  BY <1>2, <1>4, <1>6, <1>13

HistoryInv ==
    /\ fed \in -1 .. Closes
    /\ evaluated \in Seq(Updates)
    /\ evaluated \o (queue \o putting) = ChangesBefore(fed + 1)
    /\ driver \in {"flagged", "done"} => finished
    /\ finished => putting = <<>> /\ (stop \/ Ahead = {})
    /\ driver = "done" => queue = <<>>

LEMMA SnapshotsAreUpdates ==
    ASSUME FillsInv
    PROVE  queue \in Seq(Updates) /\ putting \in Seq(Updates) /\ RowsOK
<1>1. Snapshots \subseteq Updates
    BY DEF Snapshots, Updates
<1>2. queue \in Seq(Snapshots) /\ putting \in Seq(Snapshots) /\ RowsOK
    BY DEF FillsInv, UpdatesOK
<1> QED  BY <1>1, <1>2, SeqMonotonic

LEMMA HistoryInit == ASSUME Init PROVE HistoryInv
<1>1. evaluated = <<>> /\ queue = <<>> /\ putting = <<>> /\ fed = -1 /\ driver = "look" /\ finished = FALSE
    BY DEF Init
<1>2. <<>> \in Seq(Updates) /\ <<>> \o (<<>> \o <<>>) = <<>>
    BY EmptySeq
<1>3. fed + 1 = 0 /\ fed \in -1 .. Closes
    BY <1>1, SessionAssumption
<1>4. ChangesBefore(fed + 1) = <<>>
    BY <1>3, ChangesStep
<1> QED  BY <1>1, <1>2, <1>3, <1>4 DEF HistoryInv

LEMMA HistoryFeed ==
    ASSUME FillsInv, HistoryInv, UpdateTimestampGroup
    PROVE  HistoryInv'
<1>1. /\ UNCHANGED <<latency, events, queue, driver, finished, evaluated>> /\ ~finished
      /\ putting = <<>>
    BY Zenon DEF UpdateTimestampGroup
<1>2. /\ fed' \in 0 .. Closes /\ putting' = ChangesAt(fed') /\ fed' > fed
      /\ \A t \in Stamps : t > fed => fed' <= t
    BY FeedMakesChanges DEF Ahead
<1>3. RowsOK /\ queue \in Seq(Updates) /\ evaluated \in Seq(Updates) /\ fed \in -1 .. Closes
    BY SnapshotsAreUpdates DEF HistoryInv
<1>4. fed \in Int /\ fed + 1 \in Nat /\ fed' \in Nat /\ fed + 1 <= fed' /\ fed' + 1 \in Nat
    <2> DEFINE x == fed
               y == fed'
    <2>1. x \in -1 .. Closes /\ y \in 0 .. Closes /\ y > x
        BY <1>2, <1>3
    <2> HIDE DEF x, y
    <2>2. x \in Int /\ y \in Int /\ x >= -1 /\ y >= 0 /\ y > x
        BY <2>1, SessionAssumption
    <2>3. x \in Int /\ x + 1 \in Nat /\ y \in Nat /\ x + 1 <= y /\ y + 1 \in Nat
        BY <2>2
    <2> QED  BY <2>3 DEF x, y
<1>5. ChangesBefore(fed') = ChangesBefore(fed + 1)
    <2>1. \A t \in Stamps : t < fed + 1 \/ fed' <= t
        <3> TAKE t \in Stamps
        <3>1. t \in Nat /\ (t > fed => fed' <= t)
            BY <1>2, <1>3, RowFacts DEF Stamps
        <3> QED  BY <1>4, <3>1
    <2> QED  BY <1>3, <1>4, <2>1, NothingUntil
<1>6. ChangesBefore(fed' + 1) = ChangesBefore(fed') \o ChangesAt(fed')
    BY <1>4, ChangesStep
<1>7. ChangesBefore(fed + 1) = evaluated \o queue
    <2>1. queue \o <<>> = queue
        BY <1>3, ConcatEmptySeq
    <2> QED  BY <1>1, <2>1, Zenon DEF HistoryInv
<1>8. ChangesAt(fed') \in Seq(Updates)
    BY <1>3, <1>4, ChangesAtAreUpdates
<1>9. evaluated \o (queue \o putting') = ChangesBefore(fed' + 1)
    <2> DEFINE c == ChangesAt(fed')
    <2>1. c \in Seq(Updates)
        BY <1>8
    <2> HIDE DEF c
    <2>2. (evaluated \o queue) \o c = evaluated \o (queue \o c)
        BY <1>3, <2>1, ConcatAssociative
    <2>3. putting' = c /\ ChangesBefore(fed' + 1) = (evaluated \o queue) \o c
        BY <1>2, <1>5, <1>6, <1>7, Zenon DEF c
    <2> QED  BY <2>2, <2>3, Zenon
<1>10. ChangesBefore(fed + 1)' = ChangesBefore(fed' + 1)
    <2>1. \A n \in Nat : ChangesBefore(n)' = ChangesBefore(n)
        BY <1>1, SameChanges
    <2> QED  BY <1>4, <2>1
<1>11. (evaluated \o (queue \o putting) = ChangesBefore(fed + 1))'
    BY <1>1, <1>9, <1>10, Zenon
<1>12. fed' \in -1 .. Closes
    BY <1>2
<1> QED  BY <1>1, <1>3, <1>11, <1>12 DEF HistoryInv

\* An update that is handed on keeps its place.
LEMMA HandedOn ==
    ASSUME NEW S, NEW s \in Seq(S), NEW t \in Seq(S), t # <<>>
    PROVE  /\ Append(s, Head(t)) \o Tail(t) = s \o t
           /\ Append(s, Head(t)) \in Seq(S) /\ Tail(t) \in Seq(S)
<1> DEFINE a == Append(s, Head(t))
           r == Tail(t)
<1>1. /\ Head(t) \in S /\ r \in Seq(S) /\ Len(r) = Len(t) - 1 /\ \A i \in 1 .. Len(r) : r[i] = t[i + 1]
      /\ Head(t) = t[1] /\ Len(t) \in Nat /\ Len(t) > 0
    BY HeadTailProperties, EmptySeq
<1>2. /\ a \in Seq(S) /\ Len(a) = Len(s) + 1 /\ a[Len(s) + 1] = t[1] /\ \A i \in 1 .. Len(s) : a[i] = s[i]
      /\ Len(s) \in Nat
    BY <1>1
<1> HIDE DEF a, r
<1> DEFINE x == a \o r
           y == s \o t
<1>3. /\ x \in Seq(S) /\ Len(x) = Len(a) + Len(r)
      /\ \A i \in 1 .. Len(a) + Len(r) : x[i] = IF i <= Len(a) THEN a[i] ELSE r[i - Len(a)]
    BY <1>1, <1>2, ConcatProperties
<1>4. /\ y \in Seq(S) /\ Len(y) = Len(s) + Len(t)
      /\ \A i \in 1 .. Len(s) + Len(t) : y[i] = IF i <= Len(s) THEN s[i] ELSE t[i - Len(s)]
    BY ConcatProperties
<1> HIDE DEF x, y
<1>5. Len(x) = Len(y) /\ Len(x) = Len(s) + Len(t)
    BY <1>1, <1>2, <1>3, <1>4
<1>6. \A i \in 1 .. Len(x) : x[i] = y[i]
    <2> TAKE i \in 1 .. Len(x)
    <2>1. i \in 1 .. Len(s) + Len(t) /\ i \in 1 .. Len(a) + Len(r) /\ i \in Nat
        BY <1>1, <1>2, <1>5
    <2>2. CASE i <= Len(s)
        <3>1. i \in 1 .. Len(s) /\ i <= Len(a)
            BY <1>2, <2>1, <2>2
        <3> QED  BY <1>2, <1>3, <1>4, <2>1, <2>2, <3>1
    <2>3. CASE i = Len(s) + 1
        <3>1. i <= Len(a) /\ ~(i <= Len(s)) /\ i - Len(s) = 1
            BY <1>2, <2>3
        <3> QED  BY <1>2, <1>3, <1>4, <2>1, <2>3, <3>1
    <2>4. CASE i > Len(s) + 1
        <3>1. /\ ~(i <= Len(a)) /\ ~(i <= Len(s)) /\ i - Len(a) \in 1 .. Len(r)
              /\ (i - Len(a)) + 1 = i - Len(s)
            BY <1>1, <1>2, <2>1, <2>4
        <3>2. x[i] = r[i - Len(a)] /\ y[i] = t[i - Len(s)]
            BY <1>3, <1>4, <2>1, <3>1
        <3>3. r[i - Len(a)] = t[(i - Len(a)) + 1]
            BY <1>1, <3>1
        <3> QED  BY <3>1, <3>2, <3>3
    <2> QED  BY <1>2, <2>1, <2>2, <2>3, <2>4
<1>7. x = y
    BY <1>3, <1>4, <1>5, <1>6, SeqEqual
<1> QED  BY <1>1, <1>2, <1>7 DEF a, r, x, y

LEMMA StartIsPrefix ==
    ASSUME NEW S, NEW s \in Seq(S), NEW t \in Seq(S)
    PROVE  IsPrefix(s, s \o t)
<1> DEFINE x == s \o t
           a == SubSeq(s, 1, Len(s))
           b == SubSeq(x, 1, Len(s))
<1>1. /\ x \in Seq(S) /\ Len(x) = Len(s) + Len(t)
      /\ \A i \in 1 .. Len(s) + Len(t) : x[i] = IF i <= Len(s) THEN s[i] ELSE t[i - Len(s)]
    BY ConcatProperties
<1>2. Len(s) \in Nat /\ Len(t) \in Nat
    OBVIOUS
<1> HIDE DEF x
<1>3. \A i \in 1 .. Len(s) : x[i] = s[i] /\ s[i] \in S /\ x[i] \in S
    <2> TAKE i \in 1 .. Len(s)
    <2>1. i \in 1 .. Len(s) + Len(t) /\ i <= Len(s)
        BY <1>2
    <2> QED  BY <1>1, <2>1, ElementOfSeq
<1>4. /\ a \in Seq(S) /\ Len(a) = (IF 1 <= Len(s) THEN Len(s) - 1 + 1 ELSE 0)
      /\ \A i \in 1 .. Len(s) - 1 + 1 : a[i] = s[1 + i - 1]
    BY <1>2, <1>3, SubSeqProperties
<1>5. /\ b \in Seq(S) /\ Len(b) = (IF 1 <= Len(s) THEN Len(s) - 1 + 1 ELSE 0)
      /\ \A i \in 1 .. Len(s) - 1 + 1 : b[i] = x[1 + i - 1]
    BY <1>2, <1>3, SubSeqProperties
<1> HIDE DEF a, b
<1>6. Len(a) = Len(s) /\ Len(b) = Len(s)
    BY <1>2, <1>4, <1>5
<1>7. \A i \in 1 .. Len(a) : a[i] = b[i]
    <2> TAKE i \in 1 .. Len(a)
    <2>1. i \in 1 .. Len(s) - 1 + 1 /\ i \in 1 .. Len(s) /\ 1 + i - 1 = i
        BY <1>2, <1>6
    <2> QED  BY <1>3, <1>4, <1>5, <2>1
<1>8. a = b
    BY <1>4, <1>5, <1>6, <1>7, SeqEqual
<1>9. Len(s) <= Len(x)
    BY <1>1, <1>2
<1> QED  BY <1>8, <1>9 DEF IsPrefix, a, b, x

LEMMA HistoryPut ==
    ASSUME FillsInv, HistoryInv, PutUpdate
    PROVE  HistoryInv'
<1>1. /\ UNCHANGED <<latency, events, fed, driver, finished, evaluated>> /\ putting # <<>>
      /\ queue' = Append(queue, Head(putting)) /\ putting' = Tail(putting)
    BY DEF PutUpdate
<1>2. queue \in Seq(Updates) /\ putting \in Seq(Updates)
    BY SnapshotsAreUpdates
<1>3. queue' \o putting' = queue \o putting
    BY <1>1, <1>2, HandedOn
<1>4. ~finished /\ driver # "done" /\ fed + 1 \in Nat
    BY <1>1, SessionAssumption DEF HistoryInv
<1>5. ChangesBefore(fed + 1)' = ChangesBefore(fed + 1)
    <2>1. \A n \in Nat : ChangesBefore(n)' = ChangesBefore(n)
        BY <1>1, SameChanges
    <2> QED  BY <1>1, <1>4, <2>1
<1>6. (evaluated \o (queue \o putting) = ChangesBefore(fed + 1))'
    <2>1. evaluated \o (queue \o putting) = ChangesBefore(fed + 1)
        BY DEF HistoryInv
    <2> QED  BY <1>1, <1>3, <1>5, <2>1, Zenon
<1> QED  BY <1>1, <1>4, <1>6 DEF HistoryInv

LEMMA HistoryWait ==
    ASSUME FillsInv, HistoryInv, WaitForUpdate
    PROVE  HistoryInv'
<1>1. /\ UNCHANGED <<latency, events, fed, putting, finished, stop>> /\ queue # <<>>
      /\ evaluated' = Append(evaluated, Head(queue)) /\ queue' = Tail(queue) /\ driver' = "evaluate"
    BY DEF WaitForUpdate, feedVars
<1>2. queue \in Seq(Updates) /\ putting \in Seq(Updates) /\ evaluated \in Seq(Updates)
    BY SnapshotsAreUpdates DEF HistoryInv
<1>3. /\ evaluated' \o queue' = evaluated \o queue
      /\ evaluated' \in Seq(Updates) /\ queue' \in Seq(Updates)
    BY <1>1, <1>2, HandedOn
<1>4. /\ (evaluated' \o queue') \o putting = evaluated' \o (queue' \o putting)
      /\ (evaluated \o queue) \o putting = evaluated \o (queue \o putting)
    <2> DEFINE a == evaluated'
               b == queue'
    <2>1. a \in Seq(Updates) /\ b \in Seq(Updates)
        BY <1>3
    <2> HIDE DEF a, b
    <2>2. (a \o b) \o putting = a \o (b \o putting)
        BY <1>2, <2>1, ConcatAssociative
    <2>3. (evaluated \o queue) \o putting = evaluated \o (queue \o putting)
        BY <1>2, ConcatAssociative
    <2> QED  BY <2>2, <2>3 DEF a, b
<1>5. ChangesBefore(fed + 1)' = ChangesBefore(fed + 1)
    <2>1. \A n \in Nat : ChangesBefore(n)' = ChangesBefore(n)
        BY <1>1, SameChanges
    <2>2. fed + 1 \in Nat
        BY SessionAssumption DEF HistoryInv
    <2> QED  BY <1>1, <2>1, <2>2
<1>6. (evaluated \o (queue \o putting) = ChangesBefore(fed + 1))'
    <2>1. evaluated \o (queue \o putting) = ChangesBefore(fed + 1)
        BY DEF HistoryInv
    <2> QED  BY <1>1, <1>3, <1>4, <1>5, <2>1, Zenon
<1>7. Ahead' = Ahead
    BY <1>1 DEF Ahead, Stamps
<1> QED  BY <1>1, <1>3, <1>6, <1>7 DEF HistoryInv

\* The other steps hand nothing on; the feed ends when it is stopped or has
\* queued all it had.
LEMMA HistoryOther ==
    ASSUME FillsInv, HistoryInv,
           \/ FeedEnds \/ IsFinished \/ IsFinishedQueue \/ WaitTimesOut \/ EvaluatePair \/ Close
           \/ UNCHANGED vars
    PROVE  HistoryInv'
<1>1. UNCHANGED <<latency, events, fed, putting, queue, evaluated>>
    BY DEF FeedEnds, IsFinished, IsFinishedQueue, WaitTimesOut, EvaluatePair, Close, vars, feedVars
<1>2. /\ driver' = "flagged" => finished' \/ driver = "flagged"
      /\ driver' = "done" => driver = "done" \/ (driver = "flagged" /\ queue = <<>>)
      /\ finished => finished'
      /\ stop => stop'
      /\ finished' => finished \/ (putting = <<>> /\ (stop \/ Ahead = {}))
    BY DEF FeedEnds, IsFinished, IsFinishedQueue, WaitTimesOut, EvaluatePair, Close, vars, feedVars
<1>3. Ahead' = Ahead
    BY <1>1 DEF Ahead, Stamps
<1>4. (evaluated \o (queue \o putting) = ChangesBefore(fed + 1))'
    <2>1. \A n \in Nat : ChangesBefore(n)' = ChangesBefore(n)
        BY <1>1, SameChanges
    <2>2. fed + 1 \in Nat
        BY SessionAssumption DEF HistoryInv
    <2>3. ChangesBefore(fed + 1)' = ChangesBefore(fed + 1)
        BY <1>1, <2>1, <2>2
    <2>4. evaluated \o (queue \o putting) = ChangesBefore(fed + 1)
        BY DEF HistoryInv
    <2> QED  BY <1>1, <2>3, <2>4, Zenon
<1>5. (/\ driver \in {"flagged", "done"} => finished
       /\ finished => putting = <<>> /\ (stop \/ Ahead = {})
       /\ driver = "done" => queue = <<>>)'
    <2>1. /\ driver \in {"flagged", "done"} => finished
          /\ finished => putting = <<>> /\ (stop \/ Ahead = {})
          /\ driver = "done" => queue = <<>>
        BY DEF HistoryInv
    <2>2. driver' = "done" => queue' = <<>>
        BY <1>1, <1>2, <2>1
    <2>3. driver' \in {"flagged", "done"} => finished'
        BY <1>2, <2>1
    <2>4. finished' => putting' = <<>> /\ (stop' \/ Ahead' = {})
        BY <1>1, <1>2, <1>3, <2>1
    <2> QED  BY <2>2, <2>3, <2>4
<1>6. fed' \in -1 .. Closes /\ evaluated' \in Seq(Updates)
    BY <1>1 DEF HistoryInv
<1> QED  BY <1>4, <1>5, <1>6 DEF HistoryInv

LEMMA HistoryFacts ==
    ASSUME FillsInv, HistoryInv
    PROVE  EveryChangeIsEvaluated
<1> DEFINE rest == queue \o putting
<1>1. /\ RowsOK /\ queue \in Seq(Updates) /\ putting \in Seq(Updates) /\ evaluated \in Seq(Updates)
      /\ evaluated \o rest = ChangesBefore(fed + 1)
      /\ fed \in -1 .. Closes /\ Closes \in Nat
    BY SnapshotsAreUpdates, SessionAssumption DEF HistoryInv
<1>2. fed \in Int /\ fed + 1 \in Nat /\ Closes + 1 \in Nat /\ fed + 1 <= Closes + 1
    BY <1>1
<1>3. rest \in Seq(Updates)
    BY <1>1, ConcatProperties
<1> HIDE DEF rest
<1>4. IsPrefix(evaluated, Changes)
    <2>1. PICK z \in Seq(Updates) : ChangesBefore(Closes + 1) = ChangesBefore(fed + 1) \o z
        BY <1>1, <1>2, ChangesGrow
    <2>2. z \in Seq(Updates)
        OBVIOUS
    <2>3. (evaluated \o rest) \o z = evaluated \o (rest \o z)
        <3> DEFINE e == evaluated
        <3>1. e \in Seq(Updates) /\ rest \in Seq(Updates) /\ z \in Seq(Updates)
            BY <1>1, <1>3, <2>2
        <3> HIDE DEF e
        <3>2. (e \o rest) \o z = e \o (rest \o z)
            BY <3>1, ConcatAssociative
        <3> QED  BY <3>2 DEF e
    <2>4. rest \o z \in Seq(Updates)
        BY <1>3, <2>2, ConcatProperties
    <2>5. Changes = evaluated \o (rest \o z)
        BY <1>1, <2>1, <2>3, Zenon DEF Changes
    <2>6. IsPrefix(evaluated, evaluated \o (rest \o z))
        BY <1>1, <2>4, StartIsPrefix
    <2> QED  BY <2>5, <2>6, Zenon
<1>5. ASSUME driver = "done", ~stop PROVE evaluated = Changes
    <2>1. queue = <<>> /\ putting = <<>> /\ Ahead = {}
        BY <1>5 DEF HistoryInv
    <2>2. rest = <<>> /\ evaluated \o <<>> = evaluated
        BY <1>1, <2>1, ConcatEmptySeq, EmptySeq DEF rest
    <2>3. \A t \in Stamps : t < fed + 1 \/ Closes + 1 <= t
        <3> TAKE t \in Stamps
        <3>1. t \in Nat /\ ~(t > fed)
            BY <1>1, <2>1, RowFacts DEF Stamps, Ahead
        <3> QED  BY <1>2, <3>1
    <2>4. ChangesBefore(Closes + 1) = ChangesBefore(fed + 1)
        BY <1>1, <1>2, <2>3, NothingUntil
    <2> QED  BY <1>1, <2>2, <2>4, Zenon DEF Changes
<1> QED  BY <1>4, <1>5 DEF EveryChangeIsEvaluated

\* Whatever the tables, and however far the feed thread runs ahead of the
\* driver, the driver evaluates every price change of the day, each once, in
\* time order and on the quotes of its own time; it is done before the last of
\* them only if it was stopped.
THEOREM ChangesAreEvaluated == Spec => []EveryChangeIsEvaluated
<1>1. Init => HistoryInv
    BY HistoryInit
<1>2. FillsInv /\ HistoryInv /\ [Next]_vars => HistoryInv'
    <2> SUFFICES ASSUME FillsInv, HistoryInv, [Next]_vars PROVE HistoryInv'
        OBVIOUS
    <2>1. CASE UpdateTimestampGroup
        BY <2>1, HistoryFeed
    <2>2. CASE PutUpdate
        BY <2>2, HistoryPut
    <2>3. CASE WaitForUpdate
        BY <2>3, HistoryWait
    <2>4. CASE \/ FeedEnds \/ IsFinished \/ IsFinishedQueue \/ WaitTimesOut \/ EvaluatePair \/ Close
               \/ UNCHANGED vars
        BY <2>4, HistoryOther
    <2> QED  BY <2>1, <2>2, <2>3, <2>4 DEF Next, Feed, Driver
<1>3. FillsInv /\ HistoryInv => EveryChangeIsEvaluated
    BY HistoryFacts
<1> QED  BY <1>1, <1>2, <1>3, FillsInvHolds, PTL DEF Spec
=============================================================================
