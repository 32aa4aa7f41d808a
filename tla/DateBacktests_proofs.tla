------------------------- MODULE DateBacktests_proofs -------------------------
(***************************************************************************)
(* The backtests of a date, for any pairs, spots, event rows, options and   *)
(* clocks.  First the dealing of pairs to workers, which is a greedy loop    *)
(* over the groups of a spot: every pair with data is in one group of one    *)
(* shard, and so are all pairs of its spot.  Then the event data a run       *)
(* prepares are sound whatever earlier runs left behind.  On these rest the  *)
(* theorems of the replays: entries of a spot keep their interval, engines   *)
(* are given back once, and no pair is lost on the way back.                 *)
(***************************************************************************)
EXTENDS DateBacktests, Sums_proofs, FiniteSetTheorems, SequenceTheorems

LEMMA KeysAreNaturals ==
    /\ Cardinality(Keys) \in Nat /\ IsFiniteSet(Keys) /\ Keys = 1 .. Cardinality(Keys)
    /\ Keys \subseteq Nat /\ None \notin Keys
<1>1. Cardinality(Keys) \in Nat /\ IsFiniteSet(Keys) /\ Keys = 1 .. Cardinality(Keys)
    BY KeysAssumption, FS_CardinalityType
<1> QED  BY <1>1 DEF None

LEMMA LeastKey ==
    ASSUME NEW g, g \subseteq Keys, g # {}
    PROVE  Min(g) \in g /\ \A k \in g : Min(g) <= k
<1>1. g \subseteq Nat
    BY KeysAreNaturals
<1>2. \E k \in g : \A j \in g : k <= j
    BY <1>1, LeastNatural
<1> QED  BY <1>2 DEF Min

-----------------------------------------------------------------------------
(* Dealing                                                                  *)

LEMMA WeightFacts ==
    ASSUME NEW g
    PROVE  Weight(g) \in Nat /\ Weight(g) <= Weight(Keys)
<1> DEFINE n == Cardinality(Keys)
           zero == [k \in Keys |-> 0]
           mine == [k \in Keys |-> IF k \in g THEN EventRows[k] ELSE 0]
           full == [k \in Keys |-> IF k \in Keys THEN EventRows[k] ELSE 0]
<1>1. n \in Nat /\ Keys = 1 .. n
    BY KeysAreNaturals
<1>2. \A k \in 1 .. n : EventRows[k] \in Nat
    BY <1>1, RowsAssumption
<1>3. \A k \in 1 .. n : /\ zero[k] = 0 /\ mine[k] \in Nat /\ full[k] \in Nat
                        /\ mine[k] <= full[k]
    BY <1>1, <1>2
<1>4. Weight(g) = SumTo(mine, n) /\ Weight(Keys) = SumTo(full, n)
    BY DEF Weight
<1> HIDE DEF n, zero, mine, full
<1>5. SumTo(zero, n) = 0
    BY <1>1, <1>3, SumOfZeros
<1>6. SumTo(zero, n) <= SumTo(mine, n) /\ SumTo(mine, n) <= SumTo(full, n)
    <2>1. /\ \A k \in 1 .. n : zero[k] \in Int /\ mine[k] \in Int /\ zero[k] <= mine[k]
          /\ \A k \in 1 .. n : mine[k] \in Int /\ full[k] \in Int /\ mine[k] <= full[k]
        BY <1>3
    <2> QED  BY <1>1, <2>1, SumIsMonotone
<1>7. SumTo(mine, n) \in Int
    BY <1>1, <1>3, SumIsInt
<1> QED  BY <1>4, <1>5, <1>6, <1>7

\* The group of a spot is its pairs, so two groups that share a pair are one.
LEMMA GroupFacts ==
    ASSUME NEW keys, keys \subseteq Keys, NEW g \in GroupsOf(keys)
    PROVE  /\ g \subseteq keys /\ g # {}
           /\ \A k \in g, l \in keys : SpotOf[l] = SpotOf[k] => l \in g
           /\ \A k, l \in g : SpotOf[k] = SpotOf[l]
           /\ \A h \in GroupsOf(keys) : \A k \in g, l \in h : SpotOf[k] = SpotOf[l] => g = h
BY DEF GroupsOf

LEMMA GroupsAreFinite ==
    ASSUME NEW keys, keys \subseteq Keys
    PROVE  IsFiniteSet(GroupsOf(keys)) /\ Cardinality(GroupsOf(keys)) \in Nat
<1> DEFINE f == [k \in keys |-> {j \in keys : SpotOf[j] = SpotOf[k]}]
<1>1. IsFiniteSet(keys)
    BY KeysAreNaturals, FS_Subset
<1>2. f \in Surjection(keys, GroupsOf(keys))
    <2>1. f \in [keys -> GroupsOf(keys)]
        BY DEF GroupsOf
    <2>2. \A g \in GroupsOf(keys) : \E k \in keys : f[k] = g
        BY DEF GroupsOf
    <2> QED  BY <2>1, <2>2 DEF Surjection
<1>3. IsFiniteSet(GroupsOf(keys))
    <2> HIDE DEF f
    <2> QED  BY <1>1, <1>2, FS_Surjection
<1> QED  BY <1>3, FS_CardinalityType

\* Of groups that are left, one is the heaviest: none is as heavy as another
\* with the same smallest run key.
LEMMA HeaviestIsLeft ==
    ASSUME NEW keys, keys \subseteq Keys, NEW rest, rest \subseteq GroupsOf(keys), rest # {}
    PROVE  Heaviest(rest) \in rest
<1> DEFINE T == {Weight(Keys) - Weight(g) : g \in rest}
<1>1. T \subseteq Nat /\ T # {}
    BY WeightFacts
<1>2. PICK t \in T : \A u \in T : t <= u
    <2> HIDE DEF T
    <2> QED  BY <1>1, LeastNatural
<1>3. PICK g \in rest : t = Weight(Keys) - Weight(g)
    OBVIOUS
<1>4. \A h \in rest : Weight(h) <= Weight(g)
    <2> TAKE h \in rest
    <2>1. Weight(Keys) - Weight(g) <= Weight(Keys) - Weight(h)
        BY <1>2, <1>3
    <2> QED  BY <2>1, WeightFacts
<1> HIDE DEF T
<1>0. \A h \in rest : Min(h) \in h /\ Min(h) \in Nat
    <2> TAKE h \in rest
    <2>1. h \subseteq keys /\ h # {}
        BY GroupFacts
    <2>2. h \subseteq Keys /\ Keys \subseteq Nat
        BY <2>1, KeysAreNaturals
    <2> QED  BY <2>1, <2>2, LeastKey
<1> DEFINE M == {Min(h) : h \in {x \in rest : Weight(x) = Weight(g)}}
<1>5. M \subseteq Nat /\ M # {}
    BY <1>0
<1>6. PICK m \in M : \A n \in M : m <= n
    <2> HIDE DEF M
    <2> QED  BY <1>5, LeastNatural
<1>7. PICK b \in rest : Weight(b) = Weight(g) /\ m = Min(b)
    OBVIOUS
<1>8. \A h \in rest : b = h \/ Heavier(b, h)
    <2> TAKE h \in rest
    <2>1. CASE Weight(h) < Weight(g)
        BY <1>7, <2>1, WeightFacts DEF Heavier
    <2>2. CASE Weight(h) = Weight(g)
        <3>1. m <= Min(h)
            BY <1>6, <2>2
        <3>2. Min(b) \in b /\ Min(h) \in h /\ Min(b) \in Nat /\ Min(h) \in Nat
            BY <1>0
        <3>3. CASE Min(b) = Min(h)
            BY <3>2, <3>3, GroupFacts
        <3>4. CASE Min(b) # Min(h)
            <4>1. Min(b) < Min(h)
                BY <1>7, <3>1, <3>2, <3>4
            <4> QED  BY <1>7, <2>2, <4>1 DEF Heavier
        <3> QED  BY <3>3, <3>4
    <2> QED  BY <1>4, <2>1, <2>2, WeightFacts
<1> QED  BY <1>8 DEF Heaviest

LEMMA LightestIsAShard ==
    ASSUME NEW c \in Nat \ {0}, NEW dealt, DOMAIN dealt = 1 .. c
    PROVE  Lightest(dealt) \in 1 .. c
<1> DEFINE load(i) == Weight(KeysOf(dealt[i]))
           L == {load(i) : i \in 1 .. c}
<1>0. \A i \in 1 .. c : load(i) \in Nat
    BY WeightFacts
<1>1. L \subseteq Nat /\ L # {}
    BY <1>0
<1>2. PICK l \in L : \A u \in L : l <= u
    <2> HIDE DEF L
    <2> QED  BY <1>1, LeastNatural
<1> HIDE DEF load
<1> DEFINE I == {i \in 1 .. c : load(i) = l}
<1>3. I \subseteq Nat /\ I # {}
    OBVIOUS
<1>4. PICK b \in I : \A i \in I : b <= i
    <2> HIDE DEF I
    <2> QED  BY <1>3, LeastNatural
<1>5. b \in 1 .. c /\ load(b) = l
    OBVIOUS
<1>6. \A j \in 1 .. c : load(b) < load(j) \/ (load(b) = load(j) /\ b <= j)
    <2> TAKE j \in 1 .. c
    <2>1. l <= load(j) /\ (load(j) = l => b <= j)
        BY <1>2, <1>4
    <2>2. load(b) \in Nat /\ load(j) \in Nat
        BY <1>0, <1>5
    <2> QED  BY <1>5, <2>1, <2>2
<1>7. \E i \in DOMAIN dealt : \A j \in DOMAIN dealt : load(i) < load(j) \/ (load(i) = load(j) /\ i <= j)
    BY <1>5, <1>6
<1> QED  BY <1>7, Zenon DEF Lightest, load

LEMMA ShardCountIsPositive ==
    ASSUME NEW keys, keys \subseteq Keys, NEW workers \in Int
    PROVE  ShardCount(keys, workers) \in Nat \ {0}
<1> DEFINE n == Cardinality(keys)
           m == Min({workers, n})
<1>1. n \in Nat
    BY KeysAreNaturals, FS_Subset, FS_CardinalityType
<1>2. m \in Int
    <2>1. \E x \in {workers, n} : \A y \in {workers, n} : x <= y
        BY <1>1
    <2> HIDE DEF n
    <2>2. m \in {workers, n}
        BY <2>1 DEF Min
    <2> QED  BY <1>1, <2>2
<1> HIDE DEF m, n
<1>3. \E x \in {1, m} : \A y \in {1, m} : x >= y
    BY <1>2
<1>4. Max({1, m}) \in {1, m} /\ Max({1, m}) >= 1
    BY <1>3 DEF Max
<1>5. ShardCount(keys, workers) = Max({1, m})
    BY DEF ShardCount, m, n
<1> QED  BY <1>2, <1>4, <1>5

LEMMA AppendFacts ==
    ASSUME NEW G, NEW s \in Seq(G), NEW e \in G
    PROVE  /\ Append(s, e) \in Seq(G) /\ Len(s) \in Nat /\ DOMAIN s = 1 .. Len(s)
           /\ Append(s, e) # <<>>
           /\ DOMAIN Append(s, e) = 1 .. (Len(s) + 1) /\ Len(Append(s, e)) = Len(s) + 1
           /\ Len(s) + 1 \in DOMAIN Append(s, e)
           /\ \A m \in DOMAIN s : m \in DOMAIN Append(s, e) /\ Append(s, e)[m] = s[m]
           /\ Append(s, e)[Len(s) + 1] = e
<1>1. Append(s, e) \in Seq(G)
    BY AppendProperties
<1>2. Len(s) \in Nat /\ DOMAIN s = 1 .. Len(s)
    BY LenProperties
<1>3. DOMAIN Append(s, e) = 1 .. (Len(s) + 1) /\ Len(Append(s, e)) = Len(s) + 1
    BY <1>1, AppendProperties, LenProperties
<1>4. Append(s, e) # <<>> /\ Append(s, e)[Len(s) + 1] = e /\ \A m \in 1 .. Len(s) : Append(s, e)[m] = s[m]
    BY AppendProperties
<1> QED  BY <1>1, <1>2, <1>3, <1>4

\* The loop of Dealt, as a function of how many groups it has dealt.
Deals(d, keys, workers) ==
    d = [n \in 0 .. Cardinality(GroupsOf(keys)) |->
            IF n = 0
            THEN [left |-> GroupsOf(keys), shards |-> [i \in 1 .. ShardCount(keys, workers) |-> <<>>]]
            ELSE DealHeaviest(d[n - 1])]

\* Its invariant: each group is left, or in one place of one of c shards.
DealingOK(x, n, groups, c) ==
    /\ x.left \subseteq groups /\ IsFiniteSet(x.left) /\ Cardinality(x.left) = Cardinality(groups) - n
    /\ x.shards \in [1 .. c -> Seq(groups)]
    /\ \A g \in groups : g \in x.left \/ \E i \in 1 .. c : \E m \in DOMAIN x.shards[i] : x.shards[i][m] = g
    /\ \A i \in 1 .. c : \A m \in DOMAIN x.shards[i] : x.shards[i][m] \notin x.left
    /\ \A i, j \in 1 .. c : \A m \in DOMAIN x.shards[i], p \in DOMAIN x.shards[j] :
           x.shards[i][m] = x.shards[j][p] => i = j /\ m = p

LEMMA DealingStep ==
    ASSUME NEW groups, NEW c \in Nat \ {0}, NEW n \in Nat, NEW x, DealingOK(x, n, groups, c),
           NEW g \in x.left, NEW b \in 1 .. c, Cardinality(groups) \in Nat
    PROVE  DealingOK([left |-> x.left \ {g}, shards |-> [x.shards EXCEPT ![b] = Append(@, g)]],
                     n + 1, groups, c)
<1> DEFINE new == [x.shards EXCEPT ![b] = Append(@, g)]
           y == [left |-> x.left \ {g}, shards |-> new]
           L == Len(x.shards[b])
<1>1. /\ x.left \subseteq groups /\ IsFiniteSet(x.left) /\ Cardinality(x.left) = Cardinality(groups) - n
      /\ x.shards \in [1 .. c -> Seq(groups)] /\ g \in groups
    BY DEF DealingOK
<1>2. /\ x.left \ {g} \subseteq groups /\ IsFiniteSet(x.left \ {g})
      /\ Cardinality(x.left \ {g}) = Cardinality(groups) - (n + 1)
    <2>1. IsFiniteSet(x.left \ {g}) /\ Cardinality(x.left \ {g}) = Cardinality(x.left) - 1
        BY <1>1, FS_RemoveElement
    <2> QED  BY <1>1, <2>1
<1>3. Append(x.shards[b], g) \in Seq(groups)
    <2>1. x.shards[b] \in Seq(groups)
        BY <1>1
    <2> QED  BY <1>1, <2>1, AppendFacts
<1>4. new \in [1 .. c -> Seq(groups)]
    BY <1>1, <1>3
<1>5. \A i \in 1 .. c : i # b => new[i] = x.shards[i]
    BY <1>1
<1>6. /\ new[b] = Append(x.shards[b], g)
      /\ DOMAIN x.shards[b] = 1 .. L /\ L \in Nat
      /\ DOMAIN new[b] = 1 .. (L + 1) /\ L + 1 \in DOMAIN new[b]
      /\ \A m \in DOMAIN x.shards[b] : m \in DOMAIN new[b] /\ new[b][m] = x.shards[b][m]
      /\ new[b][L + 1] = g
    <2>1. new[b] = Append(x.shards[b], g) /\ x.shards[b] \in Seq(groups)
        BY <1>1
    <2> HIDE DEF new
    <2> QED  BY <1>1, <2>1, AppendFacts
<1> HIDE DEF new, L
\* What is in a place of the new shards is what was there, or g at the end of b.
<1>7. \A i \in 1 .. c : \A m \in DOMAIN new[i] :
          \/ m \in DOMAIN x.shards[i] /\ new[i][m] = x.shards[i][m]
          \/ i = b /\ m = L + 1 /\ new[i][m] = g
    <2> TAKE i \in 1 .. c
    <2> TAKE m \in DOMAIN new[i]
    <2>1. CASE i # b
        BY <1>5, <2>1
    <2>2. CASE i = b
        <3>1. m \in 1 .. L \/ m = L + 1
            BY <1>6, <2>2
        <3> QED  BY <1>6, <2>2, <3>1
    <2> QED  BY <2>1, <2>2
<1>8. \A h \in groups : h \in (x.left \ {g}) \/ \E i \in 1 .. c : \E m \in DOMAIN new[i] : new[i][m] = h
    <2> TAKE h \in groups
    <2>1. CASE h \in (x.left \ {g})
        BY <2>1
    <2>2. CASE h = g
        BY <1>6, <2>2
    <2>3. CASE h \notin x.left
        <3>1. PICK i \in 1 .. c : \E m \in DOMAIN x.shards[i] : x.shards[i][m] = h
            BY <2>3 DEF DealingOK
        <3>2. PICK m \in DOMAIN x.shards[i] : x.shards[i][m] = h
            BY <3>1
        <3>3. m \in DOMAIN new[i] /\ new[i][m] = h
            <4>1. CASE i = b
                BY <1>6, <3>2, <4>1
            <4>2. CASE i # b
                BY <1>5, <3>2, <4>2
            <4> QED  BY <4>1, <4>2
        <3> QED  BY <3>3
    <2> QED  BY <2>1, <2>2, <2>3
<1>9. \A i \in 1 .. c : \A m \in DOMAIN new[i] : new[i][m] \notin (x.left \ {g})
    BY <1>7 DEF DealingOK
<1>10. \A i, j \in 1 .. c : \A m \in DOMAIN new[i], p \in DOMAIN new[j] :
           new[i][m] = new[j][p] => i = j /\ m = p
    <2> SUFFICES ASSUME NEW i \in 1 .. c, NEW j \in 1 .. c, NEW m \in DOMAIN new[i], NEW p \in DOMAIN new[j],
                        new[i][m] = new[j][p]
                 PROVE  i = j /\ m = p
        OBVIOUS
    <2>1. \A k \in 1 .. c : \A q \in DOMAIN x.shards[k] : x.shards[k][q] # g
        BY DEF DealingOK
    <2>2. CASE new[i][m] = g
        <3>1. i = b /\ m = L + 1
            BY <1>7, <2>1, <2>2
        <3>2. j = b /\ p = L + 1
            BY <1>7, <2>1, <2>2
        <3> QED  BY <3>1, <3>2
    <2>3. CASE new[i][m] # g
        <3>1. /\ m \in DOMAIN x.shards[i] /\ new[i][m] = x.shards[i][m]
              /\ p \in DOMAIN x.shards[j] /\ new[j][p] = x.shards[j][p]
            BY <1>7, <2>3
        <3>2. \A k, l \in 1 .. c : \A q \in DOMAIN x.shards[k], r \in DOMAIN x.shards[l] :
                  x.shards[k][q] = x.shards[l][r] => k = l /\ q = r
            BY DEF DealingOK
        <3>3. x.shards[i][m] = x.shards[j][p]
            BY <3>1
        <3> QED  BY <3>1, <3>2, <3>3
    <2> QED  BY <2>2, <2>3
<1>11. y.left = x.left \ {g} /\ y.shards = new
    OBVIOUS
<1> HIDE DEF y
<1>12. DealingOK(y, n + 1, groups, c)
    BY <1>2, <1>4, <1>8, <1>9, <1>10, <1>11 DEF DealingOK
<1> QED  BY <1>12 DEF y, new

LEMMA DealExists ==
    ASSUME NEW keys, keys \subseteq Keys, NEW workers
    PROVE  \E d : Deals(d, keys, workers)
<1> DEFINE N == Cardinality(GroupsOf(keys))
           first == [left |-> GroupsOf(keys), shards |-> [i \in 1 .. ShardCount(keys, workers) |-> <<>>]]
           Up(d, m) == d = [n \in 0 .. m |-> IF n = 0 THEN first ELSE DealHeaviest(d[n - 1])]
           T == {m \in Nat : \E d : Up(d, m)}
<1> HIDE DEF first
<1>1. 0 \in T
    <2>1. Up([n \in 0 .. 0 |-> first], 0)
        OBVIOUS
    <2> QED  BY <2>1
<1>2. \A m \in Nat : m \in T => m + 1 \in T
    <2> SUFFICES ASSUME NEW m \in Nat, NEW d, Up(d, m) PROVE \E e : Up(e, m + 1)
        OBVIOUS
    <2> DEFINE e == [n \in 0 .. (m + 1) |-> IF n = m + 1 THEN DealHeaviest(d[m]) ELSE d[n]]
    <2>1. \A n \in 0 .. (m + 1) : e[n] = IF n = 0 THEN first ELSE DealHeaviest(e[n - 1])
        <3> SUFFICES ASSUME NEW n \in 0 .. (m + 1) PROVE e[n] = IF n = 0 THEN first ELSE DealHeaviest(e[n - 1])
            OBVIOUS
        <3>1. CASE n = m + 1
            <4>1. n # 0 /\ n - 1 = m /\ m \in 0 .. (m + 1) /\ m # m + 1
                BY <3>1
            <4> QED  BY <3>1, <4>1
        <3>2. CASE n # m + 1 /\ n # 0
            <4>1. n \in 0 .. m /\ n - 1 \in 0 .. (m + 1) /\ n - 1 # m + 1
                BY <3>2
            <4>2. d[n] = DealHeaviest(d[n - 1])
                BY <3>2, <4>1
            <4> QED  BY <3>2, <4>1, <4>2
        <3>3. CASE n = 0
            <4>1. d[0] = first /\ 0 # m + 1 /\ 0 \in 0 .. (m + 1)
                OBVIOUS
            <4> QED  BY <3>3, <4>1
        <3> QED  BY <3>1, <3>2, <3>3
    <2>2. Up(e, m + 1)
        BY <2>1, Zenon
    <2> QED  BY <2>2
<1>3. Nat \subseteq T
    <2> HIDE DEF T
    <2> QED  BY <1>1, <1>2, Induction
<1>4. N \in Nat
    BY GroupsAreFinite
<1> HIDE DEF N
<1>5. PICK d : Up(d, N)
    BY <1>3, <1>4
<1>6. Deals(d, keys, workers)
    BY <1>5 DEF Deals, N, first
<1> QED  BY <1>6

LEMMA DealtIsDealt ==
    ASSUME NEW keys, keys \subseteq Keys, NEW workers
    PROVE  \E d : Deals(d, keys, workers) /\ Dealt(keys, workers) = d[Cardinality(GroupsOf(keys))].shards
<1> DEFINE d == CHOOSE d : d = [n \in 0 .. Cardinality(GroupsOf(keys)) |->
            IF n = 0
            THEN [left |-> GroupsOf(keys), shards |-> [i \in 1 .. ShardCount(keys, workers) |-> <<>>]]
            ELSE DealHeaviest(d[n - 1])]
<1>0. \E e : Deals(e, keys, workers)
    BY DealExists
<1>1. Deals(d, keys, workers)
    BY <1>0, Zenon DEF Deals
<1>2. Dealt(keys, workers) = d[Cardinality(GroupsOf(keys))].shards
    BY Zenon DEF Dealt
<1> QED  BY <1>1, <1>2, Zenon

\* What is dealt in the end: every group, once.
LEMMA DealtFacts ==
    ASSUME NEW keys, keys \subseteq Keys, NEW workers \in Int
    PROVE  LET groups == GroupsOf(keys)
               c == ShardCount(keys, workers)
               dealt == Dealt(keys, workers)
           IN  /\ c \in Nat \ {0} /\ dealt \in [1 .. c -> Seq(groups)]
               /\ \A g \in groups : \E i \in 1 .. c : \E m \in DOMAIN dealt[i] : dealt[i][m] = g
               /\ \A i, j \in 1 .. c : \A m \in DOMAIN dealt[i], p \in DOMAIN dealt[j] :
                      dealt[i][m] = dealt[j][p] => i = j /\ m = p
<1> DEFINE groups == GroupsOf(keys)
           c == ShardCount(keys, workers)
           N == Cardinality(groups)
<1>1. c \in Nat \ {0}
    BY ShardCountIsPositive
<1>2. IsFiniteSet(groups) /\ N \in Nat
    BY GroupsAreFinite
<1>3. PICK d : Deals(d, keys, workers) /\ Dealt(keys, workers) = d[N].shards
    BY DealtIsDealt
<1>4. /\ d[0] = [left |-> groups, shards |-> [i \in 1 .. c |-> <<>>]]
      /\ \A n \in 1 .. N : d[n] = DealHeaviest(d[n - 1])
    <2>1. 0 \in 0 .. N /\ 1 .. N \subseteq 0 .. N /\ \A n \in 1 .. N : n # 0
        BY <1>2
    <2> QED  BY <1>3, <2>1 DEF Deals
<1> DEFINE T == {n \in Nat : n <= N => DealingOK(d[n], n, groups, c)}
<1>5. 0 \in T
    <2> DEFINE none == [i \in 1 .. c |-> <<>>]
    <2>1. d[0].left = groups /\ d[0].shards = none
        BY <1>4
    <2>2. none \in [1 .. c -> Seq(groups)]
        OBVIOUS
    <2>3. \A i \in 1 .. c : DOMAIN none[i] = {}
        OBVIOUS
    <2> HIDE DEF none
    <2>4. DealingOK(d[0], 0, groups, c)
        BY <1>2, <2>1, <2>2, <2>3 DEF DealingOK
    <2> QED  BY <2>4
<1>6. \A n \in Nat : n \in T => n + 1 \in T
    <2> SUFFICES ASSUME NEW n \in Nat, n \in T, n + 1 <= N PROVE DealingOK(d[n + 1], n + 1, groups, c)
        OBVIOUS
    <2> DEFINE g == Heaviest(d[n].left)
               b == Lightest(d[n].shards)
    <2>1. DealingOK(d[n], n, groups, c)
        BY <1>2
    <2>2. d[n].left # {} /\ d[n].left \subseteq groups
        <3>1. Cardinality(d[n].left) = N - n /\ d[n].left \subseteq groups
            BY <2>1 DEF DealingOK
        <3>2. N - n # 0
            BY <1>2
        <3> QED  BY <3>1, <3>2, FS_EmptySet
    <2>3. g \in d[n].left
        BY <2>2, HeaviestIsLeft
    <2>4. b \in 1 .. c
        <3>1. DOMAIN d[n].shards = 1 .. c
            BY <2>1 DEF DealingOK
        <3> HIDE DEF c
        <3> QED  BY <1>1, <3>1, LightestIsAShard
    <2>5. d[n + 1] = [left |-> d[n].left \ {g}, shards |-> [d[n].shards EXCEPT ![b] = Append(@, g)]]
        <3>1. n + 1 \in 1 .. N /\ (n + 1) - 1 = n
            BY <1>2
        <3>2. d[n + 1] = DealHeaviest(d[n])
            BY <1>4, <3>1
        <3> QED  BY <3>2 DEF DealHeaviest, Assign
    <2> HIDE DEF g, b, c, groups
    <2>6. DealingOK([left |-> d[n].left \ {g}, shards |-> [d[n].shards EXCEPT ![b] = Append(@, g)]],
                    n + 1, groups, c)
        BY <1>1, <1>2, <2>1, <2>3, <2>4, DealingStep
    <2> QED  BY <2>5, <2>6
<1>7. Nat \subseteq T
    <2> HIDE DEF T
    <2> QED  BY <1>5, <1>6, Induction
<1>8. DealingOK(d[N], N, groups, c)
    BY <1>2, <1>7
<1>9. d[N].left = {}
    <2>1. IsFiniteSet(d[N].left) /\ Cardinality(d[N].left) = 0
        BY <1>2, <1>8 DEF DealingOK
    <2> QED  BY <2>1, FS_EmptySet
<1> HIDE DEF c, groups, N
<1>10. \A g \in groups : \E i \in 1 .. c : \E m \in DOMAIN d[N].shards[i] : d[N].shards[i][m] = g
    BY <1>8, <1>9 DEF DealingOK
<1>11. /\ d[N].shards \in [1 .. c -> Seq(groups)]
       /\ \A i, j \in 1 .. c : \A m \in DOMAIN d[N].shards[i], p \in DOMAIN d[N].shards[j] :
              d[N].shards[i][m] = d[N].shards[j][p] => i = j /\ m = p
    BY <1>8 DEF DealingOK
<1> QED  BY <1>1, <1>3, <1>10, <1>11 DEF c, groups

\* The filter of NonEmpty, as a function of how many shards it has looked at.
Keeps(kept, dealt) ==
    kept = [n \in 0 .. Len(dealt) |->
               IF n = 0 THEN <<>>
               ELSE IF dealt[n] = <<>> THEN kept[n - 1] ELSE Append(kept[n - 1], dealt[n])]

LEMMA KeptExists ==
    ASSUME NEW dealt, Len(dealt) \in Nat
    PROVE  \E kept : Keeps(kept, dealt)
<1> DEFINE N == Len(dealt)
           More(x, n) == IF dealt[n] = <<>> THEN x ELSE Append(x, dealt[n])
           Up(k, m) == k = [n \in 0 .. m |-> IF n = 0 THEN <<>> ELSE More(k[n - 1], n)]
           T == {m \in Nat : \E k : Up(k, m)}
<1> HIDE DEF More
<1>1. 0 \in T
    <2>1. Up([n \in 0 .. 0 |-> <<>>], 0)
        OBVIOUS
    <2> QED  BY <2>1
<1>2. \A m \in Nat : m \in T => m + 1 \in T
    <2> HIDE DEF Up
    <2> SUFFICES ASSUME NEW m \in Nat, NEW d, Up(d, m) PROVE \E e : Up(e, m + 1)
        OBVIOUS
    <2> USE DEF Up
    <2> DEFINE e == [n \in 0 .. (m + 1) |-> IF n = m + 1 THEN More(d[m], m + 1) ELSE d[n]]
    <2>1. \A n \in 0 .. (m + 1) : e[n] = IF n = 0 THEN <<>> ELSE More(e[n - 1], n)
        <3> SUFFICES ASSUME NEW n \in 0 .. (m + 1) PROVE e[n] = IF n = 0 THEN <<>> ELSE More(e[n - 1], n)
            OBVIOUS
        <3>1. CASE n = m + 1
            <4>1. n # 0 /\ n - 1 = m /\ m \in 0 .. (m + 1) /\ m # m + 1
                BY <3>1
            <4> QED  BY <3>1, <4>1
        <3>2. CASE n # m + 1 /\ n # 0
            <4>1. n \in 0 .. m /\ n - 1 \in 0 .. (m + 1) /\ n - 1 # m + 1
                BY <3>2
            <4>2. d[n] = More(d[n - 1], n)
                BY <3>2, <4>1
            <4> QED  BY <3>2, <4>1, <4>2
        <3>3. CASE n = 0
            <4>1. d[0] = <<>> /\ 0 # m + 1 /\ 0 \in 0 .. (m + 1)
                OBVIOUS
            <4> QED  BY <3>3, <4>1
        <3> QED  BY <3>1, <3>2, <3>3
    <2>2. Up(e, m + 1)
        BY <2>1, Zenon
    <2> QED  BY <2>2
<1>3. Nat \subseteq T
    <2> HIDE DEF T
    <2> QED  BY <1>1, <1>2, Induction
<1> HIDE DEF N
<1>4. PICK kept : Up(kept, N)
    BY <1>3 DEF N
<1>5. Keeps(kept, dealt)
    BY <1>4 DEF Keeps, N, More
<1> QED  BY <1>5

LEMMA KeptIsKept ==
    ASSUME NEW dealt, Len(dealt) \in Nat
    PROVE  \E kept : Keeps(kept, dealt) /\ NonEmpty(dealt) = kept[Len(dealt)]
<1> DEFINE kept == CHOOSE kept : kept =
                       [n \in 0 .. Len(dealt) |->
                           IF n = 0 THEN <<>>
                           ELSE IF dealt[n] = <<>> THEN kept[n - 1] ELSE Append(kept[n - 1], dealt[n])]
<1>0. \E k : Keeps(k, dealt)
    BY KeptExists
<1>1. Keeps(kept, dealt)
    BY <1>0, Zenon DEF Keeps
<1>2. NonEmpty(dealt) = kept[Len(dealt)]
    BY Zenon DEF NonEmpty
<1> QED  BY <1>1, <1>2, Zenon

\* What is kept of the first n shards, as long as no group is dealt twice.
KeepingOK(t, n, dealt, groups) ==
    /\ t \in Seq(Seq(groups) \ {<<>>})
    /\ \A j \in 1 .. n : dealt[j] # <<>> => \E i \in DOMAIN t : t[i] = dealt[j]
    /\ \A i \in DOMAIN t : \E j \in 1 .. n : t[i] = dealt[j]
    /\ \A i, j \in DOMAIN t : \A m \in DOMAIN t[i], p \in DOMAIN t[j] : t[i][m] = t[j][p] => i = j /\ m = p

LEMMA KeepingStep ==
    ASSUME NEW groups, NEW c \in Nat, NEW dealt \in [1 .. c -> Seq(groups)],
           \A i, j \in 1 .. c : \A m \in DOMAIN dealt[i], p \in DOMAIN dealt[j] :
               dealt[i][m] = dealt[j][p] => i = j /\ m = p,
           NEW n \in Nat, n + 1 <= c, NEW t, KeepingOK(t, n, dealt, groups)
    PROVE  KeepingOK(IF dealt[n + 1] = <<>> THEN t ELSE Append(t, dealt[n + 1]), n + 1, dealt, groups)
<1> DEFINE s == dealt[n + 1]
<1>1. n + 1 \in 1 .. c /\ (\A j \in 1 .. (n + 1) : j \in 1 .. n \/ j = n + 1) /\ 1 .. n \subseteq 1 .. (n + 1)
    OBVIOUS
<1>2. s \in Seq(groups)
    BY <1>1
<1>3. CASE s = <<>>
    <2>1. KeepingOK(t, n + 1, dealt, groups)
        BY <1>1, <1>3 DEF KeepingOK
    <2> QED  BY <1>3, <2>1
<1>4. CASE s # <<>>
    <2> DEFINE u == Append(t, s)
               L == Len(t)
    <2>1. t \in Seq(Seq(groups) \ {<<>>}) /\ s \in Seq(groups) \ {<<>>}
        BY <1>2, <1>4 DEF KeepingOK
    <2>2. /\ u \in Seq(Seq(groups) \ {<<>>}) /\ L \in Nat /\ DOMAIN t = 1 .. L
          /\ DOMAIN u = 1 .. (L + 1) /\ L + 1 \in DOMAIN u /\ u[L + 1] = s
          /\ \A i \in DOMAIN t : i \in DOMAIN u /\ u[i] = t[i]
        <3> DEFINE G == Seq(groups) \ {<<>>}
        <3>1. t \in Seq(G) /\ s \in G
            BY <2>1
        <3>2. u \in Seq(G)
            <4> HIDE DEF G, s
            <4> QED  BY <3>1, AppendFacts
        <3> HIDE DEF G, s
        <3> QED  BY <3>1, <3>2, AppendFacts DEF G
    <2> HIDE DEF u, L, s
    <2>3. \A i \in DOMAIN u : (i \in DOMAIN t /\ u[i] = t[i]) \/ (i = L + 1 /\ u[i] = s)
        <3> TAKE i \in DOMAIN u
        <3>1. i \in 1 .. L \/ i = L + 1
            BY <2>2
        <3> QED  BY <2>2, <3>1
    <2>4. \A j \in 1 .. (n + 1) : dealt[j] # <<>> => \E i \in DOMAIN u : u[i] = dealt[j]
        <3> SUFFICES ASSUME NEW j \in 1 .. (n + 1), dealt[j] # <<>> PROVE \E i \in DOMAIN u : u[i] = dealt[j]
            OBVIOUS
        <3>1. CASE j = n + 1
            BY <2>2, <3>1 DEF s
        <3>2. CASE j \in 1 .. n
            <4>1. PICK i \in DOMAIN t : t[i] = dealt[j]
                BY <3>2 DEF KeepingOK
            <4> QED  BY <2>2, <4>1
        <3> QED  BY <1>1, <3>1, <3>2
    <2>5. \A i \in DOMAIN u : \E j \in 1 .. (n + 1) : u[i] = dealt[j]
        <3> TAKE i \in DOMAIN u
        <3>1. CASE i \in DOMAIN t /\ u[i] = t[i]
            <4>1. PICK j \in 1 .. n : t[i] = dealt[j]
                BY <3>1 DEF KeepingOK
            <4> QED  BY <1>1, <3>1, <4>1
        <3>2. CASE u[i] = s
            <4>1. n + 1 \in 1 .. (n + 1)
                OBVIOUS
            <4> QED  BY <3>2, <4>1 DEF s
        <3> QED  BY <2>3, <3>1, <3>2
    \* The shard just kept shares no group with those kept before.
    <2>6. \A i \in DOMAIN t : \A m \in DOMAIN t[i], p \in DOMAIN s : t[i][m] # s[p]
        <3> TAKE i \in DOMAIN t
        <3>1. PICK j \in 1 .. n : t[i] = dealt[j]
            BY DEF KeepingOK
        <3>2. j \in 1 .. c /\ j # n + 1
            OBVIOUS
        <3> QED  BY <1>1, <3>1, <3>2 DEF s
    <2>7. \A m, p \in DOMAIN s : s[m] = s[p] => m = p
        BY <1>1 DEF s
    <2>8. \A i, j \in DOMAIN u : \A m \in DOMAIN u[i], p \in DOMAIN u[j] : u[i][m] = u[j][p] => i = j /\ m = p
        <3> SUFFICES ASSUME NEW i \in DOMAIN u, NEW j \in DOMAIN u, NEW m \in DOMAIN u[i], NEW p \in DOMAIN u[j],
                            u[i][m] = u[j][p]
                     PROVE  i = j /\ m = p
            OBVIOUS
        <3>1. CASE i \in DOMAIN t /\ u[i] = t[i] /\ j \in DOMAIN t /\ u[j] = t[j]
            BY <3>1 DEF KeepingOK
        <3>2. CASE i \in DOMAIN t /\ u[i] = t[i] /\ j = L + 1 /\ u[j] = s
            BY <2>6, <3>2
        <3>3. CASE i = L + 1 /\ u[i] = s /\ j \in DOMAIN t /\ u[j] = t[j]
            BY <2>6, <3>3
        <3>4. CASE i = L + 1 /\ u[i] = s /\ j = L + 1 /\ u[j] = s
            BY <2>7, <3>4
        <3> QED  BY <2>3, <3>1, <3>2, <3>3, <3>4
    <2>9. KeepingOK(u, n + 1, dealt, groups)
        BY <2>2, <2>4, <2>5, <2>8 DEF KeepingOK
    <2> QED  BY <1>4, <2>9 DEF u, s
<1> QED  BY <1>3, <1>4

LEMMA NonEmptyFacts ==
    ASSUME NEW groups, NEW c \in Nat, NEW dealt \in [1 .. c -> Seq(groups)],
           \A i, j \in 1 .. c : \A m \in DOMAIN dealt[i], p \in DOMAIN dealt[j] :
               dealt[i][m] = dealt[j][p] => i = j /\ m = p
    PROVE  KeepingOK(NonEmpty(dealt), c, dealt, groups)
<1>1. dealt \in Seq(Seq(groups)) /\ Len(dealt) = c
    OBVIOUS
<1>2. PICK kept : Keeps(kept, dealt) /\ NonEmpty(dealt) = kept[c]
    BY <1>1, KeptIsKept
<1>3. /\ kept[0] = <<>>
      /\ \A n \in 1 .. c : kept[n] = IF dealt[n] = <<>> THEN kept[n - 1] ELSE Append(kept[n - 1], dealt[n])
    <2>1. 0 \in 0 .. c /\ 1 .. c \subseteq 0 .. c /\ \A n \in 1 .. c : n # 0
        OBVIOUS
    <2> QED  BY <1>1, <1>2, <2>1 DEF Keeps
<1> DEFINE T == {n \in Nat : n <= c => KeepingOK(kept[n], n, dealt, groups)}
<1>4. 0 \in T
    <2>1. KeepingOK(<<>>, 0, dealt, groups)
        BY DEF KeepingOK
    <2> QED  BY <1>3, <2>1
<1>5. \A n \in Nat : n \in T => n + 1 \in T
    <2> SUFFICES ASSUME NEW n \in Nat, n \in T, n + 1 <= c PROVE KeepingOK(kept[n + 1], n + 1, dealt, groups)
        OBVIOUS
    <2>1. n + 1 \in 1 .. c /\ (n + 1) - 1 = n /\ KeepingOK(kept[n], n, dealt, groups)
        OBVIOUS
    <2>2. kept[n + 1] = IF dealt[n + 1] = <<>> THEN kept[n] ELSE Append(kept[n], dealt[n + 1])
        BY <1>3, <2>1
    <2>3. KeepingOK(IF dealt[n + 1] = <<>> THEN kept[n] ELSE Append(kept[n], dealt[n + 1]), n + 1, dealt, groups)
        BY <2>1, KeepingStep
    <2> QED  BY <2>2, <2>3
<1>6. Nat \subseteq T
    <2> HIDE DEF T
    <2> QED  BY <1>4, <1>5, Induction
<1> QED  BY <1>2, <1>6

\* What the workers are given: groups of pairs with data, each pair in one of
\* them, and all pairs of a spot in the same one.
ShardsOK(dealt, keys) ==
    /\ dealt \in Seq(Seq(SUBSET keys) \ {<<>>})
    /\ \A k \in keys : \E i \in DOMAIN dealt : \E m \in DOMAIN dealt[i] : k \in dealt[i][m]
    /\ \A i, j \in DOMAIN dealt : \A m \in DOMAIN dealt[i], p \in DOMAIN dealt[j] :
           \A k \in dealt[i][m], l \in dealt[j][p] : SpotOf[k] = SpotOf[l] => i = j /\ m = p

\* balanced_backtest_shards deals every pair with data, and keeps the pairs of a
\* spot together, for any weights and number of workers.
THEOREM ShardsAreOK ==
    ASSUME NEW keys, keys \subseteq Keys, NEW workers \in Int
    PROVE  ShardsOK(Shards(keys, workers), keys)
<1> DEFINE groups == GroupsOf(keys)
           c == ShardCount(keys, workers)
           dealt == Dealt(keys, workers)
           t == Shards(keys, workers)
<1>1. /\ c \in Nat \ {0} /\ dealt \in [1 .. c -> Seq(groups)]
      /\ \A g \in groups : \E i \in 1 .. c : \E m \in DOMAIN dealt[i] : dealt[i][m] = g
      /\ \A i, j \in 1 .. c : \A m \in DOMAIN dealt[i], p \in DOMAIN dealt[j] :
             dealt[i][m] = dealt[j][p] => i = j /\ m = p
    BY DealtFacts
<1>2. t = NonEmpty(dealt)
    BY DEF Shards
<1> HIDE DEF c, dealt, t
<1>3. KeepingOK(t, c, dealt, groups)
    <2> HIDE DEF groups
    <2> QED  BY <1>1, <1>2, NonEmptyFacts
<1>4. \A g \in groups : g \subseteq keys
    BY GroupFacts
<1>5. t \in Seq(Seq(groups) \ {<<>>}) /\ \A i \in DOMAIN t : \A m \in DOMAIN t[i] : t[i][m] \in groups
    <2> HIDE DEF groups
    <2>1. t \in Seq(Seq(groups) \ {<<>>})
        BY <1>3 DEF KeepingOK
    <2>2. ASSUME NEW i \in DOMAIN t PROVE \A m \in DOMAIN t[i] : t[i][m] \in groups
        <3>1. t[i] \in Seq(groups)
            BY <2>1
        <3> QED  BY <3>1
    <2> QED  BY <2>1, <2>2
<1>6. t \in Seq(Seq(SUBSET keys) \ {<<>>})
    <2>1. groups \subseteq SUBSET keys
        BY <1>4
    <2> HIDE DEF groups
    <2>2. Seq(groups) \ {<<>>} \subseteq Seq(SUBSET keys) \ {<<>>}
        BY <2>1
    <2> QED  BY <1>5, <2>2
<1>7. \A k \in keys : \E i \in DOMAIN t : \E m \in DOMAIN t[i] : k \in t[i][m]
    <2> TAKE k \in keys
    <2> DEFINE own == {j \in keys : SpotOf[j] = SpotOf[k]}
    <2>1. own \in groups /\ k \in own
        BY DEF GroupsOf
    <2> HIDE DEF own
    <2>0. PICK g \in groups : k \in g
        BY <2>1
    <2> HIDE DEF groups
    <2>2. PICK j \in 1 .. c : \E m \in DOMAIN dealt[j] : dealt[j][m] = g
        BY <1>1
    <2>3. PICK m \in DOMAIN dealt[j] : dealt[j][m] = g
        BY <2>2
    <2>4. dealt[j] # <<>>
        BY <2>3
    <2>5. PICK i \in DOMAIN t : t[i] = dealt[j]
        BY <1>3, <2>4 DEF KeepingOK
    <2> QED  BY <2>0, <2>3, <2>5
<1>8. \A i, j \in DOMAIN t : \A m \in DOMAIN t[i], p \in DOMAIN t[j] :
           \A k \in t[i][m], l \in t[j][p] : SpotOf[k] = SpotOf[l] => i = j /\ m = p
    <2> SUFFICES ASSUME NEW i \in DOMAIN t, NEW j \in DOMAIN t, NEW m \in DOMAIN t[i], NEW p \in DOMAIN t[j],
                        NEW k \in t[i][m], NEW l \in t[j][p], SpotOf[k] = SpotOf[l]
                 PROVE  i = j /\ m = p
        OBVIOUS
    <2>1. t[i][m] \in groups /\ t[j][p] \in groups
        BY <1>5
    <2>2. t[i][m] = t[j][p]
        BY <2>1, GroupFacts
    <2> HIDE DEF groups
    <2> QED  BY <1>3, <2>2 DEF KeepingOK
<1> QED  BY <1>6, <1>7, <1>8 DEF ShardsOK, t

-----------------------------------------------------------------------------
(* The event data                                                           *)

Contents == {"none", "old", "cut", "short", "whole"}

\* In these runs no archive of a part of the rows may be read.
Rebuilt == request.rebuild \/ runs = 1

DataTypes ==
    /\ request \in Requests /\ archives \in [Legs -> Contents]
    /\ splits \in [Spots -> {"none", "short", "whole"}]
    /\ found \subseteq Legs /\ left \subseteq Keys /\ ready \subseteq Keys /\ runs \in Nat \ {0}
    /\ stage \in {"split", "futures", "records", "audit", "run", "ended"}

\* A run that rebuilds splits everything it will convert from.
SplitsOK ==
    /\ stage = "split" /\ runs = 1 => \A s \in Spots : splits[s] = "none"
    /\ stage \in {"futures", "records"} /\ Rebuilt => \A s \in Spots : HasCsv(s) => splits[s] # "short"

ArchivesOK ==
    /\ \A f \in Futures : archives[Future(f)] \in {"none", "cut", "whole"}
    /\ runs = 1 => \A leg \in Legs : archives[leg] # "short"
    /\ runs = 1 /\ stage \in {"split", "futures"} => \A f \in Futures : archives[Future(f)] = "none"

\* Only futures are not asked whether their archive was cut off: the audit is.
FoundOK ==
    /\ \A s \in Spots : Stock(s) \in found =>
           /\ archives[Stock(s)] \in {"short", "whole"}
           /\ Rebuilt => archives[Stock(s)] = "whole"
           /\ \E k \in Keys \ left : SpotOf[k] = s
    /\ \A f \in Futures : Future(f) \in found =>
           archives[Future(f)] \in {"cut", "whole"} /\ (Rebuilt => archives[Future(f)] = "whole")

ReadyOK ==
    /\ stage = "split" => ready = {}
    /\ stage \in {"split", "futures"} => found = {} /\ ready = {} /\ left = Keys
    /\ stage \in {"futures", "records", "audit"} => ~request.compact /\ \A k \in ready : LegsOf(k) \subseteq found
    /\ ~request.proceed => /\ stage = "records" => ready = Keys \ left
                           /\ stage \in {"audit", "run"} => ready = Keys

DataInv == DataTypes /\ SplitsOK /\ ArchivesOK /\ FoundOK /\ ReadyOK /\ DataIsSound

LEMMA LegFacts ==
    /\ \A s \in Spots : Stock(s) \in Legs /\ Stock(s)[1] = "stock"
    /\ \A f \in Futures : Future(f) \in Legs /\ Future(f)[1] # "stock"
    /\ \A leg \in Legs : \/ \E s \in Spots : leg = Stock(s)
                         \/ \E f \in Futures : leg = Future(f)
    /\ \A s, r \in Spots : Stock(s) = Stock(r) => s = r
    /\ \A f, g \in Futures : Future(f) = Future(g) => f = g
    /\ \A s \in Spots, f \in Futures : Stock(s) # Future(f)
    /\ \A k \in Keys : SpotOf[k] \in Spots /\ FutureOf[k] \in Futures
                       /\ LegsOf(k) = {Stock(SpotOf[k]), Future(FutureOf[k])}
<1>1. \A s, r : Stock(s) = Stock(r) => s = r
    BY DEF Stock
<1>2. \A f, g : Future(f) = Future(g) => f = g
    BY DEF Future
<1>3. \A s, f : Stock(s) # Future(f) /\ Stock(s)[1] = "stock" /\ Future(f)[1] # "stock"
    BY DEF Stock, Future
<1> QED  BY <1>1, <1>2, <1>3 DEF Legs, Spots, Futures, LegsOf

LEMMA RequestFacts ==
    ASSUME request \in Requests
    PROVE  /\ request.compact \in BOOLEAN /\ request.rebuild \in BOOLEAN /\ request.convert \in BOOLEAN
           /\ request.daily \in BOOLEAN /\ request.proceed \in BOOLEAN
BY RequestsAssumption

LEMMA DataInvInit == DataInit => DataInv
<1> SUFFICES ASSUME DataInit PROVE DataInv
    OBVIOUS
<1>1. /\ \A s \in Spots : archives[Stock(s)] \in {"none", "old"}
      /\ \A f \in Futures : archives[Future(f)] = "none"
      /\ archives \in [Legs -> {"none", "old"}]
    BY LegFacts DEF DataInit
<1>2. DataTypes
    BY <1>1 DEF DataInit, DataTypes, Contents
<1>3. SplitsOK /\ ArchivesOK /\ FoundOK /\ ReadyOK /\ DataIsSound
    BY <1>1 DEF DataInit, SplitsOK, ArchivesOK, FoundOK, ReadyOK, DataIsSound
<1> QED  BY <1>2, <1>3 DEF DataInv

LEMMA SplitKeepsData == DataInv /\ SplitSpots => DataInv'
<1> SUFFICES ASSUME DataInv, SplitSpots PROVE DataInv'
    OBVIOUS
<1>1. /\ stage = "split" /\ ~request.compact /\ stage' \in {"futures", "ended"}
      /\ UNCHANGED <<request, archives, found, left, ready, runs>>
    BY DEF SplitSpots
<1>2. splits' \in [Spots -> {"none", "short", "whole"}]
    BY DEF SplitSpots, DataInv, DataTypes
<1>3. DataTypes'
    BY <1>1, <1>2 DEF DataInv, DataTypes
<1>4. SplitsOK'
    <2> SUFFICES ASSUME stage' = "futures", Rebuilt, NEW s \in Spots, HasCsv(s)' PROVE splits'[s] # "short"
        BY <1>1 DEF SplitsOK, Rebuilt
    <2>1. splits' = [r \in Spots |-> IF r \in ToSplit THEN "whole" ELSE splits[r]]
        BY DEF SplitSpots
    <2>2. splits'[s] = IF s \in ToSplit THEN "whole" ELSE splits[s]
        BY <2>1
    <2>3. CASE request.rebuild
        <3>1. request.daily
            BY <1>1, <2>3 DEF HasCsv
        <3>2. s \in ToSplit
            BY <2>3, <3>1 DEF ToSplit
        <3> QED  BY <2>2, <3>2
    <2>4. CASE runs = 1
        BY <1>1, <2>2, <2>4 DEF DataInv, SplitsOK
    <2> QED  BY <2>3, <2>4 DEF Rebuilt
<1>5. ArchivesOK' /\ FoundOK' /\ ReadyOK' /\ DataIsSound'
    BY <1>1 DEF DataInv, ArchivesOK, FoundOK, ReadyOK, DataIsSound, Rebuilt, LegsOf, Stock, Future
<1> QED  BY <1>3, <1>4, <1>5 DEF DataInv

LEMMA FuturesKeepData == DataInv /\ PrepareFutures => DataInv'
<1> SUFFICES ASSUME DataInv, PrepareFutures PROVE DataInv'
    OBVIOUS
<1> DEFINE unmade == {Future(f) : f \in {g \in Futures : request.rebuild \/ archives[Future(g)] = "none"}}
           pending == IF Convertible THEN unmade ELSE {}
<1>1. /\ stage = "futures" /\ stage' \in {"records", "ended"}
      /\ UNCHANGED <<request, splits, left, ready, runs>>
    BY DEF PrepareFutures
<1>2. PICK content \in [pending -> {"whole", "cut", "same"}] :
          /\ archives' = Written(pending, content)
          /\ \/ /\ stage' = "records"
                /\ found' = {Future(f) : f \in Futures} \ {leg \in unmade : leg \in pending => content[leg] # "whole"}
             \/ pending # {} /\ stage' = "ended" /\ UNCHANGED found
    BY DEF PrepareFutures
<1>3. request \in Requests /\ archives \in [Legs -> Contents] /\ found = {} /\ ready = {} /\ left = Keys
      /\ ~request.compact
    BY <1>1 DEF DataInv, DataTypes, ReadyOK
<1>4. /\ unmade \subseteq Legs /\ pending \subseteq unmade
      /\ \A leg \in unmade : \E f \in Futures : leg = Future(f)
    BY LegFacts
<1>5. \A f \in Futures : Future(f) \in unmade <=> request.rebuild \/ archives[Future(f)] = "none"
    BY LegFacts
<1>6. request.rebuild => pending = unmade
    BY DEF Convertible
<1> HIDE DEF unmade, pending
<1>7. /\ archives' \in [Legs -> Contents]
      /\ \A leg \in Legs : IF leg \in pending /\ content[leg] # "same"
                           THEN archives'[leg] = content[leg] /\ content[leg] \in {"whole", "cut"}
                           ELSE archives'[leg] = archives[leg]
    BY <1>2, <1>3 DEF Written, Contents
<1>8. \A s \in Spots : Stock(s) \in Legs /\ archives'[Stock(s)] = archives[Stock(s)] /\ Stock(s) \notin found'
    BY <1>2, <1>3, <1>4, <1>7, LegFacts
<1>9. \A f \in Futures : /\ Future(f) \in Legs
                         /\ archives'[Future(f)] \in {"none", "cut", "whole"}
                         /\ Future(f) \in found' =>
                                /\ archives'[Future(f)] \in {"cut", "whole"}
                                /\ Rebuilt => archives'[Future(f)] = "whole"
    <2> TAKE f \in Futures
    <2>1. Future(f) \in Legs /\ archives[Future(f)] \in {"none", "cut", "whole"}
        BY LegFacts DEF DataInv, ArchivesOK
    <2>2. archives'[Future(f)] \in {"none", "cut", "whole"}
        BY <1>7, <2>1
    <2>3. ASSUME Future(f) \in found'
          PROVE  archives'[Future(f)] \in {"cut", "whole"} /\ (Rebuilt => archives'[Future(f)] = "whole")
        <3>1. Future(f) \notin unmade \/ (Future(f) \in pending /\ content[Future(f)] = "whole")
            BY <1>2, <1>3, <2>3
        <3>2. CASE Future(f) \in pending /\ content[Future(f)] = "whole"
            BY <1>7, <2>1, <3>2
        <3>3. CASE Future(f) \notin unmade
            <4>1. archives'[Future(f)] = archives[Future(f)] /\ ~request.rebuild /\ archives[Future(f)] # "none"
                BY <1>4, <1>5, <1>7, <2>1, <3>3
            <4>2. runs # 1
                BY <1>1, <4>1 DEF DataInv, ArchivesOK
            <4> QED  BY <2>1, <4>1, <4>2 DEF Rebuilt
        <3> QED  BY <3>1, <3>2, <3>3
    <2> QED  BY <2>1, <2>2, <2>3
<1>10. found' \subseteq Legs
    BY <1>2, <1>3, LegFacts
<1>11. DataTypes'
    BY <1>1, <1>7, <1>10 DEF DataInv, DataTypes
<1>12. SplitsOK'
    BY <1>1 DEF DataInv, SplitsOK, Rebuilt, HasCsv
<1>13. ArchivesOK'
    <2>1. runs = 1 => \A leg \in Legs : archives'[leg] # "short"
        BY <1>7 DEF DataInv, ArchivesOK
    <2> QED  BY <1>1, <1>9, <2>1 DEF ArchivesOK
<1>14. FoundOK'
    BY <1>1, <1>8, <1>9 DEF FoundOK, Rebuilt
<1>15. ReadyOK' /\ DataIsSound'
    BY <1>1, <1>3 DEF ReadyOK, DataIsSound
<1> QED  BY <1>11, <1>12, <1>13, <1>14, <1>15 DEF DataInv

\* What ensure_spot_events may make of a spot whose archive no record had yet.
LEMMA OutcomeFacts ==
    ASSUME DataInv, stage = "records", NEW s \in Spots, NEW outcome \in SpotOutcomes(s)
    PROVE  /\ outcome[1] \in [Legs -> Contents]
           /\ \A leg \in Legs : leg # Stock(s) => outcome[1][leg] = archives[leg]
           /\ runs = 1 => outcome[1][Stock(s)] # "short"
           /\ outcome[2] => /\ outcome[1][Stock(s)] \in {"short", "whole"}
                            /\ Rebuilt => outcome[1][Stock(s)] = "whole"
<1> DEFINE made == IF splits[s] = "short" THEN "short" ELSE "whole"
<1>1. archives \in [Legs -> Contents] /\ Stock(s) \in Legs /\ archives[Stock(s)] \in Contents
    BY LegFacts DEF DataInv, DataTypes
<1>2. Rebuilt /\ HasCsv(s) => made = "whole"
    BY DEF DataInv, SplitsOK
<1>3. runs = 1 => archives[Stock(s)] # "short"
    BY <1>1 DEF DataInv, ArchivesOK
<1>4. made \in {"short", "whole"}
    OBVIOUS
<1> HIDE DEF made
<1>5. CASE ~Issue(s) /\ ~request.rebuild
    <2>1. outcome = <<archives, TRUE>>
        BY <1>5 DEF SpotOutcomes
    <2>2. archives[Stock(s)] \in {"short", "whole"}
        BY <1>1, <1>5 DEF Issue, Contents
    <2>3. Rebuilt => archives[Stock(s)] = "whole"
        BY <1>3, <1>5, <2>2 DEF Rebuilt
    <2> QED  BY <1>1, <1>3, <2>1, <2>2, <2>3
<1>6. CASE (Issue(s) \/ request.rebuild) /\ (~Convertible \/ ~HasCsv(s))
    <2>1. outcome = <<archives, FALSE>>
        BY <1>6 DEF SpotOutcomes
    <2> QED  BY <1>1, <1>3, <2>1
<1>7. CASE (Issue(s) \/ request.rebuild) /\ Convertible /\ HasCsv(s)
    <2>1. SpotOutcomes(s) = {<<Written({Stock(s)}, [leg \in {Stock(s)} |-> content]), content = made>> :
                                 content \in {made, "cut", "same"}}
        BY <1>7 DEF SpotOutcomes, made
    <2>2. PICK content \in {made, "cut", "same"} :
              outcome = <<Written({Stock(s)}, [leg \in {Stock(s)} |-> content]), content = made>>
        BY <2>1
    <2>3. outcome[1] = [leg \in Legs |-> IF leg = Stock(s) /\ content # "same" THEN content ELSE archives[leg]]
        BY <2>2 DEF Written
    <2>4. outcome[1] \in [Legs -> Contents]
        BY <1>1, <1>4, <2>3 DEF Contents
    <2>5. outcome[1][Stock(s)] = IF content # "same" THEN content ELSE archives[Stock(s)]
        BY <1>1, <2>3
    <2>6. \A leg \in Legs : leg # Stock(s) => outcome[1][leg] = archives[leg]
        BY <2>3
    <2>7. runs = 1 => outcome[1][Stock(s)] # "short"
        BY <1>2, <1>3, <1>7, <2>5 DEF Rebuilt
    <2>8. outcome[2] => content = made
        BY <2>2
    <2>9. outcome[2] => /\ outcome[1][Stock(s)] \in {"short", "whole"}
                        /\ Rebuilt => outcome[1][Stock(s)] = "whole"
        BY <1>2, <1>4, <1>7, <2>5, <2>8
    <2> QED  BY <2>4, <2>6, <2>7, <2>9
<1> QED  BY <1>5, <1>6, <1>7

LEMMA RecordKeepsData == DataInv /\ NextRecord => DataInv'
<1> SUFFICES ASSUME DataInv, NextRecord PROVE DataInv'
    OBVIOUS
<1> DEFINE k == Min(left)
           s == SpotOf[k]
           known == \E j \in Keys \ left : SpotOf[j] = s
           outcomes == IF known THEN {<<archives, Stock(s) \in found>>} ELSE SpotOutcomes(s)
<1>1. stage = "records" /\ left # {} /\ UNCHANGED <<request, splits, runs>>
    BY DEF NextRecord
<1>2. /\ archives \in [Legs -> Contents] /\ found \subseteq Legs /\ left \subseteq Keys /\ ready \subseteq Keys
      /\ ~request.compact /\ \A j \in ready : LegsOf(j) \subseteq found
    BY <1>1 DEF DataInv, DataTypes, ReadyOK
<1>3. k \in left /\ k \in Keys /\ s \in Spots /\ Stock(s) \in Legs
    BY <1>1, <1>2, LeastKey, LegFacts
<1>4. PICK outcome \in outcomes :
          LET all == IF outcome[2] THEN found \cup {Stock(s)} ELSE found
              ok == LegsOf(k) \subseteq all
          IN  /\ archives' = outcome[1] /\ found' = all /\ left' = left \ {k}
              /\ ready' = IF ok THEN ready \cup {k} ELSE ready
              /\ \/ stage' = IF ~ok /\ ~request.proceed THEN "ended"
                             ELSE IF left = {k} THEN "audit" ELSE "records"
                 \/ archives' # archives /\ stage' = "ended"
    BY DEF NextRecord
<1> HIDE DEF k
<1>5. /\ outcome[1] \in [Legs -> Contents]
      /\ \A leg \in Legs : leg # Stock(s) \/ known => outcome[1][leg] = archives[leg]
      /\ runs = 1 => outcome[1][Stock(s)] # "short"
      /\ outcome[2] => /\ outcome[1][Stock(s)] \in {"short", "whole"}
                       /\ Rebuilt => outcome[1][Stock(s)] = "whole"
    <2>1. CASE known
        <3>0. outcome = <<archives, Stock(s) \in found>>
            BY <2>1
        <3>1. outcome[1] = archives /\ (outcome[2] => Stock(s) \in found)
            <4> DEFINE there == Stock(s) \in found
            <4>1. outcome = <<archives, there>>
                BY <3>0
            <4> HIDE DEF there
            <4>2. outcome[1] = archives /\ outcome[2] = there
                BY <4>1
            <4> QED  BY <4>2 DEF there
        <3> QED  BY <1>2, <1>3, <3>1 DEF DataInv, ArchivesOK, FoundOK
    <2>2. CASE ~known
        <3>1. outcome \in SpotOutcomes(s)
            BY <2>2
        <3> HIDE DEF known, s
        <3> QED  BY <1>1, <1>3, <2>2, <3>1, OutcomeFacts
    <2> QED  BY <2>1, <2>2
<1> HIDE DEF outcomes
<1>6. /\ archives' = outcome[1] /\ left' = left \ {k} /\ ready' \in {ready, ready \cup {k}}
      /\ found' = IF outcome[2] THEN found \cup {Stock(s)} ELSE found
      /\ k \in ready' => k \in ready \/ LegsOf(k) \subseteq found'
      /\ stage' \in {"ended", "audit", "records"}
      /\ stage' # "ended" /\ ~request.proceed => ready' = ready \cup {k}
      /\ stage' = "audit" => left = {k}
    BY <1>4
<1> HIDE DEF known, s
<1>7. DataTypes'
    BY <1>1, <1>2, <1>3, <1>5, <1>6 DEF DataInv, DataTypes
<1>8. SplitsOK'
    BY <1>1, <1>6 DEF DataInv, SplitsOK, Rebuilt, HasCsv
<1>9. \A f \in Futures : Future(f) \in Legs /\ archives'[Future(f)] = archives[Future(f)]
                         /\ (Future(f) \in found' => Future(f) \in found)
    BY <1>3, <1>5, <1>6, LegFacts
<1>10. ArchivesOK'
    <2>1. ASSUME runs = 1, NEW leg \in Legs PROVE archives'[leg] # "short"
        BY <1>3, <1>5, <1>6, <2>1 DEF DataInv, ArchivesOK
    <2> QED  BY <1>1, <1>6, <1>9, <2>1 DEF DataInv, ArchivesOK
<1>11. ASSUME NEW r \in Spots, Stock(r) \in found'
       PROVE  /\ archives'[Stock(r)] \in {"short", "whole"}
              /\ Rebuilt => archives'[Stock(r)] = "whole"
              /\ \E j \in Keys \ left' : SpotOf[j] = r
    <2>1. CASE r = s
        <3>1. SpotOf[k] = s /\ k \in Keys \ left'
            BY <1>3, <1>6 DEF s
        <3>2. CASE outcome[2]
            BY <1>5, <1>6, <2>1, <3>1, <3>2
        <3>3. CASE ~outcome[2]
            <4>1. Stock(s) \in found
                BY <1>6, <1>11, <2>1, <3>3
            <4>2. known
                BY <1>3, <4>1 DEF DataInv, FoundOK, known
            <4> QED  BY <1>3, <1>5, <1>6, <2>1, <3>1, <4>1, <4>2 DEF DataInv, FoundOK
        <3> QED  BY <3>2, <3>3
    <2>2. CASE r # s
        <3>1. Stock(r) \in Legs /\ Stock(r) # Stock(s)
            BY <1>3, <2>2, LegFacts
        <3>2. Stock(r) \in found /\ archives'[Stock(r)] = archives[Stock(r)]
            BY <1>5, <1>6, <1>11, <3>1
        <3> QED  BY <1>6, <3>2 DEF DataInv, FoundOK
    <2> QED  BY <2>1, <2>2
<1>12. FoundOK'
    BY <1>1, <1>9, <1>11 DEF DataInv, FoundOK, Rebuilt
<1>13. \A j \in ready' : LegsOf(j) \subseteq found'
    BY <1>2, <1>6
<1>14. ~request.proceed => /\ stage' = "records" => ready' = Keys \ left'
                           /\ stage' = "audit" => ready' = Keys
    <2> SUFFICES ASSUME ~request.proceed, stage' # "ended" PROVE ready' = Keys \ left'
        BY <1>6
    <2>1. ready = Keys \ left /\ ready' = ready \cup {k}
        BY <1>1, <1>6 DEF DataInv, ReadyOK
    <2> QED  BY <1>2, <1>3, <1>6, <2>1
<1>15. ReadyOK' /\ DataIsSound'
    <2>1. \A j \in ready' : LegsOf(j)' = LegsOf(j)
        BY DEF LegsOf, Stock, Future
    <2>2. UNCHANGED request /\ ~request.compact
        BY <1>1, <1>2
    <2> QED  BY <1>6, <1>13, <1>14, <2>1, <2>2 DEF ReadyOK, DataIsSound
<1> QED  BY <1>7, <1>8, <1>10, <1>12, <1>15 DEF DataInv

LEMMA AuditKeepsData == DataInv /\ AuditReady => DataInv'
<1> SUFFICES ASSUME DataInv, AuditReady PROVE DataInv'
    OBVIOUS
<1>1. /\ stage = "audit" /\ stage' \in {"ended", "run"}
      /\ UNCHANGED <<request, archives, splits, found, left, ready, runs>>
    BY DEF AuditReady, files
<1>2. stage' = "run" => \A k \in ready, leg \in Legs : leg \in LegsOf(k) => archives[leg] # "cut"
    BY DEF AuditReady
<1>3. DataTypes' /\ SplitsOK' /\ ArchivesOK' /\ FoundOK'
    BY <1>1 DEF DataInv, DataTypes, SplitsOK, ArchivesOK, FoundOK, Rebuilt, HasCsv
<1>4. ReadyOK'
    BY <1>1 DEF DataInv, ReadyOK
<1>5. DataIsSound'
    <2> SUFFICES ASSUME stage' = "run"
                 PROVE  /\ \A k \in ready : \A leg \in LegsOf(k) :
                               /\ archives[leg] \in {"whole", "short"}
                               /\ request.rebuild \/ runs = 1 => archives[leg] = "whole"
                               /\ archives[leg] = "short" => leg[1] = "stock"
                        /\ ~request.proceed => ready = Keys
        BY <1>1 DEF DataIsSound
    <2>1. ~request.proceed => ready = Keys
        BY <1>1 DEF DataInv, ReadyOK
    <2>2. ASSUME NEW k \in ready, NEW leg \in LegsOf(k)
          PROVE  /\ archives[leg] \in {"whole", "short"}
                 /\ request.rebuild \/ runs = 1 => archives[leg] = "whole"
                 /\ archives[leg] = "short" => leg[1] = "stock"
        <3>1. k \in Keys /\ leg \in found /\ leg \in Legs /\ archives[leg] # "cut"
            BY <1>1, <1>2, LegFacts DEF DataInv, DataTypes, ReadyOK
        <3>2. CASE leg = Stock(SpotOf[k])
            BY <3>1, <3>2, LegFacts DEF DataInv, FoundOK, Rebuilt
        <3>3. CASE leg = Future(FutureOf[k])
            BY <3>1, <3>3, LegFacts DEF DataInv, FoundOK, Rebuilt
        <3> QED  BY <3>1, <3>2, <3>3, LegFacts
    <2> QED  BY <2>1, <2>2
<1> QED  BY <1>3, <1>4, <1>5 DEF DataInv

LEMMA CompactKeepsData == DataInv /\ BuildCompact => DataInv'
<1> SUFFICES ASSUME DataInv, BuildCompact PROVE DataInv'
    OBVIOUS
<1>1. /\ stage = "split" /\ request.compact /\ stage' \in {"ended", "run"} /\ ready' \in {Keys, ready}
      /\ stage' = "run" /\ ~request.proceed => ready' = Keys
      /\ UNCHANGED <<request, archives, splits, found, left, runs>>
    BY DEF BuildCompact, files
<1>2. DataTypes' /\ SplitsOK' /\ ArchivesOK' /\ FoundOK'
    BY <1>1 DEF DataInv, DataTypes, SplitsOK, ArchivesOK, FoundOK, Rebuilt, HasCsv
<1>3. ReadyOK' /\ DataIsSound'
    BY <1>1 DEF ReadyOK, DataIsSound
<1> QED  BY <1>2, <1>3 DEF DataInv

LEMMA RerunKeepsData == DataInv /\ Rerun => DataInv'
<1> SUFFICES ASSUME DataInv, Rerun PROVE DataInv'
    OBVIOUS
<1>1. /\ stage' = "split" /\ request' \in Requests /\ runs' = runs + 1 /\ runs \in Nat \ {0}
      /\ found' = {} /\ left' = Keys /\ ready' = {} /\ UNCHANGED <<archives, splits>>
    BY DEF Rerun, files, DataInv, DataTypes
<1>2. DataTypes'
    BY <1>1 DEF DataInv, DataTypes
<1>3. runs' # 1
    BY <1>1
<1>4. SplitsOK' /\ ArchivesOK' /\ FoundOK' /\ ReadyOK' /\ DataIsSound'
    BY <1>1, <1>3 DEF DataInv, SplitsOK, ArchivesOK, FoundOK, ReadyOK, DataIsSound
<1> QED  BY <1>2, <1>4 DEF DataInv

LEMMA DataInvStep == DataInv /\ DataNext => DataInv'
BY SplitKeepsData, FuturesKeepData, RecordKeepsData, AuditKeepsData, CompactKeepsData, RerunKeepsData
   DEF DataNext

-----------------------------------------------------------------------------
(* Where the date's backtests are                                           *)

PlaceOK ==
    /\ status \in {"waiting", "running", "done", "raised"} /\ ready \subseteq Keys
    /\ status = "waiting" => DataInv /\ shards = <<>> /\ results = {} /\ told = {}
    /\ status # "waiting" => runs = 0 /\ ShardsOK(shards, ready)
    /\ place[1] \in Nat \ {0} /\ place[2] \in Nat /\ place = <<place[1], place[2]>>
    /\ shards = <<>> => place[1] = 1 /\ place[2] = 0
    /\ shards # <<>> => place[1] \in DOMAIN shards /\ place[2] \in 0 .. Len(shards[place[1]])

LEMMA ShardFacts ==
    ASSUME NEW keys, NEW dealt, ShardsOK(dealt, keys)
    PROVE  /\ Len(dealt) \in Nat /\ DOMAIN dealt = 1 .. Len(dealt)
           /\ \A i \in DOMAIN dealt : /\ Len(dealt[i]) \in Nat /\ DOMAIN dealt[i] = 1 .. Len(dealt[i])
                                      /\ \A m \in DOMAIN dealt[i] : dealt[i][m] \subseteq keys
<1>1. dealt \in Seq(Seq(SUBSET keys) \ {<<>>})
    BY DEF ShardsOK
<1>2. Len(dealt) \in Nat /\ DOMAIN dealt = 1 .. Len(dealt)
    BY <1>1
<1>3. ASSUME NEW i \in DOMAIN dealt
      PROVE  /\ Len(dealt[i]) \in Nat /\ DOMAIN dealt[i] = 1 .. Len(dealt[i])
             /\ \A m \in DOMAIN dealt[i] : dealt[i][m] \subseteq keys
    <2>1. dealt[i] \in Seq(SUBSET keys)
        BY <1>1
    <2>2. Len(dealt[i]) \in Nat /\ DOMAIN dealt[i] = 1 .. Len(dealt[i])
        BY <2>1
    <2>3. \A m \in DOMAIN dealt[i] : dealt[i][m] \in SUBSET keys
        BY <2>1
    <2> QED  BY <2>2, <2>3
<1> QED  BY <1>2, <1>3

\* A group being run is one of the shard's.
LEMMA GroupIs ==
    ASSUME PlaceOK, status # "waiting", place[2] > 0
    PROVE  /\ shards # <<>> /\ place[1] \in DOMAIN shards /\ place[2] \in DOMAIN shards[place[1]]
           /\ Group = shards[place[1]][place[2]] /\ Group \subseteq ready /\ Group \subseteq Keys
<1>1. shards # <<>> /\ place[1] \in DOMAIN shards /\ place[2] \in 0 .. Len(shards[place[1]])
    BY DEF PlaceOK
<1>2. ShardsOK(shards, ready)
    BY DEF PlaceOK
<1>3. place[2] \in DOMAIN shards[place[1]]
    BY <1>1, <1>2, ShardFacts
<1>4. Group \subseteq ready
    BY <1>1, <1>2, <1>3, ShardFacts DEF Group
<1> QED  BY <1>1, <1>3, <1>4 DEF Group, PlaceOK

LEMMA PlaceInit == Init => PlaceOK
<1> SUFFICES ASSUME Init PROVE PlaceOK
    OBVIOUS
<1>1. DataInv /\ status = "waiting" /\ shards = <<>> /\ results = {} /\ told = {} /\ place = <<1, 0>>
    BY DataInvInit DEF Init
<1>2. ready \subseteq Keys
    BY <1>1 DEF DataInv, DataTypes
<1> QED  BY <1>1, <1>2 DEF PlaceOK

\* Of the steps that leave where the backtests are.
Stays == UNCHANGED <<chosen, place>> /\ status # "waiting" /\ status' \in {"running", "done", "raised"}

LEMMA StaysThere ==
    /\ PlaceOK /\ (Open \/ ResolveNext \/ AdvanceIt \/ CloseNext \/ RunSingle \/ WorkerDies) => Stays
    /\ PlaceOK /\ Stays => PlaceOK'
<1>1. ASSUME PlaceOK, Open \/ ResolveNext \/ AdvanceIt \/ CloseNext \/ RunSingle \/ WorkerDies PROVE Stays
    <2>1. CASE Open
        BY <2>1 DEF Open, Raise, Running, Stays
    <2>2. CASE ResolveNext
        BY <2>2 DEF ResolveNext, Raise, Running, Stays
    <2>3. CASE AdvanceIt
        BY <2>3 DEF AdvanceIt, Raise, Running, Stays
    <2>4. CASE CloseNext
        BY <2>4 DEF CloseNext, Raise, Running, Stays
    <2>5. CASE RunSingle
        BY <2>5 DEF RunSingle, Raise, Running, Stays
    <2>6. CASE WorkerDies
        BY <2>6 DEF WorkerDies, Running, Stays
    <2> QED  BY <1>1, <2>1, <2>2, <2>3, <2>4, <2>5, <2>6
<1>2. ASSUME PlaceOK, Stays PROVE PlaceOK'
    <2>1. UNCHANGED <<runs, ready, shards, place>>
        BY <1>2 DEF Stays, chosen, data
    <2>2. ShardsOK(shards, ready)'
        BY <1>2, <2>1 DEF PlaceOK, Stays, ShardsOK
    <2> QED  BY <1>2, <2>1, <2>2 DEF PlaceOK, Stays
<1> QED  BY <1>1, <1>2

LEMMA PlaceStep == PlaceOK /\ [Next]_vars => PlaceOK'
<1> SUFFICES ASSUME PlaceOK, [Next]_vars PROVE PlaceOK'
    OBVIOUS
<1>1. CASE UNCHANGED vars
    <2>1. UNCHANGED <<status, ready, runs, shards, place, results, told>> /\ (DataInv => DataInv')
        BY <1>1 DEF vars, chosen, data, DataInv, DataTypes, SplitsOK, ArchivesOK, FoundOK, ReadyOK, DataIsSound,
            Rebuilt, HasCsv, LegsOf, Stock, Future
    <2> QED  BY <2>1 DEF PlaceOK, ShardsOK
<1>2. CASE Prepare
    <2>1. status = "waiting" /\ DataNext /\ UNCHANGED <<shards, place, results, told, status>>
        BY <1>2 DEF Prepare
    <2>2. DataInv'
        BY <2>1, DataInvStep DEF PlaceOK
    <2>3. ready' \subseteq Keys
        BY <2>2 DEF DataInv, DataTypes
    <2> QED  BY <2>1, <2>2, <2>3 DEF PlaceOK
<1>3. CASE Begin
    <2>1. /\ status = "waiting" /\ status' = "running" /\ options' \in Options
          /\ shards' = Shards(ready, options'.workers)
          /\ UNCHANGED <<ready, place, results, told>> /\ runs' = 0
        BY <1>3 DEF Begin, Forget
    <2>2. ready \subseteq Keys /\ place[1] = 1 /\ place[2] = 0 /\ place = <<place[1], place[2]>>
        BY <2>1 DEF PlaceOK
    <2>3. options'.workers \in Int
        BY <2>1, OptionsAssumption
    <2>4. ShardsOK(shards', ready)
        BY <2>1, <2>2, <2>3, ShardsAreOK
    <2>5. shards' # <<>> => 1 \in DOMAIN shards' /\ 0 \in 0 .. Len(shards'[1])
        <3>1. Len(shards') \in Nat /\ DOMAIN shards' = 1 .. Len(shards')
              /\ \A i \in DOMAIN shards' : Len(shards'[i]) \in Nat
            BY <2>4, ShardFacts
        <3>2. shards' # <<>> => 1 \in DOMAIN shards'
            <4>1. shards' \in Seq(Seq(SUBSET ready) \ {<<>>})
                BY <2>4 DEF ShardsOK
            <4> QED  BY <4>1
        <3> QED  BY <3>1, <3>2
    <2> QED  BY <2>1, <2>2, <2>4, <2>5 DEF PlaceOK, ShardsOK
<1>4. CASE NextGroup
    <2>1. /\ status = "running" /\ UNCHANGED <<ready, runs, shards>>
          /\ place[1] \in Nat \ {0} /\ place[2] \in Nat /\ place = <<place[1], place[2]>>
        BY <1>4 DEF NextGroup, Idle, chosen, data, PlaceOK
    <2>2. ShardsOK(shards, ready) /\ ShardsOK(shards, ready)'
        BY <2>1 DEF PlaceOK, ShardsOK
    <2>3. CASE shards = <<>>
        BY <1>4, <2>1, <2>2, <2>3 DEF NextGroup, PlaceOK
    <2>4. CASE shards # <<>> /\ place[2] < Len(shards[place[1]])
        <3>1. place' = [place EXCEPT ![2] = @ + 1] /\ status' = status
            BY <1>4, <2>4 DEF NextGroup
        <3>2. place'[1] = place[1] /\ place'[2] = place[2] + 1 /\ place' = <<place[1], place[2] + 1>>
            BY <2>1, <3>1
        <3>3. place[1] \in DOMAIN shards /\ Len(shards[place[1]]) \in Nat
            BY <2>2, <2>4, ShardFacts DEF PlaceOK
        <3>4. place[2] + 1 \in 0 .. Len(shards[place[1]])
            BY <2>1, <2>4, <3>3
        <3> QED  BY <2>1, <2>2, <2>4, <3>1, <3>2, <3>3, <3>4 DEF PlaceOK
    <2>5. CASE shards # <<>> /\ ~(place[2] < Len(shards[place[1]]))
        <3>1. /\ place' = IF place[1] < Len(shards) THEN <<place[1] + 1, 0>> ELSE place
              /\ status' = IF place[1] < Len(shards) THEN "running" ELSE "done"
            BY <1>4, <2>5 DEF NextGroup
        <3>2. CASE place[1] < Len(shards)
            <4>1. place' = <<place[1] + 1, 0>> /\ place'[1] = place[1] + 1 /\ place'[2] = 0
                BY <3>1, <3>2
            <4>2. place[1] + 1 \in DOMAIN shards /\ Len(shards[place[1] + 1]) \in Nat
                BY <2>1, <2>2, <3>2, ShardFacts
            <4>3. 0 \in 0 .. Len(shards[place[1] + 1]) /\ place[1] + 1 \in Nat \ {0}
                BY <2>1, <4>2
            <4> QED  BY <2>1, <2>2, <2>5, <3>1, <3>2, <4>1, <4>2, <4>3 DEF PlaceOK
        <3>3. CASE ~(place[1] < Len(shards))
            BY <2>1, <2>2, <2>5, <3>1, <3>3 DEF PlaceOK
        <3> QED  BY <3>2, <3>3
    <2> QED  BY <2>3, <2>4, <2>5
<1>5. CASE Open \/ ResolveNext \/ AdvanceIt \/ CloseNext \/ RunSingle \/ WorkerDies
    BY <1>5, StaysThere
<1>6. CASE Done
    BY <1>1, <1>6 DEF Done
<1> QED  BY <1>1, <1>2, <1>3, <1>4, <1>5, <1>6 DEF Next

-----------------------------------------------------------------------------
(* What a session may become (PairSession's operators)                      *)

Events == [ts : Int, signal : Sides \cup {"NONE", "HOLD", "EXIT"}, go : BOOLEAN]
Sessions ==
    [phase : {"open", "over"}, steps : Nat, busy : Nat, event : Events, pairs : Int, naked : Int,
     entered : Int, filled : BOOLEAN]

\* A session whose fields are replaced one by one is one.
LEMMA SessionWith ==
    ASSUME NEW s \in Sessions
    PROVE  /\ \A e \in Events : [s EXCEPT !.event = e] \in Sessions
           /\ \A n \in Nat : [s EXCEPT !.steps = n] \in Sessions /\ [s EXCEPT !.busy = n] \in Sessions
           /\ \A n \in Int : /\ [s EXCEPT !.pairs = n] \in Sessions /\ [s EXCEPT !.naked = n] \in Sessions
                             /\ [s EXCEPT !.entered = n] \in Sessions
           /\ \A f \in BOOLEAN : [s EXCEPT !.filled = f] \in Sessions
           /\ [s EXCEPT !.phase = "over"] \in Sessions
BY DEF Sessions

LEMMA FreshSession == S!Fresh \in Sessions /\ S!Fresh.busy = 0
BY DEF S!Fresh, S!NoEvent, S!Never, Sessions, Events

LEMMA SignIsInt ==
    ASSUME NEW signal, NEW p \in Int
    PROVE  S!Sign(signal, S!Sgn(p)) \in Int /\ S!Sgn(p) \in Int
BY DEF S!Sign, S!Sgn

\* It is over, or is at its next event, not before it was busy till.
LEMMA AdvancedFacts ==
    ASSUME NEW s \in Sessions, NEW t \in S!Advanced(s)
    PROVE  /\ t \in Sessions
           /\ t.phase # "over" => t.event.ts = t.busy /\ t.busy \in Times /\ t.busy >= s.busy
<1>1. CASE t = S!Over(s)
    <2>1. t = [s EXCEPT !.phase = "over"]
        BY <1>1 DEF S!Over
    <2>2. t \in Sessions
        BY <2>1, SessionWith
    <2>3. t.phase = "over"
        BY <2>1 DEF Sessions
    <2> QED  BY <2>2, <2>3
<1>2. CASE t # S!Over(s)
    <2>1. PICK e \in [ts : S!From(s.busy), signal : S!Signals(S!Sgn(s.pairs)), go : BOOLEAN] : t = S!Handed(s, e)
        BY <1>2 DEF S!Advanced
    <2>2. e.ts \in Times /\ e.ts >= s.busy /\ e.ts \in Nat /\ e.go \in BOOLEAN
          /\ e.signal \in Sides \cup {"NONE", "HOLD", "EXIT"}
        BY ClockAssumption DEF S!From, S!Signals
    <2>6. e \in Events
        <3>1. e \in [ts : S!From(s.busy), signal : S!Signals(S!Sgn(s.pairs)), go : BOOLEAN]
            OBVIOUS
        <3>2. e = [ts |-> e.ts, signal |-> e.signal, go |-> e.go]
            BY <3>1
        <3>3. [ts |-> e.ts, signal |-> e.signal, go |-> e.go] \in Events
            BY <2>2 DEF Events
        <3> QED  BY <3>2, <3>3
    <2>3. t = [s EXCEPT !.steps = @ + 1, !.event = e, !.busy = e.ts]
        BY <2>1 DEF S!Handed
    <2>4. t.event = e /\ t.busy = e.ts
        BY <2>3 DEF Sessions
    <2>5. t \in Sessions
        <3>1. s.steps + 1 \in Nat
            BY DEF Sessions
        <3>2. [s EXCEPT !.steps = s.steps + 1] \in Sessions
            BY <3>1, SessionWith
        <3>3. [[s EXCEPT !.steps = s.steps + 1] EXCEPT !.event = e] \in Sessions
            BY <2>6, <3>2, SessionWith
        <3>4. [[[s EXCEPT !.steps = s.steps + 1] EXCEPT !.event = e] EXCEPT !.busy = e.ts] \in Sessions
            BY <2>2, <3>3, SessionWith
        <3>5. t = [[[s EXCEPT !.steps = s.steps + 1] EXCEPT !.event = e] EXCEPT !.busy = e.ts]
            BY <2>3
        <3> QED  BY <3>4, <3>5
    <2> QED  BY <2>2, <2>4, <2>5
<1> QED  BY <1>1, <1>2

\* It is busy at least till its event; a filled entry is one that was let go.
LEMMA ResolvedFacts ==
    ASSUME NEW s \in Sessions, NEW blocked \in BOOLEAN, NEW t \in S!Resolved(s, blocked), s.busy = s.event.ts
    PROVE  /\ t \in Sessions /\ t.busy >= s.event.ts
           /\ t.filled => s.event.go /\ ~blocked /\ s.event.signal \in Sides /\ t.entered = s.event.ts
<1> DEFINE e == s.event
           d == S!Sign(e.signal, S!Sgn(s.pairs))
           dropped == S!Dropped(s)
<1>1. d \in Int /\ e.ts \in Int /\ s.busy \in Nat /\ e.go \in BOOLEAN /\ s.naked + d \in Int /\ s.pairs + d \in Int
      /\ s.entered \in Int /\ e \in Events
    BY SignIsInt DEF Sessions, Events
<1>2. dropped = [[s EXCEPT !.event = S!NoEvent] EXCEPT !.filled = FALSE]
    BY DEF S!Dropped
<1>3. dropped \in Sessions
    <2>1. S!NoEvent \in Events
        BY DEF S!NoEvent, S!Never, Events
    <2>2. [s EXCEPT !.event = S!NoEvent] \in Sessions
        BY <2>1, SessionWith
    <2> QED  BY <1>2, <2>2, SessionWith
<1>4. /\ dropped.busy = s.busy /\ dropped.filled = FALSE /\ dropped.naked = s.naked /\ dropped.pairs = s.pairs
      /\ dropped.entered = s.entered
    BY <1>2 DEF Sessions
<1>5. CASE ~e.go \/ blocked
    <2>1. t = dropped
        BY <1>5 DEF S!Resolved
    <2> HIDE DEF dropped
    <2> QED  BY <1>1, <1>3, <1>4, <2>1
<1>6. CASE e.go /\ ~blocked
    <2>1. PICK u \in S!From(e.ts) :
              t \in {S!Undone(s, u), S!LeftNaked(s, u, d), S!Traded(s, u, d, e.signal \in Sides)}
        BY <1>6 DEF S!Resolved
    <2>2. u \in Nat /\ u >= e.ts
        BY ClockAssumption DEF S!From
    <2> DEFINE entry == e.signal \in Sides
    <2>3. entry \in BOOLEAN /\ t \in {S!Undone(s, u), S!LeftNaked(s, u, d), S!Traded(s, u, d, entry)}
        BY <2>1
    <2>4. (e.signal \in Sides) = entry
        OBVIOUS
    <2>5. /\ S!Undone(s, u) = [dropped EXCEPT !.busy = u]
          /\ S!LeftNaked(s, u, d) = [[dropped EXCEPT !.busy = u] EXCEPT !.naked = dropped.naked + d]
          /\ S!Traded(s, u, d, entry) = [[[[dropped EXCEPT !.busy = u] EXCEPT !.pairs = dropped.pairs + d]
                                         EXCEPT !.filled = entry]
                                         EXCEPT !.entered = IF entry THEN s.event.ts ELSE dropped.entered]
        BY <1>3 DEF S!Undone, S!LeftNaked, S!Traded, Sessions
    <2> HIDE DEF d, dropped, entry
    <2>6. [dropped EXCEPT !.busy = u] \in Sessions
        BY <1>3, <2>2, SessionWith
    <2>7. CASE t = S!Undone(s, u)
        <3>1. t.busy = u /\ t.filled = FALSE
            BY <1>3, <1>4, <2>5, <2>7 DEF Sessions
        <3> QED  BY <2>2, <2>5, <2>6, <2>7, <3>1
    <2>8. CASE t = S!LeftNaked(s, u, d)
        <3>1. t.busy = u /\ t.filled = FALSE
            BY <1>3, <1>4, <2>5, <2>8 DEF Sessions
        <3>2. t \in Sessions
            <4> DEFINE n == dropped.naked + d
                       late == [dropped EXCEPT !.busy = u]
            <4>1. n \in Int /\ late \in Sessions /\ t = [late EXCEPT !.naked = n]
                BY <1>1, <1>4, <2>5, <2>6, <2>8
            <4> HIDE DEF n, late
            <4> QED  BY <4>1, SessionWith
        <3> QED  BY <2>2, <3>1, <3>2
    <2>9. CASE t = S!Traded(s, u, d, entry)
        <3> DEFINE at == IF entry THEN s.event.ts ELSE dropped.entered
                   moved == [[dropped EXCEPT !.busy = u] EXCEPT !.pairs = dropped.pairs + d]
        <3>1. at \in Int
            BY <1>1, <1>4
        <3>2. moved \in Sessions
            BY <1>1, <1>4, <2>6, SessionWith
        <3>3. moved.busy = u
            BY <1>3 DEF Sessions
        <3>4. t = [[moved EXCEPT !.filled = entry] EXCEPT !.entered = at]
            BY <2>5, <2>9
        <3>5. entry => at = s.event.ts
            OBVIOUS
        <3> HIDE DEF at, moved
        <3>6. [moved EXCEPT !.filled = entry] \in Sessions
            BY <2>3, <3>2, SessionWith
        <3>7. t \in Sessions
            BY <3>1, <3>4, <3>6, SessionWith
        <3>8. t.busy = u /\ t.filled = entry /\ t.entered = at
            BY <3>2, <3>3, <3>4 DEF Sessions
        <3> QED  BY <1>6, <2>2, <2>4, <3>5, <3>7, <3>8
    <2> QED  BY <2>3, <2>7, <2>8, <2>9
<1> QED  BY <1>1, <1>5, <1>6

-----------------------------------------------------------------------------
(* Who holds what of a group                                                *)

HeldOK ==
    /\ todo \subseteq Keys /\ opened \subseteq Keys /\ todo \cap opened = {}
    /\ place[2] = 0 => todo = {} /\ opened = {}
    /\ place[2] > 0 /\ status = "running" => todo \cup opened \subseteq Group /\ (~Shared => opened = {})
    /\ status # "running" => todo = {} /\ opened = {}
    /\ sessions \in [DOMAIN sessions -> Sessions] /\ opened \subseteq DOMAIN sessions
    /\ current = None \/ current \in opened
    /\ \A x \in heap : /\ x[1] \in Times /\ x[2] \in opened /\ x = <<x[1], x[2]>> /\ x[2] # current
                       /\ sessions[x[2]].event.ts = x[1] /\ sessions[x[2]].busy = x[1]

\* A group that raised holds nothing.
Fails ==
    /\ opened' = {} /\ todo' = {} /\ heap' = {} /\ current' = None /\ status' \in {"running", "raised"}
    /\ results' = results \cup Outcomes(Group, "error")
    /\ UNCHANGED <<chosen, place, sessions, lastEntry, entries, told>>

LEMMA SameGroup ==
    ASSUME UNCHANGED <<chosen, place>>
    PROVE  Group' = Group /\ (Shared' <=> Shared)
BY DEF chosen, Group, Shared

LEMMA FailsHeld == HeldOK /\ Fails => HeldOK'
<1> SUFFICES ASSUME HeldOK, Fails PROVE HeldOK'
    OBVIOUS
<1>1. opened' = {} /\ todo' = {} /\ heap' = {} /\ current' = None /\ UNCHANGED <<place, sessions>>
    BY DEF Fails
<1> QED  BY <1>1 DEF HeldOK

LEMMA HeldInit == Init => HeldOK
BY DEF Init, Fresh, HeldOK

\* A session that advanced, its event pushed.
LEMMA PushedHeap ==
    ASSUME HeldOK, NEW k \in Keys, NEW s \in Sessions, NEW t \in S!Advanced(s), Pushes(k, t),
           k \notin {x[2] : x \in heap}
    PROVE  /\ sessions' \in [DOMAIN sessions' -> Sessions] /\ DOMAIN sessions' = DOMAIN sessions \cup {k}
           /\ sessions'[k] = t /\ \A j \in DOMAIN sessions : j # k => sessions'[j] = sessions[j]
           /\ \A x \in heap' : \/ x \in heap /\ x[2] # k /\ sessions'[x[2]] = sessions[x[2]]
                               \/ /\ x = <<x[1], x[2]>> /\ x[2] = k /\ x[1] = t.event.ts /\ x[1] \in Times
                                  /\ x[1] = t.busy /\ x[1] >= s.busy
<1>1. sessions' = [j \in DOMAIN sessions \cup {k} |-> IF j = k THEN t ELSE sessions[j]]
    BY DEF Pushes
<1>2. t \in Sessions /\ (t.phase # "over" => t.event.ts = t.busy /\ t.busy \in Times /\ t.busy >= s.busy)
    BY AdvancedFacts
<1>3. sessions \in [DOMAIN sessions -> Sessions]
    BY DEF HeldOK
<1>4. \A x \in heap : x[2] # k /\ x[2] \in DOMAIN sessions
    BY DEF HeldOK
<1>5. \A x \in heap' : x \in heap \/ (t.phase # "over" /\ x = <<t.event.ts, k>>)
    BY DEF Pushes
<1> QED  BY <1>1, <1>2, <1>3, <1>4, <1>5

LEMMA OpenHeld == PlaceOK /\ HeldOK /\ Open => HeldOK'
<1> SUFFICES ASSUME PlaceOK, HeldOK, Open PROVE HeldOK'
    OBVIOUS
<1> DEFINE k == Min(todo)
<1>1. /\ todo # {} /\ Shared /\ status = "running" /\ place[2] > 0
      /\ UNCHANGED <<chosen, place, lastEntry, entries, told>>
    BY DEF Open, Running
<1>2. k \in todo /\ k \in Keys /\ k \notin opened
    BY <1>1, LeastKey DEF HeldOK
<1>3. CASE Fails
    BY <1>3, FailsHeld
<1>4. ASSUME NEW t \in S!Advanced(S!Fresh), Pushes(k, t), opened' = opened \cup {k}, todo' = todo \ {k},
             UNCHANGED <<current, results, status>>
      PROVE  HeldOK'
    <2>1. k \notin {x[2] : x \in heap} /\ k # current
        BY <1>2, KeysAreNaturals DEF HeldOK
    <2> HIDE DEF k
    <2>2. /\ sessions' \in [DOMAIN sessions' -> Sessions] /\ DOMAIN sessions' = DOMAIN sessions \cup {k}
          /\ sessions'[k] = t
          /\ \A x \in heap' : \/ x \in heap /\ x[2] # k /\ sessions'[x[2]] = sessions[x[2]]
                              \/ /\ x = <<x[1], x[2]>> /\ x[2] = k /\ x[1] = t.event.ts /\ x[1] \in Times
                                 /\ x[1] = t.busy
        BY <1>2, <1>4, <2>1, FreshSession, PushedHeap
    <2>3. Group' = Group /\ (Shared' <=> Shared)
        BY <1>1, SameGroup
    <2>4. /\ todo' \subseteq Keys /\ opened' \subseteq Keys /\ todo' \cap opened' = {}
          /\ opened' \subseteq DOMAIN sessions' /\ todo' \cup opened' \subseteq Group
        BY <1>1, <1>2, <1>4, <2>2 DEF HeldOK
    <2>5. \A x \in heap' : /\ x[1] \in Times /\ x[2] \in opened' /\ x = <<x[1], x[2]>> /\ x[2] # current
                           /\ sessions'[x[2]].event.ts = x[1] /\ sessions'[x[2]].busy = x[1]
        BY <1>4, <2>1, <2>2 DEF HeldOK
    <2>6. current' = None \/ current' \in opened'
        BY <1>4 DEF HeldOK
    <2> QED  BY <1>1, <1>4, <2>2, <2>3, <2>4, <2>5, <2>6 DEF HeldOK
<1>5. Fails \/ \E t \in S!Advanced(S!Fresh) : /\ Pushes(k, t) /\ opened' = opened \cup {k} /\ todo' = todo \ {k}
                                              /\ UNCHANGED <<current, results, status>>
    BY DEF Open, Advances, Raise, Fails
<1> QED  BY <1>3, <1>4, <1>5

LEMMA AdvanceHeld == PlaceOK /\ HeldOK /\ AdvanceIt => HeldOK'
<1> SUFFICES ASSUME PlaceOK, HeldOK, AdvanceIt PROVE HeldOK'
    OBVIOUS
<1>1. /\ current # None /\ status = "running" /\ place[2] > 0
      /\ UNCHANGED <<chosen, place, lastEntry, entries, told>>
    BY DEF AdvanceIt, Running
<1>2. current \in opened /\ current \in Keys /\ sessions[current] \in Sessions /\ current \in DOMAIN sessions
    BY <1>1 DEF HeldOK
<1>3. CASE Fails
    BY <1>3, FailsHeld
<1>4. ASSUME NEW t \in S!Advanced(sessions[current]), Pushes(current, t), current' = None,
             UNCHANGED <<todo, opened, engines, results, status>>
      PROVE  HeldOK'
    <2>1. current \notin {x[2] : x \in heap}
        BY DEF HeldOK
    <2>2. /\ sessions' \in [DOMAIN sessions' -> Sessions] /\ DOMAIN sessions' = DOMAIN sessions \cup {current}
          /\ sessions'[current] = t
          /\ \A x \in heap' : \/ x \in heap /\ x[2] # current /\ sessions'[x[2]] = sessions[x[2]]
                              \/ /\ x = <<x[1], x[2]>> /\ x[2] = current /\ x[1] = t.event.ts /\ x[1] \in Times
                                 /\ x[1] = t.busy
        <3> DEFINE r == sessions[current]
                   k == current
        <3>1. r \in Sessions /\ t \in S!Advanced(r) /\ k \in Keys /\ Pushes(k, t) /\ k \notin {x[2] : x \in heap}
            BY <1>2, <1>4, <2>1
        <3>2. k = current
            OBVIOUS
        <3> HIDE DEF r, k
        <3>3. /\ sessions' \in [DOMAIN sessions' -> Sessions] /\ DOMAIN sessions' = DOMAIN sessions \cup {k}
              /\ sessions'[k] = t
              /\ \A x \in heap' : \/ x \in heap /\ x[2] # k /\ sessions'[x[2]] = sessions[x[2]]
                                  \/ /\ x = <<x[1], x[2]>> /\ x[2] = k /\ x[1] = t.event.ts /\ x[1] \in Times
                                     /\ x[1] = t.busy
            BY <3>1, PushedHeap
        <3> QED  BY <3>2, <3>3
    <2>3. Group' = Group /\ (Shared' <=> Shared)
        BY <1>1, SameGroup
    <2>4. \A x \in heap' : /\ x[1] \in Times /\ x[2] \in opened /\ x = <<x[1], x[2]>> /\ x[2] # None
                           /\ sessions'[x[2]].event.ts = x[1] /\ sessions'[x[2]].busy = x[1]
        BY <1>2, <2>2, KeysAreNaturals DEF HeldOK
    <2> QED  BY <1>1, <1>4, <2>2, <2>3, <2>4 DEF HeldOK
<1>5. Fails \/ \E t \in S!Advanced(sessions[current]) :
                  /\ Pushes(current, t) /\ current' = None /\ UNCHANGED <<todo, opened, engines, results, status>>
    BY DEF AdvanceIt, Advances, Raise, Fails
<1> QED  BY <1>3, <1>4, <1>5

\* The session resolved is the one of the event popped, at its time.
LEMMA ResolveCases ==
    ASSUME HeldOK, ResolveNext
    PROVE  /\ Running /\ todo = {} /\ current = None /\ UNCHANGED <<chosen, place, told>>
           /\ \/ Fails
              \/ \E x \in heap : \E s \in S!Resolved(sessions[x[2]], Cooling(x[2], sessions[x[2]].event)) :
                    /\ Earliest(x) /\ heap' = heap \ {x} /\ sessions' = [sessions EXCEPT ![x[2]] = s]
                    /\ lastEntry' = IF s.filled THEN Latest(s.entered) ELSE lastEntry
                    /\ entries' = IF s.filled THEN Append(entries, s.entered) ELSE entries
                    /\ current' = x[2] /\ UNCHANGED <<todo, opened, engines, results, status>>
BY DEF ResolveNext, Raise, Fails

LEMMA ResolveHeld == PlaceOK /\ HeldOK /\ ResolveNext => HeldOK'
<1> SUFFICES ASSUME PlaceOK, HeldOK, ResolveNext PROVE HeldOK'
    OBVIOUS
<1>1. /\ status = "running" /\ place[2] > 0 /\ UNCHANGED <<chosen, place>>
    BY DEF ResolveNext, Running
<1>2. CASE Fails
    BY <1>2, FailsHeld
<1>3. ASSUME NEW x \in heap, NEW s \in S!Resolved(sessions[x[2]], Cooling(x[2], sessions[x[2]].event)),
             heap' = heap \ {x}, sessions' = [sessions EXCEPT ![x[2]] = s], current' = x[2],
             UNCHANGED <<todo, opened, engines, results, status>>
      PROVE  HeldOK'
    <2>1. /\ x[2] \in opened /\ x[2] \in DOMAIN sessions /\ sessions[x[2]] \in Sessions
          /\ sessions[x[2]].busy = sessions[x[2]].event.ts /\ sessions[x[2]].event.ts = x[1] /\ x = <<x[1], x[2]>>
        BY DEF HeldOK
    <2>2. Cooling(x[2], sessions[x[2]].event) \in BOOLEAN
        BY DEF Cooling
    <2>3. s \in Sessions
        BY <2>1, <2>2, ResolvedFacts
    <2>4. \A y \in heap' : y \in heap /\ y[2] # x[2] /\ sessions'[y[2]] = sessions[y[2]]
        <3> TAKE y \in heap'
        <3>1. y \in heap /\ y # x /\ y = <<y[1], y[2]>> /\ sessions[y[2]].event.ts = y[1] /\ y[2] \in DOMAIN sessions
            BY <1>3 DEF HeldOK
        <3>2. y[2] # x[2]
            BY <2>1, <3>1
        <3> QED  BY <1>3, <3>1, <3>2
    <2>5. sessions' \in [DOMAIN sessions' -> Sessions] /\ DOMAIN sessions' = DOMAIN sessions
        BY <1>3, <2>1, <2>3 DEF HeldOK
    <2>6. Group' = Group /\ (Shared' <=> Shared)
        BY <1>1, SameGroup
    <2> QED  BY <1>1, <1>3, <2>1, <2>4, <2>5, <2>6 DEF HeldOK
<1> QED  BY <1>2, <1>3, ResolveCases

LEMMA HeldStep == PlaceOK /\ HeldOK /\ [Next]_vars => HeldOK'
<1> SUFFICES ASSUME PlaceOK, HeldOK, [Next]_vars PROVE HeldOK'
    OBVIOUS
<1>1. CASE UNCHANGED vars
    BY <1>1 DEF vars, chosen, replay, HeldOK, Group, Shared
<1>2. CASE Prepare
    BY <1>2 DEF Prepare, replay, HeldOK
<1>3. CASE Begin
    BY <1>3 DEF Begin, replay, HeldOK, PlaceOK
<1>4. CASE NextGroup
    <2>1. /\ status = "running" /\ todo = {} /\ opened = {} /\ heap = {} /\ current = None
          /\ sessions' = <<>> /\ UNCHANGED <<heap, current, opened, shards>>
        BY <1>4 DEF NextGroup, Idle, chosen
    <2>2. sessions' \in [DOMAIN sessions' -> Sessions]
        BY <2>1
    <2>3. CASE shards # <<>> /\ place[2] < Len(shards[place[1]])
        <3>1. place' = [place EXCEPT ![2] = @ + 1] /\ todo' = shards[place[1]][place[2] + 1] /\ status' = status
            BY <1>4, <2>3 DEF NextGroup
        <3>2. place'[1] = place[1] /\ place'[2] = place[2] + 1 /\ place'[2] > 0
            BY <3>1 DEF PlaceOK
        <3>3. todo' = Group'
            BY <2>1, <3>1, <3>2 DEF Group
        <3>4. Group' \subseteq Keys
            <4>1. /\ shards # <<>> /\ place[1] \in DOMAIN shards /\ place[2] \in Nat /\ ready \subseteq Keys
                  /\ ShardsOK(shards, ready)
                BY <2>1, <2>3 DEF PlaceOK
            <4>2. place[2] + 1 \in DOMAIN shards[place[1]]
                BY <2>3, <4>1, ShardFacts
            <4> QED  BY <2>1, <3>1, <3>2, <4>1, <4>2, ShardFacts DEF Group
        <3> QED  BY <2>1, <2>2, <3>1, <3>2, <3>3, <3>4 DEF HeldOK
    <2>4. CASE ~(shards # <<>> /\ place[2] < Len(shards[place[1]]))
        <3>1. todo' = {}
            BY <1>4, <2>1, <2>4 DEF NextGroup
        <3> QED  BY <2>1, <2>2, <3>1 DEF HeldOK
    <2> QED  BY <2>3, <2>4
<1>5. CASE Open
    BY <1>5, OpenHeld
<1>6. CASE ResolveNext
    BY <1>6, ResolveHeld
<1>7. CASE AdvanceIt
    BY <1>7, AdvanceHeld
<1>8. CASE CloseNext
    <2>1. /\ todo = {} /\ heap = {} /\ current = None /\ opened # {} /\ status = "running" /\ place[2] > 0
          /\ UNCHANGED <<chosen, place, sessions>>
        BY <1>8 DEF CloseNext, Running
    <2>2. Fails \/ (opened' = opened \ {Min(opened)} /\ UNCHANGED <<todo, heap, current, status>>)
        BY <1>8 DEF CloseNext, Raise, Fails
    <2>3. Group' = Group /\ (Shared' <=> Shared)
        BY <2>1, SameGroup
    <2> QED  BY <2>1, <2>2, <2>3, FailsHeld DEF HeldOK
<1>9. CASE RunSingle
    <2>1. /\ todo # {} /\ status = "running" /\ place[2] > 0 /\ UNCHANGED <<chosen, place, sessions>>
        BY <1>9 DEF RunSingle, Running
    <2>2. Fails \/ (todo' = todo \ {Min(todo)} /\ UNCHANGED <<heap, current, opened, status>>)
        BY <1>9 DEF RunSingle, Raise, Fails
    <2>3. Group' = Group /\ (Shared' <=> Shared)
        BY <2>1, SameGroup
    <2> QED  BY <2>1, <2>2, <2>3, FailsHeld DEF HeldOK
<1>10. CASE WorkerDies
    BY <1>10 DEF WorkerDies, HeldOK
<1>11. CASE Done
    BY <1>1, <1>11 DEF Done
<1> QED  BY <1>1, <1>2, <1>3, <1>4, <1>5, <1>6, <1>7, <1>8, <1>9, <1>10, <1>11 DEF Next

-----------------------------------------------------------------------------
(* The clock that the sessions of a group share                             *)

ClockOK ==
    /\ entries \in Seq(Nat)
    /\ entries = <<>> => lastEntry = S!Never
    /\ entries # <<>> => lastEntry = entries[Len(entries)]
    /\ \A i \in DOMAIN entries : entries[i] <= lastEntry
    /\ \A i, j \in DOMAIN entries : i < j => entries[j] - entries[i] >= Interval
    /\ todo # {} => entries = <<>>
    /\ \A x \in heap : x[1] >= lastEntry
    /\ current # None => sessions[current].busy >= lastEntry

LEMMA ClockInit == Init => ClockOK
<1> SUFFICES ASSUME Init PROVE ClockOK
    OBVIOUS
<1>1. entries = <<>> /\ lastEntry = S!Never /\ todo = {} /\ heap = {} /\ current = None
    BY DEF Init, Fresh
<1> QED  BY <1>1 DEF ClockOK

LEMMA LastEntryIs ==
    ASSUME ClockOK
    PROVE  lastEntry \in Int /\ lastEntry >= -1 /\ (lastEntry = -1 => entries = <<>>)
<1>1. CASE entries = <<>>
    BY <1>1 DEF ClockOK, S!Never
<1>2. CASE entries # <<>>
    <2>1. Len(entries) \in Nat /\ Len(entries) \in DOMAIN entries /\ entries[Len(entries)] \in Nat
        BY <1>2 DEF ClockOK
    <2> QED  BY <1>2, <2>1 DEF ClockOK
<1> QED  BY <1>1, <1>2

\* Steps in which no clock runs.
ClockStands ==
    /\ UNCHANGED <<lastEntry, entries>> /\ todo' \subseteq todo
    /\ \/ heap' = {} /\ current' = None
       \/ UNCHANGED <<heap, current, sessions>>

LEMMA ClockStaysPut == ClockOK /\ ClockStands => ClockOK'
BY DEF ClockOK, ClockStands

\* What an entry at t, not before the last one, makes of the history.
LEMMA EntryKeepsApart ==
    ASSUME ClockOK, NEW t \in Nat, t >= lastEntry, lastEntry = -1 \/ t - lastEntry >= Interval
    PROVE  /\ Append(entries, t) \in Seq(Nat) /\ Append(entries, t) # <<>>
           /\ t = Append(entries, t)[Len(Append(entries, t))]
           /\ \A i \in DOMAIN Append(entries, t) : Append(entries, t)[i] <= t
           /\ \A i, j \in DOMAIN Append(entries, t) :
                  i < j => Append(entries, t)[j] - Append(entries, t)[i] >= Interval
<1> DEFINE n == Len(entries)
           more == Append(entries, t)
<1>1. n \in Nat /\ DOMAIN entries = 1 .. n /\ \A i \in 1 .. n : entries[i] \in Nat
    BY DEF ClockOK
<1>2. /\ more \in Seq(Nat) /\ Len(more) = n + 1 /\ DOMAIN more = 1 .. n + 1 /\ more # <<>>
      /\ more[n + 1] = t /\ \A i \in 1 .. n : more[i] = entries[i]
    BY AppendFacts DEF ClockOK
<1>3. lastEntry \in Int /\ (lastEntry = -1 => n = 0) /\ Interval \in Nat
    BY <1>1, LastEntryIs, ClockAssumption
<1>4. \A i \in 1 .. n : entries[i] <= lastEntry
    BY <1>1 DEF ClockOK
<1>5. \A i, j \in 1 .. n : i < j => entries[j] - entries[i] >= Interval
    BY <1>1 DEF ClockOK
<1> HIDE DEF n, more
<1>6. \A i \in DOMAIN more : more[i] <= t
    <2> TAKE i \in DOMAIN more
    <2>1. CASE i = n + 1
        BY <1>2, <2>1
    <2>2. CASE i # n + 1
        <3>1. i \in 1 .. n
            BY <1>1, <1>2, <2>2
        <3> QED  BY <1>1, <1>2, <1>3, <1>4, <3>1
    <2> QED  BY <2>1, <2>2
<1>7. \A i, j \in DOMAIN more : i < j => more[j] - more[i] >= Interval
    <2> SUFFICES ASSUME NEW i \in 1 .. n + 1, NEW j \in 1 .. n + 1, i < j PROVE more[j] - more[i] >= Interval
        BY <1>2
    <2>1. i \in 1 .. n
        BY <1>1
    <2>2. CASE j = n + 1
        <3>1. lastEntry # -1
            BY <1>1, <1>3, <2>1
        <3>2. more[j] = t /\ more[i] = entries[i] /\ entries[i] \in Nat /\ entries[i] <= lastEntry
            BY <1>1, <1>2, <1>4, <2>1, <2>2
        <3> QED  BY <1>3, <3>1, <3>2
    <2>3. CASE j # n + 1
        <3>1. j \in 1 .. n
            BY <1>1, <2>3
        <3> QED  BY <1>2, <1>5, <2>1, <3>1
    <2> QED  BY <2>2, <2>3
<1> QED  BY <1>2, <1>6, <1>7 DEF n, more

LEMMA OpenClock == HeldOK /\ ClockOK /\ Open => ClockOK'
<1> SUFFICES ASSUME HeldOK, ClockOK, Open PROVE ClockOK'
    OBVIOUS
<1> DEFINE k == Min(todo)
<1>1. todo # {} /\ UNCHANGED <<lastEntry, entries>>
    BY DEF Open
<1>2. k \in todo /\ k \in Keys /\ k \notin opened
    BY <1>1, LeastKey DEF HeldOK
<1>3. Fails \/ \E t \in S!Advanced(S!Fresh) : Pushes(k, t) /\ todo' = todo \ {k} /\ UNCHANGED current
    BY DEF Open, Advances, Raise, Fails
<1>4. CASE Fails
    BY <1>1, <1>4, ClockStaysPut DEF Fails, ClockStands
<1>5. ASSUME NEW t \in S!Advanced(S!Fresh), Pushes(k, t), todo' = todo \ {k}, UNCHANGED current
      PROVE  ClockOK'
    <2>1. k \notin {x[2] : x \in heap} /\ k # current
        BY <1>2, KeysAreNaturals DEF HeldOK
    <2> HIDE DEF k
    <2>2. /\ \A j \in DOMAIN sessions : j # k => sessions'[j] = sessions[j]
          /\ \A x \in heap' : x \in heap \/ x[1] \in Times
        BY <1>2, <1>5, <2>1, FreshSession, PushedHeap
    <2>3. entries = <<>> /\ lastEntry = -1
        BY <1>1 DEF ClockOK, S!Never
    <2>4. \A x \in heap' : x[1] >= lastEntry
        <3>1. \A x \in heap : x[1] >= lastEntry
            BY DEF ClockOK
        <3>2. \A time \in Times : time >= lastEntry
            BY <2>3, ClockAssumption
        <3> QED  BY <2>2, <3>1, <3>2
    <2>5. current # None => sessions'[current].busy >= lastEntry
        BY <2>1, <2>2 DEF ClockOK, HeldOK
    <2> QED  BY <1>1, <1>5, <2>3, <2>4, <2>5 DEF ClockOK
<1> QED  BY <1>3, <1>4, <1>5

LEMMA AdvanceClock == HeldOK /\ ClockOK /\ AdvanceIt => ClockOK'
<1> SUFFICES ASSUME HeldOK, ClockOK, AdvanceIt PROVE ClockOK'
    OBVIOUS
<1>1. current # None /\ UNCHANGED <<lastEntry, entries>>
    BY DEF AdvanceIt
<1> DEFINE k == current
           s == sessions[k]
<1>2. k \in Keys /\ s \in Sessions /\ k \notin {x[2] : x \in heap} /\ s.busy >= lastEntry
    BY <1>1 DEF HeldOK, ClockOK
<1>3. Fails \/ \E t \in S!Advanced(s) : Pushes(k, t) /\ current' = None /\ UNCHANGED todo
    BY DEF AdvanceIt, Advances, Raise, Fails
<1>4. CASE Fails
    BY <1>1, <1>4, ClockStaysPut DEF Fails, ClockStands
<1>5. ASSUME NEW t \in S!Advanced(s), Pushes(k, t), current' = None, UNCHANGED todo
      PROVE  ClockOK'
    <2> HIDE DEF k, s
    <2>1. \A x \in heap' : x \in heap \/ (x[1] \in Times /\ x[1] >= s.busy)
        BY <1>2, <1>5, PushedHeap
    <2>2. lastEntry \in Int /\ s.busy \in Int
        BY <1>2, LastEntryIs DEF Sessions
    <2>3. \A x \in heap' : x[1] >= lastEntry
        <3>1. \A x \in heap : x[1] >= lastEntry
            BY DEF ClockOK
        <3>2. s.busy >= lastEntry
            BY <1>2
        <3>3. \A time \in Times : time >= s.busy => time >= lastEntry
            BY <2>2, <3>2, ClockAssumption
        <3> QED  BY <2>1, <3>1, <3>3
    <2> QED  BY <1>1, <1>5, <2>3 DEF ClockOK
<1> QED  BY <1>3, <1>4, <1>5

LEMMA ResolveClock == HeldOK /\ ClockOK /\ ResolveNext => ClockOK'
<1> SUFFICES ASSUME HeldOK, ClockOK, ResolveNext PROVE ClockOK'
    OBVIOUS
<1>1. CASE Fails
    BY <1>1, ClockStaysPut DEF Fails, ClockStands
<1>2. ASSUME NEW x \in heap, NEW s \in S!Resolved(sessions[x[2]], Cooling(x[2], sessions[x[2]].event)),
             Earliest(x), heap' = heap \ {x}, sessions' = [sessions EXCEPT ![x[2]] = s], current' = x[2],
             lastEntry' = IF s.filled THEN Latest(s.entered) ELSE lastEntry,
             entries' = IF s.filled THEN Append(entries, s.entered) ELSE entries, UNCHANGED todo, todo = {}
      PROVE  ClockOK'
    <2> DEFINE k == x[2]
               r == sessions[k]
               blocked == Cooling(k, r.event)
               at == x[1]
    <2>1. /\ k \in DOMAIN sessions /\ r \in Sessions /\ at \in Nat /\ r.busy = at /\ r.event.ts = at
          /\ at >= lastEntry
        BY ClockAssumption DEF HeldOK, ClockOK
    <2>2. blocked \in BOOLEAN
        BY DEF Cooling
    <2>3. s \in S!Resolved(r, blocked) /\ sessions'[k] = s /\ current' = k
        BY <1>2, <2>1
    <2>4. \A y \in heap' : y \in heap /\ y[1] \in Nat /\ y[1] >= at
        BY <1>2, <2>1, ClockAssumption DEF HeldOK, Earliest, Before
    <2>5. ~blocked /\ r.event.go /\ r.event.signal \in Sides =>
              lastEntry = -1 \/ ~(at - lastEntry \in 0 .. Interval - 1)
        BY <2>1 DEF Cooling, S!Never
    <2>6. lastEntry \in Int /\ Interval \in Nat
        BY LastEntryIs, ClockAssumption
    <2> HIDE DEF k, r, blocked, at
    <2>7. /\ s \in Sessions /\ s.busy >= at /\ s.busy \in Int /\ s.filled \in BOOLEAN
          /\ s.filled => r.event.go /\ ~blocked /\ r.event.signal \in Sides /\ s.entered = at
        <3>1. r.busy = r.event.ts /\ r.event.ts = at
            BY <2>1
        <3>2. /\ s \in Sessions /\ s.busy >= at
              /\ s.filled => r.event.go /\ ~blocked /\ r.event.signal \in Sides /\ s.entered = at
            BY <2>1, <2>2, <2>3, <3>1, ResolvedFacts
        <3> QED  BY <3>2 DEF Sessions
    <2>8. CASE ~s.filled
        <3>1. UNCHANGED <<lastEntry, entries>>
            BY <1>2, <2>8
        <3>2. \A y \in heap' : y[1] >= lastEntry
            BY <2>4 DEF ClockOK
        <3>3. sessions'[current'].busy >= lastEntry
            BY <2>1, <2>3, <2>6, <2>7
        <3> QED  BY <1>2, <3>1, <3>2, <3>3 DEF ClockOK
    <2>9. CASE s.filled
        <3>1. lastEntry = -1 \/ at - lastEntry >= Interval
            BY <2>1, <2>5, <2>6, <2>7, <2>9
        <3>2. lastEntry' = at
            BY <1>2, <2>1, <2>6, <2>7, <2>9 DEF Latest
        <3>3. entries' = Append(entries, at)
            BY <1>2, <2>7, <2>9
        <3>4. /\ entries' \in Seq(Nat) /\ entries' # <<>> /\ lastEntry' = entries'[Len(entries')]
              /\ \A i \in DOMAIN entries' : entries'[i] <= lastEntry'
              /\ \A i, j \in DOMAIN entries' : i < j => entries'[j] - entries'[i] >= Interval
            BY <2>1, <3>1, <3>2, <3>3, EntryKeepsApart
        <3>5. sessions'[current'].busy >= lastEntry'
            BY <2>3, <2>7, <3>2
        <3>6. \A y \in heap' : y[1] >= lastEntry'
            BY <2>4, <3>2
        <3> QED  BY <1>2, <3>4, <3>5, <3>6 DEF ClockOK
    <2> QED  BY <2>7, <2>8, <2>9
<1> QED  BY <1>1, <1>2, ResolveCases

LEMMA ClockStep == HeldOK /\ ClockOK /\ [Next]_vars => ClockOK'
<1> SUFFICES ASSUME HeldOK, ClockOK, [Next]_vars PROVE ClockOK'
    OBVIOUS
<1>1. CASE UNCHANGED vars
    BY <1>1, ClockStaysPut DEF vars, replay, ClockStands
<1>2. CASE Prepare
    BY <1>2, ClockStaysPut DEF Prepare, replay, ClockStands
<1>3. CASE Begin
    BY <1>3, ClockStaysPut DEF Begin, replay, ClockStands
<1>4. CASE NextGroup
    <2>1. entries' = <<>> /\ lastEntry' = S!Never /\ heap' = {} /\ current' = None
        BY <1>4 DEF NextGroup, Idle
    <2> QED  BY <2>1 DEF ClockOK
<1>5. CASE Open
    BY <1>5, OpenClock
<1>6. CASE ResolveNext
    BY <1>6, ResolveClock
<1>7. CASE AdvanceIt
    BY <1>7, AdvanceClock
<1>8. CASE CloseNext
    <2>1. ClockStands
        BY <1>8 DEF CloseNext, Raise, ClockStands
    <2> QED  BY <2>1, ClockStaysPut
<1>9. CASE RunSingle
    <2>1. ClockStands
        BY <1>9 DEF RunSingle, Raise, ClockStands
    <2> QED  BY <2>1, ClockStaysPut
<1>10. CASE WorkerDies
    <2>1. ClockStands
        BY <1>10 DEF WorkerDies, ClockStands
    <2> QED  BY <2>1, ClockStaysPut
<1>11. CASE Done
    BY <1>1, <1>11 DEF Done
<1> QED  BY <1>1, <1>2, <1>3, <1>4, <1>5, <1>6, <1>7, <1>8, <1>9, <1>10, <1>11 DEF Next

-----------------------------------------------------------------------------
(* The engines of the date (EngineHandle)                                   *)

Handles ==
    {e \in [allocated : Nat, freed : Nat, handle : BOOLEAN] :
        e.allocated = e.freed + (IF e.handle THEN 1 ELSE 0)}

LEMMA HandleFacts ==
    /\ NoEngine \in Handles /\ ~NoEngine.handle
    /\ \A e \in Handles : /\ Live(e) <=> e.handle
                          /\ e.freed <= e.allocated
                          /\ Close(e) \in Handles /\ ~Close(e).handle
<1>1. NoEngine \in Handles /\ ~NoEngine.handle
    BY DEF NoEngine, Handles
<1>2. ASSUME NEW e \in Handles
      PROVE  (Live(e) <=> e.handle) /\ e.freed <= e.allocated /\ Close(e) \in Handles /\ ~Close(e).handle
    <2>1. e.allocated \in Nat /\ e.freed \in Nat /\ e.handle \in BOOLEAN
          /\ e.allocated = e.freed + (IF e.handle THEN 1 ELSE 0)
        BY DEF Handles
    <2>2. (Live(e) <=> e.handle) /\ e.freed <= e.allocated
        BY <2>1 DEF Live
    <2>3. CASE e.handle
        <3>1. Close(e) = [[e EXCEPT !.handle = FALSE] EXCEPT !.freed = @ + 1]
            BY <2>3 DEF Close, HbtSlimFree
        <3>2. Close(e) = [allocated |-> e.allocated, freed |-> e.freed + 1, handle |-> FALSE]
            BY <3>1 DEF Handles
        <3>3. [allocated |-> e.allocated, freed |-> e.freed + 1, handle |-> FALSE] \in Handles
            BY <2>1, <2>3 DEF Handles
        <3> QED  BY <2>2, <3>2, <3>3
    <2>4. CASE ~e.handle
        BY <2>2, <2>4 DEF Close
    <2> QED  BY <2>2, <2>3, <2>4
<1> QED  BY <1>1, <1>2

\* An engine is asked for where there is none.
LEMMA ConstructFacts ==
    ASSUME NEW e \in Handles, ~e.handle, NEW bound, NEW checked \in BOOLEAN, NEW accepted \in BOOLEAN
    PROVE  Construct(e, bound, checked, accepted) \in Handles
<1>1. CASE bound /\ checked /\ accepted
    <2>1. Construct(e, bound, checked, accepted) = [[e EXCEPT !.allocated = @ + 1] EXCEPT !.handle = accepted]
        BY <1>1 DEF Construct, HbtSlimCreate
    <2>2. accepted = TRUE /\ e.allocated = e.freed /\ e.allocated \in Nat /\ e.freed \in Nat
        BY <1>1 DEF Handles
    <2>3. Construct(e, bound, checked, accepted) = [allocated |-> e.allocated + 1, freed |-> e.freed, handle |-> TRUE]
        BY <2>1, <2>2 DEF Handles
    <2>4. [allocated |-> e.allocated + 1, freed |-> e.freed, handle |-> TRUE] \in Handles
        BY <2>2 DEF Handles
    <2> QED  BY <2>3, <2>4
<1>2. CASE bound /\ checked /\ ~accepted
    <2>1. Construct(e, bound, checked, accepted) = [e EXCEPT !.handle = FALSE]
        BY <1>2 DEF Construct, HbtSlimCreate
    <2> QED  BY <2>1 DEF Handles
<1>3. CASE ~(bound /\ checked)
    BY <1>3 DEF Construct
<1> QED  BY <1>1, <1>2, <1>3

EnginesOK ==
    /\ engines \in [Keys -> Handles]
    /\ status # "raised" => \A k \in Keys : engines[k].handle => k \in opened
    /\ \A k \in opened : engines[k].handle

LEMMA EnginesInit == Init => EnginesOK
BY HandleFacts DEF Init, Fresh, EnginesOK

\* A group that raises gives back the engines it had, or ends the run.
LEMMA RaiseReturns ==
    ASSUME NEW es \in [Keys -> Handles], Raise(es)
    PROVE  EnginesOK'
<1>1. Aborted(es) \in [Keys -> Handles]
    BY HandleFacts DEF Aborted
<1>2. opened' = {}
    BY DEF Raise
<1>3. CASE request.proceed
    <2>1. engines' = [k \in Keys |-> Close(Aborted(es)[k])]
        BY <1>3 DEF Raise, Drop, Del
    <2>2. engines' \in [Keys -> Handles] /\ \A k \in Keys : ~engines'[k].handle
        BY <1>1, <2>1, HandleFacts
    <2> QED  BY <1>2, <2>2 DEF EnginesOK
<1>4. CASE ~request.proceed
    <2>1. engines' = Aborted(es) /\ status' = "raised"
        BY <1>4 DEF Raise
    <2> QED  BY <1>1, <1>2, <2>1 DEF EnginesOK
<1> QED  BY <1>3, <1>4

LEMMA EnginesStay ==
    EnginesOK /\ UNCHANGED <<engines, opened>> /\ status # "raised" => EnginesOK'
BY DEF EnginesOK

LEMMA EnginesStep == HeldOK /\ EnginesOK /\ [Next]_vars => EnginesOK'
<1> SUFFICES ASSUME HeldOK, EnginesOK, [Next]_vars PROVE EnginesOK'
    OBVIOUS
<1>0. engines \in [Keys -> Handles]
    BY DEF EnginesOK
<1>1. CASE UNCHANGED vars
    BY <1>1 DEF vars, EnginesOK
<1>2. CASE Prepare
    BY <1>2, EnginesStay DEF Prepare
<1>3. CASE Begin
    BY <1>3, EnginesStay DEF Begin
<1>4. CASE NextGroup
    <2>1. opened' = {} /\ engines' = [k \in Keys |-> Close(engines[k])]
        BY <1>4 DEF NextGroup, Idle, Drop, Del
    <2>2. engines' \in [Keys -> Handles] /\ \A k \in Keys : ~engines'[k].handle
        BY <1>0, <2>1, HandleFacts
    <2> QED  BY <2>1, <2>2 DEF EnginesOK
<1>5. CASE Open
    <2>1. todo # {} /\ status = "running"
        BY <1>5 DEF Open, Running
    <2> DEFINE k == Min(todo)
    <2>2. k \in Keys /\ k \in todo /\ k \notin opened /\ ~engines[k].handle
        BY <2>1, LeastKey DEF HeldOK, EnginesOK
    <2>3. PICK checked \in BOOLEAN, accepted \in BOOLEAN :
              LET es == [engines EXCEPT ![k] = Construct(@, Bound, checked, accepted)] IN
              \/ /\ \E t \in S!Advanced(S!Fresh) : Answer(es[k], IF t.phase = "over" THEN 1 ELSE 0) # "raise"
                 /\ engines' = es /\ opened' = opened \cup {k} /\ UNCHANGED status
              \/ Raise(es)
        BY <1>5 DEF Open, Advances
    <2> HIDE DEF k
    <2> DEFINE made == Construct(engines[k], Bound, checked, accepted)
               es == [engines EXCEPT ![k] = made]
    <2>4. made \in Handles
        BY <1>0, <2>2, ConstructFacts
    <2>5. \/ /\ \E t \in S!Advanced(S!Fresh) : Answer(es[k], IF t.phase = "over" THEN 1 ELSE 0) # "raise"
             /\ engines' = es /\ opened' = opened \cup {k} /\ UNCHANGED status
          \/ Raise(es)
        BY <2>3
    <2> HIDE DEF made
    <2>6. es \in [Keys -> Handles] /\ es[k] = made /\ \A j \in Keys : j # k => es[j] = engines[j]
        BY <1>0, <2>2, <2>4
    <2> HIDE DEF es
    <2>7. CASE Raise(es)
        BY <2>6, <2>7, RaiseReturns
    <2>8. CASE ~Raise(es)
        <3>1. engines' = es /\ opened' = opened \cup {k} /\ UNCHANGED status
            BY <2>5, <2>8
        <3>2. es[k].handle
            <4>1. PICK t \in S!Advanced(S!Fresh) : Answer(es[k], IF t.phase = "over" THEN 1 ELSE 0) # "raise"
                BY <2>5, <2>8
            <4>2. ASSUME ~es[k].handle PROVE FALSE
                BY <4>1, <4>2 DEF Answer
            <4> QED  BY <4>2
        <3> QED  BY <2>1, <2>2, <2>6, <3>1, <3>2 DEF EnginesOK, HeldOK
    <2> QED  BY <2>7, <2>8
<1>6. CASE ResolveNext
    <2>1. Raise(engines) \/ UNCHANGED <<engines, opened, status>>
        BY <1>6 DEF ResolveNext
    <2> QED  BY <1>0, <2>1, RaiseReturns DEF EnginesOK
<1>7. CASE AdvanceIt
    <2>1. Raise(engines) \/ UNCHANGED <<engines, opened, status>>
        BY <1>7 DEF AdvanceIt
    <2> QED  BY <1>0, <2>1, RaiseReturns DEF EnginesOK
<1>8. CASE CloseNext
    <2>1. opened # {} /\ status = "running"
        BY <1>8 DEF CloseNext, Running
    <2> DEFINE k == Min(opened)
               es == [engines EXCEPT ![k] = Close(@)]
    <2>2. k \in Keys /\ k \in opened
        BY <2>1, LeastKey DEF HeldOK
    <2>3. Raise(es) \/ (engines' = es /\ opened' = opened \ {k} /\ UNCHANGED status)
        BY <1>8 DEF CloseNext
    <2> HIDE DEF k
    <2>4. es \in [Keys -> Handles] /\ ~es[k].handle /\ \A j \in Keys : j # k => es[j] = engines[j]
        BY <1>0, <2>2, HandleFacts
    <2> HIDE DEF es
    <2>5. CASE Raise(es)
        BY <2>4, <2>5, RaiseReturns
    <2>6. CASE ~Raise(es)
        BY <2>1, <2>2, <2>3, <2>4, <2>6 DEF EnginesOK, HeldOK
    <2> QED  BY <2>5, <2>6
<1>9. CASE RunSingle
    <2>1. todo # {} /\ status = "running"
        BY <1>9 DEF RunSingle, Running
    <2> DEFINE k == Min(todo)
    <2>2. k \in Keys /\ k \in todo /\ k \notin opened /\ ~engines[k].handle
        BY <2>1, LeastKey DEF HeldOK, EnginesOK
    <2>3. PICK checked \in BOOLEAN, accepted \in BOOLEAN :
              LET es == [engines EXCEPT ![k] = Close(Construct(engines[k], Bound, checked, accepted))] IN
              Raise(es) \/ (engines' = es /\ UNCHANGED <<opened, status>>)
        BY <1>9 DEF RunSingle
    <2> HIDE DEF k
    <2> DEFINE made == Construct(engines[k], Bound, checked, accepted)
               es == [engines EXCEPT ![k] = Close(made)]
    <2>4. made \in Handles
        BY <1>0, <2>2, ConstructFacts
    <2>5. Raise(es) \/ (engines' = es /\ UNCHANGED <<opened, status>>)
        BY <2>3
    <2> HIDE DEF made
    <2>6. es \in [Keys -> Handles] /\ ~es[k].handle /\ \A j \in Keys : j # k => es[j] = engines[j]
        BY <1>0, <2>2, <2>4, HandleFacts
    <2> HIDE DEF es
    <2>7. CASE Raise(es)
        BY <2>6, <2>7, RaiseReturns
    <2>8. CASE ~Raise(es)
        BY <2>1, <2>2, <2>5, <2>6, <2>8 DEF EnginesOK, HeldOK
    <2> QED  BY <2>7, <2>8
<1>10. CASE WorkerDies
    BY <1>10, HandleFacts DEF WorkerDies, EnginesOK
<1>11. CASE Done
    BY <1>1, <1>11 DEF Done
<1> QED  BY <1>1, <1>2, <1>3, <1>4, <1>5, <1>6, <1>7, <1>8, <1>9, <1>10, <1>11 DEF Next

-----------------------------------------------------------------------------
(* What is reported of the pairs                                            *)

Heard(k, reports) == <<k, "result">> \in reports \/ <<k, "error">> \in reports

ToldOK ==
    /\ status = "done" => \A k \in ready : Heard(k, told)
    /\ status = "running" =>
          /\ \A i \in DOMAIN shards : i < place[1] =>
                 \A m \in DOMAIN shards[i] : \A k \in shards[i][m] : Heard(k, told)
          /\ shards # <<>> => \A m \in DOMAIN shards[place[1]] : m < place[2] =>
                                  \A k \in shards[place[1]][m] : Heard(k, results)
          /\ place[2] > 0 => /\ todo = {} /\ opened = {} => \A k \in Group : Heard(k, results)
                             /\ ~Shared => \A k \in Group \ todo : Heard(k, results)

LEMMA ToldInit == Init => ToldOK
BY DEF Init, ToldOK

LEMMA OutcomesAreHeard ==
    ASSUME NEW keys, NEW outcome \in {"result", "error"}, NEW k \in keys
    PROVE  Heard(k, Outcomes(keys, outcome))
BY DEF Heard, Outcomes

LEMMA HeardMore ==
    ASSUME NEW k, NEW reports, NEW more, reports \subseteq more, Heard(k, reports)
    PROVE  Heard(k, more)
BY DEF Heard

\* A step inside a group, which may only add to what the shard reports.
LEMMA ToldInGroup ==
    ASSUME PlaceOK, ToldOK, status = "running", place[2] > 0, UNCHANGED <<chosen, place, told>>,
           results \subseteq results', status' \in {"running", "raised"},
           todo' = {} /\ opened' = {} => \A k \in Group : Heard(k, results'),
           ~Shared => \A k \in Group \ todo' : Heard(k, results')
    PROVE  ToldOK'
<1>1. Group' = Group /\ (Shared' <=> Shared) /\ UNCHANGED <<shards, place, told>>
    BY SameGroup DEF chosen
<1>2. CASE status' = "raised"
    BY <1>2 DEF ToldOK
<1>3. CASE status' = "running"
    <2>1. \A i \in DOMAIN shards : i < place[1] => \A m \in DOMAIN shards[i] : \A k \in shards[i][m] : Heard(k, told)
        BY DEF ToldOK
    <2>2. shards # <<>> => \A m \in DOMAIN shards[place[1]] : m < place[2] =>
              \A k \in shards[place[1]][m] : Heard(k, results')
        BY HeardMore DEF ToldOK
    <2>3. \A i \in DOMAIN shards' : i < place'[1] =>
              \A m \in DOMAIN shards'[i] : \A k \in shards'[i][m] : Heard(k, told')
        BY <1>1, <2>1
    <2>4. shards' # <<>> => \A m \in DOMAIN shards'[place'[1]] : m < place'[2] =>
              \A k \in shards'[place'[1]][m] : Heard(k, results')
        BY <1>1, <2>2
    <2>5. /\ todo' = {} /\ opened' = {} => \A k \in Group' : Heard(k, results')
          /\ ~Shared' => \A k \in Group' \ todo' : Heard(k, results')
        BY <1>1
    <2> QED  BY <1>3, <2>3, <2>4, <2>5 DEF ToldOK, Heard
<1> QED  BY <1>2, <1>3

LEMMA ToldByFailure ==
    ASSUME PlaceOK, ToldOK, status = "running", place[2] > 0, Fails
    PROVE  ToldOK'
<1>1. /\ UNCHANGED <<chosen, place, told>> /\ results \subseteq results' /\ status' \in {"running", "raised"}
      /\ Outcomes(Group, "error") \subseteq results'
    BY DEF Fails
<1>2. \A k \in Group : Heard(k, results')
    BY <1>1, OutcomesAreHeard, HeardMore
<1> QED  BY <1>1, <1>2, ToldInGroup

\* Every pair that is ready is of some group of some shard.
LEMMA ReadyIsDealt ==
    ASSUME PlaceOK, status # "waiting", NEW k \in ready
    PROVE  \E i \in DOMAIN shards : \E m \in DOMAIN shards[i] : k \in shards[i][m]
BY DEF PlaceOK, ShardsOK

LEMMA NextGroupTold == PlaceOK /\ HeldOK /\ ToldOK /\ NextGroup => ToldOK'
<1> SUFFICES ASSUME PlaceOK, HeldOK, ToldOK, NextGroup PROVE ToldOK'
    OBVIOUS
<1>1. /\ status = "running" /\ todo = {} /\ opened = {} /\ opened' = {} /\ UNCHANGED <<options, shards, ready>>
    BY DEF NextGroup, Idle, chosen, data
<1>2. ShardsOK(shards, ready) /\ place[1] \in Nat \ {0} /\ place[2] \in Nat
    BY <1>1 DEF PlaceOK
<1>3. CASE shards = <<>>
    <2>1. status' = "done" /\ UNCHANGED told
        BY <1>3 DEF NextGroup
    <2>2. ready = {}
        BY <1>1, <1>3, ReadyIsDealt
    <2> QED  BY <1>1, <2>1, <2>2 DEF ToldOK
<1>4. CASE shards # <<>>
    <2> DEFINE i0 == place[1]
               n == Len(shards[i0])
    <2>1. /\ i0 \in DOMAIN shards /\ n \in Nat /\ DOMAIN shards[i0] = 1 .. n /\ place[2] <= n
          /\ DOMAIN shards = 1 .. Len(shards) /\ Len(shards) \in Nat
        BY <1>2, <1>4, ShardFacts DEF PlaceOK
    <2>2. \A m \in 1 .. n : m <= place[2] => \A k \in shards[i0][m] : Heard(k, results)
        <3> SUFFICES ASSUME NEW m \in 1 .. n, m <= place[2], NEW k \in shards[i0][m] PROVE Heard(k, results)
            OBVIOUS
        <3>1. CASE m < place[2]
            BY <1>1, <1>4, <2>1, <3>1 DEF ToldOK
        <3>2. CASE m = place[2]
            <4>1. k \in Group /\ place[2] > 0
                BY <3>2 DEF Group
            <4> QED  BY <1>1, <4>1 DEF ToldOK
        <3> QED  BY <1>2, <3>1, <3>2
    <2>3. \A i \in DOMAIN shards : i < i0 => \A m \in DOMAIN shards[i] : \A k \in shards[i][m] : Heard(k, told)
        BY <1>1 DEF ToldOK
    <2>4. CASE place[2] < n
        <3>1. /\ place' = [place EXCEPT ![2] = @ + 1] /\ todo' = shards[place[1]][place[2] + 1]
              /\ UNCHANGED <<results, told, status>>
            BY <1>4, <2>4 DEF NextGroup
        <3>2. place'[1] = i0 /\ place'[2] = place[2] + 1
            BY <3>1 DEF PlaceOK
        <3>3. Group' = todo'
            BY <1>1, <3>1, <3>2 DEF Group
        <3> HIDE DEF n, i0
        <3>4. \A m \in DOMAIN shards'[place'[1]] : m < place'[2] =>
                  \A k \in shards'[place'[1]][m] : Heard(k, results')
            BY <1>1, <1>2, <2>1, <2>2, <3>1, <3>2
        <3>5. \A i \in DOMAIN shards' : i < place'[1] =>
                  \A m \in DOMAIN shards'[i] : \A k \in shards'[i][m] : Heard(k, told')
            BY <1>1, <2>3, <3>1, <3>2
        <3>6. /\ todo' = {} /\ opened' = {} => \A k \in Group' : Heard(k, results')
              /\ ~Shared' => \A k \in Group' \ todo' : Heard(k, results')
            BY <3>3
        <3> QED  BY <1>1, <3>1, <3>4, <3>5, <3>6 DEF ToldOK, Heard
    <2>5. CASE ~(place[2] < n)
        <3>1. /\ told' = told \cup results /\ results' = {} /\ UNCHANGED todo
              /\ place' = IF place[1] < Len(shards) THEN <<place[1] + 1, 0>> ELSE place
              /\ status' = IF place[1] < Len(shards) THEN "running" ELSE "done"
            BY <1>4, <2>5 DEF NextGroup
        <3> HIDE DEF n
        <3>2. \A i \in DOMAIN shards : i <= i0 =>
                  \A m \in DOMAIN shards[i] : \A k \in shards[i][m] : Heard(k, told')
            <4> SUFFICES ASSUME NEW i \in DOMAIN shards, i <= i0, NEW m \in DOMAIN shards[i], NEW k \in shards[i][m]
                         PROVE  Heard(k, told')
                OBVIOUS
            <4>1. CASE i < i0
                BY <2>3, <3>1, <4>1, HeardMore
            <4>2. CASE i = i0
                <5>1. m \in 1 .. n /\ m <= place[2]
                    BY <1>2, <2>1, <2>5, <4>2
                <5>2. Heard(k, results)
                    BY <2>2, <4>2, <5>1
                <5> QED  BY <3>1, <5>2, HeardMore
            <4> QED  BY <1>2, <2>1, <4>1, <4>2
        <3>3. CASE place[1] < Len(shards)
            <4>1. place'[1] = i0 + 1 /\ place'[2] = 0 /\ status' = "running"
                BY <3>1, <3>3
            <4>2. i0 + 1 \in 1 .. Len(shards)
                BY <1>2, <2>1, <3>3
            <4>3. \A i \in DOMAIN shards' : i < place'[1] =>
                      \A m \in DOMAIN shards'[i] : \A k \in shards'[i][m] : Heard(k, told')
                BY <1>1, <1>2, <2>1, <3>2, <4>1
            <4>4. \A m \in DOMAIN shards'[place'[1]] : ~(m < place'[2])
                <5>1. DOMAIN shards[i0 + 1] = 1 .. Len(shards[i0 + 1])
                    BY <1>2, <2>1, <4>2, ShardFacts
                <5> QED  BY <1>1, <4>1, <5>1
            <4> QED  BY <4>1, <4>3, <4>4 DEF ToldOK
        <3>4. CASE ~(place[1] < Len(shards))
            <4>1. status' = "done"
                BY <3>1, <3>4
            <4>2. \A k \in ready : Heard(k, told')
                <5> TAKE k \in ready
                <5>1. PICK i \in DOMAIN shards : \E m \in DOMAIN shards[i] : k \in shards[i][m]
                    BY <1>1, ReadyIsDealt
                <5>2. i <= i0
                    BY <1>2, <2>1, <3>4
                <5> QED  BY <3>2, <5>1, <5>2
            <4> QED  BY <1>1, <4>1, <4>2 DEF ToldOK
        <3> QED  BY <3>3, <3>4
    <2> QED  BY <2>4, <2>5
<1> QED  BY <1>3, <1>4

LEMMA WorkerDiesTold == PlaceOK /\ ToldOK /\ WorkerDies => ToldOK'
<1> SUFFICES ASSUME PlaceOK, ToldOK, WorkerDies PROVE ToldOK'
    OBVIOUS
<1> DEFINE lost == UNION {KeysOf(shards[i]) : i \in place[1]..Len(shards)}
<1>1. /\ status = "running" /\ status' \in {"done", "raised"} /\ told' = told \cup Outcomes(lost, "error")
      /\ UNCHANGED ready
    BY DEF WorkerDies, Running, chosen, data
<1>2. ASSUME NEW k \in ready PROVE Heard(k, told')
    <2>1. PICK i \in DOMAIN shards : \E m \in DOMAIN shards[i] : k \in shards[i][m]
        BY <1>1, ReadyIsDealt
    <2>2. PICK m \in DOMAIN shards[i] : k \in shards[i][m]
        BY <2>1
    <2>3. i \in 1 .. Len(shards) /\ place[1] \in Nat
        BY <1>1, ShardFacts DEF PlaceOK
    <2>4. CASE i < place[1]
        <3>1. Heard(k, told)
            BY <1>1, <2>2, <2>4 DEF ToldOK
        <3>2. told \subseteq told'
            BY <1>1
        <3> QED  BY <3>1, <3>2, HeardMore
    <2>5. CASE ~(i < place[1])
        <3>1. k \in KeysOf(shards[i])
            BY <2>2 DEF KeysOf
        <3>2. k \in lost
            BY <2>3, <2>5, <3>1
        <3> HIDE DEF lost
        <3>3. Heard(k, Outcomes(lost, "error"))
            BY <3>2, OutcomesAreHeard
        <3> QED  BY <1>1, <3>3, HeardMore
    <2> QED  BY <2>4, <2>5
<1> QED  BY <1>1, <1>2 DEF ToldOK

LEMMA ToldStep == PlaceOK /\ HeldOK /\ ToldOK /\ [Next]_vars => ToldOK'
<1> SUFFICES ASSUME PlaceOK, HeldOK, ToldOK, [Next]_vars PROVE ToldOK'
    OBVIOUS
<1>1. CASE UNCHANGED vars
    <2>1. UNCHANGED <<status, ready, told, results, shards, place, todo, opened, options>>
        BY <1>1 DEF vars, chosen, data
    <2>2. Group' = Group /\ (Shared' <=> Shared)
        BY <2>1 DEF Group, Shared
    <2> QED  BY <2>1, <2>2 DEF ToldOK, Heard
<1>2. CASE Prepare
    BY <1>2 DEF Prepare, ToldOK
<1>3. CASE Begin
    <2>1. status' = "running" /\ place' = place /\ place[1] = 1 /\ place[2] = 0 /\ shards' = Shards(ready, options'.workers)
        BY <1>3 DEF Begin, PlaceOK
    <2>2. PlaceOK'
        BY <1>3, PlaceStep DEF Next
    <2>3. ShardsOK(shards', ready')
        BY <2>1, <2>2 DEF PlaceOK, ShardsOK
    <2>4. DOMAIN shards' = 1 .. Len(shards')
        BY <2>3, ShardFacts
    <2>5. shards' # <<>> => 1 \in DOMAIN shards'
        BY <2>1, <2>2 DEF PlaceOK
    <2>6. shards' # <<>> => DOMAIN shards'[1] = 1 .. Len(shards'[1])
        BY <2>3, <2>5, ShardFacts
    <2>7. \A i \in DOMAIN shards' : ~(i < place'[1])
        BY <2>1, <2>4
    <2>8. shards' # <<>> => \A m \in DOMAIN shards'[place'[1]] : ~(m < place'[2])
        BY <2>1, <2>6
    <2> QED  BY <2>1, <2>7, <2>8 DEF ToldOK
<1>4. CASE NextGroup
    BY <1>4, NextGroupTold
<1>5. CASE Open
    <2>1. /\ status = "running" /\ place[2] > 0 /\ Shared /\ UNCHANGED <<chosen, place, told>>
        BY <1>5 DEF Open, Running
    <2>2. Fails \/ \E k : opened' = opened \cup {k} /\ UNCHANGED <<results, status>>
        BY <1>5 DEF Open, Raise, Fails
    <2>3. CASE Fails
        BY <2>1, <2>3, ToldByFailure
    <2>4. ASSUME NEW k, opened' = opened \cup {k}, UNCHANGED <<results, status>> PROVE ToldOK'
        <3>1. opened' # {}
            BY <2>4
        <3> QED  BY <2>1, <2>4, <3>1, ToldInGroup
    <2> QED  BY <2>2, <2>3, <2>4
<1>6. CASE ResolveNext
    <2>1. /\ status = "running" /\ place[2] > 0 /\ UNCHANGED <<chosen, place, told>>
        BY <1>6 DEF ResolveNext, Running
    <2>2. Fails \/ UNCHANGED <<todo, opened, results, status>>
        BY <1>6 DEF ResolveNext, Raise, Fails
    <2>3. CASE UNCHANGED <<todo, opened, results, status>>
        BY <2>1, <2>3, ToldInGroup DEF ToldOK
    <2> QED  BY <2>1, <2>2, <2>3, ToldByFailure
<1>7. CASE AdvanceIt
    <2>1. /\ status = "running" /\ place[2] > 0 /\ UNCHANGED <<chosen, place, told>>
        BY <1>7 DEF AdvanceIt, Running
    <2>2. Fails \/ UNCHANGED <<todo, opened, results, status>>
        BY <1>7 DEF AdvanceIt, Raise, Fails
    <2>3. CASE UNCHANGED <<todo, opened, results, status>>
        BY <2>1, <2>3, ToldInGroup DEF ToldOK
    <2> QED  BY <2>1, <2>2, <2>3, ToldByFailure
<1>8. CASE CloseNext
    <2> DEFINE k == Min(opened)
    <2>1. /\ status = "running" /\ place[2] > 0 /\ opened # {} /\ UNCHANGED <<chosen, place, told>>
        BY <1>8 DEF CloseNext, Running
    <2>2. k \in opened /\ Shared
        BY <2>1, LeastKey DEF HeldOK
    <2>3. Fails \/ /\ opened' = opened \ {k} /\ UNCHANGED status
                   /\ results' = IF opened = {k} THEN results \cup Outcomes(Group, "result") ELSE results
        BY <1>8 DEF CloseNext, Raise, Fails
    <2> HIDE DEF k
    <2>4. ASSUME opened' = opened \ {k}, UNCHANGED status,
                 results' = IF opened = {k} THEN results \cup Outcomes(Group, "result") ELSE results
          PROVE  ToldOK'
        <3>1. results \subseteq results'
            BY <2>4
        <3>2. opened' = {} => \A j \in Group : Heard(j, results')
            <4> SUFFICES ASSUME opened' = {}, NEW j \in Group PROVE Heard(j, results')
                OBVIOUS
            <4>1. opened = {k}
                BY <2>2, <2>4
            <4>2. Outcomes(Group, "result") \subseteq results'
                BY <2>4, <4>1
            <4> QED  BY <4>2, OutcomesAreHeard, HeardMore
        <3> QED  BY <2>1, <2>2, <2>4, <3>1, <3>2, ToldInGroup
    <2> QED  BY <2>1, <2>3, <2>4, ToldByFailure
<1>9. CASE RunSingle
    <2> DEFINE k == Min(todo)
    <2>1. /\ status = "running" /\ place[2] > 0 /\ ~Shared /\ UNCHANGED <<chosen, place, told>>
        BY <1>9 DEF RunSingle, Running
    <2>2. Fails \/ /\ todo' = todo \ {k} /\ UNCHANGED status
                   /\ results' = results \cup Outcomes({k}, "result")
        BY <1>9 DEF RunSingle, Raise, Fails
    <2> HIDE DEF k
    <2>3. ASSUME todo' = todo \ {k}, UNCHANGED status, results' = results \cup Outcomes({k}, "result")
          PROVE  ToldOK'
        <3>1. results \subseteq results'
            BY <2>3
        <3>2. \A j \in Group \ todo' : Heard(j, results')
            <4> TAKE j \in Group \ todo'
            <4>1. CASE j = k
                BY <2>3, <4>1, OutcomesAreHeard, HeardMore
            <4>2. CASE j # k
                <5>1. Heard(j, results)
                    BY <2>1, <2>3, <4>2 DEF ToldOK
                <5> QED  BY <3>1, <5>1, HeardMore
            <4> QED  BY <4>1, <4>2
        <3> QED  BY <2>1, <2>3, <3>1, <3>2, ToldInGroup
    <2> QED  BY <2>1, <2>2, <2>3, ToldByFailure
<1>10. CASE WorkerDies
    BY <1>10, WorkerDiesTold
<1>11. CASE Done
    <2>1. UNCHANGED vars
        BY <1>11 DEF Done
    <2> QED  BY <1>1, <2>1
<1> QED  BY <1>1, <1>2, <1>3, <1>4, <1>5, <1>6, <1>7, <1>8, <1>9, <1>10, <1>11 DEF Next

-----------------------------------------------------------------------------
(* The theorems                                                             *)

Inv == PlaceOK /\ HeldOK /\ ClockOK /\ EnginesOK /\ ToldOK

\* The inductive invariant of a date's preparation and backtests.
LEMMA DateInvariant == Spec => []Inv
<1>1. Init => Inv
    BY PlaceInit, HeldInit, ClockInit, EnginesInit, ToldInit DEF Inv
<1>2. Inv /\ [Next]_vars => Inv'
    BY PlaceStep, HeldStep, ClockStep, EnginesStep, ToldStep DEF Inv
<1> QED  BY <1>1, <1>2, PTL DEF Spec

\* No two shards of balanced_backtest_shards have pairs of one spot, and the
\* entries of a group driven by _run_shared_spot_cooldown_group are the
\* interval apart, for any pairs, weights, workers, clocks and sessions.
THEOREM EntriesAreApart == Spec => []GroupEntriesApart
<1>1. ASSUME Inv PROVE GroupEntriesApart
    <2>1. \A i, j \in DOMAIN entries : i < j => entries[j] - entries[i] >= Interval
        BY <1>1 DEF Inv, ClockOK
    <2>2. ASSUME NEW i \in DOMAIN shards, NEW j \in DOMAIN shards, NEW k \in KeysOf(shards[i]),
                 NEW l \in KeysOf(shards[j]), SpotOf[k] = SpotOf[l]
          PROVE  i = j
        <3>1. CASE status = "waiting"
            BY <1>1, <3>1 DEF Inv, PlaceOK
        <3>2. CASE status # "waiting"
            <4>1. ShardsOK(shards, ready)
                BY <1>1, <3>2 DEF Inv, PlaceOK
            <4>2. PICK m \in DOMAIN shards[i] : k \in shards[i][m]
                BY DEF KeysOf
            <4>3. PICK p \in DOMAIN shards[j] : l \in shards[j][p]
                BY DEF KeysOf
            <4> QED  BY <2>2, <4>1, <4>2, <4>3 DEF ShardsOK
        <3> QED  BY <3>1, <3>2
    <2> QED  BY <2>1, <2>2 DEF GroupEntriesApart
<1> QED  BY <1>1, DateInvariant, PTL

\* However the sessions of a group end, no engine is given back twice or used
\* after it was (SlimEngine.close), and a run that is done holds none.
THEOREM EnginesReturn == Spec => []EnginesAreFreed
<1>1. ASSUME Inv PROVE EnginesAreFreed
    <2>1. \A k \in Keys : engines[k] \in Handles
        BY <1>1 DEF Inv, EnginesOK
    <2>2. \A k \in Keys : engines[k].freed <= engines[k].allocated /\ (engines[k].handle => Live(engines[k]))
        BY <2>1, HandleFacts
    <2>3. \A x \in heap : engines[x[2]].handle
        BY <1>1 DEF Inv, HeldOK, EnginesOK
    <2>4. status = "done" => \A k \in Keys : ~Live(engines[k])
        BY <1>1, <2>1, HandleFacts DEF Inv, HeldOK, EnginesOK
    <2> QED  BY <2>2, <2>3, <2>4 DEF EnginesAreFreed
<1> QED  BY <1>1, DateInvariant, PTL

\* When the backtests begin, their archives are whole, or of a part of the rows
\* only where an earlier run's split broke off and was not rebuilt, whichever
\* earlier runs of build_event_data raised or were killed.
THEOREM PreparedDataAreSound == Spec => []DataIsSound
<1>1. ASSUME Inv PROVE DataIsSound
    <2>1. CASE status = "waiting"
        BY <1>1, <2>1 DEF Inv, PlaceOK, DataInv
    <2>2. CASE status # "waiting"
        BY <1>1, <2>2 DEF Inv, PlaceOK, DataIsSound
    <2> QED  BY <2>1, <2>2
<1> QED  BY <1>1, DateInvariant, PTL

\* The data are sound, the engines are given back, and run_backtests reports a
\* result or an error for every pair of the date.
THEOREM NothingGoesMissing == Spec => []NothingIsLost
<1>1. ASSUME Inv, DataIsSound, EnginesAreFreed PROVE NothingIsLost
    <2>1. status = "done" => \A k \in Keys : Reported(k) # "nothing"
        BY <1>1 DEF Inv, ToldOK, Heard, Reported
    <2> QED  BY <1>1, <2>1 DEF NothingIsLost
<1> QED  BY <1>1, DateInvariant, PreparedDataAreSound, EnginesReturn, PTL
=============================================================================
