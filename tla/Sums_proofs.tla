------------------------------ MODULE Sums_proofs ------------------------------
(***************************************************************************)
(* The least natural of a set, induction, recursion, and facts about SumTo. *)
(***************************************************************************)
EXTENDS Sums, WellFoundedInduction, TLAPS

\* A non-empty set of naturals has a least element.
LEMMA LeastNatural ==
    ASSUME NEW S, S \subseteq Nat, S # {}
    PROVE  \E x \in S : \A y \in S : x <= y
<1>1. PICK x \in S : \A y \in S : <<y, x>> \notin OpToRel(<, Nat)
    BY NatLessThanWellFounded, WFMin
<1>2. ASSUME NEW y \in S PROVE x <= y
    <2>1. CASE y < x
        <3>1. <<y, x>> \in Nat \X Nat /\ <<y, x>>[1] < <<y, x>>[2]
            BY <2>1
        <3>2. <<y, x>> \in OpToRel(<, Nat)
            BY <3>1 DEF OpToRel
        <3> QED  BY <1>1, <3>2
    <2> QED  BY <2>1
<1> QED  BY <1>2

\* Induction over the naturals, with a set for the property.
LEMMA Induction ==
    ASSUME NEW S, 0 \in S, \A n \in Nat : n \in S => n + 1 \in S
    PROVE  Nat \subseteq S
<1> SUFFICES ASSUME Nat \ S # {} PROVE FALSE
    OBVIOUS
<1>1. PICK x \in Nat \ S : \A y \in Nat \ S : x <= y
    BY LeastNatural
<1>2. x \in Nat /\ x # 0 /\ x - 1 \in Nat /\ ~(x <= x - 1) /\ (x - 1) + 1 = x
    BY <1>1
<1>3. x - 1 \in S
    BY <1>1, <1>2
<1> QED  BY <1>1, <1>2, <1>3

\* The function that adds up f, as SumTo defines it.
Adds(s, f, n) == s = [k \in 0..n |-> IF k = 0 THEN 0 ELSE s[k - 1] + f[k]]

LEMMA SumsAgree ==
    ASSUME NEW n \in Nat, NEW m \in Nat, NEW f, NEW g, NEW s, NEW t, n <= m,
           \A k \in 1..n : f[k] = g[k], Adds(s, f, n), Adds(t, g, m)
    PROVE  \A k \in 0..n : s[k] = t[k]
<1> DEFINE S == {k \in Nat : k <= n => s[k] = t[k]}
<1>1. 0 \in S
    BY DEF Adds
<1>2. \A k \in Nat : k \in S => k + 1 \in S
    <2> SUFFICES ASSUME NEW k \in Nat, k \in S, k + 1 <= n PROVE s[k + 1] = t[k + 1]
        OBVIOUS
    <2>1. k + 1 \in 0..n /\ k + 1 \in 0..m /\ k + 1 # 0 /\ (k + 1) - 1 = k /\ k + 1 \in 1..n /\ k <= n
        OBVIOUS
    <2>2. s[k + 1] = s[k] + f[k + 1]
        BY <2>1 DEF Adds
    <2>3. t[k + 1] = t[k] + g[k + 1]
        BY <2>1 DEF Adds
    <2>4. s[k] = t[k] /\ f[k + 1] = g[k + 1]
        BY <2>1
    <2> QED  BY <2>2, <2>3, <2>4
<1>3. Nat \subseteq S
    <2> HIDE DEF S
    <2> QED  BY <1>1, <1>2, Induction
<1> QED  BY <1>3

LEMMA SumExists ==
    ASSUME NEW f, NEW n \in Nat
    PROVE  \E s : Adds(s, f, n)
<1> DEFINE S == {m \in Nat : \E s : Adds(s, f, m)}
<1>1. 0 \in S
    <2>1. Adds([k \in 0..0 |-> 0], f, 0)
        BY DEF Adds
    <2> QED  BY <2>1
<1>2. \A m \in Nat : m \in S => m + 1 \in S
    <2> SUFFICES ASSUME NEW m \in Nat, NEW s, Adds(s, f, m) PROVE \E t : Adds(t, f, m + 1)
        OBVIOUS
    <2> DEFINE t == [k \in 0..(m + 1) |-> IF k = m + 1 THEN s[m] + f[m + 1] ELSE s[k]]
    <2>1. \A k \in 0..(m + 1) : t[k] = IF k = 0 THEN 0 ELSE t[k - 1] + f[k]
        <3> SUFFICES ASSUME NEW k \in 0..(m + 1) PROVE t[k] = IF k = 0 THEN 0 ELSE t[k - 1] + f[k]
            OBVIOUS
        <3>1. CASE k = m + 1
            <4>1. k # 0 /\ k - 1 = m /\ m \in 0..(m + 1) /\ m # m + 1
                BY <3>1
            <4> QED  BY <3>1, <4>1
        <3>2. CASE k # m + 1 /\ k # 0
            <4>1. k \in 0..m /\ k - 1 \in 0..(m + 1) /\ k - 1 # m + 1
                BY <3>2
            <4>2. s[k] = s[k - 1] + f[k]
                BY <3>2, <4>1 DEF Adds
            <4> QED  BY <3>2, <4>1, <4>2
        <3>3. CASE k = 0
            <4>1. s[0] = 0 /\ 0 # m + 1 /\ 0 \in 0..(m + 1)
                BY DEF Adds
            <4> QED  BY <3>3, <4>1
        <3> QED  BY <3>1, <3>2, <3>3
    <2>2. Adds(t, f, m + 1)
        BY <2>1, Zenon DEF Adds
    <2> QED  BY <2>2
<1>3. Nat \subseteq S
    <2> HIDE DEF S
    <2> QED  BY <1>1, <1>2, Induction
<1> QED  BY <1>3

LEMMA SumToIsSum ==
    ASSUME NEW f, NEW n \in Nat
    PROVE  \E s : Adds(s, f, n) /\ SumTo(f, n) = s[n]
<1> DEFINE s == CHOOSE s : s = [k \in 0..n |-> IF k = 0 THEN 0 ELSE s[k - 1] + f[k]]
<1>1. Adds(s, f, n)
    BY SumExists, Zenon DEF Adds
<1>2. SumTo(f, n) = s[n]
    BY Zenon DEF SumTo
<1> QED  BY <1>1, <1>2, Zenon

\* What is added up to n depends on the summands up to n only.
LEMMA SumsEqual ==
    ASSUME NEW n \in Nat, NEW f, NEW g, \A k \in 1..n : f[k] = g[k]
    PROVE  SumTo(f, n) = SumTo(g, n)
<1>1. PICK s : Adds(s, f, n) /\ SumTo(f, n) = s[n]
    BY SumToIsSum
<1>2. PICK t : Adds(t, g, n) /\ SumTo(g, n) = t[n]
    BY SumToIsSum
<1>3. \A k \in 0..n : s[k] = t[k]
    BY <1>1, <1>2, SumsAgree
<1> QED  BY <1>1, <1>2, <1>3

LEMMA SumNothing ==
    ASSUME NEW f
    PROVE  SumTo(f, 0) = 0
<1>1. PICK s : Adds(s, f, 0) /\ SumTo(f, 0) = s[0]
    BY SumToIsSum
<1> QED  BY <1>1 DEF Adds

LEMMA SumOneMore ==
    ASSUME NEW n \in Nat, NEW f
    PROVE  SumTo(f, n + 1) = SumTo(f, n) + f[n + 1]
<1>1. PICK s : Adds(s, f, n) /\ SumTo(f, n) = s[n]
    BY SumToIsSum
<1>2. PICK t : Adds(t, f, n + 1) /\ SumTo(f, n + 1) = t[n + 1]
    BY SumToIsSum
<1>3. s[n] = t[n]
    BY <1>1, <1>2, SumsAgree
<1>4. n + 1 \in 0..(n + 1) /\ n + 1 # 0 /\ (n + 1) - 1 = n
    OBVIOUS
<1>5. t[n + 1] = t[n] + f[n + 1]
    BY <1>2, <1>4 DEF Adds
<1> QED  BY <1>1, <1>2, <1>3, <1>5

LEMMA SumIsInt ==
    ASSUME NEW n \in Nat, NEW f, \A k \in 1..n : f[k] \in Int
    PROVE  SumTo(f, n) \in Int
<1> DEFINE S == {m \in Nat : m <= n => SumTo(f, m) \in Int}
<1>1. 0 \in S
    BY SumNothing
<1>2. \A m \in Nat : m \in S => m + 1 \in S
    <2> SUFFICES ASSUME NEW m \in Nat, m \in S, m + 1 <= n PROVE SumTo(f, m + 1) \in Int
        OBVIOUS
    <2>1. SumTo(f, m) \in Int /\ f[m + 1] \in Int
        OBVIOUS
    <2> QED  BY <2>1, SumOneMore
<1>3. Nat \subseteq S
    <2> HIDE DEF S
    <2> QED  BY <1>1, <1>2, Induction
<1> QED  BY <1>3

\* Greater summands add up to a greater sum.
LEMMA SumIsMonotone ==
    ASSUME NEW n \in Nat, NEW f, NEW g, \A k \in 1..n : f[k] \in Int /\ g[k] \in Int /\ f[k] <= g[k]
    PROVE  SumTo(f, n) <= SumTo(g, n)
<1> DEFINE S == {m \in Nat : m <= n => SumTo(f, m) <= SumTo(g, m)}
<1>1. 0 \in S
    BY SumNothing
<1>2. \A m \in Nat : m \in S => m + 1 \in S
    <2> SUFFICES ASSUME NEW m \in Nat, m \in S, m + 1 <= n PROVE SumTo(f, m + 1) <= SumTo(g, m + 1)
        OBVIOUS
    <2>1. /\ SumTo(f, m) <= SumTo(g, m) /\ f[m + 1] <= g[m + 1]
          /\ f[m + 1] \in Int /\ g[m + 1] \in Int
        OBVIOUS
    <2>2. SumTo(f, m) \in Int /\ SumTo(g, m) \in Int
        BY SumIsInt
    <2>3. /\ SumTo(g, m + 1) = SumTo(g, m) + g[m + 1]
          /\ SumTo(f, m + 1) = SumTo(f, m) + f[m + 1]
        BY SumOneMore
    <2> QED  BY <2>1, <2>2, <2>3
<1>3. Nat \subseteq S
    <2> HIDE DEF S
    <2> QED  BY <1>1, <1>2, Induction
<1> QED  BY <1>3

\* A sum of zeros.
LEMMA SumOfZeros ==
    ASSUME NEW n \in Nat, NEW f, \A k \in 1..n : f[k] = 0
    PROVE  SumTo(f, n) = 0
<1> DEFINE S == {m \in Nat : m <= n => SumTo(f, m) = 0}
<1>1. 0 \in S
    BY SumNothing
<1>2. \A m \in Nat : m \in S => m + 1 \in S
    <2> SUFFICES ASSUME NEW m \in Nat, m \in S, m + 1 <= n PROVE SumTo(f, m + 1) = 0
        OBVIOUS
    <2>1. SumTo(f, m) = 0 /\ f[m + 1] = 0
        OBVIOUS
    <2> QED  BY <2>1, SumOneMore
<1>3. Nat \subseteq S
    <2> HIDE DEF S
    <2> QED  BY <1>1, <1>2, Induction
<1> QED  BY <1>3

\* One summand that changes changes the sum by as much.
LEMMA SumMoves ==
    ASSUME NEW n \in Nat, NEW f, NEW g, NEW i \in 1..n,
           \A k \in 1..n : f[k] \in Int /\ g[k] \in Int,
           \A k \in 1..n : k # i => g[k] = f[k]
    PROVE  SumTo(g, n) = SumTo(f, n) - f[i] + g[i]
<1> DEFINE S == {m \in Nat : i <= m /\ m <= n => SumTo(g, m) = SumTo(f, m) - f[i] + g[i]}
<1>1. 0 \in S
    OBVIOUS
<1>2. \A m \in Nat : m \in S => m + 1 \in S
    <2> SUFFICES ASSUME NEW m \in Nat, m \in S, i <= m + 1, m + 1 <= n
                 PROVE  SumTo(g, m + 1) = SumTo(f, m + 1) - f[i] + g[i]
        OBVIOUS
    <2>1. /\ SumTo(g, m + 1) = SumTo(g, m) + g[m + 1]
          /\ SumTo(f, m + 1) = SumTo(f, m) + f[m + 1]
        BY SumOneMore
    <2>2. /\ SumTo(f, m) \in Int /\ SumTo(g, m) \in Int
          /\ f[m + 1] \in Int /\ g[m + 1] \in Int /\ f[i] \in Int /\ g[i] \in Int
        BY SumIsInt
    <2>3. CASE i = m + 1
        <3>1. SumTo(f, m) = SumTo(g, m)
            BY <2>3, SumsEqual
        <3> QED  BY <2>1, <2>2, <2>3, <3>1
    <2>4. CASE i # m + 1
        <3>1. SumTo(g, m) = SumTo(f, m) - f[i] + g[i] /\ g[m + 1] = f[m + 1]
            BY <2>4
        <3> QED  BY <2>1, <2>2, <3>1
    <2> QED  BY <2>3, <2>4
<1>3. Nat \subseteq S
    <2> HIDE DEF S
    <2> QED  BY <1>1, <1>2, Induction
<1> QED  BY <1>3

\* A sum of naturals is one.
LEMMA SumIsNatural ==
    ASSUME NEW n \in Nat, NEW f, \A k \in 1..n : f[k] \in Nat
    PROVE  SumTo(f, n) \in Nat
<1> DEFINE z == [k \in 1..n |-> 0]
<1>1. SumTo(z, n) = 0
    BY SumOfZeros
<1>2. SumTo(z, n) <= SumTo(f, n)
    <2>1. \A k \in 1..n : z[k] \in Int /\ f[k] \in Int /\ z[k] <= f[k]
        OBVIOUS
    <2> HIDE DEF z
    <2> QED  BY <2>1, SumIsMonotone
<1>3. SumTo(f, n) \in Int
    BY SumIsInt
<1> QED  BY <1>1, <1>2, <1>3

\* A sum without its first summand.
LEMMA SumOfRest ==
    ASSUME NEW n \in Nat, NEW f, NEW g, \A k \in 1..(n + 1) : f[k] \in Int,
           \A k \in 1..n : g[k] = f[k + 1]
    PROVE  SumTo(g, n) = SumTo(f, n + 1) - f[1]
<1> DEFINE S == {m \in Nat : m <= n => SumTo(g, m) = SumTo(f, m + 1) - f[1]}
<1>1. 0 \in S
    <2>1. SumTo(f, 0 + 1) = SumTo(f, 0) + f[0 + 1] /\ SumTo(f, 0) = 0 /\ SumTo(g, 0) = 0
        BY SumOneMore, SumNothing
    <2> QED  BY <2>1
<1>2. \A m \in Nat : m \in S => m + 1 \in S
    <2> SUFFICES ASSUME NEW m \in Nat, m \in S, m + 1 <= n
                 PROVE  SumTo(g, m + 1) = SumTo(f, (m + 1) + 1) - f[1]
        OBVIOUS
    <2>1. /\ SumTo(g, m + 1) = SumTo(g, m) + g[m + 1]
          /\ SumTo(f, (m + 1) + 1) = SumTo(f, m + 1) + f[(m + 1) + 1]
        BY SumOneMore
    <2>2. SumTo(g, m) = SumTo(f, m + 1) - f[1] /\ g[m + 1] = f[(m + 1) + 1]
        OBVIOUS
    <2>3. SumTo(f, m + 1) \in Int /\ f[1] \in Int /\ f[(m + 1) + 1] \in Int
        BY SumIsInt
    <2> QED  BY <2>1, <2>2, <2>3
<1>3. Nat \subseteq S
    <2> HIDE DEF S
    <2> QED  BY <1>1, <1>2, Induction
<1> QED  BY <1>3

\* One summand that changes, the summands numbered by a set.
LEMMA SumMovesAt ==
    ASSUME NEW n \in Nat, NEW K, K = 1..n, NEW f, NEW g, NEW i \in K,
           \A k \in K : f[k] \in Int /\ g[k] \in Int,
           \A k \in K : k # i => g[k] = f[k]
    PROVE  SumTo(g, n) = SumTo(f, n) - f[i] + g[i]
<1>1. PICK j \in 1..n : j = i
    OBVIOUS
<1>2. SumTo(g, n) = SumTo(f, n) - f[j] + g[j]
    BY <1>1, SumMoves
<1> QED  BY <1>1, <1>2

-----------------------------------------------------------------------------
\* Recursion over how much has been done: what is true at the start and kept by
\* every step is true of all.

LEMMA StepsStay ==
    ASSUME NEW n \in Nat, NEW D, NEW f, f[0] \in D[0],
           \A k \in 1..n : f[k - 1] \in D[k - 1] => f[k] \in D[k]
    PROVE  \A k \in 0..n : f[k] \in D[k]
<1> DEFINE S == {k \in Nat : k <= n => f[k] \in D[k]}
<1>1. 0 \in S
    OBVIOUS
<1>2. \A k \in Nat : k \in S => k + 1 \in S
    <2> SUFFICES ASSUME NEW k \in Nat, k \in S, k + 1 <= n PROVE f[k + 1] \in D[k + 1]
        OBVIOUS
    <2>1. f[k] \in D[k] /\ k + 1 \in 1..n /\ (k + 1) - 1 = k
        OBVIOUS
    <2> QED  BY <2>1
<1>3. Nat \subseteq S
    <2> HIDE DEF S
    <2> QED  BY <1>1, <1>2, Induction
<1> QED  BY <1>3

\* f goes n steps of F from e; the k-th step of F leads from D[k - 1] into D[k].
Steps(f, n, e, F) == f = [k \in 0..n |-> IF k = 0 THEN e ELSE F[k][f[k - 1]]]
StaysIn(f, n, D) == \A k \in 0..n : f[k] \in D[k]
Leads(F, n, D) == \A k \in 1..n : \A x \in D[k - 1] : F[k][x] \in D[k]

LEMMA StepsExist ==
    ASSUME NEW n \in Nat, NEW D, NEW e \in D[0], NEW F, Leads(F, n, D)
    PROVE  \E f : Steps(f, n, e, F) /\ StaysIn(f, n, D)
<1> DEFINE Part(f, m) == f = [k \in 0..m |-> IF k = 0 THEN e ELSE F[k][f[k - 1]]]
           S == {m \in Nat : \E f : Part(f, m)}
<1>1. 0 \in S
    <2>1. Part([i \in 0..0 |-> e], 0)
        OBVIOUS
    <2> QED  BY <2>1
<1>2. \A m \in Nat : m \in S => m + 1 \in S
    <2> SUFFICES ASSUME NEW m \in Nat, NEW f, Part(f, m) PROVE \E g : Part(g, m + 1)
        OBVIOUS
    <2> DEFINE g == [k \in 0..(m + 1) |-> IF k = m + 1 THEN F[m + 1][f[m]] ELSE f[k]]
    <2>1. \A k \in 0..(m + 1) : g[k] = IF k = 0 THEN e ELSE F[k][g[k - 1]]
        <3> SUFFICES ASSUME NEW k \in 0..(m + 1)
                     PROVE  g[k] = IF k = 0 THEN e ELSE F[k][g[k - 1]]
            OBVIOUS
        <3>1. CASE k = m + 1
            <4>1. k # 0 /\ k - 1 = m /\ m \in 0..(m + 1) /\ m # m + 1
                BY <3>1
            <4> QED  BY <3>1, <4>1
        <3>2. CASE k # m + 1 /\ k # 0
            <4>1. k \in 0..m /\ k - 1 \in 0..(m + 1) /\ k - 1 # m + 1
                BY <3>2
            <4>2. f[k] = F[k][f[k - 1]]
                BY <3>2, <4>1
            <4> QED  BY <3>2, <4>1, <4>2
        <3>3. CASE k = 0
            <4>1. f[0] = e /\ 0 # m + 1 /\ 0 \in 0..(m + 1)
                OBVIOUS
            <4> QED  BY <3>3, <4>1
        <3> QED  BY <3>1, <3>2, <3>3
    <2>2. Part(g, m + 1)
        BY <2>1, Zenon
    <2> QED  BY <2>2
<1>3. n \in S
    <2> HIDE DEF S
    <2> QED  BY <1>1, <1>2, Induction
<1>4. PICK f : Part(f, n)
    <2> HIDE DEF Part
    <2> QED  BY <1>3
<1>5. f[0] = e /\ \A k \in 1..n : f[k] = F[k][f[k - 1]]
    BY <1>4
<1>6. \A k \in 0..n : f[k] \in D[k]
    <2>1. \A k \in 1..n : f[k - 1] \in D[k - 1] => f[k] \in D[k]
        BY <1>5 DEF Leads
    <2> QED  BY <1>5, <2>1, StepsStay
<1> QED  BY <1>4, <1>6, Zenon DEF Steps, StaysIn
=============================================================================
