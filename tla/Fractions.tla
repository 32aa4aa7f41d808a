------------------------------ MODULE Fractions ------------------------------
(* Exact fractions, for the averages and rates the strategy keeps as floats. *)
EXTENDS Integers

LOCAL gcd[a \in Nat, b \in Nat] == IF b = 0 THEN a ELSE gcd[b, a % b]
LOCAL Abs(n) == IF n < 0 THEN -n ELSE n

Frac(n, d) == LET g == gcd[Abs(n), d] IN [n |-> n \div g, d |-> d \div g]
Whole(n) == [n |-> n, d |-> 1]
Zero == Whole(0)

Plus(x, y) == Frac(x.n * y.d + y.n * x.d, x.d * y.d)
Neg(x) == [x EXCEPT !.n = -@]
Minus(x, y) == Plus(x, Neg(y))
Scaled(x, k) == Frac(x.n * k, x.d)
AtLeast(x, y) == x.n * y.d >= y.n * x.d
Above(x, y) == ~AtLeast(y, x)
=============================================================================
