-------------------------------- MODULE Sums --------------------------------
(***************************************************************************)
(* Sums over a sequence, by recursion on how much of it is added up.  (The  *)
(* folds of the community modules take the summed operator as a parameter,  *)
(* and nothing can be proved of what they compute.)                         *)
(***************************************************************************)
EXTENDS Integers

\* f[1] + ... + f[n]
SumTo(f, n) ==
    LET sum[k \in 0..n] == IF k = 0 THEN 0 ELSE sum[k - 1] + f[k]
    IN  sum[n]
=============================================================================
