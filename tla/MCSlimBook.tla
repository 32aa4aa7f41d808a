----------------------------- MODULE MCSlimBook -----------------------------
(***************************************************************************)
(* A ladder of a few ticks, two price units per tick (so half a tick rounds *)
(* up), fed with every row over the run's prices.  A side that is not       *)
(* quoted carries no quantity, and what a non-tradable row quotes does not  *)
(* matter, so one such row stands for all.                                  *)
(***************************************************************************)
EXTENDS SlimBook

CONSTANTS Prices, Quantity

MCRows ==
    { [ bid |-> b, ask |-> a, bidQty |-> IF b = 0 THEN 0 ELSE Quantity,
        askQty |-> IF a = 0 THEN 0 ELSE Quantity, tradable |-> TRUE ] :
        b \in Prices, a \in Prices }
    \cup {NoRow}
=============================================================================
