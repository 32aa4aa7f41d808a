------------------------------- MODULE MCTable -------------------------------
(* Instances of CompactTable: a symbol under two raw names.                *)
EXTENDS CompactTable

L(px, qty) == [px |-> px, qty |-> qty]

Delivery(bids, asks, loc, status, name, traded) ==
    [bids |-> bids, asks |-> asks, loc |-> loc, status |-> status, name |-> name,
     traded |-> traded]

Trial == 2^23 + 2^22 + 1

\* a repeated price and an unpriced first bid; a one-sided row with a missing
\* quantity and no local stamp; a late trial-match row; a row without levels,
\* seen before it is stamped; a row under the padded name
MCDeliveries ==
    {Delivery(<<L(0, 7), L(2, 1), L(2, 3), L(1, 1)>>, <<L(4, 1), L(3, 2), L(5, 1)>>,
              2, 2^22, "plain", 1),
     Delivery(<<L(6, Missing)>>, <<>>, 0, 2^24, "plain", 0),
     Delivery(<<L(4, 1)>>, <<L(4, 2), L(6, 1)>>, 4, Trial, "plain", 1),
     Delivery(<<>>, <<>>, 1, 0, "plain", 1),
     Delivery(<<L(2, 2), L(1, 2)>>, <<L(3, 1)>>, 3, 0, "padded", 1)}
MCNames == <<"padded", "plain">>
MCSession == [from |-> 2, to |-> 3]
MCNothing == {}
=============================================================================
