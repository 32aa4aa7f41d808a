----------------------------- MODULE MCPortfolio -----------------------------
(* An instance of Portfolio at the end of a decade: months of four days, the  *)
(* third Wednesday on the third of them.  The day before the Wednesday of the *)
(* first contract is its last trading day, 478 being a holiday; the second    *)
(* contract is delivered in the first month of the next decade.               *)
EXTENDS Reports

MCDelivery == (1 :> 119) @@ (2 :> 120)
MCDates == <<476, 477, 482>>
MCCalendar == {472, 474, 475, 476, 477, 479, 480, 481, 482, 483, 486}
MCExcluded == {<<477, 2>>}
MCOutcomes == {<<>>, <<"SHORT">>, <<"EXIT">>, <<"LONG", "LONG", "EXIT">>, <<"SHORT", "EXIT", "LONG">>}
MCQuote == (1 :> [spot |-> 10, future |-> 14, shares |-> 2, multiplier |-> 2, mark |-> 11, gain |-> 3])
        @@ (2 :> [spot |-> 20, future |-> 19, shares |-> 1, multiplier |-> 2, mark |-> 18, gain |-> -4])
MCFlattenGain == (<<476, 1>> :> -5) @@ (<<477, 1>> :> 4) @@ (<<482, 1>> :> 3)
              @@ (<<476, 2>> :> 7) @@ (<<477, 2>> :> 0) @@ (<<482, 2>> :> -2)
MCIntervals == <<[from |-> 470, to |-> 476, excluded |-> {}], [from |-> 477, to |-> 490, excluded |-> {482}]>>
MCNotional == (1 :> [spot |-> 40, future |-> 40, fee |-> 1]) @@ (2 :> [spot |-> 60, future |-> 30, fee |-> 0])
=============================================================================
