---------------------------- MODULE MCSlimEngine ----------------------------
(***************************************************************************)
(* Small markets for the engine.  Asset 0 has two rows, asset 1 one; the    *)
(* timestamps, the order latencies and the second quote of asset 0 range    *)
(* over every combination of the run's choices, so that rows, requests and  *)
(* responses of both assets meet on the same timestamps in every order.     *)
(***************************************************************************)
EXTENDS SlimEngineTimeline, TLC

CONSTANTS ExchTimes, FeedLags, EntryLags, ResponseLags

Quote(exch, local, bid, ask, tradable) ==
    [ exch |-> exch, local |-> local, bid |-> bid, ask |-> ask,
      bidQty |-> IF bid = 0 THEN 0 ELSE 1, askQty |-> IF ask = 0 THEN 0 ELSE 1,
      tradable |-> tradable ]

Market(rows, offset, entry, response) ==
    [ rows |-> rows, adjustment |-> 0, offset |-> offset,
      entry |-> entry, response |-> response ]

\* The book moves up, is halted, or loses its ask side.
SecondQuotes == { <<2, 3, TRUE>>, <<0, 0, FALSE>>, <<1, 0, TRUE>> }

Left(e1, e2, lag, q, entry, response) ==
    Market((1 :> Quote(e1, e1, 1, 2, TRUE)) @@ (2 :> Quote(e2, e2, q[1], q[2], q[3])),
           lag, entry, response)

Right(e, entry, response) == Market((1 :> Quote(e, e, 1, 2, TRUE)), 0, entry, response)

MCScenarios ==
    { (0 :> Left(e1, e2, lag, q, entry, response)) @@ (1 :> Right(e2, entry, response)) :
        e1 \in {1}, e2 \in ExchTimes, lag \in FeedLags, q \in SecondQuotes,
        entry \in EntryLags, response \in ResponseLags }
\* Only asset 0 has rows: several orders share one asset and one clock.
MCOneAsset ==
    { (0 :> Left(1, e2, 0, <<0, 0, FALSE>>, entry, response)) @@
      (1 :> Market(<<>>, 0, 0, 0)) :
        e2 \in ExchTimes, entry \in EntryLags, response \in ResponseLags }
MCOrderPerAsset == { <<0, 1>>, <<1, 1>> }
MCTwoOrders     == { <<0, 1>>, <<0, 2>> }
=============================================================================
