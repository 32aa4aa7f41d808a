------------------------------- MODULE MCFeed -------------------------------
(* Instances of FeedEvents: four quotes of a two-level feed.               *)
EXTENDS FeedEvents

L(px, qty) == [px |-> px, qty |-> qty]

\* a plain quote; a lower one with a repeated price and an unpriced first
\* bid; an emptied ask side with a missing quantity; a trial-match row
MCPlain == [bids |-> <<L(4, 2), L(3, 1)>>, asks |-> <<L(5, 1), L(6, 2)>>,
            last |-> 5, trial |-> FALSE]
MCLower == [bids |-> <<L(0, 7), L(2, 1), L(2, 3)>>, asks |-> <<L(3, 2)>>,
            last |-> 3, trial |-> FALSE]
MCOneSided == [bids |-> <<L(6, Missing), L(3, 4), L(1, 2)>>, asks |-> <<>>,
               last |-> 4, trial |-> FALSE]
MCTrial == [bids |-> <<>>, asks |-> <<>>, last |-> 4, trial |-> TRUE]
MCTrialUnpriced == [bids |-> <<L(4, 1)>>, asks |-> <<L(0, 9), L(5, 1)>>,
                    last |-> 4, trial |-> TRUE]
MCSilent == [bids |-> <<>>, asks |-> <<>>, last |-> 0, trial |-> FALSE]

MCQuotes == {MCPlain, MCLower, MCOneSided, MCTrial, MCTrialUnpriced, MCSilent}
MCLatencies == {-2, 0, 1}
=============================================================================
