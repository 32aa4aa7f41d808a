-------------------------------- MODULE MCPair --------------------------------
(* Small instances of PairExecution: data of a few rows, and configurations  *)
(* that differ in what a pair order waits for.                               *)
EXTENDS PairExecution

Base == [rows |-> [stock |-> {1, 3, 6, 8}, future |-> {2, 5, 9}], first |-> "future",
         enter |-> [stock |-> 1, future |-> 0], respond |-> [stock |-> 0, future |-> 1],
         timeout |-> 1, delay |-> 0, mode |-> "none", feedTimeout |-> 2, poll |-> 1,
         check |-> TRUE, flatten |-> TRUE, maxTrades |-> 4]

MCTimes == 0..16

MCConfigs == {
    Base,
    [Base EXCEPT !.first = "stock", !.flatten = FALSE, !.rows.stock = {1, 2, 3, 4, 5}],
    [Base EXCEPT !.delay = 2, !.mode = "stock"],
    [Base EXCEPT !.mode = "any"], [Base EXCEPT !.mode = "both", !.timeout = 0],
    [Base EXCEPT !.rows.future = {3, 6}, !.rows.stock = {3, 4, 6}, !.enter = [stock |-> 0, future |-> 0],
                 !.respond = [stock |-> 0, future |-> 0], !.timeout = 0],
    [Base EXCEPT !.enter = [stock |-> 2, future |-> 0]],
    [Base EXCEPT !.enter = [stock |-> 0, future |-> 0], !.respond = [stock |-> 3, future |-> 2]]}
=============================================================================
